---------------------------- MODULE RegisterFile ----------------------------
(***************************************************************************)
(* What librorc::bar promises its callers: registers whose accesses take    *)
(* effect one at a time, each between its call and its return, and a read   *)
(* that returns what it found then.                                        *)
(***************************************************************************)
EXTENDS BarAccess

CONSTANTS Thread, Op

VARIABLES
    reg,      \* 16-bit halves of the registers
    call,     \* what each thread asks for, and how far it is
    result    \* what each thread's last read returned

vars == <<reg, call, result>>

Idle == [at |-> "idle"]

Init ==
    /\ reg = [cell \in Addr \X Halves |-> Zero]
    /\ call = [t \in Thread |-> Idle] /\ result = [t \in Thread |-> Nothing]

Invoke(t) ==
    /\ call[t] = Idle
    /\ \E op \in Op[t] : \E c \in Calls(op) :
        call' = [call EXCEPT ![t] = [at |-> "called", c |-> c]]
    /\ UNCHANGED <<reg, result>>

Take(t) ==
    /\ call[t].at = "called"
    /\ LET c == call[t].c IN
        /\ call' = [call EXCEPT ![t] =
                        [at |-> "taken", c |-> c, found |-> Found(reg, c)]]
        /\ reg' = IF IsWrite(c) THEN Written(reg, c) ELSE reg
    /\ UNCHANGED <<result>>

Return(t) ==
    /\ call[t].at = "taken"
    /\ result' = [result EXCEPT ![t] = call[t].found]
    /\ call' = [call EXCEPT ![t] = Idle]
    /\ UNCHANGED <<reg>>

Next == \E t \in Thread : Invoke(t) \/ Take(t) \/ Return(t)

Spec == Init /\ [][Next]_vars
=============================================================================
