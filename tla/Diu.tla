-------------------------------- MODULE Diu --------------------------------
(***************************************************************************)
(* The detector link of a channel as a readout program drives it through     *)
(* librorc::diu: commands sent to the DIU, the SIU and the front-end, the    *)
(* status words polled for their answers with a bounded number of polls, and *)
(* the reset/enable sequence around a run (configureDiu(), unconfigureDiu()).*)
(*                                                                          *)
(* A call is the sequence "todo" of the register accesses left to do; each   *)
(* access carries what an early return or a break skips when it fails.  A    *)
(* status word register keeps the last answer received, or NoAnswer, which   *)
(* is 0xffffffff.  The link and the units at its other end are external:     *)
(* they answer in the order the commands were sent, at any time, or never.   *)
(***************************************************************************)
EXTENDS Integers, Sequences, FiniteSets

CONSTANTS
    Timeout,        \* LIBRORC_DIU_TIMEOUT: the polls of one wait
    SerialLength,   \* bytes readRemoteSerial() asks for (50)
    InterfaceCommands,  \* commands answered by an interface status word, all
                    \* alike: R&CIFSTW to the DIU and to the SIU, LINIT, LRST
    MaxCommands     \* bound: commands sent in a behaviour

ASSUME BoundsAssumption == Timeout \in Nat /\ SerialLength \in Nat /\ MaxCommands \in Nat

\* The command codes differ from each other.
ASSUME CommandsAssumption ==
    InterfaceCommands \cap {"EOBTR", "RDYRX", "SIU_RST", "HWVERS", "none"} = {}

VARIABLES
    todo,        \* accesses the running call has left
    timeout,     \* local of the running wait
    ret,         \* what the last wait returned: 0, -1
    serial,      \* local of readRemoteSerial(): the bytes so far
    configured,  \* between configureDataSource() and unconfigureDataSource()
    reset, enabled, linkUp,  \* DDL_CTRL bits 31, 0, 5
    words,       \* the last status words
    line,        \* commands sent and not answered yet
    fee,         \* the front-end has leave to send event data
    command,     \* DDL_CMD: the last command sent
    sent,        \* number of commands sent
    outcome,     \* history: how the last wait for each command ended
    expired      \* history: words whose answer may be late: a wait timed out,
                 \* ended with another command's answer, or never began

hostVars    == <<todo, timeout, ret, serial, configured>>
ctrlVars    == <<reset, enabled, linkUp>>
historyVars == <<outcome, expired>>
vars == <<hostVars, ctrlVars, words, line, fee, command, sent, historyVars>>

Words    == {"CTSTW", "IFSTW", "FESTW"}
Commands == {"EOBTR", "RDYRX", "SIU_RST", "HWVERS"} \cup InterfaceCommands

NoAnswer   == [id |-> 0, cmd |-> "none", addr |-> 0, error |-> FALSE]
Answers    == [id : 1..MaxCommands, cmd : Commands, addr : 0..SerialLength, error : BOOLEAN]

\* The register an answer to c arrives in; the reset of the SIU is answered
\* with either word.
AnsweredIn(c) == CASE c \in {"EOBTR", "RDYRX"} -> {"CTSTW"}
                   [] c = "SIU_RST" -> {"CTSTW", "IFSTW"}
                   [] c = "HWVERS" -> {"FESTW"}
                   [] OTHER -> {"IFSTW"}

-----------------------------------------------------------------------------
(* The calls, as sequences of accesses.                                     *)

Access(do, arg, addr, skip) == [do |-> do, arg |-> arg, addr |-> addr, skip |-> skip]

\* Mutant of Command: always clears IFSTW, as sendSiuResetCmd() does.
CommandClearsIfstw(word, c, addr, answer, skip) ==
    << Access("clear", "IFSTW", 0, 0), Access("send", c, addr, 0), Access("wait", answer, 0, skip) >>

\* Clear word, send c, wait for word "answer".
Command(word, c, addr, answer, skip) ==
    << Access("clear", word, 0, 0), Access("send", c, addr, 0), Access("wait", answer, 0, skip) >>

sendFeeReadyToReceiveCmd    == Command("CTSTW", "RDYRX", 0, "CTSTW", 0)
sendFeeEndOfBlockTransferCmd == Command("CTSTW", "EOBTR", 0, "CTSTW", 0)
sendSiuResetCmd             == Command("IFSTW", "SIU_RST", 0, "CTSTW", 0)
InterfaceCmd(c)             == Command("IFSTW", c, 0, "IFSTW", 0)
readRemoteHwVersion(addr, skip) == Command("FESTW", "HWVERS", addr, "FESTW", skip)

toggleDdlReset(skip) ==
    << Access("reset", "1", 0, 0), Access("reset", "0", 0, 0), Access("linkup", "none", 0, skip) >>

\* The result of sendSiuResetCmd() is unsigned, so that it is never below 0.
prepareForSiuData ==
    toggleDdlReset(Len(sendSiuResetCmd) + Len(toggleDdlReset(0)))
        \o sendSiuResetCmd \o toggleDdlReset(0)

prepareForDiuData == toggleDdlReset(0)

Prepared == Access("enable", "1", 0, 0)

configureDiu(source) ==
    IF source = "SIU" THEN prepareForSiuData \o <<Prepared>> \o sendFeeReadyToReceiveCmd
                      ELSE prepareForDiuData \o <<Prepared>>

\* Mutant of unconfigureDiu: disables before EOBTR.
UnconfigureDisableFirst(eobtr) ==
    <<Access("enable", "0", 0, 0)>> \o (IF eobtr THEN sendFeeEndOfBlockTransferCmd ELSE <<>>)

unconfigureDiu(eobtr) ==
    (IF eobtr THEN sendFeeEndOfBlockTransferCmd ELSE <<>>) \o <<Access("enable", "0", 0, 0)>>

\* A missing answer leaves the loop over the addresses.
readRemoteSerial ==
    [k \in 1..3 * SerialLength |->
        LET addr == (k - 1) \div 3 IN
        readRemoteHwVersion(addr, 3 * (SerialLength - addr - 1))[1 + ((k - 1) % 3)]]

-----------------------------------------------------------------------------
Init ==
    /\ todo = <<>> /\ timeout = Timeout /\ ret = 0 /\ serial = <<>> /\ configured = "no"
    /\ reset \in BOOLEAN /\ enabled = FALSE /\ linkUp \in BOOLEAN
    /\ words = [w \in Words |-> NoAnswer]
    /\ line = <<>> /\ fee = FALSE /\ command = "none" /\ sent = 0
    /\ outcome = [c \in Commands |-> "none"] /\ expired = {}

Sends(call) == Cardinality({k \in DOMAIN call : call[k].do = "send"})

\* A call starts only if the bound lets it send all of its commands.
Begin(call) ==
    /\ todo = <<>>
    /\ sent + Sends(call) <= MaxCommands
    /\ todo' = call
    /\ UNCHANGED <<timeout, ret, ctrlVars, words, line, fee, command, sent, expired>>

Configure(source) ==
    /\ configured = "no" /\ Begin(configureDiu(source))
    /\ configured' = source
    /\ UNCHANGED <<serial, outcome>>

\* EOBTR is sent only to a link that is up.
Unconfigure ==
    LET eobtr == configured = "SIU" /\ linkUp IN
    /\ configured # "no" /\ Begin(unconfigureDiu(eobtr))
    /\ configured' = "no"
    /\ outcome' = [outcome EXCEPT !["EOBTR"] = IF eobtr THEN "none" ELSE "skipped"]
    /\ UNCHANGED serial

\* ddlctrl reads the serial number of a link that is up.
ReadSerial ==
    /\ linkUp /\ Begin(readRemoteSerial)
    /\ serial' = <<>>
    /\ UNCHANGED <<configured, outcome>>

\* Any other command of the interface.
SingleCommand ==
    /\ \/ \E c \in InterfaceCommands : Begin(InterfaceCmd(c))
       \/ configured = "no" /\ Begin(sendSiuResetCmd)
    /\ UNCHANGED <<serial, configured, outcome>>

\* ddlctrl sends a command to a link that is up, and neither clears the word of
\* its answer nor waits for it.
SendUnanswered ==
    /\ todo = <<>> /\ linkUp /\ sent < MaxCommands
    /\ sent' = sent + 1
    /\ \E c \in InterfaceCommands :
        /\ command' = c
        /\ line' = Append(line, [id |-> sent + 1, cmd |-> c, addr |-> 0])
        /\ expired' = expired \cup AnsweredIn(c)
    /\ UNCHANGED <<hostVars, ctrlVars, words, fee, outcome>>

-----------------------------------------------------------------------------
(* The accesses.                                                            *)

Doing(do) == todo # <<>> /\ Head(todo).do = do
Arg       == Head(todo).arg
Done      == todo' = Tail(todo)
\* The early return, or the break, of a failed access.
Failed    == todo' = SubSeq(todo, 2 + Head(todo).skip, Len(todo))

clearLastStatusWord ==
    /\ Doing("clear") /\ Done
    /\ words' = [words EXCEPT ![Arg] = NoAnswer]
    /\ UNCHANGED <<timeout, ret, serial, configured, ctrlVars, line, fee, command, sent, historyVars>>

sendCommand ==
    /\ Doing("send") /\ Done
    /\ sent' = sent + 1 /\ command' = Arg
    /\ line' = Append(line, [id |-> sent + 1, cmd |-> Arg, addr |-> Head(todo).addr])
    /\ outcome' = [outcome EXCEPT ![Arg] = "none"]
    /\ UNCHANGED <<timeout, ret, serial, configured, ctrlVars, words, fee, expired>>

\* Mutant of CountDown: no bound on the polls.
CountNot == timeout

PollsLeft == timeout # 0
CountDown == timeout - 1

Answered == words[Arg] # NoAnswer

\* Another turn of the polling loop.
PollStatusWord ==
    /\ Doing("wait") /\ ~Answered /\ PollsLeft
    /\ timeout' = CountDown
    /\ UNCHANGED <<todo, ret, serial, configured, ctrlVars, words, line, fee, command, sent, historyVars>>

\* A wait belongs to the last command sent, and its answer has that number.
Outcome(answer) == IF answer.id # sent THEN "foreign" ELSE IF answer.error THEN "error" ELSE "own"

GotStatusWord ==
    /\ Doing("wait") /\ Answered /\ Done
    /\ timeout' = Timeout /\ ret' = 0
    /\ serial' = IF Arg = "FESTW" THEN Append(serial, words[Arg]) ELSE serial
    /\ outcome' = [outcome EXCEPT ![command] = Outcome(words[Arg])]
    /\ expired' = IF words[Arg].id = sent THEN expired ELSE expired \cup AnsweredIn(command)
    /\ UNCHANGED <<configured, ctrlVars, words, line, fee, command, sent>>

StatusWordTimeout ==
    /\ Doing("wait") /\ ~Answered /\ ~PollsLeft /\ Failed
    /\ timeout' = Timeout /\ ret' = -1
    /\ outcome' = [outcome EXCEPT ![command] = "timeout"]
    /\ expired' = expired \cup AnsweredIn(command)
    /\ UNCHANGED <<serial, configured, ctrlVars, words, line, fee, command, sent>>

\* A reset takes the link down, and may clear the status words.
setReset ==
    /\ Doing("reset") /\ Done
    /\ reset' = (Arg = "1")
    /\ linkUp' = (linkUp /\ Arg # "1")
    /\ words' \in {words, [w \in Words |-> NoAnswer]}
    /\ UNCHANGED <<timeout, ret, serial, configured, enabled, line, fee, command, sent, historyVars>>

PollLinkUp ==
    /\ Doing("linkup") /\ ~linkUp /\ PollsLeft
    /\ timeout' = CountDown
    /\ UNCHANGED <<todo, ret, serial, configured, ctrlVars, words, line, fee, command, sent, historyVars>>

\* What waitForLinkUp() returns depends on the polls left, not on the link.
LinkUpReturns == IF timeout = 0 THEN -1 ELSE 0

waitForLinkUpReturns ==
    /\ Doing("linkup") /\ (linkUp \/ ~PollsLeft)
    /\ ret' = LinkUpReturns
    /\ IF ret' < 0 THEN Failed ELSE Done
    /\ timeout' = Timeout
    /\ UNCHANGED <<serial, configured, ctrlVars, words, line, fee, command, sent, historyVars>>

setEnable ==
    /\ Doing("enable") /\ Done
    /\ enabled' = (Arg = "1")
    /\ UNCHANGED <<timeout, ret, serial, configured, reset, linkUp, words, line, fee, command, sent, historyVars>>

Host ==
    \/ clearLastStatusWord \/ sendCommand
    \/ PollStatusWord \/ GotStatusWord \/ StatusWordTimeout
    \/ setReset \/ PollLinkUp \/ waitForLinkUpReturns \/ setEnable

-----------------------------------------------------------------------------
(* The link and the units (external).                                       *)

LinkComesUp ==
    /\ ~reset /\ ~linkUp /\ linkUp' = TRUE
    /\ UNCHANGED <<hostVars, reset, enabled, words, line, fee, command, sent, historyVars>>

LinkGoesDown ==
    /\ linkUp /\ linkUp' = FALSE
    /\ UNCHANGED <<hostVars, reset, enabled, words, line, fee, command, sent, historyVars>>

\* The front-end after command c was carried out.
FeeAfter(c) == IF c = "RDYRX" THEN TRUE ELSE IF c \in {"EOBTR", "SIU_RST"} THEN FALSE ELSE fee

\* A command that fails may or may not have been carried out.
Answer ==
    /\ line # <<>> /\ linkUp
    /\ \E error \in BOOLEAN, w \in AnsweredIn(Head(line).cmd) :
        /\ words' = [words EXCEPT ![w] = [id |-> Head(line).id, cmd |-> Head(line).cmd,
                                          addr |-> Head(line).addr, error |-> error]]
        /\ fee' \in {FeeAfter(Head(line).cmd)} \cup (IF error THEN {fee} ELSE {})
    /\ line' = Tail(line)
    /\ UNCHANGED <<hostVars, ctrlVars, command, sent, historyVars>>

Lose ==
    /\ line # <<>> /\ line' = Tail(line)
    /\ UNCHANGED <<hostVars, ctrlVars, words, fee, command, sent, historyVars>>

Link == LinkComesUp \/ LinkGoesDown \/ Answer \/ Lose

Calls ==
    \/ \E source \in {"SIU", "DIU"} : Configure(source)
    \/ Unconfigure \/ ReadSerial \/ SingleCommand
    \/ Host \/ Link

Next == Calls \/ SendUnanswered

Spec == Init /\ [][Next]_vars

\* The program keeps running; nothing is asked of the link.
FairSpec == Spec /\ WF_vars(Host)

-----------------------------------------------------------------------------
TypeOK ==
    /\ timeout \in 0..Timeout /\ ret \in {-1, 0}
    /\ \A k \in DOMAIN todo : todo[k].skip < Len(todo) - k + 1
    /\ \A k \in DOMAIN serial : serial[k] \in Answers
    /\ configured \in {"no", "SIU", "DIU"}
    /\ reset \in BOOLEAN /\ enabled \in BOOLEAN /\ linkUp \in BOOLEAN
    /\ words \in [Words -> Answers \cup {NoAnswer}]
    /\ \A k \in DOMAIN line : line[k].id <= sent
    /\ fee \in BOOLEAN /\ sent \in 0..MaxCommands
    /\ command \in Commands \cup {"none"}
    /\ outcome \in [Commands -> {"none", "skipped", "own", "foreign", "error", "timeout"}]
    /\ expired \subseteq Words

\* A status word taken for the answer to a command is the answer to that
\* command: the register is cleared before the command is sent
\* (diu.cpp:108-168).  An answer can be mistaken only when an earlier command
\* was given up, or sent by ddlctrl without a wait, and its answer is late.
\* sendSiuResetCmd() is exempt: it clears
\* IFSTW and waits for CTSTW, which may hold any earlier answer (diu.cpp:145-150).
Mistaken(c) == outcome[c] # "foreign" /\ outcome'[c] = "foreign"

AnswerIsOwn ==
    [][\A c \in Commands \ {"SIU_RST"} : Mistaken(c) => AnsweredIn(c) \cap expired # {}]_vars

\* A byte of the serial number is asked for only when all bytes before it are
\* there, so that a lost answer never leaves a gap in it (diu.cpp:240-253); and
\* they are the bytes of addresses 0, 1, 2... if no answer is late.
SerialInOrder ==
    /\ (Doing("send") /\ Arg = "HWVERS") => Len(serial) = Head(todo).addr
    /\ "FESTW" \notin expired => \A k \in DOMAIN serial : serial[k].addr = k - 1

\* The front-end may send only to a DIU that is enabled and out of reset:
\* configureDiu() enables before RDYRX, unconfigureDiu() disables after EOBTR
\* (dma_handling.cpp:452-464, 495-497).  A run that ends with the link down or
\* with an EOBTR that fails is exempt.
FeeSendsToEnabled ==
    fee => \/ enabled /\ ~reset
           \/ outcome["EOBTR"] \in {"skipped", "error"} \/ "CTSTW" \in expired

\* Every call returns, whether the link answers or not: each wait has a bound
\* (diu.cpp:171-186, 325-343).
CallsReturn == (todo # <<>>) ~> (todo = <<>>)

\* At every moment: registers and calls are well-formed, the serial number has
\* no gap (diu.cpp:240-253), the front-end sends to an enabled DIU only
\* (dma_handling.cpp:452-497).
DiuInv == TypeOK /\ SerialInOrder /\ FeeSendsToEnabled

=============================================================================
