----------------------------- MODULE DiuProofs -----------------------------
(***************************************************************************)
(* Proofs about the module Diu, for every number of polls, length of the     *)
(* serial number and set of interface commands.  The invariant says what the *)
(* accesses left of a call have in common with the registers, which commands *)
(* are still without an answer, and which status words may be late.          *)
(***************************************************************************)
EXTENDS Diu, FiniteSetTheorems, TLAPS

\* The word the host waits for, and the word it clears before it sends.
WaitWord(c)  == IF c \in {"EOBTR", "RDYRX", "SIU_RST"} THEN "CTSTW"
                ELSE IF c = "HWVERS" THEN "FESTW" ELSE "IFSTW"
ClearWord(c) == IF c = "SIU_RST" THEN "IFSTW" ELSE WaitWord(c)

Steps == {"clear", "send", "wait", "reset", "linkup", "enable"}
Args  == Words \cup Commands \cup {"0", "1", "none"}
Accesses == [do : Steps, arg : Args, addr : 0..SerialLength, skip : Nat]

Is(a, do, arg) == a.do = do /\ a.arg = arg
Control(a) == a.do \in {"reset", "enable"}

\* What an access says of itself.
AccessInv(a) ==
    /\ a.do \in {"clear", "wait"} => a.arg \in Words
    /\ a.do = "send" => a.arg \in Commands
    /\ a.do \in {"reset", "enable"} => a.arg \in {"0", "1"}

\* What access k of call s says of the ones before and after it.
Neighbours(s, k) ==
    /\ s[k].do = "send" /\ k > 1 => Is(s[k - 1], "clear", ClearWord(s[k].arg))
    /\ s[k].do = "wait" /\ k > 1 => s[k - 1].do = "send" /\ s[k].arg = WaitWord(s[k - 1].arg)
    /\ s[k].do = "send" => k < Len(s) /\ s[k + 1].do = "wait"
    /\ Is(s[k], "reset", "1") => k < Len(s) /\ Is(s[k + 1], "reset", "0")
    /\ s[k].do = "linkup" /\ k > 1 => Is(s[k - 1], "reset", "0")

\* An early return lands behind what belongs together.
Skips(s, k) ==
    /\ s[k].skip <= Len(s) - k
    /\ s[k].do = "wait" => s[k].skip = 0 \/ k + s[k].skip = Len(s)
    /\ s[k].do \in {"wait", "linkup"} =>
        /\ k + s[k].skip < Len(s) => s[k + s[k].skip + 1].do \notin {"send", "wait"}
        /\ \A j \in k + 1..k + s[k].skip :
                s[j].do # "enable" /\ (s[k].do = "wait" => s[j].do # "reset")

\* The order of reset, enable and the commands to the front-end.
Order(s, k) ==
    /\ s[k].do \in {"reset", "linkup"} => \E j \in k + 1..Len(s) : Is(s[j], "enable", "1")
    /\ Is(s[k], "enable", "1") \/ Is(s[k], "send", "RDYRX") =>
            \A j \in k + 1..Len(s) : ~Control(s[j])
    /\ Is(s[k], "enable", "0") =>
        /\ k = Len(s) /\ \A j \in 1..k - 1 : ~Control(s[j])
        /\ k > 1 => s[k - 1].do = "wait" /\ s[k - 1].skip = 0
        /\ k > 2 => Is(s[k - 2], "send", "EOBTR")
    /\ Is(s[k], "send", "EOBTR") => k + 2 = Len(s) /\ Is(s[k + 2], "enable", "0")

CallInv(s) ==
    /\ s \in Seq(Accesses)
    /\ \A k \in 1..Len(s) : AccessInv(s[k]) /\ Neighbours(s, k) /\ Skips(s, k) /\ Order(s, k)

Has(s, do, arg)    == \E k \in 1..Len(s) : Is(s[k], do, arg)
HasAccess(do, arg) == Has(todo, do, arg)

\* The access to be done next.
At(do) == Len(todo) > 0 /\ todo[1].do = do

\* The first access of the call, the registers, and the running wait.
HeadInv ==
    /\ sent + Sends(todo) <= MaxCommands
    /\ At("wait") => todo[1].arg = WaitWord(command) /\ command \in Commands /\ sent > 0
    /\ At("linkup") => ~reset
    /\ At("wait") => (command = "EOBTR" <=> Len(todo) = 2 /\ Is(todo[2], "enable", "0"))

\* What the rest of the call will do to the enable and reset bits.
ControlInv ==
    /\ configured # "no" => /\ enabled \/ HasAccess("enable", "1")
                            /\ reset => HasAccess("reset", "0")
    /\ HasAccess("enable", "1") => ~enabled /\ configured # "no"
    /\ HasAccess("enable", "0") => enabled /\ ~reset /\ configured = "no"
    /\ configured = "no" /\ enabled => HasAccess("enable", "0")
    /\ HasAccess("send", "RDYRX") => configured # "no"
    /\ At("wait") /\ command = "RDYRX" =>
            configured # "no" /\ \A k \in 1..Len(todo) : ~Control(todo[k])

Outstanding(l) == l.id = sent /\ l.cmd = command /\ At("wait")

\* A command without answer is the one waited for, or its words are known to be late.
LineInv ==
    /\ \A w \in Words : words[w] \in Answers \cup {NoAnswer} /\ words[w].id <= sent
    /\ line \in Seq([id : 1..sent, cmd : Commands, addr : 0..SerialLength])
    /\ \A k \in DOMAIN line :
        /\ AnsweredIn(line[k].cmd) \subseteq expired \/ Outstanding(line[k])
        /\ \A j \in 1..k - 1 : line[j].id < line[k].id
        /\ \A w \in Words : words[w].id # line[k].id

\* A word that is not late is clear when a command is sent, and holds the answer
\* to that command or nothing while it is waited for.
WordInv ==
    /\ At("send") /\ todo[1].arg # "SIU_RST" =>
            words[WaitWord(todo[1].arg)] = NoAnswer \/ WaitWord(todo[1].arg) \in expired
    /\ At("wait") /\ command # "SIU_RST" =>
            words[todo[1].arg] = NoAnswer \/ words[todo[1].arg].id = sent \/ todo[1].arg \in expired

Excused == outcome["EOBTR"] \in {"skipped", "error"} \/ "CTSTW" \in expired

\* The front-end was stopped before the DIU is disabled.
FeeInv ==
    /\ fee => (enabled /\ ~reset) \/ Excused
    /\ At("enable") /\ todo[1].arg = "0" => ~fee \/ Excused
    /\ At("wait") /\ command = "EOBTR" /\ words["CTSTW"].id = sent /\ ~words["CTSTW"].error =>
            ~fee \/ "CTSTW" \in expired

\* readRemoteSerial() has as many bytes as addresses it went through.
SerialInv ==
    /\ HasAccess("send", "HWVERS") \/ HasAccess("wait", "FESTW") =>
        LET n == 3 * SerialLength - Len(todo) IN
        /\ n \in Nat /\ Len(serial) = n \div 3
        /\ \A k \in 1..Len(todo) : todo[k] = readRemoteSerial[n + k]
    /\ At("wait") /\ command = "HWVERS" =>
        /\ \A k \in DOMAIN line : line[k].id = sent => line[k].addr = Len(serial)
        /\ words["FESTW"].id = sent => words["FESTW"].addr = Len(serial)
    /\ serial \in Seq(Answers)
    /\ "FESTW" \notin expired => \A k \in 1..Len(serial) : serial[k].addr = k - 1

Types ==
    /\ timeout \in 0..Timeout /\ ret \in {-1, 0}
    /\ configured \in {"no", "SIU", "DIU"}
    /\ reset \in BOOLEAN /\ enabled \in BOOLEAN /\ linkUp \in BOOLEAN
    /\ words \in [Words -> Answers \cup {NoAnswer}]
    /\ fee \in BOOLEAN /\ sent \in 0..MaxCommands
    /\ command \in Commands \cup {"none"}
    /\ outcome \in [Commands -> {"none", "skipped", "own", "foreign", "error", "timeout"}]
    /\ expired \subseteq Words

ProtocolInv ==
    Types /\ CallInv(todo) /\ HeadInv /\ ControlInv /\ LineInv /\ WordInv /\ FeeInv /\ SerialInv

-----------------------------------------------------------------------------
(* What is left of a call.                                                  *)

\* t is s without its first n accesses.
Rest(s, n, t) ==
    /\ n \in 1..Len(s) /\ t \in Seq(Accesses) /\ Len(t) = Len(s) - n
    /\ \A k \in 1..Len(t) : t[k] = s[k + n]

LEMMA TailIsRest ==
    ASSUME NEW s \in Seq(Accesses), s # <<>>
    PROVE  Rest(s, 1, Tail(s))
BY DEF Rest

LEMMA SubSeqIsRest ==
    ASSUME NEW s \in Seq(Accesses), NEW n \in 1..Len(s)
    PROVE  Rest(s, n, SubSeq(s, n + 1, Len(s)))
BY DEF Rest

LEMMA RestOfCall ==
    ASSUME NEW s, NEW t, NEW n, CallInv(s), Rest(s, n, t)
    PROVE  CallInv(t)
<1>1. /\ s \in Seq(Accesses) /\ t \in Seq(Accesses) /\ Len(s) \in Nat /\ Len(t) \in Nat
      /\ n \in 1..Len(s) /\ Len(t) = Len(s) - n
  BY DEF CallInv, Rest
<1>2. \A j \in 1..Len(t) : j + n \in 1..Len(s) /\ t[j] = s[j + n]
  BY <1>1 DEF Rest
<1>3. \A j \in n + 1..Len(s) : j - n \in 1..Len(t) /\ t[j - n] = s[j]
  BY <1>1, <1>2
<1>4. SUFFICES ASSUME NEW k \in 1..Len(t)
               PROVE  AccessInv(t[k]) /\ Neighbours(t, k) /\ Skips(t, k) /\ Order(t, k)
  BY <1>1 DEF CallInv
<1>5. k + n \in 1..Len(s) /\ t[k] = s[k + n] /\ k \in Nat /\ n \in Nat /\ k >= 1 /\ n >= 1
  BY <1>1, <1>2
<1>6. AccessInv(s[k + n]) /\ Neighbours(s, k + n) /\ Skips(s, k + n) /\ Order(s, k + n)
  BY <1>5 DEF CallInv
<1>7. AccessInv(t[k])
  BY <1>5, <1>6
<1>8. k > 1 => t[k - 1] = s[k + n - 1] /\ k + n > 1
  <2>1. k > 1 => k - 1 \in 1..Len(t) /\ (k - 1) + n = k + n - 1 /\ k + n > 1
    BY <1>1, <1>5
  <2>2. QED
    BY <1>2, <2>1
<1>9. k > 2 => t[k - 2] = s[k + n - 2] /\ k + n > 2
  <2>1. k > 2 => k - 2 \in 1..Len(t) /\ (k - 2) + n = k + n - 2 /\ k + n > 2
    BY <1>1, <1>5
  <2>2. QED
    BY <1>2, <2>1
<1>10. \A j \in Nat : (k + j <= Len(t) <=> k + n + j <= Len(s))
                       /\ (k + j <= Len(t) => t[k + j] = s[k + n + j])
  <2>1. SUFFICES ASSUME NEW j \in Nat
                 PROVE  (k + j <= Len(t) <=> k + n + j <= Len(s))
                        /\ (k + j <= Len(t) => t[k + j] = s[k + n + j])
    OBVIOUS
  <2>2. k + j <= Len(t) <=> k + n + j <= Len(s)
    BY <1>1, <1>5
  <2>3. k + j <= Len(t) => k + j \in 1..Len(t) /\ (k + j) + n = k + n + j
    BY <1>1, <1>5
  <2>4. QED
    BY <1>2, <2>2, <2>3
<1>11. Neighbours(t, k)
  <2>1. k < Len(t) <=> k + n < Len(s)
    BY <1>1, <1>5
  <2>2. k < Len(t) => t[k + 1] = s[k + n + 1]
    <3>1. k < Len(t) => k + 1 <= Len(t)
      BY <1>1, <1>5
    <3>2. QED
      BY <1>10, <3>1
  <2>3. QED
    BY <1>5, <1>6, <1>8, <2>1, <2>2 DEF Neighbours
<1>12. Skips(t, k)
  <2>1. t[k].skip \in Nat
    <3>1. t[k] \in Accesses
      BY <1>1
    <3>2. QED
      BY <3>1 DEF Accesses
  <2>2. PICK m \in Nat : m = t[k].skip
    BY <2>1
  <2>3. m <= Len(s) - (k + n)
    BY <1>5, <1>6, <2>2 DEF Skips
  <2>4. m <= Len(t) - k
    BY <1>1, <1>5, <2>3
  <2>5. k + m < Len(t) => t[k + m + 1] = s[k + n + m + 1] /\ k + n + m < Len(s)
    <3>1. k + m < Len(t) => k + (m + 1) <= Len(t) /\ k + n + m < Len(s)
      BY <1>1, <1>5
    <3>2. m + 1 \in Nat /\ k + (m + 1) = k + m + 1 /\ k + n + (m + 1) = k + n + m + 1
      BY <1>5
    <3>3. QED
      BY <1>10, <3>1, <3>2
  <2>6. \A j \in k + 1..k + m : j + n \in k + n + 1..k + n + m /\ t[j] = s[j + n]
    <3>1. \A j \in k + 1..k + m : j \in 1..Len(t) /\ j + n \in k + n + 1..k + n + m
      BY <1>1, <1>5, <2>4
    <3>2. QED
      BY <1>2, <3>1
  <2>7. k + m = Len(t) <=> (k + n) + m = Len(s)
    BY <1>1, <1>5
  <2>8. QED
    BY <1>5, <1>6, <2>2, <2>4, <2>5, <2>6, <2>7 DEF Skips
<1>13. Order(t, k)
  <2>1. \A j \in k + 1..Len(t) : j + n \in k + n + 1..Len(s) /\ t[j] = s[j + n]
    <3>1. \A j \in k + 1..Len(t) : j \in 1..Len(t) /\ j + n \in k + n + 1..Len(s)
      BY <1>1, <1>5
    <3>2. QED
      BY <1>2, <3>1
  <2>2. \A j \in k + n + 1..Len(s) : j - n \in k + 1..Len(t) /\ t[j - n] = s[j]
    <3>1. \A j \in k + n + 1..Len(s) : j \in n + 1..Len(s) /\ j - n \in k + 1..Len(t)
      BY <1>1, <1>5
    <3>2. QED
      BY <1>3, <3>1
  <2>3. \A j \in 1..k - 1 : j + n \in 1..k + n - 1 /\ t[j] = s[j + n]
    <3>1. \A j \in 1..k - 1 : j \in 1..Len(t) /\ j + n \in 1..k + n - 1
      BY <1>1, <1>5
    <3>2. QED
      BY <1>2, <3>1
  <2>4. t[k].do \in {"reset", "linkup"} => \E j \in k + 1..Len(t) : Is(t[j], "enable", "1")
    BY <1>5, <1>6, <2>2 DEF Order
  <2>5. Is(t[k], "enable", "1") \/ Is(t[k], "send", "RDYRX") =>
            \A j \in k + 1..Len(t) : ~Control(t[j])
    BY <1>5, <1>6, <2>1 DEF Order
  <2>6. k = Len(t) <=> k + n = Len(s)
    BY <1>1, <1>5
  <2>7. Is(t[k], "enable", "0") =>
        /\ k = Len(t) /\ \A j \in 1..k - 1 : ~Control(t[j])
        /\ k > 1 => t[k - 1].do = "wait" /\ t[k - 1].skip = 0
        /\ k > 2 => Is(t[k - 2], "send", "EOBTR")
    BY <1>5, <1>6, <1>8, <1>9, <2>3, <2>6 DEF Order
  <2>8. Is(t[k], "send", "EOBTR") => k + 2 = Len(t) /\ Is(t[k + 2], "enable", "0")
    <3>1. k + 2 = Len(t) <=> k + n + 2 = Len(s)
      BY <1>1, <1>5
    <3>2. k + 2 = Len(t) => t[k + 2] = s[k + n + 2]
      <4>1. 2 \in Nat /\ (k + 2 = Len(t) => k + 2 <= Len(t))
        BY <1>1, <1>5
      <4>2. QED
        BY <1>10, <4>1
    <3>3. QED
      BY <1>5, <1>6, <3>1, <3>2 DEF Order
  <2>9. QED
    BY <2>4, <2>5, <2>7, <2>8 DEF Order
<1>14. QED
  BY <1>7, <1>11, <1>12, <1>13

LEMMA SendsType ==
    ASSUME NEW s \in Seq(Accesses)
    PROVE  IsFiniteSet({k \in DOMAIN s : s[k].do = "send"}) /\ Sends(s) \in Nat
<1>1. {k \in DOMAIN s : s[k].do = "send"} \in SUBSET (1..Len(s)) /\ Len(s) \in Nat
  OBVIOUS
<1>2. IsFiniteSet(1..Len(s))
  BY <1>1, FS_Interval
<1>3. QED
  BY <1>1, <1>2, FS_Subset, FS_CardinalityType DEF Sends

\* An access that sends counts once, and the rest of a call sends no more.
LEMMA SendsOfRest ==
    ASSUME NEW s \in Seq(Accesses), NEW t, NEW n, Rest(s, n, t)
    PROVE  /\ Sends(t) <= Sends(s)
           /\ s[1].do = "send" => Sends(t) + 1 <= Sends(s)
<1> DEFINE S == {k \in DOMAIN s : s[k].do = "send"}
           T == {k \in DOMAIN t : t[k].do = "send"}
           f == [k \in T |-> k + n]
<1>1. t \in Seq(Accesses) /\ Len(t) \in Nat /\ Len(s) \in Nat /\ n \in 1..Len(s)
  BY DEF Rest
<1>2. IsFiniteSet(S) /\ IsFiniteSet(T) /\ Sends(s) = Cardinality(S) /\ Sends(t) = Cardinality(T)
      /\ Cardinality(S) \in Nat /\ Cardinality(T) \in Nat
  BY <1>1, SendsType DEF Sends
<1>3. \A k \in T : k \in Nat /\ k + n \in S \ {1}
  BY <1>1 DEF Rest
<1>4. IsFiniteSet(S \ {1}) /\ Cardinality(S \ {1}) = IF 1 \in S THEN Cardinality(S) - 1 ELSE Cardinality(S)
  BY <1>2, FS_RemoveElement
<1>5. f \in Injection(T, S \ {1})
  <2>1. f \in [T -> S \ {1}]
    BY <1>3
  <2>2. \A a, b \in T : f[a] = f[b] => a = b
    <3>1. \A a, b \in T : a + n = b + n => a = b
      <4> HIDE DEF T, S
      <4>1. QED
        BY <1>1, <1>3
    <3>2. \A a \in T : f[a] = a + n
      OBVIOUS
    <3> HIDE DEF f, T, S
    <3>3. QED
      BY <3>1, <3>2
  <2> HIDE DEF f, S, T
  <2>3. QED
    BY <2>1, <2>2 DEF Injection, IsInjective
<1>6. Cardinality(T) <= Cardinality(S \ {1})
  <2> HIDE DEF S, T, f
  <2>1. QED
    BY <1>4, <1>5, FS_Injection
<1>7. s[1].do = "send" => 1 \in S
  BY <1>1
<1>8. QED
  BY <1>2, <1>4, <1>6, <1>7
-----------------------------------------------------------------------------
(* The calls.                                                               *)

LEMMA AccessType ==
    ASSUME NEW do \in Steps, NEW arg \in Args, NEW addr \in 0..SerialLength, NEW skip \in Nat
    PROVE  /\ Access(do, arg, addr, skip) \in Accesses
           /\ Access(do, arg, addr, skip).do = do /\ Access(do, arg, addr, skip).arg = arg
           /\ Access(do, arg, addr, skip).addr = addr /\ Access(do, arg, addr, skip).skip = skip
BY DEF Access, Accesses

\* s is u followed by v.
Joins(u, v, s) ==
    /\ s \in Seq(Accesses) /\ Len(s) = Len(u) + Len(v)
    /\ \A k \in 1..Len(u) : s[k] = u[k]
    /\ \A j \in 1..Len(v), k \in 1..Len(s) : k = Len(u) + j => s[k] = v[j]

LEMMA Joined ==
    ASSUME NEW u \in Seq(Accesses), NEW v \in Seq(Accesses)
    PROVE  Joins(u, v, u \o v)
BY DEF Joins

LEMMA Three ==
    ASSUME NEW a \in Accesses, NEW b \in Accesses, NEW c \in Accesses
    PROVE  /\ <<a, b, c>> \in Seq(Accesses) /\ Len(<<a, b, c>>) = 3
           /\ <<a, b, c>>[1] = a /\ <<a, b, c>>[2] = b /\ <<a, b, c>>[3] = c
OBVIOUS

LEMMA CommandCall ==
    ASSUME NEW word \in Words, NEW c \in Commands, NEW addr \in 0..SerialLength,
           NEW answer \in Words, NEW skip \in Nat
    PROVE  LET s == Command(word, c, addr, answer, skip) IN
           /\ s \in Seq(Accesses) /\ Len(s) = 3
           /\ s[1] = Access("clear", word, 0, 0) /\ s[2] = Access("send", c, addr, 0)
           /\ s[3] = Access("wait", answer, 0, skip)
<1>1. word \in Args /\ c \in Args /\ answer \in Args /\ {"clear", "send", "wait"} \subseteq Steps
  BY DEF Args, Steps
<1>2. 0 \in 0..SerialLength /\ 0 \in Nat
  BY BoundsAssumption
<1>3. /\ Access("clear", word, 0, 0) \in Accesses /\ Access("send", c, addr, 0) \in Accesses
      /\ Access("wait", answer, 0, skip) \in Accesses
  BY <1>1, <1>2, AccessType
<1>4. QED
  BY <1>3, Three DEF Command

LEMMA ResetCall ==
    ASSUME NEW skip \in Nat
    PROVE  LET s == toggleDdlReset(skip) IN
           /\ s \in Seq(Accesses) /\ Len(s) = 3
           /\ s[1] = Access("reset", "1", 0, 0) /\ s[2] = Access("reset", "0", 0, 0)
           /\ s[3] = Access("linkup", "none", 0, skip)
<1>1. {"0", "1", "none"} \subseteq Args /\ {"reset", "linkup"} \subseteq Steps
  BY DEF Args, Steps
<1>2. 0 \in 0..SerialLength /\ 0 \in Nat
  BY BoundsAssumption
<1>3. /\ Access("reset", "1", 0, 0) \in Accesses /\ Access("reset", "0", 0, 0) \in Accesses
      /\ Access("linkup", "none", 0, skip) \in Accesses
  BY <1>1, <1>2, AccessType
<1>4. QED
  BY <1>3, Three DEF toggleDdlReset

LEMMA EnableCall ==
    ASSUME NEW arg \in {"0", "1"}
    PROVE  LET s == <<Access("enable", arg, 0, 0)>> IN
           /\ s \in Seq(Accesses) /\ Len(s) = 1 /\ s[1] = Access("enable", arg, 0, 0)
<1>1. arg \in Args /\ "enable" \in Steps
  BY DEF Args, Steps
<1> HIDE DEF Args, Steps
<1> 0 \in 0..SerialLength /\ 0 \in Nat
  BY BoundsAssumption
<1>2. Access("enable", arg, 0, 0) \in Accesses
  BY <1>1, AccessType
<1>3. QED
  BY <1>2

LEMMA SiuCall ==
    LET s == configureDiu("SIU") IN
    /\ s \in Seq(Accesses) /\ Len(s) = 13
    /\ s[1] = Access("reset", "1", 0, 0) /\ s[2] = Access("reset", "0", 0, 0)
    /\ s[3] = Access("linkup", "none", 0, 6)
    /\ s[4] = Access("clear", "IFSTW", 0, 0) /\ s[5] = Access("send", "SIU_RST", 0, 0)
    /\ s[6] = Access("wait", "CTSTW", 0, 0)
    /\ s[7] = Access("reset", "1", 0, 0) /\ s[8] = Access("reset", "0", 0, 0)
    /\ s[9] = Access("linkup", "none", 0, 0)
    /\ s[10] = Access("enable", "1", 0, 0)
    /\ s[11] = Access("clear", "CTSTW", 0, 0) /\ s[12] = Access("send", "RDYRX", 0, 0)
    /\ s[13] = Access("wait", "CTSTW", 0, 0)
<1> DEFINE R == toggleDdlReset(6)
           S == sendSiuResetCmd
           Q == toggleDdlReset(0)
           E == <<Prepared>>
           F == sendFeeReadyToReceiveCmd
<1>1. /\ "CTSTW" \in Words /\ "IFSTW" \in Words /\ "SIU_RST" \in Commands /\ "RDYRX" \in Commands
      /\ 0 \in 0..SerialLength /\ 0 \in Nat /\ 6 \in Nat
  BY BoundsAssumption DEF Words, Commands
<1>2. /\ S \in Seq(Accesses) /\ Len(S) = 3
      /\ S[1] = Access("clear", "IFSTW", 0, 0) /\ S[2] = Access("send", "SIU_RST", 0, 0)
      /\ S[3] = Access("wait", "CTSTW", 0, 0)
  BY <1>1, CommandCall DEF sendSiuResetCmd
<1>3. /\ F \in Seq(Accesses) /\ Len(F) = 3
      /\ F[1] = Access("clear", "CTSTW", 0, 0) /\ F[2] = Access("send", "RDYRX", 0, 0)
      /\ F[3] = Access("wait", "CTSTW", 0, 0)
  BY <1>1, CommandCall DEF sendFeeReadyToReceiveCmd
<1>4. /\ R \in Seq(Accesses) /\ Len(R) = 3
      /\ R[1] = Access("reset", "1", 0, 0) /\ R[2] = Access("reset", "0", 0, 0)
      /\ R[3] = Access("linkup", "none", 0, 6)
  BY <1>1, ResetCall
<1>5. /\ Q \in Seq(Accesses) /\ Len(Q) = 3
      /\ Q[1] = Access("reset", "1", 0, 0) /\ Q[2] = Access("reset", "0", 0, 0)
      /\ Q[3] = Access("linkup", "none", 0, 0)
  BY <1>1, ResetCall
<1>6. E \in Seq(Accesses) /\ Len(E) = 1 /\ E[1] = Access("enable", "1", 0, 0)
  BY EnableCall DEF Prepared
<1>7. configureDiu("SIU") = (((R \o S) \o Q) \o E) \o F
  <2> HIDE DEF S, Q, R
  <2>1. Len(S) + Len(Q) = 6
    <3>1. Len(S) = 3 /\ Len(Q) = 3
      BY <1>2, <1>5
    <3>2. QED
      BY <3>1
  <2>2. prepareForSiuData = (R \o S) \o Q
    <3>1. S = sendSiuResetCmd /\ Q = toggleDdlReset(0) /\ R = toggleDdlReset(6)
      BY DEF S, Q, R
    <3>2. prepareForSiuData = (toggleDdlReset(Len(S) + Len(Q)) \o S) \o Q
      BY <3>1 DEF prepareForSiuData
    <3>3. QED
      BY <2>1, <3>1, <3>2
  <2>3. configureDiu("SIU") = (prepareForSiuData \o E) \o F
    BY DEF configureDiu, E, F
  <2>4. QED
    BY <2>2, <2>3
<1> HIDE DEF R, S, Q, E, F
<1>8. PICK U : U = R \o S
  OBVIOUS
<1>9. Joins(R, S, U)
  BY <1>2, <1>4, <1>8, Joined
<1>10. /\ U \in Seq(Accesses) /\ Len(U) = 6
       /\ U[1] = R[1] /\ U[2] = R[2] /\ U[3] = R[3] /\ U[4] = S[1] /\ U[5] = S[2] /\ U[6] = S[3]
  <2>1. Len(R) = 3 /\ Len(S) = 3
    BY <1>2, <1>4
  <2>2. QED
    BY <2>1, <1>9 DEF Joins
<1>11. PICK V : V = U \o Q
  OBVIOUS
<1>12. Joins(U, Q, V)
  BY <1>5, <1>10, <1>11, Joined
<1>13. /\ V \in Seq(Accesses) /\ Len(V) = 9
       /\ V[1] = R[1] /\ V[2] = R[2] /\ V[3] = R[3] /\ V[4] = S[1] /\ V[5] = S[2] /\ V[6] = S[3]
       /\ V[7] = Q[1] /\ V[8] = Q[2] /\ V[9] = Q[3]
  <2>1. Len(Q) = 3
    BY <1>5
  <2>2. QED
    BY <2>1, <1>10, <1>12 DEF Joins
<1>14. PICK W : W = V \o E
  OBVIOUS
<1>15. Joins(V, E, W)
  BY <1>6, <1>13, <1>14, Joined
<1>16. /\ W \in Seq(Accesses) /\ Len(W) = 10
       /\ W[1] = R[1] /\ W[2] = R[2] /\ W[3] = R[3] /\ W[4] = S[1] /\ W[5] = S[2] /\ W[6] = S[3]
       /\ W[7] = Q[1] /\ W[8] = Q[2] /\ W[9] = Q[3] /\ W[10] = E[1]
  <2>1. Len(E) = 1
    BY <1>6
  <2>2. QED
    BY <2>1, <1>13, <1>15 DEF Joins
<1>17. PICK s : s = W \o F
  OBVIOUS
<1>18. Joins(W, F, s)
  BY <1>3, <1>16, <1>17, Joined
<1>19. /\ s \in Seq(Accesses) /\ Len(s) = 13
       /\ s[1] = R[1] /\ s[2] = R[2] /\ s[3] = R[3] /\ s[4] = S[1] /\ s[5] = S[2] /\ s[6] = S[3]
       /\ s[7] = Q[1] /\ s[8] = Q[2] /\ s[9] = Q[3] /\ s[10] = E[1]
       /\ s[11] = F[1] /\ s[12] = F[2] /\ s[13] = F[3]
  <2>1. Len(F) = 3
    BY <1>3
  <2>2. QED
    BY <2>1, <1>16, <1>18 DEF Joins
<1>20. configureDiu("SIU") = s
  BY <1>7, <1>8, <1>11, <1>14, <1>17
<1>21. QED
  BY <1>2, <1>3, <1>4, <1>5, <1>6, <1>19, <1>20

LEMMA DiuCall ==
    LET s == configureDiu("DIU") IN
    /\ s \in Seq(Accesses) /\ Len(s) = 4
    /\ s[1] = Access("reset", "1", 0, 0) /\ s[2] = Access("reset", "0", 0, 0)
    /\ s[3] = Access("linkup", "none", 0, 0)
    /\ s[4] = Access("enable", "1", 0, 0)
<1> DEFINE Q == toggleDdlReset(0)
           E == <<Prepared>>
<1>1. /\ Q \in Seq(Accesses) /\ Len(Q) = 3
      /\ Q[1] = Access("reset", "1", 0, 0) /\ Q[2] = Access("reset", "0", 0, 0)
      /\ Q[3] = Access("linkup", "none", 0, 0)
  BY ResetCall
<1>2. E \in Seq(Accesses) /\ Len(E) = 1 /\ E[1] = Access("enable", "1", 0, 0)
  BY EnableCall DEF Prepared
<1>3. configureDiu("DIU") = Q \o E
  BY DEF configureDiu, prepareForDiuData
<1> HIDE DEF Q, E
<1>4. Joins(Q, E, Q \o E)
  BY <1>1, <1>2, Joined
<1>5. PICK s : s = Q \o E
  OBVIOUS
<1>6. Len(Q) = 3 /\ Len(E) = 1 /\ Joins(Q, E, s)
  BY <1>1, <1>2, <1>4, <1>5
<1>7. /\ s \in Seq(Accesses) /\ Len(s) = 4
      /\ s[1] = Q[1] /\ s[2] = Q[2] /\ s[3] = Q[3] /\ s[4] = E[1]
  BY <1>6 DEF Joins
<1>8. QED
  BY <1>1, <1>2, <1>3, <1>5, <1>7

LEMMA EndCall ==
    LET s == unconfigureDiu(TRUE) IN
    /\ s \in Seq(Accesses) /\ Len(s) = 4
    /\ s[1] = Access("clear", "CTSTW", 0, 0) /\ s[2] = Access("send", "EOBTR", 0, 0)
    /\ s[3] = Access("wait", "CTSTW", 0, 0)
    /\ s[4] = Access("enable", "0", 0, 0)
<1> DEFINE F == sendFeeEndOfBlockTransferCmd
           E == <<Access("enable", "0", 0, 0)>>
<1>1. "CTSTW" \in Words /\ "EOBTR" \in Commands /\ 0 \in 0..SerialLength /\ 0 \in Nat
  BY BoundsAssumption DEF Words, Commands
<1>2. /\ F \in Seq(Accesses) /\ Len(F) = 3
      /\ F[1] = Access("clear", "CTSTW", 0, 0) /\ F[2] = Access("send", "EOBTR", 0, 0)
      /\ F[3] = Access("wait", "CTSTW", 0, 0)
  BY <1>1, CommandCall DEF sendFeeEndOfBlockTransferCmd
<1>3. E \in Seq(Accesses) /\ Len(E) = 1 /\ E[1] = Access("enable", "0", 0, 0)
  BY EnableCall
<1>4. unconfigureDiu(TRUE) = F \o E
  BY DEF unconfigureDiu
<1> HIDE DEF F, E
<1>5. Joins(F, E, F \o E)
  BY <1>2, <1>3, Joined
<1>6. PICK s : s = F \o E
  OBVIOUS
<1>7. Len(F) = 3 /\ Len(E) = 1 /\ Joins(F, E, s)
  BY <1>2, <1>3, <1>5, <1>6
<1>8. /\ s \in Seq(Accesses) /\ Len(s) = 4
      /\ s[1] = F[1] /\ s[2] = F[2] /\ s[3] = F[3] /\ s[4] = E[1]
  BY <1>7 DEF Joins
<1>9. QED
  BY <1>2, <1>3, <1>4, <1>6, <1>8

LEMMA DisableCall ==
    LET s == unconfigureDiu(FALSE) IN
    /\ s \in Seq(Accesses) /\ Len(s) = 1 /\ s[1] = Access("enable", "0", 0, 0)
<1> DEFINE E == <<Access("enable", "0", 0, 0)>>
<1>1. E \in Seq(Accesses) /\ Len(E) = 1 /\ E[1] = Access("enable", "0", 0, 0)
  BY EnableCall
<1>2. unconfigureDiu(FALSE) = <<>> \o E
  BY DEF unconfigureDiu
<1>3. <<>> \in Seq(Accesses) /\ Len(<<>>) = 0
  OBVIOUS
<1> HIDE DEF E
<1>4. Joins(<<>>, E, <<>> \o E)
  BY <1>1, <1>3, Joined
<1>5. PICK s : s = <<>> \o E
  OBVIOUS
<1>6. Len(<<>>) = 0 /\ Len(E) = 1 /\ Joins(<<>>, E, s)
  BY <1>1, <1>3, <1>4, <1>5
<1>7. s \in Seq(Accesses) /\ Len(s) = 1 /\ s[1] = E[1]
  BY <1>6 DEF Joins
<1>8. QED
  BY <1>1, <1>2, <1>5, <1>7

LEMMA SiuCallInv ==
    /\ CallInv(configureDiu("SIU"))
    /\ Has(configureDiu("SIU"), "enable", "1")
    /\ Has(configureDiu("SIU"), "reset", "0")
    /\ ~Has(configureDiu("SIU"), "enable", "0")
    /\ ~Has(configureDiu("SIU"), "send", "HWVERS")
    /\ ~Has(configureDiu("SIU"), "wait", "FESTW")
    /\ Len(configureDiu("SIU")) > 1
    /\ configureDiu("SIU")[1].do \in {"clear", "reset"}
<1>1. PICK s : s = configureDiu("SIU")
  OBVIOUS
<1>2. /\ s \in Seq(Accesses) /\ Len(s) = 13
      /\ s[1].do = "reset" /\ s[1].arg = "1" /\ s[1].skip = 0
      /\ s[2].do = "reset" /\ s[2].arg = "0" /\ s[2].skip = 0
      /\ s[3].do = "linkup" /\ s[3].skip = 6
      /\ s[4].do = "clear" /\ s[4].arg = "IFSTW" /\ s[4].skip = 0
      /\ s[5].do = "send" /\ s[5].arg = "SIU_RST" /\ s[5].skip = 0
      /\ s[6].do = "wait" /\ s[6].arg = "CTSTW" /\ s[6].skip = 0
      /\ s[7].do = "reset" /\ s[7].arg = "1" /\ s[7].skip = 0
      /\ s[8].do = "reset" /\ s[8].arg = "0" /\ s[8].skip = 0
      /\ s[9].do = "linkup" /\ s[9].skip = 0
      /\ s[10].do = "enable" /\ s[10].arg = "1" /\ s[10].skip = 0
      /\ s[11].do = "clear" /\ s[11].arg = "CTSTW" /\ s[11].skip = 0
      /\ s[12].do = "send" /\ s[12].arg = "RDYRX" /\ s[12].skip = 0
      /\ s[13].do = "wait" /\ s[13].arg = "CTSTW" /\ s[13].skip = 0
  BY SMTT(30), <1>1, SiuCall DEF Access
<1>3. \A k \in 1..13 : AccessInv(s[k])
  <2>1. {"CTSTW", "IFSTW"} \subseteq Words /\ {"SIU_RST", "RDYRX", "EOBTR"} \subseteq Commands
    BY DEF Words, Commands
  <2>2. QED
    BY SMTT(30), <1>2, <2>1 DEF AccessInv
<1>4. \A k \in 1..13 : Neighbours(s, k)
  BY SMTT(30), <1>2 DEF Neighbours, Is, ClearWord, WaitWord
<1>5. \A k \in 1..13 : Skips(s, k)
  <2>1. \A k \in 1..13 : k # 3 => s[k].skip = 0
    BY <1>2
  <2>2. \A k \in 1..13 : s[k].do \in {"wait", "linkup"} => k \in {3, 6, 9, 13}
    BY <1>2
  <2>3. Skips(s, 3)
    BY <1>2 DEF Skips
  <2>4. \A k \in {6, 9, 13} : k < 13 => s[k + 1].do \notin {"send", "wait"}
    BY <1>2
  <2>5. ASSUME NEW k \in 1..13, k # 3
        PROVE  Skips(s, k)
    BY <1>2, <2>1, <2>2, <2>4, <2>5 DEF Skips
  <2>6. QED
    BY <2>3, <2>5
<1>6. \A k \in 1..13 : Order(s, k)
  <2>1. /\ Is(s[10], "enable", "1") /\ ~Control(s[11]) /\ ~Control(s[12]) /\ ~Control(s[13])
        /\ \A k \in 11..13 : ~Control(s[k])
        /\ \A k \in 1..13 : ~Is(s[k], "enable", "0") /\ ~Is(s[k], "send", "EOBTR")
        /\ \A k \in 1..13 : s[k].do \in {"reset", "linkup"} => k < 10
        /\ \A k \in 1..13 : Is(s[k], "enable", "1") => k = 10
        /\ \A k \in 1..13 : Is(s[k], "send", "RDYRX") => k = 12
    BY SMTT(30), <1>2 DEF Is, Control
  <2>2. \A k \in 1..13 : k < 10 => 10 \in k + 1..13
    OBVIOUS
  <2>3. \A k \in 1..13 : k >= 10 => \A j \in k + 1..13 : j \in 11..13
    OBVIOUS
  <2>4. QED
    BY <1>2, <2>1, <2>2, <2>3 DEF Order
<1>7. CallInv(s)
  BY <1>2, <1>3, <1>4, <1>5, <1>6 DEF CallInv
<1>8. /\ Has(s, "enable", "1")
      /\ Has(s, "reset", "0")
      /\ ~Has(s, "enable", "0")
      /\ ~Has(s, "send", "HWVERS")
      /\ ~Has(s, "wait", "FESTW")
      /\ Len(s) > 1
      /\ s[1].do \in {"clear", "reset"}
  BY SMTT(30), <1>2 DEF Has, Is
<1>9. QED
  BY <1>1, <1>7, <1>8

LEMMA DiuCallInv ==
    /\ CallInv(configureDiu("DIU"))
    /\ Has(configureDiu("DIU"), "enable", "1")
    /\ Has(configureDiu("DIU"), "reset", "0")
    /\ ~Has(configureDiu("DIU"), "enable", "0")
    /\ ~Has(configureDiu("DIU"), "send", "RDYRX")
    /\ ~Has(configureDiu("DIU"), "send", "HWVERS")
    /\ ~Has(configureDiu("DIU"), "wait", "FESTW")
    /\ Len(configureDiu("DIU")) > 1
    /\ configureDiu("DIU")[1].do \in {"clear", "reset"}
<1>1. PICK s : s = configureDiu("DIU")
  OBVIOUS
<1>2. /\ s \in Seq(Accesses) /\ Len(s) = 4
      /\ s[1].do = "reset" /\ s[1].arg = "1" /\ s[1].skip = 0
      /\ s[2].do = "reset" /\ s[2].arg = "0" /\ s[2].skip = 0
      /\ s[3].do = "linkup" /\ s[3].skip = 0
      /\ s[4].do = "enable" /\ s[4].arg = "1" /\ s[4].skip = 0
  BY <1>1, DiuCall DEF Access
<1>3. \A k \in 1..4 : AccessInv(s[k])
  <2>1. {"CTSTW", "IFSTW"} \subseteq Words /\ {"SIU_RST", "RDYRX", "EOBTR"} \subseteq Commands
    BY DEF Words, Commands
  <2>2. QED
    BY <1>2, <2>1 DEF AccessInv
<1>4. \A k \in 1..4 : Neighbours(s, k)
  BY <1>2 DEF Neighbours, Is, ClearWord, WaitWord
<1>5. \A k \in 1..4 : Skips(s, k)
  BY <1>2 DEF Skips
<1>6. \A k \in 1..4 : Order(s, k)
  BY <1>2 DEF Order, Is, Control
<1>7. CallInv(s)
  BY <1>2, <1>3, <1>4, <1>5, <1>6 DEF CallInv
<1>8. /\ Has(s, "enable", "1")
      /\ Has(s, "reset", "0")
      /\ ~Has(s, "enable", "0")
      /\ ~Has(s, "send", "RDYRX")
      /\ ~Has(s, "send", "HWVERS")
      /\ ~Has(s, "wait", "FESTW")
      /\ Len(s) > 1
      /\ s[1].do \in {"clear", "reset"}
  BY <1>2 DEF Has, Is
<1>9. QED
  BY <1>1, <1>7, <1>8

LEMMA EndCallInv ==
    /\ CallInv(unconfigureDiu(TRUE))
    /\ Has(unconfigureDiu(TRUE), "enable", "0")
    /\ ~Has(unconfigureDiu(TRUE), "enable", "1")
    /\ ~Has(unconfigureDiu(TRUE), "send", "RDYRX")
    /\ ~Has(unconfigureDiu(TRUE), "send", "HWVERS")
    /\ ~Has(unconfigureDiu(TRUE), "wait", "FESTW")
    /\ Len(unconfigureDiu(TRUE)) > 1
    /\ unconfigureDiu(TRUE)[1].do \in {"clear", "reset"}
<1>1. PICK s : s = unconfigureDiu(TRUE)
  OBVIOUS
<1>2. /\ s \in Seq(Accesses) /\ Len(s) = 4
      /\ s[1].do = "clear" /\ s[1].arg = "CTSTW" /\ s[1].skip = 0
      /\ s[2].do = "send" /\ s[2].arg = "EOBTR" /\ s[2].skip = 0
      /\ s[3].do = "wait" /\ s[3].arg = "CTSTW" /\ s[3].skip = 0
      /\ s[4].do = "enable" /\ s[4].arg = "0" /\ s[4].skip = 0
  <2>1. s \in Seq(Accesses) /\ Len(s) = 4
    BY <1>1, EndCall
  <2>2. s[1] = Access("clear", "CTSTW", 0, 0) /\ s[2] = Access("send", "EOBTR", 0, 0) /\ s[3] = Access("wait", "CTSTW", 0, 0) /\ s[4] = Access("enable", "0", 0, 0)
    BY <1>1, EndCall
  <2>3. QED
    BY <2>1, <2>2 DEF Access
<1>3. \A k \in 1..4 : AccessInv(s[k])
  <2>1. {"CTSTW", "IFSTW"} \subseteq Words /\ {"SIU_RST", "RDYRX", "EOBTR"} \subseteq Commands
    BY DEF Words, Commands
  <2>2. QED
    BY <1>2, <2>1 DEF AccessInv
<1>4. \A k \in 1..4 : Neighbours(s, k)
  BY <1>2 DEF Neighbours, Is, ClearWord, WaitWord
<1>5. \A k \in 1..4 : Skips(s, k)
  BY <1>2 DEF Skips
<1>6. \A k \in 1..4 : Order(s, k)
  BY <1>2 DEF Order, Is, Control
<1>7. CallInv(s)
  BY <1>2, <1>3, <1>4, <1>5, <1>6 DEF CallInv
<1>8. /\ Has(s, "enable", "0")
      /\ ~Has(s, "enable", "1")
      /\ ~Has(s, "send", "RDYRX")
      /\ ~Has(s, "send", "HWVERS")
      /\ ~Has(s, "wait", "FESTW")
      /\ Len(s) > 1
      /\ s[1].do \in {"clear", "reset"}
  BY <1>2 DEF Has, Is
<1>9. QED
  BY <1>1, <1>7, <1>8

LEMMA DisableCallInv ==
    /\ CallInv(unconfigureDiu(FALSE))
    /\ Has(unconfigureDiu(FALSE), "enable", "0")
    /\ ~Has(unconfigureDiu(FALSE), "enable", "1")
    /\ ~Has(unconfigureDiu(FALSE), "send", "RDYRX")
    /\ ~Has(unconfigureDiu(FALSE), "send", "HWVERS")
    /\ ~Has(unconfigureDiu(FALSE), "wait", "FESTW")
    /\ Len(unconfigureDiu(FALSE)) = 1
<1>1. PICK s : s = unconfigureDiu(FALSE)
  OBVIOUS
<1>2. /\ s \in Seq(Accesses) /\ Len(s) = 1
      /\ s[1].do = "enable" /\ s[1].arg = "0" /\ s[1].skip = 0
  <2>1. s \in Seq(Accesses) /\ Len(s) = 1
    BY <1>1, DisableCall
  <2>2. s[1] = Access("enable", "0", 0, 0)
    BY <1>1, DisableCall
  <2>3. QED
    BY <2>1, <2>2 DEF Access
<1>3. \A k \in 1..1 : AccessInv(s[k])
  <2>1. {"CTSTW", "IFSTW"} \subseteq Words /\ {"SIU_RST", "RDYRX", "EOBTR"} \subseteq Commands
    BY DEF Words, Commands
  <2>2. QED
    BY <1>2, <2>1 DEF AccessInv
<1>4. \A k \in 1..1 : Neighbours(s, k)
  BY <1>2 DEF Neighbours, Is, ClearWord, WaitWord
<1>5. \A k \in 1..1 : Skips(s, k)
  BY <1>2 DEF Skips
<1>6. \A k \in 1..1 : Order(s, k)
  BY <1>2 DEF Order, Is, Control
<1>7. CallInv(s)
  BY <1>2, <1>3, <1>4, <1>5, <1>6 DEF CallInv
<1>8. /\ Has(s, "enable", "0")
      /\ ~Has(s, "enable", "1")
      /\ ~Has(s, "send", "RDYRX")
      /\ ~Has(s, "send", "HWVERS")
      /\ ~Has(s, "wait", "FESTW")
      /\ Len(s) = 1
  BY <1>2 DEF Has, Is
<1>9. QED
  BY <1>1, <1>7, <1>8
\* A call that does not touch DDL_CTRL, nor the front-end.
Plain(s) ==
    \A k \in 1..Len(s) : ~Control(s[k]) /\ ~Is(s[k], "send", "RDYRX") /\ ~Is(s[k], "send", "EOBTR")

LEMMA PlainHas ==
    ASSUME NEW s, Plain(s)
    PROVE  /\ ~Has(s, "enable", "0") /\ ~Has(s, "enable", "1") /\ ~Has(s, "reset", "0")
           /\ ~Has(s, "send", "RDYRX")
BY DEF Plain, Has, Is, Control

LEMMA ShortCallInv ==
    ASSUME NEW c \in Commands \ {"RDYRX", "EOBTR", "HWVERS"}
    PROVE  LET s == Command(ClearWord(c), c, 0, WaitWord(c), 0) IN
           /\ CallInv(s) /\ Plain(s)
           /\ ~Has(s, "send", "HWVERS") /\ ~Has(s, "wait", "FESTW")
           /\ Len(s) > 1 /\ s[1].do = "clear"
<1>1. PICK s : s = Command(ClearWord(c), c, 0, WaitWord(c), 0)
  OBVIOUS
<1>2. ClearWord(c) \in Words /\ WaitWord(c) \in Words /\ WaitWord(c) # "FESTW"
  BY DEF ClearWord, WaitWord, Words
<1>3. /\ s \in Seq(Accesses) /\ Len(s) = 3
      /\ s[1] = Access("clear", ClearWord(c), 0, 0) /\ s[2] = Access("send", c, 0, 0)
      /\ s[3] = Access("wait", WaitWord(c), 0, 0)
  <2>1. 0 \in 0..SerialLength /\ 0 \in Nat
    BY BoundsAssumption
  <2>2. QED
    BY <1>1, <1>2, <2>1, CommandCall
<1>4. /\ s[1].do = "clear" /\ s[1].arg = ClearWord(c) /\ s[1].skip = 0
      /\ s[2].do = "send" /\ s[2].arg = c /\ s[2].skip = 0
      /\ s[3].do = "wait" /\ s[3].arg = WaitWord(c) /\ s[3].skip = 0
  BY <1>3 DEF Access
<1>5. c \in Commands /\ c # "RDYRX" /\ c # "EOBTR" /\ c # "HWVERS"
  OBVIOUS
<1>6. \A k \in 1..3 : AccessInv(s[k])
  BY <1>2, <1>4, <1>5 DEF AccessInv
<1>7. \A k \in 1..3 : Neighbours(s, k)
  BY <1>3, <1>4 DEF Neighbours, Is
<1>8. \A k \in 1..3 : Skips(s, k)
  BY <1>3, <1>4 DEF Skips
<1>9. \A k \in 1..3 : Order(s, k)
  BY <1>3, <1>4, <1>5 DEF Order, Is, Control
<1>10. CallInv(s)
  BY <1>3, <1>6, <1>7, <1>8, <1>9 DEF CallInv
<1>11. Plain(s)
  BY <1>3, <1>4, <1>5 DEF Plain, Is, Control
<1>12. ~Has(s, "send", "HWVERS") /\ ~Has(s, "wait", "FESTW")
  BY <1>2, <1>3, <1>4, <1>5 DEF Has, Is
<1>13. QED
  BY <1>1, <1>3, <1>4, <1>10, <1>11, <1>12

\* The accesses for address "addr": positions 3 * addr + 1 to 3 * addr + 3.
LEMMA SerialAccess ==
    ASSUME NEW a \in 0..SerialLength - 1
    PROVE  LET s == readRemoteSerial IN
           /\ 3 * a + 1 \in 1..3 * SerialLength /\ s[3 * a + 1] = Access("clear", "FESTW", 0, 0)
           /\ 3 * a + 2 \in 1..3 * SerialLength /\ s[3 * a + 2] = Access("send", "HWVERS", a, 0)
           /\ 3 * a + 3 \in 1..3 * SerialLength
           /\ s[3 * a + 3] = Access("wait", "FESTW", 0, 3 * (SerialLength - a - 1))
<1>1. SerialLength \in Nat /\ a \in Nat /\ a + 1 <= SerialLength
  BY BoundsAssumption
<1>2. \A p \in 1..3 : 3 * a + p \in 1..3 * SerialLength
  BY <1>1
<1>3. \A p \in 1..3 : ((3 * a + p) - 1) \div 3 = a /\ ((3 * a + p) - 1) % 3 = p - 1
  BY <1>1
<1>4. \A k \in 1..3 * SerialLength :
        readRemoteSerial[k] = readRemoteHwVersion((k - 1) \div 3, 3 * (SerialLength - ((k - 1) \div 3) - 1))[1 + ((k - 1) % 3)]
  BY DEF readRemoteSerial
<1>5. \A p \in 1..3 : readRemoteSerial[3 * a + p] = readRemoteHwVersion(a, 3 * (SerialLength - a - 1))[1 + (p - 1)]
  BY <1>2, <1>3, <1>4
<1>6. \A p \in 1..3 : 1 + (p - 1) = p
  OBVIOUS
<1>7. /\ readRemoteSerial[3 * a + 1] = readRemoteHwVersion(a, 3 * (SerialLength - a - 1))[1]
      /\ readRemoteSerial[3 * a + 2] = readRemoteHwVersion(a, 3 * (SerialLength - a - 1))[2]
      /\ readRemoteSerial[3 * a + 3] = readRemoteHwVersion(a, 3 * (SerialLength - a - 1))[3]
  BY <1>5, <1>6
<1>8. QED
  BY <1>2, <1>7 DEF readRemoteHwVersion, Command

LEMMA SerialPosition ==
    ASSUME NEW k \in 1..3 * SerialLength
    PROVE  \E a \in 0..SerialLength - 1, p \in 1..3 : k = 3 * a + p
<1>1. SerialLength \in Nat
  BY BoundsAssumption
<1>2. (k - 1) \div 3 \in 0..SerialLength - 1
  BY <1>1
<1>3. k - 3 * ((k - 1) \div 3) \in 1..3
  BY <1>1
<1>4. QED
  BY <1>1, <1>2, <1>3
LEMMA SerialFields ==
    ASSUME NEW a \in 0..SerialLength - 1
    PROVE  LET s == readRemoteSerial IN
           /\ s[3 * a + 1] \in Accesses /\ s[3 * a + 1].do = "clear" /\ s[3 * a + 1].arg = "FESTW"
           /\ s[3 * a + 1].skip = 0
           /\ s[3 * a + 2] \in Accesses /\ s[3 * a + 2].do = "send" /\ s[3 * a + 2].arg = "HWVERS"
           /\ s[3 * a + 2].addr = a /\ s[3 * a + 2].skip = 0
           /\ s[3 * a + 3] \in Accesses /\ s[3 * a + 3].do = "wait" /\ s[3 * a + 3].arg = "FESTW"
           /\ s[3 * a + 3].skip = 3 * (SerialLength - a - 1)
<1>1. SerialLength \in Nat /\ a \in 0..SerialLength /\ 0 \in 0..SerialLength /\ 0 \in Nat
      /\ 3 * (SerialLength - a - 1) \in Nat
  BY BoundsAssumption
<1>2. {"FESTW", "HWVERS"} \subseteq Args /\ {"clear", "send", "wait"} \subseteq Steps
  BY DEF Args, Words, Commands, Steps
<1>3. Access("clear", "FESTW", 0, 0) \in Accesses
  BY <1>1, <1>2, AccessType
<1>4. Access("send", "HWVERS", a, 0) \in Accesses
  BY <1>1, <1>2, AccessType
<1>5. Access("wait", "FESTW", 0, 3 * (SerialLength - a - 1)) \in Accesses
  BY <1>1, <1>2, AccessType
<1>6. QED
  BY <1>3, <1>4, <1>5, SerialAccess DEF Access

LEMMA SerialCallInv ==
    LET s == readRemoteSerial IN
    /\ CallInv(s) /\ Plain(s) /\ Len(s) = 3 * SerialLength
    /\ Len(s) > 0 => s[1].do = "clear"
<1>1. PICK s : s = readRemoteSerial
  OBVIOUS
<1>2. SerialLength \in Nat /\ 3 * SerialLength \in Nat
  BY BoundsAssumption
<1>3. \A k \in 1..3 * SerialLength : s[k] \in Accesses
  BY <1>1, SerialPosition, SerialFields
<1>4. s \in Seq(Accesses) /\ Len(s) = 3 * SerialLength
  <2>1. s = [k \in 1..3 * SerialLength |-> s[k]]
    BY <1>1 DEF readRemoteSerial
  <2>2. QED
    BY <1>2, <1>3, <2>1
<1>5. SUFFICES ASSUME NEW k \in 1..3 * SerialLength
               PROVE  /\ AccessInv(s[k]) /\ Neighbours(s, k) /\ Skips(s, k) /\ Order(s, k)
                      /\ ~Control(s[k]) /\ ~Is(s[k], "send", "RDYRX") /\ ~Is(s[k], "send", "EOBTR")
                      /\ k = 1 => s[k].do = "clear"
  <2>1. Len(s) > 0 => 1 \in 1..3 * SerialLength
    BY <1>2, <1>4
  <2>2. QED
    BY <1>1, <1>4, <1>5, <2>1 DEF CallInv, Plain
<1>6. PICK a \in 0..SerialLength - 1, p \in 1..3 : k = 3 * a + p
  BY SerialPosition
<1>7. \A b \in 0..SerialLength - 1 :
           /\ s[3 * b + 1].do = "clear" /\ s[3 * b + 1].arg = "FESTW" /\ s[3 * b + 1].skip = 0
           /\ s[3 * b + 2].do = "send" /\ s[3 * b + 2].arg = "HWVERS" /\ s[3 * b + 2].skip = 0
           /\ s[3 * b + 3].do = "wait" /\ s[3 * b + 3].arg = "FESTW"
           /\ s[3 * b + 3].skip = 3 * (SerialLength - b - 1)
  BY <1>1, SerialFields
<1>8. \A j \in 1..3 * SerialLength : s[j].do \notin {"reset", "enable", "linkup"}
  <2>1. SUFFICES ASSUME NEW j \in 1..3 * SerialLength PROVE s[j].do \notin {"reset", "enable", "linkup"}
    OBVIOUS
  <2>2. PICK b \in 0..SerialLength - 1, q \in 1..3 : j = 3 * b + q
    BY SerialPosition
  <2>3. j = 3 * b + 1 \/ j = 3 * b + 2 \/ j = 3 * b + 3
    BY <2>2
  <2>4. QED
    BY <1>7, <2>3
<1>9. "FESTW" \in Words /\ "HWVERS" \in Commands /\ ClearWord("HWVERS") = "FESTW" /\ WaitWord("HWVERS") = "FESTW"
  BY DEF Words, Commands, ClearWord, WaitWord
<1>10. CASE p = 1
  <2>1. s[k].do = "clear" /\ s[k].arg = "FESTW" /\ s[k].skip = 0
    BY <1>6, <1>7, <1>10
  <2>2. QED
    BY <1>2, <1>4, <1>9, <2>1 DEF AccessInv, Neighbours, Skips, Order, Is, Control
<1>11. CASE p = 2
  <2>1. s[k].do = "send" /\ s[k].arg = "HWVERS" /\ s[k].skip = 0
    BY <1>6, <1>7, <1>11
  <2>2. k - 1 = 3 * a + 1 /\ k # 1
    BY <1>6, <1>11
  <2>3. s[k - 1].do = "clear" /\ s[k - 1].arg = "FESTW"
    BY <1>7, <2>2
  <2>4. k + 1 = 3 * a + 3 /\ k < 3 * SerialLength
    BY <1>2, <1>6, <1>11
  <2>5. s[k + 1].do = "wait"
    BY <1>7, <2>4
  <2>6. QED
    BY <1>2, <1>4, <1>9, <2>1, <2>2, <2>3, <2>4, <2>5 DEF AccessInv, Neighbours, Skips, Order, Is, Control
<1>12. CASE p = 3
  <2>1. s[k].do = "wait" /\ s[k].arg = "FESTW" /\ s[k].skip = 3 * (SerialLength - a - 1)
    BY <1>6, <1>7, <1>12
  <2>2. k - 1 = 3 * a + 2 /\ k # 1
    BY <1>6, <1>12
  <2>3. s[k - 1].do = "send" /\ s[k - 1].arg = "HWVERS"
    BY <1>7, <2>2
  <2>4. k + s[k].skip = 3 * SerialLength
    BY <1>2, <1>6, <1>12, <2>1
  <2>5. s[k].skip \in Nat /\ s[k].skip <= Len(s) - k
    BY <1>2, <1>4, <2>1, <2>4
  <2>6. Skips(s, k)
    <3>1. \A j \in k + 1..3 * SerialLength : j \in 1..3 * SerialLength
      BY <1>2
    <3>2. \A j \in k + 1..k + s[k].skip : s[j].do # "enable" /\ s[j].do # "reset"
      BY <1>8, <2>4, <3>1
    <3>3. QED
      BY <1>2, <1>4, <2>4, <2>5, <3>2 DEF Skips
  <2>7. QED
    BY <1>9, <2>1, <2>2, <2>3, <2>6 DEF AccessInv, Neighbours, Order, Is, Control
<1>13. QED
  BY <1>10, <1>11, <1>12
-----------------------------------------------------------------------------
(* The steps of a call.                                                     *)

LEMMA AtHead ==
    ASSUME CallInv(todo)
    PROVE  /\ Len(todo) \in Nat /\ (todo = <<>> <=> Len(todo) = 0)
           /\ \A do : Doing(do) <=> At(do)
           /\ Len(todo) > 0 =>
                /\ Head(todo) = todo[1] /\ Arg = todo[1].arg /\ todo[1] \in Accesses /\ 1 \in 1..Len(todo)
                /\ AccessInv(todo[1]) /\ Skips(todo, 1) /\ Order(todo, 1) /\ Neighbours(todo, 1)
<1>1. todo \in Seq(Accesses)
  BY DEF CallInv
<1>2. Len(todo) \in Nat /\ (todo = <<>> <=> Len(todo) = 0)
  BY <1>1
<1>3. Len(todo) > 0 => Head(todo) = todo[1] /\ todo[1] \in Accesses /\ 1 \in 1..Len(todo)
  BY <1>1, <1>2
<1>4. QED
  BY <1>1, <1>2, <1>3 DEF Doing, At, Arg, CallInv

LEMMA Advances ==
    ASSUME CallInv(todo), Len(todo) > 0
    PROVE  /\ Done => Rest(todo, 1, todo')
           /\ Failed => Rest(todo, 1 + todo[1].skip, todo')
<1>1. todo \in Seq(Accesses) /\ todo # <<>>
  BY AtHead DEF CallInv
<1>2. Done => Rest(todo, 1, todo')
  BY <1>1, TailIsRest DEF Done
<1>3. todo[1].skip \in Nat /\ todo[1].skip <= Len(todo) - 1 /\ Len(todo) \in Nat
  BY AtHead DEF Accesses, Skips
<1>4. 1 + todo[1].skip \in 1..Len(todo) /\ (1 + todo[1].skip) + 1 = 2 + todo[1].skip
  BY <1>3
<1>5. Rest(todo, 1 + todo[1].skip, SubSeq(todo, (1 + todo[1].skip) + 1, Len(todo)))
  BY <1>1, <1>4, SubSeqIsRest
<1>6. QED
  BY <1>2, <1>4, <1>5, AtHead DEF Failed

\* t follows s when the first access of s is done, or has failed.
Follows(s, n, t) ==
    Rest(s, n, t) /\ (n = 1 \/ (n = 1 + s[1].skip /\ s[1].do \in {"wait", "linkup"}))

LEMMA NewHead ==
    ASSUME NEW s, NEW n, NEW t, CallInv(s), Follows(s, n, t), Len(t) > 0
    PROVE  /\ t[1] = s[n + 1] /\ n + 1 \in 1..Len(s)
           /\ t[1].do = "wait" => n = 1 /\ s[1].do = "send" /\ t[1].arg = WaitWord(s[1].arg)
           /\ s[1].do = "send" => t[1].do = "wait"
           /\ t[1].do = "send" => n = 1 /\ s[1].do = "clear" /\ s[1].arg = ClearWord(t[1].arg)
           /\ t[1].do = "linkup" => Is(s[1], "reset", "0") \/ s[1].do = "linkup"
           /\ Is(t[1], "enable", "0") => n = 1 /\ s[1].do = "wait"
<1>1. /\ Len(s) \in Nat /\ Len(t) \in Nat /\ n \in Nat /\ n >= 1 /\ n \in 1..Len(s)
      /\ Len(t) = Len(s) - n /\ 1 \in 1..Len(s) /\ n + 1 \in 1..Len(s) /\ n + 1 > 1 /\ (n + 1) - 1 = n
  BY DEF CallInv, Follows, Rest
<1>2. t[1] = s[n + 1]
  <2>1. 1 \in 1..Len(t) /\ 1 + n = n + 1
    BY <1>1
  <2>2. QED
    BY <2>1 DEF Follows, Rest
<1>3. Neighbours(s, n + 1) /\ Skips(s, 1) /\ Order(s, n + 1)
  BY <1>1 DEF CallInv
<1>4. n = 1 \/ (n > 1 /\ n = 1 + s[1].skip /\ s[1].do \in {"wait", "linkup"})
  BY <1>1 DEF Follows
<1>5. n > 1 => /\ t[1].do \notin {"send", "wait"}
               /\ s[n].do # "enable" /\ (s[1].do = "wait" => s[n].do # "reset")
  <2>1. SUFFICES ASSUME n > 1
                 PROVE  /\ t[1].do \notin {"send", "wait"}
                        /\ s[n].do # "enable" /\ (s[1].do = "wait" => s[n].do # "reset")
    OBVIOUS
  <2>2. n = 1 + s[1].skip /\ s[1].do \in {"wait", "linkup"} /\ 1 + s[1].skip < Len(s)
        /\ 1 + s[1].skip + 1 = n + 1 /\ n \in 1 + 1..1 + s[1].skip
    BY <1>1, <1>4, <2>1
  <2>3. QED
    BY <1>2, <1>3, <2>2 DEF Skips
<1>6. t[1].do = "wait" => n = 1 /\ s[1].do = "send" /\ t[1].arg = WaitWord(s[1].arg)
  BY <1>1, <1>2, <1>3, <1>4, <1>5 DEF Neighbours
<1>7. t[1].do = "send" => n = 1 /\ s[1].do = "clear" /\ s[1].arg = ClearWord(t[1].arg)
  BY <1>1, <1>2, <1>3, <1>4, <1>5 DEF Neighbours, Is
<1>8. t[1].do = "linkup" => Is(s[1], "reset", "0") \/ s[1].do = "linkup"
  BY <1>1, <1>2, <1>3, <1>4, <1>5 DEF Neighbours, Is
<1>9. Is(t[1], "enable", "0") => n = 1 /\ s[1].do = "wait"
  <2>1. SUFFICES ASSUME Is(t[1], "enable", "0")
                 PROVE  n = 1 /\ s[1].do = "wait"
    OBVIOUS
  <2>2. /\ n + 1 = Len(s) /\ \A j \in 1..n + 1 - 1 : ~Control(s[j])
        /\ s[n + 1 - 1].do = "wait"
    BY <1>1, <1>2, <1>3, <2>1 DEF Order
  <2>3. s[1].do # "linkup"
    <3>1. ASSUME NEW j \in 2..Len(s) PROVE ~Is(s[j], "enable", "1")
      <4>1. j \in 1..n + 1 - 1 \/ j = n + 1
        BY <1>1, <2>2
      <4>2. QED
        BY <1>2, <2>1, <2>2, <4>1 DEF Control, Is
    <3>2. Order(s, 1)
      BY <1>1 DEF CallInv
    <3>3. \A j \in 1 + 1..Len(s) : j \in 2..Len(s)
      OBVIOUS
    <3>4. QED
      BY <3>1, <3>2, <3>3 DEF Order
  <2>4. n = 1
    <3>1. SUFFICES ASSUME n > 1 PROVE FALSE
      BY <1>4
    <3>2. n = 1 + s[1].skip /\ s[1].do = "wait"
      BY <1>4, <2>3, <3>1
    <3>3. s[1].skip = 0 \/ 1 + s[1].skip = Len(s)
      BY <1>3, <3>2 DEF Skips
    <3>4. s[1].skip \in Nat
      <4>1. s[1] \in Accesses
        BY <1>1 DEF CallInv
      <4>2. QED
        BY <4>1 DEF Accesses
    <3>5. QED
      BY <1>1, <3>1, <3>2, <3>3, <3>4
  <2>5. QED
    BY <2>2, <2>4
<1>10. s[1].do = "send" => t[1].do = "wait"
  <2>1. SUFFICES ASSUME s[1].do = "send" PROVE t[1].do = "wait"
    OBVIOUS
  <2>2. n = 1 /\ Neighbours(s, 1)
    BY <1>1, <1>4, <2>1 DEF CallInv
  <2>3. QED
    BY <1>2, <2>1, <2>2 DEF Neighbours
<1>11. QED
  BY <1>1, <1>2, <1>6, <1>7, <1>8, <1>9, <1>10
LEMMA HasRest ==
    ASSUME NEW s, NEW n, NEW t, CallInv(s), Follows(s, n, t)
    PROVE  /\ \A do, arg : Has(t, do, arg) => Has(s, do, arg)
           /\ \A arg : s[1].do # "enable" => (Has(s, "enable", arg) <=> Has(t, "enable", arg))
           /\ s[1].do \notin {"reset", "linkup"} => (Has(s, "reset", "0") <=> Has(t, "reset", "0"))
           /\ Is(s[1], "reset", "1") => Has(t, "reset", "0")
<1>1. /\ Len(s) \in Nat /\ Len(t) \in Nat /\ n \in Nat /\ n >= 1 /\ n \in 1..Len(s)
      /\ Len(t) = Len(s) - n /\ 1 \in 1..Len(s)
  BY DEF CallInv, Follows, Rest
<1>2. \A k \in 1..Len(t) : k + n \in 1..Len(s) /\ t[k] = s[k + n]
  BY <1>1 DEF Follows, Rest
<1>3. \A k \in n + 1..Len(s) : k - n \in 1..Len(t) /\ t[k - n] = s[k]
  <2>1. \A k \in n + 1..Len(s) : k - n \in 1..Len(t) /\ (k - n) + n = k
    BY <1>1
  <2>2. QED
    BY <1>2, <2>1
<1>4. \A do, arg : Has(t, do, arg) => Has(s, do, arg)
  BY <1>2 DEF Has
<1>5. ASSUME NEW k \in 1..Len(s), k <= n, k > 1
      PROVE  s[k].do # "enable" /\ (s[1].do # "linkup" => s[k].do # "reset")
  <2>1. n = 1 + s[1].skip /\ s[1].do \in {"wait", "linkup"}
    BY <1>1, <1>5 DEF Follows
  <2>2. k \in 1 + 1..1 + s[1].skip
    BY <1>1, <1>5, <2>1
  <2>3. Skips(s, 1)
    BY <1>1 DEF CallInv
  <2>4. QED
    BY <2>1, <2>2, <2>3 DEF Skips
<1>6. \A k \in 1..Len(s) : k = 1 \/ (k <= n /\ k > 1) \/ k \in n + 1..Len(s)
  BY <1>1
<1>7. \A arg : s[1].do # "enable" => (Has(s, "enable", arg) => Has(t, "enable", arg))
  BY <1>3, <1>5, <1>6 DEF Has, Is
<1>8. s[1].do \notin {"reset", "linkup"} => (Has(s, "reset", "0") => Has(t, "reset", "0"))
  BY <1>3, <1>5, <1>6 DEF Has, Is
<1>9. Is(s[1], "reset", "1") => Has(t, "reset", "0")
  <2>1. SUFFICES ASSUME Is(s[1], "reset", "1") PROVE Has(t, "reset", "0")
    OBVIOUS
  <2>2. n = 1
    BY <2>1 DEF Is, Follows
  <2>3. Neighbours(s, 1)
    BY <1>1 DEF CallInv
  <2>4. 1 < Len(s) /\ Is(s[1 + 1], "reset", "0")
    BY <2>1, <2>3 DEF Neighbours
  <2>5. 1 + 1 \in n + 1..Len(s)
    BY <1>1, <2>2, <2>4
  <2>6. QED
    BY <1>3, <2>4, <2>5 DEF Has
<1>10. QED
  BY <1>4, <1>7, <1>8, <1>9

LEMMA NothingLeft ==
    ASSUME NEW s, Len(s) = 0
    PROVE  \A do, arg : ~Has(s, do, arg)
BY DEF Has

-----------------------------------------------------------------------------
(* The beginning of a call.                                                 *)

\* What every call has in common when it begins.
Begun ==
    /\ Len(todo) = 0 /\ CallInv(todo') /\ sent + Sends(todo') <= MaxCommands
    /\ Len(todo') > 0 => todo'[1].do \in {"clear", "reset", "enable"}
    /\ UNCHANGED <<timeout, ret, ctrlVars, words, line, fee, command, sent, expired>>

BegunConfigure ==
    /\ Begun /\ configured = "no" /\ configured' \in {"SIU", "DIU"} /\ UNCHANGED <<serial, outcome>>
    /\ Len(todo') > 0 => todo'[1].do \in {"clear", "reset"}
    /\ Has(todo', "enable", "1") /\ Has(todo', "reset", "0") /\ ~Has(todo', "enable", "0")
    /\ ~Has(todo', "send", "HWVERS") /\ ~Has(todo', "wait", "FESTW")

BegunUnconfigure ==
    /\ Begun /\ configured # "no" /\ configured' = "no" /\ UNCHANGED serial
    /\ Has(todo', "enable", "0") /\ ~Has(todo', "enable", "1") /\ ~Has(todo', "send", "RDYRX")
    /\ ~Has(todo', "send", "HWVERS") /\ ~Has(todo', "wait", "FESTW")
    /\ outcome' = [outcome EXCEPT !["EOBTR"] = "skipped"]
       \/ /\ outcome' = [outcome EXCEPT !["EOBTR"] = "none"]
          /\ Len(todo') > 0 => todo'[1].do \in {"clear", "reset"}

BegunPlain ==
    /\ Begun /\ UNCHANGED <<configured, outcome>> /\ Plain(todo')
    /\ Len(todo') > 0 => todo'[1].do = "clear"
    /\ \/ serial' = <<>> /\ todo' = readRemoteSerial
       \/ serial' = serial /\ ~Has(todo', "send", "HWVERS") /\ ~Has(todo', "wait", "FESTW")

LEMMA BeginConfigure ==
    ASSUME CallInv(todo), NEW source \in {"SIU", "DIU"}, Configure(source)
    PROVE  BegunConfigure
<1>1. Len(todo) = 0 /\ todo' = configureDiu(source)
  BY AtHead DEF Configure, Begin
<1>2. /\ CallInv(todo') /\ Len(todo') > 1 /\ todo'[1].do \in {"clear", "reset"}
      /\ Has(todo', "enable", "1") /\ Has(todo', "reset", "0") /\ ~Has(todo', "enable", "0")
      /\ ~Has(todo', "send", "HWVERS") /\ ~Has(todo', "wait", "FESTW")
  BY <1>1, SiuCallInv, DiuCallInv
<1>3. QED
  BY <1>1, <1>2 DEF Configure, Begin, Begun, BegunConfigure

LEMMA BeginUnconfigure ==
    ASSUME CallInv(todo), Unconfigure
    PROVE  BegunUnconfigure
<1> DEFINE eobtr == configured = "SIU" /\ linkUp
<1>1. Len(todo) = 0 /\ todo' = unconfigureDiu(eobtr) /\ configured # "no" /\ configured' = "no"
      /\ sent + Sends(todo') <= MaxCommands
      /\ UNCHANGED <<timeout, ret, ctrlVars, words, line, fee, command, sent, expired, serial>>
      /\ outcome' = [outcome EXCEPT !["EOBTR"] = IF eobtr THEN "none" ELSE "skipped"]
  BY AtHead DEF Unconfigure, Begin
<1>2. CASE eobtr
  <2>1. todo' = unconfigureDiu(TRUE) /\ outcome' = [outcome EXCEPT !["EOBTR"] = "none"]
    BY <1>1, <1>2 DEF unconfigureDiu
  <2>2. QED
    BY <1>1, <2>1, EndCallInv DEF Begun, BegunUnconfigure
<1>3. CASE ~eobtr
  <2>1. todo' = unconfigureDiu(FALSE) /\ outcome' = [outcome EXCEPT !["EOBTR"] = "skipped"]
    BY <1>1, <1>3 DEF unconfigureDiu
  <2>2. todo'[1].do \in {"clear", "reset", "enable"}
    <3>1. todo'[1] = Access("enable", "0", 0, 0)
      BY <2>1, DisableCall
    <3>2. QED
      BY <3>1 DEF Access
  <2>3. QED
    BY <1>1, <2>1, <2>2, DisableCallInv DEF Begun, BegunUnconfigure
<1>4. QED
  BY <1>2, <1>3

LEMMA BeginPlain ==
    ASSUME CallInv(todo), ReadSerial \/ SingleCommand
    PROVE  BegunPlain
<1>1. CASE ReadSerial
  <2>1. Len(todo) = 0 /\ todo' = readRemoteSerial
    BY <1>1, AtHead DEF ReadSerial, Begin
  <2>2. QED
    BY <1>1, <2>1, SerialCallInv DEF ReadSerial, Begin, Begun, BegunPlain
<1>2. CASE SingleCommand
  <2>1. PICK c \in Commands \ {"RDYRX", "EOBTR", "HWVERS"} :
            Begin(Command(ClearWord(c), c, 0, WaitWord(c), 0))
    <3>1. CASE \E c \in InterfaceCommands : Begin(InterfaceCmd(c))
      <4>1. PICK c \in InterfaceCommands : Begin(InterfaceCmd(c))
        BY <3>1
      <4>2. c \in Commands \ {"RDYRX", "EOBTR", "HWVERS"} /\ ClearWord(c) = "IFSTW" /\ WaitWord(c) = "IFSTW"
        BY CommandsAssumption DEF Commands, ClearWord, WaitWord
      <4>3. QED
        BY <4>1, <4>2 DEF InterfaceCmd
    <3>2. CASE Begin(sendSiuResetCmd)
      <4>1. "SIU_RST" \in Commands \ {"RDYRX", "EOBTR", "HWVERS"}
            /\ ClearWord("SIU_RST") = "IFSTW" /\ WaitWord("SIU_RST") = "CTSTW"
        BY DEF Commands, ClearWord, WaitWord
      <4>2. QED
        BY <3>2, <4>1 DEF sendSiuResetCmd
    <3>3. QED
      BY <1>2, <3>1, <3>2 DEF SingleCommand
  <2>2. Len(todo) = 0 /\ todo' = Command(ClearWord(c), c, 0, WaitWord(c), 0)
    BY <2>1, AtHead DEF Begin
  <2>3. /\ CallInv(todo') /\ Plain(todo') /\ ~Has(todo', "send", "HWVERS") /\ ~Has(todo', "wait", "FESTW")
        /\ Len(todo') > 1 /\ todo'[1].do = "clear"
    BY <2>2, ShortCallInv
  <2>4. QED
    BY <1>2, <2>1, <2>2, <2>3 DEF SingleCommand, Begin, Begun, BegunPlain
<1>3. QED
  BY <1>1, <1>2
-----------------------------------------------------------------------------
(* The invariant, conjunct by conjunct.                                     *)

LEMMA HostSteps ==
    ASSUME CallInv(todo)
    PROVE  /\ clearLastStatusWord => At("clear") /\ Follows(todo, 1, todo')
           /\ sendCommand => At("send") /\ Follows(todo, 1, todo')
           /\ PollStatusWord => At("wait")
           /\ GotStatusWord => At("wait") /\ Follows(todo, 1, todo')
           /\ StatusWordTimeout => At("wait") /\ Follows(todo, 1 + todo[1].skip, todo')
           /\ setReset => At("reset") /\ Follows(todo, 1, todo')
           /\ PollLinkUp => At("linkup")
           /\ waitForLinkUpReturns => At("linkup") /\ \E n \in {1, 1 + todo[1].skip} : Follows(todo, n, todo')
           /\ setEnable => At("enable") /\ Follows(todo, 1, todo')
<1>1. \A do : Doing(do) <=> At(do)
  BY AtHead
<1>2. \A do : At(do) => Len(todo) > 0 /\ todo[1].do = do
  BY DEF At
<1>3. Len(todo) > 0 /\ Done => Follows(todo, 1, todo')
  <2>1. ASSUME Len(todo) > 0, Done PROVE Rest(todo, 1, todo')
    BY <2>1, Advances
  <2>2. QED
    BY <2>1 DEF Follows
<1>4. Len(todo) > 0 /\ Failed /\ todo[1].do \in {"wait", "linkup"} => Follows(todo, 1 + todo[1].skip, todo')
  BY Advances DEF Follows
<1>5. clearLastStatusWord => At("clear") /\ Follows(todo, 1, todo')
  BY <1>1, <1>2, <1>3 DEF clearLastStatusWord
<1>6. sendCommand => At("send") /\ Follows(todo, 1, todo')
  BY <1>1, <1>2, <1>3 DEF sendCommand
<1>7. GotStatusWord => At("wait") /\ Follows(todo, 1, todo')
  BY <1>1, <1>2, <1>3 DEF GotStatusWord
<1>8. setReset => At("reset") /\ Follows(todo, 1, todo')
  BY <1>1, <1>2, <1>3 DEF setReset
<1>9. setEnable => At("enable") /\ Follows(todo, 1, todo')
  BY <1>1, <1>2, <1>3 DEF setEnable
<1>10. (PollStatusWord => At("wait")) /\ (PollLinkUp => At("linkup"))
  BY <1>1 DEF PollStatusWord, PollLinkUp
<1>11. StatusWordTimeout => At("wait") /\ Follows(todo, 1 + todo[1].skip, todo')
  BY <1>1, <1>2, <1>4 DEF StatusWordTimeout
<1>12. waitForLinkUpReturns => At("linkup") /\ \E n \in {1, 1 + todo[1].skip} : Follows(todo, n, todo')
  <2>1. waitForLinkUpReturns => At("linkup") /\ (Done \/ Failed)
    BY <1>1 DEF waitForLinkUpReturns
  <2>2. QED
    BY <1>2, <1>3, <1>4, <2>1
<1>13. QED
  BY <1>5, <1>6, <1>7, <1>8, <1>9, <1>10, <1>11, <1>12

\* A step of the host leaves the call alone or gets on with it.
LEMMA HostMoves ==
    ASSUME CallInv(todo), Host
    PROVE  UNCHANGED todo \/ \E n : Follows(todo, n, todo')
BY HostSteps DEF Host, PollStatusWord, PollLinkUp

LEMMA NextMoves ==
    ASSUME CallInv(todo), [Calls]_vars
    PROVE  \/ BegunConfigure \/ BegunUnconfigure \/ BegunPlain \/ Host
           \/ Link \/ UNCHANGED vars
BY BeginConfigure, BeginUnconfigure, BeginPlain DEF Calls

LEMMA CallKeeps ==
    ASSUME CallInv(todo), [Calls]_vars
    PROVE  CallInv(todo)'
<1>1. CASE Host
  BY <1>1, HostMoves, RestOfCall DEF Follows
<1>2. CASE BegunConfigure \/ BegunUnconfigure \/ BegunPlain
  BY <1>2 DEF BegunConfigure, BegunUnconfigure, BegunPlain, Begun
<1>3. CASE Link \/ UNCHANGED vars
  BY <1>3 DEF Link, LinkComesUp, LinkGoesDown, Answer, Lose, vars, hostVars
<1>4. QED
  BY <1>1, <1>2, <1>3, NextMoves

LEMMA HeadKeeps ==
    ASSUME ProtocolInv, [Calls]_vars
    PROVE  HeadInv'
<1> USE DEF ProtocolInv
<1>1. CallInv(todo) /\ CallInv(todo') /\ HeadInv /\ todo \in Seq(Accesses)
  BY CallKeeps DEF CallInv
<1>2. CASE BegunConfigure \/ BegunUnconfigure \/ BegunPlain
  <2>1. Begun
    BY <1>2 DEF BegunConfigure, BegunUnconfigure, BegunPlain
  <2>2. sent' = sent /\ sent' + Sends(todo)' <= MaxCommands
    BY <2>1 DEF Begun
  <2>3. ~At("wait")' /\ ~At("linkup")'
    BY <2>1 DEF Begun, At
  <2>4. QED
    BY <2>2, <2>3 DEF HeadInv
<1>3. ASSUME UNCHANGED <<todo, sent, command, reset>>
      PROVE  HeadInv'
  BY <1>1, <1>3 DEF HeadInv, At
<1>4. ASSUME NEW n, Follows(todo, n, todo'), sent' = sent, todo[1].do # "send",
             At("linkup") \/ Is(todo[1], "reset", "0") => ~reset'
      PROVE  HeadInv'
  <2>1. sent' + Sends(todo)' <= MaxCommands
    <3>1. Rest(todo, n, todo') /\ todo' \in Seq(Accesses)
      BY <1>4 DEF Follows, Rest
    <3>2. Sends(todo') <= Sends(todo) /\ Sends(todo) \in Nat /\ Sends(todo') \in Nat
      BY <1>1, <3>1, SendsOfRest, SendsType
    <3>3. sent \in Nat /\ sent + Sends(todo) <= MaxCommands /\ MaxCommands \in Nat
      BY <1>1, BoundsAssumption DEF HeadInv, Types
    <3>4. QED
      BY <1>4, <3>2, <3>3
  <2>2. ~At("wait")'
    BY <1>1, <1>4, NewHead DEF At
  <2>3. At("linkup")' => ~reset'
    <3>1. Len(todo') > 0 /\ todo'[1].do = "linkup" => Is(todo[1], "reset", "0") \/ todo[1].do = "linkup"
      BY <1>1, <1>4, NewHead
    <3>2. Len(todo) > 0
      BY <1>1, <1>4 DEF Follows, Rest
    <3>3. QED
      BY <1>4, <3>1, <3>2 DEF At
  <2>4. QED
    BY <2>1, <2>2, <2>3 DEF HeadInv
<1>5. CASE sendCommand
  <2>1. At("send") /\ Follows(todo, 1, todo') /\ Len(todo) > 0
    BY <1>1, <1>5, HostSteps DEF At
  <2>2. command' = todo[1].arg /\ sent' = sent + 1 /\ todo[1].do = "send" /\ reset' = reset
        /\ todo[1].arg \in Commands
    BY <1>1, <1>5, <2>1, AtHead DEF sendCommand, At, ctrlVars, AccessInv
  <2>3. sent' + Sends(todo)' <= MaxCommands /\ sent' > 0
    <3>1. Rest(todo, 1, todo') /\ todo' \in Seq(Accesses)
      BY <2>1 DEF Follows, Rest
    <3>2. Sends(todo') + 1 <= Sends(todo) /\ Sends(todo) \in Nat /\ Sends(todo') \in Nat
      BY <1>1, <2>2, <3>1, SendsOfRest, SendsType
    <3>3. sent \in Nat /\ sent + Sends(todo) <= MaxCommands /\ MaxCommands \in Nat
      BY <1>1, BoundsAssumption DEF HeadInv, Types
    <3>4. QED
      BY <2>2, <3>2, <3>3
  <2>4. At("wait")' => todo'[1].arg = WaitWord(command')
    BY <1>1, <2>1, <2>2, NewHead DEF At
  <2>5. ~At("linkup")'
    BY <1>1, <2>1, <2>2, NewHead DEF At, Is
  <2>6. At("wait")' => (command' = "EOBTR" <=> Len(todo') = 2 /\ Is(todo'[2], "enable", "0"))
    <3>1. SUFFICES ASSUME Len(todo') > 0
                   PROVE  command' = "EOBTR" <=> Len(todo') = 2 /\ Is(todo'[2], "enable", "0")
      BY DEF At
    <3>2. Len(todo) \in Nat /\ Len(todo') = Len(todo) - 1 /\ \A k \in 1..Len(todo') : todo'[k] = todo[k + 1]
      BY <1>1, <2>1 DEF Follows, Rest
    <3>3. Order(todo, 1) /\ (3 <= Len(todo) => Order(todo, 3))
      <4>1. 1 \in 1..Len(todo) /\ (3 <= Len(todo) => 3 \in 1..Len(todo))
        BY <3>1, <3>2
      <4>2. QED
        BY <1>1, <4>1 DEF CallInv
    <3>4. /\ Len(todo') = 2 <=> Len(todo) = 3
          /\ Len(todo') = 2 => todo'[2] = todo[3]
      <4>1. Len(todo') = 2 <=> Len(todo) = 3
        BY <3>2
      <4>2. 2 \in 1..2 /\ 2 + 1 = 3
        OBVIOUS
      <4>3. QED
        BY <3>2, <4>1, <4>2
    <3>5. ASSUME command' = "EOBTR" PROVE Len(todo') = 2 /\ Is(todo'[2], "enable", "0")
      <4>1. 1 + 2 = Len(todo) /\ Is(todo[1 + 2], "enable", "0")
        BY <2>2, <3>3, <3>5 DEF Order, Is
      <4>2. Len(todo) = 3 /\ Is(todo[3], "enable", "0")
        BY <4>1
      <4>3. QED
        BY <3>4, <4>2
    <3>6. ASSUME Len(todo') = 2, Is(todo'[2], "enable", "0") PROVE command' = "EOBTR"
      <4>1. Is(todo[3], "enable", "0") /\ Order(todo, 3) /\ 3 > 2
        BY <3>3, <3>4, <3>6
      <4>2. Is(todo[3 - 2], "send", "EOBTR")
        BY <4>1 DEF Order
      <4>3. QED
        BY <2>2, <4>2 DEF Is
    <3>7. QED
      BY <3>5, <3>6
  <2>7. QED
    BY <2>2, <2>3, <2>4, <2>5, <2>6 DEF HeadInv
<1>6. CASE Link \/ UNCHANGED vars
  <2>1. UNCHANGED <<todo, sent, command, reset>>
    BY <1>6 DEF Link, LinkComesUp, LinkGoesDown, Answer, Lose, vars, hostVars, ctrlVars
  <2>2. QED
    BY <1>3, <2>1
<1>7. CASE Host /\ ~sendCommand
  <2>1. CASE PollStatusWord \/ PollLinkUp
    BY <1>3, <2>1 DEF PollStatusWord, PollLinkUp, ctrlVars
  <2>2. CASE clearLastStatusWord \/ GotStatusWord \/ StatusWordTimeout \/ waitForLinkUpReturns \/ setEnable
    <3>1. \E n : Follows(todo, n, todo')
      BY <1>1, <2>2, HostSteps
    <3>2. todo[1].do \notin {"send", "reset"} /\ sent' = sent /\ reset' = reset
      BY <1>1, <2>2, HostSteps
         DEF At, clearLastStatusWord, GotStatusWord, StatusWordTimeout, waitForLinkUpReturns, setEnable, ctrlVars
    <3>3. At("linkup") => ~reset
      BY <1>1 DEF HeadInv
    <3>4. QED
      BY <1>4, <3>1, <3>2, <3>3 DEF Is
  <2>3. CASE setReset
    <3>1. Follows(todo, 1, todo') /\ At("reset") /\ sent' = sent /\ reset' = (todo[1].arg = "1")
      BY <1>1, <2>3, HostSteps, AtHead DEF setReset, At
    <3>2. QED
      BY <1>4, <3>1 DEF At, Is
  <2>4. QED
    BY <1>7, <2>1, <2>2, <2>3 DEF Host
<1>8. QED
  BY <1>1, <1>2, <1>5, <1>6, <1>7, NextMoves
\* The host's steps on DDL_CTRL, and the ones that leave it alone.
LEMMA HostControl ==
    ASSUME CallInv(todo), Host
    PROVE  /\ configured' = configured /\ fee' = fee
           /\ ~setReset => reset' = reset
           /\ ~setEnable => enabled' = enabled
           /\ setReset => At("reset") /\ Follows(todo, 1, todo') /\ reset' = (todo[1].arg = "1")
           /\ setEnable => At("enable") /\ Follows(todo, 1, todo') /\ enabled' = (todo[1].arg = "1")
           /\ ~sendCommand => command' = command /\ sent' = sent /\ line' = line
<1>1. Len(todo) > 0 => Arg = todo[1].arg
  BY AtHead
<1>2. setReset => At("reset") /\ Follows(todo, 1, todo') /\ reset' = (todo[1].arg = "1")
  BY <1>1, HostSteps DEF setReset, At
<1>3. setEnable => At("enable") /\ Follows(todo, 1, todo') /\ enabled' = (todo[1].arg = "1")
  BY <1>1, HostSteps DEF setEnable, At
<1>4. QED
  BY <1>2, <1>3
     DEF Host, clearLastStatusWord, sendCommand, PollStatusWord, GotStatusWord, StatusWordTimeout, setReset,
         PollLinkUp, waitForLinkUpReturns, setEnable, ctrlVars
LEMMA ControlKeeps ==
    ASSUME ProtocolInv, [Calls]_vars
    PROVE  ControlInv'
<1>1. CallInv(todo) /\ CallInv(todo') /\ HeadInv /\ ControlInv /\ Types
  BY CallKeeps DEF ProtocolInv
<1>2. CASE BegunConfigure
  <2>1. ~HasAccess("enable", "0") /\ configured = "no" /\ ~enabled
    BY <1>1, <1>2, NothingLeft DEF BegunConfigure, Begun, HasAccess, ControlInv
  <2>2. enabled' = enabled /\ ~At("wait")' /\ configured' # "no"
    BY <1>1, <1>2 DEF BegunConfigure, Begun, ctrlVars, At
  <2>3. Has(todo', "enable", "1") /\ Has(todo', "reset", "0") /\ ~Has(todo', "enable", "0")
    BY <1>2 DEF BegunConfigure
  <2>4. QED
    BY <2>1, <2>2, <2>3 DEF ControlInv, HasAccess
<1>3. CASE BegunUnconfigure
  <2>1. enabled /\ ~reset
    BY <1>1, <1>3, NothingLeft DEF BegunUnconfigure, Begun, HasAccess, ControlInv
  <2>2. enabled' = enabled /\ reset' = reset /\ ~At("wait")' /\ configured' = "no"
    BY <1>1, <1>3 DEF BegunUnconfigure, Begun, ctrlVars, At
  <2>3. Has(todo', "enable", "0") /\ ~Has(todo', "enable", "1") /\ ~Has(todo', "send", "RDYRX")
    BY <1>3 DEF BegunUnconfigure
  <2>4. QED
    BY <2>1, <2>2, <2>3 DEF ControlInv, HasAccess
<1>4. CASE BegunPlain
  <2>1. \A do, arg : ~Has(todo, do, arg)
    BY <1>4, NothingLeft DEF BegunPlain, Begun
  <2>2. enabled' = enabled /\ reset' = reset /\ ~At("wait")' /\ configured' = configured
    BY <1>1, <1>4 DEF BegunPlain, Begun, ctrlVars, At
  <2>3. /\ ~Has(todo', "enable", "0") /\ ~Has(todo', "enable", "1") /\ ~Has(todo', "reset", "0")
        /\ ~Has(todo', "send", "RDYRX")
    BY <1>4, PlainHas DEF BegunPlain
  <2>4. QED
    BY <1>1, <2>1, <2>2, <2>3 DEF ControlInv, HasAccess
<1>5. ASSUME UNCHANGED <<todo, configured, enabled, reset, command>>
      PROVE  ControlInv'
  BY <1>1, <1>5 DEF ControlInv, HasAccess, At
<1>6. CASE Link \/ UNCHANGED vars
  <2>1. UNCHANGED <<todo, configured, enabled, reset, command>>
    BY <1>6 DEF Link, LinkComesUp, LinkGoesDown, Answer, Lose, vars, hostVars, ctrlVars
  <2>2. QED
    BY <1>5, <2>1
<1>7. ASSUME Host, NEW n, Follows(todo, n, todo') PROVE ControlInv'
  <2> DEFINE H(do, arg) == Has(todo, do, arg)
             G(do, arg) == Has(todo', do, arg)
  <2>1. /\ \A do, arg : G(do, arg) => H(do, arg)
        /\ \A arg : todo[1].do # "enable" => (H("enable", arg) <=> G("enable", arg))
        /\ todo[1].do \notin {"reset", "linkup"} => (H("reset", "0") <=> G("reset", "0"))
        /\ Is(todo[1], "reset", "1") => G("reset", "0")
    BY <1>1, <1>7, HasRest
  <2>2. /\ Len(todo) \in Nat /\ Len(todo) > 0 /\ 1 \in 1..Len(todo)
        /\ Order(todo, 1) /\ AccessInv(todo[1])
    <3>1. Len(todo) \in Nat /\ Len(todo) > 0
      BY <1>7, <1>1, AtHead DEF Follows, Rest
    <3>2. QED
      BY <1>1, <3>1, AtHead
  <2>3. Is(todo[1], todo[1].do, todo[1].arg) /\ H(todo[1].do, todo[1].arg)
    BY <2>2 DEF Is, Has
  <2>4. todo[1].do \in {"reset", "linkup"} => H("enable", "1")
    BY <2>2 DEF Order, Has
  <2>5. /\ configured # "no" => enabled \/ H("enable", "1")
        /\ configured # "no" => (reset => H("reset", "0"))
        /\ H("enable", "1") => ~enabled /\ configured # "no"
        /\ H("enable", "0") => enabled /\ ~reset /\ configured = "no"
        /\ configured = "no" /\ enabled => H("enable", "0")
        /\ H("send", "RDYRX") => configured # "no"
    BY <1>1 DEF ControlInv, HasAccess
  <2>6. At("wait")' /\ command' = "RDYRX" => configured # "no" /\ \A k \in 1..Len(todo') : ~Control(todo'[k])
    <3>1. SUFFICES ASSUME At("wait")', command' = "RDYRX"
                   PROVE  configured # "no" /\ \A k \in 1..Len(todo') : ~Control(todo'[k])
      OBVIOUS
    <3>2. Len(todo') > 0 /\ n = 1 /\ todo[1].do = "send"
      BY <1>1, <1>7, <3>1, NewHead DEF At
    <3>3. sendCommand
      <4>1. ~At("clear") /\ ~At("wait") /\ ~At("reset") /\ ~At("linkup") /\ ~At("enable")
        BY <3>2 DEF At
      <4>2. QED
        BY <1>1, <1>7, <4>1, HostSteps DEF Host
    <3>4. Is(todo[1], "send", "RDYRX")
      BY <1>1, <2>2, <3>1, <3>2, <3>3, AtHead DEF sendCommand, Is
    <3>5. \A j \in 1 + 1..Len(todo) : ~Control(todo[j])
      BY <2>2, <3>4 DEF Order
    <3>6. \A k \in 1..Len(todo') : todo'[k] = todo[k + 1] /\ k + 1 \in 1 + 1..Len(todo)
      BY <1>7, <2>2, <3>2 DEF Follows, Rest
    <3>7. H("send", "RDYRX")
      BY <2>3, <3>4 DEF Is
    <3>8. QED
      BY <2>5, <3>5, <3>6, <3>7
  <2>7. CASE setReset
    <3>1. todo[1].do = "reset" /\ reset' = (todo[1].arg = "1") /\ enabled' = enabled /\ configured' = configured
      BY <1>1, <1>7, <2>7, HostControl, HostSteps DEF At, setReset
    <3>2. todo[1].arg \in {"0", "1"}
      BY <2>2, <3>1 DEF AccessInv
    <3>3. H("enable", "1") /\ ~H("enable", "0")
      BY <2>4, <2>5, <3>1
    <3>4. reset' => G("reset", "0")
      BY <2>1, <3>1 DEF Is
    <3>5. QED
      BY <2>1, <2>5, <2>6, <3>1, <3>3, <3>4 DEF ControlInv, HasAccess
  <2>8. CASE setEnable
    <3>1. todo[1].do = "enable" /\ enabled' = (todo[1].arg = "1") /\ reset' = reset /\ configured' = configured
      BY <1>1, <1>7, <2>8, HostControl, HostSteps DEF At, setEnable
    <3>2. todo[1].arg \in {"0", "1"}
      BY <2>2, <3>1 DEF AccessInv
    <3>3. ASSUME NEW arg PROVE ~G("enable", arg)
      <4>1. \A j \in 1 + 1..Len(todo) : ~Control(todo[j])
        <5>1. CASE todo[1].arg = "1"
          BY <2>2, <3>1, <5>1 DEF Order, Is
        <5>2. CASE todo[1].arg = "0"
          <6>1. 1 = Len(todo)
            BY <2>2, <3>1, <5>2 DEF Order, Is
          <6>2. QED
            BY <6>1
        <5>3. QED
          BY <3>2, <5>1, <5>2
      <4>2. n \in Nat /\ n >= 1 /\ Len(todo') = Len(todo) - n
        BY <1>7, <2>2 DEF Follows, Rest
      <4>3. \A k \in 1..Len(todo') : todo'[k] = todo[k + n] /\ k + n \in 1 + 1..Len(todo)
        BY <1>7, <2>2, <4>2 DEF Follows, Rest
      <4>4. QED
        BY <4>1, <4>3 DEF Has, Is, Control
    <3>4. CASE todo[1].arg = "1"
      <4>1. H("enable", "1")
        BY <2>3, <3>1, <3>4
      <4>2. ~H("reset", "0")
        <5>1. \A j \in 1 + 1..Len(todo) : ~Control(todo[j])
          BY <2>2, <3>1, <3>4 DEF Order, Is
        <5>2. \A j \in 1..Len(todo) : j = 1 \/ j \in 1 + 1..Len(todo)
          BY <2>2
        <5>3. QED
          BY <3>1, <5>1, <5>2 DEF Has, Is, Control
      <4>3. QED
        BY <2>1, <2>5, <2>6, <3>1, <3>3, <3>4, <4>1, <4>2 DEF ControlInv, HasAccess
    <3>5. CASE todo[1].arg = "0"
      <4>1. H("enable", "0")
        BY <2>3, <3>1, <3>5
      <4>2. QED
        BY <2>1, <2>5, <2>6, <3>1, <3>3, <3>5, <4>1 DEF ControlInv, HasAccess
    <3>6. QED
      BY <3>2, <3>4, <3>5
  <2>9. CASE ~setReset /\ ~setEnable
    <3>1. todo[1].do \notin {"reset", "enable"} /\ reset' = reset /\ enabled' = enabled /\ configured' = configured
      BY <1>1, <1>7, <2>9, HostControl, HostSteps DEF At, Host
    <3>2. todo[1].do = "linkup" => ~reset
      BY <1>1, <2>2 DEF HeadInv, At
    <3>3. reset /\ H("reset", "0") => G("reset", "0")
      BY <2>1, <3>1, <3>2
    <3>4. QED
      BY <2>1, <2>5, <2>6, <3>1, <3>3 DEF ControlInv, HasAccess
  <2>10. QED
    BY <2>7, <2>8, <2>9
<1>8. CASE Host /\ UNCHANGED todo
  <2>1. PollStatusWord \/ PollLinkUp
    <3>1. ASSUME NEW n, Follows(todo, n, todo') PROVE FALSE
      BY <1>1, <1>8, <3>1, AtHead DEF Follows, Rest
    <3>2. QED
      BY <1>1, <1>8, <3>1, HostSteps DEF Host
  <2>2. QED
    BY <1>5, <2>1 DEF PollStatusWord, PollLinkUp, ctrlVars
<1>9. QED
  BY <1>1, <1>2, <1>3, <1>4, <1>6, <1>7, <1>8, NextMoves, HostMoves
LEMMA WordTypes ==
    /\ \A c : WaitWord(c) \in Words /\ ClearWord(c) \in Words
    /\ \A c : WaitWord(c) \in AnsweredIn(c) /\ AnsweredIn(c) \subseteq Words
    /\ \A c : c # "SIU_RST" => AnsweredIn(c) = {WaitWord(c)} /\ ClearWord(c) = WaitWord(c)
BY DEF WaitWord, ClearWord, Words, AnsweredIn

LEMMA NoAnswerId == NoAnswer.id = 0
BY DEF NoAnswer

\* What the steps do to line, words and expired, seen from the line.
LEMMA LineKeeps ==
    ASSUME ProtocolInv, [Calls]_vars
    PROVE  LineInv'
<1> DEFINE Cmd(m) == [id : 1..m, cmd : Commands, addr : 0..SerialLength]
<1>1. CallInv(todo) /\ CallInv(todo') /\ HeadInv /\ LineInv /\ Types
  BY CallKeeps DEF ProtocolInv
<1>2. sent \in Nat /\ sent <= MaxCommands /\ MaxCommands \in Nat /\ words \in [Words -> Answers \cup {NoAnswer}]
  BY <1>1, BoundsAssumption DEF Types
<1>3. /\ \A w \in Words : words[w] \in Answers \cup {NoAnswer} /\ words[w].id <= sent
      /\ line \in Seq(Cmd(sent)) /\ Len(line) \in Nat /\ DOMAIN line = 1..Len(line)
      /\ \A k \in 1..Len(line) :
           /\ line[k] \in Cmd(sent)
           /\ AnsweredIn(line[k].cmd) \subseteq expired
              \/ (line[k].id = sent /\ line[k].cmd = command /\ At("wait"))
           /\ \A j \in 1..k - 1 : line[j].id < line[k].id
           /\ \A w \in Words : words[w].id # line[k].id
  <2>1. line \in Seq(Cmd(sent))
    BY <1>1 DEF LineInv
  <2>2. Len(line) \in Nat /\ DOMAIN line = 1..Len(line) /\ \A k \in 1..Len(line) : line[k] \in Cmd(sent)
    <3> HIDE DEF Cmd
    <3>1. QED
      BY <2>1
  <2>3. QED
    BY <1>1, <2>1, <2>2 DEF LineInv, Outstanding
<1>4. \A k \in 1..Len(line) : line[k].id \in Nat /\ line[k].id >= 1 /\ line[k].id <= sent
  BY <1>2, <1>3
\* The words stay or are cleared, and what is outstanding stays or is late.
<1>5. ASSUME sent' = sent, line' = line,
             \A w \in Words : words'[w] \in {words[w], NoAnswer},
             expired \subseteq expired',
             \A k \in 1..Len(line) :
                 line[k].id = sent /\ line[k].cmd = command /\ At("wait") =>
                    AnsweredIn(line[k].cmd) \subseteq expired' \/ (command' = command /\ At("wait")')
      PROVE  LineInv'
  <2>1. \A w \in Words : words'[w] \in Answers \cup {NoAnswer} /\ words'[w].id <= sent'
    BY <1>2, <1>3, <1>5, NoAnswerId
  <2>2. line' \in Seq(Cmd(sent'))
    BY <1>3, <1>5
  <2>3. ASSUME NEW k \in 1..Len(line)
        PROVE  /\ AnsweredIn(line'[k].cmd) \subseteq expired'
                  \/ (line'[k].id = sent' /\ line'[k].cmd = command' /\ At("wait")')
               /\ \A j \in 1..k - 1 : line'[j].id < line'[k].id
               /\ \A w \in Words : words'[w].id # line'[k].id
    <3>1. \A w \in Words : words'[w].id # line'[k].id
      BY <1>3, <1>4, <1>5, NoAnswerId
    <3>2. QED
      BY <1>3, <1>5, <3>1
  <2>4. QED
    BY <1>3, <1>5, <2>1, <2>2, <2>3 DEF LineInv, Outstanding
<1>6. CASE BegunConfigure \/ BegunUnconfigure \/ BegunPlain
  <2>1. Begun
    BY <1>6 DEF BegunConfigure, BegunUnconfigure, BegunPlain
  <2>2. ~At("wait") /\ sent' = sent /\ line' = line /\ words' = words /\ expired' = expired
    BY <1>1, <2>1 DEF Begun, At
  <2>3. QED
    BY <1>5, <2>2
<1>7. CASE Host /\ ~sendCommand
  <2>1. sent' = sent /\ line' = line /\ command' = command
    BY <1>1, <1>7, HostControl
  <2>2. \A w \in Words : words'[w] \in {words[w], NoAnswer}
    BY <1>2, <1>7
       DEF Host, clearLastStatusWord, PollStatusWord, GotStatusWord, StatusWordTimeout, setReset,
           PollLinkUp, waitForLinkUpReturns, setEnable
  <2>3. expired \subseteq expired'
    BY <1>7
       DEF Host, clearLastStatusWord, PollStatusWord, GotStatusWord, StatusWordTimeout, setReset,
           PollLinkUp, waitForLinkUpReturns, setEnable, historyVars
  <2>4. ASSUME NEW k \in 1..Len(line), line[k].id = sent, line[k].cmd = command, At("wait")
        PROVE  AnsweredIn(line[k].cmd) \subseteq expired' \/ At("wait")'
    <3>1. PollStatusWord \/ GotStatusWord \/ StatusWordTimeout
      BY <1>1, <1>7, <2>4, HostSteps DEF Host, At
    <3>2. CASE PollStatusWord
      BY <2>4, <3>2 DEF PollStatusWord, At
    <3>3. CASE GotStatusWord
      <4>1. Arg \in Words /\ words[Arg].id # sent
        <5>1. Arg = todo[1].arg /\ Arg = WaitWord(command)
          BY <1>1, <2>4, AtHead DEF At, HeadInv
        <5>2. Arg \in Words
          BY <5>1, WordTypes
        <5>3. QED
          BY <1>3, <2>4, <5>2
      <4>2. expired' = expired \cup AnsweredIn(command)
        BY <3>3, <4>1 DEF GotStatusWord
      <4>3. QED
        BY <2>4, <4>2
    <3>4. CASE StatusWordTimeout
      BY <2>4, <3>4 DEF StatusWordTimeout
    <3>5. QED
      BY <3>1, <3>2, <3>3, <3>4
  <2>5. QED
    BY <1>5, <2>1, <2>2, <2>3, <2>4
<1>8. CASE sendCommand
  <2>1. At("send") /\ Follows(todo, 1, todo') /\ Len(todo) > 0 /\ ~At("wait")
    BY <1>1, <1>8, HostSteps DEF At
  <2>2. PICK l : l = [id |-> sent + 1, cmd |-> Arg, addr |-> Head(todo).addr]
    OBVIOUS
  <2>3. command' = Arg /\ sent' = sent + 1 /\ line' = Append(line, l) /\ words' = words /\ expired' = expired
    BY <1>8, <2>2 DEF sendCommand, historyVars
  <2>4. Arg \in Commands /\ Head(todo).addr \in 0..SerialLength
    <3>1. Arg = todo[1].arg /\ Head(todo) = todo[1] /\ todo[1] \in Accesses /\ AccessInv(todo[1]) /\ todo[1].do = "send"
      BY <1>1, <2>1, AtHead DEF At
    <3>2. QED
      BY <3>1 DEF AccessInv, Accesses
  <2>5. At("wait")'
    <3>1. Len(todo') > 0
      <4>1. Neighbours(todo, 1) /\ todo[1].do = "send" /\ Len(todo) \in Nat
        BY <1>1, <2>1, AtHead DEF At
      <4>2. 1 < Len(todo)
        BY <4>1 DEF Neighbours
      <4>3. QED
        BY <2>1, <4>1, <4>2 DEF Follows, Rest
    <3>2. QED
      BY <1>1, <2>1, <3>1, NewHead DEF At
  <2>6. l \in Cmd(sent') /\ l.id = sent' /\ l.cmd = command'
    BY <1>2, <2>2, <2>3, <2>4
  <2>7. line' \in Seq(Cmd(sent'))
    <3>1. Cmd(sent) \subseteq Cmd(sent')
      BY <1>2, <2>3
    <3>2. line \in Seq(Cmd(sent'))
      <4>1. \A k \in 1..Len(line) : line[k] \in Cmd(sent')
        BY <1>3, <3>1
      <4> HIDE DEF Cmd
      <4>2. QED
        BY <1>3, <4>1
    <3> HIDE DEF Cmd
    <3>3. QED
      BY <2>3, <2>6, <3>2
  <2>8. /\ Len(line') = Len(line) + 1 /\ DOMAIN line' = 1..Len(line) + 1 /\ line'[Len(line) + 1] = l
        /\ \A k \in 1..Len(line) : line'[k] = line[k]
    BY <1>3, <2>3
  <2>9. \A w \in Words : words'[w] \in Answers \cup {NoAnswer} /\ words'[w].id <= sent /\ words'[w].id <= sent'
    <3>1. \A w \in Words : words[w].id \in Int
      BY <1>3, NoAnswerId DEF Answers
    <3>2. QED
      BY <1>2, <1>3, <2>3, <3>1
  <2>10. ASSUME NEW k \in DOMAIN line'
        PROVE  /\ AnsweredIn(line'[k].cmd) \subseteq expired'
                  \/ (line'[k].id = sent' /\ line'[k].cmd = command' /\ At("wait")')
               /\ \A j \in 1..k - 1 : line'[j].id < line'[k].id
               /\ \A w \in Words : words'[w].id # line'[k].id
    <3>1. k \in 1..Len(line) \/ k = Len(line) + 1
      BY <1>3, <2>8
    <3>2. CASE k \in 1..Len(line)
      <4>1. \A j \in 1..k - 1 : j \in 1..Len(line) /\ line'[j] = line[j]
        BY <1>3, <2>8, <3>2
      <4>2. QED
        BY <1>3, <2>1, <2>3, <2>8, <3>2, <4>1
    <3>3. CASE k = Len(line) + 1
      <4>1. line'[k] = l
        BY <2>8, <3>3
      <4>2. \A j \in 1..k - 1 : j \in 1..Len(line) /\ line'[j] = line[j]
        BY <1>3, <2>8, <3>3
      <4>3. \A j \in 1..k - 1 : line'[j].id < l.id
        BY <1>2, <1>4, <2>3, <2>6, <4>2
      <4>4. \A w \in Words : words'[w].id # l.id
        BY <1>2, <2>3, <2>6, <2>9
      <4>5. QED
        BY <2>5, <2>6, <4>1, <4>3, <4>4
    <3>4. QED
      BY <3>1, <3>2, <3>3
  <2>11. QED
    BY <2>7, <2>9, <2>10 DEF LineInv, Outstanding
<1>9. CASE Answer \/ Lose
  <2>1. line # <<>> /\ line' = Tail(line) /\ UNCHANGED <<todo, sent, command, expired>>
    BY <1>9 DEF Answer, Lose, hostVars, historyVars
  <2>2. /\ Len(line) > 0 /\ 1 \in 1..Len(line) /\ Head(line) = line[1]
        /\ line' \in Seq(Cmd(sent')) /\ Len(line') = Len(line) - 1 /\ DOMAIN line' = 1..Len(line) - 1
        /\ \A k \in 1..Len(line) - 1 : line'[k] = line[k + 1]
    <3> HIDE DEF Cmd
    <3>1. QED
      BY <1>3, <2>1
  <2>3. \A w \in Words : words'[w] = words[w] \/
            (words'[w] \in Answers /\ words'[w].id = line[1].id)
    <3>1. CASE Lose
      BY <3>1 DEF Lose
    <3>2. CASE Answer
      <4>1. PICK error \in BOOLEAN, v \in AnsweredIn(Head(line).cmd) :
              words' = [words EXCEPT ![v] = [id |-> Head(line).id, cmd |-> Head(line).cmd,
                                             addr |-> Head(line).addr, error |-> error]]
        BY <3>2 DEF Answer
      <4>2. [id |-> Head(line).id, cmd |-> Head(line).cmd, addr |-> Head(line).addr, error |-> error] \in Answers
        <5>1. line[1].id \in 1..MaxCommands /\ line[1].cmd \in Commands /\ line[1].addr \in 0..SerialLength
          BY <1>2, <1>3, <2>2
        <5>2. QED
          BY <2>2, <5>1 DEF Answers
      <4>3. QED
        BY <1>2, <2>2, <4>1, <4>2
    <3>3. QED
      BY <1>9, <3>1, <3>2
  <2>4. \A w \in Words : words'[w] \in Answers \cup {NoAnswer} /\ words'[w].id <= sent'
    BY <1>2, <1>3, <1>4, <2>1, <2>2, <2>3
  <2>5. ASSUME NEW k \in DOMAIN line'
        PROVE  /\ AnsweredIn(line'[k].cmd) \subseteq expired'
                  \/ (line'[k].id = sent' /\ line'[k].cmd = command' /\ At("wait")')
               /\ \A j \in 1..k - 1 : line'[j].id < line'[k].id
               /\ \A w \in Words : words'[w].id # line'[k].id
    <3> HIDE DEF Cmd
    <3>0. Len(line) \in Nat
      BY <1>3
    <3>1. k \in 1..Len(line) - 1 /\ line'[k] = line[k + 1]
      BY <2>2
    <3>2. k \in Nat /\ k + 1 \in 1..Len(line) /\ 1 \in 1..(k + 1) - 1
      BY <3>0, <3>1
    <3>3. \A j \in 1..k - 1 : j + 1 \in 1..(k + 1) - 1 /\ j \in 1..Len(line) - 1
      BY <3>0, <3>1, <3>2
    <3>4. \A j \in 1..k - 1 : line'[j] = line[j + 1]
      BY <2>2, <3>3
    <3>5. line[1].id < line[k + 1].id /\ line[1].id \in Nat
      BY <1>3, <1>4, <2>2, <3>2
    <3>6. line[k + 1].id \in Nat
      BY <1>4, <3>2
    <3>7. \A w \in Words : words'[w].id # line'[k].id
      <4>1. \A w \in Words : words[w].id # line[k + 1].id
        BY <1>3, <3>2
      <4>2. line[1].id # line[k + 1].id
        BY <3>5, <3>6
      <4>3. QED
        BY <2>3, <3>1, <4>1, <4>2
    <3>8. At("wait")' <=> At("wait")
      BY <2>1 DEF At
    <3>9. \A j \in 1..k - 1 : line'[j].id < line'[k].id
      <4>1. \A j \in 1..(k + 1) - 1 : line[j].id < line[k + 1].id
        BY <1>3, <3>2
      <4>2. QED
        BY <3>1, <3>3, <3>4, <4>1
    <3>10. QED
      BY <1>3, <2>1, <3>1, <3>2, <3>7, <3>8, <3>9
  <2>6. QED
    BY <2>2, <2>4, <2>5 DEF LineInv, Outstanding
<1>10. CASE LinkComesUp \/ LinkGoesDown \/ UNCHANGED vars
  <2>1. UNCHANGED <<todo, sent, command, line, words, expired>>
    BY <1>10 DEF LinkComesUp, LinkGoesDown, vars, hostVars, historyVars
  <2>2. At("wait")' <=> At("wait")
    BY <2>1 DEF At
  <2>3. QED
    BY <1>5, <2>1, <2>2
<1>11. QED
  BY <1>1, <1>6, <1>7, <1>8, <1>9, <1>10, NextMoves DEF Link

\* Which step of the host brings an access to the head of the call.
LEMMA HeadComes ==
    ASSUME CallInv(todo), CallInv(todo'), Host
    PROVE  /\ Len(todo) > 0
           /\ At("send")' => clearLastStatusWord /\ Arg = ClearWord(todo'[1].arg)
           /\ At("wait")' => \/ sendCommand /\ todo'[1].arg = WaitWord(Arg)
                             \/ PollStatusWord
           /\ At("enable")' /\ todo'[1].arg = "0" => GotStatusWord \/ StatusWordTimeout
<1>1. Len(todo) > 0
  BY HostSteps DEF Host, At
<1>2. Arg = todo[1].arg
  BY <1>1, AtHead
<1>3. CASE UNCHANGED todo
  <2>1. PollStatusWord \/ PollLinkUp
    <3>1. ASSUME NEW n, Follows(todo, n, todo') PROVE FALSE
      BY <1>3, <3>1, AtHead DEF Follows, Rest
    <3>2. QED
      BY <3>1, HostSteps DEF Host
  <2>2. At("wait") \/ At("linkup")
    BY <2>1, HostSteps
  <2>3. PollLinkUp => At("linkup")
    BY HostSteps
  <2>4. QED
    BY <1>1, <1>3, <2>1, <2>2, <2>3 DEF At
<1>4. ASSUME NEW n, Follows(todo, n, todo'), Len(todo') > 0
      PROVE  /\ At("send")' => clearLastStatusWord /\ Arg = ClearWord(todo'[1].arg)
             /\ At("wait")' => sendCommand /\ todo'[1].arg = WaitWord(Arg)
             /\ At("enable")' /\ todo'[1].arg = "0" => GotStatusWord \/ StatusWordTimeout
  <2>1. /\ todo'[1].do = "send" => todo[1].do = "clear" /\ todo[1].arg = ClearWord(todo'[1].arg)
        /\ todo'[1].do = "wait" => todo[1].do = "send" /\ todo'[1].arg = WaitWord(todo[1].arg)
        /\ Is(todo'[1], "enable", "0") => todo[1].do = "wait"
    BY <1>4, NewHead
  <2>2. UNCHANGED todo => FALSE
    BY <1>4, AtHead DEF Follows, Rest
  <2>3. ~PollStatusWord /\ ~PollLinkUp
    BY <2>2 DEF PollStatusWord, PollLinkUp
  <2>4. At("clear") => clearLastStatusWord
    BY <2>3, HostSteps DEF Host, At
  <2>5. At("send") => sendCommand
    BY <2>3, HostSteps DEF Host, At
  <2>6. At("wait") => GotStatusWord \/ StatusWordTimeout
    BY <2>3, HostSteps DEF Host, At
  <2>7. QED
    BY <1>1, <1>2, <2>1, <2>4, <2>5, <2>6 DEF At, Is
<1>5. QED
  BY <1>1, <1>3, <1>4, HostMoves DEF At

\* What is known of the command answered first.
LEMMA FirstInLine ==
    ASSUME Types, LineInv, line # <<>>
    PROVE  /\ Head(line) = line[1] /\ 1 \in DOMAIN line
           /\ line[1].id \in 1..sent /\ line[1].cmd \in Commands /\ line[1].addr \in 0..SerialLength
           /\ AnsweredIn(line[1].cmd) \subseteq expired \/ Outstanding(line[1])
<1> DEFINE S == [id : 1..sent, cmd : Commands, addr : 0..SerialLength]
<1>1. line \in Seq(S)
  BY DEF LineInv
<1>2. Head(line) = line[1] /\ 1 \in DOMAIN line /\ line[1] \in S
  <2> HIDE DEF S
  <2>1. QED
    BY <1>1
<1>3. QED
  BY <1>2 DEF LineInv

LEMMA WordKeeps ==
    ASSUME ProtocolInv, [Calls]_vars
    PROVE  WordInv'
<1>1. CallInv(todo) /\ CallInv(todo') /\ HeadInv /\ LineInv /\ WordInv /\ Types
  BY CallKeeps DEF ProtocolInv
<1>2. words \in [Words -> Answers \cup {NoAnswer}]
  BY <1>1 DEF Types
<1>3. ASSUME UNCHANGED <<todo, words, command, sent, expired>>
      PROVE  WordInv'
  BY <1>1, <1>3 DEF WordInv, At
<1>4. CASE BegunConfigure \/ BegunUnconfigure \/ BegunPlain
  <2>1. Begun
    BY <1>4 DEF BegunConfigure, BegunUnconfigure, BegunPlain
  <2>2. QED
    BY <2>1 DEF Begun, At, WordInv
<1>5. CASE Host
  <2>1. ASSUME At("send")', todo'[1].arg # "SIU_RST"
        PROVE  words'[WaitWord(todo'[1].arg)] = NoAnswer
    <3>1. clearLastStatusWord /\ Arg = WaitWord(todo'[1].arg) /\ Arg \in Words
      BY <1>1, <1>5, <2>1, HeadComes, WordTypes
    <3>2. QED
      BY <1>2, <3>1 DEF clearLastStatusWord
  <2>2. ASSUME At("wait")', command' # "SIU_RST"
        PROVE  \/ words'[todo'[1].arg] = NoAnswer \/ words'[todo'[1].arg].id = sent'
               \/ todo'[1].arg \in expired'
    <3>1. CASE PollStatusWord
      BY <1>1, <2>2, <3>1 DEF PollStatusWord, WordInv, At, historyVars
    <3>2. CASE sendCommand /\ todo'[1].arg = WaitWord(Arg)
      <4>1. At("send") /\ Arg = todo[1].arg /\ command' = Arg /\ words' = words /\ expired' = expired
        BY <1>1, <3>2, HostSteps, AtHead DEF sendCommand, historyVars, At
      <4>2. QED
        BY <1>1, <2>2, <3>2, <4>1 DEF WordInv
    <3>3. QED
      BY <1>1, <1>5, <2>2, <3>1, <3>2, HeadComes
  <2>3. QED
    BY <2>1, <2>2 DEF WordInv
<1>6. CASE Answer
  <2>1. line # <<>> /\ UNCHANGED <<todo, command, sent, expired>>
    BY <1>6 DEF Answer, hostVars, historyVars
  <2>2. /\ Head(line) = line[1]
        /\ AnsweredIn(line[1].cmd) \subseteq expired \/ Outstanding(line[1])
    BY <1>1, <2>1, FirstInLine
  <2>3. PICK error \in BOOLEAN, v \in AnsweredIn(line[1].cmd) :
            words' = [words EXCEPT ![v] = [id |-> line[1].id, cmd |-> line[1].cmd,
                                           addr |-> line[1].addr, error |-> error]]
    BY <1>6, <2>2 DEF Answer
  <2>4. \A w \in Words : words'[w] = words[w] \/ (w = v /\ words'[w].id = line[1].id)
    BY <1>2, <2>3
  <2>5. \A w \in Words : words'[w] = words[w] \/ w \in expired
                         \/ (words'[w].id = sent /\ At("wait"))
    BY <2>2, <2>4 DEF Outstanding
  <2>6. At("send") /\ todo[1].arg # "SIU_RST" =>
            words'[WaitWord(todo[1].arg)] = NoAnswer \/ WaitWord(todo[1].arg) \in expired
    BY <1>1, <2>5, WordTypes DEF WordInv, At
  <2>7. At("wait") /\ command # "SIU_RST" =>
            words'[todo[1].arg] = NoAnswer \/ words'[todo[1].arg].id = sent \/ todo[1].arg \in expired
    BY <1>1, <2>5, WordTypes DEF WordInv, HeadInv
  <2>8. QED
    BY <2>1, <2>6, <2>7 DEF WordInv, At
<1>7. CASE Lose \/ LinkComesUp \/ LinkGoesDown \/ UNCHANGED vars
  BY <1>3, <1>7 DEF Lose, LinkComesUp, LinkGoesDown, vars, hostVars, historyVars
<1>8. QED
  BY <1>1, <1>4, <1>5, <1>6, <1>7, NextMoves DEF Link

\* Which words may be late only grows.
LEMMA LateStaysLate ==
    ASSUME CallInv(todo), [Calls]_vars
    PROVE  expired \subseteq expired'
<1>1. CASE BegunConfigure \/ BegunUnconfigure \/ BegunPlain
  BY <1>1 DEF BegunConfigure, BegunUnconfigure, BegunPlain, Begun
<1>2. CASE Host
  BY <1>2
     DEF Host, clearLastStatusWord, sendCommand, PollStatusWord, GotStatusWord, StatusWordTimeout, setReset,
         PollLinkUp, waitForLinkUpReturns, setEnable, historyVars
<1>3. CASE Link \/ UNCHANGED vars
  BY <1>3 DEF Link, LinkComesUp, LinkGoesDown, Answer, Lose, vars, historyVars
<1>4. QED
  BY <1>1, <1>2, <1>3, NextMoves

\* How the host's steps change the outcome of EOBTR.
LEMMA HostOutcome ==
    ASSUME Types, CallInv(todo), Host
    PROVE  \/ outcome'["EOBTR"] = outcome["EOBTR"]
           \/ sendCommand /\ Arg = "EOBTR"
           \/ (GotStatusWord \/ StatusWordTimeout) /\ command = "EOBTR"
<1>1. outcome \in [Commands -> {"none", "skipped", "own", "foreign", "error", "timeout"}] /\ "EOBTR" \in Commands
  BY DEF Types, Commands
<1>2. CASE sendCommand
  BY <1>1, <1>2 DEF sendCommand
<1>3. CASE GotStatusWord
  BY <1>1, <1>3 DEF GotStatusWord
<1>4. CASE StatusWordTimeout
  BY <1>1, <1>4 DEF StatusWordTimeout
<1>5. CASE ~sendCommand /\ ~GotStatusWord /\ ~StatusWordTimeout
  BY <1>5
     DEF Host, clearLastStatusWord, PollStatusWord, setReset, PollLinkUp, waitForLinkUpReturns, setEnable, historyVars
<1>6. QED
  BY <1>2, <1>3, <1>4, <1>5

\* What the wait for the answer to EOBTR leaves behind.
LEMMA EndOfBlockTransfer ==
    ASSUME ProtocolInv, GotStatusWord \/ StatusWordTimeout, command = "EOBTR"
    PROVE  ~fee' \/ Excused'
<1>1. Types /\ CallInv(todo) /\ HeadInv /\ FeeInv
  BY DEF ProtocolInv
<1>2. At("wait") /\ Arg = "CTSTW"
  BY <1>1, HostSteps, AtHead DEF At, HeadInv, WaitWord
<1>3. outcome \in [Commands -> {"none", "skipped", "own", "foreign", "error", "timeout"}] /\ "EOBTR" \in Commands
  BY <1>1 DEF Types, Commands
<1>4. CASE StatusWordTimeout
  BY <1>4 DEF StatusWordTimeout, AnsweredIn, Excused
<1>5. CASE GotStatusWord
  <2>1. /\ outcome'["EOBTR"] = Outcome(words["CTSTW"]) /\ fee' = fee
        /\ expired' = IF words["CTSTW"].id = sent THEN expired ELSE expired \cup AnsweredIn("EOBTR")
    BY <1>2, <1>3, <1>5 DEF GotStatusWord
  <2>2. CASE words["CTSTW"].id # sent
    BY <2>1, <2>2 DEF AnsweredIn, Excused
  <2>3. CASE words["CTSTW"].id = sent /\ words["CTSTW"].error
    BY <2>1, <2>3 DEF Outcome, Excused
  <2>4. CASE words["CTSTW"].id = sent /\ ~words["CTSTW"].error
    BY <1>1, <1>2, <2>1, <2>4 DEF FeeInv, Excused
  <2>5. QED
    BY <2>2, <2>3, <2>4
<1>6. QED
  BY <1>4, <1>5

LEMMA FeeKeeps ==
    ASSUME ProtocolInv, [Calls]_vars
    PROVE  FeeInv'
<1>1. CallInv(todo) /\ CallInv(todo') /\ HeadInv /\ ControlInv /\ LineInv /\ FeeInv /\ Types
  BY CallKeeps DEF ProtocolInv
<1>2. words \in [Words -> Answers \cup {NoAnswer}] /\ sent \in Nat /\ "CTSTW" \in Words /\ fee \in BOOLEAN
      /\ outcome \in [Commands -> {"none", "skipped", "own", "foreign", "error", "timeout"}] /\ "EOBTR" \in Commands
  BY <1>1 DEF Types, Words, Commands
<1>3. expired \subseteq expired'
  BY <1>1, LateStaysLate
<1>4. ASSUME UNCHANGED <<todo, words, command, sent, expired, outcome, fee, enabled, reset>>
      PROVE  FeeInv'
  BY <1>1, <1>4 DEF FeeInv, At, Excused
<1>5. CASE BegunConfigure \/ BegunPlain
  <2>1. Begun /\ outcome' = outcome
    BY <1>5 DEF BegunConfigure, BegunPlain
  <2>2. Len(todo') > 0 => todo'[1].do \in {"clear", "reset"}
    BY <1>5 DEF BegunConfigure, BegunPlain
  <2>3. ~At("wait")' /\ ~At("enable")'
    BY <2>2 DEF At
  <2>4. QED
    BY <1>1, <2>1, <2>3 DEF Begun, ctrlVars, FeeInv, Excused
<1>6. CASE BegunUnconfigure
  <2>1. enabled' /\ ~reset'
    BY <1>1, <1>6, NothingLeft DEF BegunUnconfigure, Begun, ctrlVars, ControlInv, HasAccess
  <2>2. ~At("wait")'
    BY <1>6 DEF BegunUnconfigure, Begun, At
  <2>3. At("enable")' => Excused'
    BY <1>2, <1>6 DEF BegunUnconfigure, At, Excused
  <2>4. QED
    BY <2>1, <2>2, <2>3 DEF FeeInv
<1>7. CASE Host
  <2>1. fee' = fee
    BY <1>1, <1>7, HostControl
  <2>2. Len(todo) > 0 /\ Arg = todo[1].arg /\ Order(todo, 1) /\ 1 \in 1..Len(todo) /\ Len(todo) \in Nat
        /\ AccessInv(todo[1])
    BY <1>1, <1>7, HeadComes, AtHead
  <2>3. sendCommand /\ Arg = "EOBTR" => enabled /\ ~reset
    <3>1. SUFFICES ASSUME sendCommand, Arg = "EOBTR" PROVE enabled /\ ~reset
      OBVIOUS
    <3>2. Is(todo[1], "send", "EOBTR")
      BY <1>1, <2>2, <3>1, HostSteps DEF At, Is
    <3>3. 1 + 2 = Len(todo) /\ Is(todo[1 + 2], "enable", "0")
      BY <2>2, <3>2 DEF Order
    <3>4. 3 \in 1..Len(todo) /\ Is(todo[3], "enable", "0")
      BY <3>3
    <3>5. HasAccess("enable", "0")
      BY <3>4 DEF HasAccess, Has
    <3>6. QED
      BY <1>1, <3>5 DEF ControlInv
  <2>4. (GotStatusWord \/ StatusWordTimeout) /\ command = "EOBTR" => ~fee' \/ Excused'
    BY EndOfBlockTransfer
  <2>5. Excused => Excused' \/ (sendCommand /\ Arg = "EOBTR") \/ ~fee'
    BY <1>1, <1>3, <1>7, <2>4, HostOutcome DEF Excused
  <2>6. fee' => (enabled' /\ ~reset') \/ Excused'
    <3>1. SUFFICES ASSUME fee', ~Excused' PROVE enabled' /\ ~reset'
      OBVIOUS
    <3>2. enabled /\ ~reset
      BY <1>1, <2>1, <2>3, <2>5, <3>1 DEF FeeInv
    <3>3. CASE setReset
      <4>1. At("reset") /\ \E j \in 1 + 1..Len(todo) : Is(todo[j], "enable", "1")
        BY <1>1, <2>2, <3>3, HostSteps DEF At, Order
      <4>2. HasAccess("enable", "1")
        BY <2>2, <4>1 DEF HasAccess, Has
      <4>3. QED
        BY <1>1, <3>2, <4>2 DEF ControlInv
    <3>4. CASE setEnable
      <4>1. At("enable") /\ enabled' = (todo[1].arg = "1") /\ ~sendCommand
        BY <1>1, <1>7, <3>4, HostControl, HostSteps DEF At
      <4>2. todo[1].arg \in {"0", "1"}
        BY <2>2, <4>1 DEF At, AccessInv
      <4>3. todo[1].arg # "0"
        BY <1>1, <2>1, <2>5, <3>1, <4>1 DEF FeeInv
      <4>4. ~setReset
        BY <1>1, <4>1, HostSteps DEF At
      <4>5. reset' = reset
        BY <1>1, <1>7, <4>4, HostControl
      <4>6. enabled'
        BY <4>1, <4>2, <4>3
      <4>7. QED
        BY <3>2, <4>5, <4>6
    <3>5. CASE ~setReset /\ ~setEnable
      BY <1>1, <1>7, <3>2, <3>5, HostControl
    <3>6. QED
      BY <3>3, <3>4, <3>5
  <2>7. At("enable")' /\ todo'[1].arg = "0" => ~fee' \/ Excused'
    <3>1. SUFFICES ASSUME At("enable")', todo'[1].arg = "0" PROVE command = "EOBTR" /\ (GotStatusWord \/ StatusWordTimeout)
      BY <2>4
    <3>2. (GotStatusWord \/ StatusWordTimeout) /\ At("wait")
      BY <1>1, <1>7, <3>1, HeadComes, HostSteps
    <3>3. PICK n : Follows(todo, n, todo')
      BY <1>1, <3>2, HostSteps
    <3>4. Len(todo') > 0 /\ Is(todo'[1], "enable", "0")
      BY <3>1 DEF At, Is
    <3>5. n = 1 /\ todo'[1] = todo[n + 1] /\ n + 1 \in 1..Len(todo)
      BY <1>1, <3>3, <3>4, NewHead
    <3>6. 2 \in 1..Len(todo) /\ Is(todo[2], "enable", "0")
      BY <3>4, <3>5
    <3>7. Order(todo, 2)
      BY <1>1, <3>6 DEF CallInv
    <3>8. 2 = Len(todo)
      BY <3>6, <3>7 DEF Order
    <3>9. QED
      BY <1>1, <3>2, <3>6, <3>8 DEF HeadInv
  <2>8. At("wait")' /\ command' = "EOBTR" /\ words'["CTSTW"].id = sent' /\ ~words'["CTSTW"].error =>
            ~fee' \/ "CTSTW" \in expired'
    <3>1. CASE PollStatusWord
      BY <1>1, <3>1 DEF PollStatusWord, FeeInv, At, historyVars
    <3>2. CASE sendCommand
      <4>1. words' = words /\ sent' = sent + 1
        BY <3>2 DEF sendCommand
      <4>2. words["CTSTW"].id <= sent /\ words["CTSTW"].id \in Int
        BY <1>1, <1>2 DEF LineInv, Answers, NoAnswer
      <4>3. words'["CTSTW"].id # sent'
        BY <1>2, <4>1, <4>2
      <4>4. QED
        BY <4>3
    <3>3. QED
      BY <1>1, <1>7, <3>1, <3>2, HeadComes
  <2>9. QED
    BY <2>6, <2>7, <2>8 DEF FeeInv
<1>8. CASE Answer
  <2>1. line # <<>> /\ UNCHANGED <<todo, command, sent, expired, outcome, enabled, reset>>
    BY <1>8 DEF Answer, hostVars, historyVars, ctrlVars
  <2>2. /\ Head(line) = line[1]
        /\ AnsweredIn(line[1].cmd) \subseteq expired \/ Outstanding(line[1])
    BY <1>1, <2>1, FirstInLine
  <2>3. PICK error \in BOOLEAN, v \in AnsweredIn(line[1].cmd) :
            /\ words' = [words EXCEPT ![v] = [id |-> line[1].id, cmd |-> line[1].cmd,
                                              addr |-> line[1].addr, error |-> error]]
            /\ fee' \in {FeeAfter(line[1].cmd)} \cup (IF error THEN {fee} ELSE {})
    BY <1>8, <2>2 DEF Answer
  <2>4. (fee' = fee \/ fee' = FeeAfter(line[1].cmd)) /\ (~error => fee' = FeeAfter(line[1].cmd))
    BY <2>3
  <2>5. fee' /\ ~fee => "CTSTW" \in expired \/ (At("wait") /\ command = "RDYRX")
    <3>1. fee' /\ ~fee => line[1].cmd = "RDYRX"
      BY <2>4 DEF FeeAfter
    <3>2. line[1].cmd = "RDYRX" => "CTSTW" \in AnsweredIn(line[1].cmd)
      BY DEF AnsweredIn
    <3>3. QED
      BY <2>2, <3>1, <3>2 DEF Outstanding
  <2>6. At("wait") /\ command = "RDYRX" => enabled /\ ~reset
    <3>1. SUFFICES ASSUME At("wait"), command = "RDYRX" PROVE enabled /\ ~reset
      OBVIOUS
    <3>2. configured # "no" /\ \A k \in 1..Len(todo) : ~Control(todo[k])
      BY <1>1, <3>1 DEF ControlInv
    <3>3. ~HasAccess("enable", "1") /\ ~HasAccess("reset", "0")
      BY <3>2 DEF HasAccess, Has, Is, Control
    <3>4. QED
      BY <1>1, <3>2, <3>3 DEF ControlInv
  <2>7. fee' => (enabled /\ ~reset) \/ Excused
    BY <1>1, <2>5, <2>6 DEF FeeInv, Excused
  <2>8. At("enable") /\ todo[1].arg = "0" => ~fee' \/ Excused
    BY <1>1, <2>5 DEF FeeInv, Excused, At
  <2>9. At("wait") /\ command = "EOBTR" /\ words'["CTSTW"].id = sent /\ ~words'["CTSTW"].error =>
            ~fee' \/ "CTSTW" \in expired
    <3>1. SUFFICES ASSUME At("wait"), command = "EOBTR", words'["CTSTW"].id = sent, ~words'["CTSTW"].error,
                          fee', "CTSTW" \notin expired
                   PROVE  FALSE
      OBVIOUS
    <3>2. fee
      BY <2>5, <3>1
    <3>3. CASE v # "CTSTW"
      BY <1>1, <1>2, <2>3, <3>1, <3>2, <3>3 DEF FeeInv
    <3>4. CASE v = "CTSTW"
      <4>1. Outstanding(line[1])
        BY <2>2, <3>1, <3>4
      <4>2. ~error
        BY <1>2, <2>3, <3>1, <3>4
      <4>3. line[1].cmd = "EOBTR"
        BY <3>1, <4>1 DEF Outstanding
      <4>4. QED
        BY <2>4, <3>1, <4>2, <4>3 DEF FeeAfter
    <3>5. QED
      BY <3>3, <3>4
  <2>10. QED
    BY <2>1, <2>7, <2>8, <2>9 DEF FeeInv, At, Excused
<1>9. CASE Lose \/ LinkComesUp \/ LinkGoesDown \/ UNCHANGED vars
  BY <1>4, <1>9 DEF Lose, LinkComesUp, LinkGoesDown, vars, hostVars, historyVars, ctrlVars
<1>10. QED
  BY <1>1, <1>5, <1>6, <1>7, <1>8, <1>9, NextMoves DEF Link

Reading(s) == Has(s, "send", "HWVERS") \/ Has(s, "wait", "FESTW")

\* The first access of the rest of readRemoteSerial(), and the bytes it has.
LEMMA SerialHead ==
    ASSUME CallInv(todo), SerialInv, Reading(todo)
    PROVE  \E a \in 0..SerialLength - 1, p \in 1..3 :
              /\ Len(todo) = 3 * SerialLength - (3 * a + p) + 1 /\ Len(serial) = a
              /\ \A k \in 1..Len(todo) : todo[k] = readRemoteSerial[(3 * a + p - 1) + k]
              /\ p = 1 => todo[1].do = "clear"
              /\ p = 2 => todo[1].do = "send" /\ todo[1].arg = "HWVERS" /\ todo[1].addr = a
              /\ p = 3 => todo[1].do = "wait" /\ todo[1].arg = "FESTW" /\ 1 + todo[1].skip = Len(todo)
<1>1. Len(todo) \in Nat /\ SerialLength \in Nat
  BY AtHead, BoundsAssumption
<1>2. Len(todo) > 0
  BY <1>1 DEF Reading, Has
<1>3. PICK n : n = 3 * SerialLength - Len(todo)
  OBVIOUS
<1>4. n \in Nat /\ Len(serial) = n \div 3 /\ \A k \in 1..Len(todo) : todo[k] = readRemoteSerial[n + k]
  BY <1>3 DEF SerialInv, HasAccess, Reading
<1>5. n + 1 \in 1..3 * SerialLength
  BY <1>1, <1>2, <1>3, <1>4
<1>6. PICK a \in 0..SerialLength - 1, p \in 1..3 : n + 1 = 3 * a + p
  BY <1>5, SerialPosition
<1>7. n \div 3 = a /\ n = 3 * a + p - 1
  BY <1>1, <1>4, <1>6
<1>8. Len(todo) = 3 * SerialLength - (3 * a + p) + 1
  BY <1>1, <1>3, <1>7
<1>9. todo[1] = readRemoteSerial[3 * a + p]
  <2>1. 1 \in 1..Len(todo)
    BY <1>1, <1>2
  <2>2. QED
    BY <1>4, <1>6, <2>1
<1>10. /\ p = 1 => todo[1].do = "clear"
       /\ p = 2 => todo[1].do = "send" /\ todo[1].arg = "HWVERS" /\ todo[1].addr = a
       /\ p = 3 => todo[1].do = "wait" /\ todo[1].arg = "FESTW" /\ todo[1].skip = 3 * (SerialLength - a - 1)
  BY <1>9, SerialFields
<1>11. p = 3 => 1 + 3 * (SerialLength - a - 1) = Len(todo)
  BY <1>1, <1>8
<1>12. QED
  BY <1>4, <1>7, <1>8, <1>10, <1>11

LEMMA LineTail ==
    ASSUME LineInv, line # <<>>, line' = Tail(line)
    PROVE  \A k \in DOMAIN line' : k + 1 \in DOMAIN line /\ line'[k] = line[k + 1]
<1> DEFINE S == [id : 1..sent, cmd : Commands, addr : 0..SerialLength]
<1>1. line \in Seq(S)
  BY DEF LineInv
<1> HIDE DEF S
<1>2. QED
  BY <1>1

\* A byte is taken from FESTW, after the others.
LEMMA SerialByte ==
    ASSUME ProtocolInv, GotStatusWord, Arg = "FESTW"
    PROVE  /\ serial' = Append(serial, words["FESTW"]) /\ words["FESTW"] \in Answers
           /\ "FESTW" \notin expired' => "FESTW" \notin expired /\ words["FESTW"].addr = Len(serial)
<1>1. CallInv(todo) /\ HeadInv /\ SerialInv /\ Types
  BY DEF ProtocolInv
<1>2. At("wait") /\ todo[1].arg = "FESTW"
  BY <1>1, HostSteps, AtHead DEF At
<1>3. command = "HWVERS"
  BY <1>1, <1>2 DEF HeadInv, WaitWord
<1>4. words["FESTW"] \in Answers
  BY <1>1 DEF GotStatusWord, Answered, Types, Words
<1>5. expired' = IF words["FESTW"].id = sent THEN expired ELSE expired \cup {"FESTW"}
  BY <1>3 DEF GotStatusWord, AnsweredIn
<1>6. QED
  BY <1>1, <1>2, <1>3, <1>4, <1>5 DEF GotStatusWord, SerialInv

LEMMA SerialKeeps ==
    ASSUME ProtocolInv, [Calls]_vars
    PROVE  SerialInv'
<1>1. CallInv(todo) /\ CallInv(todo') /\ HeadInv /\ LineInv /\ SerialInv /\ Types
  BY CallKeeps DEF ProtocolInv
<1>2. SerialLength \in Nat /\ sent \in Nat /\ "FESTW" \in Words /\ Len(todo) \in Nat /\ Len(todo') \in Nat
      /\ words \in [Words -> Answers \cup {NoAnswer}]
  BY <1>1, BoundsAssumption, AtHead DEF Types, Words, CallInv
<1>3. serial \in Seq(Answers) /\ Len(serial) \in Nat
  BY <1>1 DEF SerialInv
<1>4. ("FESTW" \notin expired => \A k \in 1..Len(serial) : serial[k].addr = k - 1)
  BY <1>1 DEF SerialInv
<1>5. expired \subseteq expired'
  BY <1>1, LateStaysLate
<1>6. CASE BegunConfigure \/ BegunUnconfigure \/ (BegunPlain /\ serial' = serial /\ ~Reading(todo'))
  <2>1. serial' = serial /\ ~Reading(todo') /\ ~At("wait")'
    BY <1>6 DEF BegunConfigure, BegunUnconfigure, BegunPlain, Begun, Reading, At
  <2>2. QED
    BY <1>3, <1>4, <1>5, <2>1 DEF SerialInv, Reading, HasAccess
<1>7. CASE BegunPlain /\ serial' = <<>> /\ todo' = readRemoteSerial
  <2>1. Len(todo') = 3 * SerialLength /\ ~At("wait")'
    BY <1>7, SerialCallInv DEF BegunPlain, At
  <2>2. 3 * SerialLength - Len(todo') = 0 /\ 0 \div 3 = 0
    BY <1>2, <2>1
  <2>3. \A k \in 1..Len(todo') : todo'[k] = readRemoteSerial[0 + k]
    BY <1>2, <1>7
  <2>4. Len(serial') = 0 /\ serial' \in Seq(Answers) /\ \A k \in 1..Len(serial') : serial'[k].addr = k - 1
    BY <1>7
  <2>5. QED
    BY <2>1, <2>2, <2>3, <2>4 DEF SerialInv
<1>8. CASE Host
  <2>1. /\ serial' \in Seq(Answers)
        /\ "FESTW" \notin expired' => \A k \in 1..Len(serial') : serial'[k].addr = k - 1
    <3>1. CASE GotStatusWord /\ Arg = "FESTW"
      <4>1. /\ serial' = Append(serial, words["FESTW"]) /\ words["FESTW"] \in Answers
            /\ "FESTW" \notin expired' => "FESTW" \notin expired /\ words["FESTW"].addr = Len(serial)
        BY <3>1, SerialByte
      <4>2. /\ serial' \in Seq(Answers) /\ Len(serial') = Len(serial) + 1
            /\ serial'[Len(serial) + 1] = words["FESTW"] /\ \A k \in 1..Len(serial) : serial'[k] = serial[k]
        BY <1>3, <4>1
      <4>3. \A k \in 1..Len(serial') : k \in 1..Len(serial) \/ k = Len(serial) + 1
        BY <1>3, <4>2
      <4>4. (Len(serial) + 1) - 1 = Len(serial)
        BY <1>3
      <4>5. QED
        BY <1>4, <4>1, <4>2, <4>3, <4>4
    <3>2. CASE ~(GotStatusWord /\ Arg = "FESTW")
      <4>1. serial' = serial
        BY <1>8, <3>2
           DEF Host, clearLastStatusWord, sendCommand, PollStatusWord, GotStatusWord, StatusWordTimeout,
               setReset, PollLinkUp, waitForLinkUpReturns, setEnable
      <4>2. QED
        BY <1>3, <1>4, <1>5, <4>1
    <3>3. QED
      BY <3>1, <3>2
  <2>2. ASSUME Reading(todo')
        PROVE  LET n == 3 * SerialLength - Len(todo') IN
               /\ n \in Nat /\ Len(serial') = n \div 3
               /\ \A k \in 1..Len(todo') : todo'[k] = readRemoteSerial[n + k]
    <3>1. CASE PollStatusWord \/ PollLinkUp
      BY <1>1, <2>2, <3>1 DEF PollStatusWord, PollLinkUp, SerialInv, Reading, HasAccess
    <3>2. CASE ~PollStatusWord /\ ~PollLinkUp
      <4>1. PICK m : Follows(todo, m, todo')
        BY <1>1, <1>8, <3>2, HostSteps DEF Host
      <4>2. Reading(todo)
        BY <1>1, <2>2, <4>1, HasRest DEF Reading
      <4>3. PICK a \in 0..SerialLength - 1, p \in 1..3 :
              /\ Len(todo) = 3 * SerialLength - (3 * a + p) + 1 /\ Len(serial) = a
              /\ \A k \in 1..Len(todo) : todo[k] = readRemoteSerial[(3 * a + p - 1) + k]
              /\ p = 1 => todo[1].do = "clear"
              /\ p = 2 => todo[1].do = "send" /\ todo[1].arg = "HWVERS" /\ todo[1].addr = a
              /\ p = 3 => todo[1].do = "wait" /\ todo[1].arg = "FESTW" /\ 1 + todo[1].skip = Len(todo)
        BY <1>1, <4>2, SerialHead
      <4>4. Len(todo) > 0 /\ Len(todo') > 0
        BY <1>1, <1>2, <1>8, <2>2, HeadComes DEF Reading, Has
      <4>5. Arg = todo[1].arg
        BY <1>1, <4>4, AtHead
      <4>6. m = 1
        <5>1. m # 1 => m = 1 + todo[1].skip /\ todo[1].do = "wait"
          BY <4>1, <4>3 DEF Follows
        <5>2. m # 1 => m = Len(todo)
          BY <4>3, <5>1
        <5>3. Len(todo') = Len(todo) - m
          BY <4>1 DEF Follows, Rest
        <5>4. QED
          BY <1>2, <4>4, <5>2, <5>3
      <4>7. Len(todo') = Len(todo) - 1 /\ \A k \in 1..Len(todo') : todo'[k] = todo[k + 1]
        BY <4>1, <4>6 DEF Follows, Rest
      <4>8. 3 * SerialLength - Len(todo') = 3 * a + p
        BY <1>2, <4>3, <4>7
      <4>9. 3 * a + p \in Nat
        BY <1>2
      <4>10. \A k \in 1..Len(todo') : todo'[k] = readRemoteSerial[(3 * a + p) + k]
        <5>1. \A k \in 1..Len(todo') : k + 1 \in 1..Len(todo) /\ (3 * a + p - 1) + (k + 1) = (3 * a + p) + k
          BY <1>2, <4>7
        <5>2. QED
          BY <4>3, <4>7, <5>1
      <4>11. Len(serial') = (3 * a + p) \div 3
        <5>1. CASE p = 3
          <6>1. (3 * a + p) \div 3 = a + 1
            BY <1>2, <5>1
          <6>2. At("wait") /\ Arg = "FESTW"
            BY <4>3, <4>4, <4>5, <5>1 DEF At
          <6>3. ~StatusWordTimeout
            <7>1. StatusWordTimeout => Follows(todo, 1 + todo[1].skip, todo')
              BY <1>1, HostSteps
            <7>2. 1 + todo[1].skip = Len(todo)
              BY <4>3, <5>1
            <7>3. StatusWordTimeout => Len(todo') = Len(todo) - Len(todo)
              BY <7>1, <7>2 DEF Follows, Rest
            <7>4. QED
              BY <1>2, <4>4, <7>3
          <6>4. GotStatusWord
            BY <1>1, <1>8, <3>2, <6>2, <6>3, HostSteps DEF Host, At
          <6>5. serial' = Append(serial, words["FESTW"])
            BY <6>2, <6>4, SerialByte
          <6>6. QED
            BY <1>3, <4>3, <6>1, <6>5
        <5>2. CASE p \in {1, 2}
          <6>1. (3 * a + p) \div 3 = a
            BY <1>2, <5>2
          <6>2. ~At("wait")
            BY <4>3, <5>2 DEF At
          <6>3. ~GotStatusWord
            BY <1>1, <6>2, HostSteps
          <6>4. serial' = serial
            BY <1>8, <6>3
               DEF Host, clearLastStatusWord, sendCommand, PollStatusWord, StatusWordTimeout,
                   setReset, PollLinkUp, waitForLinkUpReturns, setEnable
          <6>5. QED
            BY <4>3, <6>1, <6>4
        <5>3. QED
          BY <5>1, <5>2
      <4>12. QED
        BY <4>8, <4>9, <4>10, <4>11
    <3>3. QED
      BY <3>1, <3>2
  <2>3. ASSUME At("wait")', command' = "HWVERS"
        PROVE  /\ \A k \in DOMAIN line' : line'[k].id = sent' => line'[k].addr = Len(serial')
               /\ words'["FESTW"].id = sent' => words'["FESTW"].addr = Len(serial')
    <3>1. CASE PollStatusWord
      BY <1>1, <2>3, <3>1 DEF PollStatusWord, SerialInv, At
    <3>2. CASE sendCommand
      <4>1. Len(todo) > 0 /\ At("send") /\ Arg = todo[1].arg /\ Head(todo) = todo[1] /\ 1 \in 1..Len(todo)
        BY <1>1, <3>2, HostSteps, AtHead DEF At
      <4>2. todo[1].do = "send" /\ todo[1].arg = "HWVERS"
        BY <2>3, <3>2, <4>1 DEF sendCommand, At
      <4>3. Reading(todo)
        BY <4>1, <4>2 DEF Reading, Has, Is
      <4>4. todo[1].addr = Len(serial)
        <5>1. PICK a \in 0..SerialLength - 1, p \in 1..3 :
                /\ Len(serial) = a
                /\ p = 1 => todo[1].do = "clear"
                /\ p = 2 => todo[1].addr = a
                /\ p = 3 => todo[1].do = "wait"
          BY <1>1, <4>3, SerialHead
        <5>2. QED
          BY <4>2, <5>1
      <4>5. /\ line' = Append(line, [id |-> sent + 1, cmd |-> Arg, addr |-> todo[1].addr])
            /\ sent' = sent + 1 /\ serial' = serial /\ words' = words
        BY <3>2, <4>1 DEF sendCommand
      <4>6. words'["FESTW"].id # sent'
        <5>1. words["FESTW"].id <= sent /\ words["FESTW"].id \in Int
          BY <1>1, <1>2 DEF LineInv, Answers, NoAnswer
        <5>2. QED
          BY <1>2, <4>5, <5>1
      <4>7. \A k \in DOMAIN line' : line'[k].id = sent' => line'[k].addr = Len(serial')
        <5> DEFINE S == [id : 1..sent, cmd : Commands, addr : 0..SerialLength]
        <5>1. line \in Seq(S)
          BY <1>1 DEF LineInv
        <5>2. PICK l : l = [id |-> sent + 1, cmd |-> Arg, addr |-> todo[1].addr]
          OBVIOUS
        <5>3. Len(line) \in Nat /\ DOMAIN line = 1..Len(line) /\ \A k \in 1..Len(line) : line[k] \in S
          <6> HIDE DEF S
          <6>1. QED
            BY <5>1
        <5>4. DOMAIN line' = 1..Len(line) + 1 /\ line'[Len(line) + 1] = l /\ \A k \in 1..Len(line) : line'[k] = line[k]
          <6> HIDE DEF S
          <6>1. QED
            BY <4>5, <5>1, <5>2, <5>3
        <5>5. \A k \in 1..Len(line) : line[k].id # sent + 1
          BY <1>2, <5>3
        <5>6. \A k \in DOMAIN line' : k \in 1..Len(line) \/ k = Len(line) + 1
          BY <5>3, <5>4
        <5>7. l.addr = Len(serial)
          BY <4>4, <5>2
        <5>8. QED
          BY <4>5, <5>4, <5>5, <5>6, <5>7
      <4>8. QED
        BY <4>6, <4>7
    <3>3. QED
      BY <1>1, <1>8, <2>3, <3>1, <3>2, HeadComes
  <2>4. QED
    BY <2>1, <2>2, <2>3 DEF SerialInv, Reading, HasAccess
<1>9. CASE Answer \/ Lose
  <2>1. line # <<>> /\ line' = Tail(line) /\ UNCHANGED <<todo, serial, command, sent, expired>>
    BY <1>9 DEF Answer, Lose, hostVars, historyVars
  <2>2. ASSUME At("wait"), command = "HWVERS"
        PROVE  /\ \A k \in DOMAIN line' : line'[k].id = sent => line'[k].addr = Len(serial)
               /\ words'["FESTW"].id = sent => words'["FESTW"].addr = Len(serial)
    <3>1. /\ \A k \in DOMAIN line : line[k].id = sent => line[k].addr = Len(serial)
          /\ words["FESTW"].id = sent => words["FESTW"].addr = Len(serial)
      BY <1>1, <2>2 DEF SerialInv
    <3>2. \A k \in DOMAIN line' : k + 1 \in DOMAIN line /\ line'[k] = line[k + 1]
      BY <1>1, <2>1, LineTail
    <3>3. Head(line) = line[1] /\ 1 \in DOMAIN line
      BY <1>1, <2>1, FirstInLine
    <3>4. words'["FESTW"] = words["FESTW"]
          \/ (words'["FESTW"].id = line[1].id /\ words'["FESTW"].addr = line[1].addr)
      <4>1. CASE Lose
        BY <4>1 DEF Lose
      <4>2. CASE Answer
        <5>1. PICK error \in BOOLEAN, v \in AnsweredIn(line[1].cmd) :
                words' = [words EXCEPT ![v] = [id |-> line[1].id, cmd |-> line[1].cmd,
                                               addr |-> line[1].addr, error |-> error]]
          BY <3>3, <4>2 DEF Answer
        <5>2. QED
          BY <1>2, <5>1
      <4>3. QED
        BY <1>9, <4>1, <4>2
    <3>5. QED
      BY <3>1, <3>2, <3>3, <3>4
  <2>3. At("wait")' /\ command' = "HWVERS" =>
            /\ \A k \in DOMAIN line' : line'[k].id = sent' => line'[k].addr = Len(serial')
            /\ words'["FESTW"].id = sent' => words'["FESTW"].addr = Len(serial')
    BY <2>1, <2>2 DEF At
  <2>4. QED
    BY <1>1, <2>1, <2>3 DEF SerialInv, HasAccess
<1>10. CASE LinkComesUp \/ LinkGoesDown \/ UNCHANGED vars
  BY <1>1, <1>10 DEF LinkComesUp, LinkGoesDown, vars, hostVars, historyVars, SerialInv, HasAccess, At
<1>11. QED
  BY <1>1, <1>6, <1>7, <1>8, <1>9, <1>10, NextMoves DEF Link, BegunPlain, Reading

OutcomeNames == {"none", "skipped", "own", "foreign", "error", "timeout"}

LEMMA TypesKeep ==
    ASSUME ProtocolInv, [Calls]_vars
    PROVE  Types'
<1>1. CallInv(todo) /\ HeadInv /\ LineInv /\ Types
  BY DEF ProtocolInv
<1>2. outcome \in [Commands -> OutcomeNames] /\ expired \subseteq Words /\ sent \in Nat /\ MaxCommands \in Nat
      /\ words \in [Words -> Answers \cup {NoAnswer}] /\ timeout \in 0..Timeout /\ Timeout \in Nat
  BY <1>1, BoundsAssumption DEF Types, OutcomeNames
<1>3. CASE BegunConfigure \/ BegunUnconfigure \/ BegunPlain
  <2>1. Begun
    BY <1>3 DEF BegunConfigure, BegunUnconfigure, BegunPlain
  <2>2. configured' \in {"no", "SIU", "DIU"}
    BY <1>1, <1>3 DEF BegunConfigure, BegunUnconfigure, BegunPlain, Types
  <2>3. outcome' \in [Commands -> OutcomeNames]
    BY <1>2, <1>3 DEF BegunConfigure, BegunUnconfigure, BegunPlain, OutcomeNames
  <2>4. QED
    BY <1>1, <2>1, <2>2, <2>3 DEF Begun, ctrlVars, Types, OutcomeNames
<1>4. CASE Host
  <2>1. timeout' \in 0..Timeout /\ ret' \in {-1, 0}
    <3>1. timeout' \in {timeout, Timeout} \/ (timeout # 0 /\ timeout' = timeout - 1)
      BY <1>4
         DEF Host, clearLastStatusWord, sendCommand, PollStatusWord, GotStatusWord, StatusWordTimeout,
             setReset, PollLinkUp, waitForLinkUpReturns, setEnable, PollsLeft, CountDown
    <3>2. ret' \in {ret, -1, 0}
      BY <1>4
         DEF Host, clearLastStatusWord, sendCommand, PollStatusWord, GotStatusWord, StatusWordTimeout,
             setReset, PollLinkUp, waitForLinkUpReturns, setEnable, LinkUpReturns
    <3>3. timeout' \in 0..Timeout
      BY <1>2, <3>1
    <3>4. QED
      BY <1>1, <3>2, <3>3 DEF Types
  <2>2. configured' = configured /\ fee' = fee
    BY <1>1, <1>4, HostControl
  <2>3. reset' \in BOOLEAN /\ enabled' \in BOOLEAN
    BY <1>1, <1>4, HostControl DEF Types
  <2>4. linkUp' \in BOOLEAN
    BY <1>1, <1>4
       DEF Host, clearLastStatusWord, sendCommand, PollStatusWord, GotStatusWord, StatusWordTimeout,
           setReset, PollLinkUp, waitForLinkUpReturns, setEnable, ctrlVars, Types
  <2>5. words' \in [Words -> Answers \cup {NoAnswer}]
    BY <1>2, <1>4
       DEF Host, clearLastStatusWord, sendCommand, PollStatusWord, GotStatusWord, StatusWordTimeout,
           setReset, PollLinkUp, waitForLinkUpReturns, setEnable
  <2>6. sent' \in 0..MaxCommands /\ command' \in Commands \cup {"none"}
    <3>1. CASE sendCommand
      <4>1. Len(todo) > 0 /\ At("send") /\ Arg = todo[1].arg /\ AccessInv(todo[1]) /\ Follows(todo, 1, todo')
        BY <1>1, <3>1, HostSteps, AtHead DEF At
      <4>2. Rest(todo, 1, todo') /\ todo \in Seq(Accesses) /\ todo' \in Seq(Accesses)
        BY <1>1, <4>1 DEF Follows, Rest, CallInv
      <4>3. Sends(todo') + 1 <= Sends(todo) /\ Sends(todo) \in Nat /\ Sends(todo') \in Nat
        BY <4>1, <4>2, SendsOfRest, SendsType DEF At
      <4>4. sent + Sends(todo) <= MaxCommands /\ sent' = sent + 1
        BY <1>1, <3>1 DEF HeadInv, sendCommand
      <4>5. sent' \in 0..MaxCommands
        BY <1>2, <4>3, <4>4
      <4>6. QED
        BY <3>1, <4>1, <4>5 DEF sendCommand, AccessInv, At
    <3>2. CASE ~sendCommand
      BY <1>1, <1>4, <3>2, HostControl DEF Types
    <3>3. QED
      BY <3>1, <3>2
  <2>7. outcome' \in [Commands -> OutcomeNames]
    <3>1. \A answer : Outcome(answer) \in OutcomeNames
      BY DEF Outcome, OutcomeNames
    <3>2. {"none", "timeout"} \subseteq OutcomeNames
      BY DEF OutcomeNames
    <3>3. outcome' = outcome \/ \E c, o : o \in OutcomeNames /\ outcome' = [outcome EXCEPT ![c] = o]
      BY <1>4, <3>1, <3>2
         DEF Host, clearLastStatusWord, sendCommand, PollStatusWord, GotStatusWord, StatusWordTimeout,
             setReset, PollLinkUp, waitForLinkUpReturns, setEnable, historyVars
    <3>4. QED
      BY <1>2, <3>3
  <2>8. expired' \subseteq Words
    BY <1>2, <1>4, WordTypes
       DEF Host, clearLastStatusWord, sendCommand, PollStatusWord, GotStatusWord, StatusWordTimeout,
           setReset, PollLinkUp, waitForLinkUpReturns, setEnable, historyVars
  <2>9. QED
    BY <1>1, <2>1, <2>2, <2>3, <2>4, <2>5, <2>6, <2>7, <2>8 DEF Types, OutcomeNames
<1>5. CASE Answer
  <2>1. line # <<>> /\ UNCHANGED <<hostVars, ctrlVars, command, sent, historyVars>>
    BY <1>5 DEF Answer
  <2>2. Head(line) = line[1] /\ line[1].id \in 1..sent /\ line[1].cmd \in Commands
        /\ line[1].addr \in 0..SerialLength
    BY <1>1, <2>1, FirstInLine
  <2>3. PICK error \in BOOLEAN, v \in AnsweredIn(line[1].cmd) :
            /\ words' = [words EXCEPT ![v] = [id |-> line[1].id, cmd |-> line[1].cmd,
                                              addr |-> line[1].addr, error |-> error]]
            /\ fee' \in {FeeAfter(line[1].cmd)} \cup (IF error THEN {fee} ELSE {})
    BY <1>5, <2>2 DEF Answer
  <2>4. [id |-> line[1].id, cmd |-> line[1].cmd, addr |-> line[1].addr, error |-> error] \in Answers
    <3>1. line[1].id \in 1..MaxCommands
      BY <1>1, <1>2, <2>2 DEF Types
    <3>2. QED
      BY <2>2, <2>3, <3>1 DEF Answers
  <2>5. words' \in [Words -> Answers \cup {NoAnswer}]
    BY <1>2, <2>3, <2>4
  <2>6. fee' \in BOOLEAN
    BY <1>1, <2>3 DEF FeeAfter, Types
  <2>7. QED
    BY <1>1, <2>1, <2>5, <2>6 DEF Types, hostVars, ctrlVars, historyVars
<1>6. CASE Lose \/ LinkComesUp \/ LinkGoesDown \/ UNCHANGED vars
  BY <1>1, <1>6 DEF Lose, LinkComesUp, LinkGoesDown, vars, hostVars, ctrlVars, historyVars, Types
<1>7. QED
  BY <1>1, <1>3, <1>4, <1>5, <1>6, NextMoves DEF Link

LEMMA Starts ==
    ASSUME Init
    PROVE  ProtocolInv
<1>1. todo = <<>> /\ Len(todo) = 0 /\ CallInv(todo) /\ \A do, arg : ~Has(todo, do, arg)
  BY DEF Init, CallInv, Has
<1>2. Sends(todo) = 0
  <2>1. {k \in DOMAIN todo : todo[k].do = "send"} = {}
    BY <1>1
  <2>2. QED
    BY <2>1, FS_EmptySet DEF Sends
<1>3. \A do : ~At(do)
  BY <1>1 DEF At
<1>4. Types
  <2>1. timeout \in 0..Timeout /\ sent \in 0..MaxCommands
    BY BoundsAssumption DEF Init
  <2>2. QED
    BY <2>1 DEF Init, Types
<1>5. HeadInv
  BY <1>2, <1>3, BoundsAssumption DEF Init, HeadInv
<1>6. ControlInv
  BY <1>1, <1>3 DEF Init, ControlInv, HasAccess
<1>7. LineInv
  <2>1. \A w \in Words : words[w] = NoAnswer /\ words[w].id = 0
    BY NoAnswerId DEF Init
  <2>2. line = <<>> /\ sent = 0
    BY DEF Init
  <2>3. QED
    BY <2>1, <2>2 DEF LineInv
<1>8. WordInv /\ FeeInv
  BY <1>3 DEF Init, WordInv, FeeInv
<1>9. SerialInv
  <2>1. serial = <<>>
    BY DEF Init
  <2>2. QED
    BY <1>1, <1>3, <2>1 DEF SerialInv, HasAccess
<1>10. QED
  BY <1>1, <1>4, <1>5, <1>6, <1>7, <1>8, <1>9 DEF ProtocolInv

\* A command that is not waited for is late from the start; between calls the
\* invariant asks no more of it.
LEMMA UnansweredKeeps ==
    ASSUME ProtocolInv, SendUnanswered
    PROVE  ProtocolInv'
<1>1. todo = <<>> /\ todo' = todo /\ Len(todo) = 0
  BY DEF SendUnanswered, hostVars
<1>2. \A do, arg : ~HasAccess(do, arg) /\ ~HasAccess(do, arg)' /\ ~At(do) /\ ~At(do)'
  BY <1>1 DEF HasAccess, Has, At
<1>3. Types /\ CallInv(todo) /\ ControlInv /\ LineInv /\ FeeInv /\ SerialInv
  BY DEF ProtocolInv
<1>4. PICK c \in InterfaceCommands :
        /\ command' = c
        /\ line' = Append(line, [id |-> sent + 1, cmd |-> c, addr |-> 0])
        /\ expired' = expired \cup AnsweredIn(c)
  BY DEF SendUnanswered
<1>5. /\ sent \in Nat /\ sent' = sent + 1 /\ sent' \in 0..MaxCommands /\ MaxCommands \in Nat
      /\ c \in Commands /\ AnsweredIn(c) = {"IFSTW"} /\ "IFSTW" \in Words
      /\ UNCHANGED <<timeout, ret, serial, configured, reset, enabled, linkUp, words, fee, outcome>>
  <2>1. sent \in 0..MaxCommands /\ MaxCommands \in Nat /\ sent < MaxCommands /\ sent' = sent + 1
    BY <1>3, BoundsAssumption DEF SendUnanswered, Types
  <2>2. c \in Commands /\ AnsweredIn(c) = {"IFSTW"} /\ "IFSTW" \in Words
    BY <1>4, CommandsAssumption DEF Commands, AnsweredIn, Words
  <2>3. QED
    BY <2>1, <2>2 DEF SendUnanswered, hostVars, ctrlVars
<1>6. Types'
  BY <1>3, <1>4, <1>5 DEF Types
<1>7. CallInv(todo)'
  BY <1>1, <1>3
<1>8. HeadInv'
  <2>1. Sends(todo') = 0
    <3>1. {k \in DOMAIN todo' : todo'[k].do = "send"} = {}
      BY <1>1
    <3>2. QED
      BY <3>1, FS_EmptySet DEF Sends
  <2>2. Sends(todo)' = Sends(todo')
    BY DEF Sends
  <2>3. QED
    BY <1>2, <1>5, <2>1, <2>2 DEF HeadInv
<1>9. ControlInv'
  BY <1>2, <1>3, <1>5 DEF ControlInv
<1>10. LineInv'
  <2> DEFINE S(n) == [id : 1..n, cmd : Commands, addr : 0..SerialLength]
             e == [id |-> sent + 1, cmd |-> c, addr |-> 0]
  <2>1. \A w \in Words : words[w] \in Answers \cup {NoAnswer} /\ words[w].id <= sent
    BY <1>3 DEF LineInv
  <2>2. line \in Seq(S(sent)) /\ Len(line) \in Nat
    BY <1>3 DEF LineInv
  <2>3. e \in S(sent')
    BY <1>5, BoundsAssumption
  <2>4. line \in Seq(S(sent'))
    <3>1. S(sent) \subseteq S(sent')
      BY <1>5
    <3> HIDE DEF S
    <3>2. QED
      BY <2>2, <3>1
  <2>5. line' \in Seq(S(sent'))
    <3> HIDE DEF S, e
    <3>1. line' = Append(line, e)
      BY <1>4 DEF e
    <3>2. QED
      BY <2>3, <2>4, <3>1
  <2>6. \A k \in DOMAIN line : /\ line[k].id \in 1..sent /\ AnsweredIn(line[k].cmd) \subseteq expired
                               /\ \A j \in 1..k - 1 : line[j].id < line[k].id
                               /\ \A w \in Words : words[w].id # line[k].id
    <3>1. \A k \in DOMAIN line : line[k] \in S(sent)
      <4> HIDE DEF S
      <4>1. QED
        BY <2>2
    <3>2. QED
      BY <1>2, <1>3, <3>1 DEF LineInv, Outstanding
  <2>7. DOMAIN line' = 1..Len(line) + 1 /\ DOMAIN line = 1..Len(line) /\ line'[Len(line) + 1] = e
        /\ \A k \in 1..Len(line) : line'[k] = line[k]
    <3> HIDE DEF S, e
    <3>1. line' = Append(line, e)
      BY <1>4 DEF e
    <3>2. QED
      BY <2>2, <2>3, <2>4, <3>1
  <2>8. ASSUME NEW k \in DOMAIN line'
        PROVE  /\ AnsweredIn(line'[k].cmd) \subseteq expired'
               /\ \A j \in 1..k - 1 : line'[j].id < line'[k].id
               /\ \A w \in Words : words[w].id # line'[k].id
    <3>1. CASE k \in 1..Len(line)
      BY <1>4, <2>2, <2>6, <2>7, <3>1
    <3>2. CASE k = Len(line) + 1
      <4>1. line'[k].cmd = c /\ line'[k].id = sent + 1
        BY <2>7, <3>2
      <4>2. \A j \in 1..k - 1 : line'[j].id < sent + 1
        <5>1. SUFFICES ASSUME NEW j \in 1..k - 1 PROVE line'[j].id < sent + 1
          OBVIOUS
        <5>2. j \in DOMAIN line /\ line'[j] = line[j]
          BY <2>2, <2>7, <3>2
        <5>3. line[j].id \in 1..sent
          BY <2>6, <5>2
        <5>4. QED
          BY <1>5, <5>2, <5>3
      <4>3. \A w \in Words : words[w].id # sent + 1
        <5>1. \A w \in Words : words[w].id \in Int
          BY <1>3, BoundsAssumption DEF Types, Answers, NoAnswer
        <5>2. QED
          BY <1>5, <2>1, <5>1
      <4>4. QED
        BY <1>4, <4>1, <4>2, <4>3
    <3>3. QED
      BY <2>2, <2>7, <2>8, <3>1, <3>2
  <2>9. \A w \in Words : words'[w] \in Answers \cup {NoAnswer} /\ words'[w].id <= sent'
    <3>1. \A w \in Words : words[w].id \in Int
      BY <1>3, BoundsAssumption DEF Types, Answers, NoAnswer
    <3>2. QED
      BY <1>5, <2>1, <3>1
  <2>10. QED
    BY <1>5, <2>5, <2>8, <2>9 DEF LineInv
<1>11. WordInv'
  BY <1>2 DEF WordInv
<1>12. FeeInv'
  BY <1>2, <1>3, <1>4, <1>5 DEF FeeInv, Excused
<1>13. SerialInv'
  BY <1>2, <1>3, <1>4, <1>5 DEF SerialInv
<1>14. QED
  BY <1>6, <1>7, <1>8, <1>9, <1>10, <1>11, <1>12, <1>13 DEF ProtocolInv

\* The invariant of the link: the accesses left of a call agree with the bits of
\* DDL_CTRL, every command without an answer is the one waited for or its words
\* are known to be late, and the serial number grows with the addresses
\* (diu.cpp:108-253, dma_handling.cpp:452-497).
THEOREM ProtocolInvariant == Spec => []ProtocolInv
<1>1. Init => ProtocolInv
  BY Starts
<1>2. ProtocolInv /\ [Next]_vars => ProtocolInv'
  <2>1. SUFFICES ASSUME ProtocolInv, [Calls]_vars PROVE ProtocolInv'
    BY UnansweredKeeps DEF Next
  <2>2. CallInv(todo)'
    BY <2>1, CallKeeps DEF ProtocolInv
  <2>3. Types' /\ HeadInv' /\ ControlInv' /\ LineInv' /\ WordInv' /\ FeeInv' /\ SerialInv'
    BY <2>1, TypesKeep, HeadKeeps, ControlKeeps, LineKeeps, WordKeeps, FeeKeeps, SerialKeeps
  <2>4. QED
    BY <2>2, <2>3 DEF ProtocolInv
<1>3. QED
  BY <1>1, <1>2, PTL DEF Spec

\* At every moment registers and calls are well-formed, the serial number has no
\* gap, and the front-end may send only to a DIU that is enabled and out of
\* reset (diu.cpp:240-253, dma_handling.cpp:452-497).
THEOREM LinkCorrect == Spec => []DiuInv
<1>1. ProtocolInv => DiuInv
  <2>1. SUFFICES ASSUME ProtocolInv PROVE TypeOK /\ SerialInOrder /\ FeeSendsToEnabled
    BY DEF DiuInv
  <2>2. Types /\ CallInv(todo) /\ LineInv /\ FeeInv /\ SerialInv
    BY <2>1 DEF ProtocolInv
  <2>3. \A k \in DOMAIN serial : k \in 1..Len(serial) /\ serial[k] \in Answers
    <3>1. serial \in Seq(Answers)
      BY <2>2 DEF SerialInv
    <3> HIDE DEF Answers
    <3>2. QED
      BY <3>1
  <2>4. \A k \in DOMAIN line : line[k].id <= sent
    <3> DEFINE S == [id : 1..sent, cmd : Commands, addr : 0..SerialLength]
    <3>1. line \in Seq(S)
      BY <2>2 DEF LineInv
    <3>2. \A k \in DOMAIN line : line[k] \in S
      <4> HIDE DEF S
      <4>1. QED
        BY <3>1
    <3>3. sent \in Nat
      BY <2>2, BoundsAssumption DEF Types
    <3>4. QED
      BY <3>2, <3>3
  <2>5. \A k \in DOMAIN todo : todo[k].skip < Len(todo) - k + 1
    <3>1. SUFFICES ASSUME NEW k \in DOMAIN todo PROVE todo[k].skip < Len(todo) - k + 1
      OBVIOUS
    <3>2. todo \in Seq(Accesses)
      BY <2>2 DEF CallInv
    <3>3. k \in 1..Len(todo) /\ Len(todo) \in Nat /\ todo[k] \in Accesses
      BY <3>1, <3>2
    <3>4. todo[k].skip \in Nat
      BY <3>3 DEF Accesses
    <3>5. todo[k].skip <= Len(todo) - k
      BY <2>2, <3>3 DEF CallInv, Skips
    <3>6. QED
      BY <3>3, <3>4, <3>5
  <2>6. TypeOK
    BY <2>2, <2>3, <2>4, <2>5 DEF TypeOK, Types
  <2>7. ASSUME Doing("send"), Arg = "HWVERS" PROVE Len(serial) = Head(todo).addr
    <3>1. Len(todo) > 0 /\ todo[1].do = "send" /\ todo[1].arg = "HWVERS" /\ Head(todo) = todo[1]
          /\ 1 \in 1..Len(todo)
      BY <2>2, <2>7, AtHead DEF At
    <3>2. Reading(todo)
      BY <3>1 DEF Reading, Has, Is
    <3>3. PICK a \in 0..SerialLength - 1, p \in 1..3 :
            /\ Len(serial) = a
            /\ p = 1 => todo[1].do = "clear"
            /\ p = 2 => todo[1].addr = a
            /\ p = 3 => todo[1].do = "wait"
      BY <2>2, <3>2, SerialHead
    <3>4. QED
      BY <3>1, <3>3
  <2>8. SerialInOrder
    BY <2>2, <2>3, <2>7 DEF SerialInOrder, SerialInv
  <2>9. FeeSendsToEnabled
    BY <2>2 DEF FeeInv, FeeSendsToEnabled, Excused
  <2>10. QED
    BY <2>6, <2>8, <2>9
<1>2. QED
  BY <1>1, ProtocolInvariant, PTL

\* An answer is taken for another command's only where an answer to the same
\* word may be late (diu.cpp:108-168).
THEOREM AnswersAreOwn == Spec => AnswerIsOwn
<1> DEFINE Late == \A c \in Commands \ {"SIU_RST"} : Mistaken(c) => AnsweredIn(c) \cap expired # {}
<1>1. ProtocolInv /\ [Next]_vars => [Late]_vars
  <2>1. SUFFICES ASSUME ProtocolInv, [Calls]_vars \/ SendUnanswered, NEW c \in Commands \ {"SIU_RST"}, Mistaken(c)
                 PROVE  AnsweredIn(c) \cap expired # {}
    BY DEF Next
  <2>2. Types /\ CallInv(todo) /\ HeadInv /\ WordInv
    BY <2>1 DEF ProtocolInv
  <2>3. outcome \in [Commands -> OutcomeNames] /\ outcome[c] # "foreign" /\ outcome'[c] = "foreign"
    BY <2>1, <2>2 DEF Types, OutcomeNames, Mistaken
  <2>4. GotStatusWord /\ command = c /\ Outcome(words[Arg]) = "foreign"
    <3>1. CASE BegunConfigure \/ BegunUnconfigure \/ BegunPlain
      BY <2>3, <3>1 DEF BegunConfigure, BegunUnconfigure, BegunPlain
    <3>2. CASE sendCommand
      BY <2>3, <3>2 DEF sendCommand
    <3>3. CASE StatusWordTimeout
      BY <2>3, <3>3 DEF StatusWordTimeout
    <3>4. CASE GotStatusWord
      BY <2>3, <3>4 DEF GotStatusWord
    <3>5. CASE Host /\ ~sendCommand /\ ~StatusWordTimeout /\ ~GotStatusWord
      BY <2>3, <3>5
         DEF Host, clearLastStatusWord, PollStatusWord, setReset, PollLinkUp, waitForLinkUpReturns, setEnable,
             historyVars
    <3>0. CASE SendUnanswered
      BY <2>3, <3>0 DEF SendUnanswered
    <3>6. CASE Link \/ UNCHANGED vars
      BY <2>3, <3>6 DEF Link, LinkComesUp, LinkGoesDown, Answer, Lose, vars, historyVars
    <3>7. QED
      BY <2>1, <2>2, <3>0, <3>1, <3>2, <3>3, <3>4, <3>5, <3>6, NextMoves
  <2>5. At("wait") /\ Arg = todo[1].arg /\ Arg = WaitWord(c)
    BY <2>2, <2>4, HostSteps, AtHead DEF At, HeadInv
  <2>6. words[Arg] # NoAnswer /\ words[Arg].id # sent
    BY <2>4 DEF GotStatusWord, Answered, Outcome
  <2>7. Arg \in expired
    BY <2>1, <2>2, <2>4, <2>5, <2>6 DEF WordInv
  <2>8. QED
    BY <2>5, <2>7, WordTypes
<1>2. QED
  BY <1>1, ProtocolInvariant, PTL DEF Spec, AnswerIsOwn
=============================================================================
