---------------------------- MODULE BarSimProofs ----------------------------
(***************************************************************************)
(* The simulated board is a register file: for any threads, registers,      *)
(* packet sizes and number of accesses.  What an access needs on its way,   *)
(* a message, a flag or the bus, exists once; what crosses the socket is    *)
(* counted by a function over its positions.                                *)
(***************************************************************************)
EXTENDS BarSim, TLAPS

Kinds    == {"read", "write", "time"}
Accesses == UNION {Calls(op) : op \in {"get32", "get16", "set32", "set16", "memcopy", "gettime"}}
Contents == Value \cup {Zero}
Founds   == [Halves -> Contents] \cup [{0} -> Contents] \cup {Nothing}
Datum    == [found : Founds, posted : Nat]
Word     == [tag : Nat, word : Int, left : Int]

\* A completion carries a part of its request, and says how much is left of it.
Completion == {p \in [tag : Nat \ {0}, count : Nat, offset : Nat, length : 1..MaxPacket] :
                    p.offset + p.length <= RequestLength /\ p.count = RequestLength - p.offset}

DeviceMessage == [cmd : {"ACCESS"}, body : [c : Accesses, from : Thread]]
                    \cup [cmd : {"CMD_CMPL_TO_DEVICE"}, body : Completion]
HostMessage   == [cmd : {"CMD_CMPL_TO_HOST"}, body : Datum]
                    \cup [cmd : {"CMD_READ_FROM_HOST"}, body : Nat]
                    \cup [cmd : {"CMD_WRITE_TO_HOST", "CMD_ACK_CMPL", "CMD_ACK_WRITE", "CMD_ACK_TIME"},
                          body : {Nothing}]

-----------------------------------------------------------------------------
(* The parts and the messages.                                              *)

CallOK(t) ==
    \/ call[t] = Idle
    \/ /\ call[t] = [at |-> call[t].at, c |-> call[t].c] /\ call[t].at \in {"lock", "wait"}
       /\ call[t].c \in Accesses /\ call[t].c.op \in Op[t]

BusOK ==
    \/ bus = Free
    \/ /\ bus = [at |-> "enabled", m |-> bus.m, op |-> bus.op]
       /\ bus.m \in DeviceMessage
       /\ bus.op = IF bus.m.cmd = "ACCESS" THEN bus.m.body.c.op ELSE "completion"
       /\ bus.op # "gettime"
    \/ /\ bus.at = "done" /\ DOMAIN bus = {"at", "op", "told", "m", "found"}
       /\ bus.m \in DeviceMessage /\ bus.told \in BOOLEAN /\ bus.found \in Founds
       /\ bus.op = IF bus.m.cmd = "ACCESS" THEN bus.m.body.c.op ELSE "completion"
       /\ bus.op # "gettime"

PartsOK ==
    /\ call = [t \in Thread |-> call[t]] /\ \A t \in Thread : CallOK(t)
    /\ result \in [Thread -> Datum]
    /\ mtx \in Thread \cup {NoOne} /\ msgid \in Nat
    /\ done \in [Flags -> BOOLEAN] /\ stored \in BOOLEAN /\ readData \in Datum
    /\ toDevice \in Seq(DeviceMessage) /\ toHost \in Seq(HostMessage)
    /\ busy \in BOOLEAN /\ collecting \in BOOLEAN /\ BusOK
    /\ reg \in [Addr \X Halves -> Contents]
    /\ posted \in Nat /\ memory \in Nat

\* Where an access of kind f can be: asked for, on the bus, answered, or done.
Asks(m, f)   == m.cmd = "ACCESS" /\ Flag(m.body.c.op) = f
Answers(m, f) == m.cmd = CASE f = "read" -> "CMD_CMPL_TO_HOST" [] f = "time" -> "CMD_ACK_TIME"
                           [] OTHER -> "CMD_ACK_WRITE"
InDevice(f)  == \E k \in DOMAIN toDevice : Asks(toDevice[k], f)
OnBus(f)     == /\ bus.at \in {"enabled", "done"} /\ bus.op # "completion" /\ Flag(bus.op) = f
                /\ bus.at = "done" => ~bus.told
InHost(f)    == \E k \in DOMAIN toHost : Answers(toHost[k], f)
Waiting(f)   == \E t \in Thread : call[t].at = "wait" /\ Flag(call[t].c.op) = f

\* It is in one place, once, while a thread waits for it, and nowhere otherwise.
OneRequest(f) == \A j, k \in DOMAIN toDevice : Asks(toDevice[j], f) /\ Asks(toDevice[k], f) => j = k
OneAnswer(f)  == \A j, k \in DOMAIN toHost : Answers(toHost[j], f) /\ Answers(toHost[k], f) => j = k

OncePerKind(f) ==
    /\ OneRequest(f) /\ OneAnswer(f)
    /\ InDevice(f) => ~OnBus(f) /\ ~InHost(f) /\ ~done[f]
    /\ OnBus(f) => ~InHost(f) /\ ~done[f]
    /\ InHost(f) => ~done[f]
    /\ Waiting(f) <=> InDevice(f) \/ OnBus(f) \/ InHost(f) \/ done[f]

\* A request is its sender's.
Own(m) == m.cmd = "ACCESS" => call[m.body.from].at = "wait" /\ call[m.body.from].c = m.body.c

OwnRequests ==
    /\ \A k \in DOMAIN toDevice : Own(toDevice[k])
    /\ bus.at = "enabled" => Own(bus.m)

HalfStored == stored => /\ toHost # <<>> /\ Head(toHost).cmd = "CMD_CMPL_TO_HOST"
                        /\ readData = Head(toHost).body

AccessInv == PartsOK /\ (\A f \in Kinds : OncePerKind(f)) /\ OwnRequests /\ HalfStored

-----------------------------------------------------------------------------
(* n[k] - n[0] messages with a command are among the first k of a sequence. *)

Counts(n, s, cmd) ==
    /\ \A k \in 1..Len(s) : n[k] = n[k-1] + (IF s[k].cmd = cmd THEN 1 ELSE 0)
    /\ \A i, j \in 0..Len(s) : i <= j => n[i] <= n[j]

\* Memory writes: n[k] of them reach memory with the first k messages.
CountsWrites(n) ==
    /\ Counts(n, toHost, "CMD_WRITE_TO_HOST")
    /\ n[0] = memory /\ n[Len(toHost)] = posted - (IF collecting THEN 1 ELSE 0)
    /\ \A k \in 1..Len(toHost) :
        toHost[k].cmd = "CMD_CMPL_TO_HOST" => toHost[k].body.posted <= n[k]

WriteInv ==
    /\ \E n \in [0..Len(toHost) -> Nat] : CountsWrites(n)
    /\ readData.posted <= memory /\ MemoryBeforeRegister

-----------------------------------------------------------------------------
(* DMA reads: n[k] have reached the program with the first k messages.      *)

CountsReads(n) ==
    /\ Counts(n, toHost, "CMD_READ_FROM_HOST")
    /\ n[0] = request.tag + Len(pipe) /\ n[Len(toHost)] = asked
    /\ \A k \in 1..Len(toHost) :
        toHost[k].cmd = "CMD_READ_FROM_HOST" => toHost[k].body = n[k]

Request == [left : 0..RequestLength, offset : 0..RequestLength, tag : Nat, waiting : BOOLEAN]

PipeInv ==
    /\ request \in Request /\ pipe \in Seq(Request)
    /\ request.left + request.offset = (IF request.tag = 0 THEN 0 ELSE RequestLength)
    /\ request.waiting => request.left # 0
    /\ \A k \in DOMAIN pipe : pipe[k] = DmaRead(request.tag + k)

RequestInv == PipeInv /\ \E n \in [0..Len(toHost) -> Nat] : CountsReads(n)

\* The words of all requests in a row: what cmplHandler() has sent, and where a
\* completion begins.
Sent     == request.tag * RequestLength - request.left + (IF request.waiting THEN PacketLength ELSE 0)
First(p) == p.tag * RequestLength - p.count

BusCompletion == bus.at = "enabled" /\ bus.op = "completion"

\* n[k] words are sent before the message after the k-th.
CountsWords(n) ==
    /\ n[0] = Len(received) + (IF BusCompletion THEN bus.m.body.length ELSE 0)
    /\ n[Len(toDevice)] = Sent
    /\ \A k \in 1..Len(toDevice) :
        IF toDevice[k].cmd = "CMD_CMPL_TO_DEVICE"
        THEN n[k-1] = First(toDevice[k].body) /\ n[k] = n[k-1] + toDevice[k].body.length
        ELSE n[k] = n[k-1]

WordInv ==
    /\ \E n \in [0..Len(toDevice) -> Nat] : CountsWords(n)
    /\ BusCompletion => Len(received) = First(bus.m.body)
    /\ received \in Seq(Word) /\ AnswersInOrder

BarInv == AccessInv /\ WriteInv /\ RequestInv /\ WordInv
-----------------------------------------------------------------------------
(* Accesses, sequences, and who waits for what.                             *)

USE OneThreadPerKind, OpAssumption, LengthAssumption

LEMMA AccessParts ==
    ASSUME NEW c \in Accesses
    PROVE  /\ c.op \in {"get32", "get16", "set32", "set16", "memcopy", "gettime"}
           /\ c.op \in {"get32", "get16"} => c.addr \in Addr
           /\ c.op = "get16" => c.half \in ReadHalf
           /\ IsWrite(c) => c.value \in Value
           /\ Flag(c.op) \in Kinds
           /\ Flag(c.op) = "write" <=> IsWrite(c)
           /\ Flag(c.op) = "time" <=> c.op = "gettime"
BY DEF Accesses, Calls, Flag, Kinds, IsWrite

LEMMA ProgramCalls ==
    ASSUME NEW t \in Thread, NEW op \in Op[t], NEW c \in Calls(op)
    PROVE  c \in Accesses /\ c.op = op
<1>1. op \in {"get32", "get16", "set32", "set16", "memcopy", "gettime"}
  BY DEF Op
<1>2. c.op = op
  BY DEF Calls
<1>3. QED
  BY <1>1, <1>2 DEF Accesses

LEMMA FoundTypes ==
    ASSUME reg \in [Addr \X Halves -> Contents], NEW c \in Accesses
    PROVE  /\ Found(reg, c) \in Founds
           /\ KeptOf(c) \in Founds
           /\ IsWrite(c) => Written(reg, c) \in [Addr \X Halves -> Contents]
BY AccessParts, HalfAssumption DEF Found, KeptOf, Written, Founds, Contents, Halves, Nothing

\* Of lower halves get16() keeps what it asked for.
LEMMA KeptIsFound ==
    ASSUME ReadHalf \subseteq {0}, NEW c \in Accesses
    PROVE  KeptOf(c) = Found(reg, c)
BY AccessParts DEF KeptOf, Found

\* Two threads that wait for the same flag are one.
LEMMA OneWaits ==
    ASSUME NEW t \in Thread, NEW u \in Thread, CallOK(t), CallOK(u), call[t] # Idle, call[u] # Idle,
           Flag(call[t].c.op) = Flag(call[u].c.op)
    PROVE  t = u
BY DEF CallOK, Op, Flag

LEMMA AppendFacts ==
    ASSUME NEW S, NEW s \in Seq(S), NEW e \in S
    PROVE  /\ Append(s, e) \in Seq(S) /\ Len(Append(s, e)) = Len(s) + 1
           /\ DOMAIN Append(s, e) = 1..Len(s)+1 /\ DOMAIN s = 1..Len(s) /\ Len(s) \in Nat
           /\ \A k \in 1..Len(s) : Append(s, e)[k] = s[k]
           /\ Append(s, e)[Len(s) + 1] = e
OBVIOUS

LEMMA TailFacts ==
    ASSUME NEW S, NEW s \in Seq(S), s # <<>>
    PROVE  /\ Tail(s) \in Seq(S) /\ Len(Tail(s)) = Len(s) - 1 /\ Len(s) \in Nat \ {0}
           /\ DOMAIN Tail(s) = 1..Len(s)-1 /\ DOMAIN s = 1..Len(s)
           /\ \A k \in 1..Len(s)-1 : Tail(s)[k] = s[k+1]
           /\ Head(s) = s[1] /\ Head(s) \in S
OBVIOUS

\* A message enters or leaves the socket.
LEMMA DeviceAppend ==
    ASSUME toDevice \in Seq(DeviceMessage), NEW m \in DeviceMessage, toDevice' = Append(toDevice, m),
           NEW f, OneRequest(f), Asks(m, f) => ~InDevice(f)
    PROVE  OneRequest(f)' /\ (InDevice(f)' <=> InDevice(f) \/ Asks(m, f))
BY AppendFacts DEF OneRequest, InDevice

LEMMA DeviceTail ==
    ASSUME toDevice \in Seq(DeviceMessage), toDevice # <<>>, toDevice' = Tail(toDevice),
           NEW f, OneRequest(f)
    PROVE  OneRequest(f)' /\ (InDevice(f)' <=> InDevice(f) /\ ~Asks(Head(toDevice), f))
<1>1. /\ DOMAIN toDevice = 1..Len(toDevice) /\ DOMAIN toDevice' = 1..Len(toDevice)-1
      /\ \A k \in 1..Len(toDevice)-1 : toDevice'[k] = toDevice[k+1]
      /\ Head(toDevice) = toDevice[1] /\ Len(toDevice) \in Nat \ {0}
  BY TailFacts
<1>2. OneRequest(f)'
  BY <1>1 DEF OneRequest
<1>3. ASSUME InDevice(f)' PROVE InDevice(f) /\ ~Asks(Head(toDevice), f)
  <2>1. PICK k \in 1..Len(toDevice)-1 : Asks(toDevice[k+1], f)
    BY <1>1, <1>3 DEF InDevice
  <2>2. k+1 \in DOMAIN toDevice /\ 1 \in DOMAIN toDevice /\ k+1 # 1
    BY <1>1
  <2>3. QED
    BY <1>1, <2>1, <2>2 DEF InDevice, OneRequest
<1>4. ASSUME InDevice(f), ~Asks(Head(toDevice), f) PROVE InDevice(f)'
  <2>1. PICK k \in 1..Len(toDevice) : Asks(toDevice[k], f)
    BY <1>1, <1>4 DEF InDevice
  <2>2. k # 1 /\ k-1 \in 1..Len(toDevice)-1 /\ (k-1)+1 = k
    BY <1>1, <1>4, <2>1
  <2>3. Asks(toDevice'[k-1], f)
    BY <1>1, <2>1, <2>2
  <2>4. QED
    BY <1>1, <2>2, <2>3 DEF InDevice
<1>5. QED
  BY <1>2, <1>3, <1>4

LEMMA HostAppend ==
    ASSUME toHost \in Seq(HostMessage), NEW m \in HostMessage, toHost' = Append(toHost, m),
           NEW f, OneAnswer(f), Answers(m, f) => ~InHost(f)
    PROVE  OneAnswer(f)' /\ (InHost(f)' <=> InHost(f) \/ Answers(m, f))
BY AppendFacts DEF OneAnswer, InHost

LEMMA HostTail ==
    ASSUME toHost \in Seq(HostMessage), toHost # <<>>, toHost' = Tail(toHost),
           NEW f, OneAnswer(f)
    PROVE  OneAnswer(f)' /\ (InHost(f)' <=> InHost(f) /\ ~Answers(Head(toHost), f))
<1>1. /\ DOMAIN toHost = 1..Len(toHost) /\ DOMAIN toHost' = 1..Len(toHost)-1
      /\ \A k \in 1..Len(toHost)-1 : toHost'[k] = toHost[k+1]
      /\ Head(toHost) = toHost[1] /\ Len(toHost) \in Nat \ {0}
  BY TailFacts
<1>2. OneAnswer(f)'
  BY <1>1 DEF OneAnswer
<1>3. ASSUME InHost(f)' PROVE InHost(f) /\ ~Answers(Head(toHost), f)
  <2>1. PICK k \in 1..Len(toHost)-1 : Answers(toHost[k+1], f)
    BY <1>1, <1>3 DEF InHost
  <2>2. k+1 \in DOMAIN toHost /\ 1 \in DOMAIN toHost /\ k+1 # 1
    BY <1>1
  <2>3. QED
    BY <1>1, <2>1, <2>2 DEF InHost, OneAnswer
<1>4. ASSUME InHost(f), ~Answers(Head(toHost), f) PROVE InHost(f)'
  <2>1. PICK k \in 1..Len(toHost) : Answers(toHost[k], f)
    BY <1>1, <1>4 DEF InHost
  <2>2. k # 1 /\ k-1 \in 1..Len(toHost)-1 /\ (k-1)+1 = k
    BY <1>1, <1>4, <2>1
  <2>3. Answers(toHost'[k-1], f)
    BY <1>1, <2>1, <2>2
  <2>4. QED
    BY <1>1, <2>2, <2>3 DEF InHost
<1>5. QED
  BY <1>2, <1>3, <1>4

LEMMA Same ==
    ASSUME NEW f
    PROVE  /\ UNCHANGED toDevice => (OneRequest(f)' <=> OneRequest(f)) /\ (InDevice(f)' <=> InDevice(f))
           /\ UNCHANGED toHost => (OneAnswer(f)' <=> OneAnswer(f)) /\ (InHost(f)' <=> InHost(f))
           /\ UNCHANGED bus => (OnBus(f)' <=> OnBus(f))
           /\ UNCHANGED call => (Waiting(f)' <=> Waiting(f))
BY DEF OneRequest, InDevice, OneAnswer, InHost, OnBus, Waiting

LEMMA OwnSame ==
    ASSUME UNCHANGED <<call, toDevice, bus>>, OwnRequests
    PROVE  OwnRequests'
BY DEF OwnRequests, Own

LEMMA InitAccess == Init => AccessInv
<1> SUFFICES ASSUME Init PROVE AccessInv
  OBVIOUS
<1>1. PartsOK
  <2>1. call = [t \in Thread |-> call[t]] /\ \A t \in Thread : CallOK(t)
    BY DEF Init, CallOK
  <2>2. result \in [Thread -> Datum] /\ readData \in Datum
    BY DEF Init, Datum, Founds
  <2>3. done \in [Flags -> BOOLEAN] /\ mtx \in Thread \cup {NoOne} /\ msgid \in Nat /\ stored \in BOOLEAN
    BY DEF Init
  <2>4. toDevice \in Seq(DeviceMessage) /\ toHost \in Seq(HostMessage) /\ BusOK
    BY DEF Init, BusOK
  <2>5. reg \in [Addr \X Halves -> Contents]
    BY DEF Init, Contents
  <2>6. busy \in BOOLEAN /\ collecting \in BOOLEAN /\ posted \in Nat /\ memory \in Nat
    BY DEF Init
  <2>7. QED
    BY <2>1, <2>2, <2>3, <2>4, <2>5, <2>6 DEF PartsOK
<1>2. ASSUME NEW f \in Kinds PROVE OncePerKind(f)
  <2>1. OneRequest(f) /\ OneAnswer(f) /\ ~InDevice(f) /\ ~InHost(f)
    BY DEF Init, OneRequest, OneAnswer, InDevice, InHost
  <2>2. ~OnBus(f) /\ ~Waiting(f) /\ ~done[f]
    BY DEF Init, OnBus, Waiting, Idle, Free, Flags, Kinds
  <2>3. QED
    BY <2>1, <2>2 DEF OncePerKind
<1>3. OwnRequests /\ HalfStored
  BY DEF Init, OwnRequests, Own, HalfStored, Free
<1>4. QED
  BY <1>1, <1>2, <1>3 DEF AccessInv

-----------------------------------------------------------------------------
(* The threads.                                                             *)

LEMMA InvokeAccess == ASSUME AccessInv, NEW t \in Thread, Invoke(t) PROVE AccessInv'
<1> USE DEF AccessInv
<1>1. UNCHANGED <<result, mtx, msgid, done, readData, stored, toDevice, toHost, busy, bus, collecting,
                  reg, posted, memory>>
  BY DEF Invoke, monitorVars, simVars, boardVars
<1>a. PICK op \in Op[t] : \E c \in Calls(op) : call' = [call EXCEPT ![t] = [at |-> "lock", c |-> c]]
  BY DEF Invoke
<1>2. PICK c \in Calls(op) : call' = [call EXCEPT ![t] = [at |-> "lock", c |-> c]]
  BY <1>a
<1>3. c \in Accesses /\ c.op = op /\ op \in Op[t]
  BY <1>a, <1>2, ProgramCalls
<1>4. call[t].at = "idle"
  BY DEF Invoke, Idle
<1>5. PartsOK'
  <2>1. /\ call' = [u \in Thread |-> call'[u]] /\ call'[t] = [at |-> "lock", c |-> c]
        /\ \A u \in Thread \ {t} : call'[u] = call[u]
    BY <1>2 DEF PartsOK
  <2>2. \A u \in Thread : CallOK(u)'
    BY <1>3, <2>1 DEF PartsOK, CallOK
  <2>3. QED
    BY <1>1, <2>1, <2>2 DEF PartsOK, BusOK
<1>6. \A u \in Thread : call[u].at = "wait" => call'[u] = call[u]
  BY <1>2, <1>4 DEF PartsOK
<1>7. \A u \in Thread : call'[u].at = "wait" => call'[u] = call[u]
  BY <1>2, <1>4 DEF PartsOK
<1>8. ASSUME NEW f \in Kinds PROVE OncePerKind(f)'
  <2>1. Waiting(f)' <=> Waiting(f)
    BY <1>6, <1>7 DEF Waiting
  <2>2. QED
    BY <1>1, <2>1, Same DEF OncePerKind
<1>9. OwnRequests' /\ HalfStored'
  <2>1. \A m \in DeviceMessage : Own(m) => Own(m)'
    BY <1>6 DEF Own, DeviceMessage
  <2>2. /\ \A k \in DOMAIN toDevice : toDevice[k] \in DeviceMessage
        /\ bus.at = "enabled" => bus.m \in DeviceMessage
    BY DEF PartsOK, BusOK, Free
  <2>3. QED
    BY <1>1, <2>1, <2>2 DEF OwnRequests, HalfStored
<1>10. QED
  BY <1>5, <1>8, <1>9

LEMMA SendAccess == ASSUME AccessInv, NEW t \in Thread, Send(t) PROVE AccessInv'
<1> USE DEF AccessInv
<1>1. UNCHANGED <<result, done, readData, stored, toHost, busy, bus, collecting, reg, posted, memory>>
  BY DEF Send, monitorVars, simVars, boardVars
<1>2. PICK c \in Accesses : call[t] = [at |-> "lock", c |-> c]
  BY DEF Send, PartsOK, CallOK, Idle
<1>3. /\ call' = [u \in Thread |-> call'[u]] /\ call'[t] = [at |-> "wait", c |-> c]
      /\ \A u \in Thread \ {t} : call'[u] = call[u]
  <2>1. call' = [u \in Thread |-> IF u = t THEN [call[t] EXCEPT !.at = "wait"] ELSE call[u]]
    BY DEF Send, PartsOK
  <2>2. [call[t] EXCEPT !.at = "wait"] = [at |-> "wait", c |-> c]
    BY <1>2
  <2>3. QED
    BY <2>1, <2>2
<1>4. PICK m \in DeviceMessage : m.cmd = "ACCESS" /\ m.body.c = c /\ m.body.from = t
                                 /\ toDevice' = Append(toDevice, m)
  <2>1. Message("ACCESS", [c |-> c, from |-> t]) \in DeviceMessage
    BY DEF Message, DeviceMessage
  <2>2. toDevice' = Append(toDevice, Message("ACCESS", [c |-> c, from |-> t]))
    BY <1>2 DEF Send
  <2>3. QED
    BY <2>1, <2>2 DEF Message
<1>5. PartsOK'
  <2>1. \A u \in Thread : CallOK(u)'
    <3>1. /\ \A u \in Thread : CallOK(u)
          /\ c.op \in Op[t]
      BY <1>2 DEF PartsOK, CallOK, Idle
    <3>2. CallOK(t)'
      BY <1>3, <3>1 DEF CallOK
    <3>3. ASSUME NEW u \in Thread \ {t} PROVE CallOK(u)'
      <4>1. call'[u] = call[u] /\ CallOK(u)
        BY <1>3, <3>1
      <4>2. QED
        BY <4>1 DEF CallOK
    <3>4. QED
      BY <3>2, <3>3
  <2>2. mtx' \in Thread \cup {NoOne} /\ msgid' \in Nat
    BY DEF Send, MutexAfter, PartsOK
  <2>3. toDevice' \in Seq(DeviceMessage)
    BY <1>4, AppendFacts DEF PartsOK
  <2>4. QED
    BY <1>1, <1>3, <2>1, <2>2, <2>3 DEF PartsOK, BusOK
<1>6. ~Waiting(Flag(c.op))
  <2>1. SUFFICES ASSUME NEW u \in Thread, call[u].at = "wait", Flag(call[u].c.op) = Flag(c.op) PROVE FALSE
    BY DEF Waiting
  <2>2. t = u
    BY <1>2, <2>1, OneWaits DEF PartsOK, Idle
  <2>3. QED
    BY <1>2, <2>1, <2>2
<1>7. ASSUME NEW f \in Kinds PROVE OncePerKind(f)'
  <2>1. Asks(m, f) <=> f = Flag(c.op)
    BY <1>4 DEF Asks
  <2>2. Waiting(f)' <=> Waiting(f) \/ f = Flag(c.op)
    BY <1>2, <1>3 DEF Waiting
  <2>3. OneRequest(f)' /\ (InDevice(f)' <=> InDevice(f) \/ Asks(m, f))
    BY <1>4, <1>6, <2>1, DeviceAppend DEF OncePerKind, PartsOK
  <2>4. QED
    BY <1>1, <1>6, <2>1, <2>2, <2>3, Same DEF OncePerKind
<1>8. OwnRequests' /\ HalfStored'
  <2>1. \A n \in DeviceMessage : Own(n) => Own(n)'
    BY <1>2, <1>3 DEF Own, DeviceMessage
  <2>2. /\ \A k \in DOMAIN toDevice : toDevice[k] \in DeviceMessage
        /\ bus.at = "enabled" => bus.m \in DeviceMessage
    BY DEF PartsOK, BusOK, Free
  <2>3. Own(m)'
    BY <1>3, <1>4 DEF Own
  <2>4. (\A k \in DOMAIN toDevice : Own(toDevice[k]))'
    BY <1>4, <2>1, <2>2, <2>3, AppendFacts DEF PartsOK, OwnRequests
  <2>5. QED
    BY <1>1, <2>1, <2>2, <2>4 DEF OwnRequests, HalfStored
<1>9. QED
  BY <1>5, <1>7, <1>8

LEMMA ReturnAccess == ASSUME AccessInv, NEW t \in Thread, Return(t) PROVE AccessInv'
<1> USE DEF AccessInv
<1>1. UNCHANGED <<mtx, msgid, readData, stored, toDevice, toHost, busy, bus, collecting, reg, posted, memory>>
  BY DEF Return, simVars, boardVars
<1> DEFINE c == call[t].c
<1>2. call[t] = [at |-> "wait", c |-> c] /\ c \in Accesses /\ Flag(c.op) \in Kinds
  BY AccessParts DEF Return, PartsOK, CallOK, Idle
<1>3. /\ call' = [u \in Thread |-> call'[u]] /\ call'[t] = Idle
      /\ \A u \in Thread \ {t} : call'[u] = call[u]
  BY DEF Return, PartsOK
<1>4. done[Flag(c.op)] /\ done' = [done EXCEPT ![Flag(c.op)] = FALSE]
  BY DEF Return, FlagAfter
<1>5. PartsOK'
  <2>1. \A u \in Thread : CallOK(u)'
    BY <1>3 DEF PartsOK, CallOK
  <2>2. result' \in [Thread -> Datum]
    <3>1. result \in [Thread -> Datum] /\ readData \in Datum
      BY DEF PartsOK
    <3>2. [result[t] EXCEPT !.found = Nothing] \in Datum
      BY <3>1 DEF Datum, Founds
    <3>3. PICK r \in Datum : result' = [result EXCEPT ![t] = r]
      BY <3>1, <3>2 DEF Return
    <3>4. QED
      BY <3>1, <3>3
  <2>3. done' \in [Flags -> BOOLEAN]
    BY <1>4 DEF PartsOK
  <2>4. QED
    BY <1>1, <1>3, <2>1, <2>2, <2>3 DEF PartsOK, BusOK
<1>6. \A u \in Thread \ {t} : call[u].at = "wait" => Flag(call[u].c.op) # Flag(c.op)
  BY <1>2, OneWaits DEF PartsOK, Idle
<1>7. ASSUME NEW f \in Kinds PROVE OncePerKind(f)'
  <2>1. f \in Flags /\ (done'[f] <=> done[f] /\ f # Flag(c.op))
    BY <1>4 DEF PartsOK, Kinds, Flags
  <2>2. Waiting(f)' <=> Waiting(f) /\ f # Flag(c.op)
    BY <1>2, <1>3, <1>6 DEF Waiting, Idle
  <2>3. QED
    BY <1>1, <1>4, <2>1, <2>2, Same DEF OncePerKind
<1>8. OwnRequests' /\ HalfStored'
  <2>1. ASSUME NEW n \in DeviceMessage, Own(n), n.cmd = "ACCESS" => ~Asks(n, Flag(c.op)) PROVE Own(n)'
    BY <1>2, <1>3, <2>1 DEF Own, DeviceMessage, Asks
  <2>2. \A k \in DOMAIN toDevice : toDevice[k] \in DeviceMessage /\ ~Asks(toDevice[k], Flag(c.op))
    BY <1>2, <1>4 DEF PartsOK, OncePerKind, InDevice
  <2>3. ASSUME bus.at = "enabled", bus.m.cmd = "ACCESS"
        PROVE  bus.m \in DeviceMessage /\ ~Asks(bus.m, Flag(c.op))
    <3>1. ~OnBus(Flag(c.op))
      BY <1>2, <1>4 DEF OncePerKind
    <3>2. bus.m \in DeviceMessage /\ bus.op = bus.m.body.c.op /\ bus.m.body.c \in Accesses
      BY <2>3 DEF PartsOK, BusOK, Free, DeviceMessage
    <3>3. bus.op # "completion"
      BY <3>2, AccessParts
    <3>4. QED
      BY <2>3, <3>1, <3>2, <3>3 DEF OnBus, Asks
  <2>4. bus.at = "enabled" => bus.m \in DeviceMessage
    BY DEF PartsOK, BusOK, Free
  <2>5. QED
    BY <1>1, <2>1, <2>2, <2>3, <2>4 DEF OwnRequests, HalfStored
<1>9. QED
  BY <1>5, <1>7, <1>8

-----------------------------------------------------------------------------
(* sockMonitor().                                                           *)

\* The monitor takes the first message and sets the flag it answers.
LEMMA Dispatched ==
    ASSUME AccessInv, toHost # <<>>, toHost' = Tail(toHost), UNCHANGED <<call, toDevice, bus>>,
           NEW f \in Kinds, done'[f] <=> done[f] \/ Answers(Head(toHost), f)
    PROVE  OncePerKind(f)'
<1>1. OncePerKind(f) /\ toHost \in Seq(HostMessage)
  BY DEF AccessInv, PartsOK
<1>2. Answers(Head(toHost), f) => InHost(f)
  BY <1>1, TailFacts DEF InHost
<1>3. OneAnswer(f)' /\ (InHost(f)' <=> InHost(f) /\ ~Answers(Head(toHost), f))
  BY <1>1, HostTail DEF OncePerKind
<1>4. QED
  BY <1>1, <1>2, <1>3, Same DEF OncePerKind

LEMMA FirstMessage ==
    ASSUME PartsOK, toHost # <<>>
    PROVE  /\ Head(toHost) \in HostMessage /\ Tail(toHost) \in Seq(HostMessage)
           /\ Head(toHost).cmd = "CMD_CMPL_TO_HOST" => Head(toHost).body \in Datum
           /\ Head(toHost).cmd = "CMD_READ_FROM_HOST" => Head(toHost).body \in Nat
<1>1. Head(toHost) \in HostMessage /\ Tail(toHost) \in Seq(HostMessage)
  BY TailFacts DEF PartsOK
<1>2. QED
  BY <1>1 DEF HostMessage

LEMMA CompleteAccess == ASSUME AccessInv, doCompleteToHost PROVE AccessInv'
<1> USE DEF AccessInv
<1>1. /\ UNCHANGED <<call, result, mtx, msgid, toDevice, busy, bus, collecting, reg, posted, memory>>
      /\ toHost # <<>> /\ Head(toHost).cmd = "CMD_CMPL_TO_HOST" /\ Head(toHost).body \in Datum
  BY FirstMessage DEF doCompleteToHost, Arrived, threadVars, simVars, boardVars
<1>2. CASE /\ stored' = TRUE /\ readData' = Body /\ UNCHANGED <<done, toHost>>
  <2>1. PartsOK'
    BY <1>1, <1>2 DEF PartsOK, CallOK, BusOK, Body
  <2>2. \A f \in Kinds : OncePerKind(f)'
    BY <1>1, <1>2, Same DEF OncePerKind
  <2>3. OwnRequests' /\ HalfStored'
    BY <1>1, <1>2, OwnSame DEF HalfStored, Body
  <2>4. QED
    BY <2>1, <2>2, <2>3
<1>3. CASE stored' = FALSE /\ done' = [done EXCEPT !["read"] = TRUE] /\ Consume /\ UNCHANGED readData
  <2>1. PartsOK'
    BY <1>1, <1>3, FirstMessage DEF PartsOK, CallOK, BusOK, Consume
  <2>2. ASSUME NEW f \in Kinds PROVE OncePerKind(f)'
    <3>1. done'[f] <=> done[f] \/ Answers(Head(toHost), f)
      BY <1>1, <1>3 DEF PartsOK, Answers, Kinds, Flags
    <3>2. QED
      BY <1>1, <1>3, <3>1, Dispatched DEF Consume
  <2>3. OwnRequests' /\ HalfStored'
    BY <1>1, <1>3, OwnSame DEF HalfStored
  <2>4. QED
    BY <2>1, <2>2, <2>3
<1>4. QED
  BY <1>2, <1>3 DEF doCompleteToHost

LEMMA AcknowledgeAccess ==
    ASSUME AccessInv, NEW cmd, NEW g, doAcknowledge(cmd, g),
           <<cmd, g>> \in {<<"CMD_ACK_CMPL", "cmpl">>, <<"CMD_ACK_WRITE", "write">>, <<"CMD_ACK_TIME", "time">>}
    PROVE  AccessInv'
<1> USE DEF AccessInv
<1>1. /\ UNCHANGED <<call, result, mtx, msgid, toDevice, readData, stored, busy, bus, collecting, reg,
                     posted, memory>>
      /\ toHost # <<>> /\ Head(toHost).cmd = cmd /\ toHost' = Tail(toHost)
      /\ done' = [done EXCEPT ![g] = TRUE]
  BY DEF doAcknowledge, Arrived, Consume, threadVars, simVars, boardVars
<1>2. PartsOK'
  <2>1. toHost' \in Seq(HostMessage)
    BY <1>1, FirstMessage DEF PartsOK
  <2>2. done' \in [Flags -> BOOLEAN]
    BY <1>1 DEF PartsOK
  <2>3. \A u \in Thread : CallOK(u)'
    BY <1>1 DEF PartsOK, CallOK
  <2>4. QED
    BY <1>1, <2>1, <2>2, <2>3 DEF PartsOK, BusOK
<1>3. ASSUME NEW f \in Kinds PROVE OncePerKind(f)'
  <2>1. Answers(Head(toHost), f) <=> f = g
    BY <1>1 DEF Answers, Kinds
  <2>2. done'[f] <=> done[f] \/ f = g
    BY <1>1 DEF PartsOK, Kinds, Flags
  <2>3. QED
    BY <1>1, <2>1, <2>2, Dispatched
<1>4. OwnRequests' /\ HalfStored'
  BY <1>1, OwnSame DEF HalfStored
<1>5. QED
  BY <1>2, <1>3, <1>4

LEMMA DmaAccess == ASSUME AccessInv, doWriteToHost \/ doReadFromHost PROVE AccessInv'
<1> USE DEF AccessInv
<1>1. /\ UNCHANGED <<call, result, mtx, msgid, toDevice, done, readData, stored, busy, bus, collecting,
                     reg, posted>>
      /\ toHost # <<>> /\ Head(toHost).cmd \in {"CMD_WRITE_TO_HOST", "CMD_READ_FROM_HOST"}
      /\ toHost' = Tail(toHost) /\ memory' \in {memory, memory + 1}
  BY DEF doWriteToHost, doReadFromHost, Arrived, Consume, threadVars, simVars, boardVars
<1>2. PartsOK'
  BY <1>1, FirstMessage DEF PartsOK, CallOK, BusOK
<1>3. ASSUME NEW f \in Kinds PROVE OncePerKind(f)'
  <2>1. ~Answers(Head(toHost), f)
    BY <1>1 DEF Answers, Kinds
  <2>2. QED
    BY <1>1, <2>1, Dispatched
<1>4. OwnRequests' /\ HalfStored'
  BY <1>1, OwnSame DEF HalfStored
<1>5. QED
  BY <1>2, <1>3, <1>4

-----------------------------------------------------------------------------
(* cmplHandler().                                                           *)

LEMMA QuietAccess == ASSUME AccessInv, NextRequest \/ CompletionAcknowledged PROVE AccessInv'
<1> USE DEF AccessInv
<1>1. /\ UNCHANGED <<call, result, mtx, msgid, toDevice, toHost, readData, stored, busy, bus, collecting,
                     reg, posted, memory>>
      /\ done' = done \/ done' = [done EXCEPT !["cmpl"] = FALSE]
  BY DEF NextRequest, CompletionAcknowledged, FlagAfter, threadVars, simVars, boardVars
<1>a. done' \in [Flags -> BOOLEAN] /\ \A f \in Kinds : done'[f] = done[f]
  BY <1>1 DEF PartsOK, Kinds, Flags
<1>2. PartsOK'
  BY <1>1, <1>a DEF PartsOK, CallOK, BusOK
<1>3. \A f \in Kinds : OncePerKind(f)'
  BY <1>1, <1>a, Same DEF OncePerKind
<1>4. OwnRequests' /\ HalfStored'
  BY <1>1, OwnSame DEF HalfStored
<1>5. QED
  BY <1>2, <1>3, <1>4

\* A packet is part of its request.
LEMMA PacketFits ==
    ASSUME RequestInv, request.left # 0
    PROVE  /\ PacketLength \in 1..MaxPacket /\ PacketLength <= request.left
           /\ [tag |-> request.tag, count |-> request.left, offset |-> request.offset,
               length |-> PacketLength] \in Completion
<1>a. /\ request.left \in 0..RequestLength /\ request.offset \in 0..RequestLength /\ request.tag \in Nat
      /\ request.left + request.offset = (IF request.tag = 0 THEN 0 ELSE RequestLength)
  BY DEF RequestInv, PipeInv, Request
<1>1. /\ request.left \in 1..RequestLength /\ request.offset \in 0..RequestLength
      /\ request.tag \in Nat \ {0} /\ request.left + request.offset = RequestLength
  BY <1>a
<1>2. PacketLength \in 1..MaxPacket /\ PacketLength <= request.left
  BY <1>1 DEF PacketLength
<1>3. QED
  BY <1>1, <1>2 DEF Completion

LEMMA SendCompletionAccess == ASSUME AccessInv, RequestInv, SendCompletion PROVE AccessInv'
<1> USE DEF AccessInv
<1>1. /\ UNCHANGED <<call, result, mtx, done, readData, stored, memory, toHost, busy, bus, collecting, reg,
                     posted>>
      /\ msgid' = msgid + 1
  BY DEF SendCompletion, simVars, boardVars
<1>2. PICK m \in DeviceMessage : m.cmd = "CMD_CMPL_TO_DEVICE" /\ toDevice' = Append(toDevice, m)
  <2>1. PICK p \in Completion : toDevice' = Append(toDevice, Message("CMD_CMPL_TO_DEVICE", p))
    BY PacketFits DEF SendCompletion
  <2>2. Message("CMD_CMPL_TO_DEVICE", p) \in DeviceMessage
    BY DEF Message, DeviceMessage
  <2>3. QED
    BY <2>1, <2>2 DEF Message
<1>3. PartsOK'
  BY <1>1, <1>2, AppendFacts DEF PartsOK, CallOK, BusOK
<1>4. ASSUME NEW f \in Kinds PROVE OncePerKind(f)'
  <2>1. ~Asks(m, f)
    BY <1>2 DEF Asks
  <2>2. OneRequest(f)' /\ (InDevice(f)' <=> InDevice(f))
    BY <1>2, <2>1, DeviceAppend DEF OncePerKind, PartsOK
  <2>3. QED
    BY <1>1, <2>2, Same DEF OncePerKind
<1>5. OwnRequests' /\ HalfStored'
  <2>1. Own(m)' /\ \A n \in DeviceMessage : Own(n) => Own(n)'
    BY <1>1, <1>2 DEF Own
  <2>2. (\A k \in DOMAIN toDevice : Own(toDevice[k]))'
    BY <1>2, <2>1, AppendFacts DEF PartsOK, OwnRequests
  <2>3. bus.at = "enabled" => bus.m \in DeviceMessage
    BY DEF PartsOK, BusOK, Free
  <2>4. QED
    BY <1>1, <2>1, <2>2, <2>3 DEF OwnRequests, HalfStored
<1>6. QED
  BY <1>3, <1>4, <1>5

-----------------------------------------------------------------------------
(* The simulator.                                                           *)

\* An answer is sent for what has left the bus.
LEMMA Answered ==
    ASSUME AccessInv, NEW m \in HostMessage, toHost' = Append(toHost, m),
           UNCHANGED <<call, toDevice, done>>, NEW f \in Kinds,
           Answers(m, f) => OnBus(f), OnBus(f)' <=> OnBus(f) /\ ~Answers(m, f)
    PROVE  OncePerKind(f)'
<1>1. OncePerKind(f) /\ toHost \in Seq(HostMessage)
  BY DEF AccessInv, PartsOK
<1>2. OneAnswer(f)' /\ (InHost(f)' <=> InHost(f) \/ Answers(m, f))
  BY <1>1, HostAppend DEF OncePerKind
<1>3. QED
  BY <1>1, <1>2, Same DEF OncePerKind

\* What is half stored stays first.
LEMMA StillFirst ==
    ASSUME PartsOK, HalfStored, NEW m \in HostMessage, toHost' = Append(toHost, m),
           UNCHANGED <<stored, readData>>
    PROVE  HalfStored'
BY AppendFacts DEF PartsOK, HalfStored

LEMMA TimeAccess ==
    ASSUME AccessInv, sockreader, toDevice # <<>>, Head(toDevice).cmd = "ACCESS",
           Head(toDevice).body.c.op = "gettime"
    PROVE  AccessInv'
<1> USE DEF AccessInv
<1>1. /\ UNCHANGED <<call, result, mtx, msgid, done, readData, stored, bus, collecting, reg, posted, memory>>
      /\ toDevice' = Tail(toDevice) /\ busy' \in BOOLEAN
  BY DEF sockreader, BusyAfter, threadVars, monitorVars, boardVars
<1>2. PICK m \in HostMessage : m.cmd = "CMD_ACK_TIME" /\ toHost' = Append(toHost, m)
  <2>1. toHost' = Append(toHost, Answer("CMD_ACK_TIME", Nothing))
    BY DEF sockreader
  <2>2. Answer("CMD_ACK_TIME", Nothing) \in HostMessage
    BY DEF Answer, HostMessage
  <2>3. QED
    BY <2>1, <2>2 DEF Answer
<1>3. PartsOK'
  BY <1>1, <1>2, AppendFacts, TailFacts DEF PartsOK, CallOK, BusOK
<1>4. ASSUME NEW f \in Kinds PROVE OncePerKind(f)'
  <2>1. OncePerKind(f) /\ toHost \in Seq(HostMessage) /\ toDevice \in Seq(DeviceMessage)
    BY DEF PartsOK
  <2>2. (Asks(Head(toDevice), f) <=> f = "time") /\ (Answers(m, f) <=> f = "time")
    BY <1>2 DEF Asks, Answers, Flag, Kinds
  <2>3. Asks(Head(toDevice), f) => InDevice(f)
    BY <2>1, TailFacts DEF InDevice
  <2>4. OneRequest(f)' /\ (InDevice(f)' <=> InDevice(f) /\ ~Asks(Head(toDevice), f))
    BY <1>1, <2>1, DeviceTail DEF OncePerKind
  <2>5. OneAnswer(f)' /\ (InHost(f)' <=> InHost(f) \/ Answers(m, f))
    BY <1>2, <2>1, <2>2, <2>3, HostAppend DEF OncePerKind
  <2>6. QED
    BY <1>1, <2>1, <2>2, <2>3, <2>4, <2>5, Same DEF OncePerKind
<1>5. OwnRequests' /\ HalfStored'
  <2>1. \A n : Own(n) => Own(n)'
    BY <1>1 DEF Own
  <2>2. (\A k \in DOMAIN toDevice : Own(toDevice[k]))'
    BY <1>1, <2>1, TailFacts DEF PartsOK, OwnRequests
  <2>3. QED
    BY <1>1, <1>2, <2>1, <2>2, StillFirst DEF OwnRequests
<1>6. QED
  BY <1>3, <1>4, <1>5

\* The bus takes the first message.
LEMMA TakenByBus ==
    ASSUME AccessInv, sockreader, ~(Head(toDevice).cmd = "ACCESS" /\ Head(toDevice).body.c.op = "gettime")
    PROVE  /\ UNCHANGED <<call, result, mtx, msgid, done, readData, stored, toHost, collecting, reg, posted,
                          memory>>
           /\ toDevice # <<>> /\ toDevice' = Tail(toDevice) /\ busy' \in BOOLEAN /\ bus = Free
           /\ \E m \in DeviceMessage : \E op :
                /\ m = Head(toDevice) /\ op = IF m.cmd = "ACCESS" THEN m.body.c.op ELSE "completion"
                /\ op # "gettime" /\ bus' = [at |-> "enabled", m |-> m, op |-> op]
<1>1. Head(toDevice) \in DeviceMessage
  BY TailFacts DEF AccessInv, PartsOK, sockreader
<1>2. QED
  BY <1>1 DEF sockreader, BusyAfter, threadVars, monitorVars, boardVars

LEMMA BusAccess ==
    ASSUME AccessInv, sockreader, ~(Head(toDevice).cmd = "ACCESS" /\ Head(toDevice).body.c.op = "gettime")
    PROVE  AccessInv'
<1> USE DEF AccessInv
<1>1. /\ UNCHANGED <<call, result, mtx, msgid, done, readData, stored, toHost, collecting, reg, posted,
                     memory>>
      /\ toDevice # <<>> /\ toDevice' = Tail(toDevice) /\ busy' \in BOOLEAN /\ bus = Free
  BY TakenByBus
<1>2. PICK m \in DeviceMessage : \E op :
                /\ m = Head(toDevice) /\ op = IF m.cmd = "ACCESS" THEN m.body.c.op ELSE "completion"
                /\ op # "gettime" /\ bus' = [at |-> "enabled", m |-> m, op |-> op]
  BY TakenByBus
<1>3. PICK op :
                /\ m = Head(toDevice) /\ op = IF m.cmd = "ACCESS" THEN m.body.c.op ELSE "completion"
                /\ op # "gettime" /\ bus' = [at |-> "enabled", m |-> m, op |-> op]
  BY <1>2
<1>4. PartsOK'
  <2>1. BusOK'
    BY <1>3 DEF BusOK
  <2>2. QED
    BY <1>1, <2>1, TailFacts DEF PartsOK, CallOK
<1>5. ASSUME NEW f \in Kinds PROVE OncePerKind(f)'
  <2>1. OncePerKind(f) /\ toDevice \in Seq(DeviceMessage)
    BY DEF PartsOK
  <2>2. ~OnBus(f)
    BY <1>1 DEF OnBus, Free
  <2>3. OnBus(f)' <=> Asks(m, f)
    <3>1. m.cmd = "ACCESS" => m.body.c.op # "completion"
      BY AccessParts DEF DeviceMessage
    <3>2. QED
      BY <1>3, <3>1 DEF OnBus, Asks
  <2>4. Asks(m, f) => InDevice(f)
    BY <1>1, <1>3, <2>1, TailFacts DEF InDevice
  <2>5. OneRequest(f)' /\ (InDevice(f)' <=> InDevice(f) /\ ~Asks(m, f))
    BY <1>1, <1>3, <2>1, DeviceTail DEF OncePerKind
  <2>6. QED
    BY <1>1, <2>1, <2>2, <2>3, <2>4, <2>5, Same DEF OncePerKind
<1>6. OwnRequests' /\ HalfStored'
  <2>1. \A n : Own(n) => Own(n)'
    BY <1>1 DEF Own
  <2>2. (\A k \in DOMAIN toDevice : Own(toDevice[k]))'
    BY <1>1, <2>1, TailFacts DEF PartsOK, OwnRequests
  <2>3. Own(m)
    BY <1>1, <1>3, TailFacts DEF PartsOK, OwnRequests
  <2>4. bus'.m = m
    BY <1>3
  <2>5. QED
    BY <1>1, <2>1, <2>2, <2>3, <2>4 DEF OwnRequests, HalfStored
<1>7. QED
  BY <1>4, <1>5, <1>6

LEMMA BoardAccess == ASSUME AccessInv, BoardServes PROVE AccessInv'
<1> USE DEF AccessInv
<1>1. UNCHANGED <<call, result, mtx, msgid, done, readData, stored, toDevice, toHost, busy, collecting, posted,
                  memory>>
  BY DEF BoardServes, threadVars, monitorVars
<1>2. /\ bus = [at |-> "enabled", m |-> bus.m, op |-> bus.op] /\ bus.m \in DeviceMessage
      /\ bus.op = (IF bus.m.cmd = "ACCESS" THEN bus.m.body.c.op ELSE "completion") /\ bus.op # "gettime"
  BY DEF BoardServes, PartsOK, BusOK, Free
<1>3. bus.op # "completion" => bus.m.body.c \in Accesses /\ bus.m.body.c.op = bus.op
  BY <1>2 DEF DeviceMessage
<1>4. PICK found \in Founds :
        bus' = [at |-> "done", op |-> bus.op, told |-> FALSE, m |-> bus.m, found |-> found]
  <2>1. (IF bus.op = "completion" THEN Nothing ELSE KeptOf(bus.m.body.c)) \in Founds
    BY <1>3, FoundTypes DEF PartsOK, Founds
  <2>2. QED
    BY <2>1 DEF BoardServes
<1>5. PartsOK'
  <2>1. BusOK'
    BY <1>2, <1>4 DEF BusOK
  <2>2. reg' \in [Addr \X Halves -> Contents]
    BY <1>3, FoundTypes, AccessParts DEF PartsOK, BoardServes
  <2>3. QED
    BY <1>1, <2>1, <2>2 DEF PartsOK, CallOK
<1>6. ASSUME NEW f \in Kinds PROVE OncePerKind(f)'
  <2>1. OnBus(f)' <=> OnBus(f)
    BY <1>2, <1>4 DEF OnBus
  <2>2. QED
    BY <1>1, <2>1, Same DEF OncePerKind
<1>7. OwnRequests' /\ HalfStored'
  BY <1>1, <1>4 DEF OwnRequests, Own, HalfStored
<1>8. QED
  BY <1>5, <1>6, <1>7

\* The bus is released, when the answer was sent.
LEMMA DoneAccess == ASSUME AccessInv, done_monitor PROVE AccessInv'
<1> USE DEF AccessInv
<1>1. /\ UNCHANGED <<call, result, mtx, msgid, done, readData, stored, toDevice, toHost, collecting, reg, posted,
                     memory>>
      /\ busy' = FALSE /\ bus.at = "done" /\ bus' = IF bus.told THEN Free ELSE bus
  BY DEF done_monitor, Leaves, threadVars, monitorVars, boardVars
<1>2. PartsOK'
  BY <1>1 DEF PartsOK, CallOK, BusOK
<1>3. ASSUME NEW f \in Kinds PROVE OncePerKind(f)'
  <2>1. OnBus(f)' <=> OnBus(f)
    BY <1>1 DEF OnBus, Free
  <2>2. QED
    BY <1>1, <2>1, Same DEF OncePerKind
<1>4. OwnRequests' /\ HalfStored'
  BY <1>1 DEF OwnRequests, Own, HalfStored, Free
<1>5. QED
  BY <1>2, <1>3, <1>4

\* The answer on the bus goes out.
LEMMA ToldMessage ==
    ASSUME AccessInv, TellDone
    PROVE  \E m \in HostMessage :
            /\ toHost' = Append(toHost, m)
            /\ m.cmd = CASE Flag(bus.op) = "read" -> "CMD_CMPL_TO_HOST"
                          [] bus.op = "completion" -> "CMD_ACK_CMPL"
                          [] OTHER -> "CMD_ACK_WRITE"
            /\ Flag(bus.op) = "read" => m.body = [found |-> bus.found, posted |-> posted]
<1>1. bus.found \in Founds /\ posted \in Nat
  BY DEF AccessInv, PartsOK, BusOK, TellDone, Free
<1>2. CASE Flag(bus.op) = "read"
  <2>0. bus.op # "completion"
    BY <1>2 DEF Flag
  <2>1. Answer("CMD_CMPL_TO_HOST", [found |-> bus.found, posted |-> posted]) \in HostMessage
    BY <1>1 DEF Answer, HostMessage, Datum
  <2>2. toHost' = Append(toHost, Answer("CMD_CMPL_TO_HOST", [found |-> bus.found, posted |-> posted]))
    BY <1>2, <2>0 DEF TellDone
  <2>3. QED
    BY <1>2, <2>0, <2>1, <2>2 DEF Answer
<1>3. CASE Flag(bus.op) # "read" /\ bus.op = "completion"
  <2>1. Answer("CMD_ACK_CMPL", Nothing) \in HostMessage
    BY DEF Answer, HostMessage
  <2>2. toHost' = Append(toHost, Answer("CMD_ACK_CMPL", Nothing))
    BY <1>3 DEF TellDone
  <2>3. QED
    BY <1>3, <2>1, <2>2 DEF Answer
<1>4. CASE Flag(bus.op) # "read" /\ bus.op # "completion"
  <2>1. Answer("CMD_ACK_WRITE", Nothing) \in HostMessage
    BY DEF Answer, HostMessage
  <2>2. toHost' = Append(toHost, Answer("CMD_ACK_WRITE", Nothing))
    BY <1>4 DEF TellDone
  <2>3. QED
    BY <1>4, <2>1, <2>2 DEF Answer
<1>5. QED
  BY <1>2, <1>3, <1>4

LEMMA TellAccess == ASSUME AccessInv, TellDone PROVE AccessInv'
<1> USE DEF AccessInv
<1>1. /\ UNCHANGED <<call, result, mtx, msgid, done, readData, stored, toDevice, busy, collecting, reg, posted,
                     memory>>
      /\ bus' = (IF busy THEN [bus EXCEPT !.told = TRUE] ELSE Free) /\ ~bus.told
  BY DEF TellDone, threadVars, monitorVars, boardVars
<1>2. PICK m \in HostMessage :
            /\ toHost' = Append(toHost, m)
            /\ m.cmd = CASE Flag(bus.op) = "read" -> "CMD_CMPL_TO_HOST"
                          [] bus.op = "completion" -> "CMD_ACK_CMPL"
                          [] OTHER -> "CMD_ACK_WRITE"
  BY ToldMessage
<1>3. /\ bus.at = "done" /\ DOMAIN bus = {"at", "op", "told", "m", "found"}
      /\ bus.m \in DeviceMessage /\ bus.told \in BOOLEAN /\ bus.found \in Founds
      /\ bus.op = (IF bus.m.cmd = "ACCESS" THEN bus.m.body.c.op ELSE "completion") /\ bus.op # "gettime"
  BY DEF TellDone, PartsOK, BusOK, Free
<1>4. \/ bus' = Free
      \/ /\ bus'.at = "done" /\ DOMAIN bus' = DOMAIN bus /\ bus'.told = TRUE
         /\ bus'.op = bus.op /\ bus'.m = bus.m /\ bus'.found = bus.found
  BY <1>1, <1>3
<1>5. PartsOK'
  <2>1. BusOK'
    BY <1>3, <1>4 DEF BusOK
  <2>2. QED
    BY <1>1, <1>2, <2>1, AppendFacts DEF PartsOK, CallOK
<1>6. ASSUME NEW f \in Kinds PROVE OncePerKind(f)'
  <2>1. ~OnBus(f)'
    BY <1>4 DEF OnBus, Free
  <2>2. OnBus(f) <=> bus.op # "completion" /\ Flag(bus.op) = f
    BY <1>1, <1>3 DEF OnBus
  <2>3. Answers(m, f) <=> bus.op # "completion" /\ Flag(bus.op) = f
    BY <1>2, <1>3 DEF Answers, Flag, Kinds
  <2>4. QED
    BY <1>1, <1>2, <2>1, <2>2, <2>3, Answered
<1>7. OwnRequests' /\ HalfStored'
  <2>1. OwnRequests'
    BY <1>1, <1>4 DEF OwnRequests, Own, Free
  <2>2. QED
    BY <1>1, <1>2, <2>1, StillFirst
<1>8. QED
  BY <1>5, <1>6, <1>7

LEMMA WriteBeginsAccess == ASSUME AccessInv, WriteBegins PROVE AccessInv'
<1> USE DEF AccessInv
<1>1. /\ UNCHANGED <<call, result, mtx, msgid, done, readData, stored, toDevice, toHost, busy, bus, reg, memory>>
      /\ collecting' = TRUE /\ posted' = posted + 1
  BY DEF WriteBegins, threadVars, monitorVars
<1>2. PartsOK'
  BY <1>1 DEF PartsOK, CallOK, BusOK
<1>3. \A f \in Kinds : OncePerKind(f)'
  BY <1>1, Same DEF OncePerKind
<1>4. OwnRequests' /\ HalfStored'
  BY <1>1, OwnSame DEF HalfStored
<1>5. QED
  BY <1>2, <1>3, <1>4

LEMMA PacketAccess == ASSUME AccessInv, RequestInv, WriteEnds \/ ReadRequest PROVE AccessInv'
<1> USE DEF AccessInv
<1>1. /\ UNCHANGED <<call, result, mtx, msgid, done, readData, stored, toDevice, busy, bus, reg, posted, memory>>
      /\ collecting' \in BOOLEAN
  BY DEF WriteEnds, ReadRequest, threadVars, monitorVars, simVars, boardVars, PartsOK
<1>2. PICK m \in HostMessage : /\ m.cmd \in {"CMD_WRITE_TO_HOST", "CMD_READ_FROM_HOST"}
                               /\ toHost' = Append(toHost, m)
  <2>1. Answer("CMD_WRITE_TO_HOST", Nothing) \in HostMessage
    BY DEF Answer, HostMessage
  <2>2. Answer("CMD_READ_FROM_HOST", asked + 1) \in HostMessage
    <3>1. PICK n \in [0..Len(toHost) -> Nat] : n[Len(toHost)] = asked
      BY DEF RequestInv, CountsReads
    <3>a. Len(toHost) \in Nat
      BY AppendFacts DEF PartsOK
    <3>2. asked + 1 \in Nat
      BY <3>1, <3>a
    <3>3. QED
      BY <3>2 DEF Answer, HostMessage
  <2>3. QED
    BY <2>1, <2>2 DEF WriteEnds, ReadRequest, Answer
<1>3. PartsOK'
  BY <1>1, <1>2, AppendFacts DEF PartsOK, CallOK, BusOK
<1>4. ASSUME NEW f \in Kinds PROVE OncePerKind(f)'
  <2>1. ~Answers(m, f) /\ (OnBus(f)' <=> OnBus(f))
    BY <1>1, <1>2, Same DEF Answers, Kinds
  <2>2. QED
    BY <1>1, <1>2, <2>1, Answered
<1>5. OwnRequests' /\ HalfStored'
  BY <1>1, <1>2, OwnSame, StillFirst
<1>6. QED
  BY <1>3, <1>4, <1>5

-----------------------------------------------------------------------------
(* Counting messages.                                                       *)

LEMMA CountAppend ==
    ASSUME NEW S, NEW s \in Seq(S), NEW e \in S, NEW cmd, NEW n \in [0..Len(s) -> Nat], Counts(n, s, cmd)
    PROVE  \E m \in [0..Len(s)+1 -> Nat] :
            /\ Counts(m, Append(s, e), cmd)
            /\ \A k \in 0..Len(s) : m[k] = n[k]
            /\ m[Len(s)+1] = n[Len(s)] + (IF e.cmd = cmd THEN 1 ELSE 0)
<1> DEFINE more == IF e.cmd = cmd THEN 1 ELSE 0
           m == [k \in 0..Len(s)+1 |-> IF k <= Len(s) THEN n[k] ELSE n[Len(s)] + more]
<1>1. Len(s) \in Nat /\ more \in {0, 1} /\ \A k \in 0..Len(s) : n[k] \in Nat
  BY AppendFacts
<1>2. m \in [0..Len(s)+1 -> Nat]
  BY <1>1
<1>3. (\A k \in 0..Len(s) : m[k] = n[k]) /\ m[Len(s)+1] = n[Len(s)] + more
  BY <1>1
<1> HIDE DEF m, more
<1>4. Counts(m, Append(s, e), cmd)
  <2>1. ASSUME NEW k \in 1..Len(s)+1
        PROVE  m[k] = m[k-1] + (IF Append(s, e)[k].cmd = cmd THEN 1 ELSE 0)
    <3>1. CASE k \in 1..Len(s)
      <4>1. m[k] = n[k] /\ m[k-1] = n[k-1] /\ Append(s, e)[k] = s[k]
        BY <1>1, <1>3, <3>1, AppendFacts
      <4>2. QED
        BY <3>1, <4>1 DEF Counts
    <3>2. CASE k = Len(s) + 1
      <4>1. m[k-1] = n[Len(s)] /\ Append(s, e)[k] = e
        BY <1>1, <1>3, <3>2, AppendFacts
      <4>2. QED
        BY <1>3, <3>2, <4>1 DEF more
    <3>3. QED
      BY <1>1, <3>1, <3>2
  <2>2. ASSUME NEW i \in 0..Len(s)+1, NEW j \in 0..Len(s)+1, i <= j PROVE m[i] <= m[j]
    <3>1. CASE j \in 0..Len(s)
      BY <1>1, <1>3, <2>2, <3>1 DEF Counts
    <3>2. CASE j = Len(s) + 1
      <4>1. \A l \in 0..Len(s) : n[l] <= n[Len(s)]
        BY <1>1 DEF Counts
      <4>2. QED
        BY <1>1, <1>3, <3>2, <4>1
    <3>3. QED
      BY <1>1, <3>1, <3>2
  <2>3. QED
    BY <2>1, <2>2, AppendFacts DEF Counts
<1>5. QED
  BY <1>2, <1>3, <1>4 DEF more

LEMMA CountTail ==
    ASSUME NEW S, NEW s \in Seq(S), s # <<>>, NEW cmd, NEW n \in [0..Len(s) -> Nat], Counts(n, s, cmd)
    PROVE  /\ n[1] = n[0] + (IF Head(s).cmd = cmd THEN 1 ELSE 0)
           /\ \E m \in [0..Len(s)-1 -> Nat] :
                Counts(m, Tail(s), cmd) /\ \A k \in 0..Len(s)-1 : m[k] = n[k+1]
<1> DEFINE m == [k \in 0..Len(s)-1 |-> n[k+1]]
<1>1. Len(s) \in Nat \ {0} /\ \A k \in 0..Len(s) : n[k] \in Nat
  BY TailFacts
<1>2. m \in [0..Len(s)-1 -> Nat] /\ \A k \in 0..Len(s)-1 : m[k] = n[k+1]
  BY <1>1
<1> HIDE DEF m
<1>3. ASSUME NEW k \in 1..Len(s)-1
      PROVE  m[k] = m[k-1] + (IF Tail(s)[k].cmd = cmd THEN 1 ELSE 0)
  <2>1. m[k] = n[k+1] /\ m[k-1] = n[k] /\ Tail(s)[k] = s[k+1]
    BY <1>1, <1>2, TailFacts
  <2>2. k+1 \in 1..Len(s) /\ (k+1)-1 = k
    BY <1>1
  <2>3. n[k+1] = n[(k+1)-1] + (IF s[k+1].cmd = cmd THEN 1 ELSE 0)
    BY <2>2 DEF Counts
  <2>4. QED
    BY <2>1, <2>2, <2>3
<1>4. ASSUME NEW i \in 0..Len(s)-1, NEW j \in 0..Len(s)-1, i <= j PROVE m[i] <= m[j]
  <2>1. m[i] = n[i+1] /\ m[j] = n[j+1] /\ i+1 \in 0..Len(s) /\ j+1 \in 0..Len(s) /\ i+1 <= j+1
    BY <1>1, <1>2, <1>4
  <2>2. QED
    BY <2>1 DEF Counts
<1>5. Counts(m, Tail(s), cmd)
  BY <1>3, <1>4, TailFacts DEF Counts
<1>6. n[1] = n[0] + (IF Head(s).cmd = cmd THEN 1 ELSE 0)
  <2>1. 1 \in 1..Len(s) /\ 1-1 = 0 /\ Head(s) = s[1]
    BY <1>1, TailFacts
  <2>2. QED
    BY <2>1 DEF Counts
<1>7. QED
  BY <1>2, <1>5, <1>6

-----------------------------------------------------------------------------
(* Host memory.                                                             *)

LEMMA InitWrites == Init => WriteInv
<1> SUFFICES ASSUME Init PROVE WriteInv
  OBVIOUS
<1> DEFINE n == [k \in 0..0 |-> 0]
<1>a. Len(toHost) = 0 /\ 1..Len(toHost) = {} /\ 0..Len(toHost) = {0} /\ n[0] = 0
  BY DEF Init
<1>b. n \in [0..Len(toHost) -> Nat]
  BY <1>a
<1> HIDE DEF n
<1>c. Counts(n, toHost, "CMD_WRITE_TO_HOST")
  BY <1>a DEF Counts
<1>1. CountsWrites(n)
  BY <1>a, <1>c DEF Init, CountsWrites
<1>2. readData.posted <= memory /\ MemoryBeforeRegister
  BY DEF Init, MemoryBeforeRegister
<1>3. QED
  BY <1>b, <1>1, <1>2 DEF WriteInv

\* What a thread takes from a completion is no older than memory.
LEMMA WritesResult ==
    ASSUME AccessInv, AccessInv', WriteInv, memory' \in {memory, memory + 1},
           UNCHANGED result \/ \E t \in Thread : Return(t)
    PROVE  MemoryBeforeRegister'
<1>1. \A t \in Thread : /\ result[t].posted \in Nat /\ result[t].posted <= memory
                        /\ result'[t].posted \in {result[t].posted, readData.posted}
  <2>1. ASSUME NEW t \in Thread PROVE result[t] \in Datum /\ result[t].posted \in Nat /\ result[t].posted <= memory
    BY DEF AccessInv, PartsOK, Datum, WriteInv, MemoryBeforeRegister
  <2>2. ASSUME NEW t \in Thread, NEW u \in Thread, Return(u)
        PROVE  result'[t].posted \in {result[t].posted, readData.posted}
    <3>1. result'[t] = result[t] \/ result'[t] = readData \/ result'[t] = [result[t] EXCEPT !.found = Nothing]
      BY <2>2 DEF Return, AccessInv, PartsOK
    <3>2. [result[t] EXCEPT !.found = Nothing].posted = result[t].posted
      BY <2>1 DEF Datum
    <3>3. QED
      BY <3>1, <3>2
  <2>3. QED
    BY <2>1, <2>2
<1>2. memory \in Nat /\ readData.posted \in Nat /\ readData.posted <= memory
  BY DEF AccessInv, PartsOK, Datum, WriteInv
<1>3. QED
  BY <1>1, <1>2 DEF MemoryBeforeRegister

\* The socket keeps its messages.
LEMMA WritesKept ==
    ASSUME AccessInv, AccessInv', WriteInv, UNCHANGED <<toHost, memory>>, readData'.posted <= memory,
           posted' - (IF collecting' THEN 1 ELSE 0) = posted - (IF collecting THEN 1 ELSE 0),
           UNCHANGED result \/ \E t \in Thread : Return(t)
    PROVE  WriteInv'
<1>1. PICK n \in [0..Len(toHost) -> Nat] : CountsWrites(n)
  BY DEF WriteInv
<1>2. CountsWrites(n)'
  BY <1>1 DEF CountsWrites
<1>3. QED
  BY <1>1, <1>2, WritesResult DEF WriteInv

LEMMA WritesSame ==
    ASSUME AccessInv, AccessInv', WriteInv, UNCHANGED <<toHost, memory, readData, posted, collecting, result>>
    PROVE  WriteInv'
<1>1. readData'.posted <= memory
  BY DEF WriteInv
<1>2. QED
  BY <1>1, WritesKept

\* sockMonitor() takes the data of the completion in front.
LEMMA WritesStored ==
    ASSUME AccessInv, AccessInv', WriteInv, UNCHANGED <<toHost, memory, posted, collecting, result>>,
           toHost # <<>>, Head(toHost).cmd = "CMD_CMPL_TO_HOST", readData' = Head(toHost).body
    PROVE  WriteInv'
<1>1. PICK n \in [0..Len(toHost) -> Nat] : CountsWrites(n)
  BY DEF WriteInv
<1>2. toHost \in Seq(HostMessage) /\ Counts(n, toHost, "CMD_WRITE_TO_HOST")
  BY <1>1 DEF CountsWrites, AccessInv, PartsOK
<1>3. n[1] = n[0] + (IF Head(toHost).cmd = "CMD_WRITE_TO_HOST" THEN 1 ELSE 0)
  BY <1>2, CountTail
<1>4. 1 \in 1..Len(toHost) /\ Head(toHost) = toHost[1] /\ n[0] \in Nat
  BY <1>2, TailFacts
<1>5. readData'.posted <= memory
  BY <1>1, <1>3, <1>4 DEF CountsWrites
<1>6. QED
  BY <1>5, WritesKept

\* The first message is dispatched.
LEMMA WritesTail ==
    ASSUME AccessInv, AccessInv', WriteInv, toHost # <<>>, toHost' = Tail(toHost),
           memory' = memory + (IF Head(toHost).cmd = "CMD_WRITE_TO_HOST" THEN 1 ELSE 0),
           UNCHANGED <<readData, posted, collecting, result>>
    PROVE  WriteInv'
<1>1. PICK n \in [0..Len(toHost) -> Nat] : CountsWrites(n)
  BY DEF WriteInv
<1>2. toHost \in Seq(HostMessage) /\ Len(toHost) \in Nat \ {0} /\ Len(toHost') = Len(toHost) - 1
      /\ \A k \in 1..Len(toHost)-1 : toHost'[k] = toHost[k+1]
  BY TailFacts DEF AccessInv, PartsOK
<1>3. PICK m \in [0..Len(toHost)-1 -> Nat] :
        Counts(m, Tail(toHost), "CMD_WRITE_TO_HOST") /\ \A k \in 0..Len(toHost)-1 : m[k] = n[k+1]
  BY <1>1, <1>2, CountTail DEF CountsWrites
<1>4. m[0] = memory'
  BY <1>1, <1>2, <1>3, CountTail DEF CountsWrites
<1>5. CountsWrites(m)'
  <2>1. m[Len(toHost')] = posted' - (IF collecting' THEN 1 ELSE 0)
    BY <1>1, <1>2, <1>3 DEF CountsWrites
  <2>2. ASSUME NEW k \in 1..Len(toHost'), toHost'[k].cmd = "CMD_CMPL_TO_HOST"
        PROVE  toHost'[k].body.posted <= m[k]
    <3>1. k+1 \in 1..Len(toHost) /\ toHost'[k] = toHost[k+1] /\ m[k] = n[k+1]
      BY <1>2, <1>3
    <3>2. QED
      BY <1>1, <2>2, <3>1 DEF CountsWrites
  <2>3. QED
    BY <1>3, <1>4, <2>1, <2>2 DEF CountsWrites
<1>6. readData'.posted <= memory' /\ MemoryBeforeRegister'
  <2>1. memory \in Nat /\ readData.posted \in Nat /\ readData.posted <= memory /\ memory <= memory'
        /\ memory' \in {memory, memory + 1}
    BY DEF AccessInv, PartsOK, Datum, WriteInv
  <2>2. QED
    BY <2>1, WritesResult DEF AccessInv, PartsOK
<1>7. QED
  BY <1>2, <1>5, <1>6 DEF WriteInv

\* A message is sent.
LEMMA WritesAppend ==
    ASSUME AccessInv, AccessInv', WriteInv, NEW e \in HostMessage, toHost' = Append(toHost, e),
           e.cmd = "CMD_CMPL_TO_HOST" => ~collecting /\ e.body.posted = posted,
           posted' - (IF collecting' THEN 1 ELSE 0)
             = posted - (IF collecting THEN 1 ELSE 0) + (IF e.cmd = "CMD_WRITE_TO_HOST" THEN 1 ELSE 0),
           UNCHANGED <<memory, readData, result>>
    PROVE  WriteInv'
<1>1. PICK n \in [0..Len(toHost) -> Nat] : CountsWrites(n)
  BY DEF WriteInv
<1>2. toHost \in Seq(HostMessage) /\ Len(toHost) \in Nat /\ Len(toHost') = Len(toHost) + 1
      /\ (\A k \in 1..Len(toHost) : toHost'[k] = toHost[k]) /\ toHost'[Len(toHost) + 1] = e
  BY AppendFacts DEF AccessInv, PartsOK
<1>3. PICK m \in [0..Len(toHost)+1 -> Nat] :
        /\ Counts(m, Append(toHost, e), "CMD_WRITE_TO_HOST") /\ \A k \in 0..Len(toHost) : m[k] = n[k]
        /\ m[Len(toHost)+1] = n[Len(toHost)] + (IF e.cmd = "CMD_WRITE_TO_HOST" THEN 1 ELSE 0)
  BY <1>1, <1>2, CountAppend DEF CountsWrites
<1>4. CountsWrites(m)'
  <2>1. m[Len(toHost')] = posted' - (IF collecting' THEN 1 ELSE 0)
    BY <1>1, <1>2, <1>3 DEF CountsWrites
  <2>2. m[0] = memory'
    BY <1>1, <1>2, <1>3 DEF CountsWrites
  <2>3. ASSUME NEW k \in 1..Len(toHost'), toHost'[k].cmd = "CMD_CMPL_TO_HOST"
        PROVE  toHost'[k].body.posted <= m[k]
    <3>1. CASE k \in 1..Len(toHost)
      BY <1>1, <1>2, <1>3, <2>3, <3>1 DEF CountsWrites
    <3>2. CASE k = Len(toHost) + 1
      <4>1. m[k] = posted /\ posted \in Nat /\ toHost'[k] = e
        BY <1>1, <1>2, <1>3, <2>3, <3>2 DEF CountsWrites, AccessInv, PartsOK
      <4>2. QED
        BY <2>3, <4>1
    <3>3. QED
      BY <1>2, <3>1, <3>2
  <2>4. QED
    BY <1>3, <2>1, <2>2, <2>3 DEF CountsWrites
<1>5. QED
  BY <1>2, <1>4, WritesResult DEF WriteInv

-----------------------------------------------------------------------------
(* The requests of the board.                                               *)

LEMMA NewRequest == ASSUME NEW tag \in Nat PROVE DmaRead(tag) \in Request
BY DEF DmaRead, Request

LEMMA InitRequest == Init => RequestInv
<1> SUFFICES ASSUME Init PROVE RequestInv
  OBVIOUS
<1> DEFINE n == [k \in 0..0 |-> 0]
<1>1. Len(toHost) = 0 /\ 1..Len(toHost) = {} /\ 0..Len(toHost) = {0} /\ n[0] = 0
  BY DEF Init
<1>2. n \in [0..Len(toHost) -> Nat]
  BY <1>1
<1> HIDE DEF n
<1>3. Counts(n, toHost, "CMD_READ_FROM_HOST")
  BY <1>1 DEF Counts
<1>4. CountsReads(n)
  BY <1>1, <1>3 DEF Init, CountsReads, NoRequest
<1>5. PipeInv
  BY DEF Init, PipeInv, NoRequest, Request
<1>6. QED
  BY <1>2, <1>4, <1>5 DEF RequestInv

LEMMA RequestSame ==
    ASSUME RequestInv, UNCHANGED <<request, pipe, toHost, asked>>
    PROVE  RequestInv'
<1>1. PICK n \in [0..Len(toHost) -> Nat] : CountsReads(n)
  BY DEF RequestInv
<1>2. CountsReads(n)' /\ PipeInv'
  BY <1>1 DEF CountsReads, RequestInv, PipeInv
<1>3. QED
  BY <1>1, <1>2 DEF RequestInv

\* The handler goes on; the messages stay.
LEMMA RequestHandler ==
    ASSUME RequestInv, PipeInv', UNCHANGED <<toHost, asked>>,
           request'.tag + Len(pipe') = request.tag + Len(pipe)
    PROVE  RequestInv'
<1>1. PICK n \in [0..Len(toHost) -> Nat] : CountsReads(n)
  BY DEF RequestInv
<1>2. CountsReads(n)'
  BY <1>1 DEF CountsReads
<1>3. QED
  BY <1>1, <1>2 DEF RequestInv

LEMMA NextRequestKeeps == ASSUME RequestInv, NextRequest PROVE RequestInv' /\ Sent' = Sent
<1>1. /\ request \in Request /\ pipe \in Seq(Request) /\ request.left = 0 /\ ~request.waiting /\ pipe # <<>>
      /\ request' = Head(pipe) /\ pipe' = Tail(pipe) /\ UNCHANGED <<toHost, asked>>
      /\ \A k \in DOMAIN pipe : pipe[k] = DmaRead(request.tag + k)
  BY DEF RequestInv, PipeInv, NextRequest, boardVars
<1>a. Len(pipe) \in Nat \ {0} /\ DOMAIN pipe = 1..Len(pipe) /\ Head(pipe) = pipe[1] /\ request.tag \in Nat
  BY <1>1, TailFacts DEF Request
<1>2. /\ Len(pipe) \in Nat \ {0} /\ request' = DmaRead(request.tag + 1) /\ request.tag \in Nat
      /\ pipe' \in Seq(Request) /\ Len(pipe') = Len(pipe) - 1 /\ DOMAIN pipe' = 1..Len(pipe)-1
      /\ \A k \in 1..Len(pipe)-1 : pipe'[k] = pipe[k+1] /\ k+1 \in DOMAIN pipe
  <2>1. 1 \in DOMAIN pipe /\ \A k \in 1..Len(pipe)-1 : k+1 \in DOMAIN pipe
    BY <1>a
  <2>2. request' = DmaRead(request.tag + 1)
    BY <1>1, <1>a, <2>1
  <2>3. pipe' \in Seq(Request) /\ Len(pipe') = Len(pipe) - 1 /\ DOMAIN pipe' = 1..Len(pipe)-1
        /\ \A k \in 1..Len(pipe)-1 : pipe'[k] = pipe[k+1]
    BY <1>1, TailFacts
  <2>4. QED
    BY <1>a, <2>1, <2>2, <2>3
<1>3. request'.tag = request.tag + 1 /\ request'.left = RequestLength /\ request'.offset = 0
      /\ request'.waiting = FALSE /\ request' \in Request
  BY <1>2, NewRequest DEF DmaRead
<1>4. ASSUME NEW k \in 1..Len(pipe)-1 PROVE pipe'[k] = DmaRead(request'.tag + k)
  <2>1. pipe'[k] = pipe[k+1] /\ k+1 \in DOMAIN pipe
    BY <1>2
  <2>2. pipe[k+1] = DmaRead(request.tag + (k + 1))
    BY <1>1, <2>1
  <2>a. request.tag \in Int /\ k \in Int /\ request'.tag = request.tag + 1
    BY <1>a, <1>3
  <2>3. request.tag + (k + 1) = request'.tag + k
    BY <2>a
  <2>4. QED
    BY <2>1, <2>2, <2>3
<1>5. PipeInv'
  BY SMTT(30), <1>2, <1>3, <1>4 DEF PipeInv
<1>6. Sent' = Sent
  <2>1. (request.tag + 1) * RequestLength - RequestLength = request.tag * RequestLength
    BY <1>2
  <2>2. request.tag * RequestLength \in Int
    BY <1>2
  <2>3. Sent = request.tag * RequestLength /\ Sent' = (request.tag + 1) * RequestLength - RequestLength
    BY <1>1, <1>2, <1>3, <2>1, <2>2 DEF Sent
  <2>4. QED
    BY <2>1, <2>3
<1>7. QED
  BY <1>1, <1>2, <1>3, <1>5, <1>6, RequestHandler

LEMMA SendCompletionKeeps ==
    ASSUME RequestInv, SendCompletion
    PROVE  RequestInv' /\ Sent' = Sent + PacketLength
<1>1. /\ request \in Request /\ request.left # 0 /\ ~request.waiting /\ UNCHANGED <<pipe, toHost, asked>>
      /\ request' = [request EXCEPT !.waiting = TRUE]
  BY DEF RequestInv, PipeInv, SendCompletion, boardVars
<1>2. /\ request'.left = request.left /\ request'.offset = request.offset /\ request'.tag = request.tag
      /\ request'.waiting = TRUE /\ request' \in Request
  BY <1>1 DEF Request
<1>3. PipeInv'
  BY <1>1, <1>2 DEF RequestInv, PipeInv
<1>4. Sent' = Sent + PacketLength
  <2>1. PacketLength' = PacketLength
    BY <1>2 DEF PacketLength
  <2>2. request.tag * RequestLength - request.left \in Int
    BY <1>1 DEF Request
  <2>3. PacketLength \in Int
    BY <1>1, PacketFits
  <2>4. Sent = request.tag * RequestLength - request.left
    BY <1>1, <2>2 DEF Sent
  <2>5. Sent' = request.tag * RequestLength - request.left + PacketLength
    BY <1>2, <2>1 DEF Sent
  <2>6. QED
    BY <2>4, <2>5
<1>5. QED
  BY <1>1, <1>2, <1>3, <1>4, RequestHandler

LEMMA AcknowledgedKeeps ==
    ASSUME RequestInv, CompletionAcknowledged
    PROVE  RequestInv' /\ Sent' = Sent
<1>1. /\ request \in Request /\ request.left # 0 /\ request.waiting /\ UNCHANGED <<pipe, toHost, asked>>
      /\ request' = [request EXCEPT !.left = @ - PacketLength, !.offset = @ + PacketLength, !.waiting = FALSE]
      /\ request.left + request.offset = (IF request.tag = 0 THEN 0 ELSE RequestLength)
  BY DEF RequestInv, PipeInv, CompletionAcknowledged, NextPacket, boardVars
<1>2. PacketLength \in 1..MaxPacket /\ PacketLength <= request.left
  BY <1>1, PacketFits
<1>3. /\ request'.left = request.left - PacketLength /\ request'.offset = request.offset + PacketLength
      /\ request'.tag = request.tag /\ request'.waiting = FALSE /\ DOMAIN request' = DOMAIN request
  BY <1>1 DEF Request
<1>4. request'.left \in 0..RequestLength /\ request'.offset \in 0..RequestLength
      /\ request'.left + request'.offset = (IF request'.tag = 0 THEN 0 ELSE RequestLength)
  BY <1>1, <1>2, <1>3 DEF Request
<1>5. request' \in Request
  BY <1>1, <1>4, <1>3 DEF Request
<1>6. PipeInv'
  BY <1>1, <1>3, <1>4, <1>5 DEF RequestInv, PipeInv
<1>7. Sent' = Sent
  <2>1. request.tag * RequestLength \in Int /\ request.left \in Int
    BY <1>1 DEF Request
  <2>2. Sent = request.tag * RequestLength - request.left + PacketLength
    BY <1>1 DEF Sent
  <2>3. Sent' = request.tag * RequestLength - (request.left - PacketLength) + 0
    BY <1>3 DEF Sent
  <2>4. QED
    BY <1>2, <2>1, <2>2, <2>3
<1>8. QED
  BY <1>1, <1>3, <1>6, <1>7, RequestHandler

\* A message is dispatched: a read request goes into the pipe.
LEMMA RequestTail ==
    ASSUME AccessInv, RequestInv, toHost # <<>>, toHost' = Tail(toHost), UNCHANGED <<request, asked>>,
           \/ Head(toHost).cmd # "CMD_READ_FROM_HOST" /\ UNCHANGED pipe
           \/ Head(toHost).cmd = "CMD_READ_FROM_HOST" /\ doReadFromHost
    PROVE  RequestInv'
<1>1. PICK n \in [0..Len(toHost) -> Nat] : CountsReads(n)
  BY DEF RequestInv
<1>2. toHost \in Seq(HostMessage) /\ Len(toHost) \in Nat \ {0} /\ Len(toHost') = Len(toHost) - 1
      /\ (\A k \in 1..Len(toHost)-1 : toHost'[k] = toHost[k+1]) /\ Head(toHost) = toHost[1]
  BY TailFacts DEF AccessInv, PartsOK
<1>3. PICK m \in [0..Len(toHost)-1 -> Nat] :
        Counts(m, Tail(toHost), "CMD_READ_FROM_HOST") /\ \A k \in 0..Len(toHost)-1 : m[k] = n[k+1]
  BY <1>1, <1>2, CountTail DEF CountsReads
<1>4. n[1] = n[0] + (IF Head(toHost).cmd = "CMD_READ_FROM_HOST" THEN 1 ELSE 0)
  BY <1>1, <1>2, CountTail DEF CountsReads
<1>5. request \in Request /\ request.tag \in Nat /\ pipe \in Seq(Request) /\ Len(pipe) \in Nat
  BY AppendFacts DEF RequestInv, PipeInv, Request
<1>6. PipeInv' /\ Len(pipe') = Len(pipe) + (IF Head(toHost).cmd = "CMD_READ_FROM_HOST" THEN 1 ELSE 0)
  <2>1. CASE Head(toHost).cmd # "CMD_READ_FROM_HOST" /\ UNCHANGED pipe
    BY <1>5, <2>1 DEF RequestInv, PipeInv
  <2>2. CASE Head(toHost).cmd = "CMD_READ_FROM_HOST" /\ doReadFromHost
    <3>1. Body = request.tag + (Len(pipe) + 1) /\ Body \in Nat
      <4>1. 1 \in 1..Len(toHost)
        BY <1>2
      <4>2. toHost[1].body = n[1]
        BY <1>1, <1>2, <2>2, <4>1 DEF CountsReads
      <4>3. n[0] = request.tag + Len(pipe)
        BY <1>1 DEF CountsReads
      <4>4. QED
        BY <1>2, <1>4, <1>5, <2>2, <4>2, <4>3 DEF Body
    <3>2. pipe' = Append(pipe, DmaRead(Body)) /\ DmaRead(Body) \in Request
      BY <2>2, <3>1, NewRequest DEF doReadFromHost
    <3>3. /\ pipe' \in Seq(Request) /\ Len(pipe') = Len(pipe) + 1 /\ DOMAIN pipe' = 1..Len(pipe)+1
          /\ DOMAIN pipe = 1..Len(pipe)
          /\ (\A k \in 1..Len(pipe) : pipe'[k] = pipe[k]) /\ pipe'[Len(pipe) + 1] = DmaRead(Body)
      BY <1>5, <3>2, AppendFacts
    <3>4. \A k \in DOMAIN pipe' : pipe'[k] = DmaRead(request.tag + k)
      BY <1>5, <3>1, <3>3 DEF RequestInv, PipeInv
    <3>5. QED
      BY <2>2, <3>3, <3>4 DEF RequestInv, PipeInv
  <2>3. QED
    BY <2>1, <2>2
<1>7. CountsReads(m)'
  <2>1. m[0] = request.tag + Len(pipe')
    <3>1. m[0] = n[1] /\ n[0] = request.tag + Len(pipe)
      BY <1>1, <1>2, <1>3 DEF CountsReads
    <3>2. QED
      BY <1>4, <1>5, <1>6, <3>1
  <2>2. m[Len(toHost')] = asked'
    BY <1>1, <1>2, <1>3 DEF CountsReads
  <2>3. ASSUME NEW k \in 1..Len(toHost'), toHost'[k].cmd = "CMD_READ_FROM_HOST"
        PROVE  toHost'[k].body = m[k]
    <3>1. k+1 \in 1..Len(toHost) /\ toHost'[k] = toHost[k+1] /\ m[k] = n[k+1]
      BY <1>2, <1>3
    <3>2. QED
      BY <1>1, <2>3, <3>1 DEF CountsReads
  <2>4. QED
    BY <1>3, <2>1, <2>2, <2>3 DEF CountsReads
<1>8. QED
  BY <1>2, <1>6, <1>7 DEF RequestInv

\* A message is sent: perhaps the next request.
LEMMA RequestAppend ==
    ASSUME AccessInv, RequestInv, NEW e \in HostMessage, toHost' = Append(toHost, e),
           asked' = asked + (IF e.cmd = "CMD_READ_FROM_HOST" THEN 1 ELSE 0),
           e.cmd = "CMD_READ_FROM_HOST" => e.body = asked + 1,
           UNCHANGED <<request, pipe>>
    PROVE  RequestInv'
<1>1. PICK n \in [0..Len(toHost) -> Nat] : CountsReads(n)
  BY DEF RequestInv
<1>2. toHost \in Seq(HostMessage) /\ Len(toHost) \in Nat /\ Len(toHost') = Len(toHost) + 1
      /\ (\A k \in 1..Len(toHost) : toHost'[k] = toHost[k]) /\ toHost'[Len(toHost) + 1] = e
  BY AppendFacts DEF AccessInv, PartsOK
<1>3. PICK m \in [0..Len(toHost)+1 -> Nat] :
        /\ Counts(m, Append(toHost, e), "CMD_READ_FROM_HOST") /\ \A k \in 0..Len(toHost) : m[k] = n[k]
        /\ m[Len(toHost)+1] = n[Len(toHost)] + (IF e.cmd = "CMD_READ_FROM_HOST" THEN 1 ELSE 0)
  BY SMTT(30), <1>1, <1>2, CountAppend DEF CountsReads
<1>4. CountsReads(m)'
  <2>1. m[Len(toHost')] = asked'
    BY <1>1, <1>2, <1>3 DEF CountsReads
  <2>2. m[0] = request'.tag + Len(pipe')
    BY <1>1, <1>2, <1>3 DEF CountsReads
  <2>3. ASSUME NEW k \in 1..Len(toHost'), toHost'[k].cmd = "CMD_READ_FROM_HOST"
        PROVE  toHost'[k].body = m[k]
    <3>1. CASE k \in 1..Len(toHost)
      BY <1>1, <1>2, <1>3, <2>3, <3>1 DEF CountsReads
    <3>2. CASE k = Len(toHost) + 1
      BY <1>1, <1>2, <1>3, <2>3, <3>2 DEF CountsReads
    <3>3. QED
      BY <1>2, <3>1, <3>2
  <2>4. QED
    BY <1>3, <2>1, <2>2, <2>3 DEF CountsReads
<1>5. PipeInv'
  BY DEF RequestInv, PipeInv
<1>6. QED
  BY <1>2, <1>4, <1>5 DEF RequestInv

-----------------------------------------------------------------------------
(* The words of the answers.                                                *)

LEMMA DivMod ==
    ASSUME NEW k \in Nat \ {0}, NEW u \in Nat
    PROVE  u % k \in 0 .. k-1 /\ u \div k \in Nat /\ u = (u \div k) * k + (u % k)
BY SMT

LEMMA Unique ==
    ASSUME NEW k \in Nat \ {0}, NEW p \in Int, NEW q \in Int, NEW a \in 0..k-1, NEW b \in 0..k-1,
           p * k + a = q * k + b
    PROVE  p = q /\ a = b
<1>1. (p - q) * k = b - a
  OBVIOUS
<1>2. CASE p - q >= 1
  <2>1. (p - q) * k >= k
    BY <1>2
  <2>2. QED
    BY <1>1, <2>1
<1>3. CASE q - p >= 1
  <2>1. (q - p) * k >= k
    BY <1>3
  <2>2. (q - p) * k = a - b
    BY <1>1
  <2>3. QED
    BY <2>1, <2>2
<1>4. QED
  BY <1>1, <1>2, <1>3

LEMMA WordPlace ==
    ASSUME NEW k \in Nat \ {0}, NEW q \in Nat, NEW r \in 0..k-1
    PROVE  (q * k + r) \div k = q /\ (q * k + r) % k = r
<1>1. PICK u \in Nat : u = q * k + r
  OBVIOUS
<1>2. u % k \in 0 .. k-1 /\ u \div k \in Nat /\ u = (u \div k) * k + (u % k)
  BY DivMod
<1>3. (u \div k) * k + (u % k) = q * k + r
  BY <1>1, <1>2
<1>4. u \div k = q /\ u % k = r
  BY <1>2, <1>3, Unique
<1>5. QED
  BY <1>1, <1>4

LEMMA ConcatFacts ==
    ASSUME NEW S, NEW s \in Seq(S), NEW t \in Seq(S)
    PROVE  /\ s \o t \in Seq(S) /\ Len(s \o t) = Len(s) + Len(t) /\ Len(s) \in Nat /\ Len(t) \in Nat
           /\ DOMAIN (s \o t) = 1..Len(s)+Len(t) /\ DOMAIN s = 1..Len(s)
           /\ \A k \in 1..Len(s) : (s \o t)[k] = s[k]
           /\ \A k \in 1..Len(t) : (s \o t)[Len(s)+k] = t[k]
OBVIOUS

LEMMA CarriedFacts ==
    ASSUME NEW p \in Completion
    PROVE  /\ Carried(p) \in Seq(Word) /\ Len(Carried(p)) = p.length /\ p.length \in Nat
           /\ \A k \in 1..p.length :
                Carried(p)[k] = [tag |-> p.tag, word |-> p.offset + k - 1, left |-> p.count - k + 1]
<1>1. p.tag \in Nat /\ p.offset \in Nat /\ p.count \in Nat /\ p.length \in Nat
  BY DEF Completion
<1>2. \A k \in 1..p.length :
        [tag |-> p.tag, word |-> p.offset + k - 1, left |-> p.count - k + 1] \in Word
  BY <1>1 DEF Word
<1>3. QED
  BY <1>1, <1>2 DEF Carried

LEMMA InitWords == Init => WordInv
<1> SUFFICES ASSUME Init PROVE WordInv
  OBVIOUS
<1> DEFINE n == [k \in 0..0 |-> 0]
<1>1. Len(toDevice) = 0 /\ 1..Len(toDevice) = {} /\ 0..Len(toDevice) = {0} /\ n[0] = 0
  BY DEF Init
<1>2. n \in [0..Len(toDevice) -> Nat]
  BY <1>1
<1> HIDE DEF n
<1>3. Sent = 0 /\ ~BusCompletion /\ Len(received) = 0
  BY DEF Init, Sent, BusCompletion, Free, NoRequest
<1>4. CountsWords(n)
  BY <1>1, <1>3 DEF CountsWords
<1>5. received \in Seq(Word) /\ AnswersInOrder
  BY DEF Init, AnswersInOrder
<1>6. QED
  BY <1>2, <1>3, <1>4, <1>5 DEF WordInv

LEMMA WordsSame ==
    ASSUME WordInv, UNCHANGED <<toDevice, received>>, Sent' = Sent,
           BusCompletion' <=> BusCompletion, BusCompletion => bus'.m = bus.m
    PROVE  WordInv'
<1>1. PICK n \in [0..Len(toDevice) -> Nat] : CountsWords(n)
  BY DEF WordInv
<1>2. CountsWords(n)'
  BY <1>1 DEF CountsWords
<1>3. QED
  BY <1>1, <1>2 DEF WordInv, AnswersInOrder

\* A message to the board; a completion begins where the last one ended.
LEMMA WordsAppend ==
    ASSUME AccessInv, WordInv, NEW e \in DeviceMessage, toDevice' = Append(toDevice, e),
           IF e.cmd = "CMD_CMPL_TO_DEVICE" THEN First(e.body) = Sent /\ Sent' = Sent + e.body.length
                                           ELSE Sent' = Sent,
           UNCHANGED <<received, bus>>
    PROVE  WordInv'
<1>1. PICK n \in [0..Len(toDevice) -> Nat] : CountsWords(n)
  BY DEF WordInv
<1>2. toDevice \in Seq(DeviceMessage) /\ Len(toDevice) \in Nat /\ Len(toDevice') = Len(toDevice) + 1
      /\ (\A k \in 1..Len(toDevice) : toDevice'[k] = toDevice[k]) /\ toDevice'[Len(toDevice) + 1] = e
  BY AppendFacts DEF AccessInv, PartsOK
<1>3. Sent \in Nat /\ Sent' \in Nat
  <2>1. Sent \in Nat
    BY <1>1, <1>2 DEF CountsWords
  <2>2. e.cmd = "CMD_CMPL_TO_DEVICE" => e.body.length \in Nat
    BY DEF DeviceMessage, Completion
  <2>3. QED
    BY <2>1, <2>2
<1>4. PICK m \in [0..Len(toDevice)+1 -> Nat] :
        (\A k \in 0..Len(toDevice) : m[k] = n[k]) /\ m[Len(toDevice)+1] = Sent'
  <2> DEFINE m == [k \in 0..Len(toDevice)+1 |-> IF k <= Len(toDevice) THEN n[k] ELSE Sent']
  <2>1. m \in [0..Len(toDevice)+1 -> Nat]
    BY <1>2, <1>3
  <2>2. (\A k \in 0..Len(toDevice) : m[k] = n[k]) /\ m[Len(toDevice)+1] = Sent'
    BY <1>2
  <2>3. QED
    BY <2>1, <2>2
<1>5. CountsWords(m)'
  <2>1. m[0] = Len(received') + (IF BusCompletion' THEN bus'.m.body.length ELSE 0)
    BY <1>1, <1>2, <1>4 DEF CountsWords, BusCompletion
  <2>2. m[Len(toDevice')] = Sent'
    BY <1>2, <1>4
  <2>3. ASSUME NEW k \in 1..Len(toDevice')
        PROVE  IF toDevice'[k].cmd = "CMD_CMPL_TO_DEVICE"
               THEN m[k-1] = First(toDevice'[k].body) /\ m[k] = m[k-1] + toDevice'[k].body.length
               ELSE m[k] = m[k-1]
    <3>1. CASE k \in 1..Len(toDevice)
      <4>1. m[k] = n[k] /\ m[k-1] = n[k-1] /\ toDevice'[k] = toDevice[k]
        BY <1>2, <1>4, <3>1
      <4>2. QED
        BY <1>1, <3>1, <4>1 DEF CountsWords
    <3>2. CASE k = Len(toDevice) + 1
      <4>1. m[k-1] = Sent /\ m[k] = Sent' /\ toDevice'[k] = e
        BY <1>1, <1>2, <1>4, <3>2 DEF CountsWords
      <4>2. QED
        BY <4>1
    <3>3. QED
      BY <1>2, <3>1, <3>2
  <2>4. QED
    BY <2>1, <2>2, <2>3 DEF CountsWords, First
<1>6. BusCompletion' => Len(received') = First(bus.m.body)'
  BY DEF WordInv, BusCompletion, First
<1>7. QED
  BY <1>2, <1>4, <1>5, <1>6 DEF WordInv, AnswersInOrder

\* The bus takes a message.
LEMMA WordsTail ==
    ASSUME AccessInv, WordInv, toDevice # <<>>, toDevice' = Tail(toDevice), UNCHANGED received, Sent' = Sent,
           ~BusCompletion, BusCompletion' <=> Head(toDevice).cmd = "CMD_CMPL_TO_DEVICE",
           BusCompletion' => bus'.m = Head(toDevice)
    PROVE  WordInv'
<1>1. PICK n \in [0..Len(toDevice) -> Nat] : CountsWords(n)
  BY DEF WordInv
<1>2. toDevice \in Seq(DeviceMessage) /\ Len(toDevice) \in Nat \ {0} /\ Len(toDevice') = Len(toDevice) - 1
      /\ (\A k \in 1..Len(toDevice)-1 : toDevice'[k] = toDevice[k+1]) /\ Head(toDevice) = toDevice[1]
  BY TailFacts DEF AccessInv, PartsOK
<1>3. PICK m \in [0..Len(toDevice)-1 -> Nat] : \A k \in 0..Len(toDevice)-1 : m[k] = n[k+1]
  <2> DEFINE m == [k \in 0..Len(toDevice)-1 |-> n[k+1]]
  <2>1. m \in [0..Len(toDevice)-1 -> Nat] /\ \A k \in 0..Len(toDevice)-1 : m[k] = n[k+1]
    BY <1>2
  <2>2. QED
    BY <2>1
<1>4. /\ n[0] = Len(received)
      /\ IF BusCompletion' THEN n[0] = First(Head(toDevice).body) /\ n[1] = n[0] + Head(toDevice).body.length
                           ELSE n[1] = n[0]
  <2>1. 1 \in 1..Len(toDevice) /\ 1-1 = 0 /\ Len(received) \in Nat
    BY <1>2 DEF WordInv
  <2>2. QED
    BY <1>1, <1>2, <2>1 DEF CountsWords
<1>5. CountsWords(m)'
  <2>1. m[0] = Len(received') + (IF BusCompletion' THEN bus'.m.body.length ELSE 0)
    <3>1. m[0] = n[1] /\ Len(received) \in Nat
      BY <1>2, <1>3 DEF WordInv
    <3>2. QED
      BY <1>4, <3>1
  <2>2. m[Len(toDevice')] = Sent'
    BY <1>1, <1>2, <1>3 DEF CountsWords
  <2>3. ASSUME NEW k \in 1..Len(toDevice')
        PROVE  IF toDevice'[k].cmd = "CMD_CMPL_TO_DEVICE"
               THEN m[k-1] = First(toDevice'[k].body) /\ m[k] = m[k-1] + toDevice'[k].body.length
               ELSE m[k] = m[k-1]
    <3>1. m[k] = n[k+1] /\ m[k-1] = n[k] /\ toDevice'[k] = toDevice[k+1]
      BY <1>2, <1>3
    <3>2. k+1 \in 1..Len(toDevice) /\ (k+1)-1 = k
      BY <1>2
    <3>3. IF toDevice[k+1].cmd = "CMD_CMPL_TO_DEVICE"
          THEN n[(k+1)-1] = First(toDevice[k+1].body) /\ n[k+1] = n[(k+1)-1] + toDevice[k+1].body.length
          ELSE n[k+1] = n[(k+1)-1]
      BY <1>1, <3>2 DEF CountsWords
    <3>4. QED
      BY <3>1, <3>2, <3>3
  <2>4. QED
    BY <2>1, <2>2, <2>3 DEF CountsWords, First
<1>6. BusCompletion' => Len(received') = First(bus.m.body)'
  BY <1>4 DEF First
<1>7. QED
  BY <1>2, <1>3, <1>5, <1>6 DEF WordInv, AnswersInOrder

\* The board takes the words of a completion.
LEMMA WordsReceived ==
    ASSUME AccessInv, WordInv, BusCompletion, bus.m.body \in Completion,
           UNCHANGED toDevice, Sent' = Sent, ~BusCompletion', received' = received \o Carried(bus.m.body)
    PROVE  WordInv'
<1>1. PICK n \in [0..Len(toDevice) -> Nat] : CountsWords(n)
  BY DEF WordInv
<1>2. PICK p \in Completion : p = bus.m.body
  OBVIOUS
<1>3. received \in Seq(Word) /\ Len(received) = First(p) /\ received' = received \o Carried(p)
  BY <1>2 DEF WordInv
<1>4. /\ received' \in Seq(Word) /\ Len(received') = Len(received) + p.length
      /\ DOMAIN received = 1..Len(received) /\ Len(received) \in Nat /\ p.length \in Nat
      /\ DOMAIN received' = 1..Len(received)+p.length
      /\ \A k \in 1..Len(received) : received'[k] = received[k]
      /\ \A k \in 1..p.length : received'[Len(received)+k] = Carried(p)[k]
  BY SMTT(30), <1>3, ConcatFacts, CarriedFacts
<1>5. CountsWords(n)'
  <2>1. n[0] = Len(received')
    BY <1>1, <1>2, <1>4 DEF CountsWords
  <2>2. QED
    BY <1>1, <2>1 DEF CountsWords
<1>6. ASSUME NEW k \in 1..p.length
      PROVE  received'[Len(received)+k] =
                [tag |-> (Len(received)+k - 1) \div RequestLength + 1, word |-> (Len(received)+k - 1) % RequestLength,
                 left |-> RequestLength - ((Len(received)+k - 1) % RequestLength)]
  <2>0. p.tag - 1 \in Nat /\ p.offset + k - 1 \in 0..RequestLength-1
    <3>1. /\ p.tag \in Nat \ {0} /\ p.offset \in Nat /\ p.length \in Nat
          /\ p.offset + p.length <= RequestLength
      BY <1>4 DEF Completion
    <3>2. QED
      BY <3>1
  <2>1. PICK q \in Nat, r \in 0..RequestLength-1 : q = p.tag - 1 /\ r = p.offset + k - 1
    BY <2>0
  <2>2. /\ p.tag \in Nat \ {0} /\ p.offset \in Nat /\ p.count = RequestLength - p.offset
        /\ p.tag = q + 1
    BY <2>1 DEF Completion
  <2>3. Len(received) + k - 1 = q * RequestLength + r
    <3>1. PICK x \in Int : x = q * RequestLength
      OBVIOUS
    <3>2. (q + 1) * RequestLength = x + RequestLength
      BY <3>1
    <3>3. Len(received) = p.tag * RequestLength - p.count
      BY <1>3 DEF First
    <3>a. Len(received) = (x + RequestLength) - (RequestLength - p.offset)
      BY <2>2, <3>2, <3>3
    <3>4. Len(received) = x + p.offset
      BY <2>2, <3>a
    <3>5. Len(received) + k - 1 = x + r
      BY <2>1, <2>2, <3>4
    <3>6. QED
      BY <3>1, <3>5
  <2>4. (Len(received)+k - 1) \div RequestLength = q /\ (Len(received)+k - 1) % RequestLength = r
    BY <2>3, WordPlace
  <2>5. received'[Len(received)+k] = [tag |-> p.tag, word |-> p.offset + k - 1, left |-> p.count - k + 1]
    BY <1>4, CarriedFacts
  <2>6. p.tag = q + 1 /\ p.offset + k - 1 = r /\ p.count - k + 1 = RequestLength - r
    BY <2>1, <2>2
  <2>7. QED
    BY <2>4, <2>5, <2>6
<1>7. AnswersInOrder'
  <2>1. ASSUME NEW k \in 1..Len(received)+p.length
        PROVE  received'[k] = [tag |-> (k - 1) \div RequestLength + 1, word |-> (k - 1) % RequestLength,
                               left |-> RequestLength - ((k - 1) % RequestLength)]
    <3>1. CASE k \in 1..Len(received)
      BY <1>4, <3>1 DEF WordInv, AnswersInOrder
    <3>2. CASE k \notin 1..Len(received)
      <4>1. PICK j \in 1..p.length : k = Len(received) + j
        <5>1. k - Len(received) \in 1..p.length /\ k = Len(received) + (k - Len(received))
          BY <1>4, <3>2
        <5>2. QED
          BY <5>1
      <4>2. received'[Len(received)+j] =
                [tag |-> (Len(received)+j - 1) \div RequestLength + 1,
                 word |-> (Len(received)+j - 1) % RequestLength,
                 left |-> RequestLength - ((Len(received)+j - 1) % RequestLength)]
        BY <1>6
      <4>3. QED
        BY <4>1, <4>2
    <3>3. QED
      BY <3>1, <3>2
  <2>2. QED
    BY <1>4, <2>1 DEF AnswersInOrder
<1>8. QED
  BY <1>1, <1>4, <1>5, <1>7 DEF WordInv

-----------------------------------------------------------------------------
(* Every step keeps the invariant.                                          *)

LEMMA SentSame == ASSUME UNCHANGED request PROVE Sent' = Sent
BY DEF Sent, PacketLength

LEMMA BusSame == ASSUME UNCHANGED bus PROVE (BusCompletion' <=> BusCompletion) /\ bus'.m = bus.m
BY DEF BusCompletion

LEMMA ThreadKeeps ==
    ASSUME BarInv, NEW t \in Thread, Invoke(t) \/ Send(t) \/ Return(t)
    PROVE  BarInv'
<1> USE DEF BarInv
<1>1. AccessInv'
  BY InvokeAccess, SendAccess, ReturnAccess
<1>2. /\ UNCHANGED <<toHost, memory, readData, stored, posted, collecting, request, pipe, asked, bus, received>>
      /\ UNCHANGED result \/ Return(t)
  BY DEF Invoke, Send, Return, monitorVars, simVars, boardVars
<1>3. WriteInv'
  <2>1. readData'.posted <= memory
    BY <1>2 DEF WriteInv
  <2>2. QED
    BY <1>1, <1>2, <2>1, WritesKept
<1>4. RequestInv'
  BY <1>2, RequestSame
<1>5. WordInv'
  <2>1. CASE UNCHANGED toDevice
    BY <1>2, <2>1, SentSame, BusSame, WordsSame
  <2>2. CASE Send(t)
    <3>1. PICK e \in DeviceMessage : e.cmd = "ACCESS" /\ toDevice' = Append(toDevice, e)
      <4>1. call[t].c \in Accesses
        BY <2>2 DEF Send, AccessInv, PartsOK, CallOK, Idle
      <4>2. Message("ACCESS", [c |-> call[t].c, from |-> t]) \in DeviceMessage
        BY <4>1 DEF Message, DeviceMessage
      <4>3. QED
        BY <2>2, <4>2 DEF Send, Message
    <3>2. QED
      BY <1>2, <3>1, SentSame, WordsAppend
  <2>3. QED
    BY <2>1, <2>2 DEF Invoke, Return
<1>6. QED
  BY <1>1, <1>3, <1>4, <1>5

LEMMA MonitorKeeps == ASSUME BarInv, sockMonitor PROVE BarInv'
<1> USE DEF BarInv
<1>1. AccessInv'
  BY CompleteAccess, AcknowledgeAccess, DmaAccess DEF sockMonitor
<1>2. UNCHANGED <<toDevice, result, posted, collecting, request, asked, bus, received>>
  BY DEF sockMonitor, doCompleteToHost, doAcknowledge, doWriteToHost, doReadFromHost, threadVars,
         simVars, boardVars
<1>3. WordInv'
  BY <1>2, SentSame, BusSame, WordsSame
<1>4. CASE toHost # <<>> /\ Arrived("CMD_CMPL_TO_HOST") /\ readData' = Body /\ UNCHANGED <<toHost, memory, pipe>>
  BY <1>1, <1>2, <1>3, <1>4, WritesStored, RequestSame DEF Arrived, Body
<1>5. CASE /\ toHost # <<>> /\ toHost' = Tail(toHost) /\ UNCHANGED readData
           /\ memory' = memory + (IF Head(toHost).cmd = "CMD_WRITE_TO_HOST" THEN 1 ELSE 0)
           /\ \/ Head(toHost).cmd # "CMD_READ_FROM_HOST" /\ UNCHANGED pipe
              \/ Head(toHost).cmd = "CMD_READ_FROM_HOST" /\ doReadFromHost
  BY <1>1, <1>2, <1>3, <1>5, WritesTail, RequestTail
<1>6. memory \in Nat
  BY DEF AccessInv, PartsOK
<1>7. CASE doCompleteToHost
  <2>1. Arrived("CMD_CMPL_TO_HOST") /\ toHost # <<>> /\ UNCHANGED <<memory, pipe>>
    BY <1>7 DEF doCompleteToHost, Arrived
  <2>2. (readData' = Body /\ UNCHANGED toHost) \/ (toHost' = Tail(toHost) /\ UNCHANGED readData)
    BY <1>7 DEF doCompleteToHost, Consume
  <2>3. QED
    BY <1>4, <1>5, <1>6, <2>1, <2>2 DEF Arrived
<1>8. ASSUME NEW cmd \in {"CMD_ACK_CMPL", "CMD_ACK_WRITE", "CMD_ACK_TIME"}, NEW f, doAcknowledge(cmd, f)
      PROVE  BarInv'
  BY <1>5, <1>6, <1>8 DEF doAcknowledge, Arrived, Consume
<1>9. CASE doWriteToHost
  BY <1>5, <1>6, <1>9 DEF doWriteToHost, Arrived, Consume
<1>10. CASE doReadFromHost
  BY <1>5, <1>6, <1>10 DEF doReadFromHost, Arrived, Consume
<1>11. QED
  BY <1>7, <1>8, <1>9, <1>10 DEF sockMonitor

LEMMA HandlerKeeps == ASSUME BarInv, cmplHandler PROVE BarInv'
<1> USE DEF BarInv
<1>1. AccessInv'
  BY QuietAccess, SendCompletionAccess DEF cmplHandler
<1>2. UNCHANGED <<toHost, result, memory, readData, posted, collecting, bus, received>>
  BY DEF cmplHandler, NextRequest, SendCompletion, CompletionAcknowledged, threadVars, simVars, boardVars
<1>3. WriteInv'
  BY <1>1, <1>2, WritesSame
<1>4. RequestInv'
  BY NextRequestKeeps, SendCompletionKeeps, AcknowledgedKeeps DEF cmplHandler
<1>5. WordInv'
  <2>1. CASE NextRequest \/ CompletionAcknowledged
    <3>1. UNCHANGED toDevice /\ Sent' = Sent
      BY <2>1, NextRequestKeeps, AcknowledgedKeeps DEF NextRequest, CompletionAcknowledged
    <3>2. QED
      BY <1>2, <3>1, BusSame, WordsSame
  <2>2. CASE SendCompletion
    <3>1. PICK p \in Completion :
            /\ p = [tag |-> request.tag, count |-> request.left, offset |-> request.offset,
                    length |-> PacketLength]
            /\ toDevice' = Append(toDevice, Message("CMD_CMPL_TO_DEVICE", p))
      BY <2>2, PacketFits DEF SendCompletion
    <3>2. PICK e \in DeviceMessage : /\ e.cmd = "CMD_CMPL_TO_DEVICE" /\ e.body = p
                                     /\ toDevice' = Append(toDevice, e)
      <4>1. Message("CMD_CMPL_TO_DEVICE", p) \in DeviceMessage
        BY DEF Message, DeviceMessage
      <4>2. QED
        BY <3>1, <4>1 DEF Message
    <3>3. Sent = request.tag * RequestLength - request.left
      <4>1. ~request.waiting /\ request.tag * RequestLength - request.left \in Int
        BY <2>2 DEF SendCompletion, RequestInv, PipeInv, Request
      <4>2. QED
        BY <4>1 DEF Sent
    <3>4. First(e.body) = Sent /\ Sent' = Sent + e.body.length
      BY <2>2, <3>1, <3>2, <3>3, SendCompletionKeeps DEF First
    <3>5. QED
      BY <1>2, <3>2, <3>4, WordsAppend
  <2>3. QED
    BY <2>1, <2>2 DEF cmplHandler
<1>6. QED
  BY <1>1, <1>3, <1>4, <1>5

LEMMA ReaderKeeps == ASSUME BarInv, sockreader PROVE BarInv'
<1> USE DEF BarInv
<1>1. AccessInv'
  BY TimeAccess, BusAccess DEF sockreader
<1>2. /\ UNCHANGED <<result, memory, readData, posted, collecting, request, pipe, asked, received>>
      /\ toDevice # <<>> /\ toDevice' = Tail(toDevice) /\ bus = Free /\ ~BusCompletion
  BY DEF sockreader, threadVars, monitorVars, boardVars, BusCompletion, Free
<1>3. CASE Head(toDevice).cmd = "ACCESS" /\ Head(toDevice).body.c.op = "gettime"
  <2>1. PICK e \in HostMessage : e.cmd = "CMD_ACK_TIME" /\ toHost' = Append(toHost, e)
    <3>1. Answer("CMD_ACK_TIME", Nothing) \in HostMessage
      BY DEF Answer, HostMessage
    <3>2. QED
      BY <1>3, <3>1 DEF sockreader, Answer
  <2>2. UNCHANGED bus
    BY <1>3 DEF sockreader
  <2>3. posted \in Int /\ asked \in Int
    <3>1. PICK n \in [0..Len(toHost) -> Nat] : n[Len(toHost)] = asked
      BY DEF RequestInv, CountsReads
    <3>2. QED
      BY <3>1 DEF AccessInv, PartsOK
  <2>4. WriteInv'
    BY <1>1, <1>2, <2>1, <2>3, WritesAppend
  <2>5. RequestInv'
    BY <1>2, <2>1, <2>3, RequestAppend
  <2>6. WordInv'
    BY <1>2, <1>3, <2>2, SentSame, BusSame, WordsTail
  <2>7. QED
    BY <1>1, <2>4, <2>5, <2>6
<1>4. CASE ~(Head(toDevice).cmd = "ACCESS" /\ Head(toDevice).body.c.op = "gettime")
  <2>1. PICK m \in DeviceMessage : \E op :
                /\ m = Head(toDevice) /\ op = IF m.cmd = "ACCESS" THEN m.body.c.op ELSE "completion"
                /\ op # "gettime" /\ bus' = [at |-> "enabled", m |-> m, op |-> op]
    BY <1>4, TakenByBus
  <2>2. UNCHANGED toHost
    BY <1>4, TakenByBus
  <2>3. WriteInv' /\ RequestInv'
    BY <1>1, <1>2, <2>2, WritesSame, RequestSame
  <2>4. (BusCompletion' <=> m.cmd = "CMD_CMPL_TO_DEVICE") /\ bus'.m = m
    <3>1. m.cmd \in {"ACCESS", "CMD_CMPL_TO_DEVICE"} /\ (m.cmd = "ACCESS" => m.body.c.op # "completion")
      BY AccessParts DEF DeviceMessage
    <3>2. QED
      BY <2>1, <3>1 DEF BusCompletion
  <2>5. WordInv'
    BY <1>2, <2>1, <2>4, SentSame, WordsTail
  <2>6. QED
    BY <1>1, <2>3, <2>5
<1>5. QED
  BY <1>3, <1>4

LEMMA BusKeeps == ASSUME BarInv, BoardServes \/ done_monitor PROVE BarInv'
<1> USE DEF BarInv
<1>1. AccessInv'
  BY BoardAccess, DoneAccess
<1>2. UNCHANGED <<toDevice, toHost, result, memory, readData, posted, collecting, request, pipe, asked>>
  BY DEF BoardServes, done_monitor, threadVars, monitorVars, boardVars
<1>3. WriteInv' /\ RequestInv'
  BY <1>1, <1>2, WritesSame, RequestSame
<1>4. WordInv'
  <2>1. CASE BoardServes /\ bus.op = "completion"
    <3>1. BusCompletion /\ ~BusCompletion' /\ received' = received \o Carried(bus.m.body)
      BY <2>1 DEF BoardServes, BusCompletion
    <3>2. bus.m.body \in Completion
      <4>1. bus.m \in DeviceMessage /\ (bus.m.cmd = "ACCESS" => bus.m.body.c.op = "completion")
        BY <2>1 DEF BoardServes, AccessInv, PartsOK, BusOK, Free
      <4>2. bus.m.cmd # "ACCESS"
        BY <4>1, AccessParts DEF DeviceMessage
      <4>3. QED
        BY <4>1, <4>2 DEF DeviceMessage
    <3>3. QED
      BY <1>2, <3>1, <3>2, SentSame, WordsReceived
  <2>2. CASE BoardServes /\ bus.op # "completion"
    <3>1. ~BusCompletion /\ ~BusCompletion' /\ UNCHANGED received
      BY <2>2 DEF BoardServes, BusCompletion
    <3>2. QED
      BY <1>2, <3>1, SentSame, WordsSame
  <2>3. CASE done_monitor
    <3>1. ~BusCompletion /\ ~BusCompletion' /\ UNCHANGED received
      BY <2>3 DEF done_monitor, Leaves, BusCompletion, Free, boardVars
    <3>2. QED
      BY <1>2, <3>1, SentSame, WordsSame
  <2>4. QED
    BY <2>1, <2>2, <2>3
<1>5. QED
  BY <1>1, <1>3, <1>4

LEMMA TrnKeeps == ASSUME BarInv, TellDone \/ WriteBegins \/ WriteEnds \/ ReadRequest PROVE BarInv'
<1> USE DEF BarInv
<1>1. AccessInv'
  BY TellAccess, WriteBeginsAccess, PacketAccess
<1>2. UNCHANGED <<toDevice, result, memory, readData, request, pipe, received>>
  BY DEF TellDone, WriteBegins, WriteEnds, ReadRequest, threadVars, monitorVars, boardVars
<1>3. posted \in Int /\ asked \in Int
  <2>1. PICK n \in [0..Len(toHost) -> Nat] : n[Len(toHost)] = asked
    BY DEF RequestInv, CountsReads
  <2>2. QED
    BY <2>1 DEF AccessInv, PartsOK
<1>4. CASE WriteBegins
  <2>1. /\ UNCHANGED <<toHost, bus, asked>>
        /\ posted' - (IF collecting' THEN 1 ELSE 0) = posted - (IF collecting THEN 1 ELSE 0)
    BY <1>3, <1>4 DEF WriteBegins, BusIdle
  <2>2. readData'.posted <= memory
    BY <1>2 DEF WriteInv
  <2>3. WriteInv'
    BY <1>1, <1>2, <2>1, <2>2, WritesKept
  <2>4. QED
    BY <1>1, <1>2, <2>1, <2>3, RequestSame, SentSame, BusSame, WordsSame
<1>5. CASE TellDone
  <2>1. PICK e \in HostMessage :
            /\ toHost' = Append(toHost, e)
            /\ e.cmd = CASE Flag(bus.op) = "read" -> "CMD_CMPL_TO_HOST"
                          [] bus.op = "completion" -> "CMD_ACK_CMPL"
                          [] OTHER -> "CMD_ACK_WRITE"
            /\ Flag(bus.op) = "read" => e.body = [found |-> bus.found, posted |-> posted]
    BY <1>5, ToldMessage
  <2>2. UNCHANGED <<posted, collecting, asked>> /\ (Flag(bus.op) = "read" => ~collecting)
    BY <1>5 DEF TellDone, boardVars, BusIdle
  <2>3. e.cmd \notin {"CMD_WRITE_TO_HOST", "CMD_READ_FROM_HOST"}
    BY <2>1
  <2>4. e.cmd = "CMD_CMPL_TO_HOST" => Flag(bus.op) = "read"
    BY <2>1
  <2>5. e.cmd = "CMD_CMPL_TO_HOST" => ~collecting /\ e.body.posted = posted
    BY <2>1, <2>2, <2>4
  <2>6. WriteInv'
    BY <1>1, <1>2, <1>3, <2>1, <2>2, <2>3, <2>5, WritesAppend
  <2>7. RequestInv'
    BY <1>2, <1>3, <2>1, <2>2, <2>3, RequestAppend
  <2>8. WordInv'
    <3>1. ~BusCompletion /\ ~BusCompletion'
      <4>1. bus.at = "done" /\ (bus' = Free \/ bus' = [bus EXCEPT !.told = TRUE]) /\ BusOK
        BY <1>5 DEF TellDone, AccessInv, PartsOK
      <4>2. bus'.at # "enabled"
        BY <4>1 DEF Free, BusOK
      <4>3. QED
        BY <4>1, <4>2 DEF BusCompletion
    <3>2. QED
      BY <1>2, <3>1, SentSame, WordsSame
  <2>9. QED
    BY <1>1, <2>6, <2>7, <2>8
<1>6. CASE WriteEnds
  <2>1. PICK e \in HostMessage : e.cmd = "CMD_WRITE_TO_HOST" /\ toHost' = Append(toHost, e)
    <3>1. Answer("CMD_WRITE_TO_HOST", Nothing) \in HostMessage
      BY DEF Answer, HostMessage
    <3>2. QED
      BY <1>6, <3>1 DEF WriteEnds, Answer
  <2>2. collecting /\ collecting' = FALSE /\ UNCHANGED <<posted, asked, bus>>
    BY <1>6 DEF WriteEnds, boardVars
  <2>3. QED
    BY <1>1, <1>2, <1>3, <2>1, <2>2, WritesAppend, RequestAppend, SentSame, BusSame, WordsSame
<1>7. CASE ReadRequest
  <2>1. PICK e \in HostMessage : /\ e.cmd = "CMD_READ_FROM_HOST" /\ e.body = asked + 1
                                 /\ toHost' = Append(toHost, e)
    <3>1. asked + 1 \in Nat
      <4>1. PICK n \in [0..Len(toHost) -> Nat] : n[Len(toHost)] = asked
        BY DEF RequestInv, CountsReads
      <4>2. Len(toHost) \in Nat
        BY AppendFacts DEF AccessInv, PartsOK
      <4>3. QED
        BY <4>1, <4>2
    <3>2. Answer("CMD_READ_FROM_HOST", asked + 1) \in HostMessage
      BY <3>1 DEF Answer, HostMessage
    <3>3. QED
      BY <1>7, <3>2 DEF ReadRequest, Answer
  <2>2. asked' = asked + 1 /\ UNCHANGED <<posted, collecting, bus>>
    BY <1>7 DEF ReadRequest, simVars
  <2>3. QED
    BY <1>1, <1>2, <1>3, <2>1, <2>2, WritesAppend, RequestAppend, SentSame, BusSame, WordsSame
<1>8. QED
  BY <1>4, <1>5, <1>6, <1>7

LEMMA StutterKeeps == ASSUME BarInv, UNCHANGED vars PROVE BarInv'
<1> USE DEF BarInv
<1>1. UNCHANGED <<call, result, mtx, msgid, done, readData, stored, pipe, request, memory, toDevice, toHost,
                  busy, bus, collecting, reg, posted, asked, received>>
  BY DEF vars, threadVars, monitorVars, simVars, boardVars
<1>2. AccessInv'
  <2>1. PartsOK'
    BY <1>1 DEF AccessInv, PartsOK, CallOK, BusOK
  <2>2. \A f \in Kinds : OncePerKind(f)'
    BY <1>1, Same DEF AccessInv, OncePerKind
  <2>3. OwnRequests' /\ HalfStored'
    BY <1>1, OwnSame DEF AccessInv, HalfStored
  <2>4. QED
    BY <2>1, <2>2, <2>3 DEF AccessInv
<1>3. QED
  BY <1>1, <1>2, WritesSame, RequestSame, SentSame, BusSame, WordsSame

LEMMA BarKeeps == BarInv /\ [Next]_vars => BarInv'
<1> SUFFICES ASSUME BarInv, [Next]_vars PROVE BarInv'
  OBVIOUS
<1>1. CASE Next
  BY <1>1, ThreadKeeps, MonitorKeeps, HandlerKeeps, ReaderKeeps, BusKeeps, TrnKeeps DEF Next, trn_monitor
<1>2. CASE UNCHANGED vars
  BY <1>2, StutterKeeps
<1>3. QED
  BY <1>1, <1>2

\* The invariant of the program, the socket and the simulator together: an
\* access is in one place, memory writes and DMA reads keep their count.
THEOREM BarInvariant == FairSpec => []BarInv
<1>1. Init => BarInv
  BY InitAccess, InitWrites, InitRequest, InitWords DEF BarInv
<1>2. QED
  BY <1>1, BarKeeps, PTL DEF FairSpec, Spec

\* What the invariant says of the run's property.
LEMMA BarGives == BarInv => BarSimInv
<1> SUFFICES ASSUME BarInv PROVE BarSimInv
  OBVIOUS
<1> USE DEF BarInv
<1>1. memory <= posted
  <2>1. PICK n \in [0..Len(toHost) -> Nat] : CountsWrites(n)
    BY DEF WriteInv
  <2>2. Len(toHost) \in Nat /\ posted \in Nat /\ memory \in Nat /\ collecting \in BOOLEAN
    BY AppendFacts DEF AccessInv, PartsOK
  <2>3. n[0] <= n[Len(toHost)]
    BY <2>1, <2>2 DEF CountsWrites, Counts
  <2>4. QED
    BY <2>1, <2>2, <2>3 DEF CountsWrites
<1>2. Len(pipe) <= asked
  <2>1. PICK n \in [0..Len(toHost) -> Nat] : CountsReads(n)
    BY DEF RequestInv
  <2>2. Len(toHost) \in Nat /\ Len(pipe) \in Nat /\ request.tag \in Nat
    BY AppendFacts DEF AccessInv, PartsOK, RequestInv, PipeInv, Request
  <2>3. n[0] <= n[Len(toHost)]
    BY <2>1, <2>2 DEF CountsReads, Counts
  <2>4. QED
    BY <2>1, <2>2, <2>3 DEF CountsReads
<1>3. \A p \in Packets : p.length \in 1..MaxPacket /\ p.offset + p.length <= RequestLength
  <2>1. ASSUME NEW k \in DOMAIN toDevice, toDevice[k].cmd = "CMD_CMPL_TO_DEVICE"
        PROVE  toDevice[k].body \in Completion
    BY <2>1 DEF AccessInv, PartsOK, DeviceMessage
  <2>2. QED
    BY <2>1 DEF Packets, Completion
<1>4. \A t \in Thread : call[t].at \in {"idle", "lock", "wait"}
  BY DEF AccessInv, PartsOK, CallOK, Idle
<1>5. request.left \in 0..RequestLength /\ request.offset \in 0..RequestLength
  BY DEF RequestInv, PipeInv, Request
<1>6. TypeOK
  BY <1>1, <1>2, <1>3, <1>4, <1>5 DEF TypeOK, AccessInv, PartsOK, Contents
<1>7. QED
  BY <1>6 DEF BarSimInv, WriteInv, WordInv

\* The run's invariant, for any threads, packet size and length of requests: the
\* parts are well-formed, a register that was read is no newer than host memory,
\* and every DMA read is answered in order (bar_impl_sim.cpp:442, 813-905).
THEOREM BarCorrect == FairSpec => []BarSimInv
BY BarInvariant, BarGives, PTL

-----------------------------------------------------------------------------
(* The register file: what a caller sees of an access.                      *)

LEMMA SameAccesses ==
    /\ Abstract!Nothing = Nothing /\ Abstract!Idle = Idle
    /\ \A op : Abstract!Calls(op) = Calls(op)
    /\ \A c : Abstract!IsWrite(c) <=> IsWrite(c)
    /\ \A file, c : Abstract!Found(file, c) = Found(file, c)
    /\ \A file, c : Abstract!Written(file, c) = Written(file, c)
<1>1. Abstract!Nothing = Nothing /\ Abstract!Idle = Idle /\ Abstract!Halves = Halves
  BY DEF Abstract!Nothing, Nothing, Abstract!Idle, Idle, Abstract!Halves, Halves
<1>2. ASSUME NEW op PROVE Abstract!Calls(op) = Calls(op)
  BY <1>1 DEF Abstract!Calls, Calls, Abstract!AnyOf, AnyOf
<1>3. ASSUME NEW c PROVE (Abstract!IsWrite(c) <=> IsWrite(c)) /\ Abstract!Cells(c) = Cells(c)
  BY <1>1 DEF Abstract!IsWrite, IsWrite, Abstract!Cells, Cells
<1>4. ASSUME NEW file, NEW c PROVE Abstract!Found(file, c) = Found(file, c)
  BY <1>1 DEF Abstract!Found, Found
<1>5. ASSUME NEW file, NEW c PROVE Abstract!Written(file, c) = Written(file, c)
  BY <1>3 DEF Abstract!Written, Written
<1>6. QED
  BY <1>1, <1>2, <1>3, <1>4, <1>5

OnBusRead == bus.at = "done" /\ Flag(bus.op) = "read" /\ ~bus.told

\* What was found for a read is in one place.
FoundIs ==
    /\ OnBusRead => FoundForRead = bus.found
    /\ \A k \in DOMAIN toHost :
        ~OnBusRead /\ toHost[k].cmd = "CMD_CMPL_TO_HOST" => FoundForRead = toHost[k].body.found
    /\ ~OnBusRead /\ ~InHost("read") => FoundForRead = readData.found

LEMMA FoundWhere == AccessInv => FoundIs
<1> SUFFICES ASSUME AccessInv PROVE FoundIs
  OBVIOUS
<1>1. OneAnswer("read")
  BY DEF AccessInv, OncePerKind, Kinds
<1>2. OnBusRead => FoundForRead = bus.found
  BY DEF OnBusRead, FoundForRead
<1>3. ASSUME NEW k \in DOMAIN toHost, ~OnBusRead, toHost[k].cmd = "CMD_CMPL_TO_HOST"
      PROVE  FoundForRead = toHost[k].body.found
  <2>1. {j \in DOMAIN toHost : toHost[j].cmd = "CMD_CMPL_TO_HOST"} = {k}
    BY <1>1, <1>3 DEF OneAnswer, Answers
  <2>2. (CHOOSE j \in {k} : TRUE) = k
    OBVIOUS
  <2>3. QED
    BY <1>3, <2>1, <2>2 DEF OnBusRead, FoundForRead
<1>4. ASSUME ~OnBusRead, ~InHost("read") PROVE FoundForRead = readData.found
  <2>1. {j \in DOMAIN toHost : toHost[j].cmd = "CMD_CMPL_TO_HOST"} = {}
    BY <1>4 DEF InHost, Answers
  <2>2. QED
    BY <1>4, <2>1 DEF OnBusRead, FoundForRead
<1>5. QED
  BY <1>2, <1>3, <1>4 DEF FoundIs

\* A message to the program that answers no read, coming or going.
LEMMA FoundAppend ==
    ASSUME AccessInv, AccessInv', NEW e \in HostMessage, toHost' = Append(toHost, e),
           e.cmd # "CMD_CMPL_TO_HOST", UNCHANGED readData, OnBusRead' <=> OnBusRead,
           OnBusRead => bus'.found = bus.found
    PROVE  FoundForRead' = FoundForRead
<1>1. FoundIs /\ FoundIs'
  BY FoundWhere, PTL
<1>2. toHost \in Seq(HostMessage)
  BY DEF AccessInv, PartsOK
<1>3. CASE OnBusRead
  BY <1>1, <1>3 DEF FoundIs
<1>4. CASE ~OnBusRead /\ InHost("read")
  <2>1. PICK k \in DOMAIN toHost : toHost[k].cmd = "CMD_CMPL_TO_HOST"
    BY <1>4 DEF InHost, Answers
  <2>2. k \in DOMAIN toHost' /\ toHost'[k] = toHost[k]
    BY <1>2, AppendFacts
  <2>3. QED
    BY <1>1, <1>4, <2>1, <2>2 DEF FoundIs
<1>5. CASE ~OnBusRead /\ ~InHost("read")
  <2>1. ~InHost("read")'
    <3>1. ~Answers(e, "read") /\ OneAnswer("read")
      BY DEF Answers, AccessInv, OncePerKind, Kinds
    <3>2. QED
      BY <1>2, <1>5, <3>1, HostAppend
  <2>2. QED
    BY <1>1, <1>5, <2>1 DEF FoundIs
<1>6. QED
  BY <1>3, <1>4, <1>5

LEMMA FoundTail ==
    ASSUME AccessInv, AccessInv', toHost # <<>>, toHost' = Tail(toHost),
           Head(toHost).cmd # "CMD_CMPL_TO_HOST", UNCHANGED <<readData, bus>>
    PROVE  FoundForRead' = FoundForRead
<1>1. FoundIs /\ FoundIs'
  BY FoundWhere, PTL
<1>2. toHost \in Seq(HostMessage) /\ (OnBusRead' <=> OnBusRead)
  BY DEF AccessInv, PartsOK, OnBusRead
<1>3. CASE OnBusRead
  BY <1>1, <1>2, <1>3 DEF FoundIs
<1>4. CASE ~OnBusRead /\ InHost("read")
  <2>1. PICK k \in DOMAIN toHost : toHost[k].cmd = "CMD_CMPL_TO_HOST"
    BY <1>4 DEF InHost, Answers
  <2>2. /\ Len(toHost) \in Nat \ {0} /\ DOMAIN toHost = 1..Len(toHost) /\ DOMAIN toHost' = 1..Len(toHost)-1
        /\ Head(toHost) = toHost[1] /\ \A j \in 1..Len(toHost)-1 : toHost'[j] = toHost[j+1]
    BY <1>2, TailFacts
  <2>3. k # 1 /\ k-1 \in DOMAIN toHost' /\ (k-1)+1 = k
    BY <2>1, <2>2
  <2>4. toHost'[k-1] = toHost[k]
    BY <2>2, <2>3
  <2>5. QED
    BY <1>1, <1>2, <1>4, <2>1, <2>3, <2>4 DEF FoundIs
<1>5. CASE ~OnBusRead /\ ~InHost("read")
  <2>1. ~InHost("read")'
    <3>1. OneAnswer("read")
      BY DEF AccessInv, OncePerKind, Kinds
    <3>2. QED
      BY <1>2, <1>5, <3>1, HostTail
  <2>2. QED
    BY <1>1, <1>2, <1>5, <2>1 DEF FoundIs
<1>6. QED
  BY <1>3, <1>4, <1>5

LEMMA FoundSame ==
    ASSUME UNCHANGED <<toHost, bus, readData>>
    PROVE  FoundForRead' = FoundForRead
BY DEF FoundForRead

-----------------------------------------------------------------------------
(* Steps that no caller sees.                                               *)

Unseen == UNCHANGED <<reg, CallsSeen, ResultsSeen>>

\* Where the request of t is.
PendingInDevice(t) == \E k \in DOMAIN toDevice : toDevice[k].cmd = "ACCESS" /\ toDevice[k].body.from = t
PendingOnBus(t)    == bus.at = "enabled" /\ bus.m.cmd = "ACCESS" /\ bus.m.body.from = t

LEMMA PendingIs == ASSUME NEW t PROVE Pending(t) <=> call[t].at = "lock" \/ PendingInDevice(t) \/ PendingOnBus(t)
BY DEF Pending, PendingInDevice, PendingOnBus

LEMMA PendingIsNext == ASSUME NEW t
      PROVE Pending(t)' <=> call'[t].at = "lock" \/ PendingInDevice(t)' \/ PendingOnBus(t)'
BY DEF Pending, PendingInDevice, PendingOnBus

LEMMA NothingSeen ==
    ASSUME UNCHANGED <<call, reg, result>>, FoundForRead' = FoundForRead,
           \A t \in Thread : Pending(t)' <=> Pending(t)
    PROVE  Unseen
<1>1. \A t \in Thread : Seen(t)' = Seen(t)
  BY DEF Seen
<1>2. CallsSeen' = CallsSeen
  BY <1>1 DEF CallsSeen
<1>3. ResultsSeen' = ResultsSeen
  BY DEF ResultsSeen
<1>4. QED
  BY <1>2, <1>3 DEF Unseen

LEMMA NothingPending ==
    ASSUME UNCHANGED <<call, toDevice, bus>>
    PROVE  \A t \in Thread : Pending(t)' <=> Pending(t)
BY DEF Pending

LEMMA SendUnseen == ASSUME BarInv, NEW t \in Thread, Send(t) PROVE Unseen
<1>1. UNCHANGED <<result, toHost, bus, readData, reg>> /\ call[t].at = "lock"
  BY DEF Send, monitorVars, simVars, boardVars
<1>2. toDevice \in Seq(DeviceMessage) /\ CallOK(t) /\ call = [u \in Thread |-> call[u]]
  BY DEF BarInv, AccessInv, PartsOK
<1>3. PICK c \in Accesses : call[t] = [at |-> "lock", c |-> c]
  BY <1>1, <1>2 DEF CallOK, Idle
<1>4. call' = [u \in Thread |-> IF u = t THEN [call[t] EXCEPT !.at = "wait"] ELSE call[u]]
  BY <1>2 DEF Send
<1>5. [call[t] EXCEPT !.at = "wait"] = [at |-> "wait", c |-> c]
  BY <1>3
<1>6. call'[t] = [at |-> "wait", c |-> c] /\ \A u \in Thread \ {t} : call'[u] = call[u]
  BY <1>4, <1>5
<1>7. PICK m \in DeviceMessage : /\ m.cmd = "ACCESS" /\ m.body.from = t
                                 /\ toDevice' = Append(toDevice, m)
  <2>1. Message("ACCESS", [c |-> c, from |-> t]) \in DeviceMessage
    BY DEF Message, DeviceMessage
  <2>2. toDevice' = Append(toDevice, Message("ACCESS", [c |-> c, from |-> t]))
    BY <1>3 DEF Send
  <2>3. QED
    BY <2>1, <2>2 DEF Message
<1>8. /\ DOMAIN toDevice' = 1..Len(toDevice)+1 /\ DOMAIN toDevice = 1..Len(toDevice) /\ Len(toDevice) \in Nat
      /\ toDevice'[Len(toDevice)+1] = m /\ \A k \in 1..Len(toDevice) : toDevice'[k] = toDevice[k]
  BY <1>2, <1>7, AppendFacts
<1>9. PendingInDevice(t)' /\ \A u \in Thread \ {t} : PendingInDevice(u)' <=> PendingInDevice(u)
  BY <1>7, <1>8 DEF PendingInDevice
<1>10. \A u \in Thread \ {t} : Pending(u)' <=> Pending(u)
  BY <1>1, <1>6, <1>9 DEF Pending, PendingInDevice
<1>11. Pending(t) /\ Pending(t)'
  BY <1>1, <1>9 DEF Pending, PendingInDevice
<1>12. FoundForRead' = FoundForRead
  BY <1>1, FoundSame
<1>13. Seen(t)' = Seen(t)
  BY <1>3, <1>6, <1>11 DEF Seen, Idle
<1>14. \A u \in Thread \ {t} : Seen(u)' = Seen(u)
  BY <1>6, <1>10, <1>12 DEF Seen
<1>15. CallsSeen' = CallsSeen
  BY <1>13, <1>14 DEF CallsSeen
<1>16. ResultsSeen' = ResultsSeen
  BY <1>1 DEF ResultsSeen
<1>17. QED
  BY <1>1, <1>15, <1>16 DEF Unseen

LEMMA MonitorUnseen == ASSUME BarInv, BarInv', sockMonitor PROVE Unseen
<1> USE DEF BarInv
<1>1. UNCHANGED <<call, result, toDevice, bus, reg>>
  BY DEF sockMonitor, doCompleteToHost, doAcknowledge, doWriteToHost, doReadFromHost, threadVars,
         simVars, boardVars
<1>2. FoundForRead' = FoundForRead
  <2>1. CASE doCompleteToHost
    <3>1. FoundIs /\ FoundIs'
      BY FoundWhere, PTL
    <3>2. /\ toHost # <<>> /\ Head(toHost).cmd = "CMD_CMPL_TO_HOST" /\ 1 \in DOMAIN toHost
          /\ Head(toHost) = toHost[1]
      BY <2>1, TailFacts DEF doCompleteToHost, Arrived, AccessInv, PartsOK
    <3>3. OnBusRead' <=> OnBusRead
      BY <1>1 DEF OnBusRead
    <3>4. ~OnBusRead
      <4>1. InHost("read") /\ OncePerKind("read")
        BY <3>2 DEF InHost, Answers, AccessInv, Kinds
      <4>2. OnBusRead => OnBus("read")
        BY DEF OnBusRead, OnBus, Flag
      <4>3. QED
        BY <4>1, <4>2 DEF OncePerKind
    <3>5. FoundForRead = Head(toHost).body.found
      BY <3>1, <3>2, <3>4 DEF FoundIs
    <3>6. CASE UNCHANGED toHost
      BY <3>1, <3>2, <3>3, <3>4, <3>5, <3>6 DEF FoundIs
    <3>7. CASE stored /\ done' = [done EXCEPT !["read"] = TRUE] /\ UNCHANGED readData
      <4>1. done'["read"] /\ OncePerKind("read")'
        BY <3>7 DEF AccessInv, PartsOK, Flags, Kinds
      <4>2. ~InHost("read")'
        BY <4>1 DEF OncePerKind
      <4>3. FoundForRead' = readData.found
        BY <3>1, <3>3, <3>4, <3>7, <4>2 DEF FoundIs
      <4>4. QED
        BY <3>5, <3>7, <4>3 DEF AccessInv, HalfStored
    <3>8. QED
      BY <2>1, <3>6, <3>7 DEF doCompleteToHost
  <2>2. CASE toHost # <<>> /\ toHost' = Tail(toHost) /\ Head(toHost).cmd # "CMD_CMPL_TO_HOST" /\ UNCHANGED readData
    BY <1>1, <2>2, FoundTail
  <2>3. QED
    BY <2>1, <2>2 DEF sockMonitor, doAcknowledge, doWriteToHost, doReadFromHost, Arrived, Consume
<1>3. QED
  BY <1>1, <1>2, NothingPending, NothingSeen

LEMMA HandlerUnseen == ASSUME BarInv, cmplHandler PROVE Unseen
<1>1. UNCHANGED <<call, result, toHost, bus, readData, reg>>
  BY DEF cmplHandler, NextRequest, SendCompletion, CompletionAcknowledged, threadVars, simVars, boardVars
<1>2. \A t \in Thread : Pending(t)' <=> Pending(t)
  <2>1. CASE UNCHANGED toDevice
    BY <1>1, <2>1, NothingPending
  <2>2. CASE SendCompletion
    <3>1. toDevice \in Seq(DeviceMessage)
      BY DEF BarInv, AccessInv, PartsOK
    <3>2. PICK m \in DeviceMessage : m.cmd # "ACCESS" /\ toDevice' = Append(toDevice, m)
      <4>1. PICK p \in Completion : toDevice' = Append(toDevice, Message("CMD_CMPL_TO_DEVICE", p))
        BY <2>2, PacketFits DEF BarInv, SendCompletion
      <4>2. Message("CMD_CMPL_TO_DEVICE", p) \in DeviceMessage
        BY DEF Message, DeviceMessage
      <4>3. QED
        BY <4>1, <4>2 DEF Message
    <3>3. /\ DOMAIN toDevice' = 1..Len(toDevice)+1 /\ DOMAIN toDevice = 1..Len(toDevice) /\ Len(toDevice) \in Nat
          /\ toDevice'[Len(toDevice)+1] = m /\ \A k \in 1..Len(toDevice) : toDevice'[k] = toDevice[k]
      BY <3>1, <3>2, AppendFacts
    <3>4. \A t \in Thread : PendingInDevice(t)' <=> PendingInDevice(t)
      BY <3>2, <3>3 DEF PendingInDevice
    <3>5. QED
      BY <1>1, <3>4 DEF Pending, PendingInDevice
  <2>3. QED
    BY <2>1, <2>2 DEF cmplHandler, NextRequest, CompletionAcknowledged
<1>3. QED
  BY <1>1, <1>2, FoundSame, NothingSeen

LEMMA DoneUnseen == ASSUME BarInv, done_monitor PROVE Unseen
<1>1. /\ UNCHANGED <<call, result, toDevice, toHost, readData, reg>>
      /\ bus.at = "done" /\ bus' = IF bus.told THEN Free ELSE bus
  BY DEF done_monitor, Leaves, threadVars, monitorVars, boardVars
<1>2. \A t \in Thread : Pending(t)' <=> Pending(t)
  BY <1>1 DEF Pending, Free
<1>3. FoundForRead' = FoundForRead
  BY <1>1 DEF FoundForRead, Free
<1>4. QED
  BY <1>1, <1>2, <1>3, NothingSeen

LEMMA TrnUnseen == ASSUME BarInv, BarInv', TellDone \/ WriteBegins \/ WriteEnds \/ ReadRequest PROVE Unseen
<1> USE DEF BarInv
<1>1. UNCHANGED <<call, toDevice, result, readData, reg>>
  BY DEF TellDone, WriteBegins, WriteEnds, ReadRequest, threadVars, monitorVars, boardVars
<1>2. CASE WriteBegins
  <2>1. UNCHANGED <<toHost, bus>>
    BY <1>2 DEF WriteBegins
  <2>2. QED
    BY <1>1, <2>1, FoundSame, NothingPending, NothingSeen
<1>3. CASE WriteEnds \/ ReadRequest
  <2>1. UNCHANGED bus
    BY <1>3 DEF WriteEnds, ReadRequest, simVars
  <2>2. PICK e \in HostMessage : e.cmd # "CMD_CMPL_TO_HOST" /\ toHost' = Append(toHost, e)
    <3>1. asked + 1 \in Nat
      <4>1. PICK n \in [0..Len(toHost) -> Nat] : n[Len(toHost)] = asked
        BY DEF RequestInv, CountsReads
      <4>2. Len(toHost) \in Nat
        BY AppendFacts DEF AccessInv, PartsOK
      <4>3. QED
        BY <4>1, <4>2
    <3>2. /\ Answer("CMD_READ_FROM_HOST", asked + 1) \in HostMessage
          /\ Answer("CMD_WRITE_TO_HOST", Nothing) \in HostMessage
      BY <3>1 DEF Answer, HostMessage
    <3>3. QED
      BY <1>3, <3>2 DEF WriteEnds, ReadRequest, Answer
  <2>3. OnBusRead' <=> OnBusRead
    BY <2>1 DEF OnBusRead
  <2>4. FoundForRead' = FoundForRead
    BY <1>1, <2>1, <2>2, <2>3, FoundAppend
  <2>5. QED
    BY <1>1, <2>1, <2>4, NothingPending, NothingSeen
<1>4. CASE TellDone
  <2>1. PICK e \in HostMessage :
            /\ toHost' = Append(toHost, e)
            /\ e.cmd = CASE Flag(bus.op) = "read" -> "CMD_CMPL_TO_HOST"
                          [] bus.op = "completion" -> "CMD_ACK_CMPL"
                          [] OTHER -> "CMD_ACK_WRITE"
            /\ Flag(bus.op) = "read" => e.body = [found |-> bus.found, posted |-> posted]
    BY <1>4, ToldMessage
  <2>2. /\ bus.at = "done" /\ ~bus.told /\ BusOK
        /\ bus' = IF busy THEN [bus EXCEPT !.told = TRUE] ELSE Free
    BY <1>4 DEF TellDone, AccessInv, PartsOK
  <2>3. bus'.at # "enabled" /\ (bus'.at = "done" => bus'.told)
    BY <2>2 DEF BusOK, Free
  <2>4. \A t \in Thread : Pending(t)' <=> Pending(t)
    BY <1>1, <2>2, <2>3 DEF Pending
  <2>5. ~OnBusRead'
    BY <2>3 DEF OnBusRead
  <2>6. FoundForRead' = FoundForRead
    <3>1. CASE Flag(bus.op) = "read"
      <4>1. OnBusRead /\ FoundIs /\ FoundIs'
        BY <2>2, <3>1, FoundWhere, PTL DEF OnBusRead
      <4>2. /\ Len(toHost)+1 \in DOMAIN toHost' /\ toHost'[Len(toHost)+1] = e
        BY <2>1, AppendFacts DEF AccessInv, PartsOK
      <4>3. e.cmd = "CMD_CMPL_TO_HOST" /\ e.body.found = bus.found
        BY <2>1, <3>1 DEF Flag
      <4>4. QED
        BY <2>5, <4>1, <4>2, <4>3 DEF FoundIs
    <3>2. CASE Flag(bus.op) # "read"
      <4>1. ~OnBusRead /\ e.cmd # "CMD_CMPL_TO_HOST"
        BY <2>1, <3>2 DEF OnBusRead
      <4>2. QED
        BY <1>1, <2>1, <2>5, <4>1, FoundAppend
    <3>3. QED
      BY <3>1, <3>2
  <2>7. QED
    BY <1>1, <2>4, <2>6, NothingSeen
<1>5. QED
  BY <1>2, <1>3, <1>4

-----------------------------------------------------------------------------
(* Steps that a caller sees.                                                *)

\* Only what a caller sees of t changes.
LEMMA OneSeen ==
    ASSUME NEW t \in Thread, \A u \in Thread \ {t} : Seen(u)' = Seen(u)
    PROVE  CallsSeen' = [CallsSeen EXCEPT ![t] = Seen(t)'] /\ CallsSeen[t] = Seen(t)
BY DEF CallsSeen

LEMMA InvokeSeen == ASSUME BarInv, NEW t \in Thread, Invoke(t) PROVE Abstract!Invoke(t)
<1>1. /\ UNCHANGED <<result, toDevice, toHost, bus, readData, reg>>
      /\ call[t] = Idle /\ call = [u \in Thread |-> call[u]]
  BY DEF Invoke, monitorVars, simVars, boardVars, BarInv, AccessInv, PartsOK
<1>2. PICK op \in Op[t] : \E c \in Calls(op) : call' = [call EXCEPT ![t] = [at |-> "lock", c |-> c]]
  BY DEF Invoke
<1>3. PICK c \in Calls(op) : call' = [call EXCEPT ![t] = [at |-> "lock", c |-> c]]
  BY <1>2
<1>4. call'[t] = [at |-> "lock", c |-> c] /\ \A u \in Thread \ {t} : call'[u] = call[u]
  BY <1>1, <1>3
<1>5. FoundForRead' = FoundForRead
  BY <1>1, FoundSame
<1>6. \A u \in Thread \ {t} : Pending(u)' <=> Pending(u)
  BY <1>1, <1>4 DEF Pending
<1>7. \A u \in Thread \ {t} : Seen(u)' = Seen(u)
  BY <1>4, <1>5, <1>6 DEF Seen
<1>8. Seen(t) = Idle /\ Seen(t)' = [at |-> "called", c |-> c]
  <2>1. Pending(t)'
    BY <1>4 DEF Pending
  <2>2. QED
    BY <1>1, <1>4, <2>1 DEF Seen, Idle
<1>9. CallsSeen[t] = Idle /\ CallsSeen' = [CallsSeen EXCEPT ![t] = [at |-> "called", c |-> c]]
  BY <1>7, <1>8, OneSeen
<1>10. UNCHANGED <<reg, ResultsSeen>>
  BY <1>1 DEF ResultsSeen
<1>11. QED
  BY <1>2, <1>3, <1>9, <1>10, SameAccesses DEF Abstract!Invoke

\* When the flag is set, the request has left the socket and the bus.
LEMMA ReturnSeen == ASSUME BarInv, NEW t \in Thread, Return(t) PROVE Abstract!Return(t)
<1> USE DEF BarInv
<1>1. /\ UNCHANGED <<toDevice, toHost, bus, readData, reg>>
      /\ call = [u \in Thread |-> call[u]] /\ CallOK(t) /\ result \in [Thread -> Datum]
  BY DEF Return, simVars, boardVars, AccessInv, PartsOK
<1>2. PICK c \in Accesses : call[t] = [at |-> "wait", c |-> c]
  BY <1>1 DEF Return, CallOK, Idle
<1>3. call'[t] = Idle /\ \A u \in Thread \ {t} : call'[u] = call[u]
  BY <1>1 DEF Return
<1>4. PICK f \in Kinds : f = Flag(c.op)
  BY AccessParts
<1>5. done[f] /\ OncePerKind(f)
  BY <1>2, <1>4 DEF Return, AccessInv
<1>6. ~InDevice(f) /\ ~OnBus(f) /\ ~InHost(f)
  BY <1>5 DEF OncePerKind
<1>7. ~Pending(t)
  <2>1. ~PendingInDevice(t)
    <3>1. SUFFICES ASSUME NEW k \in DOMAIN toDevice, toDevice[k].cmd = "ACCESS", toDevice[k].body.from = t
                   PROVE  FALSE
      BY DEF PendingInDevice
    <3>2. toDevice[k].body.c = c
      BY <1>2, <3>1 DEF AccessInv, OwnRequests, Own
    <3>3. QED
      BY <1>4, <1>6, <3>1, <3>2 DEF InDevice, Asks
  <2>2. ~PendingOnBus(t)
    <3>1. SUFFICES ASSUME bus.at = "enabled", bus.m.cmd = "ACCESS", bus.m.body.from = t
                   PROVE  FALSE
      BY DEF PendingOnBus
    <3>2. bus.m.body.c = c /\ bus.op = c.op
      BY <1>2, <3>1 DEF AccessInv, OwnRequests, Own, PartsOK, BusOK, Free
    <3>3. c.op # "completion"
      BY AccessParts
    <3>4. QED
      BY <1>4, <1>6, <3>1, <3>2, <3>3 DEF OnBus
  <2>3. QED
    BY <1>2, <2>1, <2>2, PendingIs
<1>8. f = "read" => FoundForRead = readData.found
  <2>1. FoundIs
    BY FoundWhere
  <2>2. OnBusRead => OnBus("read")
    BY DEF OnBusRead, OnBus, Flag
  <2>3. QED
    BY <1>6, <2>1, <2>2 DEF FoundIs
<1>9. PICK found : found = IF f = "read" THEN FoundForRead ELSE Nothing
  OBVIOUS
<1>10. Seen(t) = [at |-> "taken", c |-> c, found |-> found] /\ Seen(t)' = Idle
  BY <1>2, <1>3, <1>4, <1>7, <1>9 DEF Seen, Idle
<1>11. \A u \in Thread \ {t} : Seen(u)' = Seen(u)
  <2>1. FoundForRead' = FoundForRead
    BY <1>1, FoundSame
  <2>2. \A u \in Thread \ {t} : Pending(u)' <=> Pending(u)
    BY <1>1, <1>3 DEF Pending
  <2>3. QED
    BY <1>3, <2>1, <2>2 DEF Seen
<1>12. CallsSeen[t] = [at |-> "taken", c |-> c, found |-> found] /\ CallsSeen' = [CallsSeen EXCEPT ![t] = Idle]
  BY <1>10, <1>11, OneSeen
<1>13. ResultsSeen' = [ResultsSeen EXCEPT ![t] = found]
  <2>1. \A u \in Thread \ {t} : result'[u] = result[u]
    BY <1>1 DEF Return
  <2>a. result'[t] = IF Flag(call[t].c.op) = "read" THEN readData ELSE [result[t] EXCEPT !.found = Nothing]
    BY <1>1 DEF Return
  <2>b. Flag(call[t].c.op) = f
    BY <1>2, <1>4
  <2>2. result'[t].found = found
    <3>1. CASE f = "read"
      <4>1. result'[t] = readData
        BY <2>a, <2>b, <3>1
      <4>2. QED
        BY <1>8, <1>9, <3>1, <4>1
    <3>2. CASE f # "read"
      <4>1. result'[t] = [result[t] EXCEPT !.found = Nothing]
        BY <2>a, <2>b, <3>2
      <4>2. result[t] \in Datum
        BY <1>1
      <4>3. result'[t].found = Nothing
        BY <4>1, <4>2 DEF Datum
      <4>4. QED
        BY <1>9, <3>2, <4>3
    <3>3. QED
      BY <3>1, <3>2
  <2>3. QED
    BY <2>1, <2>2 DEF ResultsSeen
<1>14. QED
  BY <1>1, <1>12, <1>13, SameAccesses DEF Abstract!Return

\* The request of t leaves the places where it waits: the access is made.
LEMMA TakeSeen ==
    ASSUME NEW t \in Thread, NEW c \in Accesses, call[t] = [at |-> "wait", c |-> c],
           UNCHANGED <<call, result>>, Pending(t), ~Pending(t)',
           \A u \in Thread \ {t} : Seen(u)' = Seen(u),
           Flag(c.op) = "read" => FoundForRead' = Found(reg, c),
           reg' = IF IsWrite(c) THEN Written(reg, c) ELSE reg
    PROVE  Abstract!Take(t)
<1>1. PICK found : found = Found(reg, c)
  OBVIOUS
<1>2. Flag(c.op) # "read" => found = Nothing
  BY <1>1, AccessParts DEF Found, Flag
<1>3. Seen(t) = [at |-> "called", c |-> c]
  BY DEF Seen, Idle
<1>4. Seen(t)' = [at |-> "taken", c |-> c, found |-> found]
  BY <1>1, <1>2 DEF Seen, Idle
<1>5. /\ CallsSeen[t] = [at |-> "called", c |-> c]
      /\ CallsSeen' = [CallsSeen EXCEPT ![t] = [at |-> "taken", c |-> c, found |-> found]]
  BY <1>3, <1>4, OneSeen
<1>6. ResultsSeen' = ResultsSeen
  BY DEF ResultsSeen
<1>7. Abstract!Found(reg, c) = found /\ (Abstract!IsWrite(c) <=> IsWrite(c))
      /\ Abstract!Written(reg, c) = Written(reg, c)
  BY <1>1, SameAccesses
<1>8. CallsSeen[t].at = "called" /\ CallsSeen[t].c = c
  BY <1>5
<1>9. QED
  BY <1>5, <1>6, <1>7, <1>8 DEF Abstract!Take

LEMMA ReaderSeen == ASSUME BarInv, BarInv', sockreader PROVE Unseen \/ \E t \in Thread : Abstract!Take(t)
<1> USE DEF BarInv
<1>1. /\ UNCHANGED <<call, result, readData, reg>> /\ bus = Free
      /\ toDevice # <<>> /\ toDevice' = Tail(toDevice) /\ toDevice \in Seq(DeviceMessage)
  BY DEF sockreader, threadVars, monitorVars, boardVars, AccessInv, PartsOK
<1>2. /\ Len(toDevice) \in Nat \ {0} /\ DOMAIN toDevice = 1..Len(toDevice) /\ DOMAIN toDevice' = 1..Len(toDevice)-1
      /\ Head(toDevice) = toDevice[1] /\ Head(toDevice) \in DeviceMessage
      /\ \A k \in 1..Len(toDevice)-1 : toDevice'[k] = toDevice[k+1]
  BY <1>1, TailFacts
<1>3. PICK m \in DeviceMessage : m = Head(toDevice)
  BY <1>2
<1>4. \A u : PendingInDevice(u) <=> PendingInDevice(u)' \/ (m.cmd = "ACCESS" /\ m.body.from = u)
  <2>1. ASSUME NEW u, PendingInDevice(u), ~(m.cmd = "ACCESS" /\ m.body.from = u) PROVE PendingInDevice(u)'
    <3>1. PICK k \in 1..Len(toDevice) : toDevice[k].cmd = "ACCESS" /\ toDevice[k].body.from = u
      BY <1>2, <2>1 DEF PendingInDevice
    <3>2. k # 1 /\ k-1 \in 1..Len(toDevice)-1 /\ (k-1)+1 = k
      BY <1>2, <1>3, <2>1, <3>1
    <3>3. toDevice'[k-1] = toDevice[k]
      BY <1>2, <3>2
    <3>4. QED
      BY <1>2, <3>1, <3>2, <3>3 DEF PendingInDevice
  <2>2. ASSUME NEW u, PendingInDevice(u)' PROVE PendingInDevice(u)
    <3>1. PICK k \in 1..Len(toDevice)-1 : toDevice'[k].cmd = "ACCESS" /\ toDevice'[k].body.from = u
      BY <1>2, <2>2 DEF PendingInDevice
    <3>2. k+1 \in DOMAIN toDevice /\ toDevice'[k] = toDevice[k+1]
      BY <1>2
    <3>3. QED
      BY <3>1, <3>2 DEF PendingInDevice
  <2>3. ASSUME NEW u, m.cmd = "ACCESS", m.body.from = u PROVE PendingInDevice(u)
    BY <1>2, <1>3, <2>3 DEF PendingInDevice
  <2>4. QED
    BY <2>1, <2>2, <2>3
<1>5. \A u : ~PendingOnBus(u)
  BY <1>1 DEF PendingOnBus, Free
<1>6. CASE m.cmd = "ACCESS" /\ m.body.c.op = "gettime"
  <2>1. PICK t \in Thread, c \in Accesses : t = m.body.from /\ c = m.body.c
    BY <1>6 DEF DeviceMessage
  <2>2. call[t].at = "wait" /\ call[t].c = c
    BY <1>2, <1>3, <1>6, <2>1 DEF AccessInv, OwnRequests, Own
  <2>3. call[t] = [at |-> "wait", c |-> c]
    <3>1. CallOK(t)
      BY DEF AccessInv, PartsOK
    <3>2. QED
      BY <2>2, <3>1 DEF CallOK, Idle
  <2>4. PICK e \in HostMessage : e.cmd = "CMD_ACK_TIME" /\ toHost' = Append(toHost, e)
    <3>1. Answer("CMD_ACK_TIME", Nothing) \in HostMessage
      BY DEF Answer, HostMessage
    <3>2. QED
      BY <1>3, <1>6, <3>1 DEF sockreader, Answer
  <2>5. UNCHANGED bus
    BY <1>3, <1>6 DEF sockreader
  <2>6. FoundForRead' = FoundForRead
    <3>1. OnBusRead' <=> OnBusRead
      BY <2>5 DEF OnBusRead
    <3>2. QED
      BY <1>1, <2>4, <2>5, <3>1, FoundAppend
  <2>7. Flag(c.op) = "time" /\ ~IsWrite(c)
    BY <1>6, <2>1 DEF Flag, IsWrite
  <2>8. ~PendingInDevice(t)'
    <3>1. SUFFICES ASSUME NEW k \in DOMAIN toDevice', toDevice'[k].cmd = "ACCESS", toDevice'[k].body.from = t
                   PROVE  FALSE
      BY DEF PendingInDevice
    <3>2. k+1 \in DOMAIN toDevice /\ toDevice'[k] = toDevice[k+1] /\ k+1 # 1 /\ 1 \in DOMAIN toDevice
      BY <1>2
    <3>3. toDevice[k+1].body.c = c
      BY <2>2, <3>1, <3>2 DEF AccessInv, OwnRequests, Own
    <3>4. Asks(toDevice[k+1], "time") /\ Asks(toDevice[1], "time")
      BY <1>2, <1>3, <1>6, <2>1, <2>7, <3>1, <3>2, <3>3 DEF Asks
    <3>5. OneRequest("time")
      BY DEF AccessInv, OncePerKind, Kinds
    <3>6. QED
      BY <3>2, <3>4, <3>5 DEF OneRequest
  <2>9. Pending(t) /\ ~Pending(t)'
    <3>1. PendingInDevice(t)
      BY <1>4, <1>6, <2>1
    <3>2. ~PendingOnBus(t)'
      BY <1>1, <2>5 DEF PendingOnBus, Free
    <3>3. call'[t].at # "lock"
      BY <1>1, <2>3
    <3>4. QED
      BY <2>8, <3>1, <3>2, <3>3, PendingIs, PendingIsNext
  <2>10. ASSUME NEW u \in Thread \ {t} PROVE Seen(u)' = Seen(u)
    <3>1. PendingInDevice(u)' <=> PendingInDevice(u)
      BY <1>4, <2>1
    <3>2. Pending(u)' <=> Pending(u)
      BY <1>1, <2>5, <3>1 DEF Pending, PendingInDevice
    <3>3. QED
      BY <1>1, <2>6, <3>2 DEF Seen
  <2>11. Abstract!Take(t)
    BY <1>1, <2>3, <2>7, <2>9, <2>10, TakeSeen
  <2>12. QED
    BY <2>11
<1>7. CASE ~(m.cmd = "ACCESS" /\ m.body.c.op = "gettime")
  <2>1. UNCHANGED toHost /\ \E op : bus' = [at |-> "enabled", m |-> m, op |-> op]
    BY <1>3, <1>7, TakenByBus
  <2>2. bus'.at = "enabled" /\ bus'.m = m
    BY <2>1
  <2>3. \A u : PendingOnBus(u)' <=> m.cmd = "ACCESS" /\ m.body.from = u
    BY <2>2 DEF PendingOnBus
  <2>4. \A u \in Thread : Pending(u)' <=> Pending(u)
    BY <1>1, <1>4, <1>5, <2>3, PendingIs, PendingIsNext
  <2>5. FoundForRead' = FoundForRead
    BY <1>1, <2>1, <2>2 DEF FoundForRead, Free
  <2>6. QED
    BY <1>1, <2>4, <2>5, NothingSeen
<1>8. QED
  BY <1>6, <1>7

LEMMA BoardSeen ==
    ASSUME ReadHalf \subseteq {0}, BarInv, BarInv', BoardServes
    PROVE  Unseen \/ \E t \in Thread : Abstract!Take(t)
<1> USE DEF BarInv
<1>1. UNCHANGED <<call, result, toDevice, toHost, readData>> /\ bus.at = "enabled"
  BY DEF BoardServes, threadVars, monitorVars
<1>2. /\ bus.m \in DeviceMessage /\ bus.op # "gettime"
      /\ bus.op = (IF bus.m.cmd = "ACCESS" THEN bus.m.body.c.op ELSE "completion")
  BY <1>1 DEF AccessInv, PartsOK, BusOK, Free
<1>3. PICK found : /\ found = (IF bus.op = "completion" THEN Nothing ELSE KeptOf(bus.m.body.c))
                   /\ bus' = [at |-> "done", op |-> bus.op, told |-> FALSE, m |-> bus.m, found |-> found]
  BY DEF BoardServes
<1>4. bus'.at = "done" /\ bus'.op = bus.op /\ bus'.told = FALSE /\ bus'.found = found
  BY <1>3
<1>5. \A u : ~PendingOnBus(u)'
  BY <1>4 DEF PendingOnBus
<1>6. \A u : PendingInDevice(u)' <=> PendingInDevice(u)
  BY <1>1 DEF PendingInDevice
<1>7. Flag(bus.op) # "read" => FoundForRead' = FoundForRead
  BY <1>1, <1>4 DEF FoundForRead
<1>8. CASE bus.m.cmd # "ACCESS"
  <2>1. \A u \in Thread : Pending(u)' <=> Pending(u)
    BY <1>1, <1>5, <1>6, <1>8, PendingIs, PendingIsNext DEF PendingOnBus
  <2>2. bus.op = "completion" /\ Flag(bus.op) # "read"
    BY <1>2, <1>8 DEF Flag
  <2>3. UNCHANGED reg
    BY <2>2 DEF BoardServes
  <2>4. QED
    BY <1>1, <1>7, <2>1, <2>2, <2>3, NothingSeen
<1>9. CASE bus.m.cmd = "ACCESS"
  <2>1. PICK t \in Thread, c \in Accesses : t = bus.m.body.from /\ c = bus.m.body.c
    BY <1>2, <1>9 DEF DeviceMessage
  <2>2. call[t].at = "wait" /\ call[t].c = c
    BY <1>1, <1>9, <2>1 DEF AccessInv, OwnRequests, Own
  <2>3. call[t] = [at |-> "wait", c |-> c] /\ CallOK(t)
    <3>1. CallOK(t)
      BY DEF AccessInv, PartsOK
    <3>2. QED
      BY <2>2, <3>1 DEF CallOK, Idle
  <2>4. PICK f \in Kinds : f = Flag(c.op)
    BY AccessParts
  <2>5. bus.op = c.op /\ c.op # "completion" /\ OnBus(f) /\ OncePerKind(f)
    BY <1>1, <1>2, <1>9, <2>1, <2>4, AccessParts DEF OnBus, AccessInv
  <2>6. ~PendingInDevice(t)
    <3>1. SUFFICES ASSUME NEW k \in DOMAIN toDevice, toDevice[k].cmd = "ACCESS", toDevice[k].body.from = t
                   PROVE  FALSE
      BY DEF PendingInDevice
    <3>2. toDevice[k].body.c = c
      BY <2>2, <3>1 DEF AccessInv, OwnRequests, Own
    <3>3. QED
      BY <2>4, <2>5, <3>1, <3>2 DEF OncePerKind, InDevice, Asks
  <2>7. Pending(t) /\ ~Pending(t)'
    <3>1. PendingOnBus(t)
      BY <1>1, <1>9, <2>1 DEF PendingOnBus
    <3>2. call'[t].at # "lock"
      BY <1>1, <2>3
    <3>3. QED
      BY <1>5, <1>6, <2>6, <3>1, <3>2, PendingIs, PendingIsNext
  <2>8. ASSUME NEW u \in Thread \ {t} PROVE Seen(u)' = Seen(u)
    <3>1. Pending(u)' <=> Pending(u)
      <4>1. ~PendingOnBus(u)
        BY <2>1 DEF PendingOnBus
      <4>2. QED
        BY <1>1, <1>5, <1>6, <4>1, PendingIs, PendingIsNext
    <3>2. call[u] # Idle => Flag(call[u].c.op) # f \/ f # "read"
      <4>1. CallOK(u)
        BY DEF AccessInv, PartsOK
      <4>2. QED
        BY <2>3, <2>4, <4>1, OneWaits DEF Idle
    <3>3. call[u] # Idle /\ Flag(call[u].c.op) = "read" => FoundForRead' = FoundForRead
      BY <1>7, <2>4, <2>5, <3>2
    <3>4. QED
      BY <1>1, <3>1, <3>3 DEF Seen
  <2>9. f = "read" => FoundForRead' = Found(reg, c)
    <3>1. ASSUME f = "read" PROVE OnBusRead'
      BY <1>4, <2>4, <2>5, <3>1 DEF OnBusRead
    <3>2. FoundIs'
      BY FoundWhere, PTL
    <3>3. found = Found(reg, c)
      BY <1>3, <2>1, <2>5, KeptIsFound
    <3>4. QED
      BY <1>4, <3>1, <3>2, <3>3 DEF FoundIs
  <2>10. reg' = IF IsWrite(c) THEN Written(reg, c) ELSE reg
    <3>1. Flag(bus.op) = "write" <=> IsWrite(c)
      BY <2>5, AccessParts
    <3>2. QED
      BY <2>1, <2>5, <3>1 DEF BoardServes
  <2>11. Abstract!Take(t)
    BY <1>1, <2>3, <2>4, <2>7, <2>8, <2>9, <2>10, TakeSeen
  <2>12. QED
    BY <2>11
<1>10. QED
  BY <1>8, <1>9

LEMMA StepSeen ==
    ASSUME ReadHalf \subseteq {0}
    PROVE  BarInv /\ BarInv' /\ [Next]_vars => [Abstract!Next]_(Abstract!vars)
<1> SUFFICES ASSUME BarInv, BarInv', [Next]_vars PROVE [Abstract!Next]_(Abstract!vars)
  OBVIOUS
<1>1. Unseen => UNCHANGED Abstract!vars
  BY DEF Unseen, Abstract!vars
<1>2. CASE UNCHANGED vars
  <2>1. UNCHANGED <<call, result, toDevice, toHost, bus, readData, reg>>
    BY <1>2 DEF vars, threadVars, monitorVars, simVars, boardVars
  <2>2. QED
    BY <1>1, <2>1, FoundSame, NothingPending, NothingSeen
<1>3. ASSUME NEW t \in Thread, Invoke(t) PROVE Abstract!Next
  BY <1>3, InvokeSeen DEF Abstract!Next
<1>4. ASSUME NEW t \in Thread, Send(t) PROVE UNCHANGED Abstract!vars
  BY <1>1, <1>4, SendUnseen
<1>5. ASSUME NEW t \in Thread, Return(t) PROVE Abstract!Next
  BY <1>5, ReturnSeen DEF Abstract!Next
<1>6. CASE sockMonitor
  BY <1>1, <1>6, MonitorUnseen
<1>7. CASE cmplHandler
  BY <1>1, <1>7, HandlerUnseen
<1>8. CASE sockreader
  BY <1>1, <1>8, ReaderSeen DEF Abstract!Next
<1>9. CASE BoardServes
  BY <1>1, <1>9, BoardSeen DEF Abstract!Next
<1>10. CASE done_monitor
  BY <1>1, <1>10, DoneUnseen
<1>11. CASE TellDone \/ WriteBegins \/ WriteEnds \/ ReadRequest
  BY <1>1, <1>11, TrnUnseen
<1>12. QED
  BY <1>2, <1>3, <1>4, <1>5, <1>6, <1>7, <1>8, <1>9, <1>10, <1>11 DEF Next, trn_monitor

\* Through two threads, a mutex, flags and a socket, bar_impl_sim is a register
\* file (bar.hh:55-110): for any registers, values and accesses but get16() of
\* an upper half, and whatever DMA shares the socket with them.
THEOREM BarIsRegisterFile ==
    ASSUME ReadHalf \subseteq {0}
    PROVE  FairSpec => ImplementsRegisters
<1>1. Init => Abstract!Init
  <2>1. SUFFICES ASSUME Init PROVE Abstract!Init
    OBVIOUS
  <2>2. CallsSeen = [t \in Thread |-> Idle]
    BY <2>1 DEF Init, CallsSeen, Seen
  <2>3. ResultsSeen = [t \in Thread |-> Nothing]
    BY <2>1 DEF Init, ResultsSeen
  <2>4. QED
    BY <2>1, <2>2, <2>3, SameAccesses DEF Init, Abstract!Init, Abstract!Halves, Halves
<1>2. QED
  BY <1>1, BarInvariant, StepSeen, PTL DEF FairSpec, Spec, ImplementsRegisters, Abstract!Spec
=============================================================================
