------------------------------- MODULE BarSim -------------------------------
(***************************************************************************)
(* Register access and DMA against a simulated board: bar_impl_sim in the   *)
(* program, flisock.c in the simulator, and the socket between them.        *)
(*                                                                          *)
(* In the program any thread sends a request under the mutex and polls a    *)
(* flag; sockMonitor() dispatches what arrives and sets the flags, and      *)
(* cmplHandler() answers the board's read requests, which reach it through  *)
(* a pipe, in packets.  In the simulator sockreader() takes one request at  *)
(* a time, done_monitor() and trn_monitor() watch the bus at either edge of *)
(* the clock.  The board behind the bus is external: it serves requests,    *)
(* writes to memory and reads from it.                                      *)
(***************************************************************************)
EXTENDS Integers, Sequences, BarAccess

CONSTANTS
    Reader, Writer, Timer,  \* threads that read, write, and ask for the time
    ReadOp, WriteOp,    \* accesses of bar the program uses
    RequestLength, MaxPacket,   \* words of a DMA read, m_max_packet_size
    MaxMessages, MaxPosted, MaxRequests,  \* bounds: of each kind in a behaviour
    NoOne

Thread == Reader \cup Writer \cup Timer
Op == [t \in Thread |->
        (IF t \in Reader THEN ReadOp ELSE {}) \cup (IF t \in Timer THEN {"gettime"} ELSE {})
            \cup (IF t \in Writer THEN WriteOp ELSE {})]

\* No two threads wait for the same flag.
ASSUME OneThreadPerKind ==
    /\ \A K \in {Reader, Writer, Timer} : \A t, u \in K : t = u
    /\ NoOne \notin Thread

\* Who reads does not write; requests and packets are not empty.
ASSUME OpAssumption ==
    ReadOp \subseteq {"get32", "get16"} /\ WriteOp \subseteq {"set32", "set16", "memcopy"}
ASSUME LengthAssumption == RequestLength \in Nat \ {0} /\ MaxPacket \in Nat \ {0}

VARIABLES
    call,           \* threads: the access they are in, and how far
    result,         \* threads: what the last read returned
    mtx, msgid,     \* m_mtx: its holder; m_msgid
    done, readData, \* the m_*_done flags; m_read_from_dev_data
    stored,         \* sockMonitor() is between data and flag of a completion
    pipe, request,  \* requests in the pipe, and the one of cmplHandler()
    memory,         \* DMA writes that reached host memory
    toDevice, toHost,   \* the socket
    busy, bus,      \* trn_rd_busy; the request on the bus, and its progress
    collecting,     \* rx_dvld: a memory write is being transmitted
    reg,            \* registers of the board
    posted, asked, received     \* memory writes begun, reads asked, words received

threadVars  == <<call, result, mtx, msgid>>
monitorVars == <<done, readData, stored, pipe, request, memory>>
simVars     == <<busy, bus, collecting>>
boardVars   == <<reg, posted, asked, received>>
vars == <<threadVars, monitorVars, toDevice, toHost, simVars, boardVars>>

Idle == [at |-> "idle"]
Free == [at |-> "free"]
NoRequest == [left |-> 0, offset |-> 0, tag |-> 0, waiting |-> FALSE]

\* The flag an access polls.
Flag(op) == CASE op \in {"get32", "get16"} -> "read" [] op = "gettime" -> "time" [] OTHER -> "write"
Flags    == {"read", "write", "time", "cmpl"}

Message(cmd, body) == [cmd |-> cmd, body |-> body]
Answer(cmd, body)  == [cmd |-> cmd, body |-> body]

Init ==
    /\ call = [t \in Thread |-> Idle] /\ result = [t \in Thread |-> [found |-> Nothing, posted |-> 0]]
    /\ mtx = NoOne /\ msgid = 0
    /\ \E uninitialised \in BOOLEAN : done = [f \in Flags |-> f = "cmpl" /\ uninitialised]
    /\ readData = [found |-> Nothing, posted |-> 0] /\ stored = FALSE
    /\ pipe = <<>> /\ request = NoRequest /\ memory = 0
    /\ toDevice = <<>> /\ toHost = <<>>
    /\ busy = FALSE /\ bus = Free /\ collecting = FALSE
    /\ reg = [cell \in Addr \X Halves |-> Zero]
    /\ posted = 0 /\ asked = 0 /\ received = <<>>

-----------------------------------------------------------------------------
(* The threads of the program.                                              *)

\* The access is made; the thread waits for the mutex.
Invoke(t) ==
    /\ call[t] = Idle /\ msgid < MaxMessages
    /\ \E op \in Op[t] : \E c \in Calls(op) :
        call' = [call EXCEPT ![t] = [at |-> "lock", c |-> c]]
    /\ UNCHANGED <<result, mtx, msgid, monitorVars, toDevice, toHost, simVars, boardVars>>

\* get16() leaves the mutex locked.
MutexAfter(t, op) == IF op = "get16" THEN t ELSE NoOne

\* The section under the mutex.
Send(t) ==
    /\ call[t].at = "lock" /\ mtx = NoOne
    /\ LET c == call[t].c IN
        /\ mtx' = MutexAfter(t, c.op)
        /\ msgid' = msgid + 1
        /\ toDevice' = Append(toDevice, Message("ACCESS", [c |-> c, from |-> t]))
        /\ call' = [call EXCEPT ![t].at = "wait"]
    /\ UNCHANGED <<result, monitorVars, toHost, simVars, boardVars>>

FlagAfter(f) == [done EXCEPT ![f] = FALSE]

\* The flag is found set: data is taken and the flag cleared.
Return(t) ==
    /\ call[t].at = "wait"
    /\ LET c == call[t].c IN
        /\ done[Flag(c.op)] /\ done' = FlagAfter(Flag(c.op))
        /\ result' = [result EXCEPT ![t] = IF Flag(c.op) = "read" THEN readData ELSE [@ EXCEPT !.found = Nothing]]
    /\ call' = [call EXCEPT ![t] = Idle]
    /\ UNCHANGED <<mtx, msgid, readData, stored, pipe, request, memory, toDevice, toHost, simVars, boardVars>>

-----------------------------------------------------------------------------
(* sockMonitor().                                                           *)

Arrived(cmd) == toHost # <<>> /\ Head(toHost).cmd = cmd
Body         == Head(toHost).body
Consume      == toHost' = Tail(toHost)

\* Mutant of doCompleteToHost: flag before data.
CompleteFlagFirst ==
    /\ Arrived("CMD_CMPL_TO_HOST")
    /\ \/ ~stored /\ stored' = TRUE /\ done' = [done EXCEPT !["read"] = TRUE] /\ UNCHANGED <<readData, toHost>>
       \/ stored /\ stored' = FALSE /\ readData' = Body /\ Consume /\ UNCHANGED done
    /\ UNCHANGED <<threadVars, pipe, request, memory, toDevice, simVars, boardVars>>

doCompleteToHost ==
    /\ Arrived("CMD_CMPL_TO_HOST")
    /\ \/ ~stored /\ stored' = TRUE /\ readData' = Body /\ UNCHANGED <<done, toHost>>
       \/ stored /\ stored' = FALSE /\ done' = [done EXCEPT !["read"] = TRUE] /\ Consume /\ UNCHANGED readData
    /\ UNCHANGED <<threadVars, pipe, request, memory, toDevice, simVars, boardVars>>

doAcknowledge(cmd, f) ==
    /\ Arrived(cmd) /\ Consume
    /\ done' = [done EXCEPT ![f] = TRUE]
    /\ UNCHANGED <<threadVars, readData, stored, pipe, request, memory, toDevice, simVars, boardVars>>

doWriteToHost ==
    /\ Arrived("CMD_WRITE_TO_HOST") /\ Consume
    /\ memory' = memory + 1
    /\ UNCHANGED <<threadVars, done, readData, stored, pipe, request, toDevice, simVars, boardVars>>

\* What handleReadCmd() writes to the pipe.
DmaRead(tag) == [left |-> RequestLength, offset |-> 0, tag |-> tag, waiting |-> FALSE]

doReadFromHost ==
    /\ Arrived("CMD_READ_FROM_HOST") /\ Consume
    /\ pipe' = Append(pipe, DmaRead(Body))
    /\ UNCHANGED <<threadVars, done, readData, stored, request, memory, toDevice, simVars, boardVars>>

sockMonitor ==
    \/ doCompleteToHost \/ doWriteToHost \/ doReadFromHost
    \/ doAcknowledge("CMD_ACK_CMPL", "cmpl") \/ doAcknowledge("CMD_ACK_WRITE", "write")
    \/ doAcknowledge("CMD_ACK_TIME", "time")

-----------------------------------------------------------------------------
(* cmplHandler().                                                           *)

NextRequest ==
    /\ request.left = 0 /\ ~request.waiting /\ pipe # <<>>
    /\ request' = Head(pipe) /\ pipe' = Tail(pipe)
    /\ UNCHANGED <<threadVars, done, readData, stored, memory, toDevice, toHost, simVars, boardVars>>

PacketLength == IF request.left > MaxPacket THEN MaxPacket ELSE request.left

NextPacket == [request EXCEPT !.left = @ - PacketLength, !.offset = @ + PacketLength, !.waiting = FALSE]

SendCompletion ==
    /\ request.left # 0 /\ ~request.waiting /\ mtx = NoOne
    /\ msgid' = msgid + 1
    /\ toDevice' = Append(toDevice, Message("CMD_CMPL_TO_DEVICE",
                        [tag |-> request.tag, count |-> request.left, offset |-> request.offset, length |-> PacketLength]))
    /\ request' = [request EXCEPT !.waiting = TRUE]
    /\ UNCHANGED <<call, result, mtx, done, readData, stored, pipe, memory, toHost, simVars, boardVars>>

CompletionAcknowledged ==
    /\ request.waiting /\ done["cmpl"]
    /\ done' = FlagAfter("cmpl")
    /\ request' = NextPacket
    /\ UNCHANGED <<threadVars, readData, stored, pipe, memory, toDevice, toHost, simVars, boardVars>>

cmplHandler == NextRequest \/ SendCompletion \/ CompletionAcknowledged

-----------------------------------------------------------------------------
(* The simulator.                                                           *)

BusyAfter(op) == op # "gettime"

\* Rising edge: the next message, unless the bus is busy.  The time is told at
\* once.  trn_monitor(), the older process, runs first.
sockreader ==
    /\ ~busy /\ bus = Free /\ toDevice # <<>>
    /\ toDevice' = Tail(toDevice)
    /\ LET m == Head(toDevice)
           op == IF m.cmd = "ACCESS" THEN m.body.c.op ELSE "completion" IN
        /\ busy' = BusyAfter(op)
        /\ IF op = "gettime" THEN toHost' = Append(toHost, Answer("CMD_ACK_TIME", Nothing)) /\ UNCHANGED bus
           ELSE bus' = [at |-> "enabled", m |-> m, op |-> op] /\ UNCHANGED toHost
    /\ UNCHANGED <<threadVars, monitorVars, collecting, boardVars>>

\* The words a completion carries, as the board numbers them.
Carried(p) == [k \in 1..p.length |-> [tag |-> p.tag, word |-> p.offset + k - 1, left |-> p.count - k + 1]]

\* What is kept of the word the board sends: get16() takes the lower 16 bits,
\* although either half comes back at its own place.
KeptOf(c) == IF c.op = "get16" THEN [h \in {0} |-> reg[<<c.addr, h>>]] ELSE Found(reg, c)

\* The board (external) serves the request: done goes up.
BoardServes ==
    /\ bus.at = "enabled"
    /\ bus' = [at |-> "done", op |-> bus.op, told |-> FALSE, m |-> bus.m,
               found |-> IF bus.op = "completion" THEN Nothing ELSE KeptOf(bus.m.body.c)]
    /\ IF bus.op = "completion" THEN received' = received \o Carried(bus.m.body) /\ UNCHANGED reg
       ELSE /\ reg' = IF Flag(bus.op) = "write" THEN Written(reg, bus.m.body.c) ELSE reg
            /\ UNCHANGED received
    /\ UNCHANGED <<threadVars, monitorVars, toDevice, toHost, busy, collecting, posted, asked>>

\* Mutant of Leaves: cmpl_done is not watched.
LeavesNoCompletion == bus.at = "done" /\ bus.op # "completion"

Leaves == bus.at = "done"

\* Falling edge.
done_monitor ==
    /\ Leaves /\ busy
    /\ busy' = FALSE
    /\ bus' = IF bus.told THEN Free ELSE bus
    /\ UNCHANGED <<threadVars, monitorVars, toDevice, toHost, collecting, boardVars>>

\* Mutant of BusIdle: a completion does not wait for the write before it.
BusAny == TRUE

BusIdle == ~collecting

\* Rising edge: the answer.  A read's is a packet on the bus, which memory
\* writes before it have left.
TellDone ==
    /\ bus.at = "done" /\ ~bus.told
    /\ Flag(bus.op) = "read" => BusIdle
    /\ toHost' = Append(toHost,
            CASE Flag(bus.op) = "read" -> Answer("CMD_CMPL_TO_HOST", [found |-> bus.found, posted |-> posted])
              [] bus.op = "completion" -> Answer("CMD_ACK_CMPL", Nothing)
              [] OTHER -> Answer("CMD_ACK_WRITE", Nothing))
    /\ bus' = IF busy THEN [bus EXCEPT !.told = TRUE] ELSE Free
    /\ UNCHANGED <<threadVars, monitorVars, toDevice, busy, collecting, boardVars>>

\* The packets of the board's DMA engine: first and last word of a write...
WriteBegins ==
    /\ BusIdle /\ posted < MaxPosted
    /\ collecting' = TRUE /\ posted' = posted + 1
    /\ UNCHANGED <<threadVars, monitorVars, toDevice, toHost, busy, bus, reg, asked, received>>

WriteEnds ==
    /\ collecting /\ collecting' = FALSE
    /\ toHost' = Append(toHost, Answer("CMD_WRITE_TO_HOST", Nothing))
    /\ UNCHANGED <<threadVars, monitorVars, toDevice, busy, bus, boardVars>>

\* ... and a read.
ReadRequest ==
    /\ BusIdle /\ asked < MaxRequests
    /\ asked' = asked + 1
    /\ toHost' = Append(toHost, Answer("CMD_READ_FROM_HOST", asked + 1))
    /\ UNCHANGED <<threadVars, monitorVars, toDevice, simVars, reg, posted, received>>

trn_monitor == TellDone \/ WriteEnds

Next ==
    \/ \E t \in Thread : Invoke(t) \/ Send(t) \/ Return(t)
    \/ sockMonitor \/ cmplHandler
    \/ sockreader \/ BoardServes \/ done_monitor \/ trn_monitor
    \/ WriteBegins \/ ReadRequest

Spec == Init /\ [][Next]_vars

\* Threads and simulator processes keep running, the board serves what it is
\* asked, and a read's answer gets its turn on the bus.
FairSpec ==
    /\ Spec
    /\ \A t \in Thread : WF_vars(Send(t)) /\ WF_vars(Return(t))
    /\ WF_vars(sockMonitor) /\ WF_vars(cmplHandler)
    /\ WF_vars(sockreader) /\ WF_vars(BoardServes) /\ WF_vars(done_monitor)
    /\ WF_vars(WriteEnds) /\ SF_vars(TellDone)

-----------------------------------------------------------------------------
Packets == {toDevice[k].body : k \in {j \in DOMAIN toDevice : toDevice[j].cmd = "CMD_CMPL_TO_DEVICE"}}

TypeOK ==
    /\ \A t \in Thread : call[t].at \in {"idle", "lock", "wait"}
    /\ mtx \in Thread \cup {NoOne} /\ msgid \in Nat
    /\ done \in [Flags -> BOOLEAN] /\ stored \in BOOLEAN
    /\ request.left \in 0..RequestLength /\ request.offset \in 0..RequestLength
    /\ \A p \in Packets : p.length \in 1..MaxPacket /\ p.offset + p.length <= RequestLength
    /\ memory <= posted /\ Len(pipe) <= asked
    /\ busy \in BOOLEAN /\ collecting \in BOOLEAN
    /\ reg \in [Addr \X Halves -> Value \cup {Zero}]

\* What a register access returns is at least as old as host memory: a thread
\* that reads in a register that the board has written n packets finds these n
\* in memory, because completions and writes share the socket and its reader
\* (bar_impl_sim.cpp:441-481) and trn_monitor() sends a packet as a whole
\* (flisock.c:613-640, 745-775).
MemoryBeforeRegister == \A t \in Thread : result[t].posted <= memory

\* Every DMA read of the board is answered by its words in order, once each,
\* with the right count of bytes left, one request after the other, however the
\* handler splits them (bar_impl_sim.cpp:812-912) and whatever the flag it
\* polls was at first.
AnswersInOrder ==
    \A k \in DOMAIN received :
        received[k] = [tag |-> (k - 1) \div RequestLength + 1, word |-> (k - 1) % RequestLength,
                       left |-> RequestLength - ((k - 1) % RequestLength)]

\* The request of t has not reached the registers yet.
Pending(t) ==
    \/ call[t].at = "lock"
    \/ \E k \in DOMAIN toDevice : toDevice[k].cmd = "ACCESS" /\ toDevice[k].body.from = t
    \/ bus.at = "enabled" /\ bus.m.cmd = "ACCESS" /\ bus.m.body.from = t

\* What was found for the one read under way: on the bus, in the socket, or here.
FoundForRead ==
    LET answers == {k \in DOMAIN toHost : toHost[k].cmd = "CMD_CMPL_TO_HOST"} IN
    IF bus.at = "done" /\ Flag(bus.op) = "read" /\ ~bus.told THEN bus.found
    ELSE IF answers # {} THEN toHost[CHOOSE k \in answers : TRUE].body.found ELSE readData.found

\* An access takes effect when the simulated board serves it.
Seen(t) ==
    IF call[t] = Idle THEN Idle
    ELSE IF Pending(t) THEN [at |-> "called", c |-> call[t].c]
    ELSE [at |-> "taken", c |-> call[t].c,
          found |-> IF Flag(call[t].c.op) = "read" THEN FoundForRead ELSE Nothing]
CallsSeen   == [t \in Thread |-> Seen(t)]
ResultsSeen == [t \in Thread |-> result[t].found]

Abstract == INSTANCE RegisterFile WITH call <- CallsSeen, result <- ResultsSeen

\* Through two threads, a mutex, flags and a socket, an access takes effect
\* once, between its call and its return, and a read returns what it found
\* then: bar_impl_sim is a register file (bar.hh:55-110), for threads that do
\* not poll the same flag, get16() of lower halves, and as long as the simulator runs.
ImplementsRegisters == Abstract!Spec

\* An access returns, whatever the other threads, the DMA engine and the
\* completion handler do (bar_impl_sim.cpp:141-437; bar.hh:55-110).  Violated:
\* after a get16() the next access of any thread waits for ever.
AccessReturns == \A t \in Thread : (call[t] # Idle) ~> (call[t] = Idle)

\* A get16() has left the mutex locked: no section under it spans two steps.
LockLeft == mtx # NoOne

\* An access returns, whatever the other threads, the DMA engine and the
\* completion handler do, unless somebody called get16() before
\* (bar_impl_sim.cpp:141-437).
ReturnsUnlessLocked == \A t \in Thread : (call[t] # Idle) ~> (call[t] = Idle \/ LockLeft)

\* Every DMA read of the board is answered to the last word, unless somebody called
\* get16(): the pipe, the mutex and the busy bus do not wait for each other in a
\* circle (bar_impl_sim.cpp:812-912, flisock.c:286-482).
DmaReadsAnswered ==
    \A n \in 1..MaxRequests : (asked = n) ~> (Len(received) >= n * RequestLength \/ LockLeft)

\* At every moment: the parts are well-formed, host memory is as new as the
\* registers that were read (bar_impl_sim.cpp:442), and completions are in
\* order and complete (bar_impl_sim.cpp:813-905).
BarSimInv == TypeOK /\ MemoryBeforeRegister /\ AnswersInOrder

\* As long as the mutex is given back nobody waits for ever for somebody else: an
\* access of the program returns, and a read of the board gets its whole answer
\* (bar_impl_sim.cpp:141-437, 812-912).
EverythingReturns == ReturnsUnlessLocked /\ DmaReadsAnswered

=============================================================================
