---------------------------- MODULE EventStream ----------------------------
(***************************************************************************)
(* One DMA channel to the host: the report buffer (a ring of N event        *)
(* descriptors), the event buffer (a ring of M PCIe packets), the board that *)
(* fills both, and the threads that call getNextEvent() and releaseEvent()   *)
(* of src/src/event_stream.cpp.                                              *)
(*                                                                          *)
(* The board is external to the repository.  Its behaviour is the one the    *)
(* library relies on: it writes to a ring unless the software read pointer   *)
(* points to the next write location (include/librorc/dma_channel.hh), and   *)
(* it writes the descriptor of an event after the event's payload.           *)
(***************************************************************************)
EXTENDS Integers, FiniteSets

CONSTANTS
    Threads,     \* threads that share the event_stream object
    Nobody,      \* the owner of a free mutex
    N,           \* m_max_rb_entries: descriptors in the report buffer
    M,           \* event buffer size in PCIe packets
    Sizes,       \* event sizes in packets the link delivers
    MaxEvents    \* bound on the number of events

ASSUME NobodyAssumption == Nobody \notin Threads
ASSUME NAssumption == N \in Nat /\ N >= 2
ASSUME MAssumption == M \in Nat /\ M >= 2
ASSUME SizesAssumption == Sizes \subseteq 1..M
ASSUME MaxEventsAssumption == MaxEvents \in Nat

VARIABLES
    \* shared memory: the two DMA buffers
    m_reports,           \* the report buffer
    m_raw_event_buffer,  \* the event buffer: number of the event each packet is of
    \* members of event_stream
    m_receive_index, m_release_index, m_release_map,
    m_getEventEnable, m_releaseEnable,   \* owners of the mutexes
    m_channel_status,    \* receive_offset and release_offset
    \* threads
    pc,                  \* what each thread is doing
    tmp_index,           \* local of getNextEvent
    rel,                 \* locals of updateBufferOffsets
    held,                \* references received and not yet released
    \* board
    rb_wptr, rb_rdptr,   \* report buffer write and software read pointers
    eb_wptr, eb_rdptr,   \* event buffer write and software read pointers
    dma,                 \* event being transferred
    \* history
    written,             \* events reported so far
    delivered            \* number of the event delivered last

streamVars == <<m_receive_index, m_release_index, m_release_map, m_channel_status>>
mutexVars  == <<m_getEventEnable, m_releaseEnable>>
threadVars == <<pc, tmp_index, rel, held>>
boardVars  == <<rb_wptr, rb_rdptr, eb_wptr, eb_rdptr, dma, written>>
vars == <<m_reports, m_raw_event_buffer, streamVars, mutexVars, threadVars,
          boardVars, delivered>>

Slots   == 0 .. N-1
Packets == 0 .. M-1
UNDEFINED == -1                       \* EVENT_INDEX_UNDEFINED

\* The descriptor of event id: offset and size of its payload.  A descriptor
\* whose size is 0 is one memset() has cleared.
Report(i, o, s) == [id |-> i, offset |-> o, size |-> s]
NoReport == Report(0, 0, 0)
Reports  == [id : Nat, offset : Packets, size : 0..M]

NoTransfer == [offset |-> 0, size |-> 0, done |-> 0]
NoRelease  == [start |-> 0, count |-> 0, eb |-> 0, rb |-> 0]

\* The successor of an index in a ring of n entries.
NextIndex(i, n) == IF i < n - 1 THEN i + 1 ELSE 0

\* The next report buffer entry getNextEvent() looks at.
NextReceiveNoStart ==                     \* fault: the first entry is skipped
    NextIndex(IF m_receive_index = UNDEFINED THEN 0 ELSE m_receive_index, N)
NextReceive == IF m_receive_index = UNDEFINED THEN 0 ELSE NextIndex(m_receive_index, N)

\* memset(&m_reports[start], 0, count * sizeof(EventDescriptor))
Memset(reports, start, count) ==
    [i \in Slots |-> IF start <= i /\ i < start + count THEN NoReport ELSE reports[i]]

\* The cyclic interval [a, b) of a ring, and its length.
InRing(a, b, i)  == IF a <= b THEN a <= i /\ i < b ELSE a <= i \/ i < b
RingLength(a, b, n) == IF a <= b THEN b - a ELSE n - a + b

Init ==
    /\ m_reports = [i \in Slots |-> NoReport]
    /\ m_raw_event_buffer = [p \in Packets |-> 0]
    /\ m_receive_index = UNDEFINED
    /\ m_release_index = 0
    /\ m_release_map = [i \in Slots |-> FALSE]
    /\ m_getEventEnable = Nobody
    /\ m_releaseEnable = Nobody
    /\ m_channel_status = [receive_offset |-> 0, release_offset |-> 0]
    /\ pc = [t \in Threads |-> "idle"]
    /\ tmp_index = [t \in Threads |-> 0]
    /\ rel = [t \in Threads |-> NoRelease]
    /\ held = {}
    /\ rb_wptr = 0
    /\ rb_rdptr = N - 1
    /\ eb_wptr = 0
    /\ eb_rdptr = M - 1
    /\ dma = NoTransfer
    /\ written = 0
    /\ delivered = 0

-----------------------------------------------------------------------------
(* The board.                                                               *)

\* The next event arrives from the link.
BoardStartEvent ==
    /\ dma = NoTransfer
    /\ written < MaxEvents
    /\ \E s \in Sizes : dma' = [offset |-> eb_wptr, size |-> s, done |-> 0]
    /\ UNCHANGED <<m_reports, m_raw_event_buffer, streamVars, mutexVars, threadVars,
                   rb_wptr, rb_rdptr, eb_wptr, eb_rdptr, written, delivered>>

\* One packet of its payload goes to the event buffer.
BoardWritePacket ==
    /\ dma.done < dma.size
    /\ eb_wptr # eb_rdptr
    /\ m_raw_event_buffer' = [m_raw_event_buffer EXCEPT ![eb_wptr] = written + 1]
    /\ eb_wptr' = NextIndex(eb_wptr, M)
    /\ dma' = [dma EXCEPT !.done = @ + 1]
    /\ UNCHANGED <<m_reports, streamVars, mutexVars, threadVars,
                   rb_wptr, rb_rdptr, eb_rdptr, written, delivered>>

\* Its descriptor goes to the report buffer.
BoardWriteReport ==
    /\ dma.size > 0
    /\ dma.done = dma.size
    /\ rb_wptr # rb_rdptr
    /\ m_reports' = [m_reports EXCEPT ![rb_wptr] = Report(written + 1, dma.offset, dma.size)]
    /\ rb_wptr' = NextIndex(rb_wptr, N)
    /\ written' = written + 1
    /\ dma' = NoTransfer
    /\ UNCHANGED <<m_raw_event_buffer, streamVars, mutexVars, threadVars,
                   rb_rdptr, eb_wptr, eb_rdptr, delivered>>

-----------------------------------------------------------------------------
(* getNextEvent()                                                           *)

NoMutex == TRUE                           \* fault: the mutex is not taken
CanGetEvent == m_getEventEnable = Nobody

GetNextEvent(t) ==
    /\ pc[t] = "idle"
    /\ CanGetEvent
    /\ m_getEventEnable' = t
    /\ tmp_index' = [tmp_index EXCEPT ![t] = NextReceive]
    /\ pc' = [pc EXCEPT ![t] = "peek"]
    /\ UNCHANGED <<m_reports, m_raw_event_buffer, streamVars, m_releaseEnable, rel, held,
                   boardVars, delivered>>

\* reported_event_size is 0: unlock and return false.
NoEvent(t) ==
    /\ pc[t] = "peek"
    /\ m_reports[tmp_index[t]].size = 0
    /\ m_getEventEnable' = Nobody
    /\ tmp_index' = [tmp_index EXCEPT ![t] = 0]
    /\ pc' = [pc EXCEPT ![t] = "idle"]
    /\ UNCHANGED <<m_reports, m_raw_event_buffer, streamVars, m_releaseEnable, rel, held,
                   boardVars, delivered>>

FoundEvent(t) ==
    /\ pc[t] = "peek"
    /\ m_reports[tmp_index[t]].size # 0
    /\ pc' = [pc EXCEPT ![t] = "take"]
    /\ UNCHANGED <<m_reports, m_raw_event_buffer, streamVars, mutexVars, tmp_index, rel, held,
                   boardVars, delivered>>

\* Hand out the descriptor, the payload and the reference, and return true.
TakeEvent(t) ==
    LET i == tmp_index[t] IN
    /\ pc[t] = "take"
    /\ m_receive_index' = i
    /\ held' = held \union {[ref |-> i, report |-> m_reports[i]]}
    /\ m_channel_status' = [m_channel_status EXCEPT !.receive_offset = m_reports[i].offset]
    /\ delivered' = m_reports[i].id
    /\ m_getEventEnable' = Nobody
    /\ tmp_index' = [tmp_index EXCEPT ![t] = 0]
    /\ pc' = [pc EXCEPT ![t] = "idle"]
    /\ UNCHANGED <<m_reports, m_raw_event_buffer, m_release_index, m_release_map,
                   m_releaseEnable, rel, boardVars>>

-----------------------------------------------------------------------------
(* releaseEvent() and updateBufferOffsets()                                 *)

\* Lock and mark the reference; the locals of updateBufferOffsets().
MarkReleased(t, ref) ==
    /\ pc[t] = "idle"
    /\ m_releaseEnable = Nobody
    /\ m_releaseEnable' = t
    /\ m_release_map' = [m_release_map EXCEPT ![ref] = TRUE]
    /\ rel' = [rel EXCEPT ![t] = [NoRelease EXCEPT !.start = m_release_index]]
    /\ pc' = [pc EXCEPT ![t] = "update"]
    /\ UNCHANGED <<m_reports, m_raw_event_buffer, m_receive_index, m_release_index,
                   m_channel_status, m_getEventEnable, tmp_index, boardVars, delivered>>

ReleaseEvent(t, h) ==
    /\ MarkReleased(t, h.ref)
    /\ held' = held \ {h}

\* An older event is still in use: early return.
OlderEventHeld(t) ==
    /\ pc[t] = "update"
    /\ ~ m_release_map[m_release_index]
    /\ m_releaseEnable' = Nobody
    /\ rel' = [rel EXCEPT ![t] = NoRelease]
    /\ pc' = [pc EXCEPT ![t] = "idle"]
    /\ UNCHANGED <<m_reports, m_raw_event_buffer, streamVars, m_getEventEnable, tmp_index, held,
                   boardVars, delivered>>

\* The locals after one iteration on entry i; the run of entries still to be
\* cleared starts over at the wrap-around.
CollectedNoReset(r, i) ==                  \* fault: release_index_start is kept
    [r EXCEPT !.count = IF NextIndex(i, N) = 0 THEN 0 ELSE @ + 1,
              !.eb = m_reports[i].offset, !.rb = i]
Collected(r, i) ==
    [start |-> IF NextIndex(i, N) = 0 THEN 0 ELSE r.start,
     count |-> IF NextIndex(i, N) = 0 THEN 0 ELSE r.count + 1,
     eb    |-> m_reports[i].offset,
     rb    |-> i]

\* The report buffer after that iteration.
ClearedNever(r, i) == m_reports            \* fault: no memset() at the wrap-around
ClearedAtWrap(r, i) ==
    IF NextIndex(i, N) = 0 THEN Memset(m_reports, r.start, r.count + 1) ELSE m_reports

\* One iteration of the while loop.
CollectReleased(t) ==
    LET i == m_release_index IN
    /\ pc[t] \in {"update", "collect"}
    /\ m_release_map[i]
    /\ m_release_map' = [m_release_map EXCEPT ![i] = FALSE]
    /\ m_release_index' = NextIndex(i, N)
    /\ rel' = [rel EXCEPT ![t] = Collected(rel[t], i)]
    /\ m_reports' = ClearedAtWrap(rel[t], i)
    /\ pc' = [pc EXCEPT ![t] = "collect"]
    /\ UNCHANGED <<m_raw_event_buffer, m_receive_index, m_channel_status, mutexVars, tmp_index,
                   held, boardVars, delivered>>

\* The loop has ended: clear the rest of the collected descriptors.
LoopOnce  == TRUE                          \* fault: if in place of while
LoopEnded == ~ m_release_map[m_release_index]

ClearReports(t) ==
    /\ pc[t] = "collect"
    /\ LoopEnded
    /\ m_reports' = Memset(m_reports, rel[t].start, rel[t].count)
    /\ pc' = [pc EXCEPT ![t] = "sync"]
    /\ UNCHANGED <<m_raw_event_buffer, streamVars, mutexVars, tmp_index, rel, held,
                   boardVars, delivered>>

\* Give the read pointers to the board, update the status and unlock.
SetBufferOffsetsOnDevice(t) ==
    /\ pc[t] = "sync"
    /\ eb_rdptr' = rel[t].eb
    /\ rb_rdptr' = rel[t].rb
    /\ m_channel_status' = [m_channel_status EXCEPT !.release_offset = rel[t].eb]
    /\ m_releaseEnable' = Nobody
    /\ rel' = [rel EXCEPT ![t] = NoRelease]
    /\ pc' = [pc EXCEPT ![t] = "idle"]
    /\ UNCHANGED <<m_reports, m_raw_event_buffer, m_receive_index, m_release_index,
                   m_release_map, m_getEventEnable, tmp_index, held,
                   rb_wptr, eb_wptr, dma, written, delivered>>

-----------------------------------------------------------------------------
Receive(t) == NoEvent(t) \/ FoundEvent(t) \/ TakeEvent(t)
Update(t)  == OlderEventHeld(t) \/ CollectReleased(t) \/ ClearReports(t)
              \/ SetBufferOffsetsOnDevice(t)
Board      == BoardStartEvent \/ BoardWritePacket \/ BoardWriteReport
Poll       == \E t \in Threads : GetNextEvent(t)
Release    == \E t \in Threads : \E h \in held : ReleaseEvent(t, h)

Next ==
    \/ Board
    \/ Poll
    \/ Release
    \/ \E t \in Threads : Receive(t) \/ Update(t)

Spec == Init /\ [][Next]_vars

\* A thread inside a call goes on, the board transfers what the link delivers,
\* the threads keep polling, and keep releasing the events they hold: "not
\* clearing an event can lead to a deadlock" (include/librorc/event_stream.hh).
Fairness ==
    /\ \A t \in Threads : WF_vars(Receive(t) \/ Update(t))
    /\ WF_vars(BoardWritePacket \/ BoardWriteReport)
    /\ SF_vars(Poll)
    /\ SF_vars(Release)

FairSpec == Spec /\ Fairness

-----------------------------------------------------------------------------
(* Properties.                                                              *)

ThreadStates == {"idle", "peek", "take", "update", "collect", "sync"}

MemoryTypeOK ==
    /\ m_reports \in [Slots -> Reports]
    /\ m_raw_event_buffer \in [Packets -> Nat]

StreamTypeOK ==
    /\ m_receive_index \in Slots \union {UNDEFINED}
    /\ m_release_index \in Slots
    /\ m_release_map \in [Slots -> BOOLEAN]
    /\ m_getEventEnable \in Threads \union {Nobody}
    /\ m_releaseEnable \in Threads \union {Nobody}
    /\ m_channel_status \in [receive_offset : Packets, release_offset : Packets]

ThreadTypeOK ==
    /\ pc \in [Threads -> ThreadStates]
    /\ tmp_index \in [Threads -> Slots]
    /\ rel \in [Threads -> [start : Slots, count : Nat, eb : Packets, rb : Slots]]
    /\ held \subseteq [ref : Slots, report : Reports]

BoardTypeOK ==
    /\ rb_wptr \in Slots /\ rb_rdptr \in Slots
    /\ eb_wptr \in Packets /\ eb_rdptr \in Packets
    /\ dma \in [offset : Packets, size : 0..M, done : 0..M]
    /\ written \in 0..MaxEvents
    /\ dma.size > 0 => written < MaxEvents
    /\ delivered \in Nat

\* The variables keep their types: in particular every index, offset and
\* pointer stays inside the buffer it belongs to.
TypeOK == MemoryTypeOK /\ StreamTypeOK /\ ThreadTypeOK /\ BoardTypeOK

\* Every report buffer entry the board may write is one that has been cleared:
\* no descriptor is overwritten before its event was released, and getNextEvent()
\* never takes a descriptor of the previous lap for a new event.
WritableSlotsClear ==
    \A i \in Slots : InRing(rb_wptr, rb_rdptr, i) => m_reports[i] = NoReport

\* The packets of an event.
Payload(r) == {p \in Packets : RingLength(r.offset, p, M) < r.size}

\* What getNextEvent() handed out stays as it is until releaseEvent() is called:
\* neither the board nor the clean-up of other releases touches the descriptor
\* or the payload.
HeldIntact ==
    \A h \in held :
        /\ m_reports[h.ref] = h.report
        /\ \A p \in Payload(h.report) : m_raw_event_buffer[p] = h.report.id

\* getNextEvent() returns false only if every reported event has been delivered
\* ("false if the buffer was empty").
FalseOnlyIfEmpty ==
    [][(\E t \in Threads : NoEvent(t)) => written = delivered]_vars

\* The number of the youngest event whose memory the board has back.
Recycled == written - RingLength(NextIndex(rb_rdptr, N), rb_wptr, N)

Fifo == INSTANCE EventFifo WITH
            Capacity <- N - 1,
            held     <- {h.report.id : h \in held},
            recycled <- Recycled

\* The stream implements EventFifo: every event is delivered once and in order,
\* and memory goes back to the board in order although events are released in
\* any order and from several threads.
ImplementsFifo == Fifo!Spec

\* An event that arrives at the channel is transferred, delivered, and in the end
\* its memory is given back to the board.
EveryEventRecycled ==
    \A e \in 1..MaxEvents : (written = e - 1 /\ dma.size > 0) ~> (Recycled >= e)

-----------------------------------------------------------------------------
(* The inductive invariant behind these properties.  Positions in the report  *)
(* buffer are counted from the oldest entry the board does not have back.     *)

Oldest  == NextIndex(rb_rdptr, N)
Pos(i)  == RingLength(Oldest, i, N)

\* The release index, the receive index and the write pointer follow each other
\* around the ring, and the counters agree with their distances.
IndexOrder ==
    /\ Pos(m_release_index) <= Pos(NextReceive)
    /\ Pos(NextReceive) <= Pos(rb_wptr)
    /\ delivered = Recycled + Pos(NextReceive)
    /\ Recycled >= 0

\* What each entry holds: cleared in front of the write pointer, consecutive
\* events between the release index and the write pointer.
SlotContents ==
    \A i \in Slots :
        /\ Pos(rb_wptr) <= Pos(i) => m_reports[i] = NoReport
        /\ Pos(m_release_index) <= Pos(i) /\ Pos(i) < Pos(rb_wptr) =>
               m_reports[i].id = Recycled + 1 + Pos(i) /\ m_reports[i].size > 0

\* Entries are marked, and references held, only for delivered events that have
\* not been collected, and never both.
Outstanding(i) == Pos(m_release_index) <= Pos(i) /\ Pos(i) < Pos(NextReceive)

MarkedOrHeld ==
    /\ \A i \in Slots : m_release_map[i] => Outstanding(i)
    /\ \A h \in held : /\ Outstanding(h.ref)
                       /\ ~ m_release_map[h.ref]
                       /\ m_reports[h.ref] = h.report

Receiving(t) == pc[t] \in {"peek", "take"}
Releasing(t) == pc[t] \in {"update", "collect", "sync"}

\* The mutex owners and their locals.
ReceiverInv ==
    \A t \in Threads :
        /\ Receiving(t) <=> m_getEventEnable = t
        /\ Receiving(t) => tmp_index[t] = NextReceive
        /\ pc[t] = "take" => m_reports[tmp_index[t]].size # 0

\* While a releaser collects, [start, start + count) are the collected entries
\* it has yet to clear; without a releaser nothing is left behind the release
\* index.
ReleaserInv ==
    /\ m_releaseEnable = Nobody => m_release_index = Oldest
    /\ \A t \in Threads :
        /\ Releasing(t) <=> m_releaseEnable = t
        /\ pc[t] = "update" => m_release_index = Oldest
        /\ pc[t] \in {"collect", "sync"} =>
               m_release_index # Oldest /\ NextIndex(rel[t].rb, N) = m_release_index
        /\ pc[t] \in {"update", "collect"} =>
               /\ rel[t].start + rel[t].count = m_release_index
               /\ \/ rel[t].start = Oldest /\ Oldest <= m_release_index
                  \/ rel[t].start = 0 /\ m_release_index < Oldest
        /\ \A i \in Slots : Pos(i) < Pos(m_release_index) =>
               \/ pc[t] = "collect" /\ rel[t].start <= i /\ i < m_release_index
               \/ ~ Releasing(t)
               \/ m_reports[i] = NoReport

RingInv == IndexOrder /\ SlotContents /\ MarkedOrHeld /\ ReceiverInv /\ ReleaserInv

=============================================================================
