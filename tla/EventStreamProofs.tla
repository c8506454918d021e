------------------------- MODULE EventStreamProofs -------------------------
(***************************************************************************)
(* Proofs about EventStream for every number of threads, every ring size    *)
(* and every number of events.                                              *)
(***************************************************************************)
EXTENDS EventStream, TLAPS

USE NAssumption, MAssumption, MaxEventsAssumption

-----------------------------------------------------------------------------
(* The report buffer.                                                       *)

\* memset() keeps the report buffer a report buffer.
LEMMA MemsetType ==
    ASSUME m_reports \in [Slots -> Reports], NEW start, NEW count
    PROVE  Memset(m_reports, start, count) \in [Slots -> Reports]
<1>1. NoReport \in Reports
  BY DEF NoReport, Report, Reports, Packets
<1>2. QED
  BY <1>1 DEF Memset

-----------------------------------------------------------------------------
(* Types.                                                                   *)

\* Small facts about the constants of the type invariant.
LEMMA ZeroTypes ==
    /\ 0 \in Slots /\ N - 1 \in Slots
    /\ 0 \in Packets /\ M - 1 \in Packets
    /\ NoReport \in Reports
    /\ NoTransfer \in [offset : Packets, size : 0..M, done : 0..M]
    /\ NoRelease \in [start : Slots, count : Nat, eb : Packets, rb : Slots]
BY DEF Slots, Packets, NoReport, Report, Reports, NoTransfer, NoRelease

\* The successors of an entry and of a packet.
LEMMA NextTypes ==
    /\ \A i \in Slots : NextIndex(i, N) \in Slots
    /\ \A p \in Packets : NextIndex(p, M) \in Packets
BY DEF NextIndex, Slots, Packets

\* getNextEvent() looks at an entry inside the report buffer.
LEMMA NextReceiveType ==
    ASSUME StreamTypeOK PROVE NextReceive \in Slots
BY NextTypes, ZeroTypes DEF StreamTypeOK, NextReceive

\* initializeMembers() gives every variable a value of its type.
LEMMA InitType == Init => TypeOK
<1> SUFFICES ASSUME Init PROVE TypeOK
  OBVIOUS
<1>1. MemoryTypeOK
  BY ZeroTypes DEF Init, MemoryTypeOK
<1>2. StreamTypeOK
  BY ZeroTypes DEF Init, StreamTypeOK
<1>3. ThreadTypeOK
  BY ZeroTypes DEF Init, ThreadTypeOK, ThreadStates
<1>4. BoardTypeOK
  BY ZeroTypes DEF Init, BoardTypeOK, NoTransfer
<1>5. QED
  BY <1>1, <1>2, <1>3, <1>4 DEF TypeOK

\* Steps of the board keep the types.
LEMMA BoardType == TypeOK /\ Board => TypeOK'
<1> SUFFICES ASSUME TypeOK, Board PROVE TypeOK'
  OBVIOUS
<1> USE DEF TypeOK
<1>1. CASE BoardStartEvent
  <2>1. PICK s \in Sizes : dma' = [offset |-> eb_wptr, size |-> s, done |-> 0]
    BY <1>1 DEF BoardStartEvent
  <2>2. s \in 0..M /\ 0 \in 0..M
    BY SizesAssumption
  <2>3. BoardTypeOK'
    BY <1>1, <2>1, <2>2 DEF BoardStartEvent, BoardTypeOK
  <2>4. QED
    BY <1>1, <2>3 DEF BoardStartEvent, streamVars, mutexVars, threadVars,
                      MemoryTypeOK, StreamTypeOK, ThreadTypeOK
<1>2. CASE BoardWritePacket
  <2>1. dma.done + 1 \in 0..M
    BY <1>2 DEF BoardWritePacket, BoardTypeOK
  <2>2. BoardTypeOK'
    BY <1>2, <2>1, NextTypes DEF BoardWritePacket, BoardTypeOK
  <2>3. written + 1 \in Nat
    BY DEF BoardTypeOK
  <2>4. MemoryTypeOK'
    BY <1>2, <2>3 DEF BoardWritePacket, MemoryTypeOK
  <2>5. QED
    BY <1>2, <2>2, <2>4 DEF BoardWritePacket, streamVars, mutexVars, threadVars,
                            StreamTypeOK, ThreadTypeOK
<1>3. CASE BoardWriteReport
  <2>1. written + 1 \in Nat
    BY DEF BoardTypeOK
  <2>2. BoardTypeOK'
    BY <1>3, <2>1, NextTypes, ZeroTypes DEF BoardWriteReport, BoardTypeOK, NoTransfer
  <2>3. Report(written + 1, dma.offset, dma.size) \in Reports
    BY <2>1 DEF BoardTypeOK, Report, Reports
  <2>4. MemoryTypeOK'
    BY <1>3, <2>3 DEF BoardWriteReport, MemoryTypeOK
  <2>5. QED
    BY <1>3, <2>2, <2>4 DEF BoardWriteReport, streamVars, mutexVars, threadVars,
                            StreamTypeOK, ThreadTypeOK
<1>4. QED
  BY <1>1, <1>2, <1>3 DEF Board

\* Steps of getNextEvent() keep the types.
LEMMA ReceiveType ==
    ASSUME NEW t \in Threads, TypeOK, GetNextEvent(t) \/ Receive(t) PROVE TypeOK'
<1> USE DEF TypeOK
<1>1. CASE GetNextEvent(t)
  <2>1. ThreadTypeOK'
    BY <1>1, NextReceiveType DEF GetNextEvent, ThreadTypeOK, ThreadStates
  <2>2. StreamTypeOK'
    BY <1>1 DEF GetNextEvent, StreamTypeOK, streamVars
  <2>3. QED
    BY <1>1, <2>1, <2>2 DEF GetNextEvent, boardVars, MemoryTypeOK, BoardTypeOK
<1>2. CASE NoEvent(t)
  <2>1. ThreadTypeOK'
    BY <1>2, ZeroTypes DEF NoEvent, ThreadTypeOK, ThreadStates
  <2>2. StreamTypeOK'
    BY <1>2 DEF NoEvent, StreamTypeOK, streamVars
  <2>3. QED
    BY <1>2, <2>1, <2>2 DEF NoEvent, boardVars, MemoryTypeOK, BoardTypeOK
<1>3. CASE FoundEvent(t)
  <2>1. ThreadTypeOK'
    BY <1>3 DEF FoundEvent, ThreadTypeOK, ThreadStates
  <2>2. QED
    BY <1>3, <2>1 DEF FoundEvent, boardVars, streamVars, mutexVars,
                      MemoryTypeOK, BoardTypeOK, StreamTypeOK
<1>4. CASE TakeEvent(t)
  <2> DEFINE i == tmp_index[t]
  <2>1. i \in Slots /\ m_reports[i] \in Reports
    BY DEF ThreadTypeOK, MemoryTypeOK
  <2>2. m_reports[i].offset \in Packets /\ m_reports[i].id \in Nat
    BY <2>1 DEF Reports
  <2>3. [ref |-> i, report |-> m_reports[i]] \in [ref : Slots, report : Reports]
    BY <2>1
  <2>4. ThreadTypeOK'
    BY <1>4, <2>3, ZeroTypes DEF TakeEvent, ThreadTypeOK, ThreadStates
  <2>5. StreamTypeOK'
    BY <1>4, <2>1, <2>2 DEF TakeEvent, StreamTypeOK
  <2>6. BoardTypeOK'
    BY <1>4, <2>2 DEF TakeEvent, BoardTypeOK, boardVars
  <2>7. QED
    BY <1>4, <2>4, <2>5, <2>6 DEF TakeEvent, MemoryTypeOK
<1>5. QED
  BY <1>1, <1>2, <1>3, <1>4 DEF Receive

\* Steps of releaseEvent() keep the types.
LEMMA MarkType ==
    ASSUME NEW t \in Threads, NEW ref \in Slots, TypeOK, MarkReleased(t, ref),
           held' \subseteq held
    PROVE  TypeOK'
<1> USE DEF TypeOK
<1>1. [NoRelease EXCEPT !.start = m_release_index]
          \in [start : Slots, count : Nat, eb : Packets, rb : Slots]
  BY ZeroTypes DEF StreamTypeOK
<1>2. ThreadTypeOK'
  BY <1>1 DEF MarkReleased, ThreadTypeOK, ThreadStates
<1>3. StreamTypeOK'
  BY DEF MarkReleased, StreamTypeOK
<1>4. QED
  BY <1>2, <1>3 DEF MarkReleased, MemoryTypeOK, BoardTypeOK, boardVars

\* Steps of updateBufferOffsets() keep the types.
LEMMA UpdateType ==
    ASSUME NEW t \in Threads, TypeOK, Update(t) PROVE TypeOK'
<1> USE DEF TypeOK
<1>1. CASE OlderEventHeld(t)
  <2>1. ThreadTypeOK'
    BY <1>1, ZeroTypes DEF OlderEventHeld, ThreadTypeOK, ThreadStates
  <2>2. StreamTypeOK'
    BY <1>1 DEF OlderEventHeld, StreamTypeOK, streamVars
  <2>3. QED
    BY <1>1, <2>1, <2>2 DEF OlderEventHeld, boardVars, MemoryTypeOK, BoardTypeOK
<1>2. CASE CollectReleased(t)
  <2> DEFINE i == m_release_index
  <2>1. i \in Slots /\ NextIndex(i, N) \in Slots /\ m_reports[i].offset \in Packets
    BY NextTypes DEF StreamTypeOK, MemoryTypeOK, Reports
  <2>2. Collected(rel[t], i) \in [start : Slots, count : Nat, eb : Packets, rb : Slots]
    BY <2>1, ZeroTypes DEF Collected, ThreadTypeOK
  <2>3. ThreadTypeOK'
    BY <1>2, <2>2 DEF CollectReleased, ThreadTypeOK, ThreadStates
  <2>4. StreamTypeOK'
    BY <1>2, <2>1 DEF CollectReleased, StreamTypeOK, mutexVars
  <2>5. ClearedAtWrap(rel[t], i) \in [Slots -> Reports]
    BY MemsetType DEF ClearedAtWrap, MemoryTypeOK
  <2>6. MemoryTypeOK'
    BY <1>2, <2>5 DEF CollectReleased, MemoryTypeOK
  <2>7. QED
    BY <1>2, <2>3, <2>4, <2>6 DEF CollectReleased, BoardTypeOK, boardVars
<1>3. CASE ClearReports(t)
  <2>1. MemoryTypeOK'
    BY <1>3, MemsetType DEF ClearReports, MemoryTypeOK
  <2>2. ThreadTypeOK'
    BY <1>3 DEF ClearReports, ThreadTypeOK, ThreadStates
  <2>3. QED
    BY <1>3, <2>1, <2>2 DEF ClearReports, StreamTypeOK, BoardTypeOK, streamVars,
                            mutexVars, boardVars
<1>4. CASE SetBufferOffsetsOnDevice(t)
  <2>1. rel[t].eb \in Packets /\ rel[t].rb \in Slots
    BY DEF ThreadTypeOK
  <2>2. ThreadTypeOK'
    BY <1>4, ZeroTypes DEF SetBufferOffsetsOnDevice, ThreadTypeOK, ThreadStates
  <2>3. StreamTypeOK'
    BY <1>4, <2>1 DEF SetBufferOffsetsOnDevice, StreamTypeOK
  <2>4. BoardTypeOK'
    BY <1>4, <2>1 DEF SetBufferOffsetsOnDevice, BoardTypeOK
  <2>5. QED
    BY <1>4, <2>2, <2>3, <2>4 DEF SetBufferOffsetsOnDevice, MemoryTypeOK
<1>5. QED
  BY <1>1, <1>2, <1>3, <1>4 DEF Update

\* Every step of the board and of the threads keeps the types.
LEMMA NextType == TypeOK /\ [Next]_vars => TypeOK'
<1> SUFFICES ASSUME TypeOK, [Next]_vars PROVE TypeOK'
  OBVIOUS
<1>1. CASE Board
  BY <1>1, BoardType
<1>2. ASSUME NEW t \in Threads, GetNextEvent(t) PROVE TypeOK'
  BY <1>2, ReceiveType
<1>3. ASSUME NEW t \in Threads, NEW h \in held, ReleaseEvent(t, h) PROVE TypeOK'
  <2>1. h.ref \in Slots
    BY DEF TypeOK, ThreadTypeOK
  <2>2. QED
    BY <1>3, <2>1, MarkType DEF ReleaseEvent
<1>4. ASSUME NEW t \in Threads, Receive(t) \/ Update(t) PROVE TypeOK'
  BY <1>4, ReceiveType, UpdateType
<1>5. CASE UNCHANGED vars
  BY <1>5 DEF vars, streamVars, mutexVars, threadVars, boardVars,
              TypeOK, MemoryTypeOK, StreamTypeOK, ThreadTypeOK, BoardTypeOK
<1>6. QED
  BY <1>1, <1>2, <1>3, <1>4, <1>5 DEF Next, Poll, Release

\* Every index, pointer, offset and length of the stream and of the board stays
\* inside the buffer it belongs to, whatever the interleaving.
THEOREM TypeCorrect == Spec => []TypeOK
<1>1. QED
  BY InitType, NextType, PTL DEF Spec

-----------------------------------------------------------------------------
(* Positions in the report buffer.                                          *)

\* The distance around the ring is at most N - 1, and 0 only from an entry to
\* itself.
LEMMA RingLengthRange ==
    ASSUME NEW o \in Slots, NEW i \in Slots
    PROVE  /\ RingLength(o, i, N) \in 0 .. N-1
           /\ RingLength(o, i, N) = 0 <=> o = i
BY DEF RingLength, Slots

\* Distances from one entry tell entries apart.
LEMMA RingLengthInjective ==
    ASSUME NEW o \in Slots, NEW i \in Slots, NEW j \in Slots,
           RingLength(o, i, N) = RingLength(o, j, N)
    PROVE  i = j
BY DEF RingLength, Slots

\* The successor is one further away, unless the ring closes.
LEMMA RingLengthNext ==
    ASSUME NEW o \in Slots, NEW i \in Slots
    PROVE  /\ NextIndex(i, N) # o => RingLength(o, NextIndex(i, N), N) = RingLength(o, i, N) + 1
           /\ NextIndex(i, N) = o <=> RingLength(o, i, N) = N - 1
BY DEF RingLength, NextIndex, Slots

\* Distances measured from a later entry of the ring.
LEMMA RingLengthShift ==
    ASSUME NEW o \in Slots, NEW l \in Slots, NEW i \in Slots
    PROVE  RingLength(l, i, N) =
               IF RingLength(o, l, N) <= RingLength(o, i, N)
               THEN RingLength(o, i, N) - RingLength(o, l, N)
               ELSE N + RingLength(o, i, N) - RingLength(o, l, N)
BY DEF RingLength, Slots

\* Entries have one predecessor.
LEMMA NextIndexInjective ==
    ASSUME NEW i \in Slots, NEW j \in Slots, NextIndex(i, N) = NextIndex(j, N)
    PROVE  i = j
BY DEF NextIndex, Slots

\* What the type invariant says of the positions.
LEMMA PosType ==
    ASSUME TypeOK
    PROVE  /\ Oldest \in Slots /\ NextReceive \in Slots
           /\ m_release_index \in Slots /\ rb_wptr \in Slots /\ rb_rdptr \in Slots
           /\ \A i \in Slots : Pos(i) \in 0 .. N-1 /\ (Pos(i) = 0 <=> i = Oldest)
           /\ \A i, j \in Slots : Pos(i) = Pos(j) => i = j
           /\ \A i \in Slots : NextIndex(i, N) # Oldest => Pos(NextIndex(i, N)) = Pos(i) + 1
           /\ \A i \in Slots : NextIndex(i, N) = Oldest <=> Pos(i) = N - 1
           /\ Pos(rb_rdptr) = N - 1
<1>1. /\ Oldest \in Slots /\ NextReceive \in Slots
      /\ m_release_index \in Slots /\ rb_wptr \in Slots /\ rb_rdptr \in Slots
  BY NextTypes, NextReceiveType DEF TypeOK, StreamTypeOK, BoardTypeOK, Oldest
<1>2. QED
  BY <1>1, RingLengthRange, RingLengthInjective, RingLengthNext DEF Pos, Oldest

-----------------------------------------------------------------------------
(* The ring invariant.                                                      *)

\* The ring invariant holds once initializeMembers() has cleared the report buffer.
LEMMA InitRing == Init => RingInv
<1> SUFFICES ASSUME Init PROVE RingInv
  OBVIOUS
<1>1. Oldest = 0 /\ NextReceive = 0 /\ rb_wptr = 0 /\ m_release_index = 0
  BY DEF Init, Oldest, NextReceive, NextIndex
<1>2. 0 \in Slots /\ Pos(0) = 0 /\ \A i \in Slots : Pos(i) \in Nat
  BY <1>1 DEF Pos, RingLength, Slots
<1>3. Recycled = 0
  BY <1>1, <1>2 DEF Recycled, Pos, Oldest, Init
<1>4. IndexOrder
  BY <1>1, <1>2, <1>3 DEF IndexOrder, Init
<1>5. SlotContents
  BY <1>1, <1>2 DEF SlotContents, Init
<1>6. MarkedOrHeld
  BY DEF MarkedOrHeld, Init
<1>7. ReceiverInv
  BY NobodyAssumption DEF ReceiverInv, Receiving, Init
<1>8. ReleaserInv
  BY NobodyAssumption, <1>1, <1>2 DEF ReleaserInv, Releasing, Init
<1>9. QED
  BY <1>4, <1>5, <1>6, <1>7, <1>8 DEF RingInv

\* A step that touches neither indexes nor descriptors nor threads keeps it.
LEMMA RingUnchanged ==
    ASSUME RingInv,
           UNCHANGED <<m_reports, streamVars, mutexVars, threadVars,
                       rb_wptr, rb_rdptr, written, delivered>>
    PROVE  RingInv'
<1>1. Oldest' = Oldest /\ NextReceive' = NextReceive /\ Recycled' = Recycled
  BY DEF Oldest, NextReceive, Recycled, streamVars
<1> USE <1>1 DEF RingInv, Pos, streamVars, mutexVars, threadVars
<1>2. IndexOrder'
  BY DEF IndexOrder
<1>3. SlotContents'
  BY DEF SlotContents
<1>4. MarkedOrHeld'
  BY DEF MarkedOrHeld, Outstanding
<1>5. ReceiverInv'
  BY DEF ReceiverInv, Receiving
<1>6. ReleaserInv'
  BY DEF ReleaserInv, Releasing
<1>7. QED
  BY <1>2, <1>3, <1>4, <1>5, <1>6

\* The board reports an event.
LEMMA RingWriteReport ==
    ASSUME TypeOK, RingInv, BoardWriteReport
    PROVE  RingInv'
<1> USE PosType DEF RingInv
<1> DEFINE w == rb_wptr
           r == Report(written + 1, dma.offset, dma.size)
<1>1. /\ Oldest' = Oldest /\ NextReceive' = NextReceive
      /\ \A i \in Slots : Pos(i)' = Pos(i)
  BY DEF BoardWriteReport, Oldest, NextReceive, Pos, streamVars
<1>2. Pos(rb_wptr') = Pos(w) + 1
  <2>1. NextIndex(w, N) # Oldest
    BY NextIndexInjective DEF BoardWriteReport, Oldest
  <2>2. QED
    BY <2>1 DEF BoardWriteReport
<1>3. Recycled' = Recycled
  BY <1>1, <1>2 DEF Recycled, Pos, Oldest, BoardWriteReport, TypeOK, BoardTypeOK
<1>4. rb_wptr' \in Slots
  BY NextTypes DEF BoardWriteReport
<1>5. /\ m_reports' = [m_reports EXCEPT ![w] = r]
      /\ m_reports' [w] = r
      /\ \A i \in Slots : i # w => m_reports'[i] = m_reports[i]
  BY DEF BoardWriteReport, TypeOK, MemoryTypeOK
<1>6. r.id = Recycled + 1 + Pos(w) /\ r.size > 0 /\ r.size # 0
  BY DEF Report, Recycled, Pos, Oldest, BoardWriteReport, TypeOK, BoardTypeOK
<1>7. IndexOrder'
  BY <1>1, <1>2, <1>3, <1>4 DEF IndexOrder, BoardWriteReport, streamVars, Pos
<1>8. SlotContents'
  <2> SUFFICES ASSUME NEW i \in Slots
               PROVE  /\ Pos(rb_wptr') <= Pos(i) => m_reports'[i] = NoReport
                      /\ Pos(m_release_index) <= Pos(i) /\ Pos(i) < Pos(rb_wptr') =>
                            m_reports'[i].id = Recycled + 1 + Pos(i) /\ m_reports'[i].size > 0
    BY <1>1, <1>3, <1>4 DEF SlotContents, Pos, BoardWriteReport, streamVars
  <2>1. CASE i = w
    BY <2>1, <1>2, <1>5, <1>6
  <2>2. CASE i # w
    BY <2>2, <1>2, <1>5 DEF SlotContents
  <2>3. QED
    BY <2>1, <2>2
<1>9. MarkedOrHeld'
  <2>1. \A i \in Slots : Outstanding(i)' = Outstanding(i)
    BY <1>1 DEF Outstanding, BoardWriteReport, streamVars, Pos
  <2>2. \A h \in held : h.ref \in Slots /\ h.ref # w
    BY DEF MarkedOrHeld, Outstanding, IndexOrder, TypeOK, ThreadTypeOK
  <2>3. QED
    BY <2>1, <2>2, <1>5 DEF MarkedOrHeld, BoardWriteReport, streamVars, threadVars
<1>10. ReceiverInv'
  <2>1. \A t \in Threads : tmp_index[t] \in Slots
    BY DEF TypeOK, ThreadTypeOK
  <2>2. QED
    BY <2>1, <1>1, <1>5, <1>6
       DEF ReceiverInv, Receiving, BoardWriteReport, threadVars, mutexVars
<1>11. ReleaserInv'
  <2>1. \A i \in Slots : Pos(i) < Pos(m_release_index) => i # w
    BY DEF IndexOrder
  <2>2. QED
    BY <2>1, <1>1, <1>5
       DEF ReleaserInv, Releasing, BoardWriteReport, threadVars, mutexVars, streamVars, Pos
<1>12. QED
  BY <1>7, <1>8, <1>9, <1>10, <1>11

\* getNextEvent().
LEMMA RingReceive ==
    ASSUME NEW t \in Threads, TypeOK, RingInv, GetNextEvent(t) \/ Receive(t)
    PROVE  RingInv'
<1> USE PosType DEF RingInv
<1>1. CASE GetNextEvent(t) \/ NoEvent(t) \/ FoundEvent(t)
  <2>1. /\ UNCHANGED <<m_reports, streamVars, m_releaseEnable, rel, held, boardVars, delivered>>
        /\ Oldest' = Oldest /\ NextReceive' = NextReceive /\ Recycled' = Recycled
        /\ \A i \in Slots : Pos(i)' = Pos(i)
    BY <1>1 DEF GetNextEvent, NoEvent, FoundEvent, streamVars, boardVars, mutexVars,
                Oldest, NextReceive, Recycled, Pos
  <2>2. IndexOrder' /\ SlotContents' /\ MarkedOrHeld'
    BY <2>1 DEF IndexOrder, SlotContents, MarkedOrHeld, Outstanding, streamVars, boardVars, Pos
  <2>3. ReceiverInv'
    <3> SUFFICES ASSUME NEW u \in Threads
                 PROVE  /\ Receiving(u)' <=> m_getEventEnable' = u
                        /\ Receiving(u)' => tmp_index'[u] = NextReceive
                        /\ pc'[u] = "take" => m_reports[tmp_index'[u]].size # 0
      BY <2>1 DEF ReceiverInv
    <3> USE DEF ReceiverInv, Receiving, TypeOK, ThreadTypeOK
    <3>1. CASE GetNextEvent(t)
      BY <3>1, NobodyAssumption DEF GetNextEvent, CanGetEvent
    <3>2. CASE NoEvent(t)
      BY <3>2, NobodyAssumption DEF NoEvent
    <3>3. CASE FoundEvent(t)
      BY <3>3 DEF FoundEvent, mutexVars
    <3>4. QED
      BY <1>1, <3>1, <3>2, <3>3
  <2>4. ReleaserInv'
    <3>1. \A u \in Threads : \A s \in {"update", "collect", "sync"} : pc'[u] = s <=> pc[u] = s
      BY <1>1 DEF GetNextEvent, NoEvent, FoundEvent, TypeOK, ThreadTypeOK
    <3>2. QED
      BY <3>1, <2>1 DEF ReleaserInv, Releasing, streamVars, Pos
  <2>5. QED
    BY <2>2, <2>3, <2>4
<1>2. CASE TakeEvent(t)
  <2> DEFINE i == tmp_index[t]
             r == m_reports[i]
  <2>1. /\ i = NextReceive /\ i \in Slots /\ r.size # 0
        /\ m_getEventEnable = t
    BY <1>2 DEF TakeEvent, ReceiverInv, Receiving
  <2>2. Pos(i) < Pos(rb_wptr) /\ Pos(m_release_index) <= Pos(i)
    BY <2>1 DEF SlotContents, IndexOrder, NoReport, Report
  <2>3. r.id = Recycled + 1 + Pos(i)
    BY <2>1, <2>2 DEF SlotContents
  <2>4. /\ UNCHANGED <<m_reports, m_release_index, m_release_map, rb_wptr, rb_rdptr, written,
                       m_releaseEnable, rel>>
        /\ Oldest' = Oldest /\ Recycled' = Recycled
        /\ \A j \in Slots : Pos(j)' = Pos(j)
        /\ held' = held \union {[ref |-> i, report |-> r]}
        /\ delivered' = r.id
    BY <1>2 DEF TakeEvent, boardVars, Oldest, Recycled, Pos
  <2>5. NextReceive' = NextIndex(i, N) /\ NextReceive' \in Slots
    <3>1. m_receive_index' = i /\ i # UNDEFINED
      BY <1>2, <2>1 DEF TakeEvent, UNDEFINED, Slots
    <3>2. QED
      BY <3>1, <2>1, NextTypes DEF NextReceive
  <2>6. Pos(NextReceive)' = Pos(i) + 1
    <3>1. NextIndex(i, N) # Oldest
      BY <2>1, <2>2
    <3>2. QED
      BY <3>1, <2>1, <2>4, <2>5 DEF Pos
  <2>7. IndexOrder'
    <3>1. Recycled \in Int
      BY DEF Recycled, Pos, Oldest, TypeOK, BoardTypeOK
    <3>2. /\ Pos(m_release_index)' = Pos(m_release_index)
          /\ Pos(rb_wptr)' = Pos(rb_wptr)
      BY <2>4 DEF Pos
    <3>3. QED
      BY <3>1, <3>2, <2>1, <2>2, <2>3, <2>4, <2>6 DEF IndexOrder
  <2>8. SlotContents'
    BY <2>4 DEF SlotContents, Pos
  <2>9. MarkedOrHeld'
    <3>1. \A j \in Slots : Outstanding(j)' <=> Outstanding(j) \/ j = i
      <4> SUFFICES ASSUME NEW j \in Slots PROVE Outstanding(j)' <=> Outstanding(j) \/ j = i
        OBVIOUS
      <4>1. Outstanding(j)' <=> Pos(m_release_index) <= Pos(j) /\ Pos(j) < Pos(i) + 1
        BY <2>4, <2>6 DEF Outstanding, Pos
      <4>2. Outstanding(j) <=> Pos(m_release_index) <= Pos(j) /\ Pos(j) < Pos(i)
        BY <2>1 DEF Outstanding
      <4>3. QED
        BY <4>1, <4>2, <2>1, <2>2
    <3>2. ~ m_release_map[i]
      BY <2>1 DEF MarkedOrHeld, Outstanding
    <3>3. \A h \in held : h.ref \in Slots
      BY DEF TypeOK, ThreadTypeOK
    <3>4. QED
      BY <3>1, <3>2, <3>3, <2>1, <2>4 DEF MarkedOrHeld
  <2>10. ReceiverInv'
    <3>1. pc' = [pc EXCEPT ![t] = "idle"] /\ m_getEventEnable' = Nobody
      BY <1>2 DEF TakeEvent
    <3>2. \A u \in Threads : ~ Receiving(u)'
      BY <3>1, <2>1 DEF ReceiverInv, Receiving, TypeOK, ThreadTypeOK
    <3>3. QED
      BY <3>1, <3>2, NobodyAssumption DEF ReceiverInv, Receiving
  <2>11. ReleaserInv'
    <3>1. \A u \in Threads : \A s \in {"update", "collect", "sync"} : pc'[u] = s <=> pc[u] = s
      BY <1>2 DEF TakeEvent, TypeOK, ThreadTypeOK
    <3>2. QED
      BY <3>1, <2>4 DEF ReleaserInv, Releasing, Pos
  <2>12. QED
    BY <2>7, <2>8, <2>9, <2>10, <2>11
<1>3. QED
  BY <1>1, <1>2 DEF Receive

\* releaseEvent() locks and marks.
LEMMA RingRelease ==
    ASSUME NEW t \in Threads, NEW h \in held, TypeOK, RingInv, ReleaseEvent(t, h)
    PROVE  RingInv'
<1> USE PosType DEF RingInv
<1> DEFINE l == m_release_index
<1>1. /\ UNCHANGED <<m_reports, m_receive_index, m_release_index, m_getEventEnable, tmp_index,
                     rb_wptr, rb_rdptr, written, delivered>>
      /\ Oldest' = Oldest /\ NextReceive' = NextReceive /\ Recycled' = Recycled
      /\ \A i \in Slots : Pos(i)' = Pos(i)
      /\ held' = held \ {h}
      /\ h.ref \in Slots
      /\ m_release_map' = [m_release_map EXCEPT ![h.ref] = TRUE]
  BY DEF ReleaseEvent, MarkReleased, boardVars, Oldest, NextReceive, Recycled, Pos,
         TypeOK, ThreadTypeOK
<1>2. IndexOrder' /\ SlotContents'
  BY <1>1 DEF IndexOrder, SlotContents, Pos
<1>3. MarkedOrHeld'
  <2>1. \A i \in Slots : Outstanding(i)' <=> Outstanding(i)
    BY <1>1 DEF Outstanding, Pos
  <2>2. Outstanding(h.ref)
    BY DEF MarkedOrHeld
  <2>3. \A i \in Slots : m_release_map'[i] = (m_release_map[i] \/ i = h.ref)
    BY <1>1 DEF TypeOK, StreamTypeOK
  <2>4. \A g \in held' : g \in held /\ g.ref \in Slots /\ g.ref # h.ref
    <3> SUFFICES ASSUME NEW g \in held', g.ref = h.ref PROVE FALSE
      BY <1>1 DEF TypeOK, ThreadTypeOK
    <3>1. g \in [ref : Slots, report : Reports] /\ h \in [ref : Slots, report : Reports]
      BY <1>1 DEF TypeOK, ThreadTypeOK
    <3>2. g.report = h.report
      BY <1>1 DEF MarkedOrHeld
    <3>3. QED
      BY <3>1, <3>2, <1>1
  <2>5. QED
    BY <1>1, <2>1, <2>2, <2>3, <2>4 DEF MarkedOrHeld
<1>4. \A u \in Threads : pc'[u] = IF u = t THEN "update" ELSE pc[u]
  BY DEF ReleaseEvent, MarkReleased, TypeOK, ThreadTypeOK
<1>5. pc[t] = "idle" /\ m_releaseEnable = Nobody /\ m_releaseEnable' = t
  BY DEF ReleaseEvent, MarkReleased
<1>6. ReceiverInv'
  BY <1>1, <1>4, <1>5 DEF ReceiverInv, Receiving
<1>7. ReleaserInv'
  <2>1. l = Oldest /\ \A u \in Threads : ~ Releasing(u)
    BY <1>5, NobodyAssumption DEF ReleaserInv
  <2>2. rel'[t].start = l /\ rel'[t].count = 0
    BY DEF ReleaseEvent, MarkReleased, NoRelease, TypeOK, ThreadTypeOK
  <2>3. l + 0 = l /\ l <= l /\ l \in Slots
    BY DEF Slots
  <2>4. \A i \in Slots : ~ (Pos(i) < Pos(l))
    BY <2>1
  <2>5. \A u \in Threads : u # t => ~ Releasing(u)'
    BY <2>1, <1>4 DEF Releasing
  <2>6. \A i \in Slots : ~ (Pos(i)' < Pos(m_release_index)')
    BY <2>4, <1>1 DEF Pos
  <2>7. QED
    BY <2>1, <2>2, <2>3, <2>5, <2>6, <1>1, <1>4, <1>5, NobodyAssumption
       DEF ReleaserInv, Releasing
<1>8. QED
  BY <1>2, <1>3, <1>6, <1>7

\* Only the thread that owns m_releaseEnable is in updateBufferOffsets().
LEMMA OneReleaser ==
    ASSUME NEW t \in Threads, ReleaserInv, Releasing(t)
    PROVE  m_releaseEnable = t /\ \A u \in Threads : u # t => ~ Releasing(u)
BY DEF ReleaserInv

\* updateBufferOffsets() returns early.
LEMMA RingOlderHeld ==
    ASSUME NEW t \in Threads, TypeOK, RingInv, OlderEventHeld(t)
    PROVE  RingInv'
<1> USE PosType DEF RingInv
<1>1. /\ UNCHANGED <<m_reports, streamVars, m_getEventEnable, tmp_index, held,
                     rb_wptr, rb_rdptr, written, delivered>>
      /\ Oldest' = Oldest /\ NextReceive' = NextReceive /\ Recycled' = Recycled
      /\ \A i \in Slots : Pos(i)' = Pos(i)
      /\ m_releaseEnable' = Nobody
  BY DEF OlderEventHeld, streamVars, boardVars, Oldest, NextReceive, Recycled, Pos
<1>2. pc[t] = "update" /\ \A u \in Threads : pc'[u] = IF u = t THEN "idle" ELSE pc[u]
  BY DEF OlderEventHeld, TypeOK, ThreadTypeOK
<1>3. IndexOrder' /\ SlotContents' /\ MarkedOrHeld'
  BY <1>1 DEF IndexOrder, SlotContents, MarkedOrHeld, Outstanding, streamVars, Pos
<1>4. ReceiverInv'
  BY <1>1, <1>2 DEF ReceiverInv, Receiving
<1>5. ReleaserInv'
  <2>1. m_release_index = Oldest
    BY <1>2 DEF ReleaserInv
  <2>2. \A u \in Threads : ~ Releasing(u)'
    BY <1>2, OneReleaser DEF Releasing
  <2>3. QED
    BY <2>1, <2>2, <1>1, NobodyAssumption DEF ReleaserInv, Releasing, streamVars
<1>6. QED
  BY <1>3, <1>4, <1>5

\* The loop collects one entry.
LEMMA RingCollect ==
    ASSUME NEW t \in Threads, TypeOK, RingInv, CollectReleased(t)
    PROVE  RingInv'
<1> USE PosType DEF RingInv
<1> DEFINE l == m_release_index
           n == NextIndex(l, N)
           k == rel[t]
<1>1. /\ UNCHANGED <<m_receive_index, m_releaseEnable, m_getEventEnable, tmp_index, held,
                     rb_wptr, rb_rdptr, written, delivered>>
      /\ Oldest' = Oldest /\ NextReceive' = NextReceive /\ Recycled' = Recycled
      /\ \A i \in Slots : Pos(i)' = Pos(i)
      /\ m_release_index' = n
      /\ l \in Slots /\ n \in Slots
  BY NextTypes
     DEF CollectReleased, mutexVars, boardVars, Oldest, NextReceive, Recycled, Pos
<1>2. /\ pc[t] \in {"update", "collect"}
      /\ \A u \in Threads : pc'[u] = IF u = t THEN "collect" ELSE pc[u]
  BY DEF CollectReleased, TypeOK, ThreadTypeOK
<1>3. Outstanding(l) /\ m_release_map[l]
  BY DEF CollectReleased, MarkedOrHeld
<1>4. Pos(n) = Pos(l) + 1 /\ Pos(l) < Pos(NextReceive) /\ n # Oldest
  <2>1. Pos(l) < Pos(NextReceive)
    BY <1>3 DEF Outstanding
  <2>2. QED
    BY <2>1, <1>1
<1>5. \A i \in Slots : m_release_map'[i] = (m_release_map[i] /\ i # l)
  BY DEF CollectReleased, TypeOK, StreamTypeOK
<1>6. /\ k.start \in Slots /\ k.count \in Nat
      /\ k.start + k.count = l
      /\ \/ k.start = Oldest /\ Oldest <= l
         \/ k.start = 0 /\ l < Oldest
  BY <1>2 DEF ReleaserInv, TypeOK, ThreadTypeOK
<1>7. \A i \in Slots : k.start <= i /\ i <= l => Pos(i) <= Pos(l)
  BY <1>1, <1>6 DEF Pos, RingLength, Slots
<1>8. \A i \in Slots : Pos(i) > Pos(l) => m_reports'[i] = m_reports[i]
  <2> SUFFICES ASSUME NEW i \in Slots, Pos(i) > Pos(l) PROVE m_reports'[i] = m_reports[i]
    OBVIOUS
  <2>1. ~ (k.start <= i /\ i < k.start + (k.count + 1))
    BY <1>6, <1>7, <1>1 DEF Slots
  <2>2. QED
    BY <2>1 DEF CollectReleased, ClearedAtWrap, Memset
<1>9. IndexOrder'
  BY <1>1, <1>4 DEF IndexOrder, Pos
<1>10. SlotContents'
  BY <1>1, <1>4, <1>8 DEF SlotContents, IndexOrder, Pos
<1>11. MarkedOrHeld'
  <2>1. \A i \in Slots : Outstanding(i)' <=> Outstanding(i) /\ i # l
    <3> SUFFICES ASSUME NEW i \in Slots PROVE Outstanding(i)' <=> Outstanding(i) /\ i # l
      OBVIOUS
    <3>1. Outstanding(i)' <=> Pos(l) + 1 <= Pos(i) /\ Pos(i) < Pos(NextReceive)
      BY <1>1, <1>4 DEF Outstanding, Pos
    <3>2. QED
      BY <3>1, <1>1 DEF Outstanding
  <2>2. \A h \in held : h.ref \in Slots /\ h.ref # l
    BY <1>3 DEF MarkedOrHeld, TypeOK, ThreadTypeOK
  <2>3. \A h \in held : Pos(h.ref) > Pos(l)
    BY <2>1, <2>2, <1>1 DEF MarkedOrHeld, Outstanding
  <2>4. QED
    BY <2>1, <2>2, <2>3, <1>1, <1>5, <1>8 DEF MarkedOrHeld
<1>12. ReceiverInv'
  <2>1. Pos(NextReceive) > Pos(l)
    BY <1>4
  <2>2. QED
    BY <2>1, <1>1, <1>2, <1>8 DEF ReceiverInv, Receiving
<1>13. ReleaserInv'
  <2>1. Releasing(t) /\ m_releaseEnable = t /\ \A u \in Threads : u # t => ~ Releasing(u)
    BY <1>2, OneReleaser DEF Releasing
  <2>2. rel'[t] = Collected(k, l)
    BY DEF CollectReleased, TypeOK, ThreadTypeOK
  <2>3. NextIndex(rel'[t].rb, N) = n
    BY <2>2 DEF Collected
  <2>4. /\ rel'[t].start + rel'[t].count = n
        /\ \/ rel'[t].start = Oldest /\ Oldest <= n
           \/ rel'[t].start = 0 /\ n < Oldest
    <3>1. CASE n = 0
      BY <3>1, <2>2, <1>4 DEF Collected, Slots
    <3>2. CASE n # 0
      <4>1. n = l + 1
        BY <3>2 DEF NextIndex
      <4>2. rel'[t].start = k.start /\ rel'[t].count = k.count + 1
        BY <2>2, <3>2 DEF Collected
      <4>3. QED
        BY <4>1, <4>2, <1>1, <1>4, <1>6 DEF Slots
    <3>3. QED
      BY <3>1, <3>2
  <2>5. \A i \in Slots : Pos(i) < Pos(n) =>
            \/ rel'[t].start <= i /\ i < n
            \/ m_reports'[i] = NoReport
    <3> SUFFICES ASSUME NEW i \in Slots, Pos(i) < Pos(n),
                        ~ (rel'[t].start <= i /\ i < n)
                 PROVE  m_reports'[i] = NoReport
      OBVIOUS
    <3>1. CASE n = 0
      <4>1. m_reports'[i] = IF k.start <= i /\ i < k.start + (k.count + 1)
                            THEN NoReport ELSE m_reports[i]
        BY <3>1 DEF CollectReleased, ClearedAtWrap, Memset
      <4>2. CASE k.start <= i /\ i <= l
        BY <4>1, <4>2, <1>1, <1>6 DEF Slots
      <4>3. CASE ~ (k.start <= i /\ i <= l)
        <5>1. i # l /\ Pos(i) < Pos(l)
          BY <4>3, <1>1, <1>4, <1>6 DEF Slots
        <5>2. m_reports[i] = NoReport
          BY <5>1, <4>3, <1>2, <2>1, <1>6, <1>1 DEF ReleaserInv, Slots
        <5>3. QED
          BY <4>1, <5>2
      <4>4. QED
        BY <4>2, <4>3
    <3>2. CASE n # 0
      <4>1. n = l + 1 /\ rel'[t].start = k.start
        BY <3>2, <2>2 DEF NextIndex, Collected
      <4>2. i # l /\ Pos(i) < Pos(l)
        BY <4>1, <1>1, <1>4, <1>6 DEF Slots
      <4>3. m_reports[i] = NoReport
        BY <4>1, <4>2, <1>2, <2>1, <1>6, <1>1 DEF ReleaserInv, Slots
      <4>4. m_reports' = m_reports
        BY <3>2 DEF CollectReleased, ClearedAtWrap
      <4>5. QED
        BY <4>3, <4>4
    <3>3. QED
      BY <3>1, <3>2
  <2>6. \A u \in Threads : u # t => ~ Releasing(u)'
    BY <2>1, <1>2 DEF Releasing
  <2>7. pc'[t] = "collect" /\ Releasing(t)'
    BY <1>2 DEF Releasing
  <2>8. \A i \in Slots : Pos(i)' < Pos(m_release_index)' =>
            \/ rel'[t].start <= i /\ i < n
            \/ m_reports'[i] = NoReport
    BY <2>5, <1>1 DEF Pos
  <2>9. QED
    BY <2>1, <2>3, <2>4, <2>6, <2>7, <2>8, <1>1, <1>4, NobodyAssumption
       DEF ReleaserInv, Releasing
<1>14. QED
  BY <1>9, <1>10, <1>11, <1>12, <1>13

\* The collected descriptors are cleared.
LEMMA RingClear ==
    ASSUME NEW t \in Threads, TypeOK, RingInv, ClearReports(t)
    PROVE  RingInv'
<1> USE PosType DEF RingInv
<1> DEFINE l == m_release_index
           k == rel[t]
<1>1. /\ UNCHANGED <<streamVars, mutexVars, tmp_index, rel, held,
                     rb_wptr, rb_rdptr, written, delivered>>
      /\ Oldest' = Oldest /\ NextReceive' = NextReceive /\ Recycled' = Recycled
      /\ \A i \in Slots : Pos(i)' = Pos(i)
  BY DEF ClearReports, streamVars, boardVars, Oldest, NextReceive, Recycled, Pos
<1>2. pc[t] = "collect" /\ \A u \in Threads : pc'[u] = IF u = t THEN "sync" ELSE pc[u]
  BY DEF ClearReports, TypeOK, ThreadTypeOK
<1>3. /\ k.start \in Slots /\ k.count \in Nat
      /\ k.start + k.count = l
      /\ \/ k.start = Oldest /\ Oldest <= l
         \/ k.start = 0 /\ l < Oldest
  BY <1>2 DEF ReleaserInv, TypeOK, ThreadTypeOK
<1>4. \A i \in Slots : k.start <= i /\ i < l => Pos(i) < Pos(l)
  BY <1>3 DEF Pos, RingLength, Slots
<1>5. \A i \in Slots : m_reports'[i] = IF k.start <= i /\ i < l THEN NoReport ELSE m_reports[i]
  BY <1>3 DEF ClearReports, Memset
<1>6. \A i \in Slots : Pos(i) >= Pos(l) => m_reports'[i] = m_reports[i]
  BY <1>4, <1>5
<1>7. IndexOrder'
  BY <1>1 DEF IndexOrder, Pos, streamVars
<1>8. SlotContents'
  BY <1>1, <1>6 DEF SlotContents, IndexOrder, Pos, streamVars
<1>9. MarkedOrHeld'
  <2>1. \A h \in held : h.ref \in Slots /\ Pos(h.ref) >= Pos(l)
    BY DEF MarkedOrHeld, Outstanding, TypeOK, ThreadTypeOK
  <2>2. QED
    BY <2>1, <1>1, <1>6 DEF MarkedOrHeld, Outstanding, streamVars, Pos
<1>10. ReceiverInv'
  <2>1. Pos(NextReceive) >= Pos(l)
    BY DEF IndexOrder
  <2>2. QED
    BY <2>1, <1>1, <1>2, <1>6 DEF ReceiverInv, Receiving, mutexVars
<1>11. ReleaserInv'
  <2>1. Releasing(t) /\ m_releaseEnable = t /\ \A u \in Threads : u # t => ~ Releasing(u)
    BY <1>2, OneReleaser DEF Releasing
  <2>2. \A i \in Slots : Pos(i) < Pos(l) => m_reports'[i] = NoReport
    BY <1>2, <1>5, <2>1 DEF ReleaserInv
  <2>3. l # Oldest /\ NextIndex(k.rb, N) = l
    BY <1>2 DEF ReleaserInv
  <2>4. \A i \in Slots : Pos(i)' < Pos(m_release_index)' => m_reports'[i] = NoReport
    BY <2>2, <1>1 DEF Pos, streamVars
  <2>5. \A u \in Threads : u # t => ~ Releasing(u)'
    BY <2>1, <1>2 DEF Releasing
  <2>6. pc'[t] = "sync"
    BY <1>2
  <2>7. QED
    BY <2>1, <2>3, <2>4, <2>5, <2>6, <1>1, NobodyAssumption
       DEF ReleaserInv, Releasing, streamVars, mutexVars
<1>12. QED
  BY <1>7, <1>8, <1>9, <1>10, <1>11

\* The board gets the new read pointers: positions are counted from the release
\* index from now on.
LEMMA RingSync ==
    ASSUME NEW t \in Threads, TypeOK, RingInv, SetBufferOffsetsOnDevice(t)
    PROVE  RingInv'
<1> USE PosType DEF RingInv
<1> DEFINE l == m_release_index
<1>1. /\ UNCHANGED <<m_reports, m_receive_index, m_release_index, m_release_map,
                     m_getEventEnable, tmp_index, held, rb_wptr, written, delivered>>
      /\ NextReceive' = NextReceive
      /\ rb_rdptr' = rel[t].rb
      /\ m_releaseEnable' = Nobody
  BY DEF SetBufferOffsetsOnDevice, NextReceive
<1>2. pc[t] = "sync" /\ \A u \in Threads : pc'[u] = IF u = t THEN "idle" ELSE pc[u]
  BY DEF SetBufferOffsetsOnDevice, TypeOK, ThreadTypeOK
<1>3. Oldest' = l
  BY <1>1, <1>2 DEF Oldest, ReleaserInv
<1>4. \A i \in Slots : Pos(i)' = IF Pos(l) <= Pos(i) THEN Pos(i) - Pos(l)
                                                  ELSE N + Pos(i) - Pos(l)
  BY <1>3, RingLengthShift DEF Pos
<1>5. Recycled' = Recycled + Pos(l) /\ Recycled \in Int
  <2>1. Recycled = written - Pos(rb_wptr) /\ Recycled' = written - Pos(rb_wptr)'
    BY <1>1 DEF Recycled, Pos, Oldest
  <2>2. Pos(rb_wptr)' = Pos(rb_wptr) - Pos(l)
    BY <1>1, <1>4 DEF IndexOrder, Pos
  <2>3. QED
    BY <2>1, <2>2 DEF TypeOK, BoardTypeOK
<1>6. /\ Pos(m_release_index)' = 0
      /\ Pos(NextReceive)' = Pos(NextReceive) - Pos(l)
      /\ Pos(rb_wptr)' = Pos(rb_wptr) - Pos(l)
  BY <1>1, <1>4 DEF IndexOrder, Pos
<1>7. IndexOrder'
  BY <1>1, <1>5, <1>6 DEF IndexOrder
<1>8. \A i \in Slots : Pos(i) < Pos(l) => m_reports[i] = NoReport
  BY <1>2 DEF ReleaserInv, Releasing
<1>9. SlotContents'
  <2> SUFFICES ASSUME NEW i \in Slots
               PROVE  /\ Pos(rb_wptr)' <= Pos(i)' => m_reports[i] = NoReport
                      /\ Pos(m_release_index)' <= Pos(i)' /\ Pos(i)' < Pos(rb_wptr)' =>
                            m_reports[i].id = Recycled' + 1 + Pos(i)' /\ m_reports[i].size > 0
    BY <1>1 DEF SlotContents
  <2>1. CASE Pos(l) <= Pos(i)
    BY <2>1, <1>4, <1>5, <1>6 DEF SlotContents
  <2>2. CASE Pos(i) < Pos(l)
    <3>1. Pos(i)' >= Pos(rb_wptr)'
      BY <2>2, <1>4, <1>6
    <3>2. QED
      BY <2>2, <3>1, <1>4, <1>6, <1>8
  <2>3. QED
    BY <2>1, <2>2
<1>10. MarkedOrHeld'
  <2>1. \A i \in Slots : Outstanding(i)' <=> Outstanding(i)
    <3> SUFFICES ASSUME NEW i \in Slots PROVE Outstanding(i)' <=> Outstanding(i)
      OBVIOUS
    <3>1. Outstanding(i)' <=> 0 <= Pos(i)' /\ Pos(i)' < Pos(NextReceive) - Pos(l)
      BY <1>6 DEF Outstanding
    <3>2. QED
      BY <3>1, <1>4 DEF Outstanding
  <2>2. \A h \in held : h.ref \in Slots
    BY DEF TypeOK, ThreadTypeOK
  <2>3. QED
    BY <2>1, <2>2, <1>1 DEF MarkedOrHeld
<1>11. ReceiverInv'
  BY <1>1, <1>2 DEF ReceiverInv, Receiving
<1>12. ReleaserInv'
  <2>1. \A u \in Threads : ~ Releasing(u)'
    BY <1>2, OneReleaser DEF Releasing
  <2>2. QED
    BY <2>1, <1>1, <1>3, NobodyAssumption DEF ReleaserInv, Releasing
<1>13. QED
  BY <1>7, <1>9, <1>10, <1>11, <1>12

\* Every step of the board and of the threads keeps the ring invariant.
LEMMA NextRing == TypeOK /\ RingInv /\ [Next]_vars => RingInv'
<1> SUFFICES ASSUME TypeOK, RingInv, [Next]_vars PROVE RingInv'
  OBVIOUS
<1>1. CASE BoardStartEvent \/ BoardWritePacket \/ UNCHANGED vars
  BY <1>1, RingUnchanged
     DEF BoardStartEvent, BoardWritePacket, vars, streamVars, mutexVars, threadVars, boardVars
<1>2. CASE BoardWriteReport
  BY <1>2, RingWriteReport
<1>3. ASSUME NEW t \in Threads, GetNextEvent(t) \/ Receive(t) PROVE RingInv'
  BY <1>3, RingReceive
<1>4. ASSUME NEW t \in Threads, NEW h \in held, ReleaseEvent(t, h) PROVE RingInv'
  BY <1>4, RingRelease
<1>5. ASSUME NEW t \in Threads, Update(t) PROVE RingInv'
  BY <1>5, RingOlderHeld, RingCollect, RingClear, RingSync DEF Update
<1>6. QED
  BY <1>1, <1>2, <1>3, <1>4, <1>5 DEF Next, Board, Poll, Release

\* The indexes of the stream and the pointers of the board keep their order around
\* the ring, each entry holds what its position says, and entries are marked or
\* held only between the release and the receive index.
THEOREM RingInvariant == Spec => []RingInv
<1>1. QED
  BY InitRing, NextRing, TypeCorrect, PTL DEF Spec

\* The board may write only cleared entries: a descriptor is never overwritten
\* before its event was released, and no stale descriptor is taken for a new one.
THEOREM WritableAreClear == Spec => []WritableSlotsClear
<1>1. ASSUME TypeOK, RingInv PROVE WritableSlotsClear
  <2> SUFFICES ASSUME NEW i \in Slots, InRing(rb_wptr, rb_rdptr, i)
               PROVE  m_reports[i] = NoReport
    BY DEF WritableSlotsClear
  <2>1. Pos(rb_wptr) <= Pos(i)
    BY <1>1, PosType DEF InRing, Pos, Oldest, NextIndex, RingLength, Slots
  <2>2. QED
    BY <1>1, <2>1 DEF RingInv, SlotContents
<1>2. QED
  BY <1>1, TypeCorrect, RingInvariant, PTL

\* getNextEvent() returns false only if every reported event has been delivered.
THEOREM FalseMeansEmpty == Spec => FalseOnlyIfEmpty
<1>1. ASSUME TypeOK, RingInv, NEW t \in Threads, NoEvent(t) PROVE written = delivered
  <2> USE <1>1, PosType DEF RingInv
  <2>1. m_reports[NextReceive].size = 0
    BY DEF NoEvent, ReceiverInv, Receiving
  <2>2. ~ (Pos(NextReceive) < Pos(rb_wptr))
    BY <2>1 DEF SlotContents, IndexOrder
  <2>3. Pos(NextReceive) = Pos(rb_wptr)
    BY <2>2 DEF IndexOrder
  <2>4. delivered = Recycled + Pos(rb_wptr) /\ Recycled = written - Pos(rb_wptr)
    BY <2>3 DEF IndexOrder, Recycled, Pos, Oldest
  <2>5. QED
    BY <2>4 DEF TypeOK, BoardTypeOK
<1>2. TypeOK /\ RingInv /\ [Next]_vars =>
          [(\E t \in Threads : NoEvent(t)) => written = delivered]_vars
  BY <1>1
<1>3. QED
  BY <1>2, TypeCorrect, RingInvariant, PTL DEF Spec, FalseOnlyIfEmpty

-----------------------------------------------------------------------------
(* The stream implements EventFifo.                                         *)

\* The numbers of the held events tell them apart and lie between the recycled
\* and the delivered ones.
LEMMA HeldNumbers ==
    ASSUME TypeOK, RingInv
    PROVE  /\ \A h \in held : /\ h.report.id = Recycled + 1 + Pos(h.ref)
                             /\ Outstanding(h.ref)
                             /\ h.ref \in Slots
           /\ \A g, h \in held : g.report.id = h.report.id => g = h
<1> USE PosType DEF RingInv
<1>1. Recycled \in Int
  BY DEF Recycled, Pos, Oldest, TypeOK, BoardTypeOK
<1>2. \A h \in held : /\ h.report.id = Recycled + 1 + Pos(h.ref)
                     /\ Outstanding(h.ref)
                     /\ h.ref \in Slots
  <2> SUFFICES ASSUME NEW h \in held
               PROVE  /\ h.report.id = Recycled + 1 + Pos(h.ref)
                      /\ Outstanding(h.ref)
                      /\ h.ref \in Slots
    OBVIOUS
  <2>1. h.ref \in Slots /\ Outstanding(h.ref) /\ m_reports[h.ref] = h.report
    BY DEF MarkedOrHeld, TypeOK, ThreadTypeOK
  <2>2. Pos(m_release_index) <= Pos(h.ref) /\ Pos(h.ref) < Pos(rb_wptr)
    BY <2>1 DEF Outstanding, IndexOrder
  <2>3. QED
    BY <2>1, <2>2 DEF SlotContents
<1>3. ASSUME NEW g \in held, NEW h \in held, g.report.id = h.report.id PROVE g = h
  <2>1. g.ref = h.ref
    BY <1>1, <1>2, <1>3
  <2>2. g.report = h.report
    BY <2>1 DEF MarkedOrHeld
  <2>3. g \in [ref : Slots, report : Reports] /\ h \in [ref : Slots, report : Reports]
    BY DEF TypeOK, ThreadTypeOK
  <2>4. QED
    BY <2>1, <2>2, <2>3
<1>4. QED
  BY <1>2, <1>3

\* One more held reference is one more held number.
LEMMA NumbersOfUnion ==
    ASSUME NEW S, NEW g
    PROVE  {h.report.id : h \in S \union {g}} = {h.report.id : h \in S} \union {g.report.id}
OBVIOUS

\* A freshly initialised stream is an empty FIFO.
LEMMA InitImplements == Init => Fifo!Init
<1> SUFFICES ASSUME Init PROVE Fifo!Init
  OBVIOUS
<1>1. NextIndex(N - 1, N) = 0 /\ RingLength(0, 0, N) = 0
  BY DEF NextIndex, RingLength
<1>2. rb_rdptr = N - 1 /\ rb_wptr = 0 /\ written = 0
  BY DEF Init
<1>3. Recycled = 0
  BY <1>1, <1>2 DEF Recycled
<1>4. QED
  BY <1>3 DEF Init, Fifo!Init

\* BoardWriteReport is Write.
LEMMA WriteImplements ==
    ASSUME TypeOK, RingInv, BoardWriteReport PROVE Fifo!Write
<1> USE PosType DEF RingInv
<1>1. Recycled = written - Pos(rb_wptr) /\ Recycled' = written' - Pos(rb_wptr)'
  BY DEF Recycled, Pos, Oldest
<1>2. Pos(rb_wptr) < N - 1 /\ NextIndex(rb_wptr, N) # Oldest
  BY DEF BoardWriteReport
<1>3. Pos(rb_wptr)' = Pos(rb_wptr) + 1
  BY <1>2 DEF BoardWriteReport, Pos, Oldest
<1>4. Recycled' = Recycled
  BY <1>1, <1>3 DEF BoardWriteReport, TypeOK, BoardTypeOK
<1>5. written < MaxEvents
  BY DEF BoardWriteReport, TypeOK, BoardTypeOK
<1>6. written - Recycled < N - 1
  BY <1>1, <1>2 DEF TypeOK, BoardTypeOK
<1>7. QED
  BY <1>4, <1>5, <1>6 DEF Fifo!Write, BoardWriteReport, threadVars

\* TakeEvent is Deliver.
LEMMA TakeImplements ==
    ASSUME NEW t \in Threads, TypeOK, RingInv, TakeEvent(t) PROVE Fifo!Deliver
<1> USE PosType DEF RingInv
<1> DEFINE i == tmp_index[t]
           r == m_reports[i]
<1>1. i = NextReceive /\ i \in Slots /\ r.size # 0
  BY DEF TakeEvent, ReceiverInv, Receiving
<1>2. Pos(i) < Pos(rb_wptr) /\ Pos(m_release_index) <= Pos(i)
  BY <1>1 DEF SlotContents, IndexOrder, NoReport, Report
<1>3. r.id = Recycled + 1 + Pos(i)
  BY <1>1, <1>2 DEF SlotContents
<1>4. Recycled = written - Pos(rb_wptr)
  BY DEF Recycled, Pos, Oldest
<1>5. delivered < written /\ r.id = delivered + 1
  BY <1>1, <1>2, <1>3, <1>4 DEF IndexOrder, TypeOK, BoardTypeOK
<1>6. delivered' = r.id
  BY DEF TakeEvent
<1>7. {h.report.id : h \in held'} = {h.report.id : h \in held} \union {delivered + 1}
  <2>1. PICK g : g = [ref |-> i, report |-> r]
    OBVIOUS
  <2>2. held' = held \union {g}
    BY <2>1 DEF TakeEvent
  <2>3. g.report.id = delivered + 1
    BY <2>1, <1>5
  <2>4. QED
    BY <2>2, <2>3, NumbersOfUnion
<1>8. Recycled' = Recycled /\ written' = written
  BY DEF TakeEvent, Recycled, boardVars
<1>9. QED
  BY <1>5, <1>6, <1>7, <1>8 DEF Fifo!Deliver

\* ReleaseEvent is Release.
LEMMA ReleaseImplements ==
    ASSUME NEW t \in Threads, NEW h \in held, TypeOK, RingInv, ReleaseEvent(t, h)
    PROVE  Fifo!Release(h.report.id)
<1>1. held' = held \ {h}
  BY DEF ReleaseEvent
<1>2. {g.report.id : g \in held'} = {g.report.id : g \in held} \ {h.report.id}
  BY <1>1, HeldNumbers
<1>3. Recycled' = Recycled /\ UNCHANGED <<written, delivered>>
  BY DEF ReleaseEvent, MarkReleased, Recycled, boardVars
<1>4. QED
  BY <1>2, <1>3 DEF Fifo!Release

\* SetBufferOffsetsOnDevice is Recycle.
LEMMA SyncImplements ==
    ASSUME NEW t \in Threads, TypeOK, RingInv, SetBufferOffsetsOnDevice(t)
    PROVE  Recycled' \in 1..MaxEvents /\ Fifo!Recycle(Recycled')
<1> USE PosType DEF RingInv
<1> DEFINE l == m_release_index
<1>1. Oldest' = l /\ l # Oldest
  BY DEF SetBufferOffsetsOnDevice, Oldest, ReleaserInv
<1>2. Recycled = written - Pos(rb_wptr) /\ Recycled' = written - RingLength(l, rb_wptr, N)
  BY <1>1 DEF Recycled, Pos, Oldest, SetBufferOffsetsOnDevice
<1>3. RingLength(l, rb_wptr, N) = Pos(rb_wptr) - Pos(l)
  BY RingLengthShift DEF Pos, IndexOrder
<1>4. Recycled' = Recycled + Pos(l) /\ Pos(l) > 0 /\ Recycled \in Int
  BY <1>1, <1>2, <1>3 DEF TypeOK, BoardTypeOK
<1>5. /\ Recycled < Recycled' /\ Recycled' <= delivered
      /\ 1 <= Recycled' /\ Recycled' <= written /\ Recycled' \in Int
  BY <1>2, <1>4 DEF IndexOrder, TypeOK, BoardTypeOK
<1>6. \A e \in {h.report.id : h \in held} : Recycled' < e
  <2> SUFFICES ASSUME NEW h \in held PROVE Recycled' < h.report.id
    OBVIOUS
  <2>1. h.ref \in Slots /\ h.report.id = Recycled + 1 + Pos(h.ref) /\ Pos(l) <= Pos(h.ref)
    BY HeldNumbers DEF Outstanding
  <2>2. QED
    BY <2>1, <1>4
<1>7. UNCHANGED <<written, delivered, held>>
  BY DEF SetBufferOffsetsOnDevice
<1>8. Recycled' \in 1..MaxEvents
  BY <1>5 DEF TypeOK, BoardTypeOK
<1>9. QED
  BY <1>5, <1>6, <1>7, <1>8 DEF Fifo!Recycle

\* Every step of the board and of the threads is a step of EventFifo or a stutter.
LEMMA NextImplements ==
    TypeOK /\ RingInv /\ [Next]_vars => [Fifo!Next]_(Fifo!fifoVars)
<1> SUFFICES ASSUME TypeOK, RingInv, [Next]_vars
             PROVE  Fifo!Next \/ UNCHANGED Fifo!fifoVars
  OBVIOUS
<1> DEFINE Stutter == UNCHANGED <<written, delivered, held, rb_rdptr, rb_wptr>>
<1>1. Stutter => UNCHANGED Fifo!fifoVars
  BY DEF Fifo!fifoVars, Recycled
<1>2. CASE BoardStartEvent \/ BoardWritePacket \/ UNCHANGED vars
  BY <1>1, <1>2
     DEF BoardStartEvent, BoardWritePacket, vars, threadVars, boardVars
<1>3. CASE BoardWriteReport
  BY <1>3, WriteImplements DEF Fifo!Next
<1>4. ASSUME NEW t \in Threads, GetNextEvent(t) \/ Receive(t)
      PROVE  Fifo!Next \/ UNCHANGED Fifo!fifoVars
  <2>1. CASE TakeEvent(t)
    BY <2>1, TakeImplements DEF Fifo!Next
  <2>2. CASE GetNextEvent(t) \/ NoEvent(t) \/ FoundEvent(t)
    BY <2>2, <1>1 DEF GetNextEvent, NoEvent, FoundEvent, boardVars
  <2>3. QED
    BY <1>4, <2>1, <2>2 DEF Receive
<1>5. ASSUME NEW t \in Threads, NEW h \in held, ReleaseEvent(t, h) PROVE Fifo!Next
  BY <1>5, ReleaseImplements DEF Fifo!Next
<1>6. ASSUME NEW t \in Threads, Update(t)
      PROVE  Fifo!Next \/ UNCHANGED Fifo!fifoVars
  <2>1. CASE SetBufferOffsetsOnDevice(t)
    BY <2>1, SyncImplements DEF Fifo!Next
  <2>2. CASE OlderEventHeld(t) \/ CollectReleased(t) \/ ClearReports(t)
    BY <2>2, <1>1 DEF OlderEventHeld, CollectReleased, ClearReports, boardVars
  <2>3. QED
    BY <1>6, <2>1, <2>2 DEF Update
<1>7. QED
  BY <1>2, <1>3, <1>4, <1>5, <1>6 DEF Next, Board, Poll, Release

\* Every event is delivered exactly once and in order, may be released in any order
\* and by any thread, and its memory goes back to the board in order.
THEOREM StreamImplementsFifo == Spec => ImplementsFifo
<1>1. QED
  BY InitImplements, NextImplements, TypeCorrect, RingInvariant, PTL
     DEF Spec, Fifo!Spec, ImplementsFifo

-----------------------------------------------------------------------------
(***************************************************************************)
(* The payload of the events: what a thread has received stays in the event *)
(* buffer until the thread releases it.  Positions in the event buffer are  *)
(* counted from the packet behind the read pointer, the oldest packet the   *)
(* board may not overwrite.                                                 *)
(***************************************************************************)

(* The inductive invariant.                                                 *)

OldestPacket == NextIndex(eb_rdptr, M)
PacketPos(p) == RingLength(OldestPacket, p, M)

\* Reported events that updateBufferOffsets() has not collected, and the packets
\* of their payloads.
Unreleased(i) == Pos(m_release_index) <= Pos(i) /\ Pos(i) < Pos(rb_wptr)
Start(i) == PacketPos(m_reports[i].offset)
Stop(i)  == Start(i) + m_reports[i].size

\* The first packet behind the reported events.
Frontier == IF dma.size > 0 THEN PacketPos(dma.offset) ELSE PacketPos(eb_wptr)

\* Payloads follow each other in the order of the events, and the transfer
\* that is under way follows the last of them up to the write pointer.
PayloadOrder ==
    /\ \A i \in Slots : Unreleased(i) => Stop(i) <= Frontier
    /\ \A i, k \in Slots :
           Unreleased(i) /\ Unreleased(k) /\ Pos(i) < Pos(k) => Stop(i) <= Start(k)
    /\ dma.size > 0 => PacketPos(dma.offset) + dma.done = PacketPos(eb_wptr)

\* Every packet of an event that is not yet released is that event's.
PayloadContents ==
    /\ \A i \in Slots, p \in Packets :
           Unreleased(i) /\ Start(i) <= PacketPos(p) /\ PacketPos(p) < Stop(i) =>
               m_raw_event_buffer[p] = m_reports[i].id
    /\ \A p \in Packets :
           dma.size > 0 /\ PacketPos(dma.offset) <= PacketPos(p)
                        /\ PacketPos(p) < PacketPos(eb_wptr) =>
               m_raw_event_buffer[p] = written + 1

\* The read pointer a releaser is about to set lies in front of every event
\* that stays.
ReadPointerBehind ==
    \A t \in Threads : pc[t] \in {"collect", "sync"} =>
        /\ PacketPos(rel[t].eb) < Frontier
        /\ \A i \in Slots : Unreleased(i) => PacketPos(rel[t].eb) < Start(i)

PayloadInv == PayloadOrder /\ PayloadContents /\ ReadPointerBehind

-----------------------------------------------------------------------------
(* Positions in the event buffer.                                           *)

\* Distances around the event buffer: in range, telling packets apart, one more for
\* the successor unless the ring closes.
LEMMA PacketRing ==
    ASSUME NEW o \in Packets, NEW p \in Packets, NEW q \in Packets
    PROVE  /\ RingLength(o, p, M) \in 0 .. M-1
           /\ RingLength(o, p, M) = RingLength(o, q, M) => p = q
           /\ NextIndex(p, M) # o => RingLength(o, NextIndex(p, M), M) = RingLength(o, p, M) + 1
           /\ NextIndex(p, M) = o <=> RingLength(o, p, M) = M - 1
BY DEF RingLength, NextIndex, Packets

\* Distances measured from another packet of the ring.
LEMMA PacketRingShift ==
    ASSUME NEW o \in Packets, NEW l \in Packets, NEW p \in Packets
    PROVE  RingLength(l, p, M) =
               IF RingLength(o, l, M) <= RingLength(o, p, M)
               THEN RingLength(o, p, M) - RingLength(o, l, M)
               ELSE M + RingLength(o, p, M) - RingLength(o, l, M)
BY DEF RingLength, Packets

\* Packets have one predecessor.
LEMMA NextPacketInjective ==
    ASSUME NEW p \in Packets, NEW q \in Packets, NextIndex(p, M) = NextIndex(q, M)
    PROVE  p = q
BY DEF NextIndex, Packets

\* What the type invariant says of the positions of packets.
LEMMA PacketPosType ==
    ASSUME TypeOK
    PROVE  /\ OldestPacket \in Packets /\ eb_wptr \in Packets /\ eb_rdptr \in Packets
           /\ dma.offset \in Packets /\ dma.size \in 0..M /\ dma.done \in 0..M
           /\ written \in Nat
           /\ \A p \in Packets : PacketPos(p) \in 0 .. M-1
           /\ \A p, q \in Packets : PacketPos(p) = PacketPos(q) => p = q
           /\ \A p \in Packets :
                  NextIndex(p, M) # OldestPacket => PacketPos(NextIndex(p, M)) = PacketPos(p) + 1
           /\ \A p \in Packets : NextIndex(p, M) = OldestPacket <=> PacketPos(p) = M - 1
           /\ PacketPos(eb_rdptr) = M - 1
           /\ \A i \in Slots : /\ m_reports[i].offset \in Packets
                               /\ m_reports[i].size \in 0..M
                               /\ Start(i) \in 0 .. M-1
           /\ \A t \in Threads : rel[t].eb \in Packets
           /\ Frontier \in 0 .. M-1
<1>1. /\ OldestPacket \in Packets /\ eb_wptr \in Packets /\ eb_rdptr \in Packets
      /\ dma.offset \in Packets /\ dma.size \in 0..M /\ dma.done \in 0..M
      /\ written \in Nat
  BY NextTypes DEF TypeOK, BoardTypeOK, OldestPacket
<1>2. /\ \A p \in Packets : PacketPos(p) \in 0 .. M-1
      /\ \A p, q \in Packets : PacketPos(p) = PacketPos(q) => p = q
      /\ \A p \in Packets :
             NextIndex(p, M) # OldestPacket => PacketPos(NextIndex(p, M)) = PacketPos(p) + 1
      /\ \A p \in Packets : NextIndex(p, M) = OldestPacket <=> PacketPos(p) = M - 1
  BY <1>1, PacketRing DEF PacketPos
<1>3. PacketPos(eb_rdptr) = M - 1
  BY <1>1, <1>2 DEF OldestPacket
<1>4. \A i \in Slots : /\ m_reports[i].offset \in Packets
                       /\ m_reports[i].size \in 0..M
                       /\ Start(i) \in 0 .. M-1
  BY <1>2 DEF TypeOK, MemoryTypeOK, Reports, Start
<1>5. \A t \in Threads : rel[t].eb \in Packets
  BY DEF TypeOK, ThreadTypeOK
<1>6. Frontier \in 0 .. M-1
  BY <1>1, <1>2 DEF Frontier
<1>7. QED
  BY <1>1, <1>2, <1>3, <1>4, <1>5, <1>6

\* An event of which a packet is to come is being transferred.
LEMMA Transferring ==
    ASSUME TypeOK, dma.done < dma.size PROVE dma.size > 0
BY PacketPosType

-----------------------------------------------------------------------------
(* The payload invariant.                                                   *)

\* The payload invariant holds of the empty buffers.
LEMMA InitPayload == Init => PayloadInv
<1> SUFFICES ASSUME Init PROVE PayloadInv
  OBVIOUS
<1>1. \A i \in Slots : ~ Unreleased(i)
  <2>1. Oldest = 0 /\ rb_wptr = 0 /\ 0 \in Slots
    BY DEF Init, Oldest, NextIndex, Slots
  <2>2. Pos(rb_wptr) = 0 /\ \A i \in Slots : Pos(i) \in Nat
    BY <2>1, RingLengthRange DEF Pos
  <2>3. QED
    BY <2>2 DEF Unreleased
<1>2. dma.size = 0
  BY DEF Init, NoTransfer
<1>3. \A t \in Threads : pc[t] = "idle"
  BY DEF Init
<1>4. QED
  BY <1>1, <1>2, <1>3 DEF PayloadInv, PayloadOrder, PayloadContents, ReadPointerBehind

\* What the payload invariant is about, the descriptors left aside.
payloadVars == <<m_raw_event_buffer, rb_wptr, rb_rdptr, eb_wptr, eb_rdptr, dma, written>>

\* A step of the threads that clears or collects nothing, or only descriptors in
\* front of the release index, keeps the payload invariant.
LEMMA PayloadKept ==
    ASSUME TypeOK, TypeOK', PayloadInv, UNCHANGED payloadVars,
           \A i \in Slots : Unreleased(i)' => Unreleased(i) /\ m_reports'[i] = m_reports[i],
           ReadPointerBehind'
    PROVE  PayloadInv'
<1>1. /\ Frontier' = Frontier
      /\ \A p : PacketPos(p)' = PacketPos(p)
      /\ \A i : Pos(i)' = Pos(i)
  BY DEF payloadVars, Frontier, PacketPos, OldestPacket, Pos, Oldest
<1>2. \A i \in Slots : Unreleased(i)' =>
          /\ Unreleased(i) /\ m_reports'[i] = m_reports[i]
          /\ Start(i)' = Start(i) /\ Stop(i)' = Stop(i)
  BY <1>1 DEF Start, Stop
<1>3. PayloadOrder'
  BY <1>1, <1>2 DEF PayloadInv, PayloadOrder, payloadVars
<1>4. PayloadContents'
  BY <1>1, <1>2 DEF PayloadInv, PayloadContents, payloadVars
<1>5. QED
  BY <1>3, <1>4 DEF PayloadInv

\* The link delivers the next event.
LEMMA PayloadStartEvent ==
    ASSUME TypeOK, PayloadInv, BoardStartEvent PROVE PayloadInv'
<1> USE PacketPosType DEF PayloadInv
<1>1. /\ UNCHANGED <<m_reports, m_raw_event_buffer, pc, rel, m_release_index,
                     rb_wptr, rb_rdptr, eb_wptr, eb_rdptr, written>>
      /\ \A p : PacketPos(p)' = PacketPos(p)
      /\ \A i : Pos(i)' = Pos(i)
      /\ \A i : Unreleased(i)' = Unreleased(i) /\ Start(i)' = Start(i) /\ Stop(i)' = Stop(i)
  BY DEF BoardStartEvent, streamVars, threadVars, PacketPos, OldestPacket, Pos, Oldest,
         Unreleased, Start, Stop
<1>2. PICK s \in Sizes : dma' = [offset |-> eb_wptr, size |-> s, done |-> 0]
  BY DEF BoardStartEvent
<1>3. dma'.size > 0 /\ dma'.offset = eb_wptr /\ dma'.done = 0
  BY <1>2, SizesAssumption
<1>4. dma.size = 0
  BY DEF BoardStartEvent, NoTransfer
<1>5. Frontier' = Frontier
  BY <1>1, <1>3, <1>4 DEF Frontier
<1>6. PayloadOrder'
  BY <1>1, <1>3, <1>5 DEF PayloadOrder
<1>7. PayloadContents'
  BY <1>1, <1>3 DEF PayloadContents
<1>8. ReadPointerBehind'
  BY <1>1, <1>5 DEF ReadPointerBehind
<1>9. QED
  BY <1>6, <1>7, <1>8

\* A packet goes to the event buffer, behind every reported payload.
LEMMA PayloadWritePacket ==
    ASSUME TypeOK, PayloadInv, BoardWritePacket PROVE PayloadInv'
<1> USE PacketPosType, Transferring DEF PayloadInv
<1>1. /\ UNCHANGED <<m_reports, pc, rel, m_release_index, rb_wptr, rb_rdptr, eb_rdptr, written>>
      /\ \A p : PacketPos(p)' = PacketPos(p)
      /\ \A i : Pos(i)' = Pos(i)
      /\ \A i : Unreleased(i)' = Unreleased(i) /\ Start(i)' = Start(i) /\ Stop(i)' = Stop(i)
  BY DEF BoardWritePacket, streamVars, threadVars, PacketPos, OldestPacket, Pos, Oldest,
         Unreleased, Start, Stop
<1>2. /\ dma.done < dma.size /\ dma.size > 0
      /\ dma'.offset = dma.offset /\ dma'.size = dma.size /\ dma'.done = dma.done + 1
  BY DEF BoardWritePacket, TypeOK, BoardTypeOK
<1>3. PacketPos(eb_wptr)' = PacketPos(eb_wptr) + 1
  <2>1. NextIndex(eb_wptr, M) # OldestPacket
    BY NextPacketInjective DEF BoardWritePacket, OldestPacket
  <2>2. QED
    BY <2>1, <1>1 DEF BoardWritePacket
<1>4. Frontier' = Frontier /\ Frontier = PacketPos(dma.offset) /\ Frontier <= PacketPos(eb_wptr)
  BY <1>1, <1>2 DEF Frontier, PayloadOrder
<1>5. PayloadOrder'
  <2>1. PacketPos(dma.offset)' + dma'.done = PacketPos(eb_wptr)'
    BY <1>1, <1>2, <1>3 DEF PayloadOrder
  <2>2. /\ \A i \in Slots : Unreleased(i)' => Stop(i)' <= Frontier'
        /\ \A i, k \in Slots :
               Unreleased(i)' /\ Unreleased(k)' /\ Pos(i)' < Pos(k)' => Stop(i)' <= Start(k)'
    BY <1>1, <1>4 DEF PayloadOrder
  <2>3. QED
    BY <2>1, <2>2 DEF PayloadOrder
<1>6. \A p \in Packets : m_raw_event_buffer'[p] = IF p = eb_wptr THEN written + 1
                                                                ELSE m_raw_event_buffer[p]
  BY DEF BoardWritePacket, TypeOK, MemoryTypeOK
<1>7. PayloadContents'
  <2>1. ASSUME NEW i \in Slots, NEW p \in Packets,
               Unreleased(i), Start(i) <= PacketPos(p), PacketPos(p) < Stop(i)
        PROVE  m_raw_event_buffer'[p] = m_reports[i].id
    <3>1. Stop(i) <= PacketPos(eb_wptr) /\ Stop(i) \in Int
      BY <2>1, <1>4 DEF PayloadOrder, Stop
    <3>2. p # eb_wptr
      BY <2>1, <3>1
    <3>3. QED
      BY <2>1, <3>2, <1>6 DEF PayloadContents
  <2>2. ASSUME NEW p \in Packets, PacketPos(dma.offset) <= PacketPos(p),
               PacketPos(p) < PacketPos(eb_wptr) + 1
        PROVE  m_raw_event_buffer'[p] = written + 1
    BY <2>2, <1>2, <1>6 DEF PayloadContents
  <2>3. QED
    BY <2>1, <2>2, <1>1, <1>2, <1>3 DEF PayloadContents
<1>8. ReadPointerBehind'
  BY <1>1, <1>4 DEF ReadPointerBehind
<1>9. QED
  BY <1>5, <1>7, <1>8

\* The descriptor is written: the transferred event becomes the youngest reported one.
LEMMA PayloadWriteReport ==
    ASSUME TypeOK, RingInv, PayloadInv, BoardWriteReport PROVE PayloadInv'
<1> USE PosType, PacketPosType DEF PayloadInv
<1>0. PICK w \in Slots : w = rb_wptr
  OBVIOUS
<1>1. /\ UNCHANGED <<m_raw_event_buffer, pc, rel, m_release_index, rb_rdptr, eb_wptr, eb_rdptr>>
      /\ \A p : PacketPos(p)' = PacketPos(p)
      /\ \A i : Pos(i)' = Pos(i)
  BY DEF BoardWriteReport, streamVars, threadVars, PacketPos, OldestPacket, Pos, Oldest
<1>2. /\ m_reports'[w] = Report(written + 1, dma.offset, dma.size)
      /\ \A i \in Slots : i # w => m_reports'[i] = m_reports[i]
      /\ dma.size > 0 /\ dma.done = dma.size /\ dma'.size = 0
  BY <1>0 DEF BoardWriteReport, NoTransfer, TypeOK, MemoryTypeOK
<1>3. Pos(rb_wptr)' = Pos(w) + 1
  <2>1. NextIndex(w, N) # Oldest
    BY <1>0, NextIndexInjective DEF BoardWriteReport, Oldest
  <2>2. QED
    BY <2>1, <1>0, <1>1 DEF BoardWriteReport
<1>4. /\ \A i \in Slots : Unreleased(i)' => Unreleased(i) \/ i = w
      /\ \A i \in Slots : Unreleased(i) => i # w /\ Pos(i) < Pos(w)
  BY <1>0, <1>1, <1>3 DEF Unreleased
<1>5. /\ \A i \in Slots : i # w => Start(i)' = Start(i) /\ Stop(i)' = Stop(i)
      /\ Start(w)' = Frontier /\ Stop(w)' = PacketPos(eb_wptr)
      /\ Frontier' = PacketPos(eb_wptr) /\ Frontier <= PacketPos(eb_wptr)
  <2>1. PacketPos(dma.offset) + dma.size = PacketPos(eb_wptr)
    BY <1>2 DEF PayloadOrder
  <2>2. \A i \in Slots : i # w => Start(i)' = Start(i) /\ Stop(i)' = Stop(i)
    BY <1>1, <1>2 DEF Start, Stop
  <2>3. Start(w)' = PacketPos(dma.offset) /\ Stop(w)' = PacketPos(dma.offset) + dma.size
    BY <1>1, <1>2 DEF Start, Stop, Report
  <2>4. Frontier' = PacketPos(eb_wptr) /\ Frontier = PacketPos(dma.offset)
    BY <1>1, <1>2 DEF Frontier
  <2>5. QED
    BY <2>1, <2>2, <2>3, <2>4
<1>6. PayloadOrder'
  <2>1. ASSUME NEW i \in Slots, Unreleased(i)' PROVE Stop(i)' <= Frontier'
    <3>1. CASE i = w
      BY <3>1, <1>5
    <3>2. CASE i # w
      <4>1. Stop(i) <= Frontier /\ Stop(i) \in Int
        BY <2>1, <3>2, <1>4 DEF PayloadOrder, Stop
      <4>2. QED
        BY <4>1, <3>2, <1>5
    <3>3. QED
      BY <3>1, <3>2
  <2>2. ASSUME NEW i \in Slots, NEW k \in Slots, Unreleased(i)', Unreleased(k)', Pos(i)' < Pos(k)'
        PROVE  Stop(i)' <= Start(k)'
    <3>1. i # w /\ Unreleased(i)
      BY <2>2, <1>1, <1>4
    <3>2. CASE k = w
      BY <3>1, <3>2, <1>5 DEF PayloadOrder
    <3>3. CASE k # w
      BY <2>2, <3>1, <3>3, <1>1, <1>4, <1>5 DEF PayloadOrder
    <3>4. QED
      BY <3>2, <3>3
  <2>3. ~ (dma'.size > 0)
    BY <1>2
  <2>4. QED
    BY <2>1, <2>2, <2>3 DEF PayloadOrder
<1>7. PayloadContents'
  <2>1. ASSUME NEW i \in Slots, NEW p \in Packets,
               Unreleased(i)', Start(i)' <= PacketPos(p), PacketPos(p) < Stop(i)'
        PROVE  m_raw_event_buffer[p] = m_reports'[i].id
    <3>1. CASE i = w
      <4>1. PacketPos(dma.offset) <= PacketPos(p) /\ PacketPos(p) < PacketPos(eb_wptr)
        BY <2>1, <3>1, <1>2, <1>5 DEF Frontier
      <4>2. m_raw_event_buffer[p] = written + 1
        BY <4>1, <1>2 DEF PayloadContents
      <4>3. QED
        BY <4>2, <3>1, <1>2 DEF Report
    <3>2. CASE i # w
      BY <2>1, <3>2, <1>2, <1>4, <1>5 DEF PayloadContents
    <3>3. QED
      BY <3>1, <3>2
  <2>2. ~ (dma'.size > 0)
    BY <1>2
  <2>3. QED
    BY <2>1, <2>2, <1>1 DEF PayloadContents
<1>8. ReadPointerBehind'
  <2> SUFFICES ASSUME NEW t \in Threads, pc[t] \in {"collect", "sync"}
               PROVE  /\ PacketPos(rel[t].eb) < Frontier'
                      /\ \A i \in Slots : Unreleased(i)' => PacketPos(rel[t].eb) < Start(i)'
    BY <1>1 DEF ReadPointerBehind
  <2>1. PacketPos(rel[t].eb) < Frontier /\ PacketPos(rel[t].eb) \in Int
    BY DEF ReadPointerBehind
  <2>2. PacketPos(rel[t].eb) < Frontier'
    BY <2>1, <1>5
  <2>3. \A i \in Slots : Unreleased(i)' => PacketPos(rel[t].eb) < Start(i)'
    BY <2>1, <1>4, <1>5 DEF ReadPointerBehind
  <2>4. QED
    BY <2>2, <2>3
<1>9. QED
  BY <1>6, <1>7, <1>8

\* getNextEvent(), and the start and the early return of releaseEvent().
LEMMA PayloadThreads ==
    ASSUME NEW t \in Threads, TypeOK, TypeOK', PayloadInv,
           \/ GetNextEvent(t) \/ Receive(t) \/ OlderEventHeld(t)
           \/ \E h \in held : ReleaseEvent(t, h)
    PROVE  PayloadInv'
<1>1. /\ UNCHANGED payloadVars /\ m_reports' = m_reports
      /\ m_release_index' = m_release_index
      /\ \A u \in Threads : pc'[u] \in {"collect", "sync"} =>
             pc[u] \in {"collect", "sync"} /\ rel'[u] = rel[u]
  BY DEF Receive, GetNextEvent, NoEvent, FoundEvent, TakeEvent, OlderEventHeld, ReleaseEvent,
         MarkReleased, payloadVars, streamVars, boardVars, TypeOK, ThreadTypeOK
<1>2. /\ Frontier' = Frontier
      /\ \A p : PacketPos(p)' = PacketPos(p)
      /\ \A i : Unreleased(i)' = Unreleased(i) /\ Start(i)' = Start(i)
  BY <1>1 DEF payloadVars, Frontier, PacketPos, OldestPacket, Unreleased, Pos, Oldest, Start
<1>3. ReadPointerBehind'
  BY <1>1, <1>2 DEF PayloadInv, ReadPointerBehind
<1>4. QED
  BY <1>1, <1>2, <1>3, PayloadKept

\* What the memset() of a releaser clears lies in front of the release index.
LEMMA ClearedInFront ==
    ASSUME NEW t \in Threads, TypeOK, RingInv, CollectReleased(t) \/ ClearReports(t)
    PROVE  /\ \A i \in Slots : Pos(m_release_index)' <= Pos(i) => m_reports'[i] = m_reports[i]
           /\ Pos(m_release_index) <= Pos(m_release_index)'
           /\ \A i : Pos(i)' = Pos(i)
<1> USE PosType DEF RingInv
<1> DEFINE l == m_release_index
           k == rel[t]
<1>1. \A i : Pos(i)' = Pos(i)
  BY DEF CollectReleased, ClearReports, boardVars, Pos, Oldest
<1>2. /\ k.start \in Slots /\ k.count \in Nat
      /\ k.start + k.count = l
      /\ \/ k.start = Oldest /\ Oldest <= l
         \/ k.start = 0 /\ l < Oldest
  BY DEF CollectReleased, ClearReports, ReleaserInv, TypeOK, ThreadTypeOK
<1>3. \A i \in Slots : /\ k.start <= i /\ i < l => Pos(i) < Pos(l)
                       /\ k.start <= i /\ i <= l => Pos(i) <= Pos(l)
  BY <1>2 DEF Pos, RingLength, Slots
<1>4. CASE ClearReports(t)
  <2>1. m_release_index' = l
    BY <1>4 DEF ClearReports, streamVars
  <2>2. \A i \in Slots : m_reports'[i] = IF k.start <= i /\ i < l THEN NoReport ELSE m_reports[i]
    BY <1>2, <1>4 DEF ClearReports, Memset
  <2>3. QED
    BY <2>1, <2>2, <1>1, <1>3
<1>5. CASE CollectReleased(t)
  <2>1. /\ m_release_index' = NextIndex(l, N) /\ NextIndex(l, N) \in Slots
        /\ Outstanding(l)
    BY <1>5, NextTypes DEF CollectReleased, MarkedOrHeld
  <2>2. Pos(NextIndex(l, N)) = Pos(l) + 1
    BY <2>1 DEF Outstanding
  <2>3. ASSUME NEW i \in Slots, Pos(l) + 1 <= Pos(i) PROVE m_reports'[i] = m_reports[i]
    <3>1. ~ (k.start <= i /\ i < k.start + (k.count + 1))
      BY <2>3, <1>2, <1>3 DEF Slots
    <3>2. QED
      BY <3>1, <1>5 DEF CollectReleased, ClearedAtWrap, Memset
  <2>4. Pos(m_release_index)' = Pos(l) + 1
    BY <2>1, <2>2, <1>1
  <2>5. QED
    BY <2>3, <2>4, <1>1
<1>6. QED
  BY <1>4, <1>5

\* The loop of updateBufferOffsets() collects an event: the read pointer will be
\* its first packet, in front of all the others.
LEMMA PayloadCollect ==
    ASSUME NEW t \in Threads, TypeOK, TypeOK', RingInv, PayloadInv, CollectReleased(t)
    PROVE  PayloadInv'
<1> USE PosType, PacketPosType DEF PayloadInv
<1> DEFINE l == m_release_index
<1>1. UNCHANGED payloadVars
  BY DEF CollectReleased, payloadVars, boardVars
<1>2. Outstanding(l) /\ Unreleased(l) /\ m_reports[l].size > 0
  <2>1. Outstanding(l)
    BY DEF CollectReleased, RingInv, MarkedOrHeld
  <2>2. QED
    BY <2>1 DEF RingInv, IndexOrder, Outstanding, Unreleased, SlotContents
<1>3. Pos(m_release_index)' = Pos(l) + 1
  <2>1. /\ m_release_index' = NextIndex(l, N) /\ NextIndex(l, N) \in Slots
        /\ \A i : Pos(i)' = Pos(i)
    BY NextTypes, ClearedInFront DEF CollectReleased
  <2>2. Pos(NextIndex(l, N)) = Pos(l) + 1
    BY <1>2 DEF Outstanding
  <2>3. QED
    BY <2>1, <2>2
<1>4. \A i \in Slots : Unreleased(i)' =>
          /\ Unreleased(i) /\ Pos(l) < Pos(i)
          /\ m_reports'[i] = m_reports[i]
  <2>1. Pos(rb_wptr)' = Pos(rb_wptr) /\ \A i : Pos(i)' = Pos(i)
    BY <1>1 DEF payloadVars, Pos, Oldest
  <2>2. QED
    BY <2>1, <1>3, ClearedInFront DEF Unreleased
<1>5. /\ Frontier' = Frontier
      /\ \A p : PacketPos(p)' = PacketPos(p)
  BY <1>1 DEF payloadVars, Frontier, PacketPos, OldestPacket
<1>6. ReadPointerBehind'
  <2>1. /\ pc[t] \in {"update", "collect"}
        /\ \A u \in Threads : u # t => pc'[u] = pc[u]
        /\ rel'[t].eb = m_reports[l].offset
    BY DEF CollectReleased, TypeOK, ThreadTypeOK, Collected
  <2>2. \A u \in Threads : pc'[u] \in {"collect", "sync"} => u = t
    BY <2>1, OneReleaser DEF Releasing, RingInv
  <2>3. Start(l) < Stop(l)
    BY <1>2 DEF Stop
  <2>4. Start(l) < Frontier /\ \A i \in Slots : Unreleased(i)' => Start(l) < Start(i)
    <3>1. Stop(l) \in Int /\ Stop(l) <= Frontier
      BY <1>2 DEF PayloadOrder, Stop
    <3>2. \A i \in Slots : Unreleased(i)' => Stop(l) <= Start(i)
      BY <1>2, <1>4 DEF PayloadOrder
    <3>3. QED
      BY <3>1, <3>2, <2>3
  <2>5. \A i \in Slots : Unreleased(i)' => Start(i)' = Start(i)
    BY <1>4, <1>5 DEF Start
  <2>6. ASSUME NEW u \in Threads, pc'[u] \in {"collect", "sync"}
        PROVE  /\ PacketPos(rel[u].eb)' < Frontier'
               /\ \A i \in Slots : Unreleased(i)' => PacketPos(rel[u].eb)' < Start(i)'
    <3>1. PacketPos(rel[u].eb)' = Start(l)
      BY <2>1, <2>2, <2>6, <1>1 DEF PacketPos, OldestPacket, Start, payloadVars
    <3>2. QED
      BY <3>1, <2>4, <2>5, <1>5
  <2>7. QED
    BY <2>6 DEF ReadPointerBehind
<1>7. QED
  BY <1>1, <1>4, <1>6, PayloadKept

\* The collected descriptors are cleared.
LEMMA PayloadClear ==
    ASSUME NEW t \in Threads, TypeOK, TypeOK', RingInv, PayloadInv, ClearReports(t)
    PROVE  PayloadInv'
<1>1. /\ UNCHANGED payloadVars /\ m_release_index' = m_release_index /\ rel' = rel
      /\ \A u \in Threads : pc'[u] \in {"collect", "sync"} => pc[u] \in {"collect", "sync"}
  BY DEF ClearReports, payloadVars, boardVars, streamVars, TypeOK, ThreadTypeOK
<1>2. \A i \in Slots : Unreleased(i)' => Unreleased(i) /\ m_reports'[i] = m_reports[i]
  <2>1. /\ Pos(rb_wptr)' = Pos(rb_wptr) /\ \A i : Pos(i)' = Pos(i)
        /\ Pos(m_release_index)' = Pos(m_release_index)
    BY <1>1 DEF payloadVars, Pos, Oldest
  <2>2. QED
    BY <2>1, ClearedInFront DEF Unreleased
<1>3. /\ Frontier' = Frontier
      /\ \A p : PacketPos(p)' = PacketPos(p)
      /\ \A i \in Slots : Unreleased(i)' => Start(i)' = Start(i)
  <2>1. /\ Frontier' = Frontier
        /\ \A p : PacketPos(p)' = PacketPos(p)
    BY <1>1 DEF payloadVars, Frontier, PacketPos, OldestPacket
  <2>2. QED
    BY <1>2, <2>1 DEF Start
<1>4. ReadPointerBehind'
  BY <1>1, <1>2, <1>3 DEF PayloadInv, ReadPointerBehind
<1>5. QED
  BY <1>1, <1>2, <1>4, PayloadKept

\* The board gets the read pointer: positions are counted from the packet behind
\* it from now on, and no packet in front of it belongs to an event that stays.
LEMMA PayloadSync ==
    ASSUME NEW t \in Threads, TypeOK, RingInv, PayloadInv, SetBufferOffsetsOnDevice(t)
    PROVE  PayloadInv'
<1> USE PosType, PacketPosType DEF PayloadInv
<1>0. PICK e \in Packets : e = rel[t].eb
  OBVIOUS
<1> DEFINE shift == PacketPos(e) + 1
<1>1. /\ UNCHANGED <<m_reports, m_raw_event_buffer, m_release_index, rb_wptr, eb_wptr, dma, written>>
      /\ eb_rdptr' = e
      /\ pc[t] = "sync" /\ \A u \in Threads : pc'[u] = IF u = t THEN "idle" ELSE pc[u]
  BY <1>0 DEF SetBufferOffsetsOnDevice, TypeOK, ThreadTypeOK
<1>2. /\ PacketPos(e) < Frontier
      /\ \A i \in Slots : Unreleased(i) => PacketPos(e) < Start(i)
  BY <1>0, <1>1 DEF ReadPointerBehind
<1>3. /\ OldestPacket' = NextIndex(e, M) /\ NextIndex(e, M) \in Packets
      /\ PacketPos(NextIndex(e, M)) = shift
  <2>1. PacketPos(e) # M - 1
    BY <1>2
  <2>2. QED
    BY <2>1, <1>1, NextTypes DEF OldestPacket
<1>4. \A p \in Packets : PacketPos(p)' = IF shift <= PacketPos(p) THEN PacketPos(p) - shift
                                                                  ELSE M + PacketPos(p) - shift
  <2>1. \A p \in Packets : RingLength(NextIndex(e, M), p, M) =
            IF PacketPos(NextIndex(e, M)) <= PacketPos(p)
            THEN PacketPos(p) - PacketPos(NextIndex(e, M))
            ELSE M + PacketPos(p) - PacketPos(NextIndex(e, M))
    BY <1>3, PacketRingShift DEF PacketPos
  <2>2. \A p : PacketPos(p)' = RingLength(NextIndex(e, M), p, M)
    BY <1>3 DEF PacketPos
  <2>3. QED
    BY <2>1, <2>2, <1>3
<1>5. \A i \in Slots : Unreleased(i)' <=> Unreleased(i)
  <2>1. Oldest' = m_release_index
    BY <1>1 DEF SetBufferOffsetsOnDevice, Oldest, RingInv, ReleaserInv
  <2>2. \A i \in Slots : Pos(i)' = IF Pos(m_release_index) <= Pos(i)
                                   THEN Pos(i) - Pos(m_release_index)
                                   ELSE N + Pos(i) - Pos(m_release_index)
    BY <2>1, RingLengthShift DEF Pos
  <2>3. /\ Pos(m_release_index)' = 0
        /\ Pos(rb_wptr)' = Pos(rb_wptr) - Pos(m_release_index)
    BY <2>2, <1>1 DEF RingInv, IndexOrder, Pos
  <2>4. QED
    BY <2>2, <2>3 DEF Unreleased
<1>6. \A i, k \in Slots : Unreleased(i) /\ Unreleased(k) => (Pos(i)' < Pos(k)' <=> Pos(i) < Pos(k))
  <2>1. Oldest' = m_release_index
    BY <1>1 DEF SetBufferOffsetsOnDevice, Oldest, RingInv, ReleaserInv
  <2>2. \A i \in Slots : Unreleased(i) => Pos(i)' = Pos(i) - Pos(m_release_index)
    BY <2>1, RingLengthShift DEF Pos, Unreleased
  <2>3. QED
    BY <2>2
<1>7. /\ \A i \in Slots : Unreleased(i) => Start(i)' = Start(i) - shift /\ Stop(i)' = Stop(i) - shift
      /\ Frontier' = Frontier - shift
      /\ dma.size > 0 => PacketPos(dma.offset)' = PacketPos(dma.offset) - shift
      /\ dma.size > 0 => PacketPos(eb_wptr)' = PacketPos(eb_wptr) - shift
  <2>1. \A i \in Slots : Unreleased(i) => Start(i)' = Start(i) - shift /\ Stop(i)' = Stop(i) - shift
    <3> SUFFICES ASSUME NEW i \in Slots, Unreleased(i)
                 PROVE  Start(i)' = Start(i) - shift /\ Stop(i)' = Stop(i) - shift
      OBVIOUS
    <3>1. PICK o \in Packets : o = m_reports[i].offset
      OBVIOUS
    <3>2. Start(i)' = PacketPos(o)' /\ Start(i) = PacketPos(o)
      BY <1>1, <3>1 DEF Start
    <3>3. shift <= PacketPos(o)
      BY <3>2, <1>2
    <3>4. Start(i)' = Start(i) - shift
      BY <3>2, <3>3, <1>4
    <3>5. Stop(i) = Start(i) + m_reports[i].size /\ Stop(i)' = Start(i)' + m_reports[i].size
      BY <1>1 DEF Stop
    <3>6. QED
      BY <3>4, <3>5
  <2>2. PICK o \in Packets, w \in Packets : o = dma.offset /\ w = eb_wptr
    OBVIOUS
  <2>3. /\ PacketPos(dma.offset)' = PacketPos(o)' /\ PacketPos(dma.offset) = PacketPos(o)
        /\ PacketPos(eb_wptr)' = PacketPos(w)' /\ PacketPos(eb_wptr) = PacketPos(w)
    BY <1>1, <2>2 DEF PacketPos
  <2>4. Frontier = (IF dma.size > 0 THEN PacketPos(o) ELSE PacketPos(w))
    BY <2>3 DEF Frontier
  <2>5. Frontier' = (IF dma.size > 0 THEN PacketPos(o)' ELSE PacketPos(w)')
    BY <1>1, <2>3 DEF Frontier
  <2>6. dma.size > 0 => PacketPos(o) <= PacketPos(w)
    BY <2>3 DEF PayloadOrder
  <2>7. QED
    BY <2>1, <2>3, <2>4, <2>5, <2>6, <1>2, <1>4
<1>8. PayloadOrder'
  <2>1. \A i \in Slots : Unreleased(i)' => Stop(i)' <= Frontier'
    BY <1>5, <1>7 DEF PayloadOrder, Stop
  <2>2. \A i, k \in Slots :
            Unreleased(i)' /\ Unreleased(k)' /\ Pos(i)' < Pos(k)' => Stop(i)' <= Start(k)'
    BY <1>5, <1>6, <1>7 DEF PayloadOrder, Stop
  <2>3. dma'.size > 0 => PacketPos(dma.offset)' + dma'.done = PacketPos(eb_wptr)'
    BY <1>1, <1>7 DEF PayloadOrder
  <2>4. QED
    BY <2>1, <2>2, <2>3 DEF PayloadOrder
<1>9. PayloadContents'
  <2>1. \A p \in Packets : PacketPos(p)' < M - shift => PacketPos(p) = PacketPos(p)' + shift
    BY <1>4
  <2>2. ASSUME NEW i \in Slots, NEW p \in Packets,
               Unreleased(i)', Start(i)' <= PacketPos(p)', PacketPos(p)' < Stop(i)'
        PROVE  m_raw_event_buffer[p] = m_reports[i].id
    <3>1. Unreleased(i) /\ Stop(i) <= Frontier /\ Stop(i) \in Int
      BY <2>2, <1>5 DEF PayloadOrder, Stop
    <3>2. PacketPos(p)' < M - shift /\ PacketPos(p)' \in Int
      BY <2>2, <3>1, <1>4, <1>7
    <3>3. Start(i) <= PacketPos(p) /\ PacketPos(p) < Stop(i)
      BY <2>1, <2>2, <3>1, <3>2, <1>7
    <3>4. QED
      BY <3>1, <3>3 DEF PayloadContents
  <2>3. ASSUME NEW p \in Packets, dma.size > 0, PacketPos(dma.offset)' <= PacketPos(p)',
               PacketPos(p)' < PacketPos(eb_wptr)'
        PROVE  m_raw_event_buffer[p] = written + 1
    <3>1. PacketPos(p)' < M - shift /\ PacketPos(p)' \in Int
      BY <2>3, <1>4, <1>7
    <3>2. PacketPos(dma.offset) <= PacketPos(p) /\ PacketPos(p) < PacketPos(eb_wptr)
      BY <2>1, <2>3, <3>1, <1>7
    <3>3. QED
      BY <2>3, <3>2 DEF PayloadContents
  <2>4. QED
    BY <2>2, <2>3, <1>1 DEF PayloadContents
<1>10. ReadPointerBehind'
  <2>1. \A u \in Threads : pc'[u] \notin {"collect", "sync"}
    BY <1>1, OneReleaser DEF Releasing, RingInv
  <2>2. QED
    BY <2>1 DEF ReadPointerBehind
<1>11. QED
  BY <1>8, <1>9, <1>10

\* Every step of the board and of the threads keeps the payload invariant.
LEMMA NextPayload ==
    TypeOK /\ TypeOK' /\ RingInv /\ PayloadInv /\ [Next]_vars => PayloadInv'
<1> SUFFICES ASSUME TypeOK, TypeOK', RingInv, PayloadInv, [Next]_vars PROVE PayloadInv'
  OBVIOUS
<1>1. CASE Board
  BY <1>1, PayloadStartEvent, PayloadWritePacket, PayloadWriteReport DEF Board
<1>2. ASSUME NEW t \in Threads,
             \/ GetNextEvent(t) \/ Receive(t) \/ OlderEventHeld(t)
             \/ \E h \in held : ReleaseEvent(t, h)
      PROVE  PayloadInv'
  BY <1>2, PayloadThreads
<1>3. ASSUME NEW t \in Threads, Update(t) PROVE PayloadInv'
  BY <1>2, <1>3, PayloadCollect, PayloadClear, PayloadSync DEF Update
<1>4. CASE UNCHANGED vars
  <2>1. /\ UNCHANGED payloadVars /\ m_reports' = m_reports
        /\ m_release_index' = m_release_index /\ UNCHANGED <<pc, rel>>
    BY <1>4 DEF vars, payloadVars, streamVars, threadVars, boardVars
  <2>2. /\ Frontier' = Frontier
        /\ \A p : PacketPos(p)' = PacketPos(p)
        /\ \A i : Unreleased(i)' = Unreleased(i) /\ Start(i)' = Start(i)
    BY <2>1 DEF payloadVars, Frontier, PacketPos, OldestPacket, Unreleased, Pos, Oldest, Start
  <2>3. ReadPointerBehind'
    BY <2>1, <2>2 DEF PayloadInv, ReadPointerBehind
  <2>4. QED
    BY <2>1, <2>2, <2>3, PayloadKept
<1>5. QED
  BY <1>1, <1>2, <1>3, <1>4 DEF Next, Poll, Release

\* Payloads lie in the event buffer in the order of their events, every packet of
\* an event that is not released is that event's, and the read pointer the board
\* gets never passes one of them.
THEOREM PayloadInvariant == Spec => []PayloadInv
<1>1. QED
  BY InitPayload, NextPayload, TypeCorrect, RingInvariant, PTL DEF Spec

\* What getNextEvent() handed out, descriptor and payload, stays as it is until
\* releaseEvent() is called, whatever the board and other releasers do.
THEOREM HeldStayIntact == Spec => []HeldIntact
<1>1. ASSUME TypeOK, RingInv, PayloadInv PROVE HeldIntact
  <2> USE <1>1, PosType, PacketPosType DEF RingInv, PayloadInv
  <2> SUFFICES ASSUME NEW h \in held
               PROVE  /\ m_reports[h.ref] = h.report
                      /\ \A p \in Payload(h.report) : m_raw_event_buffer[p] = h.report.id
    BY DEF HeldIntact
  <2>1. h.ref \in Slots /\ m_reports[h.ref] = h.report /\ Unreleased(h.ref)
    BY DEF MarkedOrHeld, TypeOK, ThreadTypeOK, Outstanding, IndexOrder, Unreleased
  <2>2. ASSUME NEW p \in Payload(h.report) PROVE m_raw_event_buffer[p] = h.report.id
    <3> DEFINE o == h.report.offset
    <3>1. p \in Packets /\ RingLength(o, p, M) < h.report.size /\ o \in Packets
      BY <2>1, <2>2 DEF Payload
    <3>2. Start(h.ref) = PacketPos(o) /\ Stop(h.ref) = PacketPos(o) + h.report.size
      BY <2>1 DEF Start, Stop
    <3>3. PacketPos(o) + h.report.size <= M - 1
      BY <2>1, <3>2 DEF PayloadOrder
    <3>4. RingLength(o, p, M) = IF PacketPos(o) <= PacketPos(p)
                                THEN PacketPos(p) - PacketPos(o)
                                ELSE M + PacketPos(p) - PacketPos(o)
      BY <3>1, PacketRingShift DEF PacketPos
    <3>5. PacketPos(o) <= PacketPos(p) /\ PacketPos(p) < PacketPos(o) + h.report.size
      BY <2>1, <3>1, <3>3, <3>4
    <3>6. QED
      BY <2>1, <3>1, <3>2, <3>5 DEF PayloadContents
  <2>3. QED
    BY <2>1, <2>2
<1>2. QED
  BY <1>1, TypeCorrect, RingInvariant, PayloadInvariant, PTL
=============================================================================
