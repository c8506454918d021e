------------------------------- MODULE SgList -------------------------------
(***************************************************************************)
(* The scatter-gather list of a DMA buffer: read from the kernel and merged  *)
(* by buffer::initializeSglist(), split and written to a buffer descriptor   *)
(* RAM by dma_channel::configureBufferDescriptorRam(), and used by           *)
(* composeSglistFromBufferSegment() to find the memory of an event that      *)
(* dma_channel::announceEvent() gives to a channel to the device.  One       *)
(* action per loop iteration of src/src/buffer.cpp and                      *)
(* src/src/dma_channel.cpp.                                                  *)
(*                                                                          *)
(* Addresses and lengths are counted in words; a page has PageSize words,    *)
(* and Limit words are the 2^32 bytes a 32 bit length cannot express.  The   *)
(* kernel's lists and the device, which reads a descriptor RAM up to the     *)
(* first entry of length 0, are external, and so is the reader of the        *)
(* descriptor FIFO of a channel to the device, whose depth is not modelled.  *)
(***************************************************************************)
EXTENDS Integers, Sequences

CONSTANTS
    PageSize,    \* PAGE_SIZE
    Limit,       \* 2^32
    Scatters,    \* scatter lists the kernel may have built for the buffer
    MaxSg        \* entries of the buffer descriptor RAM

ASSUME SizesAssumption ==
    /\ PageSize \in Nat \ {0}
    /\ Limit \in Nat /\ Limit % PageSize = 0 /\ Limit > PageSize
    /\ MaxSg \in Nat \ {0}

\* The kernel hands out whole pages, none twice, and its lengths have 32 bits.
Disjoint(e, f) == e.pointer + e.length <= f.pointer \/ f.pointer + f.length <= e.pointer

Entries == [pointer : Nat, length : Nat]

ASSUME ScattersAssumption ==
    \A s \in Scatters :
        /\ s \in Seq(Entries)
        /\ \A k \in DOMAIN s : /\ s[k].pointer % PageSize = 0
                               /\ s[k].length \in 1..Limit-1 /\ s[k].length % PageSize = 0
        /\ \A j, k \in DOMAIN s : j # k => Disjoint(s[j], s[k])

VARIABLES
    scatter,               \* the kernel's list
    pc, call,              \* where the call is, and which call it is
    m_sglist_initialized, m_sglist_vector,
    i, entry,              \* locals of initializeSglist()
    iter, split, newlist,  \* locals of prepareSgList()
    entry_addr,            \* local of configureBufferDescriptorRam()
    ram, n_sg_config,      \* the device: descriptor RAM and registers,
    fifo,                  \* and the descriptors of announced events
    offset, size,          \* arguments of composeSglistFromBufferSegment()
    cur_offset, rem_size, list,
    sent,                  \* what the device has read of the announced event
    result

bufferVars  == <<m_sglist_initialized, m_sglist_vector>>
loadVars    == <<i, entry>>
prepareVars == <<iter, split, newlist, entry_addr>>
deviceVars  == <<ram, n_sg_config, fifo>>
composeVars == <<offset, size, cur_offset, rem_size, list, sent>>
vars == <<scatter, pc, call, bufferVars, loadVars, prepareVars, deviceVars, composeVars, result>>

Entry(p, l) == [pointer |-> p, length |-> l]
Zero  == Entry(0, 0)
Stale == Entry(0, PageSize)            \* left in the RAM by an earlier buffer

\* The words the first k entries of a list hold together, and all of them.
Sums(l)    == LET sum[k \in 0..Len(l)] == IF k = 0 THEN 0 ELSE sum[k - 1] + l[k].length IN sum
Lengths(l) == Sums(l)[Len(l)]
Total == Lengths(scatter)              \* getPhysicalSize()

Init ==
    /\ scatter \in Scatters
    /\ pc = "idle" /\ call = "none"
    /\ m_sglist_initialized = FALSE /\ m_sglist_vector = <<>>
    /\ i = 1 /\ entry = Zero
    /\ iter = 1 /\ split = 0 /\ newlist = <<>> /\ entry_addr = 0
    /\ ram = [a \in 0..MaxSg-1 |-> Stale] /\ n_sg_config = 0
    /\ offset = 0 /\ size = 0 /\ cur_offset = 0 /\ rem_size = 0 /\ list = <<>>
    /\ fifo = <<>> /\ sent = <<>>
    /\ result = "none"

NoSegment == offset' = 0 /\ size' = 0 /\ cur_offset' = 0 /\ rem_size' = 0 /\ list' = <<>> /\ sent' = <<>>
NewList   == iter' = 1 /\ split' = 0 /\ newlist' = <<>> /\ entry_addr' = 0

Return(r) == pc' = "idle" /\ result' = r

-----------------------------------------------------------------------------
(* initializeSglist(), called by the first function that needs the list.     *)

CallConfigure ==
    /\ pc = "idle"
    /\ pc' = IF m_sglist_initialized THEN "prepare" ELSE "load"
    /\ call' = "configure"
    /\ i' = 1
    /\ NewList
    /\ NoSegment
    /\ UNCHANGED <<scatter, bufferVars, entry, deviceVars, result>>

CallCompose ==
    /\ pc = "idle"
    /\ offset' \in 0..Total
    /\ size' \in 0..Total
    /\ cur_offset' = offset' /\ rem_size' = size' /\ list' = <<>> /\ sent' = <<>>
    /\ pc' = IF m_sglist_initialized \/ size' = 0 THEN "compose" ELSE "load"
    /\ call' = "compose"
    /\ i' = 1
    /\ NewList
    /\ UNCHANGED <<scatter, bufferVars, entry, deviceVars, result>>

LoadEntry ==
    /\ pc = "load"
    /\ i <= Len(scatter)
    /\ entry' = Entry(scatter[i].pointer, scatter[i].length)
    /\ pc' = "merge"
    /\ UNCHANGED <<scatter, call, bufferVars, i, prepareVars, deviceVars, composeVars, result>>

\* The next entry continues this one.  The sum tested is not the merged length.
MergeableGap == i < Len(scatter)            \* fault: the addresses are not compared
Mergeable ==
    /\ i < Len(scatter)
    /\ entry.pointer + entry.length = scatter[i + 1].pointer
    /\ entry.length + scatter[i].length < Limit - 1

MergeNext ==
    /\ pc = "merge"
    /\ Mergeable
    /\ entry' = [entry EXCEPT !.length = @ + scatter[i + 1].length]
    /\ i' = i + 1
    /\ UNCHANGED <<scatter, pc, call, bufferVars, prepareVars, deviceVars, composeVars, result>>

PushEntry ==
    /\ pc = "merge"
    /\ ~ Mergeable
    /\ m_sglist_vector' = Append(m_sglist_vector, entry)
    /\ i' = i + 1
    /\ pc' = "load"
    /\ UNCHANGED <<scatter, call, m_sglist_initialized, entry, prepareVars, deviceVars,
                   composeVars, result>>

LoadDone ==
    /\ pc = "load" /\ call # "count"
    /\ i > Len(scatter)
    /\ m_sglist_initialized' = TRUE
    /\ pc' = IF call = "configure" THEN "prepare" ELSE "compose"
    /\ UNCHANGED <<scatter, call, m_sglist_vector, loadVars, prepareVars, deviceVars, composeVars,
                   result>>

\* The size of the kernel's list cannot be read, or the list not be mapped.
\* sgList() and getnSGEntries() do not look at the result: they return an empty
\* list and its length; only offsetToPhysAddr() gives up.
LoadFails ==
    /\ pc = "load"
    /\ i = 1
    /\ \/ call = "configure" /\ pc' = "prepare" /\ UNCHANGED <<n_sg_config, result>>
       \/ call = "compose" /\ Return("false") /\ UNCHANGED n_sg_config
       \/ call = "count" /\ n_sg_config' = 0 /\ Return("ok")
    /\ UNCHANGED <<scatter, call, bufferVars, loadVars, prepareVars, ram, fifo, composeVars>>

\* getnSGEntries() has tried once more, with success.
CountEntries ==
    /\ pc = "load" /\ call = "count"
    /\ i > Len(scatter)
    /\ m_sglist_initialized' = TRUE
    /\ n_sg_config' = Len(m_sglist_vector)
    /\ Return("ok")
    /\ UNCHANGED <<scatter, call, m_sglist_vector, loadVars, prepareVars, ram, fifo, composeVars>>

-----------------------------------------------------------------------------
(* prepareSgList() and configureBufferDescriptorRam().                      *)

SplitWhole  == Limit                   \* fault: a length of exactly 2^32
SplitLength == Limit - PageSize

\* What is left of the entry prepareSgList() is at.
Remaining == m_sglist_vector[iter].length - split

SplitEntry ==
    /\ pc = "prepare"
    /\ iter <= Len(m_sglist_vector)
    /\ Remaining >= Limit
    /\ newlist' = Append(newlist, Entry(m_sglist_vector[iter].pointer + split, SplitLength))
    /\ split' = split + SplitLength
    /\ UNCHANGED <<scatter, pc, call, bufferVars, loadVars, iter, entry_addr, deviceVars,
                   composeVars, result>>

KeepEntry ==
    /\ pc = "prepare"
    /\ iter <= Len(m_sglist_vector)
    /\ Remaining < Limit
    /\ newlist' = Append(newlist, Entry(m_sglist_vector[iter].pointer + split, Remaining))
    /\ split' = 0
    /\ iter' = iter + 1
    /\ UNCHANGED <<scatter, pc, call, bufferVars, loadVars, entry_addr, deviceVars, composeVars,
                   result>>

\* EFBIG unless the list and a trailing entry fit into the RAM.
Fits == Len(newlist) < MaxSg

PrepareDone ==
    /\ pc = "prepare"
    /\ iter > Len(m_sglist_vector)
    /\ IF Fits THEN pc' = "push" /\ UNCHANGED result ELSE Return("EFBIG")
    /\ UNCHANGED <<scatter, call, bufferVars, loadVars, prepareVars, deviceVars, composeVars>>

\* pushSglistEntryToRAM(): the length register has 32 bits.
Pushed(e) == Entry(e.pointer, e.length % Limit)

WriteEntry ==
    /\ pc = "push"
    /\ entry_addr < Len(newlist)
    /\ ram' = [ram EXCEPT ![entry_addr] = Pushed(newlist[entry_addr + 1])]
    /\ entry_addr' = entry_addr + 1
    /\ UNCHANGED <<scatter, pc, call, bufferVars, loadVars, iter, split, newlist, n_sg_config, fifo,
                   composeVars, result>>

\* The trailing entry, and then the number of entries of the buffer: a list that
\* could not be read is tried again ("count").
ClearTrailing ==
    /\ pc = "push"
    /\ entry_addr = Len(newlist)
    /\ ram' = [ram EXCEPT ![entry_addr] = Zero]
    /\ IF m_sglist_initialized
       THEN n_sg_config' = Len(m_sglist_vector) /\ Return("ok") /\ UNCHANGED <<call, i>>
       ELSE call' = "count" /\ pc' = "load" /\ i' = 1 /\ UNCHANGED <<n_sg_config, result>>
    /\ UNCHANGED <<scatter, bufferVars, entry, prepareVars, fifo, composeVars>>

-----------------------------------------------------------------------------
(* composeSglistFromBufferSegment()                                         *)

Start(k) == Sums(m_sglist_vector)[k - 1]

\* The entry an offset falls into, and offsetToPhysAddr(): the physical address
\* and what is left of the entry.
EntriesAt(o) ==
    {k \in DOMAIN m_sglist_vector : Start(k) <= o /\ o < Start(k) + m_sglist_vector[k].length}

offsetToPhysAddr(o) ==
    LET k == CHOOSE k \in EntriesAt(o) : TRUE
    IN  [phys_addr |-> m_sglist_vector[k].pointer + (o - Start(k)),
         rem_sg_length |-> m_sglist_vector[k].length - (o - Start(k))]

\* physAddrToOffset(): the offset a physical address belongs to.
Holds(e, a) == e.pointer <= a /\ a < e.pointer + e.length

physAddrToOffset(a) ==
    LET k == CHOOSE k \in DOMAIN m_sglist_vector : Holds(m_sglist_vector[k], a)
    IN  Start(k) + (a - m_sglist_vector[k].pointer)

\* To the next page boundary first, and at most what 32 bits and the event allow.
SegmentAll(p) == p.rem_sg_length       \* fault: starts in the middle of a page are not split
SegmentLength(p) ==
    IF p.phys_addr % PageSize # 0 THEN PageSize - (p.phys_addr % PageSize)
    ELSE IF p.rem_sg_length >= Limit THEN Limit - PageSize
    ELSE p.rem_sg_length

\* The offset wraps around at the end of the buffer.
Wrap(o) == IF o = Total THEN 0 ELSE o

ComposeEntry ==
    LET p      == offsetToPhysAddr(cur_offset)
        length == IF SegmentLength(p) >= rem_size THEN rem_size ELSE SegmentLength(p)
    IN
    /\ pc = "compose"
    /\ rem_size > 0
    /\ EntriesAt(cur_offset) # {}
    /\ list' = Append(list, Entry(p.phys_addr, length))
    /\ rem_size' = rem_size - length
    /\ cur_offset' = Wrap(cur_offset + length)
    /\ UNCHANGED <<scatter, pc, call, bufferVars, loadVars, prepareVars, deviceVars,
                   offset, size, sent, result>>

ComposeFails ==
    /\ pc = "compose"
    /\ rem_size > 0
    /\ EntriesAt(cur_offset) = {}
    /\ Return("false")
    /\ UNCHANGED <<scatter, call, bufferVars, loadVars, prepareVars, deviceVars, composeVars>>

ComposeDone ==
    /\ pc = "compose"
    /\ rem_size = 0
    /\ Return("true")
    /\ UNCHANGED <<scatter, call, bufferVars, loadVars, prepareVars, deviceVars, composeVars>>

-----------------------------------------------------------------------------
(* announceEvent(), and a tool that waits for the report before it announces *)
(* the next event.                                                          *)

\* A tool announces what it got even when composing the list failed.
CallAnnounce ==
    /\ pc = "idle" /\ call = "compose"
    /\ pc' = "announce"
    /\ call' = "announce"
    /\ NewList
    /\ UNCHANGED <<scatter, bufferVars, loadVars, deviceVars, composeVars, result>>

\* The last entry carries SGCTRL_EOE_FLAG.
LastAlways == TRUE                     \* fault: every entry does
LastEntry  == iter = Len(list)

AnnounceEntry ==
    /\ pc = "announce"
    /\ iter <= Len(list)
    /\ fifo' = Append(fifo, [entry |-> Pushed(list[iter]), eoe |-> LastEntry])
    /\ iter' = iter + 1
    /\ UNCHANGED <<scatter, pc, call, bufferVars, loadVars, split, newlist, entry_addr,
                   ram, n_sg_config, composeVars, result>>

AnnounceDone ==
    /\ pc = "announce"
    /\ iter > Len(list)
    /\ pc' = "wait"
    /\ UNCHANGED <<scatter, call, bufferVars, loadVars, prepareVars, deviceVars, composeVars, result>>

\* The device sends the entries of an event as they arrive, and reports the
\* event after the last one.
DeviceReads ==
    /\ fifo # <<>>
    /\ sent' = Append(sent, Head(fifo))
    /\ fifo' = Tail(fifo)
    /\ UNCHANGED <<scatter, pc, call, bufferVars, loadVars, prepareVars, ram, n_sg_config,
                   offset, size, cur_offset, rem_size, list, result>>

ReleaseEvent ==
    /\ pc = "wait"
    /\ \E k \in DOMAIN sent : sent[k].eoe
    /\ pc' = "idle"
    /\ UNCHANGED <<scatter, call, bufferVars, loadVars, prepareVars, deviceVars, composeVars, result>>

\* Of an empty list no report comes: the tool looks for one until it is stopped.
PollReports == pc = "wait" /\ (\A k \in DOMAIN sent : ~ sent[k].eoe) /\ UNCHANGED vars

-----------------------------------------------------------------------------
Next ==
    \/ CallConfigure \/ CallCompose
    \/ LoadEntry \/ MergeNext \/ PushEntry \/ LoadDone \/ LoadFails \/ CountEntries
    \/ SplitEntry \/ KeepEntry \/ PrepareDone \/ WriteEntry \/ ClearTrailing
    \/ ComposeEntry \/ ComposeFails \/ ComposeDone
    \/ CallAnnounce \/ AnnounceEntry \/ AnnounceDone \/ DeviceReads \/ ReleaseEvent
    \/ PollReports

Spec == Init /\ [][Next]_vars

-----------------------------------------------------------------------------
(* Properties.                                                              *)

\* The variables keep their types; every address written is inside the RAM.
TypeOK ==
    /\ pc \in {"idle", "load", "merge", "prepare", "push", "compose", "announce", "wait"}
    /\ call \in {"none", "configure", "count", "compose", "announce"}
    /\ m_sglist_initialized \in BOOLEAN
    /\ {m_sglist_vector, newlist, list} \subseteq Seq(Entries)
    /\ entry \in Entries
    /\ i \in 1..Len(scatter)+1 /\ iter \in 1 .. 1 + Len(IF call = "announce" THEN list ELSE m_sglist_vector)
    /\ split \in Nat /\ entry_addr \in 0..MaxSg-1 /\ n_sg_config \in Nat
    /\ ram \in [0..MaxSg-1 -> Entries]
    /\ cur_offset \in 0..Total /\ rem_size \in 0..size
    /\ result \in {"none", "ok", "EFBIG", "true", "false"}

\* The words a list of entries covers, in order.
Words(l) ==
    LET sum == Sums(l)
        EntryOf(w) == CHOOSE k \in DOMAIN l : sum[k - 1] < w /\ w <= sum[k]
    IN  [w \in 1..Lengths(l) |-> l[EntryOf(w)].pointer + (w - sum[EntryOf(w) - 1]) - 1]

\* Merging entries loses no memory and reorders none.
SameMemory == m_sglist_initialized => Words(m_sglist_vector) = Words(scatter)

\* What the device reads from the RAM: the entries before the first empty one.
DeviceEntries ==
    LET ends == {a \in 0..MaxSg-1 : ram[a].length = 0}
    IN  [k \in 1 .. (CHOOSE n \in ends : \A m \in ends : n <= m) |-> ram[k - 1]]

\* When configure() succeeds with a list it could read, the device sees the whole
\* buffer in order, nothing of the buffer before it, and a list that ends.  When it
\* could not read the list it reports success all the same, see LoadsList, but the
\* device sees an empty list then, and not the one of an earlier buffer.
DeviceSeesBuffer ==
    pc = "idle" /\ result = "ok" =>
        /\ call = "configure" => /\ \E a \in 0..MaxSg-1 : ram[a].length = 0
                                 /\ Words(DeviceEntries) = Words(scatter)
        /\ call = "count" => ram[0].length = 0

\* A configure() that reports success has loaded the scatter-gather list into the
\* device, as its description says.
LoadsList ==
    pc = "idle" /\ result = "ok" /\ call \in {"configure", "count"} =>
        Words(DeviceEntries) = Words(scatter)

\* The words of the event, which wraps around at the end of the buffer.
EventWords == [w \in 1..size |-> Words(scatter)[1 + ((offset + w - 1) % Total)]]

\* When composing succeeds, the list covers exactly the event, and no entry that
\* starts inside a page leaves it; it fails only for an offset outside the buffer, or
\* when the kernel's list cannot be read.
ComposeCoversEvent ==
    /\ call = "compose" /\ pc = "idle" /\ result = "true" =>
           /\ Words(list) = EventWords
           /\ \A k \in DOMAIN list :
                  /\ list[k].length \in 1..Limit-1
                  /\ list[k].pointer % PageSize # 0 =>
                         (list[k].pointer % PageSize) + list[k].length <= PageSize
    /\ call = "compose" /\ pc = "idle" /\ result = "false" =>
           offset >= Total \/ ~ m_sglist_initialized

\* Offsets and physical addresses translate back and forth.
OffsetsInvertible ==
    m_sglist_initialized =>
        \A o \in 0..Total-1 : physAddrToOffset(offsetToPhysAddr(o).phys_addr) = o

\* The event the device sends, up to the first end-of-event flag, is the one that
\* was composed; a released event leaves nothing behind for the next one.
AnnouncedIsEvent ==
    call = "announce" /\ result = "true" =>
        /\ \A k \in DOMAIN sent :
               sent[k].eoe => Words([j \in 1..k |-> sent[j].entry]) = EventWords
        /\ pc = "idle" => fifo = <<>> /\ sent[Len(sent)].eoe

\* The lists are exact: well-formed, merging loses nothing (buffer.cpp:309-360),
\* composing covers the event and nothing else (buffer.cpp:445-496), and offsets
\* and addresses translate back and forth (buffer.cpp:381-442).
ListsExact == TypeOK /\ SameMemory /\ ComposeCoversEvent /\ OffsetsInvertible

=============================================================================
