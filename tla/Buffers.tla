------------------------------ MODULE Buffers ------------------------------
(***************************************************************************)
(* The DMA buffers of one channel, which outlive the processes that use     *)
(* them: buffer::buffer() finds, reallocates and maps them through           *)
(* sysfs_handler, event_stream::initializeDma() builds an event buffer and   *)
(* its report buffer and gives both to the engine.  One action per call of   *)
(* src/src/buffer.cpp, src/src/event_stream.cpp and src/src/sysfs_handler.cpp *)
(* that another process, the kernel or the engine can come between.          *)
(*                                                                          *)
(* Sizes of event buffers are counted in the smallest packets, those of      *)
(* report buffers in descriptors.  The kernel module, which creates the       *)
(* attributes of a buffer some time after the request, and the engine are     *)
(* external.  One process at a time opens the channel; it may be killed       *)
(* anywhere, and the operator may then reset the channel (dmactrl -r).  The    *)
(* preallocator deletes whatever it finds, also beside a stream that runs.      *)
(***************************************************************************)
EXTENDS Integers, FiniteSets

CONSTANTS
    Mems,        \* pieces of memory the kernel can hand out
    EventSizes,  \* sizes asked for; 0 connects to the buffer that exists
    PacketSizes, \* PCIe packet sizes
    MaxSpins,    \* LIBRORC_DEFAULT_SPINS
    MaxRuns      \* bound of the runs: how often a tool is started

ASSUME BuffersAssumption ==
    /\ IsFiniteSet(Mems)
    /\ EventSizes \subseteq Nat /\ PacketSizes \subseteq Nat \ {0}
    /\ MaxSpins \in Nat /\ MaxRuns \in Nat

VARIABLES
    kernel,      \* the buffers that exist: id -> memory, size, attributes there
    content,     \* memory -> the runs whose reports are in it
    engine,      \* enabled, and the buffers and packet size it was configured with
    stage, job,     \* the owner: where it is, and what it is doing
    run,         \* how many runs there were: the number of this one
    arg, packet, \* bufferSize and m_pciePacketSize
    id,          \* the buffer under construction
    m_size, m_mem,
    spins,
    todo         \* bufferlist of deleteAllBuffers()

streamVars == <<job, run, arg, packet>>
bufferVars == <<id, m_size, m_mem>>
allVars == <<kernel, content, engine, stage, streamVars, bufferVars, spins, todo>>

Event  == 0                            \* ids: 2 * channel, and the next
Report == 1
Ids    == {Event, Report}
NoMem  == "none"
Unknown == 0                           \* what fresh memory may hold

Nothing == [b \in Ids |-> 0]
NoMap   == [b \in Ids |-> NoMem]

BuffersInit ==
    /\ kernel = [b \in {} |-> 0]
    /\ content = [m \in Mems |-> {Unknown}]
    /\ engine = [enabled |-> FALSE, mem |-> NoMap, size |-> Nothing, packet |-> 0]
    /\ stage = "none" /\ job = "none" /\ run = 0 /\ arg = 0 /\ packet = 0
    /\ id = Event /\ m_size = Nothing /\ m_mem = NoMap
    /\ spins = 0 /\ todo = {}

Created == {b \in DOMAIN kernel : kernel[b].visible}
list_all_buffers == Created
Forget(b) == [c \in DOMAIN kernel \ {b} |-> kernel[c]]
Free == Mems \ {kernel[b].mem : b \in DOMAIN kernel}

\* The process is gone, and its mappings with it.
Gone == /\ stage' = "none" /\ job' = "none" /\ arg' = 0 /\ packet' = 0
        /\ id' = Event /\ m_size' = Nothing /\ m_mem' = NoMap
        /\ spins' = 0 /\ todo' = {}

-----------------------------------------------------------------------------
(* Tools start.                                                             *)

\* event_stream::initMembers(): a channel in use is refused.
ChannelAny  == TRUE                    \* fault: no check
ChannelFree == ~ engine.enabled

\* dma_in and the like: initializeDma(2 * channel, size).
StartDma ==
    /\ stage = "none" /\ run < MaxRuns
    /\ ChannelFree
    /\ job' = "dma" /\ run' = run + 1
    /\ arg' \in EventSizes
    /\ packet' \in PacketSizes
    /\ stage' = IF arg' = 0 THEN "stat" ELSE "exists"
    /\ UNCHANGED <<kernel, content, engine, bufferVars, spins, todo>>

\* crorc_preallocator: all buffers go before anybody looks for a running engine.
StartPreallocator ==
    /\ stage = "none" /\ run < MaxRuns
    /\ job' = "preallocate" /\ run' = run + 1
    /\ arg' \in EventSizes \ {0}
    /\ packet' \in PacketSizes
    /\ todo' = list_all_buffers
    /\ stage' = "delete"
    /\ UNCHANGED <<kernel, content, engine, bufferVars, spins>>

\* deleteAllBuffers() does not look at the result.
DeleteBuffer ==
    /\ stage = "delete"
    /\ \E b \in todo : /\ todo' = todo \ {b}
                       /\ kernel' \in {Forget(b), kernel}
    /\ UNCHANGED <<content, engine, stage, streamVars, bufferVars, spins>>

\* alloc_channel(): only now event_stream refuses a channel in use.
DeleteDone ==
    /\ stage = "delete"
    /\ todo = {}
    /\ \/ /\ ChannelFree
          /\ stage' = "exists"
          /\ UNCHANGED <<kernel, content, engine, streamVars, bufferVars, spins, todo>>
       \/ /\ ~ ChannelFree
          /\ Gone /\ UNCHANGED <<kernel, content, engine, run>>

\* The preallocator beside a stream that runs: the stream's buffers go, one by
\* one, and the channel is refused.
DeleteBeside ==
    /\ stage = "running"
    /\ \E b \in Created : kernel' = Forget(b)
    /\ UNCHANGED <<content, engine, stage, streamVars, bufferVars, spins, todo>>

-----------------------------------------------------------------------------
(* The constructor of a buffer: of the event buffer, then of the report       *)
(* buffer, with one descriptor for each packet of the event buffer.          *)

Wanted == IF id = Event THEN arg ELSE m_size[Event] \div packet

\* The report buffer is always constructed with a size.
Connects == id = Event /\ arg = 0

\* An exception: initializeDma() returns an error and the tool exits.
Fails == Gone /\ UNCHANGED <<kernel, content, engine, run>>

BufferExists ==
    /\ stage = "exists"
    /\ stage' = IF id \in Created THEN "stat" ELSE "allocate"
    /\ m_size' = [m_size EXCEPT ![id] = 0]
    /\ UNCHANGED <<kernel, content, engine, streamVars, id, m_mem, spins, todo>>

\* spinOpen(), spinStat(): an attribute that is not there is tried again.
SpinNot(n) == n                       \* fault: for ever
Count(n)    == n + 1
SpinsLeft   == spins < MaxSpins

Spin ==
    /\ stage \in {"stat", "mmap"}
    /\ id \notin Created
    /\ SpinsLeft
    /\ spins' = Count(spins)
    /\ UNCHANGED <<kernel, content, engine, stage, streamVars, bufferVars, todo>>

\* The size does not fit: another buffer is needed.
OtherSize(size) == size # Wanted

BufferSize ==
    /\ stage = "stat"
    /\ id \in Created
    /\ m_size' = [m_size EXCEPT ![id] = kernel[id].size]
    /\ stage' = IF ~ Connects /\ OtherSize(kernel[id].size) THEN "deallocate" ELSE "mmap"
    /\ spins' = 0
    /\ UNCHANGED <<kernel, content, engine, streamVars, id, m_mem, todo>>

Deallocate ==
    /\ stage = "deallocate"
    /\ kernel' = Forget(id)
    /\ stage' = "allocate"
    /\ UNCHANGED <<content, engine, streamVars, bufferVars, spins, todo>>

\* The kernel clears nothing, and refuses a size of 0 and an id it has.
Allocate ==
    /\ stage = "allocate"
    /\ Wanted > 0
    /\ id \notin DOMAIN kernel
    /\ \E m \in Free :
           /\ kernel' = [b \in DOMAIN kernel \cup {id} |->
                            IF b = id THEN [mem |-> m, size |-> Wanted, visible |-> FALSE]
                            ELSE kernel[b]]
           /\ content' = [content EXCEPT ![m] = @ \cup {Unknown}]
    /\ m_size' = [m_size EXCEPT ![id] = Wanted]
    /\ stage' = "mmap"
    /\ UNCHANGED <<engine, streamVars, id, m_mem, spins, todo>>

\* connect()
Mmap ==
    /\ stage = "mmap"
    /\ id \in Created
    /\ m_mem' = [m_mem EXCEPT ![id] = kernel[id].mem]
    /\ spins' = 0
    /\ id' = Report
    /\ stage' = IF id = Event THEN "exists"
                ELSE IF job = "dma" THEN "configure" ELSE "close"
    /\ UNCHANGED <<kernel, content, engine, streamVars, m_size, todo>>

\* An attribute never appears, or the kernel refuses a request.
ConstructorFails ==
    /\ \/ stage \in {"stat", "mmap"} /\ id \notin Created /\ ~ SpinsLeft
       \/ stage \in {"deallocate", "allocate", "mmap"}
    /\ Fails

-----------------------------------------------------------------------------
(* initializeDmaChannel()                                                   *)

\* What follows what.
ThenSwapped == [configure |-> "enable", enable |-> "clear", clear |-> "running"]
ThenStale   == [configure |-> "enable", enable |-> "running"]  \* faults: cleared late, never
Then        == [configure |-> "clear", clear |-> "enable", enable |-> "running"]

ConfigureEngine ==
    /\ stage = "configure"
    /\ engine' = [engine EXCEPT !.mem = [b \in Ids |-> kernel[b].mem],
                                !.size = m_size, !.packet = packet]
    /\ stage' = Then[stage]
    /\ UNCHANGED <<kernel, content, streamVars, bufferVars, spins, todo>>

ConfigureFails == stage = "configure" /\ Fails             \* EFBIG

ClearReports ==
    /\ stage = "clear"
    /\ content' = [content EXCEPT ![m_mem[Report]] = {}]
    /\ stage' = Then[stage]
    /\ UNCHANGED <<kernel, engine, streamVars, bufferVars, spins, todo>>

Enable ==
    /\ stage = "enable"
    /\ engine' = [engine EXCEPT !.enabled = TRUE]
    /\ stage' = Then[stage]
    /\ UNCHANGED <<kernel, content, streamVars, bufferVars, spins, todo>>

Stop ==
    /\ stage = "running"
    /\ stage' = "close"
    /\ UNCHANGED <<kernel, content, engine, streamVars, bufferVars, spins, todo>>

\* ~event_stream(): the engine stops, the mappings go, the buffers stay.
Close ==
    /\ stage = "close"
    /\ engine' = [engine EXCEPT !.enabled = FALSE]
    /\ Gone
    /\ UNCHANGED <<kernel, content, run>>

KillOwner == stage # "none" /\ Fails

\* dmactrl -r
ResetChannel ==
    /\ stage = "none"
    /\ engine' = [engine EXCEPT !.enabled = FALSE]
    /\ UNCHANGED <<kernel, content, stage, streamVars, bufferVars, spins, todo>>

-----------------------------------------------------------------------------
(* External: the attributes of a buffer appear; the engine writes a report.  *)

Appear ==
    /\ \E b \in DOMAIN kernel \ Created : kernel' = [kernel EXCEPT ![b].visible = TRUE]
    /\ UNCHANGED <<content, engine, stage, streamVars, bufferVars, spins, todo>>

EngineWrites ==
    /\ engine.enabled
    /\ content' = [content EXCEPT ![engine.mem[Report]] = @ \cup {run}]
    /\ UNCHANGED <<kernel, engine, stage, streamVars, bufferVars, spins, todo>>

Opening ==
    \/ DeleteBuffer \/ DeleteDone
    \/ BufferExists \/ Spin \/ BufferSize \/ Deallocate \/ Allocate \/ Mmap \/ ConstructorFails
    \/ ConfigureEngine \/ ConfigureFails \/ ClearReports \/ Enable

BuffersNext ==
    \/ StartDma \/ StartPreallocator \/ DeleteBeside
    \/ Opening
    \/ Stop \/ Close \/ KillOwner \/ ResetChannel
    \/ Appear \/ EngineWrites

\* A process that is opening a stream goes on; nothing obliges it to stop.
BuffersSpec == BuffersInit /\ [][BuffersNext]_allVars /\ WF_allVars(Opening) /\ WF_allVars(Close)

-----------------------------------------------------------------------------
(* Properties.                                                              *)

Sizes == Nat
Runs  == 0..MaxRuns

\* The variables keep their types, and no attribute is tried more often than
\* the bound allows.
BuffersType ==
    /\ DOMAIN kernel \subseteq Ids
    /\ \A b \in DOMAIN kernel : kernel[b] \in [mem : Mems, size : Sizes, visible : BOOLEAN]
    /\ content \in [Mems -> SUBSET Runs]
    /\ engine \in [enabled : BOOLEAN, mem : [Ids -> Mems \cup {NoMem}],
                   size : [Ids -> Sizes], packet : {0} \cup PacketSizes]
    /\ stage \in {"none", "delete", "exists", "stat", "deallocate", "allocate", "mmap",
                  "configure", "clear", "enable", "running", "close"}
    /\ job \in {"none", "dma", "preallocate"} /\ run \in Runs
    /\ arg \in {0} \cup EventSizes /\ packet \in {0} \cup PacketSizes
    /\ id \in Ids /\ m_size \in [Ids -> Sizes] /\ m_mem \in [Ids -> Mems \cup {NoMem}]
    /\ spins \in 0..MaxSpins /\ todo \subseteq Ids

\* A running engine writes only to memory that is still allocated, under the
\* id it was configured with (documentation.dox:24-29).  Violated: nothing keeps the
\* preallocator from deleting the buffers of an engine that runs
\* (crorc_preallocator.cpp:70).
EngineMemoryAllocated ==
    engine.enabled =>
        \A b \in Ids : /\ b \in DOMAIN kernel
                       /\ kernel[b].mem = engine.mem[b]
                       /\ kernel[b].size = engine.size[b]

PreallocatorDeletes == DeleteBuffer \/ DeleteBeside

\* Nobody but the preallocator takes memory from a running engine, or starts one
\* without: whoever was killed and whatever failed meanwhile, and however far a
\* reallocation had come (buffer.cpp:105-145, event_stream.cpp:103-149, 219-303).
EngineKeepsMemory ==
    [][~ EngineMemoryAllocated' => ~ EngineMemoryAllocated \/ PreallocatorDeletes]_allVars

\* The report buffer of a running engine has a descriptor for every packet of
\* the event buffer, no more and no less: the two rings fill together.
ReportsFit ==
    engine.enabled => engine.size[Report] = engine.size[Event] \div engine.packet

\* A stream that is open reads the memory the engine writes, and finds no
\* report of an earlier run in it.
OwnerReadsEngine ==
    stage = "running" /\ engine.enabled =>
        /\ m_mem = engine.mem /\ m_size = engine.size
        /\ content[m_mem[Report]] \subseteq {run}

\* No report the engine has written for a run is wiped while the run lasts.
ReportsKept ==
    [][\A m \in Mems : run \in content[m] /\ run' = run /\ run > 0 => run \in content'[m]]_allVars

\* A stream that is being opened opens or fails, even when an attribute of a
\* buffer never appears.
StreamOpens ==
    stage \notin {"none", "running", "close"} ~> stage \in {"none", "running", "close"}

\* At every moment: kernel, engine and process are well-formed, the two rings
\* fill together, and a stream reads what the engine writes for it.
BuffersInv == BuffersType /\ ReportsFit /\ OwnerReadsEngine

=============================================================================
