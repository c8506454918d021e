----------------------------- MODULE DmaChannel -----------------------------
(***************************************************************************)
(* The DMA_CTRL register of one channel and everything that writes it: the   *)
(* life cycle of an event_stream (constructor, configure(), enable(),        *)
(* setBufferOffsetsOnDevice(), disable() in the destructor) in              *)
(* src/src/dma_channel.cpp and src/src/event_stream.cpp, and the dmactrl     *)
(* tool of src/tools_src/linkctrl, in several processes.  A register write   *)
(* is atomic, a read-modify-write is two steps.                             *)
(*                                                                          *)
(* The DMA engine is external.  The library relies on the following: it      *)
(* starts a transfer only when it and both descriptor managers are enabled   *)
(* and neither SUSPEND nor FIFO_RESET is set; BUSY can only be set if        *)
(* SUSPEND is; a write that clears ENABLE or sets FIFO_RESET cuts a          *)
(* transfer short; a stall flag is cleared by writing a one to it.           *)
(***************************************************************************)
EXTENDS Integers

CONSTANTS
    Procs,       \* processes that use the channel
    Nobody,      \* no process
    Timeout,     \* DMA_CHANNEL_TIMEOUT: polls of the BUSY flag
    MaxReleases  \* bound on the releases of one event_stream

ASSUME NobodyAssumption == Nobody \notin Procs
ASSUME TimeoutAssumption == Timeout \in Nat \ {0}
ASSUME MaxReleasesAssumption == MaxReleases \in Nat

VARIABLES
    \* the device
    ctrl,        \* flags set in DMA_CTRL; TAG: the tag field holds this channel's number
    conf,        \* whose buffers the descriptor RAMs and size registers describe
    staged,      \* read pointer registers: releases they account for
    active,      \* read pointers in effect
    xfer,        \* configuration of the transfer in progress
    \* the processes
    pc,
    dmacfg,      \* local: value of DMA_CTRL that was read
    timeout,     \* local of disable()
    releases,    \* releases of this event_stream
    \* history
    cleared,     \* whose report buffer has been cleared
    enabled      \* enable() was called and disable() has not finished since

deviceVars == <<ctrl, conf, staged, active, xfer>>
vars == <<deviceVars, pc, dmacfg, timeout, releases, cleared, enabled>>

Bits == {"ENABLE", "FIFO_RESET", "EBDM", "RBDM", "SUSPEND", "STALL", "TAG"}
Running == {"ENABLE", "EBDM", "RBDM"}
Users   == Procs \union {Nobody}

NoTransfer == [eb |-> Nobody, rb |-> Nobody, regs |-> Nobody]
Transfers  == [eb : Users, rb : Users, regs : Users]

DMAConfig  == IF xfer # NoTransfer /\ "SUSPEND" \in ctrl THEN ctrl \union {"BUSY"} ELSE ctrl
getEnable  == "ENABLE" \in DMAConfig
getDMABusy == "BUSY" \in DMAConfig

\* A write of DMA_CTRL: BUSY is read-only, STALL is cleared by writing one.
setDMAConfig(cfg) ==
    /\ ctrl' = (cfg \ {"BUSY", "STALL"}) \union ((ctrl \ cfg) \intersect {"STALL"})
    /\ xfer' = IF Running \subseteq cfg /\ "FIFO_RESET" \notin cfg THEN xfer ELSE NoTransfer

Init ==
    /\ ctrl = {}
    /\ conf = NoTransfer
    /\ staged = [eb |-> 0, rb |-> 0]
    /\ active = [eb |-> 0, rb |-> 0]
    /\ xfer = NoTransfer
    /\ pc = [p \in Procs |-> "closed"]
    /\ dmacfg = [p \in Procs |-> {}]
    /\ timeout = [p \in Procs |-> Timeout]
    /\ releases = [p \in Procs |-> 0]
    /\ cleared = Nobody
    /\ enabled = FALSE

Goto(p, from, to) ==
    /\ pc[p] \in from
    /\ pc' = [pc EXCEPT ![p] = to]

-----------------------------------------------------------------------------
(* The DMA engine.                                                          *)

EngineStart ==
    /\ xfer = NoTransfer
    /\ Running \subseteq ctrl
    /\ ctrl \intersect {"SUSPEND", "FIFO_RESET"} = {}
    /\ xfer' = conf
    /\ UNCHANGED <<ctrl, conf, staged, active, pc, dmacfg, timeout, releases, cleared, enabled>>

EngineFinish ==
    /\ xfer # NoTransfer
    /\ xfer' = NoTransfer
    /\ UNCHANGED <<ctrl, conf, staged, active, pc, dmacfg, timeout, releases, cleared, enabled>>

EngineStall ==
    /\ xfer # NoTransfer
    /\ ctrl' = ctrl \union {"STALL"}
    /\ UNCHANGED <<conf, staged, active, xfer, pc, dmacfg, timeout, releases, cleared, enabled>>

-----------------------------------------------------------------------------
(* The life of an event_stream.                                             *)

\* The constructor: LIBRORC_EVENT_STREAM_ERROR_CHANNEL_BUSY if the engine is
\* enabled.
CanOpen == ~ getEnable

Open(p) ==
    /\ Goto(p, {"closed"}, "opened")
    /\ CanOpen
    /\ releases' = [releases EXCEPT ![p] = 0]
    /\ cleared' = IF cleared = p THEN Nobody ELSE cleared
    /\ UNCHANGED <<deviceVars, dmacfg, timeout, enabled>>

\* configureBufferDescriptorRam(): the scatter-gather list of a buffer is
\* written to its RAM, or EFBIG if it does not fit.  The channel is one to the host;
\* one to the device reads the depth of its FIFO here instead (see SgList for it).
ConfigureEventBuffer(p) ==
    /\ Goto(p, {"opened"}, "eventbuffer")
    /\ conf' = [conf EXCEPT !.eb = p]
    /\ UNCHANGED <<ctrl, staged, active, xfer, dmacfg, timeout, releases, cleared, enabled>>

ConfigureReportBuffer(p) ==
    /\ Goto(p, {"eventbuffer"}, "reportbuffer")
    /\ conf' = [conf EXCEPT !.rb = p]
    /\ UNCHANGED <<ctrl, staged, active, xfer, dmacfg, timeout, releases, cleared, enabled>>

SgListExceeded(p) ==
    /\ Goto(p, {"opened", "eventbuffer"}, "failed")
    /\ UNCHANGED <<deviceVars, dmacfg, timeout, releases, cleared, enabled>>

\* configureDmaChannelRegisters(): sizes and read pointers, then DMA_CTRL.
ConfigureRegisters(p) ==
    /\ Goto(p, {"reportbuffer"}, "registers")
    /\ conf' = [conf EXCEPT !.regs = p]
    /\ staged' = [eb |-> 0, rb |-> 0]
    /\ UNCHANGED <<ctrl, active, xfer, dmacfg, timeout, releases, cleared, enabled>>

ConfigureControl(p) ==
    /\ Goto(p, {"registers"}, "configured")
    /\ setDMAConfig({"TAG"})
    /\ active' = staged
    /\ UNCHANGED <<conf, staged, dmacfg, timeout, releases, cleared, enabled>>

\* The event stream clears the report buffer, then enables the engine.
ClearReportBuffer(p) ==
    /\ Goto(p, {"configured"}, "cleared")
    /\ cleared' = p
    /\ UNCHANGED <<deviceVars, dmacfg, timeout, releases, enabled>>

EnableRead(p) ==
    /\ Goto(p, {"cleared"}, "enabling")
    /\ dmacfg' = [dmacfg EXCEPT ![p] = DMAConfig]
    /\ UNCHANGED <<deviceVars, timeout, releases, cleared, enabled>>

EnableWrite(p) ==
    /\ Goto(p, {"enabling"}, "running")
    /\ setDMAConfig(dmacfg[p] \union Running)
    /\ dmacfg' = [dmacfg EXCEPT ![p] = {}]
    /\ enabled' = TRUE
    /\ UNCHANGED <<conf, staged, active, timeout, releases, cleared>>

\* setBufferOffsetsOnDevice(): the memcopy() of the two read pointers, then
\* DMA_CTRL, which puts both into effect.
WriteEventBufferOffset(p) ==
    /\ Goto(p, {"running"}, "releasing")
    /\ releases[p] < MaxReleases
    /\ releases' = [releases EXCEPT ![p] = @ + 1]
    /\ staged' = [staged EXCEPT !.eb = releases[p] + 1]
    /\ UNCHANGED <<ctrl, conf, active, xfer, dmacfg, timeout, cleared, enabled>>

WriteReportBufferOffset(p) ==
    /\ Goto(p, {"releasing"}, "syncing")
    /\ staged' = [staged EXCEPT !.rb = releases[p]]
    /\ UNCHANGED <<ctrl, conf, active, xfer, dmacfg, timeout, releases, cleared, enabled>>

SyncNoTag   == Running                   \* fault: m_pci_tag is left out
SyncControl == {"TAG"} \union Running
SyncEventBuffer == [active EXCEPT !.eb = staged.eb]   \* fault: as setEBOffset() does
SyncBoth        == staged

SyncPointers(p) ==
    /\ Goto(p, {"syncing"}, "running")
    /\ setDMAConfig(SyncControl)
    /\ active' = SyncBoth
    /\ UNCHANGED <<conf, staged, dmacfg, timeout, releases, cleared, enabled>>

-----------------------------------------------------------------------------
(* disable(), called by the destructor and by dmactrl -r.                   *)

Live == {"opened", "failed", "running"}    \* event_stream objects a caller may delete

\* Suspend only if active.
Disable(p) ==
    /\ Goto(p, Live \union {"closed"}, IF getEnable THEN "suspend" ELSE "reset")
    /\ timeout' = [timeout EXCEPT ![p] = Timeout]
    /\ UNCHANGED <<deviceVars, dmacfg, releases, cleared, enabled>>

\* setSuspend(1)
SuspendRead(p) ==
    /\ Goto(p, {"suspend"}, "suspending")
    /\ dmacfg' = [dmacfg EXCEPT ![p] = DMAConfig]
    /\ UNCHANGED <<deviceVars, timeout, releases, cleared, enabled>>

SuspendedNot(cfg) == cfg                 \* fault: the bit is not set
Suspended(cfg) == cfg \union {"SUSPEND"}

SuspendWrite(p) ==
    /\ Goto(p, {"suspending"}, "waiting")
    /\ setDMAConfig(Suspended(dmacfg[p]))
    /\ dmacfg' = [dmacfg EXCEPT ![p] = {}]
    /\ UNCHANGED <<conf, staged, active, timeout, releases, cleared, enabled>>

\* while( timeout != 0 && getDMABusy() )
WaitOver(p) == timeout[p] = 0 \/ ~ getDMABusy
CountNot(n)  == n                        \* fault: timeout-- is left out
CountDown(n) == n - 1

Wait(p) ==
    /\ Goto(p, {"waiting"}, "waiting")
    /\ ~ WaitOver(p)
    /\ timeout' = [timeout EXCEPT ![p] = CountDown(@)]
    /\ UNCHANGED <<deviceVars, dmacfg, releases, cleared, enabled>>

WaitDone(p) ==
    /\ Goto(p, {"waiting"}, "reset")
    /\ WaitOver(p)
    /\ UNCHANGED <<deviceVars, dmacfg, timeout, releases, cleared, enabled>>

\* Disable the engine and its managers and leave the FIFO in reset.
ResetKeeps   == ctrl \union {"FIFO_RESET"}          \* fault: a read-modify-write
ResetControl == {"FIFO_RESET"}

Reset(p) ==
    /\ Goto(p, {"reset"}, "closed")
    /\ setDMAConfig(ResetControl)
    /\ enabled' = FALSE
    /\ UNCHANGED <<conf, staged, active, dmacfg, timeout, releases, cleared>>

-----------------------------------------------------------------------------
(* dmactrl -x: readAndClearPtrStallFlags().  Processes also end at any point. *)

ClearStallRead(p) ==
    /\ Goto(p, {"closed"}, "clearing")
    /\ "STALL" \in DMAConfig
    /\ dmacfg' = [dmacfg EXCEPT ![p] = DMAConfig]
    /\ UNCHANGED <<deviceVars, timeout, releases, cleared, enabled>>

ClearStallWrite(p) ==
    /\ Goto(p, {"clearing"}, "closed")
    /\ setDMAConfig(dmacfg[p] \union {"STALL"})
    /\ dmacfg' = [dmacfg EXCEPT ![p] = {}]
    /\ UNCHANGED <<conf, staged, active, timeout, releases, cleared, enabled>>

Kill(p) ==
    /\ pc[p] # "closed"
    /\ pc' = [pc EXCEPT ![p] = "closed"]
    /\ dmacfg' = [dmacfg EXCEPT ![p] = {}]
    /\ UNCHANGED <<deviceVars, timeout, releases, cleared, enabled>>

-----------------------------------------------------------------------------
Engine == EngineStart \/ EngineFinish \/ EngineStall

Configure(p) ==
    \/ ConfigureEventBuffer(p) \/ ConfigureReportBuffer(p) \/ SgListExceeded(p)
    \/ ConfigureRegisters(p) \/ ConfigureControl(p) \/ ClearReportBuffer(p)
    \/ EnableRead(p) \/ EnableWrite(p)

SetBufferOffsets(p) ==
    WriteEventBufferOffset(p) \/ WriteReportBufferOffset(p) \/ SyncPointers(p)

Disabling(p) ==
    SuspendRead(p) \/ SuspendWrite(p) \/ Wait(p) \/ WaitDone(p) \/ Reset(p)

Begin(p) == Open(p) \/ Disable(p) \/ ClearStallRead(p)

Step(p) ==
    Begin(p) \/ Configure(p) \/ SetBufferOffsets(p) \/ Disabling(p) \/ ClearStallWrite(p)

Next == Engine \/ \E p \in Procs : Step(p) \/ Kill(p)

\* Processes that use the channel at the same time.
Spec == Init /\ [][Next]_vars

\* One process at a time: the next one starts when the last one has ended.
Alone(p) == \A q \in Procs \ {p} : pc[q] = "closed"

SerialNext == Engine \/ \E p \in Procs : Alone(p) /\ (Step(p) \/ Kill(p))

SerialSpec == Init /\ [][SerialNext]_vars

\* A process inside disable() goes on.
Fairness == \A p \in Procs : WF_vars(Disabling(p))

FairSpec == SerialSpec /\ Fairness

-----------------------------------------------------------------------------
(* Properties.                                                              *)

ConfigStates == {"opened", "failed", "eventbuffer", "reportbuffer", "registers", "configured",
                 "cleared", "enabling"}
RunStates    == {"running", "releasing", "syncing"}
EndStates    == {"suspend", "suspending", "waiting", "reset"}
States       == ConfigStates \union RunStates \union EndStates \union {"closed", "clearing"}

\* The variables keep their types.
TypeOK ==
    /\ ctrl \subseteq Bits
    /\ conf \in Transfers /\ xfer \in Transfers
    /\ staged \in [eb : 0..MaxReleases, rb : 0..MaxReleases]
    /\ active \in [eb : 0..MaxReleases, rb : 0..MaxReleases]
    /\ pc \in [Procs -> States]
    /\ dmacfg \in [Procs -> SUBSET (Bits \union {"BUSY"})]
    /\ timeout \in [Procs -> 0..Timeout]
    /\ releases \in [Procs -> 0..MaxReleases]
    /\ cleared \in Users
    /\ enabled \in BOOLEAN

\* The engine transfers only with the buffers of one event_stream in both
\* descriptor RAMs and the size registers, into a report buffer that has been
\* cleared, under its own PCIe tag: no order of calls, failed configuration or
\* kill leaves it running on a half-written configuration.
TransferConfigured ==
    xfer # NoTransfer =>
        /\ xfer = conf
        /\ conf.eb = conf.rb /\ conf.rb = conf.regs /\ conf.regs = cleared
        /\ "TAG" \in ctrl

\* "No DMA transfer will start unless setDMAEnable() has been called": the engine
\* is enabled only between enable() and the end of disable().
NoTransferUnlessEnabled == "ENABLE" \in ctrl => enabled

\* The same of the transfers: none starts after disable() and before enable().
NoTransferUnlessStarted == xfer # NoTransfer => enabled

\* A transfer ends because the engine finished it, or because disable() ran into
\* its timeout and returns -1.
NoTruncatedEvent ==
    [][xfer # NoTransfer /\ xfer' = NoTransfer =>
          EngineFinish \/ \E p \in Procs : Reset(p) /\ timeout[p] = 0]_vars

\* The read pointers change together: the engine never works with the event
\* buffer offset of one release and the report buffer offset of another.
PointersInStep == active.eb = active.rb

\* disable() returns, although the engine may never become idle.
DisableReturns == \A p \in Procs : pc[p] \in EndStates ~> pc[p] = "closed"

-----------------------------------------------------------------------------
(* The inductive invariant behind these properties, for one process at a     *)
(* time.                                                                    *)

\* While the engine is enabled its configuration is complete.
EnabledInv ==
    "ENABLE" \in ctrl =>
        /\ Running \subseteq ctrl /\ "TAG" \in ctrl /\ "FIFO_RESET" \notin ctrl
        /\ conf.eb = conf.rb /\ conf.rb = conf.regs /\ conf.regs = cleared
        /\ cleared \in Procs
        /\ enabled

\* A transfer follows the configuration in effect and needs the engine enabled.
TransferInv == xfer # NoTransfer => xfer = conf /\ "ENABLE" \in ctrl

OneProcess == \A p, q \in Procs : p = q \/ pc[p] = "closed" \/ pc[q] = "closed"

\* How far a process has come with the configuration.
HasEventBuffer  == {"eventbuffer", "reportbuffer", "registers", "configured", "cleared", "enabling"}
HasReportBuffer == HasEventBuffer \ {"eventbuffer"}
HasRegisters    == HasReportBuffer \ {"reportbuffer"}
HasControl      == HasRegisters \ {"registers"}
HasCleared      == HasControl \ {"configured"}

ConfigureInv ==
    \A p \in Procs :
        /\ pc[p] \in ConfigStates => "ENABLE" \notin ctrl
        /\ pc[p] \in HasEventBuffer => conf.eb = p
        /\ pc[p] \in HasReportBuffer => conf.rb = p
        /\ pc[p] \in HasRegisters => conf.regs = p
        /\ pc[p] \in HasControl => "TAG" \in ctrl /\ "FIFO_RESET" \notin ctrl
        /\ pc[p] \in HasCleared => cleared = p
        /\ pc[p] = "enabling" => "TAG" \in dmacfg[p] /\ "FIFO_RESET" \notin dmacfg[p]

\* Values of DMA_CTRL that were read are still up to date when they are written
\* back, and the FIFO is reset only when the engine is idle or the time is up.
DisableInv ==
    \A p \in Procs :
        /\ pc[p] \in RunStates \union {"suspend", "suspending", "waiting"} => "ENABLE" \in ctrl
        /\ pc[p] \in {"suspending", "clearing"} =>
               \A b \in Bits \ {"STALL"} : b \in dmacfg[p] <=> b \in ctrl
        /\ pc[p] = "waiting" => "SUSPEND" \in ctrl
        /\ pc[p] = "reset" /\ "ENABLE" \in ctrl => "SUSPEND" \in ctrl
        /\ pc[p] = "reset" => xfer = NoTransfer \/ timeout[p] = 0

ChannelInv == EnabledInv /\ TransferInv /\ OneProcess /\ ConfigureInv /\ DisableInv
=============================================================================
