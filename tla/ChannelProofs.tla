---------------------------- MODULE ChannelProofs ----------------------------
(***************************************************************************)
(* Proofs about the two modules of one DMA channel.  DmaChannel: for every    *)
(* number of processes, every timeout and every number of releases, when one  *)
(* process at a time uses the channel.  Buffers: for every amount of memory,  *)
(* every size of buffers and packets, every number of retries and of runs.    *)
(***************************************************************************)
EXTENDS DmaChannel, Buffers, TLAPS

-----------------------------------------------------------------------------
(* DmaChannel: the register.                                                *)

\* setDMAConfig() sets and clears exactly the flags of its argument, apart from
\* the read-only BUSY and the stall flags.
LEMMA WriteBits ==
    ASSUME NEW cfg, setDMAConfig(cfg)
    PROVE  \A b : b \notin {"BUSY", "STALL"} => (b \in ctrl' <=> b \in cfg)
BY DEF setDMAConfig

\* DMAConfig() returns the flags that are set, and possibly BUSY.
LEMMA ReadBits == \A b : b # "BUSY" => (b \in DMAConfig <=> b \in ctrl)
BY DEF DMAConfig

\* A write of flags leaves the types of the register and of the transfer.
LEMMA WriteTypes ==
    ASSUME NEW cfg, setDMAConfig(cfg), cfg \subseteq Bits \union {"BUSY"},
           ctrl \subseteq Bits, xfer \in Transfers
    PROVE  ctrl' \subseteq Bits /\ xfer' \in Transfers
<1>1. NoTransfer \in Transfers
  BY DEF NoTransfer, Transfers, Users
<1>2. QED
  BY <1>1 DEF setDMAConfig, Bits

\* DMAConfig() has only known flags.
LEMMA ReadTypes ==
    ASSUME ctrl \subseteq Bits PROVE DMAConfig \subseteq Bits \union {"BUSY"}
BY DEF DMAConfig

-----------------------------------------------------------------------------
(* Types.                                                                   *)

\* The values configure() and the destructor start from have their types.
LEMMA InitType == Init => TypeOK
<1> SUFFICES ASSUME Init PROVE TypeOK
  OBVIOUS
<1>1. NoTransfer \in Transfers
  BY DEF NoTransfer, Transfers, Users
<1>2. 0 \in 0..MaxReleases /\ Timeout \in 0..Timeout
  BY TimeoutAssumption, MaxReleasesAssumption
<1>3. "closed" \in States
  BY DEF States
<1>4. {} \in SUBSET (Bits \union {"BUSY"})
  OBVIOUS
<1>5. QED
  BY <1>1, <1>2, <1>3, <1>4 DEF Init, TypeOK, Users

\* Steps of the DMA engine keep the types.
LEMMA EngineType == TypeOK /\ Engine => TypeOK'
<1> SUFFICES ASSUME TypeOK, Engine PROVE TypeOK'
  OBVIOUS
<1>1. NoTransfer \in Transfers /\ "STALL" \in Bits
  BY DEF NoTransfer, Transfers, Users, Bits
<1>2. QED
  BY <1>1 DEF Engine, EngineStart, EngineFinish, EngineStall, TypeOK

\* Steps of the constructor, of configure() and of enable() keep the types.
LEMMA ConfigureType ==
    ASSUME NEW p \in Procs, TypeOK, Open(p) \/ Configure(p) PROVE TypeOK'
<1> USE DEF TypeOK, Goto, deviceVars
<1>1. p \in Users /\ Nobody \in Users
  BY DEF Users
<1>2. 0 \in 0..MaxReleases
  BY MaxReleasesAssumption
<1>3. \A s \in ConfigStates \union RunStates : [pc EXCEPT ![p] = s] \in [Procs -> States]
  BY DEF States
<1>4. CASE Open(p)
  BY <1>1, <1>2, <1>3, <1>4 DEF Open, ConfigStates
<1>5. CASE ConfigureEventBuffer(p)
  BY <1>1, <1>3, <1>5 DEF ConfigureEventBuffer, ConfigStates, Transfers
<1>6. CASE ConfigureReportBuffer(p)
  BY <1>1, <1>3, <1>6 DEF ConfigureReportBuffer, ConfigStates, Transfers
<1>7. CASE SgListExceeded(p)
  BY <1>3, <1>7 DEF SgListExceeded, ConfigStates
<1>8. CASE ConfigureRegisters(p)
  BY <1>1, <1>2, <1>3, <1>8 DEF ConfigureRegisters, ConfigStates, Transfers
<1>9. CASE ConfigureControl(p)
  <2>1. {"TAG"} \subseteq Bits \union {"BUSY"}
    BY DEF Bits
  <2>2. ctrl' \subseteq Bits /\ xfer' \in Transfers
    BY <1>9, <2>1, WriteTypes DEF ConfigureControl
  <2>3. QED
    BY <1>3, <1>9, <2>2 DEF ConfigureControl, ConfigStates
<1>10. CASE ClearReportBuffer(p)
  BY <1>1, <1>3, <1>10 DEF ClearReportBuffer, ConfigStates
<1>11. CASE EnableRead(p)
  BY <1>3, <1>11, ReadTypes DEF EnableRead, ConfigStates
<1>12. CASE EnableWrite(p)
  <2>1. dmacfg[p] \union Running \subseteq Bits \union {"BUSY"}
    BY DEF Bits, Running
  <2>2. ctrl' \subseteq Bits /\ xfer' \in Transfers
    BY <1>12, <2>1, WriteTypes DEF EnableWrite
  <2>3. QED
    BY <1>3, <1>12, <2>2 DEF EnableWrite, RunStates
<1>13. QED
  BY <1>4, <1>5, <1>6, <1>7, <1>8, <1>9, <1>10, <1>11, <1>12 DEF Configure

\* Steps of setBufferOffsetsOnDevice() keep the types.
LEMMA ReleaseType ==
    ASSUME NEW p \in Procs, TypeOK, SetBufferOffsets(p) PROVE TypeOK'
<1> USE DEF TypeOK, Goto, deviceVars
<1>1. \A s \in RunStates : [pc EXCEPT ![p] = s] \in [Procs -> States]
  BY DEF States
<1>2. CASE WriteEventBufferOffset(p)
  <2>1. releases[p] + 1 \in 0..MaxReleases
    BY <1>2, MaxReleasesAssumption DEF WriteEventBufferOffset
  <2>2. QED
    BY <1>1, <1>2, <2>1 DEF WriteEventBufferOffset, RunStates
<1>3. CASE WriteReportBufferOffset(p)
  BY <1>1, <1>3 DEF WriteReportBufferOffset, RunStates
<1>4. CASE SyncPointers(p)
  <2>1. SyncControl \subseteq Bits \union {"BUSY"}
    BY DEF Bits, Running, SyncControl
  <2>2. ctrl' \subseteq Bits /\ xfer' \in Transfers
    BY <1>4, <2>1, WriteTypes DEF SyncPointers
  <2>3. QED
    BY <1>1, <1>4, <2>2 DEF SyncPointers, SyncBoth, RunStates
<1>5. QED
  BY <1>2, <1>3, <1>4 DEF SetBufferOffsets

\* Steps of disable() keep the types; in particular the timeout stays natural.
LEMMA DisableType ==
    ASSUME NEW p \in Procs, TypeOK, Disable(p) \/ Disabling(p) PROVE TypeOK'
<1> USE DEF TypeOK, Goto, deviceVars
<1>1. \A s \in EndStates \union {"closed"} : [pc EXCEPT ![p] = s] \in [Procs -> States]
  BY DEF States
<1>2. CASE Disable(p)
  <2>1. Timeout \in 0..Timeout
    BY TimeoutAssumption
  <2>2. QED
    BY <1>1, <1>2, <2>1 DEF Disable, EndStates
<1>3. CASE SuspendRead(p)
  BY <1>1, <1>3, ReadTypes DEF SuspendRead, EndStates
<1>4. CASE SuspendWrite(p)
  <2>1. Suspended(dmacfg[p]) \subseteq Bits \union {"BUSY"}
    BY DEF Bits, Suspended
  <2>2. ctrl' \subseteq Bits /\ xfer' \in Transfers
    BY <1>4, <2>1, WriteTypes DEF SuspendWrite
  <2>3. QED
    BY <1>1, <1>4, <2>2 DEF SuspendWrite, EndStates
<1>5. CASE Wait(p)
  <2>1. timeout[p] - 1 \in 0..Timeout
    BY <1>5, TimeoutAssumption DEF Wait, WaitOver
  <2>2. QED
    BY <1>1, <1>5, <2>1 DEF Wait, CountDown, EndStates
<1>6. CASE WaitDone(p)
  BY <1>1, <1>6 DEF WaitDone, EndStates
<1>7. CASE Reset(p)
  <2>1. ResetControl \subseteq Bits \union {"BUSY"}
    BY DEF Bits, ResetControl
  <2>2. ctrl' \subseteq Bits /\ xfer' \in Transfers
    BY <1>7, <2>1, WriteTypes DEF Reset
  <2>3. QED
    BY <1>1, <1>7, <2>2 DEF Reset
<1>8. QED
  BY <1>2, <1>3, <1>4, <1>5, <1>6, <1>7 DEF Disabling

\* readAndClearPtrStallFlags() and the end of a process keep the types.
LEMMA ToolType ==
    ASSUME NEW p \in Procs, TypeOK, ClearStallRead(p) \/ ClearStallWrite(p) \/ Kill(p)
    PROVE  TypeOK'
<1> USE DEF TypeOK, Goto, deviceVars
<1>1. \A s \in {"closed", "clearing"} : [pc EXCEPT ![p] = s] \in [Procs -> States]
  BY DEF States
<1>2. CASE ClearStallRead(p)
  BY <1>1, <1>2, ReadTypes DEF ClearStallRead
<1>3. CASE ClearStallWrite(p)
  <2>1. dmacfg[p] \union {"STALL"} \subseteq Bits \union {"BUSY"}
    BY DEF Bits
  <2>2. ctrl' \subseteq Bits /\ xfer' \in Transfers
    BY <1>3, <2>1, WriteTypes DEF ClearStallWrite
  <2>3. QED
    BY <1>1, <1>3, <2>2 DEF ClearStallWrite
<1>4. CASE Kill(p)
  BY <1>1, <1>4 DEF Kill
<1>5. QED
  BY <1>2, <1>3, <1>4

\* Type correctness, with any number of processes using the channel at once.
THEOREM ChannelTypeCorrect == Spec => []TypeOK
<1>1. TypeOK /\ [Next]_vars => TypeOK'
  <2> SUFFICES ASSUME TypeOK, [Next]_vars PROVE TypeOK'
    OBVIOUS
  <2>1. CASE Engine
    BY <2>1, EngineType
  <2>2. CASE \E p \in Procs : Step(p) \/ Kill(p)
    BY <2>2, ConfigureType, ReleaseType, DisableType, ToolType DEF Step, Begin
  <2>3. CASE UNCHANGED vars
    BY <2>3 DEF vars, deviceVars, TypeOK
  <2>4. QED
    BY <2>1, <2>2, <2>3 DEF Next
<1>2. QED
  BY <1>1, InitType, PTL DEF Spec

-----------------------------------------------------------------------------
(* One process at a time.                                                   *)

\* Before the first process opens the channel the engine is off.
LEMMA InitChannel == Init => ChannelInv
BY DEF Init, ChannelInv, EnabledInv, TransferInv, OneProcess, ConfigureInv, DisableInv,
       ConfigStates, RunStates, HasEventBuffer, HasReportBuffer, HasRegisters, HasControl,
       HasCleared

\* The next step of the only process that runs leaves it the only one.
LEMMA StaysAlone ==
    ASSUME NEW p \in Procs, TypeOK, Alone(p), \A q \in Procs \ {p} : pc'[q] = pc[q]
    PROVE  OneProcess'
BY DEF Alone, OneProcess

\* Processes that have ended put no condition on the state.
LEMMA AloneInv ==
    ASSUME NEW p \in Procs, TypeOK, Alone(p), \A q \in Procs \ {p} : pc'[q] = pc[q]
    PROVE  \A q \in Procs \ {p} :
               pc'[q] \notin ConfigStates \union RunStates \union EndStates \union {"clearing"}
BY DEF Alone, ConfigStates, RunStates, EndStates

\* Steps of the DMA engine keep the invariant: they start no transfer while the
\* engine is disabled or suspended, and touch no flag but the stall flag.
LEMMA EngineChannel == TypeOK /\ ChannelInv /\ Engine => ChannelInv'
<1> SUFFICES ASSUME TypeOK, ChannelInv, Engine PROVE ChannelInv'
  OBVIOUS
<1> USE DEF ChannelInv
<1>1. CASE EngineStart
  <2>1. "ENABLE" \in ctrl /\ "SUSPEND" \notin ctrl
    BY <1>1 DEF EngineStart, Running
  <2>2. TransferInv'
    BY <1>1, <2>1 DEF EngineStart, TransferInv
  <2>3. DisableInv'
    BY <1>1, <2>1 DEF EngineStart, DisableInv
  <2>4. EnabledInv' /\ OneProcess' /\ ConfigureInv'
    BY <1>1 DEF EngineStart, EnabledInv, OneProcess, ConfigureInv
  <2>5. QED
    BY <2>2, <2>3, <2>4
<1>2. CASE EngineFinish
  BY <1>2 DEF EngineFinish, EnabledInv, TransferInv, OneProcess, ConfigureInv, DisableInv
<1>3. CASE EngineStall
  <2>1. \A b : b # "STALL" => (b \in ctrl' <=> b \in ctrl)
    BY <1>3 DEF EngineStall
  <2>2. EnabledInv'
    BY <1>3, <2>1 DEF EngineStall, EnabledInv, Running
  <2>3. ConfigureInv'
    BY <1>3, <2>1 DEF EngineStall, ConfigureInv
  <2>4. DisableInv'
    BY <1>3, <2>1 DEF EngineStall, DisableInv, Bits
  <2>5. TransferInv' /\ OneProcess'
    BY <1>3, <2>1 DEF EngineStall, TransferInv, OneProcess
  <2>6. QED
    BY <2>2, <2>3, <2>4, <2>5
<1>4. QED
  BY <1>1, <1>2, <1>3 DEF Engine

\* The constructor and configure() work on a disabled engine; enable() enables
\* it when the configuration is complete.
LEMMA ConfigureChannel ==
    ASSUME NEW p \in Procs, TypeOK, ChannelInv, Alone(p), Open(p) \/ Configure(p)
    PROVE  ChannelInv'
<1> USE DEF ChannelInv, TypeOK, Goto, deviceVars
<1>0. \A q \in Procs \ {p} : pc'[q] = pc[q]
  BY DEF Open, Configure, ConfigureEventBuffer, ConfigureReportBuffer, SgListExceeded,
         ConfigureRegisters, ConfigureControl, ClearReportBuffer, EnableRead, EnableWrite
<1>1. OneProcess'
  BY <1>0, StaysAlone
<1>2. \A q \in Procs \ {p} :
          pc'[q] \notin ConfigStates \union RunStates \union EndStates \union {"clearing"}
  BY <1>0, AloneInv
<1> DEFINE Off == "ENABLE" \notin ctrl /\ xfer = NoTransfer
<1>3. Open(p) \/ pc[p] \in ConfigStates => Off
  BY ReadBits DEF Open, CanOpen, getEnable, TransferInv, ConfigureInv
<1>4. ASSUME Off, ctrl' = ctrl, xfer' = xfer, pc'[p] \in ConfigStates \ {"enabling"},
             pc'[p] \in HasEventBuffer => conf'.eb = p,
             pc'[p] \in HasReportBuffer => conf'.rb = p,
             pc'[p] \in HasRegisters => conf'.regs = p,
             pc'[p] \in HasControl => "TAG" \in ctrl /\ "FIFO_RESET" \notin ctrl,
             pc'[p] \in HasCleared => cleared' = p
      PROVE  ChannelInv'
  <2>1. EnabledInv' /\ TransferInv'
    BY <1>4 DEF EnabledInv, TransferInv
  <2>2. ConfigureInv'
    BY <1>2, <1>4 DEF ConfigureInv, ConfigStates, HasEventBuffer, HasReportBuffer, HasRegisters,
                      HasControl, HasCleared
  <2>3. DisableInv'
    BY <1>2, <1>4 DEF DisableInv, ConfigStates, RunStates, EndStates
  <2>4. QED
    BY <1>1, <2>1, <2>2, <2>3
<1> USE DEF HasEventBuffer, HasReportBuffer, HasRegisters, HasControl, HasCleared, ConfigStates
<1>5. CASE Open(p)
  BY <1>3, <1>4, <1>5 DEF Open
<1>6. CASE ConfigureEventBuffer(p)
  BY <1>3, <1>4, <1>6 DEF ConfigureEventBuffer, Transfers
<1>7. CASE ConfigureReportBuffer(p)
  <2>1. conf'.eb = p /\ conf'.rb = p
    BY <1>7 DEF ConfigureReportBuffer, Transfers, ConfigureInv
  <2>2. QED
    BY <1>3, <1>4, <1>7, <2>1 DEF ConfigureReportBuffer
<1>8. CASE SgListExceeded(p)
  BY <1>3, <1>4, <1>8 DEF SgListExceeded
<1>9. CASE ConfigureRegisters(p)
  <2>1. conf'.eb = p /\ conf'.rb = p /\ conf'.regs = p
    BY <1>9 DEF ConfigureRegisters, Transfers, ConfigureInv
  <2>2. QED
    BY <1>3, <1>4, <1>9, <2>1 DEF ConfigureRegisters
<1>10. CASE ConfigureControl(p)
  <2>1. "TAG" \in ctrl' /\ "FIFO_RESET" \notin ctrl' /\ "ENABLE" \notin ctrl'
    BY <1>10, WriteBits DEF ConfigureControl
  <2>2. xfer' = NoTransfer
    BY <1>10 DEF ConfigureControl, setDMAConfig, Running
  <2>3. conf'.eb = p /\ conf'.rb = p /\ conf'.regs = p
    BY <1>10 DEF ConfigureControl, ConfigureInv
  <2>4. EnabledInv' /\ TransferInv'
    BY <2>1, <2>2 DEF EnabledInv, TransferInv
  <2>5. pc'[p] = "configured"
    BY <1>10 DEF ConfigureControl
  <2>6. ConfigureInv'
    BY <1>2, <2>1, <2>3, <2>5 DEF ConfigureInv
  <2>7. DisableInv'
    BY <1>2, <2>5 DEF DisableInv, RunStates, EndStates
  <2>8. QED
    BY <1>1, <2>4, <2>6, <2>7
<1>11. CASE ClearReportBuffer(p)
  <2>1. conf'.eb = p /\ conf'.rb = p /\ conf'.regs = p
        /\ "TAG" \in ctrl /\ "FIFO_RESET" \notin ctrl
    BY <1>11 DEF ClearReportBuffer, ConfigureInv
  <2>2. QED
    BY <1>3, <1>4, <1>11, <2>1 DEF ClearReportBuffer
<1>12. CASE EnableRead(p)
  <2>1. Off /\ ctrl' = ctrl /\ xfer' = xfer /\ pc'[p] = "enabling"
    BY <1>3, <1>12 DEF EnableRead
  <2>2. conf'.eb = p /\ conf'.rb = p /\ conf'.regs = p /\ cleared' = p
        /\ "TAG" \in ctrl /\ "FIFO_RESET" \notin ctrl
    BY <1>12 DEF EnableRead, ConfigureInv
  <2>3. "TAG" \in dmacfg'[p] /\ "FIFO_RESET" \notin dmacfg'[p]
    BY <1>12, <2>2, ReadBits DEF EnableRead
  <2>4. EnabledInv' /\ TransferInv'
    BY <2>1 DEF EnabledInv, TransferInv
  <2>5. ConfigureInv'
    BY <1>2, <2>1, <2>2, <2>3 DEF ConfigureInv
  <2>6. DisableInv'
    BY <1>2, <2>1 DEF DisableInv, RunStates, EndStates
  <2>7. QED
    BY <1>1, <2>4, <2>5, <2>6
<1>13. CASE EnableWrite(p)
  <2>1. "TAG" \in dmacfg[p] /\ "FIFO_RESET" \notin dmacfg[p]
        /\ conf.eb = p /\ conf.rb = p /\ conf.regs = p /\ cleared = p
    BY <1>13 DEF EnableWrite, ConfigureInv
  <2>2. Running \subseteq ctrl' /\ "TAG" \in ctrl' /\ "FIFO_RESET" \notin ctrl'
    BY <1>13, <2>1, WriteBits DEF EnableWrite, Running
  <2>3. EnabledInv'
    BY <1>13, <2>1, <2>2 DEF EnableWrite, EnabledInv
  <2>4. xfer' = NoTransfer
    BY <1>3, <1>13 DEF EnableWrite, setDMAConfig
  <2>5. pc'[p] = "running" /\ "ENABLE" \in ctrl'
    BY <1>13, <2>2 DEF EnableWrite, Running
  <2>6. ConfigureInv'
    BY <1>2, <2>5 DEF ConfigureInv
  <2>7. DisableInv'
    BY <1>2, <2>5 DEF DisableInv, RunStates, EndStates
  <2>8. QED
    BY <1>1, <2>3, <2>4, <2>6, <2>7 DEF TransferInv
<1>14. QED
  BY <1>5, <1>6, <1>7, <1>8, <1>9, <1>10, <1>11, <1>12, <1>13 DEF Configure

\* A release writes the flags of a running engine once more.
LEMMA ReleaseChannel ==
    ASSUME NEW p \in Procs, TypeOK, ChannelInv, Alone(p), SetBufferOffsets(p)
    PROVE  ChannelInv'
<1> USE DEF ChannelInv, TypeOK, Goto
<1>0. \A q \in Procs \ {p} : pc'[q] = pc[q]
  BY DEF SetBufferOffsets, WriteEventBufferOffset, WriteReportBufferOffset, SyncPointers
<1>1. OneProcess'
  BY <1>0, StaysAlone
<1>2. \A q \in Procs \ {p} :
          pc'[q] \notin ConfigStates \union RunStates \union EndStates \union {"clearing"}
  BY <1>0, AloneInv
<1>3. pc[p] \in RunStates /\ pc'[p] \in RunStates
  BY DEF SetBufferOffsets, WriteEventBufferOffset, WriteReportBufferOffset, SyncPointers, RunStates
<1>4. "ENABLE" \in ctrl
  BY <1>3 DEF DisableInv
<1>5. "ENABLE" \in ctrl' /\ EnabledInv' /\ TransferInv'
  <2>1. CASE ctrl' = ctrl /\ xfer' = xfer /\ conf' = conf /\ cleared' = cleared
             /\ enabled' = enabled
    BY <1>4, <2>1 DEF EnabledInv, TransferInv
  <2>2. CASE SyncPointers(p)
    <3>1. Running \subseteq ctrl' /\ "TAG" \in ctrl' /\ "FIFO_RESET" \notin ctrl'
      BY <2>2, WriteBits DEF SyncPointers, SyncControl, Running
    <3>2. xfer' = xfer
      BY <2>2 DEF SyncPointers, setDMAConfig, SyncControl, Running
    <3>3. QED
      BY <1>4, <2>2, <3>1, <3>2 DEF SyncPointers, EnabledInv, TransferInv, Running
  <2>3. QED
    BY <2>1, <2>2 DEF SetBufferOffsets, WriteEventBufferOffset, WriteReportBufferOffset
<1>6. ConfigureInv'
  BY <1>2, <1>3 DEF ConfigureInv, ConfigStates, RunStates, HasEventBuffer, HasReportBuffer,
                    HasRegisters, HasControl, HasCleared
<1>7. DisableInv'
  BY <1>2, <1>3, <1>5 DEF DisableInv, RunStates, EndStates
<1>8. QED
  BY <1>1, <1>5, <1>6, <1>7

\* disable() suspends the engine and resets the FIFO when it is idle or the time
\* is up; every way to stop leaves the channel disabled.
LEMMA DisableChannel ==
    ASSUME NEW p \in Procs, TypeOK, ChannelInv, Alone(p), Disable(p) \/ Disabling(p)
    PROVE  ChannelInv'
<1> USE DEF ChannelInv, TypeOK, Goto, deviceVars
<1>0. \A q \in Procs \ {p} : pc'[q] = pc[q]
  BY DEF Disable, Disabling, SuspendRead, SuspendWrite, Wait, WaitDone, Reset
<1>1. OneProcess'
  BY <1>0, StaysAlone
<1>2. \A q \in Procs \ {p} :
          pc'[q] \notin ConfigStates \union RunStates \union EndStates \union {"clearing"}
  BY <1>0, AloneInv
<1>3. pc'[p] \in EndStates \union {"closed"}
  BY DEF Disable, Disabling, SuspendRead, SuspendWrite, Wait, WaitDone, Reset, EndStates
<1>4. ConfigureInv'
  BY <1>2, <1>3 DEF ConfigureInv, ConfigStates, EndStates, HasEventBuffer, HasReportBuffer,
                    HasRegisters, HasControl, HasCleared
<1>5. ASSUME ctrl' = ctrl, xfer' = xfer, conf' = conf, cleared' = cleared, enabled' = enabled
      PROVE  EnabledInv' /\ TransferInv'
  BY <1>5 DEF EnabledInv, TransferInv
<1>6. CASE Disable(p)
  <2>1. pc'[p] = IF "ENABLE" \in ctrl THEN "suspend" ELSE "reset"
    BY <1>6, ReadBits DEF Disable, getEnable
  <2>2. DisableInv'
    BY <1>2, <1>6, <2>1 DEF Disable, DisableInv, TransferInv, RunStates, EndStates
  <2>3. EnabledInv' /\ TransferInv'
    BY <1>5, <1>6 DEF Disable
  <2>4. QED
    BY <1>1, <1>4, <2>2, <2>3
<1>7. CASE SuspendRead(p)
  <2>1. \A b \in Bits \ {"STALL"} : b \in dmacfg'[p] <=> b \in ctrl
    BY <1>7, ReadBits DEF SuspendRead, Bits
  <2>2. pc'[p] = "suspending" /\ "ENABLE" \in ctrl'
    BY <1>7 DEF SuspendRead, DisableInv
  <2>3. DisableInv'
    BY <1>2, <1>7, <2>1, <2>2 DEF SuspendRead, DisableInv, RunStates, EndStates
  <2>4. EnabledInv' /\ TransferInv'
    BY <1>5, <1>7 DEF SuspendRead
  <2>5. QED
    BY <1>1, <1>4, <2>3, <2>4
<1>8. CASE SuspendWrite(p)
  <2>1. /\ "ENABLE" \in ctrl
        /\ \A b \in Bits \ {"STALL"} : b \in dmacfg[p] <=> b \in ctrl
    BY <1>8 DEF SuspendWrite, DisableInv
  <2>2. /\ \A b \in Bits \ {"STALL", "SUSPEND"} : b \in ctrl' <=> b \in ctrl
        /\ "SUSPEND" \in ctrl'
    BY <1>8, <2>1, WriteBits DEF SuspendWrite, Suspended, Bits
  <2>3. xfer' = xfer \/ xfer' = NoTransfer
    BY <1>8 DEF SuspendWrite, setDMAConfig
  <2>4. "ENABLE" \in ctrl'
    BY <2>1, <2>2 DEF Bits
  <2>5. EnabledInv'
    BY <1>8, <2>1, <2>2 DEF SuspendWrite, EnabledInv, Running, Bits
  <2>6. TransferInv'
    BY <1>8, <2>3, <2>4 DEF SuspendWrite, TransferInv
  <2>7. DisableInv'
    BY <1>2, <1>8, <2>2, <2>4 DEF SuspendWrite, DisableInv, RunStates, EndStates
  <2>8. QED
    BY <1>1, <1>4, <2>5, <2>6, <2>7
<1>9. CASE Wait(p)
  <2>1. DisableInv'
    BY <1>2, <1>9 DEF Wait, DisableInv, RunStates, EndStates
  <2>2. EnabledInv' /\ TransferInv'
    BY <1>5, <1>9 DEF Wait
  <2>3. QED
    BY <1>1, <1>4, <2>1, <2>2
<1>10. CASE WaitDone(p)
  <2>1. "SUSPEND" \in ctrl
    BY <1>10 DEF WaitDone, DisableInv
  <2>2. xfer = NoTransfer \/ timeout[p] = 0
    BY <1>10, <2>1 DEF WaitDone, WaitOver, getDMABusy, DMAConfig
  <2>3. DisableInv'
    BY <1>2, <1>10, <2>1, <2>2 DEF WaitDone, DisableInv, RunStates, EndStates
  <2>4. EnabledInv' /\ TransferInv'
    BY <1>5, <1>10 DEF WaitDone
  <2>5. QED
    BY <1>1, <1>4, <2>3, <2>4
<1>11. CASE Reset(p)
  <2>1. "ENABLE" \notin ctrl'
    BY <1>11, WriteBits DEF Reset, ResetControl
  <2>2. xfer' = NoTransfer
    BY <1>11 DEF Reset, setDMAConfig, ResetControl, Running
  <2>3. EnabledInv' /\ TransferInv'
    BY <2>1, <2>2 DEF EnabledInv, TransferInv
  <2>4. DisableInv'
    BY <1>2, <1>11 DEF Reset, DisableInv, RunStates, EndStates
  <2>5. QED
    BY <1>1, <1>4, <2>3, <2>4
<1>12. QED
  BY <1>6, <1>7, <1>8, <1>9, <1>10, <1>11 DEF Disabling

\* readAndClearPtrStallFlags() writes back the flags it has read, and a process
\* that ends leaves the register as it is.
LEMMA ToolChannel ==
    ASSUME NEW p \in Procs, TypeOK, ChannelInv, Alone(p),
           ClearStallRead(p) \/ ClearStallWrite(p) \/ Kill(p)
    PROVE  ChannelInv'
<1> USE DEF ChannelInv, TypeOK, Goto, deviceVars
<1>0. \A q \in Procs \ {p} : pc'[q] = pc[q]
  BY DEF ClearStallRead, ClearStallWrite, Kill
<1>1. OneProcess'
  BY <1>0, StaysAlone
<1>2. \A q \in Procs \ {p} :
          pc'[q] \notin ConfigStates \union RunStates \union EndStates \union {"clearing"}
  BY <1>0, AloneInv
<1>3. pc'[p] \in {"closed", "clearing"}
  BY DEF ClearStallRead, ClearStallWrite, Kill
<1>4. ConfigureInv'
  BY <1>2, <1>3 DEF ConfigureInv, ConfigStates, HasEventBuffer, HasReportBuffer,
                    HasRegisters, HasControl, HasCleared
<1>5. CASE ClearStallRead(p)
  <2>1. \A b \in Bits \ {"STALL"} : b \in dmacfg'[p] <=> b \in ctrl
    BY <1>5, ReadBits DEF ClearStallRead, Bits
  <2>2. DisableInv'
    BY <1>2, <1>5, <2>1 DEF ClearStallRead, DisableInv, RunStates, EndStates
  <2>3. QED
    BY <1>1, <1>4, <1>5, <2>2 DEF ClearStallRead, EnabledInv, TransferInv
<1>6. CASE ClearStallWrite(p)
  <2>1. \A b \in Bits \ {"STALL"} : b \in ctrl' <=> b \in ctrl
    BY <1>6, WriteBits DEF ClearStallWrite, DisableInv, Bits
  <2>2. EnabledInv'
    BY <1>6, <2>1 DEF ClearStallWrite, EnabledInv, Running, Bits
  <2>3. xfer' = xfer \/ xfer' = NoTransfer
    BY <1>6 DEF ClearStallWrite, setDMAConfig
  <2>4. TransferInv'
    BY <1>6, <2>1, <2>3 DEF ClearStallWrite, TransferInv, Bits
  <2>5. DisableInv'
    BY <1>2, <1>6 DEF ClearStallWrite, DisableInv, RunStates, EndStates
  <2>6. QED
    BY <1>1, <1>4, <2>2, <2>4, <2>5
<1>7. CASE Kill(p)
  <2>1. DisableInv'
    BY <1>2, <1>7 DEF Kill, DisableInv, RunStates, EndStates
  <2>2. QED
    BY <1>1, <1>4, <1>7, <2>1 DEF Kill, EnabledInv, TransferInv
<1>8. QED
  BY <1>5, <1>6, <1>7

\* Every step of one process at a time keeps the invariant.
LEMMA NextChannel == TypeOK /\ ChannelInv /\ [SerialNext]_vars => ChannelInv'
<1> SUFFICES ASSUME TypeOK, ChannelInv, [SerialNext]_vars PROVE ChannelInv'
  OBVIOUS
<1>1. CASE Engine
  BY <1>1, EngineChannel
<1>2. CASE \E p \in Procs : Alone(p) /\ (Step(p) \/ Kill(p))
  BY <1>2, ConfigureChannel, ReleaseChannel, DisableChannel, ToolChannel DEF Step, Begin
<1>3. CASE UNCHANGED vars
  BY <1>3 DEF vars, deviceVars, ChannelInv, EnabledInv, TransferInv, OneProcess, ConfigureInv,
              DisableInv
<1>4. QED
  BY <1>1, <1>2, <1>3 DEF SerialNext

\* Processes one at a time are a case of processes at the same time.
LEMMA SerialIsSpec == SerialSpec => Spec
<1>1. [SerialNext]_vars => [Next]_vars
  BY DEF SerialNext, Next
<1>2. QED
  BY <1>1, PTL DEF SerialSpec, Spec

\* The inductive invariant holds in every state of serial use.
THEOREM ChannelInvariant == SerialSpec => []ChannelInv
BY InitChannel, NextChannel, ChannelTypeCorrect, SerialIsSpec, PTL DEF SerialSpec

\* The engine never transfers on a configuration that is incomplete, of two
\* event streams, not cleared or without this channel's PCIe tag.
THEOREM AlwaysConfigured == SerialSpec => []TransferConfigured
<1>1. ChannelInv => TransferConfigured
  BY DEF ChannelInv, TransferInv, EnabledInv, TransferConfigured
<1>2. QED
  BY <1>1, ChannelInvariant, PTL

\* The engine is enabled only between enable() and the end of disable().
THEOREM OnlyWhenEnabled == SerialSpec => []NoTransferUnlessEnabled
<1>1. ChannelInv => NoTransferUnlessEnabled
  BY DEF ChannelInv, EnabledInv, NoTransferUnlessEnabled
<1>2. QED
  BY <1>1, ChannelInvariant, PTL

\* No transfer is cut short unless disable() reports its timeout.
THEOREM TransfersComplete == SerialSpec => NoTruncatedEvent
<1> DEFINE Step1 == xfer # NoTransfer /\ xfer' = NoTransfer =>
                        EngineFinish \/ \E p \in Procs : Reset(p) /\ timeout[p] = 0
<1>1. TypeOK /\ ChannelInv /\ [SerialNext]_vars => [Step1]_vars
  <2> SUFFICES ASSUME TypeOK, ChannelInv, SerialNext, xfer # NoTransfer, xfer' = NoTransfer
               PROVE  EngineFinish \/ \E p \in Procs : Reset(p) /\ timeout[p] = 0
    OBVIOUS
  <2> USE DEF ChannelInv, Goto, deviceVars
  <2>1. xfer = conf /\ "ENABLE" \in ctrl /\ Running \subseteq ctrl /\ "FIFO_RESET" \notin ctrl
    BY DEF TransferInv, EnabledInv
  <2>2. CASE Engine
    BY <2>2 DEF Engine, EngineStart, EngineStall
  <2>3. ASSUME NEW p \in Procs, Step(p) \/ Kill(p)
        PROVE  Reset(p) /\ timeout[p] = 0
    <3>1. CASE Open(p) \/ ConfigureEventBuffer(p) \/ ConfigureReportBuffer(p)
               \/ SgListExceeded(p) \/ ConfigureRegisters(p) \/ ClearReportBuffer(p)
               \/ EnableRead(p)
      BY <3>1 DEF Open, ConfigureEventBuffer, ConfigureReportBuffer, SgListExceeded,
                  ConfigureRegisters, ClearReportBuffer, EnableRead
    <3>2. CASE ConfigureControl(p) \/ EnableWrite(p)
      BY <2>1, <3>2 DEF ConfigureControl, EnableWrite, ConfigureInv, ConfigStates
    <3>3. CASE SetBufferOffsets(p)
      BY <3>3 DEF SetBufferOffsets, WriteEventBufferOffset, WriteReportBufferOffset,
                  SyncPointers, setDMAConfig, SyncControl, Running
    <3>4. CASE Disable(p) \/ SuspendRead(p) \/ Wait(p) \/ WaitDone(p)
               \/ ClearStallRead(p) \/ Kill(p)
      BY <3>4 DEF Disable, SuspendRead, Wait, WaitDone, ClearStallRead, Kill
    <3>5. CASE SuspendWrite(p) \/ ClearStallWrite(p)
      <4>1. \A b \in Bits \ {"STALL"} : b \in dmacfg[p] <=> b \in ctrl
        BY <3>5 DEF SuspendWrite, ClearStallWrite, DisableInv
      <4>2. Running \subseteq dmacfg[p] /\ "FIFO_RESET" \notin dmacfg[p]
        BY <2>1, <4>1 DEF Bits, Running
      <4>3. QED
        BY <3>5, <4>2 DEF SuspendWrite, ClearStallWrite, setDMAConfig, Suspended
    <3>6. CASE Reset(p)
      BY <3>6 DEF Reset, DisableInv
    <3>7. QED
      BY <2>3, <3>1, <3>2, <3>3, <3>4, <3>5, <3>6
      DEF Step, Begin, Configure, Disabling
  <2>4. QED
    BY <2>2, <2>3 DEF SerialNext
<1>2. QED
  BY <1>1, ChannelInvariant, ChannelTypeCorrect, SerialIsSpec, PTL DEF SerialSpec, NoTruncatedEvent

-----------------------------------------------------------------------------
(* The read pointers.                                                       *)

\* Both staged pointers account for the same releases whenever DMA_CTRL is about
\* to be written: the half-written pair of a killed release is replaced before.
PointerInv ==
    /\ PointersInStep
    /\ \A p \in Procs :
        /\ pc[p] \in {"registers", "syncing"} => staged.eb = staged.rb
        /\ pc[p] = "releasing" => staged.eb = releases[p]

\* Before the first use both pointers are zero.
LEMMA InitPointers == Init => PointerInv
BY DEF Init, PointerInv, PointersInStep

\* Every step of one process at a time keeps the pointers together.
LEMMA NextPointers == TypeOK /\ OneProcess /\ PointerInv /\ [SerialNext]_vars => PointerInv'
<1> SUFFICES ASSUME TypeOK, OneProcess, PointerInv, [SerialNext]_vars PROVE PointerInv'
  OBVIOUS
<1> USE DEF PointerInv, PointersInStep, TypeOK
<1>1. ASSUME UNCHANGED <<staged, active, releases>>,
             \A p \in Procs : pc'[p] = pc[p]
                              \/ pc'[p] \notin {"registers", "syncing", "releasing"}
      PROVE  PointerInv'
  BY <1>1
<1>2. CASE Engine
  BY <1>1, <1>2 DEF Engine, EngineStart, EngineFinish, EngineStall
<1>3. ASSUME NEW p \in Procs, Alone(p), Step(p) \/ Kill(p) PROVE PointerInv'
  <2> USE DEF Goto, deviceVars
  <2>1. \A q \in Procs \ {p} : pc[q] = "closed"
    BY <1>3 DEF Alone
  <2>2. CASE Open(p)
    BY <2>1, <2>2 DEF Open
  <2>3. CASE \/ ConfigureEventBuffer(p) \/ ConfigureReportBuffer(p) \/ SgListExceeded(p)
             \/ ClearReportBuffer(p) \/ EnableRead(p) \/ EnableWrite(p)
    BY <2>3, <1>1 DEF ConfigureEventBuffer, ConfigureReportBuffer, SgListExceeded,
                      ClearReportBuffer, EnableRead, EnableWrite
  <2>4. CASE ConfigureRegisters(p)
    BY <2>1, <2>4 DEF ConfigureRegisters
  <2>5. CASE ConfigureControl(p)
    BY <2>1, <2>5 DEF ConfigureControl
  <2>6. CASE WriteEventBufferOffset(p)
    BY <2>1, <2>6 DEF WriteEventBufferOffset
  <2>7. CASE WriteReportBufferOffset(p)
    BY <2>1, <2>7 DEF WriteReportBufferOffset
  <2>8. CASE SyncPointers(p)
    BY <2>1, <2>8 DEF SyncPointers, SyncBoth
  <2>9. CASE Disable(p) \/ Disabling(p)
    BY <2>9, <1>1 DEF Disable, Disabling, SuspendRead, SuspendWrite, Wait, WaitDone, Reset
  <2>10. CASE ClearStallRead(p) \/ ClearStallWrite(p) \/ Kill(p)
    BY <2>10, <1>1 DEF ClearStallRead, ClearStallWrite, Kill
  <2>11. QED
    BY <1>3, <2>2, <2>3, <2>4, <2>5, <2>6, <2>7, <2>8, <2>9, <2>10
    DEF Step, Begin, Configure, SetBufferOffsets
<1>4. CASE UNCHANGED vars
  BY <1>1, <1>4 DEF vars, deviceVars
<1>5. QED
  BY <1>2, <1>3, <1>4 DEF SerialNext

\* The engine never works with the event buffer offset of one release and the
\* report buffer offset of another, wherever a process is killed.
THEOREM PointersTogether == SerialSpec => []PointersInStep
<1>1. ChannelInv => OneProcess
  BY DEF ChannelInv
<1>2. PointerInv => PointersInStep
  BY DEF PointerInv
<1>3. QED
  BY <1>1, <1>2, InitPointers, NextPointers, ChannelTypeCorrect, ChannelInvariant, SerialIsSpec, PTL
  DEF SerialSpec

-----------------------------------------------------------------------------
(* Buffers: the inductive invariant.                                        *)

\* States between the start of a tool and a stream that runs.
OpeningStates == {"delete", "exists", "stat", "deallocate", "allocate", "mmap",
                  "configure", "clear", "enable"}
ConstructorStates == {"exists", "stat", "deallocate", "allocate", "mmap"}
StreamStates      == {"configure", "clear", "enable"}

\* No report has the number of a run that is still to come.
ContentInv == \A m \in Mems : content[m] \subseteq 0..run

\* While a tool opens a stream the engine is off, and has reported nothing; only
\* the preallocator, as long as it deletes, may have an engine beside it.
OpeningInv ==
    stage \in OpeningStates =>
        /\ run > 0 /\ packet \in PacketSizes
        /\ stage # "delete" => ~ engine.enabled
        /\ ~ engine.enabled => \A m \in Mems : run \notin content[m]

\* The process has mapped the buffer b that exists, and knows its size.
Mapped(b) == /\ b \in DOMAIN kernel
             /\ m_mem[b] = kernel[b].mem /\ m_size[b] = kernel[b].size

\* The buffers are constructed one after the other, and none is taken away
\* from the stream that is about to use it.
MappedInv ==
    /\ stage \in {"none", "delete"} => id = Event
    /\ stage \in ConstructorStates /\ id = Report => Mapped(Event)
    /\ stage = "mmap" => /\ id \in DOMAIN kernel
                         /\ m_size[id] = kernel[id].size
                         /\ ~ Connects => m_size[id] = Wanted
    /\ stage \in StreamStates => /\ \A b \in Ids : Mapped(b)
                                 /\ m_size[Report] = m_size[Event] \div packet

\* The engine uses what the process has mapped, and starts on cleared reports.
EngineInv ==
    /\ stage \in {"clear", "enable", "running"} =>
           /\ engine.mem = m_mem /\ engine.size = m_size /\ engine.packet = packet
           /\ m_mem[Report] \in Mems
    /\ stage = "enable" => content[m_mem[Report]] = {}
    /\ stage = "running" => content[m_mem[Report]] \subseteq {run}

ChannelMemoryInv ==
    /\ ContentInv /\ OpeningInv /\ MappedInv /\ EngineInv
    /\ ReportsFit

-----------------------------------------------------------------------------
(* Types.                                                                   *)

\* A report buffer is asked for with a whole number of descriptors.
LEMMA WantedIsSize ==
    ASSUME BuffersType, packet \in PacketSizes PROVE Wanted \in Nat
<1>1. packet \in Nat /\ packet > 0 /\ m_size[Event] \in Nat /\ arg \in Nat
  BY BuffersAssumption DEF BuffersType, Sizes, Ids
<1>2. m_size[Event] \div packet \in Nat
  BY <1>1, SMT
<1>3. QED
  BY <1>1, <1>2 DEF Wanted

\* Before the first tool starts, every variable has its type.
LEMMA BuffersInitType == BuffersInit => BuffersType
<1> SUFFICES ASSUME BuffersInit PROVE BuffersType
  OBVIOUS
<1>1. Unknown \in Runs /\ 0 \in Runs /\ 0 \in 0..MaxSpins
  BY BuffersAssumption DEF Runs, Unknown
<1>2. NoMap \in [Ids -> Mems \cup {NoMem}] /\ Nothing \in [Ids -> Sizes]
  BY DEF NoMap, Nothing, Sizes
<1>3. DOMAIN kernel = {} /\ content \in [Mems -> SUBSET Runs]
  BY <1>1 DEF BuffersInit
<1>4. QED
  BY <1>1, <1>2, <1>3 DEF BuffersInit, BuffersType, Ids

\* A process that ends leaves its variables as they were before it started.
LEMMA GoneType ==
    ASSUME Gone
    PROVE  /\ stage' = "none" /\ job' = "none" /\ arg' = 0 /\ packet' = 0 /\ id' \in Ids
           /\ m_size' \in [Ids -> Sizes] /\ m_mem' \in [Ids -> Mems \cup {NoMem}]
           /\ spins' \in 0..MaxSpins /\ todo' \subseteq Ids
BY BuffersAssumption DEF Gone, NoMap, Nothing, Sizes, Ids

\* What the kernel knows of its buffers has its type.
KernelType == /\ DOMAIN kernel \subseteq Ids
              /\ \A b \in DOMAIN kernel :
                     kernel[b] \in [mem : Mems, size : Sizes, visible : BOOLEAN]

\* A buffer that is deleted takes nothing else along.
LEMMA ForgetType ==
    ASSUME NEW b, kernel' = Forget(b), KernelType PROVE KernelType'
BY DEF Forget, KernelType

\* Steps of a tool that starts and of deleteAllBuffers() keep the types.
LEMMA StartType ==
    ASSUME BuffersType, StartDma \/ StartPreallocator \/ DeleteBuffer \/ DeleteDone
    PROVE  BuffersType'
<1> USE DEF BuffersType, streamVars, bufferVars
<1>1. CASE StartDma
  BY <1>1, BuffersAssumption DEF StartDma, bufferVars, Runs
<1>2. CASE StartPreallocator
  BY <1>2, BuffersAssumption DEF StartPreallocator, Runs, list_all_buffers, Created
<1>3. CASE DeleteBuffer
  <2>1. PICK b \in todo : kernel' \in {Forget(b), kernel} /\ todo' = todo \ {b}
    BY <1>3 DEF DeleteBuffer
  <2>2. KernelType'
    BY <2>1, ForgetType DEF KernelType
  <2>3. QED
    BY <1>3, <2>1, <2>2 DEF DeleteBuffer, KernelType
<1>4. CASE DeleteDone
  BY <1>4, GoneType DEF DeleteDone
<1>5. QED
  BY <1>1, <1>2, <1>3, <1>4

\* Steps of the constructor of a buffer keep the types.
LEMMA ConstructorType ==
    ASSUME BuffersType, packet \in PacketSizes,
           \/ BufferExists \/ Spin \/ BufferSize \/ Deallocate \/ Allocate \/ Mmap
           \/ ConstructorFails
    PROVE  BuffersType'
<1> USE DEF BuffersType, streamVars, bufferVars
<1>1. CASE BufferExists
  BY <1>1 DEF BufferExists, Sizes
<1>2. CASE Spin
  BY <1>2, BuffersAssumption DEF Spin, SpinsLeft, Count
<1>3. CASE BufferSize
  <2>1. kernel[id].size \in Sizes /\ 0 \in 0..MaxSpins
    BY <1>3, BuffersAssumption DEF BufferSize, Created
  <2>2. QED
    BY <1>3, <2>1 DEF BufferSize
<1>4. CASE Deallocate
  <2>1. KernelType'
    BY <1>4, ForgetType DEF Deallocate, KernelType
  <2>2. QED
    BY <1>4, <2>1 DEF Deallocate, KernelType
<1>5. CASE Allocate
  <2>1. PICK m \in Free :
            /\ kernel' = [b \in DOMAIN kernel \cup {id} |->
                             IF b = id THEN [mem |-> m, size |-> Wanted, visible |-> FALSE]
                             ELSE kernel[b]]
            /\ content' = [content EXCEPT ![m] = @ \cup {Unknown}]
    BY <1>5 DEF Allocate
  <2>2. Wanted \in Sizes /\ m \in Mems /\ Unknown \in Runs
    BY WantedIsSize, BuffersAssumption DEF Free, Sizes, Unknown, Runs
  <2>3. KernelType'
    BY <2>1, <2>2 DEF KernelType
  <2>4. content' \in [Mems -> SUBSET Runs]
    BY <2>1, <2>2
  <2>5. QED
    BY <1>5, <2>2, <2>3, <2>4 DEF Allocate, KernelType
<1>6. CASE Mmap
  <2>1. kernel[id].mem \in Mems /\ 0 \in 0..MaxSpins
    BY <1>6, BuffersAssumption DEF Mmap, Created
  <2>2. QED
    BY <1>6, <2>1 DEF Mmap, Ids
<1>7. CASE ConstructorFails
  BY <1>7, GoneType DEF ConstructorFails, Fails
<1>8. QED
  BY <1>1, <1>2, <1>3, <1>4, <1>5, <1>6, <1>7

\* Steps of initializeDmaChannel() and of the end of a process keep the types.
LEMMA StreamType ==
    ASSUME BuffersType,
           stage \in StreamStates => \A b \in Ids : b \in DOMAIN kernel,
           \/ ConfigureEngine \/ ConfigureFails \/ ClearReports \/ Enable
           \/ Stop \/ Close \/ KillOwner \/ DeleteBeside
    PROVE  BuffersType'
<1> USE DEF BuffersType, streamVars, bufferVars
<1>1. CASE ConfigureEngine
  <2>1. [b \in Ids |-> kernel[b].mem] \in [Ids -> Mems \cup {NoMem}]
    BY <1>1 DEF ConfigureEngine, StreamStates
  <2>2. QED
    BY <1>1, <2>1 DEF ConfigureEngine, Then
<1>2. CASE ConfigureFails \/ KillOwner
  BY <1>2, GoneType DEF ConfigureFails, KillOwner, Fails
<1>3. CASE ClearReports
  BY <1>3 DEF ClearReports, Then
<1>4. CASE Enable
  BY <1>4 DEF Enable, Then
<1>5. CASE Stop
  BY <1>5 DEF Stop
<1>6. CASE Close
  BY <1>6, GoneType DEF Close
<1>7. CASE DeleteBeside
  <2>1. KernelType'
    BY <1>7, ForgetType DEF DeleteBeside, KernelType
  <2>2. QED
    BY <1>7, <2>1 DEF DeleteBeside, KernelType
<1>8. QED
  BY <1>1, <1>2, <1>3, <1>4, <1>5, <1>6, <1>7

\* Steps of the operator, of the kernel and of the engine keep the types.
LEMMA ExternalType ==
    ASSUME BuffersType, ResetChannel \/ Appear \/ EngineWrites PROVE BuffersType'
<1> USE DEF BuffersType, streamVars, bufferVars
<1>1. CASE ResetChannel
  BY <1>1 DEF ResetChannel
<1>2. CASE Appear
  <2>1. PICK b \in DOMAIN kernel : kernel' = [kernel EXCEPT ![b].visible = TRUE]
    BY <1>2 DEF Appear
  <2>2. KernelType'
    BY <2>1 DEF KernelType
  <2>3. QED
    BY <1>2, <2>2 DEF Appear, KernelType
<1>3. CASE EngineWrites
  <2>1. run \in Runs
    OBVIOUS
  <2>2. QED
    BY <1>3, <2>1 DEF EngineWrites
<1>4. QED
  BY <1>1, <1>2, <1>3

-----------------------------------------------------------------------------
(* The invariant.                                                           *)

\* A tool that ends, or never started, breaks nothing.
LEMMA GoneKeeps ==
    ASSUME BuffersType, ChannelMemoryInv, Gone, kernel' = kernel, content' = content, run' = run,
           engine' = engine \/ engine' = [engine EXCEPT !.enabled = FALSE]
    PROVE  ChannelMemoryInv'
<1>1. /\ stage' = "none" /\ id' = Event
      /\ stage' \notin OpeningStates /\ stage' \notin ConstructorStates
      /\ stage' \notin StreamStates /\ stage' # "mmap"
  BY DEF Gone, OpeningStates, ConstructorStates, StreamStates
<1>2. engine'.enabled => engine' = engine
  BY DEF BuffersType
<1>3. ContentInv' /\ OpeningInv' /\ MappedInv' /\ EngineInv'
  BY <1>1 DEF ChannelMemoryInv, ContentInv, OpeningInv, MappedInv, EngineInv
<1>4. ReportsFit'
  BY <1>2 DEF ChannelMemoryInv, ReportsFit
<1>5. QED
  BY <1>3, <1>4 DEF ChannelMemoryInv

\* A tool that starts finds the engine off, unless it is the preallocator, and no
\* report of its own.
LEMMA StartKeeps ==
    ASSUME BuffersType, ChannelMemoryInv, StartDma \/ StartPreallocator
    PROVE  ChannelMemoryInv'
<1>1. /\ stage' # "delete" => ~ engine.enabled
      /\ engine' = engine /\ kernel' = kernel /\ content' = content
      /\ run' = run + 1 /\ run \in Nat /\ packet' \in PacketSizes /\ id' = id /\ id = Event
      /\ stage' \in {"stat", "exists", "delete"}
  BY DEF StartDma, StartPreallocator, ChannelFree, bufferVars, BuffersType, Runs,
         ChannelMemoryInv, MappedInv
<1>2. \A m \in Mems : content[m] \subseteq 0..run
  BY DEF ChannelMemoryInv, ContentInv
<1>3. ContentInv' /\ OpeningInv'
  BY <1>1, <1>2 DEF ContentInv, OpeningInv
<1>4. MappedInv' /\ EngineInv'
  BY <1>1 DEF MappedInv, EngineInv, Event, Report, StreamStates
<1>5. ReportsFit'
  BY <1>1 DEF ChannelMemoryInv, ReportsFit
<1>6. QED
  BY <1>3, <1>4, <1>5 DEF ChannelMemoryInv

\* While the engine is off, the buffers may go and come.
LEMMA OpeningKeeps ==
    ASSUME ChannelMemoryInv, stage \in OpeningStates, stage' \in OpeningStates, ~ engine.enabled,
           engine' = engine, run' = run, packet' = packet,
           \/ content' = content
           \/ \E m \in Mems : content' = [content EXCEPT ![m] = @ \cup {Unknown}],
           BuffersType
    PROVE  /\ ContentInv' /\ OpeningInv' /\ ReportsFit'
<1>1. ~ engine.enabled /\ run > 0 /\ packet \in PacketSizes /\ run \in Nat
  BY DEF ChannelMemoryInv, OpeningInv, BuffersType, Runs
<1>2. \A m \in Mems : content[m] \subseteq 0..run /\ run \notin content[m]
  BY DEF ChannelMemoryInv, ContentInv, OpeningInv
<1>3. \A m \in Mems : content'[m] \subseteq content[m] \cup {0}
  BY DEF BuffersType, Unknown
<1>4. \A m \in Mems : content'[m] \subseteq 0..run /\ run \notin content'[m]
  BY <1>1, <1>2, <1>3
<1>5. QED
  BY <1>1, <1>4 DEF ContentInv, OpeningInv, ReportsFit

\* deleteAllBuffers() runs before anything is mapped.
LEMMA DeleteKeeps ==
    ASSUME BuffersType, ChannelMemoryInv, DeleteBuffer \/ DeleteDone PROVE ChannelMemoryInv'
<1>1. CASE DeleteDone /\ engine.enabled
  BY <1>1, GoneKeeps DEF DeleteDone, ChannelFree
<1>2. CASE DeleteBuffer \/ ~ engine.enabled
  <2>1. /\ stage = "delete" /\ stage' \in {"delete", "exists"} /\ (stage' = "exists" => ~ engine.enabled)
        /\ engine' = engine /\ content' = content
        /\ run' = run /\ packet' = packet /\ id' = id
    BY <1>2 DEF DeleteBuffer, DeleteDone, ChannelFree, streamVars, bufferVars
  <2>2. id = Event
    BY <2>1 DEF ChannelMemoryInv, MappedInv
  <2>3. MappedInv' /\ EngineInv'
    BY <2>1, <2>2 DEF MappedInv, EngineInv, Event, Report, StreamStates
  <2>4. ContentInv' /\ OpeningInv' /\ ReportsFit'
    BY <2>1 DEF ChannelMemoryInv, ContentInv, OpeningInv, ReportsFit, OpeningStates
  <2>5. QED
    BY <2>3, <2>4 DEF ChannelMemoryInv
<1>3. QED
  BY <1>1, <1>2

\* The preallocator beside a stream takes away what nobody looks at again.
LEMMA BesideKeeps ==
    ASSUME ChannelMemoryInv, DeleteBeside PROVE ChannelMemoryInv'
<1>1. stage = "running" /\ UNCHANGED <<content, engine, stage, run, packet, id, m_size, m_mem>>
  BY DEF DeleteBeside, streamVars, bufferVars
<1>2. QED
  BY <1>1 DEF ChannelMemoryInv, ContentInv, OpeningInv, OpeningStates, MappedInv, ConstructorStates,
              StreamStates, EngineInv, ReportsFit

\* The constructor of the report buffer leaves the event buffer alone, and
\* whatever it maps has the size it wants.
LEMMA ConstructorKeeps ==
    ASSUME BuffersType, ChannelMemoryInv,
           BufferExists \/ Spin \/ BufferSize \/ Deallocate \/ Allocate \/ Mmap
    PROVE  ChannelMemoryInv'
<1> USE DEF streamVars, bufferVars, Event, Report, Ids
<1>1. /\ stage \in ConstructorStates /\ stage' \in ConstructorStates \cup {"configure", "close"}
      /\ engine' = engine /\ run' = run /\ packet' = packet /\ arg' = arg
      /\ \/ content' = content
         \/ \E m \in Mems : content' = [content EXCEPT ![m] = @ \cup {Unknown}]
  BY DEF BufferExists, Spin, BufferSize, Deallocate, Allocate, Mmap, ConstructorStates, Free
<1>2. id = Report => Mapped(Event)
  BY <1>1 DEF ChannelMemoryInv, MappedInv
<1>3. m_size \in [Ids -> Sizes] /\ m_mem \in [Ids -> Mems \cup {NoMem}] /\ id \in Ids
  BY DEF BuffersType
<1>4. MappedInv'
  <2>1. CASE BufferExists
    BY <1>2, <1>3, <2>1 DEF BufferExists, Mapped, MappedInv, StreamStates
  <2>2. CASE Spin
    <3>1. stage' = stage /\ kernel' = kernel /\ m_mem' = m_mem /\ m_size' = m_size /\ id' = id
          /\ arg' = arg /\ packet' = packet
      BY <2>2 DEF Spin
    <3>2. QED
      BY <3>1 DEF ChannelMemoryInv, MappedInv, Mapped, Connects, Wanted
  <2>3. CASE BufferSize
    <3>1. stage' = "mmap" /\ ~ Connects => kernel[id].size = Wanted
      BY <2>3 DEF BufferSize, OtherSize
    <3>2. /\ m_size' = [m_size EXCEPT ![id] = kernel[id].size] /\ id \in DOMAIN kernel
          /\ stage' \in {"deallocate", "mmap"} /\ kernel' = kernel /\ id' = id /\ m_mem' = m_mem
      BY <2>3 DEF BufferSize, Created
    <3>3. QED
      BY <1>1, <1>2, <1>3, <3>1, <3>2 DEF MappedInv, Mapped, Connects, Wanted, StreamStates
  <2>4. CASE Deallocate
    <3>1. /\ kernel' = Forget(id) /\ stage' = "allocate" /\ id' = id
          /\ m_size' = m_size /\ m_mem' = m_mem
      BY <2>4 DEF Deallocate
    <3>2. id = Report => Event \in DOMAIN kernel' /\ kernel'[Event] = kernel[Event]
      BY <1>2, <3>1 DEF Forget, Mapped
    <3>3. QED
      BY <1>2, <3>1, <3>2 DEF MappedInv, Mapped, StreamStates
  <2>5. CASE Allocate
    <3>1. PICK m \in Free :
              kernel' = [b \in DOMAIN kernel \cup {id} |->
                            IF b = id THEN [mem |-> m, size |-> Wanted, visible |-> FALSE]
                            ELSE kernel[b]]
      BY <2>5 DEF Allocate
    <3>2. /\ stage' = "mmap" /\ id' = id /\ m_size' = [m_size EXCEPT ![id] = Wanted]
          /\ m_mem' = m_mem
      BY <2>5 DEF Allocate
    <3>3. id \in DOMAIN kernel' /\ kernel'[id].size = Wanted
      BY <3>1
    <3>4. id = Report => Event \in DOMAIN kernel' /\ kernel'[Event] = kernel[Event]
      BY <1>2, <3>1 DEF Mapped
    <3>5. QED
      BY <1>1, <1>2, <1>3, <3>2, <3>3, <3>4
      DEF MappedInv, Mapped, Connects, Wanted, StreamStates
  <2>6. CASE Mmap
    <3>1. /\ stage = "mmap" /\ kernel' = kernel /\ m_size' = m_size /\ id' = Report
          /\ m_mem' = [m_mem EXCEPT ![id] = kernel[id].mem]
          /\ stage' \in {"exists", "configure", "close"} /\ (stage' = "exists" <=> id = Event)
      BY <2>6 DEF Mmap
    <3>2. /\ id \in DOMAIN kernel /\ m_size[id] = kernel[id].size
          /\ ~ Connects => m_size[id] = Wanted
      BY <3>1 DEF ChannelMemoryInv, MappedInv
    <3>3. Mapped(Event)'
      BY <1>2, <1>3, <3>1, <3>2 DEF Mapped
    <3>4. id = Report => Mapped(Report)' /\ m_size[Report] = m_size[Event] \div packet
      BY <1>3, <3>1, <3>2 DEF Mapped, Connects, Wanted
    <3>5. QED
      BY <1>1, <1>3, <3>1, <3>3, <3>4 DEF MappedInv, ConstructorStates, StreamStates
  <2>7. QED
    BY <2>1, <2>2, <2>3, <2>4, <2>5, <2>6
<1>5. EngineInv'
  BY <1>1 DEF EngineInv, ConstructorStates
<1>6. CASE stage' # "close"
  <2>1. ~ engine.enabled
    BY <1>1 DEF ChannelMemoryInv, OpeningInv, OpeningStates, ConstructorStates
  <2>2. ContentInv' /\ OpeningInv' /\ ReportsFit'
    BY <1>1, <1>6, <2>1, OpeningKeeps DEF OpeningStates, ConstructorStates
  <2>3. QED
    BY <1>4, <1>5, <2>2 DEF ChannelMemoryInv
<1>7. CASE stage' = "close"
  <2>1. content' = content /\ ~ engine.enabled
    BY <1>1, <1>7 DEF BufferExists, Spin, BufferSize, Deallocate, Allocate, Mmap,
                      ConstructorStates, OpeningStates, ChannelMemoryInv, OpeningInv
  <2>2. ContentInv' /\ OpeningInv' /\ ReportsFit'
    BY <1>1, <1>7, <2>1 DEF ChannelMemoryInv, ContentInv, OpeningInv, OpeningStates,
                            ReportsFit
  <2>3. QED
    BY <1>4, <1>5, <2>2 DEF ChannelMemoryInv
<1>8. QED
  BY <1>6, <1>7

\* initializeDmaChannel() gives the engine the buffers the process has mapped,
\* and enables it after it has cleared the reports.
LEMMA StreamKeeps ==
    ASSUME BuffersType, ChannelMemoryInv, ConfigureEngine \/ ClearReports \/ Enable
    PROVE  ChannelMemoryInv'
<1> USE DEF streamVars, bufferVars, Then
<1>1. /\ stage \in StreamStates /\ stage' \notin ConstructorStates
      /\ stage' \notin {"none", "delete", "mmap"}
      /\ kernel' = kernel /\ m_mem' = m_mem /\ m_size' = m_size
      /\ run' = run /\ packet' = packet
  BY DEF ConfigureEngine, ClearReports, Enable, StreamStates, ConstructorStates
<1>2. /\ \A b \in Ids : Mapped(b)
      /\ m_size[Report] = m_size[Event] \div packet
  BY <1>1 DEF ChannelMemoryInv, MappedInv
<1>3. MappedInv'
  BY <1>1, <1>2 DEF MappedInv, Mapped
<1>4. m_mem[Report] \in Mems /\ m_mem \in [Ids -> Mems \cup {NoMem}]
      /\ m_size \in [Ids -> Sizes] /\ Report \in Ids
  BY <1>2 DEF BuffersType, Mapped, Ids
<1>5. CASE ConfigureEngine
  <2>1. /\ stage = "configure" /\ stage' = "clear" /\ content' = content
        /\ engine' = [engine EXCEPT !.mem = [b \in Ids |-> kernel[b].mem],
                                    !.size = m_size, !.packet = packet]
    BY <1>5 DEF ConfigureEngine
  <2>2. [b \in Ids |-> kernel[b].mem] = m_mem
    BY <1>2, <1>4 DEF Mapped
  <2>3. ~ engine'.enabled /\ engine'.mem = m_mem /\ engine'.size = m_size
        /\ engine'.packet = packet
    BY <2>1, <2>2 DEF ChannelMemoryInv, OpeningInv, OpeningStates, BuffersType
  <2>4. ContentInv' /\ OpeningInv'
    BY <1>1, <2>1, <2>3 DEF ChannelMemoryInv, ContentInv, OpeningInv, OpeningStates
  <2>5. EngineInv' /\ ReportsFit'
    BY <1>1, <1>4, <2>1, <2>3 DEF EngineInv, ReportsFit
  <2>6. QED
    BY <1>3, <2>4, <2>5 DEF ChannelMemoryInv
<1>6. CASE ClearReports
  <2>1. /\ stage = "clear" /\ stage' = "enable" /\ engine' = engine
        /\ content' = [content EXCEPT ![m_mem[Report]] = {}]
    BY <1>6 DEF ClearReports
  <2>2. \A m \in Mems : content'[m] \subseteq content[m]
    BY <2>1 DEF BuffersType
  <2>3. content'[m_mem[Report]] = {}
    BY <1>4, <2>1 DEF BuffersType
  <2>4. ContentInv' /\ OpeningInv'
    BY <1>1, <2>1, <2>2 DEF ChannelMemoryInv, ContentInv, OpeningInv, OpeningStates
  <2>5. EngineInv' /\ ReportsFit'
    BY <1>1, <2>1, <2>3
    DEF ChannelMemoryInv, EngineInv, ReportsFit
  <2>6. QED
    BY <1>3, <2>4, <2>5 DEF ChannelMemoryInv
<1>7. CASE Enable
  <2>1. /\ stage = "enable" /\ stage' = "running" /\ content' = content
        /\ engine' = [engine EXCEPT !.enabled = TRUE]
    BY <1>7 DEF Enable
  <2>2. engine'.mem = m_mem /\ engine'.size = m_size /\ engine'.packet = packet
    BY <2>1 DEF ChannelMemoryInv, EngineInv, BuffersType
  <2>3. content[m_mem[Report]] = {}
    BY <2>1 DEF ChannelMemoryInv, EngineInv
  <2>4. ContentInv' /\ OpeningInv'
    BY <1>1, <2>1 DEF ChannelMemoryInv, ContentInv, OpeningInv, OpeningStates
  <2>5. EngineInv'
    BY <1>1, <1>4, <2>1, <2>2, <2>3 DEF EngineInv
  <2>6. ReportsFit'
    BY <1>1, <1>2, <2>2 DEF ReportsFit, Mapped
  <2>7. QED
    BY <1>3, <2>4, <2>5, <2>6 DEF ChannelMemoryInv
<1>8. QED
  BY <1>5, <1>6, <1>7

\* A stream that stops leaves everything as it is.
LEMMA StopKeeps == ASSUME ChannelMemoryInv, Stop PROVE ChannelMemoryInv'
<1>1. stage' = "close" /\ UNCHANGED <<engine, content, run, packet>>
  BY DEF Stop, streamVars
<1>2. QED
  BY <1>1 DEF ChannelMemoryInv, ContentInv, OpeningInv, OpeningStates, MappedInv, ConstructorStates,
              StreamStates, EngineInv, ReportsFit

\* The engine reports under the number of the last run, and only where it was
\* told to; attributes that appear change no buffer.
LEMMA ExternalKeeps ==
    ASSUME BuffersType, ChannelMemoryInv, ResetChannel \/ Appear \/ EngineWrites
    PROVE  ChannelMemoryInv'
<1> USE DEF streamVars, bufferVars
<1>1. CASE ResetChannel
  <2>1. /\ stage = "none" /\ stage' = stage /\ id' = id /\ kernel' = kernel /\ content' = content
        /\ run' = run /\ engine' = [engine EXCEPT !.enabled = FALSE] /\ ~ engine'.enabled
    BY <1>1 DEF ResetChannel, BuffersType
  <2>2. QED
    BY <2>1 DEF ChannelMemoryInv, ContentInv, OpeningInv, OpeningStates, MappedInv,
                ConstructorStates, StreamStates, EngineInv, ReportsFit
<1>2. CASE Appear
  <2>1. /\ UNCHANGED <<content, engine, stage, run, arg, packet, id, m_size, m_mem>>
        /\ DOMAIN kernel' = DOMAIN kernel
        /\ \A b \in DOMAIN kernel : /\ kernel'[b].mem = kernel[b].mem
                                    /\ kernel'[b].size = kernel[b].size
    <3>1. PICK b \in DOMAIN kernel : kernel' = [kernel EXCEPT ![b].visible = TRUE]
      BY <1>2 DEF Appear
    <3>2. QED
      BY <1>2, <3>1 DEF Appear, BuffersType
  <2>2. \A b \in Ids : Mapped(b) => Mapped(b)'
    BY <2>1 DEF Mapped
  <2>3. MappedInv'
    BY <2>1, <2>2 DEF ChannelMemoryInv, MappedInv, Connects, Wanted, Ids
  <2>4. ReportsFit'
    BY <2>1 DEF ChannelMemoryInv, ReportsFit
  <2>5. QED
    BY <2>1, <2>3, <2>4 DEF ChannelMemoryInv, ContentInv, OpeningInv, EngineInv
<1>3. CASE EngineWrites
  <2>1. /\ engine.enabled
        /\ UNCHANGED <<kernel, engine, stage, run, arg, packet, id, m_size, m_mem>>
        /\ content' = [content EXCEPT ![engine.mem[Report]] = @ \cup {run}]
    BY <1>3 DEF EngineWrites
  <2>2. (stage \in OpeningStates => stage = "delete") /\ run \in Nat
    BY <2>1 DEF ChannelMemoryInv, OpeningInv, BuffersType, Runs
  <2>3. \A m \in Mems : content'[m] \subseteq content[m] \cup {run}
    BY <2>1 DEF BuffersType
  <2>4. ContentInv'
    BY <2>1, <2>2, <2>3 DEF ChannelMemoryInv, ContentInv
  <2>5. OpeningInv'
    BY <2>1, <2>2 DEF ChannelMemoryInv, OpeningInv
  <2>6. EngineInv'
    <3>1. QED
      BY <2>1, <2>2, <2>3 DEF ChannelMemoryInv, EngineInv, OpeningStates
  <2>7. MappedInv' /\ ReportsFit'
    BY <2>1 DEF ChannelMemoryInv, MappedInv, Mapped, Connects, Wanted,
                ReportsFit
  <2>8. QED
    BY <2>4, <2>5, <2>6, <2>7 DEF ChannelMemoryInv
<1>4. QED
  BY <1>1, <1>2, <1>3

-----------------------------------------------------------------------------
(* The theorems.                                                            *)

Inductive == BuffersType /\ ChannelMemoryInv

\* Every step of a tool, of the kernel, of the operator and of the engine keeps
\* the types and the invariant.
LEMMA StepKeeps == Inductive /\ [BuffersNext]_allVars => Inductive'
<1> SUFFICES ASSUME BuffersType, ChannelMemoryInv, [BuffersNext]_allVars
             PROVE  BuffersType' /\ ChannelMemoryInv'
  BY DEF Inductive
<1>1. stage \in OpeningStates => packet \in PacketSizes
  BY DEF ChannelMemoryInv, OpeningInv
<1>2. stage \in StreamStates => \A b \in Ids : b \in DOMAIN kernel
  BY DEF ChannelMemoryInv, MappedInv, Mapped
<1>3. CASE StartDma \/ StartPreallocator
  BY <1>3, StartType, StartKeeps
<1>4. CASE DeleteBuffer \/ DeleteDone
  BY <1>4, StartType, DeleteKeeps
<1>5. CASE BufferExists \/ Spin \/ BufferSize \/ Deallocate \/ Allocate \/ Mmap
  <2>1. stage \in OpeningStates
    BY <1>5 DEF BufferExists, Spin, BufferSize, Deallocate, Allocate, Mmap, OpeningStates
  <2>2. QED
    BY <1>1, <1>5, <2>1, ConstructorType, ConstructorKeeps
<1>6. CASE ConstructorFails \/ ConfigureFails \/ KillOwner
  <2>1. Gone /\ kernel' = kernel /\ content' = content /\ run' = run /\ engine' = engine
    BY <1>6 DEF ConstructorFails, ConfigureFails, KillOwner, Fails
  <2>2. BuffersType'
    BY <2>1, GoneType DEF BuffersType
  <2>3. QED
    BY <2>1, <2>2, GoneKeeps
<1>7. CASE ConfigureEngine \/ ClearReports \/ Enable \/ Stop \/ DeleteBeside
  BY <1>2, <1>7, StreamType, StreamKeeps, StopKeeps, BesideKeeps
<1>8. CASE Close
  BY <1>2, <1>8, StreamType, GoneKeeps DEF Close
<1>9. CASE ResetChannel \/ Appear \/ EngineWrites
  BY <1>9, ExternalType, ExternalKeeps
<1>10. CASE UNCHANGED allVars
  <2>1. BuffersType'
    BY <1>10 DEF allVars, streamVars, bufferVars, BuffersType
  <2>2. ContentInv' /\ OpeningInv' /\ EngineInv' /\ ReportsFit'
    BY <1>10 DEF allVars, streamVars, bufferVars, ChannelMemoryInv, ContentInv, OpeningInv,
                 EngineInv, ReportsFit
  <2>3. MappedInv'
    BY <1>10 DEF allVars, streamVars, bufferVars, ChannelMemoryInv, MappedInv, Mapped,
                 Connects, Wanted
  <2>4. QED
    BY <2>1, <2>2, <2>3 DEF ChannelMemoryInv
<1>11. QED
  BY <1>3, <1>4, <1>5, <1>6, <1>7, <1>8, <1>9, <1>10 DEF BuffersNext, Opening

\* Before the first tool starts the engine is off and nothing is allocated.
LEMMA InitInductive == BuffersInit => Inductive
<1> SUFFICES ASSUME BuffersInit PROVE Inductive
  OBVIOUS
<1>1. ~ engine.enabled /\ stage = "none" /\ id = Event /\ run = 0
      /\ \A m \in Mems : content[m] = {0}
  BY DEF BuffersInit, Unknown
<1>2. ChannelMemoryInv
  BY <1>1 DEF ChannelMemoryInv, ContentInv, OpeningInv, MappedInv, EngineInv, OpeningStates,
              ConstructorStates, StreamStates, ReportsFit
<1>3. QED
  BY <1>2, BuffersInitType DEF Inductive

\* Kernel, process and engine agree on the memory of the channel in every state
\* of every number of runs, whichever calls fail and whoever is killed.
THEOREM ChannelMemory == BuffersSpec => []Inductive
BY InitInductive, StepKeeps, PTL DEF BuffersSpec

\* Nobody but the preallocator takes memory from a running engine, or starts one
\* without it (buffer.cpp, initializeDma()).
THEOREM OnlyPreallocatorFrees == BuffersSpec => EngineKeepsMemory
<1> DEFINE Keeps == ~ EngineMemoryAllocated' => ~ EngineMemoryAllocated \/ PreallocatorDeletes
<1>1. Inductive /\ [BuffersNext]_allVars => [Keeps]_allVars
  <2> SUFFICES ASSUME BuffersType, ChannelMemoryInv, BuffersNext, EngineMemoryAllocated,
                      ~ PreallocatorDeletes
               PROVE  EngineMemoryAllocated'
    BY DEF Inductive
  <2> USE DEF streamVars, bufferVars
  <2>1. CASE engine' = engine /\ kernel' = kernel
    BY <2>1 DEF EngineMemoryAllocated
  <2>2. CASE ~ engine'.enabled
    BY <2>2 DEF EngineMemoryAllocated
  <2>3. CASE Deallocate \/ Allocate
    BY <2>2, <2>3 DEF Deallocate, Allocate, ChannelMemoryInv, OpeningInv, OpeningStates
  <2>4. CASE ConfigureEngine
    <3>1. ~ engine.enabled
      BY <2>4 DEF ConfigureEngine, ChannelMemoryInv, OpeningInv, OpeningStates
    <3>2. QED
      BY <2>2, <2>4, <3>1 DEF ConfigureEngine, BuffersType
  <2>5. CASE Enable
    <3>1. \A b \in Ids : Mapped(b)
      BY <2>5 DEF Enable, ChannelMemoryInv, MappedInv, StreamStates
    <3>2. engine.mem = m_mem /\ engine.size = m_size
      BY <2>5 DEF Enable, ChannelMemoryInv, EngineInv
    <3>3. engine'.mem = m_mem /\ engine'.size = m_size /\ kernel' = kernel
      BY <2>5, <3>2 DEF Enable, BuffersType
    <3>4. QED
      BY <3>1, <3>3 DEF EngineMemoryAllocated, Mapped
  <2>6. CASE Close \/ ResetChannel
    BY <2>2, <2>6 DEF Close, ResetChannel, BuffersType
  <2>7. CASE Appear
    <3>1. PICK b \in DOMAIN kernel : kernel' = [kernel EXCEPT ![b].visible = TRUE]
      BY <2>7 DEF Appear
    <3>2. DOMAIN kernel' = DOMAIN kernel
          /\ \A c \in DOMAIN kernel : kernel'[c].mem = kernel[c].mem /\ kernel'[c].size = kernel[c].size
      BY <3>1 DEF BuffersType
    <3>3. engine' = engine
      BY <2>7 DEF Appear
    <3>4. QED
      BY <3>2, <3>3 DEF EngineMemoryAllocated
  <2>8. QED
    BY <2>1, <2>3, <2>4, <2>5, <2>6, <2>7
    DEF BuffersNext, Opening, StartDma, StartPreallocator, PreallocatorDeletes, DeleteDone,
        BufferExists, Spin, BufferSize, Mmap, ConstructorFails, ConfigureFails, ClearReports,
        Stop, KillOwner, Fails, EngineWrites
<1>2. QED
  BY <1>1, ChannelMemory, PTL DEF BuffersSpec, EngineKeepsMemory

\* The two rings of a running engine have matching lengths, and a stream that
\* is open reads the engine's memory and no report of an earlier run.
THEOREM StreamReadsItsEngine == BuffersSpec => []BuffersInv
<1>1. Inductive => OwnerReadsEngine
  BY DEF Inductive, ChannelMemoryInv, EngineInv, OwnerReadsEngine
<1>2. Inductive => BuffersType /\ ReportsFit
  BY DEF Inductive, ChannelMemoryInv
<1>3. QED
  BY <1>1, <1>2, ChannelMemory, PTL DEF BuffersInv

\* A report the engine writes for a run is not wiped while the run lasts:
\* clear() of the report buffer always comes before enable().
THEOREM ReportsAreKept == BuffersSpec => ReportsKept
<1> DEFINE Kept == \A m \in Mems : run \in content[m] /\ run' = run /\ run > 0
                                       => run \in content'[m]
<1>1. Inductive /\ [BuffersNext]_allVars => [Kept]_allVars
  <2> SUFFICES ASSUME BuffersType, ChannelMemoryInv, BuffersNext,
                      NEW m \in Mems, run \in content[m]
               PROVE  run \in content'[m]
    BY DEF Inductive
  <2> USE DEF streamVars, bufferVars
  <2>1. CASE content' = content
    BY <2>1
  <2>2. CASE ClearReports
    BY <2>2 DEF ClearReports, ChannelMemoryInv, OpeningInv, OpeningStates
  <2>3. CASE Allocate \/ EngineWrites
    BY <2>3 DEF Allocate, EngineWrites, BuffersType
  <2>4. QED
    BY <2>1, <2>2, <2>3
    DEF BuffersNext, Opening, StartDma, StartPreallocator, DeleteBuffer, DeleteDone, DeleteBeside,
        BufferExists,
        Spin, BufferSize, Deallocate, Mmap, ConstructorFails, ConfigureEngine, ConfigureFails,
        Enable, Stop, Close, KillOwner, Fails, ResetChannel, Appear
<1>2. QED
  BY <1>1, ChannelMemory, PTL DEF BuffersSpec, ReportsKept

=============================================================================
