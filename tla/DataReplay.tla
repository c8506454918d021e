----------------------------- MODULE DataReplay -----------------------------
(***************************************************************************)
(* Replay of recorded events from the DDR3 memory of the board: the tool     *)
(* dma_in_ddr3_mc writes the blocks of a file to the memory of every channel *)
(* (sysmon::ddr3DataReplayEventToRam(), one action per access of the board), *)
(* opens a DMA stream per channel and starts the replay channels             *)
(* (datareplaychannel), which then deliver the event for ever.  The tool may *)
(* be killed anywhere, and the operator may reset DMA channels (dmactrl -r). *)
(*                                                                          *)
(* A block has BlockWords data words and an address of its own; the blocks   *)
(* of a channel begin every RegionBlocks addresses.  The memory controller,  *)
(* the replay channels and the DMA engines are external.  Words are pairs of *)
(* the run whose file they come from and their place in it.  One controller, *)
(* the one the tool uses.                                                   *)
(***************************************************************************)
EXTENDS Integers, Sequences

CONSTANTS
    LastChannel,   \* MAX_CHANNELS - 1
    BlockWords,    \* 15
    RegionBlocks,  \* blocks between the start addresses of two channels
    FileWords,     \* sizes of the files that may be given
    MaxWords,      \* the largest of them
    MaxPolls,      \* SYSMON_DR_TIMEOUT
    MaxRuns        \* bound of the runs: how often the tool is started

ASSUME ReplayAssumption ==
    /\ LastChannel \in Nat
    /\ BlockWords \in Nat \ {0} /\ RegionBlocks \in Nat \ {0}
    /\ MaxWords \in Nat /\ FileWords \subseteq 1..MaxWords
    /\ MaxPolls \in Nat /\ MaxRuns \in Nat

VARIABLES
    ram,        \* address -> block
    request,    \* the block register and DATA_REPLAY_CTRL
    ready,      \* phy_init_done of the controller, and the clock domain of the links
    chan,       \* registers of the replay channel, its link and its DMA engine
    next, rx,   \* replay channel: next address; stream: words of the event coming in
    last, seen, \* the last event a stream has received, and a bit that flips with it
    pc, run, file,
    i,          \* the channel the tool is at
    num_dws, addr, timeout,
    step,       \* of the setup of a channel
    opened      \* the streams this process has opened

hwVars   == <<ram, request, chan, next, rx, last, seen>>
loadVars == <<num_dws, addr, timeout>>
vars == <<hwVars, ready, pc, run, file, i, loadVars, step, opened>>

Channels   == 0 .. LastChannel
Blocks(n)  == (n + BlockWords - 1) \div BlockWords
StartOf(c) == c * RegionBlocks
Addresses  == 0 .. StartOf(LastChannel) + Blocks(MaxWords)

Word(r, k)   == <<r, k>>
FileOf(r, n) == [k \in 1..n |-> Word(r, k)]
Block(c, w, eoe, end) == [channel |-> c, words |-> w, eoe |-> eoe, end |-> end]
NoChannel == -1
Junk      == Block(NoChannel, <<>>, FALSE, FALSE)
Idle      == [pending |-> FALSE, done |-> FALSE, addr |-> 0, block |-> Junk]

Init ==
    /\ ram = [a \in Addresses |-> Junk]
    /\ request = Idle
    /\ ready = [phy |-> FALSE, gtx |-> FALSE]
    /\ \E r \in BOOLEAN :
           chan = [c \in Channels |->
                      [reset |-> r, enable |-> FALSE, oneshot |-> FALSE, continuous |-> FALSE,
                       start |-> 0, active |-> FALSE, engine |-> FALSE]]
    /\ next = [c \in Channels |-> 0]
    /\ rx = [c \in Channels |-> <<>>] /\ last = [c \in Channels |-> <<>>]
    /\ seen = [c \in Channels |-> FALSE]
    /\ pc = "none" /\ run = 0 /\ file = 0 /\ i = 0
    /\ num_dws = 0 /\ addr = 0 /\ timeout = 0
    /\ step = 1 /\ opened = {}

\* The process is gone; the board stays as it is.
Gone == /\ pc' = "none" /\ file' = 0 /\ i' = 0
        /\ num_dws' = 0 /\ addr' = 0 /\ timeout' = 0
        /\ step' = 1 /\ opened' = {}

Exit == Gone /\ UNCHANGED <<hwVars, ready, run>>

-----------------------------------------------------------------------------
(* fileToRam() for every channel.                                           *)

Start ==
    /\ pc = "none" /\ run < MaxRuns
    /\ run' = run + 1
    /\ file' \in FileWords
    /\ pc' = "phy"
    /\ UNCHANGED <<hwVars, ready, i, loadVars, step, opened>>

\* Where a channel's blocks go.
Region(c) == StartOf(c)

BeginFile(c) == /\ num_dws' = file
                /\ addr' = Region(c)
                /\ timeout' = MaxPolls
                /\ i' = c

PhyReady ==
    /\ pc = "phy"
    /\ ready.phy
    /\ BeginFile(0)
    /\ pc' = "block"
    /\ UNCHANGED <<hwVars, ready, run, file, step, opened>>

\* mask, EOE and END of a block.
EndsNever   == FALSE                   \* fault: no block ends the channel
EndsEvent   == num_dws <= BlockWords
EndsChannel == EndsEvent

ThisBlock ==
    Block(i, [k \in 1 .. IF EndsEvent THEN num_dws ELSE BlockWords |-> Word(run, file - num_dws + k)],
          EndsEvent, EndsChannel)

WriteBlock ==
    /\ pc = "block"
    /\ num_dws > 0
    /\ request' = [pending |-> TRUE, done |-> FALSE, addr |-> addr, block |-> ThisBlock]
    /\ timeout' = MaxPolls
    /\ pc' = "wait"
    /\ UNCHANGED <<ram, ready, chan, next, rx, last, seen, run, file, i, num_dws, addr, step, opened>>

Count(n)    == n - 1
MorePolls   == timeout > 0

PollDone ==
    /\ pc = "wait"
    /\ request.done
    /\ num_dws' = IF num_dws < BlockWords THEN 0 ELSE num_dws - BlockWords
    /\ addr' = addr + 1
    /\ pc' = "block"
    /\ UNCHANGED <<hwVars, ready, run, file, i, timeout, step, opened>>

PollAgain ==
    /\ pc = "wait"
    /\ ~ request.done
    /\ MorePolls
    /\ timeout' = Count(timeout)
    /\ UNCHANGED <<hwVars, ready, pc, run, file, i, num_dws, addr, step, opened>>

\* The exception is caught, and the tool aborts.
PollFails ==
    /\ pc = "wait"
    /\ ~ request.done
    /\ ~ MorePolls
    /\ Exit

NextFile ==
    /\ pc = "block"
    /\ num_dws = 0
    /\ i < LastChannel
    /\ BeginFile(i + 1)
    /\ UNCHANGED <<hwVars, ready, pc, run, file, step, opened>>

LoadDone ==
    /\ pc = "block"
    /\ num_dws = 0
    /\ i = LastChannel
    /\ pc' = "gtx"
    /\ UNCHANGED <<hwVars, ready, run, file, i, loadVars, step, opened>>

-----------------------------------------------------------------------------
(* The setup of the channels, one register after the other.  "engine" is the  *)
(* whole of prepareEventStream(), "active" the data source, flow control and *)
(* channel-active bits of the link.                                         *)

Write(f, v) == [field |-> f, value |-> v]
SetupStarted ==                        \* fault: reset only where it was not
    << Write("engine", TRUE), Write("active", TRUE), Write("start", 0),
       Write("continuous", TRUE), Write("oneshot", FALSE), Write("reset", FALSE),
       Write("enable", TRUE) >>
Setup ==
    << Write("reset", TRUE), Write("engine", TRUE), Write("active", TRUE), Write("start", 0),
       Write("continuous", TRUE), Write("oneshot", FALSE), Write("reset", FALSE),
       Write("enable", TRUE) >>

GtxReady ==
    /\ pc = "gtx"
    /\ ready.gtx
    /\ pc' = "setup"
    /\ i' = 0
    /\ step' = 1
    /\ UNCHANGED <<hwVars, ready, run, file, loadVars, opened>>

\* A replay channel in reset goes back to its start address.
Restart(c) == next' = IF chan'[c].reset THEN [next EXCEPT ![c] = chan'[c].start] ELSE next

SetupStep ==
    /\ pc = "setup"
    /\ step <= Len(Setup)
    /\ Setup[step].field = "engine" => ~ chan[i].engine
    /\ chan' = [chan EXCEPT ![i][Setup[step].field] =
                    IF Setup[step].field = "start" THEN StartOf(i) ELSE Setup[step].value]
    /\ Restart(i)
    /\ opened' = IF Setup[step].field = "engine" THEN opened \cup {i} ELSE opened
    /\ last' = IF Setup[step].field = "engine" THEN [last EXCEPT ![i] = <<>>] ELSE last
    /\ step' = step + 1
    /\ UNCHANGED <<ram, request, rx, seen, ready, pc, run, file, i, loadVars>>

\* CHANNEL_BUSY, or buffers that cannot be had: the tool exits with the channels
\* before this one running.
SetupFails ==
    /\ pc = "setup"
    /\ step <= Len(Setup) /\ Setup[step].field = "engine"
    /\ Exit

SetupDone ==
    /\ pc = "setup"
    /\ step > Len(Setup)
    /\ step' = 1
    /\ IF i < LastChannel THEN i' = i + 1 /\ pc' = "setup" ELSE i' = 0 /\ pc' = "loop"
    /\ UNCHANGED <<hwVars, ready, run, file, loadVars, opened>>

-----------------------------------------------------------------------------
(* The event loop reads the streams until a signal; then replay stops and the *)
(* streams are closed.                                                      *)

Interrupt ==
    /\ pc = "loop"
    /\ pc' = "cleanup"
    /\ UNCHANGED <<hwVars, ready, run, file, i, loadVars, step, opened>>

CleanupReset ==
    /\ pc = "cleanup"
    /\ ~ chan[i].reset
    /\ chan' = [chan EXCEPT ![i].reset = TRUE]
    /\ Restart(i)
    /\ UNCHANGED <<ram, request, rx, last, seen, ready, pc, run, file, i, loadVars, step, opened>>

\* Disabling an engine resets its FIFO.
Disable(c) == /\ chan' = [chan EXCEPT ![c].engine = FALSE]
              /\ rx' = [rx EXCEPT ![c] = <<>>]

CleanupStream ==
    /\ pc = "cleanup"
    /\ chan[i].reset
    /\ Disable(i)
    /\ IF i < LastChannel
       THEN /\ i' = i + 1 /\ opened' = opened \ {i}
            /\ UNCHANGED <<pc, file, loadVars, step>>
       ELSE Gone
    /\ UNCHANGED <<ram, request, next, last, seen, ready, run>>

Kill == pc # "none" /\ Exit

\* dmactrl -r, on one channel, when the tool is gone.
ResetChannel ==
    /\ pc = "none"
    /\ \E c \in Channels : Disable(c)
    /\ UNCHANGED <<ram, request, next, last, seen, ready, pc, run, file, i, loadVars, step, opened>>

-----------------------------------------------------------------------------
(* External.                                                                *)

PhyInit ==
    /\ ~ ready.phy
    /\ ready' = [ready EXCEPT !.phy = TRUE]
    /\ UNCHANGED <<hwVars, pc, run, file, i, loadVars, step, opened>>

GtxUp ==
    /\ ~ ready.gtx
    /\ ready' = [ready EXCEPT !.gtx = TRUE]
    /\ UNCHANGED <<hwVars, pc, run, file, i, loadVars, step, opened>>

ControllerWrites ==
    /\ request.pending
    /\ ram' = [ram EXCEPT ![request.addr] = request.block]
    /\ request' = [Idle EXCEPT !.done = TRUE]
    /\ UNCHANGED <<chan, next, rx, last, seen, ready, pc, run, file, i, loadVars, step, opened>>

\* A replay channel sends the next block if it is one of its own.  Words go to
\* a running engine, and nowhere else.  Continuous replay starts again at the end.
Replays(c) ==
    LET b     == ram[next[c]]
        words == IF chan[c].engine THEN rx[c] \o b.words ELSE <<>>
    IN
    /\ ~ chan[c].reset /\ chan[c].enable /\ chan[c].active
    /\ chan[c].continuous /\ ~ chan[c].oneshot
    /\ b.channel = c
    /\ next' = [next EXCEPT ![c] = IF b.end THEN chan[c].start ELSE @ + 1]
    /\ rx' = [rx EXCEPT ![c] = IF b.eoe THEN <<>> ELSE words]
    /\ last' = IF b.eoe /\ chan[c].engine THEN [last EXCEPT ![c] = words] ELSE last
    /\ seen' = IF b.eoe /\ chan[c].engine THEN [seen EXCEPT ![c] = ~ @] ELSE seen
    /\ UNCHANGED <<ram, request, chan, ready, pc, run, file, i, loadVars, step, opened>>

Tool ==
    \/ PhyReady \/ WriteBlock \/ PollDone \/ PollAgain \/ PollFails \/ NextFile \/ LoadDone
    \/ GtxReady \/ SetupStep \/ SetupFails \/ SetupDone
    \/ CleanupReset \/ CleanupStream

Replay == \E c \in Channels : Replays(c)

Next ==
    \/ Start \/ Tool \/ Interrupt \/ Kill \/ ResetChannel
    \/ PhyInit \/ GtxUp \/ ControllerWrites \/ Replay

\* The tool runs; the clocks come up; replay channels send what they can send.
Spec == /\ Init /\ [][Next]_vars
        /\ WF_vars(Tool) /\ WF_vars(PhyInit) /\ WF_vars(GtxUp)
        /\ \A c \in Channels : WF_vars(Replays(c))

-----------------------------------------------------------------------------
(* Properties.                                                              *)

Words == (0..MaxRuns) \X (0..MaxWords)

\* The variables keep their types: no block is written outside the regions, and no
\* flag polled more often than the bound allows.
TypeOK ==
    /\ DOMAIN ram = Addresses
    /\ request.addr \in Addresses
    /\ \A a \in Addresses : /\ ram[a].channel \in Channels \cup {NoChannel}
                            /\ \A k \in DOMAIN ram[a].words : ram[a].words[k] \in Words
    /\ next \in [Channels -> Addresses]
    /\ pc \in {"none", "phy", "block", "wait", "gtx", "setup", "loop", "cleanup"}
    /\ run \in 0..MaxRuns /\ file \in {0} \cup FileWords /\ i \in Channels
    /\ num_dws \in Nat /\ addr \in Addresses /\ timeout \in 0..MaxPolls
    /\ step \in 1 .. Len(Setup) + 1 /\ opened \subseteq Channels

\* A file that is longer than a region runs into the next channel's.
Fits == Blocks(file) <= RegionBlocks

\* Every event a stream has received since the tool opened it is the file of
\* this run, whole, whatever an earlier run that was killed left in the memory,
\* in the replay channel or in the engine.
ReceivedIsFile ==
    Fits => \A c \in opened : last[c] # <<>> => last[c] = FileOf(run, file)

\* No channel that is set up reads memory of another one, or what nobody wrote.
ReadsOwnBlocks ==
    Fits /\ pc = "loop" => \A c \in Channels : ram[next[c]].channel = c

\* The event arrives again and again.
EventsArrive ==
    \A c \in Channels, b \in BOOLEAN :
        pc = "loop" /\ Fits /\ seen[c] = b ~> pc # "loop" \/ seen[c] # b

\* The tool comes to its event loop or ends, whether or not the controller of
\* the memory answers, and a tool that cleans up ends.
ToolGoesOn == /\ pc \notin {"none", "loop"} ~> pc \in {"none", "loop"}
              /\ pc = "cleanup" ~> pc = "none"

\* At every moment: memory and tool are well-formed, every channel reads its own
\* blocks, and what a stream receives is the file of this run.
ReplayInv == TypeOK /\ ReadsOwnBlocks /\ ReceivedIsFile

\* The tool goes on, and then delivers events for ever.
Delivers == ToolGoesOn /\ EventsArrive

=============================================================================
