-------------------------- MODULE DataReplayProofs --------------------------
(***************************************************************************)
(* Proofs about DataReplay: for every number of channels, every block size,  *)
(* every distance of the regions and every set of files, what a stream       *)
(* receives is the file of this run, and every channel reads its own blocks. *)
(***************************************************************************)
EXTENDS DataReplay, TLAPS

-----------------------------------------------------------------------------
(* The inductive invariant.                                                 *)

Registers == [reset : BOOLEAN, enable : BOOLEAN, oneshot : BOOLEAN, continuous : BOOLEAN,
              start : Addresses, active : BOOLEAN, engine : BOOLEAN]

\* The first word of the k-th block of a file, counted from zero.
Pos(k) == k * BlockWords

\* What the tool writes for channel c at its k-th block.
Rest(k)      == file - Pos(k)
FileBlock(c, k) ==
    Block(c, [j \in 1 .. IF Rest(k) <= BlockWords THEN Rest(k) ELSE BlockWords |-> Word(run, Pos(k) + j)],
          Rest(k) <= BlockWords, Rest(k) <= BlockWords)

\* The first n blocks of channel c are in the memory.
Loaded(c, n) == \A k \in Nat : k < n => ram[StartOf(c) + k] = FileBlock(c, k)

\* A block that may be at address a: the replay channel finds the next one inside the memory.
BlockOK(b, a) ==
    /\ b.channel \in Channels \cup {NoChannel}
    /\ \A k \in DOMAIN b.words : b.words[k] \in Words
    /\ b.channel # NoChannel /\ ~ b.end => a + 1 \in Addresses

\* Types, and the blocks of the memory and of the pending request.
Typed ==
    /\ DOMAIN ram = Addresses
    /\ \A a \in Addresses : BlockOK(ram[a], a)
    /\ request.addr \in Addresses
    /\ request.pending \in BOOLEAN /\ request.done \in BOOLEAN
    /\ request.pending => BlockOK(request.block, request.addr)
    /\ request.pending => ~ request.done
    /\ chan \in [Channels -> Registers]
    /\ next \in [Channels -> Addresses]
    /\ DOMAIN rx = Channels /\ DOMAIN last = Channels
    /\ pc \in {"none", "phy", "block", "wait", "gtx", "setup", "loop", "cleanup"}
    /\ run \in 0..MaxRuns /\ file \in {0} \cup FileWords /\ i \in Channels
    /\ num_dws \in Nat /\ addr \in Addresses /\ timeout \in 0..MaxPolls
    /\ step \in 1 .. Len(Setup) + 1 /\ opened \subseteq Channels
    /\ pc # "none" => file \in FileWords
    /\ pc \in {"loop", "phy", "none"} => i = 0

\* The tool is at the k-th block of channel i, and what it has written before is there.
At(k) ==
    /\ k <= Blocks(file)
    /\ addr = StartOf(i) + k
    /\ num_dws = IF Pos(k) < file THEN Rest(k) ELSE 0
    /\ Fits => Loaded(i, k)
    /\ pc = "wait" =>
           /\ num_dws > 0
           /\ IF request.pending THEN request.addr = addr /\ request.block = ThisBlock
                                 ELSE ram[addr] = ThisBlock
    /\ pc = "block" => ~ request.pending \/ (i = 0 /\ k = 0)

Loading ==
    /\ pc \in {"block", "wait"} =>
           /\ \E k \in Nat : At(k)
           /\ Fits => \A c \in Channels : c < i => Loaded(c, Blocks(file))
    /\ pc \in {"gtx", "setup", "loop", "cleanup"} =>
           /\ ~ request.pending
           /\ Fits => \A c \in Channels : Loaded(c, Blocks(file))

\* Channel c sends the file of this run to a stream that is open.
Ready(c) ==
    \/ pc = "loop"
    \/ pc = "setup" /\ (c < i \/ (c = i /\ step >= 5))
    \/ pc = "cleanup" /\ (c > i \/ (c = i /\ ~ chan[c].reset))

\* Channel c is at its j-th block, and its stream has the words before it.
Sent(c, j) ==
    /\ j < Blocks(file)
    /\ next[c] = StartOf(c) + j
    /\ rx[c] = [k \in 1..Pos(j) |-> Word(run, k)]

Playing(c) == chan[c].engine /\ chan[c].start = StartOf(c) /\ \E j \in Nat : Sent(c, j)

Open(c) ==
    \/ pc = "loop"
    \/ pc = "setup" /\ (c < i \/ (c = i /\ step >= 3))
    \/ pc = "cleanup" /\ c >= i

Streaming ==
    /\ \A c \in Channels : ~ chan[c].engine => rx[c] = <<>>
    /\ pc = "setup" /\ step \in 2..7 => chan[i].reset
    /\ pc = "setup" /\ step = 8 => ~ chan[i].reset
    /\ pc = "setup" /\ step \in 3..7 => chan[i].engine /\ rx[i] = <<>>
    /\ Fits => \A c \in Channels : Ready(c) => Playing(c)
    /\ \A c \in opened : Open(c)
    /\ Fits => \A c \in opened : last[c] \in {<<>>, FileOf(run, file)}

ReplayIInv == Typed /\ Loading /\ Streaming

-----------------------------------------------------------------------------
(* Blocks, regions and words.                                               *)

LEMMA FileFacts ==
    ASSUME file \in FileWords
    PROVE  file \in Nat \ {0} /\ file <= MaxWords
BY ReplayAssumption

LEMMA BlockFacts ==
    ASSUME NEW n \in Nat, NEW k \in Nat
    PROVE  /\ Blocks(n) \in Nat /\ Pos(k) \in Nat /\ Pos(0) = 0
           /\ k < Blocks(n) <=> Pos(k) < n
           /\ Pos(k + 1) = Pos(k) + BlockWords
<1>1. BlockWords \in Nat \ {0}
  BY ReplayAssumption
<1>2. Blocks(n) \in Nat
  BY <1>1 DEF Blocks
<1>3. /\ Pos(k) \in Nat /\ Pos(0) = 0
      /\ Pos(k + 1) = Pos(k) + BlockWords
  BY <1>1 DEF Pos
<1>4. k < Blocks(n) <=> Pos(k) < n
  BY <1>1 DEF Blocks, Pos
<1>5. QED
  BY <1>2, <1>3, <1>4

LEMMA FewerBlocks ==
    ASSUME NEW n \in Nat, NEW m \in Nat, n <= m
    PROVE  Blocks(n) <= Blocks(m)
BY ReplayAssumption DEF Blocks

\* A region ends before the next one begins.
LEMMA RegionFacts ==
    ASSUME NEW c \in Channels
    PROVE  /\ StartOf(c) \in Nat /\ StartOf(0) = 0
           /\ \A d \in Channels : c < d => StartOf(c) + RegionBlocks <= StartOf(d)
           /\ StartOf(c) <= StartOf(LastChannel)
           /\ StartOf(LastChannel) \in Nat
BY ReplayAssumption DEF Channels, StartOf

LEMMA InMemory ==
    ASSUME NEW c \in Channels, NEW k \in Nat, k <= Blocks(MaxWords)
    PROVE  StartOf(c) + k \in Addresses
<1>1. Blocks(MaxWords) \in Nat
  BY ReplayAssumption, BlockFacts
<1>2. StartOf(c) \in Nat /\ StartOf(c) <= StartOf(LastChannel) /\ StartOf(LastChannel) \in Nat
  BY RegionFacts
<1>3. QED
  BY <1>1, <1>2 DEF Addresses

LEMMA FileInMemory ==
    ASSUME NEW c \in Channels, NEW k \in Nat, file \in FileWords, k <= Blocks(file)
    PROVE  StartOf(c) + k \in Addresses
<1>1. file \in Nat /\ MaxWords \in Nat /\ file <= MaxWords
  BY FileFacts, ReplayAssumption
<1>2. Blocks(file) <= Blocks(MaxWords) /\ Blocks(file) \in Nat /\ Blocks(MaxWords) \in Nat
  BY <1>1, FewerBlocks, BlockFacts
<1>3. QED
  BY <1>2, InMemory

\* What the tool writes at the k-th block is the k-th block of the file.
LEMMA ThisIsFileBlock ==
    ASSUME NEW k \in Nat, file \in FileWords, num_dws = IF Pos(k) < file THEN Rest(k) ELSE 0, num_dws > 0
    PROVE  ThisBlock = FileBlock(i, k) /\ k < Blocks(file) /\ num_dws = Rest(k)
<1>1. file \in Nat /\ Pos(k) \in Nat /\ BlockWords \in Nat
  BY FileFacts, BlockFacts, ReplayAssumption
<1>2. Pos(k) < file /\ num_dws = Rest(k)
  BY <1>1
<1>3. file - num_dws = Pos(k)
  BY <1>1, <1>2 DEF Rest
<1>4. QED
  BY <1>1, <1>2, <1>3, BlockFacts DEF ThisBlock, EndsEvent, EndsChannel, FileBlock

LEMMA FileBlockOK ==
    ASSUME NEW c \in Channels, NEW k \in Nat, file \in FileWords, run \in 0..MaxRuns, k < Blocks(file)
    PROVE  BlockOK(FileBlock(c, k), StartOf(c) + k)
<1>1. file \in Nat /\ file <= MaxWords /\ MaxWords \in Nat /\ Pos(k) \in Nat /\ BlockWords \in Nat
      /\ Blocks(file) \in Nat
  BY FileFacts, BlockFacts, ReplayAssumption
<1> DEFINE n == IF Rest(k) <= BlockWords THEN Rest(k) ELSE BlockWords
<1>2. n \in Nat /\ Pos(k) + n <= file
  <2>1. Pos(k) < file
    BY <1>1, BlockFacts
  <2>2. QED
    BY <1>1, <2>1 DEF Rest
<1>3. \A j \in 1..n : Word(run, Pos(k) + j) \in Words
  BY <1>1, <1>2, ReplayAssumption DEF Word, Words
<1>4. Rest(k) > BlockWords => StartOf(c) + k + 1 \in Addresses
  <2>1. SUFFICES ASSUME Rest(k) > BlockWords PROVE StartOf(c) + k + 1 \in Addresses
    OBVIOUS
  <2>2. StartOf(c) \in Nat
    BY RegionFacts
  <2>3. StartOf(c) + (k + 1) \in Addresses
    BY <1>1, FileInMemory
  <2>4. QED
    BY <2>2, <2>3
<1>5. Rest(k) \in Int
  BY <1>1 DEF Rest
<1>a. PICK b : b = FileBlock(c, k)
  OBVIOUS
<1>6. /\ b.channel = c /\ b.words = [j \in 1..n |-> Word(run, Pos(k) + j)]
      /\ b.end <=> Rest(k) <= BlockWords
  BY <1>a DEF FileBlock, Block
<1>7. \A j \in DOMAIN b.words : b.words[j] \in Words
  BY <1>3, <1>6
<1>8. ~ b.end => StartOf(c) + k + 1 \in Addresses
  BY <1>1, <1>4, <1>5, <1>6
<1>9. QED
  BY <1>a, <1>6, <1>7, <1>8 DEF BlockOK

\* The words of the first k blocks and those of the k-th are those of the first k + 1.
LEMMA ConcatWords ==
    ASSUME NEW r, NEW p \in Nat, NEW n \in Nat
    PROVE  [k \in 1..p |-> Word(r, k)] \o [k \in 1..n |-> Word(r, p + k)]
               = [k \in 1 .. p + n |-> Word(r, k)]
<1> DEFINE S == {r} \X Nat
           s == [k \in 1..p |-> Word(r, k)]
           t == [k \in 1..n |-> Word(r, p + k)]
           u == [k \in 1 .. p + n |-> Word(r, k)]
<1>1. s \in Seq(S) /\ t \in Seq(S) /\ u \in Seq(S)
  BY DEF Word
<1>2. Len(s) = p /\ Len(t) = n /\ Len(u) = p + n
  OBVIOUS
<1>3. Len(s \o t) = p + n /\ s \o t \in Seq(S)
  BY <1>1, <1>2
<1>4. ASSUME NEW k \in 1 .. p + n PROVE (s \o t)[k] = u[k]
  <2>1. CASE k <= p
    BY <1>1, <1>2, <2>1
  <2>2. CASE k > p
    <3>1. (s \o t)[k] = t[k - p]
      BY <1>1, <1>2, <2>2
    <3>2. t[k - p] = Word(r, p + (k - p)) /\ p + (k - p) = k
      BY <2>2
    <3>3. QED
      BY <3>1, <3>2
  <2>3. QED
    BY <2>1, <2>2
<1>5. QED
  BY <1>1, <1>2, <1>3, <1>4

-----------------------------------------------------------------------------
(* The steps that only load files.                                          *)

LEMMA LoadedSame ==
    ASSUME UNCHANGED <<ram, run, file>>, NEW c, NEW n
    PROVE  Loaded(c, n)' <=> Loaded(c, n)
BY DEF Loaded, FileBlock, Rest

\* Before the setup of the channels and after their cleanup no stream is open.
LEMMA Quiet ==
    ASSUME Streaming, pc' \notin {"setup", "loop", "cleanup"}, opened' = {}, UNCHANGED <<chan, rx>>
    PROVE  Streaming'
BY DEF Streaming, Ready

LEMMA NothingOpen ==
    ASSUME Streaming, pc \notin {"setup", "loop", "cleanup"}, opened \subseteq Channels
    PROVE  opened = {}
BY DEF Streaming, Open

LEMMA ZeroFacts == 0 \in Channels /\ 0 \in Addresses
<1>1. 0 \in Channels
  BY ReplayAssumption DEF Channels
<1>2. Blocks(MaxWords) \in Nat
  BY ReplayAssumption, BlockFacts
<1>3. StartOf(LastChannel) \in Nat
  BY <1>1, RegionFacts
<1>4. QED
  BY <1>1, <1>2, <1>3 DEF Addresses

LEMMA InitReplay == Init => ReplayIInv
<1> SUFFICES ASSUME Init PROVE ReplayIInv
  OBVIOUS
<1>1. LastChannel \in Nat /\ 0 \in Channels /\ 0 \in Addresses
  BY ReplayAssumption, ZeroFacts
<1>2. \A a : BlockOK(Junk, a)
  BY DEF BlockOK, Junk, Block, NoChannel
<1>3. chan \in [Channels -> Registers]
  BY <1>1 DEF Init, Registers
<1>4. Typed
  <2>1. DOMAIN ram = Addresses /\ \A a \in Addresses : BlockOK(ram[a], a)
    BY <1>2 DEF Init
  <2>2. request = [pending |-> FALSE, done |-> FALSE, addr |-> 0, block |-> Junk]
    BY DEF Init, Idle
  <2>3. next \in [Channels -> Addresses] /\ DOMAIN rx = Channels /\ DOMAIN last = Channels
    BY <1>1 DEF Init
  <2>4. step = 1 /\ Len(Setup) = 8
    BY DEF Init, Setup
  <2>5. /\ pc = "none" /\ run = 0 /\ file = 0 /\ i = 0
        /\ num_dws = 0 /\ addr = 0 /\ timeout = 0 /\ opened = {}
    BY DEF Init
  <2>6. QED
    BY <1>1, <1>3, <2>1, <2>2, <2>3, <2>4, <2>5, ReplayAssumption DEF Typed
<1>5. Loading /\ Streaming
  BY DEF Init, Loading, Streaming, Ready
<1>6. QED
  BY <1>4, <1>5 DEF ReplayIInv

LEMMA ExitStep == ReplayIInv /\ Exit => ReplayIInv'
<1> SUFFICES ASSUME ReplayIInv, Exit PROVE ReplayIInv'
  OBVIOUS
<1>1. /\ UNCHANGED <<ram, request, chan, next, rx, last, run>>
      /\ pc' = "none" /\ file' = 0 /\ i' = 0 /\ num_dws' = 0 /\ addr' = 0 /\ timeout' = 0
      /\ step' = 1 /\ opened' = {}
  BY DEF Exit, Gone, hwVars
<1>2. 0 \in Channels /\ 0 \in Addresses
  BY ZeroFacts
<1>3. Typed'
  BY <1>1, <1>2, ReplayAssumption DEF ReplayIInv, Typed, Setup
<1>4. Loading' /\ Streaming'
  BY <1>1, Quiet DEF ReplayIInv, Loading
<1>5. QED
  BY <1>3, <1>4 DEF ReplayIInv

LEMMA StartStep == ReplayIInv /\ Start => ReplayIInv'
<1> SUFFICES ASSUME ReplayIInv, Start PROVE ReplayIInv'
  OBVIOUS
<1>1. /\ UNCHANGED <<ram, request, chan, next, rx, last, i, num_dws, addr, timeout, step, opened>>
      /\ pc = "none" /\ pc' = "phy" /\ file' \in FileWords /\ run < MaxRuns /\ run' = run + 1
  BY DEF Start, hwVars, loadVars
<1>2. Typed'
  BY <1>1, ReplayAssumption DEF ReplayIInv, Typed
<1>3. opened' = {}
  BY <1>1, NothingOpen DEF ReplayIInv, Typed
<1>4. Loading' /\ Streaming'
  BY <1>1, <1>3, Quiet DEF ReplayIInv, Loading
<1>5. QED
  BY <1>2, <1>4 DEF ReplayIInv

\* A file is begun with its first block.
LEMMA BeginAt ==
    ASSUME NEW c \in Channels, file \in FileWords
    PROVE  /\ 0 <= Blocks(file) /\ StartOf(c) + 0 = Region(c) /\ Region(c) \in Addresses
           /\ file = IF Pos(0) < file THEN Rest(0) ELSE 0
<1>1. file \in Nat /\ StartOf(c) \in Nat
  BY FileFacts, RegionFacts
<1>2. Blocks(file) \in Nat /\ Pos(0) = 0
  BY <1>1, BlockFacts
<1>3. StartOf(c) + 0 \in Addresses
  BY <1>2, FileInMemory
<1>4. QED
  BY <1>1, <1>2, <1>3 DEF Region, Rest

LEMMA PhyReadyStep == ReplayIInv /\ PhyReady => ReplayIInv'
<1> SUFFICES ASSUME ReplayIInv, PhyReady PROVE ReplayIInv'
  OBVIOUS
<1>1. /\ UNCHANGED <<ram, request, chan, next, rx, last, run, file, step, opened>>
      /\ pc = "phy" /\ pc' = "block"
      /\ num_dws' = file /\ addr' = Region(0) /\ timeout' = MaxPolls /\ i' = 0
  BY DEF PhyReady, BeginFile, hwVars
<1>2. 0 \in Channels /\ file \in FileWords
  BY <1>1, ReplayAssumption DEF ReplayIInv, Typed, Channels
<1>3. Typed'
  BY <1>1, <1>2, BeginAt, FileFacts, ReplayAssumption DEF ReplayIInv, Typed
<1>4. Streaming'
  BY <1>1, NothingOpen, Quiet DEF ReplayIInv, Typed
<1>5. At(0)'
  <2>1. Loaded(i, 0)'
    BY DEF Loaded
  <2>2. QED
    BY <1>1, <1>2, <2>1, BeginAt DEF At, Rest
<1>6. \A c \in Channels : ~ c < 0
  BY DEF Channels
<1>7. Loading'
  BY <1>1, <1>5, <1>6 DEF Loading
<1>8. QED
  BY <1>3, <1>4, <1>7 DEF ReplayIInv

LEMMA WriteBlockStep == ReplayIInv /\ WriteBlock => ReplayIInv'
<1> SUFFICES ASSUME ReplayIInv, WriteBlock PROVE ReplayIInv'
  OBVIOUS
<1>1. /\ UNCHANGED <<ram, chan, next, rx, last, run, file, i, num_dws, addr, step, opened>>
      /\ pc = "block" /\ pc' = "wait" /\ num_dws > 0 /\ timeout' = MaxPolls
      /\ request' = [pending |-> TRUE, done |-> FALSE, addr |-> addr, block |-> ThisBlock]
  BY DEF WriteBlock
<1>2. PICK k \in Nat : At(k)
  BY <1>1 DEF ReplayIInv, Loading
<1>3. file \in FileWords /\ run \in 0..MaxRuns /\ i \in Channels
  BY <1>1 DEF ReplayIInv, Typed
<1>4. ThisBlock = FileBlock(i, k) /\ k < Blocks(file) /\ addr = StartOf(i) + k
  BY <1>1, <1>2, <1>3, ThisIsFileBlock DEF At
<1>5. BlockOK(ThisBlock, addr)
  BY <1>3, <1>4, FileBlockOK
<1>6. Typed'
  BY <1>1, <1>5, ReplayAssumption DEF ReplayIInv, Typed
<1>7. Streaming'
  BY <1>1, NothingOpen, Quiet DEF ReplayIInv, Typed
<1>8. At(k)'
  <2>1. ThisBlock' = ThisBlock
    BY <1>1 DEF ThisBlock, EndsEvent, EndsChannel
  <2>2. Loaded(i, k)' <=> Loaded(i, k)
    BY <1>1, LoadedSame DEF Loaded, FileBlock, Rest
  <2>3. QED
    BY <1>1, <1>2, <2>1, <2>2 DEF At, Rest, Fits
<1>9. \A c \in Channels : Loaded(c, Blocks(file))' <=> Loaded(c, Blocks(file))
  BY <1>1, LoadedSame DEF Loaded, FileBlock, Rest
<1>10. Loading'
  BY <1>1, <1>8, <1>9 DEF ReplayIInv, Loading, Fits
<1>11. QED
  BY <1>6, <1>7, <1>10 DEF ReplayIInv

LEMMA PollDoneStep == ReplayIInv /\ PollDone => ReplayIInv'
<1> SUFFICES ASSUME ReplayIInv, PollDone PROVE ReplayIInv'
  OBVIOUS
<1>1. /\ UNCHANGED <<ram, request, chan, next, rx, last, run, file, i, timeout, step, opened>>
      /\ pc = "wait" /\ pc' = "block" /\ request.done
      /\ num_dws' = IF num_dws < BlockWords THEN 0 ELSE num_dws - BlockWords
      /\ addr' = addr + 1
  BY DEF PollDone, hwVars
<1>2. PICK k \in Nat : At(k)
  BY <1>1 DEF ReplayIInv, Loading
<1>3. file \in FileWords /\ run \in 0..MaxRuns /\ i \in Channels /\ ~ request.pending /\ num_dws \in Nat
  BY <1>1 DEF ReplayIInv, Typed
<1>4. /\ ThisBlock = FileBlock(i, k) /\ k < Blocks(file) /\ addr = StartOf(i) + k
      /\ num_dws = Rest(k) /\ num_dws > 0 /\ ram[addr] = ThisBlock
  BY <1>1, <1>2, <1>3, ThisIsFileBlock DEF At
<1>5. /\ file \in Nat /\ StartOf(i) \in Nat /\ Blocks(file) \in Nat /\ BlockWords \in Nat
      /\ Pos(k) \in Nat /\ Pos(k + 1) = Pos(k) + BlockWords
  BY <1>3, FileFacts, RegionFacts, BlockFacts, ReplayAssumption
<1>6. num_dws' = IF Pos(k + 1) < file THEN Rest(k + 1) ELSE 0
  BY <1>1, <1>4, <1>5 DEF Rest
<1>7. addr' = StartOf(i) + (k + 1) /\ k + 1 \in Nat /\ k + 1 <= Blocks(file)
  BY <1>1, <1>4, <1>5
<1>8. addr' \in Addresses /\ num_dws' \in Nat
  BY <1>1, <1>3, <1>5, <1>7, FileInMemory
<1>9. Typed'
  BY <1>1, <1>8 DEF ReplayIInv, Typed
<1>10. Streaming'
  BY <1>1, NothingOpen, Quiet DEF ReplayIInv, Typed
<1>11. ASSUME Fits PROVE Loaded(i, k + 1)'
  <2>1. Loaded(i, k + 1)
    BY <1>2, <1>4, <1>11 DEF At, Loaded
  <2>2. QED
    BY <1>1, <2>1, LoadedSame DEF Loaded, FileBlock, Rest
<1>12. At(k + 1)'
  BY <1>1, <1>3, <1>6, <1>7, <1>11 DEF At, Rest, Fits
<1>13. \A c \in Channels : Loaded(c, Blocks(file))' <=> Loaded(c, Blocks(file))
  BY <1>1, LoadedSame
<1>14. Loading'
  BY <1>1, <1>7, <1>12, <1>13 DEF ReplayIInv, Loading, Fits
<1>15. QED
  BY <1>9, <1>10, <1>14 DEF ReplayIInv

LEMMA PollAgainStep == ReplayIInv /\ PollAgain => ReplayIInv'
<1> SUFFICES ASSUME ReplayIInv, PollAgain PROVE ReplayIInv'
  OBVIOUS
<1>1. /\ UNCHANGED <<ram, request, chan, next, rx, last, pc, run, file, i, num_dws, addr, step, opened>>
      /\ pc = "wait" /\ timeout > 0 /\ timeout' = timeout - 1
  BY DEF PollAgain, MorePolls, Count, hwVars
<1>2. PICK k \in Nat : At(k)
  BY <1>1 DEF ReplayIInv, Loading
<1>3. Typed'
  BY <1>1, ReplayAssumption DEF ReplayIInv, Typed
<1>4. Streaming'
  BY <1>1, NothingOpen, Quiet DEF ReplayIInv, Typed
<1>5. At(k)'
  <2>1. ThisBlock' = ThisBlock
    BY <1>1 DEF ThisBlock, EndsEvent, EndsChannel
  <2>2. Loaded(i, k)' <=> Loaded(i, k)
    BY <1>1, LoadedSame
  <2>3. QED
    BY <1>1, <1>2, <2>1, <2>2 DEF At, Rest, Fits
<1>6. \A c \in Channels : Loaded(c, Blocks(file))' <=> Loaded(c, Blocks(file))
  BY <1>1, LoadedSame
<1>7. Loading'
  BY <1>1, <1>5, <1>6 DEF ReplayIInv, Loading, Fits
<1>8. QED
  BY <1>3, <1>4, <1>7 DEF ReplayIInv

\* When nothing is left of the file, all of its blocks are in the memory.
LEMMA FileLoaded ==
    ASSUME ReplayIInv, pc = "block", num_dws = 0
    PROVE  ~ request.pending /\ (Fits => Loaded(i, Blocks(file)))
<1>1. PICK k \in Nat : At(k)
  BY DEF ReplayIInv, Loading
<1>2. file \in Nat \ {0}
  BY FileFacts DEF ReplayIInv, Typed
<1>3. Blocks(file) \in Nat /\ Pos(k) \in Nat /\ (k < Blocks(file) <=> Pos(k) < file) /\ Pos(0) = 0
  BY <1>2, BlockFacts
<1>4. ~ (Pos(k) < file)
  BY <1>1, <1>2, <1>3 DEF At, Rest
<1>5. k = Blocks(file) /\ k # 0
  BY <1>1, <1>2, <1>3, <1>4 DEF At
<1>6. QED
  BY <1>1, <1>5 DEF At

LEMMA NextFileStep == ReplayIInv /\ NextFile => ReplayIInv'
<1> SUFFICES ASSUME ReplayIInv, NextFile PROVE ReplayIInv'
  OBVIOUS
<1>1. /\ UNCHANGED <<ram, request, chan, next, rx, last, pc, run, file, step, opened>>
      /\ pc = "block" /\ num_dws = 0 /\ i < LastChannel
      /\ num_dws' = file /\ addr' = Region(i + 1) /\ timeout' = MaxPolls /\ i' = i + 1
  BY DEF NextFile, BeginFile, hwVars
<1>2. i \in Channels /\ i + 1 \in Channels /\ file \in FileWords /\ i \in Nat
  BY <1>1, ReplayAssumption DEF ReplayIInv, Typed, Channels
<1>3. Typed'
  BY <1>1, <1>2, BeginAt, FileFacts, ReplayAssumption DEF ReplayIInv, Typed
<1>4. Streaming'
  BY <1>1, NothingOpen, Quiet DEF ReplayIInv, Typed
<1>5. At(0)'
  <2>1. Loaded(i, 0)'
    BY DEF Loaded
  <2>2. ~ request.pending
    BY <1>1, FileLoaded
  <2>3. QED
    BY <1>1, <1>2, <2>1, <2>2, BeginAt DEF At, Rest
<1>6. ASSUME Fits, NEW c \in Channels, c < i + 1 PROVE Loaded(c, Blocks(file))
  BY <1>1, <1>2, <1>6, FileLoaded DEF ReplayIInv, Loading, Channels
<1>7. \A c \in Channels : Loaded(c, Blocks(file))' <=> Loaded(c, Blocks(file))
  BY <1>1, LoadedSame
<1>8. Loading'
  BY <1>1, <1>5, <1>6, <1>7 DEF Loading, Fits
<1>9. QED
  BY <1>3, <1>4, <1>8 DEF ReplayIInv

LEMMA LoadDoneStep == ReplayIInv /\ LoadDone => ReplayIInv'
<1> SUFFICES ASSUME ReplayIInv, LoadDone PROVE ReplayIInv'
  OBVIOUS
<1>1. /\ UNCHANGED <<ram, request, chan, next, rx, last, run, file, i, num_dws, addr, timeout, step, opened>>
      /\ pc = "block" /\ pc' = "gtx" /\ num_dws = 0 /\ i = LastChannel
  BY DEF LoadDone, hwVars, loadVars
<1>2. Typed'
  BY <1>1 DEF ReplayIInv, Typed
<1>3. Streaming'
  BY <1>1, NothingOpen, Quiet DEF ReplayIInv, Typed
<1>4. ASSUME Fits, NEW c \in Channels PROVE Loaded(c, Blocks(file))
  <2>1. c = i \/ c < i
    BY <1>1, ReplayAssumption DEF Channels
  <2>2. QED
    BY <1>1, <1>4, <2>1, FileLoaded DEF ReplayIInv, Loading
<1>5. \A c \in Channels : Loaded(c, Blocks(file))' <=> Loaded(c, Blocks(file))
  BY <1>1, LoadedSame
<1>6. Loading'
  BY <1>1, <1>4, <1>5, FileLoaded DEF Loading, Fits
<1>7. QED
  BY <1>2, <1>3, <1>6 DEF ReplayIInv

-----------------------------------------------------------------------------
(* Setup and cleanup of the channels.                                       *)

LEMMA StillLoaded ==
    ASSUME Loading, pc \in {"gtx", "setup", "loop", "cleanup"}, pc' \in {"gtx", "setup", "loop", "cleanup"},
           UNCHANGED <<ram, request, run, file>>
    PROVE  Loading'
<1>1. \A c \in Channels : Loaded(c, Blocks(file))' <=> Loaded(c, Blocks(file))
  BY LoadedSame
<1>2. QED
  BY <1>1 DEF Loading, Fits

LEMMA GtxReadyStep == ReplayIInv /\ GtxReady => ReplayIInv'
<1> SUFFICES ASSUME ReplayIInv, GtxReady PROVE ReplayIInv'
  OBVIOUS
<1>1. /\ UNCHANGED <<ram, request, chan, next, rx, last, run, file, num_dws, addr, timeout, opened>>
      /\ pc = "gtx" /\ pc' = "setup" /\ i' = 0 /\ step' = 1
  BY DEF GtxReady, hwVars, loadVars
<1>2. Len(Setup) = 8
  BY DEF Setup
<1>3. Typed'
  BY <1>1, <1>2, ZeroFacts DEF ReplayIInv, Typed
<1>4. opened = {}
  BY <1>1, NothingOpen DEF ReplayIInv, Typed
<1>5. \A c \in Channels : ~ c < 0
  BY DEF Channels
<1>6. Streaming'
  BY <1>1, <1>4, <1>5 DEF ReplayIInv, Streaming, Ready
<1>7. QED
  BY <1>1, <1>3, <1>6, StillLoaded DEF ReplayIInv

LEMMA SetupWrites ==
    ASSUME Typed, SetupStep
    PROVE  /\ step \in 1..8 /\ step' = step + 1
           /\ chan' \in [Channels -> Registers]
           /\ \A c \in Channels : c # i => chan'[c] = chan[c]
           /\ chan'[i].reset <=> (step = 1 \/ (step # 7 /\ chan[i].reset))
           /\ chan'[i].engine <=> (step = 2 \/ chan[i].engine)
           /\ chan'[i].start = IF step = 4 THEN StartOf(i) ELSE chan[i].start
           /\ step = 2 => ~ chan[i].engine
           /\ opened' = IF step = 2 THEN opened \cup {i} ELSE opened
           /\ last' = IF step = 2 THEN [last EXCEPT ![i] = <<>>] ELSE last
<1>a. StartOf(i) \in Addresses /\ i \in Channels /\ chan[i] \in Registers
  <2>1. i \in Channels /\ chan[i] \in Registers
    BY DEF Typed
  <2>2. Blocks(MaxWords) \in Nat /\ StartOf(i) \in Nat
    BY <2>1, ReplayAssumption, BlockFacts, RegionFacts
  <2>3. StartOf(i) + 0 \in Addresses
    BY <2>1, <2>2, InMemory
  <2>4. QED
    BY <2>1, <2>2, <2>3
<1>1. CASE step = 1
  <2>1. Setup[step].field = "reset" /\ Len(Setup) = 8
    BY <1>1 DEF Setup, Write
  <2>2. (IF Setup[step].field = "start" THEN StartOf(i) ELSE Setup[step].value) = TRUE
    BY <1>1, <2>1 DEF Setup, Write
  <2>3. chan' = [chan EXCEPT ![i] = [chan[i] EXCEPT !.reset = TRUE]]
    BY <2>1, <2>2 DEF SetupStep, Typed
  <2>4. /\ chan'[i] = [chan[i] EXCEPT !.reset = TRUE]
        /\ chan'[i] \in Registers
    BY <2>3, <1>a DEF Typed, Registers
  <2>5. chan' \in [Channels -> Registers] /\ \A c \in Channels : c # i => chan'[c] = chan[c]
    BY <2>3, <2>4 DEF Typed
  <2>6. /\ chan'[i].reset <=> (step = 1 \/ (step # 7 /\ chan[i].reset))
        /\ chan'[i].engine <=> (step = 2 \/ chan[i].engine)
        /\ chan'[i].start = IF step = 4 THEN StartOf(i) ELSE chan[i].start
    BY <1>1, <2>4, <1>a DEF Registers
  <2>7. /\ step' = step + 1 /\ (step = 2 => ~ chan[i].engine)
        /\ opened' = IF step = 2 THEN opened \cup {i} ELSE opened
        /\ last' = IF step = 2 THEN [last EXCEPT ![i] = <<>>] ELSE last
    BY <1>1, <2>1 DEF SetupStep
  <2>8. QED
    BY <1>1, <2>5, <2>6, <2>7
<1>2. CASE step = 2
  <2>1. Setup[step].field = "engine" /\ Len(Setup) = 8
    BY <1>2 DEF Setup, Write
  <2>2. (IF Setup[step].field = "start" THEN StartOf(i) ELSE Setup[step].value) = TRUE
    BY <1>2, <2>1 DEF Setup, Write
  <2>3. chan' = [chan EXCEPT ![i] = [chan[i] EXCEPT !.engine = TRUE]]
    BY <2>1, <2>2 DEF SetupStep, Typed
  <2>4. /\ chan'[i] = [chan[i] EXCEPT !.engine = TRUE]
        /\ chan'[i] \in Registers
    BY <2>3, <1>a DEF Typed, Registers
  <2>5. chan' \in [Channels -> Registers] /\ \A c \in Channels : c # i => chan'[c] = chan[c]
    BY <2>3, <2>4 DEF Typed
  <2>6. /\ chan'[i].reset <=> (step = 1 \/ (step # 7 /\ chan[i].reset))
        /\ chan'[i].engine <=> (step = 2 \/ chan[i].engine)
        /\ chan'[i].start = IF step = 4 THEN StartOf(i) ELSE chan[i].start
    BY <1>2, <2>4, <1>a DEF Registers
  <2>7. /\ step' = step + 1 /\ (step = 2 => ~ chan[i].engine)
        /\ opened' = IF step = 2 THEN opened \cup {i} ELSE opened
        /\ last' = IF step = 2 THEN [last EXCEPT ![i] = <<>>] ELSE last
    BY <1>2, <2>1 DEF SetupStep
  <2>8. QED
    BY <1>2, <2>5, <2>6, <2>7
<1>3. CASE step = 3
  <2>1. Setup[step].field = "active" /\ Len(Setup) = 8
    BY <1>3 DEF Setup, Write
  <2>2. (IF Setup[step].field = "start" THEN StartOf(i) ELSE Setup[step].value) = TRUE
    BY <1>3, <2>1 DEF Setup, Write
  <2>3. chan' = [chan EXCEPT ![i] = [chan[i] EXCEPT !.active = TRUE]]
    BY <2>1, <2>2 DEF SetupStep, Typed
  <2>4. /\ chan'[i] = [chan[i] EXCEPT !.active = TRUE]
        /\ chan'[i] \in Registers
    BY <2>3, <1>a DEF Typed, Registers
  <2>5. chan' \in [Channels -> Registers] /\ \A c \in Channels : c # i => chan'[c] = chan[c]
    BY <2>3, <2>4 DEF Typed
  <2>6. /\ chan'[i].reset <=> (step = 1 \/ (step # 7 /\ chan[i].reset))
        /\ chan'[i].engine <=> (step = 2 \/ chan[i].engine)
        /\ chan'[i].start = IF step = 4 THEN StartOf(i) ELSE chan[i].start
    BY <1>3, <2>4, <1>a DEF Registers
  <2>7. /\ step' = step + 1 /\ (step = 2 => ~ chan[i].engine)
        /\ opened' = IF step = 2 THEN opened \cup {i} ELSE opened
        /\ last' = IF step = 2 THEN [last EXCEPT ![i] = <<>>] ELSE last
    BY <1>3, <2>1 DEF SetupStep
  <2>8. QED
    BY <1>3, <2>5, <2>6, <2>7
<1>4. CASE step = 4
  <2>1. Setup[step].field = "start" /\ Len(Setup) = 8
    BY <1>4 DEF Setup, Write
  <2>2. (IF Setup[step].field = "start" THEN StartOf(i) ELSE Setup[step].value) = StartOf(i)
    BY <1>4, <2>1 DEF Setup, Write
  <2>3. chan' = [chan EXCEPT ![i] = [chan[i] EXCEPT !.start = StartOf(i)]]
    BY <2>1, <2>2 DEF SetupStep, Typed
  <2>4. /\ chan'[i] = [chan[i] EXCEPT !.start = StartOf(i)]
        /\ chan'[i] \in Registers
    BY <2>3, <1>a DEF Typed, Registers
  <2>5. chan' \in [Channels -> Registers] /\ \A c \in Channels : c # i => chan'[c] = chan[c]
    BY <2>3, <2>4 DEF Typed
  <2>6. /\ chan'[i].reset <=> (step = 1 \/ (step # 7 /\ chan[i].reset))
        /\ chan'[i].engine <=> (step = 2 \/ chan[i].engine)
        /\ chan'[i].start = IF step = 4 THEN StartOf(i) ELSE chan[i].start
    BY <1>4, <2>4, <1>a DEF Registers
  <2>7. /\ step' = step + 1 /\ (step = 2 => ~ chan[i].engine)
        /\ opened' = IF step = 2 THEN opened \cup {i} ELSE opened
        /\ last' = IF step = 2 THEN [last EXCEPT ![i] = <<>>] ELSE last
    BY <1>4, <2>1 DEF SetupStep
  <2>8. QED
    BY <1>4, <2>5, <2>6, <2>7
<1>5. CASE step = 5
  <2>1. Setup[step].field = "continuous" /\ Len(Setup) = 8
    BY <1>5 DEF Setup, Write
  <2>2. (IF Setup[step].field = "start" THEN StartOf(i) ELSE Setup[step].value) = TRUE
    BY <1>5, <2>1 DEF Setup, Write
  <2>3. chan' = [chan EXCEPT ![i] = [chan[i] EXCEPT !.continuous = TRUE]]
    BY <2>1, <2>2 DEF SetupStep, Typed
  <2>4. /\ chan'[i] = [chan[i] EXCEPT !.continuous = TRUE]
        /\ chan'[i] \in Registers
    BY <2>3, <1>a DEF Typed, Registers
  <2>5. chan' \in [Channels -> Registers] /\ \A c \in Channels : c # i => chan'[c] = chan[c]
    BY <2>3, <2>4 DEF Typed
  <2>6. /\ chan'[i].reset <=> (step = 1 \/ (step # 7 /\ chan[i].reset))
        /\ chan'[i].engine <=> (step = 2 \/ chan[i].engine)
        /\ chan'[i].start = IF step = 4 THEN StartOf(i) ELSE chan[i].start
    BY <1>5, <2>4, <1>a DEF Registers
  <2>7. /\ step' = step + 1 /\ (step = 2 => ~ chan[i].engine)
        /\ opened' = IF step = 2 THEN opened \cup {i} ELSE opened
        /\ last' = IF step = 2 THEN [last EXCEPT ![i] = <<>>] ELSE last
    BY <1>5, <2>1 DEF SetupStep
  <2>8. QED
    BY <1>5, <2>5, <2>6, <2>7
<1>6. CASE step = 6
  <2>1. Setup[step].field = "oneshot" /\ Len(Setup) = 8
    BY <1>6 DEF Setup, Write
  <2>2. (IF Setup[step].field = "start" THEN StartOf(i) ELSE Setup[step].value) = FALSE
    BY <1>6, <2>1 DEF Setup, Write
  <2>3. chan' = [chan EXCEPT ![i] = [chan[i] EXCEPT !.oneshot = FALSE]]
    BY <2>1, <2>2 DEF SetupStep, Typed
  <2>4. /\ chan'[i] = [chan[i] EXCEPT !.oneshot = FALSE]
        /\ chan'[i] \in Registers
    BY <2>3, <1>a DEF Typed, Registers
  <2>5. chan' \in [Channels -> Registers] /\ \A c \in Channels : c # i => chan'[c] = chan[c]
    BY <2>3, <2>4 DEF Typed
  <2>6. /\ chan'[i].reset <=> (step = 1 \/ (step # 7 /\ chan[i].reset))
        /\ chan'[i].engine <=> (step = 2 \/ chan[i].engine)
        /\ chan'[i].start = IF step = 4 THEN StartOf(i) ELSE chan[i].start
    BY <1>6, <2>4, <1>a DEF Registers
  <2>7. /\ step' = step + 1 /\ (step = 2 => ~ chan[i].engine)
        /\ opened' = IF step = 2 THEN opened \cup {i} ELSE opened
        /\ last' = IF step = 2 THEN [last EXCEPT ![i] = <<>>] ELSE last
    BY <1>6, <2>1 DEF SetupStep
  <2>8. QED
    BY <1>6, <2>5, <2>6, <2>7
<1>7. CASE step = 7
  <2>1. Setup[step].field = "reset" /\ Len(Setup) = 8
    BY <1>7 DEF Setup, Write
  <2>2. (IF Setup[step].field = "start" THEN StartOf(i) ELSE Setup[step].value) = FALSE
    BY <1>7, <2>1 DEF Setup, Write
  <2>3. chan' = [chan EXCEPT ![i] = [chan[i] EXCEPT !.reset = FALSE]]
    BY <2>1, <2>2 DEF SetupStep, Typed
  <2>4. /\ chan'[i] = [chan[i] EXCEPT !.reset = FALSE]
        /\ chan'[i] \in Registers
    BY <2>3, <1>a DEF Typed, Registers
  <2>5. chan' \in [Channels -> Registers] /\ \A c \in Channels : c # i => chan'[c] = chan[c]
    BY <2>3, <2>4 DEF Typed
  <2>6. /\ chan'[i].reset <=> (step = 1 \/ (step # 7 /\ chan[i].reset))
        /\ chan'[i].engine <=> (step = 2 \/ chan[i].engine)
        /\ chan'[i].start = IF step = 4 THEN StartOf(i) ELSE chan[i].start
    BY <1>7, <2>4, <1>a DEF Registers
  <2>7. /\ step' = step + 1 /\ (step = 2 => ~ chan[i].engine)
        /\ opened' = IF step = 2 THEN opened \cup {i} ELSE opened
        /\ last' = IF step = 2 THEN [last EXCEPT ![i] = <<>>] ELSE last
    BY <1>7, <2>1 DEF SetupStep
  <2>8. QED
    BY <1>7, <2>5, <2>6, <2>7
<1>8. CASE step = 8
  <2>1. Setup[step].field = "enable" /\ Len(Setup) = 8
    BY <1>8 DEF Setup, Write
  <2>2. (IF Setup[step].field = "start" THEN StartOf(i) ELSE Setup[step].value) = TRUE
    BY <1>8, <2>1 DEF Setup, Write
  <2>3. chan' = [chan EXCEPT ![i] = [chan[i] EXCEPT !.enable = TRUE]]
    BY <2>1, <2>2 DEF SetupStep, Typed
  <2>4. /\ chan'[i] = [chan[i] EXCEPT !.enable = TRUE]
        /\ chan'[i] \in Registers
    BY <2>3, <1>a DEF Typed, Registers
  <2>5. chan' \in [Channels -> Registers] /\ \A c \in Channels : c # i => chan'[c] = chan[c]
    BY <2>3, <2>4 DEF Typed
  <2>6. /\ chan'[i].reset <=> (step = 1 \/ (step # 7 /\ chan[i].reset))
        /\ chan'[i].engine <=> (step = 2 \/ chan[i].engine)
        /\ chan'[i].start = IF step = 4 THEN StartOf(i) ELSE chan[i].start
    BY <1>8, <2>4, <1>a DEF Registers
  <2>7. /\ step' = step + 1 /\ (step = 2 => ~ chan[i].engine)
        /\ opened' = IF step = 2 THEN opened \cup {i} ELSE opened
        /\ last' = IF step = 2 THEN [last EXCEPT ![i] = <<>>] ELSE last
    BY <1>8, <2>1 DEF SetupStep
  <2>8. QED
    BY <1>8, <2>5, <2>6, <2>7
<1>9. step \in 1..8
  <2>1. Len(Setup) = 8
    BY DEF Setup
  <2>2. QED
    BY <2>1 DEF SetupStep, Typed
<1>10. QED
  BY <1>1, <1>2, <1>3, <1>4, <1>5, <1>6, <1>7, <1>8, <1>9

\* A channel that nothing is written to plays on.
LEMMA PlaysOn ==
    ASSUME NEW c \in Channels, UNCHANGED <<run, file>>,
           chan'[c] = chan[c], next'[c] = next[c], rx'[c] = rx[c]
    PROVE  Playing(c) => Playing(c)'
BY DEF Playing, Sent

LEMMA SetupStepStep == ReplayIInv /\ SetupStep => ReplayIInv'
<1> SUFFICES ASSUME ReplayIInv, SetupStep PROVE ReplayIInv'
  OBVIOUS
<1>1. /\ UNCHANGED <<ram, request, rx, pc, run, file, i, num_dws, addr, timeout>> /\ pc = "setup"
      /\ next' = IF chan'[i].reset THEN [next EXCEPT ![i] = chan'[i].start] ELSE next
  BY DEF SetupStep, Restart, loadVars
<1>2. /\ step \in 1..8 /\ step' = step + 1
      /\ chan' \in [Channels -> Registers]
      /\ \A c \in Channels : c # i => chan'[c] = chan[c]
      /\ chan'[i].reset <=> (step = 1 \/ (step # 7 /\ chan[i].reset))
      /\ chan'[i].engine <=> (step = 2 \/ chan[i].engine)
      /\ chan'[i].start = IF step = 4 THEN StartOf(i) ELSE chan[i].start
      /\ step = 2 => ~ chan[i].engine
      /\ opened' = IF step = 2 THEN opened \cup {i} ELSE opened
      /\ last' = IF step = 2 THEN [last EXCEPT ![i] = <<>>] ELSE last
  BY SetupWrites DEF ReplayIInv
<1>3. /\ i \in Channels /\ next \in [Channels -> Addresses] /\ file \in FileWords
      /\ DOMAIN last = Channels /\ opened \subseteq Channels
  BY <1>1 DEF ReplayIInv, Typed
<1>4. next' \in [Channels -> Addresses] /\ \A c \in Channels : c # i => next'[c] = next[c]
  BY <1>1, <1>2, <1>3 DEF Registers
<1>5. DOMAIN last' = Channels /\ \A c \in Channels : c # i => last'[c] = last[c]
  BY <1>2, <1>3
<1>6. Typed'
  <2>1. step' \in 1..9 /\ Len(Setup) = 8
    BY <1>2 DEF Setup
  <2>2. opened' \subseteq Channels
    BY <1>2, <1>3
  <2>3. QED
    BY <1>1, <1>2, <1>4, <1>5, <2>1, <2>2 DEF ReplayIInv, Typed
<1>7. Loading'
  BY <1>1, StillLoaded DEF ReplayIInv
<1>8. /\ \A c \in Channels : ~ chan[c].engine => rx[c] = <<>>
      /\ step \in 2..7 => chan[i].reset
      /\ step = 8 => ~ chan[i].reset
      /\ step \in 3..7 => chan[i].engine /\ rx[i] = <<>>
  BY <1>1 DEF ReplayIInv, Streaming
<1>9. /\ \A c \in Channels : ~ chan'[c].engine => rx'[c] = <<>>
      /\ step' \in 2..7 => chan'[i].reset
      /\ step' = 8 => ~ chan'[i].reset
      /\ step' \in 3..7 => chan'[i].engine /\ rx'[i] = <<>>
  BY <1>1, <1>2, <1>3, <1>8
<1>10. ASSUME Fits, NEW c \in Channels, Ready(c)' PROVE Playing(c)'
  <2>1. CASE c # i
    <3>1. Ready(c)
      BY <1>1, <1>10, <2>1 DEF Ready
    <3>2. Playing(c)
      BY <1>10, <3>1 DEF ReplayIInv, Streaming
    <3>3. QED
      BY <1>1, <1>2, <1>4, <2>1, <3>2, PlaysOn
  <2>2. CASE c = i /\ step \in 4..6
    <3>1. chan'[c].reset /\ chan'[c].engine /\ rx'[c] = <<>>
      BY <1>1, <1>2, <1>8, <2>2
    <3>2. chan'[c].start = StartOf(c)
      <4>1. CASE step = 4
        BY <1>2, <2>2, <4>1
      <4>2. CASE step \in 5..6
        <5>1. Ready(c)
          BY <1>1, <2>2, <4>2 DEF Ready
        <5>2. chan[c].start = StartOf(c)
          BY <1>10, <5>1 DEF ReplayIInv, Streaming, Playing
        <5>3. QED
          BY <1>2, <2>2, <4>2, <5>2
      <4>3. QED
        BY <2>2, <4>1, <4>2
    <3>3. next'[c] = StartOf(c)
      BY <1>1, <1>3, <2>2, <3>1, <3>2
    <3>4. 0 < Blocks(file) /\ Pos(0) = 0 /\ StartOf(c) + 0 = StartOf(c)
      BY <1>3, FileFacts, BlockFacts, RegionFacts
    <3>5. Sent(c, 0)'
      BY <1>1, <3>1, <3>3, <3>4 DEF Sent
    <3>6. QED
      BY <3>1, <3>2, <3>5 DEF Playing
  <2>3. CASE c = i /\ step \in 7..8
    <3>1. Ready(c) /\ ~ chan'[i].reset
      BY <1>1, <1>2, <1>8, <2>3 DEF Ready
    <3>2. Playing(c)
      BY <1>10, <3>1 DEF ReplayIInv, Streaming
    <3>3. /\ chan'[c].engine /\ chan'[c].start = chan[c].start
          /\ next'[c] = next[c] /\ rx'[c] = rx[c]
      BY <1>1, <1>2, <2>3, <3>1, <3>2 DEF Playing
    <3>4. QED
      BY <1>1, <3>2, <3>3 DEF Playing, Sent
  <2>4. c = i => step \in 4..8
    BY <1>1, <1>2, <1>3, <1>10 DEF Ready, Channels
  <2>5. QED
    BY <2>1, <2>2, <2>3, <2>4
<1>11. ASSUME NEW c \in opened' PROVE Open(c)'
  <2>1. CASE c \in opened
    BY <1>1, <1>2, <2>1 DEF ReplayIInv, Streaming, Open
  <2>2. CASE c = i /\ step = 2
    BY <1>1, <1>2, <2>2 DEF Open
  <2>3. QED
    BY <1>2, <1>11, <2>1, <2>2
<1>12. ASSUME Fits, NEW c \in opened' PROVE last'[c] \in {<<>>, FileOf(run, file)}
  BY <1>2, <1>3, <1>12 DEF ReplayIInv, Streaming
<1>13. Streaming'
  BY <1>1, <1>9, <1>10, <1>11, <1>12 DEF Streaming, Fits
<1>14. QED
  BY <1>6, <1>7, <1>13 DEF ReplayIInv

LEMMA SetupDoneStep == ReplayIInv /\ SetupDone => ReplayIInv'
<1> SUFFICES ASSUME ReplayIInv, SetupDone PROVE ReplayIInv'
  OBVIOUS
<1>1. /\ UNCHANGED <<ram, request, chan, next, rx, last, run, file, num_dws, addr, timeout, opened>>
      /\ pc = "setup" /\ step > Len(Setup) /\ step' = 1
      /\ IF i < LastChannel THEN i' = i + 1 /\ pc' = "setup" ELSE i' = 0 /\ pc' = "loop"
  BY DEF SetupDone, hwVars, loadVars
<1>2. Len(Setup) = 8 /\ step = 9 /\ i \in Channels /\ LastChannel \in Nat /\ opened \subseteq Channels
  BY <1>1, ReplayAssumption DEF ReplayIInv, Typed, Setup
<1>3. i' \in Channels /\ pc' \in {"setup", "loop"} /\ (pc' = "loop" => i' = 0)
  BY <1>1, <1>2 DEF Channels
<1>4. Typed'
  BY <1>1, <1>2, <1>3 DEF ReplayIInv, Typed
<1>5. Loading'
  BY <1>1, <1>3, StillLoaded DEF ReplayIInv
<1>6. ASSUME NEW c \in Channels, Ready(c)' PROVE Ready(c)
  BY <1>1, <1>2, <1>6 DEF Ready, Channels
<1>7. ASSUME NEW c \in Channels, Open(c) PROVE Open(c)'
  BY <1>1, <1>2, <1>7 DEF Open, Channels
<1>8. \A c \in Channels : Playing(c)' <=> Playing(c)
  BY <1>1 DEF Playing, Sent
<1>9. Streaming'
  BY <1>1, <1>2, <1>3, <1>6, <1>7, <1>8 DEF ReplayIInv, Streaming, Fits
<1>10. QED
  BY <1>4, <1>5, <1>9 DEF ReplayIInv

LEMMA InterruptStep == ReplayIInv /\ Interrupt => ReplayIInv'
<1> SUFFICES ASSUME ReplayIInv, Interrupt PROVE ReplayIInv'
  OBVIOUS
<1>1. /\ UNCHANGED <<ram, request, chan, next, rx, last, run, file, i, num_dws, addr, timeout, step, opened>>
      /\ pc = "loop" /\ pc' = "cleanup"
  BY DEF Interrupt, hwVars, loadVars
<1>2. Typed' /\ i = 0 /\ opened \subseteq Channels
  BY <1>1 DEF ReplayIInv, Typed
<1>3. Loading'
  BY <1>1, StillLoaded DEF ReplayIInv
<1>4. \A c \in Channels : Ready(c) /\ (Playing(c)' <=> Playing(c))
  BY <1>1 DEF Ready, Playing, Sent
<1>5. \A c \in opened : Open(c)'
  BY <1>1, <1>2 DEF Open, Channels
<1>6. Streaming'
  BY <1>1, <1>2, <1>4, <1>5 DEF ReplayIInv, Streaming, Fits
<1>7. QED
  BY <1>2, <1>3, <1>6 DEF ReplayIInv

LEMMA CleanupResetStep == ReplayIInv /\ CleanupReset => ReplayIInv'
<1> SUFFICES ASSUME ReplayIInv, CleanupReset PROVE ReplayIInv'
  OBVIOUS
<1>1. /\ UNCHANGED <<ram, request, rx, last, pc, run, file, i, num_dws, addr, timeout, step, opened>>
      /\ pc = "cleanup" /\ chan' = [chan EXCEPT ![i].reset = TRUE]
      /\ next' = IF chan'[i].reset THEN [next EXCEPT ![i] = chan'[i].start] ELSE next
  BY DEF CleanupReset, Restart, loadVars
<1>2. i \in Channels /\ chan \in [Channels -> Registers] /\ next \in [Channels -> Addresses]
  BY DEF ReplayIInv, Typed
<1>3. /\ chan' \in [Channels -> Registers] /\ chan'[i].reset
      /\ \A c \in Channels : /\ c # i => chan'[c] = chan[c]
                             /\ chan'[c].engine = chan[c].engine
  BY <1>1, <1>2 DEF Registers
<1>4. next' \in [Channels -> Addresses] /\ \A c \in Channels : c # i => next'[c] = next[c]
  BY <1>1, <1>2, <1>3 DEF Registers
<1>5. Typed'
  BY <1>1, <1>3, <1>4 DEF ReplayIInv, Typed
<1>6. Loading'
  BY <1>1, StillLoaded DEF ReplayIInv
<1>7. ASSUME Fits, NEW c \in Channels, Ready(c)' PROVE Playing(c)'
  <2>1. c > i /\ c # i /\ Ready(c)
    BY <1>1, <1>2, <1>3, <1>7 DEF Ready, Channels
  <2>2. Playing(c)
    BY <1>7, <2>1 DEF ReplayIInv, Streaming
  <2>3. QED
    BY <1>1, <1>3, <1>4, <2>1, <2>2, PlaysOn
<1>8. \A c \in opened : Open(c)' <=> Open(c)
  BY <1>1 DEF Open
<1>9. Streaming'
  BY <1>1, <1>3, <1>7, <1>8 DEF ReplayIInv, Streaming, Fits
<1>10. QED
  BY <1>5, <1>6, <1>9 DEF ReplayIInv

\* Disabling an engine.
LEMMA DisableFacts ==
    ASSUME Typed, NEW c \in Channels, Disable(c)
    PROVE  /\ chan' \in [Channels -> Registers] /\ DOMAIN rx' = Channels
           /\ \A d \in Channels : d # c => chan'[d] = chan[d] /\ rx'[d] = rx[d]
           /\ rx'[c] = <<>>
<1>1. /\ chan \in [Channels -> Registers] /\ DOMAIN rx = Channels
      /\ chan' = [chan EXCEPT ![c].engine = FALSE] /\ rx' = [rx EXCEPT ![c] = <<>>]
  BY DEF Typed, Disable
<1>2. [chan[c] EXCEPT !.engine = FALSE] \in Registers
  BY <1>1 DEF Registers
<1>3. chan' \in [Channels -> Registers]
  BY <1>1, <1>2
<1>4. QED
  BY <1>1, <1>3

LEMMA CleanupStreamStep == ReplayIInv /\ CleanupStream => ReplayIInv'
<1> SUFFICES ASSUME ReplayIInv, CleanupStream PROVE ReplayIInv'
  OBVIOUS
<1>1. UNCHANGED <<ram, request, next, last, run>> /\ pc = "cleanup" /\ Disable(i)
  BY DEF CleanupStream
<1>2. i \in Channels /\ opened \subseteq Channels
  BY DEF ReplayIInv, Typed
<1>3. /\ chan' \in [Channels -> Registers] /\ DOMAIN rx' = Channels
      /\ \A d \in Channels : d # i => chan'[d] = chan[d] /\ rx'[d] = rx[d]
      /\ rx'[i] = <<>>
  BY <1>1, <1>2, DisableFacts DEF ReplayIInv
<1>4. \A c \in Channels : ~ chan'[c].engine => rx'[c] = <<>>
  BY <1>3 DEF ReplayIInv, Streaming
<1>5. CASE i < LastChannel
  <2>1. UNCHANGED <<pc, file, num_dws, addr, timeout, step>> /\ i' = i + 1 /\ opened' = opened \ {i}
    BY <1>5 DEF CleanupStream, loadVars
  <2>2. i' \in Channels /\ i \in Nat
    BY <1>2, <1>5, <2>1, ReplayAssumption DEF Channels
  <2>3. Typed'
    BY <1>1, <1>3, <2>1, <2>2 DEF ReplayIInv, Typed
  <2>4. Loading'
    BY <1>1, <2>1, StillLoaded DEF ReplayIInv
  <2>5. ASSUME Fits, NEW c \in Channels, Ready(c)' PROVE Playing(c)'
    <3>1. c > i /\ c # i /\ Ready(c)
      BY <1>1, <2>1, <2>2, <2>5 DEF Ready, Channels
    <3>2. Playing(c)
      BY <2>5, <3>1 DEF ReplayIInv, Streaming
    <3>3. QED
      BY <1>1, <1>3, <2>1, <3>1, <3>2, PlaysOn
  <2>6. ASSUME NEW c \in opened' PROVE Open(c)'
    <3>1. c \in opened /\ c # i /\ c \in Channels /\ Open(c)
      BY <1>2, <2>1, <2>6 DEF ReplayIInv, Streaming
    <3>2. QED
      BY <1>1, <2>1, <2>2, <3>1 DEF Open, Channels
  <2>7. Streaming'
    BY <1>1, <1>4, <2>1, <2>5, <2>6 DEF ReplayIInv, Streaming, Fits
  <2>8. QED
    BY <2>3, <2>4, <2>7 DEF ReplayIInv
<1>6. CASE ~ (i < LastChannel)
  <2>1. /\ pc' = "none" /\ file' = 0 /\ i' = 0 /\ num_dws' = 0 /\ addr' = 0 /\ timeout' = 0
        /\ step' = 1 /\ opened' = {}
    BY <1>6 DEF CleanupStream, Gone
  <2>2. Typed'
    BY <1>1, <1>3, <2>1, ZeroFacts, ReplayAssumption DEF ReplayIInv, Typed, Setup
  <2>3. Loading' /\ Streaming'
    BY <1>4, <2>1 DEF Loading, Streaming, Ready
  <2>4. QED
    BY <2>2, <2>3 DEF ReplayIInv
<1>7. QED
  BY <1>5, <1>6

LEMMA ResetChannelStep == ReplayIInv /\ ResetChannel => ReplayIInv'
<1> SUFFICES ASSUME ReplayIInv, ResetChannel PROVE ReplayIInv'
  OBVIOUS
<1>1. UNCHANGED <<ram, request, next, last, pc, run, file, i, num_dws, addr, timeout, step, opened>>
      /\ pc = "none"
  BY DEF ResetChannel, loadVars
<1>2. PICK c \in Channels : Disable(c)
  BY DEF ResetChannel
<1>3. /\ chan' \in [Channels -> Registers] /\ DOMAIN rx' = Channels
      /\ \A d \in Channels : d # c => chan'[d] = chan[d] /\ rx'[d] = rx[d]
      /\ rx'[c] = <<>>
  BY <1>2, DisableFacts DEF ReplayIInv
<1>4. Typed'
  BY <1>1, <1>3 DEF ReplayIInv, Typed
<1>5. \A d \in Channels : ~ chan'[d].engine => rx'[d] = <<>>
  BY <1>3 DEF ReplayIInv, Streaming
<1>6. opened' = {}
  BY <1>1, NothingOpen DEF ReplayIInv, Typed
<1>7. Loading' /\ Streaming'
  BY <1>1, <1>5, <1>6 DEF Loading, Streaming, Ready
<1>8. QED
  BY <1>4, <1>7 DEF ReplayIInv

-----------------------------------------------------------------------------
(* The board.                                                               *)

LEMMA LoadingSame ==
    ASSUME Loading, UNCHANGED <<ram, request, pc, run, file, i, num_dws, addr>>
    PROVE  Loading'
<1>1. \A k \in Nat : At(k) => At(k)'
  <2>1. ThisBlock' = ThisBlock
    BY DEF ThisBlock, EndsEvent, EndsChannel
  <2>2. \A k \in Nat : Loaded(i, k)' <=> Loaded(i, k)
    BY LoadedSame
  <2>3. QED
    BY <2>1, <2>2 DEF At, Rest, Fits
<1>2. \A c \in Channels : Loaded(c, Blocks(file))' <=> Loaded(c, Blocks(file))
  BY LoadedSame
<1>3. QED
  BY <1>1, <1>2 DEF Loading, Fits

LEMMA StutterStep ==
    ASSUME ReplayIInv,
           UNCHANGED <<ram, request, chan, next, rx, last, pc, run, file, i, num_dws, addr, timeout, step, opened>>
    PROVE  ReplayIInv'
<1>1. Typed'
  BY DEF ReplayIInv, Typed
<1>2. Loading'
  BY LoadingSame DEF ReplayIInv
<1>3. \A c \in Channels : /\ Ready(c)' <=> Ready(c)
                          /\ Playing(c)' <=> Playing(c)
  BY DEF Ready, Playing, Sent
<1>4. opened \subseteq Channels /\ \A c \in opened : Open(c)' <=> Open(c)
  BY DEF ReplayIInv, Typed, Open
<1>5. Streaming'
  BY <1>3, <1>4 DEF ReplayIInv, Streaming, Fits
<1>6. QED
  BY <1>1, <1>2, <1>5 DEF ReplayIInv

LEMMA ControllerWritesStep == ReplayIInv /\ ControllerWrites => ReplayIInv'
<1> SUFFICES ASSUME ReplayIInv, ControllerWrites PROVE ReplayIInv'
  OBVIOUS
<1>1. /\ UNCHANGED <<chan, next, rx, last, pc, run, file, i, num_dws, addr, timeout, step, opened>>
      /\ request.pending /\ ram' = [ram EXCEPT ![request.addr] = request.block]
      /\ request' = [pending |-> FALSE, done |-> TRUE, addr |-> 0, block |-> Junk]
  BY DEF ControllerWrites, Idle, loadVars
<1>2. /\ DOMAIN ram' = Addresses /\ ram'[request.addr] = request.block
      /\ \A a \in Addresses : a # request.addr => ram'[a] = ram[a]
  BY <1>1 DEF ReplayIInv, Typed
<1>3. Typed'
  <2>1. \A a \in Addresses : BlockOK(ram'[a], a)
    BY <1>1, <1>2 DEF ReplayIInv, Typed
  <2>2. QED
    BY <1>1, <1>2, <2>1, ZeroFacts DEF ReplayIInv, Typed
<1>4. pc \notin {"gtx", "setup", "loop", "cleanup"}
  BY <1>1 DEF ReplayIInv, Loading
<1>5. Streaming'
  BY <1>1, <1>4, NothingOpen, Quiet DEF ReplayIInv, Typed
<1>6. ASSUME pc = "block" PROVE Loading'
  <2>1. PICK k \in Nat : At(k)
    BY <1>6 DEF ReplayIInv, Loading
  <2>2. k = 0 /\ i = 0
    BY <1>1, <1>6, <2>1 DEF At
  <2>3. Loaded(i, 0)' /\ \A c \in Channels : ~ c < 0
    BY DEF Loaded, Channels
  <2>4. At(0)'
    BY <1>1, <1>6, <2>1, <2>2, <2>3 DEF At, Rest
  <2>5. QED
    BY <1>1, <1>6, <2>2, <2>3, <2>4 DEF Loading
<1>7. ASSUME pc = "wait" PROVE Loading'
  <2>1. PICK k \in Nat : At(k)
    BY <1>7 DEF ReplayIInv, Loading
  <2>2. /\ k <= Blocks(file) /\ addr = StartOf(i) + k /\ addr \in Addresses
        /\ request.addr = addr /\ request.block = ThisBlock
    BY <1>1, <1>7, <2>1 DEF At, ReplayIInv, Typed
  <2>3. /\ file \in Nat /\ i \in Channels /\ StartOf(i) \in Nat /\ Blocks(file) \in Nat
        /\ RegionBlocks \in Nat
    BY <1>7, FileFacts, RegionFacts, BlockFacts, ReplayAssumption DEF ReplayIInv, Typed
  <2>4. ASSUME Fits, NEW c \in Channels, NEW n \in Nat, n <= Blocks(file), Loaded(c, n),
               c < i \/ (c = i /\ n = k)
        PROVE  Loaded(c, n)'
    <3>1. SUFFICES ASSUME NEW m \in Nat, m < n PROVE ram'[StartOf(c) + m] = FileBlock(c, m)
      BY <1>1 DEF Loaded, FileBlock, Rest
    <3>2. StartOf(c) \in Nat /\ (c < i => StartOf(c) + RegionBlocks <= StartOf(i))
      BY <2>3, RegionFacts
    <3>3. StartOf(c) + m # addr
      BY <2>2, <2>3, <2>4, <3>1, <3>2 DEF Fits
    <3>4. StartOf(c) + m \in Addresses
      <4>1. file \in FileWords /\ m <= Blocks(file)
        BY <1>7, <2>3, <2>4, <3>1 DEF ReplayIInv, Typed
      <4>2. QED
        BY <4>1, FileInMemory
    <3>5. QED
      BY <1>2, <2>2, <2>4, <3>1, <3>3, <3>4 DEF Loaded
  <2>5. ThisBlock' = ThisBlock /\ ram'[addr] = ThisBlock
    BY <1>1, <1>2, <2>2 DEF ThisBlock, EndsEvent, EndsChannel
  <2>6. ASSUME Fits PROVE Loaded(i, k)'
    <3>1. PICK d \in Channels : d = i
      BY <2>3
    <3>2. Loaded(d, k)
      BY <2>1, <2>6, <3>1 DEF At
    <3>3. Loaded(d, k)'
      BY <2>2, <2>4, <2>6, <3>1, <3>2
    <3>4. QED
      BY <1>1, <3>1, <3>3 DEF Loaded, FileBlock
  <2>7. At(k)'
    BY <1>1, <1>7, <2>1, <2>5, <2>6 DEF At, Rest, Fits
  <2>8. ASSUME Fits, NEW c \in Channels, c < i PROVE Loaded(c, Blocks(file))'
    <3>1. Loaded(c, Blocks(file))
      BY <1>7, <2>8 DEF ReplayIInv, Loading
    <3>2. QED
      BY <1>1, <2>3, <2>4, <2>8, <3>1
  <2>9. QED
    BY <1>1, <1>7, <2>7, <2>8 DEF Loading, Fits
<1>8. Loading'
  BY <1>1, <1>4, <1>6, <1>7 DEF Loading
<1>9. QED
  BY <1>3, <1>5, <1>8 DEF ReplayIInv

\* The block that a channel in play sends next.
LEMMA NextBlock ==
    ASSUME ReplayIInv, Fits, NEW c \in Channels, Ready(c), NEW j \in Nat, Sent(c, j)
    PROVE  ram[next[c]] = FileBlock(c, j) /\ pc # "none"
<1>1. pc \in {"setup", "loop", "cleanup"}
  BY DEF Ready
<1>2. Loaded(c, Blocks(file))
  BY <1>1 DEF ReplayIInv, Loading
<1>3. QED
  BY <1>1, <1>2 DEF Loaded, Sent

LEMMA ReplaysStep ==
    ASSUME ReplayIInv, NEW c \in Channels, Replays(c)
    PROVE  ReplayIInv'
<1>1. PICK b : b = ram[next[c]]
  OBVIOUS
<1>2. PICK words : words = IF chan[c].engine THEN rx[c] \o b.words ELSE <<>>
  OBVIOUS
<1>3. /\ UNCHANGED <<ram, request, chan, pc, run, file, i, num_dws, addr, timeout, step, opened>>
      /\ ~ chan[c].reset /\ b.channel = c
      /\ next' = [next EXCEPT ![c] = IF b.end THEN chan[c].start ELSE @ + 1]
      /\ rx' = [rx EXCEPT ![c] = IF b.eoe THEN <<>> ELSE words]
      /\ last' = IF b.eoe /\ chan[c].engine THEN [last EXCEPT ![c] = words] ELSE last
  BY <1>1, <1>2 DEF Replays, loadVars
<1>4. /\ chan \in [Channels -> Registers] /\ next \in [Channels -> Addresses]
      /\ DOMAIN rx = Channels /\ DOMAIN last = Channels
      /\ BlockOK(b, next[c]) /\ opened \subseteq Channels
      /\ pc # "none" => file \in FileWords
  BY <1>1 DEF ReplayIInv, Typed
<1>5. /\ next' \in [Channels -> Addresses] /\ DOMAIN rx' = Channels /\ DOMAIN last' = Channels
      /\ next'[c] = IF b.end THEN chan[c].start ELSE next[c] + 1
      /\ rx'[c] = IF b.eoe THEN <<>> ELSE words
      /\ \A d \in Channels : d # c => next'[d] = next[d] /\ rx'[d] = rx[d] /\ last'[d] = last[d]
  <2>1. c # NoChannel /\ chan[c].start \in Addresses
    BY <1>4 DEF Channels, NoChannel, Registers
  <2>2. ~ b.end => next[c] + 1 \in Addresses
    BY <1>3, <1>4, <2>1 DEF BlockOK
  <2>3. QED
    BY <1>3, <1>4, <2>1, <2>2
<1>6. Typed'
  BY <1>3, <1>5 DEF ReplayIInv, Typed
<1>7. Loading'
  BY <1>3, LoadingSame DEF ReplayIInv
<1>8. ASSUME Fits, Ready(c)
      PROVE  /\ Playing(c)'
             /\ b.eoe => words = FileOf(run, file)
  <2>1. PICK j \in Nat : Sent(c, j)
    BY <1>8 DEF ReplayIInv, Streaming, Playing
  <2>2. chan[c].engine /\ chan[c].start = StartOf(c)
    BY <1>8 DEF ReplayIInv, Streaming, Playing
  <2>3. b = FileBlock(c, j) /\ file \in FileWords
    BY <1>1, <1>4, <1>8, <2>1, NextBlock
  <2>4. /\ file \in Nat \ {0} /\ BlockWords \in Nat /\ Pos(j) \in Nat /\ Pos(j) < file
        /\ Pos(j + 1) = Pos(j) + BlockWords /\ Pos(0) = 0
        /\ (j + 1 < Blocks(file) <=> Pos(j + 1) < file) /\ 0 < Blocks(file)
        /\ StartOf(c) \in Nat
    BY <2>1, <2>3, FileFacts, BlockFacts, RegionFacts, ReplayAssumption DEF Sent
  <2>5. PICK n \in Nat : n = IF Rest(j) <= BlockWords THEN Rest(j) ELSE BlockWords
    BY <2>4 DEF Rest
  <2>6. /\ b.words = [k \in 1..n |-> Word(run, Pos(j) + k)]
        /\ b.eoe <=> Rest(j) <= BlockWords
        /\ b.end <=> Rest(j) <= BlockWords
    BY <2>3, <2>5 DEF FileBlock, Block
  <2>7. words = [k \in 1 .. Pos(j) + n |-> Word(run, k)]
    <3>1. words = [k \in 1..Pos(j) |-> Word(run, k)] \o [k \in 1..n |-> Word(run, Pos(j) + k)]
      BY <1>2, <2>1, <2>2, <2>6 DEF Sent
    <3>2. Pos(j) \in Nat
      BY <2>4
    <3>3. QED
      BY <3>1, <3>2, ConcatWords
  <2>8. CASE Rest(j) <= BlockWords
    <3>1. Pos(j) + n = file
      BY <2>4, <2>5, <2>8 DEF Rest
    <3>2. next'[c] = StartOf(c) + 0 /\ rx'[c] = <<>>
      BY <1>5, <2>2, <2>4, <2>6, <2>8
    <3>3. Sent(c, 0)'
      BY <1>3, <2>4, <3>2 DEF Sent
    <3>4. Playing(c)'
      BY <1>3, <2>2, <3>3 DEF Playing
    <3>5. QED
      BY <2>7, <3>1, <3>4 DEF FileOf
  <2>9. CASE ~ (Rest(j) <= BlockWords)
    <3>1. Pos(j) + n = Pos(j + 1) /\ j + 1 < Blocks(file)
      BY <2>4, <2>5, <2>9 DEF Rest
    <3>2. next'[c] = StartOf(c) + (j + 1) /\ rx'[c] = [k \in 1..Pos(j + 1) |-> Word(run, k)]
      <4>1. next[c] = StartOf(c) + j
        BY <2>1 DEF Sent
      <4>2. next'[c] = next[c] + 1 /\ rx'[c] = words
        BY <1>5, <2>6, <2>9
      <4>3. QED
        BY <2>4, <2>7, <3>1, <4>1, <4>2
    <3>3. Sent(c, j + 1)'
      BY <1>3, <3>1, <3>2 DEF Sent
    <3>4. QED
      BY <1>3, <2>2, <2>6, <2>9, <3>3 DEF Playing
  <2>10. QED
    BY <2>8, <2>9
<1>9. ASSUME Fits, NEW d \in Channels, Ready(d)' PROVE Playing(d)'
  <2>1. Ready(d)
    BY <1>3, <1>9 DEF Ready
  <2>2. CASE d = c
    BY <1>8, <1>9, <2>1, <2>2
  <2>3. CASE d # c
    BY <1>3, <1>5, <1>9, <2>1, <2>3, PlaysOn DEF ReplayIInv, Streaming
  <2>4. QED
    BY <2>2, <2>3
<1>10. ASSUME Fits, NEW d \in opened PROVE last'[d] \in {<<>>, FileOf(run, file)}
  <2>1. CASE d = c /\ b.eoe /\ chan[c].engine
    <3>1. Open(c)
      BY <1>10, <2>1 DEF ReplayIInv, Streaming
    <3>2. Ready(c)
      BY <1>3, <3>1 DEF ReplayIInv, Typed, Streaming, Open, Ready, Channels, Setup
    <3>3. QED
      BY <1>3, <1>4, <1>8, <1>10, <2>1, <3>2
  <2>2. CASE ~ (d = c /\ b.eoe /\ chan[c].engine)
    <3>1. last'[d] = last[d]
      BY <1>3, <1>4, <1>5, <2>2
    <3>2. QED
      BY <1>10, <3>1 DEF ReplayIInv, Streaming
  <2>3. QED
    BY <2>1, <2>2
<1>11. \A d \in Channels : ~ chan'[d].engine => rx'[d] = <<>>
  BY <1>2, <1>3, <1>5 DEF ReplayIInv, Streaming
<1>12. /\ pc' = "setup" /\ step' \in 2..7 => chan'[i'].reset
       /\ pc' = "setup" /\ step' = 8 => ~ chan'[i'].reset
       /\ pc' = "setup" /\ step' \in 3..7 => chan'[i'].engine /\ rx'[i'] = <<>>
  <2>1. i \in Channels
    BY DEF ReplayIInv, Typed
  <2>2. pc = "setup" /\ step \in 2..7 => c # i
    BY <1>3 DEF ReplayIInv, Streaming
  <2>3. QED
    BY <1>3, <1>5, <2>1, <2>2 DEF ReplayIInv, Streaming
<1>13. \A d \in opened : Open(d)' <=> Open(d)
  BY <1>3 DEF Open
<1>14. Streaming'
  BY <1>3, <1>9, <1>10, <1>11, <1>12, <1>13 DEF ReplayIInv, Streaming, Fits
<1>15. QED
  BY <1>6, <1>7, <1>14 DEF ReplayIInv

-----------------------------------------------------------------------------
(* The theorems.                                                            *)

\* What the tool has written, what the channels send and what the streams have is the
\* file of this run, block by block, at every moment: the loop of
\* ddr3DataReplayEventToRam() and the order in which dma_in_ddr3_mc sets a channel up.
THEOREM ReplayInvariant == Spec => []ReplayIInv
<1>1. Init => ReplayIInv
  BY InitReplay
<1>2. ReplayIInv /\ [Next]_vars => ReplayIInv'
  <2> SUFFICES ASSUME ReplayIInv, [Next]_vars PROVE ReplayIInv'
    OBVIOUS
  <2>1. CASE Start
    BY <2>1, StartStep
  <2>2. CASE PhyReady
    BY <2>2, PhyReadyStep
  <2>3. CASE WriteBlock
    BY <2>3, WriteBlockStep
  <2>4. CASE PollDone
    BY <2>4, PollDoneStep
  <2>5. CASE PollAgain
    BY <2>5, PollAgainStep
  <2>6. CASE PollFails \/ SetupFails \/ Kill
    BY <2>6, ExitStep DEF PollFails, SetupFails, Kill
  <2>7. CASE NextFile
    BY <2>7, NextFileStep
  <2>8. CASE LoadDone
    BY <2>8, LoadDoneStep
  <2>9. CASE GtxReady
    BY <2>9, GtxReadyStep
  <2>10. CASE SetupStep
    BY <2>10, SetupStepStep
  <2>11. CASE SetupDone
    BY <2>11, SetupDoneStep
  <2>12. CASE Interrupt
    BY <2>12, InterruptStep
  <2>13. CASE CleanupReset
    BY <2>13, CleanupResetStep
  <2>14. CASE CleanupStream
    BY <2>14, CleanupStreamStep
  <2>15. CASE ResetChannel
    BY <2>15, ResetChannelStep
  <2>16. CASE PhyInit \/ GtxUp \/ UNCHANGED vars
    BY <2>16, StutterStep DEF PhyInit, GtxUp, vars, hwVars, loadVars
  <2>17. CASE ControllerWrites
    BY <2>17, ControllerWritesStep
  <2>18. CASE Replay
    BY <2>18, ReplaysStep DEF Replay
  <2>19. QED
    BY <2>1, <2>2, <2>3, <2>4, <2>5, <2>6, <2>7, <2>8, <2>9, <2>10, <2>11, <2>12, <2>13, <2>14,
       <2>15, <2>16, <2>17, <2>18 DEF Next, Tool
<1>3. QED
  BY <1>1, <1>2, PTL DEF Spec

\* Every event a stream of dma_in_ddr3_mc receives is the file of this run, whole, and
\* a channel in the event loop reads blocks of its own, whatever an earlier run that
\* was killed, and dmactrl -r, left behind.
THEOREM ReplayCorrect == Spec => []ReplayInv
<1>1. ReplayIInv => ReplayInv
  <2> SUFFICES ASSUME ReplayIInv PROVE ReplayInv
    OBVIOUS
  <2>1. TypeOK
    BY DEF ReplayIInv, Typed, BlockOK, TypeOK
  <2>2. ASSUME Fits, pc = "loop", NEW c \in Channels PROVE ram[next[c]].channel = c
    <3>1. Ready(c)
      BY <2>2 DEF Ready
    <3>2. PICK j \in Nat : Sent(c, j)
      BY <2>2, <3>1 DEF ReplayIInv, Streaming, Playing
    <3>3. ram[next[c]] = FileBlock(c, j)
      BY <2>2, <3>1, <3>2, NextBlock
    <3>4. QED
      BY <3>3 DEF FileBlock, Block
  <2>3. ReceivedIsFile
    BY DEF ReplayIInv, Streaming, ReceivedIsFile
  <2>4. QED
    BY <2>1, <2>2, <2>3 DEF ReplayInv, ReadsOwnBlocks
<1>2. QED
  BY <1>1, ReplayInvariant, PTL

=============================================================================
