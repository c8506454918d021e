----------------------------- MODULE FlashProofs -----------------------------
(***************************************************************************)
(* Proofs about Flash for every geometry of a chip, every file and every      *)
(* number of polls.                                                         *)
(***************************************************************************)
EXTENDS Flash, TLAPS

-----------------------------------------------------------------------------
(* The inductive invariant.                                                 *)

Contents == {"old", "erased", "new", "short", "bad"}
Kinds    == {"none", "unlock", "erase", "buffer", "filling", "program"}
Writes   == {"buffer", "filling", "program"}   \* operations that write one unit

\* The part of TypeOK the proofs need.
ShapeInv ==
    /\ content \in [Units -> Contents]
    /\ op \in [kind : Kinds, unit : Nat]
    /\ size \in Nat /\ addr \in Nat
    /\ complained \in BOOLEAN

\* A call is in the loop its state belongs to, and inside the file; before the
\* call nothing has happened.
LoopInv ==
    /\ pc # "idle" => /\ result = "none" /\ addr < size /\ size <= Total
                      /\ phase \in {"erase", "program"}
    /\ pc \in {"erase", "erasing"} => phase = "erase"
    /\ pc \in {"buffer", "buffering", "programming", "verify"} => phase = "program"
    /\ pc = "idle" /\ result = "none" =>
           op = Idle /\ phase = "none" /\ rest = "even" /\ \A u \in Units : content[u] = "old"

\* As long as nothing was printed, the second loop has read back what is behind
\* it, and an operation still running cannot touch that.
VerifiedInv ==
    /\ phase = "program" /\ ~ complained =>
       \A u \in Units : u < addr /\ ~ NoWords(u) =>
           /\ content[u] = DataOf(u)
           /\ op.kind # "erase" /\ (op.kind \in Writes => op.unit # u)
    /\ result # "none" /\ ~ complained => phase = "program" /\ addr = size

\* The chip works inside the blocks and units of the file only.
ReachInv ==
    /\ op.kind \in Writes \cup {"erase"} => op.unit < size
    /\ OutsideUntouched

WriteInv == ShapeInv /\ LoopInv /\ VerifiedInv /\ ReachInv

-----------------------------------------------------------------------------
(* Geometry.                                                                *)

\* A block starts at or below each of its units.
LEMMA BlockBelow == \A u \in Nat : blkaddr(u) \in Nat /\ blkaddr(u) <= u
<1> SUFFICES ASSUME NEW u \in Nat PROVE blkaddr(u) \in Nat /\ blkaddr(u) <= u
  OBVIOUS
<1>1. u % MainUnits \in Nat /\ u % MainUnits <= u
  BY GeometryAssumption, SMT
<1>2. QED
  BY <1>1, SMT DEF blkaddr

\* getFlashArchitecture() advances by whole units.
LEMMA BlockSize == \A u \in Nat : blksize(u) \in Nat /\ blksize(u) > 0
BY GeometryAssumption DEF blksize

-----------------------------------------------------------------------------
(* The chip.                                                                *)

\* The end of an operation changes the units it works on and no other.
LEMMA ChipWrites ==
    ASSUME ShapeInv, ChipDone \/ ChipFails
    PROVE  /\ content' \in [Units -> Contents] /\ op' \in [kind : Kinds, unit : Nat]
           /\ op' = Idle \/ (op.kind = "buffer" /\ op' = [op EXCEPT !.kind = "filling"])
           /\ \A u \in Units :
                  \/ content'[u] = content[u]
                  \/ op.kind = "erase" /\ blkaddr(u) = op.unit /\ content'[u] \in {"erased", "bad"}
                  \/ op.kind = "program" /\ u = op.unit
<1> USE DEF ShapeInv, Contents, Kinds, Idle, Finish
<1>1. CASE ChipDone
  <2>1. CASE op.kind = "erase"
    BY <1>1, <2>1 DEF ChipDone, Erased, Block
  <2>2. CASE op.kind = "program"
    BY <1>1, <2>2 DEF ChipDone, Programmed, DataOf
  <2>3. CASE op.kind = "unlock" \/ op.kind = "buffer"
    BY <1>1, <2>3 DEF ChipDone
  <2>4. QED
    BY <1>1, <2>1, <2>2, <2>3 DEF ChipDone
<1>2. CASE ChipFails
  <2>1. CASE op.kind = "erase"
    BY <1>2, <2>1 DEF ChipFails, Spoilt, Block
  <2>2. CASE op.kind = "program"
    BY <1>2, <2>2 DEF ChipFails, Spoilt
  <2>3. CASE op.kind = "unlock"
    BY <1>2, <2>3 DEF ChipFails
  <2>4. QED
    BY <1>2, <2>1, <2>2, <2>3 DEF ChipFails
<1>3. QED
  BY <1>1, <1>2

\* An operation ends: what was read back stays, and so do the other images.
LEMMA ChipKeeps == ASSUME WriteInv, ChipDone \/ ChipFails PROVE WriteInv'
<1>1. /\ UNCHANGED hostVars
      /\ ShapeInv
  BY DEF ChipDone, ChipFails, WriteInv
<1>2. UNCHANGED <<pc, phase, size, rest, addr, result, complained>>
  BY <1>1 DEF hostVars
<1>3. ShapeInv'
  BY <1>1, <1>2, ChipWrites DEF ShapeInv
<1>4. op # Idle
  BY DEF ChipDone, ChipFails, Idle
<1>5. LoopInv'
  BY <1>2, <1>4 DEF WriteInv, LoopInv
<1>6. VerifiedInv'
  <2>1. op'.kind # "erase" \/ op' = op
    BY <1>1, ChipWrites DEF ShapeInv, Idle
  <2>2. op'.kind \in Writes => op.kind \in Writes /\ op'.unit = op.unit
    BY <1>1, ChipWrites DEF ShapeInv, Writes, Idle
  <2>3. ASSUME phase = "program", ~ complained, NEW u \in Units, u < addr, ~ NoWords(u)
        PROVE  /\ content'[u] = DataOf(u) /\ op'.kind # "erase"
               /\ (op'.kind \in Writes => op'.unit # u)
    <3>1. /\ content[u] = DataOf(u) /\ op.kind # "erase"
          /\ (op.kind \in Writes => op.unit # u)
      BY <2>3 DEF WriteInv, VerifiedInv
    <3>2. content'[u] = content[u]
      BY <3>1, ChipWrites, <1>1 DEF Writes
    <3>3. QED
      BY <2>1, <2>2, <3>1, <3>2
  <2>4. \A u \in Units : NoWords(u)' = NoWords(u) /\ DataOf(u)' = DataOf(u)
    BY <1>2 DEF NoWords, DataOf
  <2>5. QED
    BY <1>2, <2>3, <2>4 DEF WriteInv, VerifiedInv
<1>7. ReachInv'
  <2>1. op'.kind \in Writes \cup {"erase"} => op.kind \in Writes /\ op'.unit = op.unit
    BY <1>1, ChipWrites DEF ShapeInv, Writes, Idle
  <2>2. ASSUME NEW u \in Units
        PROVE  /\ blkaddr(u) >= size => content'[u] = "old"
               /\ content'[u] \in {"new", "short"} => u < size
    <3>1. u \in Nat /\ blkaddr(u) \in Nat /\ blkaddr(u) <= u /\ size \in Nat /\ op.unit \in Nat
      BY <1>1, BlockBelow DEF Units, ShapeInv
    <3>2. op.kind \in {"erase", "program"} => op.unit < size
      BY DEF WriteInv, ReachInv, Writes
    <3>3. /\ blkaddr(u) >= size => content[u] = "old"
          /\ content[u] \in {"new", "short"} => u < size
      BY DEF WriteInv, ReachInv, OutsideUntouched
    <3>4. QED
      BY <1>1, <3>1, <3>2, <3>3, ChipWrites
  <2>3. QED
    BY <1>2, <2>1, <2>2 DEF WriteInv, ReachInv, OutsideUntouched
<1>8. QED
  BY <1>3, <1>5, <1>6, <1>7 DEF WriteInv

-----------------------------------------------------------------------------
(* The calls.                                                               *)

\* A step that starts no operation and ends where the loops allow it to keeps
\* what the flash holds outside the file.
LEMMA ReachKept ==
    ASSUME ReachInv, content' = content, op' = op, size' = size PROVE ReachInv'
BY DEF ReachInv, OutsideUntouched

\* flashWrite() starts on a flash in which nothing is going on.
LEMMA CallKeeps ==
    ASSUME WriteInv, NEW n \in Files, flashWrite(n) PROVE WriteInv'
<1> USE DEF Return
<1>1. /\ UNCHANGED <<content, op>> /\ size' = n /\ n \in Nat /\ n > 0
      /\ pc = "idle" /\ result = "none"
  BY FilesAssumption DEF flashWrite, chipVars
<1>2. op = Idle /\ phase = "none" /\ \A u \in Units : content[u] = "old"
  BY <1>1 DEF WriteInv, LoopInv
<1>3. CASE n > Total
  <2>1. pc' = "idle" /\ result' = "error" /\ complained' = TRUE /\ phase' = phase /\ addr' = addr
    BY <1>3 DEF flashWrite, WriteInv, ShapeInv
  <2>2. QED
    BY <1>1, <1>2, <2>1
    DEF WriteInv, ShapeInv, LoopInv, VerifiedInv, ReachInv, OutsideUntouched, Idle, Writes
<1>4. CASE ~ (n > Total)
  <2>1. pc' = "check" /\ phase' = "erase" /\ addr' = 0 /\ result' = result
        /\ complained' = complained
    BY <1>4 DEF flashWrite
  <2>2. Total \in Int
    BY GeometryAssumption DEF Total, MainSize
  <2>3. QED
    BY <1>1, <1>2, <1>4, <2>1, <2>2
    DEF WriteInv, ShapeInv, LoopInv, VerifiedInv, ReachInv, OutsideUntouched, Idle, Writes
<1>5. QED
  BY <1>3, <1>4

\* A step to another state of the same turn, in the loop that state belongs to.
LEMMA GotoKeeps ==
    ASSUME WriteInv, NEW to, Goto(to), to # "idle", pc # "idle",
           UNCHANGED <<content, op, size, rest>>,
           to \in {"erase", "erasing"} => phase = "erase",
           to \in {"buffer", "buffering", "programming", "verify"} => phase = "program"
    PROVE  WriteInv'
<1>1. pc' = to /\ UNCHANGED <<phase, addr, result, complained, content, op, size, rest>>
  BY DEF Goto
<1>2. QED
  BY <1>1, ReachKept DEF WriteInv, ShapeInv, LoopInv, VerifiedInv, NoWords, DataOf

\* An error ends the call with a message.
LEMMA FailKeeps ==
    ASSUME WriteInv, pc # "idle", Fail, UNCHANGED <<content, op, size, rest>> PROVE WriteInv'
<1>1. /\ pc' = "idle" /\ result' \in {"error", "ok"} /\ complained' = TRUE
      /\ UNCHANGED <<phase, addr, content, op, size, rest>>
  BY DEF Fail, Return, WriteInv, ShapeInv
<1>2. QED
  BY <1>1, ReachKept DEF WriteInv, ShapeInv, LoopInv, VerifiedInv

\* erase() goes to the next block of the file, or the second loop starts.
LEMMA NextBlockKeeps ==
    ASSUME WriteInv, pc = "erasing", NextBlock, UNCHANGED <<content, op, size, rest>>
    PROVE  WriteInv'
<1> DEFINE next == addr + blksize(addr)
<1>1. addr \in Nat /\ size \in Nat /\ addr < size /\ size <= Total /\ phase = "erase"
      /\ result = "none" /\ pc # "idle"
  BY DEF WriteInv, ShapeInv, LoopInv
<1>2. next \in Nat
  BY <1>1, BlockSize
<1>3. /\ pc' = "check" /\ UNCHANGED <<result, complained, content, op, size, rest>>
      /\ \/ next < size /\ addr' = next /\ phase' = phase
         \/ addr' = 0 /\ phase' = "program"
  BY DEF NextBlock
<1>4. ShapeInv' /\ LoopInv'
  BY <1>1, <1>2, <1>3 DEF WriteInv, ShapeInv, LoopInv
<1>5. VerifiedInv'
  BY <1>1, <1>3 DEF VerifiedInv, Units
<1>6. QED
  BY <1>3, <1>4, <1>5, ReachKept DEF WriteInv

\* A unit that reads as written while nothing runs is there for good.
LEMMA VerifyKeeps == ASSUME WriteInv, Verify PROVE WriteInv'
<1>1. /\ pc = "verify" /\ phase = "program" /\ addr < size /\ size <= Total /\ result = "none"
      /\ addr \in Nat /\ size \in Nat /\ complained \in BOOLEAN
  BY DEF Verify, WriteInv, LoopInv, ShapeInv
<1>2. /\ UNCHANGED <<content, op, size, rest, phase>> /\ addr' = addr + 1
      /\ complained' = (complained \/ ~ReadsNew(addr))
      /\ \/ addr' < size /\ pc' = "check" /\ result' = result
         \/ ~ (addr' < size) /\ pc' = "idle" /\ result' = "ok"
  BY DEF Verify, chipVars
<1>3. ShapeInv' /\ LoopInv'
  BY <1>1, <1>2 DEF WriteInv, ShapeInv, LoopInv
<1>4. VerifiedInv'
  <2>1. CASE complained'
    BY <1>1, <1>2, <2>1 DEF VerifiedInv
  <2>2. CASE ~ complained'
    <3>1. ~ complained /\ (NoWords(addr) \/ (op = Idle /\ content[addr] = DataOf(addr)))
      BY <1>2, <2>2 DEF ReadsNew
    <3>2. \A u \in Units : NoWords(u)' = NoWords(u) /\ DataOf(u)' = DataOf(u)
      BY <1>2 DEF NoWords, DataOf
    <3>3. ASSUME NEW u \in Units, u < addr', ~ NoWords(u)
          PROVE  /\ content'[u] = DataOf(u) /\ op'.kind # "erase"
                 /\ (op'.kind \in Writes => op'.unit # u)
      <4>1. u < addr \/ u = addr
        BY <1>1, <1>2, <3>3 DEF Units
      <4>2. CASE u < addr
        BY <1>1, <1>2, <3>1, <3>3, <4>2 DEF WriteInv, VerifiedInv
      <4>3. CASE u = addr
        BY <1>2, <3>1, <3>3, <4>3 DEF Idle, Writes
      <4>4. QED
        BY <4>1, <4>2, <4>3
    <3>4. result' # "none" => addr' = size
      BY <1>1, <1>2
    <3>5. QED
      BY <1>1, <1>2, <2>2, <3>2, <3>3, <3>4 DEF VerifiedInv
  <2>3. QED
    BY <2>1, <2>2
<1>5. QED
  BY <1>2, <1>3, <1>4, ReachKept DEF WriteInv

\* A command starts an operation inside the file, and in the second loop on
\* the unit at hand.
LEMMA CommandKeeps ==
    ASSUME WriteInv, unlockBlock \/ eraseBlock \/ programBuffer \/ WriteData PROVE WriteInv'
<1> DEFINE b == blkaddr(addr)
<1>1. addr \in Nat /\ size \in Nat /\ pc # "idle" /\ addr < size /\ b \in Nat /\ b <= addr
  BY BlockBelow DEF unlockBlock, eraseBlock, programBuffer, WriteData, WriteInv, ShapeInv, LoopInv
<1>2. /\ UNCHANGED <<content, size, rest, phase, addr, result, complained>>
      /\ pc' \in {"unlocking", "erasing", "buffering", "programming"}
      /\ pc' = "erasing" => phase = "erase"
      /\ pc' \in {"buffering", "programming"} => phase = "program"
  BY DEF unlockBlock, eraseBlock, programBuffer, WriteData, Command, Goto, WriteInv, LoopInv
<1>3. \/ op' = op
      \/ op' = Idle
      \/ op' = [kind |-> "unlock", unit |-> b]
      \/ phase = "erase" /\ op' = [kind |-> "erase", unit |-> b]
      \/ op' = [kind |-> "buffer", unit |-> addr]
      \/ op = [kind |-> "filling", unit |-> addr] /\ op' = [op EXCEPT !.kind = "program"]
  <2>1. CASE unlockBlock
    BY <2>1 DEF unlockBlock, Start
  <2>2. CASE eraseBlock
    BY <2>2 DEF eraseBlock, Start, WriteInv, LoopInv
  <2>3. CASE programBuffer
    BY <2>3 DEF programBuffer, Start
  <2>4. CASE WriteData
    BY <2>4 DEF WriteData, Fill, FillNothing
  <2>5. QED
    BY <2>1, <2>2, <2>3, <2>4
<1>4. ShapeInv'
  BY <1>1, <1>2, <1>3 DEF WriteInv, ShapeInv, Kinds, Idle
<1>5. LoopInv'
  BY <1>1, <1>2 DEF WriteInv, LoopInv
<1>6. VerifiedInv'
  BY <1>1, <1>2, <1>3 DEF WriteInv, VerifiedInv, Writes, Idle, NoWords, DataOf
<1>7. ReachInv'
  <2>1. op'.kind \in Writes \cup {"erase"} => op'.unit < size
    BY <1>1, <1>3 DEF WriteInv, ReachInv, Writes, Idle
  <2>2. QED
    BY <1>2, <2>1 DEF WriteInv, ReachInv, OutsideUntouched
<1>8. QED
  BY <1>4, <1>5, <1>6, <1>7 DEF WriteInv

\* The polls of a status register, and what follows from its flags.
LEMMA WaitKeeps == ASSUME WriteInv, Poll \/ PollTimeout \/ WaitEnds PROVE WriteInv'
<1>1. pc \in Waits /\ pc # "idle" /\ UNCHANGED <<content, op, size, rest>>
  BY DEF Poll, PollTimeout, WaitEnds, Unlocking, Erasing, Programming, Waits, chipVars
<1>2. phase \in {"erase", "program"}
  BY <1>1 DEF WriteInv, LoopInv
<1>3. CASE Poll
  <2>1. pc' = pc /\ UNCHANGED <<phase, addr, result, complained>>
    BY <1>3 DEF Poll
  <2>2. QED
    BY <1>1, <2>1, ReachKept DEF WriteInv, ShapeInv, LoopInv, VerifiedInv, NoWords, DataOf
<1>4. ASSUME Goto(Unlocked), pc = "unlocking" PROVE WriteInv'
  BY <1>1, <1>2, <1>4, GotoKeeps DEF Unlocked
<1>5. ASSUME Goto("verify"), pc \in {"buffering", "programming"} PROVE WriteInv'
  <2>1. phase = "program"
    BY <1>5 DEF WriteInv, LoopInv
  <2>2. QED
    BY <1>1, <1>5, <2>1, GotoKeeps
<1>6. CASE PollTimeout
  <2>1. CASE sr # {}
    BY <1>1, <1>6, <2>1, FailKeeps DEF PollTimeout
  <2>2. CASE sr = {} /\ pc = "unlocking"
    BY <1>4, <1>6, <2>2 DEF PollTimeout, Succeed
  <2>3. CASE sr = {} /\ pc = "erasing"
    BY <1>1, <1>6, <2>3, NextBlockKeeps DEF PollTimeout, Succeed
  <2>4. CASE sr = {} /\ pc \in {"buffering", "programming"}
    BY <1>5, <1>6, <2>4 DEF PollTimeout, Succeed
  <2>5. QED
    BY <1>1, <2>1, <2>2, <2>3, <2>4 DEF Waits
<1>7. CASE Unlocking
  BY <1>4, <1>7 DEF Unlocking
<1>8. CASE Erasing
  BY <1>1, <1>8, NextBlockKeeps DEF Erasing
<1>9. CASE Programming
  BY <1>1, <1>5, <1>9, FailKeeps DEF Programming
<1>10. QED
  BY <1>3, <1>6, <1>7, <1>8, <1>9 DEF WaitEnds

\* isBlockLocked() decides only where the same turn goes on.
LEMMA CheckKeeps == ASSUME WriteInv, CheckLock PROVE WriteInv'
<1>1. pc # "idle" /\ UNCHANGED <<content, op, size, rest>>
  BY DEF CheckLock
<1>2. phase \in {"erase", "program"}
  BY <1>1 DEF WriteInv, LoopInv
<1>3. PICK l \in LockBits : Goto(IF l THEN "unlock" ELSE Unlocked)
  BY DEF CheckLock
<1>4. QED
  BY <1>1, <1>2, <1>3, GotoKeeps DEF Unlocked

-----------------------------------------------------------------------------
(* The theorems.                                                            *)

\* Every step of flashWrite() and of the chip keeps the invariant.
LEMMA StepKeeps == WriteInv /\ [Next]_vars => WriteInv'
<1> SUFFICES ASSUME WriteInv, [Next]_vars PROVE WriteInv'
  OBVIOUS
<1>1. CASE ChipDone \/ ChipFails
  BY <1>1, ChipKeeps
<1>2. CASE \E n \in Files : flashWrite(n)
  BY <1>2, CallKeeps
<1>3. CASE CheckLock
  BY <1>3, CheckKeeps
<1>4. CASE unlockBlock \/ eraseBlock \/ programBuffer \/ WriteData
  BY <1>4, CommandKeeps
<1>5. CASE Poll \/ PollTimeout \/ WaitEnds
  BY <1>5, WaitKeeps
<1>6. CASE Verify
  BY <1>6, VerifyKeeps
<1>7. CASE UNCHANGED vars
  BY <1>7, ReachKept
  DEF vars, chipVars, hostVars, WriteInv, ShapeInv, LoopInv, VerifiedInv, NoWords, DataOf
<1>8. QED
  BY <1>1, <1>2, <1>3, <1>4, <1>5, <1>6, <1>7 DEF Next, Host, Ended

\* Before the call the flash holds the old contents.
LEMMA InitKeeps == Init => WriteInv
<1> SUFFICES ASSUME Init PROVE WriteInv
  OBVIOUS
<1>1. \A u \in Units : blkaddr(u) \in Nat
  BY BlockBelow DEF Units
<1>2. QED
  BY <1>1 DEF Init, WriteInv, ShapeInv, LoopInv, VerifiedInv, ReachInv, OutsideUntouched,
              Contents, Kinds, Writes, Idle

\* The invariant of a write, for every chip, file and number of polls.
THEOREM FlashInvariant == FairSpec => []WriteInv
BY InitKeeps, StepKeeps, PTL DEF FairSpec

\* flashWrite() loses no word of a file in silence: a word that is not in the
\* flash when it returns was complained about, though erase errors are not looked
\* at and a wait that runs out may count as a success.  The last byte of a file
\* of odd length is no word, and is lost in silence.
THEOREM NeverSilentLoss == FairSpec => []NoSilentLoss
<1>1. WriteInv => NoSilentLoss
  BY DEF WriteInv, VerifiedInv, NoSilentLoss, FileUnits, Written
<1>2. QED
  BY <1>1, FlashInvariant, PTL

\* Blocks behind the file keep their contents, and nothing is programmed there,
\* even by an operation that ends after the call has returned.
THEOREM OtherImagesSurvive == FairSpec => []OutsideUntouched
<1>1. WriteInv => OutsideUntouched
  BY DEF WriteInv, ReachInv
<1>2. QED
  BY <1>1, FlashInvariant, PTL

-----------------------------------------------------------------------------
(* A write without faults.                                                  *)

ThisBlock == blkaddr(addr)
Array(b) == mode[b] = "array"

\* The chip is ready when it waits for a command or for data, and reports no error.
ReadyInv ==
    /\ sr = IF op.kind \in {"none", "filling"} THEN {"ready"} ELSE {}
    /\ status \subseteq {"ready"}
    /\ pc \in Waits /\ "ready" \in status => op.kind \in {"none", "filling"}

\* What the chip is doing, or has done, for each state of the call.
OperationInv ==
    /\ pc \notin Waits => op = Idle
    /\ pc = "unlocking" => \/ op = [kind |-> "unlock", unit |-> ThisBlock]
                           \/ op = Idle /\ ThisBlock \notin locked
    /\ pc = "erasing" => \/ op = [kind |-> "erase", unit |-> ThisBlock]
                         \/ op = Idle /\ \A u \in Block(ThisBlock) : content[u] = "erased"
    /\ pc = "buffering" => op.kind \in {"buffer", "filling"} /\ op.unit = addr
    /\ pc = "programming" => \/ op = [kind |-> "program", unit |-> addr]
                             \/ op = Idle /\ content[addr] = DataOf(addr)
    /\ pc \in {"erase", "erasing", "buffer", "buffering", "programming"} => ThisBlock \notin locked

\* How far the two loops have come.
ProgressInv ==
    /\ pc # "idle" /\ phase = "erase" =>
           ThisBlock = addr /\ \A u \in Units : u < addr => content[u] = "erased"
    /\ pc # "idle" /\ phase = "program" =>
           /\ \A u \in Units : u < addr => content[u] = DataOf(u)
           /\ \A u \in Units : addr < u /\ u < size => content[u] = "erased"
           /\ pc \notin {"programming", "verify"} => content[addr] = "erased"
           /\ pc = "programming" /\ op # Idle => content[addr] = "erased"
           /\ pc = "verify" => content[addr] = DataOf(addr)

\* Only the bank the call works on is not in read array mode, and between two
\* turns that one is, too.
ModeInv ==
    /\ \A b \in Banks : b # bankaddr(addr) => Array(b)
    /\ pc \in {"idle", "check", "verify"} => \A b \in Banks : Array(b)

\* What the call has returned and printed.
OutcomeInv ==
    /\ result = "none" => ~ complained
    /\ result # "none" /\ size <= Total =>
           result = "ok" /\ ~ complained /\ \A u \in FileUnits : content[u] = DataOf(u)

Faultless == ReadyInv /\ OperationInv /\ ProgressInv /\ ModeInv /\ OutcomeInv
CleanInv  == ~ fault /\ rest # "single" => Faultless

\* The part of TypeOK that the shape leaves out.
RestTypeOK ==
    /\ locked \subseteq Blocks
    /\ sr \subseteq {"ready"} \cup Errors
    /\ op.unit \in Units
    /\ mode \in [Banks -> {"array", "id", "status"}]
    /\ pc \in {"idle", "check", "unlock", "erase", "buffer", "verify"} \cup Waits
    /\ phase \in {"none", "erase", "program"}
    /\ size \in Files \cup {0} /\ rest \in Rests /\ addr \in 0 .. Total
    /\ status \subseteq {"ready"} \cup Errors /\ timeout \in 0 .. Timeout
    /\ result \in {"none", "ok", "error"}
    /\ fault \in BOOLEAN

FullInv == WriteInv /\ RestTypeOK /\ CleanInv

-----------------------------------------------------------------------------
(* More geometry.                                                           *)

\* Division with remainder, and multiples of a block size.
LEMMA DivMod ==
    ASSUME NEW k \in Nat \ {0}, NEW u \in Nat
    PROVE  u % k \in 0 .. k-1 /\ u \div k \in Nat /\ u = (u \div k) * k + (u % k)
BY SMT

LEMMA ModOfSum ==
    ASSUME NEW k \in Nat \ {0}, NEW q \in Nat, NEW r \in 0 .. k-1 PROVE (q * k + r) % k = r
BY SMT

LEMMA NextMultiple ==
    ASSUME NEW k \in Nat \ {0}, NEW q \in Nat, NEW m \in Nat, q * k < m * k
    PROVE  (q + 1) * k <= m * k /\ (q + 1) * k = q * k + k
<1>1. q < m
  BY SMT
<1>2. q + 1 <= m
  BY <1>1, SMT
<1>3. QED
  BY <1>2, SMT

\* The sizes of the chip.
LEMMA ChipSizes ==
    /\ MainSize \in Nat /\ Total \in Nat /\ MainSize <= Total /\ Total > 0
    /\ 0 \in Units /\ Units \subseteq Nat
    /\ \A u \in Units : blkaddr(u) \in Units /\ bankaddr(u) \in Nat
<1>1. MainSize \in Nat /\ MainSize > 0
  BY GeometryAssumption, SMT DEF MainSize
<1>2. Total \in Nat /\ MainSize <= Total /\ Total > 0
  BY <1>1, GeometryAssumption DEF Total
<1>3. 0 \in Units /\ Units \subseteq Nat
  BY <1>2 DEF Units
<1>4. \A u \in Units : blkaddr(u) \in Units
  BY <1>2, <1>3, BlockBelow DEF Units
<1>5. \A u \in Units : bankaddr(u) \in Nat
  <2> SUFFICES ASSUME NEW u \in Units PROVE bankaddr(u) \in Nat
    OBVIOUS
  <2>1. u \in Nat /\ BankUnits \in Nat \ {0}
    BY <1>3, GeometryAssumption
  <2>2. u % BankUnits \in Nat /\ u % BankUnits <= u
    BY <2>1, SMT
  <2>3. QED
    BY <2>1, <2>2, SMT DEF bankaddr
<1>6. QED
  BY <1>1, <1>2, <1>3, <1>4, <1>5

\* The blocks tile the chip: behind a block comes the next one, and what lies
\* between their addresses is the block.
LEMMA BlocksTile ==
    ASSUME NEW a \in Units, blkaddr(a) = a
    PROVE  LET next == a + blksize(a) IN
           /\ next \in Nat /\ next <= Total
           /\ next < Total => blkaddr(next) = next
           /\ \A u \in Units : u < next => u < a \/ u \in Block(a)
<1> DEFINE next == a + blksize(a)
<1>0. a \in Nat /\ a < Total /\ MainUnits \in Nat \ {0} /\ MainBlocks \in Nat
      /\ MainSize \in Nat /\ Total \in Nat /\ MainSize <= Total
  BY ChipSizes, GeometryAssumption DEF Units
<1>1. CASE a < MainSize
  <2>1. next = a + MainUnits
    BY <1>1 DEF blksize
  <2>2. a % MainUnits = 0
    BY <1>0, <1>1, DivMod DEF blkaddr
  <2>3. PICK q \in Nat : a = q * MainUnits
    <3>1. a \div MainUnits \in Nat /\ a = (a \div MainUnits) * MainUnits + (a % MainUnits)
      BY <1>0, DivMod
    <3>2. a = (a \div MainUnits) * MainUnits
      BY <1>0, <2>2, <3>1
    <3>3. QED
      BY <3>1, <3>2
  <2>4. (q + 1) * MainUnits <= MainSize /\ (q + 1) * MainUnits = next
    BY <1>0, <1>1, <2>1, <2>3, NextMultiple DEF MainSize
  <2>5. next \in Nat /\ next <= MainSize
    BY <1>0, <2>1, <2>4
  <2>6. next % MainUnits = 0
    <3>1. ((q + 1) * MainUnits + 0) % MainUnits = 0
      BY <1>0, ModOfSum
    <3>2. (q + 1) * MainUnits + 0 = next
      BY <2>4, <2>5
    <3>3. QED
      BY <3>1, <3>2
  <2>7. blkaddr(next) = next
    BY <2>5, <2>6 DEF blkaddr
  <2>8. ASSUME NEW u \in Units, u < next, ~ (u < a) PROVE u \in Block(a)
    <3>1. u \in Nat /\ u - a \in 0 .. MainUnits - 1 /\ u < MainSize
      BY <1>0, <2>1, <2>5, <2>8 DEF Units
    <3>2. u = q * MainUnits + (u - a)
      BY <1>0, <2>3, <3>1
    <3>3. u % MainUnits = u - a
      BY <1>0, <3>1, <3>2, ModOfSum
    <3>4. blkaddr(u) = a
      BY <1>0, <3>1, <3>3 DEF blkaddr
    <3>5. QED
      BY <3>4 DEF Block
  <2>9. QED
    BY <1>0, <2>5, <2>7, <2>8
<1>2. CASE ~ (a < MainSize)
  <2>1. next = a + 1
    BY <1>2 DEF blksize
  <2>2. ~ (next < MainSize)
    BY <1>0, <1>2, <2>1
  <2>3. blkaddr(next) = next
    BY <2>2 DEF blkaddr
  <2>4. ASSUME NEW u \in Units, u < next, ~ (u < a) PROVE u \in Block(a)
    BY <1>0, <2>1, <2>4 DEF Units, Block
  <2>5. QED
    BY <1>0, <2>1, <2>3, <2>4
<1>3. QED
  BY <1>1, <1>2

-----------------------------------------------------------------------------
(* The rest of the types.                                                   *)

\* The unit at hand and its block are on the chip while flashWrite() runs.
LEMMA AtHand ==
    ASSUME FullInv, pc # "idle"
    PROVE  /\ addr \in Units /\ ThisBlock \in Units /\ addr < size /\ size <= Total
           /\ addr \in Nat /\ size \in Nat /\ result = "none"
<1>1. addr \in Nat /\ size \in Nat /\ addr < size /\ size <= Total /\ result = "none"
  BY DEF FullInv, WriteInv, ShapeInv, LoopInv
<1>2. addr \in Units
  BY <1>1, ChipSizes DEF Units
<1>3. QED
  BY <1>1, <1>2, ChipSizes DEF ThisBlock

\* An operation of the chip ends.
LEMMA ChipTypes == ASSUME FullInv, ChipDone \/ ChipFails PROVE RestTypeOK'
<1> USE DEF FullInv, RestTypeOK
<1>1. UNCHANGED <<mode, pc, phase, size, rest, addr, status, timeout, result>>
  BY DEF ChipDone, ChipFails, hostVars
<1>2. locked' \subseteq Blocks /\ sr' \subseteq {"ready"} \cup Errors /\ fault' \in BOOLEAN
  BY DEF ChipDone, ChipFails, Finish, Errors
<1>3. op'.unit \in Units
  BY ChipSizes DEF ChipDone, ChipFails, Finish, Idle, WriteInv, ShapeInv
<1>4. QED
  BY <1>1, <1>2, <1>3

\* The commands, the polls and what follows from them.
LEMMA HostTypes == ASSUME FullInv, WriteInv', Host PROVE RestTypeOK'
<1> USE ChipSizes DEF FullInv, RestTypeOK
<1>1. addr \in Nat /\ size \in Nat /\ addr' \in Nat /\ size' \in Nat
  BY DEF WriteInv, ShapeInv
<1>2. ASSUME NEW n \in Files, flashWrite(n) PROVE RestTypeOK'
  BY <1>1, <1>2 DEF flashWrite, Return, chipVars
<1>3. CASE CheckLock
  <2>1. PICK l \in LockBits : Goto(IF l THEN "unlock" ELSE Unlocked)
    BY <1>3 DEF CheckLock
  <2>2. pc' \in {"unlock", "erase", "buffer"} /\ UNCHANGED <<phase, addr, result>>
    BY <2>1 DEF Goto, Unlocked
  <2>3. /\ sr' \subseteq {"ready"} \cup Errors
        /\ mode' \in [Banks -> {"array", "id", "status"}]
    BY <1>3 DEF CheckLock, Cleared
  <2>4. QED
    BY <1>3, <2>2, <2>3 DEF CheckLock
<1>4. CASE unlockBlock \/ eraseBlock \/ programBuffer \/ WriteData
  <2>1. pc # "idle"
    BY <1>4 DEF unlockBlock, eraseBlock, programBuffer, WriteData
  <2>2. addr \in Units /\ blkaddr(addr) \in Units
    BY <2>1, AtHand DEF ThisBlock
  <2>3. \E to \in Waits : Command(to)
    BY <1>4 DEF unlockBlock, eraseBlock, programBuffer, WriteData, Waits
  <2>4. /\ pc' \in Waits /\ status' = sr' /\ timeout' = Timeout
        /\ mode' \in [Banks -> {"array", "id", "status"}]
        /\ UNCHANGED <<phase, addr, size, rest, result, locked, fault>>
    BY <2>3 DEF Command, Goto, ReadMode
  <2>5. sr' \subseteq {"ready"} \cup Errors
    BY <1>4 DEF unlockBlock, eraseBlock, programBuffer, WriteData, Start, Fill, FillNothing, Errors
  <2>6. op'.unit \in Units
    BY <1>4, <2>2 DEF unlockBlock, eraseBlock, programBuffer, WriteData, Start, Fill,
                      FillNothing, Idle, WriteInv, ShapeInv
  <2>7. Timeout \in 0 .. Timeout
    BY TimeoutAssumption
  <2>8. QED
    BY <2>4, <2>5, <2>6, <2>7
<1>5. addr' \in 0 .. Total
  <2>1. CASE pc' # "idle"
    BY <1>1, <2>1 DEF WriteInv, LoopInv
  <2>2. CASE pc' = "idle" /\ addr' = addr
    BY <2>2
  <2>3. CASE Verify
    <3>1. addr < size /\ size <= Total /\ addr' = addr + 1
      BY <2>3, AtHand DEF Verify
    <3>2. QED
      BY <1>1, <3>1
  <2>4. QED
    BY <2>1, <2>2, <2>3
    DEF Host, flashWrite, CheckLock, unlockBlock, eraseBlock, programBuffer, WriteData,
        Command, Poll, PollTimeout, WaitEnds, Unlocking, Erasing, Programming, Succeed,
        Fail, Return, Goto, NextBlock
<1>6. CASE Poll \/ PollTimeout
  <2>1. timeout' \in 0 .. Timeout /\ status' \subseteq {"ready"} \cup Errors
    <3>1. Timeout \in Nat /\ timeout \in 0 .. Timeout /\ sr \subseteq {"ready"} \cup Errors
      BY TimeoutAssumption
    <3>2. status' = sr
      BY <1>6 DEF Poll, PollTimeout
    <3>3. timeout' = 0 \/ (timeout > 1 /\ timeout' = timeout - 1)
      BY <1>6 DEF Poll, PollTimeout
    <3>4. QED
      BY <3>1, <3>2, <3>3
  <2>2. UNCHANGED <<chipVars, size, rest>> /\ fault' \in BOOLEAN
    BY <1>6 DEF Poll, PollTimeout
  <2>3. /\ pc' \in {"idle", "check", "unlock", "erase", "buffer", "verify"} \cup Waits
        /\ phase' \in {"none", "erase", "program"} /\ result' \in {"none", "ok", "error"}
    BY <1>6 DEF Poll, PollTimeout, Succeed, Fail, Return, Goto, NextBlock, Unlocked
  <2>4. QED
    BY <1>5, <2>1, <2>2, <2>3 DEF chipVars
<1>7. CASE WaitEnds
  <2>1. UNCHANGED <<locked, op, size, rest, status, timeout, fault>>
    BY <1>7 DEF WaitEnds
  <2>2. /\ pc' \in {"idle", "check", "unlock", "erase", "buffer", "verify"} \cup Waits
        /\ phase' \in {"none", "erase", "program"} /\ result' \in {"none", "ok", "error"}
    BY <1>7 DEF WaitEnds, Unlocking, Erasing, Programming, Fail, Return, Goto, NextBlock, Unlocked
  <2>3. /\ sr' \subseteq {"ready"} \cup Errors
        /\ mode' \in [Banks -> {"array", "id", "status"}]
    BY <1>7 DEF WaitEnds, Unlocking, Erasing, Programming, resetBlock, ReadMode, Cleared
  <2>4. QED
    BY <1>5, <2>1, <2>2, <2>3
<1>8. CASE Verify
  BY <1>5, <1>8 DEF Verify, chipVars
<1>9. QED
  BY <1>2, <1>3, <1>4, <1>6, <1>7, <1>8 DEF Host

-----------------------------------------------------------------------------
(* Without faults every operation does what it was started for.              *)

\* An operation of the chip ends well.
LEMMA FaultlessChip == ASSUME FullInv, Faultless, ChipDone PROVE Faultless'
<1> USE DEF Faultless
<1>1. UNCHANGED <<mode, pc, phase, size, rest, addr, status, result, complained>>
  BY DEF ChipDone, hostVars
<1>2. op # Idle /\ pc \in Waits /\ pc # "idle"
  <2>1. op # Idle
    BY DEF ChipDone, Idle
  <2>2. QED
    BY <2>1 DEF OperationInv, Waits
<1>3. addr \in Units /\ addr \in Nat /\ size \in Nat /\ ThisBlock \in Units /\ result = "none"
      /\ op \in [kind : Kinds, unit : Nat] /\ content \in [Units -> Contents]
      /\ phase \in {"erase", "program"}
      /\ (pc = "erasing" => phase = "erase")
      /\ (pc \in {"buffering", "programming"} => phase = "program")
  BY <1>2, AtHand DEF FullInv, WriteInv, ShapeInv, LoopInv
<1>4. ModeInv' /\ OutcomeInv'
  BY <1>1, <1>3 DEF ModeInv, OutcomeInv, Array
<1>5. sr = {} /\ "ready" \notin status
  BY <1>2 DEF ReadyInv, ChipDone
<1>6. CASE op.kind = "unlock"
  <2>1. /\ op' = Idle /\ sr' = {"ready"} /\ content' = content /\ locked' = locked \ {op.unit}
    BY <1>5, <1>6 DEF ChipDone, Finish
  <2>2. pc = "unlocking" /\ op.unit = ThisBlock
    BY <1>2, <1>6 DEF OperationInv, Waits, Idle
  <2>3. ReadyInv'
    BY <1>1, <1>5, <2>1 DEF ReadyInv, Idle
  <2>4. OperationInv'
    BY <1>1, <2>1, <2>2 DEF OperationInv, ThisBlock
  <2>5. ProgressInv'
    BY <1>1, <2>1, <2>2 DEF ProgressInv, ThisBlock, DataOf
  <2>6. QED
    BY <1>4, <2>3, <2>4, <2>5
<1>7. CASE op.kind = "erase"
  <2>1. /\ op' = Idle /\ sr' = {"ready"} /\ locked' = locked
        /\ \A u \in Units : content'[u] = IF u \in Block(op.unit) THEN "erased" ELSE content[u]
    BY <1>5, <1>7 DEF ChipDone, Finish, Erased
  <2>2. pc = "erasing" /\ op.unit = ThisBlock /\ phase = "erase"
    BY <1>2, <1>3, <1>7 DEF OperationInv, Waits, Idle
  <2>3. ReadyInv'
    BY <1>1, <1>5, <2>1 DEF ReadyInv, Idle
  <2>4. \A u \in Block(ThisBlock) : content'[u] = "erased"
    BY <2>1, <2>2 DEF Block
  <2>5. OperationInv'
    BY <1>1, <2>1, <2>2, <2>4 DEF OperationInv, ThisBlock
  <2>6. ProgressInv'
    BY <1>1, <2>1, <2>2 DEF ProgressInv, ThisBlock
  <2>7. QED
    BY <1>4, <2>3, <2>5, <2>6
<1>8. CASE op.kind = "program"
  <2>1. pc = "programming" /\ op.unit = addr /\ phase = "program"
    BY <1>2, <1>3, <1>8 DEF OperationInv, Waits, Idle
  <2>2. content[addr] = "erased"
    BY <1>2, <2>1 DEF ProgressInv
  <2>3. /\ op' = Idle /\ sr' = {"ready"} /\ locked' = locked
        /\ \A u \in Units : content'[u] = IF u = addr THEN DataOf(addr) ELSE content[u]
    BY <1>3, <1>5, <1>8, <2>1, <2>2 DEF ChipDone, Finish, Programmed
  <2>4. ReadyInv'
    BY <1>1, <1>5, <2>3 DEF ReadyInv, Idle
  <2>5. OperationInv'
    BY <1>1, <1>3, <2>1, <2>3 DEF OperationInv, ThisBlock, DataOf
  <2>6. ProgressInv'
    BY <1>1, <1>3, <2>1, <2>3 DEF ProgressInv, DataOf
  <2>7. QED
    BY <1>4, <2>4, <2>5, <2>6
<1>9. CASE op.kind = "buffer"
  <2>1. pc = "buffering" /\ op.unit = addr /\ phase = "program"
    BY <1>2, <1>3, <1>9 DEF OperationInv, Waits, Idle
  <2>2. /\ op'.kind = "filling" /\ op'.unit = addr
        /\ sr' = {"ready"} /\ content' = content /\ locked' = locked
    BY <1>3, <1>5, <1>9, <2>1 DEF ChipDone
  <2>3. ReadyInv'
    BY <1>1, <1>5, <2>2 DEF ReadyInv
  <2>4. OperationInv'
    BY <1>1, <2>1, <2>2 DEF OperationInv, ThisBlock, Waits
  <2>5. ProgressInv'
    BY <1>1, <2>1, <2>2 DEF ProgressInv, DataOf
  <2>6. QED
    BY <1>4, <2>3, <2>4, <2>5
<1>10. QED
  BY <1>6, <1>7, <1>8, <1>9 DEF ChipDone

\* flashWrite() starts with a chip that is ready and can be read.
LEMMA FaultlessCall ==
    ASSUME FullInv, Faultless, NEW n \in Files, flashWrite(n) PROVE Faultless'
<1> USE DEF Faultless
<1>1. /\ UNCHANGED <<content, locked, sr, op, mode, status>> /\ size' = n
      /\ pc = "idle" /\ result = "none" /\ ~ complained /\ op = Idle
  BY DEF flashWrite, chipVars, OutcomeInv, OperationInv, Waits
<1>2. ReadyInv'
  <2>1. pc' \notin Waits
    BY DEF flashWrite, Return, Waits
  <2>2. QED
    BY <1>1, <2>1 DEF ReadyInv
<1>3. CASE n > Total
  <2>1. pc' = "idle" /\ result' = "error" /\ addr' = addr
    BY <1>3 DEF flashWrite, Return
  <2>2. n \in Nat /\ Total \in Nat
    BY FilesAssumption, ChipSizes
  <2>3. QED
    BY <1>1, <1>2, <1>3, <2>1, <2>2
    DEF OperationInv, ProgressInv, ModeInv, OutcomeInv, Waits, Array
<1>4. CASE ~ (n > Total)
  <2>1. pc' = "check" /\ phase' = "erase" /\ addr' = 0 /\ result' = "none" /\ ~ complained'
    BY <1>1, <1>4 DEF flashWrite
  <2>2. blkaddr(0) = 0 /\ \A u \in Units : ~ (u < 0)
    BY BlockBelow, ChipSizes
  <2>3. ProgressInv'
    BY <2>1, <2>2 DEF ProgressInv, ThisBlock
  <2>4. QED
    BY <1>1, <1>2, <2>1, <2>3 DEF OperationInv, ModeInv, OutcomeInv, Waits, Array
<1>5. QED
  BY <1>3, <1>4

\* An idle chip tells whether the block is locked.
LEMMA FaultlessCheck == ASSUME FullInv, Faultless, CheckLock PROVE Faultless'
<1> USE DEF Faultless
<1>1. pc = "check" /\ op = Idle /\ sr = {"ready"} /\ addr \in Units
  BY AtHand DEF CheckLock, OperationInv, Waits, ReadyInv, Idle
<1>2. /\ UNCHANGED <<content, locked, op, size, rest, status, phase, addr, result, complained>>
      /\ pc' = IF ThisBlock \in locked THEN "unlock" ELSE Unlocked
  BY <1>1 DEF CheckLock, LockBits, Goto, ThisBlock
<1>3. phase \in {"erase", "program"}
  BY <1>1 DEF FullInv, WriteInv, LoopInv
<1>4. sr' = sr
  BY <1>1 DEF CheckLock, Cleared, Errors
<1>5. \A b \in Banks : b # bankaddr(addr) => mode'[b] = "array"
  <2>1. \A b \in Banks : mode[b] = "array"
    BY <1>1 DEF ModeInv, Array
  <2>2. mode \in [Banks -> {"array", "id", "status"}]
    BY DEF FullInv, RestTypeOK
  <2>3. QED
    BY <1>1, <2>1, <2>2 DEF CheckLock
<1>6. ReadyInv'
  BY <1>1, <1>2, <1>3, <1>4 DEF ReadyInv, Unlocked, Waits
<1>7. OperationInv'
  BY <1>1, <1>2, <1>3 DEF OperationInv, Unlocked, Waits, ThisBlock
<1>8. ProgressInv'
  BY <1>1, <1>2, <1>3 DEF ProgressInv, Unlocked, ThisBlock, DataOf
<1>9. ModeInv'
  BY <1>2, <1>3, <1>5 DEF ModeInv, Array, Unlocked
<1>10. OutcomeInv'
  BY <1>2 DEF OutcomeInv, FileUnits, DataOf
<1>11. QED
  BY <1>6, <1>7, <1>8, <1>9, <1>10

\* A command to an idle chip, or the data for the buffer it has found, is accepted:
\* the block is not locked.
LEMMA FaultlessCommand ==
    ASSUME FullInv, Faultless, rest # "single",
           unlockBlock \/ eraseBlock \/ programBuffer \/ WriteData
    PROVE  Faultless'
<1> USE DEF Faultless
<1>0. pc # "idle" /\ addr \in Units /\ result = "none"
  BY AtHand DEF unlockBlock, eraseBlock, programBuffer, WriteData
<1>1. /\ UNCHANGED <<content, locked, size, rest, phase, addr, result, complained>>
      /\ status' = sr' /\ pc' \in Waits
  BY DEF unlockBlock, eraseBlock, programBuffer, WriteData, Command, Goto, Waits
<1>2. ModeInv'
  <2>1. \A b \in Banks : b # bankaddr(addr) => mode'[b] = mode[b]
    <3>1. ReadMode(addr, "status")
      BY DEF unlockBlock, eraseBlock, programBuffer, WriteData, Command
    <3>2. mode \in [Banks -> {"array", "id", "status"}]
      BY DEF FullInv, RestTypeOK
    <3>3. QED
      BY <3>1, <3>2 DEF ReadMode
  <2>2. QED
    BY <1>1, <2>1 DEF ModeInv, Array, Waits
<1>3. OutcomeInv'
  BY <1>0, <1>1 DEF OutcomeInv
<1>4. CASE unlockBlock
  <2>1. pc = "unlock" /\ op = Idle /\ sr = {"ready"} /\ pc' = "unlocking"
    BY <1>4 DEF unlockBlock, Command, Goto, OperationInv, Waits, ReadyInv, Idle
  <2>2. op' = [kind |-> "unlock", unit |-> ThisBlock] /\ sr' = {}
    BY <1>4, <2>1 DEF unlockBlock, Start, ThisBlock, Errors
  <2>3. ReadyInv' /\ OperationInv' /\ ProgressInv'
    BY <1>1, <2>1, <2>2 DEF ReadyInv, OperationInv, ProgressInv, ThisBlock, Waits, DataOf
  <2>4. QED
    BY <1>2, <1>3, <2>3
<1>5. CASE eraseBlock
  <2>1. pc = "erase" /\ op = Idle /\ sr = {"ready"} /\ pc' = "erasing" /\ phase = "erase"
        /\ ThisBlock \notin locked
    BY <1>5 DEF eraseBlock, Command, Goto, OperationInv, Waits, ReadyInv, Idle, FullInv,
                WriteInv, LoopInv
  <2>2. ThisBlock = addr
    BY <1>0, <2>1 DEF ProgressInv
  <2>3. op' = [kind |-> "erase", unit |-> ThisBlock] /\ sr' = {}
    BY <1>5, <2>1, <2>2 DEF eraseBlock, Start, ThisBlock
  <2>4. ReadyInv' /\ OperationInv' /\ ProgressInv'
    BY <1>1, <2>1, <2>3 DEF ReadyInv, OperationInv, ProgressInv, ThisBlock, Waits
  <2>5. QED
    BY <1>2, <1>3, <2>4
<1>6. CASE programBuffer
  <2>1. pc = "buffer" /\ op = Idle /\ sr = {"ready"} /\ pc' = "buffering" /\ phase = "program"
        /\ ThisBlock \notin locked
    BY <1>6 DEF programBuffer, Command, Goto, OperationInv, Waits, ReadyInv, Idle, FullInv,
                WriteInv, LoopInv
  <2>2. op' = [kind |-> "buffer", unit |-> addr] /\ sr' = {}
    BY <1>6, <2>1 DEF programBuffer, Start
  <2>3. ReadyInv' /\ OperationInv' /\ ProgressInv'
    BY <1>1, <2>1, <2>2 DEF ReadyInv, OperationInv, ProgressInv, ThisBlock, Waits, DataOf
  <2>4. QED
    BY <1>2, <1>3, <2>3
<1>7. CASE WriteData
  <2>1. pc = "buffering" /\ "ready" \in status /\ pc' = "programming" /\ phase = "program"
        /\ ThisBlock \notin locked
    BY <1>7 DEF WriteData, Command, Goto, OperationInv, FullInv, WriteInv, LoopInv
  <2>2. op.kind = "filling" /\ op.unit = addr /\ sr = {"ready"}
    BY <2>1 DEF OperationInv, ReadyInv, Waits
  <2>3. op = [kind |-> "filling", unit |-> addr]
    BY <2>2 DEF FullInv, WriteInv, ShapeInv
  <2>4. op' = [kind |-> "program", unit |-> addr] /\ sr' = {}
    BY <1>7, <2>1, <2>2, <2>3 DEF WriteData, Fill, NoWords, ThisBlock
  <2>5. content[addr] = "erased"
    BY <1>0, <2>1 DEF ProgressInv
  <2>6. ReadyInv' /\ OperationInv'
    BY <1>1, <2>1, <2>4 DEF ReadyInv, OperationInv, ThisBlock, Waits
  <2>7. ProgressInv'
    BY <1>1, <2>1, <2>4, <2>5 DEF ProgressInv, DataOf
  <2>8. QED
    BY <1>2, <1>3, <2>6, <2>7
<1>8. QED
  BY <1>4, <1>5, <1>6, <1>7

\* A look at the status register.
LEMMA FaultlessPoll == ASSUME FullInv, Faultless, Poll PROVE Faultless'
<1>1. /\ UNCHANGED <<chipVars, pc, phase, size, rest, addr, result, complained>>
      /\ status' = sr
  BY DEF Poll
<1>2. ReadyInv'
  BY <1>1 DEF Faultless, ReadyInv, chipVars
<1>3. OperationInv' /\ ProgressInv'
  BY <1>1 DEF Faultless, OperationInv, ProgressInv, chipVars, ThisBlock, DataOf
<1>4. ModeInv' /\ OutcomeInv'
  BY <1>1 DEF Faultless, ModeInv, OutcomeInv, chipVars, Array, FileUnits, DataOf
<1>5. QED
  BY <1>2, <1>3, <1>4 DEF Faultless

\* A wait ends: the operation is over, and the bank is read again.
LEMMA FaultlessWait == ASSUME FullInv, Faultless, WaitEnds PROVE Faultless'
<1> USE DEF Faultless
<1>1. /\ UNCHANGED <<content, locked, op, size, rest, status>>
      /\ pc \in Waits \ {"buffering"} /\ "ready" \in status /\ pc # "idle"
  BY DEF WaitEnds, Unlocking, Erasing, Programming, Waits
<1>2. addr \in Units /\ addr \in Nat /\ size \in Nat /\ result = "none"
      /\ addr < size /\ size <= Total
      /\ phase \in {"erase", "program"}
      /\ (pc = "erasing" => phase = "erase") /\ (pc = "programming" => phase = "program")
  BY <1>1, AtHand DEF FullInv, WriteInv, LoopInv
<1>3. op = Idle /\ sr = {"ready"}
  BY <1>1 DEF ReadyInv, OperationInv, Waits, Idle
<1>4. status = {"ready"}
  BY <1>1 DEF ReadyInv
<1>5. resetBlock(addr)
  BY <1>4 DEF WaitEnds, Unlocking, Erasing, Programming
<1>6. sr' = {"ready"} /\ \A b \in Banks : mode'[b] = "array"
  <2>1. sr' = {"ready"}
    BY <1>3, <1>5 DEF resetBlock, Cleared, Errors
  <2>2. mode \in [Banks -> {"array", "id", "status"}]
        /\ \A b \in Banks : b # bankaddr(addr) => mode[b] = "array"
    BY DEF FullInv, RestTypeOK, ModeInv, Array
  <2>3. mode' = [mode EXCEPT ![bankaddr(addr)] = "array"]
    BY <1>3, <1>5 DEF resetBlock, ReadMode
  <2>4. QED
    BY <2>1, <2>2, <2>3
<1>7. ReadyInv' /\ ModeInv'
  BY <1>1, <1>3, <1>4, <1>6 DEF ReadyInv, ModeInv, Array, Idle
<1>8. CASE Unlocking
  <2>1. UNCHANGED <<phase, addr, result, complained>> /\ pc' \in {"erase", "buffer"}
        /\ pc = "unlocking"
    BY <1>8 DEF Unlocking, Goto, Unlocked
  <2>2. ThisBlock \notin locked
    BY <1>3, <2>1 DEF OperationInv, Idle
  <2>3. OperationInv' /\ ProgressInv' /\ OutcomeInv'
    BY <1>1, <1>2, <1>3, <2>1, <2>2
    DEF OperationInv, ProgressInv, OutcomeInv, ThisBlock, Waits, DataOf
  <2>4. QED
    BY <1>7, <2>3
<1>9. CASE Erasing
  <2> DEFINE next == addr + blksize(addr)
  <2>1. /\ pc = "erasing" /\ pc' = "check" /\ UNCHANGED <<result, complained>>
        /\ \/ next < size /\ addr' = next /\ phase' = "erase"
           \/ ~ (next < size) /\ addr' = 0 /\ phase' = "program"
    BY <1>2, <1>9 DEF Erasing, NextBlock
  <2>2. /\ ThisBlock = addr /\ blkaddr(addr) = addr
        /\ \A u \in Units : u < addr => content[u] = "erased"
    BY <1>2, <2>1 DEF ProgressInv, ThisBlock
  <2>3. \A u \in Block(addr) : content[u] = "erased"
    BY <1>3, <2>1, <2>2 DEF OperationInv, Idle
  <2>4. /\ next \in Nat /\ (next < Total => blkaddr(next) = next)
        /\ \A u \in Units : u < next => content[u] = "erased"
    BY <1>2, <2>2, <2>3, BlocksTile
  <2>5. ProgressInv'
    <3>1. CASE next < size /\ addr' = next /\ phase' = "erase"
      <4>1. next < Total
        BY <1>2, <2>4, <3>1, ChipSizes
      <4>2. QED
        BY <1>1, <2>1, <2>4, <3>1, <4>1 DEF ProgressInv, ThisBlock
    <3>2. CASE ~ (next < size) /\ addr' = 0 /\ phase' = "program"
      <4>1. \A u \in Units : u < size => content[u] = "erased"
        BY <1>2, <2>4, <3>2, ChipSizes
      <4>2. 0 \in Units /\ 0 < size /\ \A u \in Units : ~ (u < 0)
        BY <1>2, ChipSizes
      <4>3. QED
        BY <1>1, <2>1, <3>2, <4>1, <4>2 DEF ProgressInv
    <3>3. QED
      BY <2>1, <3>1, <3>2
  <2>6. OperationInv' /\ OutcomeInv'
    BY <1>1, <1>2, <1>3, <2>1 DEF OperationInv, OutcomeInv, Waits
  <2>7. QED
    BY <1>7, <2>5, <2>6
<1>10. CASE Programming
  <2>1. UNCHANGED <<phase, addr, result, complained>> /\ pc' = "verify" /\ pc = "programming"
    BY <1>4, <1>10 DEF Programming, Goto
  <2>2. content[addr] = DataOf(addr)
    BY <1>3, <2>1 DEF OperationInv, Idle
  <2>3. OperationInv' /\ ProgressInv' /\ OutcomeInv'
    BY <1>1, <1>2, <1>3, <2>1, <2>2
    DEF OperationInv, ProgressInv, OutcomeInv, ThisBlock, Waits, DataOf
  <2>4. QED
    BY <1>7, <2>3
<1>11. QED
  BY <1>8, <1>9, <1>10 DEF WaitEnds

\* The unit reads as it was written.
LEMMA FaultlessVerify == ASSUME FullInv, Faultless, Verify PROVE Faultless'
<1> USE DEF Faultless
<1>1. /\ pc = "verify" /\ phase = "program" /\ addr \in Units /\ addr \in Nat /\ size \in Nat
      /\ addr < size /\ size <= Total /\ result = "none" /\ ~ complained
  BY AtHand DEF Verify, FullInv, WriteInv, LoopInv, OutcomeInv
<1>2. /\ op = Idle /\ content[addr] = DataOf(addr)
      /\ \A u \in Units : u < addr => content[u] = DataOf(u)
      /\ \A u \in Units : addr < u /\ u < size => content[u] = "erased"
  BY <1>1 DEF OperationInv, ProgressInv, Waits
<1>3. ReadsNew(addr)
  BY <1>1, <1>2 DEF ReadsNew, ModeInv, Array, Banks
<1>4. /\ UNCHANGED <<chipVars, phase, size, rest, status>> /\ addr' = addr + 1 /\ ~ complained'
      /\ \/ addr' < size /\ pc' = "check" /\ result' = "none"
         \/ ~ (addr' < size) /\ pc' = "idle" /\ result' = "ok"
  BY <1>1, <1>3 DEF Verify
<1>5. UNCHANGED <<content, locked, sr, op, mode>>
  BY <1>4 DEF chipVars
<1>6. ReadyInv' /\ OperationInv'
  BY <1>1, <1>2, <1>4, <1>5 DEF ReadyInv, OperationInv, Waits
<1>7. ModeInv'
  BY <1>1, <1>4, <1>5 DEF ModeInv, Array
<1>8. \A u \in Units : u < addr + 1 => content[u] = DataOf(u)
  BY <1>1, <1>2, ChipSizes
<1>9. CASE addr' < size
  <2>1. addr + 1 \in Units /\ content[addr + 1] = "erased"
    BY <1>1, <1>2, <1>4, <1>9, ChipSizes DEF Units
  <2>2. \A u \in Units : addr + 1 < u /\ u < size => content[u] = "erased"
    BY <1>1, <1>2, ChipSizes
  <2>3. ProgressInv' /\ OutcomeInv'
    BY <1>1, <1>4, <1>5, <1>8, <1>9, <2>1, <2>2 DEF ProgressInv, OutcomeInv, DataOf
  <2>4. QED
    BY <1>6, <1>7, <2>3
<1>10. CASE ~ (addr' < size)
  <2>1. addr + 1 = size
    BY <1>1, <1>4, <1>10
  <2>2. ProgressInv' /\ OutcomeInv'
    BY <1>4, <1>5, <1>8, <1>10, <2>1 DEF ProgressInv, OutcomeInv, FileUnits, DataOf
  <2>3. QED
    BY <1>6, <1>7, <2>2
<1>11. QED
  BY <1>9, <1>10

\* Every step keeps types, shape and the invariant of a write without faults.
LEMMA FullKeeps == FullInv /\ [Next]_vars => FullInv'
<1> SUFFICES ASSUME FullInv, [Next]_vars PROVE FullInv'
  OBVIOUS
<1>1. WriteInv'
  BY StepKeeps DEF FullInv
<1>2. CASE UNCHANGED vars
  BY <1>1, <1>2
  DEF vars, chipVars, hostVars, FullInv, RestTypeOK, CleanInv, Faultless, ReadyInv,
      OperationInv, ProgressInv, ModeInv, OutcomeInv, ThisBlock, Array, FileUnits, DataOf
<1>3. CASE Host \/ ChipDone \/ ChipFails
  <2>1. RestTypeOK'
    BY <1>1, <1>3, HostTypes, ChipTypes
  <2>2. ASSUME ~ fault', rest' # "single" PROVE Faultless'
    <3>1. ~ fault /\ ~ ChipFails /\ ~ PollTimeout /\ rest # "single"
      BY <1>3, <2>2
      DEF Host, flashWrite, CheckLock, unlockBlock, eraseBlock, programBuffer, WriteData, Command,
          Poll, PollTimeout, WaitEnds, Verify, ChipDone, ChipFails, FullInv, RestTypeOK,
          WriteInv, LoopInv, hostVars
    <3>2. Faultless
      BY <3>1 DEF FullInv, CleanInv
    <3>3. QED
      BY <1>3, <3>1, <3>2, FaultlessChip, FaultlessCall, FaultlessCheck, FaultlessCommand,
         FaultlessPoll, FaultlessWait, FaultlessVerify
      DEF Host
  <2>3. QED
    BY <1>1, <2>1, <2>2 DEF FullInv, CleanInv
<1>4. QED
  BY <1>2, <1>3 DEF Next, Ended

\* Before the call nothing is wrong.
LEMMA InitFull == Init => FullInv
<1> SUFFICES ASSUME Init PROVE FullInv
  OBVIOUS
<1>1. RestTypeOK
  <2>1. locked \subseteq Blocks /\ sr \subseteq {"ready"} \cup Errors
    BY DEF Init
  <2>2. op.unit \in Units
    BY ChipSizes DEF Init, Idle
  <2>3. addr \in 0 .. Total /\ timeout \in 0 .. Timeout
    BY ChipSizes, TimeoutAssumption DEF Init
  <2>4. /\ mode \in [Banks -> {"array", "id", "status"}]
        /\ pc \in {"idle", "check", "unlock", "erase", "buffer", "verify"} \cup Waits
        /\ phase \in {"none", "erase", "program"}
        /\ size \in Files \cup {0} /\ rest \in Rests /\ status \subseteq {"ready"} \cup Errors
        /\ result \in {"none", "ok", "error"} /\ fault \in BOOLEAN
    BY DEF Init, Rests
  <2>5. QED
    BY <2>1, <2>2, <2>3, <2>4 DEF RestTypeOK
<1>2. Faultless
  BY DEF Init, Faultless, ReadyInv, OperationInv, ProgressInv, ModeInv, OutcomeInv, Idle, Waits,
         Array
<1>3. QED
  BY <1>1, <1>2, InitKeeps DEF FullInv, CleanInv

\* Types, loops, progress and the state of the chip, for every chip and file.
THEOREM FlashFullInvariant == FairSpec => []FullInv
BY InitFull, FullKeeps, PTL DEF FairSpec

\* The chip and the call are well-formed, what is not part of the file survives,
\* and with a chip that neither fails nor is late flashWrite() writes every word
\* of a file that fits, prints nothing and leaves the flash readable, unless the
\* last buffer of the file is a single byte.
THEOREM FlashCorrect == FairSpec => []FlashInv
<1>1. ASSUME FullInv PROVE FlashInv
  <2> USE <1>1 DEF FullInv
  <2>1. TypeOK
    BY DEF WriteInv, ShapeInv, RestTypeOK, TypeOK, Contents, Kinds
  <2>2. OutsideUntouched
    BY DEF WriteInv, ReachInv
  <2>3. WrittenWithoutFault
    <3> SUFFICES ASSUME result # "none", ~ fault, size <= Total, rest # "single"
                 PROVE  /\ result = "ok" /\ ~ complained
                        /\ \A u \in FileUnits :
                               content[u] = DataOf(u) /\ mode[bankaddr(u)] = "array"
      BY DEF WrittenWithoutFault
    <3>1. Faultless
      BY DEF CleanInv
    <3>2. result = "ok" /\ ~ complained /\ \A u \in FileUnits : content[u] = DataOf(u)
      BY <3>1 DEF Faultless, OutcomeInv
    <3>3. pc = "idle"
      BY DEF WriteInv, LoopInv
    <3>4. \A u \in FileUnits : mode[bankaddr(u)] = "array"
      BY <3>1, <3>3 DEF Faultless, ModeInv, Array, Banks, FileUnits
    <3>5. QED
      BY <3>2, <3>4
  <2>4. QED
    BY <2>1, <2>2, <2>3 DEF FlashInv
<1>2. QED
  BY <1>1, FlashFullInvariant, PTL
=============================================================================
