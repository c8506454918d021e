------------------------------- MODULE Flash -------------------------------
(***************************************************************************)
(* flashWrite() of src/src/flash.cpp: a file is written to a flash chip by    *)
(* unlocking and erasing its blocks, then unlocking, programming and reading *)
(* back one buffer after the other, with a bounded number of polls of the    *)
(* status register in every step.                                           *)
(*                                                                          *)
(* Addresses are counted in units of the smallest block; the buffers of a    *)
(* unit are one.  The flash takes 16 bit words and a file has bytes, so what  *)
(* is left over in the last unit is kept apart.  The chip is external: it works on one operation at a time, *)
(* ignores commands while it is busy, keeps error flags until they are       *)
(* cleared, and has one read mode for each bank.                            *)
(***************************************************************************)
EXTENDS Integers

CONSTANTS
    MainBlocks, MainUnits,   \* main blocks, and units of each (127, 4)
    UpperBlocks,             \* blocks of one unit at the upper end (4)
    BankUnits,               \* units of a bank (32)
    Timeout,                 \* CFG_FLASH_TIMEOUT: polls of one wait
    Files                    \* file sizes in units

ASSUME GeometryAssumption ==
    /\ MainBlocks \in Nat \ {0} /\ UpperBlocks \in Nat
    /\ MainUnits \in Nat \ {0} /\ BankUnits \in Nat \ {0}
    /\ BankUnits % MainUnits = 0
ASSUME TimeoutAssumption == Timeout \in Nat \ {0}
ASSUME FilesAssumption == Files \subseteq Nat \ {0}

VARIABLES
    \* the chip
    content,     \* of each unit
    locked,      \* blocks that are locked
    sr,          \* flags set in the status register
    op,          \* operation in progress
    mode,        \* what a read of each bank returns
    \* flashWrite()
    pc, phase,   \* what it does, and in which of its two loops
    size, rest,  \* units of the file, and how the last of them ends
    addr,        \* current_addr of erase(), addr of flashWrite()
    status, timeout,
    result,      \* what flashWrite() returned
    complained,  \* it has printed a message
    \* history
    fault        \* the chip has failed, or has been too slow

chipVars == <<content, locked, sr, op, mode>>
hostVars == <<pc, phase, size, rest, addr, status, timeout, result, complained>>
vars     == <<chipVars, hostVars, fault>>

MainSize == MainBlocks * MainUnits
Total    == MainSize + UpperBlocks
Units    == 0 .. Total-1

\* getFlashArchitecture(): the block and the bank of an address.
blkaddr(u) == IF u < MainSize THEN u - (u % MainUnits) ELSE u
blksize(u) == IF u < MainSize THEN MainUnits ELSE 1
bankaddr(u) == u - (u % BankUnits)
Block(b)   == {u \in Units : blkaddr(u) = b}
Blocks     == {blkaddr(u) : u \in Units}
Banks      == {bankaddr(u) : u \in Units}

Idle   == [kind |-> "none", unit |-> 0]
Errors == {"erase_error", "program_error", "lock_error"}

Init ==
    /\ content = [u \in Units |-> "old"]
    /\ locked \in SUBSET Blocks
    /\ sr = {"ready"} /\ op = Idle
    /\ mode = [b \in Banks |-> "array"]
    /\ pc = "idle" /\ phase = "none" /\ size = 0 /\ rest = "even" /\ addr = 0
    /\ status = {} /\ timeout = Timeout
    /\ result = "none" /\ complained = FALSE /\ fault = FALSE

-----------------------------------------------------------------------------
(* The end of a file.  A buffer is programmed and read back as bytes_read/2    *)
(* words: of an "odd" file the last byte stays behind, and of a file whose     *)
(* last buffer is a "single" byte nothing of that buffer is written.          *)
Rests == {"even", "odd", "single"}

NoWords(u) == rest = "single" /\ u = size-1
DataOf(u)  == IF rest = "odd" /\ u = size-1 THEN "short" ELSE "new"

-----------------------------------------------------------------------------
(* The chip: one operation at a time.  "buffer" looks for a free buffer,     *)
(* "filling" is a buffer that waits for its data.                           *)

Finish(flags, contents) ==
    /\ op' = Idle
    /\ sr' = sr \cup {"ready"} \cup flags
    /\ content' = contents

\* Programming clears bits only: it needs an erased unit.
Programmed(u) == [content EXCEPT ![u] = IF @ = "erased" THEN DataOf(u) ELSE "bad"]
Erased(b)     == [u \in Units |-> IF u \in Block(b) THEN "erased" ELSE content[u]]
Spoilt(us)    == [u \in Units |-> IF u \in us THEN "bad" ELSE content[u]]

ChipDone ==
    /\ \/ op.kind = "erase" /\ Finish({}, Erased(op.unit)) /\ UNCHANGED locked
       \/ op.kind = "program" /\ Finish({}, Programmed(op.unit)) /\ UNCHANGED locked
       \/ op.kind = "unlock" /\ Finish({}, content) /\ locked' = locked \ {op.unit}
       \/ /\ op.kind = "buffer"
          /\ op' = [op EXCEPT !.kind = "filling"] /\ sr' = sr \cup {"ready"}
          /\ UNCHANGED <<content, locked>>
    /\ UNCHANGED <<mode, hostVars, fault>>

\* A block that is worn out, or locked down so that it cannot be unlocked.
ChipFails ==
    /\ \/ op.kind = "erase" /\ Finish({"erase_error"}, Spoilt(Block(op.unit)))
       \/ op.kind = "program" /\ Finish({"program_error"}, Spoilt({op.unit}))
       \/ op.kind = "unlock" /\ Finish({"lock_error"}, content)
    /\ fault' = TRUE
    /\ UNCHANGED <<locked, mode, hostVars>>

\* A command starts an operation; it is ignored by a busy chip, and refused for
\* a locked block.  unlockBlock() clears the error flags first.
Start(kind, u) ==
    IF op # Idle THEN UNCHANGED <<op, sr>>
    ELSE IF kind \in {"erase", "program"} /\ blkaddr(u) \in locked
         THEN sr' = sr \cup {"ready", "lock_error"} /\ UNCHANGED op
         ELSE /\ sr' = (IF kind = "unlock" THEN sr \ Errors ELSE sr) \ {"ready"}
              /\ op' = [kind |-> kind, unit |-> u]

\* The data of a buffer, and CONFIRM: a chip that has no buffer waiting for this
\* block takes them for an invalid command sequence.
Fill(u) ==
    IF op = [kind |-> "filling", unit |-> u]
    THEN IF blkaddr(u) \in locked
         THEN sr' = sr \cup {"lock_error", "program_error"} /\ op' = Idle
         ELSE sr' = sr \ {"ready"} /\ op' = [op EXCEPT !.kind = "program"]
    ELSE IF op.kind \in {"none", "filling"}
         THEN sr' = sr \cup {"erase_error", "program_error"} /\ op' = Idle
         ELSE UNCHANGED <<sr, op>>

\* The word count of no word is 0xffff, and CONFIRM comes instead of the data: an
\* invalid command sequence, or the chip waits for the data still.
FillNothing ==
    \/ op.kind \in {"none", "filling"} /\ op' = Idle
       /\ sr' = sr \cup {"erase_error", "program_error"}
    \/ UNCHANGED <<sr, op>>

\* READ_STATUS, READ_ARRAY and the commands that imply the former.
ReadMode(u, m) == mode' = IF op = Idle THEN [mode EXCEPT ![bankaddr(u)] = m] ELSE mode

\* clearStatusRegister()
Cleared == IF op = Idle THEN sr \ Errors ELSE sr

\* resetBlock()
resetBlock(u) == sr' = Cleared /\ ReadMode(u, "array")

-----------------------------------------------------------------------------
(* flashWrite().  The first loop (phase "erase") takes addr from block to     *)
(* block, the second ("program") from unit to unit.                         *)

Return(r, printed) ==
    /\ pc' = "idle" /\ result' = r
    /\ complained' = (complained \/ printed)
    /\ UNCHANGED <<phase, addr>>

Goto(to) == pc' = to /\ UNCHANGED <<phase, addr, result, complained>>

flashWrite(n) ==
    /\ pc = "idle" /\ result = "none"
    /\ size' = n /\ rest' \in Rests
    /\ IF n > Total
       THEN Return("error", TRUE)
       ELSE /\ pc' = "check" /\ phase' = "erase" /\ addr' = 0
            /\ UNCHANGED <<result, complained>>
    /\ UNCHANGED <<chipVars, status, timeout, fault>>

\* programBuffer(), eraseBlock() or unlockBlock() returned a negative value:
\* erase() passes it on, flashWrite() leaves its loop and returns 0.
Fail == Return(IF phase = "erase" THEN "error" ELSE "ok", TRUE)

\* Mutant of NextBlock: one block more when the file ends at the end of a block.
NextBlockInclusive ==
    LET next == addr + blksize(addr) IN
    /\ pc' = "check"
    /\ IF next <= size /\ next < Total THEN addr' = next /\ UNCHANGED phase
                       ELSE addr' = 0 /\ phase' = "program"
    /\ UNCHANGED <<result, complained>>

\* The next turn of the loop of erase(), or the start of the second loop.
NextBlock ==
    LET next == addr + blksize(addr) IN
    /\ pc' = "check"
    /\ IF next < size THEN addr' = next /\ UNCHANGED phase
                      ELSE addr' = 0 /\ phase' = "program"
    /\ UNCHANGED <<result, complained>>

\* getBlockLockConfiguration(): a busy chip does not answer with the
\* configuration.  Block 0, not this block, is returned to read array mode.
LockBits == IF op = Idle THEN {blkaddr(addr) \in locked} ELSE BOOLEAN
Unlocked == IF phase = "erase" THEN "erase" ELSE "buffer"

CheckLock ==
    /\ pc = "check"
    /\ \E l \in LockBits : Goto(IF l THEN "unlock" ELSE Unlocked)
    /\ sr' = Cleared
    /\ mode' = IF op = Idle
               THEN [[mode EXCEPT ![bankaddr(addr)] = "id"] EXCEPT ![0] = "array"]
               ELSE mode
    /\ UNCHANGED <<content, locked, op, size, rest, status, timeout, fault>>

\* What follows the command that starts an operation: the first look at the status.
Command(to) ==
    /\ Goto(to)
    /\ ReadMode(addr, "status")
    /\ status' = sr' /\ timeout' = Timeout
    /\ UNCHANGED <<content, locked, size, rest, fault>>

unlockBlock == pc = "unlock" /\ Start("unlock", blkaddr(addr)) /\ Command("unlocking")
eraseBlock  == pc = "erase" /\ Start("erase", blkaddr(addr)) /\ Command("erasing")
programBuffer == pc = "buffer" /\ Start("buffer", addr) /\ Command("buffering")
WriteData ==
    /\ pc = "buffering" /\ "ready" \in status
    /\ IF NoWords(addr) THEN FillNothing ELSE Fill(addr)
    /\ Command("programming")

\* Another turn of the polling loop.
Waits == {"unlocking", "erasing", "buffering", "programming"}

\* Mutant of Poll: the count is not kept.
PollForever ==
    /\ pc \in Waits /\ "ready" \notin status
    /\ timeout > 1
    /\ status' = sr /\ timeout' = timeout
    /\ UNCHANGED <<chipVars, pc, phase, size, rest, addr, result, complained, fault>>

Poll ==
    /\ pc \in Waits /\ "ready" \notin status
    /\ timeout > 1
    /\ status' = sr /\ timeout' = timeout - 1
    /\ UNCHANGED <<chipVars, pc, phase, size, rest, addr, result, complained, fault>>

\* What follows a return of 0.
Succeed ==
    CASE pc = "unlocking" -> Goto(Unlocked)
      [] pc = "erasing" -> NextBlock
      [] OTHER -> Goto("verify")

\* The last turn: -status is returned whatever it says, which is 0 when the
\* status is.
PollTimeout ==
    /\ pc \in Waits /\ "ready" \notin status
    /\ timeout = 1
    /\ status' = sr /\ timeout' = 0
    /\ IF sr # {} THEN Fail ELSE Succeed
    /\ fault' = TRUE
    /\ UNCHANGED <<chipVars, size, rest>>

\* unlockBlock() and eraseBlock() look at no other flag.
Unlocking == pc = "unlocking" /\ "ready" \in status /\ resetBlock(addr) /\ Goto(Unlocked)
Erasing   == pc = "erasing" /\ "ready" \in status /\ resetBlock(addr) /\ NextBlock
Programming ==
    /\ pc = "programming" /\ "ready" \in status
    /\ IF status # {"ready"} THEN Fail /\ UNCHANGED <<sr, mode>>
                             ELSE resetBlock(addr) /\ Goto("verify")
WaitEnds ==
    /\ Unlocking \/ Erasing \/ Programming
    /\ UNCHANGED <<content, locked, op, size, rest, status, timeout, fault>>

\* Mutant of ReadsNew: only asks whether the unit was written.
ReadsWritten(u) == NoWords(u) \/ (op = Idle /\ content[u] # "erased")

\* The words of the unit read as they were written; of no word there is nothing
\* to compare.
ReadsNew(u) ==
    \/ NoWords(u)
    \/ op = Idle /\ mode[bankaddr(u)] = "array" /\ content[u] = DataOf(u)

\* The unit is read back: a difference is printed, and the loop goes on.
Verify ==
    /\ pc = "verify"
    /\ complained' = (complained \/ ~ReadsNew(addr))
    /\ addr' = addr + 1
    /\ IF addr' < size THEN pc' = "check" /\ UNCHANGED result
                       ELSE pc' = "idle" /\ result' = "ok"
    /\ UNCHANGED <<chipVars, phase, size, rest, status, timeout, fault>>

Host ==
    \/ \E n \in Files : flashWrite(n)
    \/ CheckLock \/ unlockBlock \/ eraseBlock \/ programBuffer \/ WriteData
    \/ Poll \/ PollTimeout \/ WaitEnds \/ Verify

\* A file is written once.
Ended == result # "none" /\ op.kind \in {"none", "filling"} /\ UNCHANGED vars

Next == Host \/ ChipDone \/ ChipFails \/ Ended

\* The host takes its steps; nothing is assumed of the chip.
FairSpec == Init /\ [][Next]_vars /\ WF_vars(Host)

-----------------------------------------------------------------------------
TypeOK ==
    /\ content \in [Units -> {"old", "erased", "new", "short", "bad"}]
    /\ locked \subseteq Blocks
    /\ sr \subseteq {"ready"} \cup Errors
    /\ op \in [kind : {"none", "unlock", "erase", "buffer", "filling", "program"}, unit : Units]
    /\ mode \in [Banks -> {"array", "id", "status"}]
    /\ pc \in {"idle", "check", "unlock", "erase", "buffer", "verify"} \cup Waits
    /\ phase \in {"none", "erase", "program"}
    /\ size \in Files \cup {0} /\ rest \in Rests /\ addr \in 0 .. Total
    /\ status \subseteq {"ready"} \cup Errors /\ timeout \in 0 .. Timeout
    /\ result \in {"none", "ok", "error"}
    /\ complained \in BOOLEAN /\ fault \in BOOLEAN

FileUnits == {u \in Units : u < size}

\* All the words of a unit of the file are in the flash.
Written(u) == NoWords(u) \/ content[u] = DataOf(u)

\* The words of a file are not lost in silence: when flashWrite() is over, every
\* whole word is in the flash, or a message was printed.  Erase errors are not
\* looked at and a wait that runs out may count as a success; the read-back has
\* to catch what follows from either.  The last byte of an odd file is no word:
\* see EveryByteWritten.
NoSilentLoss ==
    result # "none" /\ ~complained => \A u \in FileUnits : Written(u)

\* A return of 0 without a message means that the whole file is in the flash, as
\* the interface promises: "-1 on error, 0 on success".  flashWrite() breaks this
\* for every file of odd length.
EveryByteWritten ==
    result = "ok" /\ ~complained => \A u \in FileUnits : content[u] = "new"

\* Whatever fails or is late, only the blocks the file reaches into are erased
\* and only units of the file are programmed: the other images a flash holds
\* survive.  A late operation may still run after the call has returned.
OutsideUntouched ==
    \A u \in Units :
        /\ blkaddr(u) >= size => content[u] = "old"
        /\ content[u] \in {"new", "short"} => u < size

\* With a chip that neither fails nor is late, the words of a file that fits are
\* written, without a message, and the flash can be read afterwards.  Exempt is
\* the file that ends in a buffer of a single byte, which sends the chip a word
\* count it has no buffer for.
WrittenWithoutFault ==
    result # "none" /\ ~fault /\ size <= Total /\ rest # "single" =>
        /\ result = "ok" /\ ~complained
        /\ \A u \in FileUnits : content[u] = DataOf(u) /\ mode[bankaddr(u)] = "array"

\* flashWrite() returns, though the chip may never be ready again.
Returns == pc # "idle" ~> pc = "idle"

\* At every moment: the chip and the call are well-formed, what is not part of
\* the file survives, and without faults flashWrite() does what it was asked.
FlashInv == TypeOK /\ OutsideUntouched /\ WrittenWithoutFault

=============================================================================
