--------------------------- MODULE Microcontroller ---------------------------
(***************************************************************************)
(* Programming of the board's microcontroller over SPI: the class           *)
(* microcontroller, the tool ucctrl with any set of its options, and the    *)
(* check of the board test.                                                 *)
(*                                                                          *)
(* A job is a sequence of calls, and a call a sequence of steps: a write to *)
(* the reset bit, or a command, which is written to the SPI controller and  *)
(* then waited for.  External: the controller, which may be late, never     *)
(* ready, or get a wrong answer, and the microcontroller, which takes       *)
(* commands in programming mode only.                                       *)
(***************************************************************************)
EXTENDS Integers, Sequences

CONSTANTS Pages, PageSize,      \* flash of the microcontroller, in pages and words
          Sizes,                \* files: their sizes in bytes
          MaxPolls,             \* turns of a wait
          MaxJobs, MaxFaults    \* bounds; faults are kills, lost answers and full disks

ASSUME UcAssumption ==
    /\ Pages \in Nat \ {0} /\ PageSize \in Nat \ {0}
    /\ Sizes \subseteq Nat /\ MaxPolls \in Nat

VARIABLES
    resetN, spi,                \* reset bit; SPI controller: command, busy, answer
    progMode, buffer, flash,    \* microcontroller
    job, calls,                 \* the job, and its calls that are left
    at, phase, timeout,         \* next step of the first of them, and the wait in it
    dumped,                     \* bytes that the job has read
    jobs, faults,
    torn                        \* history: a job that erases was cut short, or its file too large

uc    == <<progMode, buffer, flash>>
local == <<job, calls, at, phase, timeout, dumped>>
vars  == <<resetN, spi, uc, local, jobs, faults, torn>>

Erased  == <<"erased">>
Garbage == <<"garbage">>
PageBytes == 2 * PageSize
Addresses == 0 .. Pages * PageBytes - 1
FileByte(n, i) == <<"byte", n, i>>

-----------------------------------------------------------------------------
(* Calls.                                                                   *)

Command(c)    == [do |-> "command", cmd |-> c, addr |-> 0, byte |-> Garbage]
At(c, addr)   == [Command(c) EXCEPT !.addr = addr]
set_reset(on) == [do |-> "reset", on |-> on]
enter_prog_mode       == Command("PROG_ENABLE")
load_extended_addr    == Command("EXT_ADDR")
read_device_signature == [i \in 1..3 |-> Command("READ_SIG")]

\* What is done in programming mode, and with the reset before and after it.
Session(commands) == <<set_reset(TRUE), enter_prog_mode>> \o commands \o <<set_reset(FALSE)>>

\* Byte b of a page, with the low one of each word first.
load_mem_page(n, page, b) ==
    [At(IF b % 2 = 0 THEN "PROG_LOW" ELSE "PROG_HIGH", b)
        EXCEPT !.byte = FileByte(n, page * PageBytes + b)]
prog_mem_page(page) == At("WRITE_PAGE", page * PageBytes)

\* Mutant of PagesOf: the rest of the file is left out.
WholePages(n) == n \div PageBytes

\* One more page than the whole ones of a file of n bytes, if it has a rest.
PagesOf(n) == (n + PageBytes - 1) \div PageBytes
WordsOf(n, page) ==
    LET rest == n - page * PageBytes
    IN  (IF rest < PageBytes THEN rest ELSE PageBytes) \div 2

\* The i-th turn of loops that take PageBytes + 1 turns for a page.
PageAt(i) == (i - 1) \div (PageBytes + 1)
ByteAt(i) == (i - 1) % (PageBytes + 1)

\* Each page is loaded and then written.
ProgramPages(n) ==
    [i \in 1 .. 2 * (n \div 2) + PagesOf(n) |->
        IF ByteAt(i) < 2 * WordsOf(n, PageAt(i)) THEN load_mem_page(n, PageAt(i), ByteAt(i))
        ELSE prog_mem_page(PageAt(i))]

\* A dump: each page is read and then written to the file.
read_mem_page(a) == At(IF a % 2 = 0 THEN "READ_LOW" ELSE "READ_HIGH", a)
DumpPages ==
    [i \in 1 .. Pages * (PageBytes + 1) |->
        IF ByteAt(i) < PageBytes THEN read_mem_page(PageAt(i) * PageBytes + ByteAt(i))
        ELSE [do |-> "write"]]

\* The steps of a call; n is the size of the job's file.
StepsOf(call, n) ==
    CASE call = "configure_spi" -> <<[do |-> "configure"]>>
      [] call = "earse_chip"    -> Session(<<Command("ERASE_CHIP")>>)
      [] call = "reset"         -> <<set_reset(TRUE), set_reset(FALSE)>>
      [] call = "status"        -> Session(read_device_signature)
      [] call = "program"       -> Session(<<load_extended_addr>> \o ProgramPages(n))
      [] call = "dump"          -> Session(<<load_extended_addr>> \o DumpPages)
      [] OTHER                  -> <<[do |-> "abort"]>>

-----------------------------------------------------------------------------
(* Jobs.                                                                    *)

\* Files of an odd size are rejected before anything is done.
programFromFile(n) ==
    IF n % 2 = 1 THEN <<"abort">> ELSE <<"configure_spi", "earse_chip", "program">>

NoFile == 0 - 1
ucctrl(options, n) ==
    LET If(o, call)  == IF o \cap options # {} THEN <<call>> ELSE <<>>
        With(call)   == IF n = NoFile THEN "abort" ELSE call
    IN  <<"configure_spi">> \o If({"e", "p"}, "earse_chip") \o If({"r"}, "reset")
            \o If({"s"}, "status") \o If({"p"}, With("program")) \o If({"d"}, With("dump"))

checkMicrocontroller(n) ==
    <<"configure_spi", "status">> \o IF n = NoFile THEN <<>> ELSE programFromFile(n)

Files    == Sizes \cup {NoFile}
Options  == SUBSET {"e", "r", "s", "p", "d"}
Nothing  == <<"none", {}, NoFile>>
JobNames == {<<"ucctrl", o, NoFile>> : o \in Options}
            \cup {<<"ucctrl", o, n>> : o \in {x \in Options : x \cap {"p", "d"} # {}}, n \in Sizes}
            \cup {<<"checkMicrocontroller", {}, n>> : n \in Files}
Calls(j) == CASE j[1] = "ucctrl" -> ucctrl(j[2], j[3])
              [] j[1] = "checkMicrocontroller" -> checkMicrocontroller(j[3])
              [] OTHER -> <<>>

Has(cs, call) == \E k \in DOMAIN cs : cs[k] = call
Erases(j)     == Has(Calls(j), "earse_chip")

Done  == calls = <<>>
Steps == StepsOf(Head(calls), job[3])
step  == Steps[at]
Doing(do) == ~Done /\ step.do = do

-----------------------------------------------------------------------------
NoCommand == Command("none")

Init ==
    /\ resetN = TRUE
    /\ spi = [busy |-> FALSE, cmd |-> NoCommand, answer |-> Garbage]
    /\ progMode = FALSE
    /\ buffer = [i \in 0..PageBytes-1 |-> Erased]
    /\ flash = [a \in Addresses |-> <<"old">>]
    /\ job = Nothing /\ calls = <<>> /\ at = 1 /\ phase = "send" /\ timeout = 0 /\ dumped = <<>>
    /\ jobs = 0 /\ faults = 0 /\ torn = FALSE

(* The microcontroller.  It leaves programming mode with the reset, and     *)
(* forgets what was loaded.  Only erased memory takes what is written.      *)
Reset(on) ==
    /\ resetN' = ~on
    /\ progMode' = (progMode /\ on)
    /\ buffer' = IF on THEN buffer ELSE [i \in DOMAIN buffer |-> Erased]

Program1(base) ==
    [a \in Addresses |->
        LET i == a - (base % (Pages * PageBytes)) IN
        IF i \notin DOMAIN buffer THEN flash[a]
        ELSE IF buffer[i] = Erased THEN flash[a]
        ELSE IF flash[a] = Erased THEN buffer[i] ELSE Garbage]

Fault == faults < MaxFaults /\ faults' = faults + 1

SpiEnds ==
    /\ spi.busy
    /\ LET c == spi.cmd
           Ends(answer) == spi' = [spi EXCEPT !.busy = FALSE, !.answer = answer]
       IN
       \/ /\ c.cmd = "PROG_ENABLE" /\ ~resetN
          /\ progMode' = TRUE /\ Ends(<<"PROG_ENABLE">>)
          /\ UNCHANGED <<buffer, flash, faults>>
       \/ /\ c.cmd = "PROG_ENABLE" /\ ((resetN /\ UNCHANGED faults) \/ (~resetN /\ Fault))
          /\ Ends(Garbage) /\ UNCHANGED uc
       \/ /\ c.cmd \notin {"PROG_ENABLE"} /\ ~progMode
          /\ Ends(Garbage) /\ UNCHANGED <<uc, faults>>
       \/ /\ c.cmd \notin {"PROG_ENABLE"} /\ progMode
          /\ flash' = CASE c.cmd = "ERASE_CHIP" -> [a \in Addresses |-> Erased]
                        [] c.cmd = "WRITE_PAGE" -> Program1(c.addr)
                        [] OTHER -> flash
          /\ buffer' = CASE c.cmd \in {"PROG_LOW", "PROG_HIGH"} ->
                             [buffer EXCEPT ![c.addr] = c.byte]
                         [] c.cmd = "WRITE_PAGE" -> [i \in DOMAIN buffer |-> Erased]
                         [] OTHER -> buffer
          /\ Ends(IF c.cmd \in {"READ_LOW", "READ_HIGH"} THEN flash[c.addr] ELSE <<c.cmd>>)
          /\ UNCHANGED <<progMode, faults>>
    /\ UNCHANGED <<resetN, local, jobs, torn>>

-----------------------------------------------------------------------------
(* The job.                                                                 *)

Begin(j) ==
    /\ Done /\ jobs < MaxJobs
    /\ job' = j /\ calls' = Calls(j) /\ at' = 1 /\ phase' = "send" /\ timeout' = 0 /\ dumped' = <<>>
    /\ jobs' = jobs + 1
    /\ UNCHANGED <<resetN, spi, uc, faults, torn>>

\* An exception, abort() or a kill: nothing is put back.
End ==
    /\ job' = Nothing /\ calls' = <<>> /\ at' = 1 /\ phase' = "send" /\ dumped' = <<>>
    /\ torn' = (torn \/ Erases(job))
    /\ UNCHANGED timeout

\* On to the next step, or to the first one of the next call.
Past ==
    /\ IF at = Len(Steps) THEN calls' = Tail(calls) /\ at' = 1 ELSE at' = at + 1 /\ UNCHANGED calls
    /\ phase' = "send"
    /\ UNCHANGED <<job, timeout>>

\* The whole control register is written, the bit of the reset with it.
ConfigureSpi ==
    /\ Doing("configure")
    /\ Reset(TRUE)
    /\ Past
    /\ UNCHANGED <<spi, flash, dumped, jobs, faults, torn>>

SetReset ==
    /\ Doing("reset")
    /\ Reset(step.on)
    /\ Past
    /\ UNCHANGED <<spi, flash, dumped, jobs, faults, torn>>

\* A controller that is still busy ignores the command.
SendCommand ==
    /\ Doing("command") /\ phase = "send"
    /\ spi' = IF spi.busy THEN spi ELSE [busy |-> TRUE, cmd |-> step, answer |-> Garbage]
    /\ phase' = "wait" /\ timeout' = MaxPolls
    /\ UNCHANGED <<resetN, uc, job, calls, at, dumped, jobs, faults, torn>>

CountDown == timeout - 1
TimedOut  == timeout = 0

Poll ==
    /\ Doing("command") /\ phase = "wait" /\ spi.busy
    /\ IF TimedOut THEN End
       ELSE timeout' = CountDown /\ UNCHANGED <<job, calls, at, phase, dumped, torn>>
    /\ UNCHANGED <<resetN, spi, uc, jobs, faults>>

\* Mutant of ProgModeFailed: the echo is not looked at.
NeverFailed == FALSE
\* More pages than the flash has.
PastEnd == step.cmd = "WRITE_PAGE" /\ step.addr \notin Addresses

ProgModeFailed == step.cmd = "PROG_ENABLE" /\ spi.answer # <<"PROG_ENABLE">>

Answered ==
    /\ Doing("command") /\ phase = "wait" /\ ~spi.busy
    /\ IF ProgModeFailed THEN End
       ELSE /\ dumped' = IF step.cmd \in {"READ_LOW", "READ_HIGH"} THEN Append(dumped, spi.answer)
                       ELSE dumped
            /\ torn' = ((torn /\ step.cmd # "ERASE_CHIP") \/ PastEnd)
            /\ Past
    /\ UNCHANGED <<resetN, spi, uc, jobs, faults>>

\* A page goes to the dump file, or the loop is left for its last step.
WriteDump ==
    /\ Doing("write")
    /\ \/ Past /\ UNCHANGED faults
       \/ Fault /\ at' = Len(Steps) /\ UNCHANGED <<job, calls, phase, timeout>>
    /\ UNCHANGED <<resetN, spi, uc, dumped, jobs, torn>>

Abort ==
    /\ Doing("abort")
    /\ End
    /\ UNCHANGED <<resetN, spi, uc, jobs, faults>>

Kill ==
    /\ ~Done /\ Fault
    /\ End
    /\ UNCHANGED <<resetN, spi, uc, jobs>>

Step == ConfigureSpi \/ SetReset \/ SendCommand \/ Poll \/ Answered \/ WriteDump \/ Abort

Next == SpiEnds \/ (\E j \in JobNames : Begin(j)) \/ Step \/ Kill

Spec == Init /\ [][Next]_vars

-----------------------------------------------------------------------------
(* Properties.                                                              *)

\* A job's steps, wait and bytes read stay in range, and the microcontroller is
\* in programming mode only while it is held in reset.
TypeOK ==
    /\ resetN \in BOOLEAN /\ progMode \in BOOLEAN /\ torn \in BOOLEAN
    /\ job \in JobNames \cup {Nothing}
    /\ IF Done THEN at = 1 ELSE at \in 1..Len(Steps)
    /\ timeout \in 0..MaxPolls
    /\ Len(dumped) <= Pages * PageBytes
    /\ progMode => ~resetN

\* What the flash holds after a file of n bytes: its whole words, the rest erased.
Image(n) == [a \in Addresses |-> IF a < 2 * (n \div 2) THEN FileByte(n, a) ELSE Erased]
Whole == \/ \A a \in Addresses : flash[a] = <<"old">>
         \/ \A a \in Addresses : flash[a] = Erased
         \/ \E n \in Sizes : flash = Image(n)
Fits(j) == j[3] <= Pages * PageBytes

\* The microcontroller is never started on a half-written flash: the end of the
\* erase starts it on an erased one (microcontroller.cpp:218-219), programming
\* holds it in reset from the first page to the last (microcontroller.cpp:286-322),
\* and a job that stops half-way, for whatever reason, leaves it there.
\* Exempt: what is started after that one and does not erase first,
\* and a file larger than the flash.
StartsOnWholeImage ==
    [][resetN' /\ ~resetN => Whole \/ torn]_vars

\* What a dump holds is what the flash holds, byte for byte: reads that are not
\* answered in programming mode never get into it.
DumpIsFlash == \A i \in DOMAIN dumped : dumped[i] = flash[i - 1]

\* A job with anything to do, if it ends as intended, leaves the
\* microcontroller running and out of programming mode; and if it was to
\* program a file, on that file.
RunsAfterwards ==
    Done /\ Len(Calls(job)) > 1 =>
        /\ resetN /\ ~progMode
        /\ Has(Calls(job), "program") /\ Fits(job) => flash = Image(job[3])

\* At every moment: the job is well-formed, a dump is what the flash holds, and
\* a job that ends as intended leaves the microcontroller running.
UcInv == TypeOK /\ DumpIsFlash /\ RunsAfterwards

=============================================================================
