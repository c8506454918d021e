------------------------------- MODULE I2cBus -------------------------------
(***************************************************************************)
(* The I2C bus of the board as sysmon drives it, with the programs that use *)
(* it: refclkgenctrl and configureRefclk() reset and retune the oscillator  *)
(* of the transceivers (refclk), qsfpctrl reads the optical modules, other  *)
(* tools read the SPD memory of the DDR3 modules.                           *)
(*                                                                          *)
(* A program is a sequence of transfers.  A transfer is started through two *)
(* registers of the board, which all processes share: the operation (memory *)
(* address and data) and the configuration (chain, command).  External: the *)
(* board carries the transfer out, the oscillator executes what is written  *)
(* to its registers.  Frequencies are in units of 10 kHz.                   *)
(***************************************************************************)
EXTENDS Integers, SequencesExt, TLC

CONSTANTS Process,      \* programs under way at a time
          Programs, Freqs,      \* what they do; frequencies asked for
          Modules,              \* chains that have an optical module
          MaxJobs, MaxKills, MaxErrors  \* bounds

VARIABLES
    operation, config,  \* the two registers, and whose the byte in the first one is
    dco, flags, frozen, \* oscillator: registers 13 to 18, 135, 137
    page,       \* page that each optical module shows
    output,     \* the frequency that the transceivers get
    stored,     \* the frequency kept in the firmware
    run,        \* each process: job, next step, phase of the transfer
    data, opts, \* each process: bytes it has read, oscillator settings
    jobs, kills, errors,
    torn        \* history: the last program on the oscillator did not complete

device == <<dco, flags, frozen, page, output>>
local  == <<data, opts>>
counters == <<jobs, kills, errors>>
vars == <<operation, config, device, stored, run, local, counters, torn>>

-----------------------------------------------------------------------------
(* Oscillator settings.                                                     *)

DEFAULT_FOUT == 21250
HsDivs == {4, 5, 6, 7, 9, 11}
N1s    == <<1>> \o [k \in 1..64 |-> 2 * k]
Dividers == [hs_div : HsDivs, n1 : Range(N1s)]
fDCO(f, d) == f * d.hs_div * d.n1
InRange(x) == x \in 485000..567000

\* No settings yet.  RFREQ is kept in two forms: the one for the registers and
\* the one that the output is computed from; each stands for the DCO frequency.
Unassigned == [hs_div |-> 0, n1 |-> 0, rfreq_int |-> 0, rfreq_float |-> 0]

\* Settings that calcNewOpts() returns without assigning them: what the stack
\* holds, each member for itself.  These values stand for all.
Unset == 0 - 3
OnStack == [hs_div : {4, 11}, n1 : {1, 128}, rfreq_int : {Unset}, rfreq_float : {0, 567000}]

Better(new, last) == new < last

Found(f) == \E d \in Dividers : InRange(fDCO(f, d))

\* Only the upper limit itself is found: it is not below the one to start from.
AtLimit(f) == Found(f) /\ \A d \in Dividers : InRange(fDCO(f, d)) => fDCO(f, d) = 567000

\* N1s are tried in their order, and for each all HsDivs; Unassigned if none
\* is taken.
calcNewOpts(f) ==
    LET After(n, last) ==
            LET better == {d \in [hs_div : HsDivs, n1 : {n}] :
                              InRange(fDCO(f, d)) /\ Better(fDCO(f, d),
                                     IF last = Unassigned THEN 567000 ELSE last.rfreq_int)}
                d == CHOOSE d \in better : \A e \in better : d.hs_div <= e.hs_div
            IN  IF better = {} THEN last
                ELSE [hs_div |-> d.hs_div, n1 |-> n, rfreq_int |-> fDCO(f, d), rfreq_float |-> fDCO(f, d)]
        loop[k \in 0..Len(N1s)] == IF k = 0 THEN Unassigned ELSE After(N1s[k], loop[k - 1])
    IN  loop[Len(N1s)]

\* Evaluated once for each frequency.
Settings == <<0>> :> Unassigned @@ [k \in {<<f>> : f \in Freqs \cup {DEFAULT_FOUT}} |-> calcNewOpts(k[1])]
SettingsOf(f) == Settings[<<f>>]

\* The frequency of the crystal is derived from settings and output; "off"
\* stands for a wrong result.  RFREQ is fDCO divided by it.
Rfreq(o, xtal) == [fdco |-> o.rfreq_int, xtal |-> xtal]
getFout(o)     == o.rfreq_float \div (o.hs_div * o.n1)

\* Fields of three, five and two bits.
RegisterOf(addr, o, rfreq) ==
    CASE addr = 13 -> [hs |-> (o.hs_div - 4) % 8, n1 |-> ((o.n1 - 1) \div 4) % 32]
      [] addr = 14 -> [n1 |-> (o.n1 - 1) % 4, rfreq |-> rfreq]
      [] OTHER -> [rfreq |-> rfreq]
Registers(o, rfreq) == 18 :> RegisterOf(18, o, rfreq) @@ [addr \in 13..17 |-> RegisterOf(addr, o, rfreq)]

hs_divOf(r) == r[13].hs + 4
n1Of(r)     == 4 * r[13].n1 + r[14].n1 + 1

\* What the oscillator gives with registers r.
Mixed == 0 - 1
Off   == 0 - 2
OutputOf(r) == IF \E addr \in 15..18 : r[addr].rfreq # r[14].rfreq THEN Mixed
               ELSE IF r[14].rfreq.fdco = Unset THEN Unset
               ELSE IF r[14].rfreq.xtal # "own" THEN Off
               ELSE r[14].rfreq.fdco \div (hs_divOf(r) * n1Of(r))

\* The crystal's frequency that getCurrentOpts derives from the settings.
xtalOf(r, fout) == IF OutputOf(r) = fout THEN "own" ELSE "off"

DefaultRegisters == Registers(SettingsOf(DEFAULT_FOUT), Rfreq(SettingsOf(DEFAULT_FOUT), "own"))

-----------------------------------------------------------------------------
(* Programs.                                                                *)

RefClk == 4     \* chains: 0 to 2 are optical modules
Ddr3   == 3
Read(chain, addr)  == [do |-> "read", chain |-> chain, addr |-> addr]
Write(addr, what)  == [do |-> "write", chain |-> RefClk, addr |-> addr, what |-> what]
waitForClearance(flag) == << [do |-> "read", chain |-> RefClk, addr |-> 135], [do |-> "until", flag |-> flag] >>
Reads(chain, addrs) == [k \in DOMAIN addrs |-> Read(chain, addrs[k])]

reset == <<Write(135, "RECALL")>> \o waitForClearance("RECALL") \o <<[do |-> "store", what |-> "default"]>>

getCurrentOpts == Reads(RefClk, <<13, 14, 15, 16, 17, 18>>) \o <<[do |-> "current"]>>

\* Mutant of setFreezeDCO: the bit is not set.
FreezeNot == <<Read(RefClk, 137)>>

setFreezeDCO == <<Read(RefClk, 137), Write(137, "freeze")>>
releaseDCO   == <<Read(RefClk, 137), [do |-> "write", chain |-> RefClk, addr |-> 137, what |-> "release"]>>

writeOptsToDevice ==
    setFreezeDCO \o [k \in 1..6 |-> Write(12 + k, "opts")] \o releaseDCO
        \o waitForClearance("NEWFREQ") \o <<[do |-> "store", what |-> "opts"]>>

\* refclkgenctrl -w and configureRefclk().
SetFrequency(f) == reset \o getCurrentOpts \o <<[do |-> "calc", f |-> f]>> \o writeOptsToDevice

\* Page 0 is selected unless it is there.
qsfp_select_page0(chain) == <<Read(chain, 127), [do |-> "unless", other |-> FALSE],
                              [do |-> "write", chain |-> chain, addr |-> 127, what |-> "page 0"]>>

\* Identity strings (two bytes stand for each), wavelength, temperature,
\* voltage, rate selection, power class and CDR, faults, power and bias.
qsfpctrl(chain) ==
    FlattenSeq([k \in 1..5 |->
        qsfp_select_page0(chain)
            \o Reads(chain, << <<148, 163>>, <<168, 183>>, <<184, 185>>, <<196, 211>>, <<186, 187>> >>[k])])
    \o Reads(chain, <<23, 22, 26, 27>>)
    \o qsfp_select_page0(chain) \o Reads(chain, <<195, 221, 141, 129, 129, 129, 4, 34, 35, 42, 43>>)

ddr3SpdReadString == Reads(Ddr3, <<128, 129, 145>>)

JobNames == {<<"reset">>, <<"getCurrentOpts">>, <<"ddr3SpdReadString">>}
            \cup {<<"SetFrequency", f>> : f \in Freqs} \cup {<<"qsfpctrl", c>> : c \in Modules}
Job == <<"none">> :> <<>> @@ [j \in JobNames |->
           CASE j[1] = "reset" -> reset \o getCurrentOpts
             [] j[1] = "getCurrentOpts" -> getCurrentOpts
             [] j[1] = "SetFrequency" -> SetFrequency(j[2])
             [] j[1] = "qsfpctrl" -> qsfpctrl(j[2])
             [] OTHER -> ddr3SpdReadString]
Retunes(j) == j[1] \in {"reset", "SetFrequency"}

-----------------------------------------------------------------------------
(* The board and its devices.                                               *)

Memory(chain, addr) ==
    CASE chain = RefClk /\ addr \in 13..18 -> dco[addr]
      [] chain = RefClk /\ addr = 135 -> [flags |-> flags]
      [] chain = RefClk /\ addr = 137 -> [frozen |-> frozen]
      [] chain \in Modules /\ addr = 127 -> [page |-> page[chain]]
      [] chain \in Modules /\ addr > 127 -> [chain |-> chain, page |-> page[chain], addr |-> addr]
      [] OTHER -> [chain |-> chain, addr |-> addr]

\* The registers take effect at once unless the oscillator is frozen.
Store(chain, addr, byte) ==
    /\ dco' = IF chain = RefClk /\ addr \in 13..18 THEN [dco EXCEPT ![addr] = byte] ELSE dco
    /\ frozen' = IF chain = RefClk /\ addr = 137 THEN byte.frozen ELSE frozen
    /\ flags' = IF chain = RefClk /\ addr = 135 THEN flags \cup byte.flags ELSE flags
    /\ page' = IF chain \in Modules /\ addr = 127 THEN [page EXCEPT ![chain] = byte.page] ELSE page
    /\ output' = IF frozen' THEN output ELSE OutputOf(dco')

\* The release of the oscillator is one transfer of two bytes.
Released(byte) ==
    /\ frozen' = byte.frozen /\ flags' = flags \cup {"NEWFREQ"}
    /\ output' = IF frozen' THEN output ELSE OutputOf(dco)
    /\ UNCHANGED <<dco, page>>

TransferEnds ==
    /\ config.busy
    /\ LET op == config.op IN
       \/ /\ config' = [config EXCEPT !.busy = FALSE]
          /\ CASE config.cmd = "read" ->
                     /\ operation' = [operation EXCEPT !.byte = Memory(config.chain, op.addr),
                                                              !.from = <<config.chain, op.addr>>]
                     /\ UNCHANGED device
               [] op.addr = 137 /\ config.dual -> Released(op.byte) /\ UNCHANGED operation
               [] OTHER -> Store(config.chain, op.addr, op.byte) /\ UNCHANGED operation
          /\ UNCHANGED errors
       \/ /\ errors < MaxErrors /\ errors' = errors + 1
          /\ config' = [config EXCEPT !.busy = FALSE, !.error = TRUE]
          /\ UNCHANGED <<operation, device>>
    /\ UNCHANGED <<stored, run, local, jobs, kills, torn>>

DeviceClears(flag) ==
    /\ flag \in flags
    /\ flags' = flags \ {flag}
    /\ dco' = IF flag = "RECALL" THEN DefaultRegisters ELSE dco
    /\ output' = IF frozen THEN output ELSE OutputOf(dco')
    /\ UNCHANGED <<operation, config, frozen, page, stored, run, local, counters, torn>>

-----------------------------------------------------------------------------
Idle   == [job |-> <<"none">>, at |-> 1, phase |-> "operation"]
Kept   == 13..18 \cup {127, 135, 137}   \* bytes that a program uses later
NoByte == [none |-> TRUE]
Nothing == [addr \in Kept |-> NoByte]

Init ==
    /\ operation = [addr |-> 0, byte |-> NoByte, from |-> <<>>]
    /\ config = [busy |-> FALSE, error |-> FALSE, chain |-> 0, cmd |-> "read", dual |-> FALSE, op |-> operation]
    /\ dco = DefaultRegisters /\ flags = {} /\ frozen = FALSE
    /\ page \in [Modules -> {0, 3}]
    /\ output = DEFAULT_FOUT /\ stored = DEFAULT_FOUT
    /\ run = [p \in Process |-> Idle]
    /\ data = [p \in Process |-> Nothing]
    /\ opts = [p \in Process |-> [o |-> Unassigned, xtal |-> "own"]]
    /\ jobs = 0 /\ kills = 0 /\ errors = 0 /\ torn = FALSE

Program(p) == Job[run[p].job]
Done(p)    == run[p].at > Len(Program(p))
step(p)    == Program(p)[run[p].at]
At(p, phase) == ~Done(p) /\ run[p].phase = phase
Transfers(p) == step(p).do \in {"read", "write"}

Forget(p) == /\ data' = [data EXCEPT ![p] = Nothing]
             /\ opts' = [opts EXCEPT ![p] = [o |-> Unassigned, xtal |-> "own"]]

\* A transfer of a program that has ended has had time to end.
Begin(p) == \E name \in JobNames :
    /\ Done(p) /\ jobs < MaxJobs /\ name[1] \in Programs
    /\ ~config.busy \/ \E q \in Process : ~Done(q)
    /\ run' = [run EXCEPT ![p] = [Idle EXCEPT !.job = name]]
    /\ jobs' = jobs + 1
    /\ Forget(p)
    /\ UNCHANGED <<operation, config, device, stored, kills, errors, torn>>

\* Past this step and n more; a program on the oscillator may be complete.
Past(p, n) ==
    /\ run' = [run EXCEPT ![p].at = @ + n + 1, ![p].phase = "operation"]
    /\ torn' = (torn /\ (run[p].at + n + 1 <= Len(Program(p)) \/ run[p].job[1] # "SetFrequency"))

\* The program ends before its last step.
End(p) ==
    /\ run' = [run EXCEPT ![p] = Idle]
    /\ torn' = (torn \/ Retunes(run[p].job))
    /\ Forget(p)

Phase(p, phase) == run' = [run EXCEPT ![p].phase = phase]

\* The byte that is written.
Byte(p) == LET s == step(p) IN
    CASE s.what = "RECALL" -> [flags |-> {"RECALL"}]
      [] s.what = "freeze" -> [frozen |-> TRUE]
      [] s.what = "release" -> [frozen |-> FALSE]
      [] s.what = "page 0" -> [page |-> 0]
      [] OTHER -> RegisterOf(s.addr, opts[p].o, Rfreq(opts[p].o, opts[p].xtal))

SetOperation(p) ==
    /\ At(p, "operation") /\ Transfers(p)
    /\ operation' = [addr |-> step(p).addr, byte |-> IF step(p).do = "read" THEN NoByte ELSE Byte(p), from |-> <<>>]
    /\ Phase(p, "start")
    /\ UNCHANGED <<config, device, stored, local, counters, torn>>

i2c_module_start(p) ==
    /\ At(p, "start")
    /\ config' = [busy |-> TRUE, error |-> FALSE, chain |-> step(p).chain, cmd |-> step(p).do,
                  dual |-> step(p).do = "write" /\ step(p).what = "release", op |-> operation]
    /\ Phase(p, "wait")
    /\ UNCHANGED <<operation, device, stored, local, counters, torn>>

Completed == ~config.busy

\* An error of the bus is thrown, and ends the program.
i2c_wait_for_cmpl(p) ==
    /\ At(p, "wait") /\ Completed
    /\ CASE config.error -> End(p)
         [] ~config.error /\ step(p).do = "read" -> Phase(p, "result") /\ UNCHANGED <<local, torn>>
         [] OTHER -> Past(p, 0) /\ UNCHANGED local
    /\ UNCHANGED <<operation, config, device, stored, counters>>

ReadResult(p) ==
    /\ At(p, "result")
    /\ data' = [data EXCEPT ![p] = [addr \in Kept |-> IF addr = step(p).addr THEN operation.byte ELSE @[addr]]]
    /\ Past(p, 0)
    /\ UNCHANGED <<operation, config, device, stored, opts, counters>>

SelectUnless(p) ==
    /\ At(p, "operation") /\ step(p).do = "unless"
    /\ Past(p, IF (data[p][127].page = 0) = step(p).other THEN 0 ELSE 1)
    /\ UNCHANGED <<operation, config, device, stored, local, counters>>

\* Mutant of StillSet: the loop is left when the flag is set.
StillCleared(flag, set) == flag \notin set
StillSet(flag, set) == flag \in set

\* Reads again while the flag is set.
Until(p) ==
    /\ At(p, "operation") /\ step(p).do = "until"
    /\ IF StillSet(step(p).flag, data[p][135].flags)
       THEN run' = [run EXCEPT ![p].at = @ - 1] /\ UNCHANGED torn
       ELSE Past(p, 0)
    /\ UNCHANGED <<operation, config, device, stored, local, counters>>

Current(p) ==
    /\ At(p, "operation") /\ step(p).do = "current"
    /\ opts' = [opts EXCEPT ![p].xtal = xtalOf(data[p], stored)]
    /\ Past(p, 0)
    /\ UNCHANGED <<operation, config, device, stored, data, counters>>

Calculate(p) ==
    /\ At(p, "operation") /\ step(p).do = "calc"
    /\ LET found == SettingsOf(step(p).f) IN
       \/ /\ Found(step(p).f)
          /\ \E o \in IF found = Unassigned THEN OnStack ELSE {found} : opts' = [opts EXCEPT ![p].o = o]
          /\ Past(p, 0) /\ UNCHANGED data
       \/ ~Found(step(p).f) /\ End(p)
    /\ UNCHANGED <<operation, config, device, stored, counters>>

storeRefclkFreq(p) ==
    /\ At(p, "operation") /\ step(p).do = "store"
    /\ stored' = IF step(p).what = "default" THEN DEFAULT_FOUT ELSE getFout(opts[p].o)
    /\ Past(p, 0)
    /\ UNCHANGED <<operation, config, device, local, counters>>

Kill(p) ==
    /\ ~Done(p) /\ kills < MaxKills
    /\ kills' = kills + 1
    /\ End(p)
    /\ UNCHANGED <<operation, config, device, stored, jobs, errors>>

Step(p) == \/ SetOperation(p) \/ i2c_module_start(p) \/ i2c_wait_for_cmpl(p) \/ ReadResult(p) \/ SelectUnless(p)
           \/ Until(p) \/ Current(p) \/ Calculate(p) \/ storeRefclkFreq(p)

Next == \/ TransferEnds \/ \E flag \in flags : DeviceClears(flag)
        \/ \E p \in Process : Begin(p) \/ Step(p) \/ Kill(p)

Fairness == /\ WF_vars(TransferEnds) /\ WF_vars(\E flag \in flags : DeviceClears(flag))
            /\ \A p \in Process : WF_vars(Step(p))

Spec == Init /\ [][Next]_vars /\ Fairness

-----------------------------------------------------------------------------
(* Properties.                                                              *)

\* The fields of the oscillator's registers have values that the device knows.
TypeOK ==
    /\ dco[13].hs + 4 \in HsDivs /\ dco[13].n1 \in 0..31 /\ dco[14].n1 \in 0..3
    /\ frozen \in BOOLEAN /\ flags \subseteq {"RECALL", "NEWFREQ"}
    /\ \A p \in Process : run[p].at \in 1..Len(Program(p)) + 1

\* A byte that a program takes for the result of a transfer is the answer to
\* that transfer: of the device and the address that it asked for
\* (sysmon.hh:324-329).
AnswersOwnTransfer ==
    \A p \in Process : At(p, "result") => operation.from = <<step(p).chain, step(p).addr>>

\* With one program at a time this holds, whatever a killed program or a failed
\* transfer left in the registers.
ReadsOwnByte == Cardinality(Process) = 1 => AnswersOwnTransfer

\* Strings and options of an optical module are read from page 0, whichever
\* page it showed.
IdentityFromPage0 ==
    \A p \in Process : At(p, "result") /\ run[p].job[1] = "qsfpctrl" /\ step(p).addr > 127 =>
        operation.byte.page = 0

\* The transceivers never get a clock made of two settings, or of settings for
\* another crystal: not while they are written, nor when a program that writes
\* them is killed or a transfer fails, nor from the program that runs next,
\* not even after one that wrote settings it never assigned.
NeverMixed == output \notin {Mixed, Off}

\* Unless the last program on the oscillator did not complete, or wrote settings
\* that it never assigned, the frequency kept in the firmware is the one the
\* transceivers get, unfrozen.
OutputAsStored ==
    (~torn /\ output # Unset /\ \A p \in Process : Done(p) \/ ~Retunes(run[p].job)) =>
        ~frozen /\ output = stored

\* A program that set a frequency and did not fail has set this frequency
\* (refclk.hh:78-86, refclkgenctrl.cpp:197-206).
SetsAsked(p) == LET job == run[p].job IN Done(p) /\ job[1] = "SetFrequency" => ~frozen /\ output = job[2]
OutputAsAsked == \A p \in Process : SetsAsked(p)

\* It does, unless only the upper limit of the DCO gives the frequency.
AsAskedBelowLimit ==
    \A p \in Process : (run[p].job[1] = "SetFrequency" => ~AtLimit(run[p].job[2])) => SetsAsked(p)

\* The settings that are found have the lowest DCO frequency within the
\* limits, and of these the lowest N1.  The upper limit itself is never
\* assigned: a frequency that only it gives is exempt here, and not in
\* OutputAsAsked.
Chosen(p) == run[p].job[1] = "SetFrequency" /\ ~Done(p) /\ opts[p].o # Unassigned
DividersBest ==
    \A p \in Process :
        LET o == opts[p].o
            f == run[p].job[2]
            Valid == {d \in Dividers : InRange(fDCO(f, d)) /\ fDCO(f, d) < 567000}
        IN  (Chosen(p) /\ ~AtLimit(f)) =>
                /\ [hs_div |-> o.hs_div, n1 |-> o.n1] \in Valid
                /\ \A d \in Valid : \/ o.rfreq_int < fDCO(f, d)
                                    \/ (o.rfreq_int = fDCO(f, d) /\ o.n1 <= d.n1)

\* What the comment of the search says of its result (refclk.cpp:181-182): the
\* lowest N1, and for it the highest HS_DIV, within the limits.
LowestN1HighestHsDiv ==
    \A p \in Process : Chosen(p) =>
        LET o == opts[p].o
            Valid == {d \in Dividers : InRange(fDCO(run[p].job[2], d))}
        IN  /\ [hs_div |-> o.hs_div, n1 |-> o.n1] \in Valid
            /\ \A d \in Valid : o.n1 < d.n1 \/ (o.n1 = d.n1 /\ o.hs_div >= d.hs_div)

\* Every program ends: transfers and the flags of the oscillator are waited for
\* without a bound, and the devices answer.
ProgramsEnd == \A p \in Process : []<>Done(p)


\* At every moment: one setting at the output, known to the firmware, the one
\* asked for, and found as the code's rule says (refclk.cpp:175-276).
ClockInv == NeverMixed /\ OutputAsStored /\ AsAskedBelowLimit /\ DividersBest

=============================================================================
