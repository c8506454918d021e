----------------------------- MODULE BoardTest -----------------------------
(***************************************************************************)
(* The tests of the hardware: boardtest goes through the parts of one board *)
(* whose links are looped back; board_to_board_test runs the links between  *)
(* two boards at one rate after the other.  Both read what the parts report *)
(* and print errors; the model keeps the set of messages and asks whether a *)
(* faulty part is reported, and a good one is not.                          *)
(*                                                                          *)
(* A part shows a set of flags, Healthy when it has no fault; a fault turns *)
(* one of them over.  External: the parts, the electrical behaviour of the  *)
(* pins of the FMC connector, and the clocks and links that come up some    *)
(* time after the resets before them are released.                          *)
(***************************************************************************)
EXTENDS Integers, FiniteSets, SequencesExt, TLC

CONSTANTS Tools,                      \* programs that are run
          NChannels, ChannelsPerQsfp, \* of each board
          Pins, MidPins,              \* of the FMC connector: all, those in FMC_CTRL_MID
          NConfigs,                   \* link configurations tried (bound)
          MaxTries, MaxRetries,       \* polls for a clock or a link; resets (bounds)
          MaxFaults, MaxErrors        \* bounds

VARIABLES
    faults,     \* what is broken: <<part, number, flag>>
    plugged, qsfpReset,         \* optical modules: present; in reset
    gtxReset, clock, up,        \* transceivers: in reset; clock runs; link up
    pll, refclk,                \* configuration of each transceiver, clock of each board
    counts,     \* error counters of each transceiver that are not zero
    fmc,        \* pins: direction, level driven
    ucReset, engine,            \* microcontroller in reset; DMA engine enabled
    tool, at,   \* program, its next step
    quick,      \* option -q
    sysclk, ready, lnkup, devnr, result, tries, retry,  \* its variables
    report,     \* messages printed
    outcome,    \* "running", or how the program ended
    errors,
    left, late, \* history: what was found at the start; a clock came too late
    erred, bad  \* history: links with errors since the counters were cleared; when checked

config  == <<plugged, qsfpReset, gtxReset, pll, refclk>>
signals == <<clock, up, counts, erred>>
parts   == <<fmc, ucReset, engine, faults>>
found   == <<sysclk, ready, lnkup, devnr, result>>
waits   == <<tries, retry>>
control == <<tool, quick, outcome>>
history == <<left, late, bad, errors>>
vars == <<config, signals, parts, found, waits, control, history, at, report>>

-----------------------------------------------------------------------------
(* Boards, and their faults.                                                *)

Boards   == 0..1
Ends     == 0..2 * NChannels - 1
boardOf(e) == e \div NChannels
EndsOf(b)  == {e \in Ends : boardOf(e) = b}
NQsfps   == NChannels \div ChannelsPerQsfp
Qsfps    == 0..2 * NQsfps - 1
QsfpsOf(b) == {q \in Qsfps : q \div NQsfps = b}
qsfpOf(e)  == boardOf(e) * NQsfps + (e % NChannels) \div ChannelsPerQsfp
Two      == 0..1        \* DDR3 modules, flash chips
Partner(e) == IF tool = "boardtest" THEN e ELSE (e + NChannels) % (2 * NChannels)

Counters == {"disparity", "realign", "notintable", "los", "linktester"}

Healthy ==
    [bar |-> {"BAR0", "BAR1"}, firmware |-> {"hwtest"}, pcie |-> {"Gen2", "8 lanes"}, fan |-> {"running", "speed"},
     sysclk |-> {"clock"}, refclk |-> {"answers"}, fpga |-> {"temp", "VCCINT", "VCCAUX"},
     qsfp |-> {"answers", "temp", "vcc", "rxpower", "txbias"}, spd |-> {"answers", "DDR3"},
     ddr3 |-> {"phy_init_done", "rd_lvl_done", "wr_lvl_done"}, lvds |-> {"enabled", "link0", "link1"},
     fmc |-> {"answers", "temp"}, uc |-> {"answers", "signature"}, smbus |-> {"dipswitch", "opens", "answers", "revision"},
     flash |-> {"ready", "code"}, dma |-> {"opens", "data", "sane"}]

\* An oscillator whose frequency is not the one that was configured, though near
\* enough for the links; a flash chip whose device number reads as all ones.
Extra == [ddr3 |-> {"reset", "rd_lvl_failed", "wr_lvl_failed", "tg_error"}, lvds |-> {"reset"},
          refclk |-> {"frequency"}, flash |-> {"shared", "ones"}, dma |-> {"rate"}]
Wrong(part) == Healthy[part] \cup (IF part \in DOMAIN Extra THEN Extra[part] ELSE {})

Numbers(part) == CASE part \in {"spd", "ddr3", "flash"} -> Two
                   [] part = "qsfp" -> QsfpsOf(0)
                   [] OTHER -> {0}

LinkFaults(ends, counters) == {"link"} \X ends \X ({"clock", "up"} \cup counters)
PinFaults == {"pin"} \X Pins \X {"stuck0", "stuck1", "open", "bridge", "swapped"}
BoardFaults == UNION {{part} \X Numbers(part) \X Wrong(part) : part \in DOMAIN Healthy}
FaultsOf(t) == IF t = "boardtest" THEN BoardFaults \cup PinFaults \cup LinkFaults(EndsOf(0), Counters)
               ELSE LinkFaults(Ends, {"disparity"})

Has(part, n, flag) == <<part, n, flag>> \in faults
Flags(part, n) == LET wrong == {f[3] : f \in {g \in faults : g[1] = part /\ g[2] = n}}
                  IN  (Healthy[part] \ wrong) \cup (wrong \ Healthy[part])

-----------------------------------------------------------------------------
(* Clocks and links.  Frequencies are in units of 10 kHz.                   *)

available_configs == <<[rate |-> 4250, refclk |-> 21250], [rate |-> 5000, refclk |-> 25000],
                       [rate |-> 2000, refclk |-> 10000], [rate |-> 2125, refclk |-> 21250]>>

CanLock(e) == /\ e \notin gtxReset /\ ~Has("link", e, "clock")
              /\ available_configs[pll[e]].refclk = refclk[boardOf(e)]
QsfpOn(e)  == qsfpOf(e) \in plugged \ qsfpReset
CanLink(e) == /\ {e, Partner(e)} \subseteq clock /\ QsfpOn(e) /\ QsfpOn(Partner(e))
              /\ pll[e] = pll[Partner(e)] /\ ~Has("link", e, "up")

\* What is lost with a change of resets or clocks; the other end sees it go.
Keep ==
    /\ clock' = {e \in clock : CanLock(e)'}
    /\ up' = {e \in up : CanLink(e)'}
    /\ counts' = [e \in Ends |-> IF e \in up \ up' THEN counts[e] \cup {"los"} ELSE counts[e]]
    /\ erred' = erred \cup (up \ up')

isGtxDomainReady(e) == e \in clock
Counted(e) == counts[e] \cup {c \in Counters : Has("link", e, c)}

-----------------------------------------------------------------------------
(* What the checks print.                                                   *)

Say(level, part, n) == {<<level, part, n>>}
If(condition, messages) == IF condition THEN messages ELSE {}
ErrorUnless(flags, part, n) == If(~flags \subseteq Flags(part, n), Say("ERROR", part, n))

checkForValidBarConfig == If(Flags("bar", 0) # Healthy.bar, Say("FATAL", "bar", 0))
checkFirmware  == If("hwtest" \notin Flags("firmware", 0), Say("FATAL", "firmware", 0))
checkPcieState == If(Flags("pcie", 0) # Healthy.pcie, Say("WARNING", "pcie", 0))
checkFpgaFan   == ErrorUnless({"running", "speed"}, "fan", 0)
checkSysClkAvailable == ErrorUnless({"clock"}, "sysclk", 0)
\* The frequency computed is the one that the firmware keeps: the crystal's is
\* derived from it, and multiplied with the dividers read again.
checkRefClkGen == If("answers" \notin Flags("refclk", 0) \/ refclk[0] \notin 21240..21260, Say("ERROR", "refclk", 0))
checkFpgaSystemMonitor == ErrorUnless(Healthy.fpga, "fpga", 0)

checkQsfp(q) ==
    CASE q \notin plugged -> Say("WARNING", "qsfp", q)
      [] q \in plugged \cap qsfpReset -> Say("WARNING", "qsfp", q)
      [] OTHER -> ErrorUnless({"temp", "vcc"}, "qsfp", q)
                  \cup If(~{"rxpower", "txbias"} \subseteq Flags("qsfp", q), Say("WARNING", "qsfp", q))

checkDdr3ModuleSpd(n) == ErrorUnless(Healthy.spd, "spd", n)
checkDdr3ModuleCalib(n) ==
    If("reset" \in Flags("ddr3", n), Say("WARNING", "ddr3", n))
    \cup ErrorUnless(Healthy.ddr3, "ddr3", n)
    \cup If({"rd_lvl_failed", "wr_lvl_failed"} \cap Flags("ddr3", n) # {}, Say("ERROR", "ddr3", n))
checkDdr3ModuleTg(n) ==
    If("tg_error" \in Flags("ddr3", n) \/ "phy_init_done" \notin Flags("ddr3", n), Say("ERROR", "ddr3", n))

checkLvdsTester ==
    IF "reset" \in Flags("lvds", 0) \/ "enabled" \notin Flags("lvds", 0) THEN Say("WARNING", "lvds", 0)
    ELSE ErrorUnless({"link0", "link1"}, "lvds", 0)

checkMicrocontroller == ErrorUnless({"answers", "signature"}, "uc", 0)
checkSmBus == ErrorUnless(Healthy.smbus, "smbus", 0)

checkLinkState(e) ==
    If(~isGtxDomainReady(e) \/ e \notin up \/ Counted(e) # {}, Say("ERROR", "link", e))

checkDmaTestResults ==
    IF "data" \notin Flags("dma", 0) THEN Say("ERROR", "dma", 0)
    ELSE If("rate" \in Flags("dma", 0), Say("WARNING", "dma", 0))

\* Two flash chips.  A shift of an int by 32 or 48 is undefined: the machine
\* takes the count modulo 32, or nothing is left of the word.  One by 16 has a sign.
WordOf(n, k) == IF Has("flash", n, "ones") THEN 2^16 - 1 ELSE << <<1, 2, 3, 4>>, <<3, 2, 1, 4>> >>[n + 1][k]
Shifted(w)   == (IF w < 2^15 THEN w ELSE w - 2^16) * 2^16
ChipOf(n) == IF Has("flash", 0, "shared") \/ Has("flash", 1, "shared") THEN 0 ELSE n
NoNumber == [shift |-> "none", number |-> 0]
getUniqueDeviceNumber(n, shift) ==
    LET w == [k \in 1..4 |-> WordOf(n, k)]
        once == w[1] + Shifted(w[2])
    IN  [shift |-> shift, number |-> IF shift = "modulo" THEN once + w[3] + Shifted(w[4]) ELSE once]
resetChip(n) == If("ready" \notin Flags("flash", n), Say("resetBlock failed", "flash", n))
flashManufacturerCodeIsValid(n) == "code" \in Flags("flash", n)
checkFlash(n) == resetChip(n) \cup If(~flashManufacturerCodeIsValid(n), Say("ERROR", "flash", n))
\* No number read is 0xfffffffff, which the code compares with: all ones are more.
checkFlashDeviceNumbersAreValid ==
    CASE devnr[0] = NoNumber -> Say("ERROR", "flash", 0)
      [] devnr[0] # NoNumber /\ devnr[1] = NoNumber -> Say("ERROR", "flash", 1)
      [] OTHER -> If(devnr[0] = devnr[1], Say("ERROR", "flash", 0) \cup Say("ERROR", "flash", 1))

-----------------------------------------------------------------------------
(* Pins of the FMC connector.                                               *)

\* Driven: pin i of the adapter is connected with its neighbour by a fault.
Neighbour(i) == (i + 1) % Cardinality(Pins)
Level(i) ==
    LET driven(j) == fmc.input \/ j \in fmc.out IN
    CASE Has("pin", i, "stuck0") -> FALSE
      [] Has("pin", i, "stuck1") -> TRUE
      [] Has("pin", i, "open") -> TRUE
      [] Has("pin", i, "bridge") -> driven(i) /\ driven(Neighbour(i))
      [] Has("pin", i, "swapped") -> driven(Neighbour(i))
      [] OTHER -> driven(i)
inputval == {i \in Pins : Level(i)}

fmcResetTester == fmc' = [input |-> TRUE, out |-> {}]

HighPins(bit, level) == IF level THEN {bit} ELSE (Pins \ MidPins) \ {bit}

\* Drives one pin to level, all others to the other.
fmcDriveBit(bit, level) ==
    LET midval  == IF bit \in MidPins THEN (IF level THEN {bit} ELSE MidPins \ {bit})
                   ELSE (IF level THEN {} ELSE MidPins)
        highval == IF bit \in MidPins THEN (IF level THEN {} ELSE Pins \ MidPins) ELSE HighPins(bit, level)
    IN  fmc' = [input |-> FALSE, out |-> midval \cup highval]

fmcCheckBit(bit, level) ==
    LET exp_val == IF level THEN {bit} ELSE Pins \ {bit}
    IN  fmc.out # exp_val \/ inputval # exp_val

\* Mutant of Collect: the last check counts.
CollectLast(failed) == failed
Collect(failed) == result \/ failed

-----------------------------------------------------------------------------
(* The programs: steps with the part they are about, and the configuration. *)

One(name)      == <<<<name, 0, 0>>>>
Each(name, n)  == [i \in 1..n |-> <<name, i - 1, 0>>]

checkFmc ==
    One("fmcResetTester") \o One("fmcResetState")
    \o FlattenSeq([i \in 1..Cardinality(Pins) |->
           << <<"fmcDriveBit", i - 1, 1>>, <<"fmcCheckBit", i - 1, 1>>, <<"fmcDriveBit", i - 1, 0>>, <<"fmcCheckBit", i - 1, 0>> >>])
    \o One("fmcResetTester") \o One("fmcResult")

boardtest ==
    One("checkForValidBarConfig") \o One("checkFirmware") \o One("checkPcieState")
    \o Each("checkAndReleaseQsfpResets", NQsfps) \o One("checkFpgaFan") \o One("checkSysClkAvailable")
    \o FlattenSeq([i \in 1..NChannels |-> << <<"checkAndReleaseGtxReset", i - 1, 0>>, <<"clearErrorCounters", i - 1, 0>> >>])
    \o One("checkRefClkGen") \o One("checkFpgaSystemMonitor") \o Each("checkQsfp", NQsfps)
    \o FlattenSeq([n \in 1..2 |-> << <<"checkDdr3ModuleSpd", n - 1, 0>>, <<"checkDdr3ModuleCalib", n - 1, 0>> >>])
    \o checkFmc \o One("checkLvdsTester") \o One("checkMicrocontroller") \o One("checkSmBus")
    \o Each("checkFlash", 2) \o One("checkFlashDeviceNumbersAreValid")
    \o One("testDmaChannel") \o One("handleChannelData") \o Each("checkDdr3ModuleTg", 2) \o Each("checkLinkState", NChannels)

ForAll(name, set, k) == [i \in 1..Cardinality(set) |-> <<name, i - 1, k>>]
board_to_board_test ==
    FlattenSeq([k \in 1..NConfigs |->
        ForAll("setReset", Ends, k) \o ForAll("resetQsfp", Qsfps, k) \o ForAll("configureRefclk", Boards, k)
        \o ForAll("configureAllGtx", Ends, k) \o ForAll("resetAllGtx", Ends, k) \o ForAll("releaseQsfp", Qsfps, k)
        \o ForAll("waitForLinkUp", Boards, k) \o << <<"allUp", 0, k>> >> \o ForAll("clearErrorCounters", Ends, k)
        \o << <<"countDown", 0, k>> >>
        \o FlattenSeq([b \in 1..2 |-> [i \in 1..NChannels |-> <<"checkLinkState", (b - 1) * NChannels + i - 1, k>>]
                                      \o << <<"checkErrorCounters", b - 1, k>> >>])])

Program == [t \in Tools |-> IF t = "boardtest" THEN boardtest ELSE board_to_board_test]
step    == Program[tool][at]
NeedsSysClk == {"checkFpgaSystemMonitor", "checkDdr3ModuleSpd", "checkDdr3ModuleCalib", "fmcResetTester", "fmcResetState",
                "fmcDriveBit", "fmcCheckBit", "fmcResult"}
Skipped == \/ step[1] \in NeedsSysClk /\ ~sysclk
           \/ step[1] = "checkLinkState" /\ tool = "boardtest" /\ qsfpOf(step[2]) \notin ready

Running == outcome = "running" /\ at <= Len(Program[tool])
At(name) == Running /\ ~Skipped /\ step[1] = name
Config   == available_configs[step[3]]

Waiting == tries >= 0
Advance == at' = at + 1
Says(messages) == report' = report \cup messages
Stop(how) == outcome' = how /\ UNCHANGED <<tool, quick>>

-----------------------------------------------------------------------------
\* What programs run before have left: nothing, modules in reset or missing,
\* a test killed half-way, an engine that runs, links at another rate.
Situations == {"nothing", "unplugged", "qsfps in reset", "killed", "engine", "rate"}

Init ==
    /\ tool \in Tools /\ quick \in (IF tool = "boardtest" THEN BOOLEAN ELSE {FALSE})
    /\ faults \in {{}} \cup {Range(s) : s \in [1..MaxFaults -> FaultsOf(tool)]}
    /\ left \in IF tool = "boardtest" THEN Situations ELSE {"nothing", "unplugged"}
    /\ plugged = IF left = "unplugged" THEN Qsfps \ {0} ELSE Qsfps
    /\ qsfpReset = IF left \in {"killed", "qsfps in reset"} THEN Qsfps ELSE {}
    /\ gtxReset = IF left = "killed" THEN Ends ELSE {}
    /\ LET k == IF left = "rate" THEN 2 ELSE 1
       IN  pll = [e \in Ends |-> k] /\ refclk = [b \in Boards |-> available_configs[k].refclk]
    /\ clock = {e \in Ends : CanLock(e)} /\ up = {e \in Ends : CanLink(e)}
    /\ counts = [e \in Ends |-> Counters]
    /\ fmc = IF left = "killed" THEN [input |-> FALSE, out |-> Pins \ {0}] ELSE [input |-> TRUE, out |-> {}]
    /\ ucReset = (left = "killed") /\ engine = (left = "engine")
    /\ at = 1 /\ sysclk = TRUE /\ ready = {} /\ lnkup = {} /\ devnr = [n \in Two |-> NoNumber]
    /\ result = FALSE /\ tries = 0 - 1 /\ retry = 0
    /\ report = {} /\ outcome = "running" /\ errors = 0
    /\ late = FALSE /\ erred = {} /\ bad = {}

-----------------------------------------------------------------------------
(* Clocks and links come up, errors happen.                                 *)

ClockComesUp(e) ==
    /\ e \notin clock /\ CanLock(e)
    /\ clock' = clock \cup {e}
    /\ UNCHANGED <<config, up, counts, erred, parts, found, waits, control, history, at, report>>

\* A link that comes up counts a realignment.
LinkComesUp(e) ==
    /\ e \notin up /\ CanLink(e)
    /\ up' = up \cup {e}
    /\ counts' = [counts EXCEPT ![e] = @ \cup {"realign"}]
    /\ erred' = erred \cup {e}
    /\ UNCHANGED <<config, clock, parts, found, waits, control, history, at, report>>

\* While the links are tested (bound).
BitError(e) ==
    /\ e \in up /\ errors < MaxErrors
    /\ Running /\ step[1] \in {"countDown", "checkLinkState"}
    /\ errors' = errors + 1
    /\ counts' = [counts EXCEPT ![e] = @ \cup {"disparity"}]
    /\ erred' = erred \cup {e}
    /\ UNCHANGED <<config, clock, up, parts, found, waits, control, left, late, bad, at, report>>

-----------------------------------------------------------------------------
(* Steps of both programs.                                                  *)

Skip == /\ Running /\ Skipped /\ Advance
        /\ UNCHANGED <<config, signals, parts, found, waits, control, history, report>>

\* Steps that read and print.
Reading == {"checkPcieState", "checkFpgaFan", "checkRefClkGen", "checkFpgaSystemMonitor", "checkDdr3ModuleSpd",
            "checkDdr3ModuleCalib", "checkLvdsTester", "checkSmBus", "checkDdr3ModuleTg", "countDown"}
Prints == CASE step[1] = "checkPcieState" -> checkPcieState
            [] step[1] = "checkFpgaFan" -> checkFpgaFan
            [] step[1] = "checkRefClkGen" -> checkRefClkGen
            [] step[1] = "checkFpgaSystemMonitor" -> checkFpgaSystemMonitor
            [] step[1] = "checkDdr3ModuleSpd" -> checkDdr3ModuleSpd(step[2])
            [] step[1] = "checkDdr3ModuleCalib" -> checkDdr3ModuleCalib(step[2])
            [] step[1] = "checkDdr3ModuleTg" -> checkDdr3ModuleTg(step[2])
            [] step[1] = "checkLvdsTester" -> checkLvdsTester
            [] step[1] = "checkSmBus" -> checkSmBus
            [] OTHER -> {}

ReadAndPrint ==
    /\ Running /\ ~Skipped /\ step[1] \in Reading
    /\ Says(Prints) /\ Advance
    /\ UNCHANGED <<config, signals, parts, found, waits, control, history>>

\* Without valid addresses or the firmware for tests the program aborts.
Precondition ==
    /\ At("checkForValidBarConfig") \/ At("checkFirmware")
    /\ LET messages == IF step[1] = "checkFirmware" THEN checkFirmware ELSE checkForValidBarConfig IN
       /\ Says(messages)
       /\ IF messages = {} THEN Advance /\ UNCHANGED control ELSE Stop("aborted") /\ UNCHANGED at
    /\ UNCHANGED <<config, signals, parts, found, waits, history>>

SysClk ==
    /\ At("checkSysClkAvailable")
    /\ sysclk' = (checkSysClkAvailable = {})
    /\ Says(checkSysClkAvailable) /\ Advance
    /\ UNCHANGED <<config, signals, parts, ready, lnkup, devnr, result, waits, control, history>>

\* boardtest releases all that are in reset, the other program those present.
checkAndReleaseQsfpResets ==
    /\ At("checkAndReleaseQsfpResets") \/ At("releaseQsfp")
    /\ qsfpReset' = IF step[1] = "releaseQsfp" /\ step[2] \notin plugged THEN qsfpReset ELSE qsfpReset \ {step[2]}
    /\ Advance
    /\ UNCHANGED <<plugged, gtxReset, pll, refclk, signals, parts, found, waits, control, history, report>>

CountUp(n)  == n + 1

TimedOut(n) == n > MaxTries

\* A reset found is released, and the clock waited for.
checkAndReleaseGtxReset ==
    LET e == step[2] IN
    /\ At("checkAndReleaseGtxReset") /\ ~Waiting
    /\ IF e \in gtxReset
       THEN gtxReset' = gtxReset \ {e} /\ tries' = 0 /\ UNCHANGED at
       ELSE Advance /\ UNCHANGED <<gtxReset, tries>>
    /\ UNCHANGED <<plugged, qsfpReset, pll, refclk, signals, parts, found, retry, control, history, report>>

WaitForClock ==
    LET e == step[2] IN
    /\ At("checkAndReleaseGtxReset") /\ Waiting
    /\ CASE isGtxDomainReady(e) -> Advance /\ tries' = 0 - 1 /\ UNCHANGED <<report, late>>
         [] ~isGtxDomainReady(e) /\ TimedOut(CountUp(tries)) ->
                Advance /\ tries' = 0 - 1 /\ Says(Say("ERROR", "link", e)) /\ late' = TRUE
         [] OTHER -> tries' = CountUp(tries) /\ UNCHANGED <<at, report, late>>
    /\ UNCHANGED <<config, signals, parts, found, retry, control, left, bad, errors>>

\* Mutant of Cleared: the counter of the link tester is not cleared.
ClearedButTester(e) == counts[e] \cap {"linktester"}
Cleared(e) == {}

clearErrorCounters ==
    LET e == step[2] IN
    /\ At("clearErrorCounters")
    /\ IF isGtxDomainReady(e)
       THEN counts' = [counts EXCEPT ![e] = Cleared(e)] /\ erred' = erred \ {e} /\ UNCHANGED <<report, late>>
       ELSE /\ UNCHANGED <<counts, erred>>
            /\ IF tool = "boardtest" THEN Says(Say("ERROR", "link", e)) ELSE UNCHANGED report
            /\ late' = TRUE
    /\ Advance
    /\ UNCHANGED <<config, clock, up, parts, found, waits, control, left, bad, errors>>

\* What a link really did while it was tested.
Misbehaves(e, k) ==
    \/ e \in erred \/ e \notin up \/ \E c \in Counters : Has("link", e, c)
    \/ k > 0 /\ (pll[e] # k \/ refclk[boardOf(e)] # available_configs[k].refclk)

\* Mutant of Errors: the last link counts.
LastError(failed) == failed
Errors(failed) == result \/ failed

CheckLink ==
    LET e == step[2] IN
    /\ At("checkLinkState")
    /\ Says(checkLinkState(e)) /\ Advance
    /\ result' = (tool = "board_to_board_test" /\ Errors(checkLinkState(e) # {}))
    /\ bad' = IF Misbehaves(e, step[3]) THEN bad \cup {<<e, step[3]>>} ELSE bad
    /\ UNCHANGED <<config, signals, parts, sysclk, ready, lnkup, devnr, waits, control, left, late, errors>>

-----------------------------------------------------------------------------
(* Steps of boardtest.                                                      *)

\* A transfer that fails is not caught here: the program ends.
CheckQsfp ==
    LET q == step[2]
        reads == q \in plugged \ qsfpReset
    IN
    /\ At("checkQsfp")
    /\ IF reads /\ "answers" \notin Flags("qsfp", q)
       THEN Stop("aborted") /\ Says(Say("exception", "qsfp", q)) /\ UNCHANGED <<at, ready>>
       ELSE /\ ready' = IF reads THEN ready \cup {q} ELSE ready
            /\ Says(checkQsfp(q)) /\ Advance
            /\ UNCHANGED control
    /\ UNCHANGED <<config, signals, parts, sysclk, lnkup, devnr, result, waits, history>>

FmcDrive ==
    /\ \/ At("fmcResetTester") /\ fmcResetTester
       \/ At("fmcDriveBit") /\ fmcDriveBit(step[2], step[3] = 1)
    /\ Advance
    /\ UNCHANGED <<config, signals, ucReset, engine, faults, found, waits, control, history, report>>

\* With the drivers off the pull-ups are read.
FmcCheck ==
    /\ \/ At("fmcResetState") /\ result' = (inputval # Pins)
       \/ At("fmcCheckBit") /\ result' = Collect(fmcCheckBit(step[2], step[3] = 1))
    /\ Advance
    /\ UNCHANGED <<config, signals, parts, sysclk, ready, lnkup, devnr, waits, control, history, report>>

FmcResult ==
    /\ At("fmcResult")
    /\ Says(If(result \/ Flags("fmc", 0) # Healthy.fmc, Say("ERROR", "fmc", 0)))
    /\ result' = FALSE /\ Advance
    /\ UNCHANGED <<config, signals, parts, sysclk, ready, lnkup, devnr, waits, control, history>>

\* A command that is not answered leaves the microcontroller in reset.
CheckMicrocontroller ==
    /\ At("checkMicrocontroller")
    /\ ucReset' = ("answers" \notin Flags("uc", 0))
    /\ Says(checkMicrocontroller) /\ Advance
    /\ UNCHANGED <<config, signals, fmc, engine, faults, found, waits, control, history>>

CheckFlash ==
    LET n == step[2] IN
    /\ At("checkFlash")
    /\ \E shift \in IF devnr[0] = NoNumber THEN {"modulo", "lost"} ELSE {devnr[0].shift} :
           LET number == getUniqueDeviceNumber(ChipOf(n), shift)
           IN  devnr' = [devnr EXCEPT ![n] = IF flashManufacturerCodeIsValid(n) THEN number ELSE NoNumber]
    /\ Says(checkFlash(n)) /\ Advance
    /\ UNCHANGED <<config, signals, parts, sysclk, ready, lnkup, result, waits, control, history>>

CheckDeviceNumbers ==
    /\ At("checkFlashDeviceNumbersAreValid")
    /\ Says(checkFlashDeviceNumbersAreValid) /\ Advance
    /\ UNCHANGED <<config, signals, parts, found, waits, control, history>>

\* Left out, without a word, by option -q.  An event stream that does not open ends
\* the program.
testDmaChannel ==
    LET opens == isGtxDomainReady(0) /\ ~engine /\ "opens" \in Flags("dma", 0)
        Past(messages) == Says(messages) /\ at' = at + 2 /\ UNCHANGED <<engine, control>>
    IN
    /\ At("testDmaChannel")
    /\ \/ quick /\ Past({})
       \/ ~quick /\ ~isGtxDomainReady(0) /\ Past(Say("ERROR", "dma", 0))
       \/ /\ ~quick /\ isGtxDomainReady(0) /\ ~opens
          /\ Says(Say("ERROR", "dma", 0)) /\ Stop("exited") /\ UNCHANGED <<at, engine>>
       \/ ~quick /\ opens /\ engine' = TRUE /\ Advance /\ UNCHANGED <<control, report>>
    /\ late' = (late \/ (~quick /\ ~isGtxDomainReady(0)))
    /\ UNCHANGED <<config, signals, fmc, ucReset, faults, found, waits, left, bad, errors>>

DisableDma == engine' = FALSE

\* An event that is not sane aborts the program, and the engine goes on.
handleChannelData ==
    /\ At("handleChannelData")
    /\ IF {"data", "sane"} \cap Flags("dma", 0) = {"data"}
       THEN Stop("aborted") /\ Says(Say("exception", "dma", 0)) /\ UNCHANGED <<at, engine>>
       ELSE DisableDma /\ Says(checkDmaTestResults) /\ Advance /\ UNCHANGED control
    /\ UNCHANGED <<config, signals, fmc, ucReset, faults, found, waits, history>>

-----------------------------------------------------------------------------
(* Steps of board_to_board_test.                                            *)

Configure ==
    LET n == step[2] IN
    /\ \/ /\ At("setReset") /\ gtxReset' = gtxReset \cup {n}
          /\ UNCHANGED <<plugged, qsfpReset, pll, refclk>>
       \/ /\ At("resetQsfp") /\ qsfpReset' = IF n \in plugged THEN qsfpReset \cup {n} ELSE qsfpReset
          /\ UNCHANGED <<plugged, gtxReset, pll, refclk>>
       \/ /\ At("configureRefclk") /\ refclk' = [refclk EXCEPT ![n] = Config.refclk]
          /\ UNCHANGED <<plugged, qsfpReset, gtxReset, pll>>
       \/ /\ At("configureAllGtx") /\ pll' = [pll EXCEPT ![n] = step[3]]
          /\ UNCHANGED <<plugged, qsfpReset, gtxReset, refclk>>
    /\ UNCHANGED <<faults, tool, quick>>
    /\ Keep /\ Advance
    /\ UNCHANGED <<fmc, ucReset, engine, found, waits, outcome, history, report>>

resetAllGtx ==
    /\ At("resetAllGtx") /\ ~Waiting
    /\ gtxReset' = gtxReset \ {step[2]}
    /\ tries' = 0 /\ retry' = MaxRetries
    /\ UNCHANGED <<plugged, qsfpReset, pll, refclk, signals, parts, found, control, history, at, report>>

\* A clock that does not come is reset again, a few times.
waitForResetDone ==
    LET e == step[2] IN
    /\ At("resetAllGtx") /\ Waiting
    /\ CASE tries < MaxTries /\ isGtxDomainReady(e) ->
                Advance /\ tries' = 0 - 1 /\ UNCHANGED <<retry, report, late>>
         [] tries < MaxTries /\ ~isGtxDomainReady(e) ->
                tries' = CountUp(tries) /\ UNCHANGED <<retry, at, report, late>>
         [] tries >= MaxTries /\ retry = 0 ->
                Advance /\ tries' = 0 - 1 /\ Says(Say("WARNING", "link", e)) /\ late' = TRUE /\ UNCHANGED retry
         [] OTHER -> retry' = retry - 1 /\ tries' = 0 /\ UNCHANGED <<at, report, late>>
    /\ clock' = IF tries >= MaxTries /\ retry > 0 THEN clock \ {e} ELSE clock
    /\ up' = up \cap {o \in Ends : {o, Partner(o)} \subseteq clock'}
    /\ UNCHANGED <<config, counts, erred, parts, found, control, left, bad, errors>>

\* A link that was seen up once counts; each poll reads all links of a board.
waitForLinkUp ==
    LET ends == EndsOf(step[2]) IN
    /\ At("waitForLinkUp")
    /\ IF ends \subseteq lnkup \/ tries = MaxTries
       THEN Advance /\ tries' = 0 - 1 /\ UNCHANGED lnkup
       ELSE /\ lnkup' = lnkup \cup {e \in ends : isGtxDomainReady(e) /\ e \in up}
            /\ tries' = tries + 1 /\ UNCHANGED at
    /\ UNCHANGED <<config, signals, parts, sysclk, ready, devnr, result, retry, control, history, report>>

AllUp ==
    /\ At("allUp")
    /\ IF lnkup = Ends
       THEN Advance /\ UNCHANGED <<report, control, late>>
       ELSE Stop("aborted") /\ late' = TRUE /\ UNCHANGED at
            /\ Says(UNION {Say("ERROR", "link", e) : e \in Ends})
    /\ lnkup' = {}
    /\ UNCHANGED <<config, signals, parts, sysclk, ready, devnr, result, waits, left, bad, errors>>

checkErrorCounters ==
    /\ At("checkErrorCounters")
    /\ Says(Say(IF result THEN "ERROR" ELSE "passed", "board", 2 * step[3] + step[2]))
    /\ result' = FALSE /\ Advance
    /\ UNCHANGED <<config, signals, parts, sysclk, ready, lnkup, devnr, waits, control, history>>

-----------------------------------------------------------------------------
(* The programs run.                                                        *)

Finish == /\ outcome = "running" /\ at > Len(Program[tool])
          /\ Stop("finished")
          /\ UNCHANGED <<config, signals, parts, found, waits, history, at, report>>

Step == \/ Skip \/ ReadAndPrint \/ Precondition \/ SysClk \/ checkAndReleaseQsfpResets \/ checkAndReleaseGtxReset
        \/ WaitForClock \/ clearErrorCounters \/ CheckLink
        \/ CheckQsfp \/ FmcDrive \/ FmcCheck \/ FmcResult \/ CheckMicrocontroller \/ CheckFlash \/ CheckDeviceNumbers
        \/ testDmaChannel \/ handleChannelData
        \/ Configure \/ resetAllGtx \/ waitForResetDone \/ waitForLinkUp \/ AllUp \/ checkErrorCounters \/ Finish

Next == Step \/ \E e \in Ends : ClockComesUp(e) \/ LinkComesUp(e) \/ BitError(e)

Spec == Init /\ [][Next]_vars

-----------------------------------------------------------------------------
(* Properties.                                                              *)

\* Polls and retries stay within their bounds; pins driven are pins.
TypeOK ==
    /\ tries \in (0 - 1)..MaxTries /\ retry \in 0..MaxRetries
    /\ fmc.out \subseteq Pins /\ up \subseteq clock /\ clock \cap gtxReset = {}
    /\ at \in 1..Len(Program[tool]) + 1

\* A board without a fault fails no check, whatever resets it was found in,
\* whatever its error counters held and whichever modules are plugged in.
\* Excepted: a clock or a link that came too late, a configuration left by
\* another program, and flash chips whose numbers are read as the same.
NoFalseAlarm ==
    (faults = {} /\ left \notin {"engine", "rate"} /\ ~late /\ bad = {} /\ (devnr[0] = devnr[1] => devnr[0] = NoNumber)) =>
            \A m \in report : m[1] \notin {"ERROR", "FATAL", "exception"}

\* Where the test of a part is left out: for a reason that was printed, or because
\* the user asked for it.
Excused(f) ==
    \/ f[1] \in {"fpga", "spd", "ddr3", "fmc", "pin"} /\ <<"ERROR", "sysclk", 0>> \in report
    \/ f[1] = "link" /\ (<<"ERROR", "link", f[2]>> \in report \/ <<"WARNING", "qsfp", qsfpOf(f[2])>> \in report)
    \/ f[1] = "dma" /\ quick

Reported(f) ==
    \/ f[1] = "link" /\ f[2] \notin EndsOf(0)
    \/ f[1] = "pin" /\ <<"ERROR", "fmc", 0>> \in report
    \/ \E m \in report : m[2] = f[1] /\ m[3] = f[2]

\* Faults of parts that have a check which does not see them.
Missed(f) == f[3] \in {"frequency", "ones"}

ThroughBoard == outcome = "finished" /\ tool = "boardtest"

\* When boardtest has gone through, every fault has been reported: no check that
\* fails, and none that is left out, hides another one's result.  Excepted are the
\* two faults that their checks miss, see AllFaultsReported.
FaultReported == ThroughBoard => \A f \in faults : Missed(f) \/ Excused(f) \/ Reported(f)

\* Every fault of a part that is checked is reported, a reference clock and a device
\* number that are not what they should be as well.
AllFaultsReported == ThroughBoard => \A f \in faults : Excused(f) \/ Reported(f)

\* The board can be used after boardtest: nothing stays in reset that was
\* found in reset, the pins are inputs and the engine is disabled.
LeavesWorking ==
    ThroughBoard =>
        /\ gtxReset \cap EndsOf(0) = {} /\ qsfpReset \cap QsfpsOf(0) = {}
        /\ fmc.input \/ ~sysclk
        /\ ~engine \/ left = "engine"
        /\ ucReset => <<"ERROR", "uc", 0>> \in report

\* A board that passes the test at one rate has run all its links at that rate
\* without an error between the time its counters were cleared and their check.
PassedIsClean ==
    \A k \in 1..NConfigs, b \in Boards :
        <<"passed", "board", 2 * k + b>> \in report => \A e \in EndsOf(b) : <<e, k>> \notin bad

\* At every moment: waits and pins are well-formed, a finished boardtest leaves
\* a board that works, and a board that passes was clean.
BoardInv == TypeOK /\ LeavesWorking /\ PassedIsClean

=============================================================================
