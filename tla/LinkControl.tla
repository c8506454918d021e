---------------------------- MODULE LinkControl ----------------------------
(***************************************************************************)
(* The processes that configure a channel: readout programs around a run    *)
(* (dma_handling.cpp), ddlctrl, gtxctrl, and callers of single setters.     *)
(*                                                                          *)
(* A process runs a job, a sequence of register accesses; in between, every *)
(* other process may access the same registers, and a kill may end it.  The *)
(* transceiver is configured through registers of its own behind one command *)
(* register (DRP).  The board is external: it executes the DRP commands,    *)
(* starts and stops clocks and signals the outcomes that are polled.        *)
(***************************************************************************)
EXTENDS RegisterFields, SequencesExt, FiniteSets

CONSTANTS
    Readout, Tool, Caller,  \* processes: readout programs, tools, others
    Firmwares,      \* what a channel can have: sets of "FCF", "PG", "SIU", "RAW"
    Sources,        \* data sources of the readout programs
    Configs,        \* PLL configurations that gtxctrl is asked for
    Polls, Retries, \* bounds of the code's waits, and of their repetitions
    MaxJobs, MaxKills   \* bounds: jobs of programs, and of a caller

Process == Readout \cup Tool \cup Caller

\* A process may run one program after the other, a caller is on its own.
ASSUME OwnCaller == Caller \cap (Readout \cup Tool) = {}

NoCopies == [copy |-> {}, word |-> <<>>]

VARIABLES
    bits,       \* control registers
    local,      \* the copies each process has: of a register, of a DRP answer
    run,        \* the job of each process and its next access, polls left there
    firmware, clock,    \* what the channel has; its DDL clock runs
    drp, word,  \* DRP_CTRL: the command under way, the last word; and the DRP registers
    jobs, kills,    \* number of jobs begun, and of kills
    disturbed,  \* history: what others wrote since the process began its job
    torn,       \* history: the last change of the PLL was cut short
    want,       \* history: what callers wrote, and nothing written since covers
    lost        \* history: what of it a write of an older copy has undone

processVars == <<run, jobs, kills>>
drpVars     == <<drp, word>>
setterVars  == <<want, lost>>
history     == <<disturbed, torn, setterVars>>
vars == <<bits, local, processVars, firmware, clock, drpVars, history>>

-----------------------------------------------------------------------------
(* PLL configurations and the DRP registers they go to.                     *)

gtxpll_supported_cfgs ==
    << [clk25_div |->  9, n1 |-> 5, n2 |-> 2, d |-> 2, m |-> 1, tx_tdcc_cfg |-> 0, cp_cfg |-> 13],
       [clk25_div |-> 10, n1 |-> 4, n2 |-> 2, d |-> 1, m |-> 1, tx_tdcc_cfg |-> 3, cp_cfg |-> 13],
       [clk25_div |->  9, n1 |-> 5, n2 |-> 2, d |-> 1, m |-> 1, tx_tdcc_cfg |-> 3, cp_cfg |-> 13],
       [clk25_div |->  9, n1 |-> 5, n2 |-> 5, d |-> 1, m |-> 2, tx_tdcc_cfg |-> 3, cp_cfg |-> 7],
       [clk25_div |->  7, n1 |-> 5, n2 |-> 2, d |-> 1, m |-> 1, tx_tdcc_cfg |-> 3, cp_cfg |-> 13] >>

\* Register representation of a parameter.
val2reg(name, val) == CASE name = "n2" -> CASE val = 2 -> 0 [] val = 4 -> 2 [] OTHER -> 3
                        [] name = "n1" -> IF val = 5 THEN 1 ELSE 0
                        [] name = "d" -> CASE val = 1 -> 0 [] val = 2 -> 1 [] OTHER -> 2
                        [] name = "m" -> IF val = 1 THEN 16 ELSE 0
                        [] name = "clk25_div" -> val - 1
                        [] OTHER -> val
reg2val(name, reg) == CASE name = "n2" -> CASE reg = 0 -> 2 [] reg = 2 -> 4 [] OTHER -> 5
                        [] name = "n1" -> IF reg = 1 THEN 5 ELSE 4
                        [] name = "d" -> CASE reg = 0 -> 1 [] reg = 1 -> 2 [] OTHER -> 4
                        [] name = "m" -> IF reg = 16 THEN 1 ELSE 2
                        [] name = "clk25_div" -> reg + 1
                        [] OTHER -> reg

\* Address and parameter of each field, in the order they are written.
PllFields == << <<"1f", "n1">>, <<"1f", "n2">>, <<"1f", "d">>, <<"20", "m">>, <<"23", "clk25_div">>, <<"1e", "cp_cfg">>,
                <<"1b", "n1">>, <<"1b", "n2">>, <<"1b", "d">>, <<"1c", "m">>, <<"17", "clk25_div">>, <<"1a", "cp_cfg">>,
                <<"39", "tx_tdcc_cfg">> >>
EyeOffset == <<"2d", "offset">>
DrpFields == Range(PllFields) \cup {EyeOffset}
DrpAddr   == {f[1] : f \in DrpFields} \cup {"0"}
FieldsAt(addr) == {f[2] : f \in {g \in DrpFields : g[1] = addr}} \cup {"other bits"}
TxSide == {"1f", "20", "23", "1e", "39"}
RxSide == {"1b", "1c", "17", "1a", "39"}

Kept == 99  \* bits that no field covers, and the initial eye offset
ConfiguredWord(c) == [addr \in DrpAddr |-> [name \in FieldsAt(addr) |->
    IF <<addr, name>> \in Range(PllFields) THEN val2reg(name, gtxpll_supported_cfgs[c][name]) ELSE Kept]]

-----------------------------------------------------------------------------
(* Jobs.                                                                    *)

Read(reg)        == [do |-> "read", reg |-> reg]
Write(reg, sets) == [do |-> "write", reg |-> reg, sets |-> sets]
\* Polls until cond holds; a success skips accesses.
Poll(cond, left, skip) == [do |-> "poll", cond |-> cond, left |-> left, skip |-> skip]
Forever == 0 - 1
Abort   == [do |-> "abort"]

Set(f, value) == << Read(f.reg), Write(f.reg, <<<<f, value>>>>) >>
SetAll(sets)  == FlattenSeq([k \in DOMAIN sets |-> Set(sets[k][1], sets[k][2])])
Pulse(f)      == << Read(f.reg), Write(f.reg, <<<<f, On>>>>), Write(f.reg, <<<<f, Off>>>>) >>

fcf == fastclusterfinder
pg  == patterngenerator

FcfSettings == << <<fcf.SinglePadSuppression, Off>>, <<fcf.BypassMerger, Off>>, <<fcf.DeconvPad, On>>,
                  <<fcf.SingleSeqLimit, Off>>, <<fcf.ClusterLowerLimit, {2, 4}>>, <<fcf.MergerDistance, {3}>>,
                  <<fcf.MergerAlgorithm, On>>, <<fcf.ChargeTolerance, Off>> >>

\* Mutant of configureFcf: released from reset before it is configured.
FcfReleasedFirst ==
    SetAll(<< <<fcf.Reset, On>>, <<fcf.Enable, Off>>, <<fcf.Bypass, On>> >>) \o Pulse(fcf.clearErrors)
        \o SetAll(<< <<fcf.Reset, Off>> >>) \o SetAll(FcfSettings) \o SetAll(<< <<fcf.Enable, On>> >>)

configureFcf ==
    SetAll(<< <<fcf.Reset, On>>, <<fcf.Enable, Off>>, <<fcf.Bypass, On>> >>) \o Pulse(fcf.clearErrors)
        \o SetAll(FcfSettings) \o SetAll(<< <<fcf.Reset, Off>>, <<fcf.Enable, On>> >>)

unconfigureFcf == SetAll(<< <<fcf.Reset, On>>, <<fcf.Enable, Off>> >>)

configureMode == << Read("DDL_CTRL"), Write("DDL_CTRL", << <<pg.mode, Off>>, <<pg.continuous, On>> >>) >>

resetEventId == Pulse(pg.eventid_rst)

configurePatternGenerator ==
    configureMode \o resetEventId
        \o SetAll(<< <<pg.prbs, Off>>, <<link.DataSourceMux, {2}>>, <<pg.enable, On>> >>)

\* The generator is disabled only if it is enabled.
disable == << Read("DDL_CTRL"), [do |-> "unless", bit |-> 8, skip |-> 2],
              Write("DDL_CTRL", <<<<pg.enable, Off>>>>), Poll("pgDone", Polls, 0) >>

IfHas(has, part, job) == IF part \in has THEN job ELSE <<Abort>>
IfFcf(has, job)       == IF "FCF" \in has THEN job ELSE <<>>

ConfigureOnceReady(has, source, toDevice) ==
    SetAll(<< <<link.FlowControlEnable, On>>, <<link.ChannelActive, On>> >>)
    \o (IF toDevice /\ source # "NONE" THEN IfHas(has, "SIU", SetAll(<< <<ddl.Reset, Off>>, <<ddl.Enable, On>> >>)) ELSE <<>>)
    \o IfFcf(has, configureFcf)
    \o CASE source = "HWPG" -> IfHas(has, "PG", configurePatternGenerator)
         [] source = "DMA"  -> Set(link.DataSourceMux, Off)
         [] source = "RAW"  -> IfHas(has, "RAW", Set(ddl.Enable, On))
         [] source = "DDR3" -> Set(link.DataSourceMux, {1})
         [] OTHER -> <<>>

\* Mutant of configureDataSource: waits for another clock domain.
WaitForGtxDomain(has, source, toDevice) ==
    <<Poll("gtxDomain", Forever, 0)>> \o ConfigureOnceReady(has, source, toDevice)

configureDataSource(has, source, toDevice) ==
    <<Poll("ddlDomain", Forever, 0)>> \o ConfigureOnceReady(has, source, toDevice)

\* Mutant of unconfigureDataSource: as for a source that needs no tear-down.
UnconfigureLinkOnly(has, source, toDevice) == Set(link.FlowControlEnable, Off) \o Set(link.ChannelActive, Off)

unconfigureDataSource(has, source, toDevice) ==
    (IF toDevice THEN <<>> ELSE Set(link.FlowControlEnable, Off))
    \o Set(link.ChannelActive, Off)
    \o IfFcf(has, unconfigureFcf)
    \o (CASE source = "HWPG" -> IfHas(has, "PG", disable)
          [] source = "RAW"  -> IfHas(has, "RAW", Set(ddl.Enable, Off))
          [] OTHER -> <<>>)
    \o (IF toDevice /\ source # "NONE" THEN IfHas(has, "SIU", Set(ddl.Enable, Off)) ELSE <<>>)

drpRead(addr) == << [do |-> "drp", cmd |-> "read", addr |-> addr], [do |-> "drpWait"] >>

\* A field that is unchanged is not written.
drpUpdateField(field, value) ==
    drpRead(field[1])
    \o << [do |-> "drpWrite", addr |-> field[1], name |-> field[2], value |-> value, skip |-> 3], [do |-> "drpWait"] >>
    \o drpRead("0")

\* Mutant of drpSetPllConfig: the transmitter's half.
PllTxOnly(c) ==
    FlattenSeq([k \in 1..6 |->
        LET name == PllFields[k][2] IN drpUpdateField(PllFields[k], val2reg(name, gtxpll_supported_cfgs[c][name]))])

drpSetPllConfig(c) ==
    FlattenSeq([k \in DOMAIN PllFields |->
        LET name == PllFields[k][2] IN drpUpdateField(PllFields[k], val2reg(name, gtxpll_supported_cfgs[c][name]))])

InReset == <<gtx.Reset, On>>
Released == <<gtx.Reset, Off>>
GtxReset == Field("GTX_ASYNC_CFG", "bit0", <<0>>)

\* One read of GTX_ASYNC_CFG, and all writes from this copy; c = 0: no -p.
gtxctrl(sets, c) ==
    <<Read("GTX_ASYNC_CFG")>> \o (IF sets = <<>> THEN <<>> ELSE <<Write("GTX_ASYNC_CFG", sets)>>)
    \o (IF c = 0 THEN <<>> ELSE <<Write("GTX_ASYNC_CFG", <<<<GtxReset, On>>>>)>> \o drpSetPllConfig(c)
                                 \o <<Write("GTX_ASYNC_CFG", <<<<GtxReset, Off>>>>)>>)

\* Resets the receiver until the link is up, or the retries are used up.
rxInitialize ==
    LET tries[n \in 0..Retries] ==
            IF n = 0 THEN <<>>
            ELSE SetAll(<< <<gtx.RxReset, On>>, <<gtx.RxReset, Off>> >>)
                     \o <<Poll("linkUp", Polls, Len(tries[n - 1]))>> \o tries[n - 1]
    IN tries[Retries]

\* The board test: reset, configuration, release with retries.
resetAndConfigureGtx(c) ==
    LET release[n \in 0..Retries] ==
            IF n = 0 THEN <<Poll("gtxDomain", Polls, 0)>>
            ELSE LET again == SetAll(<<InReset, Released>>) \o release[n - 1]
                 IN  <<Poll("gtxDomain", Polls, Len(again))>> \o again
    IN SetAll(<<InReset>>) \o drpSetPllConfig(c) \o SetAll(<<Released>>) \o release[Retries]

\* Some of the options of the tools (bound).
DdlctrlFields == {pg.enable, link.DataSourceMux}
GtxctrlFields == {gtx.Reset, gtx.TxDiffCtrl}

\* All jobs, by their names.
ToolJobs == {<<"rxInitialize">>, <<"setDrpRxEyeOffset">>}
    \cup {<<"set", f, v>> : f \in DdlctrlFields, v \in {Off, On}}
    \cup {<<"gtxctrl", <<<<f, v>>>>, 0>> : f \in GtxctrlFields, v \in {Off, On}}
    \cup {<<"gtxctrl", <<>>, c>> : c \in Configs}
    \cup {<<"resetAndConfigureGtx", c>> : c \in Configs}
SourceJobs == {"configureDataSource", "unconfigureDataSource"} \X Firmwares \X Sources \X BOOLEAN
Setters  == UNION {{<<"set", f, v>> : v \in Values(f)} : f \in Settable}
JobNames == ToolJobs \cup SourceJobs \cup Setters

Job == <<"none">> :> <<>> @@ [j \in JobNames |->
    CASE j[1] = "configureDataSource" -> configureDataSource(j[2], j[3], j[4])
      [] j[1] = "unconfigureDataSource" -> unconfigureDataSource(j[2], j[3], j[4])
      [] j[1] = "gtxctrl" -> gtxctrl(j[2], j[3])
      [] j[1] = "resetAndConfigureGtx" -> resetAndConfigureGtx(j[2])
      [] j[1] = "rxInitialize" -> rxInitialize
      [] j[1] = "setDrpRxEyeOffset" -> drpUpdateField(EyeOffset, 0)
      [] OTHER -> Set(j[2], j[3])]

IsPllJob(j) == j[1] = "resetAndConfigureGtx" \/ (j[1] = "gtxctrl" /\ j[3] # 0)
UsesDrp(j)  == IsPllJob(j) \/ j[1] = "setDrpRxEyeOffset"

-----------------------------------------------------------------------------
(* The board.                                                               *)

On0(bit)  == bit \in bits["GTX_ASYNC_CFG"]
isDdlDomainReady == clock /\ ~On0(0)
isGtxDomainReady == clock /\ ~On0(0) /\ ~On0(1) /\ ~On0(3)

Outcomes(cond) == CASE cond = "ddlDomain" -> {isDdlDomainReady}
                    [] cond = "gtxDomain" -> {isGtxDomainReady}
                    [] OTHER -> BOOLEAN

\* The command under way takes effect.
Executed == IF drp.cmd = "write" THEN [word EXCEPT ![drp.addr] = drp.data] ELSE word

DrpExecutes ==
    /\ drp.busy
    /\ word' = Executed
    /\ drp' = [drp EXCEPT !.busy = FALSE, !.data = word'[drp.addr]]
    /\ UNCHANGED <<bits, local, processVars, firmware, clock, history>>

ClockStarts ==
    /\ ~clock /\ ~On0(0)
    /\ clock' = TRUE
    /\ UNCHANGED <<bits, local, processVars, firmware, drpVars, history>>

-----------------------------------------------------------------------------

Idle   == [job |-> <<"none">>, at |-> 1, left |-> 0]

Init ==
    /\ bits = [reg \in Registers |-> {}]
    /\ local = [p \in Process |-> NoCopies]
    /\ run = [p \in Process |-> Idle]
    /\ firmware \in Firmwares
    /\ clock = TRUE
    /\ word = ConfiguredWord(1)
    /\ drp = [busy |-> FALSE, cmd |-> "read", addr |-> "0", data |-> word["0"]]
    /\ jobs = 0 /\ kills = 0
    /\ disturbed = [p \in Process |-> {}]
    /\ torn = FALSE
    /\ want = {} /\ lost = {}

Program(p) == Job[run[p].job]
Done(p) == run[p].at > Len(Program(p))
DoneWith(p, name) == run[p].job[1] = name /\ Done(p)

\* Where the accesses from position n of a job continue.
From(name, n) == [job |-> name, at |-> n,
                  left |-> IF n <= Len(Job[name]) /\ Job[name][n].do = "poll" THEN Job[name][n].left ELSE 0]

\* A command of an earlier job has had time to end.
Begin(p, name) ==
    /\ Done(p) /\ ~drp.busy
    /\ run' = [run EXCEPT ![p] = From(name, 1)]
    /\ disturbed' = [disturbed EXCEPT ![p] = {}]
    /\ UNCHANGED <<bits, local, firmware, clock, drpVars, kills, torn>>

\* Programs and single calls are explored in behaviours of their own (bound).
BeginProgram(p, name) ==
    /\ jobs < MaxJobs /\ \A c \in Caller : run[c] = Idle
    /\ Begin(p, name)
    /\ jobs' = jobs + 1
    /\ UNCHANGED setterVars

Configure(p) == \E source \in Sources, toDevice \in BOOLEAN :
    /\ ~DoneWith(p, "configureDataSource")
    /\ BeginProgram(p, <<"configureDataSource", firmware, source, toDevice>>)

Unconfigure(p) ==
    /\ DoneWith(p, "configureDataSource")
    /\ Begin(p, [run[p].job EXCEPT ![1] = "unconfigureDataSource"])
    /\ UNCHANGED <<jobs, setterVars>>

Reconfigures(p) == ~Done(p) /\ IsPllJob(run[p].job)

\* One process uses the DRP at a time (bound).
UseTool(p) == \E name \in ToolJobs :
    /\ ~DoneWith(p, "configureDataSource")
    /\ UsesDrp(name) => \A q \in Process : Done(q) \/ ~UsesDrp(run[q].job)
    /\ BeginProgram(p, name)

\* The calls of two callers overlap in every way; all go to one register (bound).
Call(p) == \E f \in Settable : \E value \in Values(f) :
    /\ jobs < MaxJobs /\ kills = 0 /\ \A q \in Readout \cup Tool : run[q] = Idle
    /\ \A q \in Caller : run[q] # Idle => run[q].job[2].reg = f.reg
    /\ Begin(p, <<"set", f, value>>)
    /\ jobs' = jobs + 1
    /\ UNCHANGED setterVars

-----------------------------------------------------------------------------
(* One access of a process.                                                 *)

Disturb(p, what) == [q \in Process |-> IF q = p THEN disturbed[q] ELSE disturbed[q] \cup {what}]

\* Continues with access n; the job may end with this.
Continue(p, n) ==
    /\ run' = [run EXCEPT ![p] = From(run[p].job, n)]
    /\ torn' = (torn /\ ~(n > Len(Program(p)) /\ IsPllJob(run[p].job)))
    /\ UNCHANGED <<firmware, jobs, kills>>

step(p) == Program(p)[run[p].at]
Is(p, do) == ~Done(p) /\ step(p).do = do
\* Past this access and n more.
Skip(p, n) == run[p].at + n + 1

ReadRegister(p) ==
    /\ Is(p, "read")
    /\ local' = [local EXCEPT ![p].copy = bits[step(p).reg]]
    /\ Continue(p, Skip(p, 0))
    /\ UNCHANGED <<bits, clock, drpVars, disturbed, setterVars>>

\* A caller's write covers what was set there before.  A write from a copy that is
\* out of date undoes what others set since the copy was read.
Overlap(f, g) == f.reg = g.reg /\ Mask(f) \cap Mask(g) # {}

Record(p, set, new) ==
    LET current == bits[set[1].reg]
        undone  == {w \in want : /\ local[p].copy # current /\ w[1].reg = set[1].reg
                                 /\ Get(new, w[1]) # Get(current, w[1])}
    IN  IF p \in Caller
        THEN /\ want' = {w \in want : ~Overlap(w[1], set[1])} \cup {set}
             /\ lost' = ((lost \cup undone) \cap want') \ {set}
        ELSE UNCHANGED setterVars

\* The bits are changed in the copy, and the copy is written.
WriteRegister(p) ==
    /\ Is(p, "write")
    /\ LET s == step(p)
           new == FoldLeft(LAMBDA content, set : Updated(content, set[1], set[2]), local[p].copy, s.sets)
       IN  /\ bits' = [bits EXCEPT ![s.reg] = new]
           /\ local' = [local EXCEPT ![p].copy = IF run[p].at = Len(Program(p)) THEN {} ELSE new]
           /\ clock' = (clock /\ (s.reg = "GTX_ASYNC_CFG" => 0 \notin new))
           /\ disturbed' = Disturb(p, s.reg)
          /\ Record(p, s.sets[1], new)
    /\ Continue(p, Skip(p, 0))
    /\ UNCHANGED drpVars

PollCondition(p) ==
    /\ Is(p, "poll")
    /\ \/ /\ run[p].left = 0
          /\ Continue(p, Skip(p, 0))
       \/ /\ run[p].left # 0 /\ TRUE \in Outcomes(step(p).cond)
          /\ Continue(p, Skip(p, step(p).skip))
       \/ /\ run[p].left > 0 /\ FALSE \in Outcomes(step(p).cond)
          /\ run' = [run EXCEPT ![p].left = @ - 1]
          /\ UNCHANGED <<firmware, jobs, kills, torn>>
    /\ UNCHANGED <<bits, local, clock, drpVars, disturbed, setterVars>>

Unless(p) ==
    /\ Is(p, "unless")
    /\ Continue(p, Skip(p, IF step(p).bit \in local[p].copy THEN 0 ELSE step(p).skip))
    /\ UNCHANGED <<bits, local, clock, drpVars, disturbed, setterVars>>

AbortProgram(p) ==
    /\ Is(p, "abort")
    /\ run' = [run EXCEPT ![p] = Idle] /\ local' = [local EXCEPT ![p] = NoCopies]
    /\ UNCHANGED <<bits, firmware, clock, drpVars, jobs, kills, history>>

Command(cmd, addr, data) == drp' = [busy |-> TRUE, cmd |-> cmd, addr |-> addr, data |-> data]

drpReadCommand(p) ==
    /\ Is(p, "drp")
    /\ Command("read", step(p).addr, <<>>)
    /\ Continue(p, Skip(p, 0))
    /\ UNCHANGED <<bits, local, clock, word, disturbed, setterVars>>

\* The answer is used: to write the word back with one field changed.
Used(p) == run[p].at < Len(Program(p)) /\ Program(p)[run[p].at + 1].do = "drpWrite"

waitForDrpDenToDeassert(p) ==
    /\ Is(p, "drpWait") /\ ~drp.busy
    /\ local' = [local EXCEPT ![p].word = IF Used(p) THEN drp.data ELSE <<>>]
    /\ Continue(p, Skip(p, 0))
    /\ UNCHANGED <<bits, clock, drpVars, disturbed, setterVars>>

drpWriteCommand(p) ==
    /\ Is(p, "drpWrite")
    /\ LET new == [local[p].word EXCEPT ![step(p).name] = step(p).value]
       IN  IF new # local[p].word
           THEN Command("write", step(p).addr, new) /\ Continue(p, Skip(p, 0))
           ELSE Continue(p, Skip(p, step(p).skip)) /\ UNCHANGED drp
    /\ local' = [local EXCEPT ![p].word = <<>>]
    /\ UNCHANGED <<bits, clock, word, disturbed, setterVars>>

Step(p) == \/ ReadRegister(p) \/ WriteRegister(p) \/ PollCondition(p) \/ Unless(p) \/ AbortProgram(p)
           \/ drpReadCommand(p) \/ waitForDrpDenToDeassert(p) \/ drpWriteCommand(p)

Kill(p) ==
    /\ kills < MaxKills /\ ~Done(p) /\ p \notin Caller
    /\ kills' = kills + 1
    /\ run' = [run EXCEPT ![p] = Idle] /\ local' = [local EXCEPT ![p] = NoCopies]
    /\ torn' = (torn \/ IsPllJob(run[p].job))
    /\ UNCHANGED <<bits, firmware, clock, drpVars, jobs, disturbed, setterVars>>

Next == \/ DrpExecutes \/ ClockStarts
        \/ \E p \in Process : Step(p) \/ Kill(p)
        \/ \E p \in Readout : Configure(p) \/ Unconfigure(p)
        \/ \E p \in Tool : UseTool(p)
        \/ \E p \in Caller : Call(p)

Fairness == WF_vars(DrpExecutes) /\ WF_vars(ClockStarts) /\ \A p \in Process : WF_vars(Step(p))

Spec == Init /\ [][Next]_vars /\ Fairness

-----------------------------------------------------------------------------
(* Properties.                                                              *)

\* Registers hold bits 0 to 31, a DRP register its own fields, and no process
\* skips past the end of its job.
TypeOK ==
    /\ \A reg \in Registers : bits[reg] \subseteq 0..31
    /\ \A addr \in DrpAddr : DOMAIN word[addr] = FieldsAt(addr)
    /\ \A p \in Process : run[p].job \in DOMAIN Job /\ run[p].at \in 1..Len(Program(p)) + 1
    /\ jobs \in 0..MaxJobs /\ kills \in 0..MaxKills

ReadBack(w) == w[1] \in Deviating \/ Get(bits[w[1].reg], w[1]) = w[2] \cap DOMAIN w[1].bits

\* What was set through the classes of the library is read back, whichever other
\* fields were set since, from any process, unless a setter that had read the
\* register before wrote it afterwards: see SettersKept.
SettersExact == \A w \in want \ lost : ReadBack(w)

\* What was set is read back until something else is set there, as the
\* descriptions of the setters and getters say.
SettersKept == \A w \in want : ReadBack(w)

GetDdl(f) == Get(bits["DDL_CTRL"], f)
SetsUp(p) == run[p].job[1] = "configureDataSource" /\ "DDL_CTRL" \notin disturbed[p]

\* Everything a generated event needs: a pattern without end, event IDs that count,
\* no random sizes, on a channel that takes its data from the generator.
GeneratorReady ==
    /\ GetDdl(pg.mode) = Off /\ GetDdl(pg.continuous) = On
    /\ GetDdl(pg.eventid_rst) = Off /\ GetDdl(pg.prbs) = Off
    /\ GetDdl(link.DataSourceMux) = {2}
    /\ GetDdl(link.ChannelActive) = On /\ GetDdl(link.FlowControlEnable) = On

\* A readout program that nobody disturbs enables a pattern generator that is off
\* when everything it needs is set up.  A generator that a killed program left
\* running is configured while it runs; see ReadyAfterSetUp for what it is then.
GeneratorStartsConfigured ==
    [][\A p \in Readout :
          (SetsUp(p) /\ run'[p].at > run[p].at /\ GetDdl(pg.enable) = Off /\ GetDdl(pg.enable)' = On) =>
              GeneratorReady']_vars

Setting(f) == Get(bits[f.reg], f)

\* After a set-up that nobody disturbed the run has the source it asked for, active
\* and configured, whatever an earlier program, killed or not, has left behind.
ReadyAfterSetUp ==
    \A p \in Readout :
        (DoneWith(p, "configureDataSource")
           /\ disturbed[p] \cap {"DDL_CTRL", "FCF_CTRL", "FCF_LIMITS"} = {}) =>
            /\ GetDdl(link.ChannelActive) = On /\ GetDdl(link.FlowControlEnable) = On
            /\ run[p].job[3] = "HWPG" => GeneratorReady /\ GetDdl(pg.enable) = On
            /\ run[p].job[3] = "DMA" => GetDdl(link.DataSourceMux) = Off
            /\ run[p].job[3] = "RAW" \/ (run[p].job[4] /\ run[p].job[3] # "NONE") => GetDdl(ddl.Enable) = On
            /\ "FCF" \in firmware =>
                   /\ Setting(fcf.Reset) = Off /\ Setting(fcf.Enable) = On
                   /\ \A k \in DOMAIN FcfSettings : Setting(FcfSettings[k][1]) = FcfSettings[k][2]

\* The settings of the cluster finder change only while it is in reset.
FcfConfiguredInReset ==
    [][(\E k \in DOMAIN FcfSettings : Setting(FcfSettings[k][1])' # Setting(FcfSettings[k][1]))
          => Setting(fcf.Reset) = On \/ want' # {}]_vars

\* After the tear-down of a run that nobody disturbed nothing of the channel
\* produces data: its source is off, the cluster finder in reset.
QuietAfterTearDown ==
    \A p \in Readout :
        (DoneWith(p, "unconfigureDataSource") /\ disturbed[p] \cap {"DDL_CTRL", "FCF_CTRL"} = {}) =>
            /\ GetDdl(link.ChannelActive) = Off
            /\ run[p].job[4] \/ GetDdl(link.FlowControlEnable) = Off
            /\ "FCF" \in firmware => Setting(fcf.Reset) = On /\ Setting(fcf.Enable) = Off
            /\ run[p].job[3] = "HWPG" => GetDdl(pg.enable) = Off
            /\ run[p].job[3] = "RAW" \/ (run[p].job[4] /\ run[p].job[3] # "NONE") => GetDdl(ddl.Enable) = Off

PllAs(c, side) ==
    \A f \in {g \in Range(PllFields) : g[1] \in side} :
        reg2val(f[2], word[f[1]][f[2]]) = gtxpll_supported_cfgs[c][f[2]]

\* Outside of a reconfiguration, a transceiver that is out of reset runs both
\* directions with one configuration of the table, read back as it is written,
\* unless the last reconfiguration was cut short.
PllCoherent ==
    (~On0(0) /\ ~torn /\ ~drp.busy /\ \A p \in Process : ~Reconfigures(p)) =>
        \E c \in DOMAIN gtxpll_supported_cfgs : PllAs(c, TxSide) /\ PllAs(c, RxSide)

\* The PLL is changed while the transceiver is in reset, unless another
\* process wrote the register of the reset meanwhile.
PllChangesInReset ==
    [][(\E f \in Range(PllFields) : word'[f[1]][f[2]] # word[f[1]][f[2]]) =>
          On0(0) \/ \E p \in Process : "GTX_ASYNC_CFG" \in disturbed[p]]_vars

\* Every job ends: the only wait without a bound is for the clock of the
\* channel, and it ends unless the transceiver is left in reset.
JobsEnd == \A p \in Process : []<>(Done(p) \/ On0(0))

\* At every moment: registers are well-formed, setters keep to their field, a channel
\* that was set up is ready, and one whose run is over is quiet (dma_handling.cpp,
\* configureDataSource() and unconfigureDataSource()).
LinkInv == TypeOK /\ SettersExact /\ ReadyAfterSetUp /\ QuietAfterTearDown

\* The pattern generator is not switched on before it is configured, and neither
\* cluster finder nor transceiver is configured out of its reset.
ConfiguredInOrder == GeneratorStartsConfigured /\ FcfConfiguredInReset /\ PllChangesInReset

=============================================================================
