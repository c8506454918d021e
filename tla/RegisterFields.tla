--------------------------- MODULE RegisterFields ---------------------------
(***************************************************************************)
(* The fields of the control registers, as the classes of the library set   *)
(* and get them.  A setter reads the register, clears and sets bits in its  *)
(* copy, and writes it back; a register is the set of its bits that are 1,  *)
(* the value of a field a set of positions in it.                           *)
(***************************************************************************)
EXTENDS Integers, Sequences, Functions

\* The field's bits, the lowest first.
Field(reg, name, at) == [reg |-> reg, name |-> name, bits |-> at]
At(low, width) == [k \in 1..width |-> low + k - 1]

DdlCtrl(name, at) == Field("DDL_CTRL", name, at)
link == [FlowControlEnable |-> DdlCtrl("FlowControlEnable", <<1>>),
         ChannelActive     |-> DdlCtrl("ChannelActive", <<3>>),
         DataSourceMux     |-> DdlCtrl("DataSourceMux", At(16, 2))]
ddl  == [Enable |-> DdlCtrl("Enable", <<0>>), Reset |-> DdlCtrl("Reset", <<31>>)]
diu  == [ForcedXoff |-> DdlCtrl("ForcedXoff", <<6>>)]
patterngenerator ==
        [enable     |-> DdlCtrl("enable", <<8>>),
         eventid_rst |-> DdlCtrl("eventid_rst", <<9>>),
         continuous |-> DdlCtrl("continuous", <<10>>),
         mode       |-> DdlCtrl("mode", At(11, 2)),
         prbs       |-> DdlCtrl("prbs", <<13>>)]

FcfCtrl(name, at) == Field("FCF_CTRL", name, at)
Limits(name, at)  == Field("FCF_LIMITS", name, at)
Limits2(name, at) == Field("FCF_LIMITS2", name, at)
fastclusterfinder ==
        [Enable      |-> FcfCtrl("FcfEnable", <<0>>),
         clearErrors |-> FcfCtrl("clearErrors", <<1>>),
         SinglePadSuppression |-> FcfCtrl("SinglePadSuppression", <<2>>),
         BypassMerger |-> FcfCtrl("BypassMerger", <<3>>),
         DeconvPad   |-> FcfCtrl("DeconvPad", <<4>>),
         MergerAlgorithm |-> FcfCtrl("MergerAlgorithm", <<5>>),
         Bypass      |-> FcfCtrl("Bypass", <<13>>),
         BranchOverride |-> FcfCtrl("BranchOverride", <<14>>),
         Reset       |-> FcfCtrl("FcfReset", <<15>>),
         TagDeconvolutedClusters |-> FcfCtrl("TagDeconvolutedClusters", At(16, 2)),
         SplitClusterTagging |-> FcfCtrl("SplitClusterTagging", At(16, 2)),
         NoiseSuppressionNeighbor |-> FcfCtrl("NoiseSuppressionNeighbor", At(18, 2)),
         TagBorderClusters |-> FcfCtrl("TagBorderClusters", <<20>>),
         CorrectEdgeClusters |-> FcfCtrl("CorrectEdgeClusters", <<21>>),
         ClusterLowerLimit |-> Limits("ClusterLowerLimit", At(0, 16)),
         SingleSeqLimit |-> Limits("SingleSeqLimit", At(16, 8)),
         MergerDistance |-> Limits("MergerDistance", At(24, 4)),
         ChargeTolerance |-> Limits("ChargeTolerance", At(28, 4)),
         ClusterQmaxLowerLimit |-> Limits2("ClusterQmaxLowerLimit", At(0, 11)),
         NoiseSuppressionMinimum |-> Limits2("NoiseSuppressionMinimum", At(24, 4)),
         NoiseSuppression |-> Limits2("NoiseSuppression", At(28, 4))]

eventfilter == [FilterMask |-> Field("FILTER_CTRL", "FilterMask", At(0, 24)),
                FilterAll  |-> Field("FILTER_CTRL", "FilterAll", <<31>>)]

Replay(name, at) == Field("DATA_REPLAY_CHANNEL_CTRL", name, at)
datareplaychannel ==
        [Enable |-> Replay("ReplayEnable", <<0>>), ModeContinuous |-> Replay("ModeContinuous", <<1>>),
         ModeOneshot |-> Replay("ModeOneshot", <<2>>), StartAddress |-> Replay("StartAddress", At(3, 28)),
         Reset |-> Replay("ReplayReset", <<31>>)]

AsyncCfg(name, at) == Field("GTX_ASYNC_CFG", name, at)
gtx == [Reset |-> AsyncCfg("GtxReset", <<0, 1, 3>>), Loopback |-> AsyncCfg("Loopback", At(9, 3)),
        RxReset |-> AsyncCfg("RxReset", <<1>>), TxReset |-> AsyncCfg("TxReset", <<3>>),
        TxDiffCtrl |-> AsyncCfg("TxDiffCtrl", At(16, 4)), TxPreEmph |-> AsyncCfg("TxPreEmph", At(20, 4)),
        TxPostEmph |-> AsyncCfg("TxPostEmph", At(24, 5)), RxEqMix |-> AsyncCfg("RxEqMix", At(29, 3)),
        DfeTapOverride |-> Field("GTX_CTRL", "DfeTapOverride", <<4>>),
        DfeTaps |-> Field("GTX_RXDFE", "DfeTaps", At(0, 18))]

\* Registers that all channels share.
sysmon == [ddr3Reset0 |-> Field("DDR3_CTRL", "ddr3Reset0", <<0>>), ddr3Reset1 |-> Field("DDR3_CTRL", "ddr3Reset1", <<16>>),
           BracketLedMode |-> Field("BRACKET_LED_CTRL", "BracketLedMode", <<31>>),
           Linkmask |-> Field("BRACKET_LED_CTRL", "Linkmask", At(0, 31)),
           MOD_RST_N0 |-> Field("QSFP_LED_CTRL", "MOD_RST_N0", <<3>>), MOD_RST_N1 |-> Field("QSFP_LED_CTRL", "MOD_RST_N1", <<11>>),
           MOD_RST_N2 |-> Field("QSFP_LED_CTRL", "MOD_RST_N2", <<19>>)]

Fields == UNION {Range(link), Range(ddl), Range(diu), Range(patterngenerator), Range(fastclusterfinder),
                 Range(eventfilter), Range(datareplaychannel), Range(gtx), Range(sysmon)}
Registers == {f.reg : f \in Fields}

-----------------------------------------------------------------------------
Mask(f) == Range(f.bits)
BitsFor(f, value) == {f.bits[k] : k \in value \cap DOMAIN f.bits}

\* What a getter returns for register contents.
Get(content, f) == {k \in DOMAIN f.bits : f.bits[k] \in content}

\* The setters whose masks or values are not those of their field: one bit of
\* five is left out, the last bit is never cleared, the argument is not used.
Deviating == {gtx.TxPostEmph, gtx.DfeTaps, gtx.DfeTapOverride, fastclusterfinder.SplitClusterTagging}

Cleared(f) == CASE f = gtx.TxPostEmph -> 24..27
                [] f = gtx.DfeTaps -> 0..16
                [] OTHER -> Mask(f)

Placed(f, value, content) ==
    CASE f = gtx.TxPostEmph -> BitsFor(f, value \ {5})
      [] f = gtx.DfeTapOverride -> IF 0 \in content THEN {4} ELSE {}
      [] f = fastclusterfinder.SplitClusterTagging -> {16}
      [] OTHER -> BitsFor(f, value)

Updated(content, f, value) == (content \ Cleared(f)) \cup Placed(f, value, content)

Off == {}
On  == {1}
\* Nothing, and more than all: a value that is too wide.
Values(f) == {Off, DOMAIN f.bits \cup {Len(f.bits) + 1}}

\* Fields without a setter of their own: a method sets several, or pulses one.
PartOfMethod == {patterngenerator.mode, patterngenerator.continuous, patterngenerator.eventid_rst,
                 fastclusterfinder.clearErrors}
Settable == Fields \ PartOfMethod
=============================================================================
