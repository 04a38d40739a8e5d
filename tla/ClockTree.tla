----------------------------- MODULE ClockTree -----------------------------
(****************************************************************************)
(* The clock models of pm_clock.c: which multiplexer selects the parent of  *)
(* a clock, which dividers a clock has, and the translations between what   *)
(* callers ask for and what the PMU is told.                                *)
(****************************************************************************)
EXTENDS Naturals, Sequences, FiniteSetsExt

CONSTANTS
  DivWidth,   \* largest value of a six-bit divider: 63
  Mios        \* pins an MIO multiplexer selects from: 78

(* The table of the GEMs' time stamp unit names pin 26. *)
ASSUME WidthAssumption == DivWidth \in Nat \ {0} /\ Mios \in Nat /\ Mios > 26

(* A parent that is a clock, and one that comes from a pin. *)
Clock(name) == <<name, 0>>
Mio(pin) == <<"EXT_MIO", pin>>

Input(name, select) == [clkIn |-> Clock(name), select |-> select]

(* The multiplexers of the full power domain. *)
FpdInputs ==
  [adv |-> <<Input("APLL", 0), Input("DPLL", 2), Input("VPLL", 3)>>,
   avd |-> <<Input("APLL", 0), Input("VPLL", 2), Input("DPLL", 3)>>,
   aiod |-> <<Input("APLL", 0), Input("IOPLL_TO_FPD", 2), Input("DPLL", 3)>>,
   vdr |-> <<Input("VPLL", 0), Input("DPLL", 2), Input("RPLL_TO_FPD", 3)>>,
   dv |-> <<Input("DPLL", 0), Input("VPLL", 1)>>,
   iovd |-> <<Input("IOPLL_TO_FPD", 0), Input("VPLL", 2), Input("DPLL", 3)>>,
   ioad |-> <<Input("IOPLL_TO_FPD", 0), Input("APLL", 2), Input("DPLL", 3)>>,
   ioda |-> <<Input("IOPLL_TO_FPD", 0), Input("DPLL", 2), Input("APLL", 3)>>,
   iordFpd |-> <<Input("IOPLL_TO_FPD", 0), Input("RPLL_TO_FPD", 2), Input("DPLL", 3)>>,
   fpdWdt |-> <<Input("TOPSW_LSBUS", 0), Input("EXT_SWDT1", 1)>>]

(* Those of the low power domain. *)
LpdInputs ==
  [ior |-> <<Input("IOPLL", 0), Input("RPLL", 2)>>,
   iord |-> <<Input("IOPLL", 0), Input("RPLL", 2), Input("DPLL_TO_LPD", 3)>>,
   iorv |-> <<Input("IOPLL", 0), Input("RPLL", 2), Input("VPLL_TO_LPD", 3)>>,
   riod |-> <<Input("RPLL", 0), Input("IOPLL", 2), Input("DPLL_TO_LPD", 3)>>,
   iordPsRef |-> <<Input("IOPLL", 0), Input("RPLL", 2), Input("DPLL_TO_LPD", 3)>> \o
                 [n \in 1..4 |-> Input("EXT_PSS_REF", n + 3)],
   can0 |-> <<Input("CAN0_REF", 0), Input("CAN0_MIO", 1)>>,
   can1 |-> <<Input("CAN1_REF", 0), Input("CAN1_MIO", 1)>>,
   gemTsu |-> <<Input("GEM_TSU_REF", 0), [clkIn |-> Mio(26), select |-> 1],
                Input("GEM_TSU_REF", 2), Input("EXT_MIO50_OR_MIO51", 3)>>,
   gem0Ref |-> <<Input("GEM0_REF_UNGATED", 0), Input("EXT_GEM0_TX_EMIO", 1)>>,
   gem1Ref |-> <<Input("GEM1_REF_UNGATED", 0), Input("EXT_GEM1_TX_EMIO", 1)>>,
   gem2Ref |-> <<Input("GEM2_REF_UNGATED", 0), Input("EXT_GEM2_TX_EMIO", 1)>>,
   gem3Ref |-> <<Input("GEM3_REF_UNGATED", 0), Input("EXT_GEM3_TX_EMIO", 1)>>]

MioMuxes == {"can0Mio", "can1Mio"}

Inputs(mux) == IF mux \in DOMAIN FpdInputs THEN FpdInputs[mux] ELSE LpdInputs[mux]

DivIds == {"div0", "div1"}

(* The clocks that are modelled there, by multiplexer and dividers. *)
ClockModels ==
  <<[ids |-> {"ACPU"}, mux |-> "adv", divs |-> {"div0"}],
    [ids |-> {"DBG_TRACE", "DBG_FPD", "DBG_TSTMP"}, mux |-> "ioda", divs |-> {"div0"}],
    [ids |-> {"DP_VIDEO_REF", "DP_AUDIO_REF", "DP_STC_REF"}, mux |-> "vdr", divs |-> DivIds],
    [ids |-> {"DDR_REF"}, mux |-> "dv", divs |-> {"div0"}],
    [ids |-> {"GPU_REF"}, mux |-> "iovd", divs |-> {"div0"}],
    [ids |-> {"SATA_REF"}, mux |-> "ioad", divs |-> {"div0"}],
    [ids |-> {"PCIE_REF"}, mux |-> "iordFpd", divs |-> {"div0"}],
    [ids |-> {"GDMA_REF", "DPDMA_REF", "TOPSW_MAIN"}, mux |-> "avd", divs |-> {"div0"}],
    [ids |-> {"TOPSW_LSBUS"}, mux |-> "aiod", divs |-> {"div0"}],
    [ids |-> {"USB3_DUAL_REF", "GEM0_REF_UNGATED", "GEM1_REF_UNGATED", "GEM2_REF_UNGATED",
              "GEM3_REF_UNGATED", "USB0_BUS_REF", "USB1_BUS_REF", "QSPI_REF", "UART0_REF",
              "UART1_REF", "SPI0_REF", "SPI1_REF", "CAN0_REF", "CAN1_REF", "CPU_R5",
              "NAND_REF", "PL0_REF", "PL1_REF", "PL2_REF", "PL3_REF", "GEM_TSU_REF",
              "I2C0_REF", "I2C1_REF"}, mux |-> "iord", divs |-> DivIds],
    [ids |-> {"CSU_PLL", "PCAP"}, mux |-> "iord", divs |-> {"div0"}],
    [ids |-> {"SDIO0_REF", "SDIO1_REF"}, mux |-> "iorv", divs |-> DivIds],
    [ids |-> {"IOU_SWITCH", "LPD_SWITCH", "LPD_LSBUS", "DBG_LPD", "ADMA_REF"},
     mux |-> "riod", divs |-> {"div0"}],
    [ids |-> {"AMS_REF"}, mux |-> "riod", divs |-> DivIds],
    [ids |-> {"TIMESTAMP_REF"}, mux |-> "iordPsRef", divs |-> {"div0"}],
    [ids |-> {"DLL_REF"}, mux |-> "ior", divs |-> {}],
    [ids |-> {"CAN0_MIO"}, mux |-> "can0Mio", divs |-> {}],
    [ids |-> {"CAN0"}, mux |-> "can0", divs |-> {}],
    [ids |-> {"CAN1_MIO"}, mux |-> "can1Mio", divs |-> {}],
    [ids |-> {"CAN1"}, mux |-> "can1", divs |-> {}],
    [ids |-> {"GEM_TSU"}, mux |-> "gemTsu", divs |-> {}],
    [ids |-> {"GEM0_REF"}, mux |-> "gem0Ref", divs |-> {}],
    [ids |-> {"GEM1_REF"}, mux |-> "gem1Ref", divs |-> {}],
    [ids |-> {"GEM2_REF"}, mux |-> "gem2Ref", divs |-> {}],
    [ids |-> {"GEM3_REF"}, mux |-> "gem3Ref", divs |-> {}],
    [ids |-> {"WDT"}, mux |-> "fpdWdt", divs |-> {}]>>

Clocks == UNION {ClockModels[n].ids : n \in DOMAIN ClockModels}

Model(clk) == CHOOSE m \in {ClockModels[n] : n \in DOMAIN ClockModels} : clk \in m.ids
Divs(clk) == Model(clk).divs

(* Everything that may be the parent of the clock. *)
Parents(clk) ==
  IF Model(clk).mux \in MioMuxes THEN {Mio(n) : n \in 0..(Mios - 1)}
  ELSE LET inputs == Inputs(Model(clk).mux) IN {inputs[n].clkIn : n \in DOMAIN inputs}

(* What a search that ends without a hit leaves behind. *)
None == <<"none", 0>>

(* The parent a select value stands for. *)
ClockParentBySelect(clk, select) ==
  LET mux == Model(clk).mux
      inputs == Inputs(mux)
      hits == {n \in DOMAIN inputs : inputs[n].select = select}
  IN IF mux \in MioMuxes THEN IF select < Mios THEN Mio(select) ELSE None
     ELSE IF hits = {} THEN None ELSE inputs[Min(hits)].clkIn

(* Mutant: the place of the entry is taken for its select value. *)
PlaceOfParent(clk, parent) ==
  LET mux == Model(clk).mux
      inputs == Inputs(mux)
      hits == {n \in DOMAIN inputs : inputs[n].clkIn = parent}
  IN IF mux \in MioMuxes THEN {pin \in 0..(Mios - 1) : Mio(pin) = parent}
     ELSE IF hits = {} THEN {} ELSE {Min(hits) - 1}

(* The select value for a parent: that of the first entry with it. *)
SelectByClockParent(clk, parent) ==
  LET mux == Model(clk).mux
      inputs == Inputs(mux)
      hits == {n \in DOMAIN inputs : inputs[n].clkIn = parent}
  IN IF mux \in MioMuxes THEN {pin \in 0..(Mios - 1) : Mio(pin) = parent}
     ELSE IF hits = {} THEN {} ELSE {inputs[Min(hits)].select}
=============================================================================
