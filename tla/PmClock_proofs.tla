---------------------------- MODULE PmClock_proofs ----------------------------
(****************************************************************************)
(* Proofs about the clocks of the PM client library: for any number of      *)
(* processing units, any dividers and every clock of the tables, what was   *)
(* set undisturbed is what every unit reads back.                           *)
(****************************************************************************)
EXTENDS PmClock, SequenceTheorems, WellFoundedInduction, TLAPS

-----------------------------------------------------------------------------
(* The tables of pm_clock.c. *)

(* A set of numbers has a least one. *)
LEMMA MinIsIn ==
  ASSUME NEW S, S \subseteq Nat, S # {}
  PROVE  Min(S) \in S /\ \A n \in S : Min(S) <= n
<1>. DEFINE R == OpToRel(<, Nat)
<1>1. IsWellFoundedOn(R, Nat)
  BY NatLessThanWellFounded, Zenon
<1>. HIDE DEF R
<1>2. PICK m \in S : \A n \in S : ~ (<<n, m>> \in R)
  BY <1>1, WFMin
<1>3. \A n, k \in Nat : n < k => <<n, k>> \in R
  BY DEF R, OpToRel
<1>4. \A n \in S : ~ (n < m)
  BY <1>2, <1>3, Zenon
<1>5. \E x \in S : \A y \in S : x <= y
  BY <1>4
<1>. QED BY <1>5, Zenon DEF Min

(* The names of the parents. *)
Names ==
  {"APLL", "DPLL", "VPLL", "IOPLL_TO_FPD", "RPLL_TO_FPD", "TOPSW_LSBUS", "EXT_SWDT1", "IOPLL",
   "RPLL", "DPLL_TO_LPD", "VPLL_TO_LPD", "EXT_PSS_REF", "CAN0_REF", "CAN0_MIO", "CAN1_REF",
   "CAN1_MIO", "GEM_TSU_REF", "EXT_MIO", "EXT_MIO50_OR_MIO51", "GEM0_REF_UNGATED",
   "GEM1_REF_UNGATED", "GEM2_REF_UNGATED", "GEM3_REF_UNGATED", "EXT_GEM0_TX_EMIO",
   "EXT_GEM1_TX_EMIO", "EXT_GEM2_TX_EMIO", "EXT_GEM3_TX_EMIO"}

(* A history value: None, a divider or a parent. *)
Histories == (Names \cup {"none", "divider"}) \X Nat

(* An entry of a multiplexer. *)
InputOK(input) ==
  input.clkIn \in Histories /\ input.clkIn # None /\ input.select \in 0..7

(* Every entry has a select value of its own. *)
TableOK(inputs) ==
  /\ DOMAIN inputs \subseteq Nat
  /\ \A n \in DOMAIN inputs : InputOK(inputs[n])
  /\ \A m, n \in DOMAIN inputs : inputs[m].select = inputs[n].select => m = n

LEMMA InputFields ==
  ASSUME NEW name \in Names, NEW s \in {0, 1, 2, 3, 4, 5, 6, 7}
  PROVE  InputOK(Input(name, s)) /\ Input(name, s).select = s
<1>1. name # "none" /\ name \in Names \cup {"none", "divider"}
  BY DEF Names
<1>. QED BY <1>1 DEF InputOK, Input, Clock, None, Histories

LEMMA FpdTables ==
  ASSUME NEW mux \in DOMAIN FpdInputs
  PROVE  TableOK(FpdInputs[mux])
<1>. mux \in {"adv", "avd", "aiod", "vdr", "dv", "iovd", "ioad", "ioda", "iordFpd",
               "fpdWdt"}
  BY DEF FpdInputs
<1>1. CASE mux = "adv"
  <2>. DEFINE a == Input("APLL", 0)
              b == Input("DPLL", 2)
              c == Input("VPLL", 3)
  <2>1. FpdInputs[mux] = <<a, b, c>>
    BY <1>1 DEF FpdInputs
  <2>2. /\ InputOK(a) /\ InputOK(b) /\ InputOK(c)
        /\ a.select = 0 /\ b.select = 2 /\ c.select = 3
    BY InputFields, Zenon DEF Names
  <2>. HIDE DEF a, b, c
  <2>. QED BY <2>1, <2>2 DEF TableOK
<1>2. CASE mux = "avd"
  <2>. DEFINE a == Input("APLL", 0)
              b == Input("VPLL", 2)
              c == Input("DPLL", 3)
  <2>1. FpdInputs[mux] = <<a, b, c>>
    BY <1>2 DEF FpdInputs
  <2>2. /\ InputOK(a) /\ InputOK(b) /\ InputOK(c)
        /\ a.select = 0 /\ b.select = 2 /\ c.select = 3
    BY InputFields, Zenon DEF Names
  <2>. HIDE DEF a, b, c
  <2>. QED BY <2>1, <2>2 DEF TableOK
<1>3. CASE mux = "aiod"
  <2>. DEFINE a == Input("APLL", 0)
              b == Input("IOPLL_TO_FPD", 2)
              c == Input("DPLL", 3)
  <2>1. FpdInputs[mux] = <<a, b, c>>
    BY <1>3 DEF FpdInputs
  <2>2. /\ InputOK(a) /\ InputOK(b) /\ InputOK(c)
        /\ a.select = 0 /\ b.select = 2 /\ c.select = 3
    BY InputFields, Zenon DEF Names
  <2>. HIDE DEF a, b, c
  <2>. QED BY <2>1, <2>2 DEF TableOK
<1>4. CASE mux = "vdr"
  <2>. DEFINE a == Input("VPLL", 0)
              b == Input("DPLL", 2)
              c == Input("RPLL_TO_FPD", 3)
  <2>1. FpdInputs[mux] = <<a, b, c>>
    BY <1>4 DEF FpdInputs
  <2>2. /\ InputOK(a) /\ InputOK(b) /\ InputOK(c)
        /\ a.select = 0 /\ b.select = 2 /\ c.select = 3
    BY InputFields, Zenon DEF Names
  <2>. HIDE DEF a, b, c
  <2>. QED BY <2>1, <2>2 DEF TableOK
<1>5. CASE mux = "dv"
  <2>. DEFINE a == Input("DPLL", 0)
              b == Input("VPLL", 1)
  <2>1. FpdInputs[mux] = <<a, b>>
    BY <1>5 DEF FpdInputs
  <2>2. /\ InputOK(a) /\ InputOK(b)
        /\ a.select = 0 /\ b.select = 1
    BY InputFields, Zenon DEF Names
  <2>. HIDE DEF a, b
  <2>. QED BY <2>1, <2>2 DEF TableOK
<1>6. CASE mux = "iovd"
  <2>. DEFINE a == Input("IOPLL_TO_FPD", 0)
              b == Input("VPLL", 2)
              c == Input("DPLL", 3)
  <2>1. FpdInputs[mux] = <<a, b, c>>
    BY <1>6 DEF FpdInputs
  <2>2. /\ InputOK(a) /\ InputOK(b) /\ InputOK(c)
        /\ a.select = 0 /\ b.select = 2 /\ c.select = 3
    BY InputFields, Zenon DEF Names
  <2>. HIDE DEF a, b, c
  <2>. QED BY <2>1, <2>2 DEF TableOK
<1>7. CASE mux = "ioad"
  <2>. DEFINE a == Input("IOPLL_TO_FPD", 0)
              b == Input("APLL", 2)
              c == Input("DPLL", 3)
  <2>1. FpdInputs[mux] = <<a, b, c>>
    BY <1>7 DEF FpdInputs
  <2>2. /\ InputOK(a) /\ InputOK(b) /\ InputOK(c)
        /\ a.select = 0 /\ b.select = 2 /\ c.select = 3
    BY InputFields, Zenon DEF Names
  <2>. HIDE DEF a, b, c
  <2>. QED BY <2>1, <2>2 DEF TableOK
<1>8. CASE mux = "ioda"
  <2>. DEFINE a == Input("IOPLL_TO_FPD", 0)
              b == Input("DPLL", 2)
              c == Input("APLL", 3)
  <2>1. FpdInputs[mux] = <<a, b, c>>
    BY <1>8 DEF FpdInputs
  <2>2. /\ InputOK(a) /\ InputOK(b) /\ InputOK(c)
        /\ a.select = 0 /\ b.select = 2 /\ c.select = 3
    BY InputFields, Zenon DEF Names
  <2>. HIDE DEF a, b, c
  <2>. QED BY <2>1, <2>2 DEF TableOK
<1>9. CASE mux = "iordFpd"
  <2>. DEFINE a == Input("IOPLL_TO_FPD", 0)
              b == Input("RPLL_TO_FPD", 2)
              c == Input("DPLL", 3)
  <2>1. FpdInputs[mux] = <<a, b, c>>
    BY <1>9 DEF FpdInputs
  <2>2. /\ InputOK(a) /\ InputOK(b) /\ InputOK(c)
        /\ a.select = 0 /\ b.select = 2 /\ c.select = 3
    BY InputFields, Zenon DEF Names
  <2>. HIDE DEF a, b, c
  <2>. QED BY <2>1, <2>2 DEF TableOK
<1>10. CASE mux = "fpdWdt"
  <2>. DEFINE a == Input("TOPSW_LSBUS", 0)
              b == Input("EXT_SWDT1", 1)
  <2>1. FpdInputs[mux] = <<a, b>>
    BY <1>10 DEF FpdInputs
  <2>2. /\ InputOK(a) /\ InputOK(b)
        /\ a.select = 0 /\ b.select = 1
    BY InputFields, Zenon DEF Names
  <2>. HIDE DEF a, b
  <2>. QED BY <2>1, <2>2 DEF TableOK
<1>. QED BY <1>1, <1>2, <1>3, <1>4, <1>5, <1>6, <1>7, <1>8, <1>9, <1>10

(* The multiplexer of the time stamps has seven inputs, four of them the same. *)
LEMMA IordPsRefTable == TableOK(LpdInputs["iordPsRef"])
<1>. DEFINE first == <<Input("IOPLL", 0), Input("RPLL", 2), Input("DPLL_TO_LPD", 3)>>
            last == [n \in 1..4 |-> Input("EXT_PSS_REF", n + 3)]
<1>1. LpdInputs["iordPsRef"] = first \o last
  BY DEF LpdInputs
<1>2. \A n \in 1..4 : InputOK(last[n]) /\ last[n].select = n + 3
  <2>1. ASSUME NEW n \in 1..4
        PROVE  InputOK(Input("EXT_PSS_REF", n + 3)) /\ Input("EXT_PSS_REF", n + 3).select = n + 3
    <3>1. n + 3 \in {0, 1, 2, 3, 4, 5, 6, 7}
      OBVIOUS
    <3>2. "EXT_PSS_REF" \in Names
      BY DEF Names
    <3>. QED BY <3>1, <3>2, InputFields
  <2>. QED BY <2>1
<1>3. /\ Len(first) = 3 /\ first[1].select = 0 /\ first[2].select = 2 /\ first[3].select = 3
      /\ InputOK(first[1]) /\ InputOK(first[2]) /\ InputOK(first[3])
  BY InputFields, Zenon DEF Names
<1>. DEFINE S == {first[n] : n \in 1..3} \cup {last[n] : n \in 1..4}
<1>4. first \in Seq(S) /\ last \in Seq(S) /\ Len(last) = 4
  <2>1. first \in [1..3 -> S] /\ last \in [1..4 -> S]
    OBVIOUS
  <2>2. last \in Seq(S)
    <3>. HIDE DEF first, last, S
    <3>1. Seq(S) = UNION {[1..n -> S] : n \in Nat}
      BY SeqDef
    <3>. QED BY <2>1, <3>1
  <2>3. first \in Seq(S)
    <3>. HIDE DEF first, last, S
    <3>1. Seq(S) = UNION {[1..n -> S] : n \in Nat}
      BY SeqDef
    <3>. QED BY <2>1, <3>1
  <2>. QED BY <2>2, <2>3
<1>. HIDE DEF first, last, S
<1>5. /\ DOMAIN (first \o last) = 1..7
      /\ \A n \in 1..3 : (first \o last)[n] = first[n]
      /\ \A n \in 4..7 : (first \o last)[n] = last[n - 3]
  <2>1. /\ first \o last \in Seq(S) /\ Len(first \o last) = Len(first) + Len(last)
        /\ \A n \in 1..(Len(first) + Len(last)) :
             (first \o last)[n] = IF n <= Len(first) THEN first[n] ELSE last[n - Len(first)]
    BY <1>4, ConcatProperties
  <2>. DEFINE t == first \o last
  <2>2. /\ t \in Seq(S) /\ Len(t) = 7
        /\ \A n \in 1..7 : t[n] = IF n <= 3 THEN first[n] ELSE last[n - 3]
    BY <1>3, <1>4, <2>1
  <2>. HIDE DEF t
  <2>3. DOMAIN t = 1..7 /\ (\A n \in 1..3 : t[n] = first[n]) /\ \A n \in 4..7 : t[n] = last[n - 3]
    BY <2>2
  <2>. QED BY <2>3 DEF t
<1>6. \A n \in 1..7 : /\ InputOK((first \o last)[n])
                      /\ n \in 4..7 => (first \o last)[n].select = n
                      /\ n = 1 => (first \o last)[n].select = 0
                      /\ n = 2 => (first \o last)[n].select = 2
                      /\ n = 3 => (first \o last)[n].select = 3
  <2>. DEFINE t == first \o last
  <2>1. /\ t[1] = first[1] /\ t[2] = first[2] /\ t[3] = first[3]
        /\ \A n \in 4..7 : t[n] = last[n - 3] /\ n - 3 \in 1..4 /\ (n - 3) + 3 = n
    <3>1. 1 \in 1..3 /\ 2 \in 1..3 /\ 3 \in 1..3
          /\ \A n \in 4..7 : n - 3 \in 1..4 /\ (n - 3) + 3 = n
      OBVIOUS
    <3>. QED BY <1>5, <3>1, Zenon
  <2>. HIDE DEF t
  <2>2. \A n \in 4..7 : InputOK(t[n]) /\ t[n].select = n
    BY <1>2, <2>1
  <2>3. /\ InputOK(t[1]) /\ InputOK(t[2]) /\ InputOK(t[3])
        /\ t[1].select = 0 /\ t[2].select = 2 /\ t[3].select = 3
    BY <1>3, <2>1, Zenon
  <2>4. \A n \in 1..7 : n = 1 \/ n = 2 \/ n = 3 \/ n \in 4..7
    OBVIOUS
  <2>5. \A n \in 1..7 : InputOK(t[n])
    BY <2>2, <2>3, <2>4, Zenon
  <2>. QED BY <2>2, <2>3, <2>5, Zenon DEF t
<1>7. TableOK(first \o last)
  <2>. DEFINE t == first \o last
  <2>. HIDE DEF t
  <2>1. DOMAIN t = 1..7
    BY <1>5 DEF t
  <2>2. \A n \in 1..7 : /\ InputOK(t[n])
                        /\ n \in 4..7 => t[n].select = n
                        /\ n = 1 => t[n].select = 0
                        /\ n = 2 => t[n].select = 2
                        /\ n = 3 => t[n].select = 3
    BY <1>6 DEF t
  <2>3. TableOK(t)
    BY <2>1, <2>2 DEF TableOK
  <2>. QED BY <2>3 DEF t
<1>. QED BY <1>1, <1>7

(* That of the GEMs' time stamp unit has the same parent twice, and a pin. *)
LEMMA GemTsuTable == TableOK(LpdInputs["gemTsu"])
<1>. DEFINE a == Input("GEM_TSU_REF", 0)
            b == [clkIn |-> Mio(26), select |-> 1]
            c == Input("GEM_TSU_REF", 2)
            d == Input("EXT_MIO50_OR_MIO51", 3)
<1>1. LpdInputs["gemTsu"] = <<a, b, c, d>>
  BY DEF LpdInputs
<1>2. /\ InputOK(a) /\ InputOK(c) /\ InputOK(d)
      /\ a.select = 0 /\ c.select = 2 /\ d.select = 3
  BY InputFields, Zenon DEF Names
<1>3. InputOK(b) /\ b.select = 1
  BY DEF InputOK, Mio, None, Histories, Names
<1>. HIDE DEF a, b, c, d
<1>4. TableOK(<<a, b, c, d>>)
  BY <1>2, <1>3 DEF TableOK
<1>. QED BY <1>1, <1>4

LEMMA LpdTables ==
  ASSUME NEW mux \in DOMAIN LpdInputs
  PROVE  TableOK(LpdInputs[mux])
<1>. mux \in {"ior", "iord", "iorv", "riod", "iordPsRef", "can0", "can1", "gemTsu",
               "gem0Ref", "gem1Ref", "gem2Ref", "gem3Ref"}
  BY DEF LpdInputs
<1>1. CASE mux = "ior"
  <2>. DEFINE a == Input("IOPLL", 0)
              b == Input("RPLL", 2)
  <2>1. LpdInputs[mux] = <<a, b>>
    BY <1>1 DEF LpdInputs
  <2>2. /\ InputOK(a) /\ InputOK(b)
        /\ a.select = 0 /\ b.select = 2
    BY InputFields, Zenon DEF Names
  <2>. HIDE DEF a, b
  <2>. QED BY <2>1, <2>2 DEF TableOK
<1>2. CASE mux = "iord"
  <2>. DEFINE a == Input("IOPLL", 0)
              b == Input("RPLL", 2)
              c == Input("DPLL_TO_LPD", 3)
  <2>1. LpdInputs[mux] = <<a, b, c>>
    BY <1>2 DEF LpdInputs
  <2>2. /\ InputOK(a) /\ InputOK(b) /\ InputOK(c)
        /\ a.select = 0 /\ b.select = 2 /\ c.select = 3
    BY InputFields, Zenon DEF Names
  <2>. HIDE DEF a, b, c
  <2>. QED BY <2>1, <2>2 DEF TableOK
<1>3. CASE mux = "iorv"
  <2>. DEFINE a == Input("IOPLL", 0)
              b == Input("RPLL", 2)
              c == Input("VPLL_TO_LPD", 3)
  <2>1. LpdInputs[mux] = <<a, b, c>>
    BY <1>3 DEF LpdInputs
  <2>2. /\ InputOK(a) /\ InputOK(b) /\ InputOK(c)
        /\ a.select = 0 /\ b.select = 2 /\ c.select = 3
    BY InputFields, Zenon DEF Names
  <2>. HIDE DEF a, b, c
  <2>. QED BY <2>1, <2>2 DEF TableOK
<1>4. CASE mux = "riod"
  <2>. DEFINE a == Input("RPLL", 0)
              b == Input("IOPLL", 2)
              c == Input("DPLL_TO_LPD", 3)
  <2>1. LpdInputs[mux] = <<a, b, c>>
    BY <1>4 DEF LpdInputs
  <2>2. /\ InputOK(a) /\ InputOK(b) /\ InputOK(c)
        /\ a.select = 0 /\ b.select = 2 /\ c.select = 3
    BY InputFields, Zenon DEF Names
  <2>. HIDE DEF a, b, c
  <2>. QED BY <2>1, <2>2 DEF TableOK
<1>5. CASE mux = "iordPsRef"
  BY <1>5, IordPsRefTable DEF LpdInputs
<1>6. CASE mux = "can0"
  <2>. DEFINE a == Input("CAN0_REF", 0)
              b == Input("CAN0_MIO", 1)
  <2>1. LpdInputs[mux] = <<a, b>>
    BY <1>6 DEF LpdInputs
  <2>2. /\ InputOK(a) /\ InputOK(b)
        /\ a.select = 0 /\ b.select = 1
    BY InputFields, Zenon DEF Names
  <2>. HIDE DEF a, b
  <2>. QED BY <2>1, <2>2 DEF TableOK
<1>7. CASE mux = "can1"
  <2>. DEFINE a == Input("CAN1_REF", 0)
              b == Input("CAN1_MIO", 1)
  <2>1. LpdInputs[mux] = <<a, b>>
    BY <1>7 DEF LpdInputs
  <2>2. /\ InputOK(a) /\ InputOK(b)
        /\ a.select = 0 /\ b.select = 1
    BY InputFields, Zenon DEF Names
  <2>. HIDE DEF a, b
  <2>. QED BY <2>1, <2>2 DEF TableOK
<1>8. CASE mux = "gemTsu"
  BY <1>8, GemTsuTable DEF LpdInputs
<1>9. CASE mux = "gem0Ref"
  <2>. DEFINE a == Input("GEM0_REF_UNGATED", 0)
              b == Input("EXT_GEM0_TX_EMIO", 1)
  <2>1. LpdInputs[mux] = <<a, b>>
    BY <1>9 DEF LpdInputs
  <2>2. /\ InputOK(a) /\ InputOK(b)
        /\ a.select = 0 /\ b.select = 1
    BY InputFields, Zenon DEF Names
  <2>. HIDE DEF a, b
  <2>. QED BY <2>1, <2>2 DEF TableOK
<1>10. CASE mux = "gem1Ref"
  <2>. DEFINE a == Input("GEM1_REF_UNGATED", 0)
              b == Input("EXT_GEM1_TX_EMIO", 1)
  <2>1. LpdInputs[mux] = <<a, b>>
    BY <1>10 DEF LpdInputs
  <2>2. /\ InputOK(a) /\ InputOK(b)
        /\ a.select = 0 /\ b.select = 1
    BY InputFields, Zenon DEF Names
  <2>. HIDE DEF a, b
  <2>. QED BY <2>1, <2>2 DEF TableOK
<1>11. CASE mux = "gem2Ref"
  <2>. DEFINE a == Input("GEM2_REF_UNGATED", 0)
              b == Input("EXT_GEM2_TX_EMIO", 1)
  <2>1. LpdInputs[mux] = <<a, b>>
    BY <1>11 DEF LpdInputs
  <2>2. /\ InputOK(a) /\ InputOK(b)
        /\ a.select = 0 /\ b.select = 1
    BY InputFields, Zenon DEF Names
  <2>. HIDE DEF a, b
  <2>. QED BY <2>1, <2>2 DEF TableOK
<1>12. CASE mux = "gem3Ref"
  <2>. DEFINE a == Input("GEM3_REF_UNGATED", 0)
              b == Input("EXT_GEM3_TX_EMIO", 1)
  <2>1. LpdInputs[mux] = <<a, b>>
    BY <1>12 DEF LpdInputs
  <2>2. /\ InputOK(a) /\ InputOK(b)
        /\ a.select = 0 /\ b.select = 1
    BY InputFields, Zenon DEF Names
  <2>. HIDE DEF a, b
  <2>. QED BY <2>1, <2>2 DEF TableOK
<1>. QED BY <1>1, <1>2, <1>3, <1>4, <1>5, <1>6, <1>7, <1>8, <1>9, <1>10, <1>11, <1>12

(* The dividers of a clock, and the table of its multiplexer. *)
LEMMA ModelOK ==
  ASSUME NEW clock \in Clocks
  PROVE  /\ Divs(clock) \in {{}, {"div0"}, DivIds}
         /\ Model(clock).mux \notin MioMuxes =>
              Model(clock).mux \in DOMAIN FpdInputs \cup DOMAIN LpdInputs
<1>. DEFINE OK(m) == /\ m.divs \in {{}, {"div0"}, DivIds}
                    /\ m.mux \in MioMuxes \cup DOMAIN FpdInputs \cup DOMAIN LpdInputs
<1>1. \A n \in DOMAIN ClockModels : OK(ClockModels[n])
  <2>1. /\ DOMAIN FpdInputs = {"adv", "avd", "aiod", "vdr", "dv", "iovd", "ioad", "ioda", "iordFpd",
                              "fpdWdt"}
        /\ DOMAIN LpdInputs = {"ior", "iord", "iorv", "riod", "iordPsRef", "can0", "can1", "gemTsu",
                              "gem0Ref", "gem1Ref", "gem2Ref", "gem3Ref"}
    BY DEF FpdInputs, LpdInputs
  <2>. QED BY <2>1 DEF ClockModels, MioMuxes, DivIds
<1>. HIDE DEF OK
<1>2. \E m \in {ClockModels[n] : n \in DOMAIN ClockModels} : clock \in m.ids
  BY Zenon DEF Clocks
<1>3. Model(clock) \in {ClockModels[n] : n \in DOMAIN ClockModels}
  BY <1>2, Zenon DEF Model
<1>4. OK(Model(clock))
  BY <1>1, <1>3, Zenon
<1>. QED BY <1>4 DEF OK, Divs

LEMMA TableOfModel ==
  ASSUME NEW clock \in Clocks, Model(clock).mux \notin MioMuxes
  PROVE  TableOK(Inputs(Model(clock).mux))
<1>1. Model(clock).mux \in DOMAIN FpdInputs \cup DOMAIN LpdInputs
  BY ModelOK
<1>. QED BY <1>1, FpdTables, LpdTables, Zenon DEF Inputs

LEMMA ParentsType ==
  ASSUME NEW clock \in Clocks
  PROVE  Parents(clock) \subseteq Histories
<1>1. CASE Model(clock).mux \in MioMuxes
  <2>1. \A n \in 0..(Mios - 1) : Mio(n) \in Histories
    BY WidthAssumption DEF Mio, Histories, Names
  <2>2. Parents(clock) = {Mio(n) : n \in 0..(Mios - 1)}
    BY <1>1, Zenon DEF Parents
  <2>. QED BY <2>1, <2>2
<1>2. CASE Model(clock).mux \notin MioMuxes
  <2>. DEFINE inputs == Inputs(Model(clock).mux)
  <2>1. TableOK(inputs)
    BY <1>2, TableOfModel
  <2>2. Parents(clock) = {inputs[n].clkIn : n \in DOMAIN inputs}
    BY <1>2, Zenon DEF Parents
  <2>. HIDE DEF inputs
  <2>. QED BY <2>1, <2>2 DEF TableOK, InputOK
<1>. QED BY <1>1, <1>2

LEMMA ParentOfSelectType ==
  ASSUME NEW clock \in Clocks, NEW s \in Nat
  PROVE  ClockParentBySelect(clock, s) \in Histories
<1>0. None \in Histories
  BY DEF None, Histories
<1>1. CASE Model(clock).mux \in MioMuxes
  <2>1. Mio(s) \in Histories
    BY DEF Mio, Histories, Names
  <2>. QED BY <1>0, <1>1, <2>1, Zenon DEF ClockParentBySelect
<1>2. CASE Model(clock).mux \notin MioMuxes
  <2>. DEFINE inputs == Inputs(Model(clock).mux)
              hits == {n \in DOMAIN inputs : inputs[n].select = s}
  <2>1. TableOK(inputs)
    BY <1>2, TableOfModel
  <2>2. ClockParentBySelect(clock, s) = IF hits = {} THEN None ELSE inputs[Min(hits)].clkIn
    BY <1>2, Zenon DEF ClockParentBySelect
  <2>. HIDE DEF inputs
  <2>3. hits # {} => Min(hits) \in hits
    <3>1. hits \subseteq Nat
      BY <2>1 DEF TableOK
    <3>. HIDE DEF hits
    <3>. QED BY <3>1, MinIsIn
  <2>. QED BY <1>0, <2>1, <2>2, <2>3 DEF TableOK, InputOK
<1>. QED BY <1>1, <1>2

(* A select value that stands for a parent is read as that parent. *)
LEMMA ParentOfSelect ==
  ASSUME NEW clock \in Clocks, NEW parent, NEW s \in SelectByClockParent(clock, parent)
  PROVE  s \in 0..(Mios - 1) /\ ClockParentBySelect(clock, s) = parent
<1>. DEFINE mux == Model(clock).mux
            inputs == Inputs(mux)
            hits == {n \in DOMAIN inputs : inputs[n].clkIn = parent}
            same == {n \in DOMAIN inputs : inputs[n].select = s}
<1>0. Mios \in Nat /\ Mios > 26
  BY WidthAssumption
<1>1. CASE mux \in MioMuxes
  <2>1. s \in {pin \in 0..(Mios - 1) : Mio(pin) = parent}
    BY <1>1, Zenon DEF SelectByClockParent
  <2>2. s \in 0..(Mios - 1) /\ Mio(s) = parent /\ s < Mios
    BY <1>0, <2>1
  <2>. QED BY <1>1, <2>2, Zenon DEF ClockParentBySelect
<1>2. CASE mux \notin MioMuxes
  <2>1. hits # {} /\ s = inputs[Min(hits)].select
    <3>1. s \in IF hits = {} THEN {} ELSE {inputs[Min(hits)].select}
      BY <1>2, Zenon DEF SelectByClockParent
    <3>. HIDE DEF hits
    <3>. QED BY <3>1
  <2>2. TableOK(inputs)
    BY <1>2, TableOfModel
  <2>3. ClockParentBySelect(clock, s) = IF same = {} THEN None ELSE inputs[Min(same)].clkIn
    BY <1>2, Zenon DEF ClockParentBySelect
  <2>. HIDE DEF inputs
  <2>4. Min(hits) \in hits
    <3>1. hits \subseteq Nat
      BY <2>2 DEF TableOK
    <3>. HIDE DEF hits
    <3>. QED BY <2>1, <3>1, MinIsIn
  <2>5. Min(hits) \in same
    BY <2>1, <2>4
  <2>6. Min(same) \in same
    <3>1. same \subseteq Nat
      BY <2>2 DEF TableOK
    <3>. HIDE DEF same
    <3>. QED BY <2>5, <3>1, MinIsIn
  <2>7. Min(same) = Min(hits)
    BY <2>2, <2>5, <2>6, Zenon DEF TableOK
  <2>8. inputs[Min(hits)].clkIn = parent /\ inputs[Min(hits)].select \in 0..7
    BY <2>2, <2>4 DEF TableOK, InputOK
  <2>. QED BY <1>0, <2>1, <2>3, <2>5, <2>7, <2>8
<1>. QED BY <1>1, <1>2
-----------------------------------------------------------------------------
(* The inductive invariant. *)


Entries ==
  [op : {"none", "setDivider", "getDivider", "setParent", "getParent"},
   pc : {"idle", "parent"} \cup DivIds, mapped : SUBSET DivIds, div0 : Nat, div1 : Nat,
   value : Nat, parent : Histories, status : {"none", "invalid", "error", "success"},
   expected : Histories]

Requests == [field : {"none", "parent"} \cup DivIds, to : Nat]

(* What two fields with these contents make of a clock. *)
Made(clock, div0, div1) == IF "div1" \in Divs(clock) THEN div0 * div1 ELSE div0

(* What the dividers of the clock make together. *)
Effective == Made(clk, divider.div0, divider.div1)

(* Values that can be asked for, and what a clock then divides by. *)
Settable(clock) == {v \in Values : MapDivider(clock, v).mapped # {}}

Achieved(clock, v) ==
  Made(clock, Written(MapDivider(clock, v).div0), Written(MapDivider(clock, v).div1))

(* The divider is what setting the remembered value achieves. *)
Keeps(clock, remembered, effective) ==
  \E v \in Settable(clock) : remembered = Divides(v) /\ effective = Achieved(clock, v)

Typed ==
  /\ clk \in Clocks
  /\ divider \in [DivIds -> 0..DivWidth] /\ select \in 0..(Mios - 1)
  /\ call \in [Callers -> Entries] /\ late \in [Callers -> Requests]
  /\ calls \in 0..MaxCalls
  /\ setDivider \in Histories /\ setParent \in Histories

(* Where a call can be, by what it is. *)
Placed(c) ==
  /\ call[c].mapped \subseteq Divs(clk)
  /\ call[c].pc # "idle" => call[c].status = "none"
  /\ call[c].pc # "idle" =>
       \/ /\ call[c].op \in DividerOps /\ call[c].pc \in call[c].mapped
          /\ call[c].mapped = Divs(clk)
       \/ call[c].op \in ParentOps /\ call[c].pc = "parent"
  /\ call[c].op = "setParent" => call[c].value \in 0..(Mios - 1)
  /\ late[c].field = "parent" => late[c].to \in 0..(Mios - 1)

Setting(c, op) == call[c].op = op /\ call[c].pc # "idle"

(* Nobody but c sets the fields, now or late. *)
Alone(c, op, fields) ==
  \A b \in Callers \ {c} : ~ Setting(b, op) /\ late[b].field \notin fields

(* A call that will set what it is asked to is alone, and half way through it has
   set the first divider. *)
SetsDivider(c) ==
  Setting(c, "setDivider") =>
    /\ call[c].expected # None =>
         /\ Alone(c, "setDivider", DivIds) /\ setDivider = None
         /\ Keeps(clk, call[c].expected, Made(clk, Written(call[c].div0), Written(call[c].div1)))
    /\ call[c].pc = "div1" =>
         late[c] = NoRequest /\ (call[c].expected # None => divider.div0 = Written(call[c].div0))

(* What is known to be set is there, and nobody is about to change it. *)
DividerIsSet ==
  setDivider # None =>
    /\ \A c \in Callers : ~ Setting(c, "setDivider") /\ late[c].field \notin DivIds
    /\ Keeps(clk, setDivider, Effective)

GetsDivider(c) ==
  call[c].op = "getDivider" /\ call[c].expected # None =>
    /\ call[c].pc # "idle" => call[c].expected = setDivider
    /\ call[c].pc = "div0" => call[c].value = 1
    /\ call[c].pc = "div1" => call[c].value = divider.div0
    /\ call[c].pc = "idle" /\ call[c].status = "success" =>
         Keeps(clk, call[c].expected, call[c].value)

SetsParent(c) ==
  Setting(c, "setParent") /\ call[c].expected # None =>
    /\ Alone(c, "setParent", {"parent"}) /\ setParent = None
    /\ ClockParentBySelect(clk, call[c].value) = call[c].expected

ParentIsSet ==
  setParent # None =>
    /\ \A c \in Callers : ~ Setting(c, "setParent") /\ late[c].field # "parent"
    /\ ClockParentBySelect(clk, select) = setParent

GetsParent(c) ==
  call[c].op = "getParent" /\ call[c].expected # None =>
    /\ call[c].pc # "idle" => call[c].expected = setParent
    /\ call[c].pc = "idle" /\ call[c].status \in {"success", "invalid"} =>
         call[c].parent = call[c].expected

DividerInv == DividerIsSet /\ \A c \in Callers : SetsDivider(c) /\ GetsDivider(c)
ParentInv == ParentIsSet /\ \A c \in Callers : SetsParent(c) /\ GetsParent(c)
ClockInv == Typed /\ (\A c \in Callers : Placed(c)) /\ DividerInv /\ ParentInv
-----------------------------------------------------------------------------
(* The splitting of a divider. *)

LEMMA MapDividerType ==
  ASSUME clk \in Clocks, NEW value \in Nat \ {0}
  PROVE  /\ MapDivider(clk, value).mapped \in {{}, Divs(clk)}
         /\ MapDivider(clk, value).div0 \in Nat /\ MapDivider(clk, value).div1 \in Nat
         /\ MapDivider(clk, value).mapped # {} =>
              /\ "div0" \in Divs(clk)
              /\ value = IF "div1" \in Divs(clk)
                         THEN MapDivider(clk, value).div0 * MapDivider(clk, value).div1
                         ELSE MapDivider(clk, value).div0
<1>. DEFINE d == Min(Splits(value))
            q == value \div d
            m == MapDivider(clk, value)
<1>1. Divs(clk) \in {{}, {"div0"}, DivIds} /\ DivWidth \in Nat \ {0}
  BY ModelOK, WidthAssumption, Zenon
<1>2. CASE Divs(clk) = {} \/ OutOfRange(clk, value) \/ (value > DivWidth /\ Splits(value) = {})
  <2>1. m = NotMapped
    <3>1. ~ (value > DivWidth /\ value <= DivWidth)
      BY <1>1
    <3>. QED BY <1>2, <3>1, Zenon DEF MapDivider
  <2>. QED BY <2>1 DEF NotMapped
<1>3. CASE Divs(clk) # {} /\ ~ OutOfRange(clk, value) /\ value <= DivWidth
  <2>1. m = [mapped |-> Divs(clk), div0 |-> value, div1 |-> 1]
    BY <1>3, Zenon DEF MapDivider
  <2>. QED BY <1>1, <1>3, <2>1 DEF DivIds
<1>4. CASE Divs(clk) # {} /\ ~ OutOfRange(clk, value) /\ ~ (value <= DivWidth) /\ Splits(value) # {}
  <2>1. m = [mapped |-> DivIds, div0 |-> d, div1 |-> q]
    BY <1>4, Zenon DEF MapDivider
  <2>2. "div1" \in Divs(clk) /\ Divs(clk) = DivIds
    <3>1. value > DivWidth
      BY <1>1, <1>4
    <3>2. "div1" \in Divs(clk)
      BY <1>4, <3>1, Zenon DEF OutOfRange
    <3>. QED BY <1>1, <3>2
  <2>3. d \in Splits(value)
    <3>1. Splits(value) \subseteq Nat
      BY DEF Splits
    <3>. QED BY <1>4, <3>1, MinIsIn
  <2>. HIDE DEF d
  <2>4. d \in Nat \ {0} /\ value % d = 0
    BY <2>3 DEF Splits
  <2>5. q \in Nat /\ value = d * q
    BY <2>4
  <2>. HIDE DEF q
  <2>. QED BY <2>1, <2>2, <2>4, <2>5 DEF DivIds
<1>5. value <= DivWidth \/ value > DivWidth
  BY <1>1
<1>. QED BY <1>2, <1>3, <1>4, <1>5, Zenon

LEMMA WrittenIs ==
  ASSUME NEW n \in Nat
  PROVE  Written(n) \in 0..DivWidth /\ (n <= DivWidth => Written(n) = n)
<1>1. DivWidth + 1 \in Nat \ {0}
  BY WidthAssumption
<1>2. n % (DivWidth + 1) \in 0..DivWidth /\ (n < DivWidth + 1 => n % (DivWidth + 1) = n)
  BY <1>1, WidthAssumption
<1>. QED BY <1>2, WidthAssumption DEF Written
-----------------------------------------------------------------------------
(* Steps of calls about parents leave what is known of dividers, and the reverse. *)

Elsewhere(b, ops, set) ==
  \/ call'[b] = call[b]
  \/ /\ call[b].op \notin ops \/ call[b].pc = "idle"
     /\ \/ call'[b].op \notin ops
        \/ call'[b].op = set /\ call'[b].pc = "idle"

LEMMA DividerFrame ==
  ASSUME Typed, DividerInv, UNCHANGED <<clk, divider, setDivider>>,
         \A b \in Callers : Elsewhere(b, DividerOps, "setDivider"),
         \A b \in Callers : late'[b] = late[b] \/ late'[b].field \notin DivIds,
         \A b \in Callers : late'[b] \in {late[b], NoRequest} \/ ~ Setting(b, "setDivider")
  PROVE  DividerInv'
<1>1. clk' = clk /\ divider' = divider /\ setDivider' = setDivider
  OBVIOUS
<1>2. \A b \in Callers : Setting(b, "setDivider")' => Setting(b, "setDivider") /\ call'[b] = call[b]
  BY DEF Setting, Elsewhere, DividerOps
<1>3. ASSUME NEW c \in Callers, Alone(c, "setDivider", DivIds)
      PROVE  Alone(c, "setDivider", DivIds)'
  BY <1>2, <1>3 DEF Alone
<1>4. DividerIsSet'
  <2>1. Effective' = Effective
    BY <1>1 DEF Effective
  <2>. QED BY <1>1, <1>2, <2>1 DEF DividerInv, DividerIsSet
<1>5. ASSUME NEW c \in Callers
      PROVE  SetsDivider(c)'
  <2>1. SetsDivider(c)
    BY DEF DividerInv
  <2>. QED BY <1>1, <1>2, <1>3, <2>1 DEF SetsDivider, Setting
<1>6. ASSUME NEW c \in Callers
      PROVE  GetsDivider(c)'
  <2>1. GetsDivider(c)
    BY DEF DividerInv
  <2>2. call'[c] = call[c] \/ call'[c].op # "getDivider"
    BY DEF Elsewhere, DividerOps
  <2>. QED BY <1>1, <2>1, <2>2 DEF GetsDivider
<1>. QED BY <1>4, <1>5, <1>6 DEF DividerInv

LEMMA ParentFrame ==
  ASSUME Typed, ParentInv, UNCHANGED <<clk, select, setParent>>,
         \A b \in Callers : Elsewhere(b, ParentOps, "setParent"),
         \A b \in Callers : late'[b] = late[b] \/ late'[b].field # "parent"
  PROVE  ParentInv'
<1>1. clk' = clk /\ select' = select /\ setParent' = setParent
  OBVIOUS
<1>2. \A b \in Callers : Setting(b, "setParent")' => Setting(b, "setParent") /\ call'[b] = call[b]
  BY DEF Setting, Elsewhere, ParentOps
<1>3. ASSUME NEW c \in Callers, Alone(c, "setParent", {"parent"})
      PROVE  Alone(c, "setParent", {"parent"})'
  BY <1>2, <1>3 DEF Alone
<1>4. \A s : ClockParentBySelect(clk, s)' = ClockParentBySelect(clk, s)
  BY <1>1
<1>5. ParentIsSet'
  <2>1. ClockParentBySelect(clk, select)' = ClockParentBySelect(clk, select)
    BY <1>1
  <2>. QED BY <1>1, <1>2, <2>1 DEF ParentInv, ParentIsSet
<1>6. ASSUME NEW c \in Callers
      PROVE  SetsParent(c)'
  <2>1. SetsParent(c)
    BY DEF ParentInv
  <2>. QED BY <1>1, <1>2, <1>3, <2>1 DEF SetsParent
<1>7. ASSUME NEW c \in Callers
      PROVE  GetsParent(c)'
  <2>1. GetsParent(c)
    BY DEF ParentInv
  <2>2. call'[c] = call[c] \/ call'[c].op # "getParent"
    BY DEF Elsewhere, ParentOps
  <2>. QED BY <1>1, <2>1, <2>2 DEF GetsParent
<1>. QED BY <1>5, <1>6, <1>7 DEF ParentInv

(* The other entries when a call disturbs those about the same. *)
LEMMA DisturbedIs ==
  ASSUME Typed, NEW c \in Callers, NEW entry, NEW ops, call' = Disturbed(ops, entry, c)
  PROVE  /\ call'[c] = entry /\ DOMAIN call' = Callers
         /\ \A b \in Callers \ {c} :
              call'[b] = IF call[b].op \in ops THEN [call[b] EXCEPT !.expected = None] ELSE call[b]
BY DEF Disturbed

(* The fields of an entry that was disturbed. *)
LEMMA ForgottenIs ==
  ASSUME NEW e \in Entries
  PROVE  LET f == [e EXCEPT !.expected = None] IN
         /\ f \in Entries /\ f.expected = None
         /\ f.op = e.op /\ f.pc = e.pc /\ f.mapped = e.mapped /\ f.div0 = e.div0 /\ f.div1 = e.div1
         /\ f.value = e.value /\ f.parent = e.parent /\ f.status = e.status
<1>1. None \in Histories
  BY DEF None, Histories
<1>. QED BY <1>1 DEF Entries
-----------------------------------------------------------------------------
(* The steps of the calls about dividers. *)

LEMMA SetDividerBegins ==
  ASSUME Typed, DividerInv, NEW c \in Callers, BeginSetDivider(c)
  PROVE  DividerInv' /\ \A b \in Callers : Elsewhere(b, ParentOps, "setParent")
<1>1. /\ call[c].pc = "idle"
      /\ clk' = clk /\ divider' = divider /\ late' = late
  BY Zenon DEF BeginSetDivider, Begins
<1>. DEFINE entry(v) == [Idle EXCEPT !.op = "setDivider", !.mapped = MapDivider(clk, v).mapped,
                                     !.div0 = MapDivider(clk, v).div0, !.div1 = MapDivider(clk, v).div1,
                                     !.value = v,
                                     !.expected = IF Undisturbed(c, "setDivider", DivIds)
                                                  THEN Divides(v) ELSE None]
<1>2. PICK v \in Values :
        IF MapDivider(clk, v).mapped = {}
        THEN call' = [call EXCEPT ![c] = [entry(v) EXCEPT !.status = "invalid"]]
             /\ UNCHANGED setDivider
        ELSE /\ call' = Disturbed(DividerOps, [entry(v) EXCEPT !.pc = "div0"], c)
             /\ setDivider' = None
  BY Zenon DEF BeginSetDivider
<1>3. /\ entry(v).op = "setDivider" /\ entry(v).mapped = MapDivider(clk, v).mapped
      /\ entry(v).div0 = MapDivider(clk, v).div0 /\ entry(v).div1 = MapDivider(clk, v).div1
      /\ entry(v).value = v /\ entry(v).pc = "idle"
      /\ entry(v).expected = IF Undisturbed(c, "setDivider", DivIds)
                             THEN Divides(v) ELSE None
      /\ DOMAIN entry(v) = DOMAIN Idle
  BY DEF Idle
<1>. HIDE DEF entry
<1>4. call \in [Callers -> Entries]
  BY DEF Typed
<1>5. CASE MapDivider(clk, v).mapped = {}
  <2>1. /\ call' = [call EXCEPT ![c] = [entry(v) EXCEPT !.status = "invalid"]]
        /\ setDivider' = setDivider
    BY <1>2, <1>5, Zenon
  <2>2. call'[c].op = "setDivider" /\ call'[c].pc = "idle"
    BY <1>3, <1>4, <2>1 DEF Idle
  <2>3. \A b \in Callers \ {c} : call'[b] = call[b]
    BY <1>4, <2>1
  <2>4. \A b \in Callers : Elsewhere(b, DividerOps, "setDivider")
    BY <1>1, <2>2, <2>3, Zenon DEF Elsewhere
  <2>5. \A b \in Callers : Elsewhere(b, ParentOps, "setParent")
    BY <1>1, <2>2, <2>3 DEF Elsewhere, ParentOps
  <2>. QED BY <1>1, <2>1, <2>4, <2>5, DividerFrame
<1>6. CASE MapDivider(clk, v).mapped # {}
  <2>1. call' = Disturbed(DividerOps, [entry(v) EXCEPT !.pc = "div0"], c) /\ setDivider' = None
    BY <1>2, <1>6, Zenon
  <2>2. /\ call'[c] = [entry(v) EXCEPT !.pc = "div0"]
        /\ \A b \in Callers \ {c} :
             call'[b] = IF call[b].op \in DividerOps THEN [call[b] EXCEPT !.expected = None]
                                                     ELSE call[b]
    BY <2>1, DisturbedIs
  <2>3. /\ call'[c].op = "setDivider" /\ call'[c].pc = "div0"
        /\ call'[c].div0 = MapDivider(clk, v).div0 /\ call'[c].div1 = MapDivider(clk, v).div1
        /\ call'[c].expected = IF Undisturbed(c, "setDivider", DivIds)
                               THEN Divides(v) ELSE None
    BY <1>3, <2>2 DEF Idle
  <2>4. \A b \in Callers \ {c} :
          /\ call'[b].op = call[b].op /\ call'[b].pc = call[b].pc
          /\ call[b].op \in DividerOps => call'[b].expected = None
          /\ call[b].op \notin DividerOps => call'[b] = call[b]
    <3>1. ASSUME NEW b \in Callers \ {c}
          PROVE  LET f == [call[b] EXCEPT !.expected = None]
                 IN  f.op = call[b].op /\ f.pc = call[b].pc /\ f.expected = None
      <4>1. call[b] \in Entries
        BY <1>4
      <4>. QED BY <4>1, ForgottenIs
    <3>. QED BY <2>2, <3>1, Zenon
  <2>5. DividerIsSet'
    BY <2>1 DEF DividerIsSet
  <2>6. SetsDivider(c)'
    <3>1. CASE call'[c].expected = None
      BY <2>3, <3>1 DEF SetsDivider
    <3>2. CASE call'[c].expected # None
      <4>1. Undisturbed(c, "setDivider", DivIds) /\ call'[c].expected = Divides(v)
        BY <2>3, <3>2
      <4>2. Alone(c, "setDivider", DivIds)'
        BY <1>1, <2>4, <4>1 DEF Undisturbed, Alone, Setting
      <4>3. Keeps(clk, Divides(v), Achieved(clk, v))
        BY <1>6, Zenon DEF Keeps, Settable
      <4>4. Keeps(clk', call'[c].expected,
                  Made(clk', Written(call'[c].div0), Written(call'[c].div1)))
        BY <1>1, <2>3, <4>1, <4>3, Zenon DEF Achieved
      <4>. QED BY <2>1, <2>3, <4>2, <4>4 DEF SetsDivider
    <3>. QED BY <3>1, <3>2
  <2>7. ASSUME NEW b \in Callers \ {c} PROVE SetsDivider(b)' /\ GetsDivider(b)'
    <3>1. SetsDivider(b)
      BY DEF DividerInv
    <3>2. CASE call[b].op \in DividerOps
      BY <1>1, <2>4, <3>1, <3>2 DEF SetsDivider, GetsDivider, Setting
    <3>3. CASE call[b].op \notin DividerOps
      BY <2>4, <3>3 DEF SetsDivider, GetsDivider, Setting, DividerOps
    <3>. QED BY <3>2, <3>3
  <2>8. GetsDivider(c)'
    BY <2>3 DEF GetsDivider
  <2>9. DividerInv'
    BY <2>5, <2>6, <2>7, <2>8 DEF DividerInv
  <2>10. \A b \in Callers : Elsewhere(b, ParentOps, "setParent")
    BY <1>1, <2>3, <2>4 DEF Elsewhere, ParentOps, DividerOps
  <2>. QED BY <2>9, <2>10
<1>. QED BY <1>5, <1>6

LEMMA GetDividerBegins ==
  ASSUME Typed, DividerInv, NEW c \in Callers, BeginGetDivider(c)
  PROVE  DividerInv' /\ \A b \in Callers : Elsewhere(b, ParentOps, "setParent")
<1>1. /\ call[c].pc = "idle"
      /\ clk' = clk /\ divider' = divider /\ late' = late /\ setDivider' = setDivider
  BY Zenon DEF BeginGetDivider, Begins
<1>2. call \in [Callers -> Entries]
  BY DEF Typed
<1>3. /\ \A b \in Callers \ {c} : call'[b] = call[b]
      /\ call'[c].op = "getDivider"
      /\ \/ call'[c].pc = "idle" /\ call'[c].status = "invalid"
         \/ call'[c].pc = "div0" /\ call'[c].value = 1 /\ call'[c].expected = setDivider
  <2>1. CASE Divs(clk) = {}
    <3>1. call' = [call EXCEPT ![c] = [Idle EXCEPT !.op = "getDivider", !.status = "invalid"]]
      BY <2>1, Zenon DEF BeginGetDivider
    <3>. QED BY <1>2, <3>1 DEF Idle
  <2>2. CASE Divs(clk) # {}
    <3>1. call' = [call EXCEPT ![c] =
                     [Idle EXCEPT !.op = "getDivider", !.pc = "div0", !.mapped = Divs(clk),
                                  !.value = 1, !.expected = setDivider]]
      BY <2>2, Zenon DEF BeginGetDivider
    <3>. QED BY <1>2, <3>1 DEF Idle
  <2>. QED BY <2>1, <2>2
<1>4. \A b \in Callers : Setting(b, "setDivider")' => Setting(b, "setDivider") /\ call'[b] = call[b]
  BY <1>3 DEF Setting
<1>5. ASSUME NEW b \in Callers, Alone(b, "setDivider", DivIds)
      PROVE  Alone(b, "setDivider", DivIds)'
  BY <1>1, <1>4, <1>5 DEF Alone
<1>6. DividerIsSet'
  <2>1. Effective' = Effective
    BY <1>1 DEF Effective
  <2>. QED BY <1>1, <1>4, <2>1 DEF DividerInv, DividerIsSet
<1>7. ASSUME NEW b \in Callers PROVE SetsDivider(b)'
  <2>1. SetsDivider(b)
    BY DEF DividerInv
  <2>. QED BY <1>1, <1>4, <1>5, <2>1 DEF SetsDivider
<1>8. ASSUME NEW b \in Callers PROVE GetsDivider(b)'
  <2>1. CASE b = c
    BY <1>1, <1>3, <2>1 DEF GetsDivider
  <2>2. CASE b # c
    <3>1. GetsDivider(b) /\ call'[b] = call[b]
      BY <1>3, <2>2 DEF DividerInv
    <3>. QED BY <1>1, <3>1 DEF GetsDivider
  <2>. QED BY <2>1, <2>2
<1>9. \A b \in Callers : Elsewhere(b, ParentOps, "setParent")
  BY <1>1, <1>3 DEF Elsewhere, ParentOps
<1>. QED BY <1>6, <1>7, <1>8, <1>9 DEF DividerInv

LEMMA OneDividerIsSet ==
  ASSUME Typed, DividerInv, NEW c \in Callers, Placed(c), SetOneDivider(c)
  PROVE  DividerInv' /\ \A b \in Callers : Elsewhere(b, ParentOps, "setParent")
<1>. DEFINE d == call[c].pc
            to == IF d = "div0" THEN call[c].div0 ELSE call[c].div1
            more == d = "div0" /\ "div1" \in call[c].mapped
<1>1. /\ call[c].op = "setDivider" /\ d \in DivIds /\ late[c] = NoRequest
      /\ divider' = [divider EXCEPT ![d] = Written(to)]
      /\ call' = [call EXCEPT ![c].pc = IF more THEN "div1" ELSE "idle",
                              ![c].status = IF more THEN @ ELSE "success"]
      /\ setDivider' = IF more THEN setDivider ELSE call[c].expected
      /\ clk' = clk /\ late' = late
  BY Zenon DEF SetOneDivider
<1>2. call \in [Callers -> Entries] /\ divider \in [DivIds -> 0..DivWidth]
  BY DEF Typed
<1>3. /\ \A b \in Callers \ {c} : call'[b] = call[b]
      /\ call'[c].op = "setDivider" /\ call'[c].pc = (IF more THEN "div1" ELSE "idle")
      /\ call'[c].mapped = call[c].mapped /\ call'[c].div0 = call[c].div0
      /\ call'[c].div1 = call[c].div1 /\ call'[c].expected = call[c].expected
  <2>. HIDE DEF more
  <2>. QED BY <1>1, <1>2 DEF Entries
<1>4. d # "idle" /\ Setting(c, "setDivider") /\ setDivider = None
  <2>1. d # "idle"
    BY <1>1 DEF DivIds
  <2>2. Setting(c, "setDivider")
    BY <1>1, <2>1 DEF Setting
  <2>. QED BY <2>1, <2>2 DEF DividerInv, DividerIsSet
<1>5. call[c].mapped = Divs(clk) /\ d \in Divs(clk)
  BY <1>1, <1>4 DEF Placed, DivIds, ParentOps
<1>7. SetsDivider(c)
  BY DEF DividerInv
<1>8. ASSUME NEW b \in Callers \ {c}
      PROVE  /\ SetsDivider(b)' /\ GetsDivider(b)'
             /\ Setting(b, "setDivider") => call[b].expected = None
  <2>1. SetsDivider(b) /\ GetsDivider(b) /\ call'[b] = call[b]
    BY <1>3 DEF DividerInv
  <2>2. Setting(b, "setDivider") => call[b].expected = None
    BY <1>4, <2>1 DEF SetsDivider, Alone
  <2>3. SetsDivider(b)'
    BY <1>1, <2>1, <2>2 DEF SetsDivider, Setting
  <2>4. GetsDivider(b)'
    <3>1. call[b].op = "getDivider" /\ call[b].expected # None => call[b].pc = "idle"
      BY <1>4, <2>1 DEF GetsDivider
    <3>. QED BY <1>1, <2>1, <3>1 DEF GetsDivider
  <2>. QED BY <2>2, <2>3, <2>4
<1>9. GetsDivider(c)'
  BY <1>3 DEF GetsDivider
<1>10. \A b \in Callers : Elsewhere(b, ParentOps, "setParent")
  BY <1>1, <1>3 DEF Elsewhere, ParentOps
<1>11. CASE more
  <2>1. /\ setDivider' = None /\ call'[c].pc = "div1" /\ d = "div0"
        /\ divider'.div0 = Written(call[c].div0)
    BY <1>1, <1>2, <1>3, <1>4, <1>11 DEF DivIds
  <2>2. DividerIsSet'
    BY <2>1 DEF DividerIsSet
  <2>3. SetsDivider(c)'
    <3>1. CASE call[c].expected = None
      BY <1>1, <1>3, <3>1 DEF SetsDivider
    <3>2. CASE call[c].expected # None
      <4>1. Alone(c, "setDivider", DivIds)'
        <5>1. Alone(c, "setDivider", DivIds)
          BY <1>4, <1>7, <3>2 DEF SetsDivider
        <5>. QED BY <1>1, <1>3, <5>1 DEF Alone, Setting
      <4>. QED BY <1>1, <1>3, <1>4, <1>7, <2>1, <3>2, <4>1 DEF SetsDivider
    <3>. QED BY <3>1, <3>2
  <2>4. \A b \in Callers : SetsDivider(b)' /\ GetsDivider(b)'
    <3>1. ASSUME NEW b \in Callers PROVE SetsDivider(b)' /\ GetsDivider(b)'
      <4>1. CASE b = c
        BY <1>9, <2>2, <2>3, <4>1
      <4>2. CASE b # c
        BY <1>8, <4>2
      <4>. QED BY <4>1, <4>2
    <3>. QED BY <3>1
  <2>. QED BY <1>10, <2>2, <2>3, <2>4, Zenon DEF DividerInv
<1>12. CASE ~ more
  <2>1. setDivider' = call[c].expected /\ call'[c].pc = "idle"
    BY <1>1, <1>3, <1>12
  <2>2. SetsDivider(c)'
    BY <2>1 DEF SetsDivider, Setting
  <2>3. DividerIsSet'
    <3>1. SUFFICES ASSUME call[c].expected # None
                   PROVE  DividerIsSet'
      BY <2>1 DEF DividerIsSet
    <3>2. /\ Alone(c, "setDivider", DivIds)
          /\ Keeps(clk, call[c].expected,
                   Made(clk, Written(call[c].div0), Written(call[c].div1)))
          /\ d = "div1" => divider.div0 = Written(call[c].div0)
      BY <1>4, <1>7, <3>1 DEF SetsDivider
    <3>3. \A b \in Callers : ~ Setting(b, "setDivider")' /\ late'[b].field \notin DivIds
      <4>1. NoRequest.field \notin DivIds
        BY DEF NoRequest, DivIds
      <4>. QED BY <1>1, <1>3, <2>1, <3>2, <4>1 DEF Alone, Setting
    <3>4. Effective' = Made(clk, Written(call[c].div0), Written(call[c].div1))
      <4>1. CASE d = "div0"
        <5>1. "div1" \notin Divs(clk)
          BY <1>5, <1>12, <4>1
        <5>2. divider'.div0 = Written(call[c].div0)
          BY <1>1, <1>2, <4>1 DEF DivIds
        <5>. QED BY <1>1, <5>1, <5>2 DEF Effective, Made
      <4>2. CASE d = "div1"
        <5>1. divider'.div1 = Written(call[c].div1) /\ divider'.div0 = Written(call[c].div0)
          BY <1>1, <1>2, <3>2, <4>2 DEF DivIds
        <5>. QED BY <1>1, <5>1 DEF Effective
      <4>. QED BY <1>1, <4>1, <4>2 DEF DivIds
    <3>5. Keeps(clk', setDivider', Effective')
      BY <1>1, <2>1, <3>2, <3>4
    <3>. QED BY <3>3, <3>5 DEF DividerIsSet
  <2>4. \A b \in Callers : SetsDivider(b)' /\ GetsDivider(b)'
    <3>1. ASSUME NEW b \in Callers PROVE SetsDivider(b)' /\ GetsDivider(b)'
      <4>1. CASE b = c
        BY <1>9, <2>2, <2>3, <4>1
      <4>2. CASE b # c
        BY <1>8, <4>2
      <4>. QED BY <4>1, <4>2
    <3>. QED BY <3>1
  <2>. QED BY <1>10, <2>2, <2>3, <2>4, Zenon DEF DividerInv
<1>. QED BY <1>11, <1>12

LEMMA OneDividerIsGot ==
  ASSUME Typed, DividerInv, NEW c \in Callers, Placed(c), GetOneDivider(c)
  PROVE  DividerInv' /\ \A b \in Callers : Elsewhere(b, ParentOps, "setParent")
<1>. DEFINE d == call[c].pc
            more == d = "div0" /\ "div1" \in call[c].mapped
<1>1. /\ call[c].op = "getDivider" /\ d \in DivIds
      /\ call' = [call EXCEPT ![c].pc = IF more THEN "div1" ELSE "idle",
                              ![c].value = @ * divider[d],
                              ![c].status = IF more THEN @ ELSE "success"]
      /\ clk' = clk /\ divider' = divider /\ late' = late /\ setDivider' = setDivider
  BY Zenon DEF GetOneDivider
<1>2. call \in [Callers -> Entries] /\ divider \in [DivIds -> 0..DivWidth]
  BY DEF Typed
<1>3. /\ \A b \in Callers \ {c} : call'[b] = call[b]
      /\ call'[c].op = "getDivider" /\ call'[c].pc = (IF more THEN "div1" ELSE "idle")
      /\ call'[c].expected = call[c].expected /\ call'[c].value = call[c].value * divider[d]
  <2>. HIDE DEF more
  <2>. QED BY <1>1, <1>2 DEF Entries
<1>4. call[c].mapped = Divs(clk) /\ d \in Divs(clk) /\ d # "idle"
  BY <1>1 DEF Placed, DivIds, ParentOps
<1>5. \A b \in Callers : Setting(b, "setDivider")' => Setting(b, "setDivider") /\ call'[b] = call[b]
  BY <1>3 DEF Setting
<1>6. ASSUME NEW b \in Callers, Alone(b, "setDivider", DivIds)
      PROVE  Alone(b, "setDivider", DivIds)'
  BY <1>1, <1>5, <1>6 DEF Alone
<1>7. DividerIsSet'
  <2>1. Effective' = Effective
    BY <1>1 DEF Effective
  <2>. QED BY <1>1, <1>5, <2>1 DEF DividerInv, DividerIsSet
<1>8. ASSUME NEW b \in Callers PROVE SetsDivider(b)'
  <2>1. SetsDivider(b)
    BY DEF DividerInv
  <2>. QED BY <1>1, <1>5, <1>6, <2>1 DEF SetsDivider
<1>9. ASSUME NEW b \in Callers \ {c} PROVE GetsDivider(b)'
  <2>1. GetsDivider(b) /\ call'[b] = call[b]
    BY <1>3 DEF DividerInv
  <2>. QED BY <1>1, <2>1 DEF GetsDivider
<1>10. GetsDivider(c)'
  <2>1. SUFFICES ASSUME call[c].expected # None
                 PROVE  GetsDivider(c)'
    BY <1>3 DEF GetsDivider
  <2>2. /\ call[c].expected = setDivider
        /\ d = "div0" => call[c].value = 1
        /\ d = "div1" => call[c].value = divider.div0
    BY <1>1, <1>4, <2>1 DEF DividerInv, GetsDivider
  <2>3. Keeps(clk, setDivider, Effective)
    BY <2>1, <2>2 DEF DividerInv, DividerIsSet
  <2>4. divider.div0 \in Nat /\ divider.div1 \in Nat
    BY <1>2, WidthAssumption DEF DivIds
  <2>5. CASE more
    <3>1. call'[c].value = divider.div0 /\ call'[c].pc = "div1"
      BY <1>3, <2>2, <2>4, <2>5
    <3>. QED BY <1>1, <1>3, <2>2, <3>1 DEF GetsDivider
  <2>6. CASE ~ more
    <3>1. call'[c].value = Effective /\ call'[c].pc = "idle"
      <4>1. CASE d = "div0"
        BY <1>3, <1>4, <2>2, <2>4, <2>6, <4>1 DEF Effective, Made
      <4>2. CASE d = "div1"
        BY <1>3, <1>4, <2>2, <2>4, <2>6, <4>2 DEF Effective, Made
      <4>. QED BY <1>1, <4>1, <4>2 DEF DivIds
    <3>2. Keeps(clk', call'[c].expected, call'[c].value)
      BY <1>1, <1>3, <2>2, <2>3, <3>1
    <3>. QED BY <1>3, <3>1, <3>2 DEF GetsDivider
  <2>. QED BY <2>5, <2>6
<1>11. \A b \in Callers : Elsewhere(b, ParentOps, "setParent")
  BY <1>1, <1>3 DEF Elsewhere, ParentOps
<1>12. \A b \in Callers : GetsDivider(b)'
  <2>1. ASSUME NEW b \in Callers PROVE GetsDivider(b)'
    <3>1. CASE b = c
      BY <1>10, <3>1
    <3>2. CASE b # c
      BY <1>9, <3>2
    <3>. QED BY <3>1, <3>2
  <2>. QED BY <2>1
<1>. QED BY <1>7, <1>8, <1>11, <1>12 DEF DividerInv

(* A call that fails sets nothing that is known, and may leave a request behind. *)
LEMMA DividerCallFails ==
  ASSUME Typed, DividerInv, NEW c \in Callers, Placed(c), RemoteCallFails(c),
         call[c].op \in DividerOps
  PROVE  /\ DividerInv'
         /\ \A b \in Callers : Elsewhere(b, ParentOps, "setParent")
         /\ \A b \in Callers : late'[b] = late[b] \/ late'[b].field # "parent"
<1>1. /\ call[c].pc # "idle"
      /\ call' = [call EXCEPT ![c].pc = "idle", ![c].status = "error"]
      /\ clk' = clk /\ divider' = divider /\ setDivider' = setDivider
  BY Zenon DEF RemoteCallFails
<1>2. call \in [Callers -> Entries] /\ late \in [Callers -> Requests]
  BY DEF Typed
<1>3. /\ \A b \in Callers \ {c} : call'[b] = call[b] /\ late'[b] = late[b]
      /\ late'[c] = late[c] \/ (call[c].op = "setDivider" /\ late'[c].field = call[c].pc)
      /\ call'[c].op = call[c].op /\ call'[c].pc = "idle" /\ call'[c].status = "error"
  <2>1. /\ \A b \in Callers \ {c} : call'[b] = call[b]
        /\ call'[c].op = call[c].op /\ call'[c].pc = "idle" /\ call'[c].status = "error"
    BY <1>1, <1>2 DEF Entries
  <2>2. \/ late' = late
        \/ /\ call[c].op \in {"setDivider", "setParent"}
           /\ \E to : late' = [late EXCEPT ![c] = [field |-> call[c].pc, to |-> to]]
    BY Zenon DEF RemoteCallFails
  <2>3. /\ \A b \in Callers \ {c} : late'[b] = late[b]
        /\ late'[c] = late[c] \/ (call[c].op = "setDivider" /\ late'[c].field = call[c].pc)
    <3>1. CASE late' = late
      BY <3>1, Zenon
    <3>2. CASE /\ call[c].op \in {"setDivider", "setParent"}
               /\ \E to : late' = [late EXCEPT ![c] = [field |-> call[c].pc, to |-> to]]
      <4>1. PICK to : late' = [late EXCEPT ![c] = [field |-> call[c].pc, to |-> to]]
        BY <3>2
      <4>2. call[c].op = "setDivider"
        BY <3>2 DEF DividerOps
      <4>. QED BY <1>2, <4>1, <4>2
    <3>. QED BY <2>2, <3>1, <3>2
  <2>. QED BY <2>1, <2>3
<1>4. call[c].pc \in DivIds
  BY <1>1, <1>2 DEF Placed, ParentOps, DividerOps, Entries
<1>5. call[c].op = "setDivider" => Setting(c, "setDivider") /\ setDivider = None
  BY <1>1 DEF Setting, DividerInv, DividerIsSet
<1>6. DividerIsSet'
  <2>1. Effective' = Effective
    BY <1>1 DEF Effective
  <2>. SUFFICES ASSUME setDivider # None PROVE DividerIsSet'
    BY <1>1 DEF DividerIsSet
  <2>2. /\ \A b \in Callers : ~ Setting(b, "setDivider") /\ late[b].field \notin DivIds
        /\ Keeps(clk, setDivider, Effective)
    BY DEF DividerInv, DividerIsSet
  <2>3. call[c].op # "setDivider"
    BY <1>5
  <2>4. ASSUME NEW b \in Callers
        PROVE  ~ Setting(b, "setDivider")' /\ late'[b].field \notin DivIds
    <3>1. CASE b = c
      BY <1>3, <2>2, <2>3, <3>1 DEF Setting
    <3>2. CASE b # c
      BY <1>3, <2>2, <3>2 DEF Setting
    <3>. QED BY <3>1, <3>2
  <2>. QED BY <1>1, <2>1, <2>2, <2>4 DEF DividerIsSet
<1>7. ASSUME NEW b \in Callers \ {c} PROVE SetsDivider(b)' /\ GetsDivider(b)'
  <2>1. SetsDivider(b) /\ GetsDivider(b) /\ call'[b] = call[b] /\ late'[b] = late[b]
    BY <1>3 DEF DividerInv
  <2>2. Alone(b, "setDivider", DivIds) => Alone(b, "setDivider", DivIds)'
    BY <1>3, <1>5 DEF Alone, Setting
  <2>3. SetsDivider(b)'
    BY <1>1, <2>1, <2>2 DEF SetsDivider, Setting
  <2>4. GetsDivider(b)'
    BY <1>1, <2>1 DEF GetsDivider
  <2>. QED BY <2>3, <2>4
<1>8. SetsDivider(c)' /\ GetsDivider(c)'
  BY <1>3 DEF SetsDivider, GetsDivider, Setting
<1>9. \A b \in Callers : SetsDivider(b)' /\ GetsDivider(b)'
  <2>1. ASSUME NEW b \in Callers PROVE SetsDivider(b)' /\ GetsDivider(b)'
    <3>1. CASE b = c
      BY <1>8, <3>1
    <3>2. CASE b # c
      BY <1>7, <3>2
    <3>. QED BY <3>1, <3>2
  <2>. QED BY <2>1
<1>10. \A b \in Callers : Elsewhere(b, ParentOps, "setParent")
  BY <1>3 DEF Elsewhere, ParentOps, DividerOps
<1>11. \A b \in Callers : late'[b] = late[b] \/ late'[b].field # "parent"
  BY <1>3, <1>4 DEF DivIds
<1>. QED BY <1>6, <1>9, <1>10, <1>11 DEF DividerInv

(* A late request for a divider finds nothing that is known. *)
LEMMA LateDivider ==
  ASSUME Typed, DividerInv, NEW c \in Callers, PmuComesLate(c), late[c].field # "parent"
  PROVE  DividerInv' /\ select' = select
<1>1. /\ late[c] # NoRequest /\ select' = select
      /\ divider' = [divider EXCEPT ![late[c].field] = Written(late[c].to)]
      /\ late' = [late EXCEPT ![c] = NoRequest]
      /\ clk' = clk /\ call' = call /\ setDivider' = setDivider
  BY Zenon DEF PmuComesLate
<1>2. /\ call \in [Callers -> Entries] /\ divider \in [DivIds -> 0..DivWidth]
      /\ late \in [Callers -> Requests]
  BY DEF Typed
<1>3. \A b \in Callers : late'[b] = IF b = c THEN NoRequest ELSE late[b]
  BY <1>1, <1>2
<1>4. NoRequest.field \notin DivIds
  BY DEF NoRequest, DivIds
<1>5. CASE late[c].field \notin DivIds
  <2>1. divider' = divider
    BY <1>1, <1>2, <1>5
  <2>2. \A b \in Callers : Alone(b, "setDivider", DivIds) => Alone(b, "setDivider", DivIds)'
    BY <1>1, <1>3, <1>4 DEF Alone, Setting
  <2>3. DividerIsSet'
    <3>1. Effective' = Effective
      BY <1>1, <2>1 DEF Effective
    <3>. QED BY <1>1, <1>3, <1>4, <3>1 DEF DividerInv, DividerIsSet, Setting
  <2>4. ASSUME NEW b \in Callers PROVE SetsDivider(b)' /\ GetsDivider(b)'
    <3>1. SetsDivider(b) /\ GetsDivider(b)
      BY DEF DividerInv
    <3>2. SetsDivider(b)'
      BY <1>1, <1>3, <2>1, <2>2, <3>1 DEF SetsDivider, Setting
    <3>3. GetsDivider(b)'
      BY <1>1, <2>1, <3>1 DEF GetsDivider
    <3>. QED BY <3>2, <3>3
  <2>. QED BY <1>1, <2>3, <2>4 DEF DividerInv
<1>6. CASE late[c].field \in DivIds
  <2>1. setDivider = None
    BY <1>6 DEF DividerInv, DividerIsSet
  <2>2. DividerIsSet'
    BY <1>1, <2>1 DEF DividerIsSet
  <2>3. ASSUME NEW b \in Callers PROVE SetsDivider(b)' /\ GetsDivider(b)'
    <3>1. SetsDivider(b) /\ GetsDivider(b)
      BY DEF DividerInv
    <3>2. SetsDivider(b)'
      <4>1. Alone(b, "setDivider", DivIds) => Alone(b, "setDivider", DivIds)' /\ b = c
        BY <1>1, <1>3, <1>4, <1>6 DEF Alone, Setting
      <4>. QED BY <1>1, <1>3, <3>1, <4>1 DEF SetsDivider, Setting
    <3>3. GetsDivider(b)'
      BY <1>1, <2>1, <3>1 DEF GetsDivider
    <3>. QED BY <3>2, <3>3
  <2>. QED BY <1>1, <2>2, <2>3 DEF DividerInv
<1>. QED BY <1>5, <1>6
-----------------------------------------------------------------------------
(* The steps of the calls about parents. *)

LEMMA SetParentBegins ==
  ASSUME Typed, ParentInv, NEW c \in Callers, BeginSetParent(c)
  PROVE  ParentInv' /\ \A b \in Callers : Elsewhere(b, DividerOps, "setDivider")
<1>1. call[c].pc = "idle" /\ clk' = clk /\ select' = select /\ late' = late
  BY Zenon DEF BeginSetParent, Begins
<1>. DEFINE entry(p) == [Idle EXCEPT !.op = "setParent", !.parent = p,
                                     !.expected = IF Undisturbed(c, "setParent", {"parent"})
                                                  THEN p ELSE None]
<1>2. PICK p \in Parents(clk) \cup {None} :
        IF SelectByClockParent(clk, p) = {}
        THEN call' = [call EXCEPT ![c] = [entry(p) EXCEPT !.status = "invalid"]]
             /\ UNCHANGED setParent
        ELSE /\ \E s \in SelectByClockParent(clk, p) :
                  call' = Disturbed(ParentOps, [entry(p) EXCEPT !.pc = "parent", !.value = s], c)
             /\ setParent' = None
  BY Zenon DEF BeginSetParent
<1>3. /\ entry(p).op = "setParent" /\ entry(p).pc = "idle"
      /\ entry(p).expected = IF Undisturbed(c, "setParent", {"parent"}) THEN p ELSE None
      /\ DOMAIN entry(p) = DOMAIN Idle
  BY DEF Idle
<1>. HIDE DEF entry
<1>4. call \in [Callers -> Entries] /\ clk \in Clocks
  BY DEF Typed
<1>5. CASE SelectByClockParent(clk, p) = {}
  <2>1. /\ call' = [call EXCEPT ![c] = [entry(p) EXCEPT !.status = "invalid"]]
        /\ setParent' = setParent
    BY <1>2, <1>5, Zenon
  <2>2. call'[c].op = "setParent" /\ call'[c].pc = "idle"
    BY <1>3, <1>4, <2>1 DEF Idle
  <2>3. \A b \in Callers \ {c} : call'[b] = call[b]
    BY <1>4, <2>1
  <2>4. \A b \in Callers : Elsewhere(b, ParentOps, "setParent")
    BY <1>1, <2>2, <2>3, Zenon DEF Elsewhere
  <2>5. \A b \in Callers : Elsewhere(b, DividerOps, "setDivider")
    BY <1>1, <2>2, <2>3 DEF Elsewhere, DividerOps
  <2>. QED BY <1>1, <2>1, <2>4, <2>5, ParentFrame
<1>6. CASE SelectByClockParent(clk, p) # {}
  <2>1. PICK s \in SelectByClockParent(clk, p) :
          call' = Disturbed(ParentOps, [entry(p) EXCEPT !.pc = "parent", !.value = s], c)
    BY <1>2, <1>6, Zenon
  <2>2. setParent' = None
    BY <1>2, <1>6, Zenon
  <2>3. /\ call'[c] = [entry(p) EXCEPT !.pc = "parent", !.value = s]
        /\ \A b \in Callers \ {c} :
             call'[b] = IF call[b].op \in ParentOps THEN [call[b] EXCEPT !.expected = None]
                                                    ELSE call[b]
    BY <2>1, DisturbedIs
  <2>4. /\ call'[c].op = "setParent" /\ call'[c].pc = "parent" /\ call'[c].value = s
        /\ call'[c].expected = IF Undisturbed(c, "setParent", {"parent"}) THEN p ELSE None
    BY <1>3, <2>3 DEF Idle
  <2>5. \A b \in Callers \ {c} :
          /\ call'[b].op = call[b].op /\ call'[b].pc = call[b].pc
          /\ call[b].op \in ParentOps => call'[b].expected = None
          /\ call[b].op \notin ParentOps => call'[b] = call[b]
    <3>1. ASSUME NEW b \in Callers \ {c}
          PROVE  LET f == [call[b] EXCEPT !.expected = None]
                 IN  f.op = call[b].op /\ f.pc = call[b].pc /\ f.expected = None
      <4>1. call[b] \in Entries
        BY <1>4
      <4>. QED BY <4>1, ForgottenIs
    <3>. QED BY <2>3, <3>1, Zenon
  <2>6. ParentIsSet'
    BY <2>2 DEF ParentIsSet
  <2>7. SetsParent(c)'
    <3>1. SUFFICES ASSUME call'[c].expected # None
                   PROVE  SetsParent(c)'
      BY DEF SetsParent
    <3>2. Undisturbed(c, "setParent", {"parent"}) /\ call'[c].expected = p
      BY <2>4, <3>1
    <3>3. Alone(c, "setParent", {"parent"})'
      BY <1>1, <2>5, <3>2 DEF Undisturbed, Alone, Setting
    <3>4. ClockParentBySelect(clk, s) = p
      BY <1>4, <2>1, ParentOfSelect
    <3>5. ClockParentBySelect(clk', call'[c].value) = call'[c].expected
      BY <1>1, <2>4, <3>2, <3>4, Zenon
    <3>. QED BY <2>2, <3>3, <3>5, Zenon DEF SetsParent
  <2>8. ASSUME NEW b \in Callers \ {c} PROVE SetsParent(b)' /\ GetsParent(b)'
    <3>1. CASE call[b].op \in ParentOps
      BY <2>5, <3>1 DEF SetsParent, GetsParent
    <3>2. CASE call[b].op \notin ParentOps
      BY <2>5, <3>2 DEF SetsParent, GetsParent, Setting, ParentOps
    <3>. QED BY <3>1, <3>2
  <2>9. GetsParent(c)'
    BY <2>4 DEF GetsParent
  <2>10. ParentInv'
    BY <2>6, <2>7, <2>8, <2>9 DEF ParentInv
  <2>11. \A b \in Callers : Elsewhere(b, DividerOps, "setDivider")
    BY <1>1, <2>4, <2>5 DEF Elsewhere, ParentOps, DividerOps
  <2>. QED BY <2>10, <2>11
<1>. QED BY <1>5, <1>6

LEMMA GetParentBegins ==
  ASSUME Typed, ParentInv, NEW c \in Callers, BeginGetParent(c)
  PROVE  ParentInv' /\ \A b \in Callers : Elsewhere(b, DividerOps, "setDivider")
<1>1. /\ call[c].pc = "idle" /\ clk' = clk /\ select' = select /\ late' = late
      /\ setParent' = setParent
      /\ call' = [call EXCEPT ![c] =
           [Idle EXCEPT !.op = "getParent", !.pc = "parent", !.expected = setParent]]
  BY Zenon DEF BeginGetParent, Begins
<1>2. call \in [Callers -> Entries]
  BY DEF Typed
<1>3. /\ \A b \in Callers \ {c} : call'[b] = call[b]
      /\ call'[c].op = "getParent" /\ call'[c].pc = "parent" /\ call'[c].expected = setParent
  BY <1>1, <1>2 DEF Idle
<1>4. \A b \in Callers : Setting(b, "setParent")' => Setting(b, "setParent") /\ call'[b] = call[b]
  BY <1>3 DEF Setting
<1>5. \A b \in Callers : Alone(b, "setParent", {"parent"}) => Alone(b, "setParent", {"parent"})'
  BY <1>1, <1>4 DEF Alone
<1>6. ParentIsSet'
  <2>1. ClockParentBySelect(clk, select)' = ClockParentBySelect(clk, select)
    BY <1>1
  <2>. QED BY <1>1, <1>4, <2>1 DEF ParentInv, ParentIsSet
<1>7. ASSUME NEW b \in Callers PROVE SetsParent(b)' /\ GetsParent(b)'
  <2>1. SetsParent(b) /\ GetsParent(b)
    BY DEF ParentInv
  <2>2. SetsParent(b)'
    BY <1>1, <1>4, <1>5, <2>1 DEF SetsParent
  <2>3. CASE b = c
    BY <1>1, <1>3, <2>2, <2>3 DEF GetsParent
  <2>4. CASE b # c
    BY <1>1, <1>3, <2>1, <2>2, <2>4 DEF GetsParent
  <2>. QED BY <2>3, <2>4
<1>8. \A b \in Callers : Elsewhere(b, DividerOps, "setDivider")
  BY <1>1, <1>3 DEF Elsewhere, DividerOps
<1>. QED BY <1>6, <1>7, <1>8 DEF ParentInv

LEMMA SelectIsSet ==
  ASSUME Typed, ParentInv, NEW c \in Callers, SetSelect(c)
  PROVE  ParentInv' /\ \A b \in Callers : Elsewhere(b, DividerOps, "setDivider")
<1>1. /\ call[c].op = "setParent" /\ call[c].pc = "parent" /\ late[c] = NoRequest
      /\ select' = call[c].value /\ clk' = clk /\ late' = late
      /\ call' = [call EXCEPT ![c].pc = "idle", ![c].status = "success"]
      /\ setParent' = call[c].expected
  BY Zenon DEF SetSelect
<1>2. call \in [Callers -> Entries]
  BY DEF Typed
<1>3. /\ \A b \in Callers \ {c} : call'[b] = call[b]
      /\ call'[c].op = "setParent" /\ call'[c].pc = "idle"
  BY <1>1, <1>2 DEF Entries
<1>4. Setting(c, "setParent") /\ setParent = None
  BY <1>1 DEF Setting, ParentInv, ParentIsSet
<1>5. ParentIsSet'
  <2>1. SUFFICES ASSUME call[c].expected # None
                 PROVE  ParentIsSet'
    BY <1>1 DEF ParentIsSet
  <2>2. /\ Alone(c, "setParent", {"parent"})
        /\ ClockParentBySelect(clk, call[c].value) = call[c].expected
    BY <1>4, <2>1 DEF ParentInv, SetsParent
  <2>3. NoRequest.field # "parent"
    BY DEF NoRequest
  <2>4. \A b \in Callers : ~ Setting(b, "setParent")' /\ late'[b].field # "parent"
    <3>1. ASSUME NEW b \in Callers
          PROVE  ~ Setting(b, "setParent")' /\ late'[b].field # "parent"
      <4>1. CASE b = c
        BY <1>1, <1>3, <2>3, <4>1 DEF Setting
      <4>2. CASE b # c
        <5>1. ~ Setting(b, "setParent") /\ late[b].field # "parent"
          BY <2>2, <4>2 DEF Alone
        <5>. QED BY <1>1, <1>3, <4>2, <5>1 DEF Setting
      <4>. QED BY <4>1, <4>2
    <3>. QED BY <3>1
  <2>5. ClockParentBySelect(clk', select') = setParent'
    BY <1>1, <2>2, Zenon
  <2>. QED BY <2>4, <2>5 DEF ParentIsSet
<1>6. ASSUME NEW b \in Callers PROVE SetsParent(b)' /\ GetsParent(b)'
  <2>1. SetsParent(b) /\ GetsParent(b)
    BY DEF ParentInv
  <2>2. CASE b = c
    BY <1>3, <2>2 DEF SetsParent, GetsParent, Setting
  <2>3. CASE b # c
    <3>1. call'[b] = call[b]
      BY <1>3, <2>3
    <3>2. SetsParent(b)'
      BY <1>4, <2>1, <2>3, <3>1 DEF SetsParent, Alone, Setting
    <3>3. GetsParent(b)'
      BY <1>4, <2>1, <3>1 DEF GetsParent
    <3>. QED BY <3>2, <3>3
  <2>. QED BY <2>2, <2>3
<1>7. \A b \in Callers : Elsewhere(b, DividerOps, "setDivider")
  BY <1>1, <1>3 DEF Elsewhere, DividerOps
<1>. QED BY <1>5, <1>6, <1>7 DEF ParentInv

LEMMA SelectIsGot ==
  ASSUME Typed, ParentInv, NEW c \in Callers, GetSelect(c)
  PROVE  ParentInv' /\ \A b \in Callers : Elsewhere(b, DividerOps, "setDivider")
<1>. DEFINE parent == ClockParentBySelect(clk, select)
<1>1. /\ call[c].op = "getParent" /\ call[c].pc = "parent"
      /\ call' = [call EXCEPT ![c].pc = "idle", ![c].parent = parent,
                              ![c].status = IF parent = None THEN "invalid" ELSE "success"]
      /\ clk' = clk /\ select' = select /\ late' = late /\ setParent' = setParent
  BY Zenon DEF GetSelect
<1>2. call \in [Callers -> Entries]
  BY DEF Typed
<1>3. /\ \A b \in Callers \ {c} : call'[b] = call[b]
      /\ call'[c].op = "getParent" /\ call'[c].pc = "idle" /\ call'[c].parent = parent
      /\ call'[c].expected = call[c].expected
  <2>. HIDE DEF parent
  <2>. QED BY <1>1, <1>2 DEF Entries
<1>4. \A b \in Callers : Setting(b, "setParent")' => Setting(b, "setParent") /\ call'[b] = call[b]
  BY <1>3 DEF Setting
<1>5. \A b \in Callers : Alone(b, "setParent", {"parent"}) => Alone(b, "setParent", {"parent"})'
  BY <1>1, <1>4 DEF Alone
<1>6. ParentIsSet'
  <2>1. ClockParentBySelect(clk, select)' = ClockParentBySelect(clk, select)
    BY <1>1
  <2>. QED BY <1>1, <1>4, <2>1 DEF ParentInv, ParentIsSet
<1>7. ASSUME NEW b \in Callers PROVE SetsParent(b)' /\ GetsParent(b)'
  <2>1. SetsParent(b) /\ GetsParent(b)
    BY DEF ParentInv
  <2>2. SetsParent(b)'
    BY <1>1, <1>4, <1>5, <2>1 DEF SetsParent
  <2>3. CASE b = c
    <3>1. call[c].expected # None => call[c].expected = setParent /\ parent = setParent
      BY <1>1, <2>1, <2>3 DEF GetsParent, ParentInv, ParentIsSet
    <3>. QED BY <1>3, <2>2, <2>3, <3>1 DEF GetsParent
  <2>4. CASE b # c
    BY <1>1, <1>3, <2>1, <2>2, <2>4 DEF GetsParent
  <2>. QED BY <2>3, <2>4
<1>8. \A b \in Callers : Elsewhere(b, DividerOps, "setDivider")
  BY <1>1, <1>3 DEF Elsewhere, DividerOps
<1>. QED BY <1>6, <1>7, <1>8 DEF ParentInv

LEMMA ParentCallFails ==
  ASSUME Typed, ParentInv, NEW c \in Callers, Placed(c), RemoteCallFails(c),
         call[c].op \in ParentOps
  PROVE  /\ ParentInv'
         /\ \A b \in Callers : Elsewhere(b, DividerOps, "setDivider")
         /\ \A b \in Callers : late'[b] = late[b] \/ late'[b].field \notin DivIds
<1>1. /\ call[c].pc # "idle"
      /\ call' = [call EXCEPT ![c].pc = "idle", ![c].status = "error"]
      /\ clk' = clk /\ select' = select /\ setParent' = setParent
  BY Zenon DEF RemoteCallFails
<1>2. call \in [Callers -> Entries] /\ late \in [Callers -> Requests]
  BY DEF Typed
<1>3. /\ \A b \in Callers \ {c} : call'[b] = call[b] /\ late'[b] = late[b]
      /\ late'[c] = late[c] \/ (call[c].op = "setParent" /\ late'[c].field = call[c].pc)
      /\ call'[c].op = call[c].op /\ call'[c].pc = "idle" /\ call'[c].status = "error"
  <2>1. /\ \A b \in Callers \ {c} : call'[b] = call[b]
        /\ call'[c].op = call[c].op /\ call'[c].pc = "idle" /\ call'[c].status = "error"
    BY <1>1, <1>2 DEF Entries
  <2>2. \/ late' = late
        \/ /\ call[c].op \in {"setDivider", "setParent"}
           /\ \E to : late' = [late EXCEPT ![c] = [field |-> call[c].pc, to |-> to]]
    BY Zenon DEF RemoteCallFails
  <2>3. /\ \A b \in Callers \ {c} : late'[b] = late[b]
        /\ late'[c] = late[c] \/ (call[c].op = "setParent" /\ late'[c].field = call[c].pc)
    <3>1. CASE late' = late
      BY <3>1, Zenon
    <3>2. CASE /\ call[c].op \in {"setDivider", "setParent"}
               /\ \E to : late' = [late EXCEPT ![c] = [field |-> call[c].pc, to |-> to]]
      <4>1. PICK to : late' = [late EXCEPT ![c] = [field |-> call[c].pc, to |-> to]]
        BY <3>2
      <4>2. call[c].op = "setParent"
        BY <3>2 DEF ParentOps
      <4>. QED BY <1>2, <4>1, <4>2
    <3>. QED BY <2>2, <3>1, <3>2
  <2>. QED BY <2>1, <2>3
<1>4. call[c].pc = "parent"
  BY <1>1 DEF Placed, ParentOps, DividerOps
<1>5. call[c].op = "setParent" => Setting(c, "setParent") /\ setParent = None
  BY <1>1 DEF Setting, ParentInv, ParentIsSet
<1>6. ParentIsSet'
  <2>1. ClockParentBySelect(clk, select)' = ClockParentBySelect(clk, select)
    BY <1>1
  <2>2. SUFFICES ASSUME setParent # None
                 PROVE  ParentIsSet'
    BY <1>1 DEF ParentIsSet
  <2>3. /\ \A b \in Callers : ~ Setting(b, "setParent") /\ late[b].field # "parent"
        /\ ClockParentBySelect(clk, select) = setParent
    BY <2>2 DEF ParentInv, ParentIsSet
  <2>4. ASSUME NEW b \in Callers
        PROVE  ~ Setting(b, "setParent")' /\ late'[b].field # "parent"
    <3>1. CASE b = c
      BY <1>3, <1>5, <2>2, <2>3, <3>1 DEF Setting
    <3>2. CASE b # c
      BY <1>3, <2>3, <3>2 DEF Setting
    <3>. QED BY <3>1, <3>2
  <2>. QED BY <1>1, <2>1, <2>3, <2>4 DEF ParentIsSet
<1>7. ASSUME NEW b \in Callers PROVE SetsParent(b)' /\ GetsParent(b)'
  <2>1. SetsParent(b) /\ GetsParent(b)
    BY DEF ParentInv
  <2>2. CASE b = c
    BY <1>3, <2>2 DEF SetsParent, GetsParent, Setting
  <2>3. CASE b # c
    <3>1. call'[b] = call[b] /\ late'[b] = late[b]
      BY <1>3, <2>3
    <3>2. Alone(b, "setParent", {"parent"}) => Alone(b, "setParent", {"parent"})'
      BY <1>3, <1>5, <2>3 DEF Alone, Setting
    <3>3. ClockParentBySelect(clk, call[b].value)' = ClockParentBySelect(clk, call[b].value)
      BY <1>1, <3>1
    <3>4. SetsParent(b)'
      BY <1>1, <2>1, <3>1, <3>2, <3>3 DEF SetsParent, Setting
    <3>5. GetsParent(b)'
      BY <1>1, <2>1, <3>1 DEF GetsParent
    <3>. QED BY <3>4, <3>5
  <2>. QED BY <2>2, <2>3
<1>8. \A b \in Callers : Elsewhere(b, DividerOps, "setDivider")
  BY <1>3 DEF Elsewhere, ParentOps, DividerOps
<1>9. \A b \in Callers : late'[b] = late[b] \/ late'[b].field \notin DivIds
  BY <1>3, <1>4 DEF DivIds
<1>. QED BY <1>6, <1>7, <1>8, <1>9 DEF ParentInv

LEMMA LateParent ==
  ASSUME Typed, ParentInv, NEW c \in Callers, PmuComesLate(c), late[c].field = "parent"
  PROVE  ParentInv' /\ divider' = divider
<1>1. /\ divider' = divider /\ late' = [late EXCEPT ![c] = NoRequest]
      /\ clk' = clk /\ call' = call /\ setParent' = setParent
  BY Zenon DEF PmuComesLate
<1>2. setParent = None
  BY DEF ParentInv, ParentIsSet
<1>3. ParentIsSet'
  BY <1>1, <1>2 DEF ParentIsSet
<1>4. \A b \in Callers : late'[b] = late[b] \/ late'[b].field # "parent"
  BY <1>1 DEF Typed, NoRequest
<1>5. ASSUME NEW b \in Callers PROVE SetsParent(b)' /\ GetsParent(b)'
  <2>1. SetsParent(b) /\ GetsParent(b)
    BY DEF ParentInv
  <2>2. Alone(b, "setParent", {"parent"}) => Alone(b, "setParent", {"parent"})'
    BY <1>1, <1>4 DEF Alone, Setting
  <2>3. ClockParentBySelect(clk, call[b].value)' = ClockParentBySelect(clk, call[b].value)
    BY <1>1
  <2>4. SetsParent(b)'
    BY <1>1, <2>1, <2>2, <2>3 DEF SetsParent, Setting
  <2>5. GetsParent(b)'
    BY <1>1, <1>2, <2>1 DEF GetsParent
  <2>. QED BY <2>4, <2>5
<1>. QED BY <1>1, <1>3, <1>5 DEF ParentInv
-----------------------------------------------------------------------------
(* Types and places. *)

LEMMA IdleEntry == Idle \in Entries /\ NoRequest \in Requests
BY DEF Idle, Entries, NoRequest, Requests, None, Histories, DivIds

LEMMA TypedKept ==
  ASSUME Typed, \A c \in Callers : Placed(c), [Next]_vars
  PROVE  Typed' /\ \A c \in Callers : Placed(c)'
<1>1. /\ clk \in Clocks
      /\ divider \in [DivIds -> 0..DivWidth] /\ select \in 0..(Mios - 1)
      /\ call \in [Callers -> Entries] /\ late \in [Callers -> Requests]
      /\ calls \in 0..MaxCalls
      /\ setDivider \in Histories /\ setParent \in Histories
  BY DEF Typed
<1>2. None \in Histories /\ \A v \in Nat : Divides(v) \in Histories
  BY DEF None, Divides, Histories
<1>3. Divs(clk) \in {{}, {"div0"}, DivIds}
  BY <1>1, ModelOK
(* A step that changes one entry, and what the others expect. *)
<1>4. ASSUME NEW c \in Callers, clk' = clk, calls' \in 0..MaxCalls,
             divider' \in [DivIds -> 0..DivWidth], select' \in 0..(Mios - 1),
             setDivider' \in Histories, setParent' \in Histories,
             late' \in [Callers -> Requests], NEW e \in Entries, NEW ops,
             \/ call' = [call EXCEPT ![c] = e]
             \/ call' = Disturbed(ops, e, c),
             e.mapped \subseteq Divs(clk), e.pc # "idle" => e.status = "none",
             e.pc # "idle" => \/ e.op \in DividerOps /\ e.pc \in e.mapped /\ e.mapped = Divs(clk)
                              \/ e.op \in ParentOps /\ e.pc = "parent",
             e.op = "setParent" => e.value \in 0..(Mios - 1),
             \A b \in Callers : late'[b].field = "parent" => late'[b].to \in 0..(Mios - 1)
      PROVE  Typed' /\ \A b \in Callers : Placed(b)'
  <2>1. /\ call'[c] = e /\ call' \in [Callers -> Entries]
        /\ \A b \in Callers \ {c} : call'[b] = call[b]
                                 \/ call'[b] = [call[b] EXCEPT !.expected = None]
    <3>1. CASE call' = [call EXCEPT ![c] = e]
      BY <1>1, <1>4, <3>1
    <3>2. CASE call' = Disturbed(ops, e, c)
      <4>1. \A b \in Callers : [call[b] EXCEPT !.expected = None] \in Entries
        BY <1>1, ForgottenIs
      <4>. QED BY <1>1, <1>4, <3>2, <4>1 DEF Disturbed
    <3>. QED BY <1>4, <3>1, <3>2
  <2>2. Typed'
    BY <1>1, <1>4, <2>1 DEF Typed
  <2>3. Placed(c)'
    BY <1>4, <2>1 DEF Placed
  <2>4. ASSUME NEW b \in Callers \ {c} PROVE Placed(b)'
    <3>1. /\ call'[b].op = call[b].op /\ call'[b].pc = call[b].pc
          /\ call'[b].mapped = call[b].mapped /\ call'[b].value = call[b].value
          /\ call'[b].status = call[b].status
      <4>1. call[b] \in Entries
        BY <1>1
      <4>. QED BY <2>1, <4>1, ForgottenIs
    <3>2. Placed(b)
      OBVIOUS
    <3>. QED BY <1>4, <3>1, <3>2 DEF Placed
  <2>. QED BY <2>2, <2>3, <2>4
<1>5. \A b \in Callers :
        /\ call[b] \in Entries /\ late[b] \in Requests /\ Placed(b)
        /\ late[b].field = "parent" => late[b].to \in 0..(Mios - 1)
  BY <1>1 DEF Placed
<1>6. ASSUME NEW c \in Callers, BeginSetDivider(c)
      PROVE  Typed' /\ \A b \in Callers : Placed(b)'
  <2>1. /\ clk' = clk /\ divider' = divider /\ select' = select /\ late' = late
        /\ setParent' = setParent /\ calls < MaxCalls /\ calls' = calls + 1
    BY <1>6, Zenon DEF BeginSetDivider, Begins
  <2>. DEFINE fits(v) == MapDivider(clk, v).div0 <= DivWidth /\ MapDivider(clk, v).div1 <= DivWidth
              expected(v) == IF Undisturbed(c, "setDivider", DivIds)
                             THEN Divides(v) ELSE None
              entry(v) == [Idle EXCEPT !.op = "setDivider", !.mapped = MapDivider(clk, v).mapped,
                                       !.div0 = MapDivider(clk, v).div0, !.div1 = MapDivider(clk, v).div1,
                                       !.value = v, !.expected = expected(v)]
  <2>2. PICK v \in Values :
          IF MapDivider(clk, v).mapped = {}
          THEN call' = [call EXCEPT ![c] = [entry(v) EXCEPT !.status = "invalid"]]
               /\ UNCHANGED setDivider
          ELSE /\ call' = Disturbed(DividerOps, [entry(v) EXCEPT !.pc = "div0"], c)
               /\ setDivider' = None
    BY <1>6, Zenon DEF BeginSetDivider
  <2>3. /\ v \in Nat \ {0} /\ MapDivider(clk, v).mapped \in {{}, Divs(clk)}
        /\ MapDivider(clk, v).div0 \in Nat /\ MapDivider(clk, v).div1 \in Nat
        /\ MapDivider(clk, v).mapped # {} => "div0" \in Divs(clk)
    <3>1. v \in Nat \ {0}
      BY BoundsAssumption
    <3>. QED BY <1>1, <3>1, MapDividerType
  <2>4. expected(v) \in Histories
    BY <1>2, <2>3, Zenon
  <2>. HIDE DEF fits, expected
  <2>5. /\ entry(v) \in Entries /\ entry(v).op = "setDivider" /\ entry(v).pc = "idle"
        /\ entry(v).mapped = MapDivider(clk, v).mapped /\ entry(v).status = "none"
    <3>1. PICK m, d0, d1, x : /\ m = MapDivider(clk, v).mapped /\ d0 = MapDivider(clk, v).div0
                              /\ d1 = MapDivider(clk, v).div1 /\ x = expected(v)
      OBVIOUS
    <3>2. m \subseteq DivIds /\ d0 \in Nat /\ d1 \in Nat /\ x \in Histories
      BY <1>3, <2>3, <2>4, <3>1 DEF DivIds
    <3>3. entry(v) = [op |-> "setDivider", pc |-> "idle", mapped |-> m, div0 |-> d0, div1 |-> d1,
                      value |-> v, parent |-> None, status |-> "none", expected |-> x]
      <4>1. entry(v) = [Idle EXCEPT !.op = "setDivider", !.mapped = m, !.div0 = d0, !.div1 = d1,
                                    !.value = v, !.expected = x]
        BY <3>1, Zenon
      <4>. HIDE DEF entry
      <4>. QED BY <4>1 DEF Idle
    <3>4. v \in Nat /\ None \in Histories
      BY <1>2, <2>3
    <3>. HIDE DEF entry
    <3>. QED BY <3>1, <3>2, <3>3, <3>4 DEF Entries
  <2>. HIDE DEF entry
  <2>6. calls' \in 0..MaxCalls
    BY <1>1, <2>1, BoundsAssumption
  <2>7. CASE MapDivider(clk, v).mapped = {}
    <3>1. /\ call' = [call EXCEPT ![c] = [entry(v) EXCEPT !.status = "invalid"]]
          /\ setDivider' = setDivider
      BY <2>2, <2>7, Zenon
    <3>. DEFINE e == [entry(v) EXCEPT !.status = "invalid"]
    <3>2. e \in Entries /\ e.op = "setDivider" /\ e.pc = "idle" /\ e.mapped = {}
      BY <2>5, <2>7 DEF Entries
    <3>. HIDE DEF e
    <3>3. call' = [call EXCEPT ![c] = e]
      BY <3>1 DEF e
    <3>. QED BY <1>1, <1>4, <1>5, <2>1, <2>6, <3>1, <3>2, <3>3
  <2>8. CASE MapDivider(clk, v).mapped # {}
    <3>1. /\ call' = Disturbed(DividerOps, [entry(v) EXCEPT !.pc = "div0"], c)
          /\ setDivider' = None
      BY <2>2, <2>8, Zenon
    <3>. DEFINE e == [entry(v) EXCEPT !.pc = "div0"]
    <3>2. /\ e \in Entries /\ e.op = "setDivider" /\ e.pc = "div0" /\ e.mapped = Divs(clk)
          /\ e.status = "none"
      BY <2>3, <2>5, <2>8 DEF Entries, DivIds
    <3>. HIDE DEF e
    <3>3. call' = Disturbed(DividerOps, e, c)
      BY <3>1 DEF e
    <3>4. e.op \in DividerOps /\ e.pc \in e.mapped
      BY <2>3, <2>8, <3>2 DEF DividerOps
    <3>. QED BY <1>1, <1>2, <1>4, <1>5, <2>1, <2>6, <3>1, <3>2, <3>3, <3>4
  <2>. QED BY <2>7, <2>8
<1>7. ASSUME NEW c \in Callers, BeginGetDivider(c)
      PROVE  Typed' /\ \A b \in Callers : Placed(b)'
  <2>1. /\ clk' = clk /\ divider' = divider /\ select' = select /\ late' = late
        /\ setDivider' = setDivider /\ setParent' = setParent
        /\ calls < MaxCalls /\ calls' = calls + 1
    BY <1>7, Zenon DEF BeginGetDivider, Begins
  <2>2. calls' \in 0..MaxCalls
    BY <1>1, <2>1, BoundsAssumption
  <2>. DEFINE refused == [Idle EXCEPT !.op = "getDivider", !.status = "invalid"]
              asked == [Idle EXCEPT !.op = "getDivider", !.pc = "div0", !.mapped = Divs(clk),
                                    !.value = 1, !.expected = setDivider]
  <2>3. call' = [call EXCEPT ![c] = IF Divs(clk) = {} THEN refused ELSE asked]
    BY <1>7, Zenon DEF BeginGetDivider
  <2>4. /\ refused \in Entries /\ refused.op = "getDivider" /\ refused.pc = "idle"
        /\ refused.mapped = {}
    BY IdleEntry DEF Entries, Idle
  <2>5. /\ asked \in Entries /\ asked.op = "getDivider" /\ asked.pc = "div0"
        /\ asked.mapped = Divs(clk) /\ asked.status = "none"
    BY <1>1, <1>3, IdleEntry DEF Entries, Idle, DivIds
  <2>. HIDE DEF refused, asked
  <2>6. CASE Divs(clk) = {}
    <3>1. call' = [call EXCEPT ![c] = refused]
      BY <2>3, <2>6, Zenon
    <3>. QED BY <1>1, <1>4, <1>5, <2>1, <2>2, <2>4, <3>1
  <2>7. CASE Divs(clk) # {}
    <3>1. call' = [call EXCEPT ![c] = asked]
      BY <2>3, <2>7, Zenon
    <3>2. asked.op \in DividerOps /\ asked.pc \in asked.mapped
      BY <1>3, <2>5, <2>7 DEF DividerOps, DivIds
    <3>. QED BY <1>1, <1>4, <1>5, <2>1, <2>2, <2>5, <3>1, <3>2
  <2>. QED BY <2>6, <2>7
<1>8. ASSUME NEW c \in Callers, BeginSetParent(c)
      PROVE  Typed' /\ \A b \in Callers : Placed(b)'
  <2>1. /\ clk' = clk /\ divider' = divider /\ select' = select /\ late' = late
        /\ setDivider' = setDivider /\ calls < MaxCalls /\ calls' = calls + 1
    BY <1>8, Zenon DEF BeginSetParent, Begins
  <2>2. calls' \in 0..MaxCalls
    BY <1>1, <2>1, BoundsAssumption
  <2>. DEFINE expected(p) == IF Undisturbed(c, "setParent", {"parent"}) THEN p ELSE None
              entry(p) == [Idle EXCEPT !.op = "setParent", !.parent = p, !.expected = expected(p)]
  <2>3. PICK p \in Parents(clk) \cup {None} :
          IF SelectByClockParent(clk, p) = {}
          THEN call' = [call EXCEPT ![c] = [entry(p) EXCEPT !.status = "invalid"]]
               /\ UNCHANGED setParent
          ELSE /\ \E s \in SelectByClockParent(clk, p) :
                    call' = Disturbed(ParentOps, [entry(p) EXCEPT !.pc = "parent", !.value = s], c)
               /\ setParent' = None
    BY <1>8, Zenon DEF BeginSetParent
  <2>4. p \in Histories /\ expected(p) \in Histories
    BY <1>1, <1>2, ParentsType
  <2>. HIDE DEF expected
  <2>5. /\ entry(p) \in Entries /\ entry(p).op = "setParent" /\ entry(p).pc = "idle"
        /\ entry(p).mapped = {} /\ entry(p).value = 0 /\ entry(p).status = "none"
    BY <2>4, IdleEntry DEF Entries, Idle
  <2>. HIDE DEF entry
  <2>6. 0 \in 0..(Mios - 1)
    BY WidthAssumption
  <2>7. CASE SelectByClockParent(clk, p) = {}
    <3>1. /\ call' = [call EXCEPT ![c] = [entry(p) EXCEPT !.status = "invalid"]]
          /\ setParent' = setParent
      BY <2>3, <2>7, Zenon
    <3>. DEFINE e == [entry(p) EXCEPT !.status = "invalid"]
    <3>2. /\ e \in Entries /\ e.op = "setParent" /\ e.pc = "idle" /\ e.mapped = {}
          /\ e.value = 0
      BY <2>5 DEF Entries
    <3>. HIDE DEF e
    <3>3. call' = [call EXCEPT ![c] = e]
      BY <3>1 DEF e
    <3>. QED BY <1>1, <1>4, <1>5, <2>1, <2>2, <2>6, <3>1, <3>2, <3>3
  <2>8. CASE SelectByClockParent(clk, p) # {}
    <3>1. PICK s \in SelectByClockParent(clk, p) :
            call' = Disturbed(ParentOps, [entry(p) EXCEPT !.pc = "parent", !.value = s], c)
      BY <2>3, <2>8, Zenon
    <3>2. setParent' = None
      BY <2>3, <2>8, Zenon
    <3>3. s \in 0..(Mios - 1) /\ s \in Nat
      BY <1>1, ParentOfSelect, WidthAssumption
    <3>. DEFINE e == [entry(p) EXCEPT !.pc = "parent", !.value = s]
    <3>4. /\ e \in Entries /\ e.op = "setParent" /\ e.pc = "parent" /\ e.mapped = {}
          /\ e.value = s /\ e.status = "none"
      BY <2>5, <3>3 DEF Entries
    <3>. HIDE DEF e
    <3>5. call' = Disturbed(ParentOps, e, c)
      BY <3>1 DEF e
    <3>6. e.op \in ParentOps
      BY <3>4 DEF ParentOps
    <3>. QED BY <1>1, <1>2, <1>4, <1>5, <2>1, <2>2, <3>2, <3>3, <3>4, <3>5, <3>6
  <2>. QED BY <2>7, <2>8
<1>9. ASSUME NEW c \in Callers, BeginGetParent(c)
      PROVE  Typed' /\ \A b \in Callers : Placed(b)'
  <2>. DEFINE e == [Idle EXCEPT !.op = "getParent", !.pc = "parent", !.expected = setParent]
  <2>1. /\ clk' = clk /\ divider' = divider /\ select' = select /\ late' = late
        /\ setDivider' = setDivider /\ setParent' = setParent
        /\ calls < MaxCalls /\ calls' = calls + 1 /\ call' = [call EXCEPT ![c] = e]
    BY <1>9, Zenon DEF BeginGetParent, Begins
  <2>2. calls' \in 0..MaxCalls
    BY <1>1, <2>1, BoundsAssumption
  <2>3. /\ e \in Entries /\ e.op = "getParent" /\ e.pc = "parent" /\ e.mapped = {}
        /\ e.status = "none"
    BY <1>1, IdleEntry DEF Entries, Idle
  <2>. HIDE DEF e
  <2>4. e.op \in ParentOps
    BY <2>3 DEF ParentOps
  <2>. QED BY <1>1, <1>4, <1>5, <2>1, <2>2, <2>3, <2>4
<1>10. ASSUME NEW c \in Callers, SetOneDivider(c)
       PROVE  Typed' /\ \A b \in Callers : Placed(b)'
  <2>. DEFINE d == call[c].pc
              to == IF d = "div0" THEN call[c].div0 ELSE call[c].div1
              more == d = "div0" /\ "div1" \in call[c].mapped
              e == [call[c] EXCEPT !.pc = IF more THEN "div1" ELSE "idle",
                                   !.status = IF more THEN @ ELSE "success"]
  <2>1. /\ call[c].op = "setDivider" /\ d \in DivIds
        /\ divider' = [divider EXCEPT ![d] = Written(to)]
        /\ call' = [call EXCEPT ![c].pc = IF more THEN "div1" ELSE "idle",
                                ![c].status = IF more THEN @ ELSE "success"]
        /\ setDivider' = IF more THEN setDivider ELSE call[c].expected
        /\ clk' = clk /\ select' = select /\ late' = late /\ calls' = calls
        /\ setParent' = setParent
    BY <1>10, Zenon DEF SetOneDivider
  <2>2. call' = [call EXCEPT ![c] = e]
    <3>. HIDE DEF more
    <3>. QED BY <1>1, <2>1
  <2>3. to \in Nat /\ call[c].expected \in Histories
    BY <1>5 DEF Entries
  <2>4. divider' \in [DivIds -> 0..DivWidth]
    <3>. HIDE DEF to
    <3>. QED BY <1>1, <2>1, <2>3, WrittenIs
  <2>5. setDivider' \in Histories
    BY <1>1, <2>1, <2>3
  <2>6. call[c].mapped = Divs(clk) /\ call[c].status = "none"
    BY <1>5, <2>1 DEF Placed, DivIds, ParentOps
  <2>7. /\ e \in Entries /\ e.op = "setDivider" /\ e.mapped = Divs(clk)
        /\ e.pc = IF more THEN "div1" ELSE "idle"
        /\ more => e.status = "none"
    <3>. HIDE DEF more
    <3>1. call[c] \in Entries /\ call[c].op = "setDivider"
      BY <1>5, <2>1
    <3>2. CASE more
      <4>1. e = [call[c] EXCEPT !.pc = "div1"]
        BY <3>1, <3>2 DEF Entries
      <4>. QED BY <2>6, <3>1, <3>2, <4>1 DEF Entries, DivIds
    <3>3. CASE ~ more
      <4>1. e = [call[c] EXCEPT !.pc = "idle", !.status = "success"]
        BY <3>3
      <4>. QED BY <2>6, <3>1, <3>3, <4>1 DEF Entries
    <3>. QED BY <3>2, <3>3
  <2>8. /\ e.pc # "idle" => e.op \in DividerOps /\ e.pc \in e.mapped /\ e.mapped = Divs(clk)
        /\ e.pc # "idle" => e.status = "none"
    <3>. HIDE DEF e
    <3>. QED BY <2>6, <2>7 DEF DividerOps
  <2>9. /\ clk' = clk /\ calls' = calls /\ select' = select /\ late' = late
        /\ setParent' = setParent
    BY <2>1, Zenon
  <2>10. e \in Entries /\ e.mapped \subseteq Divs(clk) /\ e.op # "setParent"
    <3>. HIDE DEF e
    <3>. QED BY <2>7
  <2>. HIDE DEF d, to, more, e
  <2>. QED BY <1>1, <1>4, <1>5, <2>2, <2>4, <2>5, <2>8, <2>9, <2>10
<1>11. ASSUME NEW c \in Callers, GetOneDivider(c)
       PROVE  Typed' /\ \A b \in Callers : Placed(b)'
  <2>. DEFINE d == call[c].pc
              more == d = "div0" /\ "div1" \in call[c].mapped
              e == [call[c] EXCEPT !.pc = IF more THEN "div1" ELSE "idle",
                                   !.value = @ * divider[d],
                                   !.status = IF more THEN @ ELSE "success"]
  <2>1. /\ call[c].op = "getDivider" /\ d \in DivIds
        /\ call' = [call EXCEPT ![c].pc = IF more THEN "div1" ELSE "idle",
                                ![c].value = @ * divider[d],
                                ![c].status = IF more THEN @ ELSE "success"]
        /\ clk' = clk /\ divider' = divider /\ select' = select /\ late' = late
        /\ calls' = calls /\ setDivider' = setDivider /\ setParent' = setParent
    BY <1>11, Zenon DEF GetOneDivider
  <2>2. call' = [call EXCEPT ![c] = e]
    <3>. HIDE DEF more
    <3>. QED BY <1>1, <2>1
  <2>3. call[c].value * divider[d] \in Nat
    <3>1. call[c].value \in Nat /\ divider[d] \in Nat
      BY <1>1, <1>5, <2>1, WidthAssumption DEF Entries
    <3>. QED BY <3>1
  <2>4. call[c].mapped = Divs(clk) /\ call[c].status = "none"
    BY <1>5, <2>1 DEF Placed, DivIds, ParentOps
  <2>5. /\ e \in Entries /\ e.op = "getDivider" /\ e.mapped = Divs(clk)
        /\ e.pc = IF more THEN "div1" ELSE "idle"
        /\ more => e.status = "none"
    <3>. HIDE DEF more
    <3>1. call[c] \in Entries /\ call[c].op = "getDivider"
      BY <1>5, <2>1
    <3>2. PICK x \in Nat : x = call[c].value * divider[d]
      BY <2>3
    <3>3. CASE more
      <4>1. e = [call[c] EXCEPT !.pc = "div1", !.value = x]
        BY <3>1, <3>2, <3>3 DEF Entries
      <4>. QED BY <2>4, <3>1, <3>3, <4>1 DEF Entries, DivIds
    <3>4. CASE ~ more
      <4>1. e = [call[c] EXCEPT !.pc = "idle", !.value = x, !.status = "success"]
        BY <3>2, <3>4
      <4>. QED BY <2>4, <3>1, <3>4, <4>1 DEF Entries
    <3>. QED BY <3>3, <3>4
  <2>6. /\ e.pc # "idle" => e.op \in DividerOps /\ e.pc \in e.mapped /\ e.mapped = Divs(clk)
        /\ e.pc # "idle" => e.status = "none"
    <3>. HIDE DEF e
    <3>. QED BY <2>4, <2>5 DEF DividerOps
  <2>7. /\ clk' = clk /\ divider' = divider /\ select' = select /\ late' = late
        /\ calls' = calls /\ setDivider' = setDivider /\ setParent' = setParent
    BY <2>1, Zenon
  <2>8. e \in Entries /\ e.mapped \subseteq Divs(clk) /\ e.op # "setParent"
    <3>. HIDE DEF e
    <3>. QED BY <2>5
  <2>. HIDE DEF d, more, e
  <2>. QED BY <1>1, <1>4, <1>5, <2>2, <2>6, <2>7, <2>8
<1>12. ASSUME NEW c \in Callers, SetSelect(c)
       PROVE  Typed' /\ \A b \in Callers : Placed(b)'
  <2>. DEFINE e == [call[c] EXCEPT !.pc = "idle", !.status = "success"]
  <2>1. /\ call[c].op = "setParent" /\ select' = call[c].value
        /\ call' = [call EXCEPT ![c].pc = "idle", ![c].status = "success"]
        /\ setParent' = call[c].expected
        /\ clk' = clk /\ divider' = divider /\ late' = late /\ calls' = calls
        /\ setDivider' = setDivider
    BY <1>12, Zenon DEF SetSelect
  <2>2. call' = [call EXCEPT ![c] = e]
    BY <1>1, <2>1
  <2>3. /\ call[c].value \in 0..(Mios - 1) /\ call[c].mapped \subseteq Divs(clk)
        /\ call[c].expected \in Histories
    BY <1>5, <2>1 DEF Placed, Entries
  <2>4. /\ e \in Entries /\ e.op = "setParent" /\ e.pc = "idle" /\ e.value = call[c].value
        /\ e.mapped = call[c].mapped
    BY <1>5, <2>1 DEF Entries
  <2>. HIDE DEF e
  <2>. QED BY <1>1, <1>4, <1>5, <2>1, <2>2, <2>3, <2>4
<1>13. ASSUME NEW c \in Callers, GetSelect(c)
       PROVE  Typed' /\ \A b \in Callers : Placed(b)'
  <2>. DEFINE parent == ClockParentBySelect(clk, select)
              e == [call[c] EXCEPT !.pc = "idle", !.parent = parent,
                                   !.status = IF parent = None THEN "invalid" ELSE "success"]
  <2>1. /\ call[c].op = "getParent"
        /\ call' = [call EXCEPT ![c].pc = "idle", ![c].parent = parent,
                                ![c].status = IF parent = None THEN "invalid" ELSE "success"]
        /\ clk' = clk /\ divider' = divider /\ select' = select /\ late' = late
        /\ calls' = calls /\ setDivider' = setDivider /\ setParent' = setParent
    BY <1>13, Zenon DEF GetSelect
  <2>2. parent \in Histories
    BY <1>1, ParentOfSelectType, WidthAssumption
  <2>. HIDE DEF parent
  <2>3. call' = [call EXCEPT ![c] = e]
    BY <1>1, <2>1
  <2>4. call[c].mapped \subseteq Divs(clk)
    BY <1>5 DEF Placed
  <2>5. e \in Entries /\ e.op = "getParent" /\ e.pc = "idle" /\ e.mapped = call[c].mapped
    BY <1>5, <2>1, <2>2 DEF Entries
  <2>. HIDE DEF e
  <2>. QED BY <1>1, <1>4, <1>5, <2>1, <2>3, <2>4, <2>5
<1>14. ASSUME NEW c \in Callers, RemoteCallFails(c)
       PROVE  Typed' /\ \A b \in Callers : Placed(b)'
  <2>. DEFINE e == [call[c] EXCEPT !.pc = "idle", !.status = "error"]
              to == CASE call[c].pc = "div0" -> call[c].div0
                      [] call[c].pc = "div1" -> call[c].div1
                      [] OTHER -> call[c].value
  <2>1. /\ call[c].pc # "idle"
        /\ call' = [call EXCEPT ![c].pc = "idle", ![c].status = "error"]
        /\ clk' = clk /\ divider' = divider /\ select' = select
        /\ calls' = calls /\ setDivider' = setDivider /\ setParent' = setParent
    BY <1>14, Zenon DEF RemoteCallFails
  <2>2. \/ late' = late
        \/ /\ call[c].op \in {"setDivider", "setParent"}
           /\ late' = [late EXCEPT ![c] = [field |-> call[c].pc, to |-> to]]
    BY <1>14, Zenon DEF RemoteCallFails
  <2>3. call' = [call EXCEPT ![c] = e]
    BY <1>1, <2>1
  <2>4. /\ call[c].mapped \subseteq Divs(clk)
        /\ call[c].op = "setParent" => call[c].value \in 0..(Mios - 1) /\ call[c].pc = "parent"
        /\ call[c].op = "setDivider" => call[c].pc \in DivIds
    <3>1. \/ call[c].op \in {"setDivider", "getDivider"} /\ call[c].pc \in call[c].mapped
          \/ call[c].op \in {"setParent", "getParent"} /\ call[c].pc = "parent"
      BY <1>5, <2>1 DEF Placed, DividerOps, ParentOps
    <3>2. call[c].mapped \subseteq DivIds
      BY <1>5 DEF Entries
    <3>3. /\ call[c].op = "setParent" => call[c].pc = "parent"
          /\ call[c].op = "setDivider" => call[c].pc \in DivIds
      BY <3>1, <3>2
    <3>4. /\ call[c].mapped \subseteq Divs(clk)
          /\ call[c].op = "setParent" => call[c].value \in 0..(Mios - 1)
      BY <1>5 DEF Placed
    <3>. QED BY <3>3, <3>4
  <2>5. /\ e \in Entries /\ e.op = call[c].op /\ e.pc = "idle" /\ e.mapped = call[c].mapped
        /\ e.value = call[c].value
    BY <1>5 DEF Entries
  <2>6. /\ late' \in [Callers -> Requests]
        /\ \A b \in Callers : late'[b].field = "parent" => late'[b].to \in 0..(Mios - 1)
    <3>1. CASE late' = late
      BY <1>1, <1>5, <3>1
    <3>2. CASE /\ call[c].op \in {"setDivider", "setParent"}
               /\ late' = [late EXCEPT ![c] = [field |-> call[c].pc, to |-> to]]
      <4>. DEFINE r == [field |-> call[c].pc, to |-> to]
      <4>1. to \in Nat /\ (call[c].pc = "parent" => to = call[c].value)
        BY <1>5 DEF Entries
      <4>. HIDE DEF to
      <4>2. r \in Requests /\ (r.field = "parent" => r.to \in 0..(Mios - 1))
        <5>1. call[c].pc \in {"parent"} \cup DivIds
          BY <2>4, <3>2
        <5>2. call[c].pc = "parent" => call[c].op = "setParent"
          BY <2>4, <3>2 DEF DivIds
        <5>. QED BY <2>4, <4>1, <5>1, <5>2 DEF Requests
      <4>3. late' = [late EXCEPT ![c] = r]
        BY <3>2
      <4>. HIDE DEF r
      <4>. QED BY <1>1, <1>5, <4>2, <4>3
    <3>. QED BY <2>2, <3>1, <3>2
  <2>. HIDE DEF e
  <2>. QED BY <1>1, <1>4, <2>1, <2>3, <2>4, <2>5, <2>6
<1>15. ASSUME NEW c \in Callers, PmuComesLate(c)
       PROVE  Typed' /\ \A b \in Callers : Placed(b)'
  <2>1. /\ IF late[c].field = "parent" THEN select' = late[c].to /\ divider' = divider
           ELSE /\ divider' = [divider EXCEPT ![late[c].field] = Written(late[c].to)]
                /\ select' = select
        /\ late' = [late EXCEPT ![c] = NoRequest]
        /\ clk' = clk /\ call' = call /\ calls' = calls /\ setDivider' = setDivider
        /\ setParent' = setParent
    BY <1>15, Zenon DEF PmuComesLate
  <2>2. late' \in [Callers -> Requests] /\ \A b \in Callers : late'[b] \in {late[b], NoRequest}
    BY <1>1, <2>1, IdleEntry
  <2>3. select' \in 0..(Mios - 1)
    BY <1>1, <1>5, <2>1
  <2>4. divider' \in [DivIds -> 0..DivWidth]
    <3>1. Written(late[c].to) \in 0..DivWidth
      BY <1>5, WrittenIs DEF Requests
    <3>. QED BY <1>1, <2>1, <3>1
  <2>5. Typed'
    BY <1>1, <2>1, <2>2, <2>3, <2>4 DEF Typed
  <2>6. ASSUME NEW b \in Callers PROVE Placed(b)'
    <3>1. late'[b].field = "parent" => late'[b].to \in 0..(Mios - 1)
      BY <1>5, <2>2 DEF NoRequest
    <3>. QED BY <1>5, <2>1, <3>1 DEF Placed
  <2>. QED BY <2>5, <2>6
<1>16. CASE UNCHANGED vars
  <2>1. /\ clk' = clk /\ divider' = divider /\ select' = select /\ call' = call
        /\ late' = late /\ calls' = calls /\ setDivider' = setDivider /\ setParent' = setParent
    BY <1>16, Zenon DEF vars
  <2>2. Typed'
    BY <1>1, <2>1 DEF Typed
  <2>3. ASSUME NEW b \in Callers PROVE Placed(b)'
    BY <1>5, <2>1 DEF Placed
  <2>. QED BY <2>2, <2>3
<1>. QED BY <1>6, <1>7, <1>8, <1>9, <1>10, <1>11, <1>12, <1>13, <1>14, <1>15, <1>16, Zenon DEF Next
-----------------------------------------------------------------------------
(* The invariant holds. *)

LEMMA ClockInitially == Init => ClockInv
<1>. SUFFICES ASSUME Init PROVE ClockInv
  OBVIOUS
<1>1. /\ clk \in TheClocks /\ divider = [d \in DivIds |-> 1] /\ select = 0
      /\ call = [c \in Callers |-> Idle] /\ late = [c \in Callers |-> NoRequest]
      /\ calls = 0 /\ setDivider = None /\ setParent = None
  BY Zenon DEF Init
<1>2. Idle \in Entries /\ NoRequest \in Requests /\ None \in Histories
  BY IdleEntry DEF None, Histories
<1>3. Typed
  <2>1. clk \in Clocks /\ calls \in 0..MaxCalls
    BY <1>1, BoundsAssumption
  <2>2. divider \in [DivIds -> 0..DivWidth] /\ select \in 0..(Mios - 1)
    BY <1>1, WidthAssumption
  <2>. QED BY <1>1, <1>2, <2>1, <2>2 DEF Typed
<1>4. ASSUME NEW c \in Callers
      PROVE  /\ call[c].op = "none" /\ call[c].pc = "idle" /\ call[c].mapped = {}
             /\ late[c].field = "none"
  BY <1>1 DEF Idle, NoRequest
<1>5. \A c \in Callers : Placed(c)
  BY <1>4 DEF Placed
<1>6. DividerInv
  BY <1>1, <1>4 DEF DividerInv, DividerIsSet, SetsDivider, GetsDivider, Setting
<1>7. ParentInv
  BY <1>1, <1>4 DEF ParentInv, ParentIsSet, SetsParent, GetsParent, Setting
<1>. QED BY <1>3, <1>5, <1>6, <1>7 DEF ClockInv

LEMMA ClockKept == ClockInv /\ [Next]_vars => ClockInv'
<1>. SUFFICES ASSUME ClockInv, [Next]_vars PROVE ClockInv'
  OBVIOUS
<1>1. Typed /\ DividerInv /\ ParentInv /\ \A c \in Callers : Placed(c)
  BY DEF ClockInv
<1>2. Typed' /\ \A c \in Callers : Placed(c)'
  BY <1>1, TypedKept
<1>3. ASSUME NEW c \in Callers,
             BeginSetDivider(c) \/ BeginGetDivider(c) \/ SetOneDivider(c) \/ GetOneDivider(c)
      PROVE  DividerInv' /\ ParentInv'
  <2>1. DividerInv' /\ \A b \in Callers : Elsewhere(b, ParentOps, "setParent")
    BY <1>1, <1>3, SetDividerBegins, GetDividerBegins, OneDividerIsSet, OneDividerIsGot
  <2>2. clk' = clk /\ select' = select /\ setParent' = setParent /\ late' = late
    BY <1>3, Zenon DEF BeginSetDivider, BeginGetDivider, Begins, SetOneDivider, GetOneDivider
  <2>. QED BY <1>1, <2>1, <2>2, ParentFrame
<1>4. ASSUME NEW c \in Callers,
             BeginSetParent(c) \/ BeginGetParent(c) \/ SetSelect(c) \/ GetSelect(c)
      PROVE  DividerInv' /\ ParentInv'
  <2>1. ParentInv' /\ \A b \in Callers : Elsewhere(b, DividerOps, "setDivider")
    BY <1>1, <1>4, SetParentBegins, GetParentBegins, SelectIsSet, SelectIsGot
  <2>2. clk' = clk /\ divider' = divider /\ setDivider' = setDivider /\ late' = late
    BY <1>4, Zenon DEF BeginSetParent, BeginGetParent, Begins, SetSelect, GetSelect
  <2>. QED BY <1>1, <2>1, <2>2, DividerFrame
<1>5. ASSUME NEW c \in Callers, RemoteCallFails(c)
      PROVE  DividerInv' /\ ParentInv'
  <2>1. /\ call[c].pc # "idle"
        /\ clk' = clk /\ divider' = divider /\ select' = select
        /\ setDivider' = setDivider /\ setParent' = setParent
        /\ \/ late' = late
           \/ /\ call[c].op \in {"setDivider", "setParent"}
              /\ \A b \in Callers \ {c} : late'[b] = late[b]
    <3>1. /\ call[c].pc # "idle"
          /\ clk' = clk /\ divider' = divider /\ select' = select
          /\ setDivider' = setDivider /\ setParent' = setParent
      BY <1>5, Zenon DEF RemoteCallFails
    <3>. DEFINE r == [field |-> call[c].pc,
                      to |-> CASE call[c].pc = "div0" -> call[c].div0
                               [] call[c].pc = "div1" -> call[c].div1
                               [] OTHER -> call[c].value]
    <3>2. \/ late' = late
          \/ call[c].op \in {"setDivider", "setParent"} /\ late' = [late EXCEPT ![c] = r]
      BY <1>5, Zenon DEF RemoteCallFails
    <3>. HIDE DEF r
    <3>3. DOMAIN late = Callers
      BY <1>1 DEF Typed
    <3>4. late' = [late EXCEPT ![c] = r] => \A b \in Callers \ {c} : late'[b] = late[b]
      BY <3>3
    <3>. QED BY <3>1, <3>2, <3>4
  <2>2. call[c].op \in DividerOps \/ call[c].op \in ParentOps
    BY <1>1, <2>1 DEF Placed
  <2>3. CASE call[c].op \in DividerOps
    <3>1. /\ DividerInv'
          /\ \A b \in Callers : Elsewhere(b, ParentOps, "setParent")
          /\ \A b \in Callers : late'[b] = late[b] \/ late'[b].field # "parent"
      BY <1>1, <1>5, <2>3, DividerCallFails
    <3>. QED BY <1>1, <2>1, <3>1, ParentFrame
  <2>4. CASE call[c].op \in ParentOps
    <3>1. /\ ParentInv'
          /\ \A b \in Callers : Elsewhere(b, DividerOps, "setDivider")
          /\ \A b \in Callers : late'[b] = late[b] \/ late'[b].field \notin DivIds
      BY <1>1, <1>5, <2>4, ParentCallFails
    <3>2. ASSUME NEW b \in Callers PROVE late'[b] = late[b] \/ ~ Setting(b, "setDivider")
      <4>1. CASE b = c
        BY <2>4, <4>1 DEF Setting, ParentOps
      <4>2. CASE b # c
        BY <2>1, <4>2
      <4>. QED BY <4>1, <4>2
    <3>. QED BY <1>1, <2>1, <3>1, <3>2, DividerFrame
  <2>. QED BY <2>2, <2>3, <2>4
<1>6. ASSUME NEW c \in Callers, PmuComesLate(c)
      PROVE  DividerInv' /\ ParentInv'
  <2>1. /\ late' = [late EXCEPT ![c] = NoRequest]
        /\ clk' = clk /\ call' = call /\ setDivider' = setDivider /\ setParent' = setParent
    BY <1>6, Zenon DEF PmuComesLate
  <2>2. \A b \in Callers : /\ late'[b] \in {late[b], NoRequest}
                           /\ Elsewhere(b, ParentOps, "setParent")
                           /\ Elsewhere(b, DividerOps, "setDivider")
    BY <1>1, <2>1 DEF Typed, Elsewhere
  <2>3. NoRequest.field = "none" /\ "none" \notin DivIds
    BY DEF NoRequest, DivIds
  <2>4. CASE late[c].field # "parent"
    <3>1. DividerInv' /\ select' = select
      BY <1>1, <1>6, <2>4, LateDivider
    <3>. QED BY <1>1, <2>1, <2>2, <2>3, <3>1, ParentFrame
  <2>5. CASE late[c].field = "parent"
    <3>1. ParentInv' /\ divider' = divider
      BY <1>1, <1>6, <2>5, LateParent
    <3>2. ASSUME NEW b \in Callers
          PROVE  late'[b] = late[b] \/ late'[b].field \notin DivIds
      BY <2>2, <2>3
    <3>. QED BY <1>1, <2>1, <2>2, <3>1, <3>2, DividerFrame
  <2>. QED BY <2>4, <2>5
<1>7. ASSUME UNCHANGED vars PROVE DividerInv' /\ ParentInv'
  <2>1. /\ clk' = clk /\ divider' = divider /\ select' = select /\ call' = call /\ late' = late
        /\ setDivider' = setDivider /\ setParent' = setParent
    BY <1>7, Zenon DEF vars
  <2>2. \A b \in Callers : /\ Elsewhere(b, ParentOps, "setParent")
                           /\ Elsewhere(b, DividerOps, "setDivider")
    BY <2>1, Zenon DEF Elsewhere
  <2>3. DividerInv'
    BY <1>1, <2>1, <2>2, DividerFrame
  <2>4. ParentInv'
    BY <1>1, <2>1, <2>2, ParentFrame
  <2>. QED BY <2>3, <2>4
<1>8. ASSUME Next PROVE DividerInv' /\ ParentInv'
  <2>1. PICK c \in Callers :
          \/ BeginSetDivider(c) \/ BeginGetDivider(c) \/ SetOneDivider(c) \/ GetOneDivider(c)
          \/ BeginSetParent(c) \/ BeginGetParent(c) \/ SetSelect(c) \/ GetSelect(c)
          \/ RemoteCallFails(c) \/ PmuComesLate(c)
    BY <1>8, Zenon DEF Next
  <2>. QED BY <1>3, <1>4, <1>5, <1>6, <2>1, Zenon
<1>9. DividerInv' /\ ParentInv'
  BY <1>7, <1>8, Zenon
<1>. QED BY <1>2, <1>9, Zenon DEF ClockInv

LEMMA ClockAlways == Spec => []ClockInv
<1>1. Init => ClockInv
  BY ClockInitially
<1>2. ClockInv /\ [Next]_vars => ClockInv'
  BY ClockKept
<1>. QED BY <1>1, <1>2, PTL DEF Spec
-----------------------------------------------------------------------------
(* The theorems. *)

(* Whatever is refused, given up or done late, the fields stay within their widths,
   the select within the table it indexes, and a call works on dividers the clock
   has: pm_clock.c takes its loop and its fields from the row of the clock alone. *)
THEOREM ClockTypes == Spec => []ClockTypeOK
<1>1. ClockInv => ClockTypeOK
  <2>. SUFFICES ASSUME ClockInv PROVE ClockTypeOK
    OBVIOUS
  <2>1. Typed /\ \A c \in Callers : Placed(c)
    BY DEF ClockInv
  <2>2. ASSUME NEW c \in Callers
        PROVE  /\ call[c].op \in {"none", "setDivider", "getDivider", "setParent", "getParent"}
               /\ call[c].pc \in {"idle", "parent"} \cup DivIds
               /\ call[c].mapped \subseteq Divs(clk)
               /\ call[c].status \in {"none", "invalid", "error", "success"}
               /\ late[c].field \in {"none", "parent"} \cup DivIds
    <3>1. call[c] \in Entries /\ late[c] \in Requests
      BY <2>1 DEF Typed
    <3>2. call[c].mapped \subseteq Divs(clk)
      BY <2>1 DEF Placed
    <3>. QED BY <3>1, <3>2 DEF Entries, Requests
  <2>. QED BY <2>1, <2>2 DEF Typed, ClockTypeOK
<1>. QED BY <1>1, ClockAlways, PTL

(* A split that fits its fields makes the value that was split. *)
LEMMA AchievedIsAsked ==
  ASSUME clk \in Clocks, NEW v \in Settable(clk), Fits(v)
  PROVE  Achieved(clk, v) = v
<1>. DEFINE m == MapDivider(clk, v)
<1>1. v \in Nat \ {0} /\ m.mapped # {}
  BY BoundsAssumption DEF Settable
<1>2. /\ m.div0 \in Nat /\ m.div1 \in Nat
      /\ v = IF "div1" \in Divs(clk) THEN m.div0 * m.div1 ELSE m.div0
  BY <1>1, MapDividerType, Zenon
<1>3. m.div0 <= DivWidth /\ m.div1 <= DivWidth
  BY Zenon DEF Fits
<1>4. Achieved(clk, v) = Made(clk, Written(m.div0), Written(m.div1))
  BY Zenon DEF Achieved
<1>. HIDE DEF m
<1>5. Written(m.div0) = m.div0 /\ Written(m.div1) = m.div1
  BY <1>2, <1>3, WrittenIs
<1>. QED BY <1>2, <1>4, <1>5, Zenon DEF Made

(* A divider that XPm_ClockSetDivider set without a failure, undisturbed, and whose
   split fits the two fields, is what XPm_ClockGetDivider returns to every unit, for
   every clock: the split and the product of what is read back agree. Of the sets
   that do not fit, the invariant has what is read back instead: the product of what
   is left of the parts in their fields. *)
THEOREM DividersReadBack == Spec => []DividerIsReadBack
<1>1. ClockInv => DividerIsReadBack
  <2>. SUFFICES ASSUME ClockInv, NEW c \in Callers, NEW value \in Values,
                       GotAfterSet(c, value), Fits(value)
                PROVE  call[c].value = value
    BY Zenon DEF DividerIsReadBack
  <2>1. /\ call[c].op = "getDivider" /\ call[c].status = "success"
        /\ call[c].expected = Divides(value) /\ call[c].expected # None
    BY DEF GotAfterSet, Divides, None
  <2>2. call[c].pc = "idle"
    BY <2>1 DEF ClockInv, Placed
  <2>3. Keeps(clk, call[c].expected, call[c].value)
    BY <2>1, <2>2 DEF ClockInv, DividerInv, GetsDivider
  <2>4. PICK v \in Settable(clk) :
          call[c].expected = Divides(v) /\ call[c].value = Achieved(clk, v)
    BY <2>3, Zenon DEF Keeps
  <2>5. v = value
    BY <2>1, <2>4 DEF Divides
  <2>6. clk \in Clocks
    BY Zenon DEF ClockInv, Typed
  <2>. QED BY <2>4, <2>5, <2>6, AchievedIsAsked
<1>. QED BY <1>1, ClockAlways, PTL

(* The parent that XPm_ClockSetParent set is the one XPm_ClockGetParent returns: the
   searches of the tables of select values are inverse to each other for every
   clock, though the values have gaps and the MIO pins come after all others. *)
THEOREM ParentsReadBack == Spec => []ParentIsReadBack
<1>1. ClockInv => ParentIsReadBack
  <2>. SUFFICES ASSUME ClockInv, NEW c \in Callers,
                       call[c].op = "getParent", call[c].status \in {"success", "invalid"},
                       call[c].expected # None
                PROVE  call[c].parent = call[c].expected
    BY DEF ParentIsReadBack
  <2>1. call[c].pc = "idle"
    BY DEF ClockInv, Placed
  <2>. QED BY <2>1 DEF ClockInv, ParentInv, GetsParent
<1>. QED BY <1>1, ClockAlways, PTL
=============================================================================
