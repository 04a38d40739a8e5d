---------------------------- MODULE PsuInit_proofs ----------------------------
(****************************************************************************)
(* Proofs about psu_init: for any number of PLLs, of attempts, of repeated  *)
(* calibrations and of codes, what it reports as a success works, the PHY   *)
(* does one thing at a time, and the searches find what they look for.      *)
(****************************************************************************)
EXTENDS PsuInit, FiniteSetTheorems, SequenceTheorems, WellFoundedInduction, TLAPS

-----------------------------------------------------------------------------
(* The search for the code that came most often. *)

(* Of natural numbers with a property, one is the least. *)
LEMMA LeastNatural ==
  ASSUME NEW S, S \subseteq Nat, S # {}
  PROVE  \E m \in S : \A n \in S : m <= n
<1>. DEFINE R == OpToRel(<, Nat)
<1>1. IsWellFoundedOn(R, Nat)
  BY NatLessThanWellFounded, Zenon
<1>. HIDE DEF R
<1>2. PICK m \in S : \A n \in S : ~ (<<n, m>> \in R)
  BY <1>1, WFMin
<1>3. \A n, k \in Nat : n < k => <<n, k>> \in R
  BY DEF R, OpToRel
<1>4. \A n \in S : ~ (n < m)
  BY <1>2, <1>3, Zenon
<1>. QED BY <1>4

(* One turn of the search, and the turns up to the n-th. *)
FindStep(counts, i, before) ==
  IF counts[i - 1] >= before.max THEN [max |-> counts[i - 1], code |-> i - 1] ELSE before

Turns(counts, n, m, turn) ==
  turn = [i \in 0..m |-> IF i = 0 THEN [max |-> counts[0], code |-> n]
                                  ELSE FindStep(counts, i, turn[i - 1])]

LEMMA TurnsExist ==
  ASSUME NEW n \in Nat, NEW counts
  PROVE  \E turn : Turns(counts, n, n, turn)
<1>. DEFINE S == {m \in 0..n : ~ \E turn : Turns(counts, n, m, turn)}
<1>. SUFFICES ASSUME S # {} PROVE FALSE
  OBVIOUS
<1>0. S \subseteq Nat
  OBVIOUS
<1>1. PICK m \in S : \A k \in S : m <= k
  <2>. HIDE DEF S
  <2>. QED BY <1>0, LeastNatural
<1>2. m \in 0..n /\ ~ \E turn : Turns(counts, n, m, turn)
  OBVIOUS
<1>3. m # 0
  <2>. SUFFICES ASSUME m = 0 PROVE FALSE
    OBVIOUS
  <2>. DEFINE first == [i \in 0..0 |-> [max |-> counts[0], code |-> n]]
  <2>1. first = [i \in 0..0 |-> IF i = 0 THEN [max |-> counts[0], code |-> n]
                                 ELSE FindStep(counts, i, first[i - 1])]
    <3>1. \A i \in 0..0 : i = 0
      OBVIOUS
    <3>. QED BY <3>1
  <2>2. Turns(counts, n, 0, first)
    BY <2>1, Zenon DEF Turns
  <2>. QED BY <1>2, <2>2
<1>4. m - 1 \in 0..n /\ m - 1 \notin S
  BY <1>1, <1>2, <1>3
<1>5. PICK f : Turns(counts, n, m - 1, f)
  BY <1>4
<1>. DEFINE next == [i \in 0..m |-> IF i = m THEN FindStep(counts, m, f[m - 1]) ELSE f[i]]
<1>6. f = [i \in 0..(m - 1) |-> IF i = 0 THEN [max |-> counts[0], code |-> n]
                                ELSE FindStep(counts, i, f[i - 1])]
  BY <1>5, Zenon DEF Turns
<1>7. \A i \in 0..m : next[i] = IF i = 0 THEN [max |-> counts[0], code |-> n]
                                ELSE FindStep(counts, i, next[i - 1])
  <2>. SUFFICES ASSUME NEW i \in 0..m
                PROVE  next[i] = IF i = 0 THEN [max |-> counts[0], code |-> n]
                                 ELSE FindStep(counts, i, next[i - 1])
    OBVIOUS
  <2>1. CASE i = m
    <3>1. next[i] = FindStep(counts, m, f[m - 1]) /\ next[m - 1] = f[m - 1]
      BY <1>2, <1>3, <2>1
    <3>. QED BY <1>3, <2>1, <3>1
  <2>2. CASE i # m /\ i = 0
    BY <1>2, <1>3, <1>6, <2>2
  <2>3. CASE i # m /\ i # 0
    <3>1. /\ next[i] = f[i] /\ i \in 0..(m - 1) /\ i - 1 \in 0..m /\ i - 1 # m
          /\ next[i - 1] = f[i - 1]
      BY <1>2, <1>3, <2>3
    <3>2. f[i] = FindStep(counts, i, f[i - 1])
      BY <1>6, <2>3, <3>1
    <3>. QED BY <2>3, <3>1, <3>2
  <2>. QED BY <2>1, <2>2, <2>3
<1>8. next = [i \in 0..m |-> IF i = 0 THEN [max |-> counts[0], code |-> n]
                                      ELSE FindStep(counts, i, next[i - 1])]
  <2>. DEFINE g == [i \in 0..m |-> IF i = 0 THEN [max |-> counts[0], code |-> n]
                                   ELSE FindStep(counts, i, next[i - 1])]
  <2>1. \A i \in 0..m : next[i] = g[i]
    BY <1>7
  <2>2. next = [i \in 0..m |-> next[i]] /\ g = [i \in 0..m |-> g[i]]
    OBVIOUS
  <2>. HIDE DEF next, g
  <2>3. next = g
    BY <2>1, <2>2
  <2>. QED BY <2>3 DEF g
<1>9. Turns(counts, n, m, next)
  BY <1>8, Zenon DEF Turns
<1>. QED BY <1>2, <1>9

(* The code found is valid, and no other came more often. *)
LEMMA FindCodeIs ==
  ASSUME NEW n \in Nat \ {0}, NEW counts \in [0..(n - 1) -> Nat]
  PROVE  LET c == FindCode(counts, n)
         IN  c \in 0..(n - 1) /\ \A d \in 0..(n - 1) : counts[d] <= counts[c]
<1>. DEFINE turn == CHOOSE t : Turns(counts, n, n, t)
<1>1. Turns(counts, n, n, turn)
  BY TurnsExist, Zenon
<1>2. FindCode(counts, n) = turn[n].code
  BY DEF FindCode, Turns, FindStep
<1>. HIDE DEF turn
<1>3. \A i \in 0..n : turn[i] = IF i = 0 THEN [max |-> counts[0], code |-> n]
                                ELSE FindStep(counts, i, turn[i - 1])
  BY <1>1 DEF Turns
<1>. DEFINE Best(i) == /\ turn[i].max \in Nat
                       /\ i = 0 => turn[i].max = counts[0]
                       /\ i > 0 => /\ turn[i].code \in 0..(i - 1)
                                   /\ turn[i].max = counts[turn[i].code]
                                   /\ \A d \in 0..(i - 1) : counts[d] <= turn[i].max
<1>4. \A i \in 0..n : Best(i)
  <2>. DEFINE S == {i \in 0..n : ~ Best(i)}
  <2>. SUFFICES ASSUME S # {} PROVE FALSE
    OBVIOUS
  <2>0. S \subseteq Nat
    OBVIOUS
  <2>1. PICK m \in S : \A k \in S : m <= k
    <3>. HIDE DEF S
    <3>. QED BY <2>0, LeastNatural
  <2>2. m \in 0..n /\ ~ Best(m)
    OBVIOUS
  <2>3. m # 0
    <3>1. turn[0] = [max |-> counts[0], code |-> n] /\ counts[0] \in Nat
      BY <1>3
    <3>2. Best(0)
      BY <3>1
    <3>. QED BY <2>2, <3>2
  <2>4. m - 1 \in 0..n /\ m - 1 \in 0..(n - 1) /\ Best(m - 1)
    BY <2>1, <2>2, <2>3
  <2>5. turn[m] = IF counts[m - 1] >= turn[m - 1].max
                  THEN [max |-> counts[m - 1], code |-> m - 1] ELSE turn[m - 1]
    BY <1>3, <2>2, <2>3 DEF FindStep
  <2>6. counts[m - 1] \in Nat /\ \A d \in 0..(m - 1) : counts[d] \in Nat
    BY <2>2, <2>4
  <2>7. Best(m)
    <3>1. CASE counts[m - 1] >= turn[m - 1].max
      <4>1. turn[m].max = counts[m - 1] /\ turn[m].code = m - 1
        BY <2>5, <3>1
      <4>2. ASSUME NEW d \in 0..(m - 1) PROVE counts[d] <= counts[m - 1]
        <5>1. counts[d] \in Nat /\ m - 1 \in Nat
          BY <2>4, <2>6
        <5>2. CASE d = m - 1
          BY <2>6, <5>1, <5>2
        <5>3. CASE d # m - 1
          <6>1. d \in 0..((m - 1) - 1) /\ m - 1 > 0
            BY <2>2, <5>3
          <6>2. counts[d] <= turn[m - 1].max /\ turn[m - 1].max \in Nat
            BY <2>4, <6>1
          <6>. QED BY <2>6, <3>1, <5>1, <6>2
        <5>. QED BY <5>2, <5>3
      <4>. QED BY <2>2, <2>3, <2>6, <4>1, <4>2
    <3>2. CASE ~ (counts[m - 1] >= turn[m - 1].max)
      <4>1. turn[m] = turn[m - 1]
        BY <2>5, <3>2
      <4>2. m - 1 > 0
        BY <2>2, <2>3, <2>4, <2>6, <3>2
      <4>. QED BY <2>2, <2>3, <2>4, <2>6, <3>2, <4>1, <4>2
    <3>. QED BY <3>1, <3>2
  <2>. QED BY <2>2, <2>7
<1>5. Best(n)
  BY <1>4
<1>. QED BY <1>2, <1>5
-----------------------------------------------------------------------------
(* Counting the codes that were measured. *)

LEMMA NoneIsMeasured ==
  ASSUME measured = <<>>, NEW k, NEW c
  PROVE  Times(k, c) = 0
<1>1. {i \in DOMAIN measured : measured[i][k] = c} = {}
  OBVIOUS
<1>. QED BY <1>1, FS_EmptySet DEF Times

LEMMA TimesIs ==
  ASSUME measured \in Seq([Kinds -> Nat]), NEW k, NEW c
  PROVE  Times(k, c) \in Nat
<1>1. IsFiniteSet(1..Len(measured))
  BY FS_Interval
<1>2. IsFiniteSet({i \in DOMAIN measured : measured[i][k] = c})
  <2>1. {i \in DOMAIN measured : measured[i][k] = c} \subseteq 1..Len(measured)
    OBVIOUS
  <2>. QED BY <1>1, <2>1, FS_Subset
<1>. QED BY <1>2, FS_CardinalityType DEF Times

LEMMA OneMoreIsMeasured ==
  ASSUME measured \in Seq([Kinds -> Nat]), reading \in [Kinds -> Nat],
         measured' = Append(measured, reading), NEW k \in Kinds, NEW c
  PROVE  Times(k, c)' = Times(k, c) + IF reading[k] = c THEN 1 ELSE 0
<1>. DEFINE before == {i \in DOMAIN measured : measured[i][k] = c}
            after == {i \in DOMAIN measured' : measured'[i][k] = c}
            n == Len(measured) + 1
<1>1. /\ DOMAIN measured = 1..Len(measured) /\ Len(measured) \in Nat
      /\ DOMAIN measured' = 1..n
      /\ measured'[n] = reading /\ \A i \in 1..Len(measured) : measured'[i] = measured[i]
  OBVIOUS
<1>2. after = before \cup (IF reading[k] = c THEN {n} ELSE {}) /\ n \notin before
  BY <1>1
<1>3. IsFiniteSet(before)
  <2>1. before \subseteq 1..Len(measured) /\ IsFiniteSet(1..Len(measured))
    BY <1>1, FS_Interval
  <2>. QED BY <2>1, FS_Subset
<1>4. Cardinality(before) \in Nat
  BY <1>3, FS_CardinalityType
<1>5. Cardinality(before \cup {n}) = Cardinality(before) + 1
  <2>. HIDE DEF before, n
  <2>. QED BY <1>2, <1>3, FS_AddElement
<1>6. Times(k, c) = Cardinality(before) /\ Times(k, c)' = Cardinality(after)
  BY DEF Times
<1>. HIDE DEF before, after, n
<1>7. CASE reading[k] = c
  <2>1. after = before \cup {n}
    BY <1>2, <1>7
  <2>. QED BY <1>5, <1>6, <1>7, <2>1
<1>8. CASE reading[k] # c
  <2>1. after = before
    BY <1>2, <1>8
  <2>. QED BY <1>4, <1>6, <1>8, <2>1
<1>. QED BY <1>7, <1>8
-----------------------------------------------------------------------------
(* The turns of the search for a lane's setting. *)

Lane == [prev : BOOLEAN, pass : Nat, mean : 0..(Counters - 1), alt : 0..(Counters - 1),
         altPass : Nat]

LEMMA NewLaneIs == NewLane \in Lane /\ NewLane.pass = 0
BY CountersAssumption DEF NewLane, Lane

(* The passes in a row as the turn leaves them. *)
Kept(x, i, result) == IF ShortRow(x, i, result) THEN 0 ELSE Passes(x, result)

LEMMA TurnIs ==
  ASSUME NEW x \in Lane, NEW i, NEW result \in BOOLEAN,
         NEW y, y = Turn(x, i, result),
         NEW k, k = Kept(x, i, result), NEW p, p = Passes(x, result)
  PROVE  /\ y = [prev |-> y.prev, pass |-> y.pass, mean |-> y.mean, alt |-> y.alt,
                 altPass |-> y.altPass]
         /\ y.prev = result /\ y.pass = k
         /\ y.mean = IF /\ x.mean = 0 /\ k >= 4 /\ x.prev
                        /\ ~ result \/ i = Counters - 1
                     THEN Middle(i, k) ELSE x.mean
         /\ \/ y.alt = x.alt /\ y.altPass = x.altPass
            \/ ShortRow(x, i, result) /\ y.alt = Middle(i, p) /\ y.altPass = p
<1>. DEFINE c == WithShortRow(x, i, result)
<1>1. /\ DOMAIN c = {"prev", "pass", "mean", "alt", "altPass"}
      /\ c.prev = x.prev /\ c.mean = x.mean /\ c.pass = Kept(x, i, result)
      /\ \/ c.alt = x.alt /\ c.altPass = x.altPass
         \/ /\ ShortRow(x, i, result) /\ c.alt = Middle(i, Passes(x, result))
            /\ c.altPass = Passes(x, result)
  <2>. DEFINE pass == Passes(x, result)
              mid == Middle(i, pass)
              short == ShortRow(x, i, result)
  <2>1. c = IF ~ short THEN [x EXCEPT !.pass = pass]
            ELSE IF x.altPass < pass THEN [x EXCEPT !.pass = 0, !.altPass = pass, !.alt = mid]
            ELSE [x EXCEPT !.pass = 0]
    BY DEF WithShortRow
  <2>2. Kept(x, i, result) = IF short THEN 0 ELSE pass
    BY DEF Kept
  <2>. HIDE DEF pass, mid, short, c
  <2>3. CASE ~ short
    BY <2>1, <2>2, <2>3 DEF Lane
  <2>4. CASE short /\ x.altPass < pass
    <3>1. c = [x EXCEPT !.pass = 0, !.altPass = pass, !.alt = mid]
      BY <2>1, <2>4
    <3>2. ShortRow(x, i, result) /\ mid = Middle(i, Passes(x, result)) /\ pass = Passes(x, result)
      BY <2>4 DEF short, mid, pass
    <3>3. c.alt = mid /\ c.altPass = pass
      BY <3>1 DEF Lane
    <3>. QED BY <2>2, <2>4, <3>1, <3>2, <3>3 DEF Lane
  <2>5. CASE short /\ ~ (x.altPass < pass)
    BY <2>1, <2>2, <2>5 DEF Lane
  <2>. QED BY <2>3, <2>4, <2>5
<1>2. Turn(x, i, result)
        = [c EXCEPT !.prev = result,
                    !.mean = IF LongRow(c, i, result) THEN Middle(i, c.pass) ELSE c.mean]
  BY DEF Turn
<1>3. LongRow(c, i, result) = /\ x.mean = 0 /\ Kept(x, i, result) >= 4
                              /\ ~ result \/ i = Counters - 1
                              /\ x.prev
  BY <1>1 DEF LongRow
<1>. DEFINE long == LongRow(c, i, result)
            mid == Middle(i, Kept(x, i, result))
<1>4. Turn(x, i, result) = [c EXCEPT !.prev = result, !.mean = IF long THEN mid ELSE x.mean]
  BY <1>1, <1>2
<1>5. c = [prev |-> c.prev, pass |-> c.pass, mean |-> c.mean, alt |-> c.alt,
           altPass |-> c.altPass]
  <2>. DEFINE pass == Passes(x, result)
              m == Middle(i, pass)
              short == ShortRow(x, i, result)
  <2>1. c = IF ~ short THEN [x EXCEPT !.pass = pass]
            ELSE IF x.altPass < pass THEN [x EXCEPT !.pass = 0, !.altPass = pass, !.alt = m]
            ELSE [x EXCEPT !.pass = 0]
    BY DEF WithShortRow
  <2>. HIDE DEF pass, m, short, c
  <2>. QED BY <2>1 DEF Lane
<1>6. long = /\ x.mean = 0 /\ Kept(x, i, result) >= 4
             /\ ~ result \/ i = Counters - 1
             /\ x.prev
  BY <1>3
<1>. HIDE DEF c, long, mid
<1>7. /\ y = [prev |-> y.prev, pass |-> y.pass, mean |-> y.mean, alt |-> y.alt,
              altPass |-> y.altPass]
      /\ y.prev = result /\ y.pass = c.pass /\ y.alt = c.alt /\ y.altPass = c.altPass
      /\ y.mean = IF long THEN mid ELSE x.mean
  BY <1>1, <1>4, <1>5
<1>8. y.mean = IF long THEN Middle(i, k) ELSE x.mean
  BY <1>7 DEF mid
<1>9. \/ y.alt = x.alt /\ y.altPass = x.altPass
      \/ ShortRow(x, i, result) /\ y.alt = Middle(i, p) /\ y.altPass = p
  BY <1>1, <1>7, Zenon
<1>10. y.pass = k
  BY <1>1, <1>7
<1>. QED BY <1>6, <1>7, <1>8, <1>9, <1>10

LEMMA PassesIs ==
  ASSUME NEW x \in Lane, NEW result \in BOOLEAN
  PROVE  Passes(x, result) = IF result /\ x.prev THEN x.pass + 1 ELSE x.pass
BY DEF Passes, Lane

LEMMA MiddleIs ==
  ASSUME NEW i \in Nat, NEW p \in Nat
  PROVE  \E half \in Nat : /\ 2 * half <= p + 1 /\ p < 2 * half + 1
                           /\ Middle(i, p) = (i - 1) - half
<1>1. /\ (p + 1) \div 2 \in Nat /\ 2 * ((p + 1) \div 2) <= p + 1
      /\ p + 1 < 2 * ((p + 1) \div 2) + 2
  OBVIOUS
<1>. QED BY <1>1 DEF Middle

LEMMA TurnType ==
  ASSUME NEW x \in Lane, NEW i \in 0..(Counters - 1), NEW result \in BOOLEAN, x.pass <= i
  PROVE  Turn(x, i, result) \in Lane /\ Turn(x, i, result).pass <= i + 1
<1>. DEFINE y == Turn(x, i, result)
            p == Passes(x, result)
            k == Kept(x, i, result)
<1>0. i \in Nat
  BY CountersAssumption
<1>1. /\ p \in Nat /\ p <= i + 1 /\ (~ result => p <= i) /\ k \in {0, p}
      /\ ShortRow(x, i, result) => p < 4 /\ p <= i /\ i > 2
  BY PassesIs, CountersAssumption DEF Lane, Kept, ShortRow
<1>. HIDE DEF y, p, k
<1>2. /\ y = [prev |-> y.prev, pass |-> y.pass, mean |-> y.mean, alt |-> y.alt,
              altPass |-> y.altPass]
      /\ y.prev = result /\ y.pass = k
      /\ y.mean = x.mean \/ (k >= 4 /\ y.mean = Middle(i, k))
      /\ \/ y.alt = x.alt /\ y.altPass = x.altPass
         \/ ShortRow(x, i, result) /\ y.alt = Middle(i, p) /\ y.altPass = p
  <2>1. y = Turn(x, i, result) /\ k = Kept(x, i, result) /\ p = Passes(x, result)
    BY DEF y, k, p
  <2>. QED BY <2>1, TurnIs
<1>3. y.mean \in 0..(Counters - 1)
  <2>1. CASE y.mean = x.mean
    BY <2>1 DEF Lane
  <2>2. CASE k >= 4 /\ y.mean = Middle(i, k)
    <3>1. PICK half \in Nat : 2 * half <= k + 1 /\ k < 2 * half + 1 /\ Middle(i, k) = (i - 1) - half
      <4>1. k \in Nat
        BY <1>1
      <4>. QED BY <1>0, <4>1, MiddleIs
    <3>. QED BY <1>0, <1>1, <2>2, <3>1, CountersAssumption
  <2>. QED BY <1>2, <2>1, <2>2
<1>4. y.alt \in 0..(Counters - 1) /\ y.altPass \in Nat
  <2>1. CASE y.alt = x.alt /\ y.altPass = x.altPass
    BY <2>1 DEF Lane
  <2>2. CASE ShortRow(x, i, result) /\ y.alt = Middle(i, p) /\ y.altPass = p
    <3>1. PICK half \in Nat : 2 * half <= p + 1 /\ p < 2 * half + 1 /\ Middle(i, p) = (i - 1) - half
      BY <1>0, <1>1, MiddleIs
    <3>. QED BY <1>0, <1>1, <2>2, <3>1, CountersAssumption
  <2>. QED BY <1>2, <2>1, <2>2
<1>5. y.prev \in BOOLEAN /\ y.pass \in Nat /\ y.pass <= i + 1
  BY <1>1, <1>2
<1>6. y \in Lane
  BY <1>2, <1>3, <1>4, <1>5 DEF Lane
<1>. QED BY <1>5, <1>6 DEF y
-----------------------------------------------------------------------------
(* Rows of counters that pass. *)

Run(i, j) == \A n \in i..j : Passed(n)

Margin(i) == i \in 1..(Counters - 2) /\ Passed(i - 1) /\ Passed(i) /\ Passed(i + 1)

(* The present row begins at counter "from", or there is none. One pass too many is
   counted when the first two counters pass and the third does not. *)
RowFrom(from, over) ==
  /\ Run(from, itercount - 1) /\ (from > 0 => ~ Passed(from - 1))
  /\ lane.pass = over + (IF from < itercount THEN itercount - 1 - from ELSE 0)
  /\ over = 1 => from = 3
  /\ \A i \in 0..(Counters - 5) : Run(i, i + 4) => from <= i /\ itercount < Counters

LaneInv ==
  pc = "search" =>
    /\ lane.prev = (itercount > 0 /\ Passed(itercount - 1))
    /\ IF lane.mean = 0 THEN \E from \in 0..itercount, over \in {0, 1} : RowFrom(from, over)
       ELSE Margin(lane.mean)

(* A result more. *)
LEMMA PassedThen ==
  ASSUME results \in Seq(BOOLEAN), NEW result \in BOOLEAN, results' = Append(results, result)
  PROVE  /\ \A i \in 0..(Len(results) - 1) : Passed(i)' = Passed(i)
         /\ \A n : n = Len(results) => Passed(n)' = result
         /\ \A i \in Int : (i < 0 \/ i > Len(results)) => ~ Passed(i)'
         /\ \A i \in Int : (i < 0 \/ i >= Len(results)) => ~ Passed(i)
<1>1. /\ Len(results) \in Nat /\ Len(results') = Len(results) + 1
      /\ DOMAIN results = 1..Len(results) /\ DOMAIN results' = 1..(Len(results) + 1)
      /\ results'[Len(results) + 1] = result
      /\ \A i \in 1..Len(results) : results'[i] = results[i]
  OBVIOUS
<1>2. /\ \A i \in Int : Passed(i)' = (i + 1 \in DOMAIN results' /\ results'[i + 1])
      /\ \A i \in Int : Passed(i) = (i + 1 \in DOMAIN results /\ results[i + 1])
  BY DEF Passed
<1>3. ASSUME NEW i \in 0..(Len(results) - 1) PROVE Passed(i)' = Passed(i)
  BY <1>1, <1>2
<1>4. ASSUME NEW n, n = Len(results) PROVE Passed(n)' = result
  <2>1. n \in Int /\ n + 1 \in DOMAIN results' /\ results'[n + 1] = result
    BY <1>1, <1>4
  <2>2. Passed(n)' = (n + 1 \in DOMAIN results' /\ results'[n + 1])
    BY <1>2, <2>1
  <2>. QED BY <2>1, <2>2, Zenon
<1>5. /\ \A i \in Int : (i < 0 \/ i > Len(results)) => ~ Passed(i)'
      /\ \A i \in Int : (i < 0 \/ i >= Len(results)) => ~ Passed(i)
  <2>1. ASSUME NEW i \in Int, i < 0 \/ i > Len(results) PROVE ~ Passed(i)'
    <3>1. i + 1 \notin DOMAIN results'
      BY <1>1, <2>1
    <3>. QED BY <1>2, <3>1
  <2>2. ASSUME NEW i \in Int, i < 0 \/ i >= Len(results) PROVE ~ Passed(i)
    <3>1. i + 1 \notin DOMAIN results
      BY <1>1, <2>2
    <3>. QED BY <1>2, <3>1
  <2>. QED BY <2>1, <2>2
<1>. QED BY <1>3, <1>4, <1>5

LEMMA LaneTurns ==
  ASSUME Counters > 8, results \in Seq(BOOLEAN), itercount = Len(results),
         itercount < Counters, lane \in Lane, LaneInv, pc = "search",
         NEW result \in BOOLEAN, results' = Append(results, result),
         lane' = Turn(lane, itercount, result), itercount' = itercount + 1, pc' = pc
  PROVE  LaneInv'
<1>0. PICK n \in Nat : n = itercount
  BY CountersAssumption
<1>. DEFINE p == Passes(lane, result)
            k == Kept(lane, n, result)
            long == /\ lane.mean = 0 /\ k >= 4 /\ (~ result \/ n = Counters - 1)
                    /\ lane.prev
<1>1. /\ n = itercount /\ n \in Nat /\ Counters \in Nat /\ n < Counters
      /\ itercount' = n + 1 /\ Len(results) = n
  BY <1>0, CountersAssumption
<1>2. /\ \A i \in 0..(n - 1) : Passed(i)' = Passed(i)
      /\ Passed(n)' = result
      /\ \A i \in Int : (i < 0 \/ i > n) => ~ Passed(i)'
      /\ \A i \in Int : (i < 0 \/ i >= n) => ~ Passed(i)
  BY <1>1, PassedThen
<1>3. /\ lane'.prev = result /\ lane'.pass = k
      /\ lane'.mean = IF long THEN Middle(n, k) ELSE lane.mean
  BY <1>1, TurnIs
<1>4. /\ p = IF result /\ lane.prev THEN lane.pass + 1 ELSE lane.pass
      /\ k = IF p < 4 /\ ~ result /\ n > 2 THEN 0 ELSE p
      /\ p \in Nat /\ k \in Nat
  BY PassesIs DEF Kept, ShortRow, Lane
<1>5. /\ lane.prev = (n > 0 /\ Passed(n - 1))
      /\ IF lane.mean = 0 THEN \E from \in 0..n, over \in {0, 1} : RowFrom(from, over)
         ELSE Margin(lane.mean)
  BY <1>0, Zenon DEF LaneInv
<1>. HIDE DEF p, k, long
<1>6. lane'.prev = (n + 1 > 0 /\ Passed(n)')
  BY <1>1, <1>2, <1>3
<1>7. (\A i \in Int : Passed(i) => Passed(i)') /\ \A i \in Int : i # n /\ Passed(i)' => Passed(i)
  BY <1>1, <1>2
<1>8. ASSUME NEW i, Margin(i) PROVE Margin(i)'
  BY <1>1, <1>7, <1>8 DEF Margin
<1>. SUFFICES IF lane'.mean = 0
              THEN \E from \in 0..(n + 1), over \in {0, 1} : RowFrom(from, over)'
              ELSE \E m : lane'.mean = m /\ Margin(m)'
  <2>1. (itercount > 0 /\ Passed(itercount - 1))' = (n + 1 > 0 /\ Passed(n)')
    <3>1. (n + 1) - 1 = n
      BY <1>1
    <3>. QED BY <1>1, <3>1 DEF Passed
  <2>2. Margin(lane.mean)' = (\E m : lane'.mean = m /\ Margin(m)')
    BY DEF Margin, Passed
  <2>3. (\E from \in 0..itercount, over \in {0, 1} : RowFrom(from, over))'
          = (\E from \in 0..(n + 1), over \in {0, 1} : RowFrom(from, over)')
    BY <1>1
  <2>. QED BY <1>6, <2>1, <2>2, <2>3, Zenon DEF LaneInv
<1>9. CASE lane.mean # 0
  <2>1. lane'.mean = lane.mean /\ Margin(lane.mean)
    BY <1>3, <1>5, <1>9 DEF long
  <2>2. PICK m : m = lane.mean
    OBVIOUS
  <2>3. Margin(m)'
    BY <1>8, <2>1, <2>2
  <2>. QED BY <1>9, <2>1, <2>2, <2>3
<1>10. CASE lane.mean = 0
  <2>1. PICK from \in 0..n, over \in {0, 1} : RowFrom(from, over)
    BY <1>5, <1>10
  <2>2. /\ from \in Nat /\ over \in {0, 1} /\ from <= n
        /\ \A i \in from..(n - 1) : Passed(i)
        /\ from > 0 => ~ Passed(from - 1)
        /\ lane.pass = over + (IF from < n THEN n - 1 - from ELSE 0)
        /\ over = 1 => from = 3
        /\ \A i \in 0..(Counters - 5) : Run(i, i + 4) => from <= i /\ n < Counters
    BY <1>1, <2>1 DEF RowFrom, Run
  <2>3. lane.prev <=> from < n
    <3>1. CASE from < n
      <4>1. n - 1 \in from..(n - 1) /\ n > 0
        BY <1>1, <2>2, <3>1
      <4>. QED BY <1>1, <1>5, <2>2, <3>1, <4>1
    <3>2. CASE ~ (from < n)
      <4>1. from = n
        BY <1>1, <2>2, <3>2
      <4>. QED BY <1>1, <1>5, <2>2, <3>2, <4>1
    <3>. QED BY <3>1, <3>2
  (* Five in a row among the results so far belong to the present row. *)
  <2>4. ASSUME NEW i \in 0..(Counters - 5), \A j \in i..(i + 4) : Passed(j)
        PROVE  from <= i /\ i + 4 < n
    <3>1. Run(i, i + 4)
      BY <2>4 DEF Run
    <3>2. Passed(i + 4) /\ i + 4 \in Int
      BY <1>1, <2>4
    <3>. QED BY <1>1, <1>2, <2>2, <3>1, <3>2
  <2>5. CASE result
    <3>1. p = over + n - from /\ k = p
      <4>1. k = p
        BY <1>4, <2>5
      <4>2. CASE from < n
        <5>1. p = lane.pass + 1
          BY <1>4, <2>3, <2>5, <4>2
        <5>. QED BY <1>1, <2>2, <4>1, <4>2, <5>1
      <4>3. CASE ~ (from < n)
        <5>1. p = lane.pass /\ from = n
          BY <1>1, <1>4, <2>2, <2>3, <4>3
        <5>. QED BY <1>1, <2>2, <4>1, <4>3, <5>1
      <4>. QED BY <4>2, <4>3
    <3>2. ASSUME NEW i \in from..n PROVE Passed(i)'
      <4>1. Passed(n)'
        BY <1>2, <2>5
      <4>2. CASE i = n
        BY <4>1, <4>2
      <4>3. CASE i # n
        <5>1. i \in Int /\ i \in from..(n - 1)
          BY <1>1, <2>2, <4>3
        <5>. QED BY <1>7, <2>2, <5>1
      <4>. QED BY <4>2, <4>3
    <3>3. CASE long
      <4>1. k >= 4 /\ n = Counters - 1 /\ lane.prev
        BY <2>5, <3>3 DEF long
      <4>2. PICK half \in Nat : /\ 2 * half <= k + 1 /\ k < 2 * half + 1
                                /\ Middle(n, k) = (n - 1) - half
        BY <1>1, <1>4, MiddleIs
      <4>. DEFINE m == (n - 1) - half
      <4>3. /\ m - 1 \in from..n /\ m \in from..n /\ m + 1 \in from..n
            /\ m \in 1..(Counters - 2)
        BY <1>1, <2>2, <3>1, <4>1, <4>2
      <4>4. m # 0 /\ lane'.mean = m
        <5>1. lane'.mean = Middle(n, k)
          BY <1>3, <3>3
        <5>. QED BY <4>2, <4>3, <5>1
      <4>5. Margin(m)'
        BY <3>2, <4>3 DEF Margin
      <4>. QED BY <4>4, <4>5
    <3>4. CASE ~ long
      <4>1. lane'.mean = 0
        BY <1>3, <1>10, <3>4
      <4>2. lane'.pass = over + (IF from < n + 1 THEN (n + 1) - 1 - from ELSE 0)
        BY <1>1, <1>3, <2>2, <3>1
      <4>3. from > 0 => ~ Passed(from - 1)'
        BY <1>1, <1>7, <2>2
      <4>4. ASSUME NEW i \in 0..(Counters - 5), \A j \in i..(i + 4) : Passed(j)'
            PROVE  from <= i /\ n + 1 < Counters
        <5>1. i + 4 <= n
          <6>1. Passed(i + 4)' /\ i + 4 \in Int
            BY <1>1, <4>4
          <6>. QED BY <1>1, <1>2, <6>1
        <5>2. from <= i
          <6>. SUFFICES ASSUME ~ (from <= i) PROVE FALSE
            OBVIOUS
          <6>1. CASE from - 1 <= i + 4
            BY <1>1, <2>2, <4>3, <4>4, <6>1
          <6>2. CASE ~ (from - 1 <= i + 4)
            <7>1. \A j \in i..(i + 4) : Passed(j)
              BY <1>1, <1>7, <2>2, <4>4, <6>2
            <7>. QED BY <1>1, <2>4, <7>1
          <6>. QED BY <6>1, <6>2
        <5>3. k >= 4 /\ lane.prev
          <6>1. from + 4 <= n
            BY <1>1, <2>2, <5>1, <5>2
          <6>. QED BY <1>1, <2>2, <2>3, <3>1, <6>1
        <5>4. n # Counters - 1
          BY <1>10, <3>4, <5>3 DEF long
        <5>. QED BY <1>1, <5>2, <5>4
      <4>5. RowFrom(from, over)'
        <5>1. \A i \in from..((n + 1) - 1) : Passed(i)'
          BY <1>1, <3>2
        <5>. QED BY <1>1, <2>2, <4>2, <4>3, <4>4, <5>1 DEF RowFrom, Run
      <4>. QED BY <1>1, <4>1, <4>5
    <3>. QED BY <3>3, <3>4
  <2>6. CASE ~ result
    <3>1. CASE long
      <4>1. k >= 4 /\ lane.prev /\ k = lane.pass
        BY <1>4, <2>6, <3>1 DEF long
      <4>2. PICK half \in Nat : /\ 2 * half <= k + 1 /\ k < 2 * half + 1
                                /\ Middle(n, k) = (n - 1) - half
        BY <1>1, <1>4, MiddleIs
      <4>. DEFINE m == (n - 1) - half
      <4>3. /\ m - 1 \in from..(n - 1) /\ m \in from..(n - 1) /\ m + 1 \in from..(n - 1)
            /\ m \in 1..(Counters - 2)
        <5>1. from < n /\ k = over + n - 1 - from /\ k >= 4
          BY <1>1, <2>2, <2>3, <4>1
        <5>2. half >= 2 /\ from + 2 + half <= n
          <6>1. CASE over = 0
            BY <1>1, <2>2, <4>2, <5>1, <6>1
          <6>2. CASE over = 1
            BY <1>1, <2>2, <4>2, <5>1, <6>2
          <6>. QED BY <2>2, <6>1, <6>2
        <5>3. from \in Nat /\ half \in Nat /\ n \in Nat /\ Counters \in Nat /\ n < Counters
          BY <1>1, <2>2, <4>2
        <5>. HIDE DEF m
        <5>4. m \in Int /\ m >= from + 1 /\ m <= n - 3
          BY <5>2, <5>3 DEF m
        <5>. QED BY <5>3, <5>4
      <4>4. m # 0 /\ lane'.mean = m
        BY <1>1, <1>3, <3>1, <4>2, <4>3
      <4>5. Margin(m)'
        <5>1. \A i \in from..(n - 1) : Passed(i)'
          BY <1>1, <1>7, <2>2
        <5>. QED BY <4>3, <5>1 DEF Margin
      <4>. QED BY <4>4, <4>5
    <3>2. CASE ~ long
      <4>1. lane'.mean = 0
        BY <1>3, <1>10, <3>2
      <4>2. lane.pass < 4 /\ (k >= 4 => ~ lane.prev)
        <5>1. p = lane.pass
          BY <1>4, <2>6
        <5>2. k >= 4 => ~ lane.prev
          BY <1>10, <2>6, <3>2 DEF long
        <5>3. CASE lane.pass >= 4
          <6>1. k = lane.pass /\ from < n
            BY <1>1, <1>4, <2>2, <5>1, <5>3
          <6>. QED BY <2>3, <5>2, <5>3, <6>1
        <5>4. CASE ~ (lane.pass >= 4)
          BY <1>4, <5>1, <5>2, <5>4
        <5>. QED BY <5>3, <5>4
      <4>3. k \in {0, 1} /\ (k = 1 => n + 1 = 3)
        <5>1. p = lane.pass /\ k = IF p < 4 /\ n > 2 THEN 0 ELSE p
          BY <1>4, <2>6
        <5>2. n > 2 \/ (lane.pass \in {0, 1} /\ (lane.pass = 1 => n = 2))
          <6>1. /\ from \in Nat /\ n \in Nat /\ over \in {0, 1} /\ from <= n
                /\ over = 1 => from = 3
                /\ lane.pass = over + (IF from < n THEN n - 1 - from ELSE 0)
            BY <1>1, <2>2
          <6>. QED BY <6>1
        <5>3. n \in Nat
          BY <1>1
        <5>. QED BY <4>2, <5>1, <5>2, <5>3
      <4>4. ASSUME NEW i \in 0..(Counters - 5), \A j \in i..(i + 4) : Passed(j)'
            PROVE  FALSE
        <5>1. \A j \in i..(i + 4) : Passed(j)
          BY <1>1, <1>2, <1>7, <2>6, <4>4
        <5>2. from <= i /\ i + 4 < n
          BY <2>4, <5>1
        <5>. QED BY <1>1, <2>2, <4>2, <5>2
      <4>. PICK over2 : over2 = k
        OBVIOUS
      <4>5. RowFrom(n + 1, over2)'
        <5>1. \A i \in (n + 1)..((n + 1) - 1) : Passed(i)'
          BY <1>1
        <5>2. ~ Passed((n + 1) - 1)'
          BY <1>1, <1>2, <2>6
        <5>3. lane'.pass = over2 + (IF n + 1 < n + 1 THEN (n + 1) - 1 - (n + 1) ELSE 0)
          BY <1>1, <1>3, <1>4
        <5>4. over2 = 1 => n + 1 = 3
          BY <4>3
        <5>5. \A i \in 0..(Counters - 5) :
                (\A j \in i..(i + 4) : Passed(j)') => n + 1 <= i /\ n + 1 < Counters
          BY <4>4
        <5>. QED BY <1>1, <5>1, <5>2, <5>3, <5>4, <5>5 DEF RowFrom, Run
      <4>6. n + 1 \in 0..(n + 1)
        BY <1>1
      <4>. QED BY <4>1, <4>3, <4>5, <4>6
    <3>. QED BY <3>1, <3>2
  <2>. QED BY <2>5, <2>6
<1>. QED BY <1>9, <1>10
-----------------------------------------------------------------------------
(* The inductive invariant. *)

PllLabels == {"bypass", "reset", "run", "lock", "use"}
PhyLabels == {"phyPll", "phyPllWait", "init", "initWait", "train", "trainWait",
              "vref", "vrefWait", "eye", "eyeWait"}
CalibLabels == {"calibrate", "calibrateWait", "choose"}
LaneLabels == {"lanes", "search", "done"}

Typed ==
  /\ pc \in PllLabels \cup PhyLabels \cup CalibLabels \cup LaneLabels
  /\ status \in BOOLEAN /\ pll \in Plls /\ withDdr \in BOOLEAN
  /\ pllRetry \in 0..PllRetries /\ (pc = "phyPllWait" => pllRetry > 0) /\ pllLocked \in BOOLEAN
  /\ bypassed \subseteq Plls /\ inReset \subseteq Plls /\ locked \subseteq Plls
  /\ gaveUp \subseteq Plls
  /\ phyRun \in {"none", "pll", "init", "train", "vref", "eye"}
  /\ completed \subseteq {"pll", "init", "train", "vref", "eye"}
  /\ phyBusy \in BOOLEAN /\ phyOk \in BOOLEAN /\ phyRefresh \in BOOLEAN /\ staticRead \in BOOLEAN
  /\ autoRefresh \in BOOLEAN

(* A PLL that is not bypassed runs, and its lock was waited for. *)
PllInv ==
  /\ \A p \in Plls \ bypassed : p \notin inReset /\ p \in locked \cup gaveUp
  /\ pc \in {"reset", "run", "lock", "use"} => pll \in bypassed
  /\ pc \in {"lock", "use"} => pll \notin inReset
  /\ pc = "use" => pll \in locked \cup gaveUp

(* The labels that wait for the PHY, and for what. *)
Awaits(label, run) ==
  \/ label = "phyPllWait" /\ run = "pll"
  \/ label = "initWait" /\ run = "init"
  \/ label = "trainWait" /\ run = "train"
  \/ label = "vrefWait" /\ run = "vref"
  \/ label = "eyeWait" /\ run = "eye"

(* What the PHY has completed grows with the label. *)
PhyInv ==
  /\ phyBusy \/ pc \in {"phyPllWait", "initWait", "trainWait", "vrefWait", "eyeWait"}
       => Awaits(pc, phyRun)
  /\ ~ phyBusy /\ phyOk => phyRun \in completed
  /\ pllLocked => "pll" \in completed
  /\ pc \in PhyLabels \ {"phyPll", "phyPllWait"} => "pll" \in completed
  /\ pc \in {"vref", "vrefWait", "eye", "eyeWait"} => "train" \in completed
  /\ pc \in {"eye", "eyeWait"} => "vref" \in completed
  /\ pc \in CalibLabels \cup LaneLabels /\ status /\ withDdr =>
       {"pll", "train", "vref"} \subseteq completed /\ autoRefresh
  /\ \/ phyRefresh /\ ~ staticRead
     \/ pc = "vrefWait"
     \/ pc \in CalibLabels \cup LaneLabels /\ ~ status

(* The counts are those of the codes measured, and the codes chosen are valid. *)
CalibInv ==
  /\ repeatCount \in 0..(Repeats + 1) /\ (pc \in {"calibrate", "calibrateWait"} \cup PllLabels
                                             \cup PhyLabels => repeatCount <= Repeats)
  /\ DOMAIN match = Kinds /\ \A k \in Kinds : match[k] \in [0..(ValidCodes[k] - 1) -> Nat]
  /\ code \in [Kinds -> Nat] /\ reading \in [Kinds -> Nat] /\ calibDone \in BOOLEAN
  /\ measured \in Seq([Kinds -> Nat])
  /\ pc \notin LaneLabels =>
       \A k \in Kinds : \A c \in 0..(ValidCodes[k] - 1) : match[k][c] = Times(k, c)
  /\ pc \in LaneLabels /\ status => \A k \in Kinds : code[k] < ValidCodes[k]
  /\ pc \notin LaneLabels => code = ValidCodes
  /\ MostFrequentCode

SearchTypeOK ==
  /\ search \in 1..(Len(Searches) + 1) /\ itercount \in 0..Counters
  /\ lane \in Lane /\ lane.pass <= itercount
  /\ DOMAIN setting = DOMAIN Searches /\ results \in Seq(BOOLEAN)
  /\ pc = "search" => search <= Len(Searches) /\ itercount = Len(results)
  /\ pc \notin LaneLabels => search = 1

PsuInv == Typed /\ PllInv /\ PhyInv /\ CalibInv /\ SearchTypeOK

(* What a search leaves; the counters are as many as a lane has at least nine. *)
MarginInv == LaneInv /\ SettingHasMargin
-----------------------------------------------------------------------------
(* The steps keep it. *)

LEMMA TypedKept ==
  ASSUME Typed, PhyInv, [Next]_vars
  PROVE  Typed'
<1>. USE DEF Goto, Fail, StartPhy, progVars, pllVars, phyVars, calibVars, searchVars,
            PllLabels, PhyLabels, CalibLabels, LaneLabels, Typed
<1>1. CASE BypassPll
  BY <1>1 DEF BypassPll
<1>2. CASE ResetPll
  BY <1>2 DEF ResetPll
<1>3. CASE RunPll
  BY <1>3 DEF RunPll
<1>4. CASE PollPllLock
  BY <1>4 DEF PollPllLock
<1>5. CASE UsePll
  <2>1. pll' \in Plls
    BY <1>5, BoundsAssumption DEF UsePll, InitDdr, Plls
  <2>2. /\ pc' \in {"bypass", "phyPll", "calibrate"} /\ autoRefresh' \in BOOLEAN
        /\ bypassed' \subseteq Plls
        /\ UNCHANGED <<status, withDdr, inReset, locked, gaveUp, pllRetry, pllLocked, phyRun,
                       phyBusy, phyOk, phyRefresh, staticRead, completed>>
    BY <1>5 DEF UsePll, InitDdr
  <2>. QED BY <2>1, <2>2
<1>6. CASE LockPhyPlls
  <2>1. CASE pllRetry > 0 /\ ~pllLocked
    BY <1>6, <2>1 DEF LockPhyPlls
  <2>2. CASE ~(pllRetry > 0 /\ ~pllLocked)
    <3>1. /\ pc' \in {"init", "calibrate"} /\ status' \in BOOLEAN
          /\ UNCHANGED <<pll, withDdr, pllRetry, pllLocked, bypassed, inReset, locked, gaveUp,
                        phyRun, completed, phyBusy, phyOk, phyRefresh, staticRead, autoRefresh>>
      BY <1>6, <2>2 DEF LockPhyPlls
    <3>. QED BY <3>1
  <2>. QED BY <2>1, <2>2
<1>7. CASE ReadPhyLocks
  <2>1. pllRetry - 1 \in 0..PllRetries
    BY <1>7, BoundsAssumption DEF ReadPhyLocks
  <2>2. /\ pllRetry' \in 0..PllRetries /\ pc' = "phyPll" /\ pllLocked' = phyOk
        /\ UNCHANGED <<status, pll, withDdr, bypassed, inReset, locked, gaveUp, phyRun, completed,
                       phyBusy, phyOk, phyRefresh, staticRead, autoRefresh>>
    BY <1>7, <2>1 DEF ReadPhyLocks
  <2>. QED BY <2>2
<1>8. CASE StartInit
  BY <1>8 DEF StartInit
<1>9. CASE EndInit
  BY <1>9 DEF EndInit
<1>10. CASE StartTraining
  BY <1>10 DEF StartTraining
<1>11. CASE EndTraining
  BY <1>11 DEF EndTraining
<1>12. CASE StartVref
  BY <1>12 DEF StartVref
<1>13. CASE EndVref
  BY <1>13 DEF EndVref
<1>14. CASE StartEye
  BY <1>14 DEF StartEye
<1>15. CASE EndEye
  BY <1>15 DEF EndEye
<1>16. CASE StartCalibration
  BY <1>16 DEF StartCalibration
<1>17. CASE CalibrationTimesOut
  BY <1>17 DEF CalibrationTimesOut
<1>18. CASE ReadCodes
  BY <1>18 DEF ReadCodes
<1>19. CASE ChooseCodes
  BY <1>19 DEF ChooseCodes
<1>20. CASE StartSearch
  BY <1>20 DEF StartSearch
<1>21. CASE TestCounter
  BY <1>21 DEF TestCounter
<1>22. CASE EndSearch
  BY <1>22 DEF EndSearch
<1>23. CASE InitLanes
  BY <1>23 DEF InitLanes
<1>24. CASE PllLocks
  BY <1>24 DEF PllLocks
<1>25. CASE PhyFinishes
  <2>1. phyRun # "none"
    BY <1>25 DEF PhyFinishes, PhyInv, Awaits
  <2>2. /\ completed' \subseteq completed \cup {phyRun} /\ phyBusy' = FALSE /\ phyOk' \in BOOLEAN
        /\ UNCHANGED <<progVars, pllVars, pllRetry, pllLocked, phyRun, phyRefresh, staticRead,
                       autoRefresh>>
    BY <1>25 DEF PhyFinishes
  <2>3. completed' \subseteq {"pll", "init", "train", "vref", "eye"}
    BY <2>1, <2>2
  <2>4. /\ pc' = pc /\ status' = status /\ pll' = pll /\ withDdr' = withDdr
        /\ pllRetry' = pllRetry /\ pllLocked' = pllLocked /\ bypassed' = bypassed
        /\ inReset' = inReset /\ locked' = locked /\ gaveUp' = gaveUp /\ phyRun' = phyRun
        /\ phyRefresh' = phyRefresh /\ staticRead' = staticRead /\ autoRefresh' = autoRefresh
    BY <2>2
  <2>5. phyBusy' \in BOOLEAN /\ phyOk' \in BOOLEAN
    BY <2>2
  <2>. HIDE DEF PllLabels, PhyLabels, CalibLabels, LaneLabels
  <2>. QED BY <2>3, <2>4, <2>5
<1>26. CASE LaneCalibrates
  BY <1>26 DEF LaneCalibrates
<1>27. CASE UNCHANGED vars
  BY <1>27 DEF vars
<1>. QED BY <1>1, <1>2, <1>3, <1>4, <1>5, <1>6, <1>7, <1>8, <1>9, <1>10, <1>11, <1>12, <1>13,
            <1>14, <1>15, <1>16, <1>17, <1>18, <1>19, <1>20, <1>21, <1>22, <1>23, <1>24, <1>25,
            <1>26, <1>27, Zenon DEF Next, PsuStep

LEMMA PllKept ==
  ASSUME Typed, PllInv, [Next]_vars
  PROVE  PllInv'
<1>. USE DEF Goto, Fail, StartPhy, progVars, pllVars, phyVars, calibVars, searchVars,
            PllLabels, PhyLabels, CalibLabels, LaneLabels,
            Typed, PllInv
<1>1. CASE BypassPll
  BY <1>1 DEF BypassPll
<1>2. CASE ResetPll
  BY <1>2 DEF ResetPll
<1>3. CASE RunPll
  BY <1>3 DEF RunPll
<1>4. CASE PollPllLock
  BY <1>4 DEF PollPllLock
<1>5. CASE UsePll
  BY <1>5 DEF UsePll, InitDdr
<1>6. CASE LockPhyPlls
  BY <1>6 DEF LockPhyPlls
<1>7. CASE ReadPhyLocks
  BY <1>7 DEF ReadPhyLocks
<1>8. CASE StartInit
  BY <1>8 DEF StartInit
<1>9. CASE EndInit
  BY <1>9 DEF EndInit
<1>10. CASE StartTraining
  BY <1>10 DEF StartTraining
<1>11. CASE EndTraining
  BY <1>11 DEF EndTraining
<1>12. CASE StartVref
  BY <1>12 DEF StartVref
<1>13. CASE EndVref
  BY <1>13 DEF EndVref
<1>14. CASE StartEye
  BY <1>14 DEF StartEye
<1>15. CASE EndEye
  BY <1>15 DEF EndEye
<1>16. CASE StartCalibration
  BY <1>16 DEF StartCalibration
<1>17. CASE CalibrationTimesOut
  BY <1>17 DEF CalibrationTimesOut
<1>18. CASE ReadCodes
  BY <1>18 DEF ReadCodes
<1>19. CASE ChooseCodes
  BY <1>19 DEF ChooseCodes
<1>20. CASE StartSearch
  BY <1>20 DEF StartSearch
<1>21. CASE TestCounter
  BY <1>21 DEF TestCounter
<1>22. CASE EndSearch
  BY <1>22 DEF EndSearch
<1>23. CASE InitLanes
  BY <1>23 DEF InitLanes
<1>24. CASE PllLocks
  BY <1>24 DEF PllLocks
<1>25. CASE PhyFinishes
  BY <1>25 DEF PhyFinishes
<1>26. CASE LaneCalibrates
  BY <1>26 DEF LaneCalibrates
<1>27. CASE UNCHANGED vars
  BY <1>27 DEF vars
<1>. QED BY <1>1, <1>2, <1>3, <1>4, <1>5, <1>6, <1>7, <1>8, <1>9, <1>10, <1>11, <1>12, <1>13,
            <1>14, <1>15, <1>16, <1>17, <1>18, <1>19, <1>20, <1>21, <1>22, <1>23, <1>24, <1>25,
            <1>26, <1>27, Zenon DEF Next, PsuStep

LEMMA PhyKept ==
  ASSUME Typed, PhyInv, [Next]_vars
  PROVE  PhyInv'
<1>. USE DEF Goto, Fail, StartPhy, progVars, pllVars, phyVars, calibVars, searchVars,
            PllLabels, PhyLabels, CalibLabels, LaneLabels,
            Typed, PhyInv, Awaits
<1>1. CASE BypassPll
  BY <1>1 DEF BypassPll
<1>2. CASE ResetPll
  BY <1>2 DEF ResetPll
<1>3. CASE RunPll
  BY <1>3 DEF RunPll
<1>4. CASE PollPllLock
  BY <1>4 DEF PollPllLock
<1>5. CASE UsePll
  BY <1>5 DEF UsePll, InitDdr
<1>6. CASE LockPhyPlls
  <2>1. pc = "phyPll" /\ ~ phyBusy
    BY <1>6 DEF LockPhyPlls
  <2>2. CASE pllRetry > 0 /\ ~ pllLocked
    BY <1>6, <2>1, <2>2 DEF LockPhyPlls
  <2>3. CASE ~ (pllRetry > 0 /\ ~ pllLocked)
    <3>1. \/ pllLocked /\ pc' = "init" /\ status' = status
          \/ ~ pllLocked /\ pc' = "calibrate" /\ status' = FALSE
      BY <1>6, <2>3 DEF LockPhyPlls
    <3>2. /\ withDdr' = withDdr /\ pllLocked' = pllLocked /\ phyRun' = phyRun
          /\ phyBusy' = phyBusy /\ phyOk' = phyOk /\ phyRefresh' = phyRefresh
          /\ staticRead' = staticRead /\ autoRefresh' = autoRefresh /\ completed' = completed
      BY <1>6, <2>3 DEF LockPhyPlls
    <3>. QED BY <2>1, <3>1, <3>2
  <2>. QED BY <2>2, <2>3
<1>7. CASE ReadPhyLocks
  BY <1>7 DEF ReadPhyLocks
<1>8. CASE StartInit
  BY <1>8 DEF StartInit
<1>9. CASE EndInit
  BY <1>9 DEF EndInit
<1>10. CASE StartTraining
  BY <1>10 DEF StartTraining
<1>11. CASE EndTraining
  BY <1>11 DEF EndTraining
<1>12. CASE StartVref
  BY <1>12 DEF StartVref
<1>13. CASE EndVref
  BY <1>13 DEF EndVref
<1>14. CASE StartEye
  BY <1>14 DEF StartEye
<1>15. CASE EndEye
  BY <1>15 DEF EndEye
<1>16. CASE StartCalibration
  BY <1>16 DEF StartCalibration
<1>17. CASE CalibrationTimesOut
  BY <1>17 DEF CalibrationTimesOut
<1>18. CASE ReadCodes
  BY <1>18 DEF ReadCodes
<1>19. CASE ChooseCodes
  BY <1>19 DEF ChooseCodes
<1>20. CASE StartSearch
  BY <1>20 DEF StartSearch
<1>21. CASE TestCounter
  BY <1>21 DEF TestCounter
<1>22. CASE EndSearch
  BY <1>22 DEF EndSearch
<1>23. CASE InitLanes
  BY <1>23 DEF InitLanes
<1>24. CASE PllLocks
  BY <1>24 DEF PllLocks
<1>25. CASE PhyFinishes
  BY <1>25 DEF PhyFinishes
<1>26. CASE LaneCalibrates
  BY <1>26 DEF LaneCalibrates
<1>27. CASE UNCHANGED vars
  BY <1>27 DEF vars
<1>. QED BY <1>1, <1>2, <1>3, <1>4, <1>5, <1>6, <1>7, <1>8, <1>9, <1>10, <1>11, <1>12, <1>13,
            <1>14, <1>15, <1>16, <1>17, <1>18, <1>19, <1>20, <1>21, <1>22, <1>23, <1>24, <1>25,
            <1>26, <1>27, Zenon DEF Next, PsuStep

-----------------------------------------------------------------------------
(* The calibration. *)

(* The places where another calibration may follow. *)
BeforeChoice == {"calibrate", "calibrateWait"} \cup PllLabels \cup PhyLabels

LEMMA CalibFrame ==
  ASSUME CalibInv, UNCHANGED calibVars,
         pc' \in LaneLabels => pc \in LaneLabels /\ status' = status,
         pc \in LaneLabels => pc' \in LaneLabels,
         pc' \in BeforeChoice => pc \in BeforeChoice,
         pc' = "lanes" /\ search' = 1 => pc = "lanes" /\ search = 1
  PROVE  CalibInv'
<1>1. /\ repeatCount' = repeatCount /\ match' = match /\ code' = code /\ calibDone' = calibDone
      /\ reading' = reading /\ measured' = measured
  BY DEF calibVars
<1>2. \A k, c : Times(k, c)' = Times(k, c)
  BY <1>1 DEF Times
<1>3. MostFrequentCode'
  <2>. SUFFICES ASSUME pc' = "lanes", search' = 1, NEW k \in Kinds, code'[k] < ValidCodes[k],
                       NEW c \in 0..(ValidCodes[k] - 1)
                PROVE  Times(k, c)' <= Times(k, code[k])'
    BY DEF MostFrequentCode
  <2>1. Times(k, c) <= Times(k, code[k])
    BY <1>1 DEF CalibInv, MostFrequentCode
  <2>2. Times(k, code[k])' = Times(k, code[k])
    BY <1>1 DEF Times
  <2>. QED BY <1>2, <2>1, <2>2
<1>4. /\ repeatCount' \in 0..(Repeats + 1)
      /\ pc' \in {"calibrate", "calibrateWait"} \cup PllLabels \cup PhyLabels
           => repeatCount' <= Repeats
  BY <1>1 DEF CalibInv, BeforeChoice
<1>5. /\ DOMAIN match' = Kinds /\ \A k \in Kinds : match'[k] \in [0..(ValidCodes[k] - 1) -> Nat]
      /\ code' \in [Kinds -> Nat] /\ reading' \in [Kinds -> Nat] /\ calibDone' \in BOOLEAN
      /\ measured' \in Seq([Kinds -> Nat])
  BY <1>1 DEF CalibInv
<1>6. /\ pc' \notin LaneLabels =>
           \A k \in Kinds : \A c \in 0..(ValidCodes[k] - 1) : match'[k][c] = Times(k, c)'
      /\ pc' \in LaneLabels /\ status' => \A k \in Kinds : code'[k] < ValidCodes[k]
      /\ pc' \notin LaneLabels => code' = ValidCodes
  BY <1>1, <1>2 DEF CalibInv
<1>. QED BY <1>3, <1>4, <1>5, <1>6 DEF CalibInv

(* Everything but the calibration itself leaves it alone. *)
Calibrates ==
  \/ StartCalibration \/ CalibrationTimesOut \/ ReadCodes \/ ChooseCodes \/ LaneCalibrates
  \/ StartSearch

LEMMA OthersLeaveCalibration ==
  ASSUME Typed, SearchTypeOK, [Next]_vars, ~ Calibrates
  PROVE  /\ UNCHANGED calibVars
         /\ pc' \in LaneLabels => pc \in LaneLabels /\ status' = status
         /\ pc \in LaneLabels => pc' \in LaneLabels
         /\ pc' \in BeforeChoice => pc \in BeforeChoice
         /\ pc' = "lanes" /\ search' = 1 => pc = "lanes" /\ search = 1
<1>. USE DEF Goto, Fail, StartPhy, progVars, pllVars, phyVars, calibVars, searchVars,
            PllLabels, PhyLabels, CalibLabels, LaneLabels, BeforeChoice
<1>1. CASE BypassPll
  BY <1>1 DEF BypassPll
<1>2. CASE ResetPll
  BY <1>2 DEF ResetPll
<1>3. CASE RunPll
  BY <1>3 DEF RunPll
<1>4. CASE PollPllLock
  BY <1>4 DEF PollPllLock
<1>5. CASE UsePll
  BY <1>5 DEF UsePll, InitDdr
<1>6. CASE LockPhyPlls
  BY <1>6 DEF LockPhyPlls
<1>7. CASE ReadPhyLocks
  BY <1>7 DEF ReadPhyLocks
<1>8. CASE StartInit
  BY <1>8 DEF StartInit
<1>9. CASE EndInit
  BY <1>9 DEF EndInit
<1>10. CASE StartTraining
  BY <1>10 DEF StartTraining
<1>11. CASE EndTraining
  BY <1>11 DEF EndTraining
<1>12. CASE StartVref
  BY <1>12 DEF StartVref
<1>13. CASE EndVref
  BY <1>13 DEF EndVref
<1>14. CASE StartEye
  BY <1>14 DEF StartEye
<1>15. CASE EndEye
  BY <1>15 DEF EndEye
<1>16. CASE TestCounter
  BY <1>16 DEF TestCounter
<1>17. CASE EndSearch
  <2>1. search' # 1
    BY <1>17 DEF EndSearch, SearchTypeOK
  <2>. QED BY <1>17, <2>1 DEF EndSearch
<1>18. CASE InitLanes
  BY <1>18 DEF InitLanes
<1>19. CASE PllLocks
  BY <1>19 DEF PllLocks
<1>20. CASE PhyFinishes
  BY <1>20 DEF PhyFinishes
<1>21. CASE UNCHANGED vars
  BY <1>21 DEF vars
<1>. QED BY <1>1, <1>2, <1>3, <1>4, <1>5, <1>6, <1>7, <1>8, <1>9, <1>10, <1>11, <1>12, <1>13,
            <1>14, <1>15, <1>16, <1>17, <1>18, <1>19, <1>20, <1>21, Zenon
            DEF Next, PsuStep, Calibrates

(* The codes are chosen, from counts that are right. *)
LEMMA CodesAreChosen ==
  ASSUME CalibInv, SearchTypeOK, ChooseCodes
  PROVE  CalibInv'
<1>1. /\ pc = "choose" /\ pc' = "lanes" /\ search' = search /\ status' = status
      /\ code' = [k \in Kinds |-> FindCode(match[k], ValidCodes[k])] /\ match' = NoMatches
      /\ repeatCount' = repeatCount /\ calibDone' = calibDone /\ reading' = reading
      /\ measured' = measured
  BY DEF ChooseCodes, Goto, searchVars
<1>2. ASSUME NEW k \in Kinds
      PROVE  /\ ValidCodes[k] \in Nat \ {0} /\ match[k] \in [0..(ValidCodes[k] - 1) -> Nat]
             /\ code'[k] \in 0..(ValidCodes[k] - 1)
             /\ \A c \in 0..(ValidCodes[k] - 1) : match[k][c] <= match[k][code'[k]]
  <2>1. ValidCodes[k] \in Nat \ {0} /\ match[k] \in [0..(ValidCodes[k] - 1) -> Nat]
    BY CodesAssumption DEF CalibInv
  <2>2. PICK c : c = FindCode(match[k], ValidCodes[k])
    OBVIOUS
  <2>3. c \in 0..(ValidCodes[k] - 1) /\ \A d \in 0..(ValidCodes[k] - 1) : match[k][d] <= match[k][c]
    BY <2>1, <2>2, FindCodeIs
  <2>4. code'[k] = c
    BY <1>1, <2>2
  <2>. QED BY <2>1, <2>3, <2>4
<1>3. \A k, c : Times(k, c)' = Times(k, c)
  BY <1>1 DEF Times
<1>4. MostFrequentCode'
  <2>. SUFFICES ASSUME NEW k \in Kinds, NEW c \in 0..(ValidCodes[k] - 1)
                PROVE  Times(k, c)' <= Times(k, code[k])'
    BY DEF MostFrequentCode
  <2>1. PICK d : d = code'[k]
    OBVIOUS
  <2>2. Times(k, code[k])' = Times(k, d)'
    BY <2>1 DEF Times
  <2>3. match[k][c] = Times(k, c) /\ match[k][d] = Times(k, d)
    BY <1>1, <1>2, <2>1 DEF CalibInv, LaneLabels
  <2>. QED BY <1>2, <1>3, <2>1, <2>2, <2>3
<1>5. \A k \in Kinds : match'[k] \in [0..(ValidCodes[k] - 1) -> Nat]
  BY <1>1 DEF NoMatches
<1>6. DOMAIN match' = Kinds
  BY <1>1 DEF NoMatches
<1>7. code' \in [Kinds -> Nat] /\ \A k \in Kinds : code'[k] < ValidCodes[k]
  <2>1. \A k \in Kinds : FindCode(match[k], ValidCodes[k]) \in Nat
    BY <1>1, <1>2
  <2>. QED BY <1>1, <1>2, <2>1
<1>. QED BY <1>1, <1>4, <1>5, <1>6, <1>7
     DEF CalibInv, LaneLabels, PllLabels, PhyLabels

LEMMA CodesAreRead ==
  ASSUME CalibInv, SearchTypeOK, ReadCodes
  PROVE  CalibInv'
<1>1. /\ pc = "calibrateWait" /\ pc' \in {"calibrate", "choose"} /\ code' = code
      /\ pc' = "calibrate" => repeatCount < Repeats
      /\ match' = [k \in Kinds |-> Counted(k)] /\ repeatCount' = repeatCount + 1
      /\ measured' = Append(measured, reading)
      /\ calibDone' = calibDone /\ reading' = reading
  BY DEF ReadCodes, Goto, searchVars
<1>2. /\ measured \in Seq([Kinds -> Nat]) /\ reading \in [Kinds -> Nat]
      /\ measured' \in Seq([Kinds -> Nat])
  BY <1>1 DEF CalibInv
<1>3. ASSUME NEW k \in Kinds
      PROVE  /\ match'[k] \in [0..(ValidCodes[k] - 1) -> Nat]
             /\ \A c \in 0..(ValidCodes[k] - 1) : match'[k][c] = Times(k, c)'
  <2>1. match[k] \in [0..(ValidCodes[k] - 1) -> Nat]
    BY DEF CalibInv
  <2>2. match'[k] = [c \in 0..(ValidCodes[k] - 1) |-> match[k][c] + IF reading[k] = c THEN 1 ELSE 0]
    BY <1>1, <2>1 DEF Counted
  <2>3. ASSUME NEW c \in 0..(ValidCodes[k] - 1)
        PROVE  match'[k][c] \in Nat /\ match'[k][c] = Times(k, c)'
    <3>1. match[k][c] = Times(k, c) /\ match[k][c] \in Nat
      BY <1>1, <2>1 DEF CalibInv, LaneLabels
    <3>2. Times(k, c)' = Times(k, c) + IF reading[k] = c THEN 1 ELSE 0
      BY <1>1, <1>2, OneMoreIsMeasured
    <3>3. match'[k][c] = match[k][c] + IF reading[k] = c THEN 1 ELSE 0
      BY <2>2
    <3>. QED BY <3>1, <3>2, <3>3
  <2>4. match'[k] \in [0..(ValidCodes[k] - 1) -> Nat]
    <3>. DEFINE val(c) == match[k][c] + IF reading[k] = c THEN 1 ELSE 0
    <3>1. match'[k] = [c \in 0..(ValidCodes[k] - 1) |-> val(c)]
      BY <2>2
    <3>2. \A c \in 0..(ValidCodes[k] - 1) : match'[k][c] = val(c)
      BY <3>1
    <3>. HIDE DEF val
    <3>3. \A c \in 0..(ValidCodes[k] - 1) : val(c) \in Nat
      BY <2>3, <3>2
    <3>. QED BY <3>1, <3>3
  <2>. QED BY <2>3, <2>4
<1>4. DOMAIN match' = Kinds
  BY <1>1
<1>5. repeatCount' \in 0..(Repeats + 1) /\ (pc' = "calibrate" => repeatCount' <= Repeats)
  <2>1. repeatCount <= Repeats /\ repeatCount \in Nat
    BY <1>1, BoundsAssumption DEF CalibInv
  <2>. QED BY <1>1, <2>1, BoundsAssumption
<1>6. /\ code' \in [Kinds -> Nat] /\ reading' \in [Kinds -> Nat] /\ calibDone' \in BOOLEAN
      /\ code' = ValidCodes
  BY <1>1 DEF CalibInv, LaneLabels
<1>7. /\ pc' \notin LaneLabels /\ pc' # "lanes"
      /\ pc' \in {"calibrate", "calibrateWait"} \cup PllLabels \cup PhyLabels => pc' = "calibrate"
  BY <1>1 DEF LaneLabels, PllLabels, PhyLabels
<1>8. MostFrequentCode'
  BY <1>7 DEF MostFrequentCode
<1>. QED BY <1>2, <1>3, <1>4, <1>5, <1>6, <1>7, <1>8 DEF CalibInv

LEMMA CalibKept ==
  ASSUME Typed, CalibInv, SearchTypeOK, [Next]_vars
  PROVE  CalibInv'
<1>1. CASE ~ Calibrates
  BY <1>1, OthersLeaveCalibration, CalibFrame
<1>2. CASE StartCalibration
  <2>1. /\ pc = "calibrate" /\ pc' = "calibrateWait" /\ calibDone' = FALSE
        /\ UNCHANGED <<status, search, repeatCount, match, code, reading, measured>>
    BY <1>2 DEF StartCalibration, Goto, searchVars
  <2>2. \A k, c : Times(k, c)' = Times(k, c)
    BY <2>1 DEF Times
  <2>. QED BY <2>1, <2>2 DEF CalibInv, MostFrequentCode, LaneLabels
<1>3. CASE CalibrationTimesOut
  <2>1. /\ pc = "calibrateWait" /\ pc' = "lanes" /\ status' = FALSE
        /\ UNCHANGED <<search, repeatCount, match, code, calibDone, reading, measured>>
    BY <1>3 DEF CalibrationTimesOut, Fail, calibVars, searchVars
  <2>2. code' = ValidCodes
    BY <2>1 DEF CalibInv, LaneLabels
  <2>3. MostFrequentCode'
    <3>1. \A k \in Kinds : ~ (code'[k] < ValidCodes[k])
      BY <2>2, CodesAssumption
    <3>. QED BY <3>1 DEF MostFrequentCode
  <2>. QED BY <2>1, <2>3 DEF CalibInv, LaneLabels, PllLabels, PhyLabels
<1>4. CASE ReadCodes
  BY <1>4, CodesAreRead
<1>5. CASE ChooseCodes
  BY <1>5, CodesAreChosen
<1>6. CASE LaneCalibrates
  <2>1. /\ pc = "calibrateWait" /\ pc' = pc /\ calibDone' = TRUE
        /\ UNCHANGED <<status, search, repeatCount, match, code, measured>>
    BY <1>6 DEF LaneCalibrates, progVars, searchVars
  <2>2. reading' \in [Kinds -> Nat]
    <3>1. UNION {0..ValidCodes[k] : k \in Kinds} \subseteq Nat
      BY CodesAssumption
    <3>. QED BY <1>6, <3>1 DEF LaneCalibrates
  <2>3. \A k, c : Times(k, c)' = Times(k, c)
    BY <2>1 DEF Times
  <2>. QED BY <2>1, <2>2, <2>3 DEF CalibInv, MostFrequentCode, LaneLabels
<1>7. CASE StartSearch
  <2>1. /\ pc = "lanes" /\ pc' = "search" /\ status' = status /\ measured' = <<>>
        /\ UNCHANGED <<search, repeatCount, match, code, calibDone, reading>>
    BY <1>7 DEF StartSearch, Goto
  <2>2. measured' \in Seq([Kinds -> Nat])
    BY <2>1
  <2>. QED BY <2>1, <2>2 DEF CalibInv, MostFrequentCode, LaneLabels, PllLabels, PhyLabels
<1>. QED BY <1>1, <1>2, <1>3, <1>4, <1>5, <1>6, <1>7, Zenon DEF Calibrates

-----------------------------------------------------------------------------
(* The searches. *)

(* The steps that are not of a search. *)
LEMMA OthersLeaveSearch ==
  ASSUME Typed, SearchTypeOK, [Next]_vars,
         ~ (StartSearch \/ TestCounter \/ EndSearch)
  PROVE  /\ UNCHANGED searchVars
         /\ pc' = "search" => pc = "search"
         /\ pc \in LaneLabels => pc' \in LaneLabels
         /\ pc' = "lanes" => pc = "lanes" \/ search = 1
         /\ pc' \notin LaneLabels => pc \notin LaneLabels
<1>. USE DEF Goto, Fail, StartPhy, progVars, pllVars, phyVars, calibVars, searchVars,
            PllLabels, PhyLabels, CalibLabels, LaneLabels
<1>1. CASE BypassPll
  BY <1>1 DEF BypassPll
<1>2. CASE ResetPll
  BY <1>2 DEF ResetPll
<1>3. CASE RunPll
  BY <1>3 DEF RunPll
<1>4. CASE PollPllLock
  BY <1>4 DEF PollPllLock
<1>5. CASE UsePll
  BY <1>5 DEF UsePll, InitDdr
<1>6. CASE LockPhyPlls
  BY <1>6 DEF LockPhyPlls
<1>7. CASE ReadPhyLocks
  BY <1>7 DEF ReadPhyLocks
<1>8. CASE StartInit
  BY <1>8 DEF StartInit
<1>9. CASE EndInit
  BY <1>9 DEF EndInit
<1>10. CASE StartTraining
  BY <1>10 DEF StartTraining
<1>11. CASE EndTraining
  BY <1>11 DEF EndTraining
<1>12. CASE StartVref
  BY <1>12 DEF StartVref
<1>13. CASE EndVref
  BY <1>13 DEF EndVref
<1>14. CASE StartEye
  BY <1>14 DEF StartEye
<1>15. CASE EndEye
  BY <1>15 DEF EndEye
<1>16. CASE StartCalibration
  BY <1>16 DEF StartCalibration
<1>17. CASE CalibrationTimesOut
  BY <1>17 DEF CalibrationTimesOut, SearchTypeOK
<1>18. CASE ReadCodes
  BY <1>18 DEF ReadCodes
<1>19. CASE ChooseCodes
  BY <1>19 DEF ChooseCodes, SearchTypeOK
<1>20. CASE InitLanes
  BY <1>20 DEF InitLanes
<1>21. CASE PllLocks
  BY <1>21 DEF PllLocks
<1>22. CASE PhyFinishes
  BY <1>22 DEF PhyFinishes
<1>23. CASE LaneCalibrates
  BY <1>23 DEF LaneCalibrates
<1>24. CASE UNCHANGED vars
  BY <1>24 DEF vars
<1>. QED BY <1>1, <1>2, <1>3, <1>4, <1>5, <1>6, <1>7, <1>8, <1>9, <1>10, <1>11, <1>12, <1>13,
            <1>14, <1>15, <1>16, <1>17, <1>18, <1>19, <1>20, <1>21, <1>22, <1>23, <1>24, Zenon
            DEF Next, PsuStep

LEMMA SearchFrame ==
  ASSUME SearchTypeOK, UNCHANGED searchVars, pc' = "search" => pc = "search",
         pc' \notin LaneLabels => pc \notin LaneLabels
  PROVE  SearchTypeOK'
<1>1. /\ search' = search /\ itercount' = itercount /\ lane' = lane /\ setting' = setting
      /\ results' = results
  BY DEF searchVars
<1>. QED BY <1>1 DEF SearchTypeOK

LEMMA SearchKept ==
  ASSUME Typed, SearchTypeOK, [Next]_vars
  PROVE  SearchTypeOK'
<1>1. CASE ~ (StartSearch \/ TestCounter \/ EndSearch)
  BY <1>1, OthersLeaveSearch, SearchFrame
<1>2. CASE StartSearch
  <2>1. /\ pc' = "search" /\ search' = search /\ search <= Len(Searches) /\ itercount' = 0
        /\ lane' = NewLane /\ results' = <<>> /\ setting' = setting
    BY <1>2 DEF StartSearch, Goto
  <2>2. results' \in Seq(BOOLEAN) /\ Len(results') = 0 /\ 0 \in 0..Counters
    BY <2>1, CountersAssumption
  <2>. QED BY <2>1, <2>2, NewLaneIs DEF SearchTypeOK, LaneLabels
<1>3. CASE TestCounter
  <2>1. PICK result \in BOOLEAN : lane' = Turn(lane, itercount, result)
                                  /\ results' = Append(results, result)
    BY <1>3, Zenon DEF TestCounter
  <2>2. /\ pc = "search" /\ pc' = pc /\ itercount < Counters /\ itercount' = itercount + 1
        /\ search' = search /\ setting' = setting
    BY <1>3 DEF TestCounter, progVars
  <2>3. itercount \in 0..(Counters - 1) /\ itercount' \in 0..Counters
    BY <2>2, CountersAssumption DEF SearchTypeOK
  <2>4. lane' \in Lane /\ lane'.pass <= itercount'
    BY <2>1, <2>2, <2>3, TurnType DEF SearchTypeOK
  <2>5. results' \in Seq(BOOLEAN) /\ itercount' = Len(results')
    BY <2>1, <2>2 DEF SearchTypeOK
  <2>. QED BY <2>2, <2>3, <2>4, <2>5 DEF SearchTypeOK, LaneLabels
<1>4. CASE EndSearch
  <2>1. /\ pc = "search" /\ pc' = "lanes" /\ search' = search + 1 /\ itercount' = itercount
        /\ lane' = lane /\ results' = results
        /\ setting' = [setting EXCEPT ![search] = Setting(Searches[search], Chosen(lane))]
    BY <1>4 DEF EndSearch, Goto
  <2>2. search' \in 1..(Len(Searches) + 1)
    BY <2>1, SearchesAssumption DEF SearchTypeOK
  <2>3. DOMAIN setting' = DOMAIN Searches
    BY <2>1 DEF SearchTypeOK
  <2>. QED BY <2>1, <2>2, <2>3 DEF SearchTypeOK, LaneLabels
<1>. QED BY <1>1, <1>2, <1>3, <1>4

(* What a search that ended leaves. *)
LEMMA MarginKept ==
  ASSUME Counters > 8, Typed, SearchTypeOK, MarginInv, [Next]_vars
  PROVE  MarginInv'
<1>1. CASE ~ (StartSearch \/ TestCounter \/ EndSearch)
  <2>1. /\ UNCHANGED searchVars
        /\ pc' = "search" => pc = "search"
        /\ pc' = "lanes" => pc = "lanes" \/ search = 1
    BY <1>1, OthersLeaveSearch
  <2>2. /\ search' = search /\ itercount' = itercount /\ lane' = lane /\ setting' = setting
        /\ results' = results
    BY <2>1 DEF searchVars
  <2>3. \A i : Passed(i)' = Passed(i)
    BY <2>2 DEF Passed
  <2>4. LaneInv'
    BY <2>1, <2>2, <2>3 DEF MarginInv, LaneInv, RowFrom, Run, Margin, Passed
  <2>5. SettingHasMargin'
    BY <2>1, <2>2, <2>3 DEF MarginInv, SettingHasMargin
  <2>. QED BY <2>4, <2>5 DEF MarginInv
<1>2. CASE StartSearch
  <2>1. pc' = "search" /\ itercount' = 0 /\ lane' = NewLane /\ results' = <<>>
    BY <1>2 DEF StartSearch, Goto
  <2>2. \A i \in Int : ~ Passed(i)'
    BY <2>1 DEF Passed
  <2>3. lane'.prev = FALSE /\ lane'.mean = 0 /\ lane'.pass = 0
    BY <2>1 DEF NewLane
  <2>4. RowFrom(0, 0)'
    <3>1. \A i \in 0..(Counters - 5) : ~ Run(i, i + 4)'
      <4>. SUFFICES ASSUME NEW i \in 0..(Counters - 5) PROVE ~ Run(i, i + 4)'
        OBVIOUS
      <4>1. i \in i..(i + 4) /\ i \in Int
        BY CountersAssumption
      <4>. QED BY <2>2, <4>1 DEF Run
    <3>. QED BY <2>1, <2>3, <3>1 DEF RowFrom, Run
  <2>5. LaneInv'
    <3>1. (\E from \in 0..itercount, over \in {0, 1} : RowFrom(from, over))'
      <4>1. 0 \in 0..itercount' /\ 0 \in {0, 1}
        BY <2>1
      <4>. QED BY <2>4, <4>1, Zenon
    <3>2. ~ (itercount > 0)'
      BY <2>1
    <3>. QED BY <2>3, <3>1, <3>2 DEF LaneInv
  <2>. QED BY <2>1, <2>5 DEF MarginInv, SettingHasMargin
<1>3. CASE TestCounter
  <2>1. PICK result \in BOOLEAN : lane' = Turn(lane, itercount, result)
                                  /\ results' = Append(results, result)
    BY <1>3, Zenon DEF TestCounter
  <2>2. /\ pc = "search" /\ pc' = pc /\ itercount < Counters /\ itercount' = itercount + 1
    BY <1>3 DEF TestCounter, progVars
  <2>3. LaneInv'
    BY <2>1, <2>2, LaneTurns DEF MarginInv, SearchTypeOK
  <2>. QED BY <2>2, <2>3 DEF MarginInv, SettingHasMargin
<1>4. CASE EndSearch
  <2>1. /\ pc = "search" /\ pc' = "lanes" /\ search' = search + 1 /\ itercount' = itercount
        /\ lane' = lane /\ results' = results /\ itercount = Counters
        /\ setting' = [setting EXCEPT ![search] = Setting(Searches[search], Chosen(lane))]
    BY <1>4 DEF EndSearch, Goto
  <2>2. /\ search' - 1 = search /\ search \in DOMAIN setting
        /\ setting'[search' - 1] = Setting(Searches[search], Chosen(lane))
    <3>1. Len(Searches) \in Nat /\ DOMAIN Searches = 1..Len(Searches)
      BY SearchesAssumption
    <3>2. search \in 1..(Len(Searches) + 1) /\ search <= Len(Searches)
      BY <2>1 DEF SearchTypeOK
    <3>3. search \in Nat /\ search \in 1..Len(Searches)
      BY <3>1, <3>2
    <3>. QED BY <2>1, <3>1, <3>3 DEF SearchTypeOK
  <2>3. \A i : Passed(i)' = Passed(i)
    BY <2>1 DEF Passed
  <2>4. ASSUME NEW i \in 0..(Counters - 5), \A j \in i..(i + 4) : Passed(j)
        PROVE  Margin(lane.mean) /\ lane.mean # 0
    <3>1. Run(i, i + 4)
      BY <2>4 DEF Run
    <3>2. lane.mean # 0
      BY <2>1, <3>1, CountersAssumption DEF MarginInv, LaneInv, RowFrom
    <3>. QED BY <2>1, <3>2 DEF MarginInv, LaneInv
  <2>5. SettingHasMargin'
    <3>. SUFFICES ASSUME NEW i \in 0..(Counters - 5), \A j \in i..(i + 4) : Passed(j)
                  PROVE  \E m \in 1..(Counters - 2) :
                           /\ setting'[search' - 1] = Setting(Searches[search' - 1], m)
                           /\ Passed(m - 1) /\ Passed(m) /\ Passed(m + 1)
      BY <2>3 DEF SettingHasMargin
    <3>1. Margin(lane.mean) /\ lane.mean # 0
      BY <2>4
    <3>2. Chosen(lane) = lane.mean
      BY <3>1 DEF Chosen
    <3>. QED BY <2>2, <3>1, <3>2 DEF Margin
  <2>. QED BY <2>1, <2>5 DEF MarginInv, LaneInv
<1>. QED BY <1>1, <1>2, <1>3, <1>4

-----------------------------------------------------------------------------
(* The invariants hold. *)

LEMMA PsuInitially == Init => PsuInv /\ (Counters > 8 => MarginInv)
<1>. SUFFICES ASSUME Init PROVE PsuInv /\ MarginInv
  OBVIOUS
<1>1. /\ pc = "bypass" /\ status = TRUE /\ pll = 1 /\ withDdr \in DdrByPsuInit
      /\ pllRetry = PllRetries /\ pllLocked = FALSE
      /\ phyRun = "none" /\ phyBusy = FALSE /\ phyOk = FALSE
      /\ phyRefresh = TRUE /\ staticRead = FALSE /\ autoRefresh = TRUE
      /\ gaveUp = {} /\ completed = {}
  BY DEF Init
<1>2. /\ repeatCount = 0 /\ match = NoMatches /\ code = ValidCodes /\ calibDone = FALSE
      /\ reading = ValidCodes /\ measured = <<>>
  BY DEF Init
<1>3. /\ search = 1 /\ itercount = 0 /\ lane = NewLane /\ results = <<>>
      /\ setting = [n \in DOMAIN Searches |-> Setting(FALSE, 0)]
  BY DEF Init
<1>4. /\ bypassed \subseteq Plls /\ inReset \subseteq Plls /\ locked \subseteq Plls
      /\ \A p \in Plls \ bypassed : p \notin inReset /\ p \in locked
  BY DEF Init
<1>5. Typed
  <2>1. pll \in Plls /\ pllRetry \in 0..PllRetries /\ withDdr \in BOOLEAN
    BY <1>1, BoundsAssumption, BuildsAssumption DEF Plls
  <2>. QED BY <1>1, <1>4, <2>1 DEF Typed, PllLabels
<1>6. PllInv /\ PhyInv
  BY <1>1, <1>4 DEF PllInv, PhyInv, PhyLabels, CalibLabels, LaneLabels
<1>7. CalibInv
  <2>1. repeatCount \in 0..(Repeats + 1) /\ repeatCount <= Repeats
    BY <1>2, BoundsAssumption
  <2>2. ASSUME NEW k \in Kinds
        PROVE  /\ match[k] \in [0..(ValidCodes[k] - 1) -> Nat]
               /\ \A c \in 0..(ValidCodes[k] - 1) : match[k][c] = Times(k, c)
    <3>1. match[k] = [c \in 0..(ValidCodes[k] - 1) |-> 0]
      BY <1>2 DEF NoMatches
    <3>. QED BY <1>2, <3>1, NoneIsMeasured
  <2>3. DOMAIN match = Kinds
    BY <1>2 DEF NoMatches
  <2>4. code \in [Kinds -> Nat] /\ reading \in [Kinds -> Nat]
    BY <1>2, CodesAssumption
  <2>5. measured \in Seq([Kinds -> Nat])
    BY <1>2
  <2>6. MostFrequentCode /\ pc \notin LaneLabels
    BY <1>1 DEF MostFrequentCode, LaneLabels
  <2>. QED BY <1>2, <2>1, <2>2, <2>3, <2>4, <2>5, <2>6 DEF CalibInv
<1>8. SearchTypeOK
  <2>1. search \in 1..(Len(Searches) + 1) /\ itercount \in 0..Counters
    BY <1>3, SearchesAssumption, CountersAssumption
  <2>2. results \in Seq(BOOLEAN)
    BY <1>3
  <2>. QED BY <1>1, <1>3, <2>1, <2>2, NewLaneIs DEF SearchTypeOK
<1>9. MarginInv
  BY <1>1 DEF MarginInv, LaneInv, SettingHasMargin
<1>. QED BY <1>5, <1>6, <1>7, <1>8, <1>9 DEF PsuInv

LEMMA PsuAlways == Spec => []PsuInv
<1>1. Init => PsuInv
  BY PsuInitially
<1>2. PsuInv /\ [Next]_vars => PsuInv'
  BY TypedKept, PllKept, PhyKept, CalibKept, SearchKept DEF PsuInv
<1>. QED BY <1>1, <1>2, PTL DEF Spec
-----------------------------------------------------------------------------
(* The theorems. *)

(* Every variable of psu_init keeps its type: the attempts to lock the PLLs of the
   PHY never pass zero, the counters and passes of a search stay below the number
   of counters, and so does the value written to the lane. *)
THEOREM PsuTypes == Spec => []PsuTypeOK
<1>1. PsuInv => PsuTypeOK
  <2>. SUFFICES ASSUME PsuInv PROVE PsuTypeOK
    OBVIOUS
  <2>1. /\ Typed /\ CalibInv /\ SearchTypeOK
    BY DEF PsuInv
  <2>2. pll \in Nat
    BY <2>1, BoundsAssumption DEF Typed, Plls
  <2>3. Chosen(lane) \in 0..(Counters - 1) /\ lane.pass \in 0..Counters
    <3>1. /\ lane.pass \in Nat /\ lane.pass <= itercount /\ itercount \in 0..Counters
          /\ lane.mean \in 0..(Counters - 1) /\ lane.alt \in 0..(Counters - 1)
      BY <2>1 DEF SearchTypeOK, Lane
    <3>. QED BY <3>1, CountersAssumption DEF Chosen
  <2>4. pc \in {"bypass", "reset", "run", "lock", "use", "phyPll", "phyPllWait", "init",
                "initWait", "train", "trainWait", "vref", "vrefWait", "eye", "eyeWait",
                "calibrate", "calibrateWait", "choose", "lanes", "search", "done"}
    BY <2>1 DEF Typed, PllLabels, PhyLabels, CalibLabels, LaneLabels
  <2>5. /\ repeatCount \in 0..(Repeats + 1) /\ DOMAIN match = Kinds
        /\ \A k \in Kinds : match[k] \in [0..(ValidCodes[k] - 1) -> Nat]
        /\ code \in [Kinds -> Nat] /\ reading \in [Kinds -> Nat] /\ calibDone \in BOOLEAN
        /\ measured \in Seq([Kinds -> Nat])
    BY <2>1 DEF CalibInv
  <2>6. /\ search \in 1..(Len(Searches) + 1) /\ itercount \in 0..Counters
        /\ DOMAIN setting = DOMAIN Searches /\ results \in Seq(BOOLEAN)
    BY <2>1 DEF SearchTypeOK
  <2>7. /\ status \in BOOLEAN /\ withDdr \in BOOLEAN
        /\ pllRetry \in 0..PllRetries /\ pllLocked \in BOOLEAN
        /\ bypassed \subseteq Plls /\ inReset \subseteq Plls /\ locked \subseteq Plls
        /\ gaveUp \subseteq Plls
        /\ phyRun \in {"none", "pll", "init", "train", "vref", "eye"}
        /\ completed \subseteq {"pll", "init", "train", "vref", "eye"}
        /\ phyBusy \in BOOLEAN /\ phyOk \in BOOLEAN /\ phyRefresh \in BOOLEAN
        /\ staticRead \in BOOLEAN /\ autoRefresh \in BOOLEAN
    BY <2>1 DEF Typed
  <2>. QED BY <2>2, <2>3, <2>4, <2>5, <2>6, <2>7, Zenon DEF PsuTypeOK
<1>. QED BY <1>1, PsuAlways, PTL

(* A success of psu_init is no accident of where it stopped: no clock comes from a
   PLL in reset, the memory was trained where that is asked for, and every code
   forced on the lanes is a valid one. A failure is not covered up later. *)
THEOREM SuccessIsReady == Spec => []SuccessMeansReady
<1>1. PsuInv => SuccessMeansReady
  <2>. SUFFICES ASSUME PsuInv, pc = "done", status PROVE SuccessMeansReady
    BY DEF SuccessMeansReady
  <2>1. /\ \A p \in Plls \ bypassed : p \notin inReset /\ p \in locked \cup gaveUp
        /\ withDdr => {"pll", "train", "vref"} \subseteq completed /\ autoRefresh
        /\ phyRefresh /\ ~ staticRead
    BY DEF PsuInv, PllInv, PhyInv, LaneLabels
  <2>2. ~ phyBusy
    BY DEF PsuInv, PhyInv, Awaits
  <2>3. \A k \in Kinds : code[k] < ValidCodes[k]
    BY DEF PsuInv, CalibInv, LaneLabels
  <2>. QED BY <2>1, <2>2, <2>3 DEF SuccessMeansReady
<1>. QED BY <1>1, PsuAlways, PTL

(* The PHY is told one thing at a time: psu_init starts a step, or changes its mode,
   only after the status of the step before says that it ended. *)
THEOREM PhyStepByStep == Spec => PhyOneAtATime
<1>1. PsuInv /\ [Next]_vars =>
        [phyRun' # phyRun \/ phyRefresh' # phyRefresh \/ staticRead' # staticRead
           => ~ phyBusy]_vars
  <2>. SUFFICES ASSUME PsuInv, [Next]_vars, phyBusy
                PROVE  phyRun' = phyRun /\ phyRefresh' = phyRefresh /\ staticRead' = staticRead
    OBVIOUS
  <2>1. pc \in {"phyPllWait", "initWait", "trainWait", "vrefWait", "eyeWait"}
    BY DEF PsuInv, PhyInv, Awaits
  <2>2. \/ PllLocks \/ PhyFinishes \/ LaneCalibrates
        \/ phyVars' = phyVars
        \/ EndVref \/ EndEye \/ ReadPhyLocks
    BY <2>1, Zenon DEF Next, PsuStep, vars, BypassPll, ResetPll, RunPll, PollPllLock, UsePll,
       InitDdr, LockPhyPlls, StartInit, EndInit, StartTraining, EndTraining, StartVref, StartEye,
       StartCalibration, CalibrationTimesOut, ReadCodes, ChooseCodes, StartSearch, TestCounter,
       EndSearch, InitLanes
  <2>. QED BY <2>2 DEF PllLocks, PhyFinishes, LaneCalibrates, EndVref, EndEye, ReadPhyLocks, phyVars
<1>. QED BY <1>1, PsuAlways, PTL DEF Spec, PhyOneAtATime

(* The code forced on the lanes is one of those that came most often: the counts are
   those of all calibrations, and the search, which keeps the count to beat in the
   place of the first code's, returns the place of a largest one. *)
THEOREM CodesAreMostFrequent == Spec => []MostFrequentCode
<1>1. PsuInv => MostFrequentCode
  BY DEF PsuInv, CalibInv
<1>. QED BY <1>1, PsuAlways, PTL

(* With the 64 counters of serdes_illcalib, as with any nine or more, a search that
   sees five counters in a row pass leaves a setting that passed and whose both
   neighbours passed, though it may count a pass too many for a row that begins at
   the fourth counter. With eight counters it need not. *)
THEOREM SettingsHaveMargin ==
  ASSUME Counters > 8
  PROVE  Spec => []SettingHasMargin
<1>1. Init => PsuInv /\ MarginInv
  BY PsuInitially
<1>2. PsuInv /\ MarginInv /\ [Next]_vars => MarginInv'
  BY MarginKept DEF PsuInv
<1>3. MarginInv => SettingHasMargin
  BY DEF MarginInv
<1>. QED BY <1>1, <1>2, <1>3, PsuAlways, PTL DEF Spec
=============================================================================
