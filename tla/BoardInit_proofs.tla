---------------------------- MODULE BoardInit_proofs ----------------------------
(****************************************************************************)
(* Proofs about the board's configuration: the dividers XIicPs_SetSClk      *)
(* chooses are the nearest ones, for every clock of the controller, and the *)
(* expander, the multiplexer and the regulator are spoken to in an order    *)
(* that reaches them, for every design of the lanes.                        *)
(****************************************************************************)
EXTENDS BoardInit, WellFoundedInduction, TLAPS
-----------------------------------------------------------------------------
(* Arithmetic. *)

(* The least-number principle, from the well-foundedness of the naturals. *)
LEMMA LeastNatural ==
  ASSUME NEW S, S \subseteq Nat, S # {}
  PROVE  \E m \in S : \A n \in S : m <= n
<1>. DEFINE R == OpToRel(<, Nat)
<1>1. IsWellFoundedOn(R, Nat)
  BY NatLessThanWellFounded, Zenon
<1>. HIDE DEF R
<1>2. PICK m \in S : \A n \in S : ~ (<<n, m>> \in R)
  BY <1>1, WFMin
<1>3. \A n, k \in Nat : n < k => <<n, k>> \in R
  BY DEF R, OpToRel
<1>4. \A n \in S : ~ (n < m)
  BY <1>2, <1>3, Zenon
<1>. QED BY <1>4

(* The quotient, by its two bounds. *)
LEMMA Quotient ==
  ASSUME NEW x \in Nat, NEW d \in Nat \ {0}
  PROVE  x \div d \in Nat /\ d * (x \div d) <= x /\ x < d * (x \div d) + d
OBVIOUS

LEMMA QuotientAtLeast ==
  ASSUME NEW x \in Nat, NEW d \in Nat \ {0}, NEW q \in Nat, d * q <= x
  PROVE  q <= x \div d
<1>. DEFINE p == x \div d
<1>1. p \in Nat /\ x < d * p + d
  BY Quotient
<1>. HIDE DEF p
<1>2. d * q < d * (p + 1)
  BY <1>1
<1>3. CASE p < q
  <2>1. PICK e \in Nat : q = p + 1 + e
    <3>1. q - (p + 1) \in Nat /\ q = p + 1 + (q - (p + 1))
      BY <1>1, <1>3
    <3>. QED BY <3>1
  <2>2. d * q = d * (p + 1) + d * e /\ d * e >= 0
    BY <1>1, <2>1
  <2>. QED BY <1>1, <1>2, <2>2
<1>. QED BY <1>1, <1>3 DEF p

LEMMA QuotientBelow ==
  ASSUME NEW x \in Nat, NEW d \in Nat \ {0}, NEW q \in Nat, x < d * q
  PROVE  x \div d < q
<1>. DEFINE p == x \div d
<1>1. p \in Nat /\ d * p <= x
  BY Quotient
<1>. HIDE DEF p
<1>2. CASE q <= p
  <2>1. PICK e \in Nat : p = q + e
    <3>1. p - q \in Nat /\ p = q + (p - q)
      BY <1>1, <1>2
    <3>. QED BY <3>1
  <2>2. d * p = d * q + d * e /\ d * e >= 0
    BY <1>1, <2>1
  <2>. QED BY <1>1, <2>2
<1>. QED BY <1>1, <1>2 DEF p

(* A larger divisor gives a smaller quotient. *)
LEMMA QuotientAntitone ==
  ASSUME NEW x \in Nat, NEW d \in Nat \ {0}, NEW e \in Nat \ {0}, d <= e
  PROVE  x \div e <= x \div d
<1>. DEFINE q == x \div e
<1>1. q \in Nat /\ e * q <= x
  BY Quotient
<1>. HIDE DEF q
<1>2. d * q <= e * q
  <2>1. PICK n \in Nat : e = d + n
    <3>1. e - d \in Nat /\ e = d + (e - d)
      OBVIOUS
    <3>. QED BY <3>1
  <2>2. e * q = d * q + n * q /\ n * q >= 0
    BY <1>1, <2>1
  <2>. QED BY <1>1, <2>2
<1>3. d * q <= x
  <2>. QED BY <1>1, <1>2
<1>. QED BY <1>1, <1>3, QuotientAtLeast DEF q
-----------------------------------------------------------------------------
(* XIicPs_SetSClk. *)

(* The rate the controller is set to, for either rate asked for. *)
Wanted == 384600

(* The rates asked for. *)
Asked == {400000, 600000}

LEMMA TriesType ==
  ASSUME inputClock \in Nat, NEW asked \in Asked
  PROVE  /\ Corrected(asked) = Wanted
         /\ Temps(asked) \subseteq Nat
         /\ \A t \in Nat, b \in 0..63 : DivA(t, b) \in Nat
         /\ \A a \in Nat, b \in 0..63 : Gap(a, b, Wanted) \in Nat
<1>1. Corrected(asked) = Wanted
  BY SMT DEF Corrected, Wanted, Asked
<1>2. Temps(asked) \subseteq Nat
  <2>1. inputClock \div (22 * asked) \in Nat
    BY SMT DEF Asked
  <2>. QED BY <2>1 DEF Temps
<1>3. ASSUME NEW t \in Nat, NEW b \in 0..63 PROVE DivA(t, b) \in Nat
  <2>1. t \div (b + 1) \in Nat
    BY Quotient
  <2>. QED BY <2>1 DEF DivA
<1>4. ASSUME NEW a \in Nat, NEW b \in 0..63 PROVE Gap(a, b, Wanted) \in Nat
  <2>1. (22 * (a + 1)) * (b + 1) \in Nat \ {0}
    OBVIOUS
  <2>2. inputClock \div ((22 * (a + 1)) * (b + 1)) \in Nat
    BY <2>1, Quotient
  <2>3. Wanted \in Nat
    BY SMT DEF Wanted
  <2>. QED BY <2>2, <2>3 DEF Gap
<1>. QED BY <1>1, <1>2, <1>3, <1>4

(* A nearest pair exists, and the first of the nearest. *)
LEMMA BestExists ==
  ASSUME NEW tries, tries \subseteq Nat \X Nat, tries # {}, NEW gap \in [tries -> Nat]
  PROVE  \E p \in tries : \A q \in tries :
           \/ gap[p] < gap[q]
           \/ gap[p] = gap[q] /\ (p[1] < q[1] \/ (p[1] = q[1] /\ p[2] <= q[2]))
<1>1. PICK g \in {gap[p] : p \in tries} : \A n \in {gap[p] : p \in tries} : g <= n
  <2>1. {gap[p] : p \in tries} \subseteq Nat /\ {gap[p] : p \in tries} # {}
    OBVIOUS
  <2>. QED BY <2>1, LeastNatural
<1>. DEFINE near == {p \in tries : gap[p] = g}
<1>2. PICK t \in {p[1] : p \in near} : \A n \in {p[1] : p \in near} : t <= n
  <2>1. {p[1] : p \in near} \subseteq Nat /\ {p[1] : p \in near} # {}
    BY <1>1
  <2>. QED BY <2>1, LeastNatural
<1>. DEFINE first == {p \in near : p[1] = t}
<1>3. PICK b \in {p[2] : p \in first} : \A n \in {p[2] : p \in first} : b <= n
  <2>1. {p[2] : p \in first} \subseteq Nat /\ {p[2] : p \in first} # {}
    BY <1>2
  <2>. QED BY <2>1, LeastNatural
<1>4. PICK p \in first : p[2] = b
  BY <1>3
<1>5. ASSUME NEW q \in tries
      PROVE  \/ gap[p] < gap[q]
             \/ gap[p] = gap[q] /\ (p[1] < q[1] \/ (p[1] = q[1] /\ p[2] <= q[2]))
  <2>1. g \in Nat /\ gap[q] \in Nat /\ gap[p] = g /\ g <= gap[q] /\ p[1] = t /\ t \in Nat
        /\ p[2] \in Nat /\ q[1] \in Nat /\ q[2] \in Nat
    BY <1>1, <1>2, <1>4, <1>5
  <2>2. CASE gap[q] = g
    <3>1. q \in near /\ t <= q[1]
      BY <1>2, <1>5, <2>2
    <3>2. q[1] = t => p[2] <= q[2]
      BY <1>3, <1>4, <3>1
    <3>. QED BY <2>1, <2>2, <3>1, <3>2
  <2>3. CASE gap[q] # g
    BY <2>1, <2>3
  <2>. QED BY <2>2, <2>3
<1>. QED BY <1>4, <1>5

LEMMA BestIsNearest ==
  ASSUME NEW tries, tries \subseteq Nat \X Nat, tries # {}, NEW gap \in [tries -> Nat],
         NEW best, best = CHOOSE p \in tries : \A q \in tries :
                            \/ gap[p] < gap[q]
                            \/ gap[p] = gap[q] /\ (p[1] < q[1] \/ (p[1] = q[1] /\ p[2] <= q[2]))
  PROVE  best \in tries /\ \A q \in tries : gap[best] <= gap[q]
<1>. DEFINE First(p) == \A q \in tries :
                          \/ gap[p] < gap[q]
                          \/ gap[p] = gap[q] /\ (p[1] < q[1] \/ (p[1] = q[1] /\ p[2] <= q[2]))
<1>1. best \in tries /\ First(best)
  <2>1. \E p \in tries : First(p)
    BY BestExists
  <2>2. best = CHOOSE p \in tries : First(p)
    OBVIOUS
  <2>. HIDE DEF First
  <2>. QED BY <2>1, <2>2, Zenon
<1>2. gap[best] \in Nat /\ \A q \in tries : gap[q] \in Nat
  BY <1>1
<1>3. ASSUME NEW q \in tries PROVE gap[best] <= gap[q]
  <2>1. gap[best] \in Nat /\ gap[q] \in Nat /\ (gap[best] < gap[q] \/ gap[best] = gap[q])
    BY <1>1, <1>2, Zenon
  <2>. QED BY <2>1
<1>. QED BY <1>1, <1>3

(* What the loops look at. *)
LEMMA TryIs ==
  ASSUME inputClock \in Nat, NEW asked \in Asked, NEW try \in Tries(asked)
  PROVE  /\ try[1] \in Temps(asked) /\ try[1] \in Nat /\ try[2] \in 0..63
         /\ try = <<try[1], try[2]>>
         /\ DivA(try[1], try[2]) \in 0..3
         /\ Gap(DivA(try[1], try[2]), try[2], Wanted) \in Nat
<1>1. try \in Temps(asked) \X (0..63) /\ DivA(try[1], try[2]) <= 3
  BY Zenon DEF Tries
<1>2. try[1] \in Temps(asked) /\ try[2] \in 0..63 /\ try = <<try[1], try[2]>>
  BY <1>1
<1>3. try[1] \in Nat
  BY <1>2, TriesType, Zenon
<1>4. DivA(try[1], try[2]) \in Nat
  BY <1>2, <1>3, TriesType
<1>5. Gap(DivA(try[1], try[2]), try[2], Wanted) \in Nat
  BY <1>2, <1>4, TriesType
<1>. QED BY <1>1, <1>2, <1>3, <1>4, <1>5

(* The chosen pair is that of a try that is as near as any. *)
LEMMA DivisorsChosen ==
  ASSUME inputClock \in Nat, NEW asked \in Asked
  PROVE  \/ Tries(asked) = {} /\ Divisors(asked) = <<0, 0>>
         \/ \E best \in Tries(asked) :
              /\ Divisors(asked) = <<DivA(best[1], best[2]), best[2]>>
              /\ \A try \in Tries(asked) :
                   Gap(DivA(best[1], best[2]), best[2], Wanted)
                     <= Gap(DivA(try[1], try[2]), try[2], Wanted)
<1>. DEFINE tries == Tries(asked)
            G(p) == Gap(DivA(p[1], p[2]), p[2], Corrected(asked))
            gap == [try \in tries |-> G(try)]
            best == CHOOSE p \in tries : \A q \in tries :
                      \/ gap[p] < gap[q]
                      \/ gap[p] = gap[q] /\ (p[1] < q[1] \/ (p[1] = q[1] /\ p[2] <= q[2]))
<1>1. Divisors(asked) = IF tries = {} THEN <<0, 0>> ELSE <<DivA(best[1], best[2]), best[2]>>
  BY Zenon DEF Divisors
<1>2. \A p \in tries : G(p) \in Nat /\ p \in Nat \X Nat
  <2>1. ASSUME NEW p \in tries PROVE G(p) \in Nat /\ p \in Nat \X Nat
    <3>1. /\ p[1] \in Nat /\ p[2] \in 0..63 /\ p = <<p[1], p[2]>>
          /\ Gap(DivA(p[1], p[2]), p[2], Wanted) \in Nat
      BY TryIs
    <3>2. Corrected(asked) = Wanted
      BY TriesType
    <3>3. G(p) \in Nat
      BY <3>1, <3>2, Zenon
    <3>4. p \in Nat \X Nat
      BY <3>1
    <3>. QED BY <3>3, <3>4
  <2>. QED BY <2>1
<1>. HIDE DEF tries, G
<1>3. CASE tries = {}
  BY <1>1, <1>3, Zenon DEF tries
<1>4. CASE tries # {}
  <2>1. gap \in [tries -> Nat] /\ tries \subseteq Nat \X Nat
    BY <1>2
  <2>2. \A q \in tries : gap[q] = G(q)
    OBVIOUS
  <2>3. best \in tries /\ \A q \in tries : gap[best] <= gap[q]
    <3>. HIDE DEF gap
    <3>1. best = CHOOSE p \in tries : \A q \in tries :
                   \/ gap[p] < gap[q]
                   \/ gap[p] = gap[q] /\ (p[1] < q[1] \/ (p[1] = q[1] /\ p[2] <= q[2]))
      BY Zenon
    <3>. HIDE DEF best
    <3>. QED BY <1>4, <2>1, <3>1, BestIsNearest
  <2>. HIDE DEF best, gap
  <2>4. \A q \in tries : G(best) <= G(q)
    BY <2>2, <2>3, Zenon
  <2>5. Divisors(asked) = <<DivA(best[1], best[2]), best[2]>>
    BY <1>1, <1>4, Zenon
  <2>6. Corrected(asked) = Wanted
    BY TriesType
  <2>. QED BY <2>3, <2>4, <2>5, <2>6, Zenon DEF tries, G
<1>. QED BY <1>3, <1>4

(* The dividers fit their fields, whatever the clock. *)
LEMMA DivisorsType ==
  ASSUME inputClock \in Nat, NEW asked \in Asked
  PROVE  Divisors(asked) \in (0..3) \X (0..63)
<1>1. CASE Divisors(asked) = <<0, 0>>
  BY <1>1
<1>2. CASE \E best \in Tries(asked) : Divisors(asked) = <<DivA(best[1], best[2]), best[2]>>
  <2>1. PICK best \in Tries(asked) : Divisors(asked) = <<DivA(best[1], best[2]), best[2]>>
    BY <1>2, Zenon
  <2>2. DivA(best[1], best[2]) \in 0..3 /\ best[2] \in 0..63
    BY TryIs, Zenon
  <2>. QED BY <2>1, <2>2
<1>. QED BY <1>1, <1>2, DivisorsChosen, Zenon

(* The rate for a ratio of the clocks; its distance from the rate wanted. *)
RateOf(k) == inputClock \div (22 * k)
Off(k) == IF RateOf(k) > Wanted THEN RateOf(k) - Wanted ELSE Wanted - RateOf(k)

(* Two dividers divide by their product. *)
LEMMA GapOfProduct ==
  ASSUME inputClock \in Nat, NEW a \in 0..3, NEW b \in 0..63
  PROVE  /\ (a + 1) * (b + 1) \in 1..256
         /\ Gap(a, b, Wanted) = Off((a + 1) * (b + 1))
<1>1. \E k \in 1..256 : k = (a + 1) * (b + 1) /\ (22 * (a + 1)) * (b + 1) = 22 * k
  <2>1. CASE a = 0
    <3>. QED BY <2>1, SMT
  <2>2. CASE a = 1
    <3>. QED BY <2>2, SMT
  <2>3. CASE a = 2
    <3>. QED BY <2>3, SMT
  <2>4. CASE a = 3
    <3>. QED BY <2>4, SMT
  <2>. QED BY <2>1, <2>2, <2>3, <2>4, SMT
<1>2. PICK k \in 1..256 : k = (a + 1) * (b + 1) /\ (22 * (a + 1)) * (b + 1) = 22 * k
  BY <1>1
<1>3. Gap(a, b, Wanted) = IF inputClock \div (22 * k) > Wanted
                          THEN inputClock \div (22 * k) - Wanted
                          ELSE Wanted - inputClock \div (22 * k)
  BY <1>2, SMT DEF Gap
<1>4. Gap(a, b, Wanted) = Off(k)
  BY <1>3, SMT DEF Off, RateOf
<1>. QED BY <1>2, <1>4, SMT

(* The rate falls as the ratio grows. *)
LEMMA RatesFall ==
  ASSUME inputClock \in Nat, NEW k \in Nat \ {0}, NEW m \in Nat \ {0}, k <= m
  PROVE  RateOf(k) \in Nat /\ RateOf(m) \in Nat /\ RateOf(m) <= RateOf(k)
<1>1. 22 * k \in Nat \ {0} /\ 22 * m \in Nat \ {0} /\ 22 * k <= 22 * m
  BY SMT
<1>2. RateOf(k) \in Nat /\ RateOf(m) \in Nat
  BY <1>1, Quotient DEF RateOf
<1>3. RateOf(m) <= RateOf(k)
  BY <1>1, QuotientAntitone DEF RateOf
<1>. QED BY <1>2, <1>3

(* Around the ratio the loops start from: its rate is above the one asked for, the
   next one's below, and the last ratio's below the rate wanted. *)
LEMMA AroundFirst ==
  ASSUME inputClock \in Nat, NEW asked \in Asked, NEW f \in Nat, f = inputClock \div (22 * asked),
         f > 0, inputClock \div (22 * Wanted) < 64
  PROVE  /\ f \in 1..63 /\ RateOf(f) > Wanted
         /\ RateOf(f + 1) \in 1..(Wanted + Wanted - 1) /\ RateOf(64) < Wanted
<1>1. Wanted \in Nat \ {0} /\ asked \in Nat \ {0} /\ Wanted < asked /\ asked < Wanted + Wanted
  BY SMT DEF Wanted, Asked
<1>2. f <= inputClock \div (22 * Wanted)
  <2>1. 22 * asked \in Nat \ {0} /\ 22 * Wanted \in Nat \ {0} /\ 22 * Wanted <= 22 * asked
    BY <1>1, SMT
  <2>. QED BY <2>1, QuotientAntitone
<1>3. inputClock \div (22 * Wanted) \in Nat /\ inputClock < (22 * Wanted) * 64
  <2>1. 22 * Wanted \in Nat \ {0}
    BY <1>1, SMT
  <2>. DEFINE q == inputClock \div (22 * Wanted)
  <2>2. q \in Nat /\ inputClock < (22 * Wanted) * q + 22 * Wanted
    BY <2>1, Quotient
  <2>3. q <= 63
    BY <2>2
  <2>. HIDE DEF q
  <2>4. Wanted * q <= Wanted * 63
    BY <1>1, <2>2, <2>3, SMT DEF Wanted
  <2>. QED BY <1>1, <2>2, <2>4, SMT DEF q, Wanted
<1>4. f \in 1..63
  BY <1>2, <1>3, SMT
<1>5. (22 * asked) * f <= inputClock /\ inputClock < (22 * asked) * f + 22 * asked
  BY <1>1, Quotient, 22 * asked \in Nat \ {0}
<1>6. RateOf(f) >= asked
  <2>1. 22 * f \in Nat \ {0} /\ (22 * f) * asked = (22 * asked) * f
    BY <1>1, <1>4, SMT
  <2>. QED BY <1>1, <1>5, <2>1, QuotientAtLeast DEF RateOf
<1>7. RateOf(f + 1) < asked
  <2>1. /\ 22 * (f + 1) \in Nat \ {0}
        /\ (22 * (f + 1)) * asked = (22 * asked) * f + 22 * asked
    BY <1>1, <1>4, SMT
  <2>. QED BY <1>1, <1>5, <2>1, QuotientBelow DEF RateOf
<1>8. RateOf(f + 1) >= 1
  <2>1. 22 * (f + 1) \in Nat \ {0} /\ (22 * (f + 1)) * 1 <= inputClock
    BY <1>1, <1>4, <1>5, SMT DEF Asked
  <2>. QED BY <2>1, QuotientAtLeast DEF RateOf
<1>9. RateOf(64) < Wanted
  <2>1. 22 * 64 \in Nat \ {0} /\ inputClock < (22 * 64) * Wanted
    BY <1>1, <1>3, SMT DEF Wanted
  <2>. QED BY <1>1, <2>1, QuotientBelow DEF RateOf
<1>10. RateOf(f) \in Nat /\ RateOf(f + 1) \in Nat
  BY <1>4, RatesFall
<1>. QED BY <1>1, <1>4, <1>6, <1>7, <1>8, <1>9, <1>10, SMT

(* The second divider alone makes every ratio from the first one to 64. *)
LEMMA RatioIsTried ==
  ASSUME inputClock \in Nat, NEW asked \in Asked, NEW f \in 1..63,
         f = inputClock \div (22 * asked), NEW k \in f..64, Off(k) < Wanted
  PROVE  \E try \in Tries(asked) : Gap(DivA(try[1], try[2]), try[2], Wanted) = Off(k)
<1>1. k - 1 \in 0..63 /\ (k - 1) + 1 = k
  OBVIOUS
<1>2. DivA(f, k - 1) = 0
  <2>1. f \div k \in Nat /\ k * (f \div k) <= f
    BY Quotient, k \in Nat \ {0}, f \in Nat
  <2>. DEFINE q == f \div k
  <2>2. q < 2
    <3>1. q \in Nat /\ k * q <= f
      BY <2>1
    <3>. HIDE DEF q
    <3>2. CASE q >= 2
      <4>1. k * q = k * 2 + k * (q - 2) /\ k * (q - 2) >= 0
        BY <3>1, <3>2
      <4>. QED BY <3>1, <4>1
    <3>. QED BY <3>1, <3>2
  <2>3. DivA(f, k - 1) = IF q = 0 THEN 0 ELSE q - 1
    BY <1>1 DEF DivA
  <2>. HIDE DEF q
  <2>4. q \in Nat
    BY <2>1 DEF q
  <2>. QED BY <2>2, <2>3, <2>4
<1>3. Gap(0, k - 1, Wanted) = Off(k)
  <2>1. (0 + 1) * ((k - 1) + 1) = k
    OBVIOUS
  <2>. QED BY <1>1, <2>1, GapOfProduct
<1>4. f \in Temps(asked)
  <2>1. f \in f..f /\ f \in f..(f + 1)
    OBVIOUS
  <2>. QED BY <2>1 DEF Temps
<1>. DEFINE try == <<f, k - 1>>
<1>5. try[1] = f /\ try[2] = k - 1 /\ try \in Temps(asked) \X (0..63)
  BY <1>1, <1>4
<1>. HIDE DEF try
<1>6. Corrected(asked) = Wanted
  BY TriesType
<1>7. Gap(DivA(try[1], try[2]), try[2], Wanted) = Off(k)
  BY <1>2, <1>3, <1>5
<1>8. DivA(try[1], try[2]) <= 3
  BY <1>2, <1>5
<1>9. try \in Tries(asked)
  BY <1>5, <1>6, <1>7, <1>8, Zenon DEF Tries
<1>. QED BY <1>7, <1>9

(* No pair of dividers is nearer than the chosen one. *)
LEMMA NearestDivisors ==
  ASSUME inputClock \in Nat, NEW asked \in Asked, inputClock \div (22 * asked) > 0,
         inputClock \div (22 * Wanted) < 64, NEW a \in 0..3, NEW b \in 0..63
  PROVE  Gap(Divisors(asked)[1], Divisors(asked)[2], Wanted) <= Gap(a, b, Wanted)
<1>. DEFINE f == inputClock \div (22 * asked)
<1>1. f \in Nat
  BY Quotient, SMT DEF Asked
<1>2. /\ f \in 1..63 /\ RateOf(f) > Wanted
      /\ RateOf(f + 1) \in 1..(Wanted + Wanted - 1) /\ RateOf(64) < Wanted
  BY <1>1, AroundFirst
<1>. DEFINE k == (a + 1) * (b + 1)
<1>3. k \in 1..256 /\ Gap(a, b, Wanted) = Off(k)
  BY GapOfProduct
<1>4. Wanted \in Nat
  BY SMT DEF Wanted
<1>5. \A m \in f..64 : Off(m) < Wanted =>
        \E try \in Tries(asked) : Gap(DivA(try[1], try[2]), try[2], Wanted) = Off(m)
  BY <1>2, RatioIsTried
<1>. HIDE DEF f, k
(* A ratio from the first one to 64 is at least as near. *)
<1>6. \E m \in f..64 : Off(m) < Wanted /\ Off(m) <= Off(k)
  <2>1. CASE Off(k) >= Wanted
    <3>1. Off(f + 1) < Wanted /\ f + 1 \in f..64
      BY <1>2, <1>4, SMT DEF Off
    <3>2. Off(f + 1) \in Int
      BY <1>2, <1>4, SMT DEF Off
    <3>3. RateOf(k) \in Nat
      BY <1>3, RatesFall
    <3>4. Off(k) \in Int
      BY <1>4, <3>3, SMT DEF Off
    <3>. QED BY <1>4, <2>1, <3>1, <3>2, <3>4, SMT
  <2>2. CASE Off(k) < Wanted /\ k < f
    <3>1. RateOf(f) \in Nat /\ RateOf(k) \in Nat /\ RateOf(f) <= RateOf(k)
      BY <1>2, <1>3, <2>2, RatesFall
    <3>. QED BY <1>2, <1>4, <2>2, <3>1, SMT DEF Off
  <2>3. CASE Off(k) < Wanted /\ k > 64
    <3>1. RateOf(64) \in Nat /\ RateOf(k) \in Nat /\ RateOf(k) <= RateOf(64)
      BY <1>3, <2>3, RatesFall
    <3>2. Off(64) <= Off(k)
      BY <1>2, <1>4, <3>1, SMT DEF Off
    <3>3. Off(64) \in Int /\ Off(k) \in Int
      BY <1>4, <3>1, SMT DEF Off
    <3>4. 64 \in f..64
      BY <1>2
    <3>. QED BY <1>4, <2>3, <3>2, <3>3, <3>4, SMT
  <2>4. CASE Off(k) < Wanted /\ k \in f..64
    <3>1. RateOf(k) \in Nat
      BY <1>3, RatesFall
    <3>2. Off(k) \in Int
      BY <1>4, <3>1, SMT DEF Off
    <3>. QED BY <2>4, <3>2, SMT
  <2>5. Off(k) >= Wanted \/ Off(k) < Wanted
    <3>1. RateOf(k) \in Nat
      BY <1>3, RatesFall
    <3>. QED BY <1>4, <3>1, SMT DEF Off
  <2>6. k < f \/ k > 64 \/ k \in f..64
    BY <1>2, <1>3, SMT
  <2>. QED BY <2>1, <2>2, <2>3, <2>4, <2>5, <2>6, Zenon
<1>7. PICK try \in Tries(asked) : Gap(DivA(try[1], try[2]), try[2], Wanted) <= Off(k)
  <2>1. PICK m \in f..64 : Off(m) < Wanted /\ Off(m) <= Off(k)
    BY <1>6
  <2>. QED BY <1>5, <2>1, Zenon
<1>8. PICK best \in Tries(asked) :
        /\ Divisors(asked) = <<DivA(best[1], best[2]), best[2]>>
        /\ \A other \in Tries(asked) :
             Gap(DivA(best[1], best[2]), best[2], Wanted)
               <= Gap(DivA(other[1], other[2]), other[2], Wanted)
  BY <1>7, DivisorsChosen, Zenon
<1>9. Gap(DivA(best[1], best[2]), best[2], Wanted)
   <= Gap(DivA(try[1], try[2]), try[2], Wanted)
  BY <1>7, <1>8, Zenon
<1>10. /\ Gap(DivA(best[1], best[2]), best[2], Wanted) \in Nat
       /\ Gap(DivA(try[1], try[2]), try[2], Wanted) \in Nat
  BY TryIs, Zenon
<1>11. Off(k) \in Int
  <2>1. RateOf(k) \in Nat
    BY <1>3, RatesFall
  <2>. QED BY <1>4, <2>1, SMT DEF Off
<1>12. Gap(DivA(best[1], best[2]), best[2], Wanted) <= Gap(a, b, Wanted)
  BY <1>3, <1>7, <1>9, <1>10, <1>11
<1>. QED BY <1>8, <1>12
-----------------------------------------------------------------------------
(* The inductive invariant of the board's initialisation. *)

Delivered(message) ==
  CASE message = "direction" -> expander.driven
    [] message = "lanes" -> expander.selects = Selects(design)
    [] message = "channel" -> channel
    [] message = "regulator" -> regulator

(* The types, with those of what never changes. *)
Typed ==
  /\ BoardTypeOK
  /\ design \in [Lanes -> Protocols] /\ inputClock \in Nat

(* A transfer under way is the step's own; it leaves no error when its message
   arrived, and the bus is the loader's only while it sends. *)
Transfers ==
  /\ io # "before" => pc \in SendSteps
  /\ io = "poll" => \/ sending = pc /\ intr = {}
                    \/ /\ sending = "none" /\ intr # {}
                       /\ intr \cap Errors = {} => Delivered(pc)
  /\ io = "after" => sending = "none" /\ Delivered(pc)
  /\ io = "before" /\ pc \notin {"pcie", "done"} => sending = "none" /\ bus # "ours"

(* What the steps so far have put on the board. *)
Reached ==
  /\ pc \in {"check", "lanes", "muxRate", "channel", "regulator"} => expander.driven
  /\ pc \in {"lanes", "muxRate", "channel", "regulator"} => Allowed(design)
  /\ pc \in {"muxRate", "channel", "regulator"} => expander.selects = Selects(design)
  /\ pc = "regulator" => channel
  /\ result = "success" =>
       expander.driven /\ expander.selects = Selects(design) /\ Allowed(design)
  /\ fmc => regulator /\ channel

(* The dividers are as near as any while they are used. *)
Clocked ==
  pc \in {"direction", "channel"} =>
    /\ clock \in Asked
    /\ inputClock \div (22 * Wanted) < 64 =>
         \A a \in 0..3, b \in 0..63 : Gap(divisors[1], divisors[2], Wanted) <= Gap(a, b, Wanted)

BoardInv == Typed /\ Transfers /\ Reached /\ Clocked

LEMMA RatesAsked == Rate.ioRate \in Asked /\ Rate.muxRate \in Asked
BY SMT DEF Rate, Asked

(* The order of the steps. *)
LEMMA NextStep ==
  ASSUME Succeeds
  PROVE  /\ io' = "before" /\ fmc' = (pc = "regulator")
         /\ result' = (IF pc = "regulator" THEN "success" ELSE result)
         /\ pc = "start" => pc' = "ioRate"
         /\ pc = "ioRate" => pc' = "direction"
         /\ pc = "direction" => pc' = "check"
         /\ pc = "check" => pc' = "lanes"
         /\ pc = "lanes" => pc' = "muxRate"
         /\ pc = "muxRate" => pc' = "channel"
         /\ pc = "channel" => pc' = "regulator"
         /\ pc = "regulator" => pc' = "pcie"
BY SMT DEF Succeeds

(* A failure ends the initialisation: of XFsbl_FMCEnable with success. *)
LEMMA FailedStep ==
  ASSUME NEW error, Fails(error)
  PROVE  /\ io' = "before" /\ fmc' = FALSE
         /\ \/ pc \in FmcSteps /\ pc' = "pcie" /\ result' = "success"
            \/ pc \notin FmcSteps /\ pc' = "done" /\ result' = error
BY Zenon DEF Fails

LEMMA InvInitially == Init => BoardInv
<1>. SUFFICES ASSUME Init PROVE BoardInv
  OBVIOUS
<1>1. design \in [Lanes -> Protocols] /\ inputClock \in Nat
  BY DesignsAssumption, InputClocksAssumption, Zenon DEF Init
<1>2. /\ pc = "start" /\ io = "before" /\ result = "none" /\ fmc = FALSE /\ clock = 0
      /\ divisors = <<0, 0>> /\ master = FALSE /\ sending = "none" /\ intr = {}
      /\ bus \in {"idle", "other"} /\ pcieReset = FALSE
  BY Zenon DEF Init
<1>3. /\ expander \in [driven : BOOLEAN, selects : SUBSET Lanes]
      /\ channel \in BOOLEAN /\ regulator \in BOOLEAN
  <2>1. Selects(design) \subseteq Lanes
    BY DEF Selects
  <2>2. /\ expander \in {[driven |-> FALSE, selects |-> Lanes],
                         [driven |-> TRUE, selects |-> Lanes],
                         [driven |-> TRUE, selects |-> Selects(design)]}
        /\ channel \in BOOLEAN /\ regulator \in BOOLEAN
    BY Zenon DEF Init
  <2>3. ASSUME NEW e \in SUBSET Lanes, NEW d \in BOOLEAN,
               expander = [driven |-> d, selects |-> e]
        PROVE  expander \in [driven : BOOLEAN, selects : SUBSET Lanes]
    BY <2>3
  <2>4. Lanes \in SUBSET Lanes /\ Selects(design) \in SUBSET Lanes
    BY <2>1
  <2>. QED BY <2>2, <2>3, <2>4, Zenon
<1>4. Typed
  <2>1. divisors \in (0..3) \X (0..63)
    BY <1>2
  <2>2. clock \in {0, Rate.ioRate, Rate.muxRate}
    BY <1>2, Zenon
  <2>. QED BY <1>1, <1>2, <1>3, <2>1, <2>2 DEF Typed, BoardTypeOK
<1>5. Transfers
  BY <1>2 DEF Transfers
<1>6. Reached
  BY <1>2, <1>3 DEF Reached
<1>7. Clocked
  BY <1>2, Zenon DEF Clocked
<1>. QED BY <1>4, <1>5, <1>6, <1>7 DEF BoardInv

(* What a step of the loader that neither sends nor asks for a rate leaves alone. *)
Rest == <<design, inputClock, clock, divisors, master, sending, intr, bus, expander, channel,
          regulator, pcieReset>>

LEMMA RestTyped ==
  ASSUME Typed, UNCHANGED Rest,
         pc' \in SendSteps \cup {"start", "ioRate", "check", "muxRate", "pcie", "done"},
         io' \in {"before", "poll", "after"}, fmc' \in BOOLEAN,
         result' \in {"none", "success", "I2C_SET_SCLK", "I2C_WRITE", "GT_LANE_SELECTION"}
  PROVE  Typed'
<1>1. /\ design' = design /\ inputClock' = inputClock /\ clock' = clock /\ divisors' = divisors
      /\ master' = master /\ sending' = sending /\ intr' = intr /\ bus' = bus
      /\ expander' = expander /\ channel' = channel /\ regulator' = regulator
      /\ pcieReset' = pcieReset
  BY Zenon DEF Rest
<1>. QED BY <1>1 DEF Typed, BoardTypeOK

(* A step that succeeds keeps the invariant, when it has done what it is for. *)
LEMMA SuccessKeepsInv ==
  ASSUME BoardInv, Succeeds, UNCHANGED Rest,
         pc \in {"check", "direction", "lanes", "channel", "regulator"},
         pc = "check" => io = "before" /\ Allowed(design),
         pc # "check" => io = "after" /\ bus # "ours"
  PROVE  BoardInv'
<1>1. /\ io' = "before" /\ fmc' = (pc = "regulator")
      /\ result' = (IF pc = "regulator" THEN "success" ELSE result)
      /\ pc' \in {"check", "lanes", "muxRate", "regulator", "pcie"}
      /\ pc' = "check" => pc = "direction"
      /\ pc' = "lanes" => pc = "check"
      /\ pc' = "muxRate" => pc = "lanes"
      /\ pc' = "regulator" => pc = "channel"
      /\ pc' = "pcie" => pc = "regulator"
  BY NextStep
<1>2. /\ design' = design /\ inputClock' = inputClock /\ clock' = clock /\ divisors' = divisors
      /\ master' = master /\ sending' = sending /\ intr' = intr /\ bus' = bus
      /\ expander' = expander /\ channel' = channel /\ regulator' = regulator
      /\ pcieReset' = pcieReset
  BY Zenon DEF Rest
<1>3. Typed'
  BY <1>1, <1>2 DEF BoardInv, Typed, BoardTypeOK, SendSteps
<1>4. Transfers'
  BY <1>1, <1>2 DEF BoardInv, Transfers
<1>5. Reached'
  <2>1. Delivered(pc) \/ pc = "check"
    BY DEF BoardInv, Transfers
  <2>2. /\ pc = "direction" => expander.driven
        /\ pc = "lanes" => expander.selects = Selects(design)
        /\ pc = "channel" => channel
        /\ pc = "regulator" => regulator
    BY <2>1 DEF Delivered
  <2>3. Selects(design)' = Selects(design) /\ Allowed(design)' = Allowed(design)
    BY <1>2 DEF Selects, Allowed
  <2>. QED BY <1>1, <1>2, <2>2, <2>3 DEF BoardInv, Reached
<1>6. Clocked'
  BY <1>1, Zenon DEF Clocked
<1>. QED BY <1>3, <1>4, <1>5, <1>6 DEF BoardInv

(* So does one that fails. *)
LEMMA FailureKeepsInv ==
  ASSUME BoardInv, NEW error \in {"I2C_SET_SCLK", "I2C_WRITE", "GT_LANE_SELECTION"},
         Fails(error), UNCHANGED Rest, pc \notin {"start", "pcie", "done"}
  PROVE  BoardInv'
<1>1. /\ io' = "before" /\ fmc' = FALSE
      /\ \/ pc \in FmcSteps /\ pc' = "pcie" /\ result' = "success"
         \/ pc \notin FmcSteps /\ pc' = "done" /\ result' = error
  BY FailedStep
<1>2. /\ design' = design /\ inputClock' = inputClock /\ clock' = clock /\ divisors' = divisors
      /\ master' = master /\ sending' = sending /\ intr' = intr /\ bus' = bus
      /\ expander' = expander /\ channel' = channel /\ regulator' = regulator
      /\ pcieReset' = pcieReset
  BY Zenon DEF Rest
<1>3. Typed'
  <2>1. result' \in {"success", "I2C_SET_SCLK", "I2C_WRITE", "GT_LANE_SELECTION"}
    BY <1>1
  <2>. QED BY <1>1, <2>1, RestTyped DEF BoardInv
<1>4. Transfers'
  BY <1>1, <1>2 DEF BoardInv, Transfers
<1>5. Reached'
  <2>1. Selects(design)' = Selects(design) /\ Allowed(design)' = Allowed(design)
    BY <1>2 DEF Selects, Allowed
  <2>. QED BY <1>1, <1>2, <2>1 DEF BoardInv, Reached, FmcSteps
<1>6. Clocked'
  BY <1>1, Zenon DEF Clocked
<1>. QED BY <1>3, <1>4, <1>5, <1>6 DEF BoardInv

LEMMA ClockIsSet ==
  ASSUME BoardInv, SetSClk
  PROVE  BoardInv'
<1>1. pc \in {"ioRate", "muxRate"} /\ Rate[pc] \in Asked
  <2>1. pc \in {"ioRate", "muxRate"}
    BY Zenon DEF SetSClk
  <2>2. (pc = "ioRate" => Rate[pc] = Rate.ioRate) /\ (pc = "muxRate" => Rate[pc] = Rate.muxRate)
    OBVIOUS
  <2>. QED BY <2>1, <2>2, RatesAsked, Zenon
<1>2. /\ design' = design /\ inputClock' = inputClock
      /\ master' = master /\ sending' = sending /\ intr' = intr /\ bus' = bus
      /\ expander' = expander /\ channel' = channel /\ regulator' = regulator
      /\ pcieReset' = pcieReset
  BY Zenon DEF SetSClk, deviceVars
<1>3. CASE sending = "none" /\ inputClock \div (22 * Rate[pc]) > 0
  <2>1. Succeeds /\ clock' = Rate[pc] /\ divisors' = Divisors(Rate[pc])
    BY <1>3, Zenon DEF SetSClk
  <2>2. /\ io' = "before" /\ fmc' = FALSE /\ result' = result
        /\ pc' \in {"direction", "channel"}
        /\ pc' = "direction" => pc = "ioRate"
        /\ pc' = "channel" => pc = "muxRate"
    BY <1>1, <2>1, NextStep
  <2>3. inputClock \in Nat /\ divisors' \in (0..3) \X (0..63)
    BY <1>1, <2>1, DivisorsType, Zenon DEF BoardInv, Typed
  <2>4. Typed'
    <3>1. clock' \in {0, Rate.ioRate, Rate.muxRate}
      BY <1>1, <2>1
    <3>2. /\ pc' \in SendSteps \cup {"start", "ioRate", "check", "muxRate", "pcie", "done"}
          /\ io' \in {"before", "poll", "after"} /\ fmc' \in BOOLEAN
      BY <2>2 DEF SendSteps
    <3>3. result' = result
      BY <2>2
    <3>4. /\ result' \in {"none", "success", "I2C_SET_SCLK", "I2C_WRITE", "GT_LANE_SELECTION"}
          /\ master' \in BOOLEAN /\ sending' \in SendSteps \cup {"none"}
          /\ intr' \subseteq Errors \cup {"COMP"} /\ bus' \in {"idle", "ours", "other"}
          /\ expander' \in [driven : BOOLEAN, selects : SUBSET Lanes]
          /\ channel' \in BOOLEAN /\ regulator' \in BOOLEAN /\ pcieReset' \in BOOLEAN
          /\ design' \in [Lanes -> Protocols] /\ inputClock' \in Nat
      BY <1>2, <3>3 DEF BoardInv, Typed, BoardTypeOK
    <3>. QED BY <2>3, <3>1, <3>2, <3>4 DEF Typed, BoardTypeOK
  <2>5. Transfers'
    <3>1. io = "before"
      BY <1>1 DEF BoardInv, Transfers, SendSteps
    <3>. QED BY <1>1, <1>2, <2>2, <3>1 DEF BoardInv, Transfers, SendSteps
  <2>6. Reached'
    <3>1. Selects(design)' = Selects(design) /\ Allowed(design)' = Allowed(design)
      BY <1>2 DEF Selects, Allowed
    <3>. QED BY <1>2, <2>2, <3>1 DEF BoardInv, Reached
  <2>7. Clocked'
    <3>1. ASSUME inputClock \div (22 * Wanted) < 64, NEW a \in 0..3, NEW b \in 0..63
          PROVE  Gap(divisors'[1], divisors'[2], Wanted) <= Gap(a, b, Wanted)
      BY <1>1, <1>3, <2>1, <2>3, <3>1, NearestDivisors
    <3>2. \A n, d, r : Gap(n, d, r)' = Gap(n, d, r)
      BY <1>2 DEF Gap
    <3>3. Gap(divisors[1], divisors[2], Wanted)' = Gap(divisors'[1], divisors'[2], Wanted)
      BY <1>2 DEF Gap
    <3>. QED BY <1>1, <1>2, <2>1, <3>1, <3>2, <3>3 DEF Clocked
  <2>. QED BY <2>4, <2>5, <2>6, <2>7 DEF BoardInv
<1>4. CASE ~ (sending = "none" /\ inputClock \div (22 * Rate[pc]) > 0)
  <2>1. Fails("I2C_SET_SCLK") /\ clock' = clock /\ divisors' = divisors
    BY <1>4, Zenon DEF SetSClk, clockVars
  <2>2. UNCHANGED Rest
    BY <1>2, <2>1, Zenon DEF Rest
  <2>. QED BY <1>1, <2>1, <2>2, FailureKeepsInv
<1>. QED BY <1>3, <1>4

(* A step of the bus: nothing of the loader changes. *)
Loader == <<pc, io, result, fmc, design, inputClock, clock, divisors, pcieReset>>

LEMMA BusTyped ==
  ASSUME Typed, UNCHANGED Loader,
         master' = master, sending' \in SendSteps \cup {"none"},
         intr' \subseteq Errors \cup {"COMP"}, bus' \in {"idle", "ours", "other"},
         expander' \in [driven : BOOLEAN, selects : SUBSET Lanes],
         channel' \in BOOLEAN, regulator' \in BOOLEAN
  PROVE  Typed'
<1>1. /\ pc' = pc /\ io' = io /\ result' = result /\ fmc' = fmc /\ design' = design
      /\ inputClock' = inputClock /\ clock' = clock /\ divisors' = divisors
      /\ pcieReset' = pcieReset
  BY Zenon DEF Loader
<1>2. (/\ pc \in SendSteps \cup {"start", "ioRate", "check", "muxRate", "pcie", "done"}
       /\ io \in {"before", "poll", "after"}
       /\ result \in {"none", "success", "I2C_SET_SCLK", "I2C_WRITE", "GT_LANE_SELECTION"}
       /\ fmc \in BOOLEAN)'
  BY <1>1, Zenon DEF Typed, BoardTypeOK
<1>3. (clock \in {0, Rate.ioRate, Rate.muxRate} /\ divisors \in (0..3) \X (0..63))'
  BY <1>1, Zenon DEF Typed, BoardTypeOK
<1>4. (master \in BOOLEAN /\ pcieReset \in BOOLEAN)'
  BY <1>1, Zenon DEF Typed, BoardTypeOK
<1>5. (design \in [Lanes -> Protocols] /\ inputClock \in Nat)'
  BY <1>1, Zenon DEF Typed
<1>. QED BY <1>2, <1>3, <1>4, <1>5, Zenon DEF Typed, BoardTypeOK

(* What was delivered stays. *)
LEMMA DeliveredStays ==
  ASSUME NEW m \in SendSteps, Delivered(m), design' = design,
         expander.driven => expander'.driven,
         expander.selects = Selects(design) => expander'.selects = Selects(design),
         channel => channel', regulator => regulator'
  PROVE  Delivered(m)'
<1>1. Selects(design)' = Selects(design)
  BY DEF Selects
<1>. QED BY <1>1 DEF Delivered, SendSteps

LEMMA BusKeepsInv ==
  ASSUME BoardInv, UNCHANGED Loader,
         master' = master, sending' \in SendSteps \cup {"none"},
         intr' \subseteq Errors \cup {"COMP"}, bus' \in {"idle", "ours", "other"},
         expander' \in [driven : BOOLEAN, selects : SUBSET Lanes],
         channel' \in BOOLEAN, regulator' \in BOOLEAN,
         sending = "none" => sending' = "none" /\ intr' = intr,
         sending # "none" => \/ sending' = sending /\ intr' = intr
                             \/ sending' = "none" /\ intr' # {} /\ ~ (intr' \cap Errors = {})
                             \/ /\ sending' = "none" /\ intr' # {}
                                /\ \/ sending = "direction" /\ expander'.driven
                                   \/ sending = "lanes" /\ expander'.selects = Selects(design)
                                   \/ sending = "channel" /\ channel'
                                   \/ sending = "regulator" /\ regulator',
         bus' = "ours" => bus = "ours" \/ sending # "none",
         expander.driven => expander'.driven,
         expander.selects = Selects(design) => expander'.selects = Selects(design),
         channel => channel', regulator => regulator'
  PROVE  BoardInv'
<1>1. /\ pc' = pc /\ io' = io /\ result' = result /\ fmc' = fmc /\ design' = design
      /\ inputClock' = inputClock /\ clock' = clock /\ divisors' = divisors
      /\ pcieReset' = pcieReset
  BY Zenon DEF Loader
<1>2. Typed'
  <2>1. Typed
    BY DEF BoardInv
  <2>. QED BY <2>1, BusTyped
<1>3. Selects(design)' = Selects(design) /\ Allowed(design)' = Allowed(design)
  BY <1>1 DEF Selects, Allowed
<1>4. pc \in SendSteps /\ Delivered(pc) => Delivered(pc)'
  <2>1. PICK m : m = pc
    OBVIOUS
  <2>2. m \in SendSteps /\ Delivered(m) => Delivered(m)'
    BY <1>1, DeliveredStays
  <2>. QED BY <1>1, <2>1, <2>2, Zenon
<1>5. Transfers'
  <2>1. Transfers
    BY DEF BoardInv
  <2>2. (io # "before" => pc \in SendSteps)'
    BY <1>1, <2>1, Zenon DEF Transfers
  <2>3. (io = "poll" => \/ sending = pc /\ intr = {}
                        \/ /\ sending = "none" /\ intr # {}
                           /\ intr \cap Errors = {} => Delivered(pc))'
    <3>1. SUFFICES ASSUME io = "poll"
                   PROVE  \/ sending' = pc /\ intr' = {}
                          \/ /\ sending' = "none" /\ intr' # {}
                             /\ intr' \cap Errors = {} => Delivered(pc)'
      BY <1>1, Zenon
    <3>2. CASE sending = pc /\ intr = {}
      <4>1. pc # "none"
        BY <2>1, <3>1 DEF Transfers, SendSteps
      <4>2. \/ pc = "direction" /\ expander'.driven
            \/ pc = "lanes" /\ expander'.selects = Selects(design)
            \/ pc = "channel" /\ channel'
            \/ pc = "regulator" /\ regulator'
            => Delivered(pc)'
        BY <1>1, <1>3 DEF Delivered
      <4>3. CASE sending' = sending /\ intr' = intr
        BY <3>2, <4>3
      <4>4. CASE sending' = "none" /\ intr' # {} /\ ~ (intr' \cap Errors = {})
        BY <4>4, Zenon
      <4>5. CASE /\ sending' = "none" /\ intr' # {}
                 /\ \/ sending = "direction" /\ expander'.driven
                    \/ sending = "lanes" /\ expander'.selects = Selects(design)
                    \/ sending = "channel" /\ channel'
                    \/ sending = "regulator" /\ regulator'
        BY <3>2, <4>2, <4>5, Zenon
      <4>6. sending # "none"
        BY <3>2, <4>1
      <4>. QED BY <4>3, <4>4, <4>5, <4>6, Zenon
    <3>3. CASE sending = "none" /\ intr # {} /\ (intr \cap Errors = {} => Delivered(pc))
      <4>1. pc \in SendSteps
        BY <2>1, <3>1 DEF Transfers
      <4>. QED BY <1>4, <3>3, <4>1, Zenon
    <3>. QED BY <2>1, <3>1, <3>2, <3>3, Zenon DEF Transfers
  <2>4. (io = "after" => sending = "none" /\ Delivered(pc))'
    <3>1. io = "after" => io # "before"
      OBVIOUS
    <3>. QED BY <1>1, <1>4, <2>1, <3>1, Zenon DEF Transfers
  <2>5. (io = "before" /\ pc \notin {"pcie", "done"} => sending = "none" /\ bus # "ours")'
    BY <1>1, <2>1, Zenon DEF Transfers
  <2>. QED BY <2>2, <2>3, <2>4, <2>5, Zenon DEF Transfers
<1>6. Reached'
  BY <1>1, <1>3, Zenon DEF BoardInv, Reached
<1>7. Clocked'
  <2>1. \A n, d, r : Gap(n, d, r)' = Gap(n, d, r)
    BY <1>1 DEF Gap
  <2>2. Gap(divisors[1], divisors[2], Wanted)' = Gap(divisors[1], divisors[2], Wanted)
    BY <1>1 DEF Gap
  <2>. QED BY <1>1, <2>1, <2>2, SMT DEF BoardInv, Clocked
<1>. QED BY <1>2, <1>5, <1>6, <1>7 DEF BoardInv

(* Every step keeps the invariant. *)
LEMMA InvKept == BoardInv /\ [Next]_vars => BoardInv'
<1>. SUFFICES ASSUME BoardInv, [Next]_vars PROVE BoardInv'
  OBVIOUS
<1>1. CASE InitI2c
  <2>1. pc = "start" /\ master' = FALSE /\ sending' = "none" /\ intr' = {} /\ Succeeds
    BY <1>1, Zenon DEF InitI2c
  <2>2. /\ io' = "before" /\ fmc' = FALSE /\ result' = result /\ pc' = "ioRate"
    BY <2>1, NextStep
  <2>3. /\ design' = design /\ inputClock' = inputClock /\ clock' = clock
        /\ divisors' = divisors /\ bus' = bus /\ expander' = expander /\ channel' = channel
        /\ regulator' = regulator /\ pcieReset' = pcieReset
    BY <1>1, Zenon DEF InitI2c, clockVars, deviceVars
  <2>4. Typed'
    <3>1. Typed
      BY DEF BoardInv
    <3>2. /\ pc' \in SendSteps \cup {"start", "ioRate", "check", "muxRate", "pcie", "done"}
          /\ io' \in {"before", "poll", "after"} /\ fmc' \in BOOLEAN /\ master' \in BOOLEAN
          /\ sending' \in SendSteps \cup {"none"} /\ intr' \subseteq Errors \cup {"COMP"}
      BY <2>1, <2>2
    <3>3. result' \in {"none", "success", "I2C_SET_SCLK", "I2C_WRITE", "GT_LANE_SELECTION"}
      BY <2>2, <3>1 DEF Typed, BoardTypeOK
    <3>. QED BY <2>3, <3>1, <3>2, <3>3 DEF Typed, BoardTypeOK
  <2>5. Transfers'
    <3>1. bus # "ours"
      BY <2>1 DEF BoardInv, Transfers, SendSteps
    <3>. QED BY <2>1, <2>2, <2>3, <3>1 DEF Transfers
  <2>6. Reached'
    <3>1. Selects(design)' = Selects(design) /\ Allowed(design)' = Allowed(design)
      BY <2>3 DEF Selects, Allowed
    <3>. QED BY <2>2, <2>3, <3>1 DEF BoardInv, Reached
  <2>7. Clocked'
    BY <2>2, Zenon DEF Clocked
  <2>. QED BY <2>4, <2>5, <2>6, <2>7 DEF BoardInv
<1>2. CASE SetSClk
  BY <1>2, ClockIsSet
<1>3. CASE StartSend
  <2>1. /\ pc \in SendSteps /\ io = "before" /\ master' = (master \/ bus = "idle")
        /\ intr' = {} /\ sending' = pc /\ io' = "poll"
    BY <1>3, Zenon DEF StartSend, SetupMaster
  <2>2. /\ pc' = pc /\ result' = result /\ fmc' = fmc /\ design' = design
        /\ inputClock' = inputClock /\ clock' = clock /\ divisors' = divisors
        /\ bus' = bus /\ expander' = expander /\ channel' = channel
        /\ regulator' = regulator /\ pcieReset' = pcieReset
    BY <1>3, Zenon DEF StartSend, clockVars, deviceVars
  <2>3. Typed'
    <3>1. Typed
      BY DEF BoardInv
    <3>2. /\ io' \in {"before", "poll", "after"} /\ master' \in BOOLEAN
          /\ sending' \in SendSteps \cup {"none"} /\ intr' \subseteq Errors \cup {"COMP"}
      BY <2>1
    <3>. QED BY <2>2, <3>1, <3>2 DEF Typed, BoardTypeOK
  <2>4. Transfers'
    BY <2>1, <2>2, Zenon DEF Transfers
  <2>5. Reached'
    <3>1. Selects(design)' = Selects(design) /\ Allowed(design)' = Allowed(design)
      BY <2>2 DEF Selects, Allowed
    <3>. QED BY <2>2, <3>1, Zenon DEF BoardInv, Reached
  <2>6. Clocked'
    <3>1. \A n, d, r : Gap(n, d, r)' = Gap(n, d, r)
      BY <2>2 DEF Gap
    <3>2. Gap(divisors[1], divisors[2], Wanted)' = Gap(divisors[1], divisors[2], Wanted)
      BY <2>2 DEF Gap
    <3>. QED BY <2>2, <3>1, <3>2, SMT DEF BoardInv, Clocked
  <2>. QED BY <2>3, <2>4, <2>5, <2>6 DEF BoardInv
<1>4. CASE PollSend
  <2>1. /\ io = "poll" /\ intr # {}
        /\ IF intr \cap Errors = {} THEN io' = "after" /\ UNCHANGED <<pc, result, fmc>>
                                    ELSE Fails("I2C_WRITE")
    BY <1>4, Zenon DEF PollSend
  <2>2. UNCHANGED Rest
    BY <1>4, Zenon DEF PollSend, clockVars, deviceVars, Rest
  <2>3. pc \in SendSteps /\ sending = "none" /\ (intr \cap Errors = {} => Delivered(pc))
    BY <2>1 DEF BoardInv, Transfers
  <2>4. CASE intr \cap Errors = {}
    <3>1. io' = "after" /\ pc' = pc /\ result' = result /\ fmc' = fmc
      BY <2>1, <2>4, Zenon
    <3>2. /\ design' = design /\ inputClock' = inputClock /\ clock' = clock
          /\ divisors' = divisors /\ sending' = sending /\ expander' = expander
          /\ channel' = channel /\ regulator' = regulator
      BY <2>2, Zenon DEF Rest
    <3>3. Typed'
      <4>1. io' \in {"before", "poll", "after"}
        BY <3>1
      <4>2. Typed /\ BoardTypeOK
        BY DEF BoardInv, Typed
      <4>3. /\ pc' \in SendSteps \cup {"start", "ioRate", "check", "muxRate", "pcie", "done"}
            /\ result' \in {"none", "success", "I2C_SET_SCLK", "I2C_WRITE", "GT_LANE_SELECTION"}
            /\ fmc' \in BOOLEAN
        BY <3>1, <4>2, Zenon DEF BoardTypeOK
      <4>. QED BY <2>2, <4>1, <4>2, <4>3, RestTyped
    <3>4. Delivered(pc)'
      <4>1. Delivered(pc)
        BY <2>3, <2>4
      <4>2. Selects(design)' = Selects(design)
        BY <3>2 DEF Selects
      <4>. QED BY <3>1, <3>2, <4>1, <4>2 DEF Delivered
    <3>5. Transfers'
      BY <2>3, <3>1, <3>2, <3>4 DEF Transfers
    <3>6. Reached'
      <4>1. Selects(design)' = Selects(design) /\ Allowed(design)' = Allowed(design)
        BY <3>2 DEF Selects, Allowed
      <4>. QED BY <3>1, <3>2, <4>1, Zenon DEF BoardInv, Reached
    <3>7. Clocked'
      <4>1. \A n, d, r : Gap(n, d, r)' = Gap(n, d, r)
        BY <3>2 DEF Gap
      <4>2. Gap(divisors[1], divisors[2], Wanted)' = Gap(divisors[1], divisors[2], Wanted)
        BY <3>2 DEF Gap
      <4>. QED BY <3>1, <3>2, <4>1, <4>2, SMT DEF BoardInv, Clocked
    <3>. QED BY <3>3, <3>5, <3>6, <3>7 DEF BoardInv
  <2>5. CASE ~ (intr \cap Errors = {})
    <3>1. Fails("I2C_WRITE")
      BY <2>1, <2>5, Zenon
    <3>2. pc \notin {"start", "pcie", "done"}
      BY <2>3 DEF SendSteps
    <3>. QED BY <2>2, <3>1, <3>2, FailureKeepsInv
  <2>. QED BY <2>4, <2>5, Zenon
<1>5. CASE SendTimesOut
  <2>1. io = "poll" /\ Fails("I2C_WRITE")
    BY <1>5, Zenon DEF SendTimesOut
  <2>2. UNCHANGED Rest
    BY <1>5, Zenon DEF SendTimesOut, clockVars, deviceVars, Rest
  <2>3. pc \notin {"start", "pcie", "done"}
    BY <2>1 DEF BoardInv, Transfers, SendSteps
  <2>. QED BY <2>1, <2>2, <2>3, FailureKeepsInv
<1>6. CASE WaitIdle
  <2>1. io = "after" /\ bus = "idle" /\ Succeeds
    BY <1>6, Zenon DEF WaitIdle
  <2>2. UNCHANGED Rest
    BY <1>6, Zenon DEF WaitIdle, clockVars, deviceVars, Rest
  <2>3. pc \in SendSteps
    BY <2>1 DEF BoardInv, Transfers
  <2>. QED BY <2>1, <2>2, <2>3, SuccessKeepsInv DEF SendSteps
<1>7. CASE CheckLanes
  <2>1. /\ pc = "check"
        /\ IF Allowed(design) THEN Succeeds ELSE Fails("GT_LANE_SELECTION")
    BY <1>7, Zenon DEF CheckLanes
  <2>2. UNCHANGED Rest
    BY <1>7, Zenon DEF CheckLanes, clockVars, deviceVars, Rest
  <2>3. io = "before"
    BY <2>1 DEF BoardInv, Transfers, SendSteps
  <2>4. CASE Allowed(design)
    BY <2>1, <2>2, <2>3, <2>4, SuccessKeepsInv
  <2>5. CASE ~ Allowed(design)
    BY <2>1, <2>2, <2>5, FailureKeepsInv
  <2>. QED BY <2>4, <2>5
<1>8. CASE PcieReset
  <2>1. pc = "pcie" /\ pcieReset' = (design[0] = "pcie") /\ pc' = "done"
    BY <1>8, Zenon DEF PcieReset
  <2>2. /\ io' = io /\ result' = result /\ fmc' = fmc /\ design' = design
        /\ inputClock' = inputClock /\ clock' = clock /\ divisors' = divisors
        /\ master' = master /\ sending' = sending /\ intr' = intr /\ bus' = bus
        /\ expander' = expander /\ channel' = channel /\ regulator' = regulator
    BY <1>8, Zenon DEF PcieReset, clockVars, deviceVars
  <2>3. Typed'
    <3>1. Typed
      BY DEF BoardInv
    <3>2. /\ pc' \in SendSteps \cup {"start", "ioRate", "check", "muxRate", "pcie", "done"}
          /\ pcieReset' \in BOOLEAN
      BY <2>1
    <3>. QED BY <2>2, <3>1, <3>2 DEF Typed, BoardTypeOK
  <2>4. Transfers'
    <3>1. io = "before"
      BY <2>1 DEF BoardInv, Transfers, SendSteps, Typed, BoardTypeOK
    <3>. QED BY <2>1, <2>2, <3>1 DEF Transfers
  <2>5. Reached'
    <3>1. Selects(design)' = Selects(design) /\ Allowed(design)' = Allowed(design)
      BY <2>2 DEF Selects, Allowed
    <3>. QED BY <2>1, <2>2, <3>1 DEF BoardInv, Reached
  <2>6. Clocked'
    BY <2>1, Zenon DEF Clocked
  <2>. QED BY <2>3, <2>4, <2>5, <2>6 DEF BoardInv
<1>9. ASSUME UNCHANGED Loader, master' = master, expander' = expander, channel' = channel,
             regulator' = regulator, sending' = sending, intr' = intr,
             bus' \in {"idle", "ours", "other"},
             bus' = "ours" => bus = "ours" \/ sending # "none"
      PROVE  BoardInv'
  <2>1. /\ sending \in SendSteps \cup {"none"} /\ intr \subseteq Errors \cup {"COMP"}
        /\ expander \in [driven : BOOLEAN, selects : SUBSET Lanes]
        /\ channel \in BOOLEAN /\ regulator \in BOOLEAN
    BY Zenon DEF BoardInv, Typed, BoardTypeOK, Reached
  <2>. QED BY <1>9, <2>1, BusKeepsInv
<1>10. CASE BusStarts \/ BusStops \/ OtherMaster
  <2>1. /\ UNCHANGED Loader /\ master' = master /\ expander' = expander /\ channel' = channel
        /\ regulator' = regulator /\ sending' = sending /\ intr' = intr
    BY <1>10, Zenon DEF BusStarts, BusStops, OtherMaster, boardVars, clockVars, deviceVars, Loader
  <2>2. bus' \in {"idle", "ours", "other"} /\ (bus' = "ours" => sending # "none")
    BY <1>10 DEF BusStarts, BusStops, OtherMaster
  <2>. QED BY <1>9, <2>1, <2>2
<1>11. CASE BusDelivers
  <2>1. /\ bus = "ours" /\ sending # "none" /\ sending' = "none" /\ intr' = intr \cup {"COMP"}
        /\ channel' = (channel \/ sending = "channel")
        /\ regulator' = (regulator \/ sending = "regulator")
        /\ expander' = CASE sending = "direction" -> [expander EXCEPT !.driven = TRUE]
                         [] sending = "lanes" -> [expander EXCEPT !.selects = Selects(design)]
                         [] OTHER -> expander
    BY <1>11, Zenon DEF BusDelivers
  <2>2. UNCHANGED Loader /\ master' = master /\ bus' = bus
    BY <1>11, Zenon DEF BusDelivers, boardVars, clockVars, Loader
  <2>3. /\ sending \in SendSteps /\ intr \subseteq Errors \cup {"COMP"}
        /\ expander \in [driven : BOOLEAN, selects : SUBSET Lanes]
        /\ channel \in BOOLEAN /\ regulator \in BOOLEAN
        /\ bus \in {"idle", "ours", "other"}
    BY <2>1, Zenon DEF BoardInv, Typed, BoardTypeOK, Reached
  <2>4. Selects(design) \in SUBSET Lanes
    BY DEF Selects
  <2>5. /\ expander' \in [driven : BOOLEAN, selects : SUBSET Lanes]
        /\ expander.driven => expander'.driven
        /\ expander.selects = Selects(design) => expander'.selects = Selects(design)
        /\ sending = "direction" => expander'.driven
        /\ sending = "lanes" => expander'.selects = Selects(design)
    <3>1. CASE sending = "direction"
      <4>1. expander' = [expander EXCEPT !.driven = TRUE]
        BY <2>1, <3>1
      <4>. QED BY <2>3, <3>1, <4>1
    <3>2. CASE sending = "lanes"
      <4>1. expander' = [expander EXCEPT !.selects = Selects(design)]
        BY <2>1, <3>2
      <4>. QED BY <2>3, <2>4, <3>2, <4>1
    <3>3. CASE sending \notin {"direction", "lanes"}
      <4>1. expander' = expander
        BY <2>1, <3>3
      <4>. QED BY <2>3, <3>3, <4>1
    <3>. QED BY <3>1, <3>2, <3>3
  <2>6. /\ sending' \in SendSteps \cup {"none"} /\ intr' \subseteq Errors \cup {"COMP"}
        /\ intr' # {} /\ channel' \in BOOLEAN /\ regulator' \in BOOLEAN
        /\ bus' \in {"idle", "ours", "other"}
        /\ channel => channel'
        /\ regulator => regulator'
    BY <2>1, <2>2, <2>3
  <2>7. /\ channel => channel'
        /\ regulator => regulator'
        /\ sending = "channel" => channel'
        /\ sending = "regulator" => regulator'
    BY <2>1, Zenon
  <2>8. \/ sending = "direction" /\ expander'.driven
        \/ sending = "lanes" /\ expander'.selects = Selects(design)
        \/ sending = "channel" /\ channel'
        \/ sending = "regulator" /\ regulator'
    BY <2>3, <2>5, <2>7 DEF SendSteps
  <2>. QED BY <2>1, <2>2, <2>5, <2>6, <2>7, <2>8, BusKeepsInv
<1>12. CASE BusRefuses \/ BusIsLost
  <2>1. /\ bus = "ours" /\ sending # "none" /\ sending' = "none"
        /\ \/ bus' = bus /\ intr' = intr \cup {"NACK"}
           \/ bus' = "other" /\ intr' = intr \cup {"ARB_LOST"}
    BY <1>12, Zenon DEF BusRefuses, BusIsLost
  <2>2. /\ UNCHANGED Loader /\ master' = master /\ expander' = expander /\ channel' = channel
        /\ regulator' = regulator
    BY <1>12, Zenon DEF BusRefuses, BusIsLost, boardVars, clockVars, deviceVars, Loader
  <2>3. /\ intr \subseteq Errors \cup {"COMP"}
        /\ expander \in [driven : BOOLEAN, selects : SUBSET Lanes]
        /\ channel \in BOOLEAN /\ regulator \in BOOLEAN
    BY Zenon DEF BoardInv, Typed, BoardTypeOK, Reached
  <2>4. /\ intr' \subseteq Errors \cup {"COMP"} /\ intr' # {} /\ ~ (intr' \cap Errors = {})
        /\ bus' \in {"idle", "ours", "other"} /\ sending' \in SendSteps \cup {"none"}
    BY <2>1, <2>3 DEF Errors
  <2>. QED BY <2>1, <2>2, <2>3, <2>4, BusKeepsInv
<1>13. CASE UNCHANGED vars
  <2>1. /\ UNCHANGED Loader /\ master' = master /\ expander' = expander /\ channel' = channel
        /\ regulator' = regulator /\ sending' = sending /\ intr' = intr /\ bus' = bus
    BY <1>13, Zenon DEF vars, boardVars, clockVars, deviceVars, Loader
  <2>2. bus \in {"idle", "ours", "other"}
    BY Zenon DEF BoardInv, Typed, BoardTypeOK
  <2>. QED BY <1>9, <2>1, <2>2
<1>. QED BY <1>1, <1>2, <1>3, <1>4, <1>5, <1>6, <1>7, <1>8, <1>10, <1>11, <1>12, <1>13, Zenon
         DEF Next, BoardStep, BusStep

LEMMA BoardAlways == Spec => []BoardInv
BY InvInitially, InvKept, PTL DEF Spec
-----------------------------------------------------------------------------
(* The results. *)

(* Every variable has its type, and the dividers fit their two and six bit fields,
   for every clock of the controller. *)
THEOREM BoardTypes == Spec => []BoardTypeOK
<1>1. BoardInv => BoardTypeOK
  BY Zenon DEF BoardInv, Typed
<1>. QED BY <1>1, BoardAlways, PTL

(* When XFsbl_BoardInit succeeds the expander connects every lane as the design
   wants, and when XFsbl_FMCEnable does the regulator is on: whatever the other
   master of the bus does, whichever devices refuse, and whichever transfer was
   given up while it was under way. *)
THEOREM BoardIsAsTold == Spec => []SuccessIsOnTheBoard
<1>1. BoardInv => SuccessIsOnTheBoard
  <2>. SUFFICES ASSUME BoardInv PROVE SuccessIsOnTheBoard
    OBVIOUS
  <2>1. fmc => regulator /\ channel
    BY Zenon DEF BoardInv, Reached
  <2>2. ASSUME result = "success"
        PROVE  /\ expander.driven
               /\ \A l \in Lanes : IF l \in expander.selects
                                   THEN design[l] = Connected[l]
                                   ELSE design[l] \in {"pcie", "powerdown"}
    <3>1. /\ expander.driven /\ expander.selects = Selects(design)
          /\ Allowed(design)
      BY <2>2, Zenon DEF BoardInv, Reached
    <3>. QED BY <3>1 DEF Selects, Allowed
  <2>. QED BY <2>1, <2>2 DEF SuccessIsOnTheBoard
<1>. QED BY <1>1, BoardAlways, PTL

(* For every clock of the controller whose ratio to the wanted rate the second
   divider can make, XIicPs_SetSClk chooses dividers that no other pair of the
   four by sixty-four is nearer than. *)
THEOREM DividersAreNearest == Spec => []NearestRate
<1>1. BoardInv => NearestRate
  <2>. SUFFICES ASSUME BoardInv, pc \in {"direction", "channel"},
                       inputClock \div (22 * Corrected(clock)) < 64
                PROVE  \A a \in 0..3, b \in 0..63 :
                         Gap(divisors[1], divisors[2], Corrected(clock))
                           <= Gap(a, b, Corrected(clock))
    BY Zenon DEF NearestRate
  <2>1. Corrected(clock) = Wanted
    BY TriesType, Zenon DEF BoardInv, Clocked, Typed
  <2>. QED BY <2>1, Zenon DEF BoardInv, Clocked
<1>. QED BY <1>1, BoardAlways, PTL

(* The multiplexer is spoken to when the expander has it out of reset, the
   regulator when the multiplexer's channel is selected, with any designs. *)
THEOREM BoardInOrder == Spec => SpokenToInOrder
<1>1. BoardInv /\ [Next]_vars => [sending' # sending /\ sending' # "none" => Answers(sending')]_vars
  <2>. SUFFICES ASSUME BoardInv, Next, sending' # sending, sending' # "none"
                PROVE  Answers(sending')
    BY Zenon DEF vars
  <2>1. StartSend
    BY Zenon DEF Next, BoardStep, BusStep, InitI2c, SetSClk, PollSend, SendTimesOut, WaitIdle,
                 CheckLanes, PcieReset, BusStarts, BusDelivers, BusRefuses, BusIsLost, BusStops,
                 OtherMaster
  <2>2. pc \in SendSteps /\ sending' = pc
    BY <2>1, Zenon DEF StartSend
  <2>3. /\ pc \in {"channel", "regulator"} => expander.driven
        /\ pc = "regulator" => channel
    BY DEF BoardInv, Reached
  <2>. QED BY <2>2, <2>3 DEF Answers, SendSteps
<1>. QED BY <1>1, BoardAlways, PTL DEF Spec, SpokenToInOrder

(* XIicPs_MasterSendPolled starts no transfer while one of the loader's own has the
   bus, after errors and time-outs too. *)
THEOREM OneTransfer == Spec => OneTransferAtATime
<1>1. BoardInv /\ [Next]_vars => [io = "before" /\ io' = "poll" => bus # "ours"]_vars
  <2>. SUFFICES ASSUME BoardInv, Next, io = "before", io' = "poll" PROVE bus # "ours"
    BY Zenon DEF vars
  <2>1. io' # io /\ io' # "after" /\ io' # "before"
    OBVIOUS
  <2>2. CASE StartSend
    BY <2>2 DEF StartSend, SendSteps, BoardInv, Transfers
  <2>3. CASE ~ StartSend
    BY <2>1, <2>3, Zenon DEF Next, BoardStep, BusStep, InitI2c, SetSClk, PollSend, SendTimesOut,
       WaitIdle, CheckLanes, PcieReset, BusStarts, BusDelivers, BusRefuses, BusIsLost, BusStops,
       OtherMaster, boardVars, Succeeds, Fails
  <2>. QED BY <2>2, <2>3, Zenon
<1>. QED BY <1>1, BoardAlways, PTL DEF Spec, OneTransferAtATime
=============================================================================
