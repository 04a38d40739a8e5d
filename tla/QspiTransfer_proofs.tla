-------------------------- MODULE QspiTransfer_proofs --------------------------
(****************************************************************************)
(* What a transfer of the QSPI driver leaves behind, for messages of any    *)
(* length and FIFOs of any size: the words that the entries of the generic  *)
(* FIFO still move are those the driver and the DMA count on, so that when  *)
(* the last entry is taken every FIFO is empty. And what the transfer does: *)
(* the bytes of its messages pass in order and those received are each at   *)
(* their place in the buffer, so that it is one transaction.                *)
(****************************************************************************)
EXTENDS QspiTransfer, Integers, FiniteSetTheorems, SequenceTheorems, WellFoundedInduction, TLAPS

IsSequence(s) == s \in Seq(Range(s))

LEMMA SomeSequence ==
  ASSUME NEW S, NEW s \in Seq(S)
  PROVE  IsSequence(s)
BY SeqOfRange DEF IsSequence

LEMMA LengthOf ==
  ASSUME NEW s, IsSequence(s)
  PROVE  Len(s) \in Nat /\ (Len(s) = 0 <=> s = <<>>)
BY EmptySeq, LenProperties DEF IsSequence

LEMMA Lengthened ==
  ASSUME NEW s, NEW t, IsSequence(s), IsSequence(t)
  PROVE  IsSequence(s \o t) /\ Len(s \o t) = Len(s) + Len(t)
<1>. DEFINE S == Range(s) \cup Range(t)
<1>1. s \in Seq(S) /\ t \in Seq(S)
  BY SeqMonotonic DEF IsSequence
<1>. HIDE DEF S
<1>. QED BY <1>1, ConcatProperties, SomeSequence

LEMMA OneAppended ==
  ASSUME NEW s, NEW e, IsSequence(s)
  PROVE  IsSequence(Append(s, e)) /\ Len(Append(s, e)) = Len(s) + 1 /\ Append(s, e) # <<>>
<1>. DEFINE S == Range(s) \cup {e}
<1>1. s \in Seq(S) /\ e \in S
  BY SeqMonotonic DEF IsSequence
<1>. HIDE DEF S
<1>. QED BY <1>1, AppendProperties, SomeSequence

LEMMA OneTaken ==
  ASSUME NEW s, IsSequence(s), s # <<>>
  PROVE  IsSequence(Tail(s)) /\ Len(Tail(s)) = Len(s) - 1 /\ Len(s) \in Nat \ {0}
BY HeadTailProperties, LengthOf, SomeSequence DEF IsSequence

LEMMA SomeTaken ==
  ASSUME NEW s, NEW n \in Nat, IsSequence(s), n <= Len(s)
  PROVE  /\ IsSequence(SubSeq(s, n + 1, Len(s)))
         /\ Len(SubSeq(s, n + 1, Len(s))) = Len(s) - n
<1>. DEFINE t == SubSeq(s, n + 1, Len(s))
<1>1. Len(s) \in Nat /\ n + 1 \in Int
  BY LengthOf
<1>2. \A i \in n + 1..Len(s) : s[i] \in Range(s)
  BY <1>1, ElementOfSeq DEF IsSequence
<1>3. t \in Seq(Range(s)) /\ Len(t) = IF n + 1 <= Len(s) THEN Len(s) - (n + 1) + 1 ELSE 0
  BY <1>1, <1>2, SubSeqProperties
<1>. HIDE DEF t
<1>4. IsSequence(t) /\ Len(t) = Len(s) - n
  BY <1>1, <1>3, SomeSequence
<1>. QED BY <1>4 DEF t
-----------------------------------------------------------------------------
(* The least-number principle, from the well-foundedness of the naturals. *)
LEMMA LeastNatural ==
  ASSUME NEW S, S \subseteq Nat, S # {}
  PROVE  \E m \in S : \A n \in S : m <= n
<1>. DEFINE R == OpToRel(<, Nat)
<1>1. IsWellFoundedOn(R, Nat)
  BY NatLessThanWellFounded, Zenon
<1>. HIDE DEF R
<1>2. PICK m \in S : \A n \in S : ~ (<<n, m>> \in R)
  BY <1>1, WFMin
<1>3. \A n, k \in Nat : n < k => <<n, k>> \in R
  BY DEF R, OpToRel
<1>4. \A n \in S : ~ (n < m)
  BY <1>2, <1>3, Zenon
<1>. QED BY <1>4
-----------------------------------------------------------------------------
(* Words of a count. *)

LEMMA WordsOfCount ==
  ASSUME NEW n \in Nat
  PROVE  Words(n) \in Nat /\ (Words(n) = 0 <=> n = 0)
BY DEF Words

LEMMA WordsAdd ==
  ASSUME NEW m \in Nat, NEW n \in Nat, m % 4 = 0
  PROVE  Words(m + n) = Words(m) + Words(n)
BY DEF Words

LEMMA WholeWords ==
  ASSUME NEW n \in Nat, n % 4 = 0
  PROVE  Words(n) = n \div 4
BY DEF Words

LEMMA FourLess ==
  ASSUME NEW n \in Nat, n > 0, n % 4 = 0
  PROVE  /\ n - 4 \in Nat /\ (n - 4) % 4 = 0 /\ (n - 4) \div 4 = n \div 4 - 1
         /\ n \div 4 \in Nat /\ (n - 4 = 0 <=> n = 4)
OBVIOUS

LEMMA OneWordLess ==
  ASSUME NEW n \in Nat, n > 0
  PROVE  MinOf(4, n) \in 1..n /\ Words(n - MinOf(4, n)) = Words(n) - 1
BY DEF Words, MinOf
-----------------------------------------------------------------------------
(* The words that entries move. *)

DataKinds == {"TX", "DUMMY", "RX"}

EntryType ==
  {e \in [kind: DataKinds \cup {"SELECT", "DESELECT", "NONE"}, left: Nat] :
     e.left > 0 => e.kind \in DataKinds}

WordsOf(e, kind) == IF e.kind = kind THEN Words(e.left) ELSE 0

(* The words of a kind are n, as f runs them up. *)
RunsUp(f, s, kind, n) ==
  /\ f \in [0..Len(s) -> Nat] /\ f[0] = 0 /\ f[Len(s)] = n
  /\ \A i \in 1..Len(s) : f[i] = f[i - 1] + WordsOf(s[i], kind)

Sums(s, kind, n) == \E f : RunsUp(f, s, kind, n)

LEMMA WordsOfType ==
  ASSUME NEW e \in EntryType, NEW kind
  PROVE  WordsOf(e, kind) \in Nat
BY WordsOfCount DEF EntryType, WordsOf

LEMMA SumIsNatural ==
  ASSUME NEW s \in Seq(EntryType), NEW kind, NEW n, Sums(s, kind, n)
  PROVE  n \in Nat
<1>1. PICK f : RunsUp(f, s, kind, n)
  BY DEF Sums
<1>2. Len(s) \in Nat
  BY LenProperties
<1>. QED BY <1>1, <1>2 DEF RunsUp

LEMMA SumOfNone ==
  ASSUME NEW kind
  PROVE  Sums(<<>>, kind, 0) /\ \A n : Sums(<<>>, kind, n) => n = 0
<1>1. Len(<<>>) = 0
  BY EmptySeq
<1>2. RunsUp([i \in 0..0 |-> 0], <<>>, kind, 0)
  BY <1>1 DEF RunsUp
<1>. QED BY <1>1, <1>2 DEF Sums, RunsUp

LEMMA SumOfTail ==
  ASSUME NEW s \in Seq(EntryType), NEW kind, NEW n, Sums(s, kind, n), s # <<>>
  PROVE  Sums(Tail(s), kind, n - WordsOf(Head(s), kind))
<1>1. PICK f : RunsUp(f, s, kind, n)
  BY DEF Sums
<1>. DEFINE w == WordsOf(Head(s), kind)
            t == Tail(s)
<1>2. /\ Len(s) \in Nat \ {0} /\ Len(t) = Len(s) - 1 /\ t \in Seq(EntryType)
      /\ Head(s) = s[1] /\ \A i \in 1..Len(t) : t[i] = s[i + 1]
  BY HeadTailProperties, LenProperties, EmptySeq
<1>3. w \in Nat /\ \A i \in 1..Len(s) : WordsOf(s[i], kind) \in Nat
  BY <1>2, WordsOfType, ElementOfSeq, HeadTailProperties
<1>. HIDE DEF t
<1>4. /\ f \in [0..Len(s) -> Nat] /\ f[0] = 0 /\ f[1] = w /\ f[Len(s)] = n
      /\ \A i \in 1..Len(s) : f[i] = f[i - 1] + WordsOf(s[i], kind)
  <2>1. /\ f \in [0..Len(s) -> Nat] /\ f[0] = 0 /\ f[Len(s)] = n
        /\ \A i \in 1..Len(s) : f[i] = f[i - 1] + WordsOf(s[i], kind)
    BY <1>1 DEF RunsUp
  <2>2. f[1] = f[0] + w
    BY <1>2, <2>1
  <2>. HIDE DEF w
  <2>. QED BY <1>3, <2>1, <2>2
<1>5. \A i \in 1..Len(s) : f[i] = f[i - 1] + WordsOf(s[i], kind) /\ f[i] \in Nat /\ f[i - 1] \in Nat
  <2>. SUFFICES ASSUME NEW i \in 1..Len(s) PROVE f[i] \in Nat /\ f[i - 1] \in Nat
    BY <1>4, Zenon
  <2>1. i \in 0..Len(s) /\ i - 1 \in 0..Len(s)
    BY <1>2
  <2>. QED BY <1>4, <2>1
<1>. HIDE DEF w
<1>6. \A i \in 1..Len(s) : f[i] >= w
  <2>. DEFINE S == {i \in 1..Len(s) : ~ f[i] >= w}
  <2>. SUFFICES ASSUME S # {} PROVE FALSE
    OBVIOUS
  <2>0. S \subseteq Nat
    OBVIOUS
  <2>1. PICK m \in S : \A k \in S : m <= k
    <3>. HIDE DEF S
    <3>. QED BY <2>0, LeastNatural
  <2>2. m \in 1..Len(s) /\ ~ f[m] >= w
    OBVIOUS
  <2>3. m # 1
    BY <1>3, <1>4, <2>2
  <2>4. m - 1 \in 1..Len(s) /\ f[m - 1] >= w
    BY <1>2, <2>1, <2>2, <2>3
  <2>. QED BY <1>3, <1>5, <2>2, <2>4
<1>. DEFINE g == [i \in 0..Len(t) |-> f[i + 1] - w]
<1>7. g \in [0..Len(t) -> Nat]
  <2>. SUFFICES ASSUME NEW i \in 0..Len(t) PROVE f[i + 1] - w \in Nat
    OBVIOUS
  <2>1. i + 1 \in 1..Len(s)
    BY <1>2
  <2>. QED BY <1>3, <1>5, <1>6, <2>1
<1>8. g[0] = 0 /\ g[Len(t)] = n - w
  <2>1. 0 \in 0..Len(t) /\ Len(t) \in 0..Len(t) /\ Len(t) + 1 = Len(s)
    BY <1>2
  <2>. QED BY <1>3, <1>4, <2>1
<1>9. \A i \in 1..Len(t) : g[i] = g[i - 1] + WordsOf(t[i], kind)
  <2>. SUFFICES ASSUME NEW i \in 1..Len(t) PROVE g[i] = g[i - 1] + WordsOf(t[i], kind)
    OBVIOUS
  <2>1. i + 1 \in 1..Len(s) /\ i \in 1..Len(s) /\ i \in Nat /\ i - 1 \in 0..Len(t)
    BY <1>2
  <2>2. PICK x : x = f[i + 1]
    OBVIOUS
  <2>3. PICK y : y = f[i]
    OBVIOUS
  <2>4. PICK z : z = WordsOf(t[i], kind)
    OBVIOUS
  <2>5. x = y + z /\ x \in Nat /\ y \in Nat /\ z \in Nat
    <3>1. PICK k : k = i + 1
      OBVIOUS
    <3>2. k \in 1..Len(s) /\ k - 1 = i
      BY <2>1, <3>1
    <3>3. f[k] = f[i] + WordsOf(s[k], kind) /\ f[k] \in Nat /\ f[i] \in Nat
      BY <1>5, <3>2
    <3>4. WordsOf(s[k], kind) = z /\ WordsOf(s[k], kind) \in Nat
      BY <1>2, <1>3, <2>4, <3>1, <3>2
    <3>. QED BY <2>2, <2>3, <3>1, <3>3, <3>4
  <2>6. g[i] = x - w /\ g[i - 1] = y - w
    BY <2>1, <2>2, <2>3
  <2>. QED BY <1>3, <2>4, <2>5, <2>6
<1>. QED
  <2>1. RunsUp(g, t, kind, n - w)
    BY <1>7, <1>8, <1>9 DEF RunsUp
  <2>. QED BY <2>1 DEF Sums, t, w

LEMMA SumOfBoth ==
  ASSUME NEW s \in Seq(EntryType), NEW t \in Seq(EntryType), NEW kind, NEW m, NEW n,
         Sums(s, kind, m), Sums(t, kind, n)
  PROVE  Sums(s \o t, kind, m + n)
<1>1. PICK f : RunsUp(f, s, kind, m)
  BY DEF Sums
<1>2. PICK g : RunsUp(g, t, kind, n)
  BY DEF Sums
<1>. DEFINE st == s \o t
<1>3. /\ Len(s) \in Nat /\ Len(t) \in Nat /\ Len(st) = Len(s) + Len(t)
      /\ \A i \in 1..Len(s) + Len(t) : st[i] = IF i <= Len(s) THEN s[i] ELSE t[i - Len(s)]
  BY ConcatProperties, LenProperties
<1>. HIDE DEF st
<1>4. m \in Nat /\ n \in Nat
  BY SumIsNatural
<1>. DEFINE h == [i \in 0..Len(st) |-> IF i <= Len(s) THEN f[i] ELSE m + g[i - Len(s)]]
<1>5. /\ f \in [0..Len(s) -> Nat] /\ f[0] = 0 /\ f[Len(s)] = m
      /\ \A i \in 1..Len(s) : f[i] = f[i - 1] + WordsOf(s[i], kind)
  BY <1>1 DEF RunsUp
<1>6. /\ g \in [0..Len(t) -> Nat] /\ g[0] = 0 /\ g[Len(t)] = n
      /\ \A i \in 1..Len(t) : g[i] = g[i - 1] + WordsOf(t[i], kind)
  BY <1>2 DEF RunsUp
<1>7. h \in [0..Len(st) -> Nat]
  <2>. SUFFICES ASSUME NEW i \in 0..Len(st)
                PROVE  (IF i <= Len(s) THEN f[i] ELSE m + g[i - Len(s)]) \in Nat
    OBVIOUS
  <2>1. CASE i <= Len(s)
    BY <1>3, <1>5, <2>1
  <2>2. CASE ~ i <= Len(s)
    <3>1. i - Len(s) \in 0..Len(t)
      BY <1>3, <2>2
    <3>2. g[i - Len(s)] \in Nat
      BY <1>6, <3>1
    <3>. QED BY <1>4, <2>2, <3>2
  <2>. QED BY <2>1, <2>2
<1>8. h[0] = 0
  BY <1>3, <1>5
<1>9. h[Len(st)] = m + n
  <2>1. h[Len(st)] = IF Len(st) <= Len(s) THEN f[Len(st)] ELSE m + g[Len(st) - Len(s)]
    BY <1>3
  <2>2. CASE Len(t) = 0
    BY <1>3, <1>4, <1>5, <1>6, <2>1, <2>2
  <2>3. CASE Len(t) # 0
    <3>1. Len(st) - Len(s) = Len(t) /\ ~ Len(st) <= Len(s)
      BY <1>3, <2>3
    <3>. QED BY <1>6, <2>1, <3>1
  <2>. QED BY <2>2, <2>3
<1>10. \A i \in 1..Len(st) : h[i] = h[i - 1] + WordsOf(st[i], kind)
  <2>. SUFFICES ASSUME NEW i \in 1..Len(st) PROVE h[i] = h[i - 1] + WordsOf(st[i], kind)
    OBVIOUS
  <2>1. i \in Nat \ {0} /\ i - 1 \in 0..Len(st) /\ i \in 0..Len(st)
    BY <1>3
  <2>2. CASE i <= Len(s)
    <3>1. h[i] = f[i] /\ h[i - 1] = f[i - 1] /\ st[i] = s[i] /\ i \in 1..Len(s)
      BY <1>3, <2>1, <2>2
    <3>. QED BY <1>5, <3>1
  <2>3. CASE ~ i <= Len(s)
    <3>. DEFINE j == i - Len(s)
    <3>1. j \in 1..Len(t) /\ j - 1 = (i - 1) - Len(s) /\ j - 1 \in 0..Len(t) /\ j \in 0..Len(t)
      BY <1>3, <2>1, <2>3
    <3>2. st[i] = t[j] /\ h[i] = m + g[j]
      BY <1>3, <2>1, <2>3
    <3>3. h[i - 1] = m + g[j - 1]
      <4>1. CASE i - 1 <= Len(s)
        <5>1. i - 1 = Len(s) /\ j - 1 = 0
          BY <1>3, <2>1, <2>3, <4>1
        <5>2. h[i - 1] = f[Len(s)]
          BY <2>1, <4>1, <5>1
        <5>. QED BY <1>4, <1>5, <1>6, <5>1, <5>2
      <4>2. CASE ~ i - 1 <= Len(s)
        BY <2>1, <3>1, <4>2
      <4>. QED BY <4>1, <4>2
    <3>. HIDE DEF j, h
    <3>4. PICK x : x = g[j]
      OBVIOUS
    <3>5. PICK y : y = g[j - 1]
      OBVIOUS
    <3>6. PICK z : z = WordsOf(t[j], kind)
      OBVIOUS
    <3>7. x = y + z /\ x \in Nat /\ y \in Nat
      BY <1>6, <3>1, <3>4, <3>5, <3>6
    <3>8. z \in Nat
      BY <3>1, <3>6, WordsOfType, ElementOfSeq
    <3>. QED BY <1>4, <3>2, <3>3, <3>4, <3>5, <3>6, <3>7, <3>8
  <2>. QED BY <2>2, <2>3
<1>. QED
  <2>1. RunsUp(h, st, kind, m + n)
    BY <1>7, <1>8, <1>9, <1>10 DEF RunsUp
  <2>. QED BY <2>1 DEF Sums, st

LEMMA SumOfOne ==
  ASSUME NEW e \in EntryType, NEW kind
  PROVE  <<e>> \in Seq(EntryType) /\ Sums(<<e>>, kind, WordsOf(e, kind))
<1>1. <<e>> \in Seq(EntryType) /\ Len(<<e>>) = 1 /\ <<e>>[1] = e
  OBVIOUS
<1>. DEFINE s == <<e>>
            w == WordsOf(e, kind)
            f == [i \in 0..1 |-> IF i = 0 THEN 0 ELSE w]
<1>2. w \in Nat
  BY WordsOfType
<1>. HIDE DEF s
<1>3. Len(s) = 1 /\ s[1] = e
  BY <1>1 DEF s
<1>4. RunsUp(f, s, kind, w)
  <2>1. f \in [0..1 -> Nat] /\ f[0] = 0 /\ f[1] = w
    BY <1>2
  <2>2. \A i \in 1..1 : i = 1
    OBVIOUS
  <2>. HIDE DEF f
  <2>3. w = 0 + WordsOf(s[1], kind)
    BY <1>2, <1>3
  <2>4. \A i \in 1..1 : f[i] = f[i - 1] + WordsOf(s[i], kind)
    BY <2>1, <2>2, <2>3
  <2>. QED BY <1>3, <2>1, <2>4 DEF RunsUp
<1>. QED BY <1>1, <1>4 DEF Sums, s
-----------------------------------------------------------------------------
(* The split of a count into entries. *)

LEMMA Quotient ==
  ASSUME NEW x \in Nat, NEW d \in Nat \ {0}
  PROVE  x \div d \in Nat /\ d * (x \div d) <= x /\ x < d * (x \div d) + d
OBVIOUS

LEMMA QuotientIs ==
  ASSUME NEW x \in Nat, NEW d \in Nat \ {0}, NEW q \in Nat, d * q <= x, x < d * q + d
  PROVE  x \div d = q
<1>. DEFINE p == x \div d
<1>1. p \in Nat /\ d * p <= x /\ x < d * p + d
  BY Quotient
<1>. HIDE DEF p
<1>2. ~ p < q
  <2>. SUFFICES ASSUME p < q PROVE FALSE
    OBVIOUS
  <2>1. PICK e \in Nat : q = p + 1 + e
    <3>1. q - (p + 1) \in Nat /\ q = p + 1 + (q - (p + 1))
      BY <1>1
    <3>. QED BY <3>1
  <2>2. d * q = d * p + d + d * e /\ d * e >= 0 /\ d * p \in Nat
    BY <1>1, <2>1
  <2>. QED BY <1>1, <2>2
<1>3. ~ q < p
  <2>. SUFFICES ASSUME q < p PROVE FALSE
    OBVIOUS
  <2>1. PICK e \in Nat : p = q + 1 + e
    <3>1. p - (q + 1) \in Nat /\ p = q + 1 + (p - (q + 1))
      BY <1>1
    <3>. QED BY <3>1
  <2>2. d * p = d * q + d + d * e /\ d * e >= 0 /\ d * q \in Nat
    BY <1>1, <2>1
  <2>. QED BY <1>1, <2>2
<1>. QED BY <1>1, <1>2, <1>3 DEF p

(* A bit is shifted out of the quotient as it is out of the number. *)
LEMMA HalfOfQuotient ==
  ASSUME NEW x \in Nat, NEW d \in Nat \ {0}
  PROVE  (x \div 2) \div d = (x \div d) \div 2
<1>. DEFINE q == x \div d
            p == q \div 2
            h == x \div 2
<1>1. q \in Nat /\ d * q <= x /\ x < d * q + d
  BY Quotient
<1>2. h \in Nat /\ 2 * h <= x /\ x <= 2 * h + 1
  OBVIOUS
<1>. HIDE DEF q, h
<1>3. p \in Nat /\ (q = 2 * p \/ q = 2 * p + 1)
  BY <1>1
<1>. HIDE DEF p
<1>4. d * p \in Nat /\ (d * q = 2 * (d * p) \/ d * q = 2 * (d * p) + d)
  <2>1. d * p \in Nat
    BY <1>3
  <2>2. CASE q = 2 * p
    BY <1>3, <2>1, <2>2
  <2>3. CASE q = 2 * p + 1
    BY <1>3, <2>1, <2>3
  <2>. QED BY <1>3, <2>1, <2>2, <2>3
<1>5. PICK dp : dp = d * p
  OBVIOUS
<1>6. PICK dq : dq = d * q
  OBVIOUS
<1>7. dp \in Nat /\ (dq = 2 * dp \/ dq = 2 * dp + d) /\ dq <= x /\ x < dq + d
  BY <1>1, <1>4, <1>5, <1>6
<1>8. dp <= h /\ h < dp + d
  BY <1>2, <1>7
<1>9. h \div d = p
  BY <1>2, <1>3, <1>5, <1>8, QuotientIs
<1>. QED BY <1>9 DEF h, p, q

(* One turn moves the bit from what is left to the entries. *)
LEMMA ShiftArithmetic ==
  ASSUME NEW n \in Nat, NEW u \in Nat, NEW h \in Nat, u % 4 = 0
  PROVE  /\ h % 2 = 1 => 4 * (n + Words(u)) + (2 * u) * (h \div 2) = 4 * n + u * h
         /\ h % 2 # 1 => 4 * n + (2 * u) * (h \div 2) = 4 * n + u * h
<1>1. PICK p : p = h \div 2
  OBVIOUS
<1>2. p \in Nat /\ (h % 2 = 1 => h = 2 * p + 1) /\ (h % 2 # 1 => h = 2 * p)
  BY <1>1
<1>3. 4 * Words(u) = u /\ Words(u) \in Nat
  BY DEF Words
<1>4. u * p \in Nat /\ (2 * u) * p = 2 * (u * p)
  BY <1>2
<1>5. h % 2 = 1 => u * h = 2 * (u * p) + u
  BY <1>2, <1>4
<1>6. h % 2 # 1 => u * h = 2 * (u * p)
  BY <1>2, <1>4
<1>. QED BY <1>1, <1>3, <1>4, <1>5, <1>6

FirstTurn(count) == [temp |-> count, unit |-> ExpStart, entries |-> <<>>]

(* Its turns are those of the loop up to m. *)
Loop(kind, count, m, turn) ==
  turn = [i \in 0..m |-> IF i = 0 THEN FirstTurn(count) ELSE Shift(kind, turn[i - 1])]

LEMMA LoopExists ==
  ASSUME NEW kind, NEW count, NEW n \in Nat
  PROVE  \E turn : Loop(kind, count, n, turn)
<1>. DEFINE S == {m \in 0..n : ~ \E turn : Loop(kind, count, m, turn)}
<1>. SUFFICES ASSUME S # {} PROVE FALSE
  OBVIOUS
<1>0. S \subseteq Nat
  OBVIOUS
<1>1. PICK m \in S : \A k \in S : m <= k
  <2>. HIDE DEF S
  <2>. QED BY <1>0, LeastNatural
<1>2. m \in 0..n /\ ~ \E turn : Loop(kind, count, m, turn)
  OBVIOUS
<1>3. m # 0
  <2>. SUFFICES ASSUME m = 0 PROVE FALSE
    OBVIOUS
  <2>. DEFINE first == [i \in 0..0 |-> FirstTurn(count)]
  <2>1. first = [i \in 0..0 |-> IF i = 0 THEN FirstTurn(count) ELSE Shift(kind, first[i - 1])]
    <3>1. \A i \in 0..0 : i = 0
      OBVIOUS
    <3>. QED BY <3>1
  <2>2. Loop(kind, count, 0, first)
    BY <2>1, Zenon DEF Loop
  <2>. QED BY <1>2, <2>2
<1>4. m - 1 \in 0..n /\ m - 1 \notin S
  BY <1>1, <1>2, <1>3
<1>5. PICK f : Loop(kind, count, m - 1, f)
  BY <1>4
<1>. DEFINE next == [i \in 0..m |-> IF i = m THEN Shift(kind, f[m - 1]) ELSE f[i]]
<1>6. f = [i \in 0..(m - 1) |-> IF i = 0 THEN FirstTurn(count) ELSE Shift(kind, f[i - 1])]
  BY <1>5, Zenon DEF Loop
<1>7. \A i \in 0..m : next[i] = IF i = 0 THEN FirstTurn(count) ELSE Shift(kind, next[i - 1])
  <2>. SUFFICES ASSUME NEW i \in 0..m
                PROVE  next[i] = IF i = 0 THEN FirstTurn(count) ELSE Shift(kind, next[i - 1])
    OBVIOUS
  <2>1. CASE i = m
    <3>1. next[i] = Shift(kind, f[m - 1]) /\ next[m - 1] = f[m - 1]
      BY <1>2, <1>3, <2>1
    <3>. QED BY <1>3, <2>1, <3>1
  <2>2. CASE i # m /\ i = 0
    BY <1>2, <1>3, <1>6, <2>2
  <2>3. CASE i # m /\ i # 0
    <3>1. /\ next[i] = f[i] /\ i \in 0..(m - 1) /\ i - 1 \in 0..m /\ i - 1 # m
          /\ next[i - 1] = f[i - 1]
      BY <1>2, <1>3, <2>3
    <3>2. f[i] = Shift(kind, f[i - 1])
      BY <1>6, <2>3, <3>1
    <3>. QED BY <2>3, <3>1, <3>2
  <2>. QED BY <2>1, <2>2, <2>3
<1>8. next = [i \in 0..m |-> IF i = 0 THEN FirstTurn(count) ELSE Shift(kind, next[i - 1])]
  <2>. DEFINE g == [i \in 0..m |-> IF i = 0 THEN FirstTurn(count) ELSE Shift(kind, next[i - 1])]
  <2>1. \A i \in 0..m : next[i] = g[i]
    BY <1>7
  <2>2. next = [i \in 0..m |-> next[i]] /\ g = [i \in 0..m |-> g[i]]
    OBVIOUS
  <2>. HIDE DEF next, g
  <2>3. next = g
    BY <2>1, <2>2
  <2>. QED BY <2>3 DEF g
<1>9. Loop(kind, count, m, next)
  BY <1>8, Zenon DEF Loop
<1>. QED BY <1>2, <1>9

(* What was split off and what is left make the count without its rest. *)
Split(kind, count, i, t) ==
  /\ t.temp \in Nat /\ t.unit \in Nat \ {0} /\ t.unit % 4 = 0 /\ t.entries \in Seq(EntryType)
  /\ \E n \in Nat : /\ Sums(t.entries, kind, n)
                    /\ 4 * n + t.unit * (t.temp \div ExpStart) = ExpStart * (count \div ExpStart)
  /\ \A k : k # kind => Sums(t.entries, k, 0)
  /\ t.temp \div ExpStart = 0 \/ t.temp \div ExpStart <= count \div ExpStart - i

LEMMA SplitFirst ==
  ASSUME NEW kind, NEW count \in Nat
  PROVE  Split(kind, count, 0, FirstTurn(count))
<1>1. ExpStart \in Nat \ {0} /\ ExpStart % 4 = 0 /\ count \div ExpStart \in Nat
  BY SizesAssumption
<1>. DEFINE t == FirstTurn(count)
<1>2. t.temp = count /\ t.unit = ExpStart /\ t.entries = <<>>
  BY DEF FirstTurn
<1>. HIDE DEF t
<1>3. <<>> \in Seq(EntryType)
  BY EmptySeq
<1>4. Sums(t.entries, kind, 0) /\ \A k : Sums(t.entries, k, 0)
  BY <1>2, SumOfNone
<1>5. 4 * 0 + t.unit * (t.temp \div ExpStart) = ExpStart * (count \div ExpStart)
  <2>1. t.unit * (t.temp \div ExpStart) = ExpStart * (count \div ExpStart)
    BY <1>2, Zenon
  <2>2. PICK x : x = ExpStart * (count \div ExpStart)
    OBVIOUS
  <2>3. x \in Nat
    <3>1. PICK q : q = count \div ExpStart
      OBVIOUS
    <3>2. q \in Nat /\ ExpStart \in Nat /\ ExpStart * q \in Nat
      BY <1>1, <3>1
    <3>. QED BY <2>2, <3>1, <3>2
  <2>4. 4 * 0 + x = x
    BY <2>3
  <2>. QED BY <2>1, <2>2, <2>4
<1>6. \E n \in Nat : /\ Sums(t.entries, kind, n)
                     /\ 4 * n + t.unit * (t.temp \div ExpStart)
                        = ExpStart * (count \div ExpStart)
  BY <1>4, <1>5
<1>7. t.temp \div ExpStart <= count \div ExpStart - 0
  BY <1>1, <1>2
<1>8. t.temp \in Nat /\ t.unit \in Nat \ {0} /\ t.unit % 4 = 0 /\ t.entries \in Seq(EntryType)
  BY <1>1, <1>2, <1>3
<1>9. Split(kind, count, 0, t)
  BY <1>4, <1>6, <1>7, <1>8 DEF Split
<1>. QED BY <1>9 DEF t

LEMMA SplitNext ==
  ASSUME NEW kind \in DataKinds, NEW count \in Nat, NEW i \in Nat, NEW t,
         Split(kind, count, i, t)
  PROVE  Split(kind, count, i + 1, Shift(kind, t))
<1>1. ExpStart \in Nat \ {0} /\ ExpStart % 4 = 0 /\ count \div ExpStart \in Nat
  BY SizesAssumption
<1>. DEFINE h == t.temp \div ExpStart
            H == count \div ExpStart
            e == Entry(kind, t.unit)
            new == IF h % 2 = 1 THEN <<e>> ELSE <<>>
            s == Shift(kind, t)
<1>2. /\ t.temp \in Nat /\ t.unit \in Nat \ {0} /\ t.unit % 4 = 0 /\ t.entries \in Seq(EntryType)
      /\ \A k : k # kind => Sums(t.entries, k, 0)
      /\ h = 0 \/ h <= H - i
  BY DEF Split
<1>3. PICK n \in Nat : Sums(t.entries, kind, n) /\ 4 * n + t.unit * h = ExpStart * H
  BY DEF Split
<1>4. s.temp = t.temp \div 2 /\ s.unit = 2 * t.unit /\ s.entries = t.entries \o new
  BY Zenon DEF Shift
<1>5. s.temp \div ExpStart = h \div 2
  BY <1>1, <1>2, <1>4, HalfOfQuotient
<1>6. h \in Nat
  <2>1. t.temp \in Nat /\ ExpStart \in Nat \ {0}
    BY <1>1, <1>2
  <2>. QED BY <2>1, Quotient
<1>7. e \in EntryType /\ WordsOf(e, kind) = Words(t.unit) /\ \A k : k # kind => WordsOf(e, k) = 0
  BY <1>2 DEF Entry, EntryType, WordsOf, DataKinds
<1>8. /\ new \in Seq(EntryType)
      /\ Sums(new, kind, IF h % 2 = 1 THEN Words(t.unit) ELSE 0)
      /\ \A k : k # kind => Sums(new, k, 0)
  <2>1. CASE h % 2 = 1
    <3>1. new = <<e>>
      BY <2>1
    <3>. HIDE DEF new, e, h
    <3>2. <<e>> \in Seq(EntryType) /\ Sums(<<e>>, kind, Words(t.unit))
      BY <1>7, SumOfOne
    <3>3. ASSUME NEW k, k # kind PROVE Sums(<<e>>, k, 0)
      <4>1. WordsOf(e, k) = 0
        BY <1>7, <3>3
      <4>. QED BY <1>7, <4>1, SumOfOne
    <3>. QED BY <2>1, <3>1, <3>2, <3>3
  <2>2. CASE h % 2 # 1
    <3>1. new = <<>>
      BY <2>2
    <3>2. <<>> \in Seq(EntryType)
      BY EmptySeq
    <3>. HIDE DEF new, e, h
    <3>. QED BY <2>2, <3>1, <3>2, SumOfNone
  <2>. QED BY <2>1, <2>2
<1>. DEFINE w == IF h % 2 = 1 THEN Words(t.unit) ELSE 0
<1>. HIDE DEF new, e, s
<1>9. w \in Nat
  BY <1>2, WordsOfCount
<1>10. /\ s.entries \in Seq(EntryType) /\ Sums(s.entries, kind, n + w)
       /\ \A k : k # kind => Sums(s.entries, k, 0)
  <2>1. s.entries \in Seq(EntryType)
    BY <1>2, <1>4, <1>8, ConcatProperties
  <2>2. Sums(s.entries, kind, n + w)
    BY <1>2, <1>3, <1>4, <1>8, SumOfBoth
  <2>3. ASSUME NEW k, k # kind PROVE Sums(s.entries, k, 0)
    <3>1. Sums(t.entries, k, 0) /\ Sums(new, k, 0)
      BY <1>2, <1>8, <2>3
    <3>2. Sums(s.entries, k, 0 + 0)
      BY <1>2, <1>4, <1>8, <3>1, SumOfBoth
    <3>. QED BY <3>2
  <2>. QED BY <2>1, <2>2, <2>3
<1>11. 4 * (n + w) + s.unit * (s.temp \div ExpStart) = ExpStart * H
  <2>. HIDE DEF h, H
  <2>1. PICK u : u = t.unit
    OBVIOUS
  <2>2. u \in Nat /\ u % 4 = 0 /\ 4 * n + u * h = ExpStart * H
    BY <1>2, <1>3, <2>1
  <2>3. /\ h % 2 = 1 => 4 * (n + Words(u)) + (2 * u) * (h \div 2) = 4 * n + u * h
        /\ h % 2 # 1 => 4 * n + (2 * u) * (h \div 2) = 4 * n + u * h
    <3>1. n \in Nat /\ u \in Nat /\ h \in Nat /\ u % 4 = 0
      BY <1>6, <2>2
    <3>. QED BY <3>1, ShiftArithmetic
  <2>4. s.unit = 2 * u /\ s.temp \div ExpStart = h \div 2 /\ w = IF h % 2 = 1 THEN Words(u) ELSE 0
    BY <1>4, <1>5, <2>1
  <2>. HIDE DEF w
  <2>5. CASE h % 2 = 1
    <3>1. w = Words(u)
      BY <2>4, <2>5
    <3>. QED BY <2>2, <2>3, <2>4, <2>5, <3>1
  <2>6. CASE h % 2 # 1
    <3>1. w = 0 /\ n + w = n
      BY <2>4, <2>6
    <3>. QED BY <2>2, <2>3, <2>4, <2>6, <3>1
  <2>. QED BY <2>5, <2>6
<1>12. s.temp \div ExpStart = 0 \/ s.temp \div ExpStart <= H - (i + 1)
  <2>. HIDE DEF h, H
  <2>1. H \in Nat
    BY <1>1 DEF H
  <2>2. h \div 2 = 0 \/ h \div 2 <= H - (i + 1)
    BY <1>2, <1>6, <2>1
  <2>. QED BY <1>5, <2>2
<1>13. s.temp \in Nat /\ s.unit \in Nat \ {0} /\ s.unit % 4 = 0
  <2>1. 2 * t.unit \in Nat \ {0} /\ (2 * t.unit) % 4 = 0 /\ t.temp \div 2 \in Nat
    <3>1. PICK u, x : u = t.unit /\ x = t.temp
      OBVIOUS
    <3>2. u \in Nat \ {0} /\ u % 4 = 0 /\ x \in Nat
      BY <1>2, <3>1
    <3>3. 2 * u \in Nat \ {0} /\ (2 * u) % 4 = 0 /\ x \div 2 \in Nat
      BY <3>2
    <3>. QED BY <3>1, <3>3
  <2>. QED BY <1>4, <2>1
<1>14. n + w \in Nat
  BY <1>3, <1>9
<1>. HIDE DEF w
<1>15. Split(kind, count, i + 1, s)
  BY <1>10, <1>11, <1>12, <1>13, <1>14 DEF Split
<1>. QED BY <1>15 DEF s

(* The entries for the bits move the count without its rest. *)
LEMMA ExponentEntriesAdd ==
  ASSUME NEW kind \in DataKinds, NEW count \in Nat
  PROVE  LET entries == ExponentEntries(kind, count)
         IN  /\ entries \in Seq(EntryType)
             /\ \E n \in Nat : /\ Sums(entries, kind, n)
                               /\ 4 * n = ExpStart * (count \div ExpStart)
             /\ \A k : k # kind => Sums(entries, k, 0)
<1>. DEFINE H == count \div ExpStart
            turn == CHOOSE f : Loop(kind, count, H, f)
<1>0. H \in Nat /\ ExpStart \in Nat \ {0}
  BY SizesAssumption
<1>1. Loop(kind, count, H, turn)
  BY <1>0, LoopExists, Zenon
<1>2. ExponentEntries(kind, count) = turn[H].entries
  BY DEF ExponentEntries, Loop, FirstTurn
<1>. HIDE DEF turn
<1>3. \A i \in 0..H : turn[i] = IF i = 0 THEN FirstTurn(count) ELSE Shift(kind, turn[i - 1])
  BY <1>1 DEF Loop
<1>4. \A i \in 0..H : Split(kind, count, i, turn[i])
  <2>. DEFINE S == {i \in 0..H : ~ Split(kind, count, i, turn[i])}
  <2>. SUFFICES ASSUME S # {} PROVE FALSE
    OBVIOUS
  <2>0. S \subseteq Nat
    OBVIOUS
  <2>1. PICK m \in S : \A k \in S : m <= k
    <3>. HIDE DEF S
    <3>. QED BY <2>0, LeastNatural
  <2>2. m \in 0..H /\ ~ Split(kind, count, m, turn[m])
    OBVIOUS
  <2>3. m # 0
    <3>1. turn[0] = FirstTurn(count)
      BY <1>0, <1>3
    <3>. QED BY <2>2, <3>1, SplitFirst
  <2>4. m - 1 \in 0..H /\ m - 1 \in Nat /\ m - 1 + 1 = m
    BY <1>0, <2>2, <2>3
  <2>5. Split(kind, count, m - 1, turn[m - 1])
    BY <2>1, <2>4
  <2>6. Split(kind, count, m - 1 + 1, Shift(kind, turn[m - 1]))
    BY <2>4, <2>5, SplitNext
  <2>7. turn[m] = Shift(kind, turn[m - 1])
    BY <1>3, <2>2, <2>3
  <2>. QED BY <2>2, <2>4, <2>6, <2>7
<1>5. Split(kind, count, H, turn[H])
  BY <1>0, <1>4
<1>. DEFINE t == turn[H]
<1>. HIDE DEF t
<1>6. Split(kind, count, H, t)
  BY <1>5 DEF t
<1>7. /\ t.temp \in Nat /\ t.unit \in Nat \ {0} /\ t.entries \in Seq(EntryType)
      /\ \A k : k # kind => Sums(t.entries, k, 0)
      /\ t.temp \div ExpStart = 0 \/ t.temp \div ExpStart <= H - H
  BY <1>6 DEF Split
<1>8. t.temp \div ExpStart = 0
  BY <1>0, <1>7
<1>9. PICK n \in Nat : /\ Sums(t.entries, kind, n)
                       /\ 4 * n + t.unit * (t.temp \div ExpStart) = ExpStart * H
  BY <1>6 DEF Split
<1>10. 4 * n = ExpStart * H
  BY <1>7, <1>8, <1>9
<1>. QED BY <1>2, <1>7, <1>9, <1>10 DEF t

(* The entries of a message move as many words as its count has, all of its
   kind. *)
LEMMA DataEntriesAdd ==
  ASSUME NEW kind \in DataKinds, NEW count \in Nat
  PROVE  LET entries == DataEntries(kind, count)
         IN  /\ entries \in Seq(EntryType)
             /\ Sums(entries, kind, Words(count))
             /\ \A k : k # kind => Sums(entries, k, 0)
<1>0. ExpStart \in Nat \ {0} /\ ExpStart % 4 = 0
  BY SizesAssumption
<1>1. ASSUME NEW c \in Nat
      PROVE  LET e == <<Entry(kind, c)>>
             IN  /\ e \in Seq(EntryType) /\ Sums(e, kind, Words(c))
                 /\ \A k : k # kind => Sums(e, k, 0)
  <2>. DEFINE e == Entry(kind, c)
  <2>1. e \in EntryType /\ WordsOf(e, kind) = Words(c) /\ \A k : k # kind => WordsOf(e, k) = 0
    BY <1>1 DEF Entry, EntryType, WordsOf, DataKinds
  <2>. HIDE DEF e
  <2>2. <<e>> \in Seq(EntryType) /\ Sums(<<e>>, kind, Words(c))
    BY <2>1, SumOfOne
  <2>3. ASSUME NEW k, k # kind PROVE Sums(<<e>>, k, 0)
    <3>1. WordsOf(e, k) = 0
      BY <2>1, <2>3
    <3>. QED BY <2>1, <3>1, SumOfOne
  <2>. QED BY <2>2, <2>3 DEF e
<1>2. CASE count < ExpStart
  <2>1. DataEntries(kind, count) = <<Entry(kind, count)>>
    BY <1>2, Zenon DEF DataEntries
  <2>. QED BY <1>1, <2>1
<1>3. CASE ~ count < ExpStart
  <2>. DEFINE s == ExponentEntries(kind, count)
              r == count % ExpStart
              rest == IF r = 0 THEN <<>> ELSE <<Entry(kind, r)>>
  <2>1. DataEntries(kind, count) = s \o rest
    BY <1>3, Zenon DEF DataEntries
  <2>2. s \in Seq(EntryType) /\ \A k : k # kind => Sums(s, k, 0)
    BY ExponentEntriesAdd
  <2>3. PICK n \in Nat : Sums(s, kind, n) /\ 4 * n = ExpStart * (count \div ExpStart)
    BY ExponentEntriesAdd
  <2>4. r \in Nat /\ count = ExpStart * (count \div ExpStart) + r
    BY <1>0
  <2>. HIDE DEF s, r
  <2>5. /\ rest \in Seq(EntryType) /\ Sums(rest, kind, Words(r))
        /\ \A k : k # kind => Sums(rest, k, 0)
    <3>1. CASE r = 0
      <4>1. rest = <<>> /\ Words(r) = 0
        BY <2>4, <3>1, WordsOfCount
      <4>2. <<>> \in Seq(EntryType)
        BY EmptySeq
      <4>. HIDE DEF rest
      <4>. QED BY <4>1, <4>2, SumOfNone
    <3>2. CASE r # 0
      <4>1. rest = <<Entry(kind, r)>>
        BY <3>2
      <4>. HIDE DEF rest
      <4>. QED BY <1>1, <2>4, <4>1
    <3>. QED BY <3>1, <3>2
  <2>. HIDE DEF rest
  <2>6. Words(count) = n + Words(r)
    <3>1. (4 * n) % 4 = 0 /\ 4 * n \in Nat /\ count = 4 * n + r /\ Words(4 * n) = n
      BY <2>3, <2>4 DEF Words
    <3>. QED BY <2>4, <3>1, WordsAdd
  <2>7. s \o rest \in Seq(EntryType)
    BY <2>2, <2>5, ConcatProperties
  <2>8. Sums(s \o rest, kind, n + Words(r))
    BY <2>2, <2>3, <2>5, SumOfBoth
  <2>9. ASSUME NEW k, k # kind PROVE Sums(s \o rest, k, 0)
    <3>1. Sums(s, k, 0) /\ Sums(rest, k, 0)
      BY <2>2, <2>5, <2>9
    <3>2. Sums(s \o rest, k, 0 + 0)
      BY <2>2, <2>5, <3>1, SumOfBoth
    <3>. QED BY <3>2
  <2>. QED BY <2>1, <2>6, <2>7, <2>8, <2>9
<1>. QED BY <1>2, <1>3
-----------------------------------------------------------------------------
(* The invariant. *)

InMessage == pc \in {"poll", "act"} \/ (pc = "start" /\ index <= Len(transfer))

(* Every variable the argument is about has its type. *)
Typed ==
  /\ pc \in {"idle", "prepare", "start", "poll", "act", "deselect", "drain", "assert"}
  /\ isBusy \in BOOLEAN /\ (isBusy <=> pc # "idle")
  /\ pc # "idle" => transfer \in Transfers /\ index \in Nat \ {0}
  /\ pc \in {"prepare", "poll", "act"} => index <= Len(transfer)
  /\ byteCount \in Nat /\ rxPtr \in Nat /\ txLeft \in Nat /\ rxLeft \in Nat
  /\ readMode \in {"DMA", "IO"}
  /\ isUnaligned \in BOOLEAN /\ (isUnaligned <=> readMode = "IO")
  /\ genFifo \in Seq(EntryType) /\ current \in EntryType /\ started \in 0..Len(genFifo)
  /\ IsSequence(txFifo) /\ IsSequence(rxFifo)
  /\ dma \in [at: Nat, left: Nat, done: BOOLEAN] /\ dma.left % 4 = 0

(* Neither the driver nor the DMA counts on anything more. *)
NothingLeft == txLeft = 0 /\ rxLeft = 0 /\ dma.left = 0 /\ ~dma.done

(* Where in the program what is left to be counted on. A read by DMA has bytes
   left in the driver's count until the driver has seen the DMA through. *)
PlaceOK ==
  /\ pc \in {"idle", "deselect", "drain"} \/ (pc = "start" /\ ~InMessage) =>
       readMode = "DMA" /\ NothingLeft
  /\ pc = "prepare" => NothingLeft
  /\ pc = "assert" => readMode = "IO"
  /\ InMessage /\ Kind # "RX" => rxLeft = 0 /\ dma.left = 0 /\ ~dma.done
  /\ InMessage /\ Kind = "RX" => txLeft = 0
  /\ InMessage /\ Kind = "RX" /\ readMode = "DMA" =>
       /\ rxLeft # 0 <=> dma.left > 0 \/ dma.done
       /\ dma.done => dma.left = 0
  /\ readMode = "IO" => dma.left = 0 /\ ~dma.done

(* When the generic FIFO is empty, the controller is through with what was in it:
   the last entry moves nothing. *)
EndsIdle ==
  /\ genFifo = <<>> => current.left = 0
  /\ genFifo # <<>> => genFifo[Len(genFifo)].left = 0

QueueOK ==
  /\ pc \in {"idle", "drain"} \/ (pc = "start" /\ ~InMessage) => EndsIdle
  /\ InMessage /\ Kind = "RX" /\ readMode = "IO" => EndsIdle
  /\ pc = "idle" => genFifo = <<>>

(* What the driver acts on is old, but not in these points. *)
StatusOK ==
  pc = "act" =>
    /\ status.genEmpty => genFifo = <<>>
    /\ readMode = "IO" /\ status.rxNotEmpty => rxFifo # <<>>

(* The controller has n words of a kind to move. *)
AtWork(kind, n) == \E m \in Nat : Sums(genFifo, kind, m) /\ n = m + WordsOf(current, kind)

(* Every word to be sent is in the TX FIFO or still with the driver. *)
SendOK == AtWork("TX", Len(txFifo) + Words(txLeft))

Owed == IF readMode = "IO" THEN Words(rxLeft) ELSE dma.left \div 4

(* Every word the driver or the DMA waits for is in the RX FIFO or to come. *)
ReceiveOK == \E n \in Nat : AtWork("RX", n) /\ n + Len(rxFifo) = Owed

TransferInv == Typed /\ PlaceOK /\ QueueOK /\ StatusOK /\ SendOK /\ ReceiveOK

LEMMA MessageType ==
  ASSUME NEW t \in Transfers, NEW i \in Nat \ {0}, i <= Len(t)
  PROVE  t[i].kind \in DataKinds /\ t[i].count \in Nat \ {0}
<1>1. t \in Seq(Message)
  BY TransfersAssumption
<1>2. Len(t) \in Nat /\ i \in 1..Len(t)
  BY <1>1, LenProperties
<1>3. t[i] \in Message
  BY <1>1, <1>2, ElementOfSeq
<1>. QED BY <1>3 DEF Message, DataKinds

LEMMA InTransfer ==
  ASSUME Typed, pc \in {"prepare", "poll", "act"} \/ InMessage
  PROVE  /\ transfer \in Transfers /\ index \in Nat \ {0} /\ index <= Len(transfer)
         /\ Kind \in DataKinds
<1>1. transfer \in Transfers /\ index \in Nat \ {0} /\ index <= Len(transfer)
  BY DEF Typed, InMessage
<1>. QED BY <1>1, MessageType DEF Kind

LEMMA AllDone ==
  ASSUME NEW kind, NEW n, AtWork(kind, n), current.left = 0, genFifo = <<>>
  PROVE  n = 0
<1>1. PICK m \in Nat : Sums(genFifo, kind, m) /\ n = m + WordsOf(current, kind)
  BY DEF AtWork
<1>2. m = 0
  BY <1>1, SumOfNone, Zenon
<1>3. WordsOf(current, kind) = 0
  BY DEF WordsOf, Words
<1>. QED BY <1>1, <1>2, <1>3

LEMMA WorkAdded ==
  ASSUME NEW kind, NEW n \in Nat, NEW c \in Nat, NEW t \in Seq(EntryType), Sums(t, kind, c),
         genFifo \in Seq(EntryType), current \in EntryType, AtWork(kind, n),
         genFifo' = genFifo \o t, current' = current
  PROVE  AtWork(kind, n + c)'
<1>1. PICK m \in Nat : Sums(genFifo, kind, m) /\ n = m + WordsOf(current, kind)
  BY DEF AtWork
<1>2. WordsOf(current, kind) \in Nat
  BY WordsOfType
<1>3. Sums(genFifo', kind, m + c) /\ m + c \in Nat
  <2>1. Sums(genFifo \o t, kind, m + c)
    BY <1>1, SumOfBoth
  <2>. QED BY <1>1, <2>1
<1>4. n + c = m + c + WordsOf(current', kind)
  BY <1>1, <1>2
<1>. QED BY <1>3, <1>4 DEF AtWork

LEMMA IdleAdded ==
  ASSUME NEW e \in EntryType, e.left = 0, NEW r \in Seq(EntryType), genFifo' = r \o <<e>>
  PROVE  EndsIdle' /\ genFifo' # <<>>
<1>1. <<e>> \in Seq(EntryType) /\ Len(<<e>>) = 1 /\ <<e>>[1] = e
  OBVIOUS
<1>. DEFINE t == <<e>>
            s == r \o t
<1>. HIDE DEF t
<1>2. /\ Len(r) \in Nat /\ Len(s) = Len(r) + Len(t) /\ s \in Seq(EntryType)
      /\ \A i \in 1..Len(r) + Len(t) :
           s[i] = IF i <= Len(r) THEN r[i] ELSE t[i - Len(r)]
  BY <1>1, ConcatProperties, LenProperties DEF t
<1>. HIDE DEF s
<1>3. Len(t) = 1 /\ t[1] = e
  BY <1>1 DEF t
<1>4. PICK k : k = Len(r) + 1
  OBVIOUS
<1>5. /\ k \in 1..Len(r) + Len(t) /\ Len(s) = k /\ ~ k <= Len(r)
      /\ k - Len(r) = 1
  BY <1>2, <1>3, <1>4
<1>6. s[Len(s)] = e /\ s # <<>>
  BY <1>2, <1>3, <1>5, EmptySeq
<1>7. genFifo' = s
  BY DEF s, t
<1>. QED BY <1>6, <1>7 DEF EndsIdle

LEMMA NextWordsIs ==
  ASSUME NEW left \in Nat
  PROVE  /\ IsSequence(NextWords(left)) /\ Len(NextWords(left)) = Words(MinOf(left, TxFill))
         /\ MinOf(left, TxFill) \in 0..left
         /\ Words(left) = Words(MinOf(left, TxFill)) + Words(left - MinOf(left, TxFill))
<1>. DEFINE b == MinOf(left, TxFill)
            s == NextWords(left)
            n == Words(b)
<1>1. TxFill \in Nat /\ TxFill > 0 /\ TxFill % 4 = 0
  BY SizesAssumption
<1>2. b \in 0..left /\ (b = left \/ b % 4 = 0)
  BY <1>1 DEF MinOf
<1>3. n \in Nat
  BY <1>2, WordsOfCount
<1>4. DOMAIN s = 1..n /\ s = [w \in 1..n |-> s[w]]
  BY DEF NextWords
<1>5. Words(left) = n + Words(left - b)
  <2>1. CASE b = left
    <3>1. Words(left - b) = 0 /\ left - b \in Nat
      BY <2>1, WordsOfCount
    <3>. QED BY <1>3, <2>1, <3>1
  <2>2. CASE b % 4 = 0
    <3>1. left - b \in Nat /\ b + (left - b) = left
      BY <1>2
    <3>. QED BY <1>2, <2>2, <3>1, WordsAdd
  <2>. QED BY <1>2, <2>1, <2>2
<1>. HIDE DEF b, s, n
<1>. DEFINE S == {s[w] : w \in 1..n}
<1>6. s \in [1..n -> S]
  BY <1>4
<1>. HIDE DEF S
<1>7. s \in Seq(S)
  BY <1>3, <1>6, SeqDef
<1>8. Len(s) \in Nat /\ DOMAIN s = 1..Len(s)
  BY <1>7, LenProperties
<1>9. Len(s) = n
  BY <1>3, <1>4, <1>8
<1>. QED BY <1>2, <1>5, <1>7, <1>9, SomeSequence DEF b, s, n

LEMMA TransferInit ==
  ASSUME Init
  PROVE  TransferInv
<1>1. <<>> \in Seq(EntryType) /\ Len(<<>>) = 0 /\ IsSequence(<<>>)
  BY EmptySeq, SomeSequence
<1>2. NoEntry \in EntryType /\ \A kind : WordsOf(NoEntry, kind) = 0
  BY DEF NoEntry, EntryType, DataKinds, WordsOf, Words
<1>3. Typed
  <2>1. /\ pc = "idle" /\ isBusy = FALSE /\ byteCount = 0 /\ rxPtr = 0 /\ txLeft = 0 /\ rxLeft = 0
        /\ readMode = "DMA" /\ isUnaligned = FALSE /\ started = 0
        /\ dma = [at |-> 0, left |-> 0, done |-> FALSE]
    BY DEF Init
  <2>2. genFifo = <<>> /\ txFifo = <<>> /\ rxFifo = <<>> /\ current = NoEntry
    BY DEF Init
  <2>3. genFifo \in Seq(EntryType) /\ current \in EntryType /\ started \in 0..Len(genFifo)
        /\ IsSequence(txFifo) /\ IsSequence(rxFifo)
    BY <1>1, <1>2, <2>1, <2>2
  <2>4. dma \in [at: Nat, left: Nat, done: BOOLEAN] /\ dma.left = 0 /\ 0 % 4 = 0
    BY <2>1
  <2>5. dma.left % 4 = 0
    BY <2>4
  <2>. HIDE DEF IsSequence
  <2>6. pc = "idle" /\ (isBusy <=> pc # "idle") /\ (isUnaligned <=> readMode = "IO")
    BY <2>1
  <2>. QED BY <2>1, <2>3, <2>4, <2>5, <2>6 DEF Typed
<1>4. PlaceOK /\ StatusOK
  BY DEF Init, PlaceOK, StatusOK, NothingLeft, InMessage
<1>5. QueueOK
  BY DEF Init, QueueOK, EndsIdle, InMessage, NoEntry
<1>6. AtWork("TX", 0) /\ AtWork("RX", 0)
  BY <1>2, SumOfNone DEF Init, AtWork
<1>7. SendOK
  <2>1. Len(txFifo) + Words(txLeft) = 0
    BY <1>1 DEF Init, Words
  <2>. QED BY <1>6, <2>1 DEF SendOK
<1>8. ReceiveOK
  <2>1. 0 + Len(rxFifo) = Owed
    BY <1>1 DEF Init, Owed
  <2>. QED BY <1>6, <2>1 DEF ReceiveOK
<1>. QED BY <1>3, <1>4, <1>5, <1>7, <1>8 DEF TransferInv
-----------------------------------------------------------------------------
(* The driver's steps. *)

LEMMA BeginKeepsInv ==
  ASSUME TransferInv, BeginTransfer
  PROVE  TransferInv'
<1>1. /\ pc = "idle" /\ pc' = "prepare" /\ isBusy' = TRUE /\ index' = 1 /\ rxPtr' = 0
      /\ genFifo' = Append(genFifo, CSAssert)
      /\ UNCHANGED <<readMode, isUnaligned, txLeft, rxLeft, status, started, current, txFifo,
                     rxFifo, dma>>
  BY DEF BeginTransfer, busVars
<1>2. PICK t \in Transfers : transfer' = t /\ byteCount' = t[1].count
  BY DEF BeginTransfer
<1>3. 1 <= Len(t) /\ t[1].count \in Nat
  <2>1. t \in Seq(Message) /\ t # <<>>
    BY TransfersAssumption
  <2>2. Len(t) \in Nat \ {0}
    BY <2>1, EmptySeq
  <2>. QED BY <2>2, MessageType
<1>4. /\ Typed /\ PlaceOK /\ QueueOK
      /\ genFifo = <<>> /\ genFifo \in Seq(EntryType) /\ current \in EntryType
      /\ readMode = "DMA" /\ NothingLeft
  BY <1>1 DEF TransferInv, QueueOK, PlaceOK, Typed
<1>5. CSAssert \in EntryType /\ CSAssert.left = 0 /\ \A k : WordsOf(CSAssert, k) = 0
  BY DEF CSAssert, Entry, EntryType, DataKinds, WordsOf, Words
<1>6. genFifo' = genFifo \o <<CSAssert>> /\ genFifo' \in Seq(EntryType)
  BY <1>1, <1>4, <1>5, AppendIsConcat, AppendProperties
<1>7. started' \in 0..Len(genFifo')
  <2>1. Len(genFifo) = 0 /\ Len(genFifo') \in Nat
    BY <1>4, <1>6, EmptySeq, LenProperties
  <2>2. started' = 0
    BY <1>1, <1>4, <2>1 DEF Typed
  <2>. QED BY <2>1, <2>2
<1>8. Typed'
  BY <1>1, <1>2, <1>3, <1>4, <1>6, <1>7 DEF Typed
<1>9. PlaceOK'
  BY <1>1, <1>4 DEF PlaceOK, NothingLeft, InMessage
<1>10. QueueOK' /\ StatusOK'
  BY <1>1 DEF QueueOK, StatusOK, InMessage
<1>11. \A k : Sums(<<CSAssert>>, k, 0) /\ <<CSAssert>> \in Seq(EntryType)
  BY <1>5, SumOfOne
<1>12. \A k, n : n \in Nat /\ AtWork(k, n) => AtWork(k, n + 0)'
  BY <1>1, <1>4, <1>6, <1>11, WorkAdded
<1>13. SendOK'
  <2>1. IsSequence(txFifo) /\ txLeft \in Nat
    BY <1>4 DEF Typed
  <2>2. PICK n : n = Len(txFifo) + Words(txLeft)
    OBVIOUS
  <2>3. n \in Nat /\ n + 0 = n
    <3>1. Len(txFifo) \in Nat /\ Words(txLeft) \in Nat
      BY <2>1, LengthOf, WordsOfCount
    <3>. QED BY <2>2, <3>1
  <2>4. AtWork("TX", n)'
    BY <1>12, <2>2, <2>3 DEF TransferInv, SendOK
  <2>5. Len(txFifo') + Words(txLeft') = n
    BY <1>1, <2>2
  <2>. QED BY <2>4, <2>5 DEF SendOK
<1>14. ReceiveOK'
  <2>1. PICK n \in Nat : AtWork("RX", n) /\ n + Len(rxFifo) = Owed
    BY DEF TransferInv, ReceiveOK
  <2>2. AtWork("RX", n)' /\ Owed' = Owed
    <3>1. n + 0 = n
      OBVIOUS
    <3>2. AtWork("RX", n + 0)'
      BY <1>12, <2>1
    <3>. QED BY <1>1, <3>1, <3>2 DEF Owed
  <2>. QED BY <1>1, <2>1, <2>2 DEF ReceiveOK
<1>. QED BY <1>8, <1>9, <1>10, <1>13, <1>14 DEF TransferInv

LEMMA PrepareKeepsInv ==
  ASSUME TransferInv, GenFifoEntryData
  PROVE  TransferInv'
<1>. DEFINE mode == ModeFor(byteCount)
            count == CountFor(byteCount, mode)
            data == DataEntries(Kind, count)
            new == data \o Behind(mode)
<1>1. /\ pc = "prepare" /\ pc' = "start"
      /\ UNCHANGED <<transfer, transfers, index, rxPtr, isBusy, status, started, current, rxFifo>>
      /\ readMode' = mode /\ isUnaligned' = (isUnaligned \/ mode # readMode)
      /\ byteCount' = count
      /\ rxLeft' = (IF Kind = "RX" THEN byteCount ELSE 0)
      /\ genFifo' = genFifo \o data \o Behind(mode)
      /\ dma' = IF Kind = "RX" /\ mode = "DMA"
                THEN [dma EXCEPT !.at = DmaBytes(rxPtr), !.left = DmaBytes(byteCount)]
                ELSE dma
      /\ IF Kind = "TX" THEN FillTxFifo(byteCount) ELSE txLeft' = 0 /\ UNCHANGED txFifo
  BY DEF GenFifoEntryData, transferVars, busVars
<1>2. Typed /\ NothingLeft /\ (readMode = "IO" => dma.left = 0 /\ ~dma.done)
  BY <1>1 DEF TransferInv, PlaceOK
<1>3. /\ transfer \in Transfers /\ index \in Nat \ {0} /\ index <= Len(transfer)
      /\ Kind \in DataKinds
  BY <1>1, <1>2, InTransfer
<1>4. /\ byteCount \in Nat /\ rxPtr \in Nat /\ readMode \in {"DMA", "IO"}
      /\ genFifo \in Seq(EntryType) /\ current \in EntryType /\ started \in 0..Len(genFifo)
      /\ IsSequence(txFifo) /\ IsSequence(rxFifo)
      /\ dma \in [at: Nat, left: Nat, done: BOOLEAN] /\ dma.left = 0 /\ ~dma.done
      /\ txLeft = 0 /\ rxLeft = 0
      /\ isUnaligned \in BOOLEAN /\ (isUnaligned <=> readMode = "IO")
  BY <1>2 DEF Typed, NothingLeft
<1>5. /\ mode \in {"DMA", "IO"} /\ (readMode = "IO" => mode = "IO")
      /\ mode = "DMA" => readMode = "DMA" /\ byteCount >= 8
  BY <1>4 DEF ModeFor
<1>. HIDE DEF mode
<1>6. /\ DmaBytes(byteCount) \in Nat /\ DmaBytes(byteCount) % 4 = 0 /\ DmaBytes(rxPtr) \in Nat
      /\ byteCount >= 8 => DmaBytes(byteCount) > 0
  BY <1>4 DEF DmaBytes
<1>7. /\ count \in Nat
      /\ count = IF Kind = "RX" /\ mode = "DMA" THEN DmaBytes(byteCount) ELSE byteCount
  BY <1>4, <1>6 DEF CountFor
<1>. HIDE DEF count
<1>8. /\ data \in Seq(EntryType) /\ Sums(data, Kind, Words(count))
      /\ \A k : k # Kind => Sums(data, k, 0)
  BY <1>3, <1>7, DataEntriesAdd
<1>. HIDE DEF data
<1>9. DummyEntry \in EntryType /\ DummyEntry.left = 0 /\ \A k : WordsOf(DummyEntry, k) = 0
  BY DEF DummyEntry, Entry, EntryType, DataKinds, WordsOf, Words
<1>10. /\ Behind(mode) \in Seq(EntryType) /\ \A k : Sums(Behind(mode), k, 0)
       /\ Kind = "RX" /\ mode = "IO" => Behind(mode) = <<DummyEntry>>
  <2>1. <<DummyEntry>> \in Seq(EntryType) /\ \A k : Sums(<<DummyEntry>>, k, 0)
    BY <1>9, SumOfOne
  <2>2. <<>> \in Seq(EntryType) /\ \A k : Sums(<<>>, k, 0)
    BY EmptySeq, SumOfNone
  <2>3. CASE Kind = "RX" /\ mode = "IO"
    BY <2>1, <2>3 DEF Behind
  <2>4. CASE ~(Kind = "RX" /\ mode = "IO")
    BY <2>2, <2>4 DEF Behind
  <2>. QED BY <2>3, <2>4
<1>. DEFINE front == genFifo \o data
<1>11. front \in Seq(EntryType) /\ genFifo' = front \o Behind(mode)
  BY <1>1, <1>4, <1>8, ConcatProperties
<1>12. /\ new \in Seq(EntryType) /\ genFifo' = genFifo \o new
       /\ genFifo' \in Seq(EntryType) /\ Len(genFifo') \in Nat /\ Len(genFifo') >= Len(genFifo)
       /\ Len(genFifo) \in Nat
  <2>1. new \in Seq(EntryType)
    BY <1>8, <1>10, ConcatProperties
  <2>2. genFifo' = genFifo \o new
    <3>1. genFifo' = (genFifo \o data) \o Behind(mode)
      BY <1>1
    <3>2. /\ genFifo \in Seq(EntryType) /\ data \in Seq(EntryType)
          /\ Behind(mode) \in Seq(EntryType)
      BY <1>4, <1>8, <1>10
    <3>3. (genFifo \o data) \o Behind(mode) = genFifo \o (data \o Behind(mode))
      BY <3>2, ConcatAssociative
    <3>. QED BY <3>1, <3>3
  <2>. HIDE DEF new
  <2>3. /\ genFifo \o new \in Seq(EntryType) /\ Len(genFifo \o new) = Len(genFifo) + Len(new)
        /\ Len(new) \in Nat /\ Len(genFifo) \in Nat
    BY <1>4, <2>1, ConcatProperties, LenProperties
  <2>. QED BY <2>1, <2>2, <2>3
<1>13. Sums(new, Kind, Words(count)) /\ \A k : k # Kind => Sums(new, k, 0)
  <2>1. Sums(new, Kind, Words(count) + 0)
    BY <1>8, <1>10, SumOfBoth
  <2>2. ASSUME NEW k, k # Kind PROVE Sums(new, k, 0)
    <3>1. Sums(data, k, 0) /\ Sums(Behind(mode), k, 0)
      BY <1>8, <1>10, <2>2
    <3>2. Sums(new, k, 0 + 0)
      BY <1>8, <1>10, <3>1, SumOfBoth
    <3>. QED BY <3>2
  <2>3. Words(count) + 0 = Words(count)
    BY <1>7, WordsOfCount
  <2>. QED BY <2>1, <2>2, <2>3
<1>. HIDE DEF new
<1>14. PICK kind \in DataKinds : kind = Kind
  BY <1>3
<1>15. PICK c \in Nat : c = Words(count)
  BY <1>7, WordsOfCount
<1>16. \A n \in Nat : AtWork(kind, n) => AtWork(kind, n + c)'
  <2>. SUFFICES ASSUME NEW n \in Nat, AtWork(kind, n) PROVE AtWork(kind, n + c)'
    OBVIOUS
  <2>1. Sums(new, kind, c)
    BY <1>13, <1>14, <1>15
  <2>. QED BY <1>1, <1>4, <1>12, <2>1, WorkAdded
<1>17. \A k : \A n \in Nat : k # kind /\ AtWork(k, n) => AtWork(k, n)'
  <2>. SUFFICES ASSUME NEW k, NEW n \in Nat, k # kind, AtWork(k, n) PROVE AtWork(k, n)'
    OBVIOUS
  <2>0. Sums(new, k, 0)
    BY <1>13, <1>14
  <2>1. AtWork(k, n + 0)'
    BY <1>1, <1>4, <1>12, <2>0, WorkAdded
  <2>2. n + 0 = n
    OBVIOUS
  <2>. QED BY <2>1, <2>2
<1>18. /\ IsSequence(txFifo') /\ txLeft' \in Nat /\ (Kind # "TX" => txLeft' = 0)
       /\ Kind = "TX" => Len(txFifo') + Words(txLeft') = Len(txFifo) + Words(byteCount)
       /\ Kind # "TX" => txFifo' = txFifo
  <2>1. CASE Kind = "TX"
    <3>1. /\ txFifo' = txFifo \o NextWords(byteCount)
          /\ txLeft' = byteCount - MinOf(byteCount, TxFill)
      BY <1>1, <2>1 DEF FillTxFifo
    <3>2. /\ IsSequence(NextWords(byteCount))
          /\ Len(NextWords(byteCount)) = Words(MinOf(byteCount, TxFill))
          /\ MinOf(byteCount, TxFill) \in 0..byteCount
          /\ Words(byteCount) = Words(MinOf(byteCount, TxFill))
                                + Words(byteCount - MinOf(byteCount, TxFill))
      BY <1>4, NextWordsIs
    <3>3. /\ IsSequence(txFifo') /\ Len(txFifo') = Len(txFifo) + Len(NextWords(byteCount))
      BY <1>4, <3>1, <3>2, Lengthened
    <3>4. Len(txFifo) \in Nat /\ Len(NextWords(byteCount)) \in Nat /\ txLeft' \in Nat
      BY <1>4, <3>1, <3>2, LengthOf
    <3>5. Words(txLeft') \in Nat
      BY <3>4, WordsOfCount
    <3>. QED BY <2>1, <3>1, <3>2, <3>3, <3>4, <3>5
  <2>2. CASE Kind # "TX"
    BY <1>1, <1>4, <2>2
  <2>. QED BY <2>1, <2>2
<1>19. /\ dma' \in [at: Nat, left: Nat, done: BOOLEAN] /\ ~dma'.done
       /\ Kind = "RX" /\ mode = "DMA" => dma'.left = DmaBytes(byteCount)
       /\ ~(Kind = "RX" /\ mode = "DMA") => dma'.left = 0
  <2>1. CASE Kind = "RX" /\ mode = "DMA"
    <3>1. dma' = [dma EXCEPT !.at = DmaBytes(rxPtr), !.left = DmaBytes(byteCount)]
      BY <1>1, <2>1
    <3>. QED BY <1>4, <1>6, <2>1, <3>1
  <2>2. CASE ~(Kind = "RX" /\ mode = "DMA")
    <3>1. dma' = dma
      BY <1>1, <2>2
    <3>. QED BY <1>4, <2>2, <3>1
  <2>. QED BY <2>1, <2>2
<1>20. dma'.left % 4 = 0
  <2>1. dma'.left = 0 \/ dma'.left = DmaBytes(byteCount)
    BY <1>19
  <2>. QED BY <1>6, <2>1
<1>21. isUnaligned' \in BOOLEAN /\ (isUnaligned' <=> readMode' = "IO")
  BY <1>1, <1>4, <1>5
<1>22. rxLeft' \in Nat /\ (Kind # "RX" => rxLeft' = 0) /\ (Kind = "RX" => rxLeft' = byteCount)
  BY <1>1, <1>4
<1>23. /\ pc = "prepare" /\ pc' = "start" /\ isBusy' = isBusy /\ transfer' = transfer
       /\ index' = index /\ rxPtr' = rxPtr /\ started' = started /\ current' = current
       /\ rxFifo' = rxFifo /\ status' = status /\ readMode' = mode /\ byteCount' = count
  BY <1>1
<1>24. started' \in 0..Len(genFifo')
  BY <1>4, <1>12, <1>23
<1>25. Typed'
  BY <1>2, <1>3, <1>4, <1>5, <1>7, <1>12, <1>18, <1>20, <1>19, <1>21, <1>22, <1>23, <1>24 DEF Typed
<1>26. Kind' = Kind /\ InMessage'
  BY <1>3, <1>23 DEF Kind, InMessage
<1>27. PlaceOK'
  BY <1>4, <1>5, <1>6, <1>18, <1>20, <1>19, <1>22, <1>23, <1>26 DEF PlaceOK
<1>28. QueueOK' /\ StatusOK'
  <2>1. Kind = "RX" /\ mode = "IO" => EndsIdle'
    BY <1>9, <1>10, <1>11, IdleAdded
  <2>. QED BY <1>23, <1>26, <2>1 DEF QueueOK, StatusOK
<1>29. SendOK'
  <2>1. Len(txFifo) \in Nat /\ AtWork("TX", Len(txFifo) + Words(txLeft)) /\ Words(txLeft) = 0
    BY <1>4, LengthOf, WordsOfCount DEF TransferInv, SendOK
  <2>2. PICK l \in Nat : l = Len(txFifo)
    BY <2>1
  <2>3. AtWork("TX", l)
    BY <2>1, <2>2
  <2>4. CASE kind = "TX"
    <3>1. Len(txFifo') + Words(txLeft') = l + c
      BY <1>7, <1>18, <1>14, <1>15, <2>2, <2>4
    <3>2. AtWork("TX", l + c)'
      BY <1>16, <2>3, <2>4
    <3>. QED BY <3>1, <3>2 DEF SendOK
  <2>5. CASE kind # "TX"
    <3>1. AtWork("TX", l)' /\ txFifo' = txFifo /\ Words(txLeft') = 0
      BY <1>17, <1>18, <1>14, <2>3, <2>5, WordsOfCount
    <3>2. Len(txFifo') + Words(txLeft') = l
      BY <2>2, <3>1
    <3>. QED BY <3>1, <3>2 DEF SendOK
  <2>. QED BY <2>4, <2>5
<1>30. ReceiveOK'
  <2>1. PICK n \in Nat : AtWork("RX", n) /\ n + Len(rxFifo) = Owed
    BY DEF TransferInv, ReceiveOK
  <2>2. Owed = 0 /\ Len(rxFifo) \in Nat
    BY <1>4, LengthOf, WordsOfCount DEF Owed
  <2>3. n = 0 /\ Len(rxFifo') = 0
    BY <1>23, <2>1, <2>2
  <2>4. CASE kind = "RX"
    <3>1. Owed' = c
      BY <1>5, <1>6, <1>7, <1>19, <1>22, <1>23, <1>14, <1>15, <2>4, WholeWords DEF Owed
    <3>2. AtWork("RX", n + c)' /\ n + c = c /\ c + Len(rxFifo') = c
      BY <1>16, <2>1, <2>3, <2>4
    <3>. QED BY <3>1, <3>2 DEF ReceiveOK
  <2>5. CASE kind # "RX"
    <3>1. AtWork("RX", n)'
      BY <1>17, <2>1, <2>5
    <3>2. Owed' = 0
      BY <1>19, <1>22, <1>23, <1>14, <2>5, WordsOfCount DEF Owed
    <3>3. n + Len(rxFifo') = Owed'
      BY <2>3, <3>2
    <3>. QED BY <3>1, <3>3 DEF ReceiveOK
  <2>. QED BY <2>4, <2>5
<1>. QED BY <1>25, <1>27, <1>28, <1>29, <1>30 DEF TransferInv

LEMMA WorkStays ==
  ASSUME NEW kind, NEW n, AtWork(kind, n), UNCHANGED <<genFifo, current>>
  PROVE  AtWork(kind, n)'
BY DEF AtWork

(* Steps that move no word. *)
LEMMA WordsStay ==
  ASSUME TransferInv, UNCHANGED <<genFifo, current, txFifo, rxFifo>>
  PROVE  /\ Words(txLeft') = Words(txLeft) => SendOK'
         /\ Owed' = Owed => ReceiveOK'
<1>1. ASSUME Words(txLeft') = Words(txLeft) PROVE SendOK'
  <2>1. PICK n : n = Len(txFifo) + Words(txLeft)
    OBVIOUS
  <2>2. AtWork("TX", n)'
    BY <2>1, WorkStays DEF TransferInv, SendOK
  <2>. QED BY <1>1, <2>1, <2>2 DEF SendOK
<1>2. ASSUME Owed' = Owed PROVE ReceiveOK'
  <2>1. PICK n \in Nat : AtWork("RX", n) /\ n + Len(rxFifo) = Owed
    BY DEF TransferInv, ReceiveOK
  <2>2. AtWork("RX", n)'
    BY <2>1, WorkStays
  <2>. QED BY <1>2, <2>1, <2>2 DEF ReceiveOK
<1>. QED BY <1>1, <1>2

(* After the loop the driver is in DMA mode and goes on to what is next. *)
LEMMA TurnIs ==
  ASSUME Typed, pc = "act", NEW tx, NEW rx, Turn(tx, rx), transfer' = transfer
  PROVE  \/ pc' = "poll" /\ UNCHANGED <<index, byteCount, readMode, isUnaligned>>
         \/ /\ status.genEmpty /\ tx = 0 /\ rx = 0
            /\ pc' \in {"prepare", "deselect"}
            /\ index' \in Nat \ {0} /\ (pc' = "prepare" => index' <= Len(transfer))
            /\ byteCount' \in Nat /\ readMode' = "DMA" /\ isUnaligned' = FALSE
<1>1. CASE GoesOn(tx, rx)
  BY <1>1 DEF Turn
<1>2. CASE ~GoesOn(tx, rx)
  <2>1. status.genEmpty /\ tx = 0 /\ rx = 0
    BY <1>2 DEF GoesOn
  <2>2. EndMessage
    BY <1>2 DEF Turn
  <2>3. transfer \in Transfers /\ index \in Nat \ {0} /\ index <= Len(transfer)
    BY InTransfer
  <2>4. Len(transfer) \in Nat
    BY <2>3, LenProperties, TransfersAssumption
  <2>5. /\ pc' = (IF index < Len(transfer) THEN "prepare" ELSE "deselect")
        /\ index' = index + 1 /\ isUnaligned' = FALSE
        /\ readMode' = (IF isUnaligned THEN "DMA" ELSE readMode)
        /\ byteCount' = IF index < Len(transfer) THEN transfer[index + 1].count ELSE byteCount
    BY <2>2 DEF EndMessage
  <2>6. readMode' = "DMA"
    BY <2>5 DEF Typed
  <2>7. CASE index < Len(transfer)
    <3>1. index + 1 \in Nat \ {0} /\ index + 1 <= Len(transfer)
      BY <2>3, <2>4, <2>7
    <3>2. transfer[index + 1].count \in Nat
      BY <2>3, <3>1, MessageType
    <3>. QED BY <2>1, <2>5, <2>6, <2>7, <3>1, <3>2
  <2>8. CASE ~ index < Len(transfer)
    <3>1. byteCount' \in Nat /\ index' \in Nat \ {0} /\ pc' = "deselect"
      BY <2>3, <2>5, <2>8 DEF Typed
    <3>. QED BY <2>1, <2>5, <2>6, <3>1
  <2>. QED BY <2>7, <2>8
<1>. QED BY <1>1, <1>2

LEMMA StartKeepsInv ==
  ASSUME TransferInv, ManualStart
  PROVE  TransferInv'
<1>1. /\ pc = "start" /\ started' = Len(genFifo)
      /\ pc' = IF index > Len(transfer) THEN "drain" ELSE "poll"
      /\ UNCHANGED <<transfer, transfers, index, byteCount, rxPtr, isBusy, readMode, isUnaligned,
                     txLeft, rxLeft, status, genFifo, current, txFifo, rxFifo, dma>>
  BY DEF ManualStart, transferVars, driverVars
<1>2. Typed /\ PlaceOK /\ QueueOK /\ StatusOK
  BY DEF TransferInv
<1>3. /\ transfer \in Transfers /\ index \in Nat \ {0} /\ Len(transfer) \in Nat
      /\ Len(genFifo) \in Nat
  <2>1. transfer \in Transfers /\ index \in Nat \ {0}
    BY <1>1, <1>2 DEF Typed
  <2>2. transfer \in Seq(Message)
    BY <2>1, TransfersAssumption
  <2>. QED BY <1>2, <2>1, <2>2, LenProperties DEF Typed
<1>4. \/ index <= Len(transfer) /\ pc' = "poll" /\ InMessage /\ InMessage'
      \/ ~ index <= Len(transfer) /\ pc' = "drain" /\ ~InMessage /\ ~InMessage'
  BY <1>1, <1>3 DEF InMessage
<1>5. Kind' = Kind
  BY <1>1 DEF Kind
<1>6. started' \in 0..Len(genFifo')
  BY <1>1, <1>3
<1>7. Typed'
  <2>1. pc' # "idle" /\ pc # "idle"
    BY <1>1, <1>4
  <2>2. pc' \in {"prepare", "poll", "act"} => index <= Len(transfer)
    BY <1>4
  <2>. QED BY <1>1, <1>2, <1>4, <1>6, <2>1, <2>2 DEF Typed
<1>8. PlaceOK'
  BY <1>1, <1>2, <1>4, <1>5 DEF PlaceOK, NothingLeft
<1>9. QueueOK' /\ StatusOK'
  BY <1>1, <1>2, <1>4, <1>5 DEF QueueOK, StatusOK, EndsIdle
<1>10. SendOK' /\ ReceiveOK'
  BY <1>1, WordsStay DEF Owed
<1>. QED BY <1>7, <1>8, <1>9, <1>10 DEF TransferInv

LEMMA PollKeepsInv ==
  ASSUME TransferInv, Poll
  PROVE  TransferInv'
<1>1. /\ pc = "poll" /\ pc' = "act"
      /\ UNCHANGED <<transfer, transfers, index, byteCount, rxPtr, isBusy, readMode, isUnaligned,
                     txLeft, rxLeft, genFifo, started, current, txFifo, rxFifo, dma>>
  BY DEF Poll, transferVars, driverVars, busVars
<1>2. Typed /\ PlaceOK /\ QueueOK
  BY DEF TransferInv
<1>3. InMessage /\ InMessage' /\ Kind' = Kind
  BY <1>1 DEF InMessage, Kind
<1>4. Typed'
  BY <1>1, <1>2 DEF Typed
<1>5. PlaceOK' /\ QueueOK'
  BY <1>1, <1>2, <1>3 DEF PlaceOK, QueueOK, EndsIdle
<1>6. StatusOK'
  <2>1. (status'.genEmpty <=> genFifo = <<>>) /\ (status'.rxNotEmpty <=> rxFifo # <<>>)
    BY DEF Poll
  <2>. QED BY <1>1, <2>1 DEF StatusOK
<1>7. SendOK' /\ ReceiveOK'
  BY <1>1, WordsStay DEF Owed
<1>. QED BY <1>4, <1>5, <1>6, <1>7 DEF TransferInv

(* The TX FIFO is filled, and the message may end with words still in it: the
   status that ends it is older. *)
LEMMA SendKeepsInv ==
  ASSUME TransferInv, ActSend
  PROVE  TransferInv'
<1>1. /\ pc = "act" /\ Kind # "RX"
      /\ UNCHANGED <<transfer, transfers, rxPtr, isBusy, rxLeft, status, genFifo, started,
                     current, rxFifo, dma>>
      /\ \/ FillTxFifo(txLeft)
         \/ UNCHANGED <<txFifo, txLeft>>
      /\ Turn(txLeft', 0)
  BY DEF ActSend, transferVars, busVars
<1>2. Typed /\ PlaceOK /\ InMessage
  BY <1>1 DEF TransferInv, InMessage
<1>3. /\ txLeft \in Nat /\ IsSequence(txFifo) /\ rxLeft = 0 /\ dma.left = 0 /\ ~dma.done
      /\ readMode \in {"DMA", "IO"}
  BY <1>1, <1>2 DEF Typed, PlaceOK
<1>4. /\ IsSequence(txFifo') /\ txLeft' \in Nat
      /\ Len(txFifo') + Words(txLeft') = Len(txFifo) + Words(txLeft)
  <2>1. CASE FillTxFifo(txLeft)
    <3>1. txFifo' = txFifo \o NextWords(txLeft) /\ txLeft' = txLeft - MinOf(txLeft, TxFill)
      BY <2>1 DEF FillTxFifo
    <3>2. /\ IsSequence(NextWords(txLeft))
          /\ Len(NextWords(txLeft)) = Words(MinOf(txLeft, TxFill))
          /\ MinOf(txLeft, TxFill) \in 0..txLeft
          /\ Words(txLeft) = Words(MinOf(txLeft, TxFill))
                             + Words(txLeft - MinOf(txLeft, TxFill))
      BY <1>3, NextWordsIs
    <3>3. /\ IsSequence(txFifo') /\ Len(txFifo') = Len(txFifo) + Len(NextWords(txLeft))
      BY <1>3, <3>1, <3>2, Lengthened
    <3>4. Len(txFifo) \in Nat /\ Len(NextWords(txLeft)) \in Nat /\ txLeft' \in Nat
      BY <1>3, <3>1, <3>2, LengthOf
    <3>5. Words(txLeft') \in Nat
      BY <3>4, WordsOfCount
    <3>. QED BY <3>1, <3>2, <3>3, <3>4, <3>5
  <2>2. CASE UNCHANGED <<txFifo, txLeft>>
    BY <1>3, <2>2
  <2>. QED BY <1>1, <2>1, <2>2
<1>5. PICK tx \in Nat : tx = txLeft'
  BY <1>4
<1>6. \/ pc' = "poll" /\ UNCHANGED <<index, byteCount, readMode, isUnaligned>>
      \/ /\ status.genEmpty /\ tx = 0
         /\ pc' \in {"prepare", "deselect"}
         /\ index' \in Nat \ {0} /\ (pc' = "prepare" => index' <= Len(transfer))
         /\ byteCount' \in Nat /\ readMode' = "DMA" /\ isUnaligned' = FALSE
  <2>1. Turn(tx, 0)
    BY <1>1, <1>5
  <2>. QED BY <1>1, <1>2, <2>1, TurnIs
<1>7. transfer \in Transfers /\ index \in Nat \ {0} /\ index <= Len(transfer)
  BY <1>2, InTransfer
<1>8. Typed'
  <2>1. pc' \in {"poll", "prepare", "deselect"}
    BY <1>6
  <2>2. index' \in Nat \ {0} /\ (pc' # "deselect" => index' <= Len(transfer))
    BY <1>6, <1>7
  <2>3. /\ byteCount' \in Nat /\ readMode' \in {"DMA", "IO"}
        /\ isUnaligned' \in BOOLEAN /\ (isUnaligned' <=> readMode' = "IO")
    <3>1. CASE UNCHANGED <<byteCount, readMode, isUnaligned>>
      BY <1>2, <3>1 DEF Typed
    <3>2. CASE byteCount' \in Nat /\ readMode' = "DMA" /\ isUnaligned' = FALSE
      BY <3>2
    <3>. QED BY <1>6, <3>1, <3>2
  <2>. QED BY <1>1, <1>2, <1>4, <1>7, <2>1, <2>2, <2>3 DEF Typed
<1>9. PlaceOK'
  <2>1. CASE pc' = "poll" /\ UNCHANGED <<index, byteCount, readMode, isUnaligned>>
    <3>1. InMessage' /\ Kind' = Kind
      BY <1>1, <2>1 DEF InMessage, Kind
    <3>. QED BY <1>1, <1>3, <2>1, <3>1 DEF PlaceOK
  <2>2. CASE tx = 0 /\ pc' \in {"prepare", "deselect"} /\ readMode' = "DMA"
    <3>1. NothingLeft' /\ ~InMessage'
      BY <1>1, <1>3, <1>5, <2>2 DEF NothingLeft, InMessage
    <3>. QED BY <2>2, <3>1 DEF PlaceOK
  <2>. QED BY <1>6, <2>1, <2>2
<1>10. QueueOK' /\ StatusOK'
  <2>1. pc' = "poll" => Kind' = Kind
    BY <1>1, <1>6 DEF Kind
  <2>. QED BY <1>1, <1>6, <2>1 DEF QueueOK, StatusOK, InMessage
<1>11. SendOK'
  <2>1. PICK n : n = Len(txFifo) + Words(txLeft)
    OBVIOUS
  <2>2. AtWork("TX", n)'
    BY <1>1, <2>1, WorkStays DEF TransferInv, SendOK
  <2>. QED BY <1>4, <2>1, <2>2 DEF SendOK
<1>12. ReceiveOK'
  <2>1. Owed = 0 /\ Owed' = 0
    BY <1>1, <1>3, WordsOfCount DEF Owed
  <2>2. PICK n \in Nat : AtWork("RX", n) /\ n + Len(rxFifo) = Owed
    BY DEF TransferInv, ReceiveOK
  <2>3. AtWork("RX", n)'
    BY <1>1, <2>2, WorkStays
  <2>. QED BY <1>1, <2>1, <2>2, <2>3 DEF ReceiveOK
<1>. QED BY <1>8, <1>9, <1>10, <1>11, <1>12 DEF TransferInv

(* The driver sees the DMA through, and takes the bytes that are no whole word
   as a message of their own; or it sees nothing new. *)
LEMMA DmaKeepsInv ==
  ASSUME TransferInv, ActDma
  PROVE  TransferInv'
<1>1. /\ pc = "act" /\ Kind = "RX" /\ readMode = "DMA"
      /\ UNCHANGED <<transfer, transfers, isBusy, txLeft, status, genFifo, started, current,
                     txFifo, rxFifo>>
  BY DEF ActDma, transferVars, busVars
<1>2. Typed /\ PlaceOK /\ StatusOK /\ InMessage
  BY <1>1 DEF TransferInv, InMessage
<1>3. /\ rxLeft \in Nat /\ rxPtr \in Nat /\ txLeft = 0 /\ ~isUnaligned
      /\ dma \in [at: Nat, left: Nat, done: BOOLEAN] /\ dma.left % 4 = 0
      /\ rxLeft # 0 <=> dma.left > 0 \/ dma.done
      /\ dma.done => dma.left = 0
  BY <1>1, <1>2 DEF Typed, PlaceOK
<1>4. transfer \in Transfers /\ index \in Nat \ {0} /\ index <= Len(transfer)
  BY <1>2, InTransfer
<1>5. /\ dma' \in [at: Nat, left: Nat, done: BOOLEAN] /\ dma'.left = dma.left
      /\ rxLeft' \in Nat
      /\ \/ ~dma.done /\ UNCHANGED <<rxPtr, rxLeft, dma>> /\ Turn(0, rxLeft)
         \/ /\ dma.done /\ ~dma'.done /\ rxLeft' = 0
            /\ SetIOMode \/ (Turn(0, 0) /\ UNCHANGED rxPtr)
  <2>1. CASE ~dma.done
    BY <1>3, <2>1 DEF ActDma
  <2>2. CASE dma.done
    <3>1. /\ dma' = [dma EXCEPT !.done = FALSE] /\ rxLeft' = 0
          /\ SetIOMode \/ (Turn(0, 0) /\ UNCHANGED rxPtr)
      BY <2>2 DEF ActDma
    <3>. QED BY <1>3, <2>2, <3>1
  <2>. QED BY <2>1, <2>2
<1>6. \/ /\ pc' = "poll" /\ UNCHANGED <<index, byteCount, rxPtr, readMode, isUnaligned>>
         /\ rxLeft' # 0 <=> dma'.left > 0 \/ dma'.done
         /\ dma'.done => dma'.left = 0
      \/ /\ pc' \in {"prepare", "deselect"} /\ rxLeft' = 0 /\ dma'.left = 0 /\ ~dma'.done
         /\ index' \in Nat \ {0} /\ (pc' = "prepare" => index' <= Len(transfer))
         /\ byteCount' \in Nat /\ rxPtr' \in Nat
         /\ \/ readMode' = "DMA" /\ isUnaligned' = FALSE
            \/ pc' = "prepare" /\ readMode' = "IO" /\ isUnaligned' = TRUE
  <2>1. CASE ~dma.done /\ UNCHANGED <<rxPtr, rxLeft, dma>> /\ Turn(0, rxLeft)
    <3>1. PICK rx : rx = rxLeft
      OBVIOUS
    <3>2. \/ pc' = "poll" /\ UNCHANGED <<index, byteCount, readMode, isUnaligned>>
          \/ /\ status.genEmpty /\ rx = 0
             /\ pc' \in {"prepare", "deselect"}
             /\ index' \in Nat \ {0} /\ (pc' = "prepare" => index' <= Len(transfer))
             /\ byteCount' \in Nat /\ readMode' = "DMA" /\ isUnaligned' = FALSE
      <4>1. Turn(0, rx)
        BY <2>1, <3>1
      <4>. QED BY <1>1, <1>2, <4>1, TurnIs
    <3>3. rx = 0 => dma.left = 0 /\ ~dma.done
      BY <1>3, <3>1
    <3>. QED BY <1>3, <2>1, <3>1, <3>2, <3>3
  <2>2. CASE dma.done /\ ~dma'.done /\ rxLeft' = 0 /\ SetIOMode
    <3>1. /\ pc' = "prepare" /\ readMode' = "IO" /\ isUnaligned' = TRUE /\ index' = index
          /\ byteCount' = rxLeft % 4 /\ rxPtr' = rxPtr + DmaBytes(rxLeft)
      BY <2>2 DEF SetIOMode
    <3>2. rxLeft % 4 \in Nat /\ DmaBytes(rxLeft) \in Nat
      BY <1>3 DEF DmaBytes
    <3>. QED BY <1>3, <1>4, <1>5, <2>2, <3>1, <3>2
  <2>3. CASE dma.done /\ ~dma'.done /\ rxLeft' = 0 /\ Turn(0, 0) /\ UNCHANGED rxPtr
    <3>1. \/ pc' = "poll" /\ UNCHANGED <<index, byteCount, readMode, isUnaligned>>
          \/ /\ pc' \in {"prepare", "deselect"}
             /\ index' \in Nat \ {0} /\ (pc' = "prepare" => index' <= Len(transfer))
             /\ byteCount' \in Nat /\ readMode' = "DMA" /\ isUnaligned' = FALSE
      BY <1>1, <1>2, <2>3, TurnIs
    <3>2. dma'.left = 0 /\ ~dma'.done
      BY <1>3, <1>5, <2>3
    <3>. QED BY <1>3, <2>3, <3>1, <3>2
  <2>. QED BY <1>5, <2>1, <2>2, <2>3
<1>7. Typed'
  <2>1. /\ pc' \in {"poll", "prepare", "deselect"} /\ byteCount' \in Nat /\ rxPtr' \in Nat
        /\ readMode' \in {"DMA", "IO"}
        /\ isUnaligned' \in BOOLEAN /\ (isUnaligned' <=> readMode' = "IO")
        /\ index' \in Nat \ {0} /\ (pc' # "deselect" => index' <= Len(transfer))
    <3>1. CASE pc' = "poll" /\ UNCHANGED <<index, byteCount, rxPtr, readMode, isUnaligned>>
      BY <1>2, <1>4, <3>1 DEF Typed
    <3>2. CASE ~(pc' = "poll" /\ UNCHANGED <<index, byteCount, rxPtr, readMode, isUnaligned>>)
      BY <1>6, <3>2
    <3>. QED BY <3>1, <3>2
  <2>2. dma'.left % 4 = 0
    BY <1>3, <1>5
  <2>. QED BY <1>1, <1>2, <1>4, <1>5, <2>1, <2>2 DEF Typed
<1>8. PlaceOK'
  <2>1. CASE /\ pc' = "poll" /\ UNCHANGED <<index, byteCount, rxPtr, readMode, isUnaligned>>
             /\ rxLeft' # 0 <=> dma'.left > 0 \/ dma'.done
             /\ dma'.done => dma'.left = 0
    <3>1. InMessage' /\ Kind' = Kind
      BY <1>1, <2>1 DEF InMessage, Kind
    <3>. QED BY <1>1, <1>3, <2>1, <3>1 DEF PlaceOK
  <2>2. CASE /\ pc' \in {"prepare", "deselect"} /\ rxLeft' = 0 /\ dma'.left = 0 /\ ~dma'.done
             /\ \/ readMode' = "DMA"
                \/ pc' = "prepare" /\ readMode' = "IO"
    <3>1. NothingLeft' /\ ~InMessage'
      BY <1>1, <1>3, <2>2 DEF NothingLeft, InMessage
    <3>. QED BY <2>2, <3>1 DEF PlaceOK, NothingLeft
  <2>. QED BY <1>6, <2>1, <2>2
<1>9. QueueOK' /\ StatusOK'
  <2>1. pc' = "poll" => Kind' = Kind /\ readMode' = "DMA"
    BY <1>1, <1>6 DEF Kind
  <2>. QED BY <1>1, <1>6, <2>1 DEF QueueOK, StatusOK, InMessage
<1>10. SendOK' /\ ReceiveOK'
  <2>1. Words(txLeft') = Words(txLeft)
    BY <1>1
  <2>2. Owed' = Owed
    <3>1. CASE readMode' = "DMA"
      BY <1>1, <1>5, <3>1 DEF Owed
    <3>2. CASE readMode' = "IO" /\ rxLeft' = 0 /\ dma.left = 0
      <4>1. Owed = 0
        BY <1>1, <3>2 DEF Owed
      <4>2. Owed' = 0
        BY <3>2, WordsOfCount DEF Owed
      <4>. QED BY <4>1, <4>2
    <3>. QED BY <1>1, <1>5, <1>6, <3>1, <3>2
  <2>. QED BY <1>1, <2>1, <2>2, WordsStay
<1>. QED BY <1>7, <1>8, <1>9, <1>10 DEF TransferInv

(* A read through the FIFO takes a word when one waits, and all of them when the
   controller is through. *)
LEMMA IoKeepsInv ==
  ASSUME TransferInv, ActIo
  PROVE  TransferInv'
<1>1. /\ pc = "act" /\ Kind = "RX" /\ readMode = "IO"
      /\ UNCHANGED <<transfer, transfers, isBusy, txLeft, status, genFifo, started, current,
                     txFifo, dma>>
  BY DEF ActIo, transferVars, busVars
<1>2. Typed /\ PlaceOK /\ QueueOK /\ StatusOK /\ InMessage
  BY <1>1 DEF TransferInv, InMessage
<1>3. /\ rxLeft \in Nat /\ rxPtr \in Nat /\ txLeft = 0 /\ isUnaligned = TRUE
      /\ IsSequence(rxFifo) /\ Len(rxFifo) \in Nat /\ dma.left = 0 /\ ~dma.done
      /\ status.genEmpty => genFifo = <<>> /\ current.left = 0
      /\ status.rxNotEmpty => rxFifo # <<>>
      /\ EndsIdle
  <2>1. IsSequence(rxFifo) /\ rxLeft \in Nat /\ rxPtr \in Nat /\ isUnaligned = TRUE
    BY <1>1, <1>2 DEF Typed
  <2>2. EndsIdle
    BY <1>1, <1>2 DEF QueueOK
  <2>3. /\ status.genEmpty => genFifo = <<>> /\ current.left = 0
        /\ status.rxNotEmpty => rxFifo # <<>>
    BY <1>1, <1>2, <2>2 DEF StatusOK, EndsIdle
  <2>4. txLeft = 0 /\ dma.left = 0 /\ ~dma.done
    BY <1>1, <1>2 DEF PlaceOK
  <2>. QED BY <2>1, <2>2, <2>3, <2>4, LengthOf
<1>4. transfer \in Transfers /\ index \in Nat \ {0} /\ index <= Len(transfer)
  BY <1>2, InTransfer
<1>5. PICK n \in Nat : AtWork("RX", n) /\ n + Len(rxFifo) = Words(rxLeft)
  BY <1>1 DEF TransferInv, ReceiveOK, Owed
<1>6. AtWork("RX", n)'
  BY <1>1, <1>5, WorkStays
<1>7. /\ rxLeft' \in Nat /\ rxPtr' \in Nat /\ IsSequence(rxFifo')
      /\ n + Len(rxFifo') = Words(rxLeft')
  <2>1. CASE UNCHANGED <<rxFifo, rxLeft, rxPtr>>
    BY <1>3, <1>5, <2>1
  <2>2. ASSUME NEW b \in 0..rxLeft, b = rxLeft \/ b = 4, Words(b) <= Len(rxFifo),
               rxLeft' = rxLeft - b, rxPtr' = rxPtr + b,
               rxFifo' = SubSeq(rxFifo, Words(b) + 1, Len(rxFifo))
        PROVE  /\ rxLeft' \in Nat /\ rxPtr' \in Nat /\ IsSequence(rxFifo')
               /\ n + Len(rxFifo') = Words(rxLeft')
    <3>1. b \in Nat /\ rxLeft - b \in Nat /\ Words(b) \in Nat /\ b + (rxLeft - b) = rxLeft
      BY <1>3, <2>2, WordsOfCount
    <3>2. Words(rxLeft) = Words(b) + Words(rxLeft - b)
      <4>1. CASE b = rxLeft
        <5>1. Words(rxLeft - b) = 0
          BY <1>3, <3>1, <4>1, WordsOfCount
        <5>. QED BY <3>1, <4>1, <5>1
      <4>2. CASE b = 4
        <5>1. b % 4 = 0
          BY <4>2
        <5>. QED BY <3>1, <5>1, WordsAdd
      <4>. QED BY <2>2, <4>1, <4>2
    <3>3. IsSequence(rxFifo') /\ Len(rxFifo') = Len(rxFifo) - Words(b)
      BY <1>3, <2>2, <3>1, SomeTaken
    <3>4. Words(rxLeft - b) \in Nat
      BY <3>1, WordsOfCount
    <3>5. n + Len(rxFifo') = Words(rxLeft - b)
      <4>1. PICK x, y, z : x = Words(b) /\ y = Words(rxLeft - b) /\ z = Len(rxFifo)
        OBVIOUS
      <4>2. x \in Nat /\ y \in Nat /\ z \in Nat /\ n + z = x + y /\ Len(rxFifo') = z - x
        BY <1>3, <1>5, <3>1, <3>2, <3>3, <3>4, <4>1
      <4>3. n + (z - x) = y
        BY <4>2
      <4>. QED BY <4>1, <4>2, <4>3
    <3>. QED BY <1>3, <2>2, <3>1, <3>3, <3>5
  <2>3. CASE status.rxNotEmpty /\ ReadRxFifo(4)
    <3>1. PICK b : b = MinOf(rxLeft, 4 * Words(4))
      OBVIOUS
    <3>2. /\ rxLeft' = rxLeft - b /\ rxPtr' = rxPtr + b
          /\ rxFifo' = SubSeq(rxFifo, Words(b) + 1, Len(rxFifo))
      BY <2>3, <3>1 DEF ReadRxFifo
    <3>3. Len(rxFifo) >= 1
      BY <1>3, <2>3, LengthOf
    <3>4. 4 * Words(4) = 4
      BY DEF Words
    <3>5. b \in 0..rxLeft /\ (b = rxLeft \/ b = 4) /\ b <= 4
      BY <1>3, <3>1, <3>4 DEF MinOf
    <3>6. Words(b) <= 1
      BY <1>3, <3>5 DEF Words
    <3>7. Words(b) <= Len(rxFifo)
      <4>1. Words(b) \in Nat
        BY <1>3, <3>5, WordsOfCount
      <4>. QED BY <1>3, <3>3, <3>6, <4>1
    <3>. QED BY <2>2, <3>2, <3>5, <3>7
  <2>4. CASE status.genEmpty /\ ReadRxFifo(rxLeft)
    <3>1. PICK b : b = MinOf(rxLeft, 4 * Words(rxLeft))
      OBVIOUS
    <3>2. /\ rxLeft' = rxLeft - b /\ rxPtr' = rxPtr + b
          /\ rxFifo' = SubSeq(rxFifo, Words(b) + 1, Len(rxFifo))
      BY <2>4, <3>1 DEF ReadRxFifo
    <3>3. b = rxLeft
      BY <1>3, <3>1 DEF MinOf, Words
    <3>4. n = 0
      BY <1>3, <1>5, <2>4, AllDone
    <3>5. Words(b) <= Len(rxFifo)
      BY <1>3, <1>5, <3>3, <3>4
    <3>6. b \in 0..rxLeft
      BY <1>3, <3>3
    <3>. QED BY <2>2, <3>2, <3>3, <3>5, <3>6
  <2>5. \/ UNCHANGED <<rxFifo, rxLeft, rxPtr>>
        \/ status.rxNotEmpty /\ ReadRxFifo(4)
        \/ status.genEmpty /\ ReadRxFifo(rxLeft)
    BY DEF ActIo, IORead
  <2>. QED BY <2>1, <2>3, <2>4, <2>5
<1>8. \/ /\ pc' \in {"poll", "assert"} /\ UNCHANGED <<index, byteCount, readMode, isUnaligned>>
      \/ /\ pc' \in {"prepare", "deselect"} /\ rxLeft' = 0
         /\ index' \in Nat \ {0} /\ (pc' = "prepare" => index' <= Len(transfer))
         /\ byteCount' \in Nat /\ readMode' = "DMA" /\ isUnaligned' = FALSE
  <2>1. CASE AssertionFails
    BY <2>1 DEF ActIo
  <2>2. CASE ~AssertionFails
    <3>1. PICK rx : rx = rxLeft'
      OBVIOUS
    <3>2. Turn(0, rx)
      BY <2>2, <3>1 DEF ActIo
    <3>. QED BY <1>1, <1>2, <3>1, <3>2, TurnIs
  <2>. QED BY <2>1, <2>2
<1>9. Typed'
  <2>1. /\ pc' \in {"poll", "assert", "prepare", "deselect"} /\ byteCount' \in Nat
        /\ readMode' \in {"DMA", "IO"}
        /\ isUnaligned' \in BOOLEAN /\ (isUnaligned' <=> readMode' = "IO")
        /\ index' \in Nat \ {0} /\ (pc' # "deselect" => index' <= Len(transfer))
    <3>1. CASE pc' \in {"poll", "assert"} /\ UNCHANGED <<index, byteCount, readMode, isUnaligned>>
      BY <1>2, <1>4, <3>1 DEF Typed
    <3>2. CASE /\ pc' \in {"prepare", "deselect"}
               /\ index' \in Nat \ {0} /\ (pc' = "prepare" => index' <= Len(transfer))
               /\ byteCount' \in Nat /\ readMode' = "DMA" /\ isUnaligned' = FALSE
      BY <3>2
    <3>. QED BY <1>8, <3>1, <3>2
  <2>. QED BY <1>1, <1>2, <1>4, <1>7, <2>1 DEF Typed
<1>10. PlaceOK'
  <2>1. CASE pc' \in {"poll", "assert"} /\ UNCHANGED <<index, byteCount, readMode, isUnaligned>>
    <3>1. pc' = "poll" => Kind' = Kind
      BY <1>1, <2>1 DEF Kind
    <3>2. InMessage' => pc' = "poll"
      BY <2>1 DEF InMessage
    <3>. QED BY <1>1, <1>3, <2>1, <3>1, <3>2 DEF PlaceOK
  <2>2. CASE pc' \in {"prepare", "deselect"} /\ rxLeft' = 0 /\ readMode' = "DMA"
    <3>1. NothingLeft' /\ ~InMessage'
      BY <1>1, <1>3, <2>2 DEF NothingLeft, InMessage
    <3>. QED BY <2>2, <3>1 DEF PlaceOK
  <2>. QED BY <1>8, <2>1, <2>2
<1>11. QueueOK' /\ StatusOK'
  <2>1. EndsIdle'
    BY <1>1, <1>3 DEF EndsIdle
  <2>. QED BY <1>1, <1>8, <2>1 DEF QueueOK, StatusOK, InMessage
<1>12. SendOK'
  <2>1. PICK k : k = Len(txFifo) + Words(txLeft)
    OBVIOUS
  <2>2. AtWork("TX", k)'
    BY <1>1, <2>1, WorkStays DEF TransferInv, SendOK
  <2>. QED BY <1>1, <2>1, <2>2 DEF SendOK
<1>13. ReceiveOK'
  <2>1. Owed' = Words(rxLeft')
    <3>1. CASE readMode' = "IO"
      BY <3>1 DEF Owed
    <3>2. CASE readMode' = "DMA" /\ rxLeft' = 0
      <4>1. Owed' = 0
        BY <1>1, <1>3, <3>2 DEF Owed
      <4>. QED BY <3>2, <4>1, WordsOfCount
    <3>. QED BY <1>1, <1>8, <3>1, <3>2
  <2>. QED BY <1>6, <1>7, <2>1 DEF ReceiveOK
<1>. QED BY <1>9, <1>10, <1>11, <1>12, <1>13 DEF TransferInv

LEMMA DeselectKeepsInv ==
  ASSUME TransferInv, Deselect
  PROVE  TransferInv'
<1>1. /\ pc = "deselect" /\ pc' = "start" /\ genFifo' = Append(genFifo, CSDeAssert)
      /\ UNCHANGED <<transfer, transfers, index, byteCount, rxPtr, isBusy, readMode, isUnaligned,
                     txLeft, rxLeft, status, started, current, txFifo, rxFifo, dma>>
  BY DEF Deselect, transferVars, driverVars, busVars
<1>2. Typed /\ PlaceOK /\ readMode = "DMA" /\ NothingLeft
  BY <1>1 DEF TransferInv, PlaceOK
<1>3. /\ genFifo \in Seq(EntryType) /\ current \in EntryType /\ started \in 0..Len(genFifo)
      /\ IsSequence(txFifo) /\ txLeft \in Nat
  BY <1>2 DEF Typed
<1>4. CSDeAssert \in EntryType /\ CSDeAssert.left = 0 /\ \A k : WordsOf(CSDeAssert, k) = 0
  BY DEF CSDeAssert, Entry, EntryType, DataKinds, WordsOf, Words
<1>5. /\ genFifo' = genFifo \o <<CSDeAssert>> /\ genFifo' \in Seq(EntryType)
      /\ Len(genFifo') = Len(genFifo) + 1 /\ Len(genFifo) \in Nat
  BY <1>1, <1>3, <1>4, AppendIsConcat, AppendProperties, LenProperties
<1>6. EndsIdle'
  BY <1>3, <1>4, <1>5, IdleAdded
<1>7. started' \in 0..Len(genFifo')
  BY <1>1, <1>3, <1>5
<1>8. Typed'
  BY <1>1, <1>2, <1>5, <1>7 DEF Typed
<1>9. PlaceOK'
  <2>1. NothingLeft' /\ readMode' = "DMA"
    BY <1>1, <1>2 DEF NothingLeft
  <2>. QED BY <1>1, <2>1 DEF PlaceOK, NothingLeft
<1>10. QueueOK' /\ StatusOK'
  BY <1>1, <1>2, <1>6 DEF QueueOK, StatusOK
<1>11. \A k : Sums(<<CSDeAssert>>, k, 0) /\ <<CSDeAssert>> \in Seq(EntryType)
  BY <1>4, SumOfOne
<1>12. \A k : \A n \in Nat : AtWork(k, n) => AtWork(k, n)'
  <2>. SUFFICES ASSUME NEW k, NEW n \in Nat, AtWork(k, n) PROVE AtWork(k, n)'
    OBVIOUS
  <2>1. AtWork(k, n + 0)'
    BY <1>1, <1>3, <1>5, <1>11, WorkAdded
  <2>2. n + 0 = n
    OBVIOUS
  <2>. QED BY <2>1, <2>2
<1>13. SendOK'
  <2>1. PICK n : n = Len(txFifo) + Words(txLeft)
    OBVIOUS
  <2>2. n \in Nat
    <3>1. IsSequence(txFifo) /\ txLeft \in Nat
      BY <1>2 DEF Typed
    <3>2. Len(txFifo) \in Nat /\ Words(txLeft) \in Nat
      BY <3>1, LengthOf, WordsOfCount
    <3>. QED BY <2>1, <3>2
  <2>3. AtWork("TX", n)'
    BY <1>12, <2>1, <2>2 DEF TransferInv, SendOK
  <2>. QED BY <1>1, <2>1, <2>3 DEF SendOK
<1>14. ReceiveOK'
  <2>1. PICK n \in Nat : AtWork("RX", n) /\ n + Len(rxFifo) = Owed
    BY DEF TransferInv, ReceiveOK
  <2>2. AtWork("RX", n)' /\ Owed' = Owed
    BY <1>1, <1>12, <2>1 DEF Owed
  <2>. QED BY <1>1, <2>1, <2>2 DEF ReceiveOK
<1>. QED BY <1>8, <1>9, <1>10, <1>13, <1>14 DEF TransferInv

LEMMA EndKeepsInv ==
  ASSUME TransferInv, EndTransfer
  PROVE  TransferInv'
<1>1. /\ pc = "drain" /\ pc' = "idle" /\ genFifo = <<>> /\ isBusy' = FALSE
      /\ UNCHANGED <<transfer, transfers, index, byteCount, rxPtr, readMode, isUnaligned,
                     txLeft, rxLeft, status, genFifo, started, current, txFifo, rxFifo, dma>>
  BY DEF EndTransfer, transferVars, busVars
<1>2. Typed /\ PlaceOK /\ QueueOK
  BY DEF TransferInv
<1>3. Typed'
  BY <1>1, <1>2 DEF Typed
<1>4. PlaceOK' /\ QueueOK' /\ StatusOK'
  BY <1>1, <1>2 DEF PlaceOK, NothingLeft, QueueOK, EndsIdle, StatusOK, InMessage
<1>5. SendOK' /\ ReceiveOK'
  BY <1>1, WordsStay DEF Owed
<1>. QED BY <1>3, <1>4, <1>5 DEF TransferInv
-----------------------------------------------------------------------------
(* The controller's steps. *)

LEMMA TakeKeepsInv ==
  ASSUME TransferInv, TakeEntry
  PROVE  TransferInv'
<1>. DEFINE head == Head(genFifo)
<1>1. /\ current.left = 0 /\ started > 0
      /\ current' = (IF head.left = 0 THEN NoEntry ELSE head)
      /\ genFifo' = Tail(genFifo) /\ started' = started - 1
      /\ UNCHANGED <<pc, transfer, transfers, index, byteCount, rxPtr, isBusy, readMode,
                     isUnaligned, txLeft, rxLeft, status, txFifo, rxFifo, dma>>
  BY DEF TakeEntry, transferVars, driverVars
<1>2. Typed /\ PlaceOK /\ QueueOK /\ StatusOK
  BY DEF TransferInv
<1>3. /\ genFifo \in Seq(EntryType) /\ current \in EntryType /\ started \in 0..Len(genFifo)
      /\ IsSequence(txFifo) /\ txLeft \in Nat
  BY <1>2 DEF Typed
<1>4. genFifo # <<>> /\ Len(genFifo) \in Nat
  BY <1>1, <1>3, EmptySeq, LenProperties
<1>5. /\ head \in EntryType /\ head = genFifo[1]
      /\ genFifo' \in Seq(EntryType) /\ Len(genFifo') = Len(genFifo) - 1
      /\ \A i \in 1..Len(genFifo') : genFifo'[i] = genFifo[i + 1]
  BY <1>1, <1>3, <1>4, HeadTailProperties
<1>6. NoEntry \in EntryType /\ NoEntry.left = 0 /\ \A k : WordsOf(NoEntry, k) = 0
  BY DEF NoEntry, EntryType, DataKinds, WordsOf, Words
<1>. HIDE DEF head
<1>7. current' \in EntryType /\ started' \in 0..Len(genFifo')
  BY <1>1, <1>3, <1>4, <1>5, <1>6
<1>8. \A k : WordsOf(current', k) = WordsOf(head, k) /\ WordsOf(current, k) = 0
  <2>1. CASE head.left = 0
    <3>1. current' = NoEntry /\ \A k : WordsOf(head, k) = 0
      BY <1>1, <2>1 DEF WordsOf, Words
    <3>. QED BY <1>1, <1>6, <3>1 DEF WordsOf, Words
  <2>2. CASE head.left # 0
    <3>1. current' = head
      BY <1>1, <2>2
    <3>. QED BY <1>1, <3>1 DEF WordsOf, Words
  <2>. QED BY <2>1, <2>2
<1>9. \A k : \A n \in Nat : AtWork(k, n) => AtWork(k, n)'
  <2>. SUFFICES ASSUME NEW k, NEW n \in Nat, AtWork(k, n) PROVE AtWork(k, n)'
    OBVIOUS
  <2>1. PICK m \in Nat : Sums(genFifo, k, m) /\ n = m + WordsOf(current, k)
    BY DEF AtWork
  <2>2. PICK w : w = WordsOf(head, k)
    OBVIOUS
  <2>3. w \in Nat /\ n = m
    BY <1>5, <1>8, <2>1, <2>2, WordsOfType
  <2>4. Sums(Tail(genFifo), k, m - w)
    BY <1>3, <1>4, <2>1, <2>2, SumOfTail DEF head
  <2>5. Sums(genFifo', k, m - w)
    BY <1>1, <2>4
  <2>6. m - w \in Nat
    BY <1>5, <2>5, SumIsNatural
  <2>7. WordsOf(current', k) = w /\ n = (m - w) + w
    BY <1>8, <2>2, <2>3
  <2>. QED BY <2>5, <2>6, <2>7 DEF AtWork
<1>10. EndsIdle => EndsIdle'
  <2>. SUFFICES ASSUME EndsIdle PROVE EndsIdle'
    OBVIOUS
  <2>1. genFifo[Len(genFifo)].left = 0
    BY <1>4 DEF EndsIdle
  <2>2. CASE genFifo' = <<>>
    <3>1. Len(genFifo) = 1
      BY <1>4, <1>5, <2>2, EmptySeq
    <3>2. head.left = 0
      BY <1>5, <2>1, <3>1
    <3>3. current' = NoEntry
      BY <1>1, <3>2
    <3>. QED BY <1>6, <2>2, <3>3 DEF EndsIdle
  <2>3. CASE genFifo' # <<>>
    <3>1. PICK l : l = Len(genFifo')
      OBVIOUS
    <3>2. l \in 1..l /\ l + 1 = Len(genFifo)
      BY <1>4, <1>5, <2>3, <3>1, EmptySeq
    <3>3. genFifo'[l] = genFifo[l + 1]
      BY <1>5, <3>1, <3>2
    <3>. QED BY <2>1, <2>3, <3>1, <3>2, <3>3 DEF EndsIdle
  <2>. QED BY <2>2, <2>3
<1>11. InMessage' = InMessage /\ Kind' = Kind
  BY <1>1 DEF InMessage, Kind
<1>12. Typed'
  BY <1>1, <1>2, <1>5, <1>7 DEF Typed
<1>13. PlaceOK'
  BY <1>1, <1>2 DEF PlaceOK, NothingLeft, InMessage, Kind
<1>14. QueueOK'
  BY <1>1, <1>2, <1>4, <1>10 DEF QueueOK, InMessage, Kind
<1>15. StatusOK'
  BY <1>1, <1>2, <1>4 DEF StatusOK
<1>16. SendOK'
  <2>1. PICK n : n = Len(txFifo) + Words(txLeft)
    OBVIOUS
  <2>2. n \in Nat
    <3>1. IsSequence(txFifo) /\ txLeft \in Nat
      BY <1>2 DEF Typed
    <3>2. Len(txFifo) \in Nat /\ Words(txLeft) \in Nat
      BY <3>1, LengthOf, WordsOfCount
    <3>. QED BY <2>1, <3>2
  <2>3. AtWork("TX", n)'
    BY <1>9, <2>1, <2>2 DEF TransferInv, SendOK
  <2>. QED BY <1>1, <2>1, <2>3 DEF SendOK
<1>17. ReceiveOK'
  <2>1. PICK n \in Nat : AtWork("RX", n) /\ n + Len(rxFifo) = Owed
    BY DEF TransferInv, ReceiveOK
  <2>2. AtWork("RX", n)' /\ Owed' = Owed
    BY <1>1, <1>9, <2>1 DEF Owed
  <2>. QED BY <1>1, <2>1, <2>2 DEF ReceiveOK
<1>. QED BY <1>12, <1>13, <1>14, <1>15, <1>16, <1>17 DEF TransferInv

LEMMA ClockKeepsInv ==
  ASSUME TransferInv, ClockWord
  PROVE  TransferInv'
<1>. DEFINE b == MinOf(4, current.left)
<1>1. /\ current.left > 0 /\ current' = [current EXCEPT !.left = current.left - b]
      /\ UNCHANGED <<pc, transfer, transfers, index, byteCount, rxPtr, isBusy, readMode,
                     isUnaligned, txLeft, rxLeft, status, genFifo, started, dma>>
  BY DEF ClockWord, transferVars, driverVars
<1>2. Typed /\ PlaceOK /\ QueueOK /\ StatusOK
  BY DEF TransferInv
<1>3. /\ genFifo \in Seq(EntryType) /\ current \in EntryType
      /\ IsSequence(txFifo) /\ IsSequence(rxFifo) /\ txLeft \in Nat
      /\ Len(txFifo) \in Nat /\ Len(rxFifo) \in Nat /\ Words(txLeft) \in Nat
  BY <1>2, LengthOf, WordsOfCount DEF Typed
<1>4. current.left \in Nat
  BY <1>3 DEF EntryType
<1>5. b \in 1..current.left /\ Words(current.left - b) = Words(current.left) - 1
  BY <1>1, <1>4, OneWordLess
<1>. HIDE DEF b
<1>6. /\ current' \in EntryType /\ current'.kind = current.kind
      /\ current'.left = current.left - b
  <2>1. current.left - b \in Nat
    BY <1>4, <1>5
  <2>. QED BY <1>1, <1>3, <2>1 DEF EntryType
<1>7. PICK kind : kind = current.kind
  OBVIOUS
<1>8. WordsOf(current', kind) = WordsOf(current, kind) - 1
  BY <1>5, <1>6, <1>7 DEF WordsOf
<1>9. \A k : k # kind => WordsOf(current', k) = WordsOf(current, k)
  BY <1>6, <1>7 DEF WordsOf
<1>10. \A n \in Nat : AtWork(kind, n) => n > 0 /\ AtWork(kind, n - 1)'
  <2>. SUFFICES ASSUME NEW n \in Nat, AtWork(kind, n) PROVE n > 0 /\ AtWork(kind, n - 1)'
    OBVIOUS
  <2>1. PICK m \in Nat : Sums(genFifo, kind, m) /\ n = m + WordsOf(current, kind)
    BY DEF AtWork
  <2>2. WordsOf(current, kind) \in Nat /\ WordsOf(current', kind) \in Nat
    BY <1>3, <1>6, WordsOfType
  <2>3. n > 0 /\ n - 1 = m + WordsOf(current', kind)
    BY <1>8, <2>1, <2>2
  <2>4. Sums(genFifo', kind, m)
    BY <1>1, <2>1
  <2>. QED BY <2>3, <2>4 DEF AtWork
<1>11. \A k, n : k # kind /\ AtWork(k, n) => AtWork(k, n)'
  BY <1>1, <1>9 DEF AtWork
<1>12. PICK n \in Nat : AtWork("RX", n) /\ n + Len(rxFifo) = Owed
  BY DEF TransferInv, ReceiveOK
<1>13. PICK l \in Nat : l = Len(txFifo) + Words(txLeft) /\ AtWork("TX", l)
  BY <1>3 DEF TransferInv, SendOK
<1>14. Owed' = Owed
  BY <1>1 DEF Owed
<1>15. /\ IsSequence(txFifo') /\ IsSequence(rxFifo') /\ SendOK' /\ ReceiveOK'
       /\ rxFifo # <<>> => rxFifo' # <<>>
  <2>1. CASE kind = "TX"
    <3>1. txFifo # <<>> /\ txFifo' = Tail(txFifo) /\ rxFifo' = rxFifo
      BY <1>7, <2>1 DEF ClockWord
    <3>2. IsSequence(txFifo') /\ Len(txFifo') = Len(txFifo) - 1
      BY <1>3, <3>1, OneTaken
    <3>3. AtWork("TX", l - 1)' /\ AtWork("RX", n)'
      BY <1>10, <1>11, <1>12, <1>13, <2>1
    <3>4. Len(txFifo') + Words(txLeft') = l - 1
      BY <1>1, <1>3, <1>13, <3>2
    <3>5. SendOK'
      BY <3>3, <3>4 DEF SendOK
    <3>6. ReceiveOK'
      BY <1>12, <1>14, <3>1, <3>3 DEF ReceiveOK
    <3>. QED BY <1>3, <3>1, <3>2, <3>5, <3>6
  <2>2. CASE kind = "RX"
    <3>1. PICK e : rxFifo' = Append(rxFifo, e)
      BY <1>7, <2>2 DEF ClockWord
    <3>2. txFifo' = txFifo
      BY <1>7, <2>2 DEF ClockWord
    <3>3. IsSequence(rxFifo') /\ Len(rxFifo') = Len(rxFifo) + 1 /\ rxFifo' # <<>>
      BY <1>3, <3>1, OneAppended
    <3>4. n > 0 /\ AtWork("RX", n - 1)' /\ AtWork("TX", l)'
      BY <1>10, <1>11, <1>12, <1>13, <2>2
    <3>5. Len(txFifo') + Words(txLeft') = l
      BY <1>1, <1>13, <3>2
    <3>6. SendOK'
      BY <3>4, <3>5 DEF SendOK
    <3>7. n - 1 \in Nat /\ n - 1 + Len(rxFifo') = Owed'
      BY <1>3, <1>12, <1>14, <3>3, <3>4
    <3>8. ReceiveOK'
      BY <3>4, <3>7 DEF ReceiveOK
    <3>. QED BY <1>3, <3>2, <3>3, <3>6, <3>8
  <2>3. CASE kind = "DUMMY"
    <3>1. txFifo' = txFifo /\ rxFifo' = rxFifo
      BY <1>7, <2>3 DEF ClockWord
    <3>2. AtWork("RX", n)' /\ AtWork("TX", l)'
      BY <1>11, <1>12, <1>13, <2>3
    <3>3. Len(txFifo') + Words(txLeft') = l
      BY <1>1, <1>13, <3>1
    <3>4. SendOK'
      BY <3>2, <3>3 DEF SendOK
    <3>5. ReceiveOK'
      BY <1>12, <1>14, <3>1, <3>2 DEF ReceiveOK
    <3>. QED BY <1>3, <3>1, <3>4, <3>5
  <2>4. kind \in {"TX", "DUMMY", "RX"}
    BY <1>1, <1>3, <1>7 DEF EntryType, DataKinds
  <2>. QED BY <2>1, <2>2, <2>3, <2>4
<1>16. Typed'
  BY <1>1, <1>2, <1>6, <1>15 DEF Typed
<1>17. PlaceOK'
  BY <1>1, <1>2 DEF PlaceOK, NothingLeft, InMessage, Kind
<1>18. QueueOK'
  <2>1. EndsIdle => EndsIdle'
    BY <1>1 DEF EndsIdle
  <2>. QED BY <1>1, <1>2, <2>1 DEF QueueOK, InMessage, Kind
<1>19. StatusOK'
  BY <1>1, <1>2, <1>15 DEF StatusOK
<1>. QED BY <1>15, <1>16, <1>17, <1>18, <1>19 DEF TransferInv

LEMMA MoveKeepsInv ==
  ASSUME TransferInv, MoveWord
  PROVE  TransferInv'
<1>1. /\ readMode = "DMA" /\ dma.left > 0 /\ rxFifo # <<>> /\ rxFifo' = Tail(rxFifo)
      /\ dma' = [at |-> dma.at + 4, left |-> dma.left - 4, done |-> dma.left = 4]
      /\ UNCHANGED <<pc, transfer, transfers, index, byteCount, rxPtr, isBusy, readMode,
                     isUnaligned, txLeft, rxLeft, status, genFifo, started, current, txFifo>>
  BY DEF MoveWord, transferVars, driverVars, busVars
<1>2. Typed /\ PlaceOK /\ QueueOK /\ StatusOK
  BY DEF TransferInv
<1>3. InMessage /\ Kind = "RX"
  BY <1>1, <1>2 DEF PlaceOK, NothingLeft, InMessage, Typed
<1>4. /\ dma.at \in Nat /\ dma.left \in Nat /\ dma.left % 4 = 0 /\ IsSequence(rxFifo)
      /\ rxLeft # 0 /\ txLeft = 0
  BY <1>1, <1>2, <1>3 DEF Typed, PlaceOK
<1>5. /\ dma.left - 4 \in Nat /\ (dma.left - 4) % 4 = 0 /\ dma.at + 4 \in Nat
      /\ (dma.left - 4) \div 4 = dma.left \div 4 - 1 /\ dma.left \div 4 \in Nat
      /\ dma.left - 4 = 0 <=> dma.left = 4
  <2>1. PICK n \in Nat : n = dma.left
    BY <1>4
  <2>2. n > 0 /\ n % 4 = 0
    BY <1>1, <1>4, <2>1
  <2>3. /\ n - 4 \in Nat /\ (n - 4) % 4 = 0 /\ (n - 4) \div 4 = n \div 4 - 1
        /\ n \div 4 \in Nat /\ n - 4 = 0 <=> n = 4
    BY <2>2, FourLess
  <2>4. dma.at + 4 \in Nat
    BY <1>4
  <2>. QED BY <2>1, <2>3, <2>4
<1>6. /\ dma' \in [at: Nat, left: Nat, done: BOOLEAN] /\ dma'.left = dma.left - 4
      /\ dma'.done <=> dma.left = 4
  BY <1>1, <1>5
<1>7. dma'.left % 4 = 0
  BY <1>5, <1>6
<1>8. IsSequence(rxFifo') /\ Len(rxFifo') = Len(rxFifo) - 1 /\ Len(rxFifo) \in Nat \ {0}
  BY <1>1, <1>4, OneTaken
<1>9. InMessage' /\ Kind' = Kind
  BY <1>1, <1>3 DEF InMessage, Kind
<1>10. Typed'
  BY <1>1, <1>2, <1>6, <1>7, <1>8 DEF Typed
<1>11. PlaceOK'
  <2>1. pc' \in {"poll", "act", "start"}
    BY <1>1, <1>3 DEF InMessage
  <2>2. dma'.left > 0 \/ dma'.done
    <3>1. PICK left \in Nat : left = dma'.left /\ left = dma.left - 4
      BY <1>5, <1>6
    <3>2. left = 0 => dma.left = 4
      BY <1>4, <3>1
    <3>3. left # 0 => left > 0
      OBVIOUS
    <3>4. left = 0 => dma'.done
      BY <1>6, <3>2, Zenon
    <3>. QED BY <3>1, <3>3, <3>4
  <2>3. dma'.done => dma'.left = 0
    BY <1>5, <1>6
  <2>. QED BY <1>1, <1>3, <1>4, <1>9, <2>1, <2>2, <2>3 DEF PlaceOK
<1>12. QueueOK' /\ StatusOK'
  BY <1>1, <1>2, <1>3, <1>9 DEF QueueOK, StatusOK, InMessage
<1>13. SendOK'
  <2>1. PICK n : n = Len(txFifo) + Words(txLeft)
    OBVIOUS
  <2>2. AtWork("TX", n)'
    BY <1>1, <2>1, WorkStays DEF TransferInv, SendOK
  <2>. QED BY <1>1, <2>1, <2>2 DEF SendOK
<1>14. ReceiveOK'
  <2>1. PICK n \in Nat : AtWork("RX", n) /\ n + Len(rxFifo) = Owed
    BY DEF TransferInv, ReceiveOK
  <2>2. AtWork("RX", n)'
    BY <1>1, <2>1, WorkStays
  <2>3. Owed = dma.left \div 4 /\ Owed' = (dma.left - 4) \div 4
    BY <1>1, <1>6 DEF Owed
  <2>4. n + Len(rxFifo') = Owed'
    BY <1>5, <1>8, <2>1, <2>3
  <2>. QED BY <2>2, <2>4 DEF ReceiveOK
<1>. QED BY <1>10, <1>11, <1>12, <1>13, <1>14 DEF TransferInv
-----------------------------------------------------------------------------
(* The theorems. *)

LEMMA TransferNext ==
  ASSUME TransferInv, [Next]_vars
  PROVE  TransferInv'
<1>1. CASE UNCHANGED vars
  <2>1. UNCHANGED <<pc, transfer, transfers, index, byteCount, rxPtr, isBusy, readMode,
                    isUnaligned, txLeft, rxLeft, status, genFifo, started, current, txFifo,
                    rxFifo, dma>>
    BY <1>1 DEF vars, transferVars, driverVars, busVars
  <2>2. Typed /\ PlaceOK /\ QueueOK /\ StatusOK
    BY DEF TransferInv
  <2>3. Typed'
    BY <2>1, <2>2 DEF Typed
  <2>4. PlaceOK' /\ QueueOK' /\ StatusOK'
    BY <2>1, <2>2 DEF PlaceOK, NothingLeft, QueueOK, EndsIdle, StatusOK, InMessage, Kind
  <2>5. SendOK' /\ ReceiveOK'
    BY <2>1, WordsStay DEF Owed
  <2>. QED BY <2>3, <2>4, <2>5 DEF TransferInv
<1>2. CASE Next
  BY <1>2, BeginKeepsInv, PrepareKeepsInv, StartKeepsInv, PollKeepsInv, SendKeepsInv,
     DmaKeepsInv, IoKeepsInv, DeselectKeepsInv, EndKeepsInv, TakeKeepsInv, ClockKeepsInv,
     MoveKeepsInv, Zenon DEF Next, DriverStep
<1>. QED BY <1>1, <1>2

LEMMA TransferAlways == Spec => []TransferInv
<1>1. Init => TransferInv
  BY TransferInit
<1>2. TransferInv /\ [Next]_vars => TransferInv'
  BY TransferNext
<1>. QED BY <1>1, <1>2, PTL DEF Spec

(* Between transfers every FIFO is empty, the DMA is through and its completion
   seen, and the driver is in DMA mode, for messages of any length, FIFOs of any
   size and every order in which driver and controller run. *)
THEOREM LeavesNothingBehind == Spec => []LeavesNothing
<1>1. TransferInv => LeavesNothing
  <2>. SUFFICES ASSUME TransferInv, ~isBusy PROVE LeavesNothing
    BY DEF LeavesNothing
  <2>1. Typed /\ PlaceOK /\ QueueOK /\ pc = "idle"
    BY DEF TransferInv, Typed
  <2>2. /\ readMode = "DMA" /\ ~isUnaligned /\ NothingLeft /\ genFifo = <<>>
        /\ current.left = 0 /\ IsSequence(txFifo) /\ IsSequence(rxFifo)
    BY <2>1 DEF PlaceOK, QueueOK, EndsIdle, Typed
  <2>3. Len(txFifo) \in Nat /\ Len(rxFifo) \in Nat /\ Words(txLeft) \in Nat
    BY <2>2, LengthOf, WordsOfCount DEF NothingLeft
  <2>4. txFifo = <<>>
    <3>1. Len(txFifo) + Words(txLeft) = 0
      BY <2>2, AllDone DEF TransferInv, SendOK
    <3>. QED BY <2>2, <2>3, <3>1, LengthOf
  <2>5. rxFifo = <<>>
    <3>1. PICK n \in Nat : AtWork("RX", n) /\ n + Len(rxFifo) = Owed
      BY DEF TransferInv, ReceiveOK
    <3>2. n = 0 /\ Owed = 0
      BY <2>2, <3>1, AllDone DEF Owed, NothingLeft
    <3>3. Len(rxFifo) = 0
      BY <2>3, <3>1, <3>2
    <3>. QED BY <2>2, <3>3, LengthOf
  <2>. QED BY <2>2, <2>4, <2>5 DEF LeavesNothing, NothingLeft
<1>. QED BY <1>1, TransferAlways, PTL
-----------------------------------------------------------------------------
(* Where the entries lie in the traffic of a message. *)

(* Induction over the numbers up to n. *)
LEMMA UpTo ==
  ASSUME NEW n \in Nat, NEW S, 0 \in S, \A m \in 1..n : m - 1 \in S => m \in S
  PROVE  \A m \in 0..n : m \in S
<1>. DEFINE Missing == {m \in 0..n : m \notin S}
<1>. SUFFICES ASSUME Missing # {} PROVE FALSE
  OBVIOUS
<1>1. Missing \subseteq Nat
  OBVIOUS
<1>2. PICK m \in Missing : \A k \in Missing : m <= k
  <2>. HIDE DEF Missing
  <2>. QED BY <1>1, LeastNatural
<1>3. m \in 0..n /\ m \notin S
  OBVIOUS
<1>4. m \in 1..n /\ m - 1 \in 0..n /\ m - 1 \notin Missing
  <2>1. m # 0
    BY <1>3
  <2>2. m \in 1..n /\ m - 1 \in 0..n /\ ~ m <= m - 1
    BY <1>3, <2>1
  <2>. QED BY <1>2, <2>2
<1>. QED BY <1>3, <1>4

(* The entries move the bytes from a to b, as f runs them up; all but the last
   move whole words. *)
LaidOut(f, s, a, b) ==
  /\ f \in [0..Len(s) -> Nat] /\ f[0] = a /\ f[Len(s)] = b
  /\ \A i \in 1..Len(s) : f[i] = f[i - 1] + s[i].left
  /\ \A i \in 0..Len(s) : f[i] <= b /\ (f[i] % 4 = 0 \/ f[i] = b)

Lay(s, a, b) == \E f : LaidOut(f, s, a, b)

LEMMA LayBounds ==
  ASSUME NEW s \in Seq(EntryType), NEW a, NEW b, Lay(s, a, b)
  PROVE  a \in Nat /\ b \in Nat /\ a <= b /\ (a % 4 = 0 \/ a = b)
<1>1. PICK f : LaidOut(f, s, a, b)
  BY DEF Lay
<1>2. Len(s) \in Nat
  BY LenProperties
<1>. QED BY <1>1, <1>2 DEF LaidOut

LEMMA LayNone ==
  /\ \A a \in Nat : Lay(<<>>, a, a)
  /\ \A a, b : Lay(<<>>, a, b) => a = b
<1>1. Len(<<>>) = 0
  BY EmptySeq
<1>2. ASSUME NEW a \in Nat PROVE Lay(<<>>, a, a)
  <2>1. LaidOut([i \in 0..0 |-> a], <<>>, a, a)
    BY <1>1, <1>2 DEF LaidOut
  <2>. QED BY <2>1 DEF Lay
<1>. QED BY <1>1, <1>2 DEF Lay, LaidOut

LEMMA LayOne ==
  ASSUME NEW e \in EntryType, NEW a \in Nat, a % 4 = 0 \/ e.left = 0
  PROVE  <<e>> \in Seq(EntryType) /\ Lay(<<e>>, a, a + e.left)
<1>1. <<e>> \in Seq(EntryType) /\ Len(<<e>>) = 1 /\ <<e>>[1] = e
  OBVIOUS
<1>2. PICK l \in Nat : l = e.left
  BY DEF EntryType
<1>. DEFINE s == <<e>>
            f == [i \in 0..1 |-> IF i = 0 THEN a ELSE a + l]
<1>. HIDE DEF s
<1>3. Len(s) = 1 /\ s[1].left = l
  BY <1>1, <1>2 DEF s
<1>4. f \in [0..1 -> Nat] /\ f[0] = a /\ f[1] = a + l
  BY <1>2
<1>. HIDE DEF f
<1>5. f[1] = f[0] + s[1].left
  BY <1>3, <1>4
<1>6. \A i \in 1..1 : f[i] = f[i - 1] + s[i].left
  <2>1. \A i \in 1..1 : i = 1 /\ i - 1 = 0
    OBVIOUS
  <2>. QED BY <1>5, <2>1
<1>7. \A i \in 0..1 : f[i] <= a + l /\ (f[i] % 4 = 0 \/ f[i] = a + l)
  <2>1. \A i \in 0..1 : i = 0 \/ i = 1
    OBVIOUS
  <2>2. a <= a + l /\ (a % 4 = 0 \/ a = a + l)
    BY <1>2
  <2>. QED BY <1>4, <2>1, <2>2
<1>8. LaidOut(f, s, a, a + l)
  BY <1>3, <1>4, <1>6, <1>7 DEF LaidOut
<1>. QED BY <1>1, <1>2, <1>8 DEF Lay, s

LEMMA LayTail ==
  ASSUME NEW s \in Seq(EntryType), NEW a, NEW b, Lay(s, a, b), s # <<>>
  PROVE  Lay(Tail(s), a + Head(s).left, b)
<1>1. PICK f : LaidOut(f, s, a, b)
  BY DEF Lay
<1>. DEFINE t == Tail(s)
            g == [i \in 0..Len(t) |-> f[i + 1]]
<1>2. /\ Len(s) \in Nat \ {0} /\ Len(t) = Len(s) - 1 /\ t \in Seq(EntryType)
      /\ Head(s) = s[1] /\ \A i \in 1..Len(t) : t[i] = s[i + 1]
  BY HeadTailProperties, LenProperties, EmptySeq
<1>. HIDE DEF t
<1>3. /\ f \in [0..Len(s) -> Nat] /\ f[0] = a /\ f[Len(s)] = b
      /\ \A i \in 1..Len(s) : f[i] = f[i - 1] + s[i].left
      /\ \A i \in 0..Len(s) : f[i] <= b /\ (f[i] % 4 = 0 \/ f[i] = b)
  BY <1>1 DEF LaidOut
<1>4. PICK m \in Nat : m = Len(t) /\ Len(s) = m + 1
  BY <1>2
<1>5. g \in [0..m -> Nat] /\ g[m] = b
  <2>1. \A i \in 0..m : i + 1 \in 0..Len(s)
    BY <1>4
  <2>2. \A i \in 0..m : f[i + 1] \in Nat
    BY <1>3, <2>1
  <2>. QED BY <1>3, <1>4, <2>2
<1>6. g[0] = a + Head(s).left
  <2>1. 1 \in 1..Len(s) /\ 1 - 1 = 0
    BY <1>4
  <2>2. f[1] = f[1 - 1] + s[1].left
    BY <1>3, <2>1
  <2>. QED BY <1>2, <1>3, <1>4, <2>1, <2>2
<1>7. \A i \in 1..m : g[i] = g[i - 1] + t[i].left
  <2>. SUFFICES ASSUME NEW i \in 1..m PROVE g[i] = g[i - 1] + t[i].left
    OBVIOUS
  <2>1. PICK k : k = i + 1
    OBVIOUS
  <2>2. k \in 1..Len(s) /\ k - 1 = i /\ i \in 0..m /\ i - 1 \in 0..m /\ i - 1 + 1 = i
    BY <1>4, <2>1
  <2>3. f[k] = f[i] + s[k].left
    BY <1>3, <2>2
  <2>4. g[i] = f[k] /\ g[i - 1] = f[i] /\ t[i] = s[k]
    BY <1>2, <1>4, <2>1, <2>2
  <2>. QED BY <2>3, <2>4
<1>8. \A i \in 0..m : g[i] <= b /\ (g[i] % 4 = 0 \/ g[i] = b)
  <2>. SUFFICES ASSUME NEW i \in 0..m PROVE g[i] <= b /\ (g[i] % 4 = 0 \/ g[i] = b)
    OBVIOUS
  <2>1. i + 1 \in 0..Len(s) /\ g[i] = f[i + 1]
    BY <1>4
  <2>. QED BY <1>3, <2>1
<1>. HIDE DEF g
<1>9. LaidOut(g, t, a + Head(s).left, b)
  BY <1>4, <1>5, <1>6, <1>7, <1>8 DEF LaidOut
<1>. QED BY <1>9 DEF Lay, t

LEMMA LayBoth ==
  ASSUME NEW s \in Seq(EntryType), NEW t \in Seq(EntryType), NEW a, NEW b, NEW c,
         Lay(s, a, b), Lay(t, b, c), b % 4 = 0 \/ b = c
  PROVE  Lay(s \o t, a, c)
<1>1. PICK f : LaidOut(f, s, a, b)
  BY DEF Lay
<1>2. PICK g : LaidOut(g, t, b, c)
  BY DEF Lay
<1>. DEFINE st == s \o t
<1>3. PICK m \in Nat, n \in Nat : m = Len(s) /\ n = Len(t)
  BY LenProperties
<1>4. /\ Len(st) = m + n
      /\ \A i \in 1..m + n : st[i] = IF i <= m THEN s[i] ELSE t[i - m]
  BY <1>3, ConcatProperties
<1>. HIDE DEF st
<1>. DEFINE h == [i \in 0..m + n |-> IF i <= m THEN f[i] ELSE g[i - m]]
<1>5. /\ f \in [0..m -> Nat] /\ f[0] = a /\ f[m] = b
      /\ \A i \in 1..m : f[i] = f[i - 1] + s[i].left
      /\ \A i \in 0..m : f[i] <= b /\ (f[i] % 4 = 0 \/ f[i] = b)
  BY <1>1, <1>3 DEF LaidOut
<1>6. /\ g \in [0..n -> Nat] /\ g[0] = b /\ g[n] = c
      /\ \A i \in 1..n : g[i] = g[i - 1] + t[i].left
      /\ \A i \in 0..n : g[i] <= c /\ (g[i] % 4 = 0 \/ g[i] = c)
  BY <1>2, <1>3 DEF LaidOut
<1>7. b \in Nat /\ c \in Nat /\ b <= c
  BY LayBounds
<1>8. ASSUME NEW i \in 0..m + n
      PROVE  /\ i <= m => i \in 0..m /\ h[i] = f[i]
             /\ ~ i <= m => i - m \in 1..n /\ h[i] = g[i - m]
             /\ i >= m => h[i] = g[i - m] /\ i - m \in 0..n
  <2>1. i = m => h[i] = g[i - m]
    <3>. SUFFICES ASSUME i = m PROVE f[m] = g[i - m]
      OBVIOUS
    <3>1. i - m = 0
      OBVIOUS
    <3>. QED BY <1>5, <1>6, <3>1
  <2>. QED BY <2>1
<1>9. ASSUME NEW i \in 0..m + n
      PROVE  h[i] \in Nat /\ h[i] <= c /\ (h[i] % 4 = 0 \/ h[i] = c)
  <2>1. CASE i <= m
    <3>1. h[i] = f[i] /\ i \in 0..m
      BY <1>8, <1>9, <2>1
    <3>. HIDE DEF h
    <3>. QED BY <1>5, <1>7, <3>1
  <2>2. CASE ~ i <= m
    <3>1. h[i] = g[i - m] /\ i - m \in 0..n
      BY <1>8, <1>9, <2>2
    <3>. HIDE DEF h
    <3>. QED BY <1>6, <1>7, <3>1
  <2>. QED BY <2>1, <2>2
<1>10. h \in [0..m + n -> Nat] /\ h[0] = a /\ h[m + n] = c
  <2>1. 0 \in 0..m + n /\ m + n \in 0..m + n /\ m + n - m = n
    OBVIOUS
  <2>2. h[0] = a
    BY <1>5, <2>1
  <2>3. h[m + n] = g[m + n - m]
    BY <1>8, <2>1
  <2>. QED BY <1>6, <1>9, <2>1, <2>2, <2>3
<1>11. \A i \in 1..m + n : h[i] = h[i - 1] + st[i].left
  <2>. SUFFICES ASSUME NEW i \in 1..m + n PROVE h[i] = h[i - 1] + st[i].left
    OBVIOUS
  <2>1. i \in 0..m + n /\ i - 1 \in 0..m + n
    OBVIOUS
  <2>2. CASE i <= m
    <3>1. h[i] = f[i] /\ h[i - 1] = f[i - 1] /\ st[i] = s[i] /\ i \in 1..m
      BY <1>4, <1>8, <2>1, <2>2
    <3>. HIDE DEF h
    <3>. QED BY <1>5, <3>1
  <2>3. CASE ~ i <= m
    <3>1. PICK j : j = i - m
      OBVIOUS
    <3>2. j \in 1..n /\ i - 1 - m = j - 1 /\ i - 1 >= m
      BY <2>3, <3>1
    <3>3. h[i] = g[j] /\ h[i - 1] = g[j - 1] /\ st[i] = t[j]
      BY <1>4, <1>8, <2>1, <2>3, <3>1, <3>2
    <3>. HIDE DEF h
    <3>. QED BY <1>6, <3>2, <3>3
  <2>. QED BY <2>2, <2>3
<1>. HIDE DEF h
<1>12. LaidOut(h, st, a, c)
  BY <1>4, <1>9, <1>10, <1>11 DEF LaidOut
<1>. QED BY <1>12 DEF Lay, st
-----------------------------------------------------------------------------
(* The split of a count, as it lies from p on. *)

EntriesOf(s, kind) == \A i \in 1..Len(s) : s[i].left > 0 /\ s[i].kind = kind

LEMMA EntriesOfBoth ==
  ASSUME NEW s \in Seq(EntryType), NEW t \in Seq(EntryType), NEW kind,
         EntriesOf(s, kind), EntriesOf(t, kind)
  PROVE  EntriesOf(s \o t, kind)
<1>. DEFINE st == s \o t
<1>1. PICK m \in Nat, n \in Nat : m = Len(s) /\ n = Len(t)
  BY LenProperties
<1>2. /\ Len(st) = m + n
      /\ \A i \in 1..m + n : st[i] = IF i <= m THEN s[i] ELSE t[i - m]
  BY <1>1, ConcatProperties
<1>. HIDE DEF st
<1>3. ASSUME NEW i \in 1..m + n PROVE st[i].left > 0 /\ st[i].kind = kind
  <2>1. CASE i <= m
    <3>1. i \in 1..m /\ st[i] = s[i]
      BY <1>2, <1>3, <2>1
    <3>. QED BY <1>1, <3>1 DEF EntriesOf
  <2>2. CASE ~ i <= m
    <3>1. i - m \in 1..n /\ st[i] = t[i - m]
      BY <1>2, <1>3, <2>2
    <3>. QED BY <1>1, <3>1 DEF EntriesOf
  <2>. QED BY <2>1, <2>2
<1>4. EntriesOf(st, kind)
  BY <1>2, <1>3 DEF EntriesOf
<1>. QED BY <1>4 DEF st

LEMMA EntriesOfOne ==
  ASSUME NEW kind \in DataKinds, NEW c \in Nat \ {0}, NEW p \in Nat, p % 4 = 0
  PROVE  LET e == <<Entry(kind, c)>>
         IN  e \in Seq(EntryType) /\ EntriesOf(e, kind) /\ Lay(e, p, p + c)
<1>. DEFINE e == Entry(kind, c)
<1>1. e \in EntryType /\ e.left = c /\ e.kind = kind
  BY DEF Entry, EntryType
<1>. HIDE DEF e
<1>2. <<e>> \in Seq(EntryType) /\ Lay(<<e>>, p, p + c)
  BY <1>1, LayOne
<1>3. Len(<<e>>) = 1 /\ <<e>>[1] = e
  OBVIOUS
<1>4. EntriesOf(<<e>>, kind)
  <2>1. \A i \in 1..1 : i = 1
    OBVIOUS
  <2>. QED BY <1>1, <1>3, <2>1 DEF EntriesOf
<1>. QED BY <1>2, <1>4 DEF e

LEMMA EntriesOfNone ==
  ASSUME NEW kind
  PROVE  <<>> \in Seq(EntryType) /\ EntriesOf(<<>>, kind)
<1>1. <<>> \in Seq(EntryType) /\ Len(<<>>) = 0
  BY EmptySeq
<1>2. 1..0 = {}
  OBVIOUS
<1>. QED BY <1>1, <1>2 DEF EntriesOf

(* What was split off lies from p on, and what is left behind it. *)
SplitLaid(kind, count, p, t) ==
  /\ t.entries \in Seq(EntryType) /\ EntriesOf(t.entries, kind)
  /\ \E k \in Nat : /\ Lay(t.entries, p, p + 4 * k)
                    /\ 4 * k + t.unit * (t.temp \div ExpStart) = ExpStart * (count \div ExpStart)

LEMMA SplitLaidFirst ==
  ASSUME NEW kind, NEW count \in Nat, NEW p \in Nat
  PROVE  SplitLaid(kind, count, p, FirstTurn(count))
<1>1. ExpStart \in Nat \ {0} /\ count \div ExpStart \in Nat
  BY SizesAssumption
<1>. DEFINE t == FirstTurn(count)
<1>2. t.temp = count /\ t.unit = ExpStart /\ t.entries = <<>>
  BY DEF FirstTurn
<1>. HIDE DEF t
<1>3. PICK q \in Nat : q = count \div ExpStart
  BY <1>1
<1>4. 4 * 0 + ExpStart * q = ExpStart * q
  <2>1. ExpStart * q \in Nat
    BY <1>1
  <2>. QED BY <2>1
<1>5. 4 * 0 + t.unit * (t.temp \div ExpStart) = ExpStart * (count \div ExpStart)
  BY <1>2, <1>3, <1>4
<1>6. Lay(<<>>, p, p + 4 * 0)
  <2>1. p + 4 * 0 = p
    OBVIOUS
  <2>. QED BY <2>1, LayNone
<1>7. \E k \in Nat : /\ Lay(t.entries, p, p + 4 * k)
                     /\ 4 * k + t.unit * (t.temp \div ExpStart)
                        = ExpStart * (count \div ExpStart)
  BY <1>2, <1>5, <1>6
<1>8. SplitLaid(kind, count, p, t)
  BY <1>2, <1>7, EntriesOfNone DEF SplitLaid
<1>. QED BY <1>8 DEF t

LEMMA SplitLaidNext ==
  ASSUME NEW kind \in DataKinds, NEW count \in Nat, NEW i \in Nat, NEW t, NEW p \in Nat,
         p % 4 = 0, Split(kind, count, i, t), SplitLaid(kind, count, p, t)
  PROVE  SplitLaid(kind, count, p, Shift(kind, t))
<1>1. ExpStart \in Nat \ {0}
  BY SizesAssumption
<1>. DEFINE h == t.temp \div ExpStart
            e == <<Entry(kind, t.unit)>>
            new == IF h % 2 = 1 THEN e ELSE <<>>
            s == Shift(kind, t)
<1>2. t.temp \in Nat /\ t.unit \in Nat \ {0} /\ t.unit % 4 = 0
  BY DEF Split
<1>3. t.entries \in Seq(EntryType) /\ EntriesOf(t.entries, kind)
  BY DEF SplitLaid
<1>4. PICK k \in Nat : /\ Lay(t.entries, p, p + 4 * k)
                       /\ 4 * k + t.unit * h = ExpStart * (count \div ExpStart)
  BY DEF SplitLaid
<1>5. s.temp = t.temp \div 2 /\ s.unit = 2 * t.unit /\ s.entries = t.entries \o new
  BY Zenon DEF Shift
<1>6. s.temp \div ExpStart = h \div 2
  BY <1>1, <1>2, <1>5, HalfOfQuotient
<1>7. h \in Nat
  <2>1. t.temp \in Nat /\ ExpStart \in Nat \ {0}
    BY <1>1, <1>2
  <2>. QED BY <2>1, Quotient
<1>. HIDE DEF s
<1>8. PICK u \in Nat \ {0} : u = t.unit /\ u % 4 = 0
  BY <1>2
<1>9. PICK w \in Nat : w = Words(u) /\ 4 * w = u
  BY <1>8 DEF Words
<1>10. PICK x, g : x = ExpStart * (count \div ExpStart) /\ g = h
  OBVIOUS
<1>11. /\ h % 2 = 1 => 4 * (k + w) + (2 * u) * (h \div 2) = x
       /\ h % 2 # 1 => 4 * k + (2 * u) * (h \div 2) = x
  <2>1. g \in Nat /\ 4 * k + u * g = x
    BY <1>4, <1>7, <1>8, <1>10
  <2>2. /\ g % 2 = 1 => 4 * (k + w) + (2 * u) * (g \div 2) = 4 * k + u * g
        /\ g % 2 # 1 => 4 * k + (2 * u) * (g \div 2) = 4 * k + u * g
    <3>1. u \in Nat /\ u % 4 = 0 /\ g \in Nat /\ k \in Nat
      BY <1>8, <2>1
    <3>2. /\ g % 2 = 1 => 4 * (k + Words(u)) + (2 * u) * (g \div 2) = 4 * k + u * g
          /\ g % 2 # 1 => 4 * k + (2 * u) * (g \div 2) = 4 * k + u * g
      BY <3>1, ShiftArithmetic, ZenonT(40)
    <3>. QED BY <1>9, <3>2, Zenon
  <2>. QED BY <1>10, <2>1, <2>2
<1>12. p + 4 * k \in Nat /\ (p + 4 * k) % 4 = 0
  OBVIOUS
<1>13. CASE h % 2 = 1
  <2>1. new = e /\ e \in Seq(EntryType) /\ EntriesOf(e, kind) /\ Lay(e, p + 4 * k, p + 4 * k + u)
    BY <1>8, <1>12, <1>13, EntriesOfOne
  <2>. HIDE DEF new, e, h
  <2>2. s.entries \in Seq(EntryType) /\ EntriesOf(s.entries, kind)
    BY <1>3, <1>5, <2>1, EntriesOfBoth, ConcatProperties
  <2>3. Lay(s.entries, p, p + 4 * k + u)
    BY <1>3, <1>4, <1>5, <1>12, <2>1, LayBoth
  <2>4. p + 4 * k + u = p + 4 * (k + w) /\ k + w \in Nat
    BY <1>9
  <2>5. 4 * (k + w) + s.unit * (s.temp \div ExpStart) = x
    BY <1>5, <1>6, <1>8, <1>11, <1>13
  <2>. QED BY <1>10, <2>2, <2>3, <2>4, <2>5 DEF SplitLaid, s
<1>14. CASE h % 2 # 1
  <2>1. new = <<>> /\ t.entries \o <<>> = t.entries
    BY <1>3, <1>14, ConcatEmptySeq
  <2>. HIDE DEF new, h
  <2>2. s.entries = t.entries
    BY <1>5, <2>1
  <2>3. 4 * k + s.unit * (s.temp \div ExpStart) = x
    BY <1>5, <1>6, <1>8, <1>11, <1>14
  <2>. QED BY <1>3, <1>4, <1>10, <2>2, <2>3 DEF SplitLaid, s
<1>. QED BY <1>13, <1>14

LEMMA ExponentEntriesLaid ==
  ASSUME NEW kind \in DataKinds, NEW count \in Nat, NEW p \in Nat, p % 4 = 0
  PROVE  LET entries == ExponentEntries(kind, count)
         IN  /\ entries \in Seq(EntryType) /\ EntriesOf(entries, kind)
             /\ Lay(entries, p, p + ExpStart * (count \div ExpStart))
<1>. DEFINE H == count \div ExpStart
            turn == CHOOSE f : Loop(kind, count, H, f)
<1>0. H \in Nat /\ ExpStart \in Nat \ {0}
  BY SizesAssumption
<1>1. Loop(kind, count, H, turn)
  BY <1>0, LoopExists, Zenon
<1>2. ExponentEntries(kind, count) = turn[H].entries
  BY DEF ExponentEntries, Loop, FirstTurn
<1>. HIDE DEF turn
<1>3. \A i \in 0..H : turn[i] = IF i = 0 THEN FirstTurn(count) ELSE Shift(kind, turn[i - 1])
  BY <1>1 DEF Loop
<1>. DEFINE S == {i \in 0..H : /\ Split(kind, count, i, turn[i])
                               /\ SplitLaid(kind, count, p, turn[i])}
<1>4. 0 \in S
  <2>1. turn[0] = FirstTurn(count) /\ 0 \in 0..H
    BY <1>0, <1>3
  <2>. QED BY <2>1, SplitFirst, SplitLaidFirst
<1>5. \A m \in 1..H : m - 1 \in S => m \in S
  <2>. SUFFICES ASSUME NEW m \in 1..H, m - 1 \in S PROVE m \in S
    OBVIOUS
  <2>1. /\ Split(kind, count, m - 1, turn[m - 1]) /\ SplitLaid(kind, count, p, turn[m - 1])
    OBVIOUS
  <2>2. m - 1 \in Nat /\ m - 1 + 1 = m /\ m \in 0..H /\ m # 0
    BY <1>0
  <2>3. turn[m] = Shift(kind, turn[m - 1])
    BY <1>3, <2>2
  <2>4. Split(kind, count, m - 1 + 1, Shift(kind, turn[m - 1]))
    BY <2>1, <2>2, SplitNext
  <2>5. SplitLaid(kind, count, p, Shift(kind, turn[m - 1]))
    BY <2>1, <2>2, SplitLaidNext
  <2>. QED BY <2>2, <2>3, <2>4, <2>5
<1>6. \A m \in 0..H : m \in S
  <2>. HIDE DEF S, H
  <2>. QED BY <1>0, <1>4, <1>5, UpTo
<1>7. Split(kind, count, H, turn[H]) /\ SplitLaid(kind, count, p, turn[H])
  BY <1>0, <1>6
<1>. DEFINE t == turn[H]
<1>. HIDE DEF t
<1>8. /\ t.temp \in Nat /\ t.unit \in Nat \ {0}
      /\ t.temp \div ExpStart = 0 \/ t.temp \div ExpStart <= H - H
  BY <1>7 DEF Split, t
<1>9. PICK k \in Nat : Lay(t.entries, p, p + 4 * k)
                       /\ 4 * k + t.unit * (t.temp \div ExpStart) = ExpStart * H
  BY <1>7 DEF SplitLaid, t
<1>10. 4 * k = ExpStart * H
  <2>1. PICK q : q = t.temp \div ExpStart
    OBVIOUS
  <2>2. q = 0
    <3>1. t.temp \in Nat /\ ExpStart \in Nat \ {0}
      BY <1>0, <1>8
    <3>2. q \in Nat
      BY <2>1, <3>1, Quotient
    <3>. QED BY <1>0, <1>8, <2>1, <3>2
  <2>3. t.unit * q = 0
    BY <1>8, <2>2
  <2>. QED BY <1>9, <2>1, <2>3
<1>11. t.entries \in Seq(EntryType) /\ EntriesOf(t.entries, kind)
  BY <1>7 DEF SplitLaid, t
<1>. QED BY <1>2, <1>9, <1>10, <1>11 DEF t

(* The entries of a message lie one behind the other. *)
LEMMA DataEntriesLaid ==
  ASSUME NEW kind \in DataKinds, NEW count \in Nat \ {0}, NEW p \in Nat, p % 4 = 0
  PROVE  LET entries == DataEntries(kind, count)
         IN  /\ entries \in Seq(EntryType) /\ EntriesOf(entries, kind)
             /\ Lay(entries, p, p + count)
<1>0. ExpStart \in Nat \ {0} /\ ExpStart % 4 = 0
  BY SizesAssumption
<1>1. CASE count < ExpStart
  <2>1. DataEntries(kind, count) = <<Entry(kind, count)>>
    BY <1>1, Zenon DEF DataEntries
  <2>. QED BY <2>1, EntriesOfOne
<1>2. CASE ~ count < ExpStart
  <2>. DEFINE s == ExponentEntries(kind, count)
              r == count % ExpStart
              q == ExpStart * (count \div ExpStart)
              rest == IF r = 0 THEN <<>> ELSE <<Entry(kind, r)>>
  <2>1. DataEntries(kind, count) = s \o rest
    BY <1>2, Zenon DEF DataEntries
  <2>2. s \in Seq(EntryType) /\ EntriesOf(s, kind) /\ Lay(s, p, p + q)
    BY ExponentEntriesLaid
  <2>3. r \in Nat /\ count = q + r /\ q \in Nat /\ q % 4 = 0
    <3>1. PICK c \in Nat : c = count \div ExpStart
      BY <1>0
    <3>2. r \in Nat /\ count = q + r
      BY <1>0
    <3>3. PICK d \in Nat : ExpStart = 4 * d
      <4>1. ExpStart \div 4 \in Nat /\ ExpStart = 4 * (ExpStart \div 4)
        BY <1>0
      <4>. QED BY <4>1
    <3>4. ExpStart * c = 4 * (d * c) /\ d * c \in Nat
      BY <3>3
    <3>5. PICK dc \in Nat : ExpStart * c = 4 * dc
      BY <3>4
    <3>6. (4 * dc) % 4 = 0 /\ 4 * dc \in Nat
      OBVIOUS
    <3>. QED BY <3>1, <3>2, <3>5, <3>6
  <2>. HIDE DEF s, r, q
  <2>4. p + q \in Nat /\ (p + q) % 4 = 0 /\ p + q + r = p + count
    BY <2>3
  <2>5. rest \in Seq(EntryType) /\ EntriesOf(rest, kind) /\ Lay(rest, p + q, p + count)
    <3>1. CASE r = 0
      <4>1. rest = <<>> /\ p + q = p + count
        BY <2>3, <2>4, <3>1
      <4>. HIDE DEF rest
      <4>2. Lay(<<>>, p + q, p + q)
        BY <2>4, LayNone
      <4>. QED BY <4>1, <4>2, EntriesOfNone
    <3>2. CASE r # 0
      <4>1. rest = <<Entry(kind, r)>> /\ r \in Nat \ {0}
        BY <2>3, <3>2
      <4>. HIDE DEF rest
      <4>2. LET e == <<Entry(kind, r)>>
            IN  e \in Seq(EntryType) /\ EntriesOf(e, kind) /\ Lay(e, p + q, p + q + r)
        BY <2>4, <4>1, EntriesOfOne
      <4>. QED BY <2>4, <4>1, <4>2
    <3>. QED BY <3>1, <3>2
  <2>. HIDE DEF rest
  <2>6. s \o rest \in Seq(EntryType) /\ EntriesOf(s \o rest, kind)
    BY <2>2, <2>5, EntriesOfBoth, ConcatProperties
  <2>7. Lay(s \o rest, p, p + count)
    BY <2>2, <2>4, <2>5, LayBoth
  <2>. QED BY <2>1, <2>6, <2>7
<1>. QED BY <1>1, <1>2
-----------------------------------------------------------------------------
(* Where the messages lie in the traffic of a transfer. *)

Bytes == DataKinds \X Nat \X Nat

LEMMA MessageTrafficIs ==
  ASSUME NEW t \in Transfers, NEW i \in 1..Len(t)
  PROVE  MessageTraffic(t, i) \in Seq(Bytes) /\ Len(MessageTraffic(t, i)) = t[i].count
<1>. DEFINE s == MessageTraffic(t, i)
<1>0. Len(t) \in Nat
  BY TransfersAssumption, LenProperties
<1>1. PICK n \in Nat \ {0}, kind \in DataKinds : n = t[i].count /\ kind = t[i].kind
  BY <1>0, MessageType
<1>2. \A k \in 1..n : <<"TX", i, k>> \in Bytes /\ <<"DUMMY", 0, 0>> \in Bytes
                      /\ <<"RX", 0, k>> \in Bytes
  BY <1>0 DEF Bytes, DataKinds
<1>3. s = [k \in 1..n |-> CASE kind = "TX" -> <<"TX", i, k>>
                            [] kind = "DUMMY" -> <<"DUMMY", 0, 0>>
                            [] kind = "RX" -> <<"RX", 0, k>>]
  BY <1>1 DEF MessageTraffic
<1>. HIDE DEF s
<1>4. s \in [1..n -> Bytes]
  <2>1. CASE kind = "TX"
    <3>1. s = [k \in 1..n |-> <<"TX", i, k>>]
      BY <1>3, <2>1
    <3>. QED BY <1>2, <3>1
  <2>2. CASE kind = "DUMMY"
    <3>1. s = [k \in 1..n |-> <<"DUMMY", 0, 0>>]
      BY <1>3, <2>2
    <3>. QED BY <1>2, <3>1
  <2>3. CASE kind = "RX"
    <3>1. s = [k \in 1..n |-> <<"RX", 0, k>>]
      BY <1>3, <2>3
    <3>. QED BY <1>2, <3>1
  <2>. QED BY <1>1, <2>1, <2>2, <2>3 DEF DataKinds
<1>5. s \in Seq(Bytes)
  BY <1>1, <1>4, SeqDef
<1>6. DOMAIN s = 1..n /\ DOMAIN s = 1..Len(s) /\ Len(s) \in Nat
  BY <1>4, <1>5, LenProperties
<1>7. Len(s) = n
  BY <1>6
<1>. QED BY <1>1, <1>5, <1>7 DEF s

(* Its elements are the concatenations of the first sequences of s. *)
Flat(s, m, g) == g = [i \in 1..m |-> IF i = 1 THEN s[i] ELSE g[i - 1] \o s[i]]

LEMMA FlatExists ==
  ASSUME NEW s, NEW n \in Nat
  PROVE  \E g : Flat(s, n, g)
<1>. DEFINE S == {m \in 0..n : \E g : Flat(s, m, g)}
<1>1. 0 \in S
  <2>. DEFINE none == [i \in 1..0 |-> s]
  <2>1. none = [i \in 1..0 |-> IF i = 1 THEN s[i] ELSE none[i - 1] \o s[i]]
    <3>1. 1..0 = {}
      OBVIOUS
    <3>. QED BY <3>1
  <2>2. Flat(s, 0, none)
    BY <2>1, Zenon DEF Flat
  <2>. QED BY <2>2
<1>2. \A m \in 1..n : m - 1 \in S => m \in S
  <2>. SUFFICES ASSUME NEW m \in 1..n, m - 1 \in S PROVE \E g : Flat(s, m, g)
    OBVIOUS
  <2>1. PICK f : Flat(s, m - 1, f)
    OBVIOUS
  <2>2. f = [i \in 1..(m - 1) |-> IF i = 1 THEN s[i] ELSE f[i - 1] \o s[i]]
    BY <2>1, Zenon DEF Flat
  <2>. DEFINE last == IF m = 1 THEN s[m] ELSE f[m - 1] \o s[m]
              next == [i \in 1..m |-> IF i = m THEN last ELSE f[i]]
  <2>3. \A i \in 1..m : next[i] = IF i = 1 THEN s[i] ELSE next[i - 1] \o s[i]
    <3>. SUFFICES ASSUME NEW i \in 1..m
                  PROVE  next[i] = IF i = 1 THEN s[i] ELSE next[i - 1] \o s[i]
      OBVIOUS
    <3>1. CASE i = m /\ m = 1
      BY <3>1
    <3>2. CASE i = m /\ m # 1
      <4>1. m - 1 \in 1..m /\ m - 1 # m
        BY <3>2
      <4>2. next[m - 1] = f[m - 1] /\ next[m] = f[m - 1] \o s[m]
        BY <3>2, <4>1
      <4>. QED BY <3>2, <4>2
    <3>3. CASE i # m
      <4>1. i \in 1..(m - 1) /\ next[i] = f[i]
        BY <3>3
      <4>2. f[i] = IF i = 1 THEN s[i] ELSE f[i - 1] \o s[i]
        BY <2>2, <4>1
      <4>3. i # 1 => i - 1 \in 1..m /\ i - 1 # m /\ next[i - 1] = f[i - 1]
        BY <4>1
      <4>. QED BY <4>1, <4>2, <4>3
    <3>. QED BY <3>1, <3>2, <3>3
  <2>4. next = [i \in 1..m |-> IF i = 1 THEN s[i] ELSE next[i - 1] \o s[i]]
    <3>. DEFINE g == [i \in 1..m |-> IF i = 1 THEN s[i] ELSE next[i - 1] \o s[i]]
    <3>1. \A i \in 1..m : next[i] = g[i]
      BY <2>3
    <3>2. g = [i \in 1..m |-> g[i]]
      OBVIOUS
    <3>. HIDE DEF g
    <3>. HIDE DEF last
    <3>4. next = [i \in 1..m |-> next[i]]
      OBVIOUS
    <3>. HIDE DEF next
    <3>3. next = g
      BY <3>1, <3>2, <3>4
    <3>. QED BY <3>3 DEF g
  <2>5. Flat(s, m, next)
    BY <2>4, Zenon DEF Flat
  <2>. QED BY <2>5
<1>3. \A m \in 0..n : m \in S
  <2>. HIDE DEF S
  <2>. QED BY <1>1, <1>2, UpTo
<1>. QED BY <1>3

LEMMA FlattenIs ==
  ASSUME NEW s, NEW n \in Nat \ {0}, Len(s) = n
  PROVE  \E g : /\ FlattenSeq(s) = g[n] /\ g[1] = s[1]
                /\ \A i \in 2..n : g[i] = g[i - 1] \o s[i]
<1>. DEFINE g == CHOOSE f : Flat(s, n, f)
<1>1. Flat(s, n, g)
  BY FlatExists, Zenon
<1>2. FlattenSeq(s) = g[n]
  BY DEF FlattenSeq, Flat
<1>. HIDE DEF g
<1>3. g = [i \in 1..n |-> IF i = 1 THEN s[i] ELSE g[i - 1] \o s[i]]
  BY <1>1, Zenon DEF Flat
<1>4. \A i \in 1..n : g[i] = IF i = 1 THEN s[i] ELSE g[i - 1] \o s[i]
  BY <1>3
<1>5. 1 \in 1..n /\ \A i \in 2..n : i \in 1..n /\ i # 1
  OBVIOUS
<1>. QED BY <1>2, <1>4, <1>5, Zenon

(* Message i of the transfer is the traffic behind b[i - 1], up to b[i]. *)
TrafficLaid(t, b) ==
  /\ Traffic(t) \in Seq(Bytes)
  /\ b \in [0..Len(t) -> Nat] /\ b[0] = 0 /\ b[Len(t)] = Len(Traffic(t))
  /\ \A i \in 1..Len(t) : b[i] = b[i - 1] + t[i].count
  /\ \A j \in 0..Len(t) : \A i \in 0..j : b[i] <= b[j]
  /\ \A i \in 1..Len(t) : \A k \in 1..t[i].count :
       Traffic(t)[b[i - 1] + k] = MessageTraffic(t, i)[k]

Begins(t) == CHOOSE b : TrafficLaid(t, b)

LEMMA TrafficIsLaid ==
  ASSUME NEW t \in Transfers
  PROVE  TrafficLaid(t, Begins(t))
<1>1. PICK n \in Nat \ {0} : n = Len(t)
  <2>1. t \in Seq(Message) /\ t # <<>>
    BY TransfersAssumption
  <2>. QED BY <2>1, EmptySeq
<1>2. DOMAIN t = 1..n
  BY <1>1, TransfersAssumption, LenProperties
<1>. DEFINE s == [i \in DOMAIN t |-> MessageTraffic(t, i)]
<1>3. \A i \in 1..n : /\ MessageTraffic(t, i) \in Seq(Bytes)
                      /\ Len(MessageTraffic(t, i)) = t[i].count /\ t[i].count \in Nat \ {0}
  BY <1>1, MessageTrafficIs, MessageType
<1>4. /\ s \in Seq(Seq(Bytes)) /\ Len(s) = n
      /\ \A i \in 1..n : s[i] = MessageTraffic(t, i)
  <2>1. s \in [1..n -> Seq(Bytes)] /\ DOMAIN s = 1..n
    BY <1>2, <1>3
  <2>2. \A i \in 1..n : s[i] = MessageTraffic(t, i)
    BY <1>2
  <2>. HIDE DEF s
  <2>3. s \in Seq(Seq(Bytes))
    BY <2>1, SeqDef
  <2>4. DOMAIN s = 1..Len(s) /\ Len(s) \in Nat
    BY <2>3, LenProperties
  <2>. QED BY <2>1, <2>2, <2>3, <2>4
<1>5. Traffic(t) = FlattenSeq(s)
  BY DEF Traffic
<1>. HIDE DEF s
<1>6. PICK g : /\ FlattenSeq(s) = g[n] /\ g[1] = s[1]
               /\ \A i \in 2..n : g[i] = g[i - 1] \o s[i]
  BY <1>4, FlattenIs
<1>7. \A i \in 1..n : s[i] \in Seq(Bytes) /\ Len(s[i]) = t[i].count
  BY <1>3, <1>4
<1>8. \A i \in 1..n : g[i] \in Seq(Bytes)
  <2>. DEFINE S == {0} \cup {i \in 1..n : g[i] \in Seq(Bytes)}
  <2>1. \A m \in 1..n : m - 1 \in S => m \in S
    <3>. SUFFICES ASSUME NEW m \in 1..n, m - 1 \in S PROVE g[m] \in Seq(Bytes)
      OBVIOUS
    <3>1. CASE m = 1
      BY <1>6, <1>7, <3>1
    <3>2. CASE m # 1
      <4>1. m \in 2..n /\ g[m - 1] \in Seq(Bytes)
        BY <3>2
      <4>2. s[m] \in Seq(Bytes) /\ g[m] = g[m - 1] \o s[m]
        BY <1>6, <1>7, <4>1
      <4>3. g[m - 1] \o s[m] \in Seq(Bytes)
        BY <4>1, <4>2, ConcatProperties
      <4>. QED BY <4>2, <4>3
    <3>. QED BY <3>1, <3>2
  <2>2. 0 \in S
    OBVIOUS
  <2>3. \A m \in 0..n : m \in S
    <3>. HIDE DEF S
    <3>. QED BY <2>1, <2>2, UpTo
  <2>4. \A i \in 1..n : i \in 0..n /\ i # 0
    OBVIOUS
  <2>. QED BY <2>3, <2>4
<1>. DEFINE b == [i \in 0..n |-> IF i = 0 THEN 0 ELSE Len(g[i])]
<1>9. /\ b \in [0..n -> Nat] /\ b[0] = 0
      /\ \A i \in 1..n : b[i] = Len(g[i]) /\ b[i] \in Nat
  <2>1. \A i \in 1..n : Len(g[i]) \in Nat
    BY <1>8, LenProperties
  <2>2. \A i \in 0..n : i = 0 \/ i \in 1..n
    OBVIOUS
  <2>. QED BY <2>1, <2>2
<1>. HIDE DEF b
<1>10. \A i \in 1..n : /\ b[i] = b[i - 1] + t[i].count /\ b[i - 1] \in Nat
                       /\ t[i].count \in Nat \ {0}
  <2>. SUFFICES ASSUME NEW i \in 1..n PROVE b[i] = b[i - 1] + t[i].count /\ b[i - 1] \in Nat
    BY <1>3
  <2>1. i - 1 \in 0..n
    OBVIOUS
  <2>2. b[i - 1] \in Nat
    BY <1>9, <2>1
  <2>3. CASE i = 1
    <3>1. b[1] = t[1].count
      BY <1>6, <1>7, <1>9, <2>3
    <3>2. t[1].count \in Nat
      BY <1>3, <2>3
    <3>. QED BY <1>9, <2>2, <2>3, <3>1, <3>2
  <2>4. CASE i # 1
    <3>1. i \in 2..n /\ i - 1 \in 1..n
      BY <2>4
    <3>2. Len(g[i]) = Len(g[i - 1]) + Len(s[i])
      <4>1. s[i] \in Seq(Bytes) /\ g[i - 1] \in Seq(Bytes) /\ g[i] = g[i - 1] \o s[i]
        BY <1>6, <1>7, <1>8, <3>1
      <4>2. Len(g[i - 1] \o s[i]) = Len(g[i - 1]) + Len(s[i])
        BY <4>1, ConcatProperties
      <4>. QED BY <4>1, <4>2
    <3>. QED BY <1>7, <1>9, <2>2, <3>1, <3>2
  <2>. QED BY <2>3, <2>4
<1>11. \A j \in 0..n : \A i \in 0..j : b[i] <= b[j]
  <2>. DEFINE S == {j \in 0..n : \A i \in 0..j : b[i] <= b[j]}
  <2>1. 0 \in S
    <3>1. \A i \in 0..0 : i = 0
      OBVIOUS
    <3>. QED BY <1>9, <3>1
  <2>2. \A m \in 1..n : m - 1 \in S => m \in S
    <3>. SUFFICES ASSUME NEW m \in 1..n, m - 1 \in S, NEW i \in 0..m PROVE b[i] <= b[m]
      OBVIOUS
    <3>1. b[m] \in Nat /\ b[m - 1] \in Nat /\ b[m - 1] <= b[m]
      <4>1. PICK x \in Nat, c \in Nat : x = b[m - 1] /\ c = t[m].count /\ b[m] = x + c
        BY <1>10
      <4>. QED BY <4>1
    <3>2. CASE i = m
      BY <3>1, <3>2
    <3>3. CASE i # m
      <4>1. i \in 0..m - 1 /\ i \in 0..n
        BY <3>3
      <4>2. b[i] <= b[m - 1] /\ b[i] \in Nat
        BY <1>9, <4>1
      <4>. QED BY <3>1, <4>2
    <3>. QED BY <3>2, <3>3
  <2>3. \A m \in 0..n : m \in S
    <3>. HIDE DEF S
    <3>. QED BY <2>1, <2>2, UpTo
  <2>. QED BY <2>3
<1>12. \A m \in 0..n : \A i \in 1..m : \A k \in 1..t[i].count :
         g[m][b[i - 1] + k] = MessageTraffic(t, i)[k]
  <2>. DEFINE Here(m) == \A i \in 1..m : \A k \in 1..t[i].count :
                           g[m][b[i - 1] + k] = MessageTraffic(t, i)[k]
              S == {m \in 0..n : Here(m)}
  <2>1. 0 \in S
    <3>1. 1..0 = {}
      OBVIOUS
    <3>. QED BY <3>1
  <2>2. ASSUME NEW m \in 1..n, Here(m - 1) PROVE Here(m)
    <3>. SUFFICES ASSUME NEW i \in 1..m, NEW k \in 1..t[i].count
                  PROVE  g[m][b[i - 1] + k] = MessageTraffic(t, i)[k]
      OBVIOUS
    <3>0. i \in 1..n /\ m \in 0..n
      OBVIOUS
    <3>1. PICK x \in Nat, c \in Nat \ {0} : x = b[i - 1] /\ c = t[i].count /\ b[i] = x + c
      BY <1>10, <3>0
    <3>2. k \in 1..c
      BY <3>1
    <3>3. s[i] = MessageTraffic(t, i)
      BY <1>4, <3>0
    <3>4. CASE m = 1
      <4>1. i = 1 /\ x = 0 /\ g[m] = s[1]
        BY <1>6, <1>9, <3>1, <3>4
      <4>2. x + k = k
        BY <3>2, <4>1
      <4>. QED BY <3>1, <3>3, <4>1, <4>2
    <3>5. CASE m # 1
      <4>1. m \in 2..n /\ m - 1 \in 1..n /\ m - 1 \in 0..n
        BY <3>5
      <4>2. g[m] = g[m - 1] \o s[m] /\ g[m - 1] \in Seq(Bytes) /\ s[m] \in Seq(Bytes)
        BY <1>6, <1>7, <1>8, <4>1
      <4>3. PICK l \in Nat, r \in Nat : /\ l = Len(g[m - 1]) /\ l = b[m - 1]
                                        /\ r = Len(s[m]) /\ r = t[m].count
        BY <1>7, <1>9, <4>1, <4>2, LenProperties
      <4>4. \A j \in 1..l + r : g[m][j] = IF j <= l THEN g[m - 1][j] ELSE s[m][j - l]
        <5>1. \A j \in 1..Len(g[m - 1]) + Len(s[m]) :
                (g[m - 1] \o s[m])[j] = IF j <= Len(g[m - 1]) THEN g[m - 1][j]
                                         ELSE s[m][j - Len(g[m - 1])]
          BY <4>2, ConcatProperties
        <5>. QED BY <4>2, <4>3, <5>1
      <4>5. CASE i = m
        <5>1. x = l /\ c = r /\ x + k \in 1..l + r /\ ~ x + k <= l /\ x + k - l = k
          BY <3>1, <3>2, <4>3, <4>5
        <5>2. g[m][x + k] = s[m][k]
          BY <4>4, <5>1
        <5>. QED BY <3>1, <3>3, <4>5, <5>2
      <4>6. CASE i # m
        <5>1. i \in 1..m - 1 /\ i \in 0..m - 1
          BY <4>6
        <5>2. x + c <= l
          BY <1>11, <3>1, <4>1, <4>3, <5>1
        <5>3. x + k \in 1..l + r /\ x + k <= l
          BY <3>2, <5>2
        <5>4. g[m][x + k] = g[m - 1][x + k]
          BY <4>4, <5>3
        <5>5. g[m - 1][b[i - 1] + k] = MessageTraffic(t, i)[k]
          BY <2>2, <5>1
        <5>. QED BY <3>1, <5>4, <5>5
      <4>. QED BY <4>5, <4>6
    <3>. QED BY <3>4, <3>5
  <2>. HIDE DEF Here
  <2>3. \A m \in 1..n : m - 1 \in S => m \in S
    BY <2>2
  <2>4. \A m \in 0..n : m \in S
    <3>. HIDE DEF S
    <3>. QED BY <2>1, <2>3, UpTo
  <2>5. \A m \in 0..n : Here(m)
    BY <2>4
  <2>. QED BY <2>5, Zenon DEF Here
<1>13. TrafficLaid(t, b)
  <2>1. n \in 1..n /\ n \in 0..n
    OBVIOUS
  <2>2. Traffic(t) = g[n] /\ Traffic(t) \in Seq(Bytes) /\ b[n] = Len(Traffic(t))
    BY <1>5, <1>6, <1>8, <1>9, <2>1
  <2>3. \A i \in 1..n : \A k \in 1..t[i].count :
          Traffic(t)[b[i - 1] + k] = MessageTraffic(t, i)[k]
    BY <1>12, <2>1, <2>2
  <2>. QED BY <1>1, <1>9, <1>10, <1>11, <2>2, <2>3 DEF TrafficLaid
<1>. QED BY <1>13, Zenon DEF Begins

LEMMA TransferLength ==
  ASSUME NEW t \in Transfers
  PROVE  Len(t) \in Nat \ {0} /\ t \in Seq(Message)
<1>1. t \in Seq(Message) /\ t # <<>>
  BY TransfersAssumption
<1>. QED BY <1>1, EmptySeq

(* The place of message i in the traffic. *)
LEMMA MessagePlace ==
  ASSUME NEW t \in Transfers, NEW i \in 1..Len(t)
  PROVE  \E x \in Nat, c \in Nat \ {0} :
           /\ x = Begins(t)[i - 1] /\ c = t[i].count /\ Begins(t)[i] = x + c
           /\ x + c <= Len(Traffic(t)) /\ Len(Traffic(t)) \in Nat
           /\ i = Len(t) => x + c = Len(Traffic(t))
<1>. DEFINE b == Begins(t)
<1>1. /\ b \in [0..Len(t) -> Nat] /\ b[Len(t)] = Len(Traffic(t))
      /\ \A j \in 1..Len(t) : b[j] = b[j - 1] + t[j].count
      /\ \A j \in 0..Len(t) : \A k \in 0..j : b[k] <= b[j]
  BY TrafficIsLaid DEF TrafficLaid
<1>. HIDE DEF b
<1>2. Len(t) \in Nat \ {0}
  BY TransferLength
<1>3. i - 1 \in 0..Len(t) /\ i \in 0..Len(t) /\ Len(t) \in 0..Len(t)
  BY <1>2
<1>4. PICK x \in Nat : x = b[i - 1]
  BY <1>1, <1>3
<1>5. PICK c \in Nat \ {0} : c = t[i].count
  BY <1>2, MessageType
<1>6. b[i] = x + c /\ b[i] <= b[Len(t)] /\ b[Len(t)] \in Nat
  BY <1>1, <1>3, <1>4, <1>5
<1>. QED BY <1>1, <1>4, <1>5, <1>6 DEF b

LEMMA FirstPlace ==
  ASSUME NEW t \in Transfers
  PROVE  Begins(t)[0] = 0 /\ Traffic(t) \in Seq(Bytes) /\ Traffic(t) # <<>>
         /\ Begins(t)[Len(t)] = Len(Traffic(t)) /\ Len(Traffic(t)) \in Nat
<1>1. Traffic(t) \in Seq(Bytes) /\ Begins(t)[0] = 0 /\ Begins(t)[Len(t)] = Len(Traffic(t))
  BY TrafficIsLaid DEF TrafficLaid
<1>2. Len(t) \in 1..Len(t)
  BY TransferLength
<1>3. PICK x \in Nat, c \in Nat \ {0} : x + c <= Len(Traffic(t)) /\ Len(Traffic(t)) \in Nat
  BY <1>2, MessagePlace
<1>4. Len(Traffic(t)) # 0
  BY <1>3
<1>. QED BY <1>1, <1>3, <1>4, EmptySeq

LEMMA BytesOfMessage ==
  ASSUME NEW t \in Transfers, NEW i \in 1..Len(t), NEW k \in 1..t[i].count
  PROVE  /\ t[i].kind = "TX" => Traffic(t)[Begins(t)[i - 1] + k] = <<"TX", i, k>>
         /\ t[i].kind = "DUMMY" => Traffic(t)[Begins(t)[i - 1] + k] = <<"DUMMY", 0, 0>>
         /\ t[i].kind = "RX" => Traffic(t)[Begins(t)[i - 1] + k] = <<"RX", 0, k>>
<1>1. Traffic(t)[Begins(t)[i - 1] + k] = MessageTraffic(t, i)[k]
  BY TrafficIsLaid DEF TrafficLaid
<1>2. /\ t[i].kind = "TX" => MessageTraffic(t, i)[k] = <<"TX", i, k>>
      /\ t[i].kind = "DUMMY" => MessageTraffic(t, i)[k] = <<"DUMMY", 0, 0>>
      /\ t[i].kind = "RX" => MessageTraffic(t, i)[k] = <<"RX", 0, k>>
  <2>1. PICK kind : kind = t[i].kind
    OBVIOUS
  <2>2. MessageTraffic(t, i)[k] = CASE kind = "TX" -> <<"TX", i, k>>
                                    [] kind = "DUMMY" -> <<"DUMMY", 0, 0>>
                                    [] kind = "RX" -> <<"RX", 0, k>>
    BY <2>1 DEF MessageTraffic
  <2>3. /\ kind = "TX" => MessageTraffic(t, i)[k] = <<"TX", i, k>>
        /\ kind = "DUMMY" => MessageTraffic(t, i)[k] = <<"DUMMY", 0, 0>>
        /\ kind = "RX" => MessageTraffic(t, i)[k] = <<"RX", 0, k>>
    BY <2>2
  <2>. QED BY <2>1, <2>3
<1>. QED BY <1>1, <1>2

(* A byte has one place in one message. *)
LEMMA OnePlace ==
  ASSUME NEW t \in Transfers, NEW i \in 1..Len(t), NEW j \in 1..Len(t),
         NEW x \in Nat, NEW y \in Nat, x < t[i].count, y < t[j].count,
         Begins(t)[i - 1] + x = Begins(t)[j - 1] + y
  PROVE  i = j /\ x = y
<1>0. Len(t) \in Nat \ {0}
  BY TransferLength
<1>1. PICK a \in Nat, c \in Nat \ {0} :
        a = Begins(t)[i - 1] /\ c = t[i].count /\ Begins(t)[i] = a + c
  BY MessagePlace
<1>2. PICK b \in Nat, d \in Nat \ {0} :
        b = Begins(t)[j - 1] /\ d = t[j].count /\ Begins(t)[j] = b + d
  BY MessagePlace
<1>3. \A m \in 0..Len(t) : \A k \in 0..m : Begins(t)[k] <= Begins(t)[m]
  BY TrafficIsLaid DEF TrafficLaid
<1>4. ~ i < j
  <2>. SUFFICES ASSUME i < j PROVE FALSE
    OBVIOUS
  <2>1. i \in 0..j - 1 /\ j - 1 \in 0..Len(t)
    BY <1>0
  <2>2. a + c <= b
    BY <1>1, <1>2, <1>3, <2>1
  <2>3. a + x = b + y /\ x < c
    BY <1>1, <1>2
  <2>. QED BY <2>2, <2>3
<1>5. ~ j < i
  <2>. SUFFICES ASSUME j < i PROVE FALSE
    OBVIOUS
  <2>1. j \in 0..i - 1 /\ i - 1 \in 0..Len(t)
    BY <1>0
  <2>2. b + d <= a
    BY <1>1, <1>2, <1>3, <2>1
  <2>3. a + x = b + y /\ y < d
    BY <1>1, <1>2
  <2>. QED BY <2>2, <2>3
<1>6. i = j
  BY <1>0, <1>4, <1>5
<1>. QED BY <1>1, <1>2, <1>6

(* The bytes that come from the flash are those of the last message. *)
LEMMA ReceivedBytes ==
  ASSUME NEW t \in Transfers, NEW p \in 1..Len(Traffic(t))
  PROVE  IsReceived(Traffic(t)[p]) <=> t[Len(t)].kind = "RX" /\ p > Begins(t)[Len(t) - 1]
<1>0. PICK n \in Nat \ {0} : n = Len(t)
  BY TransferLength
<1>. DEFINE b == Begins(t)
<1>1. /\ b \in [0..n -> Nat] /\ b[0] = 0 /\ b[n] = Len(Traffic(t))
      /\ \A j \in 0..n : \A k \in 0..j : b[k] <= b[j]
  BY <1>0, TrafficIsLaid DEF TrafficLaid
<1>. HIDE DEF b
<1>2. PICK i \in 1..n : b[i - 1] < p /\ p <= b[i]
  <2>. DEFINE S == {i \in 0..n : p <= b[i]}
  <2>1. S \subseteq Nat /\ n \in S
    BY <1>1
  <2>2. PICK i \in S : \A k \in S : i <= k
    <3>. HIDE DEF S
    <3>. QED BY <2>1, LeastNatural
  <2>3. i \in 0..n /\ p <= b[i]
    OBVIOUS
  <2>4. i # 0
    BY <1>1, <2>3
  <2>5. i - 1 \in 0..n /\ i \in 1..n /\ ~ i <= i - 1
    BY <2>3, <2>4
  <2>6. ~ p <= b[i - 1]
    BY <2>2, <2>5
  <2>7. b[i - 1] \in Nat
    BY <1>1, <2>5
  <2>. QED BY <2>3, <2>5, <2>6, <2>7
<1>3. PICK x \in Nat, c \in Nat \ {0} : x = b[i - 1] /\ c = t[i].count /\ b[i] = x + c
  BY <1>0, MessagePlace, ZenonT(40) DEF b
<1>4. PICK k \in 1..c : p = x + k
  <2>1. p - x \in 1..c /\ p = x + (p - x)
    BY <1>2, <1>3, TransferLength, SMTT(30)
  <2>. QED BY <2>1
<1>5. t[i].kind \in DataKinds
  BY <1>0, MessageType
<1>6. IsReceived(Traffic(t)[p]) <=> t[i].kind = "RX"
  <2>1. k \in 1..t[i].count /\ i \in 1..Len(t)
    BY <1>0, <1>3
  <2>2. PICK q : q = Begins(t)[i - 1] + k
    OBVIOUS
  <2>3. q = p
    BY <1>3, <1>4, <2>2 DEF b
  <2>4. /\ t[i].kind = "TX" => Traffic(t)[q] = <<"TX", i, k>>
        /\ t[i].kind = "DUMMY" => Traffic(t)[q] = <<"DUMMY", 0, 0>>
        /\ t[i].kind = "RX" => Traffic(t)[q] = <<"RX", 0, k>>
    BY <2>1, <2>2, BytesOfMessage
  <2>5. CASE t[i].kind = "TX"
    BY <2>3, <2>4, <2>5 DEF IsReceived
  <2>6. CASE t[i].kind = "DUMMY"
    BY <2>3, <2>4, <2>6 DEF IsReceived
  <2>7. CASE t[i].kind = "RX"
    BY <2>3, <2>4, <2>7 DEF IsReceived
  <2>. QED BY <1>5, <2>5, <2>6, <2>7 DEF DataKinds
<1>7. t[i].kind = "RX" => i = n
  BY <1>0, TransfersAssumption, TransferLength, LenProperties
<1>8. p > b[n - 1] <=> i = n
  <2>1. i # n => i \in 0..n - 1 /\ n - 1 \in 0..n
    OBVIOUS
  <2>2. i # n => b[i] <= b[n - 1] /\ b[i] \in Nat /\ b[n - 1] \in Nat
    BY <1>1, <2>1
  <2>. QED BY <1>2, <1>3, <2>2
<1>. QED BY <1>0, <1>6, <1>7, <1>8 DEF b

ReadBegins(t) == Begins(t)[Len(t) - 1]

LEMMA ReceivedIs ==
  ASSUME NEW t \in Transfers, NEW n \in 0..Len(Traffic(t)), NEW s, s = SubSeq(Traffic(t), 1, n)
  PROVE  Cardinality({p \in DOMAIN s : IsReceived(s[p])})
         = IF t[Len(t)].kind = "RX" /\ n > ReadBegins(t) THEN n - ReadBegins(t) ELSE 0
<1>0. Traffic(t) \in Seq(Bytes) /\ Len(Traffic(t)) \in Nat
  BY FirstPlace
<1>1. /\ s \in Seq(Bytes) /\ Len(s) = n /\ DOMAIN s = 1..n
      /\ \A p \in 1..n : s[p] = Traffic(t)[p]
  <2>1. \A i \in 1..n : Traffic(t)[i] \in Bytes
    BY <1>0, ElementOfSeq
  <2>2. /\ s \in Seq(Bytes) /\ Len(s) = IF 1 <= n THEN n - 1 + 1 ELSE 0
        /\ \A i \in 1..n - 1 + 1 : s[i] = Traffic(t)[1 + i - 1]
    BY <2>1, SubSeqProperties
  <2>3. Len(s) = n /\ n - 1 + 1 = n /\ \A i \in 1..n : 1 + i - 1 = i
    BY <2>2
  <2>4. DOMAIN s = 1..n
    BY <2>2, <2>3, LenProperties
  <2>. QED BY <2>2, <2>3, <2>4
<1>2. PICK r \in Nat : r = ReadBegins(t)
  <2>1. Len(t) \in 1..Len(t)
    BY TransferLength
  <2>. QED BY <2>1, MessagePlace DEF ReadBegins
<1>3. {p \in DOMAIN s : IsReceived(s[p])} = {p \in 1..n : t[Len(t)].kind = "RX" /\ p > r}
  <2>1. \A p \in 1..n : p \in 1..Len(Traffic(t))
    BY <1>0
  <2>2. \A p \in 1..n : IsReceived(s[p]) <=> t[Len(t)].kind = "RX" /\ p > r
    <3>. SUFFICES ASSUME NEW p \in 1..n
                  PROVE  IsReceived(s[p]) <=> t[Len(t)].kind = "RX" /\ p > r
      OBVIOUS
    <3>1. IsReceived(Traffic(t)[p]) <=> t[Len(t)].kind = "RX" /\ p > r
      BY <1>2, <2>1, ReceivedBytes DEF ReadBegins
    <3>. QED BY <1>1, <3>1
  <2>. QED BY <1>1, <2>2
<1>4. CASE t[Len(t)].kind = "RX" /\ n > r
  <2>1. {p \in 1..n : t[Len(t)].kind = "RX" /\ p > r} = r + 1..n
    BY <1>4
  <2>2. Cardinality(r + 1..n) = n - r
    <3>1. r + 1 \in Int /\ n \in Int /\ ~ r + 1 > n /\ n - (r + 1) + 1 = n - r
      BY <1>4
    <3>. QED BY <3>1, FS_Interval
  <2>. QED BY <1>2, <1>3, <1>4, <2>1, <2>2
<1>5. CASE ~(t[Len(t)].kind = "RX" /\ n > r)
  <2>1. {p \in 1..n : t[Len(t)].kind = "RX" /\ p > r} = {}
    BY <1>5
  <2>. QED BY <1>2, <1>3, <1>5, <2>1, FS_EmptySet
<1>. QED BY <1>4, <1>5

(* The m bytes of the traffic behind its first n bytes. *)
Follow(t, n, m, e) ==
  /\ n + m <= Len(Traffic(t))
  /\ e = [k \in 1..m |-> e[k]]
  /\ \A k \in 1..m : e[k] = Traffic(t)[n + k]

LEMMA TrafficExtended ==
  ASSUME NEW t \in Transfers, NEW n \in Nat, NEW m \in Nat, NEW e, Follow(t, n, m, e)
  PROVE  SubSeq(Traffic(t), 1, n) \o e = SubSeq(Traffic(t), 1, n + m)
<1>. DEFINE T == Traffic(t)
            f == SubSeq(T, n + 1, n + m)
<1>0. T \in Seq(Bytes) /\ Len(T) \in Nat
  BY FirstPlace
<1>3. /\ n + m <= Len(T) /\ e = [k \in 1..m |-> e[k]]
      /\ \A k \in 1..m : e[k] = T[n + k]
  BY DEF Follow
<1>. HIDE DEF T
<1>1. \A i \in n + 1..n + m : T[i] \in Bytes
  <2>1. \A i \in n + 1..n + m : i \in 1..Len(T)
    BY <1>0, <1>3
  <2>. QED BY <1>0, <2>1, ElementOfSeq
<1>2. /\ f \in Seq(Bytes) /\ Len(f) = m
      /\ \A i \in 1..m : f[i] = T[n + i]
  <2>0. PICK x \in Int, y \in Int : x = n + 1 /\ y = n + m
    OBVIOUS
  <2>1. /\ SubSeq(T, x, y) \in Seq(Bytes)
        /\ Len(SubSeq(T, x, y)) = IF x <= y THEN y - x + 1 ELSE 0
        /\ \A i \in 1..y - x + 1 : SubSeq(T, x, y)[i] = T[x + i - 1]
    <3>1. \A i \in x..y : T[i] \in Bytes
      BY <1>1, <2>0
    <3>. HIDE DEF f
    <3>. QED BY <3>1, SubSeqProperties
  <2>2. y - x + 1 = m /\ (~ x <= y => m = 0)
    BY <2>0
  <2>3. \A i \in 1..m : x + i - 1 = n + i
    BY <2>0
  <2>4. SubSeq(T, x, y) = f
    BY <2>0
  <2>. HIDE DEF f
  <2>. QED BY <2>1, <2>2, <2>3, <2>4
<1>4. e = f
  <2>1. f \in [1..m -> Bytes]
    BY <1>2, LenProperties
  <2>. HIDE DEF f
  <2>2. f = [k \in 1..m |-> f[k]]
    BY <2>1
  <2>3. \A k \in 1..m : e[k] = f[k]
    BY <1>2, <1>3
  <2>. QED BY <1>3, <2>2, <2>3
<1>5. SubSeq(T, 1, n) \o f = SubSeq(T, 1, n + m)
  <2>1. 1 \in 1..Len(T) + 1 /\ n \in 1 - 1..Len(T) /\ n + m \in n..Len(T)
    BY <1>0, <1>3
  <2>. QED BY <1>0, <2>1, ConcatAdjacentSubSeq
<1>. QED BY <1>4, <1>5 DEF T
-----------------------------------------------------------------------------
(* The words for the TX FIFO follow one another in the traffic. *)

IsWord(t, w) ==
  /\ w.index \in 1..Len(t) /\ t[w.index].kind = "TX"
  /\ w.from \in Nat /\ w.from < t[w.index].count

Place(t, w) == Begins(t)[w.index - 1] + w.from
After(t, w) == Begins(t)[w.index - 1] + MinOf(w.from + 4, t[w.index].count)

(* The words carry the traffic behind its first a bytes, up to b. *)
Chain(t, s, a, b) ==
  /\ a \in Nat /\ b \in Nat /\ (s = <<>> => a = b) /\ (s # <<>> => After(t, s[Len(s)]) = b)
  /\ \A i \in 1..Len(s) :
       /\ IsWord(t, s[i]) /\ a <= Place(t, s[i]) /\ After(t, s[i]) <= b
       /\ Place(t, s[i]) = IF i = 1 THEN a ELSE After(t, s[i - 1])

LEMMA WordSpan ==
  ASSUME NEW t \in Transfers, NEW w, IsWord(t, w)
  PROVE  /\ Place(t, w) \in Nat /\ After(t, w) \in Nat /\ Place(t, w) < After(t, w)
         /\ After(t, w) <= Len(Traffic(t))
<1>1. PICK x \in Nat, c \in Nat \ {0} :
        /\ x = Begins(t)[w.index - 1] /\ c = t[w.index].count
        /\ x + c <= Len(Traffic(t)) /\ Len(Traffic(t)) \in Nat
  BY MessagePlace DEF IsWord
<1>2. PICK f \in Nat : f = w.from /\ f < c
  BY <1>1 DEF IsWord
<1>3. x + f \in Nat /\ x + MinOf(f + 4, c) \in Nat /\ x + f < x + MinOf(f + 4, c)
      /\ x + MinOf(f + 4, c) <= Len(Traffic(t))
  <2>1. PICK m \in Nat : m = MinOf(f + 4, c) /\ f < m /\ m <= c
    <3>1. MinOf(f + 4, c) \in Nat /\ f < MinOf(f + 4, c) /\ MinOf(f + 4, c) <= c
      BY <1>2 DEF MinOf
    <3>. QED BY <3>1
  <2>2. PICK l \in Nat : l = Len(Traffic(t)) /\ x + c <= l
    BY <1>1
  <2>3. x + f \in Nat /\ x + m \in Nat /\ x + f < x + m /\ x + m <= l
    BY <2>1, <2>2
  <2>. QED BY <2>1, <2>2, <2>3
<1>. QED BY <1>1, <1>2, <1>3 DEF Place, After

LEMMA ChainNone ==
  ASSUME NEW t, NEW a \in Nat
  PROVE  Chain(t, <<>>, a, a)
<1>1. Len(<<>>) = 0 /\ 1..0 = {}
  BY EmptySeq
<1>. QED BY <1>1 DEF Chain

LEMMA ChainEmpty ==
  ASSUME NEW t \in Transfers, NEW s, IsSequence(s), NEW a, Chain(t, s, a, a)
  PROVE  s = <<>>
<1>. SUFFICES ASSUME s # <<>> PROVE FALSE
  OBVIOUS
<1>1. 1 \in 1..Len(s)
  BY LengthOf
<1>2. IsWord(t, s[1]) /\ a <= Place(t, s[1]) /\ After(t, s[1]) <= a /\ a \in Nat
  BY <1>1 DEF Chain
<1>3. Place(t, s[1]) \in Nat /\ After(t, s[1]) \in Nat /\ Place(t, s[1]) < After(t, s[1])
  BY <1>2, WordSpan
<1>. QED BY <1>2, <1>3

LEMMA ChainTail ==
  ASSUME NEW t \in Transfers, NEW s, IsSequence(s), s # <<>>, NEW a, NEW b, Chain(t, s, a, b)
  PROVE  /\ IsWord(t, Head(s)) /\ Place(t, Head(s)) = a
         /\ Chain(t, Tail(s), After(t, Head(s)), b)
<1>. DEFINE h == Head(s)
            r == Tail(s)
<1>1. PICK n \in Nat : Len(s) = n + 1
  <2>1. Len(s) \in Nat /\ Len(s) # 0
    BY LengthOf
  <2>2. Len(s) - 1 \in Nat /\ Len(s) = Len(s) - 1 + 1
    BY <2>1
  <2>. QED BY <2>2
<1>2. /\ Len(r) = n /\ h = s[1] /\ \A i \in 1..n : r[i] = s[i + 1]
      /\ r \in Seq(Range(s))
  BY <1>1, HeadTailProperties DEF IsSequence
<1>. HIDE DEF h, r
<1>3. /\ \A i \in 1..n + 1 : /\ IsWord(t, s[i]) /\ After(t, s[i]) <= b
                             /\ Place(t, s[i]) = IF i = 1 THEN a ELSE After(t, s[i - 1])
      /\ b \in Nat /\ After(t, s[n + 1]) = b
  BY <1>1 DEF Chain
<1>4. IsWord(t, h) /\ Place(t, h) = a /\ After(t, h) \in Nat
  <2>1. 1 \in 1..n + 1
    OBVIOUS
  <2>2. IsWord(t, s[1]) /\ Place(t, s[1]) = a
    BY <1>3, <2>1
  <2>. QED BY <1>2, <2>2, WordSpan
<1>5. \A i \in 1..n : Place(t, r[i]) = IF i = 1 THEN After(t, h) ELSE After(t, r[i - 1])
  <2>. SUFFICES ASSUME NEW i \in 1..n
                PROVE  Place(t, r[i]) = IF i = 1 THEN After(t, h) ELSE After(t, r[i - 1])
    OBVIOUS
  <2>1. PICK k \in 1..n + 1 : k = i + 1 /\ k # 1 /\ k - 1 = i
    OBVIOUS
  <2>2. Place(t, s[k]) = After(t, s[k - 1])
    BY <1>3, <2>1
  <2>3. Place(t, r[i]) = After(t, s[i])
    BY <1>2, <2>1, <2>2
  <2>4. CASE i = 1
    BY <1>2, <2>3, <2>4
  <2>5. CASE i # 1
    <3>1. i - 1 \in 1..n /\ i - 1 + 1 = i
      BY <2>5
    <3>2. r[i - 1] = s[i]
      BY <1>2, <3>1
    <3>. QED BY <2>3, <2>5, <3>2
  <2>. QED BY <2>4, <2>5
<1>6. \A i \in 1..n : /\ IsWord(t, r[i]) /\ After(t, r[i]) <= b
                      /\ Place(t, r[i]) \in Nat /\ After(t, r[i]) \in Nat
                      /\ Place(t, r[i]) < After(t, r[i])
  <2>. SUFFICES ASSUME NEW i \in 1..n
                PROVE  IsWord(t, r[i]) /\ After(t, r[i]) <= b
    BY WordSpan
  <2>1. i + 1 \in 1..n + 1
    OBVIOUS
  <2>. QED BY <1>2, <1>3, <2>1
<1>7. \A i \in 1..n : After(t, h) <= Place(t, r[i])
  <2>. DEFINE S == {0} \cup {i \in 1..n : After(t, h) <= Place(t, r[i])}
  <2>1. \A m \in 1..n : m - 1 \in S => m \in S
    <3>. SUFFICES ASSUME NEW m \in 1..n, m - 1 \in S PROVE After(t, h) <= Place(t, r[m])
      OBVIOUS
    <3>1. CASE m = 1
      BY <1>4, <1>5, <3>1
    <3>2. CASE m # 1
      <4>1. m - 1 \in 1..n /\ After(t, h) <= Place(t, r[m - 1])
        BY <3>2
      <4>2. Place(t, r[m]) = After(t, r[m - 1])
        BY <1>5, <3>2
      <4>3. PICK x \in Nat, y \in Nat : x = Place(t, r[m - 1]) /\ y = After(t, r[m - 1]) /\ x < y
        BY <1>6, <4>1
      <4>. QED BY <1>4, <4>1, <4>2, <4>3
    <3>. QED BY <3>1, <3>2
  <2>2. 0 \in S
    OBVIOUS
  <2>3. \A m \in 0..n : m \in S
    <3>. HIDE DEF S
    <3>. QED BY <2>1, <2>2, UpTo
  <2>4. \A i \in 1..n : i \in 0..n /\ i # 0
    OBVIOUS
  <2>. QED BY <2>3, <2>4
<1>8. r = <<>> => After(t, h) = b
  <2>1. r = <<>> => n = 0
    BY <1>2, EmptySeq
  <2>. QED BY <1>2, <1>3, <2>1
<1>9. r # <<>> => After(t, r[n]) = b
  <2>1. r # <<>> => n \in 1..n
    BY <1>2, EmptySeq
  <2>. QED BY <1>2, <1>3, <2>1
<1>10. Chain(t, r, After(t, h), b)
  BY <1>2, <1>3, <1>4, <1>5, <1>6, <1>7, <1>8, <1>9 DEF Chain
<1>. QED BY <1>4, <1>10 DEF h, r

LEMMA ChainBounds ==
  ASSUME NEW t \in Transfers, NEW s, IsSequence(s), NEW a, NEW b, Chain(t, s, a, b)
  PROVE  a \in Nat /\ b \in Nat /\ a <= b
<1>1. a \in Nat /\ b \in Nat /\ (s = <<>> => a = b)
  BY DEF Chain
<1>2. CASE s # <<>>
  <2>1. 1 \in 1..Len(s)
    BY <1>2, LengthOf
  <2>2. IsWord(t, s[1]) /\ a <= Place(t, s[1]) /\ After(t, s[1]) <= b
    BY <2>1 DEF Chain
  <2>3. Place(t, s[1]) \in Nat /\ After(t, s[1]) \in Nat /\ Place(t, s[1]) < After(t, s[1])
    BY <2>2, WordSpan
  <2>. QED BY <1>1, <2>2, <2>3
<1>. QED BY <1>1, <1>2

LEMMA ChainBoth ==
  ASSUME NEW t \in Transfers, NEW s, IsSequence(s), NEW r, IsSequence(r), NEW a, NEW b, NEW c,
         Chain(t, s, a, b), Chain(t, r, b, c)
  PROVE  Chain(t, s \o r, a, c)
<1>. DEFINE sr == s \o r
            S == Range(s) \cup Range(r)
<1>1. s \in Seq(S) /\ r \in Seq(S)
  BY SeqMonotonic DEF IsSequence
<1>. HIDE DEF S
<1>2. PICK m \in Nat, n \in Nat : m = Len(s) /\ n = Len(r)
  BY <1>1, LenProperties
<1>3. /\ Len(sr) = m + n /\ sr \in Seq(S)
      /\ \A i \in 1..m + n : sr[i] = IF i <= m THEN s[i] ELSE r[i - m]
  BY <1>1, <1>2, ConcatProperties
<1>. HIDE DEF sr
<1>4. a \in Nat /\ b \in Nat /\ c \in Nat /\ a <= b /\ b <= c
  BY ChainBounds
<1>5. \A i \in 1..m : /\ IsWord(t, s[i]) /\ a <= Place(t, s[i]) /\ After(t, s[i]) <= b
                      /\ Place(t, s[i]) = IF i = 1 THEN a ELSE After(t, s[i - 1])
  BY <1>2 DEF Chain
<1>6. \A i \in 1..n : /\ IsWord(t, r[i]) /\ b <= Place(t, r[i]) /\ After(t, r[i]) <= c
                      /\ Place(t, r[i]) = IF i = 1 THEN b ELSE After(t, r[i - 1])
  BY <1>2 DEF Chain
<1>7. (m = 0 => a = b) /\ (m # 0 => After(t, s[m]) = b)
  BY <1>2, LengthOf DEF Chain
<1>8. (n = 0 => b = c) /\ (n # 0 => After(t, r[n]) = c)
  BY <1>2, LengthOf DEF Chain
<1>9. ASSUME NEW i \in 1..m + n
      PROVE  /\ IsWord(t, sr[i]) /\ a <= Place(t, sr[i]) /\ After(t, sr[i]) <= c
             /\ Place(t, sr[i]) = IF i = 1 THEN a ELSE After(t, sr[i - 1])
  <2>1. CASE i <= m
    <3>1. i \in 1..m /\ sr[i] = s[i] /\ (i # 1 => sr[i - 1] = s[i - 1])
      BY <1>3, <1>9, <2>1
    <3>2. /\ IsWord(t, s[i]) /\ a <= Place(t, s[i]) /\ After(t, s[i]) <= b
          /\ Place(t, s[i]) = IF i = 1 THEN a ELSE After(t, s[i - 1])
      BY <1>5, <3>1
    <3>3. After(t, s[i]) \in Nat
      BY <3>2, WordSpan
    <3>. QED BY <1>4, <3>1, <3>2, <3>3
  <2>2. CASE ~ i <= m
    <3>1. PICK j \in 1..n : j = i - m
      BY <2>2
    <3>2. sr[i] = r[j]
      BY <1>3, <1>9, <2>2, <3>1
    <3>3. /\ IsWord(t, r[j]) /\ b <= Place(t, r[j]) /\ After(t, r[j]) <= c
          /\ Place(t, r[j]) = IF j = 1 THEN b ELSE After(t, r[j - 1])
      BY <1>6, <3>1
    <3>4. Place(t, r[j]) \in Nat
      BY <3>3, WordSpan
    <3>5. Place(t, sr[i]) = IF i = 1 THEN a ELSE After(t, sr[i - 1])
      <4>1. CASE j = 1 /\ m = 0
        <5>1. i = 1
          BY <3>1, <4>1
        <5>. QED BY <1>7, <3>2, <3>3, <4>1, <5>1
      <4>2. CASE j = 1 /\ m # 0
        <5>1. i - 1 = m /\ i # 1 /\ m \in 1..m + n
          BY <3>1, <4>2
        <5>2. sr[i - 1] = s[m]
          BY <1>3, <5>1
        <5>. QED BY <1>7, <3>2, <3>3, <4>2, <5>1, <5>2
      <4>3. CASE j # 1
        <5>1. i - 1 \in 1..m + n /\ ~ i - 1 <= m /\ i - 1 - m = j - 1 /\ i # 1
          BY <3>1, <4>3
        <5>2. sr[i - 1] = r[j - 1]
          BY <1>3, <5>1
        <5>. QED BY <3>2, <3>3, <4>3, <5>1, <5>2
      <4>. QED BY <4>1, <4>2, <4>3
    <3>. QED BY <1>4, <3>2, <3>3, <3>4, <3>5
  <2>. QED BY <2>1, <2>2
<1>10. sr = <<>> => a = c
  <2>1. sr = <<>> => m = 0 /\ n = 0
    BY <1>3, EmptySeq
  <2>. QED BY <1>7, <1>8, <2>1
<1>11. sr # <<>> => After(t, sr[m + n]) = c
  <2>. SUFFICES ASSUME sr # <<>> PROVE After(t, sr[m + n]) = c
    OBVIOUS
  <2>1. m + n # 0
    BY <1>3, EmptySeq
  <2>2. CASE n = 0
    <3>1. m + n \in 1..m + n /\ m + n <= m /\ m + n = m /\ m # 0
      BY <2>1, <2>2
    <3>. QED BY <1>3, <1>7, <1>8, <2>2, <3>1
  <2>3. CASE n # 0
    <3>1. m + n \in 1..m + n /\ ~ m + n <= m /\ m + n - m = n
      BY <2>3
    <3>. QED BY <1>3, <1>8, <2>3, <3>1
  <2>. QED BY <2>2, <2>3
<1>12. Chain(t, sr, a, c)
  BY <1>3, <1>4, <1>9, <1>10, <1>11 DEF Chain
<1>. QED BY <1>12 DEF sr

(* The words the driver writes next carry what it has not written. *)
LEMMA NextWordsChain ==
  ASSUME NEW left \in Nat \ {0}, left <= byteCount,
         transfer \in Transfers, index \in 1..Len(transfer),
         Kind = "TX", byteCount = transfer[index].count, NEW a \in Nat,
         a + left = Begins(transfer)[index - 1] + byteCount
  PROVE  Chain(transfer, NextWords(left), a, a + MinOf(left, TxFill))
<1>1. PICK x \in Nat, c \in Nat \ {0} : x = Begins(transfer)[index - 1] /\ c = byteCount
  BY MessagePlace
<1>. DEFINE s == NextWords(left)
<1>2. PICK m \in 1..left : m = MinOf(left, TxFill) /\ (m = left \/ m % 4 = 0)
  <2>1. MinOf(left, TxFill) \in 1..left
        /\ (MinOf(left, TxFill) = left \/ MinOf(left, TxFill) % 4 = 0)
    BY SizesAssumption DEF MinOf
  <2>. QED BY <2>1
<1>3. PICK n \in Nat : n = Words(m) /\ n >= 1 /\ 4 * n >= m /\ 4 * n <= m + 3
  BY <1>2 DEF Words
<1>4. IsSequence(s) /\ Len(s) = n
  BY <1>2, <1>3, NextWordsIs
<1>5. s = [w \in 1..n |-> [index |-> index, from |-> c - left + 4 * (w - 1)]]
  BY <1>1, <1>2, <1>3, Zenon DEF NextWords
<1>. HIDE DEF s
<1>6. \A w \in 1..n : s[w].index = index /\ s[w].from = c - left + 4 * (w - 1)
  BY <1>5
<1>7. a = x + (c - left) /\ c - left \in Nat
  <2>1. a + left = x + c /\ left <= c
    BY <1>1
  <2>. QED BY <2>1
<1>8. ASSUME NEW w \in 1..n
      PROVE  /\ IsWord(transfer, s[w]) /\ Place(transfer, s[w]) = a + 4 * (w - 1)
             /\ After(transfer, s[w]) = IF w = n THEN a + m ELSE a + 4 * w
             /\ 4 * (w - 1) < m /\ (w # n => 4 * w <= m)
  <2>1. PICK f : f = c - left + 4 * (w - 1)
    OBVIOUS
  <2>2. s[w].index = index /\ s[w].from = f
    BY <1>6, <1>8, <2>1
  <2>3. 4 * (w - 1) < m /\ (w # n => 4 * w <= m)
    <3>1. w \in Nat /\ w <= n /\ 4 * n <= m + 3
      BY <1>3
    <3>. QED BY <3>1
  <2>4. f \in Nat /\ f < c
    BY <1>2, <1>7, <1>8, <2>1, <2>3
  <2>5. IsWord(transfer, s[w])
    BY <1>1, <2>2, <2>4 DEF IsWord, Kind
  <2>6. Place(transfer, s[w]) = x + f /\ After(transfer, s[w]) = x + MinOf(f + 4, c)
    BY <1>1, <2>2 DEF Place, After
  <2>7. x + f = a + 4 * (w - 1)
    BY <1>7, <2>1
  <2>8. x + MinOf(f + 4, c) = IF w = n THEN a + m ELSE a + 4 * w
    <3>1. CASE w # n
      <4>1. f + 4 = c - left + 4 * w /\ f + 4 <= c
        BY <1>2, <1>7, <1>8, <2>1, <2>3, <3>1
      <4>2. MinOf(f + 4, c) = f + 4
        BY <1>7, <4>1 DEF MinOf
      <4>. QED BY <1>7, <1>8, <3>1, <4>1, <4>2
    <3>2. CASE w = n /\ m = left
      <4>1. f + 4 >= c
        <5>1. f = c - left + 4 * (n - 1) /\ 4 * n >= left
          BY <1>3, <2>1, <3>2
        <5>2. f + 4 = c - left + 4 * n
          BY <5>1
        <5>. QED BY <5>1, <5>2
      <4>2. MinOf(f + 4, c) = c
        BY <1>1, <2>4, <4>1 DEF MinOf
      <4>. QED BY <1>7, <3>2, <4>2
    <3>3. CASE w = n /\ m # left
      <4>1. 4 * n = m
        <5>1. m % 4 = 0
          BY <1>2, <3>3
        <5>. QED BY <1>3, <5>1, SMTT(30)
      <4>2. f + 4 = c - left + m /\ f + 4 <= c
        BY <1>2, <1>7, <2>1, <3>3, <4>1
      <4>3. MinOf(f + 4, c) = f + 4
        BY <2>4, <4>2 DEF MinOf
      <4>. QED BY <1>7, <3>3, <4>2, <4>3
    <3>. QED BY <3>1, <3>2, <3>3
  <2>. QED BY <2>3, <2>5, <2>6, <2>7, <2>8
<1>9. ASSUME NEW w \in 1..n
      PROVE  /\ IsWord(transfer, s[w]) /\ a <= Place(transfer, s[w])
             /\ After(transfer, s[w]) <= a + m
             /\ Place(transfer, s[w]) = IF w = 1 THEN a ELSE After(transfer, s[w - 1])
  <2>1. Place(transfer, s[w]) = IF w = 1 THEN a ELSE After(transfer, s[w - 1])
    <3>1. CASE w = 1
      <4>1. a + 4 * (1 - 1) = a
        OBVIOUS
      <4>. QED BY <1>8, <1>9, <3>1, <4>1
    <3>2. CASE w # 1
      <4>1. w - 1 \in 1..n /\ w - 1 # n
        BY <1>9, <3>2
      <4>2. After(transfer, s[w - 1]) = a + 4 * (w - 1)
        BY <1>8, <4>1
      <4>. QED BY <1>8, <1>9, <3>2, <4>2
    <3>. QED BY <3>1, <3>2
  <2>2. a <= a + 4 * (w - 1) /\ (IF w = n THEN a + m ELSE a + 4 * w) <= a + m
    <3>1. w # n => 4 * w <= m
      BY <1>8
    <3>2. w # n => a + 4 * w <= a + m
      BY <1>2, <3>1
    <3>. QED BY <1>2, <3>2
  <2>. QED BY <1>8, <1>9, <2>1, <2>2
<1>10. s # <<>> /\ After(transfer, s[n]) = a + m
  <2>1. n \in 1..n
    BY <1>3
  <2>. QED BY <1>3, <1>4, <1>8, <2>1, LengthOf
<1>11. a + m \in Nat
  BY <1>2
<1>12. Chain(transfer, s, a, a + m)
  BY <1>4, <1>9, <1>10, <1>11 DEF Chain
<1>. QED BY <1>2, <1>12 DEF s
-----------------------------------------------------------------------------
(* The words of the RX FIFO. *)

(* They bring the bytes of the read behind the first a, up to b. *)
Holds(fifo, a, b) ==
  /\ Len(fifo) = Words(b - a)
  /\ \A w \in 1..Len(fifo) :
       fifo[w] = [from |-> a + 4 * (w - 1) + 1, count |-> MinOf(4, b - a - 4 * (w - 1))]

LEMMA HoldsNone ==
  ASSUME NEW a \in Nat
  PROVE  Holds(<<>>, a, a)
<1>1. Len(<<>>) = 0 /\ 1..0 = {} /\ a - a = 0
  BY EmptySeq
<1>2. Words(a - a) = 0
  BY <1>1, WordsOfCount
<1>. QED BY <1>1, <1>2 DEF Holds

LEMMA HoldsOneMore ==
  ASSUME NEW fifo, IsSequence(fifo), NEW a \in Nat, NEW b \in Nat, a <= b, (b - a) % 4 = 0,
         Holds(fifo, a, b), NEW n \in 1..4
  PROVE  Holds(Append(fifo, [from |-> b + 1, count |-> n]), a, b + n)
<1>. DEFINE e == [from |-> b + 1, count |-> n]
            g == Append(fifo, e)
            S == Range(fifo) \cup {e}
<1>1. fifo \in Seq(S) /\ e \in S
  BY SeqMonotonic DEF IsSequence
<1>2. PICK l \in Nat : l = Len(fifo) /\ 4 * l = b - a
  <2>1. PICK d \in Nat : d = b - a /\ d % 4 = 0
    OBVIOUS
  <2>2. Len(fifo) = Words(d)
    BY <2>1 DEF Holds
  <2>3. 4 * Words(d) = d /\ Words(d) \in Nat
    BY <2>1 DEF Words
  <2>. QED BY <2>1, <2>2, <2>3
<1>. HIDE DEF S
<1>3. /\ Len(g) = l + 1 /\ g[l + 1] = e
      /\ \A i \in 1..l : g[i] = fifo[i]
  BY <1>1, <1>2, AppendProperties
<1>. HIDE DEF g
<1>4. Len(g) = Words(b + n - a)
  <2>1. b + n - a = 4 * l + n
    BY <1>2
  <2>2. Words(4 * l + n) = l + 1
    BY DEF Words
  <2>. QED BY <1>3, <2>1, <2>2
<1>5. ASSUME NEW w \in 1..l + 1
      PROVE  g[w] = [from |-> a + 4 * (w - 1) + 1, count |-> MinOf(4, b + n - a - 4 * (w - 1))]
  <2>1. CASE w = l + 1
    <3>1. a + 4 * (w - 1) + 1 = b + 1 /\ b + n - a - 4 * (w - 1) = n
      BY <1>2, <2>1
    <3>2. MinOf(4, n) = n
      BY DEF MinOf
    <3>. QED BY <1>3, <2>1, <3>1, <3>2
  <2>2. CASE w # l + 1
    <3>1. w \in 1..l /\ g[w] = fifo[w]
      BY <1>3, <1>5, <2>2
    <3>2. fifo[w] = [from |-> a + 4 * (w - 1) + 1, count |-> MinOf(4, b - a - 4 * (w - 1))]
      BY <1>2, <3>1 DEF Holds
    <3>3. b - a - 4 * (w - 1) >= 4 /\ b + n - a - 4 * (w - 1) >= 4
      BY <1>2, <3>1
    <3>4. MinOf(4, b - a - 4 * (w - 1)) = 4 /\ MinOf(4, b + n - a - 4 * (w - 1)) = 4
      BY <3>3 DEF MinOf
    <3>. QED BY <3>1, <3>2, <3>4
  <2>. QED BY <2>1, <2>2
<1>6. Holds(g, a, b + n)
  <2>1. 1..Len(g) = 1..l + 1
    BY <1>3
  <2>2. \A w \in 1..Len(g) :
           g[w] = [from |-> a + 4 * (w - 1) + 1, count |-> MinOf(4, b + n - a - 4 * (w - 1))]
    BY Zenon, <1>5, <2>1
  <2>. QED BY <1>4, <2>2 DEF Holds
<1>. QED BY <1>6 DEF g, e

LEMMA HoldsRest ==
  ASSUME NEW fifo, IsSequence(fifo), NEW a \in Nat, NEW b \in Nat, a <= b, Holds(fifo, a, b),
         NEW n \in Nat, n <= b - a, n % 4 = 0 \/ n = b - a
  PROVE  Holds(SubSeq(fifo, Words(n) + 1, Len(fifo)), a + n, b)
<1>. DEFINE l == Len(fifo)
            k == Words(n)
            g == SubSeq(fifo, k + 1, l)
<1>0. PICK d \in Nat : d = b - a
  OBVIOUS
<1>1. k \in Nat /\ l = Words(d) /\ l \in Nat /\ l = k + Words(d - n) /\ Words(d - n) \in Nat
  <2>1. n \in Nat /\ d - n \in Nat /\ d \in Nat
    BY <1>0
  <2>2. Words(d) = Words(n) + Words(d - n)
    <3>1. CASE n % 4 = 0
      <4>1. n + (d - n) = d
        BY <1>0
      <4>. QED BY <2>1, <3>1, <4>1, WordsAdd
    <3>2. CASE n = d
      <4>1. d - n = 0
        BY <3>2
      <4>2. Words(0) = 0 /\ Words(d) \in Nat
        BY WordsOfCount
      <4>. QED BY <3>2, <4>1, <4>2
    <3>. QED BY <1>0, <3>1, <3>2
  <2>. QED BY <1>0, <2>1, <2>2, WordsOfCount DEF Holds
<1>. HIDE DEF k
<1>2. \A i \in k + 1..l : fifo[i] \in Range(fifo)
  <2>1. \A i \in k + 1..l : i \in 1..Len(fifo)
    BY <1>1
  <2>. QED BY <2>1, ElementOfSeq DEF IsSequence
<1>3. /\ Len(g) = l - k
      /\ \A i \in 1..l - k : g[i] = fifo[k + i]
  <2>1. PICK x \in Int, y \in Int : x = k + 1 /\ y = l
    BY <1>1
  <2>2. \A i \in x..y : fifo[i] \in Range(fifo)
    BY <1>2, <2>1
  <2>3. /\ Len(SubSeq(fifo, x, y)) = IF x <= y THEN y - x + 1 ELSE 0
        /\ \A i \in 1..y - x + 1 : SubSeq(fifo, x, y)[i] = fifo[x + i - 1]
    BY <2>2, SubSeqProperties
  <2>4. y - x + 1 = l - k /\ (~ x <= y => l - k = 0)
    BY <1>1, <2>1
  <2>5. \A i \in 1..l - k : x + i - 1 = k + i
    BY <1>1, <2>1
  <2>6. SubSeq(fifo, x, y) = g
    BY <2>1
  <2>. HIDE DEF g
  <2>. QED BY <2>3, <2>4, <2>5, <2>6
<1>. HIDE DEF g
<1>4. b - (a + n) = d - n
  BY <1>0
<1>5. Len(g) = Words(b - (a + n))
  BY <1>1, <1>3, <1>4
<1>6. ASSUME NEW w \in 1..l - k
      PROVE  g[w] = [from |-> a + n + 4 * (w - 1) + 1,
                     count |-> MinOf(4, b - (a + n) - 4 * (w - 1))]
  <2>1. n = 4 * k
    <3>1. CASE n % 4 = 0
      BY <3>1 DEF Words, k
    <3>2. CASE n = d
      <4>1. d - n = 0 /\ Words(0) = 0
        BY <3>2, WordsOfCount
      <4>. QED BY <1>1, <1>6, <4>1
    <3>. QED BY <1>0, <3>1, <3>2
  <2>2. PICK v \in 1..l : v = k + w
    BY <1>1
  <2>3. g[w] = fifo[v]
    BY <1>3, <1>6, <2>2
  <2>4. fifo[v] = [from |-> a + 4 * (v - 1) + 1, count |-> MinOf(4, b - a - 4 * (v - 1))]
    BY DEF Holds
  <2>5. a + 4 * (v - 1) + 1 = a + n + 4 * (w - 1) + 1
        /\ b - a - 4 * (v - 1) = b - (a + n) - 4 * (w - 1)
    BY <1>1, <2>1, <2>2
  <2>. QED BY <2>3, <2>4, <2>5
<1>7. Holds(g, a + n, b)
  BY <1>3, <1>5, <1>6 DEF Holds
<1>. QED BY <1>7 DEF g, k

LEMMA ByteOfIs ==
  ASSUME NEW fifo, NEW a \in Nat, NEW b \in Nat, Holds(fifo, a, b), NEW i \in Nat, i < b - a
  PROVE  ByteOf(fifo, i) = a + i + 1
<1>1. PICK d \in Nat : d = b - a
  OBVIOUS
<1>2. PICK q \in Nat, r \in 0..3 : q = i \div 4 /\ r = i % 4 /\ i = 4 * q + r
  <2>1. i \div 4 \in Nat /\ i % 4 \in 0..3 /\ i = 4 * (i \div 4) + (i % 4)
    OBVIOUS
  <2>. QED BY <2>1
<1>3. q + 1 \in 1..Len(fifo) /\ Len(fifo) \in Nat /\ q + 1 <= Len(fifo)
  BY <1>1, <1>2 DEF Holds, Words
<1>4. fifo[q + 1] = [from |-> a + 4 * (q + 1 - 1) + 1,
                     count |-> MinOf(4, b - a - 4 * (q + 1 - 1))]
  BY <1>3 DEF Holds
<1>5. q + 1 - 1 = q
  OBVIOUS
<1>6. fifo[q + 1].from = a + 4 * q + 1 /\ fifo[q + 1].count = MinOf(4, d - 4 * q)
  BY <1>1, <1>4, <1>5
<1>7. r < MinOf(4, d - 4 * q)
  BY <1>1, <1>2 DEF MinOf
<1>8. ByteOf(fifo, i) = fifo[q + 1].from + r
  BY <1>2, <1>3, <1>6, <1>7 DEF ByteOf
<1>. QED BY <1>2, <1>6, <1>8
-----------------------------------------------------------------------------
(* The second invariant: where in the traffic of the transfer each part is. *)

Busy == pc \notin {"idle", "assert"}

(* Every message has been sent or read. *)
Past == index > Len(transfer)

(* Where the message in work begins in the traffic, and the bytes it asks for. *)
Base == Begins(transfer)[index - 1]

Asked == transfer[index].count

(* The flash has not been selected yet. *)
Waiting == genFifo # <<>> /\ Head(genFifo).kind = "SELECT"

(* The bytes of the traffic that have passed, and those of the read among them. *)
Clocked == IF Waiting THEN 0 ELSE Len(wire)

Come == IF Clocked >= Base THEN Clocked - Base ELSE 0

(* How far in the message the entries made of it come. *)
Reach ==
  IF pc = "prepare" THEN Asked - byteCount
  ELSE IF Past THEN 0
  ELSE IF Kind = "RX" /\ readMode = "DMA" THEN DmaBytes(Asked) ELSE Asked

(* How far the buffer is filled. *)
Got == IF readMode = "DMA" /\ pc # "prepare" THEN dma.at ELSE rxPtr

IndexOK ==
  Busy =>
    /\ index <= Len(transfer) + 1
    /\ pc \in {"deselect", "drain"} => Past
    /\ pc = "prepare" => byteCount \in 1..Asked
    /\ pc = "prepare" \/ InMessage => Kind = "RX" \/ byteCount = Asked

(* The flash is selected once, before the first message, and deselected once,
   behind the last. *)
Closing == (pc = "start" /\ Past) \/ (pc = "drain" /\ genFifo # <<>>)

SelectOK ==
  /\ Waiting => Busy /\ index = 1 /\ ~Past /\ current.left = 0
  /\ \A i \in 1..Len(genFifo) :
       /\ genFifo[i].kind = "SELECT" => i = 1 /\ genFifo[i].left = 0
       /\ genFifo[i].kind = "DESELECT" => i = Len(genFifo) /\ genFifo[i].left = 0 /\ Closing
       /\ genFifo[i].left > 0 => InMessage /\ genFifo[i].kind = Kind
  /\ Closing => genFifo # <<>> /\ genFifo[Len(genFifo)].kind = "DESELECT"
  /\ pc = "start" /\ Past => started < Len(genFifo)
  /\ pc # "assert" => (selected <=> Busy /\ ~Waiting /\ ~(pc = "drain" /\ genFifo = <<>>))
  /\ pc = "assert" => genFifo = <<>> /\ current.left = 0

(* What has passed, what is left of the entry in work and the entries behind it lie
   one after the other in the traffic, and reach as far as the driver has come. *)
LayOK == Busy => \E a \in Nat : Clocked + current.left = Base + a /\ Lay(genFifo, a, Reach)

WireOK ==
  Busy /\ ~Waiting =>
    \E n \in 0..Len(Traffic(transfer)) : wire = SubSeq(Traffic(transfer), 1, n) /\ Len(wire) = n

(* The entry in work is the end of the message before, or is of the message in
   work and has come to a whole word of it. *)
FromBefore ==
  /\ index > 1 /\ Clocked + current.left = Base
  /\ current.kind # "RX" /\ current.kind = transfer[index - 1].kind
  /\ current.left <= transfer[index - 1].count
  /\ (transfer[index - 1].count - current.left) % 4 = 0

OfMessage == InMessage /\ Clocked >= Base /\ (Clocked - Base) % 4 = 0 /\ current.kind = Kind

CurrentOK == Busy /\ current.left > 0 => FromBefore \/ OfMessage

(* The words of the TX FIFO are those of the traffic from the next one that leaves
   it to the last one the driver has written. *)
Sends == InMessage /\ Kind = "TX"

TxWorks == Sends \/ (current.kind = "TX" /\ current.left > 0)

NextTx == IF current.kind = "TX" THEN Clocked ELSE Clocked + current.left

Written == IF Sends THEN Base + (Asked - txLeft) ELSE Base

TxOK ==
  Busy =>
    /\ TxWorks => Chain(transfer, txFifo, NextTx, Written)
    /\ ~TxWorks => txFifo = <<>>
    /\ ~Sends => txLeft = 0
    /\ Sends => txLeft <= Asked

(* The words of the RX FIFO are the bytes of the read from where the buffer is
   filled to where the wire is. *)
Reading == Busy /\ ~Past /\ Kind = "RX"

ReadOK ==
  Reading =>
    /\ Got <= Come /\ (Got % 4 = 0 \/ Got = Asked)
    /\ Holds(rxFifo, Got, Come)
    /\ \A i \in 1..Got : buffer[i] = i
    /\ pc = "prepare" =>
         /\ rxPtr + byteCount = Asked /\ rxPtr % 4 = 0 /\ Come = rxPtr
         /\ byteCount >= 8 => rxPtr = 0
    /\ InMessage /\ readMode = "IO" => rxPtr + rxLeft = Asked
    /\ InMessage /\ readMode = "DMA" =>
         /\ dma.at + dma.left = DmaBytes(Asked) /\ dma.at % 4 = 0
         /\ rxPtr = 0 /\ rxLeft \in {0, Asked}
         /\ rxLeft = 0 => Asked % 4 = 0

UnreadOK == Busy /\ ~Past /\ Kind # "RX" => rxPtr = 0

ReadSize(t) == IF t[Len(t)].kind = "RX" THEN t[Len(t)].count ELSE 0

DoneOK == Busy /\ Past => \A i \in 1..ReadSize(transfer) : buffer[i] = i

DataInv == /\ IndexOK /\ SelectOK /\ LayOK /\ WireOK /\ CurrentOK
           /\ TxOK /\ ReadOK /\ UnreadOK /\ DoneOK
-----------------------------------------------------------------------------
(* The places as numbers. *)

LEMMA MessageIs ==
  ASSUME Typed, Busy, IndexOK, ~Past
  PROVE  /\ transfer \in Transfers /\ index \in 1..Len(transfer) /\ Kind \in DataKinds
         /\ \E x, c, m \in Nat :
              /\ x = Base /\ c = Asked /\ m = Len(Traffic(transfer)) /\ c > 0
              /\ Begins(transfer)[index] = x + c /\ x + c <= m
              /\ index = Len(transfer) => x + c = m
              /\ Kind = "RX" => index = Len(transfer) /\ c <= MaxBuffer
<1>1. transfer \in Transfers /\ index \in Nat \ {0}
  BY DEF Typed, Busy
<1>2. Len(transfer) \in Nat \ {0} /\ transfer \in Seq(Message)
  BY <1>1, TransferLength
<1>3. index \in 1..Len(transfer)
  BY <1>1, <1>2 DEF Past
<1>4. Kind \in DataKinds
  BY <1>1, <1>3, MessageType DEF Kind
<1>5. PICK x \in Nat, c \in Nat \ {0} :
        /\ x = Base /\ c = Asked /\ Begins(transfer)[index] = x + c
        /\ x + c <= Len(Traffic(transfer)) /\ Len(Traffic(transfer)) \in Nat
        /\ index = Len(transfer) => x + c = Len(Traffic(transfer))
  BY <1>1, <1>3, MessagePlace DEF Base, Asked
<1>6. Kind = "RX" => index = Len(transfer) /\ c <= MaxBuffer
  <2>1. index \in DOMAIN transfer
    BY <1>2, <1>3
  <2>. QED BY <1>1, <1>5, <2>1, TransfersAssumption DEF Kind, Asked
<1>. QED BY <1>1, <1>3, <1>4, <1>5, <1>6

LEMMA PastIs ==
  ASSUME Typed, Busy, IndexOK, Past
  PROVE  /\ transfer \in Transfers /\ index = Len(transfer) + 1 /\ Len(transfer) \in Nat \ {0}
         /\ Base = Len(Traffic(transfer)) /\ Base \in Nat
<1>1. transfer \in Transfers /\ index \in Nat \ {0}
  BY DEF Typed, Busy
<1>2. Len(transfer) \in Nat \ {0}
  BY <1>1, TransferLength
<1>3. index = Len(transfer) + 1 /\ index - 1 = Len(transfer)
  BY <1>1, <1>2 DEF Past, IndexOK
<1>4. Begins(transfer)[Len(transfer)] = Len(Traffic(transfer)) /\ Len(Traffic(transfer)) \in Nat
  BY <1>1, FirstPlace
<1>. QED BY <1>1, <1>2, <1>3, <1>4 DEF Base

LEMMA BaseIs ==
  ASSUME Typed, Busy, IndexOK
  PROVE  /\ Base \in Nat /\ Base <= Len(Traffic(transfer)) /\ Len(Traffic(transfer)) \in Nat
         /\ transfer \in Transfers
<1>1. CASE Past
  BY <1>1, PastIs
<1>2. CASE ~Past
  BY <1>2, MessageIs
<1>. QED BY <1>1, <1>2

(* Where the wire is. *)
LEMMA ClockedIs ==
  ASSUME Typed, Busy, IndexOK, WireOK
  PROVE  \E c \in 0..Len(Traffic(transfer)) :
           c = Clocked /\ (Waiting => c = 0)
           /\ (~Waiting => wire = SubSeq(Traffic(transfer), 1, c) /\ Len(wire) = c)
<1>1. Len(Traffic(transfer)) \in Nat
  BY BaseIs
<1>2. CASE Waiting
  <2>1. Clocked = 0 /\ 0 \in 0..Len(Traffic(transfer))
    BY <1>1, <1>2 DEF Clocked
  <2>. QED BY <1>2, <2>1
<1>3. CASE ~Waiting
  BY <1>3 DEF Clocked, WireOK
<1>. QED BY <1>2, <1>3

LEMMA ReachIs ==
  ASSUME Typed, Busy, IndexOK
  PROVE  Reach \in Nat /\ (Past => Reach = 0) /\ (~Past => Reach <= Asked)
<1>1. CASE Past
  <2>1. pc # "prepare"
    BY <1>1, TransferLength DEF Typed, Past, Busy
  <2>. QED BY <1>1, <2>1 DEF Reach
<1>2. CASE ~Past
  <2>1. PICK c \in Nat : c = Asked
    BY <1>2, MessageIs
  <2>2. DmaBytes(c) \in 0..c
    BY DEF DmaBytes
  <2>3. pc = "prepare" => byteCount \in 1..c
    BY <2>1 DEF IndexOK, Busy
  <2>. QED BY <1>2, <2>1, <2>2, <2>3 DEF Reach
<1>. QED BY <1>1, <1>2

LEMMA Positions ==
  ASSUME Typed, Busy, IndexOK, WireOK, LayOK
  PROVE  \E x, m, l, c, r, a \in Nat :
           /\ x = Base /\ m = Len(Traffic(transfer)) /\ l = current.left
           /\ c = Clocked /\ r = Reach
           /\ c + l = x + a /\ Lay(genFifo, a, r) /\ a <= r /\ (a % 4 = 0 \/ a = r)
           /\ x <= m /\ c <= m /\ (Past => r = 0) /\ (~Past => r <= Asked)
<1>1. PICK x, m \in Nat : x = Base /\ m = Len(Traffic(transfer)) /\ x <= m
  BY BaseIs
<1>2. PICK c \in 0..m : c = Clocked
  BY <1>1, ClockedIs
<1>3. PICK r \in Nat : r = Reach /\ (Past => r = 0) /\ (~Past => r <= Asked)
  BY ReachIs
<1>4. PICK l \in Nat : l = current.left
  BY DEF Typed, EntryType
<1>5. PICK a \in Nat : c + l = x + a /\ Lay(genFifo, a, r)
  BY <1>1, <1>2, <1>3, <1>4 DEF LayOK
<1>6. a <= r /\ (a % 4 = 0 \/ a = r)
  <2>1. genFifo \in Seq(EntryType)
    BY DEF Typed
  <2>. QED BY <1>5, <2>1, LayBounds
<1>7. c \in Nat /\ c <= m
  BY <1>1, <1>2
<1>. QED BY <1>1, <1>2, <1>3, <1>4, <1>5, <1>6, <1>7, ZenonT(40)

(* Nothing of a read has come while the entry in work is of the message before. *)
LEMMA ComeIs ==
  ASSUME Typed, Busy, IndexOK, WireOK, LayOK, CurrentOK, ~Past
  PROVE  \E k \in Nat : k = Come /\ k <= Reach /\ (k % 4 = 0 \/ k = Reach)
                        /\ (pc = "prepare" \/ Waiting => k = 0 \/ current.left = 0)
<1>1. PICK x, m, l, c, r, a \in Nat :
           /\ x = Base /\ l = current.left /\ c = Clocked /\ r = Reach
           /\ c + l = x + a /\ a <= r /\ (a % 4 = 0 \/ a = r)
  BY Positions
<1>2. PICK k \in Nat : k = Come /\ k = IF c >= x THEN c - x ELSE 0
  <2>1. Come = IF c >= x THEN c - x ELSE 0
    BY <1>1 DEF Come
  <2>2. (IF c >= x THEN c - x ELSE 0) \in Nat
    OBVIOUS
  <2>. QED BY <2>1, <2>2
<1>3. k <= r
  BY <1>1, <1>2
<1>4. CASE l = 0
  BY <1>1, <1>2, <1>3, <1>4
<1>5. CASE l > 0 /\ FromBefore
  BY <1>1, <1>2, <1>5 DEF FromBefore
<1>6. CASE l > 0 /\ OfMessage
  <2>1. pc # "prepare" /\ c >= x /\ (c - x) % 4 = 0
    BY <1>1, <1>6 DEF OfMessage, InMessage
  <2>2. Waiting => c = 0
    BY <1>1 DEF Clocked
  <2>. QED BY <1>1, <1>2, <1>3, <2>1, <2>2
<1>. QED BY <1>1, <1>4, <1>5, <1>6 DEF CurrentOK
-----------------------------------------------------------------------------
(* The steps that fill the generic FIFO. *)

LEMMA LayFlat ==
  ASSUME NEW s \in Seq(EntryType), NEW a, Lay(s, a, a)
  PROVE  \A i \in 1..Len(s) : s[i].left = 0
<1>1. PICK f : LaidOut(f, s, a, a)
  BY DEF Lay
<1>2. PICK n \in Nat : n = Len(s)
  BY LenProperties
<1>3. /\ f \in [0..n -> Nat] /\ f[0] = a /\ a \in Nat
      /\ \A i \in 1..n : f[i] = f[i - 1] + s[i].left
      /\ \A i \in 0..n : f[i] <= a
  <2>1. /\ f \in [0..n -> Nat] /\ f[0] = a
        /\ \A i \in 1..n : f[i] = f[i - 1] + s[i].left
        /\ \A i \in 0..n : f[i] <= a
    BY <1>1, <1>2 DEF LaidOut
  <2>2. 0 \in 0..n
    BY <1>2
  <2>. QED BY <2>1, <2>2
<1>. DEFINE S == {m \in 0..n : f[m] = a}
<1>4. \A m \in 1..n : m - 1 \in S => m \in S /\ s[m].left = 0
  <2>. SUFFICES ASSUME NEW m \in 1..n, m - 1 \in S PROVE m \in S /\ s[m].left = 0
    OBVIOUS
  <2>1. f[m - 1] = a /\ m \in 0..n
    OBVIOUS
  <2>2. PICK l \in Nat : l = s[m].left
    BY <1>2, ElementOfSeq DEF EntryType
  <2>3. f[m] = a + l /\ f[m] <= a
    BY <1>3, <2>1, <2>2
  <2>. QED BY <1>3, <2>1, <2>2, <2>3
<1>5. 0 \in S
  BY <1>3
<1>. HIDE DEF S
<1>6. \A m \in 0..n : m \in S
  BY <1>4, <1>5, UpTo
<1>7. \A m \in 1..n : m - 1 \in 0..n
  OBVIOUS
<1>. QED BY <1>2, <1>4, <1>6, <1>7

LEMMA Joined ==
  ASSUME NEW s \in Seq(EntryType), NEW t \in Seq(EntryType)
  PROVE  /\ s \o t \in Seq(EntryType) /\ Len(s \o t) = Len(s) + Len(t)
         /\ Len(s) \in Nat /\ Len(t) \in Nat
         /\ \A i \in 1..Len(s) + Len(t) :
              \/ i \in 1..Len(s) /\ (s \o t)[i] = s[i]
              \/ \E j \in 1..Len(t) : i = Len(s) + j /\ (s \o t)[i] = t[j]
<1>. DEFINE g == s \o t
<1>1. PICK n \in Nat, m \in Nat : n = Len(s) /\ m = Len(t)
  BY LenProperties
<1>2. /\ g \in Seq(EntryType) /\ Len(g) = n + m
      /\ \A i \in 1..n + m : g[i] = IF i <= n THEN s[i] ELSE t[i - n]
  BY <1>1, ConcatProperties
<1>. HIDE DEF g
<1>3. ASSUME NEW i \in 1..n + m
      PROVE  \/ i \in 1..n /\ g[i] = s[i]
             \/ \E j \in 1..m : i = n + j /\ g[i] = t[j]
  <2>1. CASE i <= n
    BY <1>2, <2>1
  <2>2. CASE ~ i <= n
    <3>1. i - n \in 1..m /\ i = n + (i - n)
      BY <2>2
    <3>. QED BY <1>2, <2>2, <3>1
  <2>. QED BY <2>1, <2>2
<1>4. /\ g \in Seq(EntryType) /\ Len(g) = Len(s) + Len(t)
      /\ Len(s) \in Nat /\ Len(t) \in Nat
      /\ \A i \in 1..Len(s) + Len(t) :
              \/ i \in 1..Len(s) /\ g[i] = s[i]
              \/ \E j \in 1..Len(t) : i = Len(s) + j /\ g[i] = t[j]
  BY <1>1, <1>2, <1>3
<1>. QED BY <1>4 DEF g

LEMMA HeadIs ==
  ASSUME NEW s \in Seq(EntryType), s # <<>>
  PROVE  /\ Head(s) = s[1] /\ Head(s) \in EntryType
         /\ Len(s) \in Nat \ {0} /\ 1 \in 1..Len(s)
<1>1. Len(s) \in Nat \ {0}
  BY EmptySeq, LenProperties
<1>2. 1 \in 1..Len(s) /\ Head(s) = s[1]
  BY <1>1, HeadTailProperties
<1>. QED BY <1>1, <1>2, ElementOfSeq

(* When nothing is left for the driver or the DMA to take, nothing is on its way. *)
LEMMA NothingComes ==
  ASSUME TransferInv, rxLeft = 0 \/ readMode = "DMA", dma.left = 0
  PROVE  rxFifo = <<>> /\ (current.left > 0 => current.kind # "RX")
<1>1. PICK n \in Nat : AtWork("RX", n) /\ n + Len(rxFifo) = Owed
  BY DEF TransferInv, ReceiveOK
<1>2. Owed = 0 /\ Len(rxFifo) \in Nat /\ IsSequence(rxFifo) /\ current \in EntryType
  BY LengthOf, WordsOfCount DEF Owed, TransferInv, Typed
<1>3. n = 0 /\ Len(rxFifo) = 0
  BY <1>1, <1>2
<1>4. PICK m \in Nat : n = m + WordsOf(current, "RX")
  BY <1>1 DEF AtWork
<1>5. WordsOf(current, "RX") = 0
  BY <1>2, <1>3, <1>4, WordsOfType
<1>6. PICK l \in Nat : l = current.left
  BY <1>2 DEF EntryType
<1>7. l > 0 => Words(l) # 0
  BY WordsOfCount
<1>. QED BY <1>2, <1>3, <1>5, <1>6, <1>7, LengthOf DEF WordsOf

LEMMA DataInit ==
  ASSUME Init
  PROVE  DataInv
<1>1. /\ pc = "idle" /\ genFifo = <<>> /\ current.left = 0 /\ selected = FALSE
  BY DEF Init, NoEntry
<1>2. ~Busy /\ ~Waiting /\ ~Closing /\ ~Reading
  BY <1>1 DEF Busy, Waiting, Closing, Reading
<1>3. Len(genFifo) = 0 /\ 1..0 = {}
  BY <1>1, EmptySeq
<1>4. SelectOK
  BY <1>1, <1>2, <1>3 DEF SelectOK
<1>. QED BY <1>1, <1>2, <1>4
     DEF DataInv, IndexOK, LayOK, WireOK, CurrentOK, TxOK, ReadOK, UnreadOK, DoneOK

LEMMA BeginKeepsData ==
  ASSUME TransferInv, TransferInv', DataInv, BeginTransfer
  PROVE  DataInv'
<1>1. /\ pc = "idle" /\ pc' = "prepare" /\ index' = 1 /\ rxPtr' = 0
      /\ genFifo' = Append(genFifo, CSAssert)
      /\ UNCHANGED <<readMode, txLeft, rxLeft, started, current, txFifo, rxFifo, dma, selected>>
      /\ byteCount' = transfer'[1].count
  BY DEF BeginTransfer, busVars
<1>2. /\ genFifo = <<>> /\ current.left = 0 /\ txLeft = 0 /\ IsSequence(txFifo)
      /\ readMode = "DMA"
  BY <1>1 DEF TransferInv, QueueOK, EndsIdle, PlaceOK, NothingLeft, Typed
<1>3. txFifo = <<>>
  <2>1. PICK l \in Nat : l = Len(txFifo) + Words(txLeft)
    BY <1>2, LengthOf, WordsOfCount
  <2>2. l = 0
    BY <1>2, <2>1, AllDone DEF TransferInv, SendOK
  <2>. QED BY <1>2, <2>1, <2>2, LengthOf, WordsOfCount
<1>4. rxFifo = <<>>
  BY <1>1, NothingComes DEF TransferInv, PlaceOK, NothingLeft
<1>. DEFINE e == CSAssert
<1>5. /\ genFifo' = <<e>> /\ e.kind = "SELECT" /\ e.left = 0 /\ e \in EntryType
  BY <1>1, <1>2 DEF CSAssert, Entry, EntryType, DataKinds
<1>. HIDE DEF e
<1>6. /\ Len(genFifo') = 1 /\ genFifo'[1] = e /\ genFifo' # <<>> /\ Head(genFifo') = e
      /\ genFifo' \in Seq(EntryType)
  <2>1. /\ <<e>> \in Seq(EntryType) /\ Len(<<e>>) = 1 /\ <<e>>[1] = e
    BY <1>5
  <2>2. <<e>> # <<>>
    BY <2>1, EmptySeq
  <2>. QED BY <1>5, <2>1, <2>2, HeadIs
<1>7. /\ Busy' /\ ~InMessage' /\ Waiting' /\ ~Closing' /\ ~Sends'
  BY <1>1, <1>5, <1>6 DEF Busy, InMessage, Waiting, Closing, Sends
<1>8. /\ transfer' \in Transfers /\ transfer'[1].count \in Nat \ {0}
      /\ Len(transfer') \in Nat \ {0}
  <2>1. transfer' \in Transfers
    BY DEF BeginTransfer
  <2>. QED BY <2>1, TransferLength, MessageType
<1>9. ~Past' /\ Base' = 0 /\ Clocked' = 0 /\ Asked' = transfer'[1].count /\ byteCount' = Asked'
  <2>1. Begins(transfer')[0] = 0 /\ index' - 1 = 0
    BY <1>1, <1>8, FirstPlace
  <2>. QED BY <1>1, <1>7, <1>8, <2>1 DEF Past, Base, Clocked, Asked
<1>10. Come' = 0 /\ Got' = 0 /\ Reach' = 0
  <2>1. byteCount' - byteCount' = 0
    BY <1>8, <1>9
  <2>. QED BY <1>1, <1>9, <2>1 DEF Come, Got, Reach
<1>11. IndexOK'
  BY <1>1, <1>8, <1>9 DEF IndexOK
<1>12. SelectOK'
  <2>1. ~selected'
    BY <1>1 DEF DataInv, SelectOK, Busy
  <2>2. current'.left = 0
    BY <1>1, <1>2
  <2>3. \A i \in 1..Len(genFifo') : i = 1 /\ genFifo'[i] = e
    BY <1>6
  <2>. QED BY <1>1, <1>5, <1>7, <1>9, <2>1, <2>2, <2>3 DEF SelectOK
<1>13. LayOK'
  <2>1. Lay(<<e>>, 0, 0 + e.left)
    BY <1>5, LayOne
  <2>2. Lay(genFifo', 0, Reach') /\ Clocked' + current'.left = Base' + 0
    BY <1>1, <1>2, <1>5, <1>9, <1>10, <2>1
  <2>. QED BY <2>2 DEF LayOK
<1>14. WireOK' /\ CurrentOK'
  BY <1>1, <1>2, <1>7 DEF WireOK, CurrentOK
<1>15. TxOK'
  BY <1>1, <1>2, <1>3, <1>7 DEF TxOK, TxWorks
<1>16. ReadOK' /\ UnreadOK' /\ DoneOK'
  <2>1. Holds(rxFifo', Got', Come')
    BY <1>1, <1>4, <1>10, HoldsNone
  <2>2. \A i \in 1..Got' : buffer'[i] = i
    BY <1>10
  <2>3. Got' <= Come' /\ Got' % 4 = 0 /\ Come' = rxPtr'
    BY <1>1, <1>10
  <2>4. rxPtr' + byteCount' = Asked' /\ rxPtr' % 4 = 0
    BY <1>1, <1>8, <1>9
  <2>. QED BY <1>1, <1>7, <1>9, <2>1, <2>2, <2>3, <2>4 DEF ReadOK, UnreadOK, DoneOK
<1>. QED BY <1>11, <1>12, <1>13, <1>14, <1>15, <1>16 DEF DataInv
-----------------------------------------------------------------------------
(* What the preparation of a message appends to the generic FIFO. *)
Prepared(s, kind) ==
  \A i \in 1..Len(s) : s[i].kind \notin {"SELECT", "DESELECT"} /\ (s[i].left > 0 => s[i].kind = kind)

LEMMA PreparedEntries ==
  ASSUME NEW mode, NEW r \in Nat, r % 4 = 0, NEW count \in Nat \ {0}, Kind \in DataKinds
  PROVE  \E new \in Seq(EntryType) :
           /\ Prepared(new, Kind) /\ Lay(new, r, r + count)
           /\ \A s \in Seq(EntryType) :
                s \o DataEntries(Kind, count) \o Behind(mode) = s \o new
<1>. DEFINE data == DataEntries(Kind, count)
            behind == Behind(mode)
            new == data \o behind
<1>1. data \in Seq(EntryType) /\ EntriesOf(data, Kind) /\ Lay(data, r, r + count)
  BY DataEntriesLaid
<1>. HIDE DEF data
<1>2. /\ behind \in Seq(EntryType) /\ Lay(behind, r + count, r + count)
      /\ \A i \in 1..Len(behind) : behind[i].kind = "NONE" /\ behind[i].left = 0
  <2>. DEFINE d == DummyEntry
  <2>1. d \in EntryType /\ d.left = 0 /\ d.kind = "NONE"
    BY DEF DummyEntry, Entry, EntryType, DataKinds
  <2>. HIDE DEF d
  <2>2. CASE Kind = "RX" /\ mode = "IO"
    <3>1. behind = <<d>>
      BY <2>2 DEF Behind, d
    <3>2. <<d>> \in Seq(EntryType) /\ Lay(<<d>>, r + count, r + count + d.left)
      BY <2>1, LayOne
    <3>3. r + count + d.left = r + count
      BY <2>1
    <3>4. Len(<<d>>) = 1 /\ <<d>>[1] = d
      OBVIOUS
    <3>. HIDE DEF behind
    <3>5. \A i \in 1..Len(behind) : i = 1 /\ behind[i] = d
      BY <3>1, <3>4
    <3>. QED BY <2>1, <3>1, <3>2, <3>3, <3>5
  <2>3. CASE ~(Kind = "RX" /\ mode = "IO")
    <3>1. behind = <<>>
      BY <2>3 DEF Behind
    <3>. HIDE DEF behind
    <3>2. Len(behind) = 0 /\ behind \in Seq(EntryType)
      BY <3>1, EmptySeq
    <3>3. Lay(behind, r + count, r + count)
      BY <3>1, LayNone
    <3>. QED BY <3>2, <3>3
  <2>. QED BY <2>2, <2>3
<1>. HIDE DEF behind
<1>3. Lay(new, r, r + count)
  BY <1>1, <1>2, LayBoth
<1>4. /\ new \in Seq(EntryType) /\ Len(new) = Len(data) + Len(behind)
      /\ \A i \in 1..Len(data) + Len(behind) :
              \/ i \in 1..Len(data) /\ new[i] = data[i]
              \/ \E j \in 1..Len(behind) : i = Len(data) + j /\ new[i] = behind[j]
  BY <1>1, <1>2, Joined
<1>. HIDE DEF new
<1>5. \A i \in 1..Len(data) : data[i].kind = Kind
  BY <1>1 DEF EntriesOf
<1>6. Prepared(new, Kind)
  <2>. SUFFICES ASSUME NEW i \in 1..Len(new)
       PROVE new[i].kind \notin {"SELECT", "DESELECT"} /\ (new[i].left > 0 => new[i].kind = Kind)
    BY DEF Prepared
  <2>1. CASE i \in 1..Len(data) /\ new[i] = data[i]
    BY <1>5, <2>1 DEF DataKinds
  <2>2. CASE \E j \in 1..Len(behind) : i = Len(data) + j /\ new[i] = behind[j]
    BY <1>2, <2>2
  <2>. QED BY <1>4, <2>1, <2>2
<1>7. ASSUME NEW s \in Seq(EntryType) PROVE s \o data \o behind = s \o new
  BY <1>1, <1>2, ConcatAssociative, SMTT(30) DEF new
<1>. QED BY <1>3, <1>4, <1>6, <1>7 DEF data, behind

LEMMA PrepareKeepsData ==
  ASSUME TransferInv, TransferInv', DataInv, GenFifoEntryData
  PROVE  DataInv'
<1>. DEFINE mode == ModeFor(byteCount)
            count == CountFor(byteCount, mode)
<1>1. /\ pc = "prepare" /\ pc' = "start"
      /\ UNCHANGED <<transfer, index, rxPtr, started, current, rxFifo, selected, wire, buffer>>
      /\ readMode' = mode /\ byteCount' = count
      /\ rxLeft' = (IF Kind = "RX" THEN byteCount ELSE 0)
      /\ genFifo' = genFifo \o DataEntries(Kind, count) \o Behind(mode)
      /\ dma' = IF Kind = "RX" /\ mode = "DMA"
                THEN [dma EXCEPT !.at = DmaBytes(rxPtr), !.left = DmaBytes(byteCount)]
                ELSE dma
      /\ IF Kind = "TX" THEN FillTxFifo(byteCount) ELSE txLeft' = 0 /\ UNCHANGED txFifo
  BY DEF GenFifoEntryData, transferVars, busVars
<1>2. /\ Typed /\ NothingLeft /\ genFifo \in Seq(EntryType) /\ IsSequence(txFifo)
      /\ dma \in [at: Nat, left: Nat, done: BOOLEAN] /\ readMode \in {"DMA", "IO"}
      /\ index \in Nat \ {0} /\ index <= Len(transfer) /\ transfer \in Transfers
      /\ current \in EntryType
  BY <1>1 DEF TransferInv, PlaceOK, Typed
<1>3. IndexOK /\ SelectOK /\ LayOK /\ WireOK /\ CurrentOK /\ TxOK /\ ReadOK /\ UnreadOK
  BY DEF DataInv
<1>4. Busy /\ ~InMessage /\ ~Past /\ ~Closing /\ ~Sends
  BY <1>1, <1>2, TransferLength DEF Busy, InMessage, Past, Closing, Sends
<1>5. PICK n, p \in Nat \ {0} : n = Asked /\ p = byteCount /\ p <= n
  <2>1. PICK n \in Nat : n = Asked /\ n > 0
    BY <1>2, <1>3, <1>4, MessageIs
  <2>. QED BY <1>1, <1>3, <1>4, <2>1 DEF IndexOK
<1>6. PICK x, m, l, c, r, a \in Nat :
           /\ x = Base /\ m = Len(Traffic(transfer)) /\ l = current.left
           /\ c = Clocked /\ r = Reach
           /\ c + l = x + a /\ Lay(genFifo, a, r) /\ a <= r /\ (a % 4 = 0 \/ a = r)
           /\ x <= m /\ c <= m /\ (Past => r = 0) /\ (~Past => r <= Asked)
  BY <1>2, <1>3, <1>4, Positions
<1>7. Kind \in DataKinds /\ r = n - p
  BY <1>1, <1>2, <1>3, <1>4, <1>5, <1>6, MessageIs DEF Reach
<1>8. /\ Kind # "RX" => p = n /\ rxPtr = 0
      /\ Kind = "RX" => rxPtr = r /\ (p >= 8 => rxPtr = 0)
      /\ r % 4 = 0
  <2>1. CASE Kind # "RX"
    <3>1. p = n /\ rxPtr = 0
      BY <1>1, <1>3, <1>4, <1>5, <2>1 DEF IndexOK, UnreadOK
    <3>. QED BY <1>7, <2>1, <3>1
  <2>2. CASE Kind = "RX"
    <3>1. rxPtr + p = n /\ rxPtr % 4 = 0 /\ (p >= 8 => rxPtr = 0) /\ rxPtr \in Nat
      BY <1>1, <1>2, <1>3, <1>4, <1>5, <2>2 DEF ReadOK, Reading, Typed
    <3>. QED BY <1>7, <2>2, <3>1
  <2>. QED BY <2>1, <2>2
<1>9. /\ mode \in {"DMA", "IO"} /\ (mode = "DMA" => p >= 8 /\ readMode = "DMA")
      /\ count \in 1..p
      /\ count = IF Kind = "RX" /\ mode = "DMA" THEN DmaBytes(p) ELSE p
  <2>1. mode = IF p < 8 THEN "IO" ELSE readMode
    BY <1>5 DEF ModeFor
  <2>2. count = IF Kind = "RX" /\ mode = "DMA" THEN DmaBytes(p) ELSE p
    BY <1>5 DEF CountFor
  <2>3. p >= 8 => DmaBytes(p) \in 1..p
    BY DEF DmaBytes
  <2>. HIDE DEF mode, count
  <2>. QED BY <1>2, <2>1, <2>2, <2>3
<1>. HIDE DEF mode, count
<1>10. PICK new \in Seq(EntryType) :
         Prepared(new, Kind) /\ Lay(new, r, r + count) /\ genFifo' = genFifo \o new
  <2>1. count \in Nat \ {0} /\ r \in Nat /\ r % 4 = 0 /\ Kind \in DataKinds
    BY <1>6, <1>7, <1>8, <1>9
  <2>2. PICK new \in Seq(EntryType) :
          /\ Prepared(new, Kind) /\ Lay(new, r, r + count)
          /\ \A s \in Seq(EntryType) :
                s \o DataEntries(Kind, count) \o Behind(mode) = s \o new
    BY <2>1, PreparedEntries, Zenon
  <2>. QED BY <1>1, <1>2, <2>2
<1>11. /\ genFifo' \in Seq(EntryType) /\ Len(genFifo') = Len(genFifo) + Len(new)
       /\ Len(genFifo) \in Nat /\ Len(new) \in Nat
       /\ \A i \in 1..Len(genFifo) + Len(new) :
              \/ i \in 1..Len(genFifo) /\ genFifo'[i] = genFifo[i]
              \/ \E j \in 1..Len(new) : i = Len(genFifo) + j /\ genFifo'[i] = new[j]
  BY <1>2, <1>10, Joined
<1>12. Lay(genFifo', a, r + count)
  BY <1>2, <1>6, <1>8, <1>9, <1>10, LayBoth
<1>13. /\ Busy' /\ InMessage' /\ ~Past' /\ ~Closing' /\ Kind' = Kind /\ Asked' = Asked
       /\ Base' = Base /\ (Sends' <=> Kind = "TX") /\ (Reading' <=> Kind = "RX")
  <2>1. pc' = "start" /\ transfer' = transfer /\ index' = index
    BY <1>1
  <2>2. Kind' = Kind /\ Asked' = Asked /\ Base' = Base /\ (Past' <=> Past)
    BY <2>1 DEF Kind, Asked, Base, Past
  <2>. QED BY <1>2, <1>4, <2>1, <2>2
       DEF Busy, InMessage, Closing, Sends, Reading
<1>14. ASSUME NEW i \in 1..Len(genFifo')
       PROVE  /\ genFifo'[i].kind = "SELECT" => i \in 1..Len(genFifo) /\ genFifo'[i] = genFifo[i]
              /\ genFifo'[i].kind # "DESELECT"
              /\ genFifo'[i].left > 0 => genFifo'[i].kind = Kind
  <2>1. i \in 1..Len(genFifo) + Len(new)
    BY <1>11
  <2>2. CASE i \in 1..Len(genFifo) /\ genFifo'[i] = genFifo[i]
    BY <1>3, <1>4, <2>2 DEF SelectOK
  <2>3. CASE \E j \in 1..Len(new) : i = Len(genFifo) + j /\ genFifo'[i] = new[j]
    BY <1>10, <2>3 DEF Prepared
  <2>. QED BY <1>11, <2>1, <2>2, <2>3
<1>15. Waiting' <=> Waiting
  <2>1. CASE genFifo = <<>>
    <3>1. Len(genFifo) = 0
      BY <2>1, EmptySeq
    <3>2. ASSUME genFifo' # <<>> PROVE Head(genFifo').kind # "SELECT"
      <4>1. Head(genFifo') = genFifo'[1] /\ 1 \in 1..Len(genFifo')
        BY <1>11, <3>2, HeadIs
      <4>. QED BY <1>14, <3>1, <4>1
    <3>. QED BY <2>1, <3>2 DEF Waiting
  <2>2. CASE genFifo # <<>>
    <3>1. Head(genFifo) = genFifo[1] /\ 1 \in 1..Len(genFifo) /\ Len(genFifo) \in Nat \ {0}
      BY <1>2, <2>2, HeadIs
    <3>2. genFifo' # <<>>
      BY <1>11, <3>1, EmptySeq
    <3>3. Head(genFifo') = genFifo'[1]
      BY <1>11, <3>2, HeadIs
    <3>4. 1 \in 1..Len(genFifo) + Len(new) /\ \A j \in 1..Len(new) : 1 # Len(genFifo) + j
      BY <1>11, <3>1
    <3>5. genFifo'[1] = genFifo[1]
      BY <1>11, <3>4
    <3>. QED BY <2>2, <3>1, <3>2, <3>3, <3>5 DEF Waiting
  <2>. QED BY <2>1, <2>2
<1>16. Clocked' = Clocked /\ Come' = Come
  BY <1>1, <1>13, <1>15 DEF Clocked, Come
<1>17. Reach' = r + count
  <2>1. Reach' = IF Kind = "RX" /\ mode = "DMA" THEN DmaBytes(n) ELSE n
    BY <1>1, <1>5, <1>13 DEF Reach
  <2>2. CASE Kind = "RX" /\ mode = "DMA"
    <3>1. r = 0 /\ p = n
      BY <1>5, <1>7, <1>8, <1>9, <2>2
    <3>. QED BY <1>9, <2>1, <2>2, <3>1
  <2>3. CASE ~(Kind = "RX" /\ mode = "DMA")
    BY <1>5, <1>7, <1>9, <2>1, <2>3
  <2>. QED BY <2>2, <2>3
<1>18. IndexOK'
  <2>1. Kind # "RX" => byteCount' = Asked'
    BY <1>1, <1>5, <1>8, <1>9, <1>13
  <2>2. index' <= Len(transfer') + 1
    BY <1>1, <1>2, TransferLength, SMTT(30)
  <2>. QED BY <1>1, <1>13, <2>1, <2>2 DEF IndexOK
<1>19. SelectOK'
  <2>1. \A i \in 1..Len(genFifo') :
           genFifo'[i].kind = "SELECT" => i = 1 /\ genFifo'[i].left = 0
    BY <1>3, <1>14 DEF SelectOK
  <2>2. selected' <=> ~Waiting'
    BY <1>1, <1>3, <1>4, <1>15 DEF SelectOK
  <2>3. Waiting' => index' = 1 /\ current'.left = 0
    BY <1>1, <1>3, <1>15 DEF SelectOK
  <2>. QED BY <1>1, <1>13, <1>14, <2>1, <2>2, <2>3 DEF SelectOK
<1>20. LayOK'
  BY <1>1, <1>6, <1>12, <1>13, <1>16, <1>17 DEF LayOK
<1>21. WireOK'
  BY <1>1, <1>3, <1>4, <1>15 DEF WireOK
<1>22. CurrentOK'
  <2>. SUFFICES ASSUME current.left > 0 PROVE FromBefore'
    BY <1>1 DEF CurrentOK
  <2>1. FromBefore
    BY <1>3, <1>4 DEF CurrentOK, OfMessage
  <2>. QED BY <1>1, <1>13, <1>16, <2>1 DEF FromBefore
<1>23. TxOK'
  <2>1. txLeft' \in Nat /\ (Kind # "TX" => txLeft' = 0 /\ txFifo' = txFifo)
    BY <1>1 DEF TransferInv, Typed
  <2>2. Written = Base /\ NextTx' = NextTx /\ (Kind # "TX" => Written' = Base)
    BY <1>1, <1>4, <1>13, <1>16 DEF Written, NextTx
  <2>3. CASE Kind # "TX"
    BY <1>1, <1>3, <1>4, <1>13, <2>1, <2>2, <2>3 DEF TxOK, TxWorks
  <2>4. CASE Kind = "TX"
    <3>1. Chain(transfer, txFifo, NextTx, Base)
      <4>1. CASE TxWorks
        BY <1>3, <1>4, <2>2, <4>1 DEF TxOK
      <4>2. CASE ~TxWorks
        <5>1. txFifo = <<>> /\ (current.kind = "TX" => l = 0)
          BY <1>3, <1>4, <1>6, <4>2 DEF TxOK, TxWorks
        <5>2. r = 0 /\ a = 0 /\ c + l = x
          BY <1>6, <1>7, <1>8, <2>4
        <5>3. NextTx = x
          BY <1>6, <5>1, <5>2 DEF NextTx
        <5>. QED BY <1>6, <5>1, <5>3, ChainNone
      <4>. QED BY <4>1, <4>2
    <3>2. /\ txFifo' = txFifo \o NextWords(p)
          /\ txLeft' = p - MinOf(p, TxFill)
      BY <1>1, <1>5, <2>4 DEF FillTxFifo
    <3>3. p = n
      BY <1>8, <2>4
    <3>4. PICK k \in 0..p : k = MinOf(p, TxFill)
      BY SizesAssumption DEF MinOf
    <3>5. Chain(transfer, NextWords(p), x, x + k)
      <4>1. p = byteCount /\ p \in Nat \ {0} /\ p <= byteCount /\ byteCount = transfer[index].count
        BY <1>5, <3>3 DEF Asked
      <4>2. x + p = Begins(transfer)[index - 1] + byteCount
        BY <1>6, <4>1 DEF Base
      <4>3. index \in 1..Len(transfer)
        BY <1>2, TransferLength
      <4>. QED BY <1>2, <1>6, <2>4, <3>4, <4>1, <4>2, <4>3, NextWordsChain
    <3>6. IsSequence(NextWords(p))
      BY NextWordsIs
    <3>7. Chain(transfer, txFifo', NextTx, x + k)
      BY <1>2, <1>6, <3>1, <3>2, <3>5, <3>6, ChainBoth
    <3>8. Written' = x + k
      <4>1. Written' = x + (n - (p - k))
        BY <1>5, <1>6, <1>13, <2>4, <3>2, <3>4 DEF Written
      <4>. QED BY <3>3, <4>1
    <3>9. txLeft' <= n
      BY <3>2, <3>3, <3>4
    <3>. QED BY <1>1, <1>5, <1>13, <2>2, <2>4, <3>7, <3>8, <3>9 DEF TxOK, TxWorks
  <2>. QED BY <2>3, <2>4
<1>24. ReadOK'
  <2>. SUFFICES ASSUME Kind = "RX" PROVE ReadOK'
    BY <1>13 DEF ReadOK
  <2>1. /\ Got = rxPtr /\ rxPtr <= Come /\ (rxPtr % 4 = 0 \/ rxPtr = Asked)
        /\ Holds(rxFifo, rxPtr, Come) /\ \A i \in 1..rxPtr : buffer[i] = i
        /\ rxPtr + p = n
    BY <1>1, <1>3, <1>4, <1>5 DEF ReadOK, Reading, Got
  <2>2. CASE mode = "DMA"
    <3>1. rxPtr = 0 /\ p = n /\ n >= 8
      BY <1>5, <1>7, <1>8, <1>9, <2>2
    <3>2. dma' = [dma EXCEPT !.at = DmaBytes(rxPtr), !.left = DmaBytes(byteCount)]
      BY <1>1, <2>2
    <3>3. DmaBytes(0) = 0 /\ DmaBytes(n) \in Nat
      BY DEF DmaBytes
    <3>4. dma'.at = 0 /\ dma'.left = DmaBytes(n)
      BY <1>2, <1>5, <3>1, <3>2, <3>3
    <3>5. Got' = rxPtr /\ Got' = 0
      BY <1>1, <2>2, <3>1, <3>4 DEF Got
    <3>6. rxPtr' = 0 /\ rxLeft' = n /\ n > 0 /\ dma'.at + dma'.left = DmaBytes(n) /\ dma'.at % 4 = 0
      BY <1>1, <1>5, <3>1, <3>3, <3>4
    <3>. QED BY <1>1, <1>5, <1>13, <1>16, <2>1, <2>2, <3>5, <3>6 DEF ReadOK
  <2>3. CASE mode = "IO"
    <3>1. Got' = rxPtr /\ rxPtr' = rxPtr /\ rxLeft' = p
      BY <1>1, <1>5, <2>3 DEF Got
    <3>. QED BY <1>1, <1>5, <1>13, <1>16, <2>1, <2>3, <3>1 DEF ReadOK
  <2>. QED BY <1>9, <2>2, <2>3
<1>25. UnreadOK' /\ DoneOK'
  BY <1>1, <1>8, <1>13 DEF UnreadOK, DoneOK
<1>. QED BY <1>18, <1>19, <1>20, <1>21, <1>22, <1>23, <1>24, <1>25 DEF DataInv
-----------------------------------------------------------------------------
(* Steps that stay in the message. *)
LEMMA StillInMessage ==
  ASSUME TransferInv, DataInv, InMessage, pc' \in {"poll", "act"} \/ pc' = pc,
         UNCHANGED <<transfer, index, byteCount, readMode, genFifo, current, selected, wire>>
  PROVE  /\ IndexOK' /\ SelectOK' /\ LayOK' /\ WireOK' /\ CurrentOK' /\ DoneOK'
         /\ Busy /\ InMessage' /\ Busy' /\ ~Past /\ ~Past'
         /\ Kind' = Kind /\ Base' = Base /\ Asked' = Asked /\ Come' = Come /\ Clocked' = Clocked
         /\ UNCHANGED <<txFifo, txLeft>> => TxOK'
         /\ UNCHANGED <<rxPtr, rxLeft, rxFifo, dma, buffer>> => ReadOK'
         /\ Kind = "RX" \/ rxPtr' = rxPtr => UnreadOK'
<1>1. IndexOK /\ SelectOK /\ LayOK /\ WireOK /\ CurrentOK /\ TxOK /\ ReadOK /\ UnreadOK
  BY DEF DataInv
<1>2. /\ Typed /\ transfer \in Transfers /\ index \in Nat \ {0} /\ index <= Len(transfer)
      /\ Len(transfer) \in Nat
  <2>1. Typed
    BY DEF TransferInv
  <2>. QED BY <2>1, InTransfer, TransferLength
<1>3. /\ Busy /\ Busy' /\ InMessage' /\ ~Past /\ ~Past' /\ ~Closing /\ ~Closing'
      /\ pc # "prepare" /\ pc # "drain" /\ pc # "deselect"
      /\ pc' # "prepare" /\ pc' # "drain" /\ pc' # "deselect"
  BY <1>2 DEF InMessage, Busy, Past, Closing
<1>4. /\ Kind' = Kind /\ Base' = Base /\ Asked' = Asked /\ (Waiting' <=> Waiting)
  BY DEF Kind, Base, Asked, Waiting
<1>5. Clocked' = Clocked /\ Come' = Come /\ Reach' = Reach
  <2>1. Clocked' = Clocked
    BY <1>4 DEF Clocked
  <2>2. Reach' = Reach
    BY <1>3, <1>4 DEF Reach
  <2>. QED BY <1>4, <2>1, <2>2 DEF Come
<1>6. IndexOK'
  BY <1>1, <1>3, <1>4 DEF IndexOK
<1>7. SelectOK'
  BY <1>1, <1>3, <1>4 DEF SelectOK, Busy
<1>8. LayOK'
  BY <1>1, <1>3, <1>4, <1>5 DEF LayOK
<1>9. WireOK'
  BY <1>1, <1>3, <1>4 DEF WireOK
<1>10. CurrentOK'
  BY <1>1, <1>3, <1>4, <1>5 DEF CurrentOK, FromBefore, OfMessage
<1>11. DoneOK'
  BY <1>3 DEF DoneOK
<1>12. ASSUME UNCHANGED <<txFifo, txLeft>> PROVE TxOK'
  <2>1. (Sends' <=> Sends) /\ (TxWorks' <=> TxWorks)
    BY <1>3, <1>4 DEF Sends, TxWorks
  <2>2. NextTx' = NextTx /\ Written' = Written
    BY <1>4, <1>5, <1>12, <2>1 DEF NextTx, Written
  <2>. QED BY <1>1, <1>3, <1>4, <1>12, <2>1, <2>2 DEF TxOK
<1>13. ASSUME UNCHANGED <<rxPtr, rxLeft, rxFifo, dma, buffer>> PROVE ReadOK'
  <2>1. Got' = Got
    BY <1>3, <1>13 DEF Got
  <2>2. Reading' <=> Reading
    BY <1>3, <1>4 DEF Reading
  <2>. QED BY <1>1, <1>3, <1>4, <1>5, <1>13, <2>1, <2>2 DEF ReadOK
<1>14. ASSUME Kind = "RX" \/ rxPtr' = rxPtr PROVE UnreadOK'
  BY <1>1, <1>3, <1>4, <1>14 DEF UnreadOK
<1>. QED BY <1>3, <1>4, <1>5, <1>6, <1>7, <1>8, <1>9, <1>10, <1>11, <1>12, <1>13, <1>14

(* The end of a message: the next one begins where this one ends in the traffic, and
   what is still at work is the rest of this one. *)
LEMMA MessageOver ==
  ASSUME TransferInv, DataInv, pc = "act", status.genEmpty, EndMessage, txLeft' = 0,
         UNCHANGED <<transfer, genFifo, current, selected, wire>>,
         Reach = Asked, current.left > 0 => current.kind # "RX",
         Kind = "TX" => Chain(transfer, txFifo', NextTx, Base + Asked) /\ IsSequence(txFifo'),
         Kind # "TX" => txFifo' = txFifo,
         Kind = "RX" => \A i \in 1..Asked : buffer'[i] = i,
         Kind # "RX" => rxPtr' = rxPtr /\ rxFifo' = rxFifo
  PROVE  DataInv'
<1>1. IndexOK /\ SelectOK /\ LayOK /\ WireOK /\ CurrentOK /\ TxOK /\ ReadOK /\ UnreadOK
  BY DEF DataInv
<1>2. /\ Typed /\ genFifo = <<>> /\ InMessage
      /\ transfer \in Transfers /\ index \in Nat \ {0} /\ index <= Len(transfer)
      /\ Len(transfer) \in Nat \ {0} /\ Len(genFifo) = 0 /\ current \in EntryType
  <2>1. Typed /\ InMessage /\ genFifo = <<>>
    BY DEF TransferInv, InMessage, StatusOK
  <2>. QED BY <2>1, InTransfer, TransferLength, EmptySeq DEF Typed
<1>3. Busy /\ ~Past /\ ~Waiting
  BY <1>2 DEF InMessage, Busy, Past, Waiting
<1>4. PICK x, n \in Nat :
        /\ x = Base /\ n = Asked /\ n > 0 /\ Begins(transfer)[index] = x + n
        /\ Kind = "RX" => index = Len(transfer)
  BY <1>1, <1>2, <1>3, MessageIs
<1>5. PICK c, l \in Nat : c = Clocked /\ l = current.left /\ c + l = x + n
  <2>1. PICK c, l, a, r \in Nat :
          c = Clocked /\ l = current.left /\ c + l = x + a /\ r = Reach /\ Lay(genFifo, a, r)
    <3>1. PICK x1, m, l, c, r, a \in Nat :
           /\ x1 = Base /\ m = Len(Traffic(transfer)) /\ l = current.left
           /\ c = Clocked /\ r = Reach
           /\ c + l = x1 + a /\ Lay(genFifo, a, r) /\ a <= r /\ (a % 4 = 0 \/ a = r)
           /\ x1 <= m /\ c <= m /\ (Past => r = 0) /\ (~Past => r <= Asked)
      BY <1>1, <1>2, <1>3, Positions
    <3>. QED BY <1>4, <3>1
  <2>2. a = r
    BY <1>2, <2>1, LayNone
  <2>3. c + l = x + n
    BY <1>4, <2>1, <2>2
  <2>. QED BY <2>1, <2>3
<1>6. l > 0 => OfMessage
  <2>1. ~FromBefore \/ l = 0
    BY <1>4, <1>5 DEF FromBefore
  <2>. QED BY <1>1, <1>3, <1>5, <2>1 DEF CurrentOK
<1>7. /\ index' = index + 1
      /\ byteCount' = IF index < Len(transfer) THEN transfer[index + 1].count ELSE byteCount
      /\ pc' = IF index < Len(transfer) THEN "prepare" ELSE "deselect"
  BY DEF EndMessage
<1>8. index' - 1 = index /\ index' > 1 /\ (index < Len(transfer) \/ index = Len(transfer))
      /\ index' <= Len(transfer) + 1 /\ (index < Len(transfer) <=> ~ index' > Len(transfer))
      /\ index' \in Nat \ {0}
  BY <1>2, <1>7
<1>9. /\ Busy' /\ ~InMessage' /\ ~Closing' /\ ~Sends' /\ pc' \in {"prepare", "deselect"}
      /\ (pc' = "prepare" <=> index < Len(transfer)) /\ (Past' <=> ~ index < Len(transfer))
  BY <1>7, <1>8 DEF Busy, InMessage, Closing, Sends, Past
<1>10. Base' = x + n /\ ~Waiting' /\ Clocked' = c
  <2>1. Base' = Begins(transfer)[index]
    BY <1>8 DEF Base
  <2>2. ~Waiting' /\ Clocked' = Clocked
    BY <1>3 DEF Waiting, Clocked
  <2>. QED BY <1>4, <1>5, <2>1, <2>2
<1>11. Come' = 0
  BY <1>5, <1>10 DEF Come
<1>12. index < Len(transfer) => byteCount' = Asked' /\ Asked' \in Nat \ {0} /\ Kind # "RX"
  <2>. SUFFICES ASSUME index < Len(transfer)
       PROVE byteCount' = Asked' /\ Asked' \in Nat \ {0} /\ Kind # "RX"
    OBVIOUS
  <2>1. byteCount' = transfer[index + 1].count /\ Asked' = transfer[index + 1].count
    BY <1>7 DEF Asked
  <2>2. index + 1 \in Nat \ {0} /\ index + 1 <= Len(transfer)
    BY <1>2
  <2>3. transfer[index + 1].count \in Nat \ {0}
    BY <1>2, <2>2, MessageType
  <2>. QED BY <1>2, <1>4, <2>1, <2>3
<1>13. IndexOK'
  <2>1. pc' = "prepare" => byteCount' \in 1..Asked' /\ byteCount' = Asked'
    BY <1>9, <1>12
  <2>. QED BY <1>8, <1>9, <2>1 DEF IndexOK
<1>14. SelectOK'
  <2>1. selected'
    BY <1>1, <1>3 DEF SelectOK
  <2>2. \A i \in 1..Len(genFifo') : FALSE
    BY <1>2
  <2>. QED BY <1>9, <1>10, <2>1, <2>2 DEF SelectOK
<1>15. LayOK'
  <2>1. Reach' = 0
    <3>1. index < Len(transfer) => Asked' - byteCount' = 0
      BY <1>12
    <3>. QED BY <1>9, <3>1 DEF Reach
  <2>2. Lay(genFifo', 0, 0)
    BY <1>2, LayNone
  <2>3. Clocked' + current'.left = Base' + 0
    BY <1>4, <1>5, <1>10
  <2>. QED BY <2>1, <2>2, <2>3 DEF LayOK
<1>16. WireOK'
  BY <1>1, <1>3 DEF WireOK
<1>17. CurrentOK'
  <2>. SUFFICES ASSUME l > 0 PROVE FromBefore'
    BY <1>5 DEF CurrentOK
  <2>1. c >= x /\ (c - x) % 4 = 0 /\ current.kind = Kind
    BY <1>4, <1>5, <1>6 DEF OfMessage
  <2>2. l <= n /\ (n - l) % 4 = 0
    BY <1>4, <1>5, <2>1
  <2>3. transfer'[index' - 1].kind = Kind /\ transfer'[index' - 1].count = n
    BY <1>4, <1>8 DEF Kind, Asked
  <2>4. Clocked' + current'.left = Base'
    BY <1>5, <1>10
  <2>. QED BY <1>5, <1>8, <2>1, <2>2, <2>3, <2>4 DEF FromBefore
<1>18. TxOK'
  <2>1. /\ NextTx' = NextTx /\ Written' = x + n
        /\ (TxWorks' <=> current.kind = "TX" /\ l > 0)
    BY <1>5, <1>9, <1>10 DEF NextTx, Written, TxWorks
  <2>2. CASE Kind = "TX"
    <3>1. Chain(transfer, txFifo', NextTx, x + n)
      BY <1>4, <2>2
    <3>2. ASSUME ~TxWorks' PROVE txFifo' = <<>>
      <4>1. NextTx = x + n
        BY <1>5, <2>1, <3>2 DEF NextTx
      <4>. QED BY <1>2, <2>2, <3>1, <4>1, ChainEmpty
    <3>. QED BY <1>9, <2>1, <3>1, <3>2 DEF TxOK
  <2>3. CASE Kind # "TX"
    <3>1. ~TxWorks' /\ ~TxWorks /\ ~Sends
      BY <1>5, <1>6, <2>1, <2>3 DEF TxWorks, Sends, OfMessage
    <3>. QED BY <1>1, <1>3, <1>9, <2>3, <3>1 DEF TxOK
  <2>. QED BY <2>2, <2>3
<1>19. ReadOK' /\ UnreadOK'
  <2>. SUFFICES ASSUME ~Past' PROVE ReadOK' /\ UnreadOK'
    BY DEF ReadOK, UnreadOK, Reading
  <2>1. index < Len(transfer) /\ Kind # "RX" /\ pc' = "prepare"
    BY <1>9, <1>12
  <2>2. rxPtr' = 0 /\ rxFifo' = <<>>
    <3>1. rxPtr = 0
      BY <1>1, <1>3, <2>1 DEF UnreadOK
    <3>2. rxFifo = <<>>
      BY <1>2, <2>1, NothingComes DEF TransferInv, PlaceOK
    <3>. QED BY <2>1, <3>1, <3>2
  <2>3. Got' = 0 /\ Holds(rxFifo', 0, 0)
    BY <2>1, <2>2, HoldsNone DEF Got
  <2>4. rxPtr' + byteCount' = Asked' /\ rxPtr' % 4 = 0 /\ Got' % 4 = 0 /\ Got' <= Come'
        /\ \A i \in 1..Got' : FALSE
    BY <1>11, <1>12, <2>1, <2>2, <2>3
  <2>. QED BY <1>9, <1>11, <2>1, <2>2, <2>3, <2>4 DEF ReadOK, UnreadOK
<1>20. DoneOK'
  <2>. SUFFICES ASSUME Past', NEW i \in 1..ReadSize(transfer) PROVE buffer'[i] = i
    BY DEF DoneOK
  <2>1. index = Len(transfer)
    BY <1>8, <1>9
  <2>. QED BY <1>2, <2>1 DEF ReadSize, Kind, Asked
<1>. QED BY <1>13, <1>14, <1>15, <1>16, <1>17, <1>18, <1>19, <1>20 DEF DataInv

(* Turn, as the driver takes it. *)
LEMMA TurnTakes ==
  ASSUME NEW tx, NEW rx, Turn(tx, rx)
  PROVE  \/ pc' = "poll" /\ UNCHANGED <<index, byteCount, readMode, isUnaligned>>
         \/ EndMessage /\ status.genEmpty /\ tx = 0 /\ rx = 0
BY DEF Turn, GoesOn

LEMMA StartKeepsData ==
  ASSUME TransferInv, DataInv, ManualStart
  PROVE  DataInv'
<1>1. /\ pc = "start" /\ started' = Len(genFifo)
      /\ pc' = IF index > Len(transfer) THEN "drain" ELSE "poll"
      /\ UNCHANGED <<transfer, index, byteCount, rxPtr, readMode, txLeft, rxLeft, genFifo, current,
                     txFifo, rxFifo, dma, selected, wire, buffer>>
  BY DEF ManualStart, transferVars, driverVars
<1>2. /\ Typed /\ transfer \in Transfers /\ index \in Nat \ {0} /\ Len(transfer) \in Nat \ {0}
      /\ genFifo \in Seq(EntryType)
  BY <1>1, TransferLength DEF TransferInv, Typed
<1>3. CASE Past
  <2>1. /\ ~InMessage /\ ~InMessage' /\ Past' /\ pc' = "drain" /\ Busy /\ Busy' /\ Closing
        /\ ~Sends /\ ~Sends'
    BY <1>1, <1>2, <1>3 DEF InMessage, Past, Busy, Closing, Sends
  <2>2. genFifo # <<>> /\ Closing'
    BY <1>1, <2>1 DEF DataInv, SelectOK, Closing
  <2>3. /\ Kind' = Kind /\ Base' = Base /\ Asked' = Asked /\ (Waiting' <=> Waiting)
    BY <1>1 DEF Kind, Base, Asked, Waiting
  <2>4. Clocked' = Clocked /\ Reach' = Reach
    BY <1>1, <1>3, <2>1, <2>3 DEF Clocked, Reach
  <2>5. IndexOK'
    BY <1>1, <2>1 DEF DataInv, IndexOK
  <2>6. SelectOK'
    BY <1>1, <1>3, <2>1, <2>2, <2>3 DEF DataInv, SelectOK
  <2>7. LayOK' /\ WireOK'
    BY <1>1, <2>1, <2>3, <2>4 DEF DataInv, LayOK, WireOK
  <2>8. CurrentOK'
    BY <1>1, <2>1, <2>3, <2>4 DEF DataInv, CurrentOK, FromBefore, OfMessage
  <2>9. TxOK'
    <3>1. (TxWorks' <=> TxWorks) /\ NextTx' = NextTx /\ Written' = Written
      BY <1>1, <2>1, <2>3, <2>4 DEF TxWorks, NextTx, Written
    <3>. QED BY <1>1, <2>1, <3>1 DEF DataInv, TxOK
  <2>10. ReadOK' /\ UnreadOK' /\ DoneOK'
    BY <1>1, <1>3, <2>1 DEF DataInv, ReadOK, UnreadOK, DoneOK, Reading
  <2>. QED BY <2>5, <2>6, <2>7, <2>8, <2>9, <2>10 DEF DataInv
<1>4. CASE ~Past
  <2>1. InMessage /\ pc' = "poll"
    BY <1>1, <1>2, <1>4 DEF InMessage, Past
  <2>. QED BY <1>1, <2>1, StillInMessage DEF DataInv
<1>. QED BY <1>3, <1>4

LEMMA PollKeepsData ==
  ASSUME TransferInv, DataInv, Poll
  PROVE  DataInv'
<1>1. /\ pc = "poll" /\ pc' = "act"
      /\ UNCHANGED <<transfer, index, byteCount, rxPtr, readMode, txLeft, rxLeft, genFifo, current,
                     txFifo, rxFifo, dma, selected, wire, buffer>>
  BY DEF Poll, transferVars, driverVars, busVars
<1>2. InMessage
  BY <1>1 DEF InMessage
<1>. QED BY <1>1, <1>2, StillInMessage DEF DataInv
-----------------------------------------------------------------------------
(* The driver's work on the status. *)

LEMMA SendKeepsData ==
  ASSUME TransferInv, TransferInv', DataInv, ActSend
  PROVE  DataInv'
<1>1. /\ pc = "act" /\ Kind # "RX"
      /\ UNCHANGED <<transfer, rxPtr, rxLeft, genFifo, current, rxFifo, dma, selected, wire, buffer>>
      /\ IF status.txNotFull /\ txLeft > 0 THEN FillTxFifo(txLeft) ELSE UNCHANGED <<txFifo, txLeft>>
      /\ Turn(txLeft', 0)
  BY DEF ActSend, transferVars, busVars
<1>2. /\ Typed /\ InMessage /\ txLeft \in Nat /\ IsSequence(txFifo) /\ IsSequence(txFifo')
      /\ transfer \in Transfers /\ index \in 1..Len(transfer)
      /\ rxLeft = 0 /\ dma.left = 0
  <2>1. Typed /\ InMessage /\ IsSequence(txFifo') /\ rxLeft = 0 /\ dma.left = 0
    BY <1>1 DEF TransferInv, Typed, InMessage, PlaceOK
  <2>. QED BY <2>1, InTransfer, TransferLength DEF Typed
<1>3. IndexOK /\ SelectOK /\ LayOK /\ WireOK /\ CurrentOK /\ TxOK
  BY DEF DataInv
<1>4. Busy /\ ~Past /\ (Sends <=> Kind = "TX") /\ pc # "prepare"
  BY <1>1, <1>2, TransferLength DEF Busy, Past, Sends
<1>5. PICK x, n \in Nat : x = Base /\ n = Asked /\ n > 0
  BY <1>2, <1>3, <1>4, MessageIs
<1>6. byteCount = n /\ Reach = n /\ txLeft <= n
  <2>1. byteCount = n /\ Reach = n
    BY <1>1, <1>2, <1>3, <1>4, <1>5 DEF IndexOK, Reach
  <2>. QED BY <1>3, <1>4, <1>5, <2>1 DEF TxOK
<1>7. Kind # "TX" => UNCHANGED <<txFifo, txLeft>>
  <2>1. Kind # "TX" => txLeft = 0
    BY <1>3, <1>4 DEF TxOK
  <2>. QED BY <1>1, <2>1
<1>8. ASSUME Kind = "TX"
      PROVE  txLeft' \in 0..n /\ Chain(transfer, txFifo', NextTx, x + (n - txLeft'))
  <2>1. Chain(transfer, txFifo, NextTx, x + (n - txLeft))
    BY <1>3, <1>4, <1>5, <1>8 DEF TxOK, TxWorks, Written
  <2>2. CASE ~(status.txNotFull /\ txLeft > 0)
    <3>1. txFifo' = txFifo /\ txLeft' = txLeft
      BY <1>1, <2>2
    <3>. QED BY <1>2, <1>6, <2>1, <3>1
  <2>3. CASE status.txNotFull /\ txLeft > 0
    <3>1. PICK t \in 1..n : t = txLeft
      BY <1>2, <1>6, <2>3
    <3>2. txFifo' = txFifo \o NextWords(t) /\ txLeft' = t - MinOf(t, TxFill)
      BY <1>1, <2>3, <3>1 DEF FillTxFifo
    <3>3. PICK k \in 0..t : k = MinOf(t, TxFill)
      BY SizesAssumption DEF MinOf
    <3>4. PICK a \in Nat : a = x + (n - t)
      OBVIOUS
    <3>5. Chain(transfer, NextWords(t), a, a + k)
      <4>1. byteCount = transfer[index].count /\ t \in Nat \ {0} /\ t <= byteCount
        BY <1>5, <1>6 DEF Asked
      <4>2. a + t = Begins(transfer)[index - 1] + byteCount
        BY <1>5, <1>6, <3>4 DEF Base
      <4>. QED BY <1>2, <1>8, <3>3, <4>1, <4>2, NextWordsChain
    <3>6. IsSequence(NextWords(t)) /\ Chain(transfer, txFifo, NextTx, a)
      BY <2>1, <3>1, <3>4, NextWordsIs
    <3>7. Chain(transfer, txFifo', NextTx, a + k)
      BY <1>2, <3>2, <3>5, <3>6, ChainBoth
    <3>8. txLeft' \in 0..n /\ a + k = x + (n - txLeft')
      BY <3>2, <3>3, <3>4, SMTT(30)
    <3>. QED BY <3>7, <3>8
  <2>. QED BY <2>2, <2>3
<1>9. CASE pc' = "poll" /\ UNCHANGED <<index, byteCount, readMode, isUnaligned>>
  <2>1. /\ IndexOK' /\ SelectOK' /\ LayOK' /\ WireOK' /\ CurrentOK' /\ DoneOK'
        /\ InMessage' /\ Busy' /\ Kind' = Kind /\ Base' = Base /\ Asked' = Asked
        /\ Clocked' = Clocked /\ ReadOK' /\ UnreadOK'
        /\ UNCHANGED <<txFifo, txLeft>> => TxOK'
    BY <1>1, <1>2, <1>9, StillInMessage
  <2>2. ASSUME Kind = "TX" PROVE TxOK'
    <3>1. Sends' /\ NextTx' = NextTx /\ Written' = x + (n - txLeft')
      BY <1>1, <1>5, <2>1, <2>2 DEF Sends, NextTx, Written
    <3>2. txLeft' <= Asked'
      BY <1>5, <1>8, <2>1, <2>2
    <3>. QED BY <1>1, <1>8, <2>1, <2>2, <3>1, <3>2 DEF TxOK, TxWorks
  <2>. QED BY <1>7, <2>1, <2>2 DEF DataInv
<1>10. CASE EndMessage /\ status.genEmpty /\ txLeft' = 0
  <2>1. current.left > 0 => current.kind # "RX"
    BY <1>2, NothingComes
  <2>2. Kind = "TX" => Chain(transfer, txFifo', NextTx, Base + Asked)
    <3>1. x + (n - 0) = x + n
      BY <1>5
    <3>. QED BY <1>5, <1>8, <1>10, <3>1
  <2>3. Reach = Asked
    BY <1>5, <1>6
  <2>. QED BY <1>1, <1>2, <1>7, <1>10, <2>1, <2>2, <2>3, MessageOver
<1>. QED BY <1>1, <1>9, <1>10, TurnTakes

(* What the FIFO cannot bring in whole words becomes a message of its own. *)
LEMMA RestKeepsData ==
  ASSUME TransferInv, DataInv, pc = "act", Kind = "RX", readMode = "DMA", dma.done, SetIOMode,
         rxLeft' = 0,
         UNCHANGED <<transfer, txLeft, genFifo, current, txFifo, rxFifo, selected, wire, buffer>>
  PROVE  DataInv'
<1>1. /\ rxLeft % 4 # 0 /\ readMode' = "IO" /\ byteCount' = rxLeft % 4 /\ index' = index
      /\ rxPtr' = rxPtr + DmaBytes(rxLeft) /\ pc' = "prepare"
  BY DEF SetIOMode
<1>2. IndexOK /\ SelectOK /\ LayOK /\ WireOK /\ CurrentOK /\ TxOK /\ ReadOK
  BY DEF DataInv
<1>3. /\ Typed /\ InMessage /\ rxLeft \in Nat /\ dma.left = 0 /\ genFifo \in Seq(EntryType)
      /\ transfer \in Transfers /\ index \in 1..Len(transfer)
      /\ dma \in [at: Nat, left: Nat, done: BOOLEAN]
  <2>1. /\ Typed /\ InMessage /\ rxLeft \in Nat /\ dma.left = 0 /\ genFifo \in Seq(EntryType)
        /\ dma \in [at: Nat, left: Nat, done: BOOLEAN]
    BY DEF TransferInv, Typed, InMessage, PlaceOK
  <2>. QED BY <2>1, InTransfer, TransferLength
<1>4. /\ Busy /\ Busy' /\ ~Past /\ ~Past' /\ ~Closing /\ ~Closing' /\ ~Sends /\ ~Sends'
      /\ ~InMessage' /\ Reading /\ Reading' /\ Kind' = Kind
  <2>1. Busy /\ Busy' /\ ~Past /\ ~Past' /\ Kind' = Kind /\ ~InMessage'
    BY <1>1, <1>3, TransferLength DEF Busy, Past, Kind, InMessage
  <2>. QED BY <1>1, <2>1 DEF Closing, Sends, Reading
<1>5. Base' = Base /\ Asked' = Asked /\ (Waiting' <=> Waiting) /\ Clocked' = Clocked
  <2>1. Base' = Base /\ Asked' = Asked /\ (Waiting' <=> Waiting)
    BY <1>1 DEF Base, Asked, Waiting
  <2>. QED BY <2>1 DEF Clocked
<1>6. Come' = Come
  BY <1>5 DEF Come
<1>7. PICK n \in Nat : n = Asked /\ n > 0
  BY <1>2, <1>3, <1>4, MessageIs
<1>0. PICK r, q \in Nat :
        r = DmaBytes(n) /\ r % 4 = 0 /\ q = n % 4 /\ n = r + q /\ q < 4 /\ r <= n
  <2>1. n % 4 \in 0..3
    OBVIOUS
  <2>2. DmaBytes(n) \in 0..n /\ DmaBytes(n) % 4 = 0 /\ n = DmaBytes(n) + (n % 4)
    BY DEF DmaBytes
  <2>. QED BY <2>1, <2>2
<1>8. n = r + q /\ q < 4 /\ r <= n
  BY <1>0
<1>9. /\ rxLeft = n /\ rxPtr = 0 /\ dma.at = r /\ Got = r /\ Reach = r
      /\ Holds(rxFifo, r, Come) /\ r <= Come /\ \A i \in 1..r : buffer[i] = i
  <2>1. /\ dma.at + dma.left = r /\ rxPtr = 0 /\ rxLeft \in {0, n} /\ Got = dma.at
        /\ Holds(rxFifo, Got, Come) /\ Got <= Come /\ \A i \in 1..Got : buffer[i] = i
    BY <1>0, <1>2, <1>3, <1>4, <1>7 DEF ReadOK, Got
  <2>2. Reach = r
    BY <1>0, <1>4, <1>7 DEF Reach
  <2>3. PICK d \in Nat : d = dma.at
    BY <1>3
  <2>4. d = r
    BY <1>3, <1>8, <2>1, <2>3
  <2>. QED BY <1>1, <2>1, <2>2, <2>3, <2>4
<1>10. PICK x, l, c, a \in Nat :
           /\ x = Base /\ l = current.left /\ c = Clocked
           /\ c + l = x + a /\ Lay(genFifo, a, r) /\ a <= r
  BY <1>2, <1>3, <1>4, <1>9, Positions
<1>11. Come = r
  <2>1. PICK k \in Nat : k = Come /\ k <= Reach
    BY <1>2, <1>3, <1>4, ComeIs
  <2>. QED BY <1>8, <1>9, <2>1
<1>12. a = r
  <2>1. r = IF c >= x THEN c - x ELSE 0
    BY <1>10, <1>11 DEF Come
  <2>. QED BY <1>8, <1>10, <2>1
<1>13. rxPtr' = r /\ byteCount' = n - r /\ byteCount' \in 1..n /\ byteCount' < 8
       /\ rxPtr' + byteCount' = n
  <2>1. byteCount' = q /\ rxPtr' = 0 + r /\ q # 0
    BY <1>0, <1>1, <1>9
  <2>2. byteCount' = n - r
    BY <1>8, <2>1
  <2>. QED BY <1>8, <2>1, <2>2
<1>14. Got' = r /\ Reach' = r
  <2>1. n - (n - r) = r
    OBVIOUS
  <2>. QED BY <1>1, <1>5, <1>7, <1>13, <2>1 DEF Got, Reach
<1>15. IndexOK'
  BY <1>1, <1>2, <1>4, <1>5, <1>7, <1>13 DEF IndexOK
<1>16. SelectOK'
  <2>1. \A i \in 1..Len(genFifo) : genFifo[i].left = 0
    BY <1>3, <1>10, <1>12, LayFlat
  <2>. QED BY <1>1, <1>2, <1>4, <1>5, <2>1 DEF SelectOK
<1>17. LayOK' /\ WireOK'
  BY <1>2, <1>4, <1>5, <1>9, <1>14 DEF LayOK, WireOK
<1>18. CurrentOK'
  <2>. SUFFICES ASSUME l > 0 PROVE FromBefore'
    BY <1>10 DEF CurrentOK
  <2>1. current.kind # "RX"
    BY <1>3, <1>10, NothingComes
  <2>2. FromBefore
    BY <1>2, <1>4, <1>10, <2>1 DEF CurrentOK, OfMessage
  <2>. QED BY <1>1, <1>5, <2>2 DEF FromBefore
<1>19. TxOK'
  <2>1. (TxWorks' <=> TxWorks) /\ NextTx' = NextTx /\ Written' = Written
    BY <1>4, <1>5 DEF TxWorks, NextTx, Written
  <2>. QED BY <1>2, <1>4, <1>5, <2>1 DEF TxOK
<1>20. ReadOK' /\ UnreadOK' /\ DoneOK'
  <2>1. UnreadOK' /\ DoneOK' /\ pc' = "prepare"
    BY <1>1, <1>4 DEF UnreadOK, DoneOK, Reading
  <2>2. /\ Got' <= Come' /\ Got' % 4 = 0 /\ Holds(rxFifo', Got', Come')
        /\ \A i \in 1..Got' : buffer'[i] = i
    BY <1>0, <1>6, <1>9, <1>11, <1>14
  <2>3. /\ rxPtr' + byteCount' = Asked' /\ rxPtr' % 4 = 0 /\ Come' = rxPtr'
        /\ ~ byteCount' >= 8
    <3>1. rxPtr' + byteCount' = Asked'
      BY <1>5, <1>7, <1>13
    <3>2. rxPtr' % 4 = 0
      BY <1>0, <1>13
    <3>3. ~ byteCount' >= 8
      BY <1>8, <1>13
    <3>. QED BY <1>6, <1>11, <1>13, <3>1, <3>2, <3>3
  <2>. QED BY <1>4, <2>1, <2>2, <2>3 DEF ReadOK
<1>. QED BY <1>15, <1>16, <1>17, <1>18, <1>19, <1>20 DEF DataInv

LEMMA DmaKeepsData ==
  ASSUME TransferInv, TransferInv', DataInv, ActDma
  PROVE  DataInv'
<1>1. /\ pc = "act" /\ Kind = "RX" /\ readMode = "DMA"
      /\ UNCHANGED <<transfer, txLeft, genFifo, current, txFifo, rxFifo, selected, wire, buffer>>
  BY DEF ActDma, transferVars, busVars
<1>2. /\ Typed /\ InMessage /\ rxLeft \in Nat /\ genFifo \in Seq(EntryType)
      /\ transfer \in Transfers /\ index \in 1..Len(transfer)
      /\ dma \in [at: Nat, left: Nat, done: BOOLEAN] /\ txLeft = 0
      /\ (rxLeft # 0 <=> dma.left > 0 \/ dma.done) /\ (dma.done => dma.left = 0)
  <2>1. /\ Typed /\ InMessage /\ rxLeft \in Nat /\ genFifo \in Seq(EntryType) /\ txLeft = 0
        /\ dma \in [at: Nat, left: Nat, done: BOOLEAN]
        /\ (rxLeft # 0 <=> dma.left > 0 \/ dma.done) /\ (dma.done => dma.left = 0)
    BY <1>1 DEF TransferInv, Typed, InMessage, PlaceOK
  <2>. QED BY <2>1, InTransfer, TransferLength
<1>3. IndexOK /\ SelectOK /\ LayOK /\ WireOK /\ CurrentOK /\ TxOK /\ ReadOK
  BY DEF DataInv
<1>4. Busy /\ ~Past /\ Reading /\ pc # "prepare"
  BY <1>1, <1>2, TransferLength DEF Busy, Past, Reading
<1>5. PICK n \in Nat : n = Asked /\ n > 0
  BY <1>2, <1>3, <1>4, MessageIs
<1>6. /\ dma.at + dma.left = DmaBytes(n) /\ dma.at % 4 = 0 /\ rxPtr = 0 /\ rxLeft \in {0, n}
      /\ rxLeft = 0 => n % 4 = 0
      /\ Got <= Come /\ (Got % 4 = 0 \/ Got = n) /\ Got = dma.at
      /\ Holds(rxFifo, Got, Come) /\ \A i \in 1..Got : buffer[i] = i
  BY <1>1, <1>2, <1>3, <1>4, <1>5 DEF ReadOK, Got
<1>7. ASSUME dma.left = 0, n % 4 = 0
      PROVE  /\ Reach = Asked /\ \A i \in 1..Asked : buffer'[i] = i
             /\ current.left > 0 => current.kind # "RX"
  <2>1. DmaBytes(n) = n
    BY <1>7 DEF DmaBytes
  <2>2. PICK d \in Nat : d = dma.at
    BY <1>2
  <2>3. d = n
    BY <1>6, <1>7, <2>1, <2>2
  <2>4. Reach = Asked
    BY <1>1, <1>4, <1>5, <2>1 DEF Reach
  <2>. QED BY <1>1, <1>5, <1>6, <1>7, <2>2, <2>3, <2>4, NothingComes
<1>8. ASSUME Turn(0, rxLeft'), rxPtr' = rxPtr, dma'.at = dma.at, dma'.left = dma.left,
             rxLeft' = 0 => dma.left = 0 /\ n % 4 = 0, rxLeft' \in {0, n}
      PROVE  DataInv'
  <2>1. CASE pc' = "poll" /\ UNCHANGED <<index, byteCount, readMode, isUnaligned>>
    <3>1. /\ IndexOK' /\ SelectOK' /\ LayOK' /\ WireOK' /\ CurrentOK' /\ DoneOK'
          /\ InMessage' /\ Busy' /\ Kind' = Kind /\ Base' = Base /\ Asked' = Asked
          /\ Come' = Come /\ TxOK' /\ UnreadOK'
      BY <1>1, <1>2, <2>1, StillInMessage
    <3>2. Got' = Got /\ pc' # "prepare" /\ readMode' = "DMA"
      BY <1>1, <1>4, <1>8, <2>1 DEF Got
    <3>3. ReadOK'
      BY <1>1, <1>5, <1>6, <1>8, <3>1, <3>2 DEF ReadOK
    <3>. QED BY <3>1, <3>3 DEF DataInv
  <2>2. CASE EndMessage /\ status.genEmpty /\ rxLeft' = 0
    BY <1>1, <1>2, <1>7, <1>8, <2>2, MessageOver
  <2>3. PICK rx : rx = rxLeft'
    OBVIOUS
  <2>. QED BY <1>8, <2>1, <2>2, <2>3, TurnTakes
<1>9. CASE ~dma.done
  <2>1. Turn(0, rxLeft) /\ UNCHANGED <<rxPtr, rxLeft, dma>>
    BY <1>9 DEF ActDma
  <2>2. rxLeft' = 0 => dma.left = 0 /\ n % 4 = 0
    BY <1>2, <1>6, <2>1
  <2>. QED BY <1>6, <1>8, <2>1, <2>2
<1>10. CASE dma.done
  <2>1. /\ dma' = [dma EXCEPT !.done = FALSE] /\ rxLeft' = 0
        /\ SetIOMode \/ (rxLeft % 4 = 0 /\ Turn(0, 0) /\ UNCHANGED rxPtr)
    BY <1>10 DEF ActDma
  <2>2. dma'.at = dma.at /\ dma'.left = dma.left /\ dma.left = 0 /\ rxLeft = n
    BY <1>2, <1>6, <1>10, <2>1
  <2>3. CASE SetIOMode
    BY <1>1, <1>10, <2>1, <2>3, RestKeepsData
  <2>4. CASE rxLeft % 4 = 0 /\ Turn(0, 0) /\ UNCHANGED rxPtr
    BY <1>6, <1>8, <2>1, <2>2, <2>4
  <2>. QED BY <2>1, <2>3, <2>4
<1>. QED BY <1>9, <1>10
-----------------------------------------------------------------------------
(* The driver takes b bytes out of the RX FIFO to the buffer. *)
LEMMA BytesTaken ==
  ASSUME NEW g \in Nat, NEW k \in Nat, NEW b \in Nat, g + b <= k, k <= MaxBuffer,
         b % 4 = 0 \/ g + b = k, IsSequence(rxFifo), Holds(rxFifo, g, k),
         \A i \in 1..g : buffer[i] = i,
         rxFifo' = SubSeq(rxFifo, Words(b) + 1, Len(rxFifo)), NEW h \in Nat, h >= b,
         buffer' = [i \in 1..MaxBuffer |-> IF i > g /\ i <= g + h
                                           THEN ByteOf(rxFifo, i - g - 1) ELSE buffer[i]]
  PROVE  Holds(rxFifo', g + b, k) /\ \A i \in 1..g + b : buffer'[i] = i
<1>1. Holds(rxFifo', g + b, k)
  <2>1. b <= k - g /\ (b % 4 = 0 \/ b = k - g) /\ g <= k
    OBVIOUS
  <2>. QED BY <2>1, HoldsRest
<1>2. ASSUME NEW i \in 1..g + b PROVE buffer'[i] = i
  <2>1. i \in 1..MaxBuffer /\ i \in Nat /\ i >= 1 /\ i <= g + h
    BY SizesAssumption
  <2>2. CASE i > g
    <3>1. PICK j \in Nat : j = i - g - 1
      BY <2>1, <2>2
    <3>2. j < k - g /\ g + j + 1 = i
      BY <2>1, <3>1
    <3>3. ByteOf(rxFifo, j) = g + j + 1
      BY <3>2, ByteOfIs
    <3>4. buffer'[i] = ByteOf(rxFifo, i - g - 1)
      BY <2>1, <2>2
    <3>. QED BY <3>1, <3>2, <3>3, <3>4
  <2>3. CASE ~ i > g
    <3>1. i \in 1..g /\ buffer'[i] = buffer[i]
      BY <2>1, <2>3
    <3>. QED BY <3>1
  <2>. QED BY <2>2, <2>3
<1>. QED BY <1>1, <1>2

(* A read through the FIFO takes the next bytes of the flash to the next places. *)
LEMMA FifoReads ==
  ASSUME TransferInv, DataInv, pc = "act", Kind = "RX", readMode = "IO", IORead
  PROVE  \E g \in Nat :
           /\ g = rxPtr' /\ rxPtr' + rxLeft' = Asked /\ g <= Come
           /\ g % 4 = 0 \/ g = Asked
           /\ Holds(rxFifo', g, Come) /\ \A i \in 1..g : buffer'[i] = i
<1>1. IndexOK /\ SelectOK /\ LayOK /\ WireOK /\ CurrentOK /\ ReadOK
  BY DEF DataInv
<1>2. /\ Typed /\ InMessage /\ rxLeft \in Nat /\ rxPtr \in Nat /\ IsSequence(rxFifo)
      /\ status.genEmpty => genFifo = <<>> /\ current.left = 0
      /\ status.rxNotEmpty => rxFifo # <<>>
      /\ transfer \in Transfers /\ index \in 1..Len(transfer)
  <2>1. /\ Typed /\ InMessage /\ rxLeft \in Nat /\ rxPtr \in Nat /\ IsSequence(rxFifo)
        /\ status.genEmpty => genFifo = <<>> /\ current.left = 0
        /\ status.rxNotEmpty => rxFifo # <<>>
    BY DEF TransferInv, Typed, InMessage, QueueOK, EndsIdle, StatusOK
  <2>. QED BY <2>1, InTransfer, TransferLength
<1>3. Busy /\ ~Past /\ Reading
  BY <1>2, TransferLength DEF Busy, Past, Reading
<1>4. PICK n \in Nat : n = Asked /\ n <= MaxBuffer
  BY <1>1, <1>2, <1>3, MessageIs
<1>5. Reach = n
  BY <1>3, <1>4 DEF Reach
<1>6. PICK k \in Nat : k = Come /\ k <= n /\ (k % 4 = 0 \/ k = n)
  BY <1>1, <1>2, <1>3, <1>5, ComeIs
<1>7. PICK g, u \in Nat : g = rxPtr /\ u = rxLeft
  BY <1>2
<1>8. /\ g + u = n /\ g <= k /\ (g % 4 = 0 \/ g = n)
      /\ Holds(rxFifo, g, k) /\ \A i \in 1..g : buffer[i] = i
  BY <1>1, <1>2, <1>3, <1>4, <1>6, <1>7 DEF ReadOK, Got
<1>9. ASSUME UNCHANGED <<buffer, rxFifo, rxLeft, rxPtr>>
      PROVE  \E e \in Nat :
               /\ e = rxPtr' /\ rxPtr' + rxLeft' = n /\ e <= k /\ (e % 4 = 0 \/ e = n)
               /\ Holds(rxFifo', e, k) /\ \A i \in 1..e : buffer'[i] = i
  BY <1>7, <1>8, <1>9
<1>10. ASSUME NEW size, ReadRxFifo(size), NEW b \in Nat, b = MinOf(u, 4 * Words(size)),
              b <= u, g + b <= k, b % 4 = 0 \/ b = u
       PROVE  \E e \in Nat :
               /\ e = rxPtr' /\ rxPtr' + rxLeft' = n /\ e <= k /\ (e % 4 = 0 \/ e = n)
               /\ Holds(rxFifo', e, k) /\ \A i \in 1..e : buffer'[i] = i
  <2>1. /\ buffer' = [i \in 1..MaxBuffer |-> IF i > g /\ i <= g + b
                                             THEN ByteOf(rxFifo, i - g - 1) ELSE buffer[i]]
        /\ rxFifo' = SubSeq(rxFifo, Words(b) + 1, Len(rxFifo))
        /\ rxLeft' = u - b
        /\ rxPtr' = g + b
    BY <1>7, <1>10 DEF ReadRxFifo
  <2>2. b % 4 = 0 \/ g + b = k
    BY <1>6, <1>8, <1>10
  <2>3. k <= MaxBuffer
    BY <1>4, <1>6, SizesAssumption
  <2>4. Holds(rxFifo', g + b, k) /\ \A i \in 1..g + b : buffer'[i] = i
    <3>1. b >= b
      OBVIOUS
    <3>2. /\ g \in Nat /\ k \in Nat /\ b \in Nat /\ g + b <= k
          /\ IsSequence(rxFifo) /\ Holds(rxFifo, g, k) /\ \A i \in 1..g : buffer[i] = i
      BY <1>2, <1>8, <1>10
    <3>. QED BY Zenon, <2>1, <2>2, <2>3, <3>1, <3>2, BytesTaken
  <2>5. g + b \in Nat /\ (g + b) + (u - b) = n /\ ((g + b) % 4 = 0 \/ g + b = n)
    <3>1. CASE b = u
      BY <1>8, <3>1
    <3>2. CASE b % 4 = 0 /\ g % 4 = 0
      BY <1>8, <1>10, <3>2
    <3>3. CASE g = n
      <4>1. b = 0
        BY <1>8, <1>10, <3>3
      <4>. QED BY <1>8, <3>3, <4>1
    <3>. QED BY <1>8, <1>10, <3>1, <3>2, <3>3
  <2>. QED BY <1>10, <2>1, <2>4, <2>5
<1>11. CASE status.rxNotEmpty /\ ReadRxFifo(4)
  <2>1. 4 * Words(4) = 4
    BY DEF Words
  <2>2. PICK b \in Nat : b = MinOf(u, 4) /\ b <= u /\ (b = 4 \/ b = u) /\ b <= 4
    BY DEF MinOf
  <2>3. g < k
    <3>1. Len(rxFifo) \in Nat /\ Len(rxFifo) # 0
      BY <1>2, <1>11, LengthOf
    <3>2. k - g \in Nat /\ Len(rxFifo) = Words(k - g)
      BY <1>8 DEF Holds
    <3>3. k - g # 0
      BY <3>1, <3>2, WordsOfCount
    <3>. QED BY <1>8, <3>3
  <2>4. g + b <= k
    <3>1. CASE k = n
      BY <1>8, <2>2, <3>1
    <3>2. CASE k % 4 = 0
      <4>1. g % 4 = 0
        BY <1>6, <1>8, <2>3
      <4>2. k >= g + 4
        BY <2>3, <3>2, <4>1
      <4>. QED BY <2>2, <4>2
    <3>. QED BY <1>6, <3>1, <3>2
  <2>5. b % 4 = 0 \/ b = u
    BY <2>2
  <2>6. b = MinOf(u, 4 * Words(4))
    BY <2>1, <2>2
  <2>. QED BY <1>4, <1>6, <1>10, <1>11, <2>2, <2>4, <2>5, <2>6
<1>12. CASE ~status.rxNotEmpty /\ status.genEmpty /\ ReadRxFifo(rxLeft)
  <2>1. MinOf(u, 4 * Words(u)) = u
    BY DEF MinOf, Words
  <2>2. k = n
    <3>1. PICK x, l, c, a \in Nat :
           /\ x = Base /\ l = current.left /\ c = Clocked
           /\ c + l = x + a /\ Lay(genFifo, a, n)
      <4>1. PICK x, m, l, c, r, a \in Nat :
           /\ x = Base /\ l = current.left /\ c = Clocked /\ r = Reach
           /\ c + l = x + a /\ Lay(genFifo, a, r)
        BY <1>1, <1>2, <1>3, Positions
      <4>. QED BY <1>5, <4>1
    <3>2. a = n /\ l = 0
      BY <1>2, <1>12, <3>1, LayNone
    <3>3. k = IF c >= x THEN c - x ELSE 0
      BY <1>6, <3>1 DEF Come
    <3>. QED BY <3>1, <3>2, <3>3
  <2>3. g + u <= k
    BY <1>8, <2>2
  <2>. QED BY <1>4, <1>6, <1>7, <1>10, <1>12, <2>1, <2>3
<1>. QED BY <1>4, <1>6, <1>9, <1>11, <1>12 DEF IORead

LEMMA IoKeepsData ==
  ASSUME TransferInv, TransferInv', DataInv, ActIo
  PROVE  DataInv'
<1>1. /\ pc = "act" /\ Kind = "RX" /\ readMode = "IO"
      /\ UNCHANGED <<transfer, txLeft, genFifo, current, txFifo, dma, selected, wire>>
  BY DEF ActIo, transferVars, busVars
<1>2. /\ Typed /\ InMessage /\ txLeft = 0 /\ (status.genEmpty => genFifo = <<>> /\ current.left = 0)
      /\ transfer \in Transfers /\ index \in 1..Len(transfer)
  <2>1. /\ Typed /\ InMessage /\ txLeft = 0
        /\ (status.genEmpty => genFifo = <<>> /\ current.left = 0)
    BY <1>1 DEF TransferInv, PlaceOK, InMessage, QueueOK, EndsIdle, StatusOK
  <2>. QED BY <1>1, <2>1, InTransfer, TransferLength
<1>3. IndexOK /\ Busy /\ ~Past
  BY <1>1, <1>2, TransferLength DEF DataInv, Busy, Past
<1>4. CASE AssertionFails
  <2>1. pc' = "assert" /\ status.genEmpty
    BY <1>4 DEF ActIo, AssertionFails
  <2>2. genFifo' = <<>> /\ current'.left = 0 /\ Len(genFifo') = 0
    BY <1>1, <1>2, <2>1, EmptySeq
  <2>3. ~Busy' /\ ~Waiting' /\ ~Closing' /\ ~Reading' /\ \A i \in 1..Len(genFifo') : FALSE
    BY <2>1, <2>2 DEF Busy, Waiting, Closing, Reading
  <2>4. SelectOK'
    BY <2>1, <2>2, <2>3 DEF SelectOK
  <2>. QED BY <2>3, <2>4
       DEF DataInv, IndexOK, LayOK, WireOK, CurrentOK, TxOK, ReadOK, UnreadOK, DoneOK
<1>5. CASE ~AssertionFails
  <2>1. IORead /\ Turn(0, rxLeft')
    BY <1>5 DEF ActIo
  <2>2. PICK g \in Nat :
           /\ g = rxPtr' /\ rxPtr' + rxLeft' = Asked /\ g <= Come
           /\ g % 4 = 0 \/ g = Asked
           /\ Holds(rxFifo', g, Come) /\ \A i \in 1..g : buffer'[i] = i
    BY <1>1, <2>1, FifoReads
  <2>3. CASE pc' = "poll" /\ UNCHANGED <<index, byteCount, readMode, isUnaligned>>
    <3>1. /\ IndexOK' /\ SelectOK' /\ LayOK' /\ WireOK' /\ CurrentOK' /\ DoneOK'
          /\ InMessage' /\ Busy' /\ Kind' = Kind /\ Base' = Base /\ Asked' = Asked
          /\ Come' = Come /\ TxOK' /\ UnreadOK'
      BY <1>1, <1>2, <2>3, StillInMessage
    <3>2. Got' = g /\ readMode' = "IO" /\ pc' # "prepare"
      BY <1>1, <2>2, <2>3 DEF Got
    <3>3. ReadOK'
      BY <2>2, <3>1, <3>2 DEF ReadOK
    <3>. QED BY <3>1, <3>3 DEF DataInv
  <2>4. CASE EndMessage /\ status.genEmpty /\ rxLeft' = 0
    <3>1. g = Asked
      <4>1. PICK n \in Nat : n = Asked
        BY <1>2, <1>3, MessageIs
      <4>2. g + 0 = n
        BY Zenon, <2>2, <2>4, <4>1
      <4>. QED BY <4>1, <4>2
    <3>2. Reach = Asked
      BY <1>1, <1>3 DEF Reach
    <3>3. \A i \in 1..Asked : buffer'[i] = i
      BY <2>2, <3>1
    <3>4. current.left = 0 /\ ~ current.left > 0
      BY <1>2, <2>4
    <3>. QED BY <1>1, <1>2, <2>4, <3>2, <3>3, <3>4, MessageOver
  <2>5. PICK rx : rx = rxLeft'
    OBVIOUS
  <2>. QED BY <2>1, <2>3, <2>4, <2>5, TurnTakes
<1>. QED BY <1>4, <1>5

LEMMA DeselectKeepsData ==
  ASSUME TransferInv, TransferInv', DataInv, Deselect
  PROVE  DataInv'
<1>1. /\ pc = "deselect" /\ pc' = "start" /\ genFifo' = Append(genFifo, CSDeAssert)
      /\ UNCHANGED <<transfer, index, byteCount, rxPtr, readMode, txLeft, rxLeft, current,
                     txFifo, rxFifo, dma, selected, wire, started, buffer>>
  BY DEF Deselect, transferVars, driverVars, busVars
<1>2. /\ Typed /\ genFifo \in Seq(EntryType) /\ transfer \in Transfers /\ index \in Nat \ {0}
      /\ Len(transfer) \in Nat \ {0} /\ started \in 0..Len(genFifo)
  BY <1>1, TransferLength DEF TransferInv, Typed
<1>3. IndexOK /\ SelectOK /\ LayOK /\ WireOK /\ CurrentOK /\ TxOK /\ ReadOK /\ DoneOK
  BY DEF DataInv
<1>4. /\ Busy /\ Busy' /\ Past /\ Past' /\ Closing' /\ ~Closing /\ ~InMessage /\ ~InMessage'
      /\ ~Sends /\ ~Sends' /\ ~Waiting
  <2>1. Busy /\ Busy' /\ Past
    BY <1>1, <1>3 DEF Busy, IndexOK
  <2>. QED BY <1>1, <1>2, <1>3, <2>1 DEF Past, Closing, InMessage, Sends, SelectOK
<1>. DEFINE e == CSDeAssert
<1>5. e \in EntryType /\ e.left = 0 /\ e.kind = "DESELECT" /\ genFifo' = Append(genFifo, e)
  BY <1>1 DEF CSDeAssert, Entry, EntryType, DataKinds
<1>. HIDE DEF e
<1>6. <<e>> \in Seq(EntryType) /\ Len(<<e>>) = 1 /\ <<e>>[1] = e /\ genFifo' = genFifo \o <<e>>
  BY <1>2, <1>5, AppendIsConcat
<1>7. PICK l \in Nat : l = Len(genFifo)
  BY <1>2, LenProperties
<1>8. /\ genFifo' \in Seq(EntryType) /\ Len(genFifo') = l + 1 /\ genFifo'[l + 1] = e
      /\ \A i \in 1..l : genFifo'[i] = genFifo[i]
  BY <1>2, <1>5, <1>7, AppendProperties
<1>9. genFifo' # <<>> /\ Head(genFifo') = genFifo'[1]
  <2>1. genFifo' # <<>>
    BY <1>7, <1>8, EmptySeq
  <2>. QED BY <1>8, <2>1, HeadIs
<1>10. \A i \in 1..l : genFifo[i].left = 0 /\ genFifo[i].kind # "DESELECT"
                       /\ (genFifo[i].kind = "SELECT" => i = 1)
  <2>1. ASSUME NEW i \in 1..l PROVE genFifo[i].left = 0
    <3>1. PICK y \in Nat : y = genFifo[i].left
      BY <1>2, <1>7, ElementOfSeq DEF EntryType
    <3>. QED BY <1>3, <1>4, <1>7, <3>1 DEF SelectOK
  <2>. QED BY <1>3, <1>4, <1>7, <2>1 DEF SelectOK
<1>11. ~Waiting'
  <2>1. CASE l = 0
    BY <1>5, <1>8, <1>9, <2>1 DEF Waiting
  <2>2. CASE l # 0
    <3>1. 1 \in 1..l /\ genFifo # <<>>
      BY <1>2, <1>7, <2>2, EmptySeq
    <3>2. Head(genFifo) = genFifo[1]
      BY <1>2, <3>1, HeadIs
    <3>. QED BY <1>4, <1>8, <1>9, <3>1, <3>2 DEF Waiting
  <2>. QED BY <2>1, <2>2
<1>12. Base' = Base /\ Clocked' = Clocked /\ Reach' = 0 /\ Reach = 0
  BY <1>1, <1>4, <1>11 DEF Base, Clocked, Reach
<1>13. IndexOK'
  BY <1>1, <1>3, <1>4 DEF IndexOK
<1>14. SelectOK'
  <2>1. ASSUME NEW i \in 1..Len(genFifo')
        PROVE  /\ genFifo'[i].kind = "SELECT" => i = 1 /\ genFifo'[i].left = 0
               /\ genFifo'[i].kind = "DESELECT" => i = Len(genFifo') /\ genFifo'[i].left = 0
               /\ genFifo'[i].left = 0
    <3>1. i = l + 1 \/ i \in 1..l
      BY <1>7, <1>8
    <3>2. CASE i = l + 1
      BY <1>5, <1>8, <3>2
    <3>3. CASE i \in 1..l
      BY <1>8, <1>10, <3>3
    <3>. QED BY <3>1, <3>2, <3>3
  <2>2. genFifo'[Len(genFifo')].kind = "DESELECT" /\ started' < Len(genFifo')
    BY <1>1, <1>2, <1>5, <1>7, <1>8
  <2>3. selected'
    BY <1>1, <1>3, <1>4 DEF SelectOK
  <2>. QED BY <1>1, <1>4, <1>9, <1>11, <2>1, <2>2, <2>3 DEF SelectOK
<1>15. LayOK'
  <2>1. PICK a \in Nat : Clocked + current.left = Base + a /\ Lay(genFifo, a, 0)
    BY <1>3, <1>4, <1>12 DEF LayOK
  <2>2. Lay(<<e>>, 0, 0 + e.left)
    BY <1>5, LayOne
  <2>3. Lay(genFifo', a, 0)
    <3>1. Lay(<<e>>, 0, 0)
      BY <1>5, <2>2
    <3>2. <<e>> \in Seq(EntryType)
      BY <1>6
    <3>3. Lay(genFifo \o <<e>>, a, 0)
      BY <1>2, <2>1, <3>1, <3>2, LayBoth
    <3>. QED BY <1>6, <3>3
  <2>. QED BY <1>1, <1>12, <2>1, <2>3 DEF LayOK
<1>16. WireOK'
  BY <1>1, <1>3, <1>4 DEF WireOK
<1>17. CurrentOK'
  BY <1>1, <1>3, <1>4, <1>12 DEF CurrentOK, FromBefore, OfMessage
<1>18. TxOK'
  <2>1. (TxWorks' <=> TxWorks) /\ NextTx' = NextTx /\ Written' = Written
    BY <1>1, <1>4, <1>12 DEF TxWorks, NextTx, Written
  <2>. QED BY <1>1, <1>3, <1>4, <2>1 DEF TxOK
<1>19. ReadOK' /\ UnreadOK' /\ DoneOK'
  BY <1>1, <1>3, <1>4 DEF ReadOK, Reading, UnreadOK, DoneOK
<1>. QED BY <1>13, <1>14, <1>15, <1>16, <1>17, <1>18, <1>19 DEF DataInv

LEMMA EndKeepsData ==
  ASSUME TransferInv, DataInv, EndTransfer
  PROVE  DataInv'
<1>1. /\ pc = "drain" /\ pc' = "idle" /\ genFifo = <<>> /\ genFifo' = <<>> /\ selected' = selected
  BY DEF EndTransfer, busVars
<1>2. ~selected
  BY <1>1 DEF DataInv, SelectOK
<1>3. ~Busy' /\ ~Waiting' /\ ~Closing' /\ ~Reading' /\ Len(genFifo') = 0 /\ 1..0 = {}
  BY <1>1, EmptySeq DEF Busy, Waiting, Closing, Reading
<1>4. SelectOK'
  BY <1>1, <1>2, <1>3 DEF SelectOK
<1>. QED BY <1>3, <1>4
     DEF DataInv, IndexOK, LayOK, WireOK, CurrentOK, TxOK, ReadOK, UnreadOK, DoneOK
-----------------------------------------------------------------------------
(* The steps of the controller. *)

LEMMA TailIs ==
  ASSUME NEW s \in Seq(EntryType), s # <<>>
  PROVE  \E n \in Nat :
           /\ Len(s) = n + 1 /\ Tail(s) \in Seq(EntryType) /\ Len(Tail(s)) = n
           /\ \A i \in 1..n : i + 1 \in 1..Len(s) /\ Tail(s)[i] = s[i + 1]
           /\ Tail(s) = <<>> <=> n = 0
<1>1. PICK n \in Nat : Len(s) = n + 1
  BY HeadIs
<1>2. Tail(s) \in Seq(EntryType) /\ Len(Tail(s)) = n
      /\ \A i \in 1..n : Tail(s)[i] = s[i + 1]
  BY <1>1, HeadTailProperties
<1>3. \A i \in 1..n : i + 1 \in 1..Len(s)
  BY <1>1
<1>. QED BY <1>1, <1>2, <1>3, EmptySeq

LEMMA WholeEntry ==
  ASSUME NEW e \in EntryType, e.left = 0
  PROVE  (e.kind = "SELECT" <=> e = CSAssert) /\ (e.kind = "DESELECT" <=> e = CSDeAssert)
<1>1. e \in [kind: DataKinds \cup {"SELECT", "DESELECT", "NONE"}, left: Nat]
  BY DEF EntryType
<1>2. e = [kind |-> e.kind, left |-> 0]
  BY <1>1
<1>. QED BY <1>2 DEF CSAssert, CSDeAssert, Entry

LEMMA SomethingQueued ==
  ASSUME TransferInv, DataInv, genFifo # <<>> \/ current.left > 0
  PROVE  Busy
<1>1. pc = "idle" => genFifo = <<>> /\ current.left = 0
  BY DEF TransferInv, QueueOK, EndsIdle
<1>2. pc = "assert" => genFifo = <<>> /\ current.left = 0
  BY DEF DataInv, SelectOK
<1>. QED BY <1>1, <1>2 DEF Busy

LEMMA TakeKeepsData ==
  ASSUME TransferInv, DataInv, TakeEntry
  PROVE  DataInv'
<1>. DEFINE h == Head(genFifo)
<1>1. /\ current.left = 0 /\ started > 0 /\ started' = started - 1
      /\ current' = (IF h.left = 0 THEN NoEntry ELSE h)
      /\ selected' = (CASE h = CSAssert -> TRUE
                        [] h = CSDeAssert -> FALSE
                        [] OTHER -> selected)
      /\ wire' = IF h = CSAssert THEN <<>> ELSE wire
      /\ genFifo' = Tail(genFifo)
      /\ UNCHANGED <<pc, transfer, index, byteCount, rxPtr, readMode, txLeft, rxLeft,
                     txFifo, rxFifo, dma, buffer>>
  BY DEF TakeEntry, transferVars, driverVars
<1>2. IndexOK /\ SelectOK /\ LayOK /\ WireOK /\ CurrentOK /\ TxOK /\ ReadOK /\ UnreadOK /\ DoneOK
  BY DEF DataInv
<1>3. Typed /\ genFifo \in Seq(EntryType) /\ started \in 0..Len(genFifo)
  BY DEF TransferInv, Typed
<1>4. genFifo # <<>>
  <2>. SUFFICES ASSUME genFifo = <<>> PROVE FALSE
    OBVIOUS
  <2>1. Len(genFifo) = 0
    BY EmptySeq
  <2>. QED BY <1>1, <1>3, <2>1
<1>5. PICK n \in Nat :
        /\ Len(genFifo) = n + 1 /\ genFifo' \in Seq(EntryType) /\ Len(genFifo') = n
        /\ \A i \in 1..n : i + 1 \in 1..Len(genFifo) /\ genFifo'[i] = genFifo[i + 1]
        /\ genFifo' = <<>> <=> n = 0
  BY <1>1, <1>3, <1>4, TailIs
<1>6. h = genFifo[1] /\ h \in EntryType /\ 1 \in 1..Len(genFifo)
  BY <1>3, <1>4, HeadIs
<1>7. PICK u \in Nat : u = h.left
  BY <1>6 DEF EntryType
<1>8. /\ Busy /\ Busy' /\ (Past' <=> Past) /\ (InMessage' <=> InMessage) /\ Kind' = Kind
      /\ Base' = Base /\ Asked' = Asked
  BY <1>1, <1>4, SomethingQueued DEF Busy, Past, InMessage, Kind, Base, Asked
<1>9. /\ h.kind = "SELECT" => u = 0
      /\ h.kind = "DESELECT" => u = 0 /\ n = 0 /\ Closing
      /\ u > 0 => InMessage /\ h.kind = Kind
  BY <1>2, <1>5, <1>6, <1>7 DEF SelectOK
<1>10. (Waiting <=> h = CSAssert) /\ (h.kind = "DESELECT" <=> h = CSDeAssert)
  <2>1. h = CSAssert => h.kind = "SELECT" /\ h.left = 0
    BY DEF CSAssert, Entry
  <2>2. h = CSDeAssert => h.kind = "DESELECT" /\ h.left = 0
    BY DEF CSDeAssert, Entry
  <2>. QED BY <1>4, <1>6, <1>7, <1>9, <2>1, <2>2, WholeEntry DEF Waiting
<1>. HIDE DEF h
<1>11. ~Waiting'
  <2>. SUFFICES ASSUME Waiting' PROVE FALSE
    OBVIOUS
  <2>1. genFifo' # <<>> /\ Head(genFifo') = genFifo'[1] /\ genFifo'[1].kind = "SELECT"
    BY <1>5, HeadIs DEF Waiting
  <2>2. 1 \in 1..n
    BY <1>5, <2>1
  <2>3. genFifo[1 + 1].kind = "SELECT" /\ 1 + 1 \in 1..Len(genFifo) /\ 1 + 1 # 1
    BY <1>5, <2>1, <2>2
  <2>. QED BY <1>2, <2>3 DEF SelectOK
<1>12. Clocked' = Clocked
  <2>1. CASE Waiting
    <3>1. wire' = <<>> /\ Len(wire') = 0
      BY <1>1, <1>10, <2>1, EmptySeq
    <3>. QED BY <1>11, <2>1, <3>1 DEF Clocked
  <2>2. CASE ~Waiting
    BY <1>1, <1>10, <1>11, <2>2 DEF Clocked
  <2>. QED BY <2>1, <2>2
<1>13. Come' = Come /\ Reach' = Reach
  BY <1>1, <1>8, <1>12 DEF Come, Reach
<1>14. PICK x, c, a, r \in Nat :
         x = Base /\ c = Clocked /\ r = Reach /\ c = x + a /\ Lay(genFifo, a, r)
  <2>1. PICK x, m, l, c, r, a \in Nat :
         /\ x = Base /\ m = Len(Traffic(transfer)) /\ l = current.left
         /\ c = Clocked /\ r = Reach
         /\ c + l = x + a /\ Lay(genFifo, a, r)
    BY <1>2, <1>3, <1>8, Positions
  <2>2. c = x + a
    BY <1>1, <2>1
  <2>. QED BY <2>1, <2>2
<1>15. Lay(genFifo', a + u, r)
  BY <1>1, <1>3, <1>4, <1>7, <1>14, LayTail DEF h
<1>16. a + u <= r /\ (a % 4 = 0 \/ a = r)
  BY <1>3, <1>5, <1>14, <1>15, LayBounds
<1>17. current'.left = u /\ (u > 0 => current'.kind = Kind)
  BY <1>1, <1>7, <1>9 DEF NoEntry
<1>18. Closing' <=> Closing /\ n > 0
  <2>1. pc = "start" /\ Past => n > 0
    <3>. SUFFICES ASSUME pc = "start", Past PROVE n > 0
      OBVIOUS
    <3>1. started < Len(genFifo)
      BY <1>2 DEF SelectOK
    <3>. QED BY <1>1, <1>3, <1>5, <3>1
  <2>. QED BY <1>1, <1>4, <1>5, <1>8, <2>1 DEF Closing
<1>19. SelectOK'
  <2>1. ASSUME NEW i \in 1..Len(genFifo')
        PROVE  /\ genFifo'[i].kind # "SELECT"
               /\ genFifo'[i].kind = "DESELECT" =>
                    i = Len(genFifo') /\ genFifo'[i].left = 0 /\ Closing'
               /\ genFifo'[i].left > 0 => InMessage' /\ genFifo'[i].kind = Kind'
    <3>1. PICK j \in 1..Len(genFifo) : j = i + 1 /\ genFifo'[i] = genFifo[j]
      BY <1>5
    <3>2. j # 1 /\ (j = Len(genFifo) => i = Len(genFifo')) /\ n > 0
      BY <1>5, <3>1
    <3>. QED BY <1>2, <1>8, <1>18, <3>1, <3>2 DEF SelectOK
  <2>2. Closing' => genFifo' # <<>> /\ genFifo'[Len(genFifo')].kind = "DESELECT"
    <3>. SUFFICES ASSUME Closing' PROVE genFifo' # <<>> /\ genFifo'[n].kind = "DESELECT"
      BY <1>5
    <3>1. n \in 1..n /\ genFifo[n + 1].kind = "DESELECT"
      BY <1>2, <1>5, <1>18 DEF SelectOK
    <3>. QED BY <1>5, <3>1
  <2>3. pc' = "start" /\ Past' => started' < Len(genFifo')
    <3>. SUFFICES ASSUME pc = "start", Past PROVE started' < n
      BY <1>1, <1>5, <1>8
    <3>1. started < Len(genFifo)
      BY <1>2 DEF SelectOK
    <3>. QED BY <1>1, <1>3, <1>5, <3>1
  <2>4. selected' <=> ~(pc = "drain" /\ genFifo' = <<>>)
    <3>1. CASE h = CSAssert
      <4>1. ~Past /\ pc # "drain"
        BY <1>2, <1>8, <1>10, <3>1 DEF SelectOK, IndexOK
      <4>2. h # CSDeAssert
        BY <3>1 DEF CSAssert, CSDeAssert, Entry
      <4>3. selected'
        BY <1>1, <3>1, <4>2
      <4>. QED BY <4>1, <4>3
    <3>2. CASE h = CSDeAssert
      <4>1. h # CSAssert
        BY <3>2 DEF CSAssert, CSDeAssert, Entry
      <4>2. ~selected'
        BY <1>1, <3>2, <4>1
      <4>3. n = 0 /\ Closing
        BY <1>9, <1>10, <3>2
      <4>4. ~(pc = "start" /\ Past)
        BY <1>1, <1>8, <1>18, <4>3 DEF Closing
      <4>. QED BY <1>5, <4>2, <4>3, <4>4 DEF Closing
    <3>3. CASE h # CSAssert /\ h # CSDeAssert
      <4>1. selected' <=> selected
        BY <1>1, <3>3
      <4>2. selected
        BY <1>2, <1>4, <1>8, <1>10, <3>3 DEF SelectOK, Busy
      <4>3. ASSUME pc = "drain", genFifo' = <<>> PROVE FALSE
        <5>1. Closing /\ Len(genFifo) = 1
          BY <1>4, <1>5, <4>3 DEF Closing
        <5>2. h.kind = "DESELECT"
          BY <1>2, <1>6, <5>1 DEF SelectOK
        <5>. QED BY <1>10, <3>3, <5>2
      <4>. QED BY <4>1, <4>2, <4>3
    <3>. QED BY <3>1, <3>2, <3>3
  <2>. QED BY <1>1, <1>8, <1>11, <2>1, <2>2, <2>3, <2>4 DEF SelectOK, Busy
<1>20. IndexOK'
  BY <1>1, <1>2, <1>8 DEF IndexOK
<1>21. LayOK'
  <2>1. a + u \in Nat /\ Clocked' + current'.left = Base' + (a + u)
    BY <1>8, <1>12, <1>14, <1>17
  <2>. QED BY <1>13, <1>14, <1>15, <2>1 DEF LayOK
<1>22. WireOK'
  <2>1. transfer \in Transfers /\ Len(Traffic(transfer)) \in Nat /\ Traffic(transfer) \in Seq(Bytes)
    BY <1>2, <1>3, <1>8, BaseIs, FirstPlace
  <2>2. CASE Waiting
    <3>1. wire' = <<>> /\ Len(<<>>) = 0
      BY <1>1, <1>10, <2>2, EmptySeq
    <3>2. SubSeq(Traffic(transfer), 1, 0) = <<>> /\ 0 \in 0..Len(Traffic(transfer))
      BY <2>1, SubSeqEmpty
    <3>. QED BY <1>1, <3>1, <3>2 DEF WireOK
  <2>3. CASE ~Waiting
    <3>1. wire' = wire
      BY <1>1, <1>10, <2>3
    <3>. QED BY <1>1, <1>2, <1>8, <2>3, <3>1 DEF WireOK
  <2>. QED BY <2>2, <2>3
<1>23. CurrentOK'
  <2>. SUFFICES ASSUME u > 0 PROVE OfMessage'
    BY <1>17 DEF CurrentOK
  <2>1. c >= x /\ c - x = a /\ a % 4 = 0
    BY <1>14, <1>16
  <2>2. Clocked' >= Base' /\ (Clocked' - Base') % 4 = 0
    BY <1>8, <1>12, <1>14, <2>1
  <2>. QED BY <1>8, <1>9, <1>17, <2>2 DEF OfMessage
<1>24. TxOK'
  <2>1. (Sends' <=> Sends) /\ (TxWorks <=> Sends) /\ (TxWorks' <=> Sends)
    BY <1>1, <1>7, <1>8, <1>9, <1>17 DEF Sends, TxWorks
  <2>2. Sends => NextTx' = NextTx /\ Written' = Written
    <3>. SUFFICES ASSUME Sends PROVE NextTx' = NextTx /\ Written' = Written
      OBVIOUS
    <3>1. NextTx = c
      BY <1>1, <1>14 DEF NextTx
    <3>2. NextTx' = c
      BY <1>12, <1>14, <1>17 DEF NextTx, Sends
    <3>. QED BY <1>1, <1>8, <2>1, <3>1, <3>2 DEF Written
  <2>. QED BY <1>1, <1>2, <1>8, <2>1, <2>2 DEF TxOK
<1>25. ReadOK' /\ UnreadOK' /\ DoneOK'
  <2>1. Got' = Got /\ (Reading' <=> Reading)
    BY <1>1, <1>8 DEF Got, Reading
  <2>. QED BY <1>1, <1>2, <1>8, <1>13, <2>1 DEF ReadOK, UnreadOK, DoneOK
<1>. QED BY <1>19, <1>20, <1>21, <1>22, <1>23, <1>24, <1>25 DEF DataInv
-----------------------------------------------------------------------------
(* The entry in work is at byte q of message j, which is the one in work or the one
   before, and its next n bytes are of that message. *)
AtWorkOn(j, p, q, l, n) ==
  /\ j \in 1..Len(transfer) /\ transfer[j].kind = current.kind
  /\ p = Clocked /\ p = Begins(transfer)[j - 1] + q /\ q % 4 = 0
  /\ l = current.left /\ n = MinOf(4, l) /\ n > 0 /\ n <= l /\ n <= 4
  /\ l > n => n = 4
  /\ q + n <= transfer[j].count
  /\ current.kind = "TX" => MinOf(q + 4, transfer[j].count) = q + n

LEMMA AtWorkIs ==
  ASSUME TransferInv, DataInv, current.left > 0
  PROVE  /\ Busy /\ ~Waiting /\ selected
         /\ \E j, p, q, l, n \in Nat : AtWorkOn(j, p, q, l, n)
<1>1. IndexOK /\ SelectOK /\ LayOK /\ WireOK /\ CurrentOK
  BY DEF DataInv
<1>3. Busy /\ ~Waiting
  BY <1>1, SomethingQueued DEF SelectOK
<1>4. selected
  <2>1. pc = "drain" /\ genFifo = <<>> => current.left = 0
    BY DEF TransferInv, QueueOK, EndsIdle
  <2>. QED BY <1>1, <1>3, <2>1 DEF SelectOK, Busy
<1>5. Typed /\ transfer \in Transfers /\ index \in Nat \ {0} /\ Len(transfer) \in Nat \ {0}
  <2>1. Typed /\ transfer \in Transfers /\ index \in Nat \ {0}
    BY <1>3 DEF TransferInv, Typed, Busy
  <2>. QED BY <2>1, TransferLength
<1>6. PICK x, m, l, c, r, a \in Nat :
           /\ x = Base /\ m = Len(Traffic(transfer)) /\ l = current.left
           /\ c = Clocked /\ r = Reach
           /\ c + l = x + a /\ Lay(genFifo, a, r) /\ a <= r /\ (a % 4 = 0 \/ a = r)
           /\ x <= m /\ c <= m /\ (Past => r = 0) /\ (~Past => r <= Asked)
  BY <1>1, <1>3, <1>5, Positions
<1>7. PICK n \in Nat : n = MinOf(4, l) /\ n > 0 /\ n <= l /\ n <= 4 /\ (l > n => n = 4)
                       /\ (n # 4 => n = l)
  <2>1. l \in Nat /\ l > 0
    BY <1>6
  <2>2. CASE 4 < l
    BY <2>1, <2>2 DEF MinOf
  <2>3. CASE ~ 4 < l
    BY <2>1, <2>3 DEF MinOf
  <2>. QED BY <2>2, <2>3
<1>8. CASE FromBefore
  <2>1. /\ index > 1 /\ c + l = x /\ current.kind = transfer[index - 1].kind
        /\ l <= transfer[index - 1].count /\ (transfer[index - 1].count - l) % 4 = 0
    BY <1>6, <1>8 DEF FromBefore
  <2>2. PICK j \in 1..Len(transfer) : j = index - 1
    BY <1>1, <1>3, <1>5, <2>1 DEF IndexOK
  <2>3. PICK y, k \in Nat : y = Begins(transfer)[j - 1] /\ k = transfer[j].count
                            /\ Begins(transfer)[j] = y + k
    BY <1>5, MessagePlace, ZenonT(40)
  <2>4. x = y + k /\ l <= k /\ (k - l) % 4 = 0
    BY <1>6, <2>1, <2>2, <2>3 DEF Base
  <2>5. PICK q \in Nat : q = k - l /\ q % 4 = 0
    <3>1. k - l \in Nat
      BY <2>4
    <3>. QED BY Zenon, <2>4, <3>1
  <2>6. c = y + q /\ q + n <= k
    <3>1. k = q + l /\ c + l = y + k
      BY <2>1, <2>4, <2>5
    <3>. QED BY <1>7, <3>1
  <2>7. MinOf(q + 4, k) = q + n
    BY <1>7, <2>4, <2>5 DEF MinOf
  <2>8. AtWorkOn(j, c, q, l, n)
    BY <1>6, <1>7, <2>1, <2>2, <2>3, <2>5, <2>6, <2>7 DEF AtWorkOn
  <2>. QED BY <1>3, <1>4, <2>2, <2>8
<1>9. CASE OfMessage
  <2>1. InMessage /\ c >= x /\ (c - x) % 4 = 0 /\ current.kind = Kind
    BY <1>6, <1>9 DEF OfMessage
  <2>2. index \in 1..Len(transfer) /\ ~Past /\ pc # "prepare"
    BY <1>5, <2>1, InTransfer DEF InMessage, Past
  <2>3. PICK k \in Nat : k = Asked /\ k = transfer[index].count
    BY <1>1, <1>3, <1>5, <2>2, MessageIs DEF Asked
  <2>4. PICK q \in Nat : q = c - x /\ q % 4 = 0
    <3>1. c - x \in Nat
      BY <2>1
    <3>. QED BY Zenon, <2>1, <3>1
  <2>5. c = x + q /\ q + l = a /\ q % 4 = 0 /\ a <= r /\ r <= k
    <3>1. c = x + q
      BY <2>1, <2>4
    <3>2. q + l = a
      BY <1>6, <3>1, SMTT(30)
    <3>. QED BY <1>6, <2>2, <2>3, <2>4, <3>1, <3>2
  <2>6. q + n <= k
    BY <1>7, <2>5
  <2>7. current.kind = "TX" => r = k
    BY <1>6, <2>1, <2>2, <2>3 DEF Reach
  <2>8. current.kind = "TX" => MinOf(q + 4, k) = q + n
    <3>1. CASE n = 4
      BY <2>6, <3>1 DEF MinOf
    <3>2. CASE n # 4
      <4>1. n = l /\ l \in 1..3
        BY <1>7, <3>2
      <4>2. a % 4 # 0
        BY <2>5, <4>1
      <4>3. a = r
        BY <1>6, <4>2
      <4>. QED BY <2>5, <2>7, <4>1, <4>3 DEF MinOf
    <3>. QED BY <3>1, <3>2
  <2>9. transfer[index].kind = current.kind
    BY <2>1 DEF Kind
  <2>10. AtWorkOn(index, c, q, l, n)
    BY <1>6, <1>7, <2>2, <2>3, <2>5, <2>6, <2>8, <2>9 DEF AtWorkOn, Base
  <2>. QED BY <1>3, <1>4, <1>5, <2>10
<1>. QED BY <1>1, <1>3, <1>8, <1>9 DEF CurrentOK

(* A word that is sent is the next one of the traffic. *)
LEMMA NextWordSent ==
  ASSUME TransferInv, DataInv, current.kind = "TX", NEW j, NEW p \in Nat, NEW q \in Nat,
         NEW l \in Nat, NEW n \in Nat, AtWorkOn(j, p, q, l, n), txFifo # <<>>
  PROVE  /\ Head(txFifo).index = j /\ Head(txFifo).from = q
         /\ Chain(transfer, Tail(txFifo), p + n, Written)
<1>. DEFINE w == Head(txFifo)
<1>1. /\ Typed /\ IsSequence(txFifo) /\ current.left > 0 /\ Busy
      /\ transfer \in Transfers
  <2>1. current.left > 0
    BY DEF AtWorkOn
  <2>2. Busy
    BY <2>1, SomethingQueued
  <2>. QED BY <2>1, <2>2 DEF TransferInv, Typed, Busy
<1>2. Chain(transfer, txFifo, p, Written)
  BY <1>1 DEF DataInv, TxOK, TxWorks, NextTx, AtWorkOn
<1>3. IsWord(transfer, w) /\ Place(transfer, w) = p
      /\ Chain(transfer, Tail(txFifo), After(transfer, w), Written)
  BY <1>1, <1>2, ChainTail
<1>. HIDE DEF w
<1>4. PICK i \in 1..Len(transfer), y \in Nat :
        i = w.index /\ y = w.from /\ y < transfer[i].count /\ Begins(transfer)[i - 1] + y = p
  BY <1>3 DEF IsWord, Place
<1>5. j \in 1..Len(transfer) /\ q < transfer[j].count /\ Begins(transfer)[j - 1] + q = p
  <2>1. PICK k \in Nat : k = transfer[j].count /\ j \in 1..Len(transfer)
    BY <1>1, MessagePlace DEF AtWorkOn
  <2>2. q + n <= k /\ n > 0
    BY <2>1 DEF AtWorkOn
  <2>3. q < k
    BY <2>1, <2>2
  <2>. QED BY <2>1, <2>3 DEF AtWorkOn
<1>6. i = j /\ y = q
  BY <1>1, <1>4, <1>5, OnePlace
<1>7. After(transfer, w) = p + n
  <2>1. PICK b, k \in Nat : b = Begins(transfer)[j - 1] /\ k = transfer[j].count
    BY <1>1, <1>5, MessagePlace
  <2>2. After(transfer, w) = b + MinOf(q + 4, k)
    BY <1>4, <1>6, <2>1 DEF After
  <2>3. MinOf(q + 4, k) = q + n /\ p = b + q
    BY <2>1 DEF AtWorkOn
  <2>. QED BY <2>1, <2>2, <2>3
<1>. QED BY <1>3, <1>4, <1>6, <1>7 DEF w

(* The bytes that pass are the next ones of the traffic. *)
LEMMA WireGoesOn ==
  ASSUME TransferInv, DataInv, ClockWord, NEW j, NEW p \in Nat, NEW q \in Nat,
         NEW l \in Nat, NEW n \in Nat, AtWorkOn(j, p, q, l, n)
  PROVE  /\ wire = SubSeq(Traffic(transfer), 1, p) /\ Len(wire) = p
         /\ wire' = SubSeq(Traffic(transfer), 1, p + n) /\ Len(wire') = p + n
         /\ p + n <= Len(Traffic(transfer))
         /\ current.kind = "RX" => rxFifo' = Append(rxFifo, [from |-> q + 1, count |-> n])
<1>. DEFINE T == Traffic(transfer)
<1>1. current.left > 0 /\ n = MinOf(4, current.left)
  BY DEF AtWorkOn, ClockWord
<1>2. Busy /\ ~Waiting /\ Typed /\ transfer \in Transfers /\ IndexOK /\ WireOK
  <2>1. Busy /\ ~Waiting
    BY <1>1, AtWorkIs
  <2>. QED BY <2>1 DEF TransferInv, Typed, Busy, DataInv
<1>3. wire = SubSeq(T, 1, p) /\ Len(wire) = p /\ p \in 0..Len(T)
  <2>1. PICK c \in 0..Len(T) : c = Clocked /\ wire = SubSeq(T, 1, c) /\ Len(wire) = c
    BY <1>2, ClockedIs
  <2>. QED BY <2>1 DEF AtWorkOn
<1>4. T \in Seq(Bytes) /\ Len(T) \in Nat
  BY <1>2, FirstPlace
<1>5. PICK b, k \in Nat :
        /\ b = Begins(transfer)[j - 1] /\ k = transfer[j].count /\ b + k <= Len(T)
        /\ j \in 1..Len(transfer)
  <2>1. j \in 1..Len(transfer) /\ transfer \in Transfers
    BY <1>2 DEF AtWorkOn
  <2>2. PICK b \in Nat, k \in Nat \ {0} :
          /\ b = Begins(transfer)[j - 1] /\ k = transfer[j].count
          /\ b + k <= Len(Traffic(transfer))
    BY <2>1, MessagePlace
  <2>. QED BY <2>1, <2>2
<1>6. p = b + q /\ q + n <= k /\ p + n <= Len(T) /\ transfer[j].kind = current.kind
      /\ n > 0 /\ n <= 4
  <2>1. p = b + q /\ q + n <= k /\ transfer[j].kind = current.kind /\ n > 0 /\ n <= 4
    BY <1>5 DEF AtWorkOn
  <2>2. b + k <= Len(T) /\ Len(T) \in Nat
    BY <1>4, <1>5
  <2>3. p = b + q /\ q + n <= k
    BY <2>1
  <2>4. PICK last \in Nat : last = Len(T) /\ b + k <= last
    BY <2>2
  <2>. HIDE DEF T
  <2>5. p + n <= last
    BY <2>3, <2>4
  <2>. QED BY <2>1, <2>4, <2>5
<1>7. ASSUME NEW i \in 1..n
      PROVE  /\ current.kind = "TX" => T[p + i] = <<"TX", j, q + i>>
             /\ current.kind = "DUMMY" => T[p + i] = <<"DUMMY", 0, 0>>
             /\ current.kind = "RX" => T[p + i] = <<"RX", 0, q + i>>
  <2>1. q + i \in 1..k /\ b + (q + i) = p + i
    <3>1. i \in Nat /\ 1 <= i /\ i <= n
      OBVIOUS
    <3>2. q + i <= k /\ 1 <= q + i
      BY <1>6, <3>1
    <3>3. b + (q + i) = p + i
      BY <1>6, <3>1
    <3>. QED BY <3>1, <3>2, <3>3
  <2>. QED BY <1>2, <1>5, <1>6, <2>1, BytesOfMessage
<1>. HIDE DEF T
<1>8. ASSUME NEW e, e = [i \in 1..n |-> e[i]],
             \A i \in 1..n : e[i] = T[p + i], wire' = wire \o e
      PROVE  wire' = SubSeq(T, 1, p + n) /\ Len(wire') = p + n
  <2>1. wire' = SubSeq(T, 1, p + n)
    <3>1. Follow(transfer, p, n, e)
      BY Zenon, <1>6, <1>8 DEF Follow, T
    <3>2. SubSeq(Traffic(transfer), 1, p) \o e = SubSeq(Traffic(transfer), 1, p + n)
      BY <1>2, <3>1, TrafficExtended
    <3>. QED BY Zenon, <1>3, <1>8, <3>2 DEF T
  <2>2. Len(SubSeq(T, 1, p + n)) = p + n
    <3>1. PICK z \in Int : z = p + n
      OBVIOUS
    <3>2. \A i \in 1..z : T[i] \in Bytes
      BY <1>4, <1>6, <3>1, ElementOfSeq
    <3>3. Len(SubSeq(T, 1, z)) = IF 1 <= z THEN z - 1 + 1 ELSE 0
      BY <3>2, SubSeqProperties
    <3>. QED BY <1>6, <3>1, <3>3
  <2>. QED BY <2>1, <2>2
<1>9. CASE current.kind = "TX"
  <2>. DEFINE e == [i \in 1..n |-> <<"TX", Head(txFifo).index, Head(txFifo).from + i>>]
  <2>1. txFifo # <<>> /\ wire' = wire \o e
    BY <1>1, <1>9 DEF ClockWord
  <2>2. Head(txFifo).index = j /\ Head(txFifo).from = q
    BY <1>9, <2>1, NextWordSent
  <2>3. \A i \in 1..n : e[i] = T[p + i]
    BY <1>7, <1>9, <2>2
  <2>4. e = [i \in 1..n |-> e[i]]
    OBVIOUS
  <2>. HIDE DEF e
  <2>. QED BY <1>3, <1>6, <1>8, <1>9, <2>1, <2>3, <2>4 DEF T
<1>10. CASE current.kind = "DUMMY"
  <2>. DEFINE e == [i \in 1..n |-> <<"DUMMY", 0, 0>>]
  <2>1. wire' = wire \o e
    BY <1>1, <1>10 DEF ClockWord
  <2>2. \A i \in 1..n : e[i] = T[p + i]
    BY <1>7, <1>10
  <2>3. e = [i \in 1..n |-> e[i]]
    OBVIOUS
  <2>. HIDE DEF e
  <2>. QED BY <1>3, <1>6, <1>8, <1>10, <2>1, <2>2, <2>3 DEF T
<1>11. CASE current.kind = "RX"
  <2>. DEFINE e == [i \in 1..n |-> <<"RX", 0, FlashByte + i - 1>>]
  <2>1. wire' = wire \o e /\ rxFifo' = Append(rxFifo, [from |-> FlashByte, count |-> n])
    BY <1>1, <1>11 DEF ClockWord
  <2>2. FlashByte = q + 1
    <3>1. j = Len(transfer)
      <4>1. j \in DOMAIN transfer
        BY <1>2, <1>5, TransferLength
      <4>. QED BY <1>2, <1>6, <1>11, <4>1, TransfersAssumption
    <3>2. ReadBegins(transfer) = b /\ transfer[Len(transfer)].kind = "RX"
      BY <1>5, <1>6, <1>11, <3>1 DEF ReadBegins
    <3>3. Cardinality({i \in DOMAIN wire : IsReceived(wire[i])})
          = IF transfer[Len(transfer)].kind = "RX" /\ p > ReadBegins(transfer)
            THEN p - ReadBegins(transfer) ELSE 0
      BY <1>2, <1>3, ReceivedIs DEF T
    <3>4. Cardinality({i \in DOMAIN wire : IsReceived(wire[i])}) = q
      BY <1>5, <1>6, <3>2, <3>3, SMTT(30)
    <3>. QED BY <3>4 DEF FlashByte
  <2>3. \A i \in 1..n : e[i] = T[p + i]
    <3>1. \A i \in 1..n : q + 1 + i - 1 = q + i
      OBVIOUS
    <3>. QED BY <1>7, <1>11, <2>2, <3>1
  <2>4. e = [i \in 1..n |-> e[i]]
    OBVIOUS
  <2>. HIDE DEF e
  <2>. QED BY <1>3, <1>6, <1>8, <1>11, <2>1, <2>2, <2>3, <2>4 DEF T
<1>12. current.kind \in DataKinds
  BY <1>1, <1>2 DEF Typed, EntryType
<1>. QED BY <1>9, <1>10, <1>11, <1>12 DEF DataKinds
-----------------------------------------------------------------------------
LEMMA ClockKeepsData ==
  ASSUME TransferInv, DataInv, ClockWord
  PROVE  DataInv'
<1>1. /\ current.left > 0
      /\ current' = [current EXCEPT !.left = current.left - MinOf(4, current.left)]
      /\ UNCHANGED <<pc, transfer, index, byteCount, rxPtr, readMode, txLeft, rxLeft,
                     genFifo, started, selected, dma, buffer>>
      /\ current.kind = "TX" => txFifo # <<>> /\ txFifo' = Tail(txFifo) /\ rxFifo' = rxFifo
      /\ current.kind = "DUMMY" => txFifo' = txFifo /\ rxFifo' = rxFifo
      /\ current.kind = "RX" => txFifo' = txFifo
  BY DEF ClockWord, transferVars, driverVars
<1>2. IndexOK /\ SelectOK /\ LayOK /\ WireOK /\ CurrentOK /\ TxOK /\ ReadOK /\ UnreadOK /\ DoneOK
  BY DEF DataInv
<1>3. Busy /\ ~Waiting /\ \E j, p, q, l, n \in Nat : AtWorkOn(j, p, q, l, n)
  BY <1>1, AtWorkIs
<1>4. PICK j, p, q, l, n \in Nat : AtWorkOn(j, p, q, l, n)
  BY <1>3
<1>5. /\ Typed /\ current \in EntryType /\ transfer \in Transfers /\ index \in Nat \ {0}
      /\ current.kind \in DataKinds /\ IsSequence(txFifo) /\ IsSequence(rxFifo)
      /\ Len(transfer) \in Nat \ {0}
  BY <1>1, <1>3, TransferLength DEF TransferInv, Typed, Busy, EntryType
<1>6. /\ j \in 1..Len(transfer) /\ transfer[j].kind = current.kind
      /\ p = Clocked /\ p = Begins(transfer)[j - 1] + q /\ q % 4 = 0
      /\ l = current.left /\ n = MinOf(4, l) /\ n > 0 /\ n <= l /\ n <= 4
      /\ l > n => n = 4
      /\ q + n <= transfer[j].count
  BY <1>4 DEF AtWorkOn
<1>7. /\ wire' = SubSeq(Traffic(transfer), 1, p + n) /\ Len(wire') = p + n
      /\ p + n <= Len(Traffic(transfer)) /\ Len(Traffic(transfer)) \in Nat
      /\ current.kind = "RX" => rxFifo' = Append(rxFifo, [from |-> q + 1, count |-> n])
  <2>1. Traffic(transfer) \in Seq(Bytes) /\ Len(Traffic(transfer)) \in Nat
    BY <1>5, FirstPlace
  <2>. QED BY <1>4, <2>1, WireGoesOn
<1>8. PICK m \in Nat : m + n = l /\ current'.left = m /\ current'.kind = current.kind
  <2>1. current'.left = l - n /\ current'.kind = current.kind
    BY <1>1, <1>5, <1>6 DEF EntryType
  <2>2. l - n \in Nat /\ (l - n) + n = l
    BY <1>6
  <2>. QED BY <2>1, <2>2
<1>9. /\ Busy' /\ ~Waiting' /\ (Past' <=> Past) /\ (InMessage' <=> InMessage) /\ Kind' = Kind
      /\ Base' = Base /\ Asked' = Asked /\ Reach' = Reach /\ Got' = Got
      /\ (Closing' <=> Closing) /\ (Sends' <=> Sends) /\ (Reading' <=> Reading)
  <2>1. /\ Busy' /\ ~Waiting' /\ (Past' <=> Past) /\ (InMessage' <=> InMessage) /\ Kind' = Kind
        /\ Base' = Base /\ Asked' = Asked /\ Got' = Got
    BY <1>1, <1>3 DEF Busy, Waiting, Past, InMessage, Kind, Base, Asked, Got
  <2>2. Reach' = Reach
    BY <1>1, <2>1 DEF Reach
  <2>. QED BY <1>1, <1>3, <2>1, <2>2 DEF Closing, Sends, Reading
<1>10. Clocked' = p + n
  BY <1>7, <1>9 DEF Clocked
<1>11. PICK x, a \in Nat : x = Base /\ p + l = x + a /\ Lay(genFifo, a, Reach)
  <2>1. PICK x \in Nat : x = Base
    BY <1>2, <1>3, <1>5, BaseIs
  <2>. QED BY <1>2, <1>3, <1>6, <2>1 DEF LayOK
<1>12. IndexOK'
  BY <1>1, <1>2, <1>3, <1>9 DEF IndexOK
<1>13. SelectOK'
  <2>1. pc # "assert" /\ current.left # 0
    BY <1>1, <1>3 DEF Busy
  <2>. QED BY <1>1, <1>2, <1>3, <1>9, <2>1 DEF SelectOK
<1>14. LayOK'
  <2>1. p + n + m = x + a
    BY <1>8, <1>11
  <2>. QED BY <1>1, <1>8, <1>9, <1>10, <1>11, <2>1 DEF LayOK
<1>15. WireOK'
  <2>1. p + n \in 0..Len(Traffic(transfer))
    BY <1>7
  <2>. QED BY <1>1, <1>7, <2>1 DEF WireOK
<1>16. ASSUME FromBefore
       PROVE  index > 1 /\ p + l = x /\ current.kind = transfer[index - 1].kind
              /\ current.kind # "RX" /\ l <= transfer[index - 1].count
              /\ (transfer[index - 1].count - l) % 4 = 0
  BY <1>6, <1>11, <1>16 DEF FromBefore
<1>17. ASSUME OfMessage
       PROVE  InMessage /\ current.kind = Kind /\ p >= x /\ (p - x) % 4 = 0
  BY <1>6, <1>11, <1>17 DEF OfMessage
<1>18. FromBefore \/ OfMessage
  BY <1>1, <1>2, <1>3 DEF CurrentOK
<1>19. CurrentOK'
  <2>. SUFFICES ASSUME m > 0 PROVE FromBefore' \/ OfMessage'
    BY <1>8 DEF CurrentOK
  <2>1. n = 4
    BY <1>6, <1>8
  <2>2. CASE FromBefore
    <3>1. PICK c \in Nat : c = transfer[index - 1].count
      <4>1. index - 1 \in Nat \ {0} /\ index - 1 <= Len(transfer)
        BY <1>2, <1>3, <1>5, <1>16, <2>2 DEF IndexOK
      <4>. QED BY <1>5, <4>1, MessageType
    <3>2. m <= c /\ (c - m) % 4 = 0 /\ p + n + m = x
      BY <1>8, <1>16, <2>1, <2>2, <3>1
    <3>3. FromBefore'
      BY <1>1, <1>8, <1>9, <1>10, <1>11, <1>16, <2>2, <3>1, <3>2 DEF FromBefore
    <3>. QED BY <3>3
  <2>3. CASE OfMessage
    <3>1. p + n >= x /\ (p + n - x) % 4 = 0
      BY <1>17, <2>1, <2>3
    <3>2. OfMessage'
      BY <1>8, <1>9, <1>10, <1>11, <1>17, <2>3, <3>1 DEF OfMessage
    <3>. QED BY <3>2
  <2>. QED BY <1>18, <2>2, <2>3
<1>20. TxOK'
  <2>1. Written' = Written
    BY <1>1, <1>9 DEF Written
  <2>2. CASE current.kind = "TX"
    <3>1. TxWorks /\ NextTx' = p + n
      BY <1>1, <1>8, <1>10, <2>2 DEF TxWorks, NextTx
    <3>2. txFifo # <<>>
      BY <1>1, <2>2
    <3>3. Chain(transfer, Tail(txFifo), p + n, Written)
      BY <1>4, <2>2, <3>2, NextWordSent
    <3>4. Chain(transfer', txFifo', NextTx', Written')
      BY <1>1, <2>1, <2>2, <3>1, <3>3
    <3>5. ASSUME ~TxWorks' PROVE txFifo' = <<>>
      <4>1. m = 0 /\ ~Sends
        BY <1>8, <1>9, <2>2, <3>5 DEF TxWorks
      <4>2. ~OfMessage
        BY <1>17, <2>2, <4>1 DEF Sends
      <4>3. p + n = x
        BY <1>8, <1>16, <1>18, <4>1, <4>2
      <4>4. Written = x
        BY <1>11, <4>1 DEF Written
      <4>5. Chain(transfer, Tail(txFifo), x, x) /\ IsSequence(Tail(txFifo))
        BY <1>5, <3>2, <3>3, <4>3, <4>4, OneTaken
      <4>6. Tail(txFifo) = <<>>
        BY <1>5, <4>5, ChainEmpty
      <4>. QED BY <1>1, <2>2, <4>6
    <3>. QED BY <1>1, <1>2, <1>3, <1>9, <3>4, <3>5 DEF TxOK
  <2>3. CASE current.kind # "TX"
    <3>1. txFifo' = txFifo
      BY <1>1, <1>5, <2>3 DEF DataKinds
    <3>2. TxWorks' <=> TxWorks
      BY <1>8, <1>9, <2>3 DEF TxWorks
    <3>3. NextTx' = NextTx
      <4>1. NextTx' = p + n + m
        BY <1>8, <1>10, <2>3 DEF NextTx
      <4>2. NextTx = p + l
        BY <1>6, <2>3 DEF NextTx
      <4>. QED BY <1>8, <4>1, <4>2
    <3>. QED BY <1>1, <1>2, <1>3, <1>9, <2>1, <3>1, <3>2, <3>3 DEF TxOK
  <2>. QED BY <2>2, <2>3
<1>21. ReadOK'
  <2>. SUFFICES ASSUME Reading PROVE ReadOK'
    BY <1>9 DEF ReadOK
  <2>1. ~Past /\ Kind = "RX"
    BY DEF Reading
  <2>2. PICK d \in Nat : d = Asked /\ index = Len(transfer) /\ index \in 1..Len(transfer)
    BY <1>2, <1>3, <1>5, <2>1, MessageIs
  <2>3. CASE current.kind = "RX"
    <3>1. InMessage /\ pc # "prepare"
      BY <1>16, <1>17, <1>18, <2>3 DEF InMessage
    <3>2. j = index
      <4>1. j \in DOMAIN transfer
        BY <1>5, <1>6, TransferLength
      <4>. QED BY <1>5, <1>6, <2>2, <2>3, <4>1, TransfersAssumption
    <3>3. p = x + q /\ q + n <= d
      BY <1>6, <1>11, <2>2, <3>2 DEF Base, Asked
    <3>4. Come = q
      <4>1. Come = IF p >= x THEN p - x ELSE 0
        BY <1>6, <1>11 DEF Come
      <4>. QED BY <3>3, <4>1
    <3>5. Come' = q + n
      <4>1. Come' = IF p + n >= x THEN p + n - x ELSE 0
        BY <1>9, <1>10, <1>11 DEF Come
      <4>. QED BY <3>3, <4>1
    <3>6. PICK g \in Nat : g = Got
      BY <1>5 DEF Got, Typed
    <3>7. g <= q /\ (g % 4 = 0 \/ g = d) /\ Holds(rxFifo, g, q)
      BY <1>2, <2>2, <3>4, <3>6 DEF ReadOK
    <3>8. (q - g) % 4 = 0 /\ g <= q + n /\ n \in 1..4
      <4>1. g # d
        BY <1>6, <3>3, <3>7
      <4>2. q % 4 = 0 /\ g % 4 = 0 /\ g <= q
        BY <1>6, <3>7, <4>1
      <4>3. (q - g) % 4 = 0
        BY <4>2
      <4>4. n > 0 /\ n <= 4
        BY <1>6
      <4>. QED BY <4>2, <4>3, <4>4
    <3>9. Holds(rxFifo', g, q + n)
      <4>1. Holds(Append(rxFifo, [from |-> q + 1, count |-> n]), g, q + n)
        BY <1>5, <3>7, <3>8, HoldsOneMore
      <4>. QED BY <1>7, <2>3, <4>1
    <3>. QED BY <1>1, <1>2, <1>9, <3>1, <3>5, <3>6, <3>8, <3>9 DEF ReadOK
  <2>4. CASE current.kind # "RX"
    <3>1. rxFifo' = rxFifo
      BY <1>1, <1>5, <2>4 DEF DataKinds
    <3>2. ~ p >= x /\ (p + n >= x => p + n - x = 0)
      <4>1. p + l = x
        BY <1>16, <1>17, <1>18, <2>1, <2>4
      <4>2. n > 0 /\ n <= l
        BY <1>6
      <4>. QED BY <4>1, <4>2
    <3>3. Come = 0
      <4>1. Come = IF p >= x THEN p - x ELSE 0
        BY <1>6, <1>11 DEF Come
      <4>. QED BY <3>2, <4>1
    <3>4. Come' = 0
      <4>1. Come' = IF p + n >= x THEN p + n - x ELSE 0
        BY <1>9, <1>10, <1>11 DEF Come
      <4>. QED BY <3>2, <4>1
    <3>. QED BY <1>1, <1>2, <1>9, <3>1, <3>3, <3>4 DEF ReadOK
  <2>. QED BY <2>3, <2>4
<1>22. UnreadOK' /\ DoneOK'
  BY <1>1, <1>2, <1>3, <1>9 DEF UnreadOK, DoneOK
<1>. QED BY <1>12, <1>13, <1>14, <1>15, <1>19, <1>20, <1>21, <1>22 DEF DataInv

(* The DMA takes the next word of the read to its place. *)
LEMMA WordMoves ==
  ASSUME TransferInv, DataInv, MoveWord
  PROVE  /\ InMessage /\ Kind = "RX" /\ readMode = "DMA"
         /\ \E g, k, n, d \in Nat :
              /\ g = dma.at /\ k = Come /\ n = Asked /\ d = dma.left
              /\ g + 4 <= k /\ k <= n /\ n <= MaxBuffer /\ d >= 4 /\ g % 4 = 0
              /\ Holds(rxFifo', g + 4, k) /\ \A i \in 1..g + 4 : buffer'[i] = i
<1>1. /\ readMode = "DMA" /\ dma.left > 0 /\ rxFifo # <<>>
      /\ buffer' = [i \in 1..MaxBuffer |-> IF i > dma.at /\ i <= dma.at + 4
                                           THEN ByteOf(rxFifo, i - dma.at - 1) ELSE buffer[i]]
      /\ rxFifo' = Tail(rxFifo)
  BY DEF MoveWord
<1>2. IndexOK /\ SelectOK /\ LayOK /\ WireOK /\ CurrentOK /\ ReadOK
  BY DEF DataInv
<1>3. /\ Typed /\ InMessage /\ Kind = "RX" /\ IsSequence(rxFifo)
      /\ dma.left \in Nat /\ dma.left % 4 = 0 /\ dma.at \in Nat
      /\ transfer \in Transfers /\ index \in 1..Len(transfer)
  <2>1. Typed /\ PlaceOK
    BY DEF TransferInv
  <2>2. /\ IsSequence(rxFifo) /\ dma.left \in Nat /\ dma.left % 4 = 0 /\ dma.at \in Nat
        /\ pc \in {"idle", "prepare", "start", "poll", "act", "deselect", "drain", "assert"}
    BY <2>1 DEF Typed
  <2>3. dma.left # 0 /\ readMode # "IO"
    BY <1>1, <2>2
  <2>4. InMessage
    BY <2>1, <2>2, <2>3 DEF PlaceOK, NothingLeft, InMessage
  <2>5. transfer \in Transfers /\ index \in 1..Len(transfer) /\ Kind \in DataKinds
    BY <2>1, <2>4, InTransfer, TransferLength
  <2>6. Kind = "RX"
    BY <2>1, <2>3, <2>4 DEF PlaceOK
  <2>. QED BY <2>1, <2>2, <2>4, <2>5, <2>6
<1>4. Busy /\ ~Past /\ Reading /\ pc # "prepare"
  BY <1>3, TransferLength DEF InMessage, Busy, Past, Reading
<1>5. PICK n \in Nat : n = Asked /\ n <= MaxBuffer
  BY <1>2, <1>3, <1>4, MessageIs
<1>6. PICK r \in Nat : r = Reach /\ r % 4 = 0 /\ r <= n
  <2>1. Reach = DmaBytes(n)
    BY <1>1, <1>3, <1>4, <1>5 DEF Reach
  <2>2. DmaBytes(n) \in Nat /\ DmaBytes(n) % 4 = 0 /\ DmaBytes(n) <= n
    BY DEF DmaBytes
  <2>. QED BY <2>1, <2>2
<1>7. PICK k \in Nat : k = Come /\ k <= r /\ k % 4 = 0
  BY <1>2, <1>3, <1>4, <1>6, ComeIs
<1>8. PICK g, d \in Nat : g = dma.at /\ d = dma.left
  BY <1>3
<1>9. g <= k /\ Holds(rxFifo, g, k) /\ g % 4 = 0 /\ \A i \in 1..g : buffer[i] = i
  <2>1. Got = g
    BY <1>1, <1>4, <1>8 DEF Got
  <2>. QED BY <1>1, <1>2, <1>3, <1>4, <1>7, <1>8, <2>1 DEF ReadOK
<1>10. g + 4 <= k
  <2>1. Len(rxFifo) \in Nat /\ Len(rxFifo) # 0
    BY <1>1, <1>3, LengthOf
  <2>2. k - g \in Nat /\ Len(rxFifo) = Words(k - g)
    BY <1>9 DEF Holds
  <2>3. k - g # 0
    BY <2>1, <2>2, WordsOfCount
  <2>. QED BY <1>7, <1>9, <2>3
<1>11. d >= 4
  <2>1. d > 0 /\ d % 4 = 0
    BY <1>1, <1>3, <1>8
  <2>. QED BY <2>1
<1>12. rxFifo' = SubSeq(rxFifo, Words(4) + 1, Len(rxFifo))
  <2>1. Words(4) + 1 = 2
    BY DEF Words
  <2>2. Tail(rxFifo) = SubSeq(rxFifo, 2, Len(rxFifo))
    BY <1>1, <1>3, TailIsSubSeq DEF IsSequence
  <2>. QED BY <1>1, <2>1, <2>2
<1>13. Holds(rxFifo', g + 4, k) /\ \A i \in 1..g + 4 : buffer'[i] = i
  <2>1. k <= MaxBuffer
    BY <1>5, <1>6, <1>7, SizesAssumption
  <2>2. buffer' = [i \in 1..MaxBuffer |-> IF i > g /\ i <= g + 4
                                          THEN ByteOf(rxFifo, i - g - 1) ELSE buffer[i]]
    BY <1>1, <1>8
  <2>3. 4 \in Nat /\ 4 % 4 = 0 /\ 4 >= 4
    OBVIOUS
  <2>. QED BY <1>3, <1>9, <1>10, <1>12, <2>1, <2>2, <2>3, BytesTaken, ZenonT(40)
<1>14. k <= n
  BY <1>6, <1>7
<1>. QED BY <1>1, <1>3, <1>5, <1>7, <1>8, <1>9, <1>10, <1>11, <1>13, <1>14

LEMMA MoveKeepsData ==
  ASSUME TransferInv, DataInv, MoveWord
  PROVE  DataInv'
<1>1. /\ dma' = [at |-> dma.at + 4, left |-> dma.left - 4, done |-> dma.left = 4]
      /\ UNCHANGED <<pc, transfer, index, byteCount, rxPtr, readMode, txLeft, rxLeft,
                     genFifo, current, selected, wire, txFifo>>
  BY DEF MoveWord, transferVars, driverVars, busVars
<1>2. InMessage /\ Kind = "RX" /\ readMode = "DMA"
  BY WordMoves
<1>3. PICK g, k, n, d \in Nat :
              /\ g = dma.at /\ k = Come /\ n = Asked /\ d = dma.left
              /\ g + 4 <= k /\ k <= n /\ n <= MaxBuffer /\ d >= 4 /\ g % 4 = 0
              /\ Holds(rxFifo', g + 4, k) /\ \A i \in 1..g + 4 : buffer'[i] = i
  BY WordMoves
<1>4. /\ IndexOK' /\ SelectOK' /\ LayOK' /\ WireOK' /\ CurrentOK' /\ DoneOK'
      /\ TxOK' /\ UnreadOK' /\ InMessage' /\ Busy' /\ ~Past'
      /\ Kind' = Kind /\ Asked' = Asked /\ Come' = Come /\ Busy /\ ~Past
  BY <1>1, <1>2, StillInMessage
<1>5. ReadOK'
  <2>1. pc # "prepare" /\ Reading
    BY <1>2, <1>4 DEF InMessage, Reading
  <2>2. Got' = g + 4 /\ dma'.at = g + 4 /\ dma'.left = d - 4
    BY <1>1, <1>2, <1>3, <2>1 DEF Got
  <2>3. /\ g + d = DmaBytes(Asked) /\ rxPtr = 0 /\ rxLeft \in {0, Asked}
        /\ rxLeft = 0 => Asked % 4 = 0
    BY <1>2, <1>3, <2>1 DEF DataInv, ReadOK
  <2>4. (g + 4) + (d - 4) = g + d /\ (g + 4) % 4 = 0
    BY <1>3
  <2>. QED BY <1>1, <1>2, <1>3, <1>4, <2>1, <2>2, <2>3, <2>4 DEF ReadOK
<1>. QED BY <1>4, <1>5 DEF DataInv
-----------------------------------------------------------------------------
(* All steps keep the two invariants. *)

LEMMA NothingKeepsData ==
  ASSUME DataInv, UNCHANGED vars
  PROVE  DataInv'
<1>1. UNCHANGED <<pc, transfer, index, byteCount, rxPtr, readMode, txLeft, rxLeft, genFifo,
                  started, current, txFifo, rxFifo, dma, selected, wire, buffer>>
  BY DEF vars, transferVars, driverVars, busVars
<1>2. IndexOK /\ SelectOK /\ LayOK /\ WireOK /\ CurrentOK /\ TxOK /\ ReadOK /\ UnreadOK /\ DoneOK
  BY DEF DataInv
<1>3. /\ (Busy' <=> Busy) /\ (Waiting' <=> Waiting) /\ (Past' <=> Past)
      /\ (InMessage' <=> InMessage) /\ Kind' = Kind /\ Base' = Base /\ Asked' = Asked
      /\ Got' = Got
  BY <1>1 DEF Busy, Waiting, Past, InMessage, Kind, Base, Asked, Got
<1>4. /\ Clocked' = Clocked /\ (Closing' <=> Closing) /\ (Sends' <=> Sends)
      /\ (Reading' <=> Reading)
  BY <1>1, <1>3 DEF Clocked, Closing, Sends, Reading
<1>5. Come' = Come
  BY <1>3, <1>4 DEF Come
<1>6. Reach' = Reach
  BY <1>1, <1>3 DEF Reach
<1>7. IndexOK' /\ UnreadOK' /\ DoneOK' /\ WireOK'
  BY <1>1, <1>2, <1>3 DEF IndexOK, UnreadOK, DoneOK, WireOK
<1>8. SelectOK'
  BY <1>1, <1>2, <1>3, <1>4 DEF SelectOK
<1>9. LayOK'
  BY <1>1, <1>2, <1>3, <1>4, <1>6 DEF LayOK
<1>10. CurrentOK'
  BY <1>1, <1>2, <1>3, <1>4 DEF CurrentOK, FromBefore, OfMessage
<1>11. TxOK'
  <2>1. (TxWorks' <=> TxWorks) /\ NextTx' = NextTx /\ Written' = Written
    BY <1>1, <1>3, <1>4 DEF TxWorks, NextTx, Written
  <2>. QED BY <1>1, <1>2, <1>3, <1>4, <2>1 DEF TxOK
<1>12. ReadOK'
  BY <1>1, <1>2, <1>3, <1>4, <1>5 DEF ReadOK
<1>. QED BY <1>7, <1>8, <1>9, <1>10, <1>11, <1>12 DEF DataInv

LEMMA DataNext ==
  ASSUME TransferInv, DataInv, [Next]_vars
  PROVE  DataInv'
<1>1. TransferInv'
  BY TransferNext
<1>2. CASE UNCHANGED vars
  BY <1>2, NothingKeepsData
<1>3. CASE Next
  BY <1>1, <1>3, BeginKeepsData, PrepareKeepsData, StartKeepsData, PollKeepsData,
     SendKeepsData, DmaKeepsData, IoKeepsData, DeselectKeepsData, EndKeepsData,
     TakeKeepsData, ClockKeepsData, MoveKeepsData, Zenon DEF Next, DriverStep
<1>. QED BY <1>2, <1>3

LEMMA DataAlways == Spec => [](TransferInv /\ DataInv)
<1>1. Init => TransferInv /\ DataInv
  BY TransferInit, DataInit
<1>2. TransferInv /\ DataInv /\ [Next]_vars => TransferInv' /\ DataInv'
  BY TransferNext, DataNext
<1>. QED BY <1>1, <1>2, PTL DEF Spec
-----------------------------------------------------------------------------
(* The refinement, step by step. *)

LEMMA BusyAsks ==
  ASSUME TransferInv
  PROVE  /\ isBusy => Traffic(transfer) # <<>> /\ transfer \in Transfers
         /\ Busy => isBusy
         /\ isBusy <=> pc # "idle"
<1>1. (isBusy <=> pc # "idle") /\ (pc # "idle" => transfer \in Transfers)
  BY DEF TransferInv, Typed
<1>2. isBusy => Traffic(transfer) # <<>>
  BY <1>1, FirstPlace
<1>. QED BY <1>1, <1>2 DEF Busy

(* Once the last message is through, all the traffic has passed. *)
LEMMA AllPassed ==
  ASSUME TransferInv, DataInv, Busy, Past, ~Waiting, current.left = 0
  PROVE  wire = Traffic(transfer)
<1>1. Typed /\ IndexOK /\ WireOK /\ LayOK
  BY DEF TransferInv, DataInv
<1>2. PICK m \in Nat : m = Len(Traffic(transfer)) /\ Base = m /\ transfer \in Transfers
  BY <1>1, PastIs
<1>3. PICK c \in 0..m : c = Clocked /\ wire = SubSeq(Traffic(transfer), 1, c)
  BY <1>1, <1>2, ClockedIs
<1>4. PICK a \in Nat : c + 0 = m + a
  BY <1>1, <1>2, <1>3 DEF LayOK
<1>5. c = m
  BY <1>3, <1>4
<1>6. Traffic(transfer) \in Seq(Bytes)
  BY <1>2, FirstPlace
<1>7. SubSeq(Traffic(transfer), 1, Len(Traffic(transfer))) = Traffic(transfer)
  BY <1>6, SubSeqFull
<1>. QED BY <1>2, <1>3, <1>5, <1>7

LEMMA SameCount ==
  ASSUME NEW S
  PROVE  Flash!Cardinality(S) = Cardinality(S)
BY DEF Flash!Cardinality, Cardinality

(* The bytes that have come, as the abstract specification counts them. *)
LEMMA ReceivedSoFar ==
  ASSUME TransferInv, DataInv, Reading, NEW k \in Nat, k = Come, k > 0
  PROVE  Flash!Received(wire) = k
<1>1. Typed /\ IndexOK /\ WireOK /\ Busy /\ ~Past /\ Kind = "RX"
  BY DEF TransferInv, DataInv, Reading
<1>2. PICK x \in Nat : x = Base /\ index = Len(transfer) /\ transfer \in Transfers
  BY <1>1, MessageIs
<1>3. PICK c \in 0..Len(Traffic(transfer)) :
        c = Clocked /\ (Waiting => c = 0)
        /\ (~Waiting => wire = SubSeq(Traffic(transfer), 1, c) /\ Len(wire) = c)
  BY <1>1, ClockedIs
<1>4. c > x /\ c - x = k
  <2>1. k = IF c >= x THEN c - x ELSE 0
    BY <1>2, <1>3 DEF Come
  <2>. QED BY <2>1
<1>5. wire = SubSeq(Traffic(transfer), 1, c)
  BY <1>2, <1>3, <1>4
<1>6. ReadBegins(transfer) = x /\ transfer[Len(transfer)].kind = "RX"
  BY <1>1, <1>2 DEF ReadBegins, Base, Kind
<1>7. Cardinality({p \in DOMAIN wire : IsReceived(wire[p])})
      = IF transfer[Len(transfer)].kind = "RX" /\ c > ReadBegins(transfer)
        THEN c - ReadBegins(transfer) ELSE 0
  BY <1>2, <1>5, ReceivedIs
<1>. QED BY <1>4, <1>6, <1>7, SameCount DEF Flash!Received

LEMMA ReceivedInAll ==
  ASSUME NEW t \in Transfers
  PROVE  Flash!Received(Traffic(t)) = ReadSize(t)
<1>1. PICK m \in Nat : m = Len(Traffic(t)) /\ Traffic(t) \in Seq(Bytes)
  BY FirstPlace
<1>2. Traffic(t) = SubSeq(Traffic(t), 1, Len(Traffic(t)))
  BY <1>1, SubSeqFull
<1>3. Traffic(t) = SubSeq(Traffic(t), 1, m) /\ m \in 0..Len(Traffic(t))
  BY <1>1, <1>2
<1>4. Len(t) \in 1..Len(t)
  BY TransferLength
<1>5. PICK x \in Nat, c \in Nat \ {0} :
        x = ReadBegins(t) /\ c = t[Len(t)].count /\ x + c = m
  BY <1>1, <1>4, MessagePlace, SMTT(30) DEF ReadBegins
<1>6. Cardinality({p \in DOMAIN Traffic(t) : IsReceived(Traffic(t)[p])})
      = IF t[Len(t)].kind = "RX" /\ m > ReadBegins(t) THEN m - ReadBegins(t) ELSE 0
  BY <1>3, ReceivedIs
<1>7. m > x /\ m - x = c
  BY <1>5
<1>. QED BY <1>5, <1>6, <1>7, SameCount DEF Flash!Received, ReadSize

LEMMA BeginAsks ==
  ASSUME TransferInv, BeginTransfer
  PROVE  Flash!Ask
<1>1. pc = "idle" /\ ~isBusy
  BY DEF BeginTransfer, TransferInv, Typed
<1>2. PICK t \in Transfers : transfer' = t
  BY DEF BeginTransfer
<1>3. /\ isBusy' = TRUE /\ wire' = wire /\ selected' = selected
      /\ buffer' = [i \in 1..MaxBuffer |-> 0]
  BY DEF BeginTransfer, busVars
<1>. QED BY <1>1, <1>2, <1>3 DEF Flash!Ask, Flash!Empty

LEMMA TakeSelects ==
  ASSUME TransferInv, DataInv, TakeEntry
  PROVE  Flash!Select \/ Flash!Deselect \/ UNCHANGED Flash!vars
<1>. DEFINE h == Head(genFifo)
<1>1. /\ current.left = 0 /\ started > 0
      /\ selected' = (CASE h = CSAssert -> TRUE
                        [] h = CSDeAssert -> FALSE
                        [] OTHER -> selected)
      /\ wire' = IF h = CSAssert THEN <<>> ELSE wire
      /\ UNCHANGED <<pc, transfer, isBusy, buffer>>
  BY DEF TakeEntry, transferVars, driverVars
<1>2. genFifo \in Seq(EntryType) /\ started \in 0..Len(genFifo) /\ IndexOK /\ SelectOK
  BY DEF TransferInv, Typed, DataInv
<1>3. genFifo # <<>>
  <2>. SUFFICES ASSUME genFifo = <<>> PROVE FALSE
    OBVIOUS
  <2>1. Len(genFifo) = 0
    BY EmptySeq
  <2>. QED BY <1>1, <1>2, <2>1
<1>4. h = genFifo[1] /\ 1 \in 1..Len(genFifo)
  BY <1>2, <1>3, HeadIs
<1>5. isBusy /\ Busy /\ Traffic(transfer) # <<>>
  BY <1>3, SomethingQueued, BusyAsks
<1>. HIDE DEF h
<1>6. CSAssert.kind = "SELECT" /\ CSDeAssert.kind = "DESELECT" /\ CSAssert # CSDeAssert
  BY DEF CSAssert, CSDeAssert, Entry
<1>7. CASE h = CSAssert
  <2>1. ~selected
    BY <1>2, <1>3, <1>5, <1>6, <1>7 DEF SelectOK, Waiting, Busy, h
  <2>2. selected' = TRUE /\ wire' = <<>>
    BY <1>1, <1>6, <1>7
  <2>. QED BY <1>1, <1>5, <2>1, <2>2 DEF Flash!Select
<1>8. CASE h = CSDeAssert
  <2>1. Closing /\ ~Waiting
    BY <1>2, <1>4, <1>6, <1>8 DEF SelectOK, Waiting, h
  <2>2. Past
    BY <1>2, <1>5, <2>1 DEF Closing, IndexOK
  <2>3. selected
    BY <1>2, <1>3, <1>5, <2>1 DEF SelectOK, Busy
  <2>4. wire = Traffic(transfer)
    BY <1>1, <1>5, <2>1, <2>2, AllPassed
  <2>5. selected' = FALSE /\ wire' = wire
    BY <1>1, <1>6, <1>8
  <2>. QED BY <1>1, <1>5, <2>3, <2>4, <2>5 DEF Flash!Deselect
<1>9. CASE h # CSAssert /\ h # CSDeAssert
  <2>1. selected' = selected /\ wire' = wire
    BY <1>1, <1>9
  <2>. QED BY <1>1, <2>1 DEF Flash!vars
<1>. QED BY <1>7, <1>8, <1>9

LEMMA ClockClocks ==
  ASSUME TransferInv, DataInv, ClockWord
  PROVE  Flash!Clock
<1>1. /\ current.left > 0 /\ UNCHANGED <<transfer, isBusy, selected, buffer>>
  BY DEF ClockWord, transferVars, driverVars
<1>2. /\ Busy /\ selected
      /\ \E j, p, q, l, n \in Nat : AtWorkOn(j, p, q, l, n)
  BY <1>1, AtWorkIs
<1>3. PICK j, p, q, l, n \in Nat : AtWorkOn(j, p, q, l, n)
  BY <1>2
<1>4. /\ Len(wire) = p /\ wire' = SubSeq(Traffic(transfer), 1, p + n)
      /\ p + n <= Len(Traffic(transfer)) /\ n > 0
  <2>1. n > 0
    BY <1>3 DEF AtWorkOn
  <2>. QED BY <1>3, <2>1, WireGoesOn
<1>5. isBusy /\ Len(Traffic(transfer)) \in Nat
  BY <1>2, BusyAsks, FirstPlace
<1>6. p + n \in (Len(wire) + 1)..Len(Traffic(transfer))
  BY <1>4, <1>5
<1>. QED BY <1>1, <1>2, <1>4, <1>5, <1>6 DEF Flash!Clock

LEMMA MoveDelivers ==
  ASSUME TransferInv, DataInv, MoveWord
  PROVE  Flash!Deliver
<1>1. /\ buffer' = [i \in 1..MaxBuffer |-> IF i > dma.at /\ i <= dma.at + 4
                                           THEN ByteOf(rxFifo, i - dma.at - 1) ELSE buffer[i]]
      /\ UNCHANGED <<transfer, isBusy, selected, wire>>
  BY DEF MoveWord, transferVars, driverVars, busVars
<1>2. PICK g, k \in Nat :
         g = dma.at /\ k = Come /\ g + 4 <= k /\ \A i \in 1..g + 4 : buffer'[i] = i
  BY WordMoves
<1>3. Reading /\ Busy
  <2>1. InMessage /\ Kind = "RX" /\ Typed
    BY WordMoves DEF TransferInv
  <2>2. index \in Nat /\ index <= Len(transfer) /\ Len(transfer) \in Nat
    BY <2>1, InTransfer, TransferLength
  <2>. QED BY <2>1, <2>2 DEF Reading, InMessage, Busy, Past
<1>4. Flash!Received(wire) = k /\ isBusy /\ Traffic(transfer) # <<>>
  BY <1>2, <1>3, ReceivedSoFar, BusyAsks
<1>5. ASSUME NEW i \in 1..MaxBuffer
      PROVE  buffer'[i] = buffer[i] \/ (buffer'[i] = i /\ i <= Flash!Received(wire))
  <2>1. i \in Nat /\ i >= 1
    BY SizesAssumption
  <2>2. CASE i <= g + 4
    BY <1>2, <1>4, <2>1, <2>2
  <2>3. CASE ~ i <= g + 4
    BY <1>1, <1>2, <2>3
  <2>. QED BY <2>2, <2>3
<1>6. DOMAIN buffer' = 1..MaxBuffer
  BY <1>1
<1>. QED BY <1>1, <1>4, <1>5, <1>6 DEF Flash!Deliver

LEMMA IoDelivers ==
  ASSUME TransferInv, DataInv, ActIo
  PROVE  Flash!Deliver \/ UNCHANGED Flash!vars
<1>1. /\ pc = "act" /\ Kind = "RX" /\ readMode = "IO"
      /\ UNCHANGED <<transfer, isBusy, selected, wire>>
      /\ buffer' = buffer \/ (IORead /\ \E size : ReadRxFifo(size))
  BY DEF ActIo, IORead, transferVars, busVars
<1>2. CASE buffer' = buffer
  BY <1>1, <1>2 DEF Flash!vars
<1>3. CASE IORead /\ \E size : ReadRxFifo(size)
  <2>1. Reading /\ Busy /\ rxPtr \in Nat /\ rxLeft \in Nat
    <3>1. Typed /\ index \in Nat /\ index <= Len(transfer) /\ Len(transfer) \in Nat
      BY <1>1, InTransfer, TransferLength DEF TransferInv
    <3>. QED BY <1>1, <3>1 DEF Typed, Reading, Busy, Past
  <2>2. PICK k \in Nat : k = Come
    <3>1. Typed /\ IndexOK /\ WireOK /\ LayOK /\ CurrentOK /\ ~Past
      BY <2>1 DEF TransferInv, DataInv, Reading
    <3>. QED BY <2>1, <3>1, ComeIs
  <2>3. PICK g \in Nat : g = rxPtr' /\ g <= k /\ \A i \in 1..g : buffer'[i] = i
    BY <1>1, <1>3, <2>2, FifoReads
  <2>4. PICK size : ReadRxFifo(size)
    BY <1>3
  <2>5. PICK b : /\ rxPtr' = rxPtr + b
                 /\ buffer' = [i \in 1..MaxBuffer |->
                                 IF i > rxPtr /\ i <= rxPtr + b
                                 THEN ByteOf(rxFifo, i - rxPtr - 1) ELSE buffer[i]]
    BY <2>4 DEF ReadRxFifo
  <2>6. ASSUME NEW i \in 1..MaxBuffer
        PROVE  buffer'[i] = buffer[i] \/ (buffer'[i] = i /\ i <= Flash!Received(wire))
    <3>1. i \in Nat /\ i >= 1
      BY SizesAssumption
    <3>2. CASE i <= g
      <4>1. i \in 1..g /\ k > 0 /\ i <= k
        BY <2>3, <3>1, <3>2
      <4>2. Flash!Received(wire) = k
        BY <2>1, <2>2, <4>1, ReceivedSoFar
      <4>. QED BY <2>3, <4>1, <4>2
    <3>3. CASE ~ i <= g
      <4>1. ~ i <= rxPtr + b
        BY <2>3, <2>5, <3>3
      <4>. QED BY <2>5, <4>1
    <3>. QED BY <3>2, <3>3
  <2>7. DOMAIN buffer' = 1..MaxBuffer
    BY <2>5
  <2>8. isBusy /\ Traffic(transfer) # <<>>
    BY <2>1, BusyAsks
  <2>. QED BY <1>1, <2>6, <2>7, <2>8 DEF Flash!Deliver
<1>. QED BY <1>1, <1>2, <1>3

LEMMA EndReturns ==
  ASSUME TransferInv, DataInv, EndTransfer
  PROVE  Flash!Return
<1>1. /\ pc = "drain" /\ genFifo = <<>> /\ isBusy' = FALSE
      /\ UNCHANGED <<wire, selected, buffer>>
  BY DEF EndTransfer, busVars
<1>2. Busy /\ ~Waiting /\ Past /\ current.left = 0 /\ ~selected
  <2>1. Busy /\ ~Waiting
    BY <1>1 DEF Busy, Waiting
  <2>. QED BY <1>1, <2>1 DEF TransferInv, QueueOK, EndsIdle, DataInv, IndexOK, SelectOK
<1>3. wire = Traffic(transfer)
  BY <1>2, AllPassed
<1>4. isBusy /\ Traffic(transfer) # <<>> /\ transfer \in Transfers
  BY <1>2, BusyAsks
<1>5. \A i \in 1..Flash!Received(Traffic(transfer)) : buffer[i] = i
  BY <1>2, <1>4, ReceivedInAll DEF DataInv, DoneOK
<1>. QED BY <1>1, <1>2, <1>3, <1>4, <1>5 DEF Flash!Return

(* A step of a transfer is a step of the transaction or none of it. *)
LEMMA StepOfTransaction ==
  ASSUME TransferInv, DataInv, [Next]_vars
  PROVE  [Flash!Next]_Flash!vars
<1>1. CASE UNCHANGED vars
  BY <1>1 DEF vars, transferVars, driverVars, busVars, Flash!vars
<1>2. CASE BeginTransfer
  BY <1>2, BeginAsks DEF Flash!Next
<1>3. CASE TakeEntry
  BY <1>3, TakeSelects DEF Flash!Next
<1>4. CASE ClockWord
  BY <1>4, ClockClocks DEF Flash!Next
<1>5. CASE MoveWord
  BY <1>5, MoveDelivers DEF Flash!Next
<1>6. CASE ActIo
  BY <1>6, IoDelivers DEF Flash!Next
<1>7. CASE EndTransfer
  BY <1>7, EndReturns DEF Flash!Next
<1>8. CASE GenFifoEntryData \/ ManualStart \/ Poll \/ ActSend \/ ActDma \/ Deselect
  <2>1. UNCHANGED <<transfer, isBusy, wire, selected, buffer>>
    BY <1>8 DEF GenFifoEntryData, ManualStart, Poll, ActSend, ActDma, Deselect, transferVars,
                driverVars, busVars
  <2>. QED BY <2>1 DEF Flash!vars
<1>. QED BY <1>1, <1>2, <1>3, <1>4, <1>5, <1>6, <1>7, <1>8 DEF Next, DriverStep

(* A polled transfer is one transaction of the flash: selected from the first byte to
   the last, the bytes of the messages in order, each byte of the read at its place in
   the buffer when the driver returns, whether the DMA brought it or the RX FIFO did, for
   messages of any length, FIFOs of any size and every order of driver and controller. *)
THEOREM TransferIsTransaction == Spec => ImplementsTransaction
<1>1. Init => Flash!Init
  BY DEF Init, Flash!Init, Flash!Empty
<1>2. TransferInv /\ DataInv /\ [Next]_vars => [Flash!Next]_Flash!vars
  BY StepOfTransaction
<1>. QED BY <1>1, <1>2, DataAlways, PTL DEF Spec, ImplementsTransaction, Flash!Spec
=============================================================================
