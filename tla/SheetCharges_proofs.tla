------------------------- MODULE SheetCharges_proofs -------------------------
(***************************************************************************)
(* That documents cost what they were quoted, for any sheets and fees.     *)
(***************************************************************************)
EXTENDS SheetCharges, FiniteSums_proofs, SequenceTheorems

-----------------------------------------------------------------------------
(* What a transaction of a sum costs, and what its parts cost *)

\* Rounding to hundreds loses or gains half of one at most.
LEMMA Rounding ==
  ASSUME NEW n \in Nat
  PROVE  HalfEven(n, 100) \in Nat /\ 100 * HalfEven(n, 100) <= n + 50 /\ n <= 100 * HalfEven(n, 100) + 50
<1> DEFINE q == n \div 100
           m == n % 100
<1>1. q \in Nat /\ m \in 0..99 /\ n = 100 * q + m
  OBVIOUS
<1>2. HalfEven(n, 100) = IF 2 * m < 100 \/ (2 * m = 100 /\ q % 2 = 0) THEN q ELSE q + 1
  BY DEF HalfEven
<1> HIDE DEF q, m
<1>3. QED
  BY <1>1, <1>2

LEMMA RoundingMonotone ==
  ASSUME NEW x \in Nat, NEW y \in Nat, x <= y
  PROVE  HalfEven(x, 100) <= HalfEven(y, 100)
<1> DEFINE h == HalfEven(x, 100)
           i == HalfEven(y, 100)
<1>1. h \in Nat /\ i \in Nat /\ 100 * h <= x + 50 /\ y <= 100 * i + 50
  BY Rounding
<1>2. x = y => h = i
  OBVIOUS
<1> HIDE DEF h, i
<1>3. h <= i
  BY <1>1, <1>2
<1>4. QED
  BY <1>3 DEF h, i

\* The percentage of an amount, the raw fee and the fee.
LEMMA FeeTypes ==
  ASSUME NEW s \in FeeSetup, NEW a \in Nat, NEW n \in Nat
  PROVE  /\ Percentage(s, a) \in Nat /\ Raw(s, a, n) \in Nat /\ Fee(s, a, n) \in Nat
         /\ a * s.percentage \in Nat /\ s.fixed * Units * n \in Nat
<1>1. s.fixed \in Nat /\ s.percentage \in Nat /\ s.min \in Nat /\ s.max \in Nat /\ s.type \in Types
  BY DEF FeeSetup
<1>2. a * s.percentage \in Nat /\ s.fixed * Units * n \in Nat
  BY <1>1 DEF Units
<1>3. Percentage(s, a) \in Nat
  BY <1>2, Rounding DEF Percentage
<1>4. Raw(s, a, n) \in Nat
  BY <1>1, <1>2, <1>3 DEF Raw, Types, Units
<1>5. Fee(s, a, n) \in Nat
  BY <1>1, <1>4 DEF Fee, AtLeast, AtMost, Units
<1>6. QED
  BY <1>2, <1>3, <1>4, <1>5

LEMMA CostType ==
  ASSUME NEW s \in FeeSetup, NEW a \in Nat, NEW n \in Nat
  PROVE  /\ Cost(s, a, n) \in Nat /\ Vat(Fee(s, a, n)) \in Nat
         /\ 100 * Cost(s, a, n) <= 100 * a + Fee(s, a, n) + Vat(Fee(s, a, n)) + 50
         /\ 100 * a + Fee(s, a, n) + Vat(Fee(s, a, n)) <= 100 * Cost(s, a, n) + 50
         /\ 100 * Vat(Fee(s, a, n)) <= 14 * Fee(s, a, n) + 50
         /\ 14 * Fee(s, a, n) <= 100 * Vat(Fee(s, a, n)) + 50
<1> DEFINE fee == Fee(s, a, n)
<1>1. fee \in Nat
  BY FeeTypes
<1> HIDE DEF fee
<1>2. fee * 14 \in Nat
  BY <1>1
<1>3. Vat(fee) \in Nat /\ 100 * Vat(fee) <= 14 * fee + 50 /\ 14 * fee <= 100 * Vat(fee) + 50
  BY <1>1, <1>2, Rounding DEF Vat
<1> DEFINE x == a * Units + fee + Vat(fee)
<1>4. x \in Nat /\ x = 100 * a + fee + Vat(fee)
  BY <1>1, <1>3 DEF Units
<1>5. HalfEven(x, 100) \in Nat /\ 100 * HalfEven(x, 100) <= x + 50 /\ x <= 100 * HalfEven(x, 100) + 50
  <2> HIDE DEF x
  <2>1. QED
    BY <1>4, Rounding
<1>6. Cost(s, a, n) = HalfEven(x, 100)
  BY DEF Cost, fee, Units
<1>7. QED
  BY <1>3, <1>4, <1>5, <1>6 DEF fee

\* The percentages of two amounts, and of their sum.
LEMMA PercentageOfSum ==
  ASSUME NEW s \in FeeSetup, NEW a \in Nat, NEW b \in Nat
  PROVE  /\ Percentage(s, a) + Percentage(s, b) <= Percentage(s, a + b) + 1
         /\ Percentage(s, a + b) <= Percentage(s, a) + Percentage(s, b) + 1
         /\ Percentage(s, a) <= Percentage(s, a + b)
<1> DEFINE p == s.percentage
<1>1. p \in Nat /\ a * p \in Nat /\ b * p \in Nat /\ (a + b) * p \in Nat /\ (a + b) * p = a * p + b * p
  BY DEF FeeSetup
<1> DEFINE x == a * p
           y == b * p
<1>2. Percentage(s, a) = HalfEven(x, 100) /\ Percentage(s, b) = HalfEven(y, 100)
      /\ Percentage(s, a + b) = HalfEven(x + y, 100)
  BY <1>1 DEF Percentage
<1>3. x \in Nat /\ y \in Nat
  BY <1>1
<1> DEFINE z  == x + y
           hx == HalfEven(x, 100)
           hy == HalfEven(y, 100)
           hz == HalfEven(z, 100)
<1>4. hx \in Nat /\ hy \in Nat /\ hz \in Nat
      /\ 100 * hx <= x + 50 /\ x <= 100 * hx + 50 /\ 100 * hy <= y + 50 /\ y <= 100 * hy + 50 /\ 100 * hz <= z + 50 /\ z <= 100 * hz + 50
  <2> HIDE DEF x, y
  <2>1. z \in Nat
    BY <1>3
  <2> HIDE DEF z
  <2>2. QED
    BY <1>3, <2>1, Rounding
<1>5. Percentage(s, a) = hx /\ Percentage(s, b) = hy /\ Percentage(s, a + b) = hz
  BY <1>2
<1>6. z = x + y /\ hx <= hz
  BY <1>3, RoundingMonotone
<1> HIDE DEF x, y, z, hx, hy, hz
<1>7. hx + hy <= hz + 1 /\ hz <= hx + hy + 1 /\ hx <= hz
  BY <1>3, <1>4, <1>6
<1>8. QED
  BY <1>5, <1>7

\* k transactions of a sum, for m of one part and n of the other: they are all
\* counted, or taken for one.
Counts(m, n, k) == m \in Nat \ {0} /\ n \in Nat \ {0} /\ (k = m + n \/ (k = 1 /\ m = 1 /\ n = 1))

\* What the limits, and a fixed part that is not counted, come to at most.
Covers(g, s, k) ==
  /\ g \in Nat /\ s.min <= g /\ s.max <= g
  /\ s.type = "mixed" \/ (s.type = "fixed" /\ k = 1) => s.fixed <= g

LEMMA RawOfSum ==
  ASSUME NEW s \in FeeSetup, NEW a \in Nat, NEW b \in Nat, NEW m, NEW n, NEW k, Counts(m, n, k),
         NEW g, Covers(g, s, k)
  PROVE  /\ Raw(s, a, m) + Raw(s, b, n) <= Raw(s, a + b, k) + 100 * g + 1
         /\ Raw(s, a, m) + Raw(s, b, n) >= Raw(s, a + b, k) - 1
         /\ Raw(s, a, m) <= Raw(s, a + b, k)
         /\ Raw(s, a, m) \in Nat /\ Raw(s, b, n) \in Nat /\ Raw(s, a + b, k) \in Nat
<1> DEFINE F == s.fixed * Units
           pa == Percentage(s, a)
           pb == Percentage(s, b)
           pc == Percentage(s, a + b)
<1>1. F \in Nat /\ s.fixed \in Nat /\ F = 100 * s.fixed /\ s.type \in Types /\ g \in Nat
      /\ m \in Nat \ {0} /\ n \in Nat \ {0} /\ k \in Nat
  BY DEF FeeSetup, Units, Counts, Covers
<1>2. pa \in Nat /\ pb \in Nat /\ pc \in Nat /\ pa + pb <= pc + 1 /\ pc <= pa + pb + 1 /\ pa <= pc
  <2>1. a + b \in Nat /\ 1 \in Nat
    OBVIOUS
  <2>2. pa \in Nat /\ pb \in Nat /\ pc \in Nat
    BY <2>1, FeeTypes
  <2>3. QED
    BY <2>2, PercentageOfSum
<1>3. Raw(s, a, m) \in Nat /\ Raw(s, b, n) \in Nat /\ Raw(s, a + b, k) \in Nat
  <2>1. a + b \in Nat /\ m \in Nat /\ n \in Nat
    BY <1>1
  <2>2. QED
    BY <1>1, <2>1, FeeTypes
<1>4. CASE s.type = "fixed"
  <2>1. Raw(s, a, m) = F * m /\ Raw(s, b, n) = F * n /\ Raw(s, a + b, k) = F * k
    BY <1>4 DEF Raw
  <2>2. CASE k = m + n
    <3>1. F * m \in Nat /\ F * n \in Nat /\ F * k = F * m + F * n
      BY <1>1, <2>2
    <3>2. QED
      BY <1>1, <1>3, <2>1, <3>1
  <2>3. CASE k = 1 /\ m = 1 /\ n = 1
    <3>1. s.fixed <= g
      BY <1>4, <2>3 DEF Covers
    <3>2. QED
      BY <1>1, <1>3, <2>1, <2>3, <3>1
  <2>4. QED
    BY <2>2, <2>3 DEF Counts
<1>5. CASE s.type = "percentage"
  <2>1. Raw(s, a, m) = pa /\ Raw(s, b, n) = pb /\ Raw(s, a + b, k) = pc
    BY <1>5 DEF Raw
  <2>2. QED
    BY <1>1, <1>2, <2>1
<1>6. CASE s.type = "mixed"
  <2>1. Raw(s, a, m) = pa + F /\ Raw(s, b, n) = pb + F /\ Raw(s, a + b, k) = pc + F
    BY <1>6 DEF Raw
  <2>2. s.fixed <= g
    BY <1>6 DEF Covers
  <2>3. QED
    BY <1>1, <1>2, <2>1, <2>2
<1>7. QED
  BY <1>1, <1>4, <1>5, <1>6 DEF Types

LEMMA FeeOfSum ==
  ASSUME NEW s \in FeeSetup, NEW a \in Nat, NEW b \in Nat, NEW m, NEW n, NEW k, Counts(m, n, k),
         NEW g, Covers(g, s, k)
  PROVE  /\ Fee(s, a, m) + Fee(s, b, n) <= Fee(s, a + b, k) + 100 * g + 1
         /\ Fee(s, a, m) + Fee(s, b, n) >= Fee(s, a + b, k) - 1
         /\ Fee(s, a, m) <= Fee(s, a + b, k)
<1> DEFINE ra == Raw(s, a, m)
           rb == Raw(s, b, n)
           rc == Raw(s, a + b, k)
<1>1. /\ ra + rb <= rc + 100 * g + 1 /\ ra + rb >= rc - 1 /\ ra <= rc
      /\ ra \in Nat /\ rb \in Nat /\ rc \in Nat
  BY RawOfSum, SMTT(30)
<1>2. rb <= rc
  <2>1. Counts(n, m, k)
    BY DEF Counts
  <2>2. Raw(s, b, n) <= Raw(s, b + a, k)
    BY <2>1, RawOfSum
  <2>3. QED
    BY <2>2
<1>3. g \in Nat /\ s.min \in Nat /\ s.max \in Nat /\ s.min <= g /\ s.max <= g
  BY DEF FeeSetup, Covers
<1> HIDE DEF ra, rb, rc
<1> DEFINE F(r) == AtMost(s, AtLeast(s, r))
<1>4. \A r \in Nat : F(r) = LET x == IF s.min > 0 /\ s.min * 100 > r THEN s.min * 100 ELSE r
                            IN  IF s.max > 0 /\ s.max * 100 < x THEN s.max * 100 ELSE x
  BY DEF AtMost, AtLeast, Units
<1>5. Fee(s, a, m) = F(ra) /\ Fee(s, b, n) = F(rb) /\ Fee(s, a + b, k) = F(rc)
  BY DEF Fee, ra, rb, rc
<1> HIDE DEF F
<1>6. F(ra) + F(rb) <= F(rc) + 100 * g + 1 /\ F(ra) + F(rb) >= F(rc) - 1 /\ F(ra) <= F(rc)
  BY <1>1, <1>2, <1>3, <1>4
<1>7. QED
  BY <1>5, <1>6

\* The parts cost no more than the sum but for a flat fee and a rounding, and no
\* less but for the rounding; and one part does not cost more than the sum.
LEMMA CostOfSum ==
  ASSUME NEW s \in FeeSetup, NEW a \in Nat, NEW b \in Nat, NEW m, NEW n, NEW k, Counts(m, n, k),
         NEW g, Covers(g, s, k)
  PROVE  /\ Cost(s, a, m) + Cost(s, b, n) <= Cost(s, a + b, k) + 1 + Gross(g)
         /\ Cost(s, a, m) + Cost(s, b, n) >= Cost(s, a + b, k) - 1
         /\ Cost(s, a, m) <= Cost(s, a + b, k)
<1>1. m \in Nat /\ n \in Nat /\ k \in Nat /\ g \in Nat /\ a + b \in Nat
  BY DEF Counts, Covers
<1> DEFINE fa == Fee(s, a, m)
           fb == Fee(s, b, n)
           fc == Fee(s, a + b, k)
           va == Vat(fa)
           vb == Vat(fb)
           vc == Vat(fc)
           ca == Cost(s, a, m)
           cb == Cost(s, b, n)
           cc == Cost(s, a + b, k)
<1>2. fa + fb <= fc + 100 * g + 1 /\ fa + fb >= fc - 1 /\ fa <= fc
  BY FeeOfSum
<1>3. fa \in Nat /\ fb \in Nat /\ fc \in Nat
  BY <1>1, FeeTypes
<1>4. /\ ca \in Nat /\ va \in Nat /\ 100 * ca <= 100 * a + fa + va + 50
      /\ 100 * a + fa + va <= 100 * ca + 50
      /\ 100 * va <= 14 * fa + 50 /\ 14 * fa <= 100 * va + 50
  BY <1>1, CostType, ZenonT(60)
<1>5. /\ cb \in Nat /\ vb \in Nat /\ 100 * cb <= 100 * b + fb + vb + 50
      /\ 100 * b + fb + vb <= 100 * cb + 50
      /\ 100 * vb <= 14 * fb + 50 /\ 14 * fb <= 100 * vb + 50
  BY <1>1, CostType, ZenonT(60)
<1>6. /\ cc \in Nat /\ vc \in Nat /\ 100 * cc <= 100 * (a + b) + fc + vc + 50
      /\ 100 * (a + b) + fc + vc <= 100 * cc + 50
      /\ 100 * vc <= 14 * fc + 50 /\ 14 * fc <= 100 * vc + 50
  BY <1>1, CostType, ZenonT(60)
<1>7. va <= vc /\ ca <= cc
  <2>1. va <= vc
    <3>1. fa * 14 \in Nat /\ fc * 14 \in Nat /\ fa * 14 <= fc * 14
      BY <1>2, <1>3
    <3>2. QED
      BY <3>1, RoundingMonotone DEF Vat
  <2> DEFINE x == a * Units + fa + va
             z == (a + b) * Units + fc + vc
  <2>2. x \in Nat /\ z \in Nat /\ x <= z
    <3> HIDE DEF fa, fc, va, vc
    <3>1. QED
      BY <1>1, <1>2, <1>3, <1>4, <1>6, <2>1 DEF Units
  <2>3. ca = HalfEven(x, 100) /\ cc = HalfEven(z, 100)
    BY DEF Cost, Units
  <2>4. QED
    <3> HIDE DEF x, z, ca, cc
    <3>1. QED
      BY <2>1, <2>2, <2>3, RoundingMonotone
<1>8. Gross(g) \in Nat /\ 100 * Gross(g) >= 114 * g
  BY <1>1 DEF Gross
<1> DEFINE w == Gross(g)
<1> HIDE DEF fa, fb, fc, va, vb, vc, ca, cb, cc, w
<1>9. va + vb <= vc + 14 * g + 1 /\ va + vb >= vc - 1
  BY <1>1, <1>2, <1>3, <1>4, <1>5, <1>6
<1>10. ca + cb <= cc + 1 + w /\ ca + cb >= cc - 1
  BY <1>1, <1>2, <1>3, <1>4, <1>5, <1>6, <1>8, <1>9 DEF w
<1>11. QED
  BY <1>7, <1>10 DEF ca, cb, cc, w

-----------------------------------------------------------------------------
(* Shapes and books *)

\* All that TypeOK says, and that the variables are functions.
Shape ==
  /\ sheet \in [Docs -> Seq(Row)] /\ tariff \in [Issuers -> FeeSetup]
  /\ balance \in Int /\ opening \in Int /\ apart \in Nat
  /\ status \in [Docs -> {"uploaded", "refused", "processed"}]
  /\ records \in [Docs -> Seq(Row)] /\ open \in [Docs -> SUBSET Nat]
  /\ quote \in [Docs -> Nat] /\ charged \in [Docs -> Nat] /\ short \in [Docs -> BOOLEAN]
  /\ \A d \in Docs : records[d] = (IF status[d] = "processed" THEN sheet[d] ELSE <<>>)
  /\ \A d \in Docs : open[d] \subseteq DOMAIN records[d]

\* What is on record has passed the checks, and was quoted.
CheckedInv ==
  \A d \in Docs :
    /\ \A i \in DOMAIN records[d] : ~Flagged(d, records[d], i)
    /\ status[d] = "processed" => quote[d] = Quote(d, records[d]) /\ quote[d] <= opening
    /\ status[d] # "processed" => charged[d] = 0 /\ records[d] = <<>> /\ open[d] = {}

BooksInv == balance = opening - Sum(charged, Docs) - apart

Base == Shape /\ CheckedInv /\ BooksInv


\* The amounts of rows that are positive.
Positive(s) == s \in Seq(Row) /\ \A i \in DOMAIN s : s[i].amount \in Nat

LEMMA RowsFinite ==
  ASSUME NEW s \in Seq(Row)
  PROVE  /\ IsFiniteSet(DOMAIN s) /\ Cardinality(DOMAIN s) = Len(s) /\ DOMAIN s \subseteq Nat
         /\ \A i \in DOMAIN s : s[i].amount \in Int /\ s[i].issuer \in Issuers
<1>1. DOMAIN s = 1..Len(s) /\ Len(s) \in Nat
  OBVIOUS
<1>2. IsFiniteSet(1..Len(s)) /\ Cardinality(1..Len(s)) = Len(s)
  BY <1>1, FS_Interval
<1>3. \A i \in DOMAIN s : s[i] \in Row
  OBVIOUS
<1>4. QED
  BY <1>1, <1>2, <1>3 DEF Row

LEMMA AmountType ==
  ASSUME NEW s, Positive(s), NEW I \in SUBSET DOMAIN s
  PROVE  IsFiniteSet(I) /\ Cardinality(I) \in Nat /\ Amount(s, I) \in Nat
<1>1. IsFiniteSet(I)
  BY RowsFinite, FS_Subset DEF Positive
<1> DEFINE f == [i \in I |-> s[i].amount]
<1>2. \A i \in I : f[i] \in Nat
  BY DEF Positive
<1> HIDE DEF f
<1>3. Sum(f, I) \in Nat
  BY <1>1, <1>2, SumNat
<1>4. QED
  BY <1>1, <1>3, FS_CardinalityType DEF Amount, f

LEMMA AmountUnion ==
  ASSUME NEW s, Positive(s), NEW I \in SUBSET DOMAIN s, NEW J \in SUBSET DOMAIN s, I \cap J = {}
  PROVE  /\ Amount(s, I \cup J) = Amount(s, I) + Amount(s, J)
         /\ Cardinality(I \cup J) = Cardinality(I) + Cardinality(J)
<1> DEFINE K == I \cup J
           f == [i \in I |-> s[i].amount]
           g == [i \in J |-> s[i].amount]
           h == [i \in K |-> s[i].amount]
<1>1. IsFiniteSet(I) /\ IsFiniteSet(J) /\ Cardinality(I) \in Nat /\ Cardinality(J) \in Nat
  BY AmountType
<1>2. /\ Ints(h, I \cup J) /\ Ints(f, I) /\ Ints(g, J)
      /\ (\A i \in I : f[i] = h[i]) /\ (\A i \in J : g[i] = h[i])
  BY DEF Positive, Ints
<1> HIDE DEF f, g, h
<1>3. Sum(h, I \cup J) = Sum(h, I) + Sum(h, J)
  BY <1>1, <1>2, SumUnion
<1>4. Sum(f, I) = Sum(h, I) /\ Sum(g, J) = Sum(h, J)
  BY <1>1, <1>2, SumSame
<1>5. Cardinality(I \cup J) = Cardinality(I) + Cardinality(J)
  BY <1>1, FS_Union, FS_EmptySet
<1>6. QED
  BY <1>3, <1>4, <1>5 DEF Amount, f, g, h

LEMMA AmountOne ==
  ASSUME NEW s, Positive(s), NEW i \in DOMAIN s
  PROVE  Amount(s, {i}) = s[i].amount
<1> DEFINE f == [j \in {i} |-> s[j].amount]
<1>1. f[i] = s[i].amount /\ f[i] \in Int /\ Ints(f, {i}) /\ IsFiniteSet({i})
  <2>1. f[i] = s[i].amount /\ s[i].amount \in Int
    BY DEF Positive
  <2>2. IsFiniteSet({i})
    BY FS_Singleton
  <2>3. QED
    BY <2>1, <2>2 DEF Ints
<1> HIDE DEF f
<1>2. Sum(f, {i}) = f[i] + Sum(f, {i} \ {i})
  BY <1>1, SumLess
<1>3. {i} \ {i} = {}
  OBVIOUS
<1>4. Sum(f, {i}) = f[i]
  BY <1>1, <1>2, <1>3, SumEmpty
<1>5. QED
  BY <1>1, <1>4 DEF Amount, f

LEMMA CheckedRows ==
  ASSUME NEW d \in Docs, NEW s \in Seq(Row), \A i \in DOMAIN s : ~Flagged(d, s, i)
  PROVE  Positive(s)
<1>1. \A i \in DOMAIN s : s[i].amount \in Int /\ s[i].amount >= 100
  BY RowsFinite DEF Flagged, AmountOK
<1>2. QED
  BY <1>1 DEF Positive

\* the issuer whose fees a bank document is quoted
Bank(d) == IF d \in Cards THEN "bank_card" ELSE "bank_wallet"

LEMMA UsedFinite == \A s : IsFiniteSet(Used(s)) /\ Used(s) \subseteq Issuers
<1>1. \A s : Used(s) \subseteq Issuers
  BY DEF Used
<1>2. QED
  BY <1>1, FS_Subset, SheetAssumption

LEMMA QuoteType ==
  ASSUME tariff \in [Issuers -> FeeSetup], NEW d \in Docs, NEW s, Positive(s)
  PROVE  Quote(d, s) \in Nat
<1>1. CASE d \in Wallets
  <2> DEFINE f == [u \in Used(s) |-> Cost(tariff[u], Amount(s, Of(s, u)), Cardinality(Of(s, u)))]
  <2>1. ASSUME NEW u \in Used(s) PROVE f[u] \in Nat
    <3>1. tariff[u] \in FeeSetup
      BY UsedFinite
    <3>2. Of(s, u) \in SUBSET DOMAIN s
      BY DEF Of
    <3>3. Amount(s, Of(s, u)) \in Nat /\ Cardinality(Of(s, u)) \in Nat
      BY <3>2, AmountType
    <3>4. QED
      BY <3>1, <3>3, CostType
  <2> HIDE DEF f
  <2>2. Sum(f, Used(s)) \in Nat
    BY <2>1, UsedFinite, SumNat
  <2>3. QED
    BY <1>1, <2>2 DEF Quote, f
<1>2. CASE d \notin Wallets
  <2>1. tariff[Bank(d)] \in FeeSetup
    BY SheetAssumption DEF Bank
  <2>2. Amount(s, DOMAIN s) \in Nat
    BY AmountType
  <2>3. Cost(tariff[Bank(d)], Amount(s, DOMAIN s), 1) \in Nat
    BY <2>1, <2>2, CostType
  <2>4. QED
    BY <1>2, <2>3 DEF Quote, Bank
<1>3. QED
  BY <1>1, <1>2

\* A debit: of some records of one issuer, at its fees, for as many transactions
\* or, by the inquiry, for one.
Bills(d, I, u, n) ==
  /\ I # {} /\ I \subseteq open[d] /\ u \in Issuers /\ \A i \in I : records[d][i].issuer = u
  /\ n \in Nat \ {0}
  /\ n = Cardinality(I) \/ (n = 1 /\ short'[d])
  /\ d \in Wallets \/ Cardinality(I) = 1
  /\ LET cost == Cost(tariff[u], Amount(records[d], I), n)
     IN balance' = balance - cost /\ charged' = [charged EXCEPT ![d] = @ + cost]
  /\ open' = [open EXCEPT ![d] = @ \ I]
  /\ UNCHANGED <<sheet, tariff, status, records, opening, quote, apart>>
  /\ short' \in [Docs -> BOOLEAN] /\ \A e \in Docs : short[e] => short'[e]

Accepts(d) ==
  LET s == sheet[d]
  IN /\ status[d] = "uploaded"
     /\ \A i \in DOMAIN s : ~Flagged(d, s, i)
     /\ Affordable(d, s)
     /\ status' = [status EXCEPT ![d] = "processed"]
     /\ records' = [records EXCEPT ![d] = s]
     /\ open' = [open EXCEPT ![d] = DOMAIN s]
     /\ quote' = [quote EXCEPT ![d] = Quote(d, s)]
     /\ UNCHANGED <<sheet, tariff, balance, opening, charged, short, apart>>

\* A debit of what some debit covered, or of several documents.
Repeats(c) ==
  /\ c \in Nat
  /\ balance' = balance - c /\ apart' = apart + c
  /\ UNCHANGED <<sheet, tariff, status, records, opening, quote, charged, open, short>>

\* A list of n distinct records of d, J.
ListOf(L, n, d, J) ==
  /\ n \in Nat /\ DOMAIN L = 1..n
  /\ \A k \in 1..n : L[k] = <<L[k][1], L[k][2]>> /\ L[k][1] = d /\ L[k][2] \in DOMAIN records[d]
  /\ \A k, l \in 1..n : L[k] = L[l] => k = l
  /\ J = {L[k][2] : k \in 1..n}

\* Such a list amounts to what its records do.
LEMMA ListTotal ==
  ASSUME NEW L, NEW n, NEW d, NEW J, ListOf(L, n, d, J), Positive(records[d])
  PROVE  Total(L) = Amount(records[d], J) /\ Cardinality(J) = n
<1>1. PICK s : records[d] = s /\ Positive(s)
  OBVIOUS
<1> DEFINE I(S) == {L[k][2] : k \in S}
           f    == [k \in DOMAIN L |-> records[L[k][1]][L[k][2]].amount]
           g    == [i \in DOMAIN s |-> s[i].amount]
           W    == {S \in SUBSET (1..n) : ~(Sum(f, S) = Sum(g, I(S)) /\ Cardinality(I(S)) = Cardinality(S))}
<1>2. /\ n \in Nat /\ DOMAIN L = 1..n
      /\ \A k \in 1..n : L[k] = <<L[k][1], L[k][2]>> /\ L[k][1] = d /\ L[k][2] \in DOMAIN s
      /\ \A k, l \in 1..n : L[k] = L[l] => k = l
      /\ J = I(1..n)
  BY <1>1 DEF ListOf
<1>3. /\ IsFiniteSet(1..n) /\ Cardinality(1..n) = n /\ Ints(f, 1..n) /\ Ints(g, DOMAIN s)
      /\ IsFiniteSet(DOMAIN s) /\ (\A k \in 1..n : f[k] = g[L[k][2]])
      /\ \A k, l \in 1..n : L[k][2] = L[l][2] => k = l
  <2>1. IsFiniteSet(1..n) /\ Cardinality(1..n) = n
    BY <1>2, FS_Interval
  <2>2. IsFiniteSet(DOMAIN s)
    BY <1>1, RowsFinite DEF Positive
  <2>3. \A k \in 1..n : f[k] = g[L[k][2]] /\ f[k] \in Int
    BY <1>1, <1>2 DEF Positive
  <2>4. Ints(f, 1..n) /\ Ints(g, DOMAIN s)
    <3>1. \A i \in DOMAIN s : g[i] \in Int
      BY <1>1 DEF Positive
    <3> HIDE DEF f, g
    <3>2. QED
      BY <2>3, <3>1 DEF Ints
  <2>5. \A k, l \in 1..n : L[k][2] = L[l][2] => k = l
    BY <1>2
  <2>6. QED
    BY <2>1, <2>2, <2>3, <2>4, <2>5
<1> HIDE DEF f, g
<1>4. \A S \in SUBSET (1..n) : I(S) \subseteq DOMAIN s
  BY <1>2
<1>5. W = {}
  <2>1. SUFFICES ASSUME W # {} PROVE FALSE
    OBVIOUS
  <2>2. PICK T \in W : \A U \in W : U \subseteq T => U = T
    <3>1. W \subseteq SUBSET (1..n)
      OBVIOUS
    <3> DEFINE N == 1..n
    <3>2. W \subseteq SUBSET N /\ IsFiniteSet(N)
      BY <1>3, <3>1
    <3> HIDE DEF W, N
    <3>3. QED
      BY <2>1, <3>2, SmallestSubset
  <2>3. T \in SUBSET (1..n) /\ ~(Sum(f, T) = Sum(g, I(T)) /\ Cardinality(I(T)) = Cardinality(T))
    OBVIOUS
  <2>4. CASE T = {}
    <3>1. I(T) = {}
      BY <2>4
    <3>2. Sum(f, T) = Sum(g, I(T)) /\ Cardinality(I(T)) = Cardinality(T)
      BY <2>4, <3>1, SumEmpty
    <3>3. QED
      BY <2>3, <3>2
  <2>5. ASSUME NEW k \in T PROVE FALSE
    <3> DEFINE U == T \ {k}
               i == L[k][2]
    <3>1. U \in SUBSET (1..n) /\ U \subseteq T /\ U # T /\ k \in 1..n
      BY <2>3, <2>5
    <3>2. U \notin W
      BY <2>2, <3>1
    <3>3. Sum(f, U) = Sum(g, I(U)) /\ Cardinality(I(U)) = Cardinality(U)
      BY <3>1, <3>2
    <3>4. i \in I(T) /\ I(T) \ {i} = I(U) /\ I(T) \subseteq DOMAIN s
      BY <1>3, <1>4, <2>3, <3>1
    <3>5. IsFiniteSet(T) /\ IsFiniteSet(I(T)) /\ Ints(f, T) /\ Ints(g, I(T))
      BY <1>3, <2>3, <3>4, FS_Subset DEF Ints
    <3>6. Sum(f, T) = f[k] + Sum(f, U)
      BY <2>5, <3>5, SumLess
    <3> HIDE DEF I, i, U, W
    <3>7. Sum(g, I(T)) = g[i] + Sum(g, I(U))
      BY <3>4, <3>5, SumLess
    <3>8. Cardinality(T) = Cardinality(U) + 1 /\ Cardinality(I(T)) = Cardinality(I(U)) + 1
      <4>1. Cardinality(U) = Cardinality(T) - 1 /\ Cardinality(T) \in Nat
        BY <2>5, <3>5, FS_RemoveElement, FS_CardinalityType DEF U
      <4>2. Cardinality(I(U)) = Cardinality(I(T)) - 1 /\ Cardinality(I(T)) \in Nat
        <5> DEFINE X == I(T)
                   Y == I(U)
        <5>1. i \in X /\ X \ {i} = Y /\ IsFiniteSet(X)
          BY <3>4, <3>5
        <5> HIDE DEF X, Y
        <5>2. Cardinality(X \ {i}) = Cardinality(X) - 1 /\ Cardinality(X) \in Nat
          BY <5>1, FS_RemoveElement, FS_CardinalityType
        <5>3. Cardinality(Y) = Cardinality(X) - 1 /\ Cardinality(X) \in Nat
          BY <5>1, <5>2
        <5>4. QED
          BY <5>3 DEF X, Y
      <4>3. QED
        BY <4>1, <4>2
    <3>9. f[k] = g[i]
      BY <1>3, <3>1 DEF i
    <3>10. QED
      BY <2>3, <3>3, <3>6, <3>7, <3>8, <3>9
  <2>6. QED
    BY <2>4, <2>5
<1>6. 1..n \in SUBSET (1..n)
  OBVIOUS
<1>7. Sum(f, 1..n) = Sum(g, I(1..n)) /\ Cardinality(I(1..n)) = n
  BY <1>3, <1>5, <1>6
<1>8. Sum(f, 1..n) = Total(L)
  BY <1>2 DEF Total, f
<1>9. Sum(g, I(1..n)) = Amount(s, I(1..n))
  <2> DEFINE h == [i \in I(1..n) |-> s[i].amount]
             D == I(1..n)
  <2>1. D \subseteq DOMAIN s
    BY <1>4, <1>6
  <2>2. IsFiniteSet(D) /\ Ints(h, D) /\ \A i \in D : h[i] = g[i]
    BY <1>1, <1>3, <2>1, FS_Subset DEF Ints, g, Positive
  <2>3. Amount(s, D) = Sum(h, D)
    BY DEF Amount
  <2> HIDE DEF h, D
  <2>4. Sum(h, D) = Sum(g, D)
    BY <2>2, SumSame
  <2>5. QED
    BY <2>3, <2>4 DEF D
<1>10. QED
  BY <1>1, <1>2, <1>7, <1>8, <1>9

\* What a report may list, and what it comes to.
LEMMA ListTypes ==
  ASSUME Base, NEW L \in Lists
  PROVE  \E n \in Nat \ {0} :
           /\ DOMAIN L = 1..n /\ Len(L) = n /\ Total(L) \in Nat /\ "vodafone" \in Issuers
           /\ \A k \in 1..n : /\ L[k] = <<L[k][1], L[k][2]>> /\ L[k][1] \in Wallets /\ L[k][1] \in Docs
                              /\ L[k][2] \in DOMAIN records[L[k][1]]
                              /\ records[L[k][1]][L[k][2]].issuer = "vodafone"
<1>1. PICK n \in 1..MaxList : L \in [1..n -> Vodafone]
  BY DEF Lists
<1>2. n \in Nat \ {0} /\ DOMAIN L = 1..n /\ Len(L) = n /\ 1 \in 1..n
  <2>1. n \in Nat \ {0} /\ DOMAIN L = 1..n /\ 1 \in 1..n
    BY <1>1, SheetAssumption
  <2>2. L \in Seq(Vodafone)
    BY <1>1, <2>1
  <2>3. QED
    BY <2>1, <2>2
<1>3. ASSUME NEW k \in 1..n
      PROVE  /\ L[k] = <<L[k][1], L[k][2]>> /\ L[k][1] \in Wallets /\ L[k][1] \in Docs
             /\ L[k][2] \in DOMAIN records[L[k][1]]
             /\ records[L[k][1]][L[k][2]].issuer = "vodafone"
  <2>1. L[k] \in Vodafone
    BY <1>1, <1>3
  <2>2. PICK d \in Wallets : L[k] \in {d} \X {i \in DOMAIN records[d] : records[d][i].issuer = "vodafone"}
    BY <2>1 DEF Vodafone
  <2>3. L[k] = <<L[k][1], L[k][2]>> /\ L[k][1] = d /\ L[k][2] \in DOMAIN records[d]
        /\ records[d][L[k][2]].issuer = "vodafone"
    BY <2>2
  <2>4. QED
    BY <2>3, SheetAssumption
<1>4. \A d \in Docs : records[d] \in Seq(Row) /\ Positive(records[d])
  BY CheckedRows DEF Base, Shape, CheckedInv
<1>5. Total(L) \in Nat
  <2> DEFINE f == [k \in DOMAIN L |-> records[L[k][1]][L[k][2]].amount]
  <2>1. \A k \in DOMAIN L : f[k] \in Nat
    BY <1>2, <1>3, <1>4 DEF Positive
  <2>2. IsFiniteSet(DOMAIN L)
    BY <1>2, FS_Interval
  <2> HIDE DEF f
  <2>3. Sum(f, DOMAIN L) \in Nat
    BY <2>1, <2>2, SumNat
  <2>4. QED
    BY <2>3 DEF Total, f
<1>6. "vodafone" \in Issuers
  BY <1>2, <1>3, <1>4, RowsFinite
<1>7. QED
  BY <1>2, <1>3, <1>5, <1>6

\* A debit is of records not debited before, or is apart.
LEMMA DebitCases ==
  ASSUME NEW L, NEW c \in Nat, Debit(L, c), short' = short
  PROVE  \/ Repeats(c)
         \/ \E d \in Docs :
              /\ First(d, L)
              /\ balance' = balance - c
              /\ charged' = [charged EXCEPT ![d] = @ + c]
              /\ open' = [open EXCEPT ![d] = @ \ {L[k][2] : k \in DOMAIN L}]
              /\ UNCHANGED <<sheet, tariff, status, records, opening, quote, apart>>
BY DEF Debit, Repeats

LEMMA Steps ==
  ASSUME Base, Next
  PROVE  \/ \E d \in Docs :
              \/ status[d] = "uploaded" /\ Refuse(d)
              \/ Accepts(d)
              \/ \E I, u, n : Bills(d, I, u, n)
         \/ \E c : Repeats(c)
<1>1. \A d \in Docs : /\ records[d] \in Seq(Row) /\ open[d] \subseteq DOMAIN records[d]
                      /\ Positive(records[d])
  BY CheckedRows DEF Base, Shape, CheckedInv
<1>2. short \in [Docs -> BOOLEAN] /\ tariff \in [Issuers -> FeeSetup]
  BY DEF Base, Shape
<1>3. ASSUME NEW d \in Docs, Process(d) PROVE (status[d] = "uploaded" /\ Refuse(d)) \/ Accepts(d)
  BY <1>3 DEF Process, Accepts, Saved
<1>4. ASSUME NEW d \in Docs, NEW i \in DOMAIN records[d], Charge(d, i)
      PROVE  (\E I, u, n : Bills(d, I, u, n)) \/ \E c : Repeats(c)
  <2> DEFINE s == records[d]
             L == << <<d, i>> >>
             c == Cost(tariff[s[i].issuer], s[i].amount, 1)
  <2>1. s[i].issuer \in Issuers /\ s[i].amount \in Nat /\ Amount(s, {i}) = s[i].amount
        /\ Cardinality({i}) = 1 /\ IsFiniteSet({i})
    BY <1>1, RowsFinite, AmountOne, FS_Singleton DEF Positive
  <2>2. c \in Nat
    <3>1. tariff[s[i].issuer] \in FeeSetup /\ 1 \in Nat
      BY <1>2, <2>1
    <3>2. QED
      BY <2>1, <3>1, CostType
  <2>3. Debit(L, c) /\ short' = short
    BY <1>4 DEF Charge
  <2>4. DOMAIN L = {1} /\ L[1] = <<d, i>> /\ {L[k][2] : k \in DOMAIN L} = {i}
    OBVIOUS
  <2> HIDE DEF c
  <2>5. ASSUME NEW e \in Docs, First(e, L),
               balance' = balance - c, charged' = [charged EXCEPT ![e] = @ + c],
               open' = [open EXCEPT ![e] = @ \ {L[k][2] : k \in DOMAIN L}],
               UNCHANGED <<sheet, tariff, status, records, opening, quote, apart>>
        PROVE  Bills(d, {i}, s[i].issuer, 1)
    <3>1. e = d /\ i \in open[d]
      BY <2>4, <2>5 DEF First
    <3>2. balance' = balance - c /\ charged' = [charged EXCEPT ![d] = @ + c]
          /\ open' = [open EXCEPT ![d] = @ \ {i}]
      BY <2>4, <2>5, <3>1
    <3>3. c = Cost(tariff[s[i].issuer], Amount(s, {i}), 1)
      BY <2>1 DEF c
    <3>4. {i} # {} /\ {i} \subseteq open[d] /\ (\A j \in {i} : s[j].issuer = s[i].issuer) /\ 1 \in Nat \ {0}
          /\ Cardinality({i}) = 1 /\ short' \in [Docs -> BOOLEAN] /\ \A f \in Docs : short[f] => short'[f]
      BY <1>2, <2>1, <2>3, <3>1
    <3> HIDE DEF L
    <3>5. QED
      BY <2>1, <2>5, <3>2, <3>3, <3>4 DEF Bills
  <2> HIDE DEF L
  <2>6. QED
    BY <2>2, <2>3, <2>5, DebitCases
<1>5. ASSUME NEW L \in Lists, NEW n, DOMAIN L = 1..n, n \in Nat \ {0}, NEW m, m \in {1, n},
             Debit(L, Cost(tariff["vodafone"], Total(L), m)),
             \/ short' = short /\ m = n
             \/ short' = [d \in Docs |-> short[d] \/ First(d, L)] /\ m = 1
      PROVE  (\E d \in Docs : \E I, u, k : Bills(d, I, u, k)) \/ \E c : Repeats(c)
  <2> DEFINE c == Cost(tariff["vodafone"], Total(L), m)
             I == {L[k][2] : k \in 1..n}
  <2>1. /\ Total(L) \in Nat /\ "vodafone" \in Issuers
        /\ \A k \in 1..n : /\ L[k] = <<L[k][1], L[k][2]>> /\ L[k][1] \in Wallets
                           /\ L[k][2] \in DOMAIN records[L[k][1]]
                           /\ records[L[k][1]][L[k][2]].issuer = "vodafone"
    <3>1. PICK q \in Nat \ {0} :
            /\ DOMAIN L = 1..q /\ Len(L) = q /\ Total(L) \in Nat /\ "vodafone" \in Issuers
            /\ \A k \in 1..q : /\ L[k] = <<L[k][1], L[k][2]>> /\ L[k][1] \in Wallets /\ L[k][1] \in Docs
                               /\ L[k][2] \in DOMAIN records[L[k][1]]
                               /\ records[L[k][1]][L[k][2]].issuer = "vodafone"
      BY ListTypes
    <3>2. 1..q = 1..n
      BY <1>5, <3>1
    <3>3. QED
      BY <3>1, <3>2
  <2>2. c \in Nat /\ m \in Nat \ {0}
    <3>1. tariff["vodafone"] \in FeeSetup /\ m \in Nat \ {0}
      BY <1>2, <1>5, <2>1
    <3>2. QED
      BY <2>1, <3>1, CostType
  <2>3. CASE \E d \in Docs : First(d, L)
    <3>1. PICK d \in Docs :
            /\ First(d, L)
            /\ balance' = balance - c
            /\ charged' = [charged EXCEPT ![d] = @ + c]
            /\ open' = [open EXCEPT ![d] = @ \ {L[k][2] : k \in DOMAIN L}]
            /\ UNCHANGED <<sheet, tariff, status, records, opening, quote, apart>>
      BY <1>5, <2>3 DEF Debit
    <3> DEFINE s == records[d]
    <3>2. /\ \A k \in 1..n : L[k][1] = d /\ L[k][2] \in open[d]
          /\ \A k, l \in 1..n : L[k] = L[l] => k = l
          /\ 1 \in 1..n
      BY <1>5, <3>1 DEF First
    <3>3. Positive(s) /\ \A k \in 1..n : L[k][1] = d /\ L[k][2] \in DOMAIN s
      BY <1>1, <3>2
    <3>4. Total(L) = Amount(s, I) /\ Cardinality(I) = n
      <4>1. ListOf(L, n, d, I)
        BY <1>5, <2>1, <3>2, <3>3 DEF ListOf
      <4> HIDE DEF I
      <4>2. QED
        BY <3>3, <4>1, ListTotal
    <3>5. I # {} /\ I \subseteq open[d] /\ d \in Wallets /\ \A i \in I : s[i].issuer = "vodafone"
      BY <2>1, <3>2
    <3>6. short' \in [Docs -> BOOLEAN] /\ (\A e \in Docs : short[e] => short'[e])
          /\ (m = n \/ (m = 1 /\ short'[d]))
      <4>1. CASE short' = short /\ m = n
        BY <1>2, <4>1
      <4>2. CASE short' = [e \in Docs |-> short[e] \/ First(e, L)] /\ m = 1
        <5>1. \A e \in Docs : First(e, L) \in BOOLEAN /\ short[e] \in BOOLEAN
          BY <1>2 DEF First
        <5>2. QED
          BY <3>1, <4>2, <5>1
      <4>3. QED
        BY <1>5, <4>1, <4>2
    <3>7. open' = [open EXCEPT ![d] = @ \ I]
      BY <1>5, <3>1
    <3>8. c = Cost(tariff["vodafone"], Amount(s, I), m)
      BY <3>4
    <3> HIDE DEF I, c
    <3>9. Bills(d, I, "vodafone", m)
      BY <2>1, <2>2, <3>1, <3>4, <3>5, <3>6, <3>7, <3>8 DEF Bills
    <3>10. QED
      BY <3>9
  <2>4. CASE ~\E d \in Docs : First(d, L)
    <3>1. short' = short
      <4>1. [d \in Docs |-> short[d] \/ First(d, L)] = short
        BY <1>2, <2>4
      <4>2. QED
        BY <1>5, <4>1
    <3>2. balance' = balance - c /\ apart' = apart + c
          /\ UNCHANGED <<sheet, tariff, status, records, opening, quote, charged, open>>
      BY <1>5, <2>4 DEF Debit
    <3> HIDE DEF c
    <3>3. Repeats(c)
      BY <2>2, <3>1, <3>2 DEF Repeats
    <3>4. QED
      BY <3>3
  <2>5. QED
    BY <2>3, <2>4
<1>6. ASSUME NEW L \in Lists, ChargeCallback(L) \/ ChargeInquiry(L)
      PROVE  (\E d \in Docs : \E I, u, k : Bills(d, I, u, k)) \/ \E c : Repeats(c)
  <2>1. PICK n \in Nat \ {0} : DOMAIN L = 1..n /\ Len(L) = n
    BY ListTypes
  <2>2. CASE ChargeCallback(L)
    <3>1. Debit(L, Cost(tariff["vodafone"], Total(L), n)) /\ short' = short
      BY <2>1, <2>2 DEF ChargeCallback
    <3>2. QED
      BY <1>5, <2>1, <3>1
  <2>3. CASE ChargeInquiry(L)
    BY <1>5, <2>1, <2>3 DEF ChargeInquiry
  <2>4. QED
    BY <1>6, <2>2, <2>3
<1>7. QED
  BY <1>3, <1>4, <1>6 DEF Next

LEMMA BaseInit == Init => Base
<1> SUFFICES ASSUME Init PROVE Base
  OBVIOUS
<1>1. sheet \in [Docs -> Seq(Row)]
  <2>1. PICK f \in [Docs -> UNION {Sheets[d] : d \in Docs}] :
          sheet = f /\ \A d \in Docs : f[d] \in Sheets[d]
    BY DEF Init
  <2>2. \A d \in Docs : sheet[d] \in Seq(Row)
    BY <2>1, SheetAssumption
  <2>3. QED
    BY <2>1, <2>2
<1>2. tariff \in [Issuers -> FeeSetup]
  BY SheetAssumption DEF Init
<1>3. Shape
  BY <1>1, <1>2, SheetAssumption DEF Init, Shape
<1>4. CheckedInv
  BY DEF Init, CheckedInv
<1>5. BooksInv
  <2>1. Sum(charged, Docs) = 0
    BY SheetAssumption, SumZero DEF Init
  <2>2. QED
    BY <2>1, <1>3 DEF Init, BooksInv, Shape
<1>6. QED
  BY <1>3, <1>4, <1>5 DEF Base

LEMMA DebitShape ==
  ASSUME Base, NEW d \in Docs, NEW I, NEW u, NEW n, Bills(d, I, u, n)
  PROVE  /\ Shape' /\ I \in SUBSET DOMAIN records[d] /\ Positive(records[d])
         /\ Cost(tariff[u], Amount(records[d], I), n) \in Nat
         /\ charged'[d] = charged[d] + Cost(tariff[u], Amount(records[d], I), n)
         /\ \A e \in Docs \ {d} : charged'[e] = charged[e]
<1> DEFINE s == records[d]
           c == Cost(tariff[u], Amount(s, I), n)
<1>1. s \in Seq(Row) /\ Positive(s) /\ I \subseteq open[d] /\ open[d] \subseteq DOMAIN s
  BY CheckedRows DEF Base, Shape, CheckedInv, Bills
<1>2. c \in Nat
  <2>1. tariff[u] \in FeeSetup /\ n \in Nat
    BY DEF Base, Shape, Bills
  <2>2. Amount(s, I) \in Nat
    BY <1>1, AmountType
  <2>3. QED
    BY <2>1, <2>2, CostType
<1> HIDE DEF c
<1>3. /\ balance' = balance - c
      /\ charged' = [charged EXCEPT ![d] = @ + c]
      /\ open' = [open EXCEPT ![d] = @ \ I]
      /\ UNCHANGED <<sheet, tariff, status, records, opening, quote, apart>>
      /\ short' \in [Docs -> BOOLEAN]
  BY DEF Bills, c
<1>4. charged' \in [Docs -> Nat] /\ open' \in [Docs -> SUBSET Nat] /\ balance' \in Int
  BY <1>2, <1>3 DEF Base, Shape
<1>5. \A e \in Docs : open'[e] \subseteq open[e]
  BY <1>3 DEF Base, Shape
<1>6. Shape'
  BY <1>3, <1>4, <1>5 DEF Base, Shape
<1>7. QED
  BY <1>1, <1>2, <1>3, <1>6 DEF Base, Shape, c

LEMMA BaseDebit ==
  ASSUME Base, NEW d \in Docs, NEW I, NEW u, NEW n, Bills(d, I, u, n)
  PROVE  Base'
<1> DEFINE c == Cost(tariff[u], Amount(records[d], I), n)
<1>1. /\ Shape' /\ c \in Nat /\ charged'[d] = charged[d] + c
      /\ \A e \in Docs \ {d} : charged'[e] = charged[e]
  BY DebitShape
<1>2. balance' = balance - c /\ UNCHANGED <<sheet, tariff, status, records, opening, quote, apart>>
      /\ \A e \in Docs : open'[e] \subseteq open[e]
  BY DEF Bills, Base, Shape
<1>3. status[d] = "processed"
  BY DEF Bills, Base, CheckedInv, Shape
<1>4. CheckedInv'
  <2>1. \A e \in Docs : Quote(e, records[e])' = Quote(e, records[e])
    BY <1>2 DEF Quote
  <2>2. QED
    BY <1>1, <1>2, <1>3, <2>1 DEF Base, CheckedInv, Flagged, Duplicate, AmountOK
<1>5. BooksInv'
  <2>1. Ints(charged, Docs) /\ Ints(charged', Docs) /\ IsFiniteSet(Docs \ {d})
    <3>1. IsFiniteSet(Docs \ {d})
      BY SheetAssumption, FS_Subset
    <3>2. charged \in [Docs -> Nat] /\ charged' \in [Docs -> Nat]
      BY <1>1 DEF Base, Shape
    <3>3. QED
      BY <3>1, <3>2 DEF Ints
  <2>2. Sum(charged, Docs) = charged[d] + Sum(charged, Docs \ {d})
    BY <2>1, SheetAssumption, SumLess
  <2>3. Sum(charged', Docs) = charged'[d] + Sum(charged', Docs \ {d})
    BY <2>1, SheetAssumption, SumLess
  <2>4. Sum(charged', Docs \ {d}) = Sum(charged, Docs \ {d}) /\ Sum(charged, Docs \ {d}) \in Int
    BY <1>1, <2>1, SumSame, SumType DEF Ints
  <2>5. charged[d] \in Nat /\ balance \in Int /\ opening \in Int /\ apart \in Nat
    BY DEF Base, Shape
  <2> HIDE DEF c
  <2>6. QED
    BY <1>1, <1>2, <2>2, <2>3, <2>4, <2>5 DEF Base, BooksInv
<1>6. QED
  BY <1>1, <1>4, <1>5 DEF Base

LEMMA BaseAccepts == ASSUME Base, NEW d \in Docs, Accepts(d) PROVE Base'
<1> DEFINE s == sheet[d]
<1>1. s \in Seq(Row) /\ status[d] = "uploaded" /\ \A i \in DOMAIN s : ~Flagged(d, s, i)
  BY DEF Base, Shape, Accepts
<1>2. Positive(s) /\ Quote(d, s) \in Nat /\ DOMAIN s \in SUBSET Nat
  BY <1>1, CheckedRows, QuoteType, RowsFinite DEF Base, Shape
<1>3. /\ status' = [status EXCEPT ![d] = "processed"]
      /\ records' = [records EXCEPT ![d] = s]
      /\ open' = [open EXCEPT ![d] = DOMAIN s]
      /\ quote' = [quote EXCEPT ![d] = Quote(d, s)]
      /\ UNCHANGED <<sheet, tariff, balance, opening, charged, short, apart>>
  BY DEF Accepts
<1>4. Shape'
  <2>1. /\ status' \in [Docs -> {"uploaded", "refused", "processed"}]
        /\ records' \in [Docs -> Seq(Row)] /\ open' \in [Docs -> SUBSET Nat] /\ quote' \in [Docs -> Nat]
    BY <1>1, <1>2, <1>3 DEF Base, Shape
  <2>2. \A e \in Docs : /\ records'[e] = IF status'[e] = "processed" THEN sheet[e] ELSE <<>>
                        /\ open'[e] \subseteq DOMAIN records'[e]
    BY <1>3 DEF Base, Shape
  <2>3. QED
    BY <1>3, <2>1, <2>2 DEF Base, Shape
<1>5. Quote(d, s) <= opening
  <2>1. \A e \in Docs : charged[e] \in Nat
    BY DEF Base, Shape
  <2>2. Sum(charged, Docs) \in Nat
    BY <2>1, SheetAssumption, SumNat
  <2>3. Quote(d, s) <= balance /\ balance \in Int /\ opening \in Int /\ apart \in Nat
    BY DEF Accepts, Affordable, Base, Shape
  <2>4. QED
    BY <1>2, <2>2, <2>3 DEF Base, BooksInv
<1>6. CheckedInv'
  <2>1. ASSUME NEW e \in Docs, e # d
        PROVE  records'[e] = records[e] /\ status'[e] = status[e] /\ open'[e] = open[e] /\ quote'[e] = quote[e]
    BY <1>3, <2>1 DEF Base, Shape
  <2>2. records'[d] = s /\ status'[d] = "processed" /\ quote'[d] = Quote(d, s)
    BY <1>3 DEF Base, Shape
  <2>3. Quote(d, records[d])' = Quote(d, s)
    BY <1>3, <2>2 DEF Quote
  <2>4. \A e \in Docs : e # d => Quote(e, records[e])' = Quote(e, records[e])
    BY <1>3, <2>1 DEF Quote
  <2>5. \A e \in Docs : \A i \in DOMAIN records'[e] : ~Flagged(e, records'[e], i)
    BY <1>1, <2>1, <2>2 DEF Base, CheckedInv
  <2>6. \A e \in Docs : status'[e] = "processed" =>
                         quote'[e] = Quote(e, records[e])' /\ quote'[e] <= opening'
    BY <1>3, <1>5, <2>1, <2>2, <2>3, <2>4 DEF Base, CheckedInv
  <2>7. \A e \in Docs : status'[e] # "processed" => charged'[e] = 0 /\ records'[e] = <<>> /\ open'[e] = {}
    BY <1>3, <2>1, <2>2 DEF Base, CheckedInv
  <2>8. QED
    BY <2>5, <2>6, <2>7 DEF CheckedInv, Flagged, Duplicate, AmountOK
<1>7. BooksInv'
  BY <1>3 DEF Base, BooksInv
<1>8. QED
  BY <1>4, <1>6, <1>7 DEF Base

LEMMA BaseStep == ASSUME Base, [Next]_vars PROVE Base'
<1>1. CASE UNCHANGED vars
  <2>1. \A d \in Docs : Quote(d, records[d])' = Quote(d, records[d])
    BY <1>1 DEF vars, Quote
  <2>2. QED
    BY <1>1, <2>1 DEF vars, Base, Shape, CheckedInv, BooksInv, Flagged, Duplicate, AmountOK
<1>2. ASSUME NEW d \in Docs, status[d] = "uploaded", Refuse(d) PROVE Base'
  <2>1. \A e \in Docs : Quote(e, records[e])' = Quote(e, records[e])
    BY <1>2 DEF Refuse, Quote
  <2>2. Shape'
    BY <1>2 DEF Refuse, Base, Shape
  <2>3. CheckedInv'
    BY <1>2, <2>1 DEF Refuse, Base, Shape, CheckedInv, Flagged, Duplicate, AmountOK
  <2>4. BooksInv'
    BY <1>2 DEF Refuse, Base, BooksInv
  <2>5. QED
    BY <2>2, <2>3, <2>4 DEF Base
<1>3. ASSUME NEW c, Repeats(c) PROVE Base'
  <2>1. \A e \in Docs : Quote(e, records[e])' = Quote(e, records[e])
    BY <1>3 DEF Repeats, Quote
  <2>2. Shape'
    BY <1>3 DEF Repeats, Base, Shape
  <2>3. CheckedInv'
    BY <1>3, <2>1 DEF Repeats, Base, Shape, CheckedInv, Flagged, Duplicate, AmountOK
  <2>4. Sum(charged, Docs) \in Int /\ Sum(charged', Docs) = Sum(charged, Docs)
    <3>1. Ints(charged, Docs) /\ charged' = charged
      BY <1>3 DEF Repeats, Base, Shape, Ints
    <3>2. QED
      BY <3>1, SheetAssumption, SumType
  <2>5. BooksInv'
    <3>1. balance' = balance - c /\ apart' = apart + c /\ c \in Nat /\ opening' = opening
          /\ opening \in Int /\ apart \in Nat /\ balance = opening - Sum(charged, Docs) - apart
      BY <1>3 DEF Repeats, Base, Shape, BooksInv
    <3>2. QED
      BY <2>4, <3>1 DEF BooksInv
  <2>6. QED
    BY <2>2, <2>3, <2>5 DEF Base
<1>4. QED
  BY <1>1, <1>2, <1>3, Steps, BaseAccepts, BaseDebit

LEMMA BaseInvariant == Spec => []Base
<1>1. Base /\ [Next]_vars => Base'
  BY BaseStep
<1>2. QED
  BY <1>1, BaseInit, PTL DEF Spec

\* Shapes; and the records of a document are the rows of its sheet.
THEOREM TypeTheorem == Spec => []TypeOK
<1>1. Base => TypeOK
  BY DEF Base, Shape, TypeOK
<1>2. QED
  BY <1>1, BaseInvariant, PTL

\* No recipient is twice among the records of a document, but for IBANs.
THEOREM RecipientsTheorem == Spec => []RecipientsOnce
<1>1. ASSUME Base PROVE RecipientsOnce
  <2> SUFFICES ASSUME NEW d \in Docs, NEW i \in DOMAIN records[d], NEW j \in DOMAIN records[d]
               PROVE  /\ Recipient[records[d][i].to] # Nobody
                      /\ i # j /\ Recipient[records[d][i].to] = Recipient[records[d][j].to] =>
                           d \in Cards /\ {records[d][i].to, records[d][j].to} \cap Ibans # {}
    BY DEF RecipientsOnce
  <2> DEFINE s == records[d]
             Clash(k, l) == l \in 1..k-1 /\ Recipient[s[k].to] = Recipient[s[l].to]
  <2>1. i \in Nat \ {0} /\ j \in Nat \ {0}
    <3>1. s \in Seq(Row)
      BY <1>1 DEF Base, Shape
    <3>2. QED
      BY <3>1
  <2>2. \A k \in DOMAIN s : ~Flagged(d, s, k)
    BY <1>1 DEF Base, CheckedInv
  <2>3. \A k \in DOMAIN s : Recipient[s[k].to] # Nobody
    BY <2>2 DEF Flagged
  <2>4. \A k, l \in DOMAIN s : Clash(k, l) => d \in Cards /\ s[k].to \in Ibans
    BY <2>2, <2>3 DEF Flagged, Duplicate
  <2>5. i # j => j \in 1..i-1 \/ i \in 1..j-1
    BY <2>1
  <2>6. QED
    BY <2>3, <2>4, <2>5
<1>2. QED
  BY <1>1, BaseInvariant, PTL

-----------------------------------------------------------------------------
(* What is debited against what was quoted *)

\* The records quoted at the fees of one issuer, as how many transactions and at
\* what price.
Part(d, P, u) == {i \in P : QuotedAs(d, records[d][i]) = u}
Count(d, P)   == IF d \in Wallets THEN Cardinality(P) ELSE 1
Price(d, P, u) ==
  IF Part(d, P, u) = {} THEN 0
  ELSE Cost(tariff[u], Amount(records[d], Part(d, P, u)), Count(d, Part(d, P, u)))

\* What the quote would be if the sheet had these rows only.
Bill(d, P) == Sum([u \in Issuers |-> Price(d, P, u)], Issuers)

\* What a quote may have too little for each record.
Lacks(d) == [i \in DOMAIN records[d] |-> 1 + Gross(Flat(d, tariff[records[d][i].issuer]))]

Done(d) == DOMAIN records[d] \ open[d]

\* What has been debited is what the quote would be for these records, but for
\* what it lacks.
BillInv ==
  \A d \in Docs : status[d] = "processed" /\ QuotedAlike(d) =>
    /\ charged[d] <= Bill(d, Done(d)) + Sum(Lacks(d), Done(d))
    /\ ~short[d] => charged[d] >= Bill(d, Done(d)) - Cardinality(Done(d))

LEMMA FlatCovers ==
  ASSUME NEW d, NEW s \in FeeSetup, NEW k, k = 1 => d \notin Wallets
  PROVE  Flat(d, s) \in Nat /\ Covers(Flat(d, s), s, k) /\ Gross(Flat(d, s)) \in Nat
<1> DEFINE x == IF s.type = "percentage" \/ (s.type = "fixed" /\ d \in Wallets) THEN 0 ELSE s.fixed
           S == {s.min, s.max, x}
<1>1. s.min \in Nat /\ s.max \in Nat /\ s.fixed \in Nat /\ x \in Nat
  BY DEF FeeSetup
<1>2. s.type = "mixed" \/ (s.type = "fixed" /\ k = 1) => x = s.fixed
  OBVIOUS
<1> HIDE DEF x
<1>3. \E y \in S : \A z \in S : z <= y
  BY <1>1
<1>4. Flat(d, s) = Largest(S)
  BY DEF Flat, x
<1>5. Largest(S) \in S /\ \A z \in S : z <= Largest(S)
  BY <1>3 DEF Largest
<1>6. Flat(d, s) \in Nat /\ s.min <= Flat(d, s) /\ s.max <= Flat(d, s) /\ x <= Flat(d, s)
  BY <1>1, <1>4, <1>5
<1>7. Gross(Flat(d, s)) \in Nat
  BY <1>6 DEF Gross
<1>8. QED
  BY <1>2, <1>6, <1>7 DEF Covers

\* Records are added to those of a document: what they cost, and their price.
LEMMA PriceMore ==
  ASSUME Base, NEW d \in Docs, NEW P \in SUBSET DOMAIN records[d], NEW I \in SUBSET DOMAIN records[d],
         P \cap I = {}, I # {}, NEW v \in Issuers, \A i \in I : QuotedAs(d, records[d][i]) = v
  PROVE  /\ Cost(tariff[v], Amount(records[d], I), Count(d, I)) \in Nat
         /\ Cost(tariff[v], Amount(records[d], I), 1) <= Cost(tariff[v], Amount(records[d], I), Count(d, I))
         /\ Price(d, P, v) + Cost(tariff[v], Amount(records[d], I), Count(d, I))
              <= Price(d, P \cup I, v) + 1 + Gross(Flat(d, tariff[v]))
         /\ Price(d, P, v) + Cost(tariff[v], Amount(records[d], I), Count(d, I))
              >= Price(d, P \cup I, v) - 1
         /\ Price(d, P, v) <= Price(d, P \cup I, v)
         /\ Price(d, P, v) \in Nat /\ Price(d, P \cup I, v) \in Nat
         /\ \A u \in Issuers \ {v} : Price(d, P \cup I, u) = Price(d, P, u)
<1> DEFINE s == records[d]
           t == tariff[v]
           A == Part(d, P, v)
           a == Amount(s, A)
           b == Amount(s, I)
           n == Count(d, I)
           g == Flat(d, t)
<1>1. Positive(s) /\ t \in FeeSetup
  BY CheckedRows DEF Base, Shape, CheckedInv
<1>2. A \in SUBSET DOMAIN s /\ A \cap I = {}
  BY DEF Part
<1>3. Part(d, P \cup I, v) = A \cup I /\ A \cup I # {}
  BY DEF Part
<1>4. \A u \in Issuers \ {v} : Part(d, P \cup I, u) = Part(d, P, u)
  BY DEF Part
<1>5. IsFiniteSet(A) /\ IsFiniteSet(I) /\ Cardinality(A) \in Nat /\ Cardinality(I) \in Nat \ {0}
      /\ a \in Nat /\ b \in Nat
  BY <1>1, <1>2, AmountType, FS_EmptySet
<1>6. n \in Nat \ {0} /\ Cost(t, b, n) \in Nat
  <2>1. n \in Nat \ {0}
    BY <1>5 DEF Count
  <2> HIDE DEF n
  <2>2. QED
    BY <1>1, <1>5, <2>1, CostType
<1>7. Cost(t, b, 1) <= Cost(t, b, n)
  <2>1. CASE n = 1
    BY <1>6, <2>1
  <2>2. CASE n # 1
    <3> DEFINE m == n - 1
    <3>1. d \in Wallets /\ m \in Nat \ {0} /\ n = 1 + m
      BY <1>6, <2>2 DEF Count
    <3> HIDE DEF m, n
    <3>2. Counts(1, m, n) /\ n # 1 /\ n \in Nat
      BY <3>1 DEF Counts
    <3>3. Covers(g, t, n)
      BY <1>1, <3>2, FlatCovers
    <3>4. Cost(t, b, 1) <= Cost(t, b + 0, n)
      BY <1>1, <1>5, <3>2, <3>3, CostOfSum
    <3>5. b + 0 = b
      BY <1>5
    <3>6. QED
      BY <3>4, <3>5
  <2>3. QED
    BY <2>1, <2>2
<1>8. \A u \in Issuers \ {v} : Price(d, P \cup I, u) = Price(d, P, u)
  BY <1>4 DEF Price
<1>9. g \in Nat /\ Gross(g) \in Nat
  <2>1. \E k : k = 2
    OBVIOUS
  <2>2. QED
    BY <1>1, <2>1, FlatCovers
<1>10. CASE A = {}
  <2>1. Price(d, P, v) = 0 /\ Price(d, P \cup I, v) = Cost(t, b, n)
    BY <1>3, <1>10 DEF Price
  <2> HIDE DEF g, n, b, t
  <2>2. QED
    BY <1>6, <1>7, <1>8, <1>9, <2>1 DEF g, n, b, t
<1>11. CASE A # {}
  <2> DEFINE m == Count(d, A)
             k == Count(d, A \cup I)
             c == Amount(s, A \cup I)
  <2>1. Cardinality(A) \in Nat \ {0}
    BY <1>5, <1>11, FS_EmptySet
  <2>2. c = a + b /\ Cardinality(A \cup I) = Cardinality(A) + Cardinality(I)
    BY <1>1, <1>2, AmountUnion
  <2>3. Counts(m, n, k) /\ (k = 1 => d \notin Wallets)
    BY <1>5, <2>1, <2>2 DEF Counts, Count
  <2>4. Price(d, P, v) = Cost(t, a, m) /\ Price(d, P \cup I, v) = Cost(t, a + b, k)
    BY <1>3, <1>11, <2>2 DEF Price
  <2> HIDE DEF m, k, n, c, a, b
  <2>5. Covers(g, t, k)
    BY <1>1, <2>3, FlatCovers
  <2> HIDE DEF g, t
  <2>6. /\ Cost(t, a, m) + Cost(t, b, n) <= Cost(t, a + b, k) + 1 + Gross(g)
        /\ Cost(t, a, m) + Cost(t, b, n) >= Cost(t, a + b, k) - 1
        /\ Cost(t, a, m) <= Cost(t, a + b, k)
    BY <1>1, <1>5, <2>3, <2>5, CostOfSum
  <2>7. Cost(t, a, m) \in Nat /\ Cost(t, a + b, k) \in Nat
    <3>1. m \in Nat /\ k \in Nat /\ a + b \in Nat
      BY <1>5, <2>3 DEF Counts
    <3>2. QED
      BY <1>1, <1>5, <3>1, CostType
  <2>8. QED
    BY <1>6, <1>7, <1>8, <2>4, <2>6, <2>7 DEF g, t, a, b, n
<1>12. QED
  BY <1>10, <1>11

LEMMA PriceType ==
  ASSUME Base, NEW d \in Docs, NEW P \in SUBSET DOMAIN records[d], NEW u \in Issuers
  PROVE  Price(d, P, u) \in Nat
<1> DEFINE s == records[d]
           A == Part(d, P, u)
<1>1. Positive(s) /\ tariff[u] \in FeeSetup
  BY CheckedRows DEF Base, Shape, CheckedInv
<1>2. A \in SUBSET DOMAIN s
  BY DEF Part
<1>3. Amount(s, A) \in Nat /\ Count(d, A) \in Nat
  BY <1>1, <1>2, AmountType DEF Count
<1>4. Cost(tariff[u], Amount(s, A), Count(d, A)) \in Nat
  BY <1>1, <1>3, CostType
<1>5. QED
  BY <1>4 DEF Price

LEMMA BillMore ==
  ASSUME Base, NEW d \in Docs, NEW P \in SUBSET DOMAIN records[d], NEW I \in SUBSET DOMAIN records[d],
         P \cap I = {}, I # {}, NEW v \in Issuers, \A i \in I : QuotedAs(d, records[d][i]) = v
  PROVE  /\ Bill(d, P) + Cost(tariff[v], Amount(records[d], I), Count(d, I))
              <= Bill(d, P \cup I) + 1 + Gross(Flat(d, tariff[v]))
         /\ Bill(d, P) + Cost(tariff[v], Amount(records[d], I), Count(d, I)) >= Bill(d, P \cup I) - 1
         /\ Bill(d, P) \in Nat /\ Bill(d, P \cup I) \in Nat
<1> DEFINE Q == P \cup I
           f == [u \in Issuers |-> Price(d, P, u)]
           g == [u \in Issuers |-> Price(d, Q, u)]
           c == Cost(tariff[v], Amount(records[d], I), Count(d, I))
           w == Gross(Flat(d, tariff[v]))
<1>1. /\ f[v] + c <= g[v] + 1 + w /\ f[v] + c >= g[v] - 1 /\ c \in Nat /\ w \in Nat
      /\ \A u \in Issuers \ {v} : g[u] = f[u]
  <2>1. tariff[v] \in FeeSetup /\ \E k : k = 2
    BY DEF Base, Shape
  <2>2. w \in Nat
    BY <2>1, FlatCovers
  <2>3. QED
    BY <2>2, PriceMore, ZenonT(60)
<1>2. \A u \in Issuers : f[u] \in Nat /\ g[u] \in Nat
  <2>1. Q \in SUBSET DOMAIN records[d]
    OBVIOUS
  <2>2. QED
    BY <2>1, PriceType
<1> HIDE DEF f, g, c, w
<1>3. IsFiniteSet(Issuers) /\ IsFiniteSet(Issuers \ {v}) /\ Ints(f, Issuers) /\ Ints(g, Issuers)
      /\ Ints(f, Issuers \ {v})
  BY <1>2, SheetAssumption, FS_Subset DEF Ints
<1>4. Sum(f, Issuers) \in Nat /\ Sum(g, Issuers) \in Nat /\ Sum(f, Issuers \ {v}) \in Int
  BY <1>2, <1>3, SumNat, SumType
<1>5. Sum(f, Issuers) = f[v] + Sum(f, Issuers \ {v}) /\ Sum(g, Issuers) = g[v] + Sum(g, Issuers \ {v})
  BY <1>3, SumLess
<1>6. Sum(f, Issuers \ {v}) = Sum(g, Issuers \ {v})
  BY <1>1, <1>3, SumSame
<1>7. /\ Sum(f, Issuers) + c <= Sum(g, Issuers) + 1 + w
      /\ Sum(f, Issuers) + c >= Sum(g, Issuers) - 1
  BY <1>1, <1>2, <1>4, <1>5, <1>6
<1>8. Bill(d, P) = Sum(f, Issuers) /\ Bill(d, Q) = Sum(g, Issuers)
  BY DEF Bill, f, g
<1>9. QED
  BY <1>4, <1>7, <1>8 DEF c, w

LEMMA BillPart ==
  ASSUME Base, NEW d \in Docs, NEW P \in SUBSET DOMAIN records[d]
  PROVE  Bill(d, P) \in Nat /\ Bill(d, P) <= Bill(d, DOMAIN records[d])
<1> DEFINE D == DOMAIN records[d]
           f == [u \in Issuers |-> Price(d, P, u)]
           g == [u \in Issuers |-> Price(d, D, u)]
<1>1. \A u \in Issuers : f[u] \in Nat /\ g[u] \in Nat
  BY PriceType
<1>2. ASSUME NEW u \in Issuers PROVE f[u] <= g[u]
  <2> DEFINE I == Part(d, D, u) \ Part(d, P, u)
  <2>1. I \in SUBSET D /\ P \cap I = {} /\ \A i \in I : QuotedAs(d, records[d][i]) = u
    BY DEF Part
  <2>2. Part(d, P \cup I, u) = Part(d, D, u)
    BY DEF Part
  <2>3. Price(d, P \cup I, u) = Price(d, D, u)
    BY <2>2 DEF Price
  <2>4. CASE I = {}
    <3>1. P \cup I = P
      BY <2>4
    <3>2. QED
      BY <1>1, <2>3, <3>1
  <2>5. CASE I # {}
    <3> HIDE DEF I
    <3>1. Price(d, P, u) <= Price(d, P \cup I, u)
      BY <2>1, <2>5, PriceMore
    <3>2. QED
      BY <2>3, <3>1
  <2>6. QED
    BY <2>4, <2>5
<1> HIDE DEF f, g
<1>3. Sum(f, Issuers) \in Nat /\ Sum(f, Issuers) <= Sum(g, Issuers)
  BY <1>1, <1>2, SheetAssumption, SumNat, SumLe DEF Ints
<1>4. QED
  BY <1>3 DEF Bill, f, g

LEMMA BillEmpty == \A d \in Docs : Bill(d, {}) = 0
<1> SUFFICES ASSUME NEW d \in Docs PROVE Bill(d, {}) = 0
  OBVIOUS
<1> DEFINE f == [u \in Issuers |-> Price(d, {}, u)]
<1>1. \A u \in Issuers : f[u] = 0
  BY DEF Price, Part
<1> HIDE DEF f
<1>2. Sum(f, Issuers) = 0
  BY <1>1, SheetAssumption, SumZero
<1>3. QED
  BY <1>2 DEF Bill, f

\* The bill of all records is the quote, unless there are none.
LEMMA BillIsQuote ==
  ASSUME Base, NEW d \in Docs
  PROVE  /\ Bill(d, DOMAIN records[d]) <= Quote(d, records[d])
         /\ records[d] # <<>> => Bill(d, DOMAIN records[d]) = Quote(d, records[d])
<1> DEFINE s == records[d]
           D == DOMAIN s
           f == [u \in Issuers |-> Price(d, D, u)]
<1>1. s \in Seq(Row) /\ Positive(s) /\ tariff \in [Issuers -> FeeSetup]
  BY CheckedRows DEF Base, Shape, CheckedInv
<1>2. Quote(d, s) \in Nat /\ Ints(f, Issuers) /\ IsFiniteSet(Issuers)
  BY <1>1, QuoteType, PriceType, SheetAssumption DEF Ints
<1>3. CASE d \in Wallets
  <2> DEFINE U == Used(s)
             g == [u \in U |-> Cost(tariff[u], Amount(s, Of(s, u)), Cardinality(Of(s, u)))]
  <2>1. IsFiniteSet(U) /\ U \subseteq Issuers /\ IsFiniteSet(Issuers \ U)
    BY <1>2, UsedFinite, FS_Subset
  <2>2. \A u \in Issuers : Part(d, D, u) = Of(s, u)
    BY <1>3 DEF Part, Of, QuotedAs
  <2>3. \A u \in U : f[u] = g[u]
    BY <1>3, <2>1, <2>2 DEF Price, Count, Used
  <2>4. \A u \in Issuers \ U : f[u] = 0
    BY <2>2 DEF Price, Used
  <2>5. Quote(d, s) = Sum(g, U)
    BY <1>3 DEF Quote
  <2>6. Bill(d, D) = Sum(f, Issuers)
    BY DEF Bill
  <2> HIDE DEF f, g, U
  <2>7. Ints(f, U) /\ Ints(f, U \cup (Issuers \ U)) /\ U \cup (Issuers \ U) = Issuers
    BY <1>2, <2>1 DEF Ints
  <2>8. Sum(f, Issuers) = Sum(f, U) + Sum(f, Issuers \ U)
    <3>1. Sum(f, U \cup (Issuers \ U)) = Sum(f, U) + Sum(f, Issuers \ U)
      BY <2>1, <2>7, SumUnion
    <3>2. QED
      BY <2>7, <3>1
  <2>9. Sum(f, Issuers \ U) = 0
    BY <2>1, <2>4, SumZero
  <2>10. Sum(f, U) = Sum(g, U)
    BY <2>1, <2>3, <2>7, SumSame
  <2>11. QED
    BY <1>2, <2>5, <2>6, <2>8, <2>9, <2>10
<1>4. CASE d \notin Wallets
  <2> DEFINE v == Bank(d)
  <2>1. v \in Issuers /\ \A i \in D : QuotedAs(d, s[i]) = v
    BY <1>4, SheetAssumption DEF Bank, QuotedAs
  <2>2. CASE s = <<>>
    <3>1. D = {}
      BY <2>2
    <3>2. QED
      BY <1>2, <2>2, <3>1, BillEmpty
  <2>3. CASE s # <<>>
    <3>1. D # {}
      <4>1. Len(s) \in Nat \ {0} /\ D = 1..Len(s)
        BY <1>1, <2>3, EmptySeq
      <4>2. QED
        BY <4>1
    <3>2. Part(d, D, v) = D /\ \A u \in Issuers \ {v} : Part(d, D, u) = {}
      BY <2>1 DEF Part
    <3>3. f[v] = Quote(d, s) /\ \A u \in Issuers \ {v} : f[u] = 0
      BY <1>4, <2>1, <3>1, <3>2 DEF Price, Count, Quote, Bank
    <3>4. Bill(d, D) = Sum(f, Issuers)
      BY DEF Bill
    <3> HIDE DEF f, v
    <3>5. Sum(f, Issuers) = f[v] + Sum(f, Issuers \ {v})
      BY <1>2, <2>1, SumLess
    <3>6. Sum(f, Issuers \ {v}) = 0
      BY <1>2, <3>3, FS_Subset, SumZero
    <3>7. QED
      BY <1>2, <3>3, <3>4, <3>5, <3>6
  <2>4. QED
    BY <2>2, <2>3
<1>5. QED
  BY <1>3, <1>4

LEMMA LacksType ==
  ASSUME Base, NEW d \in Docs, NEW P \in SUBSET DOMAIN records[d]
  PROVE  IsFiniteSet(P) /\ (\A i \in P : Lacks(d)[i] \in Nat) /\ Sum(Lacks(d), P) \in Nat
<1>1. IsFiniteSet(P)
  BY RowsFinite, FS_Subset DEF Base, Shape
<1>2. ASSUME NEW i \in P PROVE Lacks(d)[i] \in Nat
  <2>1. tariff[records[d][i].issuer] \in FeeSetup
    BY RowsFinite DEF Base, Shape
  <2>2. \E k : k = 2
    OBVIOUS
  <2>3. Gross(Flat(d, tariff[records[d][i].issuer])) \in Nat
    BY <2>1, <2>2, FlatCovers, SMTT(30)
  <2>4. QED
    BY <2>3 DEF Lacks
<1>3. QED
  BY <1>1, <1>2, SumNat

\* Nothing a bill or a lack depends on is changed.
LEMMA BillSame ==
  ASSUME NEW d, records'[d] = records[d], tariff' = tariff, open'[d] = open[d]
  PROVE  /\ Bill(d, Done(d))' = Bill(d, Done(d)) /\ Sum(Lacks(d), Done(d))' = Sum(Lacks(d), Done(d))
         /\ QuotedAlike(d)' = QuotedAlike(d) /\ Done(d)' = Done(d)
<1>1. Done(d)' = Done(d)
  BY DEF Done
<1>2. Sum(Lacks(d), Done(d))' = Sum(Lacks(d), Done(d))
  BY DEF Done, Lacks
<1>3. QuotedAlike(d)' = QuotedAlike(d)
  BY DEF QuotedAlike, QuotedAs
<1>4. Bill(d, Done(d))' = Bill(d, Done(d))
  BY DEF Bill, Price, Part, Count, QuotedAs, Done
<1>5. QED
  BY <1>1, <1>2, <1>3, <1>4

LEMMA BillDebit ==
  ASSUME Base, BillInv, NEW d \in Docs, NEW I, NEW u, NEW n, Bills(d, I, u, n)
  PROVE  BillInv'
<1> DEFINE s == records[d]
           t == tariff[u]
           P == Done(d)
           Q == P \cup I
           a == Amount(s, I)
           c == Cost(t, a, n)
<1>1. /\ I \in SUBSET DOMAIN s /\ Positive(s) /\ c \in Nat /\ charged'[d] = charged[d] + c
      /\ \A e \in Docs \ {d} : charged'[e] = charged[e]
  BY DebitShape
<1>2. /\ UNCHANGED <<sheet, tariff, status, records, opening, quote, apart>>
      /\ open'[d] = open[d] \ I /\ \A e \in Docs \ {d} : open'[e] = open[e]
  BY DEF Bills, Base, Shape
<1>3. I # {} /\ I \subseteq open[d] /\ u \in Issuers /\ (\A i \in I : s[i].issuer = u) /\ n \in Nat \ {0}
      /\ (n = Cardinality(I) \/ (n = 1 /\ short'[d])) /\ (d \in Wallets \/ Cardinality(I) = 1)
      /\ \A e \in Docs : short[e] => short'[e]
  BY DEF Bills
<1>4. ASSUME NEW e \in Docs, e # d, status'[e] = "processed", QuotedAlike(e)'
      PROVE  /\ charged'[e] <= Bill(e, Done(e))' + Sum(Lacks(e), Done(e))'
             /\ ~short'[e] => charged'[e] >= Bill(e, Done(e))' - Cardinality(Done(e))'
  <2>1. /\ Bill(e, Done(e))' = Bill(e, Done(e)) /\ Sum(Lacks(e), Done(e))' = Sum(Lacks(e), Done(e))
        /\ QuotedAlike(e)' = QuotedAlike(e) /\ Done(e)' = Done(e)
    BY <1>2, <1>4, BillSame
  <2>2. Cardinality(Done(e))' = Cardinality(Done(e))
    BY <2>1
  <2>3. QED
    BY <1>1, <1>2, <1>3, <1>4, <2>1, <2>2 DEF BillInv
<1>5. ASSUME status'[d] = "processed", QuotedAlike(d)'
      PROVE  /\ charged'[d] <= Bill(d, Done(d))' + Sum(Lacks(d), Done(d))'
             /\ ~short'[d] => charged'[d] >= Bill(d, Done(d))' - Cardinality(Done(d))'
  <2> DEFINE v == QuotedAs(d, s[CHOOSE i \in I : TRUE])
             w == Gross(Flat(d, t))
             C == Cost(t, a, Count(d, I))
  <2>1. QuotedAlike(d)
    BY <1>2, <1>5 DEF QuotedAlike, QuotedAs
  <2>2. PICK i \in I : TRUE
    BY <1>3
  <2>3. v \in Issuers /\ (\A j \in I : QuotedAs(d, s[j]) = v) /\ tariff[v] = t
    <3>1. \A j \in I : QuotedAs(d, s[j]) = IF d \in Wallets THEN u ELSE Bank(d)
      BY <1>3 DEF QuotedAs, Bank
    <3>2. \A j \in I : tariff[QuotedAs(d, s[j])] = t
      BY <1>1, <1>3, <2>1 DEF QuotedAlike
    <3>3. (CHOOSE j \in I : TRUE) \in I
      BY <2>2
    <3>4. QED
      BY <1>3, <3>1, <3>2, <3>3, SheetAssumption DEF Bank
  <2>4. P \in SUBSET DOMAIN s /\ P \cap I = {}
    BY <1>3 DEF Done
  <2>5. Done(d)' = Q /\ Q \in SUBSET DOMAIN s
    BY <1>1, <1>2, <1>3 DEF Done, Base, Shape
  <2>6. Bill(d, Done(d))' = Bill(d, Q)
    <3>1. DOMAIN records'[d] \ open'[d] = Q
      BY <2>5 DEF Done
    <3> HIDE DEF Q
    <3>2. QED
      BY <1>2, <3>1 DEF Bill, Price, Part, Count, QuotedAs, Done
  <2>7. Sum(Lacks(d), Done(d))' = Sum(Lacks(d), Q)
    <3>1. Lacks(d)' = Lacks(d)
      BY <1>2 DEF Lacks
    <3>2. Sum(Lacks(d), Done(d))' = Sum(Lacks(d)', Done(d)')
      OBVIOUS
    <3> HIDE DEF Q
    <3>3. QED
      BY <2>5, <3>1, <3>2
  <2>8. /\ Bill(d, P) + C <= Bill(d, Q) + 1 + w
        /\ Bill(d, P) + C >= Bill(d, Q) - 1
        /\ Bill(d, P) \in Nat /\ Bill(d, Q) \in Nat
    <3> HIDE DEF v, P
    <3>1. QED
      BY <1>1, <1>3, <2>3, <2>4, BillMore
  <2>9. C \in Nat /\ Cost(t, a, 1) <= C
    <3> HIDE DEF v, P
    <3>1. QED
      BY <1>1, <1>3, <2>3, <2>4, PriceMore
  <2>10. c <= C /\ (~short'[d] => c = C)
    <3>1. n = Count(d, I) \/ (n = 1 /\ short'[d])
      BY <1>3 DEF Count
    <3> HIDE DEF c, C
    <3>2. CASE n = Count(d, I)
      <4>1. c = C
        BY <3>2 DEF c, C
      <4>2. QED
        BY <2>9, <4>1
    <3>3. CASE n = 1 /\ short'[d]
      <4>1. c = Cost(t, a, 1)
        BY <3>3 DEF c
      <4>2. QED
        BY <2>9, <3>3, <4>1
    <3>4. QED
      BY <3>1, <3>2, <3>3
  <2>11. /\ Sum(Lacks(d), Q) = Sum(Lacks(d), P) + Sum(Lacks(d), I) /\ 1 + w <= Sum(Lacks(d), I)
         /\ Sum(Lacks(d), P) \in Nat /\ Sum(Lacks(d), I) \in Nat /\ w \in Nat
    <3>1. /\ IsFiniteSet(P) /\ IsFiniteSet(I) /\ IsFiniteSet({i})
          /\ (\A j \in P \cup I : Lacks(d)[j] \in Nat)
          /\ Sum(Lacks(d), P) \in Nat /\ Sum(Lacks(d), I) \in Nat
      <4>1. {i} \in SUBSET DOMAIN s
        BY <1>1
      <4> HIDE DEF P
      <4>2. QED
        BY <1>1, <2>4, <4>1, LacksType
    <3>2. Ints(Lacks(d), P \cup I)
      BY <3>1 DEF Ints
    <3>3. Lacks(d)[i] = 1 + w
      BY <1>1, <1>3 DEF Lacks
    <3>4. w \in Nat
      <4>1. t \in FeeSetup /\ \E k : k = 2
        BY <1>3 DEF Base, Shape
      <4>2. QED
        BY <4>1, FlatCovers
    <3>5. Sum(Lacks(d), {i}) = Lacks(d)[i]
      <4>1. Sum(Lacks(d), {i}) = Lacks(d)[i] + Sum(Lacks(d), {i} \ {i})
        BY <3>1, SumLess DEF Ints
      <4>2. {i} \ {i} = {}
        OBVIOUS
      <4>3. Lacks(d)[i] \in Nat
        BY <3>1
      <4>4. QED
        BY <4>1, <4>2, <4>3, SumEmpty
    <3>6. Sum(Lacks(d), {i}) <= Sum(Lacks(d), I)
      BY <3>1, SumPart
    <3> HIDE DEF P, w
    <3>7. QED
      BY <2>4, <3>1, <3>2, <3>3, <3>4, <3>5, <3>6, SumUnion
  <2>12. /\ Cardinality(Done(d))' = Cardinality(Q) /\ Cardinality(P) \in Nat
         /\ Cardinality(Q) \in Nat /\ Cardinality(Q) >= Cardinality(P) + 1
    <3>1. Cardinality(Q) = Cardinality(P) + Cardinality(I) /\ Cardinality(P) \in Nat
          /\ IsFiniteSet(I) /\ Cardinality(I) \in Nat
      <4> HIDE DEF P
      <4>1. QED
        BY <1>1, <2>4, AmountUnion, AmountType
    <3>2. Cardinality(I) # 0
      BY <1>3, <3>1, FS_EmptySet
    <3>3. Cardinality(Done(d))' = Cardinality(Done(d)')
      OBVIOUS
    <3> HIDE DEF P, Q
    <3>4. QED
      BY <2>5, <3>1, <3>2, <3>3
  <2>13. /\ charged[d] <= Bill(d, P) + Sum(Lacks(d), P)
         /\ ~short[d] => charged[d] >= Bill(d, P) - Cardinality(P)
         /\ charged[d] \in Nat
    BY <1>2, <1>5, <2>1 DEF BillInv, Base, Shape
  <2> HIDE DEF P, Q, c, C, w
  <2>14. charged'[d] <= Bill(d, Q) + Sum(Lacks(d), Q)
    BY <1>1, <2>8, <2>9, <2>10, <2>11, <2>13
  <2>15. ~short'[d] => charged'[d] >= Bill(d, Q) - Cardinality(Q)
    <3> SUFFICES ASSUME ~short'[d] PROVE charged'[d] >= Bill(d, Q) - Cardinality(Q)
      OBVIOUS
    <3>1. c = C /\ charged[d] >= Bill(d, P) - Cardinality(P)
      BY <1>3, <2>10, <2>13
    <3>2. QED
      BY <1>1, <2>8, <2>9, <2>12, <2>13, <3>1
  <2>16. QED
    BY <2>6, <2>7, <2>12, <2>14, <2>15
<1>6. QED
  <2>1. ASSUME NEW e \in Docs, status'[e] = "processed", QuotedAlike(e)'
        PROVE  /\ charged'[e] <= Bill(e, Done(e))' + Sum(Lacks(e), Done(e))'
               /\ ~short'[e] => charged'[e] >= Bill(e, Done(e))' - Cardinality(Done(e))'
    <3>1. CASE e = d
      BY <1>5, <2>1, <3>1
    <3>2. CASE e # d
      BY <1>4, <2>1, <3>2
    <3>3. QED
      BY <3>1, <3>2
  <2>2. QED
    BY <2>1 DEF BillInv

LEMMA BillAccepts == ASSUME Base, BillInv, NEW d \in Docs, Accepts(d) PROVE BillInv'
<1> SUFFICES ASSUME NEW e \in Docs, status'[e] = "processed", QuotedAlike(e)'
             PROVE  /\ charged'[e] <= Bill(e, Done(e))' + Sum(Lacks(e), Done(e))'
                    /\ ~short'[e] => charged'[e] >= Bill(e, Done(e))' - Cardinality(Done(e))'
  BY DEF BillInv
<1>1. /\ tariff' = tariff /\ charged' = charged /\ short' = short
      /\ (e # d => records'[e] = records[e] /\ open'[e] = open[e] /\ status'[e] = status[e])
      /\ DOMAIN records'[d] \ open'[d] = {}
  BY DEF Accepts, Base, Shape
<1>2. CASE e # d
  <2>1. /\ Bill(e, Done(e))' = Bill(e, Done(e)) /\ Sum(Lacks(e), Done(e))' = Sum(Lacks(e), Done(e))
        /\ QuotedAlike(e)' = QuotedAlike(e) /\ Done(e)' = Done(e)
    BY <1>1, <1>2, BillSame
  <2>2. Cardinality(Done(e))' = Cardinality(Done(e))
    BY <2>1
  <2>3. QED
    BY <1>1, <1>2, <2>1, <2>2 DEF BillInv
<1>3. CASE e = d
  <2>1. Bill(d, Done(d))' = 0
    <3>1. Bill(d, {})' = 0
      <4> DEFINE f == [u \in Issuers |-> Price(d, {}, u)']
      <4>1. \A u \in Issuers : f[u] = 0
        BY DEF Price, Part
      <4>2. Bill(d, {})' = Sum(f, Issuers)
        BY DEF Bill
      <4> HIDE DEF f
      <4>3. QED
        BY <4>1, <4>2, SheetAssumption, SumZero
    <3>2. Bill(d, Done(d))' = Bill(d, {})'
      BY <1>1 DEF Bill, Price, Part, Count, QuotedAs, Done
    <3>3. QED
      BY <3>1, <3>2
  <2>2. Sum(Lacks(d), Done(d))' = 0 /\ Cardinality(Done(d))' = 0
    <3>1. Done(d)' = {} /\ Sum(Lacks(d), Done(d))' = Sum(Lacks(d)', Done(d)')
          /\ Cardinality(Done(d))' = Cardinality(Done(d)')
      BY <1>1 DEF Done
    <3>2. QED
      BY <3>1, SumEmpty, FS_EmptySet
  <2>3. charged[d] = 0
    BY DEF Accepts, Base, CheckedInv
  <2>4. QED
    BY <1>1, <1>3, <2>1, <2>2, <2>3
<1>4. QED
  BY <1>2, <1>3

LEMMA BillStep == ASSUME Base, BillInv, [Next]_vars PROVE BillInv'
<1>1. ASSUME UNCHANGED <<tariff, records, open, charged, short>>,
             \A d \in Docs : status'[d] = "processed" => status[d] = "processed"
      PROVE  BillInv'
  <2> SUFFICES ASSUME NEW d \in Docs, status'[d] = "processed", QuotedAlike(d)'
               PROVE  /\ charged'[d] <= Bill(d, Done(d))' + Sum(Lacks(d), Done(d))'
                      /\ ~short'[d] => charged'[d] >= Bill(d, Done(d))' - Cardinality(Done(d))'
    BY DEF BillInv
  <2>1. /\ Bill(d, Done(d))' = Bill(d, Done(d)) /\ Sum(Lacks(d), Done(d))' = Sum(Lacks(d), Done(d))
        /\ QuotedAlike(d)' = QuotedAlike(d) /\ Done(d)' = Done(d)
    BY <1>1, BillSame
  <2>2. Cardinality(Done(d))' = Cardinality(Done(d))
    BY <2>1
  <2>3. QED
    BY <1>1, <2>1, <2>2 DEF BillInv
<1>2. CASE UNCHANGED vars
  BY <1>1, <1>2 DEF vars
<1>3. ASSUME NEW d \in Docs, status[d] = "uploaded", Refuse(d) PROVE BillInv'
  BY <1>1, <1>3 DEF Refuse, Base, Shape
<1>4. ASSUME NEW c, Repeats(c) PROVE BillInv'
  BY <1>1, <1>4 DEF Repeats
<1>5. QED
  BY <1>2, <1>3, <1>4, Steps, BillAccepts, BillDebit

LEMMA BillInvariant == Spec => [](Base /\ BillInv)
<1>1. Init => BillInv
  BY DEF Init, BillInv
<1>2. Base /\ BillInv /\ [Next]_vars => BillInv'
  BY BillStep
<1>3. QED
  BY <1>1, <1>2, BaseInvariant, PTL DEF Spec

\* A document costs no more than its quote but for what that lacks.
LEMMA ChargedWithin ==
  ASSUME Base, BillInv, NEW d \in Docs, status[d] = "processed", QuotedAlike(d)
  PROVE  /\ charged[d] <= quote[d] + Slack(d) /\ Slack(d) \in Nat
         /\ records[d] # <<>> /\ open[d] = {} /\ ~short[d] => charged[d] >= quote[d] - Len(records[d])
<1> DEFINE s == records[d]
           D == DOMAIN s
           P == Done(d)
<1>1. P \in SUBSET D
  BY DEF Done
<1>2. Slack(d) = Sum(Lacks(d), D)
  BY DEF Slack, Lacks
<1>3. Bill(d, P) \in Nat /\ Bill(d, P) <= Bill(d, D) /\ Bill(d, D) \in Nat
  BY <1>1, BillPart
<1>4. Bill(d, D) <= quote[d] /\ (s # <<>> => Bill(d, D) = quote[d])
  BY BillIsQuote DEF Base, CheckedInv
<1>5. Sum(Lacks(d), D) \in Nat /\ Sum(Lacks(d), P) \in Nat /\ Sum(Lacks(d), P) <= Sum(Lacks(d), D)
  <2>1. IsFiniteSet(D) /\ (\A i \in D : Lacks(d)[i] \in Nat)
        /\ Sum(Lacks(d), D) \in Nat /\ Sum(Lacks(d), P) \in Nat
    BY <1>1, LacksType
  <2>2. QED
    BY <1>1, <2>1, SumPart
<1>6. charged[d] \in Nat /\ quote[d] \in Nat /\ Len(s) \in Nat /\ Cardinality(D) = Len(s)
  BY RowsFinite DEF Base, Shape
<1>7. charged[d] <= Bill(d, P) + Sum(Lacks(d), P)
  BY DEF BillInv
<1>8. ASSUME s # <<>>, open[d] = {}, ~short[d] PROVE charged[d] >= quote[d] - Len(s)
  <2>1. P = D
    BY <1>8 DEF Done
  <2>2. charged[d] >= Bill(d, P) - Cardinality(P)
    BY <1>8 DEF BillInv
  <2> HIDE DEF P, D
  <2>3. QED
    BY <1>3, <1>4, <1>6, <1>8, <2>1, <2>2
<1> HIDE DEF P, D
<1>9. charged[d] <= quote[d] + Slack(d) /\ Slack(d) \in Nat
  BY <1>2, <1>3, <1>4, <1>5, <1>6, <1>7
<1>10. QED
  BY <1>8, <1>9

\* The debits that cover each record of a document once cost no more than what the
\* budget was checked for but a flat fee and a rounding for every record, and no
\* less but for the rounding.
THEOREM ChargedTheorem == Spec => []ChargedAsQuoted
<1>1. Base /\ BillInv => ChargedAsQuoted
  BY ChargedWithin DEF ChargedAsQuoted
<1>2. QED
  BY <1>1, BillInvariant, PTL

\* The budget falls below zero by no more than the quotes of all documents but
\* one, what the quotes lack, and what was debited for records again.
THEOREM OverdraftTheorem == Spec => []OverdraftExplained
<1>1. ASSUME Base, BillInv PROVE OverdraftExplained
  <2> SUFFICES ASSUME \A d \in Processed : QuotedAlike(d), NEW d \in Processed
               PROVE  balance >= -(Slack(d) + Sum([e \in Processed \ {d} |-> quote[e] + Slack(e)],
                                                  Processed \ {d}) + apart)
    BY DEF OverdraftExplained
  <2> DEFINE R == Processed \ {d}
             O == Docs \ Processed
             h == [e \in R |-> quote[e] + Slack(e)]
  <2>1. \A e \in Processed : /\ e \in Docs /\ charged[e] <= quote[e] + Slack(e)
                             /\ Slack(e) \in Nat /\ quote[e] \in Nat /\ charged[e] \in Nat
    BY <1>1, ChargedWithin DEF Processed, Base, Shape
  <2>2. quote[d] <= opening /\ (\A e \in O : charged[e] = 0) /\ balance = opening - Sum(charged, Docs) - apart
        /\ opening \in Int /\ apart \in Nat
    BY <1>1 DEF Processed, Base, Shape, CheckedInv, BooksInv
  <2>3. Processed \subseteq Docs /\ \A e \in Docs : charged[e] \in Nat
    BY <1>1 DEF Processed, Base, Shape
  <2>4. IsFiniteSet(Processed) /\ IsFiniteSet(R) /\ IsFiniteSet(O) /\ Processed \cup O = Docs
        /\ Processed \cap O = {}
    BY <2>3, SheetAssumption, FS_Subset
  <2>5. Ints(charged, Processed \cup O) /\ Ints(charged, Processed) /\ Ints(charged, R)
    BY <2>3, <2>4 DEF Ints
  <2>6. Sum(charged, Docs) = Sum(charged, Processed) + Sum(charged, O)
    <3>1. Sum(charged, Processed \cup O) = Sum(charged, Processed) + Sum(charged, O)
      BY <2>4, <2>5, SumUnion
    <3>2. QED
      BY <2>4, <3>1
  <2>7. Sum(charged, O) = 0
    BY <2>2, <2>4, SumZero
  <2>8. Sum(charged, Processed) = charged[d] + Sum(charged, R)
    BY <2>4, <2>5, SumLess
  <2>9. \A e \in R : h[e] \in Nat /\ charged[e] <= h[e]
    BY <2>1
  <2> HIDE DEF h
  <2>10. Sum(charged, R) <= Sum(h, R) /\ Sum(charged, R) \in Int /\ Sum(h, R) \in Nat
    <3>1. Ints(h, R)
      BY <2>9 DEF Ints
    <3>2. QED
      BY <2>4, <2>5, <2>9, <3>1, SumLe, SumNat, SumType
  <2> HIDE DEF R, O
  <2>11. balance >= -(Slack(d) + Sum(h, R) + apart)
    BY <2>1, <2>2, <2>6, <2>7, <2>8, <2>10
  <2>12. QED
    BY <2>11 DEF h, R
<1>2. QED
  BY <1>1, BillInvariant, PTL
=============================================================================
