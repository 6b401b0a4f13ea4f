----------------------------- MODULE UserProofs -----------------------------
(***************************************************************************)
(* What UserStore keeps true for any names, thresholds, unit, size of the  *)
(* changes of scores and number of games: accounts and ratings in memory   *)
(* and in the table agree, ranks follow scores, and the books balance.     *)
(***************************************************************************)
EXTENDS UserStore, WellFoundedInduction, FiniteSetTheorems, TLAPS

-----------------------------------------------------------------------------
(* Arithmetic of points. *)

LEMMA DivFacts ==
  ASSUME NEW a \in Int
  PROVE  /\ a \div Unit \in Int
         /\ (a \div Unit) * Unit <= a
         /\ a < (a \div Unit) * Unit + Unit
BY UnitAssumption

LEMMA TimesFacts ==
  ASSUME NEW a \in Int, NEW b \in Int, a < b
  PROVE  /\ a * Unit \in Int /\ b * Unit \in Int
         /\ a * Unit + Unit <= b * Unit
BY UnitAssumption

LEMMA HalfFacts ==
  Unit \div 2 \in Int /\ 0 <= Unit \div 2 /\ Unit \div 2 < Unit
BY UnitAssumption

\* Rounding a number of points that is whole changes nothing.
LEMMA WholeDiv ==
  ASSUME NEW k \in Int
  PROVE  (k * Unit + Unit \div 2) \div Unit = k
<1> DEFINE a == k * Unit + Unit \div 2
           q == a \div Unit
<1>1. /\ a \in Int /\ k * Unit \in Int /\ Unit \in Int
      /\ k * Unit <= a /\ a < k * Unit + Unit
  BY HalfFacts, UnitAssumption
<1>2. q \in Int /\ q * Unit \in Int /\ q * Unit <= a /\ a < q * Unit + Unit
  BY <1>1, DivFacts, UnitAssumption
<1> HIDE DEF a, q
<1>3. ~(q < k)
  <2>1. q < k => q * Unit + Unit <= k * Unit  BY <1>2, TimesFacts
  <2> QED  BY <1>1, <1>2, <2>1
<1>4. ~(k < q)
  <2>1. k < q => k * Unit + Unit <= q * Unit  BY <1>2, TimesFacts
  <2> QED  BY <1>1, <1>2, <2>1
<1>5. q = k  BY <1>2, <1>3, <1>4
<1> QED  BY <1>5 DEF q, a

\* What is written is near the score, on the same side of zero, and written
\* again as it is.
LEMMA WrittenFacts ==
  ASSUME NEW s \in Int
  PROVE  /\ Written(s) \in Int
         /\ Written(Written(s)) = Written(s)
         /\ Written(s) = s \/ \E k \in Int : /\ Written(s) = k * Unit
                                             /\ k * Unit <= s + Unit \div 2
                                             /\ s + Unit \div 2 < k * Unit + Unit
<1>1. CASE -ExactBelow < s /\ s < ExactBelow
  <2>1. Written(s) = s  BY <1>1 DEF Written
  <2> QED  BY <2>1
<1>2. CASE ~(-ExactBelow < s /\ s < ExactBelow)
  <2> DEFINE a == s + Unit \div 2
             k == a \div Unit
  <2>1. a \in Int  BY HalfFacts
  <2>2. Written(s) = k * Unit  BY <1>2 DEF Written
  <2>3. k \in Int /\ k * Unit <= a /\ a < k * Unit + Unit  BY <2>1, DivFacts
  <2> HIDE DEF k, a
  <2>4. k * Unit \in Int  BY <2>3, UnitAssumption
  <2>5. ((k * Unit + Unit \div 2) \div Unit) * Unit = k * Unit  BY <2>3, WholeDiv
  <2>6. Written(k * Unit) = k * Unit  BY <2>5 DEF Written
  <2> QED  BY <2>2, <2>3, <2>4, <2>6 DEF a
<1> QED  BY <1>1, <1>2

-----------------------------------------------------------------------------
(* Ranks. *)

LEMMA ThresholdFacts ==
  /\ Len(Thresholds) \in Nat /\ Len(Thresholds) > 0
  /\ \A i \in Ranks : Thresholds[i] \in Int
  /\ Thresholds[1] = 0
  /\ \A i, j \in Ranks : i < j => Thresholds[i] + 1 < Thresholds[j]
BY ThresholdsAssumption DEF Ranks

LEMMA LeastElement ==
  ASSUME NEW T \in SUBSET Nat, T # {}
  PROVE  \E x \in T : \A y \in T : x <= y
<1> DEFINE R == OpToRel(<, Nat)
<1>1. IsWellFoundedOn(R, Nat)  BY NatLessThanWellFounded
<1>2. \A x, y \in Nat : <<y, x>> \in R <=> y < x  BY DEF OpToRel
<1> HIDE DEF R
<1>3. \E x \in T : \A y \in T : ~(<<y, x>> \in R)  BY <1>1, WFMin
<1>4. \A x, y \in T : x \in Int /\ y \in Int /\ (~(y < x) => x <= y)  OBVIOUS
<1> QED  BY <1>2, <1>3, <1>4

\* The search finds the first threshold that is not below the points.
LEMMA LowerBoundFacts ==
  ASSUME NEW p \in Int
  PROVE  /\ LowerBound(p) \in 1 .. Len(Thresholds) + 1
         /\ LowerBound(p) <= Len(Thresholds) => Thresholds[LowerBound(p)] >= p
         /\ \A j \in 1 .. LowerBound(p) - 1 : Thresholds[j] < p
<1> DEFINE N == Len(Thresholds)
           T == {i \in 1 .. N + 1 : i <= N => Thresholds[i] >= p}
<1>1. N \in Nat /\ \A i \in 1 .. N : Thresholds[i] \in Int
  BY ThresholdFacts DEF Ranks
<1>2. T \in SUBSET Nat /\ N + 1 \in T  BY <1>1
<1>3. PICK x \in T : \A y \in T : x <= y
  <2> HIDE DEF T
  <2> QED  BY <1>2, LeastElement
<1>4. \A j \in 1 .. x - 1 : Thresholds[j] < p
  <2> SUFFICES ASSUME NEW j \in 1 .. x - 1 PROVE Thresholds[j] < p  OBVIOUS
  <2>1. x \in 1 .. N + 1 /\ j \in 1 .. N /\ ~(x <= j)  BY <1>1, <1>3
  <2>2. j \notin T  BY <1>3, <2>1
  <2>3. ~(Thresholds[j] >= p)  BY <1>1, <2>1, <2>2
  <2> QED  BY <1>1, <2>1, <2>3
<1>5. x \in 1 .. N + 1 /\ (x <= N => Thresholds[x] >= p)  BY <1>3
<1> QED  BY <1>4, <1>5 DEF LowerBound

\* A rank that fits a score, but for one rank.
RankClose(k, w) ==
  /\ k \in Ranks
  /\ w < 0 => k = 1
  /\ w >= 0 => Thresholds[k] * Unit <= w
  /\ k + 2 \in Ranks => w < Thresholds[k + 2] * Unit

LEMMA CloseIsNear ==
  ASSUME NEW k, NEW w \in Int, RankClose(k, w)
  PROVE  k <= RankDeserved(w) /\ k >= RankDeserved(w) - 1
<1> DEFINE T(i) == Thresholds[i] * Unit
           Fits(i) == T(i) <= w /\ (i < Len(Thresholds) => w < T(i + 1))
<1>1. k \in Ranks /\ k \in Int  BY DEF RankClose, Ranks
<1>2. CASE w < 0
  <2>1. RankDeserved(w) = 1 /\ k = 1  BY <1>2 DEF RankDeserved, RankClose
  <2> QED  BY <2>1
<1>3. CASE ~(w < 0)
  <2>1. /\ \A i \in Ranks : T(i) \in Int
        /\ \A i, j \in Ranks : i < j => T(i) <= T(j)
    <3>1. \A i \in Ranks : Thresholds[i] \in Int  BY ThresholdFacts
    <3>2. ASSUME NEW i \in Ranks, NEW j \in Ranks, i < j PROVE T(i) <= T(j)
      <4>1. Thresholds[i] < Thresholds[j]  BY <3>1, <3>2, ThresholdFacts
      <4>2. T(i) + Unit <= T(j) /\ T(i) \in Int /\ T(j) \in Int
        BY <3>1, <4>1, TimesFacts
      <4> QED  BY <4>2, UnitAssumption
    <3>3. ASSUME NEW i \in Ranks PROVE T(i) \in Int
      BY <3>1, UnitAssumption
    <3> QED  BY <3>2, <3>3
  <2>2. T(k) <= w /\ (k + 2 \in Ranks => w < T(k + 2))
    BY <1>3 DEF RankClose
  <2> HIDE DEF T
  <2>3. Len(Thresholds) \in Nat /\ Ranks = 1 .. Len(Thresholds)
    BY ThresholdFacts DEF Ranks
  <2>4. \E i \in Ranks : Fits(i)
    <3>1. CASE k + 1 \in Ranks /\ T(k + 1) <= w
      <4>1. k + 1 < Len(Thresholds) => k + 2 \in Ranks /\ k + 1 + 1 = k + 2
        BY <1>1, <2>3
      <4>2. Fits(k + 1)  BY <2>2, <3>1, <4>1
      <4> QED  BY <3>1, <4>2
    <3>2. CASE ~(k + 1 \in Ranks /\ T(k + 1) <= w)
      <4>1. k < Len(Thresholds) => k + 1 \in Ranks  BY <1>1, <2>3
      <4>2. k < Len(Thresholds) => w < T(k + 1)  BY <2>1, <3>2, <4>1
      <4>3. Fits(k)  BY <2>2, <4>2
      <4> QED  BY <1>1, <4>3
    <3> QED  BY <3>1, <3>2
  <2> DEFINE d == RankDeserved(w)
  <2>5. d = CHOOSE i \in Ranks : Fits(i)  BY <1>3 DEF RankDeserved, T
  <2>6. d \in Ranks /\ Fits(d)  BY <2>4, <2>5
  <2>7. d \in Int /\ k \in Int  BY <1>1, <2>3, <2>6
  <2> HIDE DEF d
  <2>8. ~(d < k)
    <3> SUFFICES ASSUME d < k PROVE FALSE  OBVIOUS
    <3>1. d < Len(Thresholds) /\ d + 1 \in Ranks /\ (d + 1 = k \/ d + 1 < k)
      BY <1>1, <2>3, <2>6, <2>7
    <3>2. T(k) \in Int /\ T(d + 1) \in Int  BY <1>1, <2>1, <3>1
    <3>4. d + 1 = k => T(d + 1) = T(k)  OBVIOUS
    <3>5. d + 1 < k => T(d + 1) <= T(k)  BY <1>1, <2>1, <3>1
    <3>6. T(d + 1) <= T(k)  BY <3>1, <3>2, <3>4, <3>5
    <3>3. w < T(d + 1)  BY <2>6, <3>1
    <3> QED  BY <2>2, <3>2, <3>3, <3>6
  <2>9. ~(k + 1 < d)
    <3> SUFFICES ASSUME k + 1 < d PROVE FALSE  OBVIOUS
    <3>1. k + 2 \in Ranks /\ (k + 2 = d \/ k + 2 < d)  BY <1>1, <2>3, <2>6, <2>7
    <3>2. T(k + 2) <= T(d) /\ T(d) \in Int /\ T(k + 2) \in Int  BY <2>1, <2>6, <3>1
    <3>3. T(d) <= w /\ w < T(k + 2)  BY <2>2, <2>6, <3>1
    <3> QED  BY <3>2, <3>3
  <2> QED  BY <2>7, <2>8, <2>9 DEF d
<1> QED  BY <1>2, <1>3


\* A score that is not negative and what is written of it are both a whole
\* number of points or up to one point more.
LEMMA PointsFacts ==
  ASSUME NEW s \in Int, s >= 0
  PROVE  /\ Points(s) \in Int /\ Points(s) * Unit \in Int
         /\ 0 <= Points(s) * Unit
         /\ Points(s) * Unit <= s /\ s < Points(s) * Unit + Unit
         /\ Points(s) * Unit <= Written(s) /\ Written(s) <= Points(s) * Unit + Unit
<1> DEFINE p == Points(s)
           h == Unit \div 2
<1>1. p \in Int /\ p * Unit <= s /\ s < p * Unit + Unit
  BY DivFacts DEF Points
<1>2. h \in Int /\ 0 <= h /\ h < Unit  BY HalfFacts
<1>3. Unit \in Int /\ 0 < Unit /\ 0 * Unit = 0  BY UnitAssumption
<1> HIDE DEF p, h
<1>4. p * Unit \in Int  BY <1>1, <1>3
<1>5. 0 <= p * Unit
  <2>1. p < 0 => p * Unit + Unit <= 0 * Unit  BY <1>1, TimesFacts
  <2>2. 0 < p => 0 * Unit + Unit <= p * Unit  BY <1>1, TimesFacts
  <2>3. p = 0 => p * Unit = 0  BY <1>3
  <2> QED  BY <1>1, <1>3, <1>4, <2>1, <2>2, <2>3
<1>6. p * Unit <= Written(s) /\ Written(s) <= p * Unit + Unit
  <2>1. CASE Written(s) = s  BY <1>1, <1>3, <1>4, <2>1
  <2>2. ASSUME NEW k \in Int, Written(s) = k * Unit, k * Unit <= s + h, s + h < k * Unit + Unit
        PROVE  p * Unit <= Written(s) /\ Written(s) <= p * Unit + Unit
    <3>1. k * Unit \in Int  BY <1>3
    <3>2. p <= k
      <4> DEFINE a == p * Unit
                 b == k * Unit
      <4>1. k < p => b + Unit <= a  BY <1>1, TimesFacts
      <4>2. a <= s /\ s + h < b + Unit /\ a \in Int /\ b \in Int
        BY <1>1, <1>4, <2>2, <3>1
      <4> HIDE DEF a, b
      <4> QED  BY <1>1, <1>2, <1>3, <4>1, <4>2
    <3>3. k <= p + 1
      <4>1. p + 1 < k => (p + 1) * Unit + Unit <= k * Unit  BY <1>1, TimesFacts
      <4>2. (p + 1) * Unit = p * Unit + Unit  BY <1>1, <1>3
      <4> QED  BY <1>1, <1>2, <1>3, <1>4, <2>2, <3>1, <4>1, <4>2
    <3>4. k = p \/ k = p + 1  BY <1>1, <3>2, <3>3
    <3>5. (p + 1) * Unit = p * Unit + Unit  BY <1>1, <1>3
    <3> QED  BY <1>3, <1>4, <2>2, <3>4, <3>5
  <2> QED  BY <2>1, <2>2, WrittenFacts DEF h
<1> QED  BY <1>1, <1>4, <1>5, <1>6 DEF p

\* The rank that is computed from a score is close to the one the written score
\* deserves.
LEMMA RankByScoreClose ==
  ASSUME NEW s \in Int
  PROVE  RankByScore(s) \in Ranks /\ RankClose(RankByScore(s), Written(s))
<1> DEFINE N == Len(Thresholds)
           w == Written(s)
<1>1. N \in Nat /\ N > 0 /\ Ranks = 1 .. N /\ 1 \in Ranks
  BY ThresholdFacts DEF Ranks
<1>2. \A i \in Ranks : Thresholds[i] \in Int /\ Thresholds[i] * Unit \in Int
  BY ThresholdFacts, UnitAssumption
<1>3. \A i, j \in Ranks : i < j => Thresholds[i] + 1 < Thresholds[j]
  BY ThresholdFacts
<1>4. Unit \in Int /\ 0 < Unit /\ Thresholds[1] = 0 /\ Thresholds[1] * Unit = 0
  BY UnitAssumption, ThresholdFacts
<1>5. w \in Int  BY WrittenFacts
<1>6. CASE s < 0
  <2>1. RankByScore(s) = 1  BY <1>6 DEF RankByScore
  <2>2. w < Unit
    <3> DEFINE h == Unit \div 2
    <3>1. h \in Int /\ h < Unit  BY HalfFacts
    <3>2. w = s \/ (w \in Int /\ w <= s + h)  BY <1>5, WrittenFacts
    <3> HIDE DEF h, w
    <3> QED  BY <1>4, <1>5, <1>6, <3>1, <3>2
  <2>3. ASSUME 1 + 2 \in Ranks PROVE w < Thresholds[1 + 2] * Unit
    <3>0. 3 \in Ranks /\ 1 < 3  BY <2>3
    <3>1. 0 < Thresholds[3]
      <4>1. Thresholds[1] + 1 < Thresholds[3] /\ Thresholds[3] \in Int
        BY <1>1, <1>2, <1>3, <3>0
      <4> QED  BY <1>4, <4>1
    <3>2. 0 * Unit + Unit <= Thresholds[3] * Unit  BY <1>2, <2>3, <3>1, TimesFacts
    <3>3. 0 * Unit = 0 /\ Thresholds[3] * Unit \in Int  BY <1>2, <1>4, <2>3
    <3> HIDE DEF w
    <3> QED  BY <1>4, <1>5, <2>2, <3>2, <3>3
  <2> HIDE DEF w
  <2>4. w >= 0 => Thresholds[1] * Unit <= w  BY <1>4, <1>5
  <2>5. RankClose(1, w)  BY <1>1, <2>3, <2>4 DEF RankClose
  <2> QED  BY <1>1, <2>1, <2>5 DEF w
<1>7. CASE ~(s < 0)
  <2> DEFINE p == Points(s)
             i == LowerBound(p)
  <2>1. /\ p \in Int /\ p * Unit \in Int /\ 0 <= p * Unit
        /\ p * Unit <= s /\ s < p * Unit + Unit
        /\ p * Unit <= w /\ w <= p * Unit + Unit
    BY <1>7, PointsFacts
  <2>2. /\ i \in 1 .. N + 1
        /\ i <= N => Thresholds[i] >= p
        /\ \A j \in 1 .. i - 1 : Thresholds[j] < p
    BY <2>1, LowerBoundFacts
  <2>3. RankByScore(s) = IF i > N THEN N
                         ELSE IF Thresholds[i] * Unit = s THEN i
                         ELSE IF i # 1 THEN i - 1 ELSE 1
    BY <1>7 DEF RankByScore
  <2> HIDE DEF p, i, w
  <2>4. ASSUME NEW j \in Ranks, Thresholds[j] <= p PROVE Thresholds[j] * Unit <= w
    <3>1. Thresholds[j] < p => Thresholds[j] * Unit + Unit <= p * Unit
      BY <1>2, <2>1, TimesFacts
    <3>2. Thresholds[j] = p \/ Thresholds[j] < p  BY <1>2, <2>1, <2>4
    <3>3. Thresholds[j] * Unit \in Int  BY <1>2
    <3> QED  BY <1>4, <1>5, <2>1, <3>1, <3>2, <3>3
  <2>5. ASSUME NEW j \in Ranks, p + 1 < Thresholds[j] PROVE w < Thresholds[j] * Unit
    <3>1. (p + 1) * Unit + Unit <= Thresholds[j] * Unit  BY <1>2, <2>1, <2>5, TimesFacts
    <3>2. (p + 1) * Unit = p * Unit + Unit  BY <1>4, <2>1
    <3>3. Thresholds[j] * Unit \in Int  BY <1>2
    <3> QED  BY <1>4, <1>5, <2>1, <3>1, <3>2, <3>3
  <2>6. ASSUME NEW k \in Ranks, Thresholds[k] * Unit <= w,
               k + 2 \in Ranks => p + 1 < Thresholds[k + 2]
        PROVE  RankClose(k, w)
    <3>1. ~(w < 0)  BY <1>5, <2>1
    <3> QED  BY <2>5, <2>6, <3>1 DEF RankClose
  <2>7. CASE i > N
    <3>1. N \in Ranks /\ N + 2 \notin Ranks /\ N \in 1 .. i - 1  BY <1>1, <2>2, <2>7
    <3>2. Thresholds[N] <= p  BY <1>2, <2>1, <2>2, <3>1
    <3>3. Thresholds[N] * Unit <= w  BY <2>4, <3>1, <3>2
    <3>4. RankByScore(s) = N  BY <2>3, <2>7
    <3> QED  BY <2>6, <3>1, <3>3, <3>4 DEF w
  <2>8. CASE ~(i > N) /\ Thresholds[i] * Unit = s
    <3>1. i \in Ranks  BY <1>1, <2>2, <2>8
    <3>2. Thresholds[i] >= p  BY <1>1, <2>2, <3>1
    <3>3. Thresholds[i] <= p
      <4>1. p < Thresholds[i] => p * Unit + Unit <= Thresholds[i] * Unit
        BY <1>2, <2>1, <3>1, TimesFacts
      <4> QED  BY <1>2, <1>4, <2>1, <2>8, <3>1, <4>1
    <3>4. Thresholds[i] * Unit <= w  BY <2>4, <3>1, <3>3
    <3>5. i + 2 \in Ranks => p + 1 < Thresholds[i + 2]
      <4>1. i + 2 \in Ranks => Thresholds[i] + 1 < Thresholds[i + 2] /\ Thresholds[i + 2] \in Int
        BY <1>1, <1>2, <1>3, <3>1
      <4> QED  BY <1>2, <2>1, <3>1, <3>2, <4>1
    <3>6. RankByScore(s) = i  BY <2>3, <2>8
    <3> QED  BY <2>6, <3>1, <3>4, <3>5, <3>6 DEF w
  <2>9. CASE ~(i > N) /\ Thresholds[i] * Unit # s /\ i # 1
    <3>1. i \in Ranks /\ i - 1 \in Ranks /\ i - 1 \in 1 .. i - 1 /\ (i - 1) + 2 = i + 1
      BY <1>1, <2>2, <2>9
    <3>2. Thresholds[i] >= p /\ Thresholds[i - 1] <= p
      BY <1>1, <1>2, <2>1, <2>2, <3>1
    <3>3. Thresholds[i - 1] * Unit <= w  BY <2>4, <3>1, <3>2
    <3>4. i + 1 \in Ranks => p + 1 < Thresholds[i + 1]
      <4>1. i + 1 \in Ranks => Thresholds[i] + 1 < Thresholds[i + 1] /\ Thresholds[i + 1] \in Int
        BY <1>1, <1>2, <1>3, <3>1
      <4> QED  BY <1>2, <2>1, <3>1, <3>2, <4>1
    <3>5. RankClose(i - 1, w)  BY <2>6, <3>1, <3>3, <3>4
    <3>6. RankByScore(s) = i - 1  BY <2>3, <2>9
    <3> QED  BY <3>1, <3>5, <3>6 DEF w
  <2>10. CASE ~(i > N) /\ Thresholds[i] * Unit # s /\ i = 1
    <3>1. Thresholds[1] >= p  BY <1>1, <2>2, <2>10
    <3>2. Thresholds[1] * Unit <= w  BY <1>4, <1>5, <2>1
    <3>3. 1 + 2 \in Ranks => p + 1 < Thresholds[1 + 2]
      <4>1. 3 \in Ranks => Thresholds[1] + 1 < Thresholds[3] /\ Thresholds[3] \in Int
        BY <1>1, <1>2, <1>3
      <4> QED  BY <1>2, <1>4, <2>1, <3>1, <4>1
    <3>4. RankByScore(s) = 1  BY <2>3, <2>10
    <3> QED  BY <1>1, <2>6, <3>2, <3>3, <3>4 DEF w
  <2> QED  BY <2>7, <2>8, <2>9, <2>10
<1> QED  BY <1>6, <1>7


-----------------------------------------------------------------------------
(* The inductive invariant. *)

\* The game that is being rated still has to save these.
InGame(n) ==
  \E w, l \in DOMAIN user :
    /\ n \in {w, l}
    /\ \/ step \in {<<"RankWinner", w, l>>, <<"RankLoser", w, l>>, <<"SaveWinner", w, l>>}
       \/ step = <<"SaveLoser", n>>

\* A row was written, so that writing it again would not change it, and its
\* rank fits its score.
GoodRow(r) == r \in Rating /\ WrittenRating(r) = r /\ RankClose(r.rank, r.score)

Ranked(r) == r.rank = RankByScore(r.score)

RowsOK == \A n \in DOMAIN row : GoodRow(row[n])

NamesOK ==
  /\ promised \cup DOMAIN user \subseteq DOMAIN row
  /\ step # <<"Down">> =>
       \A n \in DOMAIN row \ DOMAIN user : n \in unread \/ step = <<"ReadId", n>>

ReadingOK ==
  \A n \in Names :
    step = <<"ReadId", n>> =>
      n \in DOMAIN row \ DOMAIN user /\ row[n] = NewUser

SavedOK ==
  \A n \in DOMAIN user \ unsaved : row[n] = WrittenRating(user[n]) \/ InGame(n)

\* Whoever is about to be saved has got its rank.
RankedOK ==
  \A w, l \in Names :
    /\ step \in {<<"RankLoser", w, l>>, <<"SaveWinner", w, l>>} => Ranked(user[w])
    /\ step \in {<<"SaveWinner", w, l>>, <<"SaveLoser", l>>} => Ranked(user[l])

UInv == TypeOK /\ RowsOK /\ NamesOK /\ ReadingOK /\ SavedOK /\ RankedOK

\* What is written of a rating makes a good row.
LEMMA WrittenRatingFacts ==
  ASSUME NEW r \in Rating
  PROVE  /\ WrittenRating(r) \in Rating
         /\ WrittenRating(r).rank = r.rank /\ WrittenRating(r).score = Written(r.score)
         /\ WrittenRating(WrittenRating(r)) = WrittenRating(r)
<1>1. r.score \in Int  BY DEF Rating
<1>2. Written(r.score) \in Int /\ Written(Written(r.score)) = Written(r.score)
  BY <1>1, WrittenFacts
<1>3. WrittenRating(r) = [r EXCEPT !.score = Written(r.score)]  BY DEF WrittenRating
<1>4. /\ WrittenRating(r) \in Rating
      /\ WrittenRating(r).rank = r.rank /\ WrittenRating(r).score = Written(r.score)
  BY <1>2, <1>3 DEF Rating
<1> DEFINE q == WrittenRating(r)
<1>5. WrittenRating(q) = [q EXCEPT !.score = Written(q.score)]  BY DEF WrittenRating
<1> HIDE DEF q
<1>6. Written(q.score) = q.score /\ q \in Rating  BY <1>2, <1>4 DEF q
<1>7. WrittenRating(q) = q  BY <1>5, <1>6 DEF Rating
<1> QED  BY <1>4, <1>7 DEF q

LEMMA SavedRowIsGood ==
  ASSUME NEW r \in Rating, Ranked(r)
  PROVE  GoodRow(WrittenRating(r))
<1>1. r.score \in Int  BY DEF Rating
<1>2. RankClose(r.rank, Written(r.score))  BY <1>1, RankByScoreClose DEF Ranked
<1> QED  BY <1>2, WrittenRatingFacts DEF GoodRow

LEMMA NewUserIsGood == NewUser \in Rating /\ GoodRow(NewUser)
<1>1. 1 \in Ranks  BY ThresholdFacts DEF Ranks
<1>2. NewUser \in Rating /\ NewUser.score = 0 /\ NewUser.rank = 1
  BY <1>1 DEF NewUser, Rating
<1>3. Written(0) = 0
  <2>1. 0 * Unit = 0 /\ (0 * Unit + Unit \div 2) \div Unit = 0
    BY UnitAssumption, WholeDiv
  <2>2. 0 * Unit + Unit \div 2 = 0 + Unit \div 2  BY HalfFacts, UnitAssumption
  <2>3. ((0 + Unit \div 2) \div Unit) * Unit = 0  BY <2>1, <2>2
  <2> QED  BY <2>3 DEF Written
<1>4. WrittenRating(NewUser) = NewUser
  BY <1>2, <1>3 DEF WrittenRating, NewUser
<1>5. RankClose(1, 0)
  <2>1. Thresholds[1] * Unit = 0  BY ThresholdFacts, UnitAssumption
  <2>2. ASSUME 1 + 2 \in Ranks PROVE 0 < Thresholds[1 + 2] * Unit
    <3>0. 3 \in Ranks /\ 1 < 3  BY <2>2
    <3>1. Thresholds[1] + 1 < Thresholds[3] /\ Thresholds[3] \in Int
      BY <1>1, <3>0, ThresholdFacts
    <3>2. 0 < Thresholds[3]  BY <3>1, ThresholdFacts
    <3>3. 0 * Unit + Unit <= Thresholds[3] * Unit  BY <3>1, <3>2, TimesFacts
    <3>4. 0 * Unit = 0 /\ Thresholds[3] * Unit \in Int  BY <3>1, UnitAssumption
    <3> QED  BY <3>3, <3>4, UnitAssumption
  <2> QED  BY <1>1, <2>1, <2>2 DEF RankClose
<1> QED  BY <1>2, <1>4, <1>5 DEF GoodRow

LEMMA InitUInv == Init => UInv
<1> SUFFICES ASSUME Init PROVE UInv  OBVIOUS
<1>1. DOMAIN row = {} /\ DOMAIN user = {}  BY DEF Init
<1>2. TypeOK  BY <1>1 DEF Init, TypeOK
<1>3. RowsOK /\ NamesOK /\ SavedOK  BY <1>1 DEF Init, RowsOK, NamesOK, SavedOK
<1>4. ReadingOK /\ RankedOK  BY DEF Init, ReadingOK, RankedOK
<1> QED  BY <1>2, <1>3, <1>4 DEF UInv

\* Counting a game keeps a rating a rating.
LEMMA CountedRating ==
  ASSUME NEW r \in Rating, NEW a \in Int
  PROVE  /\ [r EXCEPT !.score = @ + a, !.wins = @ + 1] \in Rating
         /\ [r EXCEPT !.score = @ + a, !.losses = @ + 1] \in Rating
         /\ [r EXCEPT !.score = @ + a, !.draws = @ + 1] \in Rating
         /\ \A b \in Int : [r EXCEPT !.score = @ - b, !.losses = @ + 1] \in Rating
<1>1. /\ r.score + a \in Int /\ \A b \in Int : r.score - b \in Int
      /\ r.wins + 1 \in Nat /\ r.losses + 1 \in Nat /\ r.draws + 1 \in Nat
  BY DEF Rating
<1>2. \A x \in Int, y \in Nat :
        /\ [r EXCEPT !.score = x, !.wins = y] \in Rating
        /\ [r EXCEPT !.score = x, !.losses = y] \in Rating
        /\ [r EXCEPT !.score = x, !.draws = y] \in Rating
  BY DEF Rating
<1> QED  BY <1>1, <1>2

\* Saving somebody whose rank is right, while a game is being rated or not.
LEMMA SaveFacts ==
  ASSUME TypeOK, RowsOK, NamesOK, NEW n \in DOMAIN user, NEW r \in Rating, Ranked(r),
         SaveToDatabase(n, r)
  PROVE  /\ DOMAIN row' = DOMAIN row /\ unsaved' \subseteq Names
         /\ \A m \in DOMAIN row : row'[m] = row[m] \/ (m = n /\ row'[m] = WrittenRating(r))
         /\ \A m \in DOMAIN user : m # n => (m \in unsaved' <=> m \in unsaved)
         /\ n \in unsaved' \/ row'[n] = WrittenRating(r)
         /\ RowsOK'
<1>1. n \in Names /\ n \in DOMAIN row  BY DEF TypeOK, NamesOK
<1>2. CASE row' = [row EXCEPT ![n] = WrittenRating(r)] /\ unsaved' = unsaved \ {n}
  <2>1. GoodRow(WrittenRating(r))  BY SavedRowIsGood
  <2>2. DOMAIN row' = DOMAIN row
        /\ \A m \in DOMAIN row : row'[m] = IF m = n THEN WrittenRating(r) ELSE row[m]
    BY <1>1, <1>2
  <2>3. RowsOK'  BY <2>1, <2>2 DEF RowsOK
  <2> QED  BY <1>1, <1>2, <2>2, <2>3 DEF TypeOK
<1>3. CASE unsaved' = unsaved \cup {n} /\ UNCHANGED row
  BY <1>1, <1>3 DEF TypeOK, RowsOK
<1> QED  BY <1>2, <1>3 DEF SaveToDatabase

LEMMA LoadUInv == UInv /\ LoadUsersFromDatabase => UInv'
<1> SUFFICES ASSUME UInv, LoadUsersFromDatabase PROVE UInv'  OBVIOUS
<1>1. PICK found \in SUBSET DOMAIN row, blank \in SUBSET DOMAIN row :
        /\ blank \subseteq found
        /\ user' = [n \in found |-> IF n \in blank THEN NewUser ELSE row[n]]
        /\ unread' = DOMAIN row \ found
        /\ unsaved' = blank
        /\ torn' = (torn \/ blank # {})
  <2>1. PICK found \in SUBSET DOMAIN row :
          \E blank \in SUBSET found :
            /\ user' = [n \in found |-> IF n \in blank THEN NewUser ELSE row[n]]
            /\ unread' = DOMAIN row \ found
            /\ unsaved' = blank
            /\ torn' = (torn \/ blank # {})
    BY DEF LoadUsersFromDatabase
  <2> QED  BY <2>1
<1>2. step' = <<"Idle">> /\ UNCHANGED <<row, promised>>  BY DEF LoadUsersFromDatabase
<1>3. /\ DOMAIN user' = found
      /\ \A n \in found : user'[n] = IF n \in blank THEN NewUser ELSE row[n]
  BY <1>1
<1>4. TypeOK'
  <2>1. torn' \in BOOLEAN  BY <1>1 DEF UInv, TypeOK
  <2>2. \A n \in found : user'[n] \in Rating
    BY <1>3, NewUserIsGood DEF UInv, TypeOK
  <2> QED  BY <1>1, <1>2, <1>3, <2>1, <2>2 DEF UInv, TypeOK
<1>5. RowsOK'  BY <1>2 DEF UInv, RowsOK
<1>6. NamesOK'  BY <1>1, <1>2, <1>3 DEF UInv, NamesOK
<1>7. ReadingOK' /\ RankedOK'  BY <1>2 DEF ReadingOK, RankedOK
<1>8. SavedOK'  BY <1>1, <1>2, <1>3 DEF UInv, RowsOK, GoodRow, SavedOK
<1> QED  BY <1>4, <1>5, <1>6, <1>7, <1>8 DEF UInv

LEMMA CrashUInv == UInv /\ Crash => UInv'
<1> SUFFICES ASSUME UInv, Crash PROVE UInv'  OBVIOUS
<1>1. /\ step' = <<"Down">> /\ DOMAIN user' = {}
      /\ UNCHANGED <<row, promised, unread, unsaved>>
  BY DEF Crash
<1>2. torn' \in BOOLEAN
  <2>1. torn' = (torn \/ Updating \/ unsaved # {})  BY DEF Crash
  <2> QED  BY <2>1
<1>3. TypeOK'  BY <1>1, <1>2 DEF UInv, TypeOK
<1>4. RowsOK' /\ NamesOK' /\ SavedOK'
  BY <1>1 DEF UInv, RowsOK, NamesOK, SavedOK
<1>5. ReadingOK' /\ RankedOK'  BY <1>1 DEF ReadingOK, RankedOK
<1> QED  BY <1>3, <1>4, <1>5 DEF UInv

LEMMA CreateUserUInv ==
  ASSUME UInv, NEW n \in Names, CreateUser(n)
  PROVE  UInv'
<1>1. /\ step = <<"Idle">> /\ step' = <<"ReadId", n>>
      /\ n \notin DOMAIN row /\ n \notin DOMAIN user
      /\ DOMAIN row' = DOMAIN row \cup {n}
      /\ \A m \in DOMAIN row' : row'[m] = IF m = n THEN NewUser ELSE row[m]
      /\ UNCHANGED <<user, promised, unread, unsaved, torn>>
  BY DEF CreateUser, Idle
<1>2. TypeOK'  BY <1>1, NewUserIsGood DEF UInv, TypeOK
<1>3. RowsOK'  BY <1>1, NewUserIsGood DEF UInv, RowsOK
<1>4. NamesOK'  BY <1>1 DEF UInv, NamesOK
<1>5. ReadingOK'  BY <1>1 DEF ReadingOK
<1>6. RankedOK'  BY <1>1 DEF RankedOK
<1>7. SavedOK'
  <2>1. \A m : ~InGame(m)  BY <1>1 DEF InGame
  <2>2. \A m \in DOMAIN user : m # n /\ m \in DOMAIN row
    BY <1>1 DEF UInv, NamesOK
  <2> QED  BY <1>1, <2>1, <2>2 DEF UInv, SavedOK
<1> QED  BY <1>2, <1>3, <1>4, <1>5, <1>6, <1>7 DEF UInv

LEMMA ReadIdUInv == UInv /\ ReadId => UInv'
<1> SUFFICES ASSUME UInv, ReadId PROVE UInv'  OBVIOUS
<1>1. PICK n \in Names :
        /\ step = <<"ReadId", n>>
        /\ step' = <<"Idle">>
        /\ \/ /\ user' = [m \in DOMAIN user \cup {n} |-> IF m = n THEN NewUser ELSE user[m]]
              /\ promised' = promised \cup {n}
              /\ UNCHANGED unread
           \/ /\ unread' = unread \cup {n}
              /\ UNCHANGED <<user, promised>>
        /\ UNCHANGED <<row, unsaved, torn>>
  BY DEF ReadId
<1>2. /\ n \in DOMAIN row \ DOMAIN user /\ row[n] = NewUser
      /\ \A m \in DOMAIN row \ DOMAIN user : m \in unread \/ m = n
      /\ \A m : ~InGame(m)
  BY <1>1 DEF UInv, ReadingOK, NamesOK, InGame
<1>3. WrittenRating(NewUser) = NewUser  BY NewUserIsGood DEF GoodRow
<1>4. RowsOK'  BY <1>1 DEF UInv, RowsOK
<1>5. ReadingOK' /\ RankedOK'  BY <1>1 DEF ReadingOK, RankedOK
<1>6. CASE /\ user' = [m \in DOMAIN user \cup {n} |-> IF m = n THEN NewUser ELSE user[m]]
           /\ promised' = promised \cup {n}
           /\ UNCHANGED unread
  <2>1. /\ DOMAIN user' = DOMAIN user \cup {n}
        /\ \A m \in DOMAIN user' : user'[m] = IF m = n THEN NewUser ELSE user[m]
    BY <1>6
  <2>2. TypeOK'  BY <1>1, <1>6, <2>1, NewUserIsGood DEF UInv, TypeOK
  <2>3. NamesOK'  BY <1>1, <1>2, <1>6, <2>1 DEF UInv, NamesOK
  <2>4. SavedOK'  BY <1>1, <1>2, <1>3, <2>1 DEF UInv, SavedOK
  <2> QED  BY <1>4, <1>5, <2>2, <2>3, <2>4 DEF UInv
<1>7. CASE unread' = unread \cup {n} /\ UNCHANGED <<user, promised>>
  <2>1. TypeOK'  BY <1>1, <1>7 DEF UInv, TypeOK
  <2>2. NamesOK'  BY <1>1, <1>2, <1>7 DEF UInv, NamesOK
  <2>3. SavedOK'  BY <1>1, <1>2, <1>7 DEF UInv, SavedOK
  <2> QED  BY <1>4, <1>5, <2>1, <2>2, <2>3 DEF UInv
<1> QED  BY <1>1, <1>6, <1>7

\* A rated game changes the ratings of its two players only.
LEMMA UpdateScoreUInv ==
  ASSUME UInv, NEW w \in DOMAIN user, NEW l \in DOMAIN user, UpdateScore(w, l)
  PROVE  UInv'
<1>1. /\ step = <<"Idle">> /\ step' = <<"RankWinner", w, l>> /\ w # l
      /\ UNCHANGED <<row, promised, unread, unsaved, torn>>
      /\ w \in Names /\ l \in Names
  BY DEF UpdateScore, Idle, UInv, TypeOK
<1>2. /\ DOMAIN user' = DOMAIN user
      /\ \A m \in DOMAIN user : user'[m] \in Rating
      /\ \A m \in DOMAIN user : m \in {w, l} \/ user'[m] = user[m]
  <2>1. \A m \in DOMAIN user : user[m] \in Rating  BY DEF UInv, TypeOK
  <2>2. Gains \subseteq Nat  BY BoundsAssumption
  <2>3. CASE Win(w, l)
    <3>1. PICK gain \in Gains, loss \in Gains :
            user' = [user EXCEPT ![w].score = @ + gain, ![w].wins = @ + 1,
                                 ![l].score = @ - loss, ![l].losses = @ + 1]
      BY <2>3 DEF Win
    <3> DEFINE rw == [user[w] EXCEPT !.score = @ + gain, !.wins = @ + 1]
               rl == [user[l] EXCEPT !.score = @ - loss, !.losses = @ + 1]
    <3>2. gain \in Int /\ loss \in Int  BY <2>2
    <3>4. rw \in Rating /\ rl \in Rating  BY <2>1, <3>2, CountedRating
    <3>3. user' = [user EXCEPT ![w] = rw, ![l] = rl]  BY <1>1, <3>1
    <3> HIDE DEF rw, rl
    <3> QED  BY <1>1, <2>1, <3>3, <3>4
  <2>4. CASE DrawnGame(w, l)
    <3>1. PICK a \in Int, b \in Int :
            user' = [user EXCEPT ![w].score = @ + a, ![w].draws = @ + 1,
                                 ![l].score = @ + b, ![l].draws = @ + 1]
      <4>1. PICK gain \in Gains, loss \in Gains :
              LET Moved(n, m) == CASE user[n].score < user[m].score -> gain
                                   [] user[n].score > user[m].score -> -loss
                                   [] OTHER                         -> 0
              IN  user' = [user EXCEPT ![w].score = @ + Moved(w, l), ![w].draws = @ + 1,
                                       ![l].score = @ + Moved(l, w), ![l].draws = @ + 1]
        BY <2>4 DEF DrawnGame
      <4> DEFINE Moved(n, m) == CASE user[n].score < user[m].score -> gain
                                  [] user[n].score > user[m].score -> -loss
                                  [] OTHER                         -> 0
      <4>2. gain \in Int /\ -loss \in Int  BY <2>2
      <4>3. /\ user[w].score \in Int /\ user[l].score \in Int  BY <2>1 DEF Rating
      <4>4. Moved(w, l) \in Int /\ Moved(l, w) \in Int  BY <4>2, <4>3
      <4>5. user' = [user EXCEPT ![w].score = @ + Moved(w, l), ![w].draws = @ + 1,
                                 ![l].score = @ + Moved(l, w), ![l].draws = @ + 1]
        BY <4>1
      <4> HIDE DEF Moved
      <4> QED  BY <4>4, <4>5
    <3> DEFINE rw == [user[w] EXCEPT !.score = @ + a, !.draws = @ + 1]
               rl == [user[l] EXCEPT !.score = @ + b, !.draws = @ + 1]
    <3>2. rw \in Rating /\ rl \in Rating  BY <2>1, CountedRating
    <3>3. user' = [user EXCEPT ![w] = rw, ![l] = rl]  BY <1>1, <3>1
    <3> HIDE DEF rw, rl
    <3> QED  BY <1>1, <2>1, <3>2, <3>3
  <2> QED  BY <2>3, <2>4 DEF UpdateScore
<1>3. TypeOK'  BY <1>1, <1>2 DEF UInv, TypeOK
<1>4. RowsOK'  BY <1>1 DEF UInv, RowsOK
<1>5. NamesOK'  BY <1>1, <1>2 DEF UInv, NamesOK
<1>6. ReadingOK' /\ RankedOK'  BY <1>1 DEF ReadingOK, RankedOK
<1>7. SavedOK'
  <2>1. \A m : ~InGame(m)  BY <1>1 DEF InGame
  <2>2. InGame(w)' /\ InGame(l)'  BY <1>1, <1>2 DEF InGame
  <2> QED  BY <1>1, <1>2, <2>1, <2>2 DEF UInv, SavedOK
<1> QED  BY <1>3, <1>4, <1>5, <1>6, <1>7 DEF UInv


LEMMA RankFacts ==
  ASSUME UInv, NEW n \in DOMAIN user, UpdateRankByScore(n)
  PROVE  /\ DOMAIN user' = DOMAIN user /\ DOMAIN row' = DOMAIN row
         /\ user'[n] \in Rating /\ Ranked(user'[n])
         /\ \A m \in DOMAIN user : m # n =>
              user'[m] = user[m] /\ row'[m] = row[m] /\ (m \in unsaved' <=> m \in unsaved)
         /\ unsaved' \subseteq Names /\ RowsOK'
<1> DEFINE r == user[n]
           k == RankByScore(r.score)
           rated == [r EXCEPT !.rank = k]
<1>1. r \in Rating /\ DOMAIN user \subseteq DOMAIN row
  BY DEF UInv, TypeOK, NamesOK
<1>2. k \in Ranks
  <2>1. r.score \in Int  BY <1>1 DEF Rating
  <2> HIDE DEF r
  <2> QED  BY <2>1, RankByScoreClose
<1>3. rated \in Rating /\ rated.rank = k /\ rated.score = r.score
  <2> HIDE DEF k, r
  <2> QED  BY <1>1, <1>2 DEF Rating
<1>4. Ranked(rated)  BY <1>3 DEF Ranked
<1>5. /\ user' = [user EXCEPT ![n] = rated]
      /\ SaveToDatabase(n, rated) \/ UNCHANGED <<row, unsaved>>
  BY DEF UpdateRankByScore
<1> HIDE DEF rated
<1>6. CASE SaveToDatabase(n, rated)
  BY <1>1, <1>3, <1>4, <1>5, <1>6, SaveFacts DEF UInv
<1>7. CASE UNCHANGED <<row, unsaved>>
  BY <1>1, <1>3, <1>4, <1>5, <1>7 DEF UInv, TypeOK, RowsOK
<1> QED  BY <1>5, <1>6, <1>7

\* In the middle of a game nobody is being registered, and the players of the
\* game are in memory.
LEMMA MidGame ==
  ASSUME UInv, NEW w \in Names, NEW l \in Names
  PROVE  /\ step \in {<<"RankWinner", w, l>>, <<"RankLoser", w, l>>, <<"SaveWinner", w, l>>}
              => w \in DOMAIN user /\ l \in DOMAIN user
                 /\ \A m : InGame(m) => m \in {w, l}
         /\ step = <<"SaveLoser", l>>
              => l \in DOMAIN user /\ \A m : InGame(m) => m = l
BY DEF UInv, TypeOK, InGame

LEMMA RankWinnerUInv == UInv /\ RankWinner => UInv'
<1> SUFFICES ASSUME UInv, RankWinner PROVE UInv'  OBVIOUS
<1>1. PICK w \in Names, l \in Names :
        /\ step = <<"RankWinner", w, l>>
        /\ UpdateRankByScore(w)
        /\ step' = <<"RankLoser", w, l>>
        /\ UNCHANGED <<promised, unread, torn>>
  BY DEF RankWinner
<1>2. w \in DOMAIN user /\ l \in DOMAIN user /\ \A m : InGame(m) => m \in {w, l}
  BY <1>1, MidGame
<1>3. /\ DOMAIN user' = DOMAIN user /\ DOMAIN row' = DOMAIN row
      /\ user'[w] \in Rating /\ Ranked(user'[w])
      /\ \A m \in DOMAIN user : m # w =>
           user'[m] = user[m] /\ row'[m] = row[m] /\ (m \in unsaved' <=> m \in unsaved)
      /\ unsaved' \subseteq Names /\ RowsOK'
  BY <1>1, <1>2, RankFacts
<1>4. TypeOK'  BY <1>1, <1>2, <1>3 DEF UInv, TypeOK, RowsOK, GoodRow
<1>5. NamesOK'  BY <1>1, <1>3 DEF UInv, NamesOK
<1>6. ReadingOK'  BY <1>1 DEF ReadingOK
<1>7. SavedOK'
  <2>1. InGame(w)' /\ InGame(l)'  BY <1>1, <1>2, <1>3 DEF InGame
  <2> QED  BY <1>2, <1>3, <2>1 DEF UInv, SavedOK
<1>8. RankedOK'  BY <1>1, <1>3 DEF RankedOK
<1> QED  BY <1>3, <1>4, <1>5, <1>6, <1>7, <1>8 DEF UInv

LEMMA RankLoserUInv == UInv /\ RankLoser => UInv'
<1> SUFFICES ASSUME UInv, RankLoser PROVE UInv'  OBVIOUS
<1>1. PICK w \in Names, l \in Names :
        /\ step = <<"RankLoser", w, l>>
        /\ UpdateRankByScore(l)
        /\ step' = <<"SaveWinner", w, l>>
        /\ UNCHANGED <<promised, unread, torn>>
  BY DEF RankLoser
<1>2. w \in DOMAIN user /\ l \in DOMAIN user /\ \A m : InGame(m) => m \in {w, l}
  BY <1>1, MidGame
<1>3. /\ DOMAIN user' = DOMAIN user /\ DOMAIN row' = DOMAIN row
      /\ user'[l] \in Rating /\ Ranked(user'[l])
      /\ \A m \in DOMAIN user : m # l =>
           user'[m] = user[m] /\ row'[m] = row[m] /\ (m \in unsaved' <=> m \in unsaved)
      /\ unsaved' \subseteq Names /\ RowsOK'
  BY <1>1, <1>2, RankFacts
<1>4. TypeOK'  BY <1>1, <1>2, <1>3 DEF UInv, TypeOK, RowsOK, GoodRow
<1>5. NamesOK'  BY <1>1, <1>3 DEF UInv, NamesOK
<1>6. ReadingOK'  BY <1>1 DEF ReadingOK
<1>7. SavedOK'
  <2>1. InGame(w)' /\ InGame(l)'  BY <1>1, <1>2, <1>3 DEF InGame
  <2> QED  BY <1>2, <1>3, <2>1 DEF UInv, SavedOK
<1>8. RankedOK'
  <2>1. Ranked(user[w])  BY <1>1 DEF UInv, RankedOK
  <2>2. Ranked(user'[w])
    <3>1. CASE w = l  BY <1>3, <3>1
    <3>2. CASE w # l  BY <1>2, <1>3, <2>1, <3>2
    <3> QED  BY <3>1, <3>2
  <2> QED  BY <1>1, <1>3, <2>2 DEF RankedOK
<1> QED  BY <1>3, <1>4, <1>5, <1>6, <1>7, <1>8 DEF UInv

LEMMA SaveWinnerUInv == UInv /\ SaveWinner => UInv'
<1> SUFFICES ASSUME UInv, SaveWinner PROVE UInv'  OBVIOUS
<1>1. PICK w \in Names, l \in Names :
        /\ step = <<"SaveWinner", w, l>>
        /\ SaveToDatabase(w, user[w])
        /\ step' = <<"SaveLoser", l>>
        /\ UNCHANGED <<user, promised, unread, torn>>
  BY DEF SaveWinner
<1>2. w \in DOMAIN user /\ l \in DOMAIN user /\ \A m : InGame(m) => m \in {w, l}
  BY <1>1, MidGame
<1>3. user[w] \in Rating /\ Ranked(user[w]) /\ Ranked(user[l])
  BY <1>1, <1>2 DEF UInv, TypeOK, RankedOK
<1>4. /\ DOMAIN row' = DOMAIN row /\ unsaved' \subseteq Names
      /\ \A m \in DOMAIN row : row'[m] = row[m] \/ (m = w /\ row'[m] = WrittenRating(user[w]))
      /\ \A m \in DOMAIN user : m # w => (m \in unsaved' <=> m \in unsaved)
      /\ w \in unsaved' \/ row'[w] = WrittenRating(user[w])
      /\ RowsOK'
  BY <1>1, <1>2, <1>3, SaveFacts DEF UInv
<1>5. TypeOK'  BY <1>1, <1>2, <1>4 DEF UInv, TypeOK, RowsOK, GoodRow
<1>6. NamesOK'  BY <1>1, <1>4 DEF UInv, NamesOK
<1>7. ReadingOK'  BY <1>1 DEF ReadingOK
<1>8. SavedOK'
  <2>1. InGame(l)'  BY <1>1, <1>2 DEF InGame
  <2>2. DOMAIN user \subseteq DOMAIN row  BY DEF UInv, NamesOK
  <2> QED  BY <1>1, <1>2, <1>4, <2>1, <2>2 DEF UInv, SavedOK
<1>9. RankedOK'  BY <1>1, <1>3 DEF RankedOK
<1> QED  BY <1>4, <1>5, <1>6, <1>7, <1>8, <1>9 DEF UInv

LEMMA SaveLoserUInv == UInv /\ SaveLoser => UInv'
<1> SUFFICES ASSUME UInv, SaveLoser PROVE UInv'  OBVIOUS
<1>1. PICK l \in Names :
        /\ step = <<"SaveLoser", l>>
        /\ SaveToDatabase(l, user[l])
        /\ step' = <<"Idle">>
        /\ UNCHANGED <<user, promised, unread, torn>>
  BY DEF SaveLoser
<1>2. l \in DOMAIN user /\ \A m : InGame(m) => m = l  BY <1>1, MidGame
<1>3. user[l] \in Rating /\ Ranked(user[l])
  BY <1>1, <1>2 DEF UInv, TypeOK, RankedOK
<1>4. /\ DOMAIN row' = DOMAIN row /\ unsaved' \subseteq Names
      /\ \A m \in DOMAIN row : row'[m] = row[m] \/ (m = l /\ row'[m] = WrittenRating(user[l]))
      /\ \A m \in DOMAIN user : m # l => (m \in unsaved' <=> m \in unsaved)
      /\ l \in unsaved' \/ row'[l] = WrittenRating(user[l])
      /\ RowsOK'
  BY <1>1, <1>2, <1>3, SaveFacts DEF UInv
<1>5. TypeOK'  BY <1>1, <1>2, <1>4 DEF UInv, TypeOK, RowsOK, GoodRow
<1>6. NamesOK'  BY <1>1, <1>4 DEF UInv, NamesOK
<1>7. ReadingOK' /\ RankedOK'  BY <1>1 DEF ReadingOK, RankedOK
<1>8. SavedOK'
  <2>1. DOMAIN user \subseteq DOMAIN row  BY DEF UInv, NamesOK
  <2> QED  BY <1>1, <1>2, <1>4, <2>1 DEF UInv, SavedOK
<1> QED  BY <1>4, <1>5, <1>6, <1>7, <1>8 DEF UInv

LEMMA UserIInv == Spec => []UInv
<1>1. UInv /\ [Next]_vars => UInv'
  <2> SUFFICES ASSUME UInv, [Next]_vars PROVE UInv'  OBVIOUS
  <2>1. CASE UNCHANGED vars
    BY <2>1 DEF vars, UInv, TypeOK, RowsOK, NamesOK, ReadingOK, SavedOK, RankedOK, InGame
  <2>2. ASSUME NEW w \in DOMAIN user, NEW l \in DOMAIN user, UpdateScore(w, l) PROVE UInv'
    BY <2>2, UpdateScoreUInv
  <2> QED
    BY <2>1, <2>2, LoadUInv, CrashUInv, CreateUserUInv, ReadIdUInv, RankWinnerUInv,
       RankLoserUInv, SaveWinnerUInv, SaveLoserUInv DEF Next
<1> QED  BY <1>1, InitUInv, PTL DEF Spec

-----------------------------------------------------------------------------
\* Every rating keeps its type, ranks included, and whoever takes part in a
\* rated game or in a registration is where the next step looks for it.
THEOREM UserTypeCorrect == Spec => []TypeOK
BY UserIInv, PTL DEF UInv

\* No account that was promised is lost, no account in memory is without a row,
\* and a name without an account is one a read has missed.
THEOREM NamesAgreeCorrect == Spec => []NamesAgree
<1>1. UInv => NamesAgree
  <2> SUFFICES ASSUME UInv PROVE NamesAgree  OBVIOUS
  <2>1. NamesOK  BY DEF UInv
  <2>2. Idle => DOMAIN row \ DOMAIN user \subseteq unread  BY <2>1 DEF NamesOK, Idle
  <2> QED  BY <2>1, <2>2 DEF NamesOK, NamesAgree
<1> QED  BY <1>1, UserIInv, PTL

\* Whatever writes and reads fail and wherever the process dies, a rating whose
\* last write succeeded is the one in the table.
THEOREM RatingsAgreeCorrect == Spec => []RatingsAgree
<1>1. UInv => RatingsAgree
  <2>1. Idle => \A n : ~InGame(n)  BY DEF Idle, InGame
  <2> QED  BY <2>1 DEF UInv, SavedOK, RatingsAgree
<1> QED  BY <1>1, UserIInv, PTL

\* Ranks follow scores, but for one rank, whatever the thresholds, as long as
\* they are more than a point apart.
THEOREM RankFollowsScoreCorrect == Spec => []RankFollowsScore
<1>1. UInv => RankFollowsScore
  <2> SUFFICES ASSUME UInv, NEW n \in DOMAIN row
               PROVE  /\ row[n].rank <= RankDeserved(row[n].score)
                      /\ row[n].rank >= RankDeserved(row[n].score) - 1
    BY DEF RankFollowsScore
  <2>1. row[n].score \in Int /\ RankClose(row[n].rank, row[n].score)
    BY DEF UInv, RowsOK, GoodRow, Rating
  <2> QED  BY <2>1, CloseIsNear
<1> QED  BY <1>1, UserIInv, PTL

-----------------------------------------------------------------------------
(* Sums over a finite set.                                                  *)

Pick(s) == CHOOSE m \in s : TRUE

\* What one step of the recursion of Total gives, from the sums over less.
SumStep(f, sums, s) == IF s = {} THEN 0 ELSE f[Pick(s)] + sums[s \ {Pick(s)}]

Sums(f) == CHOOSE sums : sums = [s \in SUBSET DOMAIN f |-> SumStep(f, sums, s)]

LEMMA TotalIs == ASSUME NEW f PROVE Total(f) = Sums(f)[DOMAIN f]
BY DEF Total, Sums, SumStep, Pick

LEMMA SmallerSet ==
  ASSUME NEW D, IsFiniteSet(D), NEW s \in SUBSET D, NEW n \in s
  PROVE  /\ s \ {n} \in SUBSET D
         /\ Cardinality(s) \in Nat /\ Cardinality(s \ {n}) \in Nat
         /\ Cardinality(s \ {n}) < Cardinality(s)
<1>1. IsFiniteSet(s)  BY FS_Subset
<1>2. IsFiniteSet(s \ {n}) /\ Cardinality(s \ {n}) = Cardinality(s) - 1
  BY <1>1, FS_RemoveElement
<1>3. Cardinality(s) \in Nat /\ Cardinality(s \ {n}) \in Nat
  BY <1>1, <1>2, FS_CardinalityType
<1> QED  BY <1>2, <1>3

\* Among some subsets of a finite set there is a smallest one.
LEMMA SmallestSet ==
  ASSUME NEW D, IsFiniteSet(D), NEW B \in SUBSET SUBSET D, B # {}
  PROVE  \E s \in B : \A t \in B : ~(Cardinality(t) < Cardinality(s))
<1> DEFINE T == {Cardinality(s) : s \in B}
<1>1. \A s \in B : Cardinality(s) \in Nat
  <2> TAKE s \in B
  <2>1. IsFiniteSet(s)  BY FS_Subset
  <2> QED  BY <2>1, FS_CardinalityType
<1>2. T \in SUBSET Nat /\ T # {}  BY <1>1
<1>3. PICK x \in T : \A y \in T : x <= y
  <2> HIDE DEF T
  <2> QED  BY <1>2, LeastElement
<1>4. PICK s \in B : x = Cardinality(s)  BY <1>3
<1>5. ASSUME NEW t \in B PROVE ~(Cardinality(t) < Cardinality(s))
  <2>1. Cardinality(t) \in T  OBVIOUS
  <2>2. Cardinality(s) <= Cardinality(t)  BY <1>3, <1>4, <2>1
  <2> QED  BY <1>1, <2>2
<1> QED  BY <1>5

LEMMA PickIn == ASSUME NEW s, s # {} PROVE Pick(s) \in s
BY DEF Pick

\* The recursion of Total ends: a function follows it on all subsets of a finite
\* set.
LEMMA SumsExist ==
  ASSUME NEW f, IsFiniteSet(DOMAIN f)
  PROVE  Sums(f) = [s \in SUBSET DOMAIN f |-> SumStep(f, Sums(f), s)]
<1> DEFINE D == DOMAIN f
<1> DEFINE Fits(g, n) == \A s \in SUBSET D : Cardinality(s) <= n => g[s] = SumStep(f, g, s)
           Fitting(n) == \E g : Fits(g, n)
           T == {n \in Nat : ~Fitting(n)}
<1>0. \A s \in SUBSET D : Cardinality(s) \in Nat /\ (Cardinality(s) = 0 <=> s = {})
  <2> TAKE s \in SUBSET D
  <2>1. IsFiniteSet(s)  BY FS_Subset
  <2> QED  BY <2>1, FS_CardinalityType, FS_EmptySet
<1>1. ASSUME NEW g, NEW h, h = [s \in SUBSET D |-> SumStep(f, g, s)],
             NEW n \in Int, Fits(g, n)
      PROVE  Fits(h, n + 1)
  <2> SUFFICES ASSUME NEW s \in SUBSET D, Cardinality(s) <= n + 1
               PROVE  h[s] = SumStep(f, h, s)
    OBVIOUS
  <2>1. h[s] = SumStep(f, g, s)  BY <1>1
  <2>2. CASE s = {}  BY <2>1, <2>2 DEF SumStep
  <2>3. CASE s # {}
    <3>1. PICK t : t = s \ {Pick(s)}  OBVIOUS
    <3>2. /\ t \in SUBSET D /\ Cardinality(t) \in Nat /\ Cardinality(s) \in Nat
          /\ Cardinality(t) < Cardinality(s)
      BY <2>3, <3>1, PickIn, SmallerSet
    <3>3. Cardinality(t) <= n  BY <3>2
    <3>4. h[t] = SumStep(f, g, t) /\ g[t] = SumStep(f, g, t)  BY <1>1, <3>2, <3>3
    <3> QED  BY <2>1, <2>3, <3>1, <3>4 DEF SumStep
  <2> QED  BY <2>2, <2>3
<1>2. Fitting(0)
  <2>1. PICK g : g = [s \in SUBSET D |-> 0]  OBVIOUS
  <2>2. \A s \in SUBSET D : Cardinality(s) <= 0 => s = {} /\ g[s] = 0  BY <1>0, <2>1
  <2>3. Fits(g, 0)  BY <2>2 DEF SumStep
  <2> QED  BY <2>3
<1>3. ASSUME NEW n \in Nat, Fitting(n) PROVE Fitting(n + 1)
  <2>1. PICK g : Fits(g, n)  BY <1>3
  <2>2. PICK h : h = [s \in SUBSET D |-> SumStep(f, g, s)]  OBVIOUS
  <2>3. Fits(h, n + 1)  BY <1>1, <2>1, <2>2
  <2> QED  BY <2>3
<1> HIDE DEF Fitting
<1>4. \A n \in Nat : Fitting(n)
  <2> SUFFICES ASSUME T # {} PROVE FALSE  OBVIOUS
  <2>1. T \in SUBSET Nat  OBVIOUS
  <2>2. PICK x \in T : \A y \in T : x <= y
    <3> HIDE DEF T
    <3> QED  BY <2>1, LeastElement
  <2>3. x \in Nat /\ x # 0 /\ ~Fitting(x)  BY <1>2, <2>2
  <2>4. x - 1 \in Nat /\ ~(x <= x - 1)  BY <2>3
  <2>5. Fitting(x - 1)  BY <2>2, <2>4
  <2>6. Fitting((x - 1) + 1)  BY <1>3, <2>4, <2>5
  <2>7. (x - 1) + 1 = x  BY <2>3
  <2> QED  BY <2>3, <2>6, <2>7
<1>5. Cardinality(D) \in Nat /\ \A s \in SUBSET D : Cardinality(s) <= Cardinality(D)
  BY FS_CardinalityType, FS_Subset
<1>6. PICK g : Fits(g, Cardinality(D))  BY <1>4, <1>5 DEF Fitting
<1>7. \A s \in SUBSET D : g[s] = SumStep(f, g, s)  BY <1>5, <1>6
<1>8. PICK h : h = [s \in SUBSET D |-> SumStep(f, g, s)]  OBVIOUS
<1>9. \A s \in SUBSET D : h[s] = g[s]  BY <1>7, <1>8
<1>10. \A s \in SUBSET D : s # {} => s \ {Pick(s)} \in SUBSET D  OBVIOUS
<1>11. \A s \in SUBSET D : SumStep(f, h, s) = SumStep(f, g, s)
  BY <1>9, <1>10 DEF SumStep
<1>12. h = [s \in SUBSET D |-> SumStep(f, h, s)]  BY <1>8, <1>11
<1>13. \E sums : sums = [s \in SUBSET DOMAIN f |-> SumStep(f, sums, s)]  BY <1>12
<1> QED  BY <1>13, Zenon DEF Sums

LEMMA SumsFacts ==
  ASSUME NEW D, IsFiniteSet(D), NEW f \in [D -> Int]
  PROVE  /\ Sums(f)[{}] = 0
         /\ \A s \in SUBSET D : s # {} =>
              Sums(f)[s] = f[Pick(s)] + Sums(f)[s \ {Pick(s)}]
         /\ \A s \in SUBSET D : Sums(f)[s] \in Int
<1>1. PICK S : S = Sums(f)  OBVIOUS
<1>2. S = [s \in SUBSET D |-> SumStep(f, S, s)]
  <2>1. DOMAIN f = D  OBVIOUS
  <2>2. Sums(f) = [s \in SUBSET DOMAIN f |-> SumStep(f, Sums(f), s)]
    BY <2>1, SumsExist
  <2> QED  BY <1>1, <2>1, <2>2
<1>3. \A s \in SUBSET D : S[s] = SumStep(f, S, s)  BY <1>2
<1>4. S[{}] = 0  BY <1>3 DEF SumStep
<1>5. \A s \in SUBSET D : s # {} => S[s] = f[Pick(s)] + S[s \ {Pick(s)}]
  BY <1>3 DEF SumStep
<1> DEFINE B == {s \in SUBSET D : S[s] \notin Int}
<1>6. B = {}
  <2> SUFFICES ASSUME B # {} PROVE FALSE  OBVIOUS
  <2>1. PICK s \in B : \A t \in B : ~(Cardinality(t) < Cardinality(s))  BY SmallestSet
  <2>0. s \in SUBSET D /\ ~(S[s] \in Int)  BY <2>1
  <2>2. s # {}
    <3>1. 0 \in Int  OBVIOUS
    <3> QED  BY <1>4, <2>0, <3>1
  <2>3. PICK t : t = s \ {Pick(s)}  OBVIOUS
  <2>4. Pick(s) \in s  BY <2>2, PickIn
  <2>5. t \in SUBSET D /\ Cardinality(t) < Cardinality(s)
    BY <2>1, <2>3, <2>4, SmallerSet
  <2>6. S[t] \in Int  BY <2>1, <2>5
  <2> QED  BY <1>5, <2>1, <2>2, <2>3, <2>4, <2>6
<1> QED  BY <1>1, <1>4, <1>5, <1>6

\* Any element may be taken out of the sum.
LEMMA SumRemove ==
  ASSUME NEW D, IsFiniteSet(D), NEW f \in [D -> Int], NEW s0 \in SUBSET D, NEW n0 \in s0
  PROVE  Sums(f)[s0] = f[n0] + Sums(f)[s0 \ {n0}]
<1>1. PICK S : S = Sums(f)  OBVIOUS
<1>2. /\ \A s \in SUBSET D : s # {} => S[s] = f[Pick(s)] + S[s \ {Pick(s)}]
      /\ \A s \in SUBSET D : S[s] \in Int
  BY <1>1, SumsFacts
<1> DEFINE B == {s \in SUBSET D : \E n \in s : S[s] # f[n] + S[s \ {n}]}
<1>3. B = {}
  <2> SUFFICES ASSUME B # {} PROVE FALSE  OBVIOUS
  <2>1. PICK s \in B : \A t \in B : ~(Cardinality(t) < Cardinality(s))  BY SmallestSet
  <2>2. PICK n \in s : S[s] # f[n] + S[s \ {n}]  BY <2>1
  <2>3. PICK c : c = Pick(s)  OBVIOUS
  <2>4. c \in s /\ S[s] = f[c] + S[s \ {c}] /\ c # n
    BY <1>2, <2>1, <2>2, <2>3, PickIn
  <2>5. PICK t, u, r : t = s \ {c} /\ u = s \ {n} /\ r = s \ {c, n}  OBVIOUS
  <2>6. /\ t \in SUBSET D /\ u \in SUBSET D /\ r \in SUBSET D
        /\ n \in t /\ c \in u /\ t \ {n} = r /\ u \ {c} = r
    BY <2>1, <2>2, <2>4, <2>5
  <2>7. Cardinality(t) < Cardinality(s) /\ Cardinality(u) < Cardinality(s)
    BY <2>1, <2>2, <2>4, <2>5, SmallerSet
  <2>8. t \notin B /\ u \notin B  BY <2>1, <2>7
  <2>9. S[t] = f[n] + S[r] /\ S[u] = f[c] + S[r]  BY <2>6, <2>8
  <2>10. f[n] \in Int /\ f[c] \in Int /\ S[r] \in Int  BY <1>2, <2>1, <2>2, <2>4, <2>6
  <2> QED  BY <2>2, <2>4, <2>5, <2>9, <2>10
<1> QED  BY <1>1, <1>3

\* The sum over a set depends on the values there only.
LEMMA SumSame ==
  ASSUME NEW D, IsFiniteSet(D), NEW f \in [D -> Int],
         NEW E, IsFiniteSet(E), NEW g \in [E -> Int],
         NEW d, d \subseteq D, d \subseteq E, \A m \in d : f[m] = g[m]
  PROVE  Sums(f)[d] = Sums(g)[d]
<1>1. PICK S, R : S = Sums(f) /\ R = Sums(g)  OBVIOUS
<1>2. /\ S[{}] = 0
      /\ \A s \in SUBSET D : s # {} => S[s] = f[Pick(s)] + S[s \ {Pick(s)}]
  BY <1>1, SumsFacts
<1>3. /\ R[{}] = 0
      /\ \A s \in SUBSET E : s # {} => R[s] = g[Pick(s)] + R[s \ {Pick(s)}]
  <2>1. /\ Sums(g)[{}] = 0
        /\ \A s \in SUBSET E : s # {} =>
             Sums(g)[s] = g[Pick(s)] + Sums(g)[s \ {Pick(s)}]
    BY SumsFacts
  <2> QED  BY <1>1, <2>1
<1> DEFINE B == {s \in SUBSET d : S[s] # R[s]}
<1>4. B = {}
  <2> SUFFICES ASSUME B # {} PROVE FALSE  OBVIOUS
  <2>0. B \in SUBSET SUBSET D  OBVIOUS
  <2>1. PICK s \in B : \A t \in B : ~(Cardinality(t) < Cardinality(s))
    <3> HIDE DEF B
    <3> QED  BY <2>0, SmallestSet
  <2>2. s # {} /\ s \in SUBSET d /\ S[s] # R[s]  BY <1>2, <1>3, <2>1
  <2>3. PICK c, t : c = Pick(s) /\ t = s \ {Pick(s)}  OBVIOUS
  <2>4. c \in s /\ f[c] = g[c]  BY <2>2, <2>3, PickIn
  <2>5. t \in SUBSET d /\ Cardinality(t) < Cardinality(s)
    BY <2>2, <2>3, <2>4, SmallerSet
  <2>6. S[t] = R[t]  BY <2>1, <2>5
  <2>7. S[s] = f[c] + S[t] /\ R[s] = g[c] + R[t]  BY <1>2, <1>3, <2>2, <2>3
  <2> QED  BY <2>2, <2>4, <2>6, <2>7
<1> QED  BY <1>1, <1>4

\* A total in which one value changes, and one that gets another value of 0.
LEMMA TotalChange ==
  ASSUME NEW D, IsFiniteSet(D), NEW f \in [D -> Int], NEW g \in [D -> Int],
         NEW n \in D, \A m \in D \ {n} : g[m] = f[m]
  PROVE  Total(f) \in Int /\ Total(g) = Total(f) + (g[n] - f[n])
<1>1. DOMAIN f = D /\ DOMAIN g = D /\ f[n] \in Int /\ g[n] \in Int  OBVIOUS
<1>2. PICK r : r = D \ {n}  OBVIOUS
<1>3. Sums(f)[D] = f[n] + Sums(f)[r] /\ Sums(g)[D] = g[n] + Sums(g)[r]
  BY <1>2, SumRemove
<1>4. Sums(f)[r] = Sums(g)[r]  BY <1>2, SumSame
<1>5. Sums(f)[r] \in Int /\ Sums(f)[D] \in Int  BY <1>2, SumsFacts
<1> QED  BY <1>1, <1>3, <1>4, <1>5, TotalIs

LEMMA TotalGrow ==
  ASSUME NEW D, IsFiniteSet(D), NEW n, n \notin D, NEW f \in [D -> Int],
         NEW g \in [D \cup {n} -> Int], g[n] = 0, \A m \in D : g[m] = f[m]
  PROVE  Total(g) = Total(f)
<1>1. DOMAIN f = D /\ DOMAIN g = D \cup {n}  OBVIOUS
<1>2. PICK E : E = D \cup {n}  OBVIOUS
<1>3. IsFiniteSet(E) /\ E \ {n} = D /\ n \in E  BY <1>2, FS_AddElement
<1>4. g \in [E -> Int]  BY <1>2
<1>5. Sums(g)[E] = g[n] + Sums(g)[D]  BY <1>3, <1>4, SumRemove
<1>6. Sums(g)[D] = Sums(f)[D]  BY <1>2, <1>3, <1>4, SumSame
<1>7. Sums(f)[D] \in Int  BY SumsFacts
<1> QED  BY <1>1, <1>2, <1>5, <1>6, <1>7, TotalIs

-----------------------------------------------------------------------------
(* The books.  The rating that counts is the one in memory, and the row of  *)
(* whoever is not in memory: between two crashes only this is balanced,     *)
(* while the rows are written one by one.                                   *)

Kept(n) == IF n \in DOMAIN user THEN user[n] ELSE row[n]

Wins   == [n \in DOMAIN row |-> Kept(n).wins]
Losses == [n \in DOMAIN row |-> Kept(n).losses]
Draws  == [n \in DOMAIN row |-> Kept(n).draws]

KeptBalance == Total(Wins) = Total(Losses) /\ Total(Draws) % 2 = 0

BooksInv ==
  /\ IsFiniteSet(DOMAIN row)
  /\ step = <<"Down">> => DOMAIN user = {}
  /\ torn \/ KeptBalance

SameCounts(q, r) == q.wins = r.wins /\ q.losses = r.losses /\ q.draws = r.draws

LEMMA KeptRating ==
  ASSUME UInv
  PROVE  /\ Wins \in [DOMAIN row -> Int]
         /\ Losses \in [DOMAIN row -> Int]
         /\ Draws \in [DOMAIN row -> Int]
<1>1. \A n \in DOMAIN row : Kept(n) \in Rating  BY DEF UInv, TypeOK, Kept
<1>2. \A r \in Rating : r.wins \in Int /\ r.losses \in Int /\ r.draws \in Int
  BY DEF Rating
<1> QED  BY <1>1, <1>2 DEF Wins, Losses, Draws

\* The same in the next state.
LEMMA KeptRatingNext ==
  ASSUME UInv'
  PROVE  /\ Wins' \in [DOMAIN row' -> Int]
         /\ Losses' \in [DOMAIN row' -> Int]
         /\ Draws' \in [DOMAIN row' -> Int]
<1>1. \A n \in DOMAIN row' : Kept(n)' \in Rating  BY DEF UInv, TypeOK, Kept
<1>2. \A r \in Rating : r.wins \in Int /\ r.losses \in Int /\ r.draws \in Int
  BY DEF Rating
<1> QED  BY <1>1, <1>2 DEF Wins, Losses, Draws

\* A step that counts nothing.
LEMMA NothingCounted ==
  ASSUME BooksInv, DOMAIN row' = DOMAIN row,
         step' = <<"Down">> => DOMAIN user' = {},
         torn' \/ ~torn,
         torn' \/ \A n \in DOMAIN row : SameCounts(Kept(n)', Kept(n))
  PROVE  BooksInv'
<1>1. CASE torn'  BY <1>1 DEF BooksInv
<1>2. CASE ~torn'
  <2>1. KeptBalance  BY <1>2 DEF BooksInv
  <2>2. \A n \in DOMAIN row : SameCounts(Kept(n)', Kept(n))  BY <1>2
  <2>3. Wins' = Wins /\ Losses' = Losses /\ Draws' = Draws
    BY <2>2 DEF SameCounts, Wins, Losses, Draws
  <2>4. KeptBalance'  BY <2>1, <2>3 DEF KeptBalance
  <2> QED  BY <2>4 DEF BooksInv
<1> QED  BY <1>1, <1>2

LEMMA WrittenCounts ==
  ASSUME NEW r \in Rating
  PROVE  SameCounts(WrittenRating(r), r)
BY DEF WrittenRating, SameCounts, Rating

LEMMA LoadBooks == UInv /\ BooksInv /\ LoadUsersFromDatabase => BooksInv'
<1> SUFFICES ASSUME UInv, BooksInv, LoadUsersFromDatabase PROVE BooksInv'  OBVIOUS
<1>1. PICK found \in SUBSET DOMAIN row :
        \E blank \in SUBSET found :
          /\ user' = [n \in found |-> IF n \in blank THEN NewUser ELSE row[n]]
          /\ torn' = (torn \/ blank # {})
  BY DEF LoadUsersFromDatabase
<1>2. PICK blank \in SUBSET found :
        /\ user' = [n \in found |-> IF n \in blank THEN NewUser ELSE row[n]]
        /\ torn' = (torn \/ blank # {})
  BY <1>1
<1>3. UNCHANGED row /\ step' # <<"Down">> /\ DOMAIN user = {}
  BY DEF LoadUsersFromDatabase, BooksInv
<1>4. torn' \/ (~torn /\ blank = {})  BY <1>2
<1>5. \A n \in DOMAIN row : Kept(n) = row[n]  BY <1>3 DEF Kept
<1>6. blank = {} => \A n \in DOMAIN row : Kept(n)' = row[n]
  BY <1>2, <1>3 DEF Kept
<1> QED  BY <1>3, <1>4, <1>5, <1>6, NothingCounted DEF SameCounts

\* A process that dies when no game is being rated and no write is missing
\* leaves the books in the table as they were in memory.
LEMMA CrashBooks == UInv /\ BooksInv /\ Crash => BooksInv'
<1> SUFFICES ASSUME UInv, BooksInv, Crash PROVE BooksInv'  OBVIOUS
<1>1. DOMAIN user' = {} /\ UNCHANGED row  BY DEF Crash
<1>2. torn' = (torn \/ Updating \/ unsaved # {})  BY DEF Crash
<1>3. torn' \/ (~torn /\ ~Updating /\ unsaved = {})  BY <1>2
<1>4. ASSUME ~Updating, unsaved = {}, NEW n \in DOMAIN row
      PROVE  SameCounts(Kept(n)', Kept(n))
  <2>1. Kept(n)' = row[n]  BY <1>1 DEF Kept
  <2>2. ~InGame(n)  BY <1>4 DEF InGame, Updating
  <2>3. CASE n \in DOMAIN user
    <3>1. row[n] = WrittenRating(user[n]) /\ user[n] \in Rating
      BY <1>4, <2>2, <2>3 DEF UInv, TypeOK, SavedOK
    <3> QED  BY <2>1, <2>3, <3>1, WrittenCounts DEF Kept
  <2>4. CASE n \notin DOMAIN user  BY <2>1, <2>4 DEF Kept, SameCounts
  <2> QED  BY <2>3, <2>4
<1> QED  BY <1>1, <1>3, <1>4, NothingCounted

LEMMA CreateUserBooks ==
  ASSUME UInv, UInv', BooksInv, NEW n \in Names, CreateUser(n)
  PROVE  BooksInv'
<1>1. /\ n \notin DOMAIN row /\ step' # <<"Down">>
      /\ DOMAIN row' = DOMAIN row \cup {n}
      /\ \A m \in DOMAIN row' : row'[m] = IF m = n THEN NewUser ELSE row[m]
      /\ n \notin DOMAIN user /\ UNCHANGED <<user, torn>>
  BY DEF CreateUser
<1>2. IsFiniteSet(DOMAIN row) /\ IsFiniteSet(DOMAIN row')
  BY <1>1, FS_AddElement DEF BooksInv
<1>3. \A m \in DOMAIN row : Kept(m)' = Kept(m)  BY <1>1 DEF Kept
<1>4. Kept(n)'.wins = 0 /\ Kept(n)'.losses = 0 /\ Kept(n)'.draws = 0
  BY <1>1 DEF Kept, NewUser
<1>5. /\ Wins'[n] = 0 /\ \A m \in DOMAIN row : Wins'[m] = Wins[m]
      /\ Losses'[n] = 0 /\ \A m \in DOMAIN row : Losses'[m] = Losses[m]
      /\ Draws'[n] = 0 /\ \A m \in DOMAIN row : Draws'[m] = Draws[m]
  BY <1>1, <1>3, <1>4 DEF Wins, Losses, Draws
<1>6. /\ Wins \in [DOMAIN row -> Int] /\ Wins' \in [DOMAIN row \cup {n} -> Int]
      /\ Losses \in [DOMAIN row -> Int] /\ Losses' \in [DOMAIN row \cup {n} -> Int]
      /\ Draws \in [DOMAIN row -> Int] /\ Draws' \in [DOMAIN row \cup {n} -> Int]
  BY <1>1, KeptRating, KeptRatingNext
<1>7. Total(Wins') = Total(Wins)  BY <1>1, <1>2, <1>5, <1>6, TotalGrow
<1>8. Total(Losses') = Total(Losses)  BY <1>1, <1>2, <1>5, <1>6, TotalGrow
<1>9. Total(Draws') = Total(Draws)  BY <1>1, <1>2, <1>5, <1>6, TotalGrow
<1> QED  BY <1>1, <1>2, <1>7, <1>8, <1>9 DEF BooksInv, KeptBalance

LEMMA ReadIdBooks == UInv /\ BooksInv /\ ReadId => BooksInv'
<1> SUFFICES ASSUME UInv, BooksInv, ReadId PROVE BooksInv'  OBVIOUS
<1>1. PICK n \in Names :
        /\ step = <<"ReadId", n>> /\ step' = <<"Idle">> /\ UNCHANGED <<row, torn>>
        /\ \/ user' = [m \in DOMAIN user \cup {n} |-> IF m = n THEN NewUser ELSE user[m]]
           \/ UNCHANGED user
  BY DEF ReadId
<1>2. n \in DOMAIN row \ DOMAIN user /\ row[n] = NewUser  BY <1>1 DEF UInv, ReadingOK
<1>3. \A m \in DOMAIN row : Kept(m)' = Kept(m)  BY <1>1, <1>2 DEF Kept
<1> QED  BY <1>1, <1>3, NothingCounted DEF SameCounts

\* Giving somebody a rank, and writing the row of somebody in memory.
LEMMA RankBooks ==
  ASSUME UInv, BooksInv, NEW n \in DOMAIN user, UpdateRankByScore(n),
         step' # <<"Down">>, UNCHANGED torn
  PROVE  BooksInv'
<1> DEFINE rated == [user[n] EXCEPT !.rank = RankByScore(user[n].score)]
<1>1. /\ DOMAIN user' = DOMAIN user /\ DOMAIN row' = DOMAIN row
      /\ \A m \in DOMAIN row : m \notin DOMAIN user => row'[m] = row[m]
  <2>1. CASE UNCHANGED row  BY <2>1, RankFacts
  <2>2. CASE \E r : row' = [row EXCEPT ![n] = r]  BY <2>2, RankFacts
  <2> QED  BY <2>1, <2>2 DEF UpdateRankByScore, SaveToDatabase
<1>2. user' = [user EXCEPT ![n] = rated] /\ user[n] \in Rating
  BY DEF UpdateRankByScore, UInv, TypeOK
<1>3. SameCounts(rated, user[n])  BY <1>2 DEF SameCounts, Rating
<1> HIDE DEF rated
<1>4. \A m \in DOMAIN row : SameCounts(Kept(m)', Kept(m))
  BY <1>1, <1>2, <1>3 DEF Kept, SameCounts
<1> QED  BY <1>1, <1>4, NothingCounted

LEMMA SaveBooks ==
  ASSUME UInv, BooksInv, NEW n \in DOMAIN user, SaveToDatabase(n, user[n]),
         step' # <<"Down">>, UNCHANGED <<user, torn>>
  PROVE  BooksInv'
<1>1. /\ DOMAIN row' = DOMAIN row
      /\ \A m \in DOMAIN row : m \notin DOMAIN user => row'[m] = row[m]
  BY DEF SaveToDatabase
<1>2. \A m \in DOMAIN row : Kept(m)' = Kept(m)  BY <1>1 DEF Kept
<1> QED  BY <1>1, <1>2, NothingCounted DEF SameCounts

\* A rated game: one win and one loss, or two draws.
LEMMA UpdateScoreBooks ==
  ASSUME UInv, UInv', BooksInv, NEW w \in DOMAIN user, NEW l \in DOMAIN user,
         UpdateScore(w, l)
  PROVE  BooksInv'
<1>1. w # l /\ step' # <<"Down">> /\ UNCHANGED <<row, torn>>
  BY DEF UpdateScore
<1>2. /\ w \in DOMAIN row /\ l \in DOMAIN row /\ DOMAIN user \subseteq DOMAIN row
      /\ \A m \in DOMAIN user : user[m] \in Rating
  BY DEF UInv, NamesOK, TypeOK
<1>3. PICK D : D = DOMAIN row  OBVIOUS
<1>4. IsFiniteSet(D) /\ w \in D /\ l \in D  BY <1>2, <1>3 DEF BooksInv
<1>5. /\ Wins \in [D -> Int] /\ Wins' \in [D -> Int]
      /\ Losses \in [D -> Int] /\ Losses' \in [D -> Int]
      /\ Draws \in [D -> Int] /\ Draws' \in [D -> Int]
  BY <1>1, <1>3, KeptRating, KeptRatingNext
<1>6. CASE Win(w, l)
  <2>1. PICK a, b :
          user' = [user EXCEPT ![w].score = a, ![w].wins = @ + 1,
                               ![l].score = b, ![l].losses = @ + 1]
    <3>1. PICK gain \in Gains, loss \in Gains :
            user' = [user EXCEPT ![w].score = @ + gain, ![w].wins = @ + 1,
                                 ![l].score = @ - loss, ![l].losses = @ + 1]
      BY <1>6 DEF Win
    <3>2. user' = [user EXCEPT ![w].score = user[w].score + gain, ![w].wins = @ + 1,
                               ![l].score = user[l].score - loss, ![l].losses = @ + 1]
      BY <1>1, <3>1
    <3> QED  BY <3>2
  <2>2. /\ DOMAIN user' = DOMAIN user
        /\ \A m \in DOMAIN user : m \notin {w, l} => user'[m] = user[m]
        /\ user'[w].wins = user[w].wins + 1 /\ user'[w].losses = user[w].losses
        /\ user'[w].draws = user[w].draws
        /\ user'[l].wins = user[l].wins /\ user'[l].losses = user[l].losses + 1
        /\ user'[l].draws = user[l].draws
    BY <1>1, <1>2, <2>1 DEF Rating
  <2>3. /\ \A m \in D \ {w} : Wins'[m] = Wins[m]
        /\ Wins'[w] = Wins[w] + 1
        /\ \A m \in D \ {l} : Losses'[m] = Losses[m]
        /\ Losses'[l] = Losses[l] + 1
        /\ \A m \in D : Draws'[m] = Draws[m]
    BY <1>1, <1>2, <1>3, <2>2 DEF Wins, Losses, Draws, Kept
  <2>4. Total(Wins) \in Int /\ Total(Wins') = Total(Wins) + (Wins'[w] - Wins[w])
    BY <1>4, <1>5, <2>3, TotalChange
  <2>5. Total(Losses) \in Int /\ Total(Losses') = Total(Losses) + (Losses'[l] - Losses[l])
    BY <1>4, <1>5, <2>3, TotalChange
  <2>6. Wins[w] \in Int /\ Losses[l] \in Int  BY <1>4, <1>5
  <2>7. Draws' = Draws  BY <1>5, <2>3
  <2>8. KeptBalance => KeptBalance'
    BY <2>3, <2>4, <2>5, <2>6, <2>7 DEF KeptBalance
  <2> QED  BY <1>1, <2>8 DEF BooksInv
<1>7. CASE DrawnGame(w, l)
  <2>1. PICK a, b :
          user' = [user EXCEPT ![w].score = a, ![w].draws = @ + 1,
                               ![l].score = b, ![l].draws = @ + 1]
    <3>1. PICK gain \in Gains, loss \in Gains :
            LET Moved(n, m) == CASE user[n].score < user[m].score -> gain
                                 [] user[n].score > user[m].score -> -loss
                                 [] OTHER                         -> 0
            IN  user' = [user EXCEPT ![w].score = @ + Moved(w, l), ![w].draws = @ + 1,
                                     ![l].score = @ + Moved(l, w), ![l].draws = @ + 1]
      BY <1>7 DEF DrawnGame
    <3> DEFINE Moved(n, m) == CASE user[n].score < user[m].score -> gain
                                [] user[n].score > user[m].score -> -loss
                                [] OTHER                         -> 0
    <3>2. user' = [user EXCEPT ![w].score = @ + Moved(w, l), ![w].draws = @ + 1,
                               ![l].score = @ + Moved(l, w), ![l].draws = @ + 1]
      BY <3>1
    <3> HIDE DEF Moved
    <3>3. user' = [user EXCEPT ![w].score = user[w].score + Moved(w, l), ![w].draws = @ + 1,
                               ![l].score = user[l].score + Moved(l, w), ![l].draws = @ + 1]
      BY <1>1, <3>2
    <3> QED  BY <3>3
  <2>2. /\ DOMAIN user' = DOMAIN user
        /\ \A m \in DOMAIN user : m \notin {w, l} => user'[m] = user[m]
        /\ user'[w].wins = user[w].wins /\ user'[w].losses = user[w].losses
        /\ user'[w].draws = user[w].draws + 1
        /\ user'[l].wins = user[l].wins /\ user'[l].losses = user[l].losses
        /\ user'[l].draws = user[l].draws + 1
    BY <1>1, <1>2, <2>1 DEF Rating
  <2>3. /\ \A m \in D : Wins'[m] = Wins[m] /\ Losses'[m] = Losses[m]
        /\ \A m \in D \ {w, l} : Draws'[m] = Draws[m]
        /\ Draws'[w] = Draws[w] + 1 /\ Draws'[l] = Draws[l] + 1
    BY <1>1, <1>2, <1>3, <2>2 DEF Wins, Losses, Draws, Kept
  <2>4. PICK f, g, h : f = Draws /\ g = [Draws EXCEPT ![w] = @ + 1] /\ h = Draws'
    OBVIOUS
  <2>5. /\ f \in [D -> Int] /\ g \in [D -> Int] /\ h \in [D -> Int]
        /\ \A m \in D \ {w} : g[m] = f[m]
        /\ \A m \in D \ {l} : h[m] = g[m]
        /\ g[w] = f[w] + 1 /\ h[l] = g[l] + 1
    BY <1>1, <1>4, <1>5, <2>3, <2>4
  <2>6. Total(f) \in Int /\ Total(g) = Total(f) + (g[w] - f[w])
    BY <1>4, <2>5, TotalChange
  <2>7. Total(g) \in Int /\ Total(h) = Total(g) + (h[l] - g[l])
    BY <1>4, <2>5, TotalChange
  <2>8. f[w] \in Int /\ g[l] \in Int  BY <1>4, <2>5
  <2>9. Total(h) = Total(f) + 2  BY <2>5, <2>6, <2>7, <2>8
  <2>10. Wins' = Wins /\ Losses' = Losses  BY <1>5, <2>3
  <2>11. Total(f) % 2 = 0 => Total(h) % 2 = 0  BY <2>6, <2>9
  <2>12. KeptBalance => KeptBalance'  BY <2>4, <2>10, <2>11 DEF KeptBalance
  <2> QED  BY <1>1, <2>12 DEF BooksInv
<1> QED  BY <1>6, <1>7 DEF UpdateScore

LEMMA InitBooks == Init => BooksInv
<1> SUFFICES ASSUME Init PROVE BooksInv  OBVIOUS
<1>1. DOMAIN row = {} /\ DOMAIN user = {}  BY DEF Init
<1>2. Wins \in [{} -> Int] /\ Losses = Wins /\ Draws = Wins
  BY <1>1 DEF Wins, Losses, Draws
<1>3. Total(Wins) = 0
  <2>1. DOMAIN Wins = {}  BY <1>2
  <2> QED  BY <1>2, <2>1, FS_EmptySet, SumsFacts, TotalIs
<1>4. KeptBalance  BY <1>2, <1>3 DEF KeptBalance
<1> QED  BY <1>1, <1>4, FS_EmptySet DEF BooksInv

LEMMA NextBooks == UInv /\ UInv' /\ BooksInv /\ [Next]_vars => BooksInv'
<1> SUFFICES ASSUME UInv, UInv', BooksInv, [Next]_vars PROVE BooksInv'  OBVIOUS
<1>1. CASE UNCHANGED vars
  <2>1. \A m \in DOMAIN row : Kept(m)' = Kept(m)  BY <1>1 DEF vars, Kept
  <2> QED  BY <1>1, <2>1, NothingCounted DEF vars, BooksInv, SameCounts
<1>2. CASE RankWinner
  <2>1. PICK w \in Names, l \in Names :
          /\ step = <<"RankWinner", w, l>> /\ UpdateRankByScore(w)
          /\ step' = <<"RankLoser", w, l>> /\ UNCHANGED torn
    BY <1>2 DEF RankWinner
  <2> QED  BY <2>1, MidGame, RankBooks
<1>3. CASE RankLoser
  <2>1. PICK w \in Names, l \in Names :
          /\ step = <<"RankLoser", w, l>> /\ UpdateRankByScore(l)
          /\ step' = <<"SaveWinner", w, l>> /\ UNCHANGED torn
    BY <1>3 DEF RankLoser
  <2> QED  BY <2>1, MidGame, RankBooks
<1>4. CASE SaveWinner
  <2>1. PICK w \in Names, l \in Names :
          /\ step = <<"SaveWinner", w, l>> /\ SaveToDatabase(w, user[w])
          /\ step' = <<"SaveLoser", l>> /\ UNCHANGED <<user, torn>>
    BY <1>4 DEF SaveWinner
  <2> QED  BY <2>1, MidGame, SaveBooks
<1>5. CASE SaveLoser
  <2>1. PICK l \in Names :
          /\ step = <<"SaveLoser", l>> /\ SaveToDatabase(l, user[l])
          /\ step' = <<"Idle">> /\ UNCHANGED <<user, torn>>
    BY <1>5 DEF SaveLoser
  <2> QED  BY <2>1, MidGame, SaveBooks
<1> QED
  BY <1>1, <1>2, <1>3, <1>4, <1>5, LoadBooks, CrashBooks, CreateUserBooks, ReadIdBooks,
     UpdateScoreBooks DEF Next

\* Whatever writes fail and whenever the process dies: while no game is torn,
\* no write missing and none under way, the table has a loss for every win, and
\* drawn games in pairs, for any number of users and games.
THEOREM BooksBalanceCorrect == Spec => []BooksBalance
<1>1. UInv /\ BooksInv => BooksBalance
  <2> SUFFICES ASSUME UInv, BooksInv, Idle, ~torn, unsaved = {}
               PROVE  /\ Total([n \in DOMAIN row |-> row[n].wins])
                           = Total([n \in DOMAIN row |-> row[n].losses])
                      /\ Total([n \in DOMAIN row |-> row[n].draws]) % 2 = 0
    BY DEF BooksBalance
  <2>1. ASSUME NEW n \in DOMAIN row PROVE SameCounts(row[n], Kept(n))
    <3>1. ~InGame(n)  BY DEF Idle, InGame
    <3>2. CASE n \in DOMAIN user
      <4>1. row[n] = WrittenRating(user[n]) /\ user[n] \in Rating
        BY <3>1, <3>2 DEF UInv, TypeOK, SavedOK
      <4> QED  BY <3>2, <4>1, WrittenCounts DEF Kept
    <3>3. CASE n \notin DOMAIN user  BY <3>3 DEF Kept, SameCounts
    <3> QED  BY <3>2, <3>3
  <2>2. /\ [n \in DOMAIN row |-> row[n].wins] = Wins
        /\ [n \in DOMAIN row |-> row[n].losses] = Losses
        /\ [n \in DOMAIN row |-> row[n].draws] = Draws
    BY <2>1 DEF SameCounts, Wins, Losses, Draws
  <2> QED  BY <2>2 DEF BooksInv, KeptBalance
<1> QED  BY <1>1, InitBooks, NextBooks, UserIInv, PTL DEF Spec

=============================================================================
