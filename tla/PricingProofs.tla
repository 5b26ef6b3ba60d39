--------------------------- MODULE PricingProofs ----------------------------
(***************************************************************************)
(* What the operators of Pricing return, for any number of sources, rates  *)
(* and prices: the median lies in the middle of the rates that were        *)
(* answered, and the raw amount is the least one that covers the price.    *)
(*                                                                         *)
(* That the sorted list has a k-th element rests on a finite set having a  *)
(* highest one, and that on the well-foundedness of strict inclusion.      *)
(***************************************************************************)
EXTENDS Pricing, FiniteSetTheorems, WellFoundedInduction, TLAPS

\* The answers of one round over the sources.
Rounds == [Sources -> Nat \cup {Failed}]

-----------------------------------------------------------------------------

\* A finite, nonempty set has an element of the highest rate.
LEMMA HighestExists ==
    ASSUME NEW F, IsFiniteSet(F), F # {}, NEW rate, \A s \in F : rate[s] \in Nat
    PROVE  \E s \in F : \A x \in F : rate[x] <= rate[s]
<1> DEFINE UpFrom(s) == {x \in F : rate[x] >= rate[s]}
           Ups == {UpFrom(s) : s \in F}
<1>1. IsWellFoundedOn(StrictSubsetOrdering(F), FiniteSubsetsOf(F))
  BY FS_StrictSubsetOrderingWellFounded
<1>2. Ups \subseteq FiniteSubsetsOf(F) /\ Ups # {}
  <2>1. \A s \in F : UpFrom(s) \in SUBSET F /\ IsFiniteSet(UpFrom(s))
    BY FS_Subset
  <2> QED BY <2>1 DEF FiniteSubsetsOf
<1>3. PICK U \in Ups : \A V \in Ups : <<V, U>> \notin StrictSubsetOrdering(F)
  <2> HIDE DEF Ups
  <2> QED BY <1>1, <1>2, WFMin
<1>4. PICK s \in F : U = UpFrom(s)
  OBVIOUS
<1>5. \A x \in F : rate[x] <= rate[s]
  <2> SUFFICES ASSUME NEW x \in F, rate[x] > rate[s] PROVE FALSE
    OBVIOUS
  <2>1. UpFrom(x) \subseteq UpFrom(s) /\ s \in UpFrom(s) /\ s \notin UpFrom(x)
    OBVIOUS
  <2>2. <<UpFrom(x), U>> \in StrictSubsetOrdering(F)
    BY <2>1, <1>4 DEF StrictSubsetOrdering
  <2> QED BY <2>2, <1>3
<1> QED BY <1>5

\* The sets of sources that the rank of a rate is counted in.
LEMMA Ranks ==
    ASSUME NEW answers \in Rounds, NEW v \in Nat
    PROVE  /\ IsFiniteSet(Healthy(answers))
           /\ \A s \in Healthy(answers) : answers[s] \in Nat
           /\ IsFiniteSet(AtMost(answers, v)) /\ IsFiniteSet(Below(answers, v))
           /\ Cardinality(Healthy(answers)) \in Nat
           /\ Cardinality(AtMost(answers, v)) \in Nat
           /\ Cardinality(Below(answers, v)) \in Nat
           /\ Cardinality(AtLeast(answers, v))
                = Cardinality(Healthy(answers)) - Cardinality(Below(answers, v))
<1>1. IsFiniteSet(Healthy(answers)) /\ \A s \in Healthy(answers) : answers[s] \in Nat
  BY SourcesAssumption, FS_Subset DEF Healthy, Rounds
<1>2. /\ AtMost(answers, v) \in SUBSET Healthy(answers)
      /\ Below(answers, v) \in SUBSET Healthy(answers)
  BY DEF AtMost, Below
<1>3. AtLeast(answers, v) = Healthy(answers) \ Below(answers, v)
  BY <1>1 DEF AtLeast, Below
<1>4. Healthy(answers) \cap Below(answers, v) = Below(answers, v)
  BY <1>2
<1>5. /\ IsFiniteSet(AtMost(answers, v)) /\ IsFiniteSet(Below(answers, v))
      /\ Cardinality(Healthy(answers)) \in Nat
      /\ Cardinality(AtMost(answers, v)) \in Nat
      /\ Cardinality(Below(answers, v)) \in Nat
  BY <1>1, <1>2, FS_Subset, FS_CardinalityType
<1>6. Cardinality(Healthy(answers) \ Below(answers, v))
        = Cardinality(Healthy(answers)) - Cardinality(Healthy(answers) \cap Below(answers, v))
  BY <1>1, FS_Difference
<1> QED BY <1>1, <1>3, <1>4, <1>5, <1>6

\* The sorted list of the rates has a k-th element.
LEMMA NthExists ==
    ASSUME NEW answers \in Rounds, NEW k \in 1..Cardinality(Healthy(answers)),
           IsFiniteSet(Healthy(answers))
    PROVE  \E v \in {answers[s] : s \in Healthy(answers)} :
              /\ Cardinality(Below(answers, v)) < k
              /\ k <= Cardinality(AtMost(answers, v))
<1> DEFINE H == Healthy(answers)
           Enough == {AtMost(answers, answers[s]) :
                        s \in {x \in H : k <= Cardinality(AtMost(answers, answers[x]))}}
<1>1. IsFiniteSet(H) /\ \A s \in H : answers[s] \in Nat
  BY SourcesAssumption, FS_Subset DEF Healthy, Rounds
<1>2. H # {} /\ Cardinality(H) \in Nat
  BY <1>1, FS_EmptySet, FS_CardinalityType
<1>3. Enough \subseteq FiniteSubsetsOf(H)
  BY <1>1, Ranks DEF FiniteSubsetsOf, AtMost
<1>4. Enough # {}
  <2>1. PICK top \in H : \A x \in H : answers[x] <= answers[top]
    BY <1>1, <1>2, HighestExists
  <2>2. AtMost(answers, answers[top]) = H
    BY <2>1 DEF AtMost
  <2>3. AtMost(answers, answers[top]) \in Enough
    BY <2>2
  <2> QED BY <2>3
<1>5. PICK E \in Enough : \A D \in Enough : <<D, E>> \notin StrictSubsetOrdering(H)
  <2>1. IsWellFoundedOn(StrictSubsetOrdering(H), FiniteSubsetsOf(H))
    BY FS_StrictSubsetOrderingWellFounded
  <2> HIDE DEF Enough, H
  <2> QED BY <2>1, <1>3, <1>4, WFMin
<1>6. PICK s \in H : E = AtMost(answers, answers[s]) /\ k <= Cardinality(E)
  OBVIOUS
<1> DEFINE v == answers[s]
           B == Below(answers, v)
<1>7. v \in Nat /\ IsFiniteSet(B) /\ Cardinality(B) \in Nat
  BY <1>1, Ranks
<1>8. Cardinality(B) < k
  <2>1. CASE B = {}
    BY <2>1, FS_EmptySet
  <2>2. CASE B # {}
    <3>1. \A x \in B : x \in H /\ answers[x] \in Nat /\ answers[x] < v
      BY <1>1 DEF Below
    <3>2. PICK w \in B : \A x \in B : answers[x] <= answers[w]
      <4> HIDE DEF B
      <4> QED BY <1>7, <2>2, <3>1, HighestExists
    <3>3. AtMost(answers, answers[w]) = B
      BY <1>1, <1>7, <3>1, <3>2 DEF AtMost, Below
    <3>4. B \subseteq E /\ s \in E /\ s \notin B /\ E \subseteq H
      BY <1>1, <1>6, <1>7 DEF AtMost, Below
    <3>5. <<B, E>> \in StrictSubsetOrdering(H)
      BY <3>1, <3>4 DEF StrictSubsetOrdering
    <3>6. ~(k <= Cardinality(B))
      BY <1>5, <3>1, <3>3, <3>5
    <3> QED BY <1>7, <3>6
  <2> QED BY <2>1, <2>2
<1> QED BY <1>6, <1>8

\* Nth is that element, a natural number.
LEMMA NthIsRanked ==
    ASSUME NEW answers \in Rounds, NEW k \in 1..Cardinality(Healthy(answers))
    PROVE  /\ Nth(answers, k) \in Nat
           /\ Cardinality(Below(answers, Nth(answers, k))) < k
           /\ k <= Cardinality(AtMost(answers, Nth(answers, k)))
<1>1. IsFiniteSet(Healthy(answers)) /\ \A s \in Healthy(answers) : answers[s] \in Nat
  BY SourcesAssumption, FS_Subset DEF Healthy, Rounds
<1>2. \E v \in {answers[s] : s \in Healthy(answers)} :
          /\ Cardinality(Below(answers, v)) < k
          /\ k <= Cardinality(AtMost(answers, v))
  BY <1>1, NthExists
<1>3. /\ Nth(answers, k) \in {answers[s] : s \in Healthy(answers)}
      /\ Cardinality(Below(answers, Nth(answers, k))) < k
      /\ k <= Cardinality(AtMost(answers, Nth(answers, k)))
  <2> DEFINE Ranked(v) == /\ Cardinality(Below(answers, v)) < k
                          /\ k <= Cardinality(AtMost(answers, v))
             Values == {answers[s] : s \in Healthy(answers)}
  <2>1. \E v \in Values : Ranked(v)
    BY <1>2
  <2>2. Nth(answers, k) = CHOOSE v \in Values : Ranked(v)
    BY DEF Nth
  <2> HIDE DEF Ranked, Values
  <2>3. Nth(answers, k) \in Values /\ Ranked(Nth(answers, k))
    BY <2>1, <2>2
  <2> QED BY <2>3 DEF Ranked, Values
<1> QED BY <1>1, <1>3

-----------------------------------------------------------------------------

\* median: at least half of the rates are no higher, and at least half are no
\* lower, so that a majority of sound sources keeps the median among their
\* rates, whatever the others answer (fetch_median_xno_usd).
THEOREM MedianInTheMiddle ==
    ASSUME NEW answers \in Rounds, HasMedian(answers)
    PROVE  LET H == Healthy(answers)
               m == MedianTwice(answers)
           IN  /\ m \in Nat
               /\ 2 * Cardinality({s \in H : 2 * answers[s] <= m}) >= Cardinality(H)
               /\ 2 * Cardinality({s \in H : 2 * answers[s] >= m}) >= Cardinality(H)
<1> DEFINE H == Healthy(answers)
           n == Cardinality(H)
           lo == Nth(answers, (n + 1) \div 2)
           hi == Nth(answers, n \div 2 + 1)
           Lows == {s \in H : 2 * answers[s] <= lo + hi}
           Highs == {s \in H : 2 * answers[s] >= lo + hi}
<1>1. IsFiniteSet(H) /\ (\A s \in H : answers[s] \in Nat) /\ n \in Nat /\ n >= 2
  BY SourcesAssumption, FS_Subset, FS_CardinalityType DEF Healthy, Rounds, HasMedian
<1>2. /\ (n + 1) \div 2 \in 1..n /\ n \div 2 + 1 \in 1..n
      /\ 2 * ((n + 1) \div 2) >= n /\ 2 * (n - (n \div 2 + 1) + 1) >= n
      /\ (n + 1) \div 2 <= n \div 2 + 1
  <2> HIDE DEF n
  <2> QED BY <1>1
<1>3. /\ lo \in Nat /\ Cardinality(Below(answers, lo)) < (n + 1) \div 2
      /\ (n + 1) \div 2 <= Cardinality(AtMost(answers, lo))
  BY <1>2, NthIsRanked
<1>4. /\ hi \in Nat /\ Cardinality(Below(answers, hi)) < n \div 2 + 1
      /\ n \div 2 + 1 <= Cardinality(AtMost(answers, hi))
  BY <1>2, NthIsRanked
<1>5. lo <= hi
  <2> SUFFICES ASSUME hi < lo PROVE FALSE
    BY <1>3, <1>4
  <2>1. AtMost(answers, hi) \in SUBSET Below(answers, lo)
    BY <1>1, <1>3, <1>4 DEF AtMost, Below
  <2>2. Cardinality(AtMost(answers, hi)) <= Cardinality(Below(answers, lo))
    BY <2>1, <1>3, Ranks, FS_Subset
  <2>3. /\ Cardinality(AtMost(answers, hi)) \in Nat
        /\ Cardinality(Below(answers, lo)) \in Nat
    BY <1>3, <1>4, Ranks
  <2> HIDE DEF n, lo, hi
  <2> QED BY <1>1, <1>2, <1>3, <1>4, <2>2, <2>3
<1>6. 2 * Cardinality(Lows) >= n
  <2>1. AtMost(answers, lo) \in SUBSET Lows
    BY <1>1, <1>3, <1>4, <1>5 DEF AtMost
  <2>2. IsFiniteSet(Lows) /\ Cardinality(Lows) \in Nat
    BY <1>1, FS_Subset, FS_CardinalityType
  <2>3. Cardinality(AtMost(answers, lo)) <= Cardinality(Lows)
    BY <2>1, <2>2, FS_Subset
  <2>4. Cardinality(AtMost(answers, lo)) \in Nat
    BY <1>3, Ranks
  <2> HIDE DEF n, lo, hi, Lows
  <2> QED BY <1>1, <1>2, <1>3, <2>2, <2>3, <2>4
<1>7. 2 * Cardinality(Highs) >= n
  <2>1. AtLeast(answers, hi) \in SUBSET Highs
    BY <1>1, <1>3, <1>4, <1>5 DEF AtLeast
  <2>2. IsFiniteSet(Highs) /\ Cardinality(Highs) \in Nat
    BY <1>1, FS_Subset, FS_CardinalityType
  <2>3. Cardinality(AtLeast(answers, hi)) <= Cardinality(Highs)
    BY <2>1, <2>2, FS_Subset
  <2>4. /\ Cardinality(AtLeast(answers, hi)) = n - Cardinality(Below(answers, hi))
        /\ Cardinality(Below(answers, hi)) \in Nat
    BY <1>4, Ranks
  <2> HIDE DEF n, lo, hi, Highs
  <2> QED BY <1>1, <1>2, <1>4, <2>2, <2>3, <2>4
<1>8. MedianTwice(answers) = lo + hi
  BY DEF MedianTwice
<1> QED BY <1>3, <1>4, <1>6, <1>7, <1>8

\* usd_to_xno_raw: "rounding UP so the seller never under-receives", and by no
\* more than that: the amount is the least that covers the price at the rate.
THEOREM LeastCoveringAmount ==
    ASSUME NEW usd \in Nat, NEW rateTwice \in Nat \ {0}
    PROVE  LET raw == UsdToRaw(usd, rateTwice)
           IN  /\ raw \in Nat
               /\ raw * rateTwice >= 2 * usd * RawPerNano
               /\ \A less \in Nat : less < raw => less * rateTwice < 2 * usd * RawPerNano
<1> DEFINE due == 2 * usd * RawPerNano
           q == (-due) \div rateTwice
<1>1. due \in Nat
  BY RawAssumption
<1>2. UsdToRaw(usd, rateTwice) = -q
  BY DEF UsdToRaw
<1>3. q \in Int /\ rateTwice * q <= -due /\ -due < rateTwice * (q + 1)
  <2> HIDE DEF due
  <2> QED BY <1>1
<1>4. -q \in Nat /\ (-q) * rateTwice >= due
  <2> HIDE DEF due, q
  <2> QED BY <1>1, <1>3
<1>5. ASSUME NEW less \in Nat, less < -q PROVE less * rateTwice < due
  <2> HIDE DEF due, q
  <2>1. less <= -(q + 1)
    BY <1>3, <1>5
  <2>2. less * rateTwice <= (-(q + 1)) * rateTwice
    BY <1>3, <2>1
  <2> QED BY <1>1, <1>3, <2>2
<1> QED BY <1>1, <1>2, <1>3, <1>4, <1>5

=============================================================================
