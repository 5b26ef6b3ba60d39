------------------------------ MODULE Pricing -------------------------------
(***************************************************************************)
(* Dollar prices (nano_mcp/pricing.py): the median of what the rate        *)
(* sources answer, and the raw amount that buys a dollar price at it.      *)
(*                                                                         *)
(* Decimals are natural numbers of some small unit.  The mean of two rates *)
(* may need half a unit, so the median is given twice over.  An answer is  *)
(* a finite number or a failure: one that is not finite (NaN) is not       *)
(* modelled.                                                               *)
(***************************************************************************)
EXTENDS Integers, FiniteSets

CONSTANTS
    Sources,             \* DEFAULT_SOURCES
    RawPerNano,          \* RAW_PER_NANO
    Failed               \* the source raised

ASSUME SourcesAssumption == IsFiniteSet(Sources)
ASSUME RawAssumption == RawPerNano \in Nat \ {0}
ASSUME FailedAssumption == Failed \notin Nat

\* The sources whose rate is taken.
Healthy(answers) == {s \in Sources : answers[s] # Failed}

AtMost(answers, v) == {s \in Healthy(answers) : answers[s] <= v}
AtLeast(answers, v) == {s \in Healthy(answers) : answers[s] >= v}
Below(answers, v) == {s \in Healthy(answers) : answers[s] < v}

\* ordered[k - 1], where ordered is the sorted list of the rates.
Nth(answers, k) ==
    CHOOSE v \in {answers[s] : s \in Healthy(answers)} :
        /\ Cardinality(Below(answers, v)) < k
        /\ k <= Cardinality(AtMost(answers, v))

\* median: the middle one, or the mean of the two in the middle.
MedianTwice(answers) ==
    LET n == Cardinality(Healthy(answers))
    IN  Nth(answers, (n + 1) \div 2) + Nth(answers, n \div 2 + 1)

\* fetch_median_xno_usd raises below two rates.
HasMedian(answers) == Cardinality(Healthy(answers)) >= 2

\* usd_to_xno_raw raises on a price or a rate of 0.
Convertible(usd, rateTwice) == usd > 0 /\ rateTwice > 0

\* Mutant: the quotient without the ceiling.
UsdToRawFloor(usd, rateTwice) == (2 * usd * RawPerNano) \div rateTwice

\* usd_to_xno_raw: the ceiling of price / rate.
UsdToRaw(usd, rateTwice) == -((-(2 * usd * RawPerNano)) \div rateTwice)

=============================================================================
