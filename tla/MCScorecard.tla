---------------------------- MODULE MCScorecard ----------------------------
(* Two builds and a verification of the committed files.  Values are only    *)
(* compared, and the two builds are given the same arguments.                *)
EXTENDS Scorecard, TLC

CONSTANTS b1, b2, v1, lo, hi

Symmetry == Permutations(Builds) \cup Permutations(Values)

=============================================================================
