--------------------------- MODULE MCPayingClient ---------------------------
(* A steady client and one whose calls fail in every way; a handler that does  *)
(* not fail and one that may.                                                  *)
EXTENDS PayingClient, TLC

CONSTANTS c1, c2, t1, t2, r1, r2, b1, b2

OneEach == b1 :> c1 @@ b2 :> c2

=============================================================================
