---------------------------- MODULE MCClaimStore ----------------------------
(* Two handles on one file, one payment bound to two requests or to one, in  *)
(* the three kinds of spelling a claim file holds.                           *)
EXTENDS ClaimStore

CONSTANTS h1, h2, b1, b2, upper, lower, lowerNL

=============================================================================
