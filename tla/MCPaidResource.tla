--------------------------- MODULE MCPaidResource ---------------------------
(* Two handler threads, two requests, one or two blocks, two endpoints.      *)
EXTENDS PaidResource, TLC

CONSTANTS t1, t2, r1, r2, b1, b2

Symmetry == Permutations(Threads) \cup Permutations(Requests)
              \cup Permutations(Blocks)

=============================================================================
