------------------------------ MODULE SingleUse ------------------------------
(***************************************************************************)
(* What the claim store of nano_mcp/facilitator.py promises, with no       *)
(* database in it: a binding (one payment bound to one request) is spent   *)
(* at most once through this release, and a binding that the previous      *)
(* release already spent is not spent again.                               *)
(***************************************************************************)
EXTENDS Naturals

CONSTANT Bindings        \* one element per (block hash, request_id) pair

VARIABLES
    spent,               \* the bindings that some claim has consumed
    wins                 \* how often a claim of this release answered True

vars == <<spent, wins>>

Init == /\ spent = {}
        /\ wins = [b \in Bindings |-> 0]

\* A claim of this release succeeds: only for a binding that is not spent.
Win(b) == /\ b \notin spent
          /\ spent' = spent \cup {b}
          /\ wins' = [wins EXCEPT ![b] = @ + 1]

\* The previous release claims a binding, whatever this release thinks of it.
ForeignClaim(b) == /\ spent' = spent \cup {b}
                   /\ UNCHANGED wins

Next == \E b \in Bindings : Win(b) \/ ForeignClaim(b)

Spec == Init /\ [][Next]_vars

------------------------------------------------------------------------------
(* Every binding is won at most once, and a won binding stays spent.       *)
WonOnce == \A b \in Bindings : wins[b] <= (IF b \in spent THEN 1 ELSE 0)

==============================================================================
