------------------------------ MODULE Purchase ------------------------------
(***************************************************************************)
(* What the x402 exchange promises to those who pay in it (the handshake   *)
(* at the head of nano_mcp/httpx402.py), without servers, proofs or calls: *)
(* a payment is taken once, and what was taken is delivered to its payer.  *)
(* A payment that is refused is not taken, and can be presented again.     *)
(* Only a payment outside Safe may be lost: its payer's connection or its  *)
(* handler fails at the wrong moment.                                      *)
(***************************************************************************)
CONSTANTS
    Payments,
    Safe                 \* payments whose payer stays, over sound connections

VARIABLE fate            \* of each payment

Init == fate = [p \in Payments |-> "none"]

Becomes(p, to) == fate' = [fate EXCEPT ![p] = to]

Pay(p) == fate[p] = "none" /\ Becomes(p, "paid")

Take(p) == fate[p] = "paid" /\ Becomes(p, "taken")

Deliver(p) == fate[p] = "taken" /\ Becomes(p, "delivered")

Lose(p) == /\ p \notin Safe
           /\ fate[p] \in {"paid", "taken"}
           /\ Becomes(p, "lost")

Next == \E p \in Payments : Pay(p) \/ Take(p) \/ Deliver(p) \/ Lose(p)

Spec == Init /\ [][Next]_fate

=============================================================================
