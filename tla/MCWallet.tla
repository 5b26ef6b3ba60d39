------------------------------ MODULE MCWallet ------------------------------
(* A wallet of two accounts: one with a balance and something to receive, one *)
(* not opened yet, with something to receive.                                 *)
EXTENDS Wallet, TLC

CONSTANTS a1, a2, c1, c2

Balances == a1 :> 3 @@ a2 :> 0
Pending == a1 :> {1} @@ a2 :> {2}

\* Nothing goes wrong, the node fails calls, or everything goes wrong.
FewOrAll == {{}, {"unopened", "node"}, AllFaults}

=============================================================================
