-------------------------- MODULE MCSessionWallet ---------------------------
(* Two sessions of one owner, with the same balance and different mandates:   *)
(* s1 is reliable, s2 is not.                                                *)
EXTENDS SessionWallet

CONSTANTS s1, s2

Balances == [s \in Accounts |-> 4]
NoDeposits == [s \in Accounts |-> {}]
Mandates == [s \in Accounts |-> IF s = s1 THEN 3 ELSE 2]
Expiries == [s \in Accounts |-> IF s = s1 THEN 1 ELSE 0]

FaultsOfTwo == [s \in Accounts |-> IF s = s1 THEN {"node"}
                                   ELSE {"node", "lost", "restart"}]

=============================================================================
