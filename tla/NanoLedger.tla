----------------------------- MODULE NanoLedger -----------------------------
(***************************************************************************)
(* External: the Nano node behind nano_sdk.client.RpcClient, as far as     *)
(* wallet.py and buyer.py rely on it.  An account is a chain of blocks, of *)
(* which the node keeps one at each height: a block that does not name the *)
(* frontier is refused.  A block carries the balance after it, never the   *)
(* amount: what it sends is the difference.                                *)
(*                                                                         *)
(* Of the time only the UTC day is kept, which midnight may change between  *)
(* any two steps.                                                           *)
(***************************************************************************)
EXTENDS Naturals

CONSTANTS
    Accounts,
    Opening,             \* the balance each account starts with; 0: unopened
    Deposits,            \* amounts sent to each account and not yet received
    LastDay              \* bound: the clock stops on this day

ASSUME OpeningAssumption == Opening \in [Accounts -> Nat]
ASSUME DepositsAssumption == Deposits \in [Accounts -> SUBSET (Nat \ {0})]
ASSUME LastDayAssumption == LastDay \in Nat

VARIABLES
    ledger,              \* each account's height (0: unopened) and balance
    receivable,          \* the deposits no receive block has taken
    clock                \* the UTC day

node == <<ledger, receivable>>

Days == 0..LastDay

NodeTypeOK == /\ ledger \in [Accounts -> [height : Nat, balance : Nat]]
              /\ receivable \in [Accounts -> SUBSET (Nat \ {0})]
              /\ clock \in Days

NodeInit == /\ ledger = [a \in Accounts |->
                           [height |-> IF Opening[a] = 0 THEN 0 ELSE 1,
                            balance |-> Opening[a]]]
            /\ receivable = Deposits
            /\ clock = 0

Opened(a) == ledger[a].height # 0

Extend(a, balance) ==
    ledger' = [ledger EXCEPT ![a] = [height |-> ledger[a].height + 1,
                                     balance |-> balance]]

\* process with subtype=send.
AcceptsSend(a, previous, balance) == /\ Opened(a)
                                     /\ previous = ledger[a].height
                                     /\ balance < ledger[a].balance

ProcessSend(a, previous, balance) == /\ AcceptsSend(a, previous, balance)
                                     /\ Extend(a, balance)
                                     /\ UNCHANGED receivable

\* process with subtype=receive (an open block where previous is zero).
AcceptsReceive(a, previous, balance, n) ==
    /\ previous = ledger[a].height
    /\ n \in receivable[a]
    /\ balance = ledger[a].balance + n

ProcessReceive(a, previous, balance, n) ==
    /\ AcceptsReceive(a, previous, balance, n)
    /\ Extend(a, balance)
    /\ receivable' = [receivable EXCEPT ![a] = @ \ {n}]

Midnight == /\ clock < LastDay
            /\ clock' = clock + 1

=============================================================================
