------------------------------- MODULE Wallet -------------------------------
(***************************************************************************)
(* nano_sdk.wallet.Wallet: one wallet object, whose accounts share one     *)
(* spend tracker, and the callers of its send and receive.                 *)
(*                                                                         *)
(* A call is a read of the account, a local check, and a block for the     *)
(* node to process; the clock, the other callers and the node move between *)
(* these.  Nothing in the class takes a lock.                              *)
(*                                                                         *)
(* _spend is only ever summed as a whole and emptied as a whole, so the    *)
(* tracker keeps its sum.  Keys, signatures, representatives and work are  *)
(* left out; work_generate may fail.                                       *)
(*                                                                         *)
(* What may go wrong is chosen at the start, so that one specification has *)
(* the wallet whose callers take turns with a node that serves them, and   *)
(* the one that is shared by threads and meets every fault:                *)
(*   overlap   a call begins while another is under way,                   *)
(*   unopened  account_info raises on an account without blocks, as        *)
(*             RpcClient's does, and tools/receive_funding.py's does not,  *)
(*   node      the node refuses a call,                                    *)
(*   lost      the answer to an accepted block never arrives,              *)
(*   restart   the program starts again.                                   *)
(***************************************************************************)
EXTENDS NanoLedger

CONSTANTS
    Callers,
    Amounts,             \* the amounts a caller asks to send, in raw
    Cap,                 \* daily_cap_raw
    FaultSets            \* the sets of faults, of which a behaviour has one

AllFaults == {"overlap", "unopened", "node", "lost", "restart"}

ASSUME AmountsAssumption == Amounts \subseteq Nat
ASSUME CapAssumption == Cap \in Nat
ASSUME FaultsAssumption == FaultSets \subseteq SUBSET AllFaults

VARIABLES
    tracker,             \* _day, and the sum of _spend
    call,                \* the call each caller is in, with its locals
    published,           \* ghost: raw sent by accepted blocks, by UTC day
    faults               \* what may go wrong, from the start

vars == <<ledger, receivable, clock, tracker, call, published, faults>>

Kinds == {"send", "receive"}
Stages == {"idle", "asked", "read", "checked", "accepted", "rolled"}

NoCall == [stage |-> "idle", kind |-> "send", account |-> "none", amount |-> 0,
           balance |-> 0, previous |-> 0]

Calls == [stage : Stages, kind : Kinds, account : Accounts \cup {"none"},
          amount : Nat, balance : Nat, previous : Nat]

TypeOK ==
    /\ NodeTypeOK
    /\ tracker \in [day : Days, spent : Nat]
    /\ call \in [Callers -> Calls]
    /\ published \in [Days -> Nat]
    /\ faults \in FaultSets

Init == /\ NodeInit
        /\ tracker = [day |-> 0, spent |-> 0]
        /\ call = [c \in Callers |-> NoCall]
        /\ published = [d \in Days |-> 0]
        /\ faults \in FaultSets

At(c, stage) == call[c].stage = stage
Goto(c, stage) == call' = [call EXCEPT ![c].stage = stage]
Return(c) == call' = [call EXCEPT ![c] = NoCall]

NewBalance(c) == IF call[c].kind = "send"
                 THEN call[c].balance - call[c].amount
                 ELSE call[c].balance + call[c].amount

-----------------------------------------------------------------------------

\* _today: a new day empties the tracker.
Rolled == IF clock = tracker.day
          THEN tracker
          ELSE [day |-> clock, spent |-> 0]

Begin(c, kind, a, n) ==
    /\ At(c, "idle")
    /\ "overlap" \in faults \/ \A d \in Callers : At(d, "idle")
    /\ call' = [call EXCEPT ![c] =
                  [stage |-> "asked", kind |-> kind, account |-> a, amount |-> n,
                   balance |-> 0, previous |-> 0]]
    /\ UNCHANGED <<faults, node, clock, tracker, published>>

Send(c, a, n) == Begin(c, "send", a, n)

Receive(c, a, n) == n \in receivable[a] /\ Begin(c, "receive", a, n)

\* Mutant: what comes in is checked against the cap as well.
AccountInfoChecksAll(c) ==
    LET a == call[c].account
    IN  /\ At(c, "asked")
        /\ Opened(a) \/ "unopened" \notin faults
        /\ call' = [call EXCEPT ![c].balance = ledger[a].balance,
                                ![c].previous = ledger[a].height,
                                ![c].stage = "read"]
        /\ UNCHANGED <<faults, node, clock, tracker, published>>

\* account_info answers with the balance and the frontier of one moment.  (The
\* amount of a source block, read next by receive, never changes.)
AccountInfo(c) ==
    LET a == call[c].account
    IN  /\ At(c, "asked")
        /\ Opened(a) \/ "unopened" \notin faults
        /\ call' = [call EXCEPT ![c].balance = ledger[a].balance,
                                ![c].previous = ledger[a].height,
                                ![c].stage = IF call[c].kind = "send"
                                             THEN "read" ELSE "checked"]
        /\ UNCHANGED <<faults, node, clock, tracker, published>>

\* The node reports an error for an unopened account, and call raises on it.
AccountInfoRaises(c) ==
    /\ At(c, "asked")
    /\ "node" \in faults \/ ("unopened" \in faults /\ ~Opened(call[c].account))
    /\ Return(c)
    /\ UNCHANGED <<faults, node, clock, tracker, published>>

\* Mutant: the cap bounds each send, not their sum.
CanSendEach(c) == /\ call[c].amount > 0
                  /\ call[c].amount <= call[c].balance
                  /\ call[c].amount <= Cap

CanSend(c) == /\ call[c].amount > 0
              /\ call[c].amount <= call[c].balance
              /\ Rolled.spent + call[c].amount <= Cap

\* check_send.
CheckSend(c) == /\ At(c, "read")
                /\ CanSend(c)
                /\ Goto(c, "checked")
                /\ tracker' = Rolled
                /\ UNCHANGED <<faults, node, clock, published>>

\* Only the cap, looked at last, reads the tracker.
CheckSendRaises(c) ==
    /\ At(c, "read")
    /\ ~CanSend(c)
    /\ Return(c)
    /\ tracker' = IF call[c].amount \in 1..call[c].balance THEN Rolled ELSE tracker
    /\ UNCHANGED <<faults, node, clock, published>>

WorkRaises(c) == /\ At(c, "checked")
                 /\ "node" \in faults
                 /\ Return(c)
                 /\ UNCHANGED <<faults, node, clock, tracker, published>>

\* Mutant: the frontier, and not the balance, is read again before the block.
ProcessedSendRefreshed(c) ==
    LET a == call[c].account
    IN  /\ At(c, "checked")
        /\ call[c].kind = "send"
        /\ ProcessSend(a, ledger[a].height, NewBalance(c))
        /\ published' = [published EXCEPT ![clock] =
                           @ + (ledger[a].balance - NewBalance(c))]
        /\ Goto(c, "accepted")
        /\ UNCHANGED <<faults, clock, tracker>>

ProcessedSend(c) ==
    /\ At(c, "checked")
    /\ call[c].kind = "send"
    /\ ProcessSend(call[c].account, call[c].previous, NewBalance(c))
    /\ published' = [published EXCEPT ![clock] =
                       @ + (ledger[call[c].account].balance - NewBalance(c))]
    /\ Goto(c, "accepted")
    /\ UNCHANGED <<faults, clock, tracker>>

ProcessedReceive(c) ==
    /\ At(c, "checked")
    /\ call[c].kind = "receive"
    /\ ProcessReceive(call[c].account, call[c].previous, NewBalance(c), call[c].amount)
    /\ Goto(c, "accepted")
    /\ UNCHANGED <<faults, clock, tracker, published>>

\* The node's error for a block that does not fit its ledger.
ProcessRaises(c) ==
    LET r == call[c]
    IN  /\ At(c, "checked")
        /\ \/ r.kind = "send" /\ ~AcceptsSend(r.account, r.previous, NewBalance(c))
           \/ r.kind = "receive"
              /\ ~AcceptsReceive(r.account, r.previous, NewBalance(c), r.amount)
        /\ Return(c)
        /\ UNCHANGED <<faults, node, clock, tracker, published>>

\* The answer to an accepted block never arrives: call raises a timeout.
AnswerLost(c) == /\ At(c, "accepted")
                 /\ "lost" \in faults
                 /\ Return(c)
                 /\ UNCHANGED <<faults, node, clock, tracker, published>>

ReceiveReturns(c) == /\ At(c, "accepted")
                     /\ call[c].kind = "receive"
                     /\ Return(c)
                     /\ UNCHANGED <<faults, node, clock, tracker, published>>

\* _record_send: the call of _today.
RollForSend(c) == /\ At(c, "accepted")
                  /\ call[c].kind = "send"
                  /\ tracker' = Rolled
                  /\ Goto(c, "rolled")
                  /\ UNCHANGED <<faults, node, clock, published>>

\* _record_send: the addition, filed under a day read from the clock again.
RecordSend(c) == /\ At(c, "rolled")
                 /\ tracker' = [tracker EXCEPT !.spent = @ + call[c].amount]
                 /\ Return(c)
                 /\ UNCHANGED <<faults, node, clock, published>>

\* The program starts again and builds a new Wallet from the seed.
Restart == /\ "restart" \in faults
           /\ call' = [c \in Callers |-> NoCall]
           /\ tracker' = [day |-> clock, spent |-> 0]
           /\ UNCHANGED <<faults, node, clock, published>>

Tick == /\ Midnight
        /\ UNCHANGED <<faults, node, tracker, call, published>>

Step(c) == \/ AccountInfo(c) \/ AccountInfoRaises(c)
           \/ CheckSend(c) \/ CheckSendRaises(c)
           \/ WorkRaises(c)
           \/ ProcessedSend(c) \/ ProcessedReceive(c) \/ ProcessRaises(c)
           \/ AnswerLost(c)
           \/ ReceiveReturns(c) \/ RollForSend(c) \/ RecordSend(c)

Next == \/ \E c \in Callers, a \in Accounts, n \in Amounts : Send(c, a, n)
        \/ \E c \in Callers, a \in Accounts :
             \E n \in receivable[a] : Receive(c, a, n)
        \/ \E c \in Callers : Step(c)
        \/ Restart
        \/ Tick

Spec == Init /\ [][Next]_vars

\* A call runs in its caller's thread, and httpx gives every request a timeout.
FairSpec == Spec /\ \A c \in Callers : WF_vars(Step(c))

-----------------------------------------------------------------------------

\* A block that lowers a balance lowers it by the amount its caller asked for,
\* whatever callers, faults and receives come between the read of the account
\* and the block: the balance and the frontier are of one account_info, and a
\* block on an old frontier is refused (send reads info atomically).
SendsWhatWasAsked ==
    [][\A a \in Accounts :
          ledger'[a].balance < ledger[a].balance =>
             \E c \in Callers :
                /\ At(c, "checked")
                /\ call[c].kind = "send"
                /\ call[c].account = a
                /\ call[c].amount = ledger[a].balance - ledger'[a].balance
                /\ call'[c].stage = "accepted"]_vars

\* Calls take turns, every answer arrives, and the program runs on.
Sequential == faults \subseteq {"unopened", "node"}

\* While calls take turns and no answer is lost, the blocks published in one UTC
\* day send no more than the daily cap, wherever midnight falls in a send
\* (check_send, _record_send).
DayCapKept == Sequential => \A d \in Days : published[d] <= Cap

\* A receive, the open block of a new account included, pockets its source
\* (Wallet.receive), if calls take turns and nothing fails.
ReceiveLands ==
    \A a \in Accounts : \A n \in Deposits[a] :
        (\E c \in Callers : /\ faults = {} /\ At(c, "asked")
                            /\ call[c].kind = "receive"
                            /\ call[c].account = a /\ call[c].amount = n)
        ~> n \notin receivable[a]

-----------------------------------------------------------------------------
(* The inductive invariants: AtomicRead behind SendsWhatWasAsked, the rest,  *)
(* for calls that take turns and get their answers, behind DayCapKept.      *)

Sending(c) == call[c].kind = "send" /\ call[c].stage \in {"accepted", "rolled"}

\* While the frontier is the one a call has read, so is the balance.
ReadOf(c) ==
    LET r == call[c]
    IN  /\ r.stage # "idle" => r.account \in Accounts
        /\ r.stage \in {"read", "checked"} =>
              /\ r.previous <= ledger[r.account].height
              /\ r.previous = ledger[r.account].height =>
                    r.balance = ledger[r.account].balance
        /\ (r.stage = "checked" /\ r.kind = "send") => r.amount \in 1..r.balance

AtomicRead == \A c \in Callers : ReadOf(c)

Recorded == IF tracker.day = clock THEN tracker.spent ELSE 0

\* What today's blocks sent is in the tracker, or about to be.
Tracked == \/ published[clock] <= Recorded
           \/ \E c \in Callers :
                 Sending(c) /\ published[clock] <= Recorded + call[c].amount

\* A send that passed the check still fits under today's cap.
Fits == \A c \in Callers :
          (call[c].stage = "checked" /\ call[c].kind = "send") =>
             published[clock] + call[c].amount <= Cap

\* The tracker a send is about to be added to is today's, unless midnight has
\* passed since it was rolled, and nothing was published after that.
Rolling == \A c \in Callers :
             At(c, "rolled") => \/ tracker.day = clock
                                \/ published[clock] = 0

NothingYet == \A d \in Days : d > clock => published[d] = 0

TakeTurns == \A c, d \in Callers : ~At(c, "idle") /\ ~At(d, "idle") => c = d

ReadInv == TypeOK /\ AtomicRead

CapInv == /\ ReadInv
          /\ Sequential => TakeTurns /\ Tracked /\ Fits /\ Rolling /\ NothingYet
          /\ DayCapKept

=============================================================================
