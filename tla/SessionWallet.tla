--------------------------- MODULE SessionWallet ----------------------------
(***************************************************************************)
(* nano_sdk.buyer.SessionWallet: the sessions of one owner, each with its  *)
(* own sub-account, the mandate the owner signed for it, and one agent     *)
(* that calls send.  The node and the clock are NanoLedger's.              *)
(*                                                                         *)
(* Signatures are sound (verify_mandate accepts what the owner issued and  *)
(* nothing else) and every mandate is bound to its session's sub-account,  *)
(* as SessionWallet.__init__ insists.  An expiry falls at the end of a     *)
(* day.                                                                    *)
(***************************************************************************)
EXTENDS NanoLedger

CONSTANTS
    Amounts,             \* the amounts an agent asks to send, in raw
    SessionCap,          \* mandate.cap_raw of each session
    LastValid,           \* the last day its mandate is good for
    Cap,                 \* daily_cap_raw, the same for every session
    Faults               \* what may go wrong for each session: a subset of
                         \* {"node", "lost", "restart"}

Sessions == Accounts     \* a session is named by its sub-account

ASSUME SessionAmounts == Amounts \subseteq Nat
ASSUME SessionCaps == SessionCap \in [Sessions -> Nat \ {0}]
ASSUME SessionDays == LastValid \in [Sessions -> Nat]
ASSUME SessionDailyCap == Cap \in Nat
ASSUME SessionFaults == Faults \in [Sessions -> SUBSET {"node", "lost", "restart"}]

VARIABLES
    wallet,              \* _day, _daily_spend and _session_spent
    call,                \* the send each agent is in, with its locals
    published            \* ghost: raw sent by accepted blocks, by day

vars == <<ledger, receivable, clock, wallet, call, published>>

Stages == {"down", "idle", "asked", "read", "allowed", "checked", "accepted"}

NoCall == [stage |-> "idle", amount |-> 0, balance |-> 0, previous |-> 0]
Down == [NoCall EXCEPT !.stage = "down"]

TypeOK ==
    /\ NodeTypeOK
    /\ wallet \in [Sessions -> [day : Days, daily : Nat, session : Nat]]
    /\ call \in [Sessions -> [stage : Stages, amount : Nat,
                              balance : Nat, previous : Nat]]
    /\ published \in [Sessions -> [Days -> Nat]]

\* What __init__ sets: nothing spent today, nothing spent by the session.
Fresh == [day |-> clock, daily |-> 0, session |-> 0]

Init == /\ NodeInit
        /\ wallet = [s \in Sessions |-> Fresh]
        /\ call = [s \in Sessions |-> NoCall]
        /\ published = [s \in Sessions |-> [d \in Days |-> 0]]

At(s, stage) == call[s].stage = stage
Goto(s, stage) == call' = [call EXCEPT ![s].stage = stage]
Return(s) == call' = [call EXCEPT ![s] = NoCall]

Expired(s) == clock > LastValid[s]

-----------------------------------------------------------------------------

Send(s, n) == /\ At(s, "idle")
              /\ call' = [call EXCEPT ![s] = [NoCall EXCEPT !.stage = "asked",
                                                            !.amount = n]]
              /\ UNCHANGED <<node, clock, wallet, published>>

AccountInfo(s) ==
    /\ At(s, "asked")
    /\ Opened(s)
    /\ call' = [call EXCEPT ![s].stage = "read",
                            ![s].balance = ledger[s].balance,
                            ![s].previous = ledger[s].height]
    /\ UNCHANGED <<node, clock, wallet, published>>

AccountInfoRaises(s) == /\ At(s, "asked")
                        /\ "node" \in Faults[s] \/ ~Opened(s)
                        /\ Return(s)
                        /\ UNCHANGED <<node, clock, wallet, published>>

\* Mutant: a new day gives the session its whole mandate again.
RolledForgetsSession(w) == IF clock = w.day THEN w ELSE Fresh

\* _roll_day.
Rolled(w) == IF clock = w.day
             THEN w
             ELSE [w EXCEPT !.day = clock, !.daily = 0]

\* Mutant: the mandate is verified in __init__ only.
SessionAllowsExpired(s) ==
    /\ call[s].amount > 0
    /\ wallet[s].session + call[s].amount <= SessionCap[s]

\* What check_spend asks before it rolls the day.
SessionAllows(s) == /\ ~Expired(s)
                    /\ call[s].amount > 0
                    /\ wallet[s].session + call[s].amount <= SessionCap[s]

DayAllows(s) == Rolled(wallet[s]).daily + call[s].amount <= Cap

\* check_spend up to the session cap ...
CheckSession(s) == /\ At(s, "read")
                   /\ SessionAllows(s)
                   /\ Goto(s, "allowed")
                   /\ UNCHANGED <<node, clock, wallet, published>>

CheckSessionRaises(s) == /\ At(s, "read")
                         /\ ~SessionAllows(s)
                         /\ Return(s)
                         /\ UNCHANGED <<node, clock, wallet, published>>

\* ... and from _roll_day on, which reads the clock again.
CheckDay(s) == /\ At(s, "allowed")
               /\ DayAllows(s)
               /\ call[s].amount <= call[s].balance
               /\ Goto(s, "checked")
               /\ wallet' = [wallet EXCEPT ![s] = Rolled(@)]
               /\ UNCHANGED <<node, clock, published>>

CheckDayRaises(s) == /\ At(s, "allowed")
                     /\ ~(DayAllows(s) /\ call[s].amount <= call[s].balance)
                     /\ Return(s)
                     /\ wallet' = [wallet EXCEPT ![s] = Rolled(@)]
                     /\ UNCHANGED <<node, clock, published>>

WorkRaises(s) == /\ At(s, "checked")
                 /\ "node" \in Faults[s]
                 /\ Return(s)
                 /\ UNCHANGED <<node, clock, wallet, published>>

\* Only this agent extends the chain of its sub-account: process accepts.
Processed(s) ==
    /\ At(s, "checked")
    /\ ProcessSend(s, call[s].previous, call[s].balance - call[s].amount)
    /\ published' = [published EXCEPT ![s][clock] =
                       @ + (ledger[s].balance - (call[s].balance - call[s].amount))]
    /\ Goto(s, "accepted")
    /\ UNCHANGED <<clock, wallet>>

AnswerLost(s) == /\ At(s, "accepted")
                 /\ "lost" \in Faults[s]
                 /\ Return(s)
                 /\ UNCHANGED <<node, clock, wallet, published>>

\* Mutant: the day is rolled after the counters are raised, not before.
RecordBeforeRoll(s) ==
    /\ At(s, "accepted")
    /\ wallet' = [wallet EXCEPT ![s] =
                    Rolled([@ EXCEPT !.daily = @ + call[s].amount,
                                     !.session = @ + call[s].amount])]
    /\ Return(s)
    /\ UNCHANGED <<node, clock, published>>

\* The end of send: _roll_day, and both counters.
Record(s) ==
    LET w == Rolled(wallet[s])
    IN  /\ At(s, "accepted")
        /\ wallet' = [wallet EXCEPT ![s] =
                        [w EXCEPT !.daily = @ + call[s].amount,
                                  !.session = @ + call[s].amount]]
        /\ Return(s)
        /\ UNCHANGED <<node, clock, published>>

\* The agent's program ends ...
Stop(s) == /\ "restart" \in Faults[s]
           /\ call[s].stage # "down"
           /\ call' = [call EXCEPT ![s] = Down]
           /\ UNCHANGED <<node, clock, wallet, published>>

\* ... and starts again, with the mandate it has: __init__ refuses an expired one.
Start(s) == /\ At(s, "down")
            /\ ~Expired(s)
            /\ wallet' = [wallet EXCEPT ![s] = Fresh]
            /\ Return(s)
            /\ UNCHANGED <<node, clock, published>>

Tick == /\ Midnight
        /\ UNCHANGED <<node, wallet, call, published>>

Step(s) == \/ AccountInfo(s) \/ AccountInfoRaises(s)
           \/ CheckSession(s) \/ CheckSessionRaises(s)
           \/ CheckDay(s) \/ CheckDayRaises(s)
           \/ WorkRaises(s) \/ Processed(s)
           \/ AnswerLost(s) \/ Record(s)

Next == \/ \E s \in Sessions, n \in Amounts : Send(s, n)
        \/ \E s \in Sessions : Step(s) \/ Stop(s) \/ Start(s)
        \/ Tick

Spec == Init /\ [][Next]_vars

-----------------------------------------------------------------------------

\* Its answers arrive, and its program does not start again.
Reliable(s) == Faults[s] \subseteq {"node"}

\* The blocks of a reliable session together send no more than its mandate's
\* cap: there is no receive, so that they are what the balance has lost
\* (check_spend, send).
SessionCapKept ==
    \A s \in Sessions :
        Reliable(s) => Opening[s] <= ledger[s].balance + SessionCap[s]

\* The blocks of one reliable session send no more than the daily cap in a UTC
\* day, wherever midnight falls in a send (_roll_day, check_spend, send).
SessionDayCapKept ==
    \A s \in Sessions :
        Reliable(s) => \A d \in Days : published[s][d] <= Cap

\* The days after its mandate's last on which a session has published.
Late(s) == {d \in Days : d > LastValid[s] /\ published[s][d] > 0}

\* An expired mandate may still be spent from by the one send that it overtook
\* between its check and its block, for no more than the mandate's cap: no other
\* block follows, whatever answers were lost, however many days the send took and
\* however often the session is started again (check_spend, send, __init__).
ExpiredCostsOneSend ==
    [][\A s \in Sessions :
          Expired(s) /\ published'[s] # published[s] =>
             Late(s) = {} /\ published'[s][clock] <= SessionCap[s]]_vars

-----------------------------------------------------------------------------
(* The inductive invariant behind the two caps of a reliable session.       *)

\* What a call has read of the account is still so, since no one else extends
\* it, and a checked send is covered.
Current(s) == /\ call[s].stage \in {"read", "allowed", "checked"} =>
                    /\ call[s].balance = ledger[s].balance
                    /\ call[s].previous = ledger[s].height
              /\ At(s, "checked") => call[s].amount <= call[s].balance

InFlight(s) == IF At(s, "accepted") THEN call[s].amount ELSE 0

RecordedToday(s) == IF wallet[s].day = clock THEN wallet[s].daily ELSE 0

\* The counters hold all that was published, but for a block just accepted.
Tracked(s) == /\ Opening[s] = ledger[s].balance + wallet[s].session + InFlight(s)
              /\ published[s][clock] <= RecordedToday(s) + InFlight(s)
              /\ \A d \in Days : d > clock => published[s][d] = 0

\* A send that passed check_spend fits under both caps until it is recorded.
Fits(s) == /\ wallet[s].session + InFlight(s) <= SessionCap[s]
           /\ call[s].stage \in {"allowed", "checked"} =>
                 /\ call[s].amount > 0
                 /\ wallet[s].session + call[s].amount <= SessionCap[s]
           /\ At(s, "checked") => published[s][clock] + call[s].amount <= Cap

Running(s) == ~At(s, "down")

CapInv == /\ TypeOK
          /\ SessionDayCapKept
          /\ \A s \in Sessions : /\ Current(s)
                                 /\ Reliable(s) => Running(s) /\ Tracked(s) /\ Fits(s)

=============================================================================
