--------------------------- MODULE PaymentService ---------------------------
(***************************************************************************)
(* PaymentService (nano_mcp/service.py) over ApprovalStore                 *)
(* (nano_mcp/store.py): the threads of one or more server processes quote, *)
(* and verify payments against the chain, on one approvals.db.             *)
(*                                                                         *)
(* Each store method is one step under self._lock, except where the code   *)
(* lets something in between: record_quote_price reads and writes in two   *)
(* steps (another process may write in between), and record_quote_expiry   *)
(* commits after it has let go of self._lock.                              *)
(*                                                                         *)
(* A raw amount is a natural number; no recorded price and a recorded 0    *)
(* are the same floor.  An entry of account_history is the amount that was *)
(* received; one of less than anything due stands for a send as well.      *)
(***************************************************************************)
EXTENDS SharedFile, Pricing, Sequences

CONSTANTS
    Threads,
    Home,                \* the process of each thread
    Requests,            \* request_ids
    Prices,              \* the raw amounts quoted, paid and verified
    Dollars,             \* the dollar prices quoted
    Rates,               \* what a rate source may answer
    TTL,                 \* QUOTE_TTL_SECONDS
    Window,              \* the entries account_history is asked for (20)
    None,                \* no row in quote_expiry, no call under way
    MaxClock,            \* bound: the clock stops here
    MaxPayments          \* bound: entries in the history of an address

ASSUME HomeAssumption == Home \in [Threads -> Processes]
ASSUME PricesAssumption == Prices \subseteq Nat
ASSUME DollarsAssumption == Dollars \subseteq Nat /\ Rates \subseteq Nat
ASSUME TimeAssumption == TTL \in Nat /\ MaxClock \in Nat
ASSUME WindowAssumption == Window \in Nat
ASSUME NoneAssumption == None \notin Nat

VARIABLES
    pc,                  \* the next step of each thread
    job,                 \* the arguments of its call
    level,               \* its local: the floor to record, or the amount due
    answer,              \* what its call returned, until another begins or ends
    owed,                \* ghost: the price on record when a verification began
    approvals,           \* ghost: how often a request was answered "approved"
    clock,
    received             \* the history of each one-time address, oldest first

vars == <<file, pc, job, level, answer, owed, approvals, clock, received>>

locals == <<job, level, answer, owed, approvals>>
world == <<clock, received>>

Times == 0..(MaxClock + TTL)

Tables == [price : [Requests -> Nat],
           expiry : [Requests -> Times \cup {None}],
           approved : SUBSET Requests]

EmptyTables == [price |-> [r \in Requests |-> 0],
                expiry |-> [r \in Requests |-> None],
                approved |-> {}]

\* usd and rate are ghosts: the dollars quoted, and twice the median rate.
Jobs == [rid : Requests, amount : Nat, until : Times \cup {None},
         usd : Dollars \cup {0}, rate : Nat]

-----------------------------------------------------------------------------

\* self._lock is held from the SELECT to the COMMIT of record_quote_price.
Locked(p) == \E t \in Threads : Home[t] = p /\ pc[t] = "writefloor"

Goto(t, l) == pc' = [pc EXCEPT ![t] = l]

Reply(t, a) == /\ Goto(t, "idle")
               /\ answer' = [u \in Threads |-> IF u = t THEN a ELSE "none"]
               /\ job' = [job EXCEPT ![t] = None]
               /\ level' = [level EXCEPT ![t] = 0]
               /\ owed' = [owed EXCEPT ![t] = 0]
               /\ UNCHANGED world

RawJob(r, a) == [rid |-> r, amount |-> a, until |-> None, usd |-> 0, rate |-> 0]

DollarJob(r, usd, rateTwice) ==
    [rid |-> r, amount |-> UsdToRaw(usd, rateTwice), until |-> clock + TTL,
     usd |-> usd, rate |-> rateTwice]

Begin(t, l, j, due) ==
    /\ pc[t] = "idle"
    /\ Goto(t, l)
    /\ job' = [job EXCEPT ![t] = j]
    /\ level' = [level EXCEPT ![t] = j.amount]
    /\ answer' = [u \in Threads |-> "none"]
    /\ owed' = [owed EXCEPT ![t] = due]
    /\ UNCHANGED <<file, approvals, world>>

Init == /\ FileInit(EmptyTables)
        /\ pc = [t \in Threads |-> "idle"]
        /\ job = [t \in Threads |-> None]
        /\ level = [t \in Threads |-> 0]
        /\ answer = [t \in Threads |-> "none"]
        /\ owed = [t \in Threads |-> 0]
        /\ approvals = [r \in Requests |-> 0]
        /\ clock = 0
        /\ received = [r \in Requests |-> <<>>]

-----------------------------------------------------------------------------
(* quote and quote_usd.                                                    *)

Quote(t, r, a) == Begin(t, "readfloor", RawJob(r, a), 0)

\* The median of what the sources may answer, some failures included.
MedianRates == {MedianTwice(answers) :
                  answers \in {x \in [Sources -> Rates \cup {Failed}] : HasMedian(x)}}

\* (Without a rate, or with one of 0, quote_usd raises and records nothing.)
QuoteUsd(t, r, usd, rateTwice) ==
    /\ Convertible(usd, rateTwice)
    /\ Begin(t, "writeexpiry", DollarJob(r, usd, rateTwice), 0)

WithExpiry(t) == [Seen(Home[t]) EXCEPT !.expiry[job[t].rid] = job[t].until]

\* record_quote_expiry: the INSERT, under self._lock.
InsertExpiry(t) == /\ pc[t] = "writeexpiry"
                   /\ ~Locked(Home[t])
                   /\ Insert(Home[t], WithExpiry(t))
                   /\ Goto(t, "commitexpiry")
                   /\ UNCHANGED <<locals, world>>

\* record_quote_expiry: the commit, after self._lock was let go.  It commits
\* whatever the connection has written, or nothing if another thread's commit
\* came first.
CommitExpiry(t) == /\ pc[t] = "commitexpiry"
                   /\ Commit(Home[t])
                   /\ Goto(t, "readfloor")
                   /\ UNCHANGED <<locals, world>>

CommitExpiryFails(t) == /\ pc[t] = "commitexpiry"
                        /\ Holds(Home[t])
                        /\ CommitBusy(Home[t], Seen(Home[t]))
                        /\ Reply(t, "locked")
                        /\ UNCHANGED approvals

\* Mutant: a plain overwrite, without the max.
ReadFloorOverwrites(t) ==
    /\ pc[t] = "readfloor"
    /\ ~Locked(Home[t])
    /\ Select(Home[t])
    /\ Goto(t, "writefloor")
    /\ UNCHANGED <<locals, world>>

\* record_quote_price: the SELECT and the max.
ReadFloor(t) ==
    LET p == Home[t]
        recorded == Seen(p).price[job[t].rid]
    IN  /\ pc[t] = "readfloor"
        /\ ~Locked(p)
        /\ Select(p)
        /\ level' = [level EXCEPT ![t] = IF recorded > @ THEN recorded ELSE @]
        /\ Goto(t, "writefloor")
        /\ UNCHANGED <<job, answer, owed, approvals, world>>

\* record_quote_price: the INSERT and the commit.
WithFloor(t) == [Seen(Home[t]) EXCEPT !.price[job[t].rid] = level[t]]

WriteFloor(t) == /\ pc[t] = "writefloor"
                 /\ InsertCommit(Home[t], WithFloor(t))
                 /\ Reply(t, "quoted")
                 /\ UNCHANGED approvals

\* Mutant: a commit that fails is tried again, under self._lock.
WriteFloorRetries(t) == /\ pc[t] = "writefloor"
                        /\ CanWrite(Home[t])
                        /\ CommitBusy(Home[t], WithFloor(t))
                        /\ UNCHANGED <<pc, locals, world>>

WriteFloorFails(t) == /\ pc[t] = "writefloor"
                      /\ CanWrite(Home[t])
                      /\ CommitBusy(Home[t], WithFloor(t))
                      /\ Reply(t, "locked")
                      /\ UNCHANGED approvals

-----------------------------------------------------------------------------
(* verify_payment.                                                         *)

Verify(t, r, a) == Begin(t, "get", RawJob(r, a), db.price[r])

\* store.get, before the checks and again after a lost claim.
Get(t) == /\ pc[t] \in {"get", "getagain"}
          /\ ~Locked(Home[t])
          /\ Select(Home[t])
          /\ IF pc[t] = "getagain" \/ job[t].rid \in Seen(Home[t]).approved
               THEN Reply(t, "spent")
               ELSE Goto(t, "getexpiry") /\ UNCHANGED <<job, level, answer, owed, world>>
          /\ UNCHANGED approvals

\* store.quote_expiry, and the clock against it.
GetExpiry(t) ==
    LET until == Seen(Home[t]).expiry[job[t].rid]
    IN  /\ pc[t] = "getexpiry"
        /\ ~Locked(Home[t])
        /\ Select(Home[t])
        /\ IF until # None /\ clock > until
             THEN Reply(t, "expired")
             ELSE Goto(t, "getfloor") /\ UNCHANGED <<job, level, answer, owed, world>>
        /\ UNCHANGED approvals

\* Mutant: the amount the caller names is believed.
GetFloorBelievesCaller(t) == /\ pc[t] = "getfloor"
                             /\ ~Locked(Home[t])
                             /\ Select(Home[t])
                             /\ Goto(t, "history")
                             /\ UNCHANGED <<locals, world>>

\* store.quote_price: the amount due is the higher of the two.
GetFloor(t) ==
    LET recorded == Seen(Home[t]).price[job[t].rid]
    IN  /\ pc[t] = "getfloor"
        /\ ~Locked(Home[t])
        /\ Select(Home[t])
        /\ level' = [level EXCEPT ![t] = IF recorded > @ THEN recorded ELSE @]
        /\ Goto(t, "history")
        /\ UNCHANGED <<job, answer, owed, approvals, world>>

\* Mutant: account_history from the oldest entry on.
RecentOldest(r) == {received[r][i] : i \in {j \in DOMAIN received[r] : j <= Window}}

\* The entries that account_history returns: the newest, Window at most.
Recent(r) == {received[r][i] :
                i \in {j \in DOMAIN received[r] : j > Len(received[r]) - Window}}

Matching(t) == {a \in Recent(job[t].rid) : a >= level[t]}

\* _onchain_paid: a receive of enough is among them.
HistoryHit(t) == /\ pc[t] = "history"
                 /\ Matching(t) # {}
                 /\ Goto(t, "claim")
                 /\ UNCHANGED <<file, locals, world>>

\* The node answers, and no entry will do.
HistoryMiss(t) == /\ pc[t] = "history"
                  /\ Matching(t) = {}
                  /\ Reply(t, "pending")
                  /\ UNCHANGED <<file, approvals>>

\* The node does not answer, or has not seen the receive yet.
HistoryFails(t) == /\ pc[t] = "history"
                   /\ Reply(t, "pending")
                   /\ UNCHANGED <<file, approvals>>

WithApproval(t) == [Seen(Home[t]) EXCEPT !.approved = @ \cup {job[t].rid}]

AlreadyApproved(t) == job[t].rid \in Seen(Home[t]).approved

\* Mutant: INSERT OR REPLACE.
ClaimReplaces(t) == /\ pc[t] = "claim"
                    /\ ~Locked(Home[t])
                    /\ InsertCommit(Home[t], WithApproval(t))
                    /\ Reply(t, "approved")
                    /\ approvals' = [approvals EXCEPT ![job[t].rid] = @ + 1]

\* Mutant: no commit.
ClaimUncommitted(t) == /\ pc[t] = "claim"
                       /\ ~Locked(Home[t])
                       /\ ~AlreadyApproved(t)
                       /\ Insert(Home[t], WithApproval(t))
                       /\ Reply(t, "approved")
                       /\ approvals' = [approvals EXCEPT ![job[t].rid] = @ + 1]

\* claim: INSERT and commit, the only way to "approved".
Claim(t) == /\ pc[t] = "claim"
            /\ ~Locked(Home[t])
            /\ ~AlreadyApproved(t)
            /\ InsertCommit(Home[t], WithApproval(t))
            /\ Reply(t, "approved")
            /\ approvals' = [approvals EXCEPT ![job[t].rid] = @ + 1]

ClaimCommitFails(t) == /\ pc[t] = "claim"
                       /\ ~Locked(Home[t])
                       /\ ~AlreadyApproved(t)
                       /\ CanWrite(Home[t])
                       /\ CommitBusy(Home[t], WithApproval(t))
                       /\ Reply(t, "locked")
                       /\ UNCHANGED approvals

\* claim: the INSERT hits the primary key.  The transaction it began stays
\* open: nothing rolls it back.
ClaimRefused(t) == /\ pc[t] = "claim"
                   /\ ~Locked(Home[t])
                   /\ AlreadyApproved(t)
                   /\ Insert(Home[t], Seen(Home[t]))
                   /\ Goto(t, "getagain")
                   /\ UNCHANGED <<locals, world>>

-----------------------------------------------------------------------------

\* self._lock is taken by now, or is free to take.
Entered(t) == pc[t] # "writefloor" => ~Locked(Home[t])

\* A write waits out busy_timeout for a lock of another process: one that a call
\* left behind, or one that is kept for longer than that.
WriteTimesOut(t) == /\ pc[t] \in {"writeexpiry", "writefloor", "claim"}
                    /\ Entered(t)
                    /\ InsertBusy(Home[t])
                    /\ Reply(t, "locked")
                    /\ UNCHANGED approvals

ReadTimesOut(t) == /\ pc[t] \in {"readfloor", "get", "getexpiry", "getfloor",
                                 "getagain"}
                   /\ Entered(t)
                   /\ ~CanRead(Home[t])
                   /\ Reply(t, "locked")
                   /\ UNCHANGED <<file, approvals>>

\* An INSERT or a COMMIT fails for another reason than a lock.  What is rolled
\* back is the whole connection's, other threads' rows included.
WriteFails(t) == /\ \/ pc[t] \in {"writeexpiry", "writefloor", "claim"}
                       /\ Entered(t)
                       /\ CanWrite(Home[t])
                    \/ pc[t] = "commitexpiry" /\ Holds(Home[t])
                 /\ Rollback(Home[t])
                 /\ Reply(t, "failed")
                 /\ UNCHANGED approvals

\* A server process dies and is started again: its calls are never answered.
Restart(p) == /\ Rollback(p)
              /\ pc' = [t \in Threads |-> IF Home[t] = p THEN "idle" ELSE pc[t]]
              /\ answer' = [t \in Threads |-> IF Home[t] = p THEN "none"
                                                             ELSE answer[t]]
              /\ job' = [t \in Threads |-> IF Home[t] = p THEN None ELSE job[t]]
              /\ level' = [t \in Threads |-> IF Home[t] = p THEN 0 ELSE level[t]]
              /\ owed' = [t \in Threads |-> IF Home[t] = p THEN 0 ELSE owed[t]]
              /\ UNCHANGED <<approvals, world>>

Tick == /\ clock < MaxClock
        /\ clock' = clock + 1
        /\ UNCHANGED <<file, pc, locals, received>>

\* A payment to the one-time address of r is confirmed, and whoever has the key
\* of the address publishes its receive block.  Nothing in the service does.
Pocket(r, a) == /\ Len(received[r]) < MaxPayments
                /\ received' = [received EXCEPT ![r] = Append(@, a)]
                /\ UNCHANGED <<file, pc, locals, clock>>

\* The steps of a call that has begun, but for the failures of the disk.
Step(t) == \/ InsertExpiry(t) \/ CommitExpiry(t) \/ CommitExpiryFails(t)
           \/ ReadFloor(t) \/ WriteFloor(t) \/ WriteFloorFails(t)
           \/ Get(t) \/ GetExpiry(t) \/ GetFloor(t)
           \/ HistoryHit(t) \/ HistoryMiss(t) \/ HistoryFails(t)
           \/ Claim(t) \/ ClaimCommitFails(t) \/ ClaimRefused(t)
           \/ WriteTimesOut(t) \/ ReadTimesOut(t)

Next == \/ \E t \in Threads :
             \/ Step(t) \/ WriteFails(t)
             \/ \E r \in Requests, a \in Prices : Quote(t, r, a) \/ Verify(t, r, a)
             \/ \E r \in Requests, usd \in Dollars, rateTwice \in MedianRates :
                  QuoteUsd(t, r, usd, rateTwice)
        \/ \E p \in Processes : Restart(p)
        \/ Tick
        \/ \E r \in Requests, a \in Prices : Pocket(r, a)

Spec == Init /\ [][Next]_vars

\* The threads of a live process run on: the busy timeout bounds each wait for a
\* lock of another process.  (No write has to fail otherwise.)
FairSpec == Spec /\ \A t \in Threads : WF_vars(Step(t))

-----------------------------------------------------------------------------

TypeOK == /\ db \in Tables /\ work \in Tables
          /\ lock \in [Processes -> {"none", "shared", "reserved", "pending"}]
          /\ intxn \in [Processes -> BOOLEAN]
          /\ pc \in [Threads -> {"idle", "writeexpiry", "commitexpiry",
                                 "readfloor", "writefloor", "get", "getexpiry",
                                 "getfloor", "history", "claim", "getagain"}]
          /\ job \in [Threads -> Jobs \cup {None}]
          /\ level \in [Threads -> Nat]
          /\ answer \in [Threads -> {"none", "quoted", "approved", "spent",
                                     "expired", "pending", "locked", "failed"}]
          /\ owed \in [Threads -> Nat]
          /\ approvals \in [Requests -> Nat]
          /\ clock \in 0..MaxClock
          /\ received \in [Requests -> Seq(Prices)]

Answers(t, a) == answer[t] = "none" /\ answer'[t] = a

\* A request is answered "approved" at most once, by any thread of any process,
\* and from then on its approval is on disk, whatever dies.
ApprovedOnce ==
    \A r \in Requests : approvals[r] <= (IF r \in db.approved THEN 1 ELSE 0)

\* A claim is made only for a request whose address has received at least the
\* price that was on record when verify_payment was called, whatever amount
\* the caller named.
ApprovedPaysTheQuote ==
    \A t \in Threads :
        pc[t] = "claim" => \E i \in DOMAIN received[job[t].rid] :
                               received[job[t].rid][i] >= owed[t]

\* At most one process has written what is not committed, and what it has
\* written keeps the approvals on disk.
WriterInv ==
    \A p \in Processes : Holds(p) =>
        /\ \A q \in Processes : Holds(q) => q = p
        /\ db.approved \subseteq work.approved

\* A call under way has its arguments, and a floor that covers its dollars.
CallInv ==
    \A t \in Threads :
        /\ pc[t] # "idle" => job[t] \in Jobs
        /\ pc[t] \in {"writeexpiry", "commitexpiry", "readfloor", "writefloor"} =>
             level[t] * job[t].rate >= 2 * job[t].usd * RawPerNano

\* Within one process: a floor is never left uncommitted, whoever is about to
\* write has self._lock and at least the floor on record, and a verification
\* demands, and has then found, at least what was owed when it began.
FloorInv ==
    /\ \A p \in Processes : Seen(p).price = db.price
    /\ \A t \in Threads : pc[t] = "writefloor" =>
         /\ \A u \in Threads : pc[u] = "writefloor" => u = t
         /\ level[t] >= Seen(Home[t]).price[job[t].rid]
    /\ \A t \in Threads :
         /\ pc[t] \in {"get", "getexpiry", "getfloor"} =>
              db.price[job[t].rid] >= owed[t]
         /\ pc[t] = "history" => level[t] >= owed[t]
    /\ ApprovedPaysTheQuote

\* The inductive invariant: what ApprovedOnce and DollarsCovered rest on.
IInv == TypeOK /\ WriterInv /\ CallInv /\ ApprovedOnce

\* "The recorded floor only ever rises" (record_quote_price).
FloorNeverLowered == [][\A r \in Requests : db'.price[r] >= db.price[r]]_vars

\* "The seller never under-receives the quoted USD value at the quoted rate"
\* (pricing.py): the floor on record when quote_usd answers is worth the dollars
\* at the median rate, whatever other calls have recorded since.
DollarsCovered ==
    [][\A t \in Threads : Answers(t, "quoted") =>
         db'.price[job[t].rid] * job[t].rate >= 2 * job[t].usd * RawPerNano]_vars

\* "spent" is said only of a request whose approval is recorded for good, even
\* if a claim has failed between its INSERT and its commit.  ("if this
\* request_id was already approved", verify_payment; true in one process.)
SpentMeansApproved ==
    [][\A t \in Threads : Answers(t, "spent") => job[t].rid \in db.approved]_vars

\* claim returns True or False: it never fails on a lock that another process
\* has kept since an earlier call of its own.
ClaimAnswers ==
    [][\A t \in Threads : pc[t] = "claim" => ~Answers(t, "locked")]_vars

\* Every tool call gets an answer, whatever the other threads and processes
\* keep locked.
CallAnswered == \A t \in Threads : (pc[t] # "idle") ~> (pc[t] = "idle")

\* One of the newest Window entries of r is enough for the due amount.
Covered(r, due) == \E i \in DOMAIN received[r] :
                     i > Len(received[r]) - Window /\ received[r][i] >= due

\* The node answers a verification of r, whose payment it knows.
NodeAnswers(r) ==
    \E t \in Threads : /\ pc[t] = "history" /\ pc'[t] # "history"
                       /\ job[t].rid = r
                       /\ Covered(r, level[t])
                       /\ HistoryHit(t) \/ HistoryMiss(t)

\* A call raises instead of returning.
CallFails == \E t \in Threads : Answers(t, "locked") \/ Answers(t, "failed")

\* A payer who asks again and again, in time and with enough among the newest
\* entries, and of whom the node is asked with success again and again, is
\* approved: unless the server never stops restarting, or calls never stop
\* failing, on a lock that a process keeps or on the disk.
PaidIsApproved ==
    \A r \in Requests :
        (/\ []<><<NodeAnswers(r)>>_vars
         /\ <>[][~CallFails]_vars
         /\ <>[][\A p \in Processes : ~Restart(p)]_vars)
        => <>(r \in db.approved)

=============================================================================
