----------------------- MODULE PaymentServiceProofs ------------------------
(***************************************************************************)
(* Proofs about PaymentService, for any number of processes, threads,      *)
(* requests, rate sources and prices: a request is approved at most once,  *)
(* and a dollar quote is covered by the floor it records.                  *)
(*                                                                         *)
(* The first lemmas are about the statements on the file; then there is    *)
(* one lemma per group of actions, each keeping IInv.                      *)
(***************************************************************************)
EXTENDS PaymentService, PricingProofs

\* What IInv says of the file.
FileInv == /\ db \in Tables /\ work \in Tables
           /\ lock \in [Processes -> {"none", "shared", "reserved", "pending"}]
           /\ intxn \in [Processes -> BOOLEAN]
           /\ WriterInv

\* What IInv says of the calls.
LocalInv == /\ pc \in [Threads -> {"idle", "writeexpiry", "commitexpiry",
                                   "readfloor", "writefloor", "get", "getexpiry",
                                   "getfloor", "history", "claim", "getagain"}]
            /\ job \in [Threads -> Jobs \cup {None}]
            /\ level \in [Threads -> Nat]
            /\ answer \in [Threads -> {"none", "quoted", "approved", "spent",
                                       "expired", "pending", "locked", "failed"}]
            /\ owed \in [Threads -> Nat]
            /\ CallInv

\* What IInv says of the world.
WorldInv == clock \in 0..MaxClock /\ received \in [Requests -> Seq(Prices)]

ApprovalInv == approvals \in [Requests -> Nat] /\ ApprovedOnce

\* The parts of IInv, before and after a step.
LEMMA Parts == /\ IInv => FileInv /\ LocalInv /\ WorldInv /\ ApprovalInv
               /\ FileInv' /\ LocalInv' /\ WorldInv' /\ ApprovalInv' => IInv'
BY DEF IInv, TypeOK, FileInv, LocalInv, WorldInv, ApprovalInv

\* Approvals on disk stay there.
Keeps == db.approved \subseteq db'.approved

\* A connection sees at least the approvals on disk.
LEMMA SeenApproved ==
    ASSUME FileInv, NEW p \in Processes
    PROVE  Seen(p) \in Tables /\ db.approved \subseteq Seen(p).approved
BY DEF FileInv, WriterInv, Seen

LEMMA SelectKeeps ==
    ASSUME FileInv, NEW p \in Processes, Select(p)
    PROVE  FileInv' /\ db' = db
BY DEF FileInv, WriterInv, Holds, Select

LEMMA InsertKeeps ==
    ASSUME FileInv, NEW p \in Processes, NEW new \in Tables, Insert(p, new),
           Seen(p).approved \subseteq new.approved
    PROVE  FileInv' /\ db' = db
<1>1. db.approved \subseteq new.approved
  BY SeenApproved
<1>2. \A q \in Processes \ {p} : ~Holds(q)
  BY DEF Insert, CanWrite
<1> QED BY <1>1, <1>2 DEF FileInv, WriterInv, Holds, Insert

LEMMA CommitKeeps ==
    ASSUME FileInv, NEW p \in Processes, Commit(p)
    PROVE  FileInv' /\ Keeps
<1>1. Seen(p) \in Tables /\ db.approved \subseteq Seen(p).approved
  BY SeenApproved
<1>2. CASE Holds(p)
  BY <1>1, <1>2 DEF FileInv, WriterInv, Holds, Commit, CanCommit, Keeps
<1>3. CASE ~Holds(p)
  <2>1. db' = db
    BY <1>3 DEF Commit, Seen
  <2> QED BY <1>3, <2>1 DEF FileInv, WriterInv, Holds, Commit, Keeps
<1> QED BY <1>2, <1>3

LEMMA InsertCommitKeeps ==
    ASSUME FileInv, NEW p \in Processes, NEW new \in Tables, InsertCommit(p, new),
           Seen(p).approved \subseteq new.approved
    PROVE  FileInv' /\ Keeps /\ db' = new
<1>1. db.approved \subseteq new.approved
  BY SeenApproved
<1> QED BY <1>1 DEF FileInv, WriterInv, Holds, InsertCommit, CanWrite, CanCommit, Keeps

LEMMA CommitBusyKeeps ==
    ASSUME FileInv, NEW p \in Processes, NEW new \in Tables, CommitBusy(p, new),
           Seen(p).approved \subseteq new.approved
    PROVE  FileInv' /\ db' = db
<1>1. db.approved \subseteq new.approved
  BY SeenApproved
<1>2. \A q \in Processes \ {p} : ~Holds(q)
  BY DEF CommitBusy, CanWrite, FileInv, WriterInv
<1> QED BY <1>1, <1>2 DEF FileInv, WriterInv, Holds, CommitBusy

LEMMA InsertBusyKeeps ==
    ASSUME FileInv, NEW p \in Processes, InsertBusy(p)
    PROVE  FileInv' /\ db' = db
BY DEF FileInv, WriterInv, Holds, InsertBusy

LEMMA RollbackKeeps ==
    ASSUME FileInv, NEW p \in Processes, Rollback(p)
    PROVE  FileInv' /\ db' = db
BY DEF FileInv, WriterInv, Holds, Rollback

LEMMA IdleFileKeeps ==
    ASSUME FileInv, UNCHANGED file
    PROVE  FileInv' /\ db' = db
BY DEF FileInv, WriterInv, Holds, file

-----------------------------------------------------------------------------
(* What a step does to the local state of one thread.                      *)

PCs == {"idle", "writeexpiry", "commitexpiry", "readfloor", "writefloor", "get",
        "getexpiry", "getfloor", "history", "claim", "getagain"}
Quoting == {"writeexpiry", "commitexpiry", "readfloor", "writefloor"}
AnswersGiven == {"none", "quoted", "approved", "spent", "expired", "pending",
                 "locked", "failed"}

\* The floor of a call that quotes covers the dollars it was asked for.
Covers(j, n) == n * j.rate >= 2 * j.usd * RawPerNano

LEMMA BeginKeeps ==
    ASSUME LocalInv, NEW t \in Threads, NEW l \in PCs, NEW j \in Jobs, NEW due \in Nat,
           l \in Quoting => Covers(j, j.amount), Begin(t, l, j, due)
    PROVE  LocalInv'
<1>1. j.amount \in Nat
  BY DEF Jobs
<1>2. CallInv'
  BY <1>1 DEF CallInv, LocalInv, Begin, Goto, PCs, Quoting, Covers
<1> QED BY <1>1, <1>2 DEF LocalInv, Begin, Goto, PCs

LEMMA ReplyKeeps ==
    ASSUME LocalInv, NEW t \in Threads, NEW a \in AnswersGiven, Reply(t, a)
    PROVE  LocalInv'
<1>1. CallInv'
  BY DEF CallInv, LocalInv, Reply, Goto
<1> QED BY <1>1 DEF LocalInv, Reply, Goto, AnswersGiven

LEMMA GotoKeeps ==
    ASSUME LocalInv, NEW t \in Threads, NEW l \in PCs, pc[t] # "idle",
           l \in Quoting => pc[t] \in Quoting,
           Goto(t, l), UNCHANGED <<job, level, answer, owed>>
    PROVE  LocalInv'
<1>1. CallInv'
  BY DEF CallInv, LocalInv, Goto, PCs, Quoting
<1> QED BY <1>1 DEF LocalInv, Goto, PCs

\* The amount due only rises.
LEMMA LevelKeeps ==
    ASSUME LocalInv, NEW t \in Threads, NEW l \in PCs, pc[t] # "idle",
           l \in Quoting => pc[t] \in Quoting, NEW recorded \in Nat,
           level' = [level EXCEPT ![t] = IF recorded > @ THEN recorded ELSE @],
           Goto(t, l), UNCHANGED <<job, answer, owed>>
    PROVE  LocalInv'
<1>1. level' \in [Threads -> Nat] /\ \A u \in Threads : level'[u] >= level[u]
  BY DEF LocalInv
<1>2. \A u \in Threads : pc'[u] \in Quoting => pc[u] \in Quoting
  BY DEF LocalInv, Goto
<1>3. \A u \in Threads : pc'[u] # "idle" => job'[u] \in Jobs
  BY DEF LocalInv, CallInv, Goto
<1>4. ASSUME NEW u \in Threads, pc'[u] \in Quoting
      PROVE  Covers(job'[u], level'[u])
  <2>1. pc[u] \in Quoting /\ job'[u] = job[u] /\ job[u] \in Jobs
    BY <1>2, <1>3, <1>4 DEF Quoting
  <2>2. job[u].rate \in Nat /\ Covers(job[u], level[u])
    BY <2>1 DEF LocalInv, CallInv, Covers, Quoting, Jobs
  <2>3. level'[u] * job[u].rate >= level[u] * job[u].rate
    <3> DEFINE a == level'[u]  b == level[u]  r == job[u].rate
    <3>1. a \in Nat /\ b \in Nat /\ a >= b
      BY <1>1 DEF LocalInv
    <3>2. r \in Nat
      BY <2>2
    <3> HIDE DEF a, b, r
    <3>3. a * r >= b * r
      BY <3>1, <3>2
    <3> QED BY <3>3 DEF a, b, r
  <2>4. 2 * job[u].usd * RawPerNano \in Nat
    <3>1. job[u].usd \in Nat
      <4>1. job[u].usd \in Dollars \cup {0}
        BY <2>1 DEF Jobs
      <4>2. \A x \in Dollars \cup {0} : x \in Nat
        BY DollarsAssumption
      <4> QED BY <4>1, <4>2
    <3> DEFINE twice == 2 * job[u].usd
    <3>2. twice \in Nat
      BY <3>1
    <3> HIDE DEF twice
    <3>3. twice * RawPerNano \in Nat
      BY <3>2, RawAssumption
    <3> QED BY <3>3 DEF twice
  <2>5. level'[u] * job[u].rate \in Nat /\ level[u] * job[u].rate \in Nat
    BY <1>1, <2>2 DEF LocalInv
  <2> QED BY <2>1, <2>2, <2>3, <2>4, <2>5 DEF Covers
<1>5. CallInv'
  BY <1>3, <1>4 DEF CallInv, Covers, Quoting
<1> QED BY <1>1, <1>5 DEF LocalInv, Goto, PCs

LEMMA ApprovedKeeps ==
    ASSUME IInv, Keeps, UNCHANGED approvals
    PROVE  ApprovalInv'
BY DEF IInv, TypeOK, ApprovedOnce, ApprovalInv, Keeps

\* The arguments of a call under way.
LEMMA CallArguments ==
    ASSUME IInv, NEW t \in Threads, pc[t] # "idle"
    PROVE  /\ Home[t] \in Processes
           /\ job[t].rid \in Requests
           /\ job[t].until \in Times \cup {None}
           /\ level[t] \in Nat
BY HomeAssumption DEF IInv, TypeOK, CallInv, Jobs

\* What is written keeps the approvals that were there.
LEMMA Written ==
    ASSUME IInv, NEW t \in Threads, pc[t] # "idle"
    PROVE  LET seen == Seen(Home[t]) IN
           /\ seen \in Tables
           /\ \A r \in Requests : seen.price[r] \in Nat
           /\ WithExpiry(t) \in Tables
           /\ WithExpiry(t).approved = seen.approved
           /\ WithFloor(t) \in Tables
           /\ WithFloor(t).approved = seen.approved
           /\ WithFloor(t).price[job[t].rid] = level[t]
           /\ WithApproval(t) \in Tables
           /\ WithApproval(t).approved = seen.approved \cup {job[t].rid}
<1>1. Seen(Home[t]) \in Tables
  BY CallArguments, SeenApproved, Parts
<1> QED BY <1>1, CallArguments DEF Tables, WithExpiry, WithFloor, WithApproval

-----------------------------------------------------------------------------
(* One lemma per group of actions.                                         *)

LEMMA InitInv == Init => IInv
<1> SUFFICES ASSUME Init PROVE IInv
  OBVIOUS
<1>1. EmptyTables \in Tables
  BY DEF EmptyTables, Tables
<1>2. FileInv
  BY <1>1 DEF Init, FileInit, FileInv, WriterInv, Holds
<1>3. LocalInv
  BY DEF Init, LocalInv, CallInv
<1>4. WorldInv /\ ApprovalInv
  BY TimeAssumption DEF Init, WorldInv, ApprovalInv, ApprovedOnce
<1> QED BY <1>2, <1>3, <1>4 DEF IInv, TypeOK, FileInv, LocalInv, WorldInv, ApprovalInv

LEMMA BeginsKeep ==
    ASSUME IInv, NEW t \in Threads, NEW r \in Requests, NEW a \in Prices,
           Quote(t, r, a) \/ Verify(t, r, a)
    PROVE  IInv'
<1>1. RawJob(r, a) \in Jobs /\ Covers(RawJob(r, a), RawJob(r, a).amount)
  BY PricesAssumption, RawAssumption DEF RawJob, Jobs, Covers
<1>2. db.price[r] \in Nat
  BY DEF IInv, TypeOK, Tables
<1>3. /\ UNCHANGED <<file, approvals, world>>
      /\ LocalInv'
  <2>1. CASE Quote(t, r, a)
    BY <1>1, <2>1, BeginKeeps, Parts DEF Quote, PCs, Begin
  <2>2. CASE Verify(t, r, a)
    BY <1>1, <1>2, <2>2, BeginKeeps, Parts DEF Verify, PCs, Quoting, Begin
  <2> QED BY <2>1, <2>2
<1>4. FileInv' /\ Keeps
  BY <1>3, IdleFileKeeps, Parts DEF Keeps
<1>5. WorldInv'
  BY <1>3, Parts DEF WorldInv, world
<1> QED BY <1>3, <1>4, <1>5, ApprovedKeeps, Parts

\* Twice a median is a natural number.
LEMMA MedianRatesNat == MedianRates \subseteq Nat
<1> SUFFICES ASSUME NEW x \in [Sources -> Rates \cup {Failed}], HasMedian(x)
             PROVE  MedianTwice(x) \in Nat
  BY DEF MedianRates
<1>1. x \in Rounds
  BY DollarsAssumption DEF Rounds
<1> QED BY <1>1, MedianInTheMiddle

LEMMA QuoteUsdKeeps ==
    ASSUME IInv, NEW t \in Threads, NEW r \in Requests, NEW usd \in Dollars,
           NEW rateTwice \in MedianRates, QuoteUsd(t, r, usd, rateTwice)
    PROVE  IInv'
<1> DEFINE j == DollarJob(r, usd, rateTwice)
<1>1. usd \in Nat /\ rateTwice \in Nat \ {0}
  BY MedianRatesNat, DollarsAssumption DEF QuoteUsd, Convertible
<1>2. /\ UsdToRaw(usd, rateTwice) \in Nat
      /\ UsdToRaw(usd, rateTwice) * rateTwice >= 2 * usd * RawPerNano
  BY <1>1, LeastCoveringAmount
<1>3. clock + TTL \in Times
  BY TimeAssumption DEF IInv, TypeOK, Times
<1>4. j \in Jobs /\ Covers(j, j.amount)
  BY <1>1, <1>2, <1>3 DEF DollarJob, Jobs, Covers
<1>5. Begin(t, "writeexpiry", j, 0)
  BY DEF QuoteUsd
<1>6. UNCHANGED <<file, approvals, world>>
  BY <1>5 DEF Begin
<1>7. LocalInv'
  <2> HIDE DEF j
  <2> QED BY <1>4, <1>5, BeginKeeps, Parts DEF PCs
<1>8. FileInv' /\ Keeps
  BY <1>6, IdleFileKeeps, Parts DEF Keeps
<1>9. WorldInv'
  BY <1>6, Parts DEF WorldInv, world
<1> QED BY <1>6, <1>7, <1>8, <1>9, ApprovedKeeps, Parts

\* The calls that end without touching approvals, and without being counted.
LEMMA EndsKeep ==
    ASSUME IInv, NEW t \in Threads,
           \/ CommitExpiryFails(t) \/ WriteFloor(t) \/ WriteFloorFails(t)
           \/ HistoryMiss(t) \/ HistoryFails(t) \/ ClaimCommitFails(t)
           \/ WriteTimesOut(t) \/ ReadTimesOut(t) \/ WriteFails(t)
    PROVE  IInv'
<1> USE Parts
<1>1. pc[t] # "idle"
  BY DEF CommitExpiryFails, WriteFloor, WriteFloorFails, HistoryMiss, HistoryFails,
         ClaimCommitFails, WriteTimesOut, ReadTimesOut, WriteFails
<1>2. Home[t] \in Processes
  BY <1>1, CallArguments
<1>3. UNCHANGED approvals /\ \E a \in AnswersGiven : Reply(t, a)
  BY DEF CommitExpiryFails, WriteFloor, WriteFloorFails, HistoryMiss, HistoryFails,
         ClaimCommitFails, WriteTimesOut, ReadTimesOut, WriteFails, AnswersGiven
<1>4. LocalInv' /\ WorldInv'
  BY <1>3, ReplyKeeps DEF Reply, WorldInv, world
<1>5. FileInv' /\ Keeps
  <2>1. CASE CommitExpiryFails(t)
    BY <1>2, <2>1, CommitBusyKeeps, SeenApproved DEF CommitExpiryFails, Keeps
  <2>2. CASE WriteFloor(t)
    BY <1>1, <1>2, <2>2, Written, InsertCommitKeeps DEF WriteFloor, Keeps
  <2>3. CASE WriteFloorFails(t)
    BY <1>1, <1>2, <2>3, Written, CommitBusyKeeps DEF WriteFloorFails, Keeps
  <2>4. CASE ClaimCommitFails(t)
    BY <1>1, <1>2, <2>4, Written, CommitBusyKeeps DEF ClaimCommitFails, Keeps
  <2>5. CASE WriteTimesOut(t)
    BY <1>2, <2>5, InsertBusyKeeps DEF WriteTimesOut, Keeps
  <2>6. CASE HistoryMiss(t) \/ HistoryFails(t) \/ ReadTimesOut(t)
    BY <2>6, IdleFileKeeps DEF HistoryMiss, HistoryFails, ReadTimesOut, Keeps
  <2>7. CASE WriteFails(t)
    BY <1>2, <2>7, RollbackKeeps DEF WriteFails, Keeps
  <2> QED BY <2>1, <2>2, <2>3, <2>4, <2>5, <2>6, <2>7
<1> QED BY <1>3, <1>4, <1>5, ApprovedKeeps

\* The steps within a call that leave its arguments and its floor alone.
LEMMA MovesKeep ==
    ASSUME IInv, NEW t \in Threads,
           InsertExpiry(t) \/ CommitExpiry(t) \/ HistoryHit(t) \/ ClaimRefused(t)
    PROVE  IInv'
<1> USE Parts
<1>1. pc[t] # "idle"
  BY DEF InsertExpiry, CommitExpiry, HistoryHit, ClaimRefused
<1>2. Home[t] \in Processes
  BY <1>1, CallArguments
<1>3. UNCHANGED <<job, level, answer, owed, approvals, world>>
  BY DEF InsertExpiry, CommitExpiry, HistoryHit, ClaimRefused, locals
<1>4. LocalInv' /\ WorldInv'
  <2>1. \E l \in PCs : Goto(t, l) /\ (l \in Quoting => pc[t] \in Quoting)
    BY DEF InsertExpiry, CommitExpiry, HistoryHit, ClaimRefused, PCs, Quoting
  <2> QED BY <1>1, <1>3, <2>1, GotoKeeps DEF WorldInv, world
<1>5. FileInv' /\ Keeps
  <2>1. CASE InsertExpiry(t)
    BY <1>1, <1>2, <2>1, Written, InsertKeeps DEF InsertExpiry, Keeps
  <2>2. CASE CommitExpiry(t)
    BY <1>2, <2>2, CommitKeeps DEF CommitExpiry, Keeps
  <2>3. CASE HistoryHit(t)
    BY <2>3, IdleFileKeeps DEF HistoryHit, Keeps
  <2>4. CASE ClaimRefused(t)
    BY <1>1, <1>2, <2>4, Written, InsertKeeps DEF ClaimRefused, Keeps
  <2> QED BY <2>1, <2>2, <2>3, <2>4
<1> QED BY <1>3, <1>4, <1>5, ApprovedKeeps

\* The reads of verify_payment before the floor.
LEMMA ReadsKeep ==
    ASSUME IInv, NEW t \in Threads, Get(t) \/ GetExpiry(t)
    PROVE  IInv'
<1> USE Parts
<1>1. pc[t] # "idle" /\ Select(Home[t]) /\ UNCHANGED approvals
  BY DEF Get, GetExpiry
<1>2. Home[t] \in Processes
  BY <1>1, CallArguments
<1>3. \/ \E a \in AnswersGiven : Reply(t, a)
      \/ \E l \in PCs \ Quoting : Goto(t, l) /\ UNCHANGED <<job, level, answer, owed, world>>
  BY DEF Get, GetExpiry, PCs, Quoting, AnswersGiven
<1>4. LocalInv' /\ WorldInv'
  <2>1. CASE \E a \in AnswersGiven : Reply(t, a)
    BY <2>1, ReplyKeeps DEF Reply, WorldInv, world
  <2>2. CASE \E l \in PCs \ Quoting : Goto(t, l) /\ UNCHANGED <<job, level, answer, owed, world>>
    BY <1>1, <2>2, GotoKeeps DEF WorldInv, world
  <2> QED BY <1>3, <2>1, <2>2
<1>5. FileInv' /\ Keeps
  BY <1>1, <1>2, SelectKeeps DEF Keeps
<1> QED BY <1>1, <1>4, <1>5, ApprovedKeeps

\* The reads of the floor, which raise what is due.
LEMMA FloorReadsKeep ==
    ASSUME IInv, NEW t \in Threads, ReadFloor(t) \/ GetFloor(t)
    PROVE  IInv'
<1> USE Parts
<1> DEFINE recorded == Seen(Home[t]).price[job[t].rid]
<1>1. /\ pc[t] # "idle" /\ Select(Home[t])
      /\ UNCHANGED <<job, answer, owed, approvals, world>>
      /\ level' = [level EXCEPT ![t] = IF recorded > @ THEN recorded ELSE @]
  BY DEF ReadFloor, GetFloor
<1>2. Home[t] \in Processes /\ recorded \in Nat
  BY <1>1, CallArguments, Written
<1>3. \E l \in PCs : Goto(t, l) /\ (l \in Quoting => pc[t] \in Quoting)
  BY DEF ReadFloor, GetFloor, PCs, Quoting
<1>4. LocalInv' /\ WorldInv'
  <2> HIDE DEF recorded
  <2> QED BY <1>1, <1>2, <1>3, LevelKeeps DEF WorldInv, world
<1>5. FileInv' /\ Keeps
  BY <1>1, <1>2, SelectKeeps DEF Keeps
<1> QED BY <1>1, <1>4, <1>5, ApprovedKeeps

\* The only step that approves: the request was not approved on disk, and is
\* after it.
LEMMA ClaimKeeps ==
    ASSUME IInv, NEW t \in Threads, Claim(t)
    PROVE  IInv'
<1> USE Parts
<1> DEFINE r == job[t].rid
<1>1. pc[t] # "idle" /\ r \notin Seen(Home[t]).approved
  BY DEF Claim, AlreadyApproved
<1>2. Home[t] \in Processes /\ r \in Requests
  BY <1>1, CallArguments
<1>3. FileInv' /\ Keeps /\ db' = WithApproval(t)
  BY <1>1, <1>2, Written, InsertCommitKeeps DEF Claim
<1>4. LocalInv' /\ WorldInv'
  BY ReplyKeeps DEF Claim, Reply, WorldInv, world, AnswersGiven
<1>5. r \notin db.approved /\ r \in db'.approved
  BY <1>1, <1>2, <1>3, SeenApproved, Written
<1>6. approvals' = [approvals EXCEPT ![r] = @ + 1] /\ approvals[r] = 0
  BY <1>2, <1>5 DEF Claim, ApprovalInv, ApprovedOnce
<1>7. ApprovalInv'
  <2> HIDE DEF r
  <2> QED BY <1>2, <1>3, <1>5, <1>6 DEF ApprovalInv, ApprovedOnce, Keeps
<1> QED BY <1>3, <1>4, <1>7

LEMMA RestartKeeps ==
    ASSUME IInv, NEW p \in Processes, Restart(p)
    PROVE  IInv'
<1>1. FileInv' /\ Keeps
  BY RollbackKeeps, Parts DEF Restart, Keeps
<1>2. LocalInv'
  <2>1. CallInv'
    BY Parts DEF Restart, LocalInv, CallInv
  <2> QED BY <2>1, Parts DEF Restart, LocalInv
<1>3. WorldInv' /\ UNCHANGED approvals
  BY Parts DEF Restart, WorldInv, world
<1> QED BY <1>1, <1>2, <1>3, ApprovedKeeps, Parts

LEMMA WorldKeeps ==
    ASSUME IInv, Tick \/ \E r \in Requests, a \in Prices : Pocket(r, a)
    PROVE  IInv'
<1>1. UNCHANGED <<file, pc, locals>>
  BY DEF Tick, Pocket
<1>2. FileInv' /\ Keeps
  BY <1>1, IdleFileKeeps, Parts DEF Keeps
<1>3. LocalInv' /\ UNCHANGED approvals
  BY <1>1, Parts DEF LocalInv, CallInv, locals
<1>4. WorldInv'
  <2>1. CASE Tick
    BY <2>1, TimeAssumption, Parts DEF Tick, WorldInv
  <2>2. CASE \E r \in Requests, a \in Prices : Pocket(r, a)
    <3>1. PICK r \in Requests, a \in Prices : Pocket(r, a)
      BY <2>2
    <3>2. Append(received[r], a) \in Seq(Prices)
      BY Parts DEF WorldInv
    <3> QED BY <3>1, <3>2, Parts DEF Pocket, WorldInv
  <2> QED BY <2>1, <2>2
<1> QED BY <1>2, <1>3, <1>4, ApprovedKeeps, Parts

LEMMA NextInv == IInv /\ [Next]_vars => IInv'
<1> SUFFICES ASSUME IInv, [Next]_vars PROVE IInv'
  OBVIOUS
<1>1. ASSUME NEW t \in Threads, Step(t) \/ WriteFails(t) PROVE IInv'
  BY <1>1, EndsKeep, MovesKeep, ReadsKeep, FloorReadsKeep, ClaimKeeps DEF Step
<1>2. CASE UNCHANGED vars
  <2>1. FileInv' /\ Keeps
    BY <1>2, IdleFileKeeps, Parts DEF vars, Keeps
  <2> QED BY <1>2, <2>1, ApprovedKeeps, Parts DEF vars, LocalInv, CallInv, WorldInv
<1> QED BY <1>1, <1>2, BeginsKeep, QuoteUsdKeeps, RestartKeeps, WorldKeeps DEF Next

-----------------------------------------------------------------------------

\* IInv holds throughout.
THEOREM Invariance == Spec => []IInv
BY InitInv, NextInv, PTL DEF Spec

\* A request is answered "approved" at most once, by any thread of any process,
\* and its approval is then on disk: PaymentService.verify_payment over
\* ApprovalStore.claim.
THEOREM NeverTwice == Spec => []ApprovedOnce
<1>1. IInv => ApprovedOnce
  BY DEF IInv
<1> QED BY <1>1, Invariance, PTL

\* When quote_usd answers, the floor on record is worth the dollars quoted at the
\* median rate, for every price, rate, and number of processes.
THEOREM SellerCovered == Spec => DollarsCovered
<1>1. ASSUME IInv, [Next]_vars, NEW t \in Threads, Answers(t, "quoted")
      PROVE  db'.price[job[t].rid] * job[t].rate >= 2 * job[t].usd * RawPerNano
  <2>1. WriteFloor(t)
    <3>1. ASSUME NEW u \in Threads,
                 \/ InsertExpiry(u) \/ CommitExpiry(u) \/ CommitExpiryFails(u)
                 \/ ReadFloor(u) \/ WriteFloorFails(u)
          PROVE  FALSE
      BY <1>1, <3>1 DEF Answers, InsertExpiry, CommitExpiry, CommitExpiryFails, ReadFloor,
                        WriteFloorFails, Reply, locals
    <3>2. ASSUME NEW u \in Threads,
                 \/ Get(u) \/ GetExpiry(u) \/ GetFloor(u)
                 \/ HistoryHit(u) \/ HistoryMiss(u) \/ HistoryFails(u)
          PROVE  FALSE
      BY <1>1, <3>2 DEF Answers, Get, GetExpiry, GetFloor, HistoryHit, HistoryMiss,
                        HistoryFails, Reply, locals
    <3>3. ASSUME NEW u \in Threads,
                 \/ Claim(u) \/ ClaimCommitFails(u) \/ ClaimRefused(u)
                 \/ WriteTimesOut(u) \/ ReadTimesOut(u) \/ WriteFails(u)
          PROVE  FALSE
      BY <1>1, <3>3 DEF Answers, Claim, ClaimCommitFails, ClaimRefused, WriteTimesOut,
                        ReadTimesOut, WriteFails, Reply, locals
    <3>4. ASSUME NEW u \in Threads, NEW r, NEW a, NEW x,
                 Quote(u, r, a) \/ QuoteUsd(u, r, a, x) \/ Verify(u, r, a)
          PROVE  FALSE
      BY <1>1, <3>4 DEF Answers, Quote, QuoteUsd, Verify, Begin
    <3>5. ASSUME \/ \E p \in Processes : Restart(p)
                 \/ Tick \/ UNCHANGED vars
                 \/ \E r \in Requests, a \in Prices : Pocket(r, a)
          PROVE  FALSE
      BY <1>1, <3>5 DEF Answers, Restart, Tick, Pocket, vars, locals
    <3>6. ASSUME NEW u \in Threads, WriteFloor(u) PROVE u = t
      BY <1>1, <3>6 DEF Answers, WriteFloor, Reply
    <3> QED BY <1>1, <3>1, <3>2, <3>3, <3>4, <3>5, <3>6 DEF Next, Step
  <2>2. pc[t] = "writefloor" /\ db' = WithFloor(t)
    BY <2>1 DEF WriteFloor, InsertCommit
  <2>3. db'.price[job[t].rid] = level[t]
    BY <1>1, <2>2, Written
  <2>4. level[t] * job[t].rate >= 2 * job[t].usd * RawPerNano
    BY <1>1, <2>2 DEF IInv, CallInv
  <2> QED BY <2>3, <2>4
<1>2. IInv /\ [Next]_vars =>
        [\A t \in Threads : Answers(t, "quoted") =>
           db'.price[job[t].rid] * job[t].rate >= 2 * job[t].usd * RawPerNano]_vars
  BY <1>1
<1> QED BY <1>2, Invariance, PTL DEF Spec, DollarsCovered

-----------------------------------------------------------------------------
(* One server process on its approvals.db: FloorInv is inductive as well.  *)

SingleProcess == \E p : Processes = {p}

SeenInv == \A p \in Processes : Seen(p).price = db.price
Rises == \A r \in Requests : db'.price[r] >= db.price[r]
SameSeen == \A p \in Processes : Seen(p)'.price = Seen(p).price

\* The floor that a thread is about to write, and what it demands or has found.
ThreadInv ==
    /\ \A t \in Threads : pc[t] = "writefloor" =>
         /\ \A u \in Threads : pc[u] = "writefloor" => u = t
         /\ level[t] >= Seen(Home[t]).price[job[t].rid]
    /\ \A t \in Threads :
         /\ pc[t] \in {"get", "getexpiry", "getfloor"} =>
              db.price[job[t].rid] >= owed[t]
         /\ pc[t] = "history" => level[t] >= owed[t]
    /\ ApprovedPaysTheQuote

LEMMA FloorParts == /\ FloorInv => SeenInv /\ ThreadInv
                    /\ SeenInv' /\ ThreadInv' => FloorInv'
BY DEF FloorInv, SeenInv, ThreadInv

\* Nobody else keeps a lock, so that no statement fails on one.
LEMMA NeverBusy ==
    ASSUME SingleProcess, FileInv, NEW p \in Processes, NEW new
    PROVE  ~CommitBusy(p, new) /\ ~InsertBusy(p) /\ CanRead(p)
<1>1. \A q \in Processes : q = p
  BY DEF SingleProcess
<1> QED BY <1>1 DEF CommitBusy, InsertBusy, CanCommit, CanWrite, CanRead, FileInv

LEMMA FileSteps ==
    ASSUME SingleProcess, FileInv, SeenInv, NEW p \in Processes, NEW new \in Tables,
           \A r \in Requests : new.price[r] \in Nat /\ new.price[r] >= Seen(p).price[r]
    PROVE  /\ Select(p) => SeenInv' /\ Rises /\ SameSeen
           /\ Insert(p, new) /\ new.price = Seen(p).price => SeenInv' /\ Rises /\ SameSeen
           /\ Commit(p) => SeenInv' /\ Rises /\ SameSeen
           /\ InsertCommit(p, new) => SeenInv' /\ Rises
           /\ UNCHANGED file => SeenInv' /\ Rises /\ SameSeen
           /\ Rollback(p) => SeenInv' /\ Rises /\ SameSeen
<1>1. \A q \in Processes : q = p
  BY DEF SingleProcess
<1>2. \A r \in Requests : db.price[r] \in Nat /\ work.price[r] \in Nat
  BY DEF FileInv, Tables
<1>3. Select(p) => SeenInv' /\ Rises /\ SameSeen
  BY <1>1, <1>2 DEF Select, SeenInv, Rises, SameSeen, Seen, Holds, FileInv
<1>4. Insert(p, new) /\ new.price = Seen(p).price => SeenInv' /\ Rises /\ SameSeen
  BY <1>1, <1>2 DEF Insert, SeenInv, Rises, SameSeen, Seen, Holds, FileInv
<1>5. Commit(p) => SeenInv' /\ Rises /\ SameSeen
  BY <1>1, <1>2 DEF Commit, SeenInv, Rises, SameSeen, Seen, Holds, FileInv
<1>6. InsertCommit(p, new) => SeenInv' /\ Rises
  <2> SUFFICES ASSUME InsertCommit(p, new) PROVE SeenInv' /\ Rises
    OBVIOUS
  <2>1. db' = new /\ ~Holds(p)'
    BY DEF InsertCommit, Holds, FileInv
  <2>2. Seen(p)' = new
    BY <2>1 DEF Seen
  <2> QED BY <1>1, <1>2, <2>1, <2>2 DEF SeenInv, Rises, Seen
<1>7. UNCHANGED file => SeenInv' /\ Rises /\ SameSeen
  BY <1>1, <1>2 DEF file, SeenInv, Rises, SameSeen, Seen, Holds, FileInv
<1>8. Rollback(p) => SeenInv' /\ Rises /\ SameSeen
  BY <1>1, <1>2 DEF Rollback, SeenInv, Rises, SameSeen, Seen, Holds, FileInv
<1> QED BY <1>3, <1>4, <1>5, <1>6, <1>7, <1>8

\* A thread that does not move keeps what is known of it, if the floor it is about
\* to write is still the highest.
LEMMA OthersKeep ==
    ASSUME IInv, IInv', ThreadInv, Rises, NEW u \in Threads,
           pc'[u] = pc[u], job'[u] = job[u], level'[u] = level[u], owed'[u] = owed[u],
           received' = received, pc[u] = "writefloor" => SameSeen
    PROVE  /\ pc'[u] = "writefloor" => level'[u] >= Seen(Home[u])'.price[job'[u].rid]
           /\ pc'[u] \in {"get", "getexpiry", "getfloor"} =>
                db'.price[job'[u].rid] >= owed'[u]
           /\ pc'[u] = "history" => level'[u] >= owed'[u]
           /\ pc'[u] = "claim" => \E i \in DOMAIN received'[job'[u].rid] :
                                    received'[job'[u].rid][i] >= owed'[u]
<1>1. CASE pc[u] = "writefloor"
  BY <1>1, CallArguments DEF ThreadInv, SameSeen
<1>2. CASE pc[u] \in {"get", "getexpiry", "getfloor"}
  <2>1. /\ job[u].rid \in Requests /\ owed[u] \in Nat
        /\ db.price[job[u].rid] >= owed[u]
        /\ db'.price[job[u].rid] >= db.price[job[u].rid]
        /\ db.price[job[u].rid] \in Nat /\ db'.price[job[u].rid] \in Nat
    BY <1>2, CallArguments DEF ThreadInv, Rises, IInv, TypeOK, Tables
  <2> QED BY <1>2, <2>1
<1>3. CASE pc[u] \in {"history", "claim"}
  BY <1>3 DEF ThreadInv, ApprovedPaysTheQuote
<1> QED BY <1>1, <1>2, <1>3

OthersStill(t) == \A u \in Threads \ {t} : /\ pc'[u] = pc[u] /\ job'[u] = job[u]
                                          /\ level'[u] = level[u] /\ owed'[u] = owed[u]

NobodyElseWrites(t) == \A u \in Threads \ {t} : pc[u] # "writefloor"

\* What is to be shown of the thread that moves.
LEMMA MoverKeeps ==
    ASSUME IInv, IInv', ThreadInv, Rises, NEW t \in Threads, OthersStill(t),
           received' = received, SameSeen \/ NobodyElseWrites(t),
           pc'[t] = "writefloor" =>
             /\ NobodyElseWrites(t)
             /\ level'[t] >= Seen(Home[t])'.price[job'[t].rid],
           pc'[t] \in {"get", "getexpiry", "getfloor"} =>
             db'.price[job'[t].rid] >= owed'[t],
           pc'[t] = "history" => level'[t] >= owed'[t],
           pc'[t] = "claim" => \E i \in DOMAIN received'[job'[t].rid] :
                                  received'[job'[t].rid][i] >= owed'[t]
    PROVE  ThreadInv'
<1>1. ASSUME NEW u \in Threads
      PROVE  /\ pc'[u] = "writefloor" => level'[u] >= Seen(Home[u])'.price[job'[u].rid]
             /\ pc'[u] \in {"get", "getexpiry", "getfloor"} =>
                  db'.price[job'[u].rid] >= owed'[u]
             /\ pc'[u] = "history" => level'[u] >= owed'[u]
             /\ pc'[u] = "claim" => \E i \in DOMAIN received'[job'[u].rid] :
                                      received'[job'[u].rid][i] >= owed'[u]
  <2>1. CASE u = t
    BY <2>1
  <2>2. CASE u # t
    <3>1. /\ pc'[u] = pc[u] /\ job'[u] = job[u] /\ level'[u] = level[u]
          /\ owed'[u] = owed[u]
          /\ pc[u] = "writefloor" => SameSeen
      BY <2>2 DEF OthersStill, NobodyElseWrites
    <3> QED BY <3>1, OthersKeep
  <2> QED BY <2>1, <2>2
<1>2. \A u, w \in Threads : pc'[u] = "writefloor" /\ pc'[w] = "writefloor" => u = w
  BY DEF ThreadInv, OthersStill, NobodyElseWrites
<1> QED BY <1>1, <1>2 DEF ThreadInv, ApprovedPaysTheQuote

\* self._lock, in the one process.
LEMMA NotLocked ==
    ASSUME SingleProcess, IInv, NEW t \in Threads, ~Locked(Home[t])
    PROVE  \A u \in Threads : pc[u] # "writefloor"
BY HomeAssumption DEF SingleProcess, Locked

LEMMA BeginFloor ==
    ASSUME SingleProcess, IInv, IInv', SeenInv, ThreadInv,
           NEW t \in Threads, NEW l \in {"get", "readfloor", "writeexpiry"},
           NEW j, NEW due, Begin(t, l, j, due),
           l = "get" => due = db.price[j.rid] /\ j.rid \in Requests
    PROVE  SeenInv' /\ ThreadInv' /\ Rises
<1>1. UNCHANGED <<file, received>>
  BY DEF Begin, world
<1>2. db' = db
  BY <1>1 DEF file
<1>3. Seen(Home[t]) \in Tables /\ Home[t] \in Processes /\ db \in Tables
  BY HomeAssumption, SeenApproved, Parts DEF FileInv
<1>4. \A r \in Requests : Seen(Home[t]).price[r] \in Nat /\ db.price[r] \in Nat
  BY <1>3 DEF Tables
<1>5. SeenInv' /\ Rises /\ SameSeen
  BY <1>1, <1>3, <1>4, FileSteps, Parts
<1>6. /\ OthersStill(t) /\ pc'[t] = l /\ job'[t] = j /\ owed'[t] = due
  BY Parts DEF Begin, Goto, OthersStill, LocalInv
<1> QED BY <1>1, <1>2, <1>4, <1>5, <1>6, MoverKeeps

\* The arguments of a call, and what its process sees.
LEMMA CallSees ==
    ASSUME IInv, NEW t \in Threads, pc[t] # "idle"
    PROVE  LET seen == Seen(Home[t]) IN
           /\ Home[t] \in Processes /\ job[t].rid \in Requests
           /\ seen \in Tables /\ db \in Tables
           /\ \A r \in Requests : seen.price[r] \in Nat /\ db.price[r] \in Nat
           /\ level[t] \in Nat /\ owed[t] \in Nat
           /\ WithExpiry(t) \in Tables /\ WithApproval(t) \in Tables
           /\ WithFloor(t) \in Tables
           /\ WithExpiry(t).price = seen.price /\ WithApproval(t).price = seen.price
           /\ \A r \in Requests : WithFloor(t).price[r]
                                    = IF r = job[t].rid THEN level[t] ELSE seen.price[r]
<1>1. /\ Home[t] \in Processes /\ job[t].rid \in Requests
      /\ Seen(Home[t]) \in Tables /\ db \in Tables
      /\ level[t] \in Nat /\ owed[t] \in Nat
  BY CallArguments, Written DEF IInv, TypeOK
<1>2. \A r \in Requests : Seen(Home[t]).price[r] \in Nat /\ db.price[r] \in Nat
  BY <1>1 DEF Tables
<1>3. WithExpiry(t) \in Tables /\ WithApproval(t) \in Tables /\ WithFloor(t) \in Tables
  BY Written
<1>4. /\ WithExpiry(t).price = Seen(Home[t]).price
      /\ WithApproval(t).price = Seen(Home[t]).price
  BY <1>1 DEF Tables, WithExpiry, WithApproval
<1>5. WithFloor(t).price = [Seen(Home[t]).price EXCEPT ![job[t].rid] = level[t]]
  BY <1>1 DEF Tables, WithFloor
<1>6. \A r \in Requests : WithFloor(t).price[r]
                           = IF r = job[t].rid THEN level[t] ELSE Seen(Home[t]).price[r]
  BY <1>1, <1>5 DEF Tables
<1> QED BY <1>1, <1>2, <1>3, <1>4, <1>6

\* A call that ends.
LEMMA ReplyFloor ==
    ASSUME IInv, IInv', ThreadInv, Rises, NEW t \in Threads, NEW a, Reply(t, a),
           SameSeen \/ NobodyElseWrites(t)
    PROVE  ThreadInv'
<1>1. OthersStill(t) /\ pc'[t] = "idle" /\ received' = received
  BY Parts DEF Reply, Goto, OthersStill, LocalInv, world
<1> QED BY <1>1, MoverKeeps

LEMMA EndsFloor ==
    ASSUME SingleProcess, IInv, IInv', SeenInv, ThreadInv, NEW t \in Threads,
           \/ CommitExpiryFails(t) \/ WriteFloor(t) \/ WriteFloorFails(t)
           \/ HistoryMiss(t) \/ HistoryFails(t)
           \/ Claim(t) \/ ClaimCommitFails(t)
           \/ WriteTimesOut(t) \/ ReadTimesOut(t) \/ WriteFails(t)
    PROVE  SeenInv' /\ ThreadInv' /\ Rises
<1>1. pc[t] # "idle" /\ \E a : Reply(t, a)
  BY DEF CommitExpiryFails, WriteFloor, WriteFloorFails, HistoryMiss, HistoryFails,
         Claim, ClaimCommitFails, WriteTimesOut, ReadTimesOut, WriteFails
<1>2. FileInv
  BY Parts
<1>3. CASE WriteFloor(t)
  <2>1. \A r \in Requests : /\ WithFloor(t).price[r] \in Nat
                            /\ WithFloor(t).price[r] >= Seen(Home[t]).price[r]
    BY <1>1, <1>3, CallSees DEF WriteFloor, ThreadInv
  <2>2. SeenInv' /\ Rises
    BY <1>1, <1>2, <1>3, <2>1, CallSees, FileSteps DEF WriteFloor
  <2>3. NobodyElseWrites(t)
    BY <1>3 DEF WriteFloor, ThreadInv, NobodyElseWrites
  <2> QED BY <1>1, <2>2, <2>3, ReplyFloor
<1>4. CASE Claim(t)
  <2>1. SeenInv' /\ Rises
    BY <1>1, <1>2, <1>4, CallSees, FileSteps DEF Claim
  <2>2. NobodyElseWrites(t)
    BY <1>4, NotLocked DEF Claim, NobodyElseWrites
  <2> QED BY <1>1, <2>1, <2>2, ReplyFloor
<1>5. CASE HistoryMiss(t) \/ HistoryFails(t)
  <2>1. SeenInv' /\ Rises /\ SameSeen
    BY <1>1, <1>2, <1>5, CallSees, FileSteps DEF HistoryMiss, HistoryFails
  <2> QED BY <1>1, <2>1, ReplyFloor
<1>6. CASE \/ CommitExpiryFails(t) \/ WriteFloorFails(t) \/ ClaimCommitFails(t)
           \/ WriteTimesOut(t) \/ ReadTimesOut(t)
  BY <1>1, <1>2, <1>6, CallSees, NeverBusy
     DEF CommitExpiryFails, WriteFloorFails, ClaimCommitFails, WriteTimesOut, ReadTimesOut
<1>7. CASE WriteFails(t)
  <2>1. SeenInv' /\ Rises /\ SameSeen
    BY <1>1, <1>2, <1>7, CallSees, FileSteps DEF WriteFails
  <2> QED BY <1>1, <2>1, ReplyFloor
<1> QED BY <1>3, <1>4, <1>5, <1>6, <1>7

LEMMA MovesFloor ==
    ASSUME SingleProcess, IInv, IInv', SeenInv, ThreadInv, NEW t \in Threads,
           InsertExpiry(t) \/ CommitExpiry(t) \/ HistoryHit(t) \/ ClaimRefused(t)
    PROVE  SeenInv' /\ ThreadInv' /\ Rises
<1>1. /\ pc[t] # "idle"
      /\ UNCHANGED <<job, level, answer, owed, approvals, world>>
  BY DEF InsertExpiry, CommitExpiry, HistoryHit, ClaimRefused, locals
<1>2. SeenInv' /\ Rises /\ SameSeen
  <2>1. CASE InsertExpiry(t)
    BY <1>1, <2>1, CallSees, FileSteps, Parts DEF InsertExpiry
  <2>2. CASE CommitExpiry(t)
    BY <1>1, <2>2, CallSees, FileSteps, Parts DEF CommitExpiry
  <2>3. CASE HistoryHit(t)
    BY <1>1, <2>3, CallSees, FileSteps, Parts DEF HistoryHit
  <2>4. CASE ClaimRefused(t)
    BY <1>1, <2>4, CallSees, FileSteps, Parts DEF ClaimRefused
  <2> QED BY <2>1, <2>2, <2>3, <2>4
<1>3. /\ OthersStill(t) /\ received' = received
      /\ pc'[t] \in {"commitexpiry", "readfloor", "claim", "getagain"}
  BY <1>1, Parts DEF InsertExpiry, CommitExpiry, HistoryHit, ClaimRefused, Goto,
     OthersStill, LocalInv, world
<1>4. ASSUME pc'[t] = "claim"
      PROVE  \E i \in DOMAIN received'[job'[t].rid] : received'[job'[t].rid][i] >= owed'[t]
  <2>1. HistoryHit(t)
    BY <1>4, Parts DEF InsertExpiry, CommitExpiry, ClaimRefused, Goto, LocalInv
  <2>2. level[t] >= owed[t] /\ level[t] \in Nat /\ owed[t] \in Nat
    BY <1>1, <2>1, CallSees DEF HistoryHit, ThreadInv
  <2>3. job[t].rid \in Requests /\ received[job[t].rid] \in Seq(Prices)
    BY <1>1, CallSees, Parts DEF WorldInv
  <2>4. PICK i \in DOMAIN received[job[t].rid] : received[job[t].rid][i] >= level[t]
    BY <2>1 DEF HistoryHit, Matching, Recent
  <2>5. received[job[t].rid][i] \in Nat
    <3>1. received[job[t].rid][i] \in Prices
      BY <2>3, <2>4
    <3> QED BY <3>1, PricesAssumption
  <2>6. received[job[t].rid][i] >= owed[t]
    BY <2>2, <2>4, <2>5
  <2> QED BY <1>1, <1>3, <2>6
<1> QED BY <1>2, <1>3, <1>4, MoverKeeps

LEMMA ReadsFloor ==
    ASSUME SingleProcess, IInv, IInv', SeenInv, ThreadInv, NEW t \in Threads,
           Get(t) \/ GetExpiry(t) \/ ReadFloor(t) \/ GetFloor(t)
    PROVE  SeenInv' /\ ThreadInv' /\ Rises
<1>1. pc[t] # "idle" /\ Select(Home[t])
  BY DEF Get, GetExpiry, ReadFloor, GetFloor
<1>2. SeenInv' /\ Rises /\ SameSeen /\ db' = db
  <2>1. SeenInv' /\ Rises /\ SameSeen
    BY <1>1, CallSees, FileSteps, Parts
  <2> QED BY <1>1, <2>1 DEF Select
<1>3. CASE Get(t) \/ GetExpiry(t)
  <2>1. CASE \E a : Reply(t, a)
    BY <1>2, <2>1, ReplyFloor
  <2>2. CASE ~\E a : Reply(t, a)
    <3>1. /\ pc[t] \in {"get", "getexpiry"}
          /\ Goto(t, "getexpiry") \/ Goto(t, "getfloor")
          /\ UNCHANGED <<job, level, answer, owed, world>>
      BY <1>3, <2>2 DEF Get, GetExpiry
    <3>2. /\ OthersStill(t) /\ received' = received
          /\ pc'[t] \in {"getexpiry", "getfloor"}
      BY <3>1, Parts DEF Goto, OthersStill, LocalInv, world
    <3>3. db'.price[job'[t].rid] >= owed'[t]
      BY <1>2, <3>1 DEF ThreadInv
    <3> QED BY <1>2, <3>2, <3>3, MoverKeeps
  <2> QED BY <2>1, <2>2
<1>4. CASE ReadFloor(t) \/ GetFloor(t)
  <2> DEFINE recorded == Seen(Home[t]).price[job[t].rid]
  <2>1. /\ UNCHANGED <<job, answer, owed, world>>
        /\ level' = [level EXCEPT ![t] = IF recorded > @ THEN recorded ELSE @]
    BY <1>4 DEF ReadFloor, GetFloor
  <2>2. /\ recorded \in Nat /\ db.price[job[t].rid] \in Nat
        /\ recorded >= db.price[job[t].rid]
        /\ level[t] \in Nat /\ owed[t] \in Nat
    BY <1>1, CallSees DEF SeenInv
  <2>3. OthersStill(t) /\ received' = received /\ level'[t] >= recorded
    <3> HIDE DEF recorded
    <3> QED BY <1>4, <2>1, <2>2, Parts DEF ReadFloor, GetFloor, Goto, OthersStill,
               LocalInv, world
  <2>4. CASE ReadFloor(t)
    <3>1. pc'[t] = "writefloor" /\ NobodyElseWrites(t)
      BY <2>4, NotLocked, Parts DEF ReadFloor, Goto, NobodyElseWrites, LocalInv
    <3>2. Seen(Home[t])'.price[job'[t].rid] = recorded
      BY <1>1, <1>2, <2>1, CallSees DEF SameSeen
    <3> QED BY <1>2, <2>3, <3>1, <3>2, MoverKeeps
  <2>5. CASE GetFloor(t)
    <3>1. pc[t] = "getfloor" /\ pc'[t] = "history"
      BY <2>5, Parts DEF GetFloor, Goto, LocalInv
    <3>2. db.price[job[t].rid] >= owed[t]
      BY <3>1 DEF ThreadInv
    <3>3. level'[t] \in Nat
      BY DEF IInv, TypeOK
    <3>4. level'[t] >= owed'[t]
      <4>1. owed'[t] = owed[t]
        BY <2>1
      <4> HIDE DEF recorded
      <4> QED BY <2>2, <2>3, <3>2, <3>3, <4>1
    <3> QED BY <1>2, <2>3, <3>1, <3>4, MoverKeeps
  <2> QED BY <1>4, <2>4, <2>5
<1> QED BY <1>3, <1>4

LEMMA RestartFloor ==
    ASSUME SingleProcess, IInv, IInv', SeenInv, ThreadInv, NEW p \in Processes, Restart(p)
    PROVE  SeenInv' /\ ThreadInv' /\ Rises
<1>1. \A t \in Threads : pc'[t] = "idle"
  BY HomeAssumption DEF Restart, SingleProcess
<1>2. Seen(p) \in Tables
  BY SeenApproved, Parts
<1>3. SeenInv' /\ Rises
  <2>1. \A r \in Requests : Seen(p).price[r] \in Nat
    BY <1>2 DEF Tables
  <2> QED BY <1>2, <2>1, FileSteps, Parts DEF Restart
<1> QED BY <1>1, <1>3 DEF ThreadInv, ApprovedPaysTheQuote

LEMMA WorldFloor ==
    ASSUME SingleProcess, IInv, IInv', SeenInv, ThreadInv,
           UNCHANGED <<file, pc, locals>>,
           \A r \in Requests, n \in Nat :
             (\E i \in DOMAIN received[r] : received[r][i] >= n) =>
               (\E i \in DOMAIN received'[r] : received'[r][i] >= n)
    PROVE  SeenInv' /\ ThreadInv' /\ Rises
<1>1. db \in Tables /\ db' = db
  BY Parts DEF FileInv, file
<1>2. Rises
  BY <1>1 DEF Rises, Tables
<1>3. \A p \in Processes : Seen(p)' = Seen(p)
  BY DEF Seen, Holds, file
<1>4. SeenInv'
  BY <1>1, <1>3 DEF SeenInv
<1>5. ASSUME NEW t \in Threads, pc'[t] = "claim"
      PROVE  \E i \in DOMAIN received'[job'[t].rid] : received'[job'[t].rid][i] >= owed'[t]
  <2>1. pc[t] = "claim" /\ job'[t] = job[t] /\ owed'[t] = owed[t]
    BY <1>5 DEF locals
  <2>2. job[t].rid \in Requests /\ owed[t] \in Nat
    BY <2>1, CallSees
  <2> QED BY <2>1, <2>2 DEF ThreadInv, ApprovedPaysTheQuote
<1>6. ThreadInv'
  <2>1. \A t \in Threads : Seen(Home[t])' = Seen(Home[t])
    BY <1>3, HomeAssumption
  <2> QED BY <1>1, <1>5, <2>1 DEF ThreadInv, ApprovedPaysTheQuote, locals
<1> QED BY <1>2, <1>4, <1>6

LEMMA FloorStep ==
    ASSUME SingleProcess, IInv, FloorInv, [Next]_vars
    PROVE  FloorInv' /\ Rises
<1>1. IInv' /\ SeenInv /\ ThreadInv
  BY NextInv, FloorParts
<1>2. ASSUME NEW t \in Threads, Step(t) \/ WriteFails(t)
      PROVE  SeenInv' /\ ThreadInv' /\ Rises
  BY <1>1, <1>2, EndsFloor, MovesFloor, ReadsFloor DEF Step
<1>3. ASSUME NEW t \in Threads, NEW r \in Requests, NEW a \in Prices,
             Quote(t, r, a) \/ Verify(t, r, a)
      PROVE  SeenInv' /\ ThreadInv' /\ Rises
  BY <1>1, <1>3, BeginFloor DEF Quote, Verify, RawJob
<1>4. ASSUME NEW t \in Threads, NEW r \in Requests, NEW usd, NEW rateTwice,
             QuoteUsd(t, r, usd, rateTwice)
      PROVE  SeenInv' /\ ThreadInv' /\ Rises
  BY <1>1, <1>4, BeginFloor DEF QuoteUsd
<1>5. CASE Tick \/ UNCHANGED vars
  <2>1. UNCHANGED <<file, pc, locals, received>>
    BY <1>5 DEF Tick, vars, locals
  <2>2. UNCHANGED <<file, pc, locals>> /\ received' = received
    BY <2>1
  <2> QED BY <1>1, <2>2, WorldFloor, FloorParts
<1>6. ASSUME NEW r \in Requests, NEW a \in Prices, Pocket(r, a)
      PROVE  SeenInv' /\ ThreadInv' /\ Rises
  <2>1. \A q \in Requests : received[q] \in Seq(Prices)
    BY Parts DEF WorldInv
  <2>2. \A q \in Requests : \A i \in DOMAIN received[q] :
          i \in DOMAIN received'[q] /\ received'[q][i] = received[q][i]
    BY <1>6, <2>1, Parts DEF Pocket, WorldInv
  <2>3. UNCHANGED <<file, pc, locals>>
    BY <1>6 DEF Pocket
  <2> QED BY <1>1, <2>2, <2>3, WorldFloor
<1> QED BY <1>1, <1>2, <1>3, <1>4, <1>5, <1>6, RestartFloor, FloorParts DEF Next

\* The floor of a request never falls, however the threads of the process quote
\* and verify: ApprovalStore.record_quote_price.
THEOREM FloorOnlyRises ==
    ASSUME SingleProcess
    PROVE  Spec => []FloorInv /\ FloorNeverLowered
<1>1. Init => FloorInv
  BY HomeAssumption DEF Init, FileInit, FloorInv, ApprovedPaysTheQuote, Seen, Holds,
     EmptyTables
<1>2. IInv /\ FloorInv /\ [Next]_vars => FloorInv'
  BY FloorStep
<1>3. IInv /\ FloorInv /\ [Next]_vars =>
        [\A r \in Requests : db'.price[r] >= db.price[r]]_vars
  BY FloorStep DEF Rises
<1> QED BY <1>1, <1>2, <1>3, Invariance, PTL DEF Spec, FloorNeverLowered

\* In one process, nothing is approved that has not received what was on record
\* when its verification began: PaymentService.verify_payment.
THEOREM PaysTheQuote ==
    ASSUME SingleProcess
    PROVE  Spec => []ApprovedPaysTheQuote
<1>1. FloorInv => ApprovedPaysTheQuote
  BY DEF FloorInv
<1> QED BY <1>1, FloorOnlyRises, PTL

-----------------------------------------------------------------------------
(* What is said to be spent is spent on disk, unless the commit of a claim     *)
(* fails on a lock.                                                        *)

\* A connection sees the approvals on disk and no others, and a verification
\* that lost the claim lost it to one of them.
SeenOnDisk == \A p \in Processes : Seen(p).approved = db.approved
LostToDisk == \A t \in Threads : pc[t] = "getagain" => job[t].rid \in db.approved

ClaimsCommit == \A t \in Threads : ~ClaimCommitFails(t)

LEMMA DiskSteps ==
    ASSUME FileInv, SeenOnDisk, NEW p \in Processes, NEW new \in Tables
    PROVE  /\ Select(p) => SeenOnDisk'
           /\ Insert(p, new) /\ new.approved = Seen(p).approved => SeenOnDisk'
           /\ Commit(p) => SeenOnDisk'
           /\ InsertCommit(p, new) => SeenOnDisk'
           /\ CommitBusy(p, new) /\ new.approved = Seen(p).approved => SeenOnDisk'
           /\ InsertBusy(p) => SeenOnDisk'
           /\ UNCHANGED file => SeenOnDisk'
           /\ Rollback(p) => SeenOnDisk'
<1>1. \A q \in Processes \ {p} : Holds(p) => ~Holds(q)
  BY DEF FileInv, WriterInv
<1>2. Select(p) => SeenOnDisk'
  BY DEF Select, SeenOnDisk, Seen, Holds, FileInv
<1>3. Insert(p, new) /\ new.approved = Seen(p).approved => SeenOnDisk'
  BY DEF Insert, CanWrite, SeenOnDisk, Seen, Holds, FileInv
<1>4. Commit(p) => SeenOnDisk'
  BY <1>1 DEF Commit, SeenOnDisk, Seen, Holds, FileInv
<1>5. InsertCommit(p, new) => SeenOnDisk'
  BY DEF InsertCommit, CanWrite, SeenOnDisk, Seen, Holds, FileInv
<1>6. CommitBusy(p, new) /\ new.approved = Seen(p).approved => SeenOnDisk'
  BY <1>1 DEF CommitBusy, CanWrite, SeenOnDisk, Seen, Holds, FileInv
<1>7. InsertBusy(p) => SeenOnDisk'
  BY DEF InsertBusy, SeenOnDisk, Seen, Holds, FileInv
<1>8. UNCHANGED file => SeenOnDisk'
  BY DEF file, SeenOnDisk, Seen, Holds, FileInv
<1>9. Rollback(p) => SeenOnDisk'
  BY <1>1 DEF Rollback, SeenOnDisk, Seen, Holds, FileInv
<1> QED BY <1>2, <1>3, <1>4, <1>5, <1>6, <1>7, <1>8, <1>9

\* An approval on disk stays there.
LEMMA ApprovalsStay == IInv /\ [Next]_vars => Keeps
<1> SUFFICES ASSUME IInv, [Next]_vars PROVE Keeps
  OBVIOUS
<1> USE Parts
<1>1. ASSUME NEW t \in Threads, Step(t) PROVE Keeps
  <2>1. pc[t] # "idle"
    BY <1>1 DEF Step, InsertExpiry, CommitExpiry, CommitExpiryFails, ReadFloor,
       WriteFloor, WriteFloorFails, Get, GetExpiry, GetFloor, HistoryHit, HistoryMiss,
       HistoryFails, Claim, ClaimCommitFails, ClaimRefused, WriteTimesOut, ReadTimesOut
  <2>2. Home[t] \in Processes
    BY <2>1, CallArguments
  <2>3. CASE CommitExpiry(t)
    BY <2>2, <2>3, CommitKeeps DEF CommitExpiry
  <2>4. CASE WriteFloor(t) \/ Claim(t)
    BY <2>1, <2>2, <2>4, Written, InsertCommitKeeps DEF WriteFloor, Claim
  <2>5. CASE ~(CommitExpiry(t) \/ WriteFloor(t) \/ Claim(t))
    BY <1>1, <2>5 DEF Keeps, Step, InsertExpiry, CommitExpiryFails, ReadFloor,
       WriteFloorFails, Get, GetExpiry, GetFloor, HistoryHit, HistoryMiss, HistoryFails,
       ClaimCommitFails, ClaimRefused, WriteTimesOut, ReadTimesOut, Select, Insert,
       CommitBusy, InsertBusy, file
  <2> QED BY <2>3, <2>4, <2>5
<1> QED BY <1>1 DEF Next, WriteFails, Quote, QuoteUsd, Verify, Begin, Restart, Rollback,
           Tick, Pocket, vars, file, Keeps

\* Every step is one statement on the file.
LEMMA StepOnDisk ==
    ASSUME IInv, SeenOnDisk, NEW t \in Threads, Step(t) \/ WriteFails(t),
           ~ClaimCommitFails(t)
    PROVE  SeenOnDisk'
<1>1. pc[t] # "idle"
  BY DEF Step, InsertExpiry, CommitExpiry, CommitExpiryFails, ReadFloor, WriteFloor,
         WriteFloorFails, Get, GetExpiry, GetFloor, HistoryHit, HistoryMiss,
         HistoryFails, Claim, ClaimCommitFails, ClaimRefused, WriteTimesOut,
         ReadTimesOut, WriteFails
<1> DEFINE p == Home[t]
           seen == Seen(p)
<1>2. FileInv /\ p \in Processes
  BY <1>1, CallArguments, Parts
<1>3. /\ seen \in Tables /\ WithExpiry(t) \in Tables /\ WithFloor(t) \in Tables
      /\ WithApproval(t) \in Tables
      /\ WithExpiry(t).approved = seen.approved /\ WithFloor(t).approved = seen.approved
  BY <1>1, Written
<1> HIDE DEF p
<1>4. Select(p) \/ Commit(p) \/ InsertBusy(p) \/ Rollback(p) \/ UNCHANGED file
        => SeenOnDisk'
  BY <1>2, <1>3, DiskSteps
<1>5. CASE InsertExpiry(t) \/ ClaimRefused(t)
  BY <1>2, <1>3, <1>5, DiskSteps DEF InsertExpiry, ClaimRefused, p
<1>6. CASE WriteFloor(t) \/ Claim(t)
  BY <1>2, <1>3, <1>6, DiskSteps DEF WriteFloor, Claim, p
<1>7. CASE CommitExpiryFails(t) \/ WriteFloorFails(t)
  BY <1>2, <1>3, <1>7, DiskSteps DEF CommitExpiryFails, WriteFloorFails, p
<1>8. CASE \/ CommitExpiry(t) \/ ReadFloor(t) \/ Get(t) \/ GetExpiry(t) \/ GetFloor(t)
           \/ HistoryHit(t) \/ HistoryMiss(t) \/ HistoryFails(t)
           \/ WriteTimesOut(t) \/ ReadTimesOut(t) \/ WriteFails(t)
  BY <1>4, <1>8 DEF CommitExpiry, ReadFloor, Get, GetExpiry, GetFloor, HistoryHit,
     HistoryMiss, HistoryFails, WriteTimesOut, ReadTimesOut, WriteFails, p
<1> QED BY <1>5, <1>6, <1>7, <1>8 DEF Step

\* Who looks again has lost a claim, now or before.
LEMMA LooksAgain ==
    ASSUME IInv, [Next]_vars, NEW u \in Threads, pc'[u] = "getagain"
    PROVE  ClaimRefused(u) \/ (pc[u] = "getagain" /\ job'[u] = job[u])
<1> USE DEF Goto, Reply
<1>1. pc \in [Threads -> PCs] /\ job \in [Threads -> Jobs \cup {None}]
  BY DEF IInv, TypeOK, PCs
<1>2. ASSUME NEW t \in Threads, Step(t) \/ WriteFails(t)
      PROVE  ClaimRefused(u) \/ (pc[u] = "getagain" /\ job'[u] = job[u])
  BY <1>1, <1>2 DEF Step, InsertExpiry, CommitExpiry, CommitExpiryFails, ReadFloor,
     WriteFloor, WriteFloorFails, Get, GetExpiry, GetFloor, HistoryHit, HistoryMiss,
     HistoryFails, Claim, ClaimCommitFails, ClaimRefused, WriteTimesOut, ReadTimesOut,
     WriteFails, locals
<1>3. ASSUME NEW t \in Threads, NEW l \in PCs \ {"getagain"}, NEW j, NEW due,
             Begin(t, l, j, due)
      PROVE  pc[u] = "getagain" /\ job'[u] = job[u]
  BY <1>1, <1>3 DEF Begin
<1>4. ASSUME NEW t \in Threads, NEW r \in Requests, NEW a \in Prices,
             Quote(t, r, a) \/ Verify(t, r, a)
      PROVE  pc[u] = "getagain" /\ job'[u] = job[u]
  BY <1>3, <1>4 DEF Quote, Verify, PCs
<1>5. ASSUME NEW t \in Threads, NEW r \in Requests, NEW usd, NEW rateTwice,
             QuoteUsd(t, r, usd, rateTwice)
      PROVE  pc[u] = "getagain" /\ job'[u] = job[u]
  BY <1>3, <1>5 DEF QuoteUsd, PCs
<1>6. ASSUME \/ \E p \in Processes : Restart(p)
             \/ Tick \/ UNCHANGED vars
             \/ \E r \in Requests, a \in Prices : Pocket(r, a)
      PROVE  pc[u] = "getagain" /\ job'[u] = job[u]
  BY <1>6 DEF Restart, Tick, vars, Pocket, locals
<1> QED BY <1>2, <1>4, <1>5, <1>6 DEF Next

LEMMA SpentStep ==
    ASSUME IInv, SeenOnDisk, LostToDisk, [Next]_vars, [ClaimsCommit]_vars
    PROVE  SeenOnDisk' /\ LostToDisk'
<1>1. FileInv /\ IInv'
  BY NextInv, Parts
<1>2. SeenOnDisk'
  <2>1. EmptyTables \in Tables
    BY DEF EmptyTables, Tables
  <2>2. \A p \in Processes : Rollback(p) => SeenOnDisk'
    BY <1>1, <2>1, DiskSteps
  <2>3. UNCHANGED file => SeenOnDisk'
    BY DEF file, SeenOnDisk, Seen, Holds
  <2>4. CASE UNCHANGED vars
    BY <2>3, <2>4 DEF vars
  <2>5. CASE Next /\ ClaimsCommit
    BY <2>2, <2>3, <2>5, StepOnDisk DEF Next, ClaimsCommit, Quote, QuoteUsd, Verify,
       Begin, Restart, Tick, Pocket
  <2> QED BY <2>4, <2>5
<1>3. LostToDisk'
  <2> SUFFICES ASSUME NEW u \in Threads, pc'[u] = "getagain"
               PROVE  job'[u].rid \in db'.approved
    BY DEF LostToDisk
  <2>1. CASE ClaimRefused(u)
    <3>1. job'[u] = job[u] /\ db' = db /\ job[u].rid \in Seen(Home[u]).approved
      BY <2>1 DEF ClaimRefused, AlreadyApproved, Insert, locals
    <3> QED BY <3>1, HomeAssumption DEF SeenOnDisk
  <2>2. CASE pc[u] = "getagain" /\ job'[u] = job[u]
    BY <2>2, ApprovalsStay DEF LostToDisk, Keeps
  <2> QED BY <2>1, <2>2, LooksAgain
<1> QED BY <1>2, <1>3

\* "spent" is said only of a request whose approval is on disk, by any thread of
\* any process, whatever write is refused a lock, fails on the disk or is rolled
\* back between any two steps: but for the commit of a claim (ApprovalStore.claim),
\* the one write that must not fail on a lock, and in PaySpentUnsaved does.
THEOREM SpentIsOnDisk ==
    Spec /\ [][ClaimsCommit]_vars => SpentMeansApproved
<1>1. Init => SeenOnDisk /\ LostToDisk
  BY DEF Init, FileInit, SeenOnDisk, LostToDisk, Seen, Holds
<1>2. ASSUME IInv, SeenOnDisk, LostToDisk, Next,
             NEW t \in Threads, Answers(t, "spent")
      PROVE  job[t].rid \in db.approved
  <2>1. answer[t] = "none" /\ answer'[t] = "spent"
    BY <1>2 DEF Answers
  <2>2. PICK u \in Threads : Step(u) \/ WriteFails(u)
    BY <1>2, <2>1 DEF Next, Quote, QuoteUsd, Verify, Begin, Restart, Tick, Pocket, locals
  <2>3. Get(u)
    <3>1. ~(InsertExpiry(u) \/ CommitExpiry(u) \/ CommitExpiryFails(u)
              \/ ReadFloor(u) \/ WriteFloor(u) \/ WriteFloorFails(u))
      BY <2>1 DEF InsertExpiry, CommitExpiry, CommitExpiryFails, ReadFloor,
         WriteFloor, WriteFloorFails, Reply, locals
    <3>2. ~(GetExpiry(u) \/ GetFloor(u)
              \/ HistoryHit(u) \/ HistoryMiss(u) \/ HistoryFails(u))
      BY <2>1 DEF GetExpiry, GetFloor, HistoryHit, HistoryMiss, HistoryFails,
         Reply, locals
    <3>3. ~(Claim(u) \/ ClaimCommitFails(u) \/ ClaimRefused(u)
              \/ WriteTimesOut(u) \/ ReadTimesOut(u) \/ WriteFails(u))
      BY <2>1 DEF Claim, ClaimCommitFails, ClaimRefused, WriteTimesOut,
         ReadTimesOut, WriteFails, Reply, locals
    <3> QED BY <2>2, <3>1, <3>2, <3>3 DEF Step
  <2>4. /\ u = t
        /\ pc[t] = "getagain" \/ job[t].rid \in Seen(Home[t]).approved
    BY <2>1, <2>3 DEF Get, Reply
  <2> QED BY <1>2, <2>4, HomeAssumption DEF SeenOnDisk, LostToDisk
<1>3. IInv /\ SeenOnDisk /\ LostToDisk /\ [Next]_vars =>
        [\A t \in Threads : Answers(t, "spent") => job[t].rid \in db.approved]_vars
  BY <1>2
<1>4. IInv /\ SeenOnDisk /\ LostToDisk /\ [Next]_vars /\ [ClaimsCommit]_vars =>
        SeenOnDisk' /\ LostToDisk'
  BY SpentStep
<1> QED BY <1>1, <1>3, <1>4, Invariance, PTL DEF Spec, SpentMeansApproved

\* One process alone never fails a claim's commit on a lock, so that there it
\* holds as it stands: ApprovalStore.get and claim, as verify_payment calls them.
THEOREM SpentInOneProcess ==
    ASSUME SingleProcess
    PROVE  Spec => SpentMeansApproved
<1>1. ASSUME IInv, NEW t \in Threads PROVE ~ClaimCommitFails(t)
  BY <1>1, HomeAssumption, NeverBusy, Parts DEF ClaimCommitFails
<1>2. IInv => [ClaimsCommit]_vars
  BY <1>1 DEF ClaimsCommit
<1> QED BY <1>2, Invariance, SpentIsOnDisk, PTL

=============================================================================
