-------------------------- MODULE ClaimStoreProofs --------------------------
(***************************************************************************)
(* Proofs about ClaimStore: IInv is inductive, and with the releases kept  *)
(* apart the store implements SingleUse.                                   *)
(***************************************************************************)
EXTENDS ClaimStore, TLAPS

(* _canonical_key keeps the binding, and is idempotent.                    *)
LEMMA CanonicalKey ==
  ASSUME NEW k \in Keys
  PROVE  /\ Canonical(k) \in Keys
         /\ Canonical(k).binding = k.binding
         /\ Canonical(k).spelling = Upper
         /\ Canonical(k) = k <=> k.spelling = Upper
         /\ Canonical(Canonical(k)) = Canonical(k)
BY UpperAssumption DEF Canonical, Keys

(* Two keys have one canonical key exactly when they name one binding.     *)
LEMMA CanonicalSame ==
  ASSUME NEW j \in Keys, NEW k \in Keys
  PROVE  Canonical(j) = Canonical(k) <=> j.binding = k.binding
BY UpperAssumption DEF Canonical, Keys

-----------------------------------------------------------------------------
(* One lemma per action: it preserves every conjunct of IInv.              *)

(* The file is opened: only that handle's release, pending and pc change.  *)
LEMMA OpenKeeps ==
  ASSUME IInv, NEW h \in Handles, Open(h)
  PROVE  IInv'
<1>. USE NoHandleAssumption, NoCallAssumption, CanonicalKey
     DEF IInv, TypeOK, Open, store, ghosts
<1>1. TypeOK'
  <2>1. /\ release' \in [Handles -> {"down", "new", "old"}]
        /\ pending' \in [Handles -> BOOLEAN]
    OBVIOUS
  <2>2. pc' \in [Handles -> {"idle", "check", "migrate", "migrating",
                            "claim", "claiming"}]
    OBVIOUS
  <2>3. UNCHANGED <<rows, writer, txn, call, wins, settled>>
    OBVIOUS
  <2>. QED  BY <2>1, <2>2, <2>3
<1>2. LockInv'
  BY DEF LockInv, CallInv
<1>3. CallInv'
  BY DEF CallInv
<1>4. TxnInv'
  BY DEF LockInv, CallInv, TxnInv, Spent, HeldUnderOldSpelling, Unmigrated
<1>5. SettledInv'
  BY DEF SettledInv
<1>6. (~MixedReleases => MigratedInv)'
  BY DEF TxnInv, CallInv, LockInv, MigratedInv, Unmigrated
<1>. QED  BY <1>1, <1>2, <1>3, <1>4, <1>5, <1>6

(* OldOpen preserves the inductive invariant.                              *)
LEMMA OldOpenKeeps ==
  ASSUME IInv, NEW h \in Handles, OldOpen(h)
  PROVE  IInv'
<1>. USE NoHandleAssumption, NoCallAssumption, CanonicalKey
     DEF IInv, TypeOK, OldOpen, store, ghosts
<1>1. TypeOK'
  OBVIOUS
<1>2. LockInv'
  BY DEF LockInv
<1>3. CallInv'
  BY DEF CallInv
<1>4. TxnInv'
  BY DEF LockInv, CallInv, TxnInv, Spent, HeldUnderOldSpelling, Unmigrated
<1>5. SettledInv'
  BY DEF SettledInv
<1>6. (~MixedReleases => MigratedInv)'
  BY DEF TxnInv, CallInv, LockInv, MigratedInv, Unmigrated
<1>. QED  BY <1>1, <1>2, <1>3, <1>4, <1>5, <1>6

(* The read-only look may end the migration: only when there is nothing    *)
(* left to do.                                                             *)
LEMMA CheckMigrationKeeps ==
  ASSUME IInv, NEW h \in Handles, CheckMigration(h)
  PROVE  IInv'
<1>. USE NoHandleAssumption, NoCallAssumption, CanonicalKey
     DEF IInv, TypeOK, CheckMigration, store, ghosts, AfterMigration
<1>1. TypeOK'
  OBVIOUS
<1>2. LockInv'
  BY DEF LockInv
<1>3. CallInv'
  BY DEF CallInv
<1>4. TxnInv'
  BY DEF LockInv, CallInv, TxnInv, Spent, HeldUnderOldSpelling, Unmigrated
<1>5. SettledInv'
  BY DEF SettledInv
<1>6. (~MixedReleases => MigratedInv)'
  BY DEF TxnInv, CallInv, LockInv, MigratedInv, Unmigrated
<1>. QED  BY <1>1, <1>2, <1>3, <1>4, <1>5, <1>6

(* Migrate preserves the inductive invariant.                              *)
LEMMA MigrateKeeps ==
  ASSUME IInv, NEW h \in Handles, Migrate(h)
  PROVE  IInv'
<1>. USE NoHandleAssumption, NoCallAssumption, CanonicalKey
     DEF IInv, TypeOK, Migrate, ghosts
<1>1. TypeOK'
  BY DEF CallInv, Unmigrated
<1>2. LockInv'
  BY DEF LockInv
<1>3. CallInv'
  BY DEF CallInv
<1>4. TxnInv'
  BY DEF LockInv, CallInv, TxnInv, Spent, HeldUnderOldSpelling, Unmigrated
<1>5. SettledInv'
  BY DEF SettledInv
<1>6. (~MixedReleases => MigratedInv)'
  BY DEF TxnInv, CallInv, LockInv, MigratedInv, Unmigrated
<1>. QED  BY <1>1, <1>2, <1>3, <1>4, <1>5, <1>6

(* The canonical copies are committed: nothing is left to migrate.         *)
LEMMA CommitMigrationKeeps ==
  ASSUME IInv, NEW h \in Handles, CommitMigration(h)
  PROVE  IInv'
<1>. USE NoHandleAssumption, NoCallAssumption, CanonicalKey
     DEF IInv, TypeOK, CommitMigration, ghosts, AfterMigration
<1>1. TypeOK'
  OBVIOUS
<1>2. LockInv'
  BY DEF LockInv
<1>3. CallInv'
  BY DEF CallInv
<1>4. TxnInv'
  BY DEF LockInv, CallInv, TxnInv, Spent, HeldUnderOldSpelling, Unmigrated
<1>5. SettledInv'
  BY DEF SettledInv
<1>6. (~MixedReleases => MigratedInv)'
  BY DEF TxnInv, CallInv, LockInv, MigratedInv, Unmigrated
<1>. QED  BY <1>1, <1>2, <1>3, <1>4, <1>5, <1>6

(* SkipMigration preserves the inductive invariant.                        *)
LEMMA SkipMigrationKeeps ==
  ASSUME IInv, NEW h \in Handles, SkipMigration(h)
  PROVE  IInv'
<1>. USE NoHandleAssumption, NoCallAssumption, CanonicalKey
     DEF IInv, TypeOK, SkipMigration, ghosts, Rollback, AfterMigration
<1>1. TypeOK'
  OBVIOUS
<1>2. LockInv'
  BY DEF LockInv
<1>3. CallInv'
  BY DEF CallInv
<1>4. TxnInv'
  BY DEF LockInv, CallInv, TxnInv, Spent, HeldUnderOldSpelling, Unmigrated
<1>5. SettledInv'
  BY DEF SettledInv
<1>6. (~MixedReleases => MigratedInv)'
  BY DEF TxnInv, CallInv, LockInv, MigratedInv, Unmigrated
<1>. QED  BY <1>1, <1>2, <1>3, <1>4, <1>5, <1>6

(* Call preserves the inductive invariant.                                 *)
LEMMA CallKeeps ==
  ASSUME IInv, NEW h \in Handles, NEW k \in Keys, Call(h,k)
  PROVE  IInv'
<1>. USE NoHandleAssumption, NoCallAssumption, CanonicalKey
     DEF IInv, TypeOK, Call, store, ghosts
<1>1. TypeOK'
  OBVIOUS
<1>2. LockInv'
  BY DEF LockInv
<1>3. CallInv'
  BY DEF CallInv
<1>4. TxnInv'
  BY DEF LockInv, CallInv, TxnInv, Spent, HeldUnderOldSpelling, Unmigrated
<1>5. SettledInv'
  BY DEF SettledInv
<1>6. (~MixedReleases => MigratedInv)'
  BY DEF TxnInv, CallInv, LockInv, MigratedInv, Unmigrated
<1>. QED  BY <1>1, <1>2, <1>3, <1>4, <1>5, <1>6

(* OldCall preserves the inductive invariant.                              *)
LEMMA OldCallKeeps ==
  ASSUME IInv, NEW h \in Handles, NEW k \in Keys, OldCall(h,k)
  PROVE  IInv'
<1>. USE NoHandleAssumption, NoCallAssumption, CanonicalKey
     DEF IInv, TypeOK, OldCall, store, ghosts
<1>1. TypeOK'
  OBVIOUS
<1>2. LockInv'
  BY DEF LockInv
<1>3. CallInv'
  BY DEF CallInv
<1>4. TxnInv'
  BY DEF LockInv, CallInv, TxnInv, Spent, HeldUnderOldSpelling, Unmigrated
<1>5. SettledInv'
  BY DEF SettledInv
<1>6. (~MixedReleases => MigratedInv)'
  BY DEF TxnInv, CallInv, LockInv, MigratedInv, Unmigrated
<1>. QED  BY <1>1, <1>2, <1>3, <1>4, <1>5, <1>6

(* Refuse preserves the inductive invariant.                               *)
LEMMA RefuseKeeps ==
  ASSUME IInv, NEW h \in Handles, Refuse(h)
  PROVE  IInv'
<1>. USE NoHandleAssumption, NoCallAssumption, CanonicalKey
     DEF IInv, TypeOK, Refuse, ghosts, Rollback, Answer
<1>1. TypeOK'
  OBVIOUS
<1>2. LockInv'
  BY DEF LockInv
<1>3. CallInv'
  BY DEF CallInv
<1>4. TxnInv'
  BY DEF LockInv, CallInv, TxnInv, Spent, HeldUnderOldSpelling, Unmigrated
<1>5. SettledInv'
  BY DEF SettledInv
<1>6. (~MixedReleases => MigratedInv)'
  BY DEF TxnInv, CallInv, LockInv, MigratedInv, Unmigrated
<1>. QED  BY <1>1, <1>2, <1>3, <1>4, <1>5, <1>6

(* The lookups of this release and its INSERT are one transaction, so      *)
(* ~Spent holds at its COMMIT.                                             *)
LEMMA InsertKeeps ==
  ASSUME IInv, NEW h \in Handles, Insert(h)
  PROVE  IInv'
<1>. USE NoHandleAssumption, NoCallAssumption, CanonicalKey
     DEF IInv, TypeOK, Insert, ghosts
<1>1. TypeOK'
  BY DEF CallInv, Unmigrated
<1>2. LockInv'
  BY DEF LockInv
<1>3. CallInv'
  BY DEF CallInv
<1>4. TxnInv'
  BY DEF LockInv, CallInv, TxnInv, Spent, HeldUnderOldSpelling, Unmigrated
<1>5. SettledInv'
  BY DEF SettledInv
<1>6. (~MixedReleases => MigratedInv)'
  BY DEF TxnInv, CallInv, LockInv, MigratedInv, Unmigrated
<1>. QED  BY <1>1, <1>2, <1>3, <1>4, <1>5, <1>6

(* A claim is committed: its keys enter the rows, and the key as sent is   *)
(* settled once more.                                                      *)
LEMMA CommitClaimKeeps ==
  ASSUME IInv, NEW h \in Handles, CommitClaim(h)
  PROVE  IInv'
<1>. USE NoHandleAssumption, NoCallAssumption, CanonicalKey
     DEF IInv, TypeOK, CommitClaim, Answer
<1>1. TypeOK'
  <2>1. rows' \in SUBSET Keys /\ txn' \in SUBSET Keys
    OBVIOUS
  <2>2. call[h] \in Keys
    BY DEF CallInv
  <2>3. settled' \in [Keys -> Nat]
    BY <2>2
  <2>4. wins' \in [Bindings -> Nat]
    <3>1. call[h].binding \in Bindings
      BY <2>2 DEF Keys
    <3>. QED  BY <3>1
  <2>5. /\ pc' \in [Handles -> {"idle", "check", "migrate", "migrating",
                               "claim", "claiming"}]
        /\ call' \in [Handles -> Keys \cup {NoCall}]
        /\ writer' \in Handles \cup {NoHandle}
    OBVIOUS
  <2>. QED  BY <2>1, <2>3, <2>4, <2>5
<1>2. LockInv'
  BY DEF LockInv
<1>3. CallInv'
  BY DEF CallInv
<1>4. TxnInv'
  <2>1. \A g \in Handles : pc'[g] \notin {"migrating", "claiming"}
    BY DEF LockInv
  <2>. QED  BY <2>1 DEF TxnInv
<1>5. SettledInv'
  <2>1. call[h] \in Keys /\ release[h] \in {"new", "old"}
    BY DEF CallInv
  <2>2. call[h] \in txn /\ call[h] \notin rows
    BY <2>1 DEF TxnInv, Spent
  <2>3. settled[call[h]] = 0
    BY <2>1, <2>2 DEF SettledInv
  <2>4. ASSUME NEW k \in Keys, k # call[h]
        PROVE  settled'[k] = settled[k] /\ (k \in rows => k \in rows')
    BY <2>4
  <2>. QED  BY <2>1, <2>2, <2>3, <2>4 DEF SettledInv
<1>6. (~MixedReleases => MigratedInv)'
  BY DEF TxnInv, CallInv, LockInv, MigratedInv, Unmigrated
<1>. QED  BY <1>1, <1>2, <1>3, <1>4, <1>5, <1>6

(* Raise preserves the inductive invariant.                                *)
LEMMA RaiseKeeps ==
  ASSUME IInv, NEW h \in Handles, Raise(h)
  PROVE  IInv'
<1>. USE NoHandleAssumption, NoCallAssumption, CanonicalKey
     DEF IInv, TypeOK, Raise, ghosts, Rollback, Answer
<1>1. TypeOK'
  OBVIOUS
<1>2. LockInv'
  BY DEF LockInv
<1>3. CallInv'
  BY DEF CallInv
<1>4. TxnInv'
  BY DEF LockInv, CallInv, TxnInv, Spent, HeldUnderOldSpelling, Unmigrated
<1>5. SettledInv'
  BY DEF SettledInv
<1>6. (~MixedReleases => MigratedInv)'
  BY DEF TxnInv, CallInv, LockInv, MigratedInv, Unmigrated
<1>. QED  BY <1>1, <1>2, <1>3, <1>4, <1>5, <1>6

(* OldRefuse preserves the inductive invariant.                            *)
LEMMA OldRefuseKeeps ==
  ASSUME IInv, NEW h \in Handles, OldRefuse(h)
  PROVE  IInv'
<1>. USE NoHandleAssumption, NoCallAssumption, CanonicalKey
     DEF IInv, TypeOK, OldRefuse, store, ghosts, Answer
<1>1. TypeOK'
  OBVIOUS
<1>2. LockInv'
  BY DEF LockInv
<1>3. CallInv'
  BY DEF CallInv
<1>4. TxnInv'
  BY DEF LockInv, CallInv, TxnInv, Spent, HeldUnderOldSpelling, Unmigrated
<1>5. SettledInv'
  BY DEF SettledInv
<1>6. (~MixedReleases => MigratedInv)'
  BY DEF TxnInv, CallInv, LockInv, MigratedInv, Unmigrated
<1>. QED  BY <1>1, <1>2, <1>3, <1>4, <1>5, <1>6

(* OldInsert preserves the inductive invariant.                            *)
LEMMA OldInsertKeeps ==
  ASSUME IInv, NEW h \in Handles, OldInsert(h)
  PROVE  IInv'
<1>. USE NoHandleAssumption, NoCallAssumption, CanonicalKey
     DEF IInv, TypeOK, OldInsert, ghosts
<1>1. TypeOK'
  BY DEF CallInv, Unmigrated
<1>2. LockInv'
  BY DEF LockInv
<1>3. CallInv'
  BY DEF CallInv
<1>4. TxnInv'
  BY DEF LockInv, CallInv, TxnInv, Spent, HeldUnderOldSpelling, Unmigrated
<1>5. SettledInv'
  BY DEF SettledInv
<1>6. (~MixedReleases => MigratedInv)'
  BY DEF TxnInv, CallInv, LockInv, MigratedInv, Unmigrated
<1>. QED  BY <1>1, <1>2, <1>3, <1>4, <1>5, <1>6

(* Stop preserves the inductive invariant.                                 *)
LEMMA StopKeeps ==
  ASSUME IInv, NEW h \in Handles, Stop(h)
  PROVE  IInv'
<1>. USE NoHandleAssumption, NoCallAssumption, CanonicalKey
     DEF IInv, TypeOK, Stop, ghosts, Rollback, Answer
<1>1. TypeOK'
  OBVIOUS
<1>2. LockInv'
  BY DEF LockInv
<1>3. CallInv'
  BY DEF CallInv
<1>4. TxnInv'
  BY DEF LockInv, CallInv, TxnInv, Spent, HeldUnderOldSpelling, Unmigrated
<1>5. SettledInv'
  BY DEF SettledInv
<1>6. (~MixedReleases => MigratedInv)'
  BY DEF TxnInv, CallInv, LockInv, MigratedInv, Unmigrated
<1>. QED  BY <1>1, <1>2, <1>3, <1>4, <1>5, <1>6

-----------------------------------------------------------------------------

(* No step of any handle breaks the inductive invariant.                   *)
LEMMA IInvStep == IInv /\ [Next]_vars => IInv'
<1>. SUFFICES ASSUME IInv, [Next]_vars
              PROVE  IInv'
  OBVIOUS
<1>1. CASE UNCHANGED vars
  BY <1>1 DEF vars, IInv, TypeOK, LockInv, CallInv, TxnInv, SettledInv,
       MigratedInv, Unmigrated, Spent, HeldUnderOldSpelling
<1>2. ASSUME NEW h \in Handles, Open(h) \/ OldOpen(h) \/ Stop(h)
      PROVE  IInv'
  BY <1>2, OpenKeeps, OldOpenKeeps, StopKeeps
<1>3. ASSUME NEW h \in Handles, Step(h)
      PROVE  IInv'
  BY <1>3, CheckMigrationKeeps, MigrateKeeps, CommitMigrationKeeps,
     SkipMigrationKeeps, RefuseKeeps, InsertKeeps, CommitClaimKeeps,
     RaiseKeeps, OldRefuseKeeps, OldInsertKeeps
     DEF Step
<1>4. ASSUME NEW h \in Handles, NEW k \in Keys, Call(h, k) \/ OldCall(h, k)
      PROVE  IInv'
  BY <1>4, CallKeeps, OldCallKeeps
<1>. QED  BY <1>1, <1>2, <1>3, <1>4 DEF Next

(* IInv holds in every reachable state, for any number of handles and keys *)
(* and for either setting of MixedReleases: among its conjuncts, that the  *)
(* write lock is held exactly inside a transaction and that a finished     *)
(* migration stays finished while the previous release is not running.     *)
THEOREM Invariance == Spec => []IInv
<1>1. Init => IInv
  BY NoHandleAssumption, NoCallAssumption
  DEF Init, IInv, TypeOK, LockInv, CallInv, TxnInv, SettledInv, MigratedInv,
      Unmigrated
<1>. QED  BY <1>1, IInvStep, PTL DEF Spec

(* The state of the claim store is always of its type.                     *)
THEOREM TypeCorrect == Spec => []TypeOK
<1>1. IInv => TypeOK
  BY DEF IInv
<1>. QED  BY <1>1, Invariance, PTL

(* No spelling of a claim is settled twice, with both releases writing the *)
(* file in any order: the promise a rollback to the previous release rests *)
(* on (_claim_spellings records the key as sent).                          *)
THEOREM SpellingOnce == Spec => []SpellingSettledOnce
<1>1. IInv => SpellingSettledOnce
  BY DEF IInv, TypeOK, SettledInv, SpellingSettledOnce
<1>. QED  BY <1>1, Invariance, PTL

-----------------------------------------------------------------------------
(* With the releases kept apart.                                           *)

(* is_claimed of this release is right about every payment, in every       *)
(* spelling, whether its migration has run or is still pending.            *)
THEOREM IsClaimedCorrect ==
  ASSUME ~MixedReleases
  PROVE  Spec => []IsClaimedSeesEverySpelling
<1>1. ASSUME IInv, NEW h \in Handles, NEW k \in Keys,
             release[h] = "new"
      PROVE  IsClaimed(h, k) <=> \E r \in rows : r.binding = k.binding
  <2>1. \A r \in rows : r \in Keys
    BY <1>1 DEF IInv, TypeOK
  <2>2. HeldUnderOldSpelling(Canonical(k))
          <=> \E r \in rows : r.binding = k.binding
    BY <2>1, CanonicalSame DEF HeldUnderOldSpelling
  <2>3. Canonical(k) \in rows => \E r \in rows : r.binding = k.binding
    BY CanonicalKey
  <2>4. ASSUME ~pending[h], NEW r \in rows, r.binding = k.binding
        PROVE  Canonical(k) \in rows
    <3>1. Unmigrated = {}
      BY <1>1, <2>4 DEF IInv, MigratedInv
    <3>2. Canonical(r) \in rows
      BY <3>1 DEF Unmigrated
    <3>. QED  BY <2>1, <2>4, <3>2, CanonicalSame
  <2>5. pending[h] \in BOOLEAN
    BY <1>1 DEF IInv, TypeOK
  <2>. QED  BY <2>2, <2>3, <2>4, <2>5 DEF IsClaimed
<1>2. IInv => IsClaimedSeesEverySpelling
  BY <1>1 DEF IsClaimedSeesEverySpelling
<1>. QED  BY <1>2, Invariance, PTL

(* A claim of this release that finds its key unspent finds the payment    *)
(* unspent: no row of any spelling is of its binding.                      *)
LEMMA UnspentMeansFree ==
  ASSUME IInv, ~MixedReleases, NEW h \in Handles, release[h] = "new",
         NEW k \in Keys, ~Spent(h, k)
  PROVE  \A r \in rows : r.binding # k.binding
<1>. SUFFICES ASSUME NEW r \in rows, r.binding = k.binding
              PROVE  FALSE
  OBVIOUS
<1>1. r \in Keys
  BY DEF IInv, TypeOK
<1>2. Canonical(r) = Canonical(k)
  BY <1>1, CanonicalSame
<1>3. CASE pending[h]
  BY <1>1, <1>2, <1>3, CanonicalKey DEF Spent, HeldUnderOldSpelling
<1>4. CASE ~pending[h]
  <2>1. Canonical(r) \in rows
    BY <1>4 DEF IInv, MigratedInv, Unmigrated
  <2>. QED  BY <1>2, <2>1 DEF Spent
<1>. QED  BY <1>3, <1>4

(* A committed transaction changes the set of spent bindings by a claim,   *)
(* or, for a migration, not at all.                                        *)
LEMMA MigrationSpendsNothing ==
  ASSUME IInv, NEW h \in Handles, CommitMigration(h)
  PROVE  {k.binding : k \in rows'} = {k.binding : k \in rows}
<1>1. rows' = rows \cup {Canonical(k) : k \in Unmigrated}
  BY DEF CommitMigration, IInv, TxnInv
<1>2. \A k \in Unmigrated : k \in rows /\ Canonical(k).binding = k.binding
  BY CanonicalKey DEF Unmigrated, IInv, TypeOK
<1>. QED  BY <1>1, <1>2

(* The commit of a claim is a Win of this release or a ForeignClaim of the *)
(* previous one.                                                           *)
LEMMA CommitRefines ==
  ASSUME IInv, ~MixedReleases, NEW h \in Handles, CommitClaim(h)
  PROVE  Abs!Next
<1>. DEFINE b == call[h].binding
            spentBindings == {k.binding : k \in rows}
<1>1. call[h] \in Keys /\ b \in Bindings
  BY NoCallAssumption DEF CommitClaim, IInv, TypeOK, CallInv, Keys
<1>2. CASE release[h] = "new"
  <2>1. rows' = rows \cup {Canonical(call[h]), call[h]}
    BY <1>2 DEF CommitClaim, IInv, TxnInv
  <2>2. {k.binding : k \in rows'} = spentBindings \cup {b}
    BY <1>1, <2>1, CanonicalKey
  <2>3. b \notin spentBindings
    BY <1>1, <1>2, UnspentMeansFree DEF CommitClaim, IInv, TxnInv
  <2>4. wins' = [wins EXCEPT ![b] = @ + 1]
    BY <1>2 DEF CommitClaim
  <2>. QED  BY <1>1, <2>2, <2>3, <2>4 DEF Abs!Next, Abs!Win
<1>3. CASE release[h] = "old"
  <2>1. rows' = rows \cup {call[h]}
    BY <1>3 DEF CommitClaim, IInv, TxnInv
  <2>2. {k.binding : k \in rows'} = spentBindings \cup {b}
    BY <2>1
  <2>3. UNCHANGED wins
    BY <1>3 DEF CommitClaim
  <2>. QED  BY <1>1, <2>2, <2>3 DEF Abs!Next, Abs!ForeignClaim
<1>4. release[h] # "down"
  BY DEF CommitClaim, IInv, CallInv
<1>. QED  BY <1>2, <1>3, <1>4 DEF IInv, TypeOK

(* The claim store implements SingleUse: while the previous release is not *)
(* running, a claim of this release wins only a payment that no release    *)
(* has settled before, in any spelling of its hash, through crashes,       *)
(* skipped migrations and rollbacks.                                       *)
THEOREM ImplementsSingleUse ==
  ASSUME ~MixedReleases
  PROVE  Spec => SingleUseSpec
<1>1. Init => Abs!Init
  BY DEF Init, Abs!Init
<1>2. IInv /\ [Next]_vars => [Abs!Next]_(Abs!vars)
  <2>. SUFFICES ASSUME IInv, [Next]_vars
                PROVE  [Abs!Next]_(Abs!vars)
    OBVIOUS
  <2>1. ASSUME NEW h \in Handles, CommitClaim(h)
        PROVE  Abs!Next
    BY <2>1, CommitRefines
  <2>2. ASSUME NEW h \in Handles, CommitMigration(h)
        PROVE  UNCHANGED Abs!vars
    BY <2>2, MigrationSpendsNothing DEF CommitMigration, ghosts, Abs!vars
  <2>3. CASE UNCHANGED <<rows, wins>>
    BY <2>3 DEF Abs!vars
  <2>4. ASSUME NEW h \in Handles, Step(h), ~CommitClaim(h), ~CommitMigration(h)
        PROVE  UNCHANGED <<rows, wins>>
    BY <2>4 DEF Step, CheckMigration, Migrate, SkipMigration, Refuse, Insert,
         Raise, OldRefuse, OldInsert, Rollback, store, ghosts
  <2>5. ASSUME NEW h \in Handles, Open(h) \/ OldOpen(h) \/ Stop(h)
        PROVE  UNCHANGED <<rows, wins>>
    BY <2>5 DEF Open, OldOpen, Stop, Rollback, store, ghosts
  <2>6. ASSUME NEW h \in Handles, NEW k \in Keys, Call(h, k) \/ OldCall(h, k)
        PROVE  UNCHANGED <<rows, wins>>
    BY <2>6 DEF Call, OldCall, store, ghosts
  <2>7. CASE UNCHANGED vars
    BY <2>7, <2>3 DEF vars
  <2>. QED  BY <2>1, <2>2, <2>3, <2>4, <2>5, <2>6, <2>7 DEF Next
<1>. QED  BY <1>1, <1>2, Invariance, PTL DEF Spec, SingleUseSpec, Abs!Spec

=============================================================================
