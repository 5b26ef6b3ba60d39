----------------------------- MODULE ClaimStore -----------------------------
(***************************************************************************)
(* The single-use claim store of nano_mcp/facilitator.py: several handles  *)
(* (ClaimStore instances, in one process or in many) on one SQLite file    *)
(* that older releases may have written and may write again after a        *)
(* rollback.                                                               *)
(*                                                                         *)
(* A key is `nano:live <hash> <request_id>'.  Every statement keeps the    *)
(* request_id byte for byte and changes only how the hash is spelt, so a   *)
(* key is the pair of a binding (the hash up to spelling, with its         *)
(* request_id) and a spelling.  Keys of any other shape are never touched  *)
(* and are left out.                                                       *)
(*                                                                         *)
(* Inside one handle self._lock admits one call at a time, so a handle is  *)
(* a sequential process; what interleaves is the handles, through SQLite's *)
(* write lock.  A transaction is two steps, its body and its COMMIT, with  *)
(* the write lock held in between.                                         *)
(*                                                                         *)
(* The previous release (OldOpen, OldCall, OldRefuse, OldInsert) is        *)
(* external: its code is not in the repository, and it is modelled from    *)
(* what this release does about the rows it left and may leave again.      *)
(***************************************************************************)
EXTENDS Naturals

CONSTANTS
    Handles,             \* stores open on the file, of either release
    Bindings,            \* (hash, request_id) pairs
    Spellings,           \* hex-case spellings of a hash, `<hash>\n' included
    Upper,               \* the canonical spelling
    Newline,             \* spellings that end in "\n"
    NoHandle,            \* the write lock is free
    NoCall,              \* the handle has no claim to answer
    MixedReleases        \* may both releases run on the file at once?

Keys == [binding : Bindings, spelling : Spellings]

ASSUME UpperAssumption == Upper \in Spellings \ Newline
ASSUME NewlineAssumption == Newline \subseteq Spellings
ASSUME NoHandleAssumption == NoHandle \notin Handles
ASSUME NoCallAssumption == NoCall \notin Keys
ASSUME MixedAssumption == MixedReleases \in BOOLEAN

VARIABLES
    rows,                \* the committed rows of table claims
    writer,              \* the handle that holds SQLite's write lock
    txn,                 \* the rows its open transaction has inserted
    release,             \* which release each handle runs, or "down"
    pending,             \* self._migration_pending
    pc,                  \* where each handle is
    call,                \* the key, as sent, that it was asked to claim
    wins,                \* claims of this release that answered True
    settled              \* claims of either release that answered True, as sent

vars == <<rows, writer, txn, release, pending, pc, call, wins, settled>>

store == <<rows, writer, txn>>
ghosts == <<wins, settled>>

-----------------------------------------------------------------------------

\* _canonical_key: the hash upper-cased, a "\n" after it dropped.
Canonical(k) == [k EXCEPT !.spelling = Upper]

\* _PENDING_WHERE: rows in an older spelling that lack their canonical copy.
Unmigrated == {k \in rows : Canonical(k) \notin rows}

\* _held_under_old_spelling: is this canonical key stored in any spelling?
HeldUnderOldSpelling(k) == \E r \in rows : Canonical(r) = k

\* is_claimed, as an idle handle h of this release answers it.
IsClaimed(h, k) == \/ Canonical(k) \in rows
                   \/ pending[h] /\ HeldUnderOldSpelling(Canonical(k))

\* Mutant: a pending migration is ignored.
SpentIgnoresPending(h, k) == \/ k # Canonical(k) /\ k \in rows
                             \/ Canonical(k) \in rows

\* A claim of k by handle h of this release finds its payment already spent.
Spent(h, k) == \/ pending[h] /\ HeldUnderOldSpelling(Canonical(k))
               \/ k # Canonical(k) /\ k \in rows
               \/ Canonical(k) \in rows

\* Mutant: a claim waits until its migration has run.
AfterMigrationRetries(h) == IF call[h] = NoCall THEN "idle" ELSE "check"

\* Where a handle goes on to when the migration attempt is over: to the claim
\* that triggered it, or to rest when it was made by __init__.
AfterMigration(h) == IF call[h] = NoCall THEN "idle" ELSE "claim"

-----------------------------------------------------------------------------

Init == /\ rows = {}
        /\ writer = NoHandle
        /\ txn = {}
        /\ release = [h \in Handles |-> "down"]
        /\ pending = [h \in Handles |-> TRUE]
        /\ pc = [h \in Handles |-> "idle"]
        /\ call = [h \in Handles |-> NoCall]
        /\ wins = [b \in Bindings |-> 0]
        /\ settled = [k \in Keys |-> 0]

\* ClaimStore.__init__ of this release.  `Upgrade every writer together': the
\* previous release is not running, unless MixedReleases.
Open(h) == /\ release[h] = "down"
           /\ MixedReleases \/ \A g \in Handles : release[g] # "old"
           /\ release' = [release EXCEPT ![h] = "new"]
           /\ pending' = [pending EXCEPT ![h] = TRUE]
           /\ pc' = [pc EXCEPT ![h] = "check"]
           /\ UNCHANGED <<store, call, ghosts>>

\* A handle of the previous release opens the file: it migrates nothing.
OldOpen(h) == /\ release[h] = "down"
              /\ MixedReleases \/ \A g \in Handles : release[g] # "new"
              /\ release' = [release EXCEPT ![h] = "old"]
              /\ UNCHANGED <<store, pending, pc, call, ghosts>>

\* _NEEDS_MIGRATION_SQL, the read-only look that takes no lock.
CheckMigration(h) ==
    /\ pc[h] = "check"
    /\ IF Unmigrated = {}
         THEN /\ pending' = [pending EXCEPT ![h] = FALSE]
              /\ pc' = [pc EXCEPT ![h] = AfterMigration(h)]
         ELSE /\ pc' = [pc EXCEPT ![h] = "migrate"]
              /\ UNCHANGED pending
    /\ UNCHANGED <<store, release, call, ghosts>>

\* Mutant: the rows to migrate are read under no lock.
MigrateUnlocked(h) == /\ pc[h] = "migrate"
                      /\ writer' = h
                      /\ txn' = {Canonical(k) : k \in Unmigrated}
                      /\ pc' = [pc EXCEPT ![h] = "migrating"]
                      /\ UNCHANGED <<rows, release, pending, call, ghosts>>

\* BEGIN IMMEDIATE and _MIGRATE_SQL.
Migrate(h) == /\ pc[h] = "migrate"
              /\ writer = NoHandle
              /\ writer' = h
              /\ txn' = {Canonical(k) : k \in Unmigrated}
              /\ pc' = [pc EXCEPT ![h] = "migrating"]
              /\ UNCHANGED <<rows, release, pending, call, ghosts>>

CommitMigration(h) == /\ pc[h] = "migrating"
                      /\ rows' = rows \cup txn
                      /\ writer' = NoHandle
                      /\ txn' = {}
                      /\ pending' = [pending EXCEPT ![h] = FALSE]
                      /\ pc' = [pc EXCEPT ![h] = AfterMigration(h)]
                      /\ UNCHANGED <<release, call, ghosts>>

\* What a rollback, or the end of a process, does to the open transaction.
Rollback(h) == /\ writer' = (IF writer = h THEN NoHandle ELSE writer)
               /\ txn' = (IF writer = h THEN {} ELSE txn)
               /\ UNCHANGED rows

\* Mutant: an attempt that failed counts as done.
SkipForgets(h) == /\ pc[h] \in {"check", "migrate", "migrating"}
                  /\ Rollback(h)
                  /\ pending' = [pending EXCEPT ![h] = FALSE]
                  /\ pc' = [pc EXCEPT ![h] = AfterMigration(h)]
                  /\ UNCHANGED <<release, call, ghosts>>

\* Any sqlite3.Error in the attempt (the file is read-only, or another writer
\* outlasts busy_timeout) leaves the migration pending and goes on.
SkipMigration(h) == /\ pc[h] \in {"check", "migrate", "migrating"}
                    /\ Rollback(h)
                    /\ pc' = [pc EXCEPT ![h] = AfterMigration(h)]
                    /\ UNCHANGED <<release, pending, call, ghosts>>

-----------------------------------------------------------------------------

\* settle asks for a claim of k, spelt as the payer sent it.  A proof with a
\* trailing newline was refused before; ClaimStore.claim is the case in which
\* the spelling is Upper.
Call(h, k) == /\ release[h] = "new"
              /\ pc[h] = "idle"
              /\ k.spelling \notin Newline
              /\ call' = [call EXCEPT ![h] = k]
              /\ pc' = [pc EXCEPT ![h] = IF pending[h] THEN "check" ELSE "claim"]
              /\ UNCHANGED <<store, release, pending, ghosts>>

\* The previous release claims k exactly as sent; its check let "\n" through.
OldCall(h, k) == /\ release[h] = "old"
                 /\ pc[h] = "idle"
                 /\ call' = [call EXCEPT ![h] = k]
                 /\ pc' = [pc EXCEPT ![h] = "claim"]
                 /\ UNCHANGED <<store, release, pending, ghosts>>

Answer(h) == /\ pc' = [pc EXCEPT ![h] = "idle"]
             /\ call' = [call EXCEPT ![h] = NoCall]

\* Mutant: no rollback after the INSERT hit the primary key.
RefuseLeaksLock(h) == /\ pc[h] = "claim"
                      /\ release[h] = "new"
                      /\ writer = NoHandle
                      /\ Spent(h, call[h])
                      /\ writer' = h
                      /\ Answer(h)
                      /\ UNCHANGED <<rows, txn, release, pending, ghosts>>

\* The claim is refused: one of the lookups finds the payment spent, or the
\* INSERT hits the primary key; either way the transaction is rolled back.
Refuse(h) == /\ pc[h] = "claim"
             /\ release[h] = "new"
             /\ writer = NoHandle
             /\ Spent(h, call[h])
             /\ Rollback(h)
             /\ Answer(h)
             /\ UNCHANGED <<release, pending, ghosts>>

\* Mutant: only the canonical key is recorded.
InsertCanonicalOnly(h) == /\ pc[h] = "claim"
                          /\ release[h] = "new"
                          /\ writer = NoHandle
                          /\ ~Spent(h, call[h])
                          /\ writer' = h
                          /\ txn' = {Canonical(call[h])}
                          /\ pc' = [pc EXCEPT ![h] = "claiming"]
                          /\ UNCHANGED <<rows, release, pending, call, ghosts>>

\* The INSERT of the canonical key, and of the key as sent beside it.
Insert(h) == /\ pc[h] = "claim"
             /\ release[h] = "new"
             /\ writer = NoHandle
             /\ ~Spent(h, call[h])
             /\ writer' = h
             /\ txn' = {Canonical(call[h]), call[h]}
             /\ pc' = [pc EXCEPT ![h] = "claiming"]
             /\ UNCHANGED <<rows, release, pending, call, ghosts>>

\* COMMIT and `return True'.
CommitClaim(h) ==
    /\ pc[h] = "claiming"
    /\ rows' = rows \cup txn
    /\ writer' = NoHandle
    /\ txn' = {}
    /\ Answer(h)
    /\ settled' = [settled EXCEPT ![call[h]] = @ + 1]
    /\ wins' = IF release[h] = "new"
                 THEN [wins EXCEPT ![call[h].binding] = @ + 1]
                 ELSE wins
    /\ UNCHANGED <<release, pending>>

\* `database is locked', or any other failure of the claim: the transaction is
\* rolled back and the exception leaves settle.
Raise(h) == /\ pc[h] \in {"claim", "claiming"}
            /\ Rollback(h)
            /\ Answer(h)
            /\ UNCHANGED <<release, pending, ghosts>>

OldRefuse(h) == /\ pc[h] = "claim"
                /\ release[h] = "old"
                /\ writer = NoHandle
                /\ call[h] \in rows
                /\ Answer(h)
                /\ UNCHANGED <<store, release, pending, ghosts>>

OldInsert(h) == /\ pc[h] = "claim"
                /\ release[h] = "old"
                /\ writer = NoHandle
                /\ call[h] \notin rows
                /\ writer' = h
                /\ txn' = {call[h]}
                /\ pc' = [pc EXCEPT ![h] = "claiming"]
                /\ UNCHANGED <<rows, release, pending, call, ghosts>>

\* The process is stopped or dies, at any point; committed rows survive.
Stop(h) == /\ release[h] # "down"
           /\ release' = [release EXCEPT ![h] = "down"]
           /\ pending' = [pending EXCEPT ![h] = TRUE]
           /\ Rollback(h)
           /\ Answer(h)
           /\ UNCHANGED ghosts

\* The steps by which a call, once made, goes on to its answer.
Step(h) == \/ CheckMigration(h) \/ Migrate(h) \/ CommitMigration(h)
           \/ SkipMigration(h)
           \/ Refuse(h) \/ Insert(h) \/ CommitClaim(h) \/ Raise(h)
           \/ OldRefuse(h) \/ OldInsert(h)

Next == \E h \in Handles :
          \/ Open(h) \/ OldOpen(h) \/ Stop(h)
          \/ Step(h)
          \/ \E k \in Keys : Call(h, k) \/ OldCall(h, k)

Spec == Init /\ [][Next]_vars

\* A live process runs on: no call is left standing half way.
Fairness == \A h \in Handles : WF_vars(Step(h))

FairSpec == Spec /\ Fairness

-----------------------------------------------------------------------------

TypeOK == /\ rows \in SUBSET Keys
          /\ writer \in Handles \cup {NoHandle}
          /\ txn \in SUBSET Keys
          /\ release \in [Handles -> {"down", "new", "old"}]
          /\ pending \in [Handles -> BOOLEAN]
          /\ pc \in [Handles -> {"idle", "check", "migrate", "migrating",
                                 "claim", "claiming"}]
          /\ call \in [Handles -> Keys \cup {NoCall}]
          /\ wins \in [Bindings -> Nat]
          /\ settled \in [Keys -> Nat]

\* One spelling of one claim is settled at most once, whichever releases run
\* and in whatever order: the key as sent is recorded beside the canonical one,
\* so that a rollback to the previous release refuses it (_claim_spellings).
SpellingSettledOnce == \A k \in Keys : settled[k] <= 1

\* Between calls, is_claimed of this release tells the truth about a payment
\* claimed under any spelling, by any handle or release, before it opened the
\* file or since, whether or not its migration could run.
IsClaimedSeesEverySpelling ==
    \A h \in Handles, k \in Keys :
        release[h] = "new" /\ pc[h] = "idle"
            => (IsClaimed(h, k) <=> \E r \in rows : r.binding = k.binding)

\* Every claim is answered: refused, won, or failed with `database is locked'.
\* No migration retry and no other writer holds it up for ever.
CallAnswered == \A h \in Handles : (call[h] # NoCall) ~> (call[h] = NoCall)

\* No handle keeps the write lock once its call is over: the refusal of a spent
\* key rolls its transaction back, so a second handle is not locked out.
WriteLockReleased == \A h \in Handles : (writer = h) ~> (writer # h)

\* What the store promises: with the previous release never running beside this
\* one, a claim of this release wins only a payment nobody has settled before,
\* in any spelling.
Abs == INSTANCE SingleUse WITH spent <- {k.binding : k \in rows}
SingleUseSpec == Abs!Spec

-----------------------------------------------------------------------------
(* The inductive invariant.                                                *)

\* The lock and the open transaction belong to the one handle that is between
\* the body of a transaction and its end.
LockInv ==
    /\ \A h \in Handles : writer = h <=> pc[h] \in {"migrating", "claiming"}
    /\ writer = NoHandle => txn = {}

\* A handle between calls has no key to answer; a claim in progress has one.
CallInv ==
    \A h \in Handles :
        /\ pc[h] \in {"claim", "claiming"} => call[h] # NoCall
        /\ pc[h] = "idle" => call[h] = NoCall
        /\ release[h] = "down" => pc[h] = "idle"
        /\ release[h] = "old" => pc[h] \in {"idle", "claim", "claiming"}
        /\ release[h] = "new" /\ call[h] # NoCall
             => call[h].spelling \notin Newline

\* What an open transaction will commit, and why it may: the lookups it made
\* still hold, since nobody else has written since.
TxnInv ==
    \A h \in Handles :
        /\ pc[h] = "migrating" => txn = {Canonical(k) : k \in Unmigrated}
        /\ pc[h] = "claiming" /\ release[h] = "new"
             => /\ txn = {Canonical(call[h]), call[h]}
                /\ ~Spent(h, call[h])
        /\ pc[h] = "claiming" /\ release[h] = "old"
             => txn = {call[h]} /\ call[h] \notin rows

\* The releases do not run together, and a handle that is done with the
\* migration finds nothing left to migrate.
MigratedInv ==
    /\ \A g, h \in Handles : ~(release[g] = "old" /\ release[h] = "new")
    /\ \A h \in Handles :
         release[h] = "new" /\ ~pending[h] => Unmigrated = {}

\* Every settlement has left its row, and there is one of each.
SettledInv == \A k \in Keys : settled[k] <= (IF k \in rows THEN 1 ELSE 0)

IInv == /\ TypeOK /\ LockInv /\ CallInv /\ TxnInv /\ SettledInv
        /\ ~MixedReleases => MigratedInv

=============================================================================
