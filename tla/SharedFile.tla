----------------------------- MODULE SharedFile -----------------------------
(***************************************************************************)
(* approvals.db as ApprovalStore uses it: one SQLite file in rollback-     *)
(* journal mode (ApprovalStore does not switch to WAL), one connection per *)
(* process, a transaction begun by Python's sqlite3 before the first       *)
(* INSERT and ended only by commit().  Locks are SQLite's:                 *)
(*   shared    a SELECT inside an open transaction keeps it until the end, *)
(*   reserved  taken by the first INSERT, one holder at a time,            *)
(*   pending   left behind by a COMMIT that other shared locks made fail;  *)
(*             it keeps new readers out.                                   *)
(* A SELECT outside a transaction and the EXCLUSIVE lock of a COMMIT that  *)
(* succeeds come and go within one step.  A statement that waits for a     *)
(* lock gives up after the busy timeout, however short the holder means to *)
(* keep it; one that fails for another reason (a full disk, an I/O error)  *)
(* makes SQLite roll back all that the connection has written.             *)
(***************************************************************************)
EXTENDS Naturals

CONSTANT Processes       \* one connection each

VARIABLES
    db,                  \* what is committed
    work,                \* db with what the reserved or pending holder wrote
    lock,                \* the lock each process keeps between its statements
    intxn                \* connection.in_transaction

file == <<db, work, lock, intxn>>

Holds(p) == lock[p] \in {"reserved", "pending"}

\* What a SELECT of process p sees: its own uncommitted rows included.
Seen(p) == IF Holds(p) THEN work ELSE db

CanRead(p) == lock[p] # "none" \/ \A q \in Processes : lock[q] # "pending"

CanWrite(p) == CanRead(p) /\ \A q \in Processes \ {p} : ~Holds(q)

CanCommit(p) == \A q \in Processes \ {p} : lock[q] = "none"

FileInit(empty) == /\ db = empty
                   /\ work = empty
                   /\ lock = [p \in Processes |-> "none"]
                   /\ intxn = [p \in Processes |-> FALSE]

Select(p) == /\ CanRead(p)
             /\ lock' = [lock EXCEPT ![p] = IF intxn[p] /\ @ = "none"
                                              THEN "shared" ELSE @]
             /\ UNCHANGED <<db, work, intxn>>

\* INSERT, leaving the transaction open.
Insert(p, new) == /\ CanWrite(p)
                  /\ work' = new
                  /\ lock' = [lock EXCEPT ![p] = IF @ = "pending"
                                                   THEN @ ELSE "reserved"]
                  /\ intxn' = [intxn EXCEPT ![p] = TRUE]
                  /\ UNCHANGED db

\* COMMIT of what p has written, which may be nothing.
Commit(p) == /\ CanCommit(p) \/ ~Holds(p)
             /\ db' = Seen(p)
             /\ lock' = [lock EXCEPT ![p] = "none"]
             /\ intxn' = [intxn EXCEPT ![p] = FALSE]
             /\ UNCHANGED work

\* INSERT and COMMIT in one go.
InsertCommit(p, new) == /\ CanWrite(p)
                        /\ CanCommit(p)
                        /\ db' = new
                        /\ work' = new
                        /\ lock' = [lock EXCEPT ![p] = "none"]
                        /\ intxn' = [intxn EXCEPT ![p] = FALSE]

\* COMMIT raises `database is locked': other processes still read.  What was
\* written stays, uncommitted, with the lock on it.
CommitBusy(p, new) == /\ Holds(p) \/ CanWrite(p)
                      /\ ~CanCommit(p)
                      /\ work' = new
                      /\ lock' = [lock EXCEPT ![p] = "pending"]
                      /\ intxn' = [intxn EXCEPT ![p] = TRUE]
                      /\ UNCHANGED db

\* INSERT raises `database is locked' after the BEGIN before it went through.
InsertBusy(p) == /\ ~CanWrite(p)
                 /\ intxn' = [intxn EXCEPT ![p] = TRUE]
                 /\ UNCHANGED <<db, work, lock>>

\* The process ends, or a write of it fails for another reason than a lock: its
\* transaction is rolled back and its locks go.
Rollback(p) == /\ work' = (IF Holds(p) THEN db ELSE work)
               /\ lock' = [lock EXCEPT ![p] = "none"]
               /\ intxn' = [intxn EXCEPT ![p] = FALSE]
               /\ UNCHANGED db

=============================================================================
