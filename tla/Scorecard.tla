------------------------------ MODULE Scorecard ------------------------------
(***************************************************************************)
(* nano_mcp.scorecard, evidence and journaldb: the journal of payments     *)
(* received, the raw records of the rails, and the command-line runs that  *)
(* publish figures from them ("build") and check a publication ("verify"). *)
(*                                                                         *)
(* A run is a process.  It reads one file after the other and writes its   *)
(* two outputs with Path.write_text, which empties the file before it      *)
(* fills it; receipts and raw records arrive, other runs work and the run  *)
(* may die between any two of these steps.                                 *)
(*                                                                         *)
(* The journal is the database (--journal-db), which is read again at each *)
(* count.  The list of receipts of --journal is not modelled: it is read   *)
(* once, before anything else, so that a verification may fail with it     *)
(* because its list is older than the publication.                         *)
(*                                                                         *)
(* A figure is one metric of one rail.  A receipt is its payer.  The share *)
(* is the pair of its numerator and its denominator, a hash is the value   *)
(* hashed (equal hashes are taken to mean equal contents).                 *)
(***************************************************************************)
EXTENDS Integers, Sequences, FiniteSets

CONSTANTS
    Builds, Verifies,    \* the runs of each command
    Journalled,          \* the runs that are given a journal
    Accounts,
    Own,                 \* --own: the accounts the operator controls
    WriterLists,         \* the lists NANO_AGENT_OWN_ACCOUNTS may hold
    Figures, Values, Dates, Counts,
    Missing, Empty,      \* a file that is not there; one emptied, not filled
    MaxReceipts, MaxRecords

ASSUME RunsAssumption == Builds \cap Verifies = {}
ASSUME AccountsAssumption == Own \subseteq Accounts
ASSUME DatesAssumption == Dates \subseteq Nat
ASSUME CountsAssumption == Counts \subseteq Nat

VARIABLES
    journal,             \* the payers of the nano_tx events, oldest first
    rails,               \* raw/rails.json
    x402,                \* the count of raw/x402.json
    published,           \* published.json
    manifest,            \* manifest.json
    run                  \* each run, with its locals

raw == <<rails, x402>>
vars == <<journal, rails, x402, published, manifest, run>>

Runs == Builds \cup Verifies
Records == [figure : Figures, value : Values, asOf : Dates]

Idle == [stage |-> "idle", committed |-> Missing, rails |-> <<>>, x402 |-> 0,
         external |-> 0, own |-> 0]

Init == /\ journal = <<>>
        /\ rails = <<>>
        /\ x402 \in Counts
        /\ published = Missing
        /\ manifest = Missing
        /\ run = [r \in Runs |-> Idle]

At(r, stage) == run[r].stage = stage
Goto(r, stage) == run' = [run EXCEPT ![r].stage = stage]

\* The process ends, and its locals with it.
End(r, how) == run' = [run EXCEPT ![r] = [Idle EXCEPT !.stage = how]]

-----------------------------------------------------------------------------
(* The sources: receipts, and raw records the operator measures.           *)

\* evidence.should_log: the payer is not one of ours.
ShouldLog(payer, own) == payer \notin own

\* evidence.append_nano_tx, by a writer whose environment lists own.
AppendNanoTx(payer, own) ==
    /\ Len(journal) < MaxReceipts
    /\ ShouldLog(payer, own)
    /\ journal' = Append(journal, payer)
    /\ UNCHANGED <<raw, published, manifest, run>>

AddRecord(rec) == /\ Len(rails) < MaxRecords
                  /\ rails' = Append(rails, rec)
                  /\ UNCHANGED <<journal, x402, published, manifest, run>>

\* The public count is a running total.
SetCount(n) == /\ n > x402
               /\ x402' = n
               /\ UNCHANGED <<journal, rails, published, manifest, run>>

-----------------------------------------------------------------------------
(* build: the figures of one reading of the raw data and the journal.      *)

\* r's journal reader; a run without one counts no receipts.
Read(r) == IF r \in Journalled THEN journal ELSE <<>>

\* A build that drops no payer.
ExternalCountsAll(receipts) == Cardinality(DOMAIN receipts)

\* count_external_receipts
External(receipts) ==
    Cardinality({i \in DOMAIN receipts : receipts[i] \notin Own})

OwnReceipts(receipts) ==
    Cardinality({i \in DOMAIN receipts : receipts[i] \in Own})

Series(records, f) == {i \in DOMAIN records : records[i].figure = f}

\* The record at the end of the file.
LatestWritten(records, f) ==
    CHOOSE i \in Series(records, f) : \A j \in Series(records, f) : j <= i

\* _rail_figure: the sort by as_of is stable, so of equal dates the last counts.
Latest(records, f) ==
    CHOOSE i \in Series(records, f) : \A j \in Series(records, f) :
        \/ records[j].asOf < records[i].asOf
        \/ records[j].asOf = records[i].asOf /\ j <= i

RailsTable(records) ==
    [f \in {records[i].figure : i \in DOMAIN records} |->
        records[Latest(records, f)].value]

\* The share as a ratio to what the others count.
ShareOfOthers(external, count) == <<external, count>>

\* share_of_observed; 0.0 when nothing was observed.
Share(external, count) == <<external, count + external>>

SameShare(s, t) == IF s[1] = 0 \/ t[1] = 0 THEN s[1] = t[1]
                                           ELSE s[1] * t[2] = t[1] * s[2]

\* A run starts: verify first reads the publication.
StartBuild(b) == /\ At(b, "idle")
                 /\ Goto(b, "started")
                 /\ UNCHANGED <<journal, raw, published, manifest>>

StartVerify(v) == /\ At(v, "idle")
                  /\ IF published \in {Missing, Empty}
                     THEN End(v, "dead")
                     ELSE run' = [run EXCEPT ![v].stage = "started",
                                             ![v].committed = published]
                  /\ UNCHANGED <<journal, raw, published, manifest>>

\* load_rails, then load_x402, then two separate readings of the journal.
LoadRails(r) == /\ At(r, "started")
                /\ run' = [run EXCEPT ![r].stage = "rails", ![r].rails = rails]
                /\ UNCHANGED <<journal, raw, published, manifest>>

LoadX402(r) == /\ At(r, "rails")
               /\ run' = [run EXCEPT ![r].stage = "x402", ![r].x402 = x402]
               /\ UNCHANGED <<journal, raw, published, manifest>>

CountExternal(r) == /\ At(r, "x402")
                    /\ run' = [run EXCEPT ![r].stage = "counted",
                                          ![r].external = External(Read(r))]
                    /\ UNCHANGED <<journal, raw, published, manifest>>

\* excluded_own as what the receipts counted leave of the journal.
CountOwnByDifference(r) ==
    /\ At(r, "counted")
    /\ run' = [run EXCEPT ![r].stage = "built",
                          ![r].own = Len(Read(r)) - run[r].external]
    /\ UNCHANGED <<journal, raw, published, manifest>>

CountOwn(r) == /\ At(r, "counted")
               /\ run' = [run EXCEPT ![r].stage = "built",
                                     ![r].own = OwnReceipts(Read(r))]
               /\ UNCHANGED <<journal, raw, published, manifest>>

\* by and read are ghosts: the run, and how many raw records it had read.
Built(r) == [rails |-> RailsTable(run[r].rails),
             x402 |-> run[r].x402,
             external |-> run[r].external,
             own |-> run[r].own,
             share |-> Share(run[r].external, run[r].x402),
             by |-> r,
             read |-> Len(run[r].rails)]

-----------------------------------------------------------------------------
(* The rest of the build command: publish, then make the manifest.         *)

OpenPublished(b) == /\ At(b, "built")
                    /\ published' = Empty
                    /\ Goto(b, "opened")
                    /\ UNCHANGED <<journal, raw, manifest>>

FillPublished(b) == /\ At(b, "opened")
                    /\ published' = Built(b)
                    /\ Goto(b, "published")
                    /\ UNCHANGED <<journal, raw, manifest>>

\* A manifest of the raw file as it is when the manifest is made.
ManifestOfRaw(b) == [rails |-> RailsTable(rails),
                     count |-> run[b].x402,
                     share |-> Share(run[b].external, run[b].x402),
                     by |-> b]

\* make_manifest: the figures are those of the build, whatever the raw files
\* have become.  (Its hashes of the raw files, which nothing reads, are left out.)
Manifest(b) == [rails |-> RailsTable(run[b].rails),
                count |-> run[b].x402,
                share |-> Share(run[b].external, run[b].x402),
                by |-> b]

OpenManifest(b) == /\ At(b, "published")
                   /\ manifest' = Empty
                   /\ Goto(b, "listing")
                   /\ UNCHANGED <<journal, raw, published>>

FillManifest(b) == /\ At(b, "listing")
                   /\ manifest' = Manifest(b)
                   /\ End(b, "done")
                   /\ UNCHANGED <<journal, raw, published>>

-----------------------------------------------------------------------------
(* verify: compare the publication with a build of its own.                *)

\* The committed rail figures the rebuild does not give.
Mismatches(committed, rebuilt) ==
    {f \in DOMAIN committed.rails :
        \/ f \notin DOMAIN rebuilt.rails
        \/ rebuilt.rails[f] # committed.rails[f]}

Reproduced(committed, rebuilt) ==
    /\ Mismatches(committed, rebuilt) = {}
    /\ SameShare(rebuilt.share, committed.share)

Verdict(v, committed) ==
    /\ At(v, "built")
    /\ End(v, IF Reproduced(committed, Built(v)) THEN "PASS" ELSE "FAIL")
    /\ UNCHANGED <<journal, raw, published, manifest>>

\* The publication is read when it is compared, after the raw data.
JudgeReadsLast(v) == published \notin {Missing, Empty} /\ Verdict(v, published)

Judge(v) == Verdict(v, run[v].committed)

-----------------------------------------------------------------------------

Ended == {"done", "PASS", "FAIL", "dead"}

\* A run raises (a file is missing, empty or malformed) or is killed.
Die(r) == /\ run[r].stage \notin Ended \cup {"idle"}
          /\ End(r, "dead")
          /\ UNCHANGED <<journal, raw, published, manifest>>

BuildStep(b) ==
    \/ StartBuild(b) \/ OpenPublished(b) \/ FillPublished(b)
    \/ OpenManifest(b) \/ FillManifest(b)

RunStep(r) ==
    LoadRails(r) \/ LoadX402(r) \/ CountExternal(r) \/ CountOwn(r) \/ Die(r)

Next ==
    \/ \E payer \in Accounts, own \in WriterLists : AppendNanoTx(payer, own)
    \/ \E rec \in Records : AddRecord(rec)
    \/ \E n \in Counts : SetCount(n)
    \/ \E b \in Builds : BuildStep(b)
    \/ \E v \in Verifies : StartVerify(v) \/ Judge(v)
    \/ \E r \in Runs : RunStep(r)

Spec == Init /\ [][Next]_vars

-----------------------------------------------------------------------------
(* Correctness.                                                            *)

Tables == UNION {[F -> Values] : F \in SUBSET Figures}
Shares == Nat \X Nat

Publications == [rails : Tables, x402 : Nat, external : Nat, own : Nat,
                 share : Shares, by : Builds, read : Nat]

Manifests == [rails : Tables, count : Nat, share : Shares, by : Builds]

Stages == {"idle", "started", "rails", "x402", "counted", "built", "opened",
           "published", "listing"} \cup Ended

RunRecords == [stage : Stages, committed : Publications \cup {Missing},
               rails : Seq(Records), x402 : Nat, external : Nat, own : Nat]

TypeOK ==
    /\ journal \in Seq(Accounts)
    /\ rails \in Seq(Records)
    /\ x402 \in Counts
    /\ published \in Publications \cup {Missing, Empty}
    /\ manifest \in Manifests \cup {Missing, Empty}
    /\ run \in [Runs -> RunRecords]

Present(file) == file \notin {Missing, Empty}

\* The receipts of others and of ours among the first k of the journal.
FromOthers(k) == Cardinality({i \in 1..k : journal[i] \notin Own})
FromUs(k) == Cardinality({i \in 1..k : journal[i] \in Own})

\* external is what by may have counted in a beginning of the journal.
Counted(by, external) ==
    IF by \in Journalled
    THEN \E k \in 0..Len(journal) : external = FromOthers(k)
    ELSE external = 0

\* The same of both counts; own was counted in a beginning no shorter.
CountedBoth(by, external, own) ==
    IF by \in Journalled
    THEN \E k \in 0..Len(journal) : \E m \in k..Len(journal) :
             external = FromOthers(k) /\ own = FromUs(m)
    ELSE external = 0 /\ own = 0

\* Whatever the writers' lists let through and whenever the receipts arrive, a
\* published scorecard counts payments of others only, each once: the share is
\* that of the receipts of others in one beginning of the journal, and the
\* receipts it says it excluded are ours, all those up to there at least
\* (build, count_external_receipts).
OwnAddsZero ==
    Present(published) =>
        CountedBoth(published.by, published.external, published.own)

\* However builds overlap and wherever they die, a manifest and a publication of
\* one build list the same figures (main: both come from the same build, though
\* the raw files may change between the two writes).
ManifestAgrees ==
    Present(published) /\ Present(manifest) /\ manifest.by = published.by =>
        /\ manifest.rails = published.rails
        /\ manifest.count = published.x402
        /\ manifest.share = published.share

\* Between its readings and its writes, a run holds counts of a beginning of the
\* journal, and a publication is what its build, if it still runs, holds.
RunsInv ==
    /\ \A r \in Runs : At(r, "counted") => Counted(r, run[r].external)
    /\ \A r \in Runs : run[r].stage \in {"built", "opened"} =>
                           CountedBoth(r, run[r].external, run[r].own)
    /\ Present(published) =>
        /\ run[published.by].stage \in {"published", "listing", "done", "dead"}
        /\ run[published.by].stage \in {"published", "listing"} =>
               published = Built(published.by)
    /\ Present(manifest) => At(manifest.by, "done")

\* The typing of the state, and what makes the two invariants above inductive
\* (the runs of main against the files and the journal they share).
ScoreInv == TypeOK /\ RunsInv /\ OwnAddsZero /\ ManifestAgrees

\* The first k raw records.
First(k) == [i \in 1..k |-> rails[i]]

\* A publication shows the figures of a beginning of the raw records, and the
\* share that goes with its counts.
Faithful(pub) == /\ pub.read \in 0..Len(rails)
                 /\ pub.rails = RailsTable(First(pub.read))
                 /\ pub.share = <<pub.external, pub.x402 + pub.external>>

Rebuilding == {"rails", "x402", "counted", "built"}

\* What is published, and what a verification holds, are the figures of the raw
\* records up to some moment, and a verification compares them with a build of
\* no fewer records (build, verify).
FiguresInv ==
    /\ Present(published) => Faithful(published)
    /\ \A r \in Runs : /\ Len(run[r].rails) <= Len(rails)
                       /\ run[r].rails = First(Len(run[r].rails))
                       /\ run[r].committed # Missing => Faithful(run[r].committed)
    /\ \A v \in Verifies : run[v].stage \in Rebuilding \cup {"started"} =>
                               run[v].committed # Missing
    /\ \A v \in Verifies : run[v].stage \in Rebuilding =>
                               run[v].committed.read <= Len(run[v].rails)

Judged(v, verdict) == run[v].stage = "built" /\ run'[v].stage = verdict

\* A verification fails only if something newer was measured than what the
\* publication was built from: a record of one of its figures dated no earlier
\* than those the build read, another x402 count, or other receipts.  A late
\* record of an earlier date, or a build running meanwhile, fails nothing
\* (_rail_figure, verify; this rests on verify reading the publication first).
FailMeansNewer ==
    [][\A v \in Verifies : Judged(v, "FAIL") =>
         LET committed == run[v].committed
             records == run[v].rails
         IN  \/ \E i \in (committed.read + 1)..Len(records) :
                  \A j \in 1..committed.read :
                     records[j].figure = records[i].figure =>
                         records[j].asOf <= records[i].asOf
             \/ run[v].x402 # committed.x402
             \/ run[v].external # committed.external]_vars

\* A verification passes only if each published rail figure is the value of a
\* record that no other record of its figure postdates, in the raw file as it
\* was read, and the share is zero only if the rebuilt one is.
PassMeansReproduced ==
    [][\A v \in Verifies : Judged(v, "PASS") =>
         LET committed == run[v].committed
             records == run[v].rails
         IN  /\ \A f \in DOMAIN committed.rails :
                  \E i \in Series(records, f) :
                     /\ records[i].value = committed.rails[f]
                     /\ \A j \in Series(records, f) :
                            records[j].asOf <= records[i].asOf
             /\ committed.external = 0 <=> run[v].external = 0]_vars

=============================================================================
