-------------------------- MODULE ScorecardProofs ---------------------------
(***************************************************************************)
(* Theorems about Scorecard, for any number of builds, verifications,      *)
(* receipts and raw records, and any lists of own accounts: ScoreInv is an *)
(* inductive invariant, own traffic adds zero, a manifest agrees with the  *)
(* publication of its build, and a verification that passes compared each  *)
(* figure with the latest record.                                          *)
(*                                                                         *)
(* The type of a table of figures already needs that every figure has a    *)
(* latest record: of the highest date and, among those, the last.          *)
(***************************************************************************)
EXTENDS Scorecard, FiniteSetTheorems, WellFoundedInduction, TLAPS

-----------------------------------------------------------------------------
(* The operators of build.                                                 *)

\* A figure that some record gives has a latest record.
LEMMA LatestIsLast ==
    ASSUME NEW records \in Seq(Records), NEW f, Series(records, f) # {}
    PROVE  /\ Latest(records, f) \in Series(records, f)
           /\ \A j \in Series(records, f) :
                  \/ records[j].asOf < records[Latest(records, f)].asOf
                  \/ /\ records[j].asOf = records[Latest(records, f)].asOf
                     /\ j <= Latest(records, f)
<1> DEFINE S == Series(records, f)
           Beats(j, i) == \/ records[j].asOf > records[i].asOf
                          \/ records[j].asOf = records[i].asOf /\ j > i
           Later(i) == {j \in S : Beats(j, i)}
           Laters == {Later(i) : i \in S}
<1>1. S \subseteq 1..Len(records) /\ Len(records) \in Nat
  BY DEF Series
<1>2. IsFiniteSet(S) /\ S \subseteq Nat
  <2>1. IsFiniteSet(1..Len(records))
    BY <1>1, FS_Interval
  <2>2. IsFiniteSet(S)
    <3> HIDE DEF S
    <3> QED BY <1>1, <2>1, FS_Subset
  <2> QED BY <1>1, <2>2
<1>3. \A i \in S : records[i].asOf \in Nat
  <2> SUFFICES ASSUME NEW i \in S PROVE records[i].asOf \in Nat
    OBVIOUS
  <2>1. records[i] \in Records
    BY <1>1
  <2> QED BY <2>1, DatesAssumption DEF Records
<1>4. PICK U \in Laters : \A V \in Laters : <<V, U>> \notin StrictSubsetOrdering(S)
  <2>1. IsWellFoundedOn(StrictSubsetOrdering(S), FiniteSubsetsOf(S))
    BY <1>2, FS_StrictSubsetOrderingWellFounded
  <2>2. Laters \subseteq FiniteSubsetsOf(S) /\ Laters # {}
    <3>1. \A i \in S : Later(i) \in SUBSET S /\ IsFiniteSet(Later(i))
      <4> HIDE DEF S
      <4> QED BY <1>2, FS_Subset
    <3>2. S # {}
      OBVIOUS
    <3> HIDE DEF S, Later
    <3> QED BY <3>1, <3>2 DEF FiniteSubsetsOf
  <2> HIDE DEF Laters
  <2> QED BY <2>1, <2>2, WFMin
<1>5. PICK last \in S : U = Later(last)
  OBVIOUS
<1>6. \A j \in S : \/ records[j].asOf < records[last].asOf
                   \/ records[j].asOf = records[last].asOf /\ j <= last
  <2> SUFFICES ASSUME NEW j \in S, Beats(j, last) PROVE FALSE
    BY <1>2, <1>3
  <2>1. Later(j) \subseteq U /\ j \in U /\ j \notin Later(j)
    <3>1. ~Beats(j, j) /\ \A k \in S : Beats(k, j) => Beats(k, last)
      BY <1>2, <1>3
    <3> HIDE DEF S, Beats, Laters
    <3> QED BY <1>5, <3>1
  <2>2. <<Later(j), U>> \in StrictSubsetOrdering(S)
    <3> HIDE DEF S, Beats
    <3> QED BY <1>5, <2>1 DEF StrictSubsetOrdering
  <2> QED BY <1>4, <2>2
<1>7. last \in S
  BY <1>5
<1>8. /\ Latest(records, f) \in S
      /\ \A j \in S : \/ records[j].asOf < records[Latest(records, f)].asOf
                      \/ /\ records[j].asOf = records[Latest(records, f)].asOf
                         /\ j <= Latest(records, f)
  BY <1>6, <1>7 DEF Latest
<1> QED BY <1>8

\* No other record of the figure is of a later date.
LEMMA LatestIsLatest ==
    ASSUME NEW records \in Seq(Records), NEW f, Series(records, f) # {}
    PROVE  /\ Latest(records, f) \in Series(records, f)
           /\ \A j \in Series(records, f) :
                  records[j].asOf <= records[Latest(records, f)].asOf
<1>1. \A i \in Series(records, f) : records[i].asOf \in Nat
  <2> SUFFICES ASSUME NEW i \in Series(records, f) PROVE records[i].asOf \in Nat
    OBVIOUS
  <2>1. records[i] \in Records
    BY DEF Series
  <2> QED BY <2>1, DatesAssumption DEF Records
<1> QED BY <1>1, LatestIsLast

\* The table has one value for each figure that some record gives: that of its
\* latest record.
LEMMA TableOfRecords ==
    ASSUME NEW records \in Seq(Records)
    PROVE  /\ RailsTable(records) \in Tables
           /\ \A f \in DOMAIN RailsTable(records) :
                 /\ Series(records, f) # {}
                 /\ RailsTable(records)[f] = records[Latest(records, f)].value
<1> DEFINE F == {records[i].figure : i \in DOMAIN records}
<1>1. \A i \in DOMAIN records : records[i] \in Records
  OBVIOUS
<1>2. F \in SUBSET Figures
  BY <1>1 DEF Records
<1>3. \A f \in F : Series(records, f) # {}
  BY DEF Series
<1>4. \A f \in F : records[Latest(records, f)].value \in Values
  <2> SUFFICES ASSUME NEW f \in F PROVE records[Latest(records, f)].value \in Values
    OBVIOUS
  <2>1. Latest(records, f) \in DOMAIN records
    BY <1>3, LatestIsLatest DEF Series
  <2> QED BY <2>1, <1>1 DEF Records
<1>5. RailsTable(records) = [f \in F |-> records[Latest(records, f)].value]
  BY DEF RailsTable
<1>6. RailsTable(records) \in [F -> Values]
  BY <1>4, <1>5
<1>7. RailsTable(records) \in Tables
  BY <1>2, <1>6 DEF Tables
<1> QED BY <1>3, <1>5, <1>7

\* The counts of a whole journal, and of its beginnings, are numbers.
LEMMA CountsOfReceipts ==
    ASSUME NEW receipts, NEW N \in Nat, DOMAIN receipts = 1..N
    PROVE  /\ External(receipts) \in Nat
           /\ OwnReceipts(receipts) \in Nat
<1>1. IsFiniteSet(1..N)
  BY FS_Interval
<1>2. /\ IsFiniteSet({i \in 1..N : receipts[i] \notin Own})
      /\ IsFiniteSet({i \in 1..N : receipts[i] \in Own})
  BY <1>1, FS_Subset
<1> QED BY <1>2, FS_CardinalityType DEF External, OwnReceipts

\* What r counts in a journal of the right type.
LEMMA Readings ==
    ASSUME TypeOK, NEW r
    PROVE  /\ External(Read(r)) \in Nat /\ OwnReceipts(Read(r)) \in Nat
           /\ r \in Journalled =>
                 /\ External(Read(r)) = FromOthers(Len(journal))
                 /\ OwnReceipts(Read(r)) = FromUs(Len(journal))
           /\ r \notin Journalled =>
                 External(Read(r)) = 0 /\ OwnReceipts(Read(r)) = 0
<1>1. Len(journal) \in Nat /\ DOMAIN journal = 1..Len(journal)
  BY DEF TypeOK
<1>2. CASE r \in Journalled
  BY <1>1, <1>2, CountsOfReceipts DEF Read, External, OwnReceipts, FromOthers, FromUs
<1>3. CASE r \notin Journalled
  <2>1. Read(r) = << >> /\ DOMAIN Read(r) = {}
    BY <1>3 DEF Read
  <2>2. /\ {i \in DOMAIN Read(r) : Read(r)[i] \notin Own} = {}
        /\ {i \in DOMAIN Read(r) : Read(r)[i] \in Own} = {}
    BY <2>1
  <2> QED BY <2>2, <1>3, FS_EmptySet DEF External, OwnReceipts
<1> QED BY <1>2, <1>3

\* What a run builds is a publication.
LEMMA BuiltTyped ==
    ASSUME TypeOK, NEW b \in Builds
    PROVE  Built(b) \in Publications /\ Manifest(b) \in Manifests
<1>1. run[b] \in RunRecords
  BY DEF TypeOK, Runs
<1>2. /\ RailsTable(run[b].rails) \in Tables
      /\ Len(run[b].rails) \in Nat
      /\ run[b].external \in Nat /\ run[b].own \in Nat /\ run[b].x402 \in Nat
  BY <1>1, TableOfRecords DEF RunRecords
<1>3. Share(run[b].external, run[b].x402) \in Shares
  BY <1>2 DEF Share, Shares
<1> QED BY <1>2, <1>3 DEF Built, Manifest, Publications, Manifests

-----------------------------------------------------------------------------
(* Typing.                                                                 *)

\* A run that goes on keeps its locals, and one that ends keeps none.
LEMMA RunTyped ==
    ASSUME TypeOK, NEW r \in Runs, NEW stage \in Stages
    PROVE  /\ Goto(r, stage) => run' \in [Runs -> RunRecords]
           /\ End(r, stage) => run' \in [Runs -> RunRecords]
<1>1. run[r] \in RunRecords /\ run \in [Runs -> RunRecords]
  BY DEF TypeOK
<1>2. [run[r] EXCEPT !.stage = stage] \in RunRecords
  BY <1>1 DEF RunRecords
<1>3. [Idle EXCEPT !.stage = stage] \in RunRecords
  <2>1. << >> \in Seq(Records)
    OBVIOUS
  <2> DEFINE none == << >>
  <2>2. [Idle EXCEPT !.stage = stage]
          = [stage |-> stage, committed |-> Missing, rails |-> none, x402 |-> 0,
             external |-> 0, own |-> 0]
    BY DEF Idle
  <2> HIDE DEF none
  <2>3. none \in Seq(Records)
    BY <2>1 DEF none
  <2> QED BY <2>2, <2>3 DEF RunRecords
<1> QED BY <1>1, <1>2, <1>3 DEF Goto, End

\* Every step keeps the types.
LEMMA TypeStep == TypeOK /\ [Next]_vars => TypeOK'
<1> SUFFICES ASSUME TypeOK, [Next]_vars PROVE TypeOK'
  OBVIOUS
<1> USE DEF TypeOK
<1>1. \A r \in Runs : run[r] \in RunRecords
  OBVIOUS
<1>2. CASE UNCHANGED vars
  BY <1>2 DEF vars, raw
<1>3. ASSUME NEW payer \in Accounts, NEW own \in WriterLists, AppendNanoTx(payer, own)
      PROVE  TypeOK'
  <2>1. journal' \in Seq(Accounts)
    BY <1>3 DEF AppendNanoTx
  <2> QED BY <1>3, <2>1 DEF AppendNanoTx, raw
<1>4. ASSUME NEW rec \in Records, AddRecord(rec) PROVE TypeOK'
  <2>1. rails' \in Seq(Records)
    BY <1>4 DEF AddRecord
  <2> QED BY <1>4, <2>1 DEF AddRecord
<1>5. ASSUME NEW n \in Counts, SetCount(n) PROVE TypeOK'
  BY <1>5 DEF SetCount
<1>6. ASSUME NEW b \in Builds, BuildStep(b) PROVE TypeOK'
  <2>1. b \in Runs
    BY DEF Runs
  <2>2. CASE StartBuild(b)
    BY <2>1, <2>2, RunTyped DEF StartBuild, Stages, raw
  <2>3. CASE OpenPublished(b)
    BY <2>1, <2>3, RunTyped DEF OpenPublished, Stages, raw
  <2>4. CASE FillPublished(b)
    <3>1. run' \in [Runs -> RunRecords]
      BY <2>1, <2>4, RunTyped DEF FillPublished, Stages
    <3>2. published' \in Publications
      BY <2>4, BuiltTyped DEF FillPublished
    <3> QED BY <2>4, <3>1, <3>2 DEF FillPublished, raw
  <2>5. CASE OpenManifest(b)
    BY <2>1, <2>5, RunTyped DEF OpenManifest, Stages, raw
  <2>6. CASE FillManifest(b)
    <3>1. run' \in [Runs -> RunRecords]
      BY <2>1, <2>6, RunTyped DEF FillManifest, Stages, Ended
    <3>2. manifest' \in Manifests
      BY <2>6, BuiltTyped DEF FillManifest
    <3> QED BY <2>6, <3>1, <3>2 DEF FillManifest, raw
  <2> QED BY <1>6, <2>2, <2>3, <2>4, <2>5, <2>6 DEF BuildStep
<1>7. ASSUME NEW v \in Verifies, StartVerify(v) PROVE TypeOK'
  <2>1. v \in Runs
    BY DEF Runs
  <2>2. CASE published \in {Missing, Empty}
    BY <1>7, <2>1, <2>2, RunTyped DEF StartVerify, Stages, Ended, raw
  <2>3. CASE published \notin {Missing, Empty}
    <3>1. published \in Publications
      BY <2>3
    <3>2. [run[v] EXCEPT !.stage = "started", !.committed = published] \in RunRecords
      BY <1>1, <2>1, <3>1 DEF RunRecords, Stages
    <3>3. run' \in [Runs -> RunRecords]
      BY <1>7, <2>1, <2>3, <3>2 DEF StartVerify
    <3> QED BY <1>7, <3>3 DEF StartVerify, raw
  <2> QED BY <2>2, <2>3
<1>8. ASSUME NEW v \in Verifies, Judge(v) PROVE TypeOK'
  <2>1. v \in Runs
    BY DEF Runs
  <2>2. PICK how \in {"PASS", "FAIL"} : End(v, how)
    BY <1>8 DEF Judge, Verdict
  <2> QED BY <1>8, <2>1, <2>2, RunTyped DEF Judge, Verdict, Stages, Ended, raw
<1>9. ASSUME NEW r \in Runs, RunStep(r) PROVE TypeOK'
  <2>1. CASE LoadRails(r)
    <3>1. [run[r] EXCEPT !.stage = "rails", !.rails = rails] \in RunRecords
      BY <1>1 DEF RunRecords, Stages
    <3> QED BY <2>1, <3>1 DEF LoadRails, raw
  <2>2. CASE LoadX402(r)
    <3>1. [run[r] EXCEPT !.stage = "x402", !.x402 = x402] \in RunRecords
      BY <1>1, CountsAssumption DEF RunRecords, Stages
    <3> QED BY <2>2, <3>1 DEF LoadX402, raw
  <2>3. CASE CountExternal(r)
    <3>1. External(Read(r)) \in Nat
      BY Readings
    <3>2. [run[r] EXCEPT !.stage = "counted", !.external = External(Read(r))]
            \in RunRecords
      BY <1>1, <3>1 DEF RunRecords, Stages
    <3> QED BY <2>3, <3>2 DEF CountExternal, raw
  <2>4. CASE CountOwn(r)
    <3>1. OwnReceipts(Read(r)) \in Nat
      BY Readings
    <3>2. [run[r] EXCEPT !.stage = "built", !.own = OwnReceipts(Read(r))]
            \in RunRecords
      BY <1>1, <3>1 DEF RunRecords, Stages
    <3> QED BY <2>4, <3>2 DEF CountOwn, raw
  <2>5. CASE Die(r)
    BY <2>5, RunTyped DEF Die, Stages, Ended, raw
  <2> QED BY <1>9, <2>1, <2>2, <2>3, <2>4, <2>5 DEF RunStep
<1> QED BY <1>2, <1>3, <1>4, <1>5, <1>6, <1>7, <1>8, <1>9 DEF Next

-----------------------------------------------------------------------------
(* The invariant.                                                          *)

\* The journal only grows, so what was counted in a beginning of it stays so.
LEMMA BeginningsKept ==
    ASSUME TypeOK, [Next]_vars
    PROVE  /\ \A by, external : Counted(by, external) => Counted(by, external)'
           /\ \A by, external, own :
                  CountedBoth(by, external, own) => CountedBoth(by, external, own)'
<1>1. /\ Len(journal) \in Nat /\ Len(journal') \in Nat
      /\ Len(journal) <= Len(journal')
      /\ \A i \in 1..Len(journal) : journal'[i] = journal[i]
  <2>1. CASE UNCHANGED journal
    BY <2>1 DEF TypeOK
  <2>2. ASSUME NEW payer \in Accounts, NEW own \in WriterLists, AppendNanoTx(payer, own)
        PROVE  <1>1!:
    BY <2>2 DEF AppendNanoTx, TypeOK
  <2> QED
    BY <2>1, <2>2 DEF Next, vars, AddRecord, SetCount, BuildStep, StartBuild,
       OpenPublished, FillPublished, OpenManifest, FillManifest, StartVerify, Judge,
       Verdict, RunStep, LoadRails, LoadX402, CountExternal, CountOwn, Die
<1>2. \A k \in 0..Len(journal) : FromOthers(k)' = FromOthers(k) /\ FromUs(k)' = FromUs(k)
  <2> SUFFICES ASSUME NEW k \in 0..Len(journal)
               PROVE  FromOthers(k)' = FromOthers(k) /\ FromUs(k)' = FromUs(k)
    OBVIOUS
  <2>1. /\ {i \in 1..k : journal'[i] \notin Own} = {i \in 1..k : journal[i] \notin Own}
        /\ {i \in 1..k : journal'[i] \in Own} = {i \in 1..k : journal[i] \in Own}
    BY <1>1
  <2> QED BY <2>1 DEF FromOthers, FromUs
<1>3. /\ \A k \in 0..Len(journal) : k \in 0..Len(journal')
      /\ \A k \in 0..Len(journal) : \A m \in k..Len(journal) :
            m \in 0..Len(journal) /\ m \in k..Len(journal')
  BY <1>1
<1>4. \A by, external : Counted(by, external) => Counted(by, external)'
  BY <1>2, <1>3 DEF Counted
<1>5. \A by, external, own :
          CountedBoth(by, external, own) => CountedBoth(by, external, own)'
  BY <1>2, <1>3 DEF CountedBoth
<1> QED BY <1>4, <1>5

\* A step of a run that writes no file keeps the invariant if what the run
\* counted is right and it was not the publisher of the standing publication,
\* unless it dies.
LEMMA LocalStep ==
    ASSUME ScoreInv, [Next]_vars, TypeOK', NEW r \in Runs, UNCHANGED <<published, manifest>>,
           \A q \in Runs : q # r => run'[q] = run[q],
           run[r].stage \notin {"done", "dead"},
           run'[r].stage \notin {"published", "listing"},
           run[r].stage \in {"published", "listing"} => run'[r].stage = "dead",
           At(r, "counted")' => Counted(r, run[r].external)',
           run'[r].stage \in {"built", "opened"} =>
               CountedBoth(r, run[r].external, run[r].own)'
    PROVE  ScoreInv'
<1> USE DEF ScoreInv
<1>1. Present(published)' <=> Present(published)
  BY DEF Present
<1>2. Present(manifest)' <=> Present(manifest)
  BY DEF Present
<1>3. Present(published) => published \in Publications /\ published.by \in Runs
  BY DEF TypeOK, Present, Publications, Runs
<1>4. Present(manifest) => manifest \in Manifests /\ manifest.by \in Runs
  BY DEF TypeOK, Present, Manifests, Runs
<1>5. RunsInv'
  <2>1. ASSUME NEW q \in Runs, At(q, "counted")' PROVE Counted(q, run[q].external)'
    <3>1. CASE q = r
      BY <2>1, <3>1
    <3>2. CASE q # r
      <4>1. At(q, "counted") /\ run'[q].external = run[q].external
        BY <2>1, <3>2 DEF At
      <4>2. Counted(q, run[q].external)
        BY <4>1 DEF RunsInv
      <4>3. \A e : Counted(q, e) => Counted(q, e)'
        BY BeginningsKept
      <4> QED BY <4>1, <4>2, <4>3 DEF Counted
    <3> QED BY <3>1, <3>2
  <2>2. ASSUME NEW q \in Runs, run'[q].stage \in {"built", "opened"}
        PROVE  CountedBoth(q, run[q].external, run[q].own)'
    <3>1. CASE q = r
      BY <2>2, <3>1
    <3>2. CASE q # r
      <4>1. /\ run[q].stage \in {"built", "opened"}
            /\ run'[q].external = run[q].external /\ run'[q].own = run[q].own
        BY <2>2, <3>2
      <4>2. CountedBoth(q, run[q].external, run[q].own)
        BY <4>1 DEF RunsInv
      <4>3. PICK e, o : e = run[q].external /\ o = run[q].own
        OBVIOUS
      <4>4. CountedBoth(q, e, o)'
        <5>1. CountedBoth(q, e, o)
          BY <4>2, <4>3
        <5> QED BY <5>1, BeginningsKept
      <4> QED BY <4>1, <4>3, <4>4 DEF CountedBoth
    <3> QED BY <3>1, <3>2
  <2>3. ASSUME Present(published)
        PROVE  /\ run'[published.by].stage \in {"published", "listing", "done", "dead"}
               /\ run'[published.by].stage \in {"published", "listing"} =>
                      published = Built(published.by)'
    <3>1. /\ run[published.by].stage \in {"published", "listing", "done", "dead"}
          /\ run[published.by].stage \in {"published", "listing"} =>
                 published = Built(published.by)
      BY <2>3 DEF RunsInv
    <3>2. CASE published.by = r
      BY <3>1, <3>2
    <3>3. CASE published.by # r
      <4>1. run'[published.by] = run[published.by]
        BY <1>3, <2>3, <3>3
      <4>2. Built(published.by)' = Built(published.by)
        BY <4>1 DEF Built
      <4> QED BY <3>1, <4>1, <4>2
    <3> QED BY <3>2, <3>3
  <2>4. Present(manifest) => At(manifest.by, "done")'
    <3> SUFFICES ASSUME Present(manifest) PROVE run'[manifest.by].stage = "done"
      BY DEF At
    <3>1. run[manifest.by].stage = "done"
      BY DEF RunsInv, At
    <3> QED BY <3>1, <1>4
  <2> QED BY <1>1, <1>2, <2>1, <2>2, <2>3, <2>4 DEF RunsInv
<1>6. OwnAddsZero'
  <2> SUFFICES ASSUME Present(published)
               PROVE  CountedBoth(published.by, published.external, published.own)'
    BY <1>1 DEF OwnAddsZero
  <2>1. CountedBoth(published.by, published.external, published.own)
    BY DEF OwnAddsZero
  <2>2. PICK by, e, o : by = published.by /\ e = published.external /\ o = published.own
    OBVIOUS
  <2>3. CountedBoth(by, e, o)'
    <3>1. CountedBoth(by, e, o)
      BY <2>1, <2>2
    <3> QED BY <3>1, BeginningsKept
  <2> QED BY <2>2, <2>3 DEF CountedBoth
<1>7. ManifestAgrees'
  BY <1>1, <1>2 DEF ManifestAgrees
<1> QED BY <1>5, <1>6, <1>7

\* A step of the sources keeps it.
LEMMA SourceStep ==
    ASSUME ScoreInv, [Next]_vars, TypeOK', UNCHANGED <<published, manifest, run>>
    PROVE  ScoreInv'
<1> USE DEF ScoreInv
<1>1. /\ Present(published)' <=> Present(published)
      /\ Present(manifest)' <=> Present(manifest)
  BY DEF Present
<1>2. RunsInv'
  <2>1. ASSUME NEW q \in Runs, At(q, "counted")' PROVE Counted(q, run[q].external)'
    <3>1. Counted(q, run[q].external)
      BY <2>1 DEF RunsInv, At
    <3>2. \A e : Counted(q, e) => Counted(q, e)'
      BY BeginningsKept
    <3> QED BY <3>1, <3>2 DEF Counted
  <2>2. ASSUME NEW q \in Runs, run'[q].stage \in {"built", "opened"}
        PROVE  CountedBoth(q, run[q].external, run[q].own)'
    <3>1. PICK e, o : e = run[q].external /\ o = run[q].own
      OBVIOUS
    <3>2. CountedBoth(q, e, o)'
      <4>1. CountedBoth(q, e, o)
        BY <2>2, <3>1 DEF RunsInv
      <4> QED BY <4>1, BeginningsKept
    <3> QED BY <3>1, <3>2 DEF CountedBoth
  <2>3. Present(published) =>
            /\ run'[published.by].stage \in {"published", "listing", "done", "dead"}
            /\ run'[published.by].stage \in {"published", "listing"} =>
                   published = Built(published.by)'
    BY DEF RunsInv, Built
  <2>4. Present(manifest) => At(manifest.by, "done")'
    BY DEF RunsInv, At
  <2> QED BY <1>1, <2>1, <2>2, <2>3, <2>4 DEF RunsInv
<1>3. OwnAddsZero'
  <2> SUFFICES ASSUME Present(published)
               PROVE  CountedBoth(published.by, published.external, published.own)'
    BY <1>1 DEF OwnAddsZero
  <2>1. PICK by, e, o : by = published.by /\ e = published.external /\ o = published.own
    OBVIOUS
  <2>2. CountedBoth(by, e, o)'
    <3>1. CountedBoth(by, e, o)
      BY <2>1 DEF OwnAddsZero
    <3> QED BY <3>1, BeginningsKept
  <2> QED BY <2>1, <2>2 DEF CountedBoth
<1>4. ManifestAgrees'
  BY <1>1 DEF ManifestAgrees
<1> QED BY <1>2, <1>3, <1>4

\* A step of a build that writes one of its files keeps it.
LEMMA WriteStep ==
    ASSUME ScoreInv, [Next]_vars, TypeOK', NEW b \in Builds,
           OpenPublished(b) \/ FillPublished(b) \/ OpenManifest(b) \/ FillManifest(b)
    PROVE  ScoreInv'
<1> USE DEF ScoreInv
<1>1. b \in Runs /\ run \in [Runs -> RunRecords]
  BY DEF Runs, TypeOK
<1>2. UNCHANGED journal
  BY DEF OpenPublished, FillPublished, OpenManifest, FillManifest
<1>3. /\ \A q, e : Counted(q, e)' <=> Counted(q, e)
      /\ \A q, e, o : CountedBoth(q, e, o)' <=> CountedBoth(q, e, o)
  BY <1>2 DEF Counted, CountedBoth, FromOthers, FromUs
<1>4. \A q \in Runs : q # b => run'[q] = run[q]
  BY <1>1 DEF OpenPublished, FillPublished, OpenManifest, FillManifest, Goto, End
<1>5. /\ OpenPublished(b) => run'[b] = [run[b] EXCEPT !.stage = "opened"]
      /\ FillPublished(b) => run'[b] = [run[b] EXCEPT !.stage = "published"]
      /\ OpenManifest(b) => run'[b] = [run[b] EXCEPT !.stage = "listing"]
      /\ FillManifest(b) => run'[b] = [Idle EXCEPT !.stage = "done"]
  BY <1>1 DEF OpenPublished, FillPublished, OpenManifest, FillManifest, Goto, End
<1>6. /\ OpenPublished(b) => run[b].stage = "built" /\ run'[b].stage = "opened"
      /\ FillPublished(b) => run[b].stage = "opened" /\ run'[b].stage = "published"
      /\ OpenManifest(b) => run[b].stage = "published" /\ run'[b].stage = "listing"
      /\ FillManifest(b) => run[b].stage = "listing" /\ run'[b].stage = "done"
  <2>1. run[b] \in RunRecords /\ Idle.stage = "idle"
    BY <1>1 DEF Idle
  <2> QED
    BY <1>5, <2>1 DEF OpenPublished, FillPublished, OpenManifest, FillManifest, At,
       RunRecords, Idle
<1>7. ASSUME NEW q \in Runs, At(q, "counted")' PROVE Counted(q, run[q].external)'
  <2>1. q # b
    BY <1>6, <1>7 DEF At
  <2>2. Counted(q, run[q].external) /\ run'[q] = run[q]
    BY <1>4, <1>7, <2>1 DEF RunsInv, At
  <2> QED BY <1>2, <2>2 DEF Counted, FromOthers
<1>8. ASSUME NEW q \in Runs, run'[q].stage \in {"built", "opened"}
      PROVE  CountedBoth(q, run[q].external, run[q].own)'
  <2>1. CASE q # b
    <3>1. CountedBoth(q, run[q].external, run[q].own) /\ run'[q] = run[q]
      BY <1>4, <1>8, <2>1 DEF RunsInv
    <3> QED BY <1>2, <3>1 DEF CountedBoth, FromOthers, FromUs
  <2>2. CASE q = b
    <3>1. OpenPublished(b) /\ run[b].stage = "built"
      BY <1>6, <1>8, <2>2
    <3>2. CountedBoth(b, run[b].external, run[b].own)
      BY <1>1, <3>1 DEF RunsInv
    <3>3. run'[b].external = run[b].external /\ run'[b].own = run[b].own
      BY <1>1, <1>5, <3>1 DEF RunRecords
    <3> QED BY <1>2, <2>2, <3>2, <3>3 DEF CountedBoth, FromOthers, FromUs
  <2> QED BY <2>1, <2>2
<1>9. Present(published) => published.by \in Runs
  BY DEF TypeOK, Present, Publications, Runs
<1>10. Present(manifest) => manifest.by \in Runs
  BY DEF TypeOK, Present, Manifests, Runs
<1>11. CASE OpenPublished(b)
  <2>1. ~ Present(published)' /\ (Present(manifest)' <=> Present(manifest))
    BY <1>11 DEF OpenPublished, Present
  <2>2. Present(manifest) => At(manifest.by, "done")'
    BY <1>4, <1>6, <1>10, <1>11 DEF OpenPublished, RunsInv, At
  <2>3. RunsInv'
    BY <1>7, <1>8, <1>11, <2>1, <2>2 DEF RunsInv, OpenPublished
  <2> QED BY <2>1, <2>3 DEF OwnAddsZero, ManifestAgrees
<1>12. CASE FillPublished(b)
  <2>1. /\ published' = Built(b) /\ published'.by = b
        /\ Present(manifest)' <=> Present(manifest)
        /\ manifest' = manifest
    BY <1>12 DEF FillPublished, Built, Present
  <2>2. Built(b)' = Built(b)
    <3>1. /\ run'[b].rails = run[b].rails /\ run'[b].x402 = run[b].x402
          /\ run'[b].external = run[b].external /\ run'[b].own = run[b].own
      BY <1>1, <1>5, <1>12 DEF RunRecords
    <3> QED BY <3>1 DEF Built
  <2>3. Present(manifest) => manifest.by # b /\ At(manifest.by, "done")'
    BY <1>4, <1>6, <1>10, <1>12 DEF RunsInv, At, FillPublished
  <2>4. RunsInv'
    BY <1>6, <1>7, <1>8, <1>12, <2>1, <2>2, <2>3 DEF RunsInv
  <2>5. OwnAddsZero'
    <3>1. CountedBoth(b, run[b].external, run[b].own)
      BY <1>1, <1>6, <1>12 DEF RunsInv
    <3>2. published'.external = run[b].external /\ published'.own = run[b].own
      BY <2>1 DEF Built
    <3>3. CountedBoth(published.by, published.external, published.own)'
      BY <1>2, <2>1, <3>1, <3>2 DEF CountedBoth, FromOthers, FromUs
    <3> QED BY <3>3 DEF OwnAddsZero
  <2>6. ManifestAgrees'
    BY <2>1, <2>3 DEF ManifestAgrees
  <2> QED BY <2>4, <2>5, <2>6
<1>13. CASE OpenManifest(b)
  <2>1. /\ ~ Present(manifest)' /\ published' = published
        /\ Present(published)' <=> Present(published)
    BY <1>13 DEF OpenManifest, Present
  <2>2. Built(b)' = Built(b)
    <3>1. /\ run'[b].rails = run[b].rails /\ run'[b].x402 = run[b].x402
          /\ run'[b].external = run[b].external /\ run'[b].own = run[b].own
      BY <1>1, <1>5, <1>13 DEF RunRecords
    <3> QED BY <3>1 DEF Built
  <2>3. ASSUME Present(published)
        PROVE  /\ run'[published.by].stage \in {"published", "listing", "done", "dead"}
               /\ run'[published.by].stage \in {"published", "listing"} =>
                      published = Built(published.by)'
    <3>1. CASE published.by = b
      <4>1. published = Built(b)
        BY <1>6, <1>13, <2>3, <3>1 DEF RunsInv
      <4>2. Built(published.by)' = Built(b)'
        BY <2>1, <3>1 DEF Built
      <4> QED BY <1>6, <1>13, <2>2, <3>1, <4>1, <4>2
    <3>2. CASE published.by # b
      <4>1. run'[published.by] = run[published.by]
        BY <1>4, <1>9, <2>3, <3>2
      <4>2. Built(published.by)' = Built(published.by)
        BY <2>1, <4>1 DEF Built
      <4> QED BY <2>3, <4>1, <4>2 DEF RunsInv
    <3> QED BY <3>1, <3>2
  <2>4. RunsInv'
    BY <1>7, <1>8, <2>1, <2>3 DEF RunsInv
  <2>5. OwnAddsZero'
    BY <1>2, <2>1 DEF OwnAddsZero, CountedBoth, FromOthers, FromUs
  <2> QED BY <2>1, <2>4, <2>5 DEF ManifestAgrees
<1>14. CASE FillManifest(b)
  <2>1. /\ manifest' = Manifest(b) /\ manifest'.by = b /\ published' = published
        /\ Present(published)' <=> Present(published)
    BY <1>14 DEF FillManifest, Manifest, Present
  <2>2. ASSUME Present(published)
        PROVE  /\ run'[published.by].stage \in {"published", "listing", "done", "dead"}
               /\ run'[published.by].stage \in {"published", "listing"} =>
                      published = Built(published.by)'
    <3>1. CASE published.by = b
      BY <1>6, <1>14, <3>1
    <3>2. CASE published.by # b
      <4>1. run'[published.by] = run[published.by]
        BY <1>4, <1>9, <2>2, <3>2
      <4>2. Built(published.by)' = Built(published.by)
        BY <2>1, <4>1 DEF Built
      <4> QED BY <2>2, <4>1, <4>2 DEF RunsInv
    <3> QED BY <3>1, <3>2
  <2>3. RunsInv'
    BY <1>6, <1>7, <1>8, <1>14, <2>1, <2>2 DEF RunsInv, At
  <2>4. OwnAddsZero'
    BY <1>2, <2>1 DEF OwnAddsZero, CountedBoth, FromOthers, FromUs
  <2>5. ManifestAgrees'
    <3> SUFFICES ASSUME Present(published), published.by = b
                 PROVE  /\ Manifest(b).rails = published.rails
                        /\ Manifest(b).count = published.x402
                        /\ Manifest(b).share = published.share
      BY <2>1 DEF ManifestAgrees
    <3>1. published = Built(b)
      BY <1>6, <1>14 DEF RunsInv
    <3> QED BY <3>1 DEF Manifest, Built
  <2> QED BY <2>3, <2>4, <2>5
<1> QED BY <1>11, <1>12, <1>13, <1>14

\* Every step keeps the invariant.
LEMMA ScoreStep == ScoreInv /\ [Next]_vars => ScoreInv'
<1> SUFFICES ASSUME ScoreInv, [Next]_vars PROVE ScoreInv'
  OBVIOUS
<1>1. TypeOK /\ TypeOK'
  BY TypeStep DEF ScoreInv
<1>2. \A r \in Runs : run[r] \in RunRecords
  BY <1>1 DEF TypeOK
<1>3. CASE UNCHANGED vars
  BY <1>1, <1>3, SourceStep DEF vars
<1>4. ASSUME NEW payer \in Accounts, NEW own \in WriterLists, AppendNanoTx(payer, own)
      PROVE  ScoreInv'
  BY <1>1, <1>4, SourceStep DEF AppendNanoTx
<1>5. ASSUME NEW rec \in Records, AddRecord(rec) PROVE ScoreInv'
  BY <1>1, <1>5, SourceStep DEF AddRecord
<1>6. ASSUME NEW n \in Counts, SetCount(n) PROVE ScoreInv'
  BY <1>1, <1>6, SourceStep DEF SetCount
<1>7. ASSUME NEW b \in Builds, BuildStep(b) PROVE ScoreInv'
  <2>1. CASE StartBuild(b)
    <3>1. b \in Runs
      BY DEF Runs
    <3>2. /\ run[b].stage = "idle" /\ run'[b].stage = "started"
          /\ \A q \in Runs : q # b => run'[q] = run[q]
          /\ UNCHANGED <<published, manifest>>
      BY <1>1, <2>1, <3>1 DEF StartBuild, Goto, At, TypeOK, RunRecords
    <3> QED BY <1>1, <3>1, <3>2, LocalStep DEF At
  <2> QED BY <1>1, <1>7, <2>1, WriteStep DEF BuildStep
<1>8. ASSUME NEW v \in Verifies, StartVerify(v) PROVE ScoreInv'
  <2>1. v \in Runs
    BY DEF Runs
  <2>2. /\ run[v].stage = "idle" /\ run'[v].stage \in {"dead", "started"}
        /\ \A q \in Runs : q # v => run'[q] = run[q]
        /\ UNCHANGED <<published, manifest>>
    <3>1. CASE published \in {Missing, Empty}
      BY <1>1, <1>8, <2>1, <3>1 DEF StartVerify, End, Idle, At, TypeOK, RunRecords
    <3>2. CASE published \notin {Missing, Empty}
      BY <1>1, <1>8, <2>1, <3>2 DEF StartVerify, End, Idle, At, TypeOK, RunRecords
    <3> QED BY <3>1, <3>2
  <2> QED BY <1>1, <2>1, <2>2, LocalStep DEF At
<1>9. ASSUME NEW v \in Verifies, Judge(v) PROVE ScoreInv'
  <2>1. v \in Runs
    BY DEF Runs
  <2>2. PICK how \in {"PASS", "FAIL"} : End(v, how)
    BY <1>9 DEF Judge, Verdict
  <2>3. /\ run[v].stage = "built" /\ run'[v].stage = how
        /\ \A q \in Runs : q # v => run'[q] = run[q]
        /\ UNCHANGED <<published, manifest>>
    BY <1>1, <1>9, <2>1, <2>2 DEF Judge, Verdict, End, Idle, At, TypeOK
  <2> QED BY <1>1, <2>1, <2>2, <2>3, LocalStep DEF At
<1>10. ASSUME NEW r \in Runs, RunStep(r) PROVE ScoreInv'
  <2>1. /\ \A q \in Runs : q # r => run'[q] = run[q]
        /\ UNCHANGED <<journal, published, manifest>>
    BY <1>1, <1>10 DEF RunStep, LoadRails, LoadX402, CountExternal, CountOwn, Die, End,
       TypeOK
  <2>2. CASE LoadRails(r) \/ LoadX402(r)
    <3>1. run[r].stage \in {"started", "rails"} /\ run'[r].stage \in {"rails", "x402"}
      BY <1>1, <2>2 DEF LoadRails, LoadX402, At, TypeOK, RunRecords
    <3> QED BY <1>1, <2>1, <3>1, LocalStep DEF At
  <2>3. CASE CountExternal(r)
    <3>1. /\ run[r].stage = "x402" /\ run'[r].stage = "counted"
          /\ run'[r].external = External(Read(r))
      BY <1>1, <2>3 DEF CountExternal, At, TypeOK, RunRecords
    <3>2. Counted(r, External(Read(r)))
      <4>1. Len(journal) \in 0..Len(journal)
        BY <1>1 DEF TypeOK
      <4> QED BY <1>1, <4>1, Readings DEF Counted
    <3>3. Counted(r, run[r].external)'
      BY <2>1, <3>1, <3>2 DEF Counted, FromOthers
    <3> QED BY <1>1, <2>1, <3>1, <3>3, LocalStep DEF At
  <2>4. CASE CountOwn(r)
    <3>1. /\ run[r].stage = "counted" /\ run'[r].stage = "built"
          /\ run'[r].own = OwnReceipts(Read(r)) /\ run'[r].external = run[r].external
      BY <1>1, <2>4 DEF CountOwn, At, TypeOK, RunRecords
    <3>2. Counted(r, run[r].external)
      BY <3>1 DEF ScoreInv, RunsInv, At
    <3>3. CountedBoth(r, run[r].external, OwnReceipts(Read(r)))
      <4>1. CASE r \in Journalled
        <5>1. PICK k \in 0..Len(journal) : run[r].external = FromOthers(k)
          BY <3>2, <4>1 DEF Counted
        <5>2. Len(journal) \in k..Len(journal)
          BY <1>1, <5>1 DEF TypeOK
        <5> QED BY <1>1, <4>1, <5>1, <5>2, Readings DEF CountedBoth
      <4>2. CASE r \notin Journalled
        BY <1>1, <3>2, <4>2, Readings DEF Counted, CountedBoth
      <4> QED BY <4>1, <4>2
    <3>4. CountedBoth(r, run[r].external, run[r].own)'
      BY <2>1, <3>1, <3>3 DEF CountedBoth, FromOthers, FromUs
    <3> QED BY <1>1, <2>1, <3>1, <3>4, LocalStep DEF At
  <2>5. CASE Die(r)
    <3>1. run[r].stage \notin {"done", "dead"} /\ run'[r].stage = "dead"
      BY <1>1, <2>5 DEF Die, Ended, End, Idle, TypeOK
    <3> QED BY <1>1, <2>1, <3>1, LocalStep DEF At
  <2> QED BY <1>10, <2>2, <2>3, <2>4, <2>5 DEF RunStep
<1> QED BY <1>3, <1>4, <1>5, <1>6, <1>7, <1>8, <1>9, <1>10 DEF Next

\* Before anything ran there is nothing to agree on.
LEMMA ScoreStart == Init => ScoreInv
<1> SUFFICES ASSUME Init PROVE ScoreInv
  OBVIOUS
<1>1. Idle \in RunRecords
  <2>1. << >> \in Seq(Records)
    OBVIOUS
  <2> DEFINE none == << >>
  <2>2. Idle = [stage |-> "idle", committed |-> Missing, rails |-> none, x402 |-> 0,
                external |-> 0, own |-> 0]
    BY DEF Idle
  <2> HIDE DEF none
  <2>3. none \in Seq(Records)
    BY <2>1 DEF none
  <2> QED BY <2>2, <2>3 DEF RunRecords, Stages
<1>2. TypeOK
  <2>1. << >> \in Seq(Accounts) /\ << >> \in Seq(Records)
    OBVIOUS
  <2> QED BY <1>1, <2>1 DEF Init, TypeOK
<1>3. ~ Present(published) /\ ~ Present(manifest)
  BY DEF Init, Present
<1>4. \A r \in Runs : run[r].stage = "idle"
  BY DEF Init, Idle
<1>5. RunsInv
  BY <1>3, <1>4 DEF RunsInv, At
<1> QED BY <1>2, <1>3, <1>5 DEF ScoreInv, OwnAddsZero, ManifestAgrees

\* The invariant holds throughout, for any number of runs, receipts and records.
THEOREM ScoreInvariance == Spec => []ScoreInv
<1> QED BY ScoreStart, ScoreStep, PTL DEF Spec

\* What is published counts the payments of others only, and calls excluded only
\* our own, whatever arrives while a build reads its journal twice.
THEOREM OwnTrafficAddsZero == Spec => []OwnAddsZero
<1>1. ScoreInv => OwnAddsZero
  BY DEF ScoreInv
<1> QED BY <1>1, ScoreInvariance, PTL

\* A manifest and a publication of one build never list different figures,
\* whatever happened between the two writes.
THEOREM ManifestOfItsPublication == Spec => []ManifestAgrees
<1>1. ScoreInv => ManifestAgrees
  BY DEF ScoreInv
<1> QED BY <1>1, ScoreInvariance, PTL

-----------------------------------------------------------------------------
(* What the figures are the figures of.                                    *)

\* The raw records only grow, so what shows a beginning of them goes on to.
LEMMA FiguresKept ==
    ASSUME TypeOK, [Next]_vars
    PROVE  /\ Len(rails) \in Nat /\ Len(rails') \in Nat /\ Len(rails) <= Len(rails')
           /\ \A k \in 0..Len(rails) : First(k)' = First(k)
           /\ \A pub : Faithful(pub) => Faithful(pub)'
<1>1. /\ Len(rails) \in Nat /\ Len(rails') \in Nat /\ Len(rails) <= Len(rails')
      /\ \A i \in 1..Len(rails) : rails'[i] = rails[i]
  <2>1. CASE UNCHANGED rails
    BY <2>1 DEF TypeOK
  <2>2. ASSUME NEW rec \in Records, AddRecord(rec) PROVE <1>1!:
    BY <2>2 DEF AddRecord, TypeOK
  <2> QED
    BY <2>1, <2>2 DEF Next, vars, raw, AppendNanoTx, SetCount, BuildStep, StartBuild,
       OpenPublished, FillPublished, OpenManifest, FillManifest, StartVerify, Judge,
       Verdict, RunStep, LoadRails, LoadX402, CountExternal, CountOwn, Die
<1>2. \A k \in 0..Len(rails) : First(k)' = First(k)
  BY <1>1 DEF First
<1>3. ASSUME NEW pub, Faithful(pub) PROVE Faithful(pub)'
  <2>1. pub.read \in 0..Len(rails) /\ pub.read \in 0..Len(rails')
    BY <1>1, <1>3 DEF Faithful
  <2>2. First(pub.read)' = First(pub.read)
    BY <1>2, <2>1
  <2> QED BY <1>3, <2>1, <2>2 DEF Faithful
<1> QED BY <1>1, <1>2, <1>3

\* The ways a step may change one run.
Stays(q) == run'[q] = run[q]
Ends(q) == run'[q].stage \in Ended /\ run'[q].committed = Missing /\ run'[q].rails = << >>
Commits(q) == /\ q \in Verifies /\ Present(published)
              /\ run'[q].stage = "started" /\ run'[q].committed = published
              /\ run'[q].rails = run[q].rails
Loads(q) == /\ run[q].stage = "started" /\ run'[q].stage = "rails"
            /\ run'[q].committed = run[q].committed /\ run'[q].rails = rails
Goes(q) == /\ \/ q \in Builds
              \/ run[q].stage \in Rebuilding /\ run'[q].stage \in Rebuilding
           /\ run'[q].committed = run[q].committed /\ run'[q].rails = run[q].rails

\* There are no others.
LEMMA RunMoves ==
    ASSUME TypeOK, [Next]_vars, NEW q \in Runs
    PROVE  Stays(q) \/ Ends(q) \/ Commits(q) \/ Loads(q) \/ Goes(q)
<1>1. run \in [Runs -> RunRecords] /\ run[q] \in RunRecords
  BY DEF TypeOK
<1>2. ASSUME NEW how \in Ended, End(q, how) PROVE Ends(q)
  BY <1>1, <1>2 DEF End, Idle, Ends
<1>3. CASE UNCHANGED run
  BY <1>3 DEF Stays
<1>4. ASSUME NEW b \in Builds, BuildStep(b)
      PROVE  Stays(q) \/ Ends(q) \/ Goes(q)
  <2>1. b \in Runs
    BY DEF Runs
  <2>2. CASE q # b
    BY <1>1, <1>4, <2>1, <2>2 DEF BuildStep, StartBuild, OpenPublished, FillPublished,
       OpenManifest, FillManifest, Goto, End, Stays
  <2>3. CASE q = b /\ FillManifest(b)
    BY <1>2, <2>3 DEF FillManifest, Ended
  <2>4. CASE q = b /\ ~ FillManifest(b)
    <3>1. PICK stage \in Stages : run'[q] = [run[q] EXCEPT !.stage = stage]
      BY <1>1, <1>4, <2>4 DEF BuildStep, StartBuild, OpenPublished, FillPublished,
         OpenManifest, Goto, Stages
    <3> QED BY <1>1, <2>4, <3>1 DEF Goes, RunRecords
  <2> QED BY <2>2, <2>3, <2>4
<1>5. ASSUME NEW v \in Verifies, StartVerify(v)
      PROVE  Stays(q) \/ Ends(q) \/ Commits(q)
  <2>1. CASE q # v
    BY <1>1, <1>5, <2>1 DEF StartVerify, End, Stays
  <2>2. CASE q = v /\ published \in {Missing, Empty}
    BY <1>2, <1>5, <2>2 DEF StartVerify, Ended
  <2>3. CASE q = v /\ published \notin {Missing, Empty}
    <3>1. run'[q] = [run[q] EXCEPT !.stage = "started", !.committed = published]
      BY <1>1, <1>5, <2>3 DEF StartVerify
    <3> QED BY <1>1, <1>5, <2>3, <3>1 DEF Commits, Present, RunRecords
  <2> QED BY <2>1, <2>2, <2>3
<1>6. ASSUME NEW v \in Verifies, Judge(v) PROVE Stays(q) \/ Ends(q)
  <2>1. PICK how \in {"PASS", "FAIL"} : End(v, how)
    BY <1>6 DEF Judge, Verdict
  <2>2. CASE q # v
    BY <1>1, <2>1, <2>2 DEF End, Stays
  <2>3. CASE q = v
    BY <1>2, <2>1, <2>3 DEF Ended
  <2> QED BY <2>2, <2>3
<1>7. ASSUME NEW r \in Runs, RunStep(r)
      PROVE  Stays(q) \/ Ends(q) \/ Loads(q) \/ Goes(q)
  <2>1. CASE q # r
    BY <1>1, <1>7, <2>1 DEF RunStep, LoadRails, LoadX402, CountExternal, CountOwn, Die,
       End, Stays
  <2>2. CASE q = r /\ LoadRails(r)
    <3>1. run'[q] = [run[q] EXCEPT !.stage = "rails", !.rails = rails]
      BY <1>1, <2>2 DEF LoadRails
    <3> QED BY <1>1, <2>2, <3>1 DEF Loads, LoadRails, At, RunRecords
  <2>3. CASE q = r /\ LoadX402(r)
    <3>1. run'[q] = [run[q] EXCEPT !.stage = "x402", !.x402 = x402]
      BY <1>1, <2>3 DEF LoadX402
    <3> QED BY <1>1, <2>3, <3>1 DEF Goes, LoadX402, At, RunRecords, Rebuilding
  <2>4. CASE q = r /\ CountExternal(r)
    <3>1. run'[q] = [run[q] EXCEPT !.stage = "counted", !.external = External(Read(r))]
      BY <1>1, <2>4 DEF CountExternal
    <3> QED BY <1>1, <2>4, <3>1 DEF Goes, CountExternal, At, RunRecords, Rebuilding
  <2>5. CASE q = r /\ CountOwn(r)
    <3>1. run'[q] = [run[q] EXCEPT !.stage = "built", !.own = OwnReceipts(Read(r))]
      BY <1>1, <2>5 DEF CountOwn
    <3> QED BY <1>1, <2>5, <3>1 DEF Goes, CountOwn, At, RunRecords, Rebuilding
  <2>6. CASE q = r /\ Die(r)
    BY <1>2, <2>6 DEF Die, Ended
  <2> QED BY <1>7, <2>1, <2>2, <2>3, <2>4, <2>5, <2>6 DEF RunStep
<1> QED
  BY <1>3, <1>4, <1>5, <1>6, <1>7 DEF Next, vars, AppendNanoTx, AddRecord, SetCount

\* The figures stay those of a beginning of the records.
LEMMA FiguresStep == TypeOK /\ FiguresInv /\ [Next]_vars => FiguresInv'
<1> SUFFICES ASSUME TypeOK, FiguresInv, [Next]_vars PROVE FiguresInv'
  OBVIOUS
<1>1. Len(rails) \in Nat /\ rails = First(Len(rails)) /\ First(0) = << >>
  BY DEF TypeOK, First
<1>2. /\ Len(rails') \in Nat /\ Len(rails) <= Len(rails')
      /\ \A k \in 0..Len(rails) : First(k)' = First(k)
      /\ \A pub : Faithful(pub) => Faithful(pub)'
  BY FiguresKept
<1>3. \A r \in Runs : run[r] \in RunRecords /\ Len(run[r].rails) \in Nat
  BY DEF TypeOK, RunRecords
<1>4. ASSUME Present(published)' PROVE Faithful(published)'
  <2>1. CASE published' = published
    <3>1. PICK pub : pub = published
      OBVIOUS
    <3>2. Faithful(pub)'
      <4>1. Faithful(pub)
        BY <1>4, <2>1, <3>1 DEF FiguresInv, Present
      <4> QED BY <1>2, <4>1
    <3> QED BY <2>1, <3>1, <3>2 DEF Faithful
  <2>2. ASSUME NEW b \in Builds, OpenPublished(b) PROVE FALSE
    BY <1>4, <2>2 DEF OpenPublished, Present
  <2>3. ASSUME NEW b \in Builds, FillPublished(b) PROVE Faithful(published)'
    <3>1. b \in Runs
      BY DEF Runs
    <3>2. /\ Len(run[b].rails) \in 0..Len(rails)
          /\ run[b].rails = First(Len(run[b].rails))
      BY <1>1, <1>3, <3>1 DEF FiguresInv
    <3>3. PICK pub : pub = Built(b)
      OBVIOUS
    <3>4. Faithful(pub)
      BY <3>2, <3>3 DEF Built, Faithful, Share
    <3>5. Faithful(pub)'
      BY <1>2, <3>4
    <3> QED BY <2>3, <3>3, <3>5 DEF FillPublished, Faithful
  <2> QED
    BY <2>1, <2>2, <2>3 DEF Next, vars, AppendNanoTx, AddRecord, SetCount, BuildStep,
       StartBuild, OpenManifest, FillManifest, StartVerify, Judge, Verdict, RunStep,
       LoadRails, LoadX402, CountExternal, CountOwn, Die
<1>5. ASSUME NEW q \in Runs
      PROVE  /\ Len(run'[q].rails) <= Len(rails')
             /\ run'[q].rails = First(Len(run[q].rails))'
  <2>1. PICK k \in 0..Len(rails) : run'[q].rails = First(k)
    <3>1. /\ Len(run[q].rails) \in 0..Len(rails)
          /\ run[q].rails = First(Len(run[q].rails))
      BY <1>1, <1>3 DEF FiguresInv
    <3>2. Len(rails) \in 0..Len(rails) /\ 0 \in 0..Len(rails)
      BY <1>1
    <3> QED BY <1>1, <3>1, <3>2, RunMoves DEF Stays, Ends, Commits, Loads, Goes
  <2>2. First(k)' = First(k)
    BY <1>2
  <2>3. Len(First(k)) = k
    BY <1>1 DEF First
  <2>4. Len(run'[q].rails) = k
    BY <2>1, <2>3
  <2>5. First(Len(run[q].rails))' = First(k)'
    BY <2>4 DEF First
  <2>6. k <= Len(rails')
    BY <1>1, <1>2
  <2> QED BY <2>1, <2>2, <2>4, <2>5, <2>6
<1>6. ASSUME NEW q \in Runs, run'[q].committed # Missing
      PROVE  Faithful(run[q].committed)'
  <2>1. PICK pub : pub = run'[q].committed
    OBVIOUS
  <2>2. CASE run'[q].committed = run[q].committed
    <3>1. Faithful(pub)
      BY <1>6, <2>1, <2>2 DEF FiguresInv
    <3>2. Faithful(pub)'
      BY <1>2, <3>1
    <3> QED BY <2>1, <3>2 DEF Faithful
  <2>3. CASE run'[q].committed = published /\ Present(published)
    <3>1. Faithful(pub)
      BY <2>1, <2>3 DEF FiguresInv
    <3>2. Faithful(pub)'
      BY <1>2, <3>1
    <3> QED BY <2>1, <3>2 DEF Faithful
  <2> QED BY <1>6, <2>2, <2>3, RunMoves DEF Stays, Ends, Commits, Loads, Goes
<1>7. ASSUME NEW v \in Verifies
      PROVE  /\ run'[v].stage \in Rebuilding \cup {"started"} =>
                    run'[v].committed # Missing
             /\ run'[v].stage \in Rebuilding =>
                    run'[v].committed.read <= Len(run'[v].rails)
  <2>1. v \in Runs /\ v \notin Builds
    BY RunsAssumption DEF Runs
  <2>2. CASE Stays(v) \/ Goes(v)
    BY <2>1, <2>2 DEF Stays, Goes, FiguresInv
  <2>3. CASE Ends(v)
    BY <2>3 DEF Ends, Ended, Rebuilding
  <2>4. CASE Commits(v)
    BY <2>4 DEF Commits, Present, Rebuilding
  <2>5. CASE Loads(v)
    <3>1. run[v].committed # Missing /\ Faithful(run[v].committed)
      BY <2>1, <2>5 DEF Loads, FiguresInv
    <3> QED BY <1>1, <2>5, <3>1 DEF Loads, Faithful
  <2> QED BY <2>1, <2>2, <2>3, <2>4, <2>5, RunMoves
<1>8. Present(published)' => Faithful(published)'
  BY <1>4
<1>9. \A q \in Runs : /\ Len(run'[q].rails) <= Len(rails')
                      /\ run'[q].rails = First(Len(run[q].rails))'
                      /\ run'[q].committed # Missing => Faithful(run[q].committed)'
  BY <1>5, <1>6
<1> QED BY <1>7, <1>8, <1>9 DEF FiguresInv

\* Nothing has been published or read yet.
LEMMA FiguresStart == Init => FiguresInv
<1> SUFFICES ASSUME Init PROVE FiguresInv
  OBVIOUS
<1>1. \A r \in Runs : run[r].rails = << >> /\ run[r].committed = Missing
  BY DEF Init, Idle
<1>2. \A v \in Verifies : run[v].stage = "idle"
  BY DEF Init, Idle, Runs
<1>3. Len(<< >>) = 0 /\ First(0) = << >> /\ Len(rails) = 0
  BY DEF First, Init
<1>4. ~ Present(published)
  BY DEF Init, Present
<1>5. \A r \in Runs : Len(run[r].rails) <= Len(rails)
                      /\ run[r].rails = First(Len(run[r].rails))
  BY <1>1, <1>3
<1> QED BY <1>1, <1>2, <1>4, <1>5 DEF FiguresInv, Rebuilding

\* What is published, and what a verification compares, are the figures of the
\* records up to some moment, in any state.
THEOREM FiguresInvariance == Spec => []FiguresInv
<1>1. Init => TypeOK /\ FiguresInv
  BY ScoreStart, FiguresStart DEF ScoreInv
<1>2. TypeOK /\ FiguresInv /\ [Next]_vars => TypeOK' /\ FiguresInv'
  BY TypeStep, FiguresStep
<1> QED BY <1>1, <1>2, PTL DEF Spec

-----------------------------------------------------------------------------
(* The verdicts.                                                           *)

\* If more records change the figure, the latest of them is one of those added.
LEMMA ChangedByNewer ==
    ASSUME NEW records \in Seq(Records), NEW k \in 0..Len(records), NEW f,
           NEW begin \in Seq(Records), begin = [i \in 1..k |-> records[i]],
           Series(begin, f) # {},
           begin[Latest(begin, f)].value # records[Latest(records, f)].value
    PROVE  LET i == Latest(records, f)
           IN  /\ i \in (k + 1)..Len(records)
               /\ records[i].figure = f
               /\ \A j \in 1..k : records[j].figure = f =>
                                      records[j].asOf <= records[i].asOf
<1> DEFINE i == Latest(records, f)
           b == Latest(begin, f)
           Last(s, x) == \A j \in Series(s, f) : \/ s[j].asOf < s[x].asOf
                                                 \/ s[j].asOf = s[x].asOf /\ j <= x
<1>1. Len(records) \in Nat /\ k \in Nat /\ Len(begin) = k /\ k <= Len(records)
  OBVIOUS
<1>2. /\ Series(begin, f) = Series(records, f) \cap 1..k
      /\ Series(records, f) \subseteq 1..Len(records)
      /\ \A j \in 1..k : begin[j] = records[j]
  BY <1>1 DEF Series
<1>3. Series(records, f) # {}
  BY <1>2
<1>4. /\ i \in Series(records, f)
      /\ \A j \in Series(records, f) : records[j].asOf <= records[i].asOf
  BY <1>3, LatestIsLatest
<1>5. i \in 1..Len(records) /\ records[i].figure = f
  BY <1>2, <1>4 DEF Series
<1>6. \A j \in 1..k : records[j].figure = f => records[j].asOf <= records[i].asOf
  BY <1>1, <1>4 DEF Series
<1>7. i \notin 1..k
  <2> SUFFICES ASSUME i \in 1..k PROVE FALSE
    OBVIOUS
  <2>1. i \in Series(begin, f) /\ begin[i] = records[i]
    BY <1>2, <1>4
  <2>2. Last(records, i)
    BY <1>3, LatestIsLast DEF Series
  <2>3. Last(begin, i)
    BY <1>2, <2>1, <2>2
  <2>4. b \in Series(begin, f) /\ Last(begin, b)
    BY LatestIsLast
  <2>5. \A j \in Series(begin, f) : j \in Nat /\ begin[j].asOf \in Nat
    <3> SUFFICES ASSUME NEW j \in Series(begin, f) PROVE j \in Nat /\ begin[j].asOf \in Nat
      OBVIOUS
    <3>1. begin[j] \in Records /\ j \in Nat
      BY <1>1 DEF Series
    <3> QED BY <3>1, DatesAssumption DEF Records
  <2>6. b = i
    BY <2>1, <2>3, <2>4, <2>5
  <2> QED BY <2>1, <2>6
<1> QED BY <1>1, <1>5, <1>6, <1>7

\* Only Judge gives a verdict, and gives it on what the run holds.
LEMMA JudgedByJudge ==
    ASSUME TypeOK, [Next]_vars, NEW v \in Verifies, NEW verdict \in {"PASS", "FAIL"},
           Judged(v, verdict)
    PROVE  Reproduced(run[v].committed, Built(v)) <=> verdict = "PASS"
<1>1. v \in Runs /\ v \notin Builds /\ run \in [Runs -> RunRecords] /\ run[v] \in RunRecords
  BY RunsAssumption DEF Runs, TypeOK
<1>2. run[v].stage = "built" /\ run'[v].stage = verdict
  BY DEF Judged
<1>3. run'[v] # run[v]
  BY <1>2
<1>4. CASE Judge(v)
  BY <1>1, <1>2, <1>4 DEF Judge, Verdict, End, Idle
<1>5. ASSUME NEW w \in Verifies, StartVerify(w) \/ Judge(w), w # v PROVE FALSE
  BY <1>1, <1>3, <1>5 DEF StartVerify, Judge, Verdict, End
<1>6. ~ StartVerify(v)
  BY <1>2 DEF StartVerify, At
<1>7. ASSUME NEW b \in Builds, BuildStep(b) PROVE FALSE
  BY <1>1, <1>3, <1>7 DEF BuildStep, StartBuild, OpenPublished, FillPublished,
     OpenManifest, FillManifest, Goto, End
<1>8. ASSUME NEW r \in Runs, RunStep(r) PROVE FALSE
  <2>1. CASE r # v
    BY <1>1, <1>3, <1>8, <2>1 DEF RunStep, LoadRails, LoadX402, CountExternal, CountOwn,
       Die, End
  <2>2. CASE r = v
    <3>1. Die(v)
      BY <1>2, <1>8, <2>2 DEF RunStep, LoadRails, LoadX402, CountExternal, CountOwn, At
    <3> QED BY <1>1, <1>2, <3>1 DEF Die, End, Idle
  <2> QED BY <2>1, <2>2
<1> QED
  BY <1>3, <1>4, <1>5, <1>6, <1>7, <1>8
  DEF Next, vars, AppendNanoTx, AddRecord, SetCount

\* Two tables of the same entries.
LEMMA SameTable ==
    ASSUME NEW n, NEW f, NEW g, \A i \in 1..n : f[i] = g[i]
    PROVE  [i \in 1..n |-> f[i]] = [i \in 1..n |-> g[i]]
OBVIOUS

\* In a step to FAIL, either a figure has a newer record or the counts differ.
LEMMA FailStep ==
    ASSUME TypeOK, FiguresInv, [Next]_vars, NEW v \in Verifies, Judged(v, "FAIL"),
           run[v].x402 = run[v].committed.x402,
           run[v].external = run[v].committed.external
    PROVE  \E i \in (run[v].committed.read + 1)..Len(run[v].rails) :
             \A j \in 1..run[v].committed.read :
                run[v].rails[j].figure = run[v].rails[i].figure =>
                    run[v].rails[j].asOf <= run[v].rails[i].asOf
<1> DEFINE committed == run[v].committed
           records == run[v].rails
           k == committed.read
           begin == First(k)
<1>1. v \in Runs /\ run[v] \in RunRecords /\ run[v].stage \in Rebuilding
  BY DEF Judged, Rebuilding, Runs, TypeOK
<1>2. /\ Faithful(committed) /\ k <= Len(records) /\ Len(records) <= Len(rails)
      /\ records = First(Len(records))
  BY <1>1 DEF FiguresInv
<1>3. /\ records \in Seq(Records) /\ Len(records) \in Nat /\ k \in 0..Len(records)
      /\ run[v].external \in Nat /\ run[v].x402 \in Nat /\ Len(rails) \in Nat
  BY <1>1, <1>2 DEF RunRecords, Faithful, TypeOK
<1>4. begin = [i \in 1..k |-> records[i]] /\ begin \in Seq(Records)
  <2>1. \A i \in 1..k : records[i] = rails[i] /\ records[i] \in Records
    BY <1>2, <1>3 DEF First
  <2>2. begin = [i \in 1..k |-> records[i]]
    <3> HIDE DEF k, records
    <3>1. begin = [i \in 1..k |-> rails[i]]
      BY DEF First
    <3>2. [i \in 1..k |-> rails[i]] = [i \in 1..k |-> records[i]]
      BY <2>1, SameTable, Zenon
    <3> HIDE DEF begin
    <3> QED BY <3>1, <3>2
  <2> HIDE DEF begin, k, records
  <2> QED BY <1>3, <2>1, <2>2
<1>5. SameShare(Built(v).share, committed.share)
  <2>1. /\ Built(v).share = <<run[v].external, run[v].x402 + run[v].external>>
        /\ committed.share = <<run[v].external, run[v].x402 + run[v].external>>
    BY <1>2 DEF Built, Share, Faithful
  <2> QED BY <2>1 DEF SameShare
<1>6. PICK f \in DOMAIN committed.rails :
          \/ f \notin DOMAIN Built(v).rails
          \/ Built(v).rails[f] # committed.rails[f]
  <2>1. ~ Reproduced(committed, Built(v))
    BY JudgedByJudge
  <2> QED BY <1>5, <2>1 DEF Reproduced, Mismatches
<1>7. committed.rails = RailsTable(begin) /\ Built(v).rails = RailsTable(records)
  BY <1>2 DEF Faithful, Built
<1>8. Series(begin, f) # {} /\ committed.rails[f] = begin[Latest(begin, f)].value
  BY <1>4, <1>6, <1>7, TableOfRecords
<1>9. f \in DOMAIN Built(v).rails
  <2>1. PICK j \in 1..k : begin[j].figure = f /\ begin[j] = records[j]
    BY <1>3, <1>4, <1>8 DEF Series
  <2>2. j \in DOMAIN records /\ records[j].figure = f
    BY <1>3, <2>1
  <2> QED BY <1>7, <2>2 DEF RailsTable
<1>10. Built(v).rails[f] = records[Latest(records, f)].value
  BY <1>3, <1>7, <1>9, TableOfRecords
<1>11. begin[Latest(begin, f)].value # records[Latest(records, f)].value
  BY <1>6, <1>8, <1>9, <1>10
<1> HIDE DEF begin, k, records
<1>12. /\ Latest(records, f) \in (k + 1)..Len(records)
       /\ records[Latest(records, f)].figure = f
       /\ \A j \in 1..k : records[j].figure = f =>
              records[j].asOf <= records[Latest(records, f)].asOf
  BY <1>3, <1>4, <1>8, <1>11, ChangedByNewer
<1> QED BY <1>12 DEF k, records

\* A verification fails only if something newer was measured, whatever else
\* happens meanwhile.
THEOREM FailuresAreNews == Spec => FailMeansNewer
<1>1. TypeOK /\ FiguresInv /\ [Next]_vars =>
        [\A v \in Verifies : Judged(v, "FAIL") =>
           LET committed == run[v].committed
               records == run[v].rails
           IN  \/ \E i \in (committed.read + 1)..Len(records) :
                    \A j \in 1..committed.read :
                       records[j].figure = records[i].figure =>
                           records[j].asOf <= records[i].asOf
               \/ run[v].x402 # committed.x402
               \/ run[v].external # committed.external]_vars
  BY FailStep
<1>2. Spec => []TypeOK
  <2>1. ScoreInv => TypeOK
    BY DEF ScoreInv
  <2> QED BY <2>1, ScoreInvariance, PTL
<1> QED BY <1>1, <1>2, FiguresInvariance, PTL DEF Spec, FailMeansNewer

\* In a step to PASS, each figure is that of its latest record.
LEMMA PassStep ==
    ASSUME TypeOK, FiguresInv, [Next]_vars, NEW v \in Verifies, Judged(v, "PASS")
    PROVE  /\ \A f \in DOMAIN run[v].committed.rails :
                \E i \in Series(run[v].rails, f) :
                   /\ run[v].rails[i].value = run[v].committed.rails[f]
                   /\ \A j \in Series(run[v].rails, f) :
                          run[v].rails[j].asOf <= run[v].rails[i].asOf
           /\ run[v].committed.external = 0 <=> run[v].external = 0
<1> DEFINE committed == run[v].committed
           records == run[v].rails
<1>1. v \in Runs /\ run[v] \in RunRecords /\ run[v].stage \in Rebuilding
  BY DEF Judged, Rebuilding, Runs, TypeOK
<1>2. Faithful(committed) /\ records \in Seq(Records)
  BY <1>1 DEF FiguresInv, RunRecords
<1>3. Reproduced(committed, Built(v)) /\ Built(v).rails = RailsTable(records)
  BY JudgedByJudge DEF Built
<1>4. ASSUME NEW f \in DOMAIN committed.rails
      PROVE  \E i \in Series(records, f) :
                /\ records[i].value = committed.rails[f]
                /\ \A j \in Series(records, f) : records[j].asOf <= records[i].asOf
  <2>1. f \in DOMAIN RailsTable(records) /\ RailsTable(records)[f] = committed.rails[f]
    BY <1>3 DEF Reproduced, Mismatches
  <2>2. Series(records, f) # {} /\ committed.rails[f] = records[Latest(records, f)].value
    BY <1>2, <2>1, TableOfRecords
  <2> QED BY <1>2, <2>2, LatestIsLatest
<1>5. committed.external = 0 <=> run[v].external = 0
  <2>1. /\ SameShare(Built(v).share, committed.share)
        /\ Built(v).share[1] = run[v].external
        /\ committed.share[1] = committed.external
    BY <1>2, <1>3 DEF Reproduced, Built, Share, Faithful
  <2>2. CASE run[v].external = 0 \/ committed.external = 0
    BY <2>1, <2>2 DEF SameShare
  <2> QED BY <2>2
<1> QED BY <1>4, <1>5

\* A verification passes only on figures that the records it read reproduce.
THEOREM PassesAreReproductions == Spec => PassMeansReproduced
<1>1. TypeOK /\ FiguresInv /\ [Next]_vars =>
        [\A v \in Verifies : Judged(v, "PASS") =>
           LET committed == run[v].committed
               records == run[v].rails
           IN  /\ \A f \in DOMAIN committed.rails :
                    \E i \in Series(records, f) :
                       /\ records[i].value = committed.rails[f]
                       /\ \A j \in Series(records, f) :
                              records[j].asOf <= records[i].asOf
               /\ committed.external = 0 <=> run[v].external = 0]_vars
  BY PassStep
<1>2. Spec => []TypeOK
  <2>1. ScoreInv => TypeOK
    BY DEF ScoreInv
  <2> QED BY <2>1, ScoreInvariance, PTL
<1> QED BY <1>1, <1>2, FiguresInvariance, PTL DEF Spec, PassMeansReproduced

=============================================================================
