---------------------------- MODULE BaselineRefresh ----------------------------
(***************************************************************************)
(* The weekly refresh of the official export beside the classification     *)
(* workers: a refresh downloads an export, loads it into a staging schema  *)
(* and, in one transaction, makes it the active one, seeds the live        *)
(* records from it and replays the heads it does not contain; afterwards   *)
(* it builds the table of historical results and swaps it in.              *)
(*                                                                         *)
(* One record cell stands for them all, and every result competes in it.   *)
(* The transaction of a refresh is seen step by step, for it holds the     *)
(* live cell and the heads it has replayed while workers and ingestion     *)
(* wait for them, and a worker may hold a head the refresh waits for.      *)
(* The projection of the baseline tables and the indexes are left out.     *)
(***************************************************************************)
EXTENDS Integers, Sequences, FiniteSets, FiniteSetsExt, SequencesExt

CONSTANTS
  Results,      \* CanonicalResult primary keys, in the order of classification
  Contents,     \* what a revision may say: [value, fit]
  Exports,      \* official exports, numbered as they are generated
  Record,       \* Record[e]: the record of the cell in export e
  Absorbs,      \* Absorbs[e]: results whose competition has results in export e
  Workers,      \* classification workers
  Refreshers,   \* processes that run refresh_wca_public_export
  None,         \* no process, no export
  MaxRevision,  \* bound on revisions of one result
  MaxMishaps    \* bound on failures and crashes

ASSUME RefreshResultsAssumption == Results \subseteq Nat /\ IsFiniteSet(Results)
ASSUME ExportsAssumption ==
  /\ Exports \subseteq Nat /\ IsFiniteSet(Exports) /\ Exports # {}
  /\ Record \in [Exports -> Nat] /\ Absorbs \in [Exports -> SUBSET Results]
ASSUME RefreshersAssumption == None \notin Refreshers
ASSUME RefreshBoundsAssumption == MaxRevision \in Nat /\ MaxMishaps \in Nat
ASSUME RefreshContentsAssumption == Contents \subseteq [value : Nat, fit : BOOLEAN]

Revisions == Results \X (1 .. MaxRevision)
Unset     == Exports \cup {None}

VARIABLES
  data,       \* data[r]: the revisions of r in order, the last is the head
  processed,  \* revisions with a ProcessedResult
  settled,    \* settled[r]: revisions of r whose work is settled
  live,       \* the live record
  at, job, checked,    \* per worker: place in classify_revision, revision, export of the check
  published,  \* the export WCA offers
  active,     \* schema wca_export with the baselines drawn from it: [export, whole]
  metadata,   \* the export of the active BaselineMetadata
  staging,    \* schema wca_export_next: [export, whole]
  next,       \* table historical_results_next: exports of its singles and averages
  history,    \* table historical_results, likewise
  lock,       \* holder of the advisory lock
  step, manifest,      \* per refresh: place in refresh_wca_baseline, export at hand
  tx,         \* the activating transaction: [draft, todo, replayed]
  mishaps,    \* counter the bound applies to
  overlaid,   \* history: a result in the active export advanced the live record
  regressed,  \* history: the last refresh lost a competition the active export contained
  behind      \* history: a refresh broke off after activating

workVars    == <<data, processed, settled, at, job, checked>>
exportVars  == <<active, metadata, staging, next, history>>
refreshVars == <<lock, step, manifest, tx>>
flags == <<overlaid, regressed, behind>>
vars  == <<workVars, live, published, exportVars, refreshVars, mishaps, flags>>

Schemas == [export : Unset, whole : BOOLEAN]
Tables  == [singles : Unset, averages : Unset]
NoSchema == [export |-> None, whole |-> FALSE]
NoTable  == [singles |-> None, averages |-> None]
NoTx     == [draft |-> 0, todo |-> {}, replayed |-> {}]

WorkerSteps  == {"idle", "materialized", "incremental", "headLocked", "repair", "settling"}
RefreshSteps == {"idle", "downloaded", "locked", "loading", "loaded", "replaying",
                 "activated", "singles", "averages"}

TypeOK ==
  /\ data \in [Results -> Seq(Contents)]
  /\ processed \subseteq Revisions
  /\ settled \in [Results -> 0 .. MaxRevision]
  /\ live \in Nat
  /\ at \in [Workers -> WorkerSteps]
  /\ job \in [Workers -> Revisions \cup {<<>>}]
  /\ checked \in [Workers -> Unset]
  /\ published \in Exports
  /\ active \in Schemas /\ metadata \in Exports /\ staging \in Schemas
  /\ next \in Tables /\ history \in Tables
  /\ lock \in Refreshers \cup {None}
  /\ step \in [Refreshers -> RefreshSteps]
  /\ manifest \in [Refreshers -> Unset]
  /\ tx \in [draft : Nat, todo : SUBSET Revisions, replayed : SUBSET Revisions]
  /\ mishaps \in 0 .. MaxMishaps
  /\ overlaid \in BOOLEAN /\ regressed \in BOOLEAN /\ behind \in BOOLEAN

\* The workers start after the first export is installed.
Init ==
  LET first == Min(Exports)
  IN /\ data = [r \in Results |-> <<>>]
     /\ processed = {}
     /\ settled = [r \in Results |-> 0]
     /\ live = Record[first]
     /\ at = [w \in Workers |-> "idle"]
     /\ job = [w \in Workers |-> <<>>]
     /\ checked = [w \in Workers |-> None]
     /\ published = first
     /\ active = [export |-> first, whole |-> TRUE]
     /\ metadata = first
     /\ staging = NoSchema
     /\ next = NoTable
     /\ history = [singles |-> first, averages |-> first]
     /\ lock = None
     /\ step = [p \in Refreshers |-> "idle"]
     /\ manifest = [p \in Refreshers |-> None]
     /\ tx = NoTx
     /\ mishaps = 0
     /\ overlaid = FALSE
     /\ regressed = FALSE
     /\ behind = FALSE

-----------------------------------------------------------------------------
(* Timelines and locks.                                                    *)

IsHead(k)  == k[2] = Len(data[k[1]])
Content(k) == data[k[1]][k[2]]
Heads      == {k \in Revisions : IsHead(k)}

\* The record of an export with the fit revisions of a set on top of it.
Best(e, ks) == Min({Record[e]} \cup {Content(k).value : k \in {j \in ks : Content(j).fit}})

\* The processed heads that are not part of an export.
CurrentTimeline(e, ks) == {k \in ks : IsHead(k) /\ Content(k).fit /\ k[1] \notin Absorbs[e]}

\* A later result was processed already.
OutOfOrder(k, e, ks) == \E j \in CurrentTimeline(e, ks) : j[1] > k[1]

\* The activating transaction holds the live cell from its first write on.
Activating == \E p \in Refreshers : step[p] = "replaying"

\* The heads it has replayed stay locked until it ends.
HeldByRefresh(r) == \E k \in tx.replayed : k[1] = r /\ IsHead(k)

HeldByWorker(r) == \E w \in Workers : at[w] = "headLocked" /\ job[w][1] = r

-----------------------------------------------------------------------------
(* WCA publishes exports, ingestion appends revisions, and workers claim   *)
(* the next revision of a result that no other worker has.                 *)

Publish ==
  /\ \E e \in Exports : e > published
  /\ published' = Min({e \in Exports : e > published})
  /\ UNCHANGED <<workVars, live, exportVars, refreshVars, mishaps, flags>>

\* Reconciliation locks the head it replaces.
AddRevision(r) ==
  /\ Len(data[r]) < MaxRevision
  /\ ~HeldByRefresh(r) /\ ~HeldByWorker(r)
  /\ \E content \in Contents :
       /\ IF data[r] = <<>> THEN content.fit ELSE content # Last(data[r])
       /\ data' = [data EXCEPT ![r] = Append(@, content)]
  /\ UNCHANGED <<processed, settled, at, job, checked, live, published, exportVars,
                 refreshVars, mishaps, flags>>

\* Mutant of Take: the work of a result that has none left is claimed too.
TakeAny(w) ==
  /\ at[w] = "idle"
  /\ \E r \in Results :
       LET k == <<r, settled[r] + 1>>
       IN /\ \A v \in Workers : at[v] # "idle" => job[v][1] # r
          /\ job' = [job EXCEPT ![w] = k]
          /\ processed' = processed \cup {k}
  /\ at' = [at EXCEPT ![w] = "materialized"]
  /\ UNCHANGED <<data, settled, checked, live, published, exportVars, refreshVars,
                 mishaps, flags>>

\* Claim and materialization; a row the refresh has just written is locked.
Take(w) ==
  /\ at[w] = "idle"
  /\ \E r \in Results :
       LET k == <<r, settled[r] + 1>>
       IN /\ settled[r] < Len(data[r])
          /\ \A v \in Workers : at[v] # "idle" => job[v][1] # r
          /\ k \notin tx.replayed
          /\ job' = [job EXCEPT ![w] = k]
          /\ processed' = processed \cup {k}
  /\ at' = [at EXCEPT ![w] = "materialized"]
  /\ UNCHANGED <<data, settled, checked, live, published, exportVars, refreshVars,
                 mishaps, flags>>

-----------------------------------------------------------------------------
(* classify_revision in a worker.                                          *)

\* Absorbed results and superseded revisions leave the live record alone.
ChooseWay(w) ==
  /\ at[w] = "materialized"
  /\ LET k == job[w]
         historical == ~IsHead(k) \/ k[1] \in Absorbs[metadata]
         repair == k[2] > 1 \/ OutOfOrder(k, metadata, processed)
     IN at' = [at EXCEPT ![w] = IF historical THEN "settling"
                                ELSE IF repair THEN "repair" ELSE "incremental"]
  /\ UNCHANGED <<data, processed, settled, job, checked, live, published, exportVars,
                 refreshVars, mishaps, flags>>

\* The head moved on: StaleRevision.
FindStale(w) ==
  /\ at[w] \in {"incremental", "repair"}
  /\ ~IsHead(job[w])
  /\ at' = [at EXCEPT ![w] = "settling"]
  /\ UNCHANGED <<data, processed, settled, job, checked, live, published, exportVars,
                 refreshVars, mishaps, flags>>

\* _classify_incremental locks the head and looks at the active metadata ...
LockHead(w) ==
  /\ at[w] = "incremental"
  /\ IsHead(job[w]) /\ ~HeldByRefresh(job[w][1])
  /\ IF Content(job[w]).fit /\ job[w][1] \notin Absorbs[metadata]
       THEN /\ at' = [at EXCEPT ![w] = "headLocked"]
            /\ checked' = [checked EXCEPT ![w] = metadata]
       ELSE /\ at' = [at EXCEPT ![w] = "settling"]
            /\ UNCHANGED checked
  /\ UNCHANGED <<data, processed, settled, job, live, published, exportVars, refreshVars,
                 mishaps, flags>>

\* ... and only then waits for the live cell, which a refresh may hold.
ClassifyIncremental(w) ==
  /\ at[w] = "headLocked"
  /\ ~Activating
  /\ LET k == job[w]
     IN /\ live' = Min({live, Content(k).value})
        /\ overlaid' = (overlaid \/ (live' < live /\ k[1] \in Absorbs[metadata]))
  /\ at' = [at EXCEPT ![w] = "settling"]
  /\ checked' = [checked EXCEPT ![w] = None]
  /\ UNCHANGED <<data, processed, settled, job, published, exportVars, refreshVars,
                 mishaps, regressed, behind>>

\* repair_timeline locks the cell before it reads the baseline and the metadata.
RepairTimeline(w) ==
  /\ at[w] = "repair"
  /\ IsHead(job[w])
  /\ ~Activating
  /\ live' = Best(metadata, CurrentTimeline(metadata, processed))
  /\ overlaid' = FALSE
  /\ at' = [at EXCEPT ![w] = "settling"]
  /\ UNCHANGED <<data, processed, settled, job, checked, published, exportVars,
                 refreshVars, mishaps, regressed, behind>>

Release(w) ==
  /\ at' = [at EXCEPT ![w] = "idle"]
  /\ job' = [job EXCEPT ![w] = <<>>]
  /\ checked' = [checked EXCEPT ![w] = None]

Settle(w) ==
  /\ at[w] = "settling"
  /\ settled' = [settled EXCEPT ![job[w][1]] = @ + 1]
  /\ Release(w)
  /\ UNCHANGED <<data, processed, live, published, exportVars, refreshVars, mishaps,
                 flags>>

\* An exception or a crash; the work is claimed again.
FailWork(w) ==
  /\ at[w] # "idle" /\ mishaps < MaxMishaps
  /\ mishaps' = mishaps + 1
  /\ Release(w)
  /\ UNCHANGED <<data, processed, settled, live, published, exportVars, refreshVars,
                 flags>>

-----------------------------------------------------------------------------
(* refresh_wca_baseline: what comes before the activation.                 *)

Go(p, place) == step' = [step EXCEPT ![p] = place]

\* The export is downloaded and inspected before the lock is asked for.
Download(p) ==
  /\ step[p] = "idle"
  /\ manifest' = [manifest EXCEPT ![p] = published]
  /\ Go(p, "downloaded")
  /\ UNCHANGED <<workVars, live, published, exportVars, lock, tx, mishaps, flags>>

\* Mutant of TryLock: refreshes may overlap.
TryNothing(p) ==
  /\ step[p] = "downloaded"
  /\ lock' = p
  /\ Go(p, "locked")
  /\ UNCHANGED <<workVars, live, published, exportVars, manifest, tx, mishaps, flags>>

\* Another refresh that is running is an error, not something to wait for.
TryLock(p) ==
  /\ step[p] = "downloaded"
  /\ IF lock = None
       THEN lock' = p /\ Go(p, "locked") /\ UNCHANGED manifest
       ELSE /\ Go(p, "idle")
            /\ manifest' = [manifest EXCEPT ![p] = None]
            /\ UNCHANGED lock
  /\ UNCHANGED <<workVars, live, published, exportVars, tx, mishaps, flags>>

\* What an earlier refresh left in the staging schema is dropped.
CreateStaging(p) ==
  /\ step[p] = "locked"
  /\ staging' = [export |-> manifest[p], whole |-> FALSE]
  /\ Go(p, "loading")
  /\ UNCHANGED <<workVars, live, published, active, metadata, next, history, lock,
                 manifest, tx, mishaps, flags>>

CopyTables(p) ==
  /\ step[p] = "loading"
  /\ staging' = [staging EXCEPT !.whole = (staging.export = manifest[p])]
  /\ Go(p, "loaded")
  /\ UNCHANGED <<workVars, live, published, active, metadata, next, history, lock,
                 manifest, tx, mishaps, flags>>

-----------------------------------------------------------------------------
(* activate_staged_export: one transaction.                                *)

\* Mutant of ToReplay: results the export contains are replayed as well.
ReplayEverything(e) == {k \in Heads : Content(k).fit}

\* The heads to replay: those of competitions the export does not contain.
ToReplay(e) == {k \in Heads : Content(k).fit /\ k[1] \notin Absorbs[e]}

\* They are looked up once and replayed in the order of classification.
NextHead == CHOOSE k \in tx.todo : \A j \in tx.todo : k[1] <= j[1]

\* Mutant of SeedLiveRecords: the replay starts from the live record as it is.
KeepLiveRecords(p) ==
  /\ step[p] = "loaded"
  /\ staging # NoSchema /\ ~Activating
  /\ tx' = [draft |-> live, todo |-> ToReplay(staging.export), replayed |-> {}]
  /\ Go(p, "replaying")
  /\ UNCHANGED <<workVars, live, published, exportVars, lock, manifest, mishaps,
                 flags>>

\* The schemas are renamed, the baselines projected, the live records seeded
\* from them and the heads to replay looked up, all uncommitted.
SeedLiveRecords(p) ==
  /\ step[p] = "loaded"
  /\ staging # NoSchema /\ ~Activating
  /\ tx' = [draft |-> Record[staging.export], todo |-> ToReplay(staging.export),
            replayed |-> {}]
  /\ Go(p, "replaying")
  /\ UNCHANGED <<workVars, live, published, exportVars, lock, manifest, mishaps,
                 flags>>

\* The next head is classified on top of the draft, or found superseded.
AfterNextHead ==
  LET k     == NextHead
      e     == staging.export
      known == processed \cup tx.replayed \cup {k}
  IN [draft    |-> IF ~IsHead(k) THEN tx.draft
                   ELSE IF k[2] > 1 \/ OutOfOrder(k, e, known)
                     THEN Best(e, CurrentTimeline(e, known))
                   ELSE Min({tx.draft, Content(k).value}),
      todo     |-> tx.todo \ {k},
      replayed |-> tx.replayed \cup {k}]

ReplayHead(p) ==
  /\ step[p] = "replaying" /\ tx.todo # {}
  /\ ~HeldByWorker(NextHead[1])
  /\ tx' = AfterNextHead
  /\ UNCHANGED <<workVars, live, published, exportVars, lock, step, manifest, mishaps, flags>>

CommitActivation(p) ==
  /\ step[p] = "replaying" /\ tx.todo = {}
  /\ active' = staging
  /\ metadata' = manifest[p]
  /\ staging' = NoSchema
  /\ live' = tx.draft
  /\ processed' = processed \cup tx.replayed
  /\ tx' = NoTx
  /\ overlaid' = FALSE
  /\ regressed' = ~ (Absorbs[metadata] \subseteq Absorbs[manifest[p]])
  /\ Go(p, "activated")
  /\ UNCHANGED <<data, settled, at, job, checked, published, next, history, lock,
                 manifest, mishaps, behind>>

-----------------------------------------------------------------------------
(* rebuild_historical_results, from the schema that is active by now.      *)

PopulateSingles(p) ==
  /\ step[p] = "activated"
  /\ next' = [singles |-> active.export, averages |-> None]
  /\ Go(p, "singles")
  /\ UNCHANGED <<workVars, live, published, active, metadata, staging, history, lock,
                 manifest, tx, mishaps, flags>>

PopulateAverages(p) ==
  /\ step[p] = "singles"
  /\ next' = [next EXCEPT !.averages = active.export]
  /\ Go(p, "averages")
  /\ UNCHANGED <<workVars, live, published, active, metadata, staging, history, lock,
                 manifest, tx, mishaps, flags>>

Leave(p) ==
  /\ Go(p, "idle")
  /\ manifest' = [manifest EXCEPT ![p] = None]
  /\ lock' = IF lock = p THEN None ELSE lock

\* The table is validated and swapped in, and the refresh is over.
SwapHistoricalResults(p) ==
  /\ step[p] = "averages"
  /\ history' = next
  /\ next' = NoTable
  /\ behind' = FALSE
  /\ Leave(p)
  /\ UNCHANGED <<workVars, live, published, active, metadata, staging, tx, mishaps, overlaid, regressed>>

-----------------------------------------------------------------------------
(* Failures.                                                               *)

Activated(p) == step[p] \in {"activated", "singles", "averages"}

\* An exception: the transaction is rolled back, the half-built table and the
\* staging schema are dropped.
Abandon(p) ==
  /\ staging' = IF step[p] = "downloaded" THEN staging ELSE NoSchema
  /\ next' = IF Activated(p) THEN NoTable ELSE next
  /\ tx' = IF step[p] = "replaying" THEN NoTx ELSE tx
  /\ behind' = (behind \/ Activated(p))
  /\ Leave(p)
  /\ UNCHANGED <<workVars, live, published, active, metadata, history, overlaid, regressed>>

FailRefresh(p) ==
  /\ step[p] # "idle" /\ mishaps < MaxMishaps
  /\ mishaps' = mishaps + 1
  /\ Abandon(p)

\* The process dies: the database releases its locks, the tables stay.
CrashRefresh(p) ==
  /\ step[p] # "idle" /\ mishaps < MaxMishaps
  /\ mishaps' = mishaps + 1
  /\ tx' = IF step[p] = "replaying" THEN NoTx ELSE tx
  /\ behind' = (behind \/ Activated(p))
  /\ Leave(p)
  /\ UNCHANGED <<workVars, live, published, exportVars, overlaid, regressed>>

\* A refresh that holds the cell waits for a head, the worker that holds the
\* head waits for the cell: the database picks one of them to fail, and the
\* other goes on with the lock it waited for.
Deadlocked(p, w) ==
  /\ step[p] = "replaying" /\ tx.todo # {}
  /\ at[w] = "headLocked" /\ job[w][1] = NextHead[1]

BreakDeadlock(p, w) ==
  /\ Deadlocked(p, w)
  /\ \/ Abandon(p) /\ UNCHANGED mishaps
     \/ /\ Release(w) /\ tx' = AfterNextHead
        /\ UNCHANGED <<data, processed, settled, live, published, exportVars, lock, step,
                       manifest, mishaps, flags>>

-----------------------------------------------------------------------------
Work(w) ==
  \/ Take(w)
  \/ ChooseWay(w)
  \/ FindStale(w)
  \/ LockHead(w)
  \/ ClassifyIncremental(w)
  \/ RepairTimeline(w)
  \/ Settle(w)

Refresh(p) ==
  \/ Download(p)
  \/ TryLock(p)
  \/ CreateStaging(p)
  \/ CopyTables(p)
  \/ SeedLiveRecords(p)
  \/ ReplayHead(p)
  \/ CommitActivation(p)
  \/ PopulateSingles(p)
  \/ PopulateAverages(p)
  \/ SwapHistoricalResults(p)

Next ==
  \/ Publish
  \/ \E r \in Results : AddRevision(r)
  \/ \E w \in Workers : Work(w) \/ FailWork(w)
  \/ \E p \in Refreshers : Refresh(p) \/ FailRefresh(p) \/ CrashRefresh(p)
  \/ \E p \in Refreshers, w \in Workers : BreakDeadlock(p, w)

\* The refresh is scheduled, workers poll, and whoever waits for a lock gets
\* it in the end.
Fairness ==
  /\ \A p \in Refreshers : WF_vars(Refresh(p))
  /\ \A w \in Workers : SF_vars(Work(w))
  /\ \A p \in Refreshers, w \in Workers : WF_vars(BreakDeadlock(p, w))

Spec == Init /\ [][Next]_vars /\ Fairness

-----------------------------------------------------------------------------
(* Properties.                                                             *)

\* What the baseline and the heads it does not contain make of the live record.
TrueRecord == Best(metadata, {k \in Heads : k[1] \notin Absorbs[metadata]})

AllSettled == \A r \in Results : settled[r] = Len(data[r])

\* Once all work is settled the live record is the export with the other
\* competitions' heads on top of it, whatever refreshes, crashes and deadlocks
\* came between, but for two overlaps: a worker that looked whether its result
\* is in the export before the refresh committed and got the cell after it,
\* and one that found its result in an export that one without it then replaced.
LiveUnlessOverlaid == AllSettled /\ ~overlaid /\ ~regressed => live = TrueRecord

\* The active schema is a whole export and the one the metadata names; the
\* historical results are of one export, and of the active one unless a
\* refresh is still building them or broke off while it did.
ExportsAreNotMixed ==
  /\ active = [export |-> metadata, whole |-> TRUE]
  /\ history.singles = history.averages
  /\ history.singles # metadata => behind \/ \E p \in Refreshers : Activated(p)

\* When WCA stops publishing and results stop changing, the scheduled
\* refreshes bring the baseline and the historical results to the last export
\* and mend whatever was wrong with the live record.
EventuallyFresh ==
  <>[](/\ metadata = published
       /\ history.singles = published
       /\ live = TrueRecord)
=============================================================================
