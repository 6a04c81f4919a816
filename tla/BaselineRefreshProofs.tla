------------------------ MODULE BaselineRefreshProofs ------------------------
(* Theorems about BaselineRefresh, for any exports, results, contents,     *)
(* workers and refreshing processes.                                       *)
EXTENDS BaselineRefresh, WellFoundedInduction, TLAPS

(***************************************************************************)
(* The inductive invariant: what a refresh knows at each of its steps. The *)
(* advisory lock makes the staging schema and the table under construction *)
(* its own, although neither is guarded by anything else.                  *)
(***************************************************************************)

Running(p) == step[p] \notin {"idle", "downloaded"}

LockInv == \A p \in Refreshers : Running(p) => lock = p

StagingInv ==
  \A p \in Refreshers :
    /\ step[p] = "loading" => staging.export = manifest[p]
    /\ step[p] \in {"loaded", "replaying"} => staging = [export |-> manifest[p], whole |-> TRUE]

TableInv ==
  \A p \in Refreshers :
    /\ step[p] = "singles" => next.singles = metadata
    /\ step[p] = "averages" => next = [singles |-> metadata, averages |-> metadata]

ShapeInv ==
  /\ step \in [Refreshers -> RefreshSteps]
  /\ manifest = [p \in Refreshers |-> manifest[p]]
  /\ staging = [export |-> staging.export, whole |-> staging.whole]
  /\ next = [singles |-> next.singles, averages |-> next.averages]
  /\ behind \in BOOLEAN

IInv ==
  /\ ShapeInv
  /\ LockInv
  /\ StagingInv
  /\ TableInv
  /\ ExportsAreNotMixed

LEMMA InitIInv == Init => IInv
<1> SUFFICES ASSUME Init
             PROVE  IInv
  OBVIOUS
<1>1. ShapeInv /\ ExportsAreNotMixed
  BY DEF Init, ShapeInv, ExportsAreNotMixed, RefreshSteps, NoSchema, NoTable
<1>2. LockInv /\ StagingInv /\ TableInv
  BY DEF Init, LockInv, StagingInv, TableInv, Running
<1>3. QED
  BY <1>1, <1>2 DEF IInv

\* Steps of WCA, ingestion and the workers touch none of it.
LEMMA OthersIInv ==
  ASSUME IInv, UNCHANGED <<exportVars, lock, step, manifest, behind>>
  PROVE  IInv'
  BY DEF IInv, ShapeInv, LockInv, StagingInv, TableInv, ExportsAreNotMixed, Running,
         Activated, exportVars

\* A refresh takes the lock, so nobody else is past it.
LEMMA LockIInv ==
  ASSUME IInv, NEW p \in Refreshers, Download(p) \/ TryLock(p)
  PROVE  IInv'
  BY RefreshersAssumption
  DEF RefreshersAssumption, Download, TryLock, Go, IInv, ShapeInv, LockInv, StagingInv,
      TableInv, ExportsAreNotMixed, Running, Activated, RefreshSteps, exportVars, flags

\* Whoever is past the lock is alone there.
LEMMA Alone ==
  ASSUME IInv, NEW p \in Refreshers, Running(p), NEW q \in Refreshers, q # p
  PROVE  step[q] \in {"idle", "downloaded"}
  BY DEF IInv, LockInv, Running

\* The lock stays where it is while a refresh goes on.
LEMMA StageIInv ==
  ASSUME IInv, NEW p \in Refreshers,
         CreateStaging(p) \/ CopyTables(p) \/ SeedLiveRecords(p) \/ ReplayHead(p)
  PROVE  IInv'
<1>1. Running(p) /\ lock' = lock /\ manifest' = manifest /\ behind' = behind
  BY DEF CreateStaging, CopyTables, SeedLiveRecords, ReplayHead, Running, exportVars, flags
<1>2. /\ UNCHANGED <<active, metadata, next, history>>
      /\ \A q \in Refreshers : q # p => step'[q] = step[q] /\ ~Running(q)
      /\ step'[p] \in {"loading", "loaded", "replaying"}
      /\ ~Activated(p)
  BY <1>1, Alone DEF CreateStaging, CopyTables, SeedLiveRecords, ReplayHead, Running, Go,
     IInv, ShapeInv, Activated, exportVars
<1>3. /\ step'[p] = "loading" => staging'.export = manifest[p]
      /\ step'[p] \in {"loaded", "replaying"} => staging' = [export |-> manifest[p], whole |-> TRUE]
  <2>1. CASE CreateStaging(p)
    BY <2>1 DEF CreateStaging, Go, IInv, ShapeInv
  <2>2. CASE CopyTables(p)
    <3>1. step'[p] = "loaded" /\ staging.export = manifest[p]
      BY <2>2 DEF CopyTables, Go, IInv, ShapeInv, StagingInv
    <3>2. (staging.export = manifest[p]) = TRUE
      BY <3>1
    <3>3. staging' = [staging EXCEPT !.whole = TRUE]
      BY <2>2, <3>2 DEF CopyTables
    <3>4. staging' = [export |-> staging.export, whole |-> TRUE]
      BY <3>3 DEF IInv, ShapeInv
    <3>5. QED
      BY <3>1, <3>4
  <2>3. CASE SeedLiveRecords(p) \/ ReplayHead(p)
    BY <2>3 DEF SeedLiveRecords, ReplayHead, Go, IInv, ShapeInv, StagingInv, exportVars
  <2>4. QED
    BY <2>1, <2>2, <2>3
<1>4. step' \in [Refreshers -> RefreshSteps] /\ staging' = [export |-> staging'.export, whole |-> staging'.whole]
  BY DEF CreateStaging, CopyTables, SeedLiveRecords, ReplayHead, Go, IInv, ShapeInv,
     RefreshSteps, exportVars
<1>5. ShapeInv' /\ LockInv' /\ StagingInv' /\ TableInv'
  BY <1>1, <1>2, <1>3, <1>4 DEF IInv, ShapeInv, LockInv, StagingInv, TableInv, Running
<1>6. ExportsAreNotMixed'
  BY <1>1, <1>2 DEF IInv, ExportsAreNotMixed, Activated, Running
<1>7. QED
  BY <1>5, <1>6 DEF IInv

\* The staged schema is whole and of the export the metadata is set to.
LEMMA ActivateIInv ==
  ASSUME IInv, NEW p \in Refreshers, CommitActivation(p)
  PROVE  IInv'
<1>1. Running(p) /\ staging = [export |-> manifest[p], whole |-> TRUE]
  BY DEF CommitActivation, Running, IInv, StagingInv
<1>2. /\ UNCHANGED <<manifest, lock, next, history, behind>>
      /\ step' = [step EXCEPT ![p] = "activated"]
      /\ active' = staging /\ metadata' = manifest[p] /\ staging' = NoSchema
  BY DEF CommitActivation, Go
<1>3. \A q \in Refreshers : q # p => step'[q] = step[q] /\ ~Running(q)
  BY <1>1, <1>2, Alone DEF IInv, ShapeInv, Running
<1>4. step' \in [Refreshers -> RefreshSteps] /\ step'[p] = "activated"
  BY <1>2 DEF IInv, ShapeInv, RefreshSteps
<1>5. ShapeInv' /\ LockInv' /\ StagingInv' /\ TableInv'
  BY <1>1, <1>2, <1>3, <1>4
  DEF IInv, ShapeInv, LockInv, StagingInv, TableInv, Running, NoSchema
<1>6. ExportsAreNotMixed'
  BY <1>1, <1>2, <1>4 DEF IInv, ExportsAreNotMixed, Activated
<1>7. QED
  BY <1>5, <1>6 DEF IInv

\* Both halves of the historical table are drawn from the active schema.
LEMMA PopulateIInv ==
  ASSUME IInv, NEW p \in Refreshers, PopulateSingles(p) \/ PopulateAverages(p)
  PROVE  IInv'
<1>1. Running(p) /\ UNCHANGED <<manifest, lock, active, metadata, staging, history, behind>>
  BY DEF PopulateSingles, PopulateAverages, Running, flags
<1>2. /\ \A q \in Refreshers : q # p => step'[q] = step[q] /\ ~Running(q)
      /\ step' \in [Refreshers -> RefreshSteps] /\ step'[p] \in {"singles", "averages"}
  BY <1>1, Alone DEF PopulateSingles, PopulateAverages, Running, Go, IInv, ShapeInv, RefreshSteps
<1>3. /\ next' = [singles |-> next'.singles, averages |-> next'.averages]
      /\ next'.singles = metadata
      /\ step'[p] = "averages" => next'.averages = metadata
  BY DEF PopulateSingles, PopulateAverages, Go, IInv, ShapeInv, TableInv, ExportsAreNotMixed
<1>4. ShapeInv' /\ LockInv' /\ StagingInv'
  BY <1>1, <1>2, <1>3 DEF IInv, ShapeInv, LockInv, StagingInv, Running
<1>5. TableInv'
  BY <1>1, <1>2, <1>3 DEF IInv, TableInv, Running
<1>6. ExportsAreNotMixed'
  BY <1>1, <1>2 DEF IInv, ExportsAreNotMixed, Activated
<1>7. QED
  BY <1>4, <1>5, <1>6 DEF IInv

\* A refresh that leaves, by success or failure, gives back only its own lock.
LEMMA LeaveParts ==
  ASSUME IInv, NEW p \in Refreshers, Leave(p)
  PROVE  /\ step' \in [Refreshers -> RefreshSteps] /\ step'[p] = "idle"
         /\ manifest' = [q \in Refreshers |-> manifest'[q]]
         /\ LockInv'
         /\ \A q \in Refreshers : q # p => step'[q] = step[q] /\ manifest'[q] = manifest[q]
  BY DEF Leave, Go, IInv, ShapeInv, LockInv, Running, RefreshSteps

LEMMA SwapIInv ==
  ASSUME IInv, NEW p \in Refreshers, SwapHistoricalResults(p)
  PROVE  IInv'
<1>1. /\ Running(p) /\ Leave(p) /\ behind' = FALSE
      /\ history' = [singles |-> metadata, averages |-> metadata]
      /\ next' = NoTable
      /\ UNCHANGED <<active, metadata, staging>>
  BY DEF SwapHistoricalResults, Running, IInv, TableInv
<1>2. \A q \in Refreshers : step'[q] \in {"idle", "downloaded"}
  BY <1>1, LeaveParts, Alone
<1>3. ShapeInv' /\ LockInv' /\ StagingInv' /\ TableInv'
  BY <1>1, <1>2, LeaveParts DEF IInv, ShapeInv, StagingInv, TableInv, NoTable
<1>4. ExportsAreNotMixed'
  BY <1>1 DEF IInv, ExportsAreNotMixed
<1>5. QED
  BY <1>3, <1>4 DEF IInv

\* One that breaks off leaves the active schema and the old table alone.
LEMMA BreakOffIInv ==
  ASSUME IInv, NEW p \in Refreshers, Leave(p),
         UNCHANGED <<active, metadata, history>>,
         behind' = (behind \/ Activated(p)),
         staging' \in {staging, NoSchema}, next' \in {next, NoTable},
         ~Running(p) => UNCHANGED <<staging, next>>
  PROVE  IInv'
<1>1. \A q \in Refreshers : q # p => step'[q] = step[q] /\ manifest'[q] = manifest[q]
  BY LeaveParts
<1>2. step'[p] = "idle"
  BY LeaveParts
<1>3. behind' \in BOOLEAN /\ (behind' <=> behind \/ Activated(p))
  BY DEF IInv, ShapeInv
<1>4. ShapeInv'
  BY <1>3, LeaveParts DEF IInv, ShapeInv, NoSchema, NoTable
<1>5. StagingInv' /\ TableInv'
  <2>1. CASE Running(p)
    <3>1. \A q \in Refreshers : step'[q] \in {"idle", "downloaded"}
      BY <1>1, <1>2, <2>1, Alone
    <3>2. QED
      BY <3>1 DEF StagingInv, TableInv
  <2>2. CASE ~Running(p)
    BY <1>1, <1>2, <2>2 DEF IInv, StagingInv, TableInv
  <2>3. QED
    BY <2>1, <2>2
<1>6. ExportsAreNotMixed'
  BY <1>1, <1>3 DEF IInv, ExportsAreNotMixed, Activated
<1>7. QED
  BY <1>4, <1>5, <1>6, LeaveParts DEF IInv

LEMMA AbandonIInv ==
  ASSUME IInv, NEW p \in Refreshers, step[p] # "idle", Abandon(p)
  PROVE  IInv'
<1>1. ~Running(p) /\ step[p] # "idle" => UNCHANGED <<staging, next>>
  BY DEF Abandon, Running, Activated
<1>2. QED
  BY <1>1, BreakOffIInv DEF Abandon

LEMMA NextIInv ==
  ASSUME IInv, [Next]_vars
  PROVE  IInv'
<1>1. CASE Publish \/ \E r \in Results : AddRevision(r)
  BY <1>1, OthersIInv DEF Publish, AddRevision, refreshVars, flags
<1>2. CASE \E w \in Workers : Work(w) \/ FailWork(w)
  BY <1>2, OthersIInv
  DEF Work, FailWork, Take, ChooseWay, FindStale, LockHead, ClassifyIncremental,
      RepairTimeline, Settle, refreshVars, flags
<1>3. CASE \E p \in Refreshers : Refresh(p)
  BY <1>3, LockIInv, StageIInv, ActivateIInv, PopulateIInv, SwapIInv DEF Refresh
<1>4. CASE \E p \in Refreshers : FailRefresh(p) \/ CrashRefresh(p)
  BY <1>4, AbandonIInv, BreakOffIInv DEF FailRefresh, CrashRefresh, exportVars
<1>5. CASE \E p \in Refreshers, w \in Workers : BreakDeadlock(p, w)
  BY <1>5, AbandonIInv, OthersIInv DEF BreakDeadlock, Deadlocked, flags
<1>6. CASE UNCHANGED vars
  BY <1>6, OthersIInv DEF vars, refreshVars, flags
<1>7. QED
  BY <1>1, <1>2, <1>3, <1>4, <1>5, <1>6 DEF Next

(***************************************************************************)
(* Exports are not mixed.                                                  *)
(***************************************************************************)

\* The active schema is always a whole export, the one the metadata names, and
\* the historical results are never a mixture: refresh_wca_baseline stages,
\* renames and swaps under the advisory lock.
THEOREM SpecExportsAreNotMixed == Spec => []ExportsAreNotMixed
<1>1. IInv => ExportsAreNotMixed
  BY DEF IInv
<1>2. QED
  BY InitIInv, NextIInv, <1>1, PTL DEF Spec

(***************************************************************************)
(* Minima, and the record they make.                                       *)
(***************************************************************************)

LEMMA Smallest ==
  ASSUME NEW S \in SUBSET Nat, S # {}
  PROVE  \E x \in S : \A y \in S : x <= y
<1> DEFINE Less == {ss \in Nat \X Nat : ss[1] < ss[2]}
<1>1. IsWellFoundedOn(Less, Nat)
  BY NatLessThanWellFounded DEF OpToRel
<1>2. \E x \in S : \A y \in S : ~ (<<y, x>> \in Less)
  <2> HIDE DEF Less
  <2> QED
    BY <1>1, WFMin
<1>3. ASSUME NEW x \in Nat, NEW y \in Nat, ~ (<<y, x>> \in Less)
      PROVE  x <= y
  <2>1. <<y, x>> \in Nat \X Nat /\ <<y, x>>[1] = y /\ <<y, x>>[2] = x
    OBVIOUS
  <2>2. ~ (y < x)
    BY <1>3, <2>1
  <2> QED
    BY <2>2
<1> QED
  BY <1>2, <1>3

LEMMA MinIsLeast ==
  ASSUME NEW S \in SUBSET Nat, S # {}
  PROVE  Min(S) \in S /\ \A y \in S : Min(S) <= y
  BY Smallest DEF Min

LEMMA RevisionParts ==
  /\ \A k \in Revisions : k[1] \in Results /\ k[2] \in 1 .. MaxRevision /\ k = <<k[1], k[2]>>
  /\ \A r \in Results, n \in 1 .. MaxRevision :
       <<r, n>> \in Revisions /\ <<r, n>>[1] = r /\ <<r, n>>[2] = n
  BY DEF Revisions

\* Revision k was added.
Exists(k) == k \in Revisions /\ k[2] <= Len(data[k[1]])

LEMMA ContentTyped ==
  ASSUME data \in [Results -> Seq(Contents)], NEW k, Exists(k)
  PROVE  Content(k) \in Contents /\ Content(k).value \in Nat /\ Content(k).fit \in BOOLEAN
<1>1. k[1] \in Results /\ k[2] \in 1 .. Len(data[k[1]]) /\ data[k[1]] \in Seq(Contents)
  BY RevisionParts DEF Exists
<1>2. Content(k) \in Contents
  BY <1>1 DEF Content
<1> QED
  BY <1>2, RefreshContentsAssumption DEF RefreshContentsAssumption

LEMMA RecordTyped == ASSUME NEW e \in Exports PROVE Record[e] \in Nat
  BY ExportsAssumption DEF ExportsAssumption

LEMMA BestIsLeast ==
  ASSUME data \in [Results -> Seq(Contents)], NEW e \in Exports, NEW ks, \A k \in ks : Exists(k)
  PROVE  /\ Best(e, ks) \in Nat
         /\ Best(e, ks) <= Record[e]
         /\ \A k \in ks : Content(k).fit => Best(e, ks) <= Content(k).value
         /\ \/ Best(e, ks) = Record[e]
            \/ \E k \in ks : Content(k).fit /\ Content(k).value = Best(e, ks)
<1> DEFINE S == {Record[e]} \cup {Content(k).value : k \in {j \in ks : Content(j).fit}}
<1>1. S \in SUBSET Nat /\ S # {}
  BY ContentTyped, RecordTyped
<1>2. Min(S) \in S /\ \A y \in S : Min(S) <= y
  <2> HIDE DEF S
  <2> QED
    BY <1>1, MinIsLeast
<1> QED
  BY <1>1, <1>2 DEF Best

(***************************************************************************)
(* What the workers know of their revisions.                               *)
(***************************************************************************)

WorkTypes ==
  /\ data \in [Results -> Seq(Contents)]
  /\ processed \subseteq Revisions
  /\ settled \in [Results -> 0 .. MaxRevision]
  /\ at \in [Workers -> WorkerSteps]
  /\ job \in [Workers -> Revisions \cup {<<>>}]
  /\ checked \in [Workers -> Unset]

SettledInv ==
  \A r \in Results : settled[r] <= Len(data[r]) /\ Len(data[r]) <= MaxRevision

\* A worker has the first revision of its result that is not settled.
JobInv ==
  \A w \in Workers : at[w] # "idle" =>
    /\ job[w][1] \in Results
    /\ job[w] = <<job[w][1], settled[job[w][1]] + 1>>
    /\ settled[job[w][1]] < Len(data[job[w][1]])
    /\ job[w] \in processed

AloneInv ==
  \A v, w \in Workers : at[v] # "idle" /\ at[w] # "idle" /\ job[v][1] = job[w][1] => v = w

\* Only first revisions are classified incrementally, and their heads are held.
WayInv ==
  \A w \in Workers :
    /\ at[w] \in {"incremental", "headLocked"} => job[w][2] = 1
    /\ at[w] = "headLocked" => IsHead(job[w]) /\ Content(job[w]).fit

ProcessedInv ==
  /\ \A k \in processed : Exists(k)
  /\ \A r \in Results : \A n \in 1 .. settled[r] : <<r, n>> \in processed

WorkInv == WorkTypes /\ SettledInv /\ JobInv /\ AloneInv /\ WayInv /\ ProcessedInv

LEMMA InitWorkInv == Init => WorkInv
<1> SUFFICES ASSUME Init
             PROVE  WorkInv
  OBVIOUS
<1>1. WorkTypes
  BY RefreshBoundsAssumption DEF Init, WorkTypes, WorkerSteps, Unset, RefreshBoundsAssumption
<1>2. SettledInv /\ ProcessedInv
  BY RefreshBoundsAssumption DEF Init, SettledInv, ProcessedInv, RefreshBoundsAssumption
<1>3. JobInv /\ AloneInv /\ WayInv
  BY DEF Init, JobInv, AloneInv, WayInv
<1> QED
  BY <1>1, <1>2, <1>3 DEF WorkInv

\* Steps of WCA and the refresh before and after the activation.
LEMMA QuietWorkInv ==
  ASSUME WorkInv, UNCHANGED <<data, processed, settled, at, job, checked>>
  PROVE  WorkInv'
  BY DEF WorkInv, WorkTypes, SettledInv, JobInv, AloneInv, WayInv, ProcessedInv, Exists,
         IsHead, Content

LEMMA JobExists ==
  ASSUME WorkInv, NEW w \in Workers, at[w] # "idle"
  PROVE  /\ Exists(job[w]) /\ job[w][1] \in Results /\ job[w][2] = settled[job[w][1]] + 1
         /\ job[w] \in processed
  BY DEF WorkInv, JobInv, ProcessedInv

\* A result gains a revision; the old ones stay.
LEMMA DataAppended ==
  ASSUME data \in [Results -> Seq(Contents)], NEW r \in Results, NEW content \in Contents,
         data' = [data EXCEPT ![r] = Append(@, content)]
  PROVE  /\ data' \in [Results -> Seq(Contents)]
         /\ Len(data[r]) \in Nat /\ Len(data'[r]) = Len(data[r]) + 1
         /\ \A q \in Results : q # r => data'[q] = data[q]
         /\ \A n \in 1 .. Len(data[r]) : data'[r][n] = data[r][n]
         /\ data'[r][Len(data[r]) + 1] = content
  OBVIOUS

LEMMA DataKept ==
  ASSUME data \in [Results -> Seq(Contents)], NEW r \in Results, NEW content \in Contents,
         data' = [data EXCEPT ![r] = Append(@, content)],
         NEW k, Exists(k)
  PROVE  Exists(k)' /\ Content(k)' = Content(k) /\ (k[1] # r => IsHead(k)' = IsHead(k))
<1>1. k[1] \in Results /\ k[2] \in 1 .. Len(data[k[1]]) /\ k[2] \in Nat
  BY RevisionParts DEF Exists
<1>2. CASE k[1] = r
  BY <1>1, <1>2, DataAppended DEF Exists, Content
<1>3. CASE k[1] # r
  BY <1>1, <1>3, DataAppended DEF Exists, Content, IsHead
<1> QED
  BY <1>2, <1>3

LEMMA AddRevisionWorkInv ==
  ASSUME WorkInv, NEW r \in Results, AddRevision(r)
  PROVE  WorkInv'
<1>1. PICK content \in Contents : data' = [data EXCEPT ![r] = Append(@, content)]
  BY DEF AddRevision
<1>2. /\ UNCHANGED <<processed, settled, at, job, checked>>
      /\ Len(data[r]) < MaxRevision /\ ~HeldByWorker(r)
  BY DEF AddRevision
<1>3. data \in [Results -> Seq(Contents)] /\ settled \in [Results -> 0 .. MaxRevision]
  BY DEF WorkInv, WorkTypes
<1>4. WorkTypes'
  BY <1>1, <1>2, DataAppended DEF WorkInv, WorkTypes
<1>5. SettledInv'
  BY <1>1, <1>2, <1>3, DataAppended, RefreshBoundsAssumption
  DEF WorkInv, SettledInv, RefreshBoundsAssumption
<1>6. JobInv' /\ AloneInv'
  <2>1. \A q \in Results : Len(data[q]) <= Len(data'[q])
    BY <1>1, <1>3, DataAppended
  <2>2. \A q \in Results : settled[q] \in Nat /\ Len(data[q]) \in Nat /\ Len(data'[q]) \in Nat
    BY <1>3, <1>4 DEF WorkTypes
  <2> QED
    BY <1>2, <2>1, <2>2 DEF WorkInv, JobInv, AloneInv
<1>7. WayInv'
  BY <1>1, <1>2, <1>3, DataKept, JobExists DEF WorkInv, WayInv, HeldByWorker
<1>8. ProcessedInv'
  BY <1>1, <1>2, <1>3, DataKept DEF WorkInv, ProcessedInv
<1> QED
  BY <1>4, <1>5, <1>6, <1>7, <1>8 DEF WorkInv

LEMMA TakeWorkInv ==
  ASSUME WorkInv, NEW w \in Workers, Take(w)
  PROVE  WorkInv'
<1>1. PICK r \in Results :
        /\ settled[r] < Len(data[r])
        /\ \A v \in Workers : at[v] # "idle" => job[v][1] # r
        /\ job' = [job EXCEPT ![w] = <<r, settled[r] + 1>>]
        /\ processed' = processed \cup {<<r, settled[r] + 1>>}
  BY DEF Take
<1>2. at[w] = "idle" /\ at' = [at EXCEPT ![w] = "materialized"] /\ UNCHANGED <<data, settled, checked>>
  BY DEF Take
<1>3. /\ data \in [Results -> Seq(Contents)] /\ settled[r] \in Nat /\ Len(data[r]) \in Nat
      /\ Len(data[r]) <= MaxRevision /\ MaxRevision \in Nat
  BY RefreshBoundsAssumption DEF WorkInv, WorkTypes, SettledInv, RefreshBoundsAssumption
<1>4. PICK k : k = <<r, settled[r] + 1>>
  OBVIOUS
<1>5. k[1] = r /\ k[2] = settled[r] + 1 /\ k \in Revisions /\ Exists(k)
  BY <1>1, <1>3, <1>4, RevisionParts DEF Exists
<1>6. job' = [job EXCEPT ![w] = k] /\ processed' = processed \cup {k}
  BY <1>1, <1>4
<1>7. WorkTypes'
  BY <1>2, <1>5, <1>6 DEF WorkInv, WorkTypes, WorkerSteps
<1>8. SettledInv' /\ ProcessedInv'
  BY <1>2, <1>5, <1>6 DEF WorkInv, SettledInv, ProcessedInv, Exists
<1>9. /\ job'[w] = k /\ at'[w] = "materialized"
      /\ \A v \in Workers : v # w => job'[v] = job[v] /\ at'[v] = at[v]
  BY <1>2, <1>6 DEF WorkInv, WorkTypes
<1>10. JobInv'
  BY <1>1, <1>2, <1>4, <1>5, <1>6, <1>9 DEF WorkInv, JobInv
<1>11. AloneInv'
  BY <1>1, <1>5, <1>9 DEF WorkInv, AloneInv
<1>12. WayInv'
  BY <1>2, <1>9 DEF WorkInv, WayInv, IsHead, Content
<1> QED
  BY <1>7, <1>8, <1>10, <1>11, <1>12 DEF WorkInv

\* A worker goes on with its revision.
Moves(w, place) ==
  /\ at[w] # "idle" /\ at' = [at EXCEPT ![w] = place]
  /\ UNCHANGED <<data, processed, settled, job>>
  /\ checked' \in [Workers -> Unset]

LEMMA MovesWorkInv ==
  ASSUME WorkInv, NEW w \in Workers, NEW place \in WorkerSteps \ {"idle"}, Moves(w, place),
         place \in {"incremental", "headLocked"} => job[w][2] = 1,
         place = "headLocked" => IsHead(job[w]) /\ Content(job[w]).fit
  PROVE  WorkInv'
<1>1. /\ at'[w] = place /\ at[w] # "idle"
      /\ \A v \in Workers : v # w => at'[v] = at[v]
      /\ UNCHANGED <<data, processed, settled, job>>
  BY DEF Moves, WorkInv, WorkTypes
<1>2. WorkTypes'
  BY DEF Moves, WorkInv, WorkTypes
<1>3. SettledInv' /\ ProcessedInv'
  BY <1>1 DEF WorkInv, SettledInv, ProcessedInv, Exists
<1>4. JobInv' /\ AloneInv'
  BY <1>1 DEF WorkInv, JobInv, AloneInv
<1>5. WayInv'
  BY <1>1 DEF WorkInv, WayInv, IsHead, Content
<1> QED
  BY <1>2, <1>3, <1>4, <1>5 DEF WorkInv

LEMMA CheckedTyped ==
  ASSUME WorkInv, NEW w \in Workers, NEW e \in Unset
  PROVE  checked \in [Workers -> Unset] /\ [checked EXCEPT ![w] = e] \in [Workers -> Unset]
  BY DEF WorkInv, WorkTypes

\* Which way a revision goes.
LEMMA ChooseWayMoves ==
  ASSUME WorkInv, NEW w \in Workers, ChooseWay(w)
  PROVE  \/ /\ Moves(w, "settling")
            /\ ~IsHead(job[w]) \/ job[w][1] \in Absorbs[metadata]
         \/ Moves(w, "repair")
         \/ Moves(w, "incremental") /\ job[w][2] = 1
<1>1. /\ at[w] # "idle" /\ UNCHANGED <<data, processed, settled, job>>
      /\ checked' \in [Workers -> Unset]
  BY DEF ChooseWay, WorkInv, WorkTypes
<1>2. job[w][2] \in Nat \ {0}
  BY <1>1, JobExists, RevisionParts DEF Exists
<1>3. CASE ~IsHead(job[w]) \/ job[w][1] \in Absorbs[metadata]
  BY <1>1, <1>3 DEF ChooseWay, Moves
<1>4. CASE ~ (~IsHead(job[w]) \/ job[w][1] \in Absorbs[metadata])
  <2>1. \/ at' = [at EXCEPT ![w] = "repair"]
        \/ at' = [at EXCEPT ![w] = "incremental"] /\ ~ (job[w][2] > 1)
    BY <1>4 DEF ChooseWay
  <2> QED
    BY <1>1, <1>2, <2>1 DEF Moves
<1> QED
  BY <1>3, <1>4

LEMMA ChooseWayWorkInv ==
  ASSUME WorkInv, NEW w \in Workers, ChooseWay(w)
  PROVE  WorkInv'
  BY ChooseWayMoves, MovesWorkInv DEF WorkerSteps

LEMMA FindStaleMoves ==
  ASSUME WorkInv, NEW w \in Workers, FindStale(w)
  PROVE  Moves(w, "settling") /\ ~IsHead(job[w])
  BY DEF FindStale, Moves, WorkInv, WorkTypes

LEMMA LockHeadMoves ==
  ASSUME WorkInv, NEW w \in Workers, LockHead(w), metadata \in Exports
  PROVE  /\ IsHead(job[w]) /\ job[w][2] = 1
         /\ \/ Moves(w, "headLocked") /\ Content(job[w]).fit
            \/ /\ Moves(w, "settling")
               /\ ~Content(job[w]).fit \/ job[w][1] \in Absorbs[metadata]
<1>1. at[w] = "incremental" /\ IsHead(job[w]) /\ UNCHANGED <<data, processed, settled, job>>
  BY DEF LockHead
<1>2. checked' \in [Workers -> Unset]
  BY CheckedTyped DEF LockHead, Unset
<1>3. job[w][2] = 1
  BY <1>1 DEF WorkInv, WayInv
<1> QED
  BY <1>1, <1>2, <1>3 DEF LockHead, Moves

LEMMA ClassifyIncrementalMoves ==
  ASSUME WorkInv, NEW w \in Workers, ClassifyIncremental(w)
  PROVE  /\ Moves(w, "settling") /\ IsHead(job[w]) /\ job[w][2] = 1 /\ Content(job[w]).fit
         /\ at[w] = "headLocked"
<1>1. checked' \in [Workers -> Unset]
  BY CheckedTyped DEF ClassifyIncremental, Unset
<1> QED
  BY <1>1 DEF ClassifyIncremental, Moves, WorkInv, WayInv

LEMMA RepairTimelineMoves ==
  ASSUME WorkInv, NEW w \in Workers, RepairTimeline(w)
  PROVE  Moves(w, "settling") /\ IsHead(job[w])
  BY DEF RepairTimeline, Moves, WorkInv, WorkTypes

LEMMA SettlingWorkInv ==
  ASSUME WorkInv, NEW w \in Workers, Moves(w, "settling")
  PROVE  WorkInv'
  BY MovesWorkInv DEF WorkerSteps

\* A worker leaves its revision, settled or not.
LEMMA ReleaseParts ==
  ASSUME WorkInv, NEW w \in Workers, Release(w)
  PROVE  /\ at'[w] = "idle"
         /\ \A v \in Workers : v # w => at'[v] = at[v] /\ job'[v] = job[v]
         /\ at' \in [Workers -> WorkerSteps]
         /\ job' \in [Workers -> Revisions \cup {<<>>}]
         /\ checked' \in [Workers -> Unset]
  BY DEF WorkInv, WorkTypes, Release, WorkerSteps, Unset

LEMMA ReleaseWorkInv ==
  ASSUME WorkInv, NEW w \in Workers, Release(w), UNCHANGED <<data, processed, settled>>
  PROVE  WorkInv'
<1>1. WorkTypes'
  BY ReleaseParts DEF WorkInv, WorkTypes
<1>2. SettledInv' /\ ProcessedInv'
  BY DEF WorkInv, SettledInv, ProcessedInv, Exists
<1>3. JobInv' /\ AloneInv'
  BY ReleaseParts DEF WorkInv, JobInv, AloneInv
<1>4. WayInv'
  BY ReleaseParts DEF WorkInv, WayInv, IsHead, Content
<1> QED
  BY <1>1, <1>2, <1>3, <1>4 DEF WorkInv

LEMMA SettleWorkInv ==
  ASSUME WorkInv, NEW w \in Workers, Settle(w)
  PROVE  WorkInv'
<1>1. /\ at[w] = "settling" /\ settled' = [settled EXCEPT ![job[w][1]] = @ + 1]
      /\ Release(w) /\ UNCHANGED <<data, processed>>
  BY DEF Settle
<1>2. PICK r : r = job[w][1]
  OBVIOUS
<1>3. /\ r \in Results /\ job[w] = <<r, settled[r] + 1>> /\ job[w] \in processed
      /\ settled[r] < Len(data[r])
  BY <1>1, <1>2 DEF WorkInv, JobInv
<1>4. /\ settled[r] \in Nat /\ Len(data[r]) \in Nat /\ Len(data[r]) <= MaxRevision
      /\ MaxRevision \in Nat
  BY <1>3, RefreshBoundsAssumption DEF WorkInv, WorkTypes, SettledInv, RefreshBoundsAssumption
<1>5. /\ settled'[r] = settled[r] + 1 /\ settled' \in [Results -> 0 .. MaxRevision]
      /\ \A q \in Results : q # r => settled'[q] = settled[q]
  BY <1>1, <1>2, <1>3, <1>4 DEF WorkInv, WorkTypes
<1>6. WorkTypes'
  BY <1>1, <1>5, ReleaseParts DEF WorkInv, WorkTypes
<1>7. SettledInv'
  BY <1>1, <1>3, <1>4, <1>5 DEF WorkInv, SettledInv
<1>8. ProcessedInv'
  BY <1>1, <1>3, <1>4, <1>5 DEF WorkInv, ProcessedInv, Exists
<1>9. \A v \in Workers : v # w /\ at[v] # "idle" => job[v][1] # r
  BY <1>1, <1>2 DEF WorkInv, AloneInv
<1>10. JobInv' /\ AloneInv'
  BY <1>1, <1>5, <1>9, ReleaseParts DEF WorkInv, JobInv, AloneInv
<1>11. WayInv'
  BY <1>1, ReleaseParts DEF WorkInv, WayInv, IsHead, Content
<1> QED
  BY <1>6, <1>7, <1>8, <1>10, <1>11 DEF WorkInv

(***************************************************************************)
(* What a refresh knows of its export and of the heads it replays.         *)
(***************************************************************************)

RefreshTypes ==
  /\ published \in Exports
  /\ active \in Schemas /\ metadata \in Exports /\ staging \in Schemas
  /\ next \in Tables /\ history \in Tables
  /\ lock \in Refreshers \cup {None}
  /\ step \in [Refreshers -> RefreshSteps]
  /\ manifest \in [Refreshers -> Unset]

TxTypes == tx \in [draft : Nat, todo : SUBSET Revisions, replayed : SUBSET Revisions]

CountTypes ==
  /\ live \in Nat
  /\ mishaps \in 0 .. MaxMishaps
  /\ overlaid \in BOOLEAN /\ regressed \in BOOLEAN /\ behind \in BOOLEAN

ManifestInv == \A p \in Refreshers : step[p] # "idle" => manifest[p] \in Exports

TxInv ==
  /\ \A k \in tx.todo \cup tx.replayed : Exists(k)
  /\ \A p \in Refreshers : step[p] = "replaying" =>
       \A k \in tx.todo : Content(k).fit /\ k[1] \notin Absorbs[staging.export]

TypeInv ==
  /\ WorkInv
  /\ RefreshTypes /\ TxTypes /\ CountTypes
  /\ ManifestInv /\ TxInv
  /\ IInv

LEMMA TypeInvTypeOK == TypeInv => TypeOK
  BY DEF TypeInv, WorkInv, WorkTypes, RefreshTypes, TxTypes, CountTypes, TypeOK

LEMMA InitTypeInv == Init => TypeInv
<1> SUFFICES ASSUME Init
             PROVE  TypeInv
  OBVIOUS
<1>1. Exports \in SUBSET Nat /\ Exports # {}
  BY ExportsAssumption DEF ExportsAssumption
<1>2. Min(Exports) \in Exports
  BY <1>1, MinIsLeast
<1>3. RefreshTypes
  BY <1>2 DEF Init, RefreshTypes, Schemas, Tables, Unset, NoSchema, NoTable, RefreshSteps
<1>4. TxTypes /\ CountTypes
  <2>1. TxTypes
    BY DEF Init, TxTypes, NoTx
  <2>2. live \in Nat
    BY <1>2, RecordTyped DEF Init
  <2>3. mishaps \in 0 .. MaxMishaps
    BY RefreshBoundsAssumption DEF Init, RefreshBoundsAssumption
  <2>4. overlaid \in BOOLEAN /\ regressed \in BOOLEAN /\ behind \in BOOLEAN
    BY DEF Init
  <2> QED
    BY <2>1, <2>2, <2>3, <2>4 DEF CountTypes
<1>5. ManifestInv /\ TxInv
  BY DEF Init, ManifestInv, TxInv, NoTx
<1> QED
  BY <1>3, <1>4, <1>5, InitWorkInv, InitIInv DEF TypeInv

\* The export at hand.
LEMMA StagedExport ==
  ASSUME TypeInv, NEW p \in Refreshers, step[p] \in {"loaded", "replaying"}
  PROVE  staging.export \in Exports /\ staging.export = manifest[p]
  BY DEF TypeInv, ManifestInv, IInv, StagingInv

\* Only one refresh replays.
LEMMA OneReplays ==
  ASSUME TypeInv, NEW p \in Refreshers, NEW q \in Refreshers,
         step[p] \in {"loaded", "replaying"}, step[q] = "replaying"
  PROVE  p = q
  BY Alone DEF TypeInv, Running

\* The head that is replayed next is one of those to replay, and what its
\* classification makes of the draft.
LEMMA Replays ==
  ASSUME TypeInv, tx.todo # {}, staging.export \in Exports,
         NEW k, k = NextHead, NEW e, e = staging.export,
         NEW known, known = CurrentTimeline(e, processed \cup tx.replayed \cup {k})
  PROVE  /\ k \in tx.todo /\ Exists(k)
         /\ \A j \in known : Exists(j)
         /\ AfterNextHead.todo = tx.todo \ {k}
         /\ AfterNextHead.replayed = tx.replayed \cup {k}
         /\ \/ ~IsHead(k) /\ AfterNextHead.draft = tx.draft
            \/ IsHead(k) /\ AfterNextHead.draft = Best(e, known)
            \/ /\ IsHead(k) /\ AfterNextHead.draft = Min({tx.draft, Content(k).value})
         /\ AfterNextHead \in [draft : Nat, todo : SUBSET Revisions, replayed : SUBSET Revisions]
<1>1. tx.todo \in SUBSET Revisions /\ tx.replayed \in SUBSET Revisions /\ tx.draft \in Nat
  BY DEF TypeInv, TxTypes
<1>2. \E j \in tx.todo : \A i \in tx.todo : j[1] <= i[1]
  <2> DEFINE S == {j[1] : j \in tx.todo}
  <2>1. S \in SUBSET Nat /\ S # {}
    BY <1>1, RevisionParts, RefreshResultsAssumption DEF RefreshResultsAssumption
  <2>2. \E x \in S : \A y \in S : x <= y
    <3> HIDE DEF S
    <3> QED
      BY <2>1, Smallest
  <2> QED
    BY <2>2
<1>3. k \in tx.todo /\ Exists(k)
  BY <1>2 DEF NextHead, TypeInv, TxInv
<1>4. \A j \in known : Exists(j)
  BY <1>3 DEF CurrentTimeline, TypeInv, TxInv, WorkInv, ProcessedInv
<1>5. /\ AfterNextHead.todo = tx.todo \ {k}
      /\ AfterNextHead.replayed = tx.replayed \cup {k}
      /\ AfterNextHead = [draft |-> AfterNextHead.draft, todo |-> tx.todo \ {k},
                          replayed |-> tx.replayed \cup {k}]
  BY DEF AfterNextHead
<1>6. \/ ~IsHead(k) /\ AfterNextHead.draft = tx.draft
      \/ IsHead(k) /\ AfterNextHead.draft = Best(e, known)
      \/ IsHead(k) /\ AfterNextHead.draft = Min({tx.draft, Content(k).value})
  <2> DEFINE far == k[2] > 1 \/ OutOfOrder(k, e, processed \cup tx.replayed \cup {k})
  <2>1. AfterNextHead.draft = IF ~IsHead(k) THEN tx.draft
                              ELSE IF far THEN Best(e, known)
                              ELSE Min({tx.draft, Content(k).value})
    BY DEF AfterNextHead
  <2> HIDE DEF far
  <2> QED
    BY <2>1
<1>7. data \in [Results -> Seq(Contents)]
  BY DEF TypeInv, WorkInv, WorkTypes
<1>8. AfterNextHead.draft \in Nat
  <2>1. Best(e, known) \in Nat
    BY <1>4, <1>7, BestIsLeast
  <2>2. Content(k).value \in Nat
    BY <1>3, <1>7, ContentTyped
  <2>3. Min({tx.draft, Content(k).value}) \in Nat
    BY <1>1, <2>2, MinIsLeast
  <2> QED
    BY <1>1, <1>6, <2>1, <2>3
<1>9. AfterNextHead \in [draft : Nat, todo : SUBSET Revisions, replayed : SUBSET Revisions]
  BY <1>1, <1>3, <1>5, <1>8
<1> QED
  BY <1>3, <1>4, <1>5, <1>6, <1>9

LEMMA TxKept ==
  ASSUME TypeInv, UNCHANGED data, tx' \in {tx, NoTx},
         \A q \in Refreshers : step'[q] = "replaying" => step[q] = "replaying" /\ staging' = staging
  PROVE  TxTypes' /\ TxInv'
<1>1. CASE tx' = tx
  BY <1>1 DEF TypeInv, TxTypes, TxInv, Exists, Content
<1>2. CASE tx' = NoTx
  BY <1>2 DEF NoTx, TxTypes, TxInv
<1> QED
  BY <1>1, <1>2

LEMMA WorkerTypeInv ==
  ASSUME TypeInv, WorkInv', CountTypes',
         UNCHANGED <<data, published, exportVars, refreshVars, behind>>
  PROVE  TypeInv'
<1>1. IInv'
  BY OthersIInv DEF TypeInv, refreshVars
<1>2. RefreshTypes' /\ ManifestInv'
  BY DEF TypeInv, RefreshTypes, ManifestInv, exportVars, refreshVars
<1>3. TxTypes' /\ TxInv'
  BY TxKept DEF exportVars, refreshVars
<1> QED
  BY <1>1, <1>2, <1>3 DEF TypeInv

LEMMA PublishTypeInv ==
  ASSUME TypeInv, Publish
  PROVE  TypeInv'
<1> DEFINE S == {e \in Exports : e > published}
<1>1. S \in SUBSET Nat /\ S # {} /\ published' = Min(S)
  BY ExportsAssumption DEF Publish, ExportsAssumption
<1>2. published' \in S
  <2> HIDE DEF S
  <2> QED
    BY <1>1, MinIsLeast
<1>3. UNCHANGED <<data, processed, settled, at, job, checked, exportVars, refreshVars, live, mishaps, flags>>
  BY DEF Publish, workVars
<1>4. RefreshTypes' /\ ManifestInv'
  BY <1>2, <1>3 DEF TypeInv, RefreshTypes, ManifestInv, exportVars, refreshVars
<1>5. WorkInv'
  BY <1>3, QuietWorkInv DEF TypeInv
<1>6. TxTypes' /\ TxInv'
  BY <1>3, TxKept DEF exportVars, refreshVars
<1>7. IInv' /\ CountTypes'
  BY <1>3, OthersIInv DEF TypeInv, refreshVars, flags, CountTypes
<1> QED
  BY <1>4, <1>5, <1>6, <1>7 DEF TypeInv

LEMMA AddRevisionTypeInv ==
  ASSUME TypeInv, NEW r \in Results, AddRevision(r)
  PROVE  TypeInv'
<1>1. PICK content \in Contents : data' = [data EXCEPT ![r] = Append(@, content)]
  BY DEF AddRevision
<1>2. UNCHANGED <<published, exportVars, refreshVars, live, mishaps, flags>>
  BY DEF AddRevision
<1>3. RefreshTypes' /\ ManifestInv' /\ TxTypes' /\ CountTypes'
  BY <1>2 DEF TypeInv, RefreshTypes, ManifestInv, TxTypes, CountTypes, exportVars, refreshVars, flags
<1>4. data \in [Results -> Seq(Contents)]
  BY DEF TypeInv, WorkInv, WorkTypes
<1>5. TxInv'
  BY <1>1, <1>2, <1>4, DataKept DEF TypeInv, TxInv, exportVars, refreshVars
<1>6. IInv' /\ WorkInv'
  BY <1>2, OthersIInv, AddRevisionWorkInv DEF TypeInv, refreshVars, flags
<1> QED
  BY <1>3, <1>5, <1>6 DEF TypeInv

LEMMA ClassifyIncrementalTypeInv ==
  ASSUME TypeInv, NEW w \in Workers, ClassifyIncremental(w)
  PROVE  TypeInv'
<1>1. WorkInv'
  BY ClassifyIncrementalMoves, SettlingWorkInv DEF TypeInv
<1>2. Content(job[w]).value \in Nat /\ live \in Nat
  BY JobExists, ContentTyped DEF ClassifyIncremental, TypeInv, CountTypes, WorkInv, WorkTypes
<1>3. live' \in Nat
  <2>1. live' = Min({live, Content(job[w]).value})
    BY DEF ClassifyIncremental
  <2> QED
    BY <1>2, <2>1, MinIsLeast
<1>4. overlaid' \in BOOLEAN
  BY DEF ClassifyIncremental, TypeInv, CountTypes
<1>5. /\ UNCHANGED <<data, published, exportVars, refreshVars, mishaps, regressed, behind>>
  BY DEF ClassifyIncremental
<1>6. CountTypes'
  BY <1>3, <1>4, <1>5 DEF TypeInv, CountTypes
<1> QED
  BY <1>1, <1>5, <1>6, WorkerTypeInv

LEMMA RepairTimelineTypeInv ==
  ASSUME TypeInv, NEW w \in Workers, RepairTimeline(w)
  PROVE  TypeInv'
<1>1. WorkInv'
  BY RepairTimelineMoves, SettlingWorkInv DEF TypeInv
<1>2. \A k \in CurrentTimeline(metadata, processed) : Exists(k)
  BY DEF CurrentTimeline, TypeInv, WorkInv, ProcessedInv
<1>3. live' \in Nat
  BY <1>2, BestIsLeast DEF RepairTimeline, TypeInv, RefreshTypes, WorkInv, WorkTypes
<1>4. /\ UNCHANGED <<data, published, exportVars, refreshVars, mishaps, regressed, behind>>
      /\ overlaid' = FALSE
  BY DEF RepairTimeline
<1>5. overlaid' \in BOOLEAN
  BY <1>4
<1>6. CountTypes'
  BY <1>3, <1>4, <1>5 DEF TypeInv, CountTypes
<1> QED
  BY <1>1, <1>4, <1>6, WorkerTypeInv

LEMMA WorkTypeInv ==
  ASSUME TypeInv, NEW w \in Workers, Work(w) \/ FailWork(w)
  PROVE  TypeInv'
<1>1. CASE Take(w) \/ ChooseWay(w) \/ FindStale(w) \/ LockHead(w) \/ Settle(w)
  <2>1. WorkInv'
    <3>1. LockHead(w) => WorkInv'
      BY LockHeadMoves, MovesWorkInv DEF TypeInv, RefreshTypes, WorkerSteps
    <3> QED
      BY <1>1, <3>1, TakeWorkInv, ChooseWayWorkInv, FindStaleMoves, SettlingWorkInv, SettleWorkInv
      DEF TypeInv
  <2>2. /\ UNCHANGED <<data, published, exportVars, refreshVars, live, mishaps, flags>>
    BY <1>1 DEF Take, ChooseWay, FindStale, LockHead, Settle
  <2>3. CountTypes' /\ UNCHANGED behind
    BY <2>2 DEF TypeInv, CountTypes, flags
  <2> QED
    BY <2>1, <2>2, <2>3, WorkerTypeInv
<1>2. CASE FailWork(w)
  <2>1. WorkInv'
    BY <1>2, ReleaseWorkInv DEF FailWork, TypeInv
  <2>2. /\ UNCHANGED <<data, published, exportVars, refreshVars, live, flags>>
        /\ mishaps' = mishaps + 1 /\ mishaps < MaxMishaps
    BY <1>2 DEF FailWork
  <2>3. mishaps' \in 0 .. MaxMishaps
    BY <2>2, RefreshBoundsAssumption DEF TypeInv, CountTypes, RefreshBoundsAssumption
  <2>4. CountTypes' /\ UNCHANGED behind
    BY <2>2, <2>3 DEF TypeInv, CountTypes, flags
  <2> QED
    BY <2>1, <2>2, <2>4, WorkerTypeInv
<1> QED
  BY <1>1, <1>2, ClassifyIncrementalTypeInv, RepairTimelineTypeInv DEF Work

\* Steps of a refresh that leave the activating transaction alone.
LEMMA StageTypeInv ==
  ASSUME TypeInv, NEW p \in Refreshers, IInv', RefreshTypes', ManifestInv',
         UNCHANGED <<workVars, live, tx, mishaps, flags>>,
         \A q \in Refreshers : step'[q] = "replaying" => step[q] = "replaying" /\ staging' = staging
  PROVE  TypeInv'
<1>1. WorkInv'
  BY QuietWorkInv DEF TypeInv, workVars
<1>2. TxTypes' /\ TxInv'
  BY TxKept DEF workVars
<1>3. CountTypes'
  BY DEF TypeInv, CountTypes, flags
<1> QED
  BY <1>1, <1>2, <1>3 DEF TypeInv

LEMMA DownloadTypeInv ==
  ASSUME TypeInv, NEW p \in Refreshers, Download(p) \/ TryLock(p)
  PROVE  TypeInv'
<1>1. /\ UNCHANGED <<workVars, live, published, exportVars, tx, mishaps, flags>>
      /\ step' \in [Refreshers -> RefreshSteps]
      /\ \A q \in Refreshers : q # p => step'[q] = step[q] /\ manifest'[q] = manifest[q]
      /\ step'[p] \in {"downloaded", "locked", "idle"}
      /\ manifest' \in [Refreshers -> Unset]
      /\ step'[p] = "idle" \/ manifest'[p] \in Exports
      /\ lock' \in Refreshers \cup {None}
  <2>1. CASE Download(p)
    BY <2>1 DEF Download, Go, TypeInv, RefreshTypes, RefreshSteps, Unset
  <2>2. CASE TryLock(p)
    BY <2>2 DEF TryLock, Go, TypeInv, RefreshTypes, RefreshSteps, Unset, ManifestInv
  <2> QED
    BY <2>1, <2>2
<1>2. RefreshTypes'
  BY <1>1 DEF TypeInv, RefreshTypes, exportVars
<1>3. ManifestInv'
  BY <1>1 DEF TypeInv, ManifestInv
<1>4. IInv'
  BY LockIInv DEF TypeInv
<1> QED
  BY <1>1, <1>2, <1>3, <1>4, StageTypeInv DEF exportVars

\* A refresh past the lock goes from one step to another.
Proceeds(p, place) ==
  /\ Running(p) /\ Go(p, place)
  /\ UNCHANGED <<lock, manifest, published>>

LEMMA ProceedsParts ==
  ASSUME TypeInv, NEW p \in Refreshers, NEW place \in RefreshSteps, Proceeds(p, place)
  PROVE  /\ step' \in [Refreshers -> RefreshSteps]
         /\ step'[p] = place
         /\ \A q \in Refreshers : q # p => step'[q] = step[q] /\ step'[q] # "replaying"
         /\ ManifestInv'
  BY Alone DEF TypeInv, RefreshTypes, Proceeds, Go, Running, ManifestInv

LEMMA LoadTypeInv ==
  ASSUME TypeInv, NEW p \in Refreshers, CreateStaging(p) \/ CopyTables(p)
  PROVE  TypeInv'
<1>1. PICK place \in RefreshSteps : Proceeds(p, place) /\ place \in {"loading", "loaded"}
  BY DEF CreateStaging, CopyTables, Proceeds, Running, RefreshSteps
<1>2. UNCHANGED <<workVars, live, published, active, metadata, next, history, tx, mishaps, flags>>
  BY DEF CreateStaging, CopyTables
<1>3. staging' \in Schemas
  <2>1. CASE CreateStaging(p)
    BY <2>1 DEF CreateStaging, TypeInv, RefreshTypes, Schemas
  <2>2. CASE CopyTables(p)
    <3>1. (staging.export = manifest[p]) \in BOOLEAN
      OBVIOUS
    <3>2. staging' = [staging EXCEPT !.whole = (staging.export = manifest[p])]
      BY <2>2 DEF CopyTables
    <3>3. PICK b \in BOOLEAN : staging' = [staging EXCEPT !.whole = b]
      BY <3>1, <3>2
    <3> QED
      BY <3>3 DEF TypeInv, RefreshTypes, Schemas
  <2> QED
    BY <2>1, <2>2
<1>4. RefreshTypes'
  BY <1>1, <1>2, <1>3, ProceedsParts DEF TypeInv, RefreshTypes, Proceeds
<1>5. IInv'
  BY StageIInv DEF TypeInv
<1>6. \A q \in Refreshers : step'[q] # "replaying"
  BY <1>1, ProceedsParts
<1> QED
  BY <1>1, <1>2, <1>4, <1>5, <1>6, ProceedsParts, StageTypeInv

LEMMA PopulateTypeInv ==
  ASSUME TypeInv, NEW p \in Refreshers, PopulateSingles(p) \/ PopulateAverages(p)
  PROVE  TypeInv'
<1>1. PICK place \in RefreshSteps : Proceeds(p, place) /\ place \in {"singles", "averages"}
  BY DEF PopulateSingles, PopulateAverages, Proceeds, Running, RefreshSteps
<1>2. UNCHANGED <<workVars, live, published, active, metadata, staging, history, tx, mishaps, flags>>
  BY DEF PopulateSingles, PopulateAverages
<1>3. next' \in Tables
  BY DEF PopulateSingles, PopulateAverages, TypeInv, RefreshTypes, Tables, Schemas, Unset
<1>4. RefreshTypes'
  BY <1>1, <1>2, <1>3, ProceedsParts DEF TypeInv, RefreshTypes, Proceeds
<1>5. IInv'
  BY PopulateIInv DEF TypeInv
<1>6. \A q \in Refreshers : step'[q] # "replaying"
  BY <1>1, ProceedsParts
<1> QED
  BY <1>1, <1>2, <1>4, <1>5, <1>6, ProceedsParts, StageTypeInv

\* A transaction that begins or goes on.
LEMMA ReplayTypeInv ==
  ASSUME TypeInv, NEW p \in Refreshers, IInv',
         step'[p] = "replaying", step' \in [Refreshers -> RefreshSteps],
         \A q \in Refreshers : q # p => step'[q] = step[q] /\ step'[q] # "replaying",
         step[p] # "idle",
         UNCHANGED <<data, published, exportVars, lock, manifest, live, mishaps, flags>>,
         WorkInv', TxTypes', \A k \in tx'.todo \cup tx'.replayed : Exists(k),
         \A k \in tx'.todo : Content(k).fit /\ k[1] \notin Absorbs[staging.export]
  PROVE  TypeInv'
<1>1. RefreshTypes' /\ ManifestInv'
  BY DEF TypeInv, RefreshTypes, exportVars, ManifestInv
<1>2. CountTypes'
  BY DEF TypeInv, CountTypes, flags
<1>3. TxInv'
  BY DEF TxInv, Exists, Content, exportVars
<1> QED
  BY <1>1, <1>2, <1>3 DEF TypeInv

LEMMA SeedTypeInv ==
  ASSUME TypeInv, NEW p \in Refreshers, SeedLiveRecords(p)
  PROVE  TypeInv'
<1>1. Proceeds(p, "replaying") /\ UNCHANGED <<workVars, live, published, exportVars, mishaps, flags>>
  BY DEF SeedLiveRecords, Proceeds, Running
<1>2. /\ staging.export \in Exports /\ step[p] = "loaded"
      /\ tx' = [draft |-> Record[staging.export], todo |-> ToReplay(staging.export), replayed |-> {}]
  BY StagedExport DEF SeedLiveRecords
<1>3. \A k \in ToReplay(staging.export) :
        Exists(k) /\ k \in Revisions /\ Content(k).fit /\ k[1] \notin Absorbs[staging.export]
  <2>1. \A r \in Results : Len(data[r]) \in Nat
    BY DEF TypeInv, WorkInv, WorkTypes
  <2> QED
    BY <2>1, RevisionParts DEF ToReplay, Heads, Exists, IsHead
<1>4. TxTypes'
  BY <1>2, <1>3, RecordTyped DEF TxTypes
<1>5. \A k \in tx'.todo \cup tx'.replayed : Exists(k)
  BY <1>2, <1>3
<1>6. \A k \in tx'.todo : Content(k).fit /\ k[1] \notin Absorbs[staging.export]
  BY <1>2, <1>3
<1>7. WorkInv' /\ IInv'
  BY <1>1, QuietWorkInv, StageIInv DEF TypeInv, workVars
<1>8. "replaying" \in RefreshSteps
  BY DEF RefreshSteps
<1>9. /\ step'[p] = "replaying" /\ step' \in [Refreshers -> RefreshSteps]
      /\ \A q \in Refreshers : q # p => step'[q] = step[q] /\ step'[q] # "replaying"
  BY <1>1, <1>8, ProceedsParts
<1>10. UNCHANGED <<data, lock, manifest>>
  BY <1>1 DEF Proceeds, workVars
<1> QED
  BY <1>1, <1>2, <1>4, <1>5, <1>6, <1>7, <1>9, <1>10, ReplayTypeInv

\* The next head is replayed, be it that a worker had to let go of it.
LEMMA NextHeadTypeInv ==
  ASSUME TypeInv, NEW p \in Refreshers, step[p] = "replaying", tx.todo # {}, tx' = AfterNextHead,
         UNCHANGED <<data, live, published, exportVars, lock, step, manifest, mishaps, flags>>,
         WorkInv'
  PROVE  TypeInv'
<1>1. staging.export \in Exports
  BY StagedExport
<1>2. PICK k : k = NextHead
  OBVIOUS
<1>3. /\ k \in tx.todo /\ Exists(k) /\ tx'.todo = tx.todo \ {k} /\ tx'.replayed = tx.replayed \cup {k}
      /\ TxTypes'
  BY <1>1, <1>2, Replays DEF TxTypes
<1>4. /\ \A j \in tx'.todo \cup tx'.replayed : Exists(j)
      /\ \A j \in tx'.todo : Content(j).fit /\ j[1] \notin Absorbs[staging.export]
  BY <1>3 DEF TypeInv, TxInv
<1>5. \A q \in Refreshers : q # p => step'[q] = step[q] /\ step'[q] # "replaying"
  BY OneReplays
<1>6. step' \in [Refreshers -> RefreshSteps] /\ step'[p] = "replaying"
  BY DEF TypeInv, RefreshTypes
<1>7. IInv'
  BY OthersIInv DEF TypeInv, flags
<1> QED
  BY <1>3, <1>4, <1>5, <1>6, <1>7, ReplayTypeInv

LEMMA ReplayHeadTypeInv ==
  ASSUME TypeInv, NEW p \in Refreshers, ReplayHead(p)
  PROVE  TypeInv'
<1>1. WorkInv'
  BY QuietWorkInv DEF ReplayHead, workVars, TypeInv
<1> QED
  BY <1>1, NextHeadTypeInv DEF ReplayHead, workVars

\* The replayed heads are processed once the transaction commits.
LEMMA CommitWorkInv ==
  ASSUME TypeInv, NEW p \in Refreshers, CommitActivation(p)
  PROVE  WorkInv'
<1>1. /\ processed' = processed \cup tx.replayed
      /\ UNCHANGED <<data, settled, at, job, checked>>
  BY DEF CommitActivation
<1>2. tx.replayed \subseteq Revisions /\ \A k \in tx.replayed : Exists(k)
  BY DEF TypeInv, TxTypes, TxInv
<1>3. WorkTypes'
  BY <1>1, <1>2 DEF TypeInv, WorkInv, WorkTypes
<1>4. SettledInv' /\ AloneInv'
  BY <1>1 DEF TypeInv, WorkInv, SettledInv, AloneInv
<1>5. ProcessedInv' /\ JobInv'
  BY <1>1, <1>2 DEF TypeInv, WorkInv, ProcessedInv, JobInv, Exists
<1>6. WayInv'
  BY <1>1 DEF TypeInv, WorkInv, WayInv, IsHead, Content
<1> QED
  BY <1>3, <1>4, <1>5, <1>6 DEF WorkInv

LEMMA CommitTypeInv ==
  ASSUME TypeInv, NEW p \in Refreshers, CommitActivation(p)
  PROVE  TypeInv'
<1>1. /\ Proceeds(p, "activated") /\ step[p] = "replaying"
      /\ UNCHANGED <<data, published, next, history, mishaps, behind>>
      /\ active' = staging /\ metadata' = manifest[p] /\ staging' = NoSchema
      /\ live' = tx.draft /\ tx' = NoTx /\ overlaid' = FALSE
  BY DEF CommitActivation, Proceeds, Running
<1>2. /\ step' \in [Refreshers -> RefreshSteps] /\ ManifestInv'
      /\ \A q \in Refreshers : step'[q] # "replaying"
  BY <1>1, ProceedsParts DEF RefreshSteps
<1>3. manifest[p] \in Exports
  BY <1>1, StagedExport
<1>4. NoSchema \in Schemas
  BY DEF NoSchema, Schemas, Unset
<1>5. RefreshTypes'
  BY <1>1, <1>2, <1>3, <1>4 DEF TypeInv, RefreshTypes, Proceeds
<1>6. regressed' \in BOOLEAN
  BY DEF CommitActivation
<1>7. live' \in Nat /\ overlaid' \in BOOLEAN
  BY <1>1 DEF TypeInv, TxTypes
<1>8. CountTypes'
  BY <1>1, <1>6, <1>7 DEF TypeInv, CountTypes
<1>9. TxTypes' /\ TxInv'
  BY <1>1, <1>2, TxKept
<1>10. WorkInv' /\ IInv'
  BY CommitWorkInv, ActivateIInv DEF TypeInv
<1> QED
  BY <1>2, <1>5, <1>8, <1>9, <1>10 DEF TypeInv

\* A refresh is over, one way or the other.
LEMMA OverTypeInv ==
  ASSUME TypeInv, NEW p \in Refreshers, Leave(p), IInv',
         UNCHANGED <<workVars, live, published, active, metadata, overlaid, regressed>>,
         tx' \in {tx, NoTx}, staging' \in {staging, NoSchema},
         next' \in {next, NoTable}, history' \in {history, next},
         ~Running(p) => UNCHANGED staging,
         mishaps' \in 0 .. MaxMishaps, behind' \in BOOLEAN
  PROVE  TypeInv'
<1>1. /\ step' \in [Refreshers -> RefreshSteps] /\ step'[p] = "idle"
      /\ \A q \in Refreshers : q # p => step'[q] = step[q] /\ manifest'[q] = manifest[q]
  BY LeaveParts DEF TypeInv
<1>2. lock' \in Refreshers \cup {None} /\ manifest' \in [Refreshers -> Unset]
  BY DEF Leave, TypeInv, RefreshTypes, Unset
<1>3. NoSchema \in Schemas /\ NoTable \in Tables
  BY DEF NoSchema, NoTable, Schemas, Tables, Unset
<1>4. RefreshTypes' /\ ManifestInv'
  BY <1>1, <1>2, <1>3 DEF TypeInv, RefreshTypes, ManifestInv
<1>5. \A q \in Refreshers : step'[q] = "replaying" => step[q] = "replaying" /\ staging' = staging
  BY <1>1, Alone DEF TypeInv
<1>6. TxTypes' /\ TxInv'
  BY <1>5, TxKept DEF workVars
<1>7. WorkInv' /\ CountTypes'
  BY QuietWorkInv DEF TypeInv, workVars, CountTypes
<1> QED
  BY <1>4, <1>6, <1>7 DEF TypeInv

LEMMA SwapTypeInv ==
  ASSUME TypeInv, NEW p \in Refreshers, SwapHistoricalResults(p)
  PROVE  TypeInv'
<1>1. /\ Leave(p) /\ history' = next /\ next' = NoTable /\ behind' = FALSE
      /\ UNCHANGED <<workVars, live, published, active, metadata, staging, tx, mishaps, overlaid, regressed>>
  BY DEF SwapHistoricalResults
<1>2. mishaps' \in 0 .. MaxMishaps /\ behind' \in BOOLEAN
  BY <1>1 DEF TypeInv, CountTypes
<1>3. IInv'
  BY SwapIInv DEF TypeInv
<1> QED
  BY <1>1, <1>2, <1>3, OverTypeInv

LEMMA AbandonTypeInv ==
  ASSUME TypeInv, NEW p \in Refreshers, step[p] # "idle", Abandon(p), mishaps' \in 0 .. MaxMishaps
  PROVE  TypeInv'
<1>1. /\ Leave(p) /\ UNCHANGED <<workVars, live, published, active, metadata, history, overlaid, regressed>>
      /\ staging' \in {staging, NoSchema} /\ next' \in {next, NoTable} /\ tx' \in {tx, NoTx}
  BY DEF Abandon
<1>2. ~Running(p) => UNCHANGED staging
  BY DEF Abandon, Running
<1>3. behind' \in BOOLEAN
  BY DEF Abandon
<1>4. IInv'
  BY AbandonIInv DEF TypeInv
<1> QED
  BY <1>1, <1>2, <1>3, <1>4, OverTypeInv

LEMMA FailTypeInv ==
  ASSUME TypeInv, NEW p \in Refreshers, FailRefresh(p) \/ CrashRefresh(p)
  PROVE  TypeInv'
<1>1. step[p] # "idle" /\ mishaps' \in 0 .. MaxMishaps
  BY RefreshBoundsAssumption
  DEF FailRefresh, CrashRefresh, TypeInv, CountTypes, RefreshBoundsAssumption
<1>2. CASE FailRefresh(p)
  BY <1>1, <1>2, AbandonTypeInv DEF FailRefresh
<1>3. CASE CrashRefresh(p)
  <2>1. /\ Leave(p) /\ UNCHANGED <<workVars, live, published, exportVars, overlaid, regressed>>
        /\ tx' \in {tx, NoTx} /\ behind' = (behind \/ Activated(p))
    BY <1>3 DEF CrashRefresh
  <2>2. behind' \in BOOLEAN
    BY <2>1
  <2>3. IInv'
    BY <2>1, BreakOffIInv DEF TypeInv, exportVars
  <2> QED
    BY <1>1, <2>1, <2>2, <2>3, OverTypeInv DEF exportVars
<1> QED
  BY <1>2, <1>3

LEMMA BreakDeadlockTypeInv ==
  ASSUME TypeInv, NEW p \in Refreshers, NEW w \in Workers, BreakDeadlock(p, w)
  PROVE  TypeInv'
<1>1. step[p] = "replaying" /\ tx.todo # {}
  BY DEF BreakDeadlock, Deadlocked
<1>2. CASE Abandon(p) /\ UNCHANGED mishaps
  BY <1>1, <1>2, AbandonTypeInv DEF TypeInv, CountTypes
<1>3. CASE /\ Release(w) /\ tx' = AfterNextHead
           /\ UNCHANGED <<data, processed, settled, live, published, exportVars, lock, step,
                          manifest, mishaps, flags>>
  <2>1. WorkInv'
    BY <1>3, ReleaseWorkInv DEF TypeInv
  <2> QED
    BY <1>1, <1>3, <2>1, NextHeadTypeInv
<1> QED
  BY <1>2, <1>3 DEF BreakDeadlock

LEMMA NextTypeInv ==
  ASSUME TypeInv, [Next]_vars
  PROVE  TypeInv'
<1>1. CASE Publish \/ \E r \in Results : AddRevision(r)
  BY <1>1, PublishTypeInv, AddRevisionTypeInv
<1>2. CASE \E w \in Workers : Work(w) \/ FailWork(w)
  BY <1>2, WorkTypeInv
<1>3. CASE \E p \in Refreshers : Refresh(p)
  BY <1>3, DownloadTypeInv, LoadTypeInv, SeedTypeInv, ReplayHeadTypeInv, CommitTypeInv,
     PopulateTypeInv, SwapTypeInv DEF Refresh
<1>4. CASE \E p \in Refreshers : FailRefresh(p) \/ CrashRefresh(p)
  BY <1>4, FailTypeInv
<1>5. CASE \E p \in Refreshers, w \in Workers : BreakDeadlock(p, w)
  BY <1>5, BreakDeadlockTypeInv
<1>6. CASE UNCHANGED vars
  <2>1. WorkInv' /\ CountTypes' /\ UNCHANGED <<data, published, exportVars, refreshVars, behind>>
    BY <1>6, QuietWorkInv DEF TypeInv, CountTypes, vars, workVars, flags
  <2> QED
    BY <2>1, WorkerTypeInv
<1> QED
  BY <1>1, <1>2, <1>3, <1>4, <1>5, <1>6 DEF Next

\* Every variable keeps its type: the draft of the transaction is a value even
\* where no result competes, no worker takes a revision that does not exist,
\* and a refresh past the download has an export.
THEOREM SpecRefreshTypeOK == Spec => []TypeOK
<1>1. Spec => []TypeInv
  BY InitTypeInv, NextTypeInv, PTL DEF Spec
<1> QED
  BY <1>1, TypeInvTypeOK, PTL

(***************************************************************************)
(* The live record. A result is open while the classification of its head  *)
(* is still to come. The live record, or the draft of the transaction, is  *)
(* no worse than the heads that are not open or still to be replayed, and  *)
(* it stems from the export, from a head, or from an earlier revision of a *)
(* result that is open, for its repair is still to come.                   *)
(***************************************************************************)

HeadOf(r) == <<r, Len(data[r])>>

Open(r) ==
  /\ settled[r] < Len(data[r])
  /\ \A w \in Workers : ~ (at[w] = "settling" /\ job[w] = HeadOf(r))

Counts(r, e) == data[r] # <<>> /\ Content(HeadOf(r)).fit /\ r \notin Absorbs[e]

Covers(e, v, todo) ==
  /\ v <= Record[e]
  /\ \A r \in Results : Counts(r, e) /\ ~Open(r) =>
       HeadOf(r) \in todo \/ v <= Content(HeadOf(r)).value

From(r, n, v) ==
  /\ Content(<<r, n>>).fit /\ v = Content(<<r, n>>).value
  /\ n = Len(data[r]) \/ Open(r)

Stems(e, v) ==
  \/ v = Record[e]
  \/ \E r \in Results \ Absorbs[e] : \E n \in 1 .. Len(data[r]) : From(r, n, v)

LiveInv ==
  ~regressed => Covers(metadata, live, {}) /\ (~overlaid => Stems(metadata, live))

DraftInv ==
  \A p \in Refreshers :
    step[p] = "replaying" /\ Absorbs[metadata] \subseteq Absorbs[staging.export] =>
      Covers(staging.export, tx.draft, tx.todo) /\ Stems(staging.export, tx.draft)

RecordInv == TypeInv /\ LiveInv /\ DraftInv

LEMMA HeadExists ==
  ASSUME WorkInv, NEW r \in Results, data[r] # <<>>
  PROVE  /\ Exists(HeadOf(r)) /\ HeadOf(r)[1] = r /\ HeadOf(r)[2] = Len(data[r])
         /\ IsHead(HeadOf(r)) /\ Len(data[r]) \in 1 .. MaxRevision
<1>1. Len(data[r]) \in Nat /\ Len(data[r]) # 0 /\ Len(data[r]) <= MaxRevision
  BY DEF WorkInv, WorkTypes, SettledInv
<1>2. Len(data[r]) \in 1 .. MaxRevision
  BY <1>1, RefreshBoundsAssumption DEF RefreshBoundsAssumption
<1> QED
  BY <1>1, <1>2, RevisionParts DEF HeadOf, Exists, IsHead

LEMMA HeadIs ==
  ASSUME WorkInv, NEW k, Exists(k), IsHead(k)
  PROVE  k[1] \in Results /\ k = HeadOf(k[1]) /\ data[k[1]] # <<>> /\ k[2] = Len(data[k[1]])
<1>1. k \in Revisions /\ k[1] \in Results /\ k[2] \in 1 .. MaxRevision /\ k = <<k[1], k[2]>>
  BY RevisionParts DEF Exists
<1>2. data[k[1]] \in Seq(Contents) /\ k[2] = Len(data[k[1]])
  BY <1>1 DEF IsHead, WorkInv, WorkTypes
<1>3. k[2] # 0
  BY <1>1
<1>4. data[k[1]] # <<>>
  BY <1>2, <1>3
<1> QED
  BY <1>1, <1>2, <1>4 DEF HeadOf

\* The head of a result that is not open was processed.
LEMMA ClosedProcessed ==
  ASSUME WorkInv, NEW r \in Results, data[r] # <<>>, ~Open(r)
  PROVE  HeadOf(r) \in processed
<1>1. Len(data[r]) \in 1 .. MaxRevision /\ settled[r] \in Nat /\ settled[r] <= Len(data[r])
  BY HeadExists DEF WorkInv, WorkTypes, SettledInv
<1>2. CASE settled[r] = Len(data[r])
  <2>1. Len(data[r]) \in 1 .. settled[r]
    BY <1>1, <1>2
  <2> QED
    BY <2>1 DEF HeadOf, WorkInv, ProcessedInv
<1>3. CASE settled[r] # Len(data[r])
  <2>1. settled[r] < Len(data[r])
    BY <1>1, <1>3
  <2>2. PICK w \in Workers : at[w] = "settling" /\ job[w] = HeadOf(r)
    BY <2>1 DEF Open
  <2> QED
    BY <2>2 DEF WorkInv, JobInv
<1> QED
  BY <1>2, <1>3

\* A result that a step of the workers closes without classifying it.
Passes(e) ==
  \A r \in Results : Open(r) /\ ~Open(r)' =>
    r \in Absorbs[e] \/ (Len(data[r]) = 1 /\ ~Content(HeadOf(r)).fit)

LEMMA PassesCovers ==
  ASSUME UNCHANGED data, NEW e, NEW v, NEW todo, Passes(e), Covers(e, v, todo)
  PROVE  Covers(e, v, todo)'
  BY DEF Passes, Covers, Counts, HeadOf, Content

LEMMA PassesStems ==
  ASSUME UNCHANGED data, NEW e, NEW v, Passes(e), Stems(e, v)
  PROVE  Stems(e, v)'
  BY DEF Passes, Stems, From, HeadOf, Content

\* Steps that leave the live record and the draft alone.
LEMMA PassesLiveInv ==
  ASSUME LiveInv, Passes(metadata), UNCHANGED <<data, live, metadata, regressed, overlaid>>
  PROVE  LiveInv'
<1>1. PICK m, v : m = metadata /\ v = live
  OBVIOUS
<1> SUFFICES ASSUME ~regressed'
             PROVE  Covers(m, v, {})' /\ (~overlaid' => Stems(m, v)')
  BY <1>1 DEF LiveInv
<1>2. Covers(m, v, {}) /\ (~overlaid => Stems(m, v))
  BY <1>1 DEF LiveInv
<1> QED
  BY <1>1, <1>2, PassesCovers, PassesStems

LEMMA PassesDraftInv ==
  ASSUME DraftInv, Passes(metadata), UNCHANGED <<data, metadata>>,
         \A q \in Refreshers : step'[q] = "replaying" =>
           step[q] = "replaying" /\ staging' = staging /\ tx' = tx
  PROVE  DraftInv'
<1> SUFFICES ASSUME NEW p \in Refreshers, step'[p] = "replaying",
                    Absorbs[metadata] \subseteq Absorbs[staging.export]
             PROVE  Covers(staging.export, tx.draft, tx.todo)' /\ Stems(staging.export, tx.draft)'
  BY DEF DraftInv
<1>1. PICK e, d, t : e = staging.export /\ d = tx.draft /\ t = tx.todo
  OBVIOUS
<1>2. staging'.export = e /\ tx'.draft = d /\ tx'.todo = t
  BY <1>1
<1>3. Covers(e, d, t) /\ Stems(e, d) /\ Passes(e)
  BY <1>1 DEF DraftInv, Passes
<1>4. Covers(e, d, t)' /\ Stems(e, d)'
  BY <1>3, PassesCovers, PassesStems
<1> QED
  BY <1>2, <1>4

LEMMA PassesRecordInv ==
  ASSUME RecordInv, TypeInv', Passes(metadata),
         UNCHANGED <<data, live, metadata, regressed, overlaid>>,
         \A q \in Refreshers : step'[q] = "replaying" =>
           step[q] = "replaying" /\ staging' = staging /\ tx' = tx
  PROVE  RecordInv'
  BY PassesLiveInv, PassesDraftInv DEF RecordInv

\* Nothing closes unless a worker goes to settle a head.
LEMMA OpenStays ==
  ASSUME NEW w \in Workers, UNCHANGED <<data, settled>>, at'[w] # "settling",
         \A v \in Workers : v # w => at'[v] = at[v] /\ job'[v] = job[v], NEW e
  PROVE  Passes(e)
  BY DEF Passes, Open, HeadOf

LEMMA SettlingPasses ==
  ASSUME WorkInv, NEW w \in Workers, Moves(w, "settling"), NEW e,
         \/ ~IsHead(job[w])
         \/ job[w][1] \in Absorbs[e]
         \/ job[w][2] = 1 /\ ~Content(job[w]).fit
  PROVE  Passes(e)
<1>1. /\ UNCHANGED <<data, settled, job>>
      /\ \A v \in Workers : v # w => at'[v] = at[v]
  BY DEF Moves, WorkInv, WorkTypes
<1>2. Exists(job[w])
  BY JobExists DEF Moves
<1>3. ASSUME NEW r \in Results, Open(r), ~Open(r)'
      PROVE  job[w] = HeadOf(r)
  BY <1>1, <1>3 DEF Open, HeadOf
<1>4. ASSUME NEW r \in Results, job[w] = HeadOf(r)
      PROVE  IsHead(job[w]) /\ job[w][1] = r /\ job[w][2] = Len(data[r])
  BY <1>4 DEF HeadOf, IsHead
<1> QED
  BY <1>3, <1>4 DEF Passes

LEMMA SettlePasses ==
  ASSUME WorkInv, NEW w \in Workers, Settle(w), NEW e
  PROVE  Passes(e)
<1>1. /\ at[w] = "settling" /\ settled' = [settled EXCEPT ![job[w][1]] = @ + 1]
      /\ Release(w) /\ UNCHANGED data
  BY DEF Settle
<1>2. PICK q : q = job[w][1]
  OBVIOUS
<1>3. /\ q \in Results /\ job[w] = <<q, settled[q] + 1>> /\ settled[q] < Len(data[q])
      /\ settled[q] \in Nat /\ Len(data[q]) \in Nat
  BY <1>1, <1>2 DEF WorkInv, JobInv, WorkTypes
<1>4. /\ settled'[q] = settled[q] + 1
      /\ \A r \in Results : r # q => settled'[r] = settled[r]
  BY <1>1, <1>2, <1>3 DEF WorkInv, WorkTypes
<1>5. /\ at'[w] # "settling"
      /\ \A v \in Workers : v # w => at'[v] = at[v] /\ job'[v] = job[v]
  BY <1>1, ReleaseParts
<1>6. ASSUME NEW r \in Results, Open(r)
      PROVE  Open(r)'
  <2>1. CASE r # q
    BY <1>1, <1>4, <1>5, <1>6, <2>1 DEF Open, HeadOf
  <2>2. CASE r = q
    <3>1. job[w] # HeadOf(r)
      BY <1>1, <1>6 DEF Open
    <3>2. settled[q] + 1 # Len(data[q])
      BY <1>3, <2>2, <3>1 DEF HeadOf
    <3>3. settled'[q] < Len(data'[q])
      BY <1>1, <1>3, <1>4, <3>2
    <3> QED
      BY <1>1, <1>5, <1>6, <2>2, <3>3 DEF Open, HeadOf
  <2> QED
    BY <2>1, <2>2
<1> QED
  BY <1>6 DEF Passes

LEMMA LockHeadPasses ==
  ASSUME WorkInv, NEW w \in Workers, LockHead(w), metadata \in Exports
  PROVE  Passes(metadata)
<1>1. CASE Moves(w, "headLocked")
  <2>1. /\ at'[w] # "settling" /\ UNCHANGED <<data, settled, job>>
        /\ \A v \in Workers : v # w => at'[v] = at[v]
    BY <1>1 DEF Moves, WorkInv, WorkTypes
  <2> QED
    BY <2>1, OpenStays
<1>2. CASE Moves(w, "settling") /\ (~Content(job[w]).fit \/ job[w][1] \in Absorbs[metadata])
  BY <1>2, LockHeadMoves, SettlingPasses
<1> QED
  BY <1>1, <1>2, LockHeadMoves

LEMMA ChooseWayPasses ==
  ASSUME WorkInv, NEW w \in Workers, ChooseWay(w)
  PROVE  Passes(metadata)
<1>1. CASE Moves(w, "repair") \/ Moves(w, "incremental")
  <2>1. /\ at'[w] # "settling" /\ UNCHANGED <<data, settled, job>>
        /\ \A v \in Workers : v # w => at'[v] = at[v]
    BY <1>1 DEF Moves, WorkInv, WorkTypes
  <2> QED
    BY <2>1, OpenStays
<1>2. CASE Moves(w, "settling") /\ (~IsHead(job[w]) \/ job[w][1] \in Absorbs[metadata])
  BY <1>2, SettlingPasses
<1> QED
  BY <1>1, <1>2, ChooseWayMoves

LEMMA TakePasses ==
  ASSUME WorkInv, NEW w \in Workers, Take(w)
  PROVE  Passes(metadata)
<1>1. /\ at'[w] # "settling" /\ UNCHANGED <<data, settled>>
      /\ \A v \in Workers : v # w => at'[v] = at[v] /\ job'[v] = job[v]
  BY DEF Take, WorkInv, WorkTypes
<1> QED
  BY <1>1, OpenStays

LEMMA ReleasePasses ==
  ASSUME WorkInv, NEW w \in Workers, Release(w), UNCHANGED <<data, settled>>, NEW e
  PROVE  Passes(e)
  BY ReleaseParts, OpenStays

\* The steps of a worker other than those that write the live record.
LEMMA WorkRecordInv ==
  ASSUME RecordInv, TypeInv', NEW w \in Workers,
         \/ Take(w) \/ ChooseWay(w) \/ FindStale(w) \/ LockHead(w) \/ Settle(w) \/ FailWork(w)
  PROVE  RecordInv'
<1>1. WorkInv /\ metadata \in Exports
  BY DEF RecordInv, TypeInv, RefreshTypes
<1>2. Passes(metadata)
  <2>1. CASE FindStale(w)
    BY <1>1, <2>1, FindStaleMoves, SettlingPasses
  <2>2. CASE FailWork(w)
    BY <1>1, <2>2, ReleasePasses DEF FailWork
  <2> QED
    BY <1>1, <2>1, <2>2, TakePasses, ChooseWayPasses, LockHeadPasses, SettlePasses
<1>3. UNCHANGED <<data, live, published, exportVars, refreshVars, regressed, overlaid>>
  BY DEF Take, ChooseWay, FindStale, LockHead, Settle, FailWork, flags
<1> QED
  BY <1>2, <1>3, PassesRecordInv DEF exportVars, refreshVars

\* The two that write it: nobody replays meanwhile.
LEMMA QuietDraft ==
  ASSUME ~Activating, step' = step
  PROVE  DraftInv'
  BY DEF Activating, DraftInv

LEMMA ClassifyIncrementalRecordInv ==
  ASSUME RecordInv, TypeInv', NEW w \in Workers, ClassifyIncremental(w)
  PROVE  RecordInv'
<1>1. /\ Moves(w, "settling") /\ job[w][2] = 1 /\ IsHead(job[w]) /\ Content(job[w]).fit
      /\ Exists(job[w])
  BY ClassifyIncrementalMoves, JobExists DEF RecordInv, TypeInv, Moves
<1>2. /\ ~Activating /\ step' = step /\ metadata' = metadata /\ regressed' = regressed
      /\ UNCHANGED <<data, settled, job>>
      /\ live' = Min({live, Content(job[w]).value})
      /\ overlaid' = (overlaid \/ (live' < live /\ job[w][1] \in Absorbs[metadata]))
  BY DEF ClassifyIncremental, exportVars, refreshVars
<1>3. PICK k, r, m, v, u : k = job[w] /\ r = k[1] /\ m = metadata /\ v = live /\ u = live'
  OBVIOUS
<1>4. /\ r \in Results /\ k = HeadOf(r) /\ data[r] # <<>> /\ Len(data[r]) = 1 /\ k = <<r, 1>>
  BY <1>1, <1>3, HeadIs DEF RecordInv, TypeInv, HeadOf
<1>5. v \in Nat /\ Content(k).value \in Nat
  BY <1>1, <1>3, ContentTyped DEF RecordInv, TypeInv, CountTypes, WorkInv, WorkTypes
<1>6. u \in {v, Content(k).value} /\ u <= v /\ u <= Content(k).value
  BY <1>2, <1>3, <1>5, MinIsLeast
<1>7. \A q \in Results : q # r /\ Open(q) => Open(q)'
  <2>1. \A x \in Workers : x # w => at'[x] = at[x]
    BY <1>1 DEF Moves, RecordInv, TypeInv, WorkInv, WorkTypes
  <2>2. \A q \in Results : q # r => k # HeadOf(q)
    BY <1>3 DEF HeadOf
  <2> QED
    BY <1>2, <1>3, <2>1, <2>2 DEF Open, HeadOf
<1>8. ASSUME ~regressed, Covers(m, v, {}), NEW x \in Nat, x <= v, x <= Content(k).value,
             Record[m] \in Nat
      PROVE  Covers(m, x, {})'
  <2>1. x <= Record[m]
    BY <1>5, <1>8 DEF Covers
  <2>2. ASSUME NEW q \in Results, Counts(q, m)', ~Open(q)'
        PROVE  x <= Content(HeadOf(q))'.value
    <3>1. Counts(q, m) /\ Content(HeadOf(q))' = Content(HeadOf(q))
      BY <1>2, <2>2 DEF Counts, HeadOf, Content
    <3>2. Content(HeadOf(q)).value \in Nat
      BY <3>1, HeadExists, ContentTyped DEF Counts, RecordInv, TypeInv, WorkInv, WorkTypes
    <3>3. CASE q = r
      BY <1>4, <1>8, <3>1, <3>3
    <3>4. CASE q # r
      <4>1. ~Open(q)
        BY <1>7, <2>2, <3>4
      <4>2. v <= Content(HeadOf(q)).value
        BY <1>8, <3>1, <4>1 DEF Covers
      <4> QED
        BY <1>5, <1>8, <3>1, <3>2, <4>2
    <3> QED
      BY <3>3, <3>4
  <2> QED
    BY <2>1, <2>2 DEF Covers
<1>9. ASSUME Stems(m, v)
      PROVE  Stems(m, v)'
  <2>1. CASE v = Record[m]
    BY <2>1 DEF Stems
  <2>2. CASE \E q \in Results \ Absorbs[m] : \E n \in 1 .. Len(data[q]) : From(q, n, v)
    <3>1. PICK q \in Results \ Absorbs[m] : \E n \in 1 .. Len(data[q]) : From(q, n, v)
      BY <2>2
    <3>2. PICK n \in 1 .. Len(data[q]) : From(q, n, v)
      BY <3>1
    <3>3. ASSUME q = r PROVE n = Len(data[q])
      <4>1. Len(data[q]) = 1
        BY <1>4, <3>3
      <4>2. n \in 1 .. 1
        BY <4>1
      <4> QED
        BY <4>1, <4>2
    <3>4. From(q, n, v)'
      BY <1>2, <1>7, <3>2, <3>3 DEF From, Content
    <3> QED
      BY <1>2, <3>4 DEF Stems
  <2> QED
    BY <1>9, <2>1, <2>2 DEF Stems
<1>10. ASSUME r \notin Absorbs[m]
       PROVE  \A x : x = Content(k).value => Stems(m, x)'
  <2> SUFFICES ASSUME NEW x, x = Content(k).value
               PROVE  Stems(m, x)'
    OBVIOUS
  <2>1. 1 \in 1 .. Len(data'[r]) /\ Content(<<r, 1>>)' = Content(k)
    BY <1>2, <1>4 DEF Content
  <2>2. From(r, 1, x)'
    BY <1>1, <1>2, <1>3, <1>4, <2>1 DEF From
  <2> QED
    BY <1>4, <1>10, <2>1, <2>2 DEF Stems
<1>11. LiveInv'
  <2> SUFFICES ASSUME ~regressed
               PROVE  Covers(m, u, {})' /\ (~overlaid' => Stems(m, u)')
    BY <1>2, <1>3 DEF LiveInv
  <2>1. Covers(m, v, {}) /\ (~overlaid => Stems(m, v))
    BY <1>3 DEF RecordInv, LiveInv
  <2>2. Record[m] \in Nat
    BY <1>3, RecordTyped DEF RecordInv, TypeInv, RefreshTypes
  <2>3. Covers(m, u, {})'
    BY <1>5, <1>6, <1>8, <2>1, <2>2
  <2>4. ASSUME ~overlaid'
        PROVE  Stems(m, u)'
    <3>1. ~overlaid /\ ~ (u < v /\ r \in Absorbs[m])
      BY <1>2, <1>3, <2>4
    <3>2. CASE u = v
      BY <1>9, <2>1, <3>1, <3>2
    <3>3. CASE u # v
      <4>1. u = Content(k).value /\ u < v
        BY <1>5, <1>6, <3>3
      <4> QED
        BY <1>10, <3>1, <4>1
    <3> QED
      BY <3>2, <3>3
  <2> QED
    BY <2>3, <2>4
<1> QED
  BY <1>2, <1>11, QuietDraft DEF RecordInv

\* What Best makes of processed heads that include all that are not open.
LEMMA BestCoversAndStems ==
  ASSUME WorkInv, NEW e \in Exports, NEW ks, \A k \in ks : Exists(k),
         NEW b, b = Best(e, CurrentTimeline(e, ks))
  PROVE  /\ b \in Nat /\ b <= Record[e]
         /\ \A r \in Results : Counts(r, e) /\ HeadOf(r) \in ks => b <= Content(HeadOf(r)).value
         /\ b = Record[e] \/ \E r \in Results : Counts(r, e) /\ b = Content(HeadOf(r)).value
<1>1. data \in [Results -> Seq(Contents)] /\ \A k \in CurrentTimeline(e, ks) : Exists(k)
  BY DEF WorkInv, WorkTypes, CurrentTimeline
<1>2. /\ b \in Nat /\ b <= Record[e]
      /\ \A k \in CurrentTimeline(e, ks) : Content(k).fit => b <= Content(k).value
      /\ \/ b = Record[e]
         \/ \E k \in CurrentTimeline(e, ks) : Content(k).fit /\ Content(k).value = b
  BY <1>1, BestIsLeast
<1>3. ASSUME NEW r \in Results, Counts(r, e), HeadOf(r) \in ks
      PROVE  b <= Content(HeadOf(r)).value
  BY <1>2, <1>3, HeadExists DEF Counts, CurrentTimeline
<1>4. ASSUME NEW k \in CurrentTimeline(e, ks), Content(k).fit, Content(k).value = b
      PROVE  \E r \in Results : Counts(r, e) /\ b = Content(HeadOf(r)).value
  <2>1. k[1] \in Results \ Absorbs[e] /\ k = HeadOf(k[1]) /\ data[k[1]] # <<>>
    BY <1>1, <1>4, HeadIs DEF CurrentTimeline
  <2> QED
    BY <1>4, <2>1 DEF Counts
<1> QED
  BY <1>2, <1>3, <1>4

LEMMA HeadStems ==
  ASSUME WorkInv, NEW e, NEW r \in Results, Counts(r, e)
  PROVE  /\ Stems(e, Content(HeadOf(r)).value)
         /\ UNCHANGED data => \A v : v = Content(HeadOf(r)).value => Stems(e, v)'
<1>1. Len(data[r]) \in 1 .. Len(data[r]) /\ r \in Results \ Absorbs[e]
  BY HeadExists DEF Counts
<1>2. From(r, Len(data[r]), Content(HeadOf(r)).value)
  BY DEF From, HeadOf, Counts
<1>3. Stems(e, Content(HeadOf(r)).value)
  BY <1>1, <1>2 DEF Stems
<1>4. ASSUME UNCHANGED data, NEW v, v = Content(HeadOf(r)).value
      PROVE  Stems(e, v)'
  <2>1. PICK n : n = Len(data[r])
    OBVIOUS
  <2>2. n \in 1 .. Len(data'[r]) /\ n = Len(data'[r])
    BY <1>1, <1>4, <2>1
  <2>3. Content(<<r, n>>)' = Content(<<r, n>>) /\ <<r, n>> = HeadOf(r)
    BY <1>4, <2>1 DEF Content, HeadOf
  <2>4. From(r, n, v)'
    BY <1>4, <2>2, <2>3 DEF From, Counts
  <2> QED
    BY <1>1, <2>2, <2>4 DEF Stems
<1> QED
  BY <1>3, <1>4

LEMMA RepairTimelineRecordInv ==
  ASSUME RecordInv, TypeInv', NEW w \in Workers, RepairTimeline(w)
  PROVE  RecordInv'
<1>1. /\ Moves(w, "settling") /\ IsHead(job[w]) /\ job[w] \in processed
      /\ WorkInv /\ metadata \in Exports
  BY RepairTimelineMoves, JobExists DEF RecordInv, TypeInv, Moves, RefreshTypes
<1>2. /\ ~Activating /\ step' = step /\ metadata' = metadata /\ regressed' = regressed
      /\ UNCHANGED <<data, settled, job, processed>>
      /\ live' = Best(metadata, CurrentTimeline(metadata, processed))
  BY DEF RepairTimeline, exportVars, refreshVars
<1>3. PICK m, u : m = metadata /\ u = live'
  OBVIOUS
<1>4. /\ u <= Record[m]
      /\ \A r \in Results : Counts(r, m) /\ HeadOf(r) \in processed => u <= Content(HeadOf(r)).value
      /\ u = Record[m] \/ \E r \in Results : Counts(r, m) /\ u = Content(HeadOf(r)).value
  BY <1>1, <1>2, <1>3, BestCoversAndStems DEF WorkInv, ProcessedInv
<1>5. Covers(m, u, {})'
  <2>1. ASSUME NEW r \in Results, Counts(r, m)', ~Open(r)'
        PROVE  u <= Content(HeadOf(r))'.value
    <3>1. Counts(r, m) /\ Content(HeadOf(r))' = Content(HeadOf(r))
      BY <1>2, <2>1 DEF Counts, HeadOf, Content
    <3>2. HeadOf(r) \in processed
      <4>1. CASE Open(r)
        <5>1. \A v \in Workers : v # w => at'[v] = at[v]
          BY <1>1 DEF Moves, WorkInv, WorkTypes
        <5>2. job[w] = HeadOf(r)
          BY <1>2, <2>1, <4>1, <5>1 DEF Open, HeadOf
        <5> QED
          BY <1>1, <5>2
      <4>2. CASE ~Open(r)
        BY <1>1, <3>1, <4>2, ClosedProcessed DEF Counts
      <4> QED
        BY <4>1, <4>2
    <3> QED
      BY <1>4, <3>1, <3>2
  <2> QED
    BY <1>4, <2>1 DEF Covers
<1>6. Stems(m, u)'
  <2>1. CASE u = Record[m]
    BY <2>1 DEF Stems
  <2>2. CASE \E r \in Results : Counts(r, m) /\ u = Content(HeadOf(r)).value
    BY <1>1, <1>2, <2>2, HeadStems
  <2> QED
    BY <1>4, <2>1, <2>2
<1>7. LiveInv'
  BY <1>2, <1>3, <1>5, <1>6 DEF LiveInv
<1> QED
  BY <1>2, <1>7, QuietDraft DEF RecordInv

\* The steps of a refresh outside of the transaction.
LEMMA RefreshRecordInv ==
  ASSUME RecordInv, TypeInv',
         UNCHANGED <<data, settled, at, job, live, metadata, regressed, overlaid>>,
         \A q \in Refreshers : step'[q] = "replaying" =>
           step[q] = "replaying" /\ staging' = staging /\ tx' = tx
  PROVE  RecordInv'
<1>1. Passes(metadata)
  BY DEF Passes, Open, HeadOf
<1> QED
  BY <1>1, PassesRecordInv

\* A new revision opens its result.
LEMMA AppendOpens ==
  ASSUME WorkInv, NEW r \in Results, AddRevision(r), NEW e, NEW v
  PROVE  /\ \A t : Covers(e, v, t) => Covers(e, v, t)'
         /\ Stems(e, v) => Stems(e, v)'
<1>1. PICK content \in Contents : data' = [data EXCEPT ![r] = Append(@, content)]
  BY DEF AddRevision
<1>2. UNCHANGED <<settled, at, job>>
  BY DEF AddRevision
<1>3. data \in [Results -> Seq(Contents)]
  BY DEF WorkInv, WorkTypes
<1>4. /\ Len(data[r]) \in Nat /\ Len(data'[r]) = Len(data[r]) + 1
      /\ \A q \in Results : q # r => data'[q] = data[q]
      /\ \A n \in 1 .. Len(data[r]) : data'[r][n] = data[r][n]
  BY <1>1, <1>3, DataAppended
<1>5. Open(r)'
  <2>1. settled[r] \in Nat /\ settled[r] <= Len(data[r])
    BY DEF WorkInv, WorkTypes, SettledInv
  <2>2. ASSUME NEW w \in Workers, at[w] = "settling", job[w] = <<r, Len(data[r]) + 1>>
        PROVE  FALSE
    <3>1. Exists(job[w])
      BY <2>2, JobExists
    <3>2. job[w][1] = r /\ job[w][2] = Len(data[r]) + 1
      BY <2>2
    <3> QED
      BY <1>4, <3>1, <3>2 DEF Exists
  <2> QED
    BY <1>2, <1>4, <2>1, <2>2 DEF Open, HeadOf
<1>6. ASSUME NEW q \in Results, q # r
      PROVE  Open(q)' = Open(q) /\ HeadOf(q)' = HeadOf(q) /\ \A n : Content(<<q, n>>)' = Content(<<q, n>>)
  BY <1>2, <1>4, <1>6 DEF Open, HeadOf, Content
<1>7. ASSUME NEW t, Covers(e, v, t)
      PROVE  Covers(e, v, t)'
  <2>1. ASSUME NEW q \in Results, Counts(q, e)', ~Open(q)'
        PROVE  HeadOf(q)' \in t \/ v <= Content(HeadOf(q))'.value
    <3>1. q # r
      BY <1>5, <2>1
    <3>2. HeadOf(q)' = HeadOf(q) /\ Content(HeadOf(q))' = Content(HeadOf(q)) /\ data'[q] = data[q]
      BY <1>4, <1>6, <3>1 DEF HeadOf
    <3>3. Counts(q, e) /\ ~Open(q)
      BY <1>6, <2>1, <3>1, <3>2 DEF Counts
    <3> QED
      BY <1>7, <3>2, <3>3 DEF Covers
  <2> QED
    BY <1>7, <2>1 DEF Covers
<1>8. ASSUME Stems(e, v)
      PROVE  Stems(e, v)'
  <2>1. CASE v = Record[e]
    BY <2>1 DEF Stems
  <2>2. CASE \E q \in Results \ Absorbs[e] : \E n \in 1 .. Len(data[q]) : From(q, n, v)
    <3>1. PICK q \in Results \ Absorbs[e] : \E n \in 1 .. Len(data[q]) : From(q, n, v)
      BY <2>2
    <3>2. PICK n \in 1 .. Len(data[q]) : From(q, n, v)
      BY <3>1
    <3>3. CASE q = r
      <4>1. n \in 1 .. Len(data'[q]) /\ Content(<<q, n>>)' = Content(<<q, n>>)
        BY <1>4, <3>2, <3>3 DEF Content
      <4>2. From(q, n, v)'
        BY <1>5, <3>2, <3>3, <4>1 DEF From
      <4> QED
        BY <4>1, <4>2 DEF Stems
    <3>4. CASE q # r
      <4>1. n \in 1 .. Len(data'[q]) /\ Len(data'[q]) = Len(data[q])
        BY <1>4, <3>4
      <4>2. From(q, n, v)'
        BY <1>6, <3>2, <3>4, <4>1 DEF From
      <4> QED
        BY <4>1, <4>2 DEF Stems
    <3> QED
      BY <3>3, <3>4
  <2> QED
    BY <1>8, <2>1, <2>2 DEF Stems
<1> QED
  BY <1>7, <1>8

LEMMA AddRevisionRecordInv ==
  ASSUME RecordInv, TypeInv', NEW r \in Results, AddRevision(r)
  PROVE  RecordInv'
<1>1. UNCHANGED <<live, metadata, staging, step, tx, regressed, overlaid>>
  BY DEF AddRevision, exportVars, refreshVars, flags
<1>2. WorkInv
  BY DEF RecordInv, TypeInv
<1>3. LiveInv'
  <2>1. PICK m, v : m = metadata /\ v = live
    OBVIOUS
  <2> SUFFICES ASSUME ~regressed'
               PROVE  Covers(m, v, {})' /\ (~overlaid' => Stems(m, v)')
    BY <1>1, <2>1 DEF LiveInv
  <2>2. Covers(m, v, {}) /\ (~overlaid => Stems(m, v))
    BY <1>1, <2>1 DEF RecordInv, LiveInv
  <2> QED
    BY <1>1, <1>2, <2>2, AppendOpens
<1>4. DraftInv'
  <2>1. PICK m, e, d, t : m = metadata /\ e = staging.export /\ d = tx.draft /\ t = tx.todo
    OBVIOUS
  <2> SUFFICES ASSUME NEW p \in Refreshers, step[p] = "replaying", Absorbs[m] \subseteq Absorbs[e]
               PROVE  Covers(e, d, t)' /\ Stems(e, d)'
    BY <1>1, <2>1 DEF DraftInv
  <2>2. Covers(e, d, t) /\ Stems(e, d)
    BY <2>1 DEF RecordInv, DraftInv
  <2> QED
    BY <1>2, <2>2, AppendOpens
<1> QED
  BY <1>3, <1>4 DEF RecordInv

\* The draft starts from the export's record, with all heads to replay.
LEMMA SeedRecordInv ==
  ASSUME RecordInv, TypeInv', NEW p \in Refreshers, SeedLiveRecords(p)
  PROVE  RecordInv'
<1>1. /\ UNCHANGED <<data, settled, at, job, live, metadata, staging, regressed, overlaid>>
      /\ tx' = [draft |-> Record[staging.export], todo |-> ToReplay(staging.export), replayed |-> {}]
  BY DEF SeedLiveRecords, workVars, exportVars, flags
<1>2. LiveInv'
  <2>1. Passes(metadata)
    BY <1>1 DEF Passes, Open, HeadOf
  <2> QED
    BY <1>1, <2>1, PassesLiveInv DEF RecordInv
<1>3. PICK e, d, t : e = staging.export /\ d = Record[e] /\ t = ToReplay(e)
  OBVIOUS
<1>4. staging'.export = e /\ tx'.draft = d /\ tx'.todo = t
  BY <1>1, <1>3
<1>5. d <= Record[e]
  <2>1. e \in Exports
    BY <1>3, StagedExport DEF SeedLiveRecords, RecordInv
  <2> QED
    BY <1>3, <2>1, RecordTyped
<1>6. ASSUME NEW r \in Results, Counts(r, e)'
      PROVE  HeadOf(r)' \in t
  <2>1. Counts(r, e) /\ HeadOf(r)' = HeadOf(r)
    BY <1>1, <1>6 DEF Counts, HeadOf, Content
  <2>2. HeadOf(r) \in Revisions /\ IsHead(HeadOf(r)) /\ HeadOf(r)[1] = r
    BY <2>1, HeadExists DEF RecordInv, TypeInv, Counts, Exists
  <2> QED
    BY <1>3, <2>1, <2>2 DEF Counts, ToReplay, Heads
<1>7. Covers(e, d, t)'
  BY <1>5, <1>6 DEF Covers
<1>8. Stems(e, d)'
  BY <1>3 DEF Stems
<1>9. DraftInv'
  BY <1>4, <1>7, <1>8 DEF DraftInv
<1> QED
  BY <1>2, <1>9 DEF RecordInv

\* The next head is classified on top of the draft.
LEMMA ReplayDraft ==
  ASSUME TypeInv, tx.todo # {}, NEW e \in Exports, e = staging.export,
         Covers(e, tx.draft, tx.todo), Stems(e, tx.draft),
         NEW p \in Refreshers, step[p] = "replaying"
  PROVE  Covers(e, AfterNextHead.draft, AfterNextHead.todo) /\ Stems(e, AfterNextHead.draft)
<1>1. PICK k : k = NextHead
  OBVIOUS
<1>2. PICK ks : ks = processed \cup tx.replayed \cup {k}
  OBVIOUS
<1>3. PICK known : known = CurrentTimeline(e, ks)
  OBVIOUS
<1>4. /\ k \in tx.todo /\ Exists(k)
      /\ AfterNextHead.todo = tx.todo \ {k}
      /\ \/ ~IsHead(k) /\ AfterNextHead.draft = tx.draft
         \/ IsHead(k) /\ AfterNextHead.draft = Best(e, known)
         \/ IsHead(k) /\ AfterNextHead.draft = Min({tx.draft, Content(k).value})
  BY <1>1, <1>2, <1>3, Replays
<1>5. Content(k).fit /\ k[1] \notin Absorbs[e]
  BY <1>4 DEF TypeInv, TxInv
<1>6. WorkInv /\ data \in [Results -> Seq(Contents)] /\ tx.draft \in Nat
  BY DEF TypeInv, WorkInv, WorkTypes, TxTypes
<1>7. CASE ~IsHead(k) /\ AfterNextHead.draft = tx.draft
  <2>1. \A r \in Results : Counts(r, e) => HeadOf(r) # k
    BY <1>6, <1>7, HeadExists DEF Counts
  <2> QED
    BY <1>4, <1>7, <2>1 DEF Covers
<1>8. IsHead(k) => k[1] \in Results /\ k = HeadOf(k[1]) /\ Counts(k[1], e)
  BY <1>4, <1>5, <1>6, HeadIs DEF Counts
<1>9. CASE IsHead(k) /\ AfterNextHead.draft = Best(e, known)
  <2>1. PICK b : b = Best(e, known)
    OBVIOUS
  <2>2. \A j \in ks : Exists(j)
    BY <1>2, <1>4 DEF TypeInv, TxInv, WorkInv, ProcessedInv
  <2>3. /\ b <= Record[e]
        /\ \A r \in Results : Counts(r, e) /\ HeadOf(r) \in ks => b <= Content(HeadOf(r)).value
        /\ b = Record[e] \/ \E r \in Results : Counts(r, e) /\ b = Content(HeadOf(r)).value
    BY <1>3, <1>6, <2>1, <2>2, BestCoversAndStems
  <2>4. \A r \in Results : Counts(r, e) /\ ~Open(r) => HeadOf(r) \in ks
    BY <1>2, <1>6, ClosedProcessed DEF Counts
  <2>5. Covers(e, b, tx.todo \ {k})
    BY <2>3, <2>4 DEF Covers
  <2>6. Stems(e, b)
    <3>1. CASE b = Record[e]
      BY <3>1 DEF Stems
    <3>2. CASE \E r \in Results : Counts(r, e) /\ b = Content(HeadOf(r)).value
      BY <1>6, <3>2, HeadStems
    <3> QED
      BY <2>3, <3>1, <3>2
  <2> QED
    BY <1>4, <1>9, <2>1, <2>5, <2>6
<1>10. CASE IsHead(k) /\ AfterNextHead.draft = Min({tx.draft, Content(k).value})
  <2>1. PICK d, u, b : d = tx.draft /\ u = Content(k).value /\ b = Min({d, u})
    OBVIOUS
  <2>2. d \in Nat /\ u \in Nat /\ Record[e] \in Nat
    BY <1>4, <1>6, <2>1, ContentTyped, RecordTyped
  <2>3. b \in {d, u} /\ b <= d /\ b <= u
    BY <2>1, <2>2, MinIsLeast
  <2>4. Covers(e, b, tx.todo \ {k})
    <3>1. b <= Record[e]
      BY <2>1, <2>2, <2>3 DEF Covers
    <3>2. ASSUME NEW r \in Results, Counts(r, e), ~Open(r), HeadOf(r) \notin tx.todo \ {k}
          PROVE  b <= Content(HeadOf(r)).value
      <4>1. CASE HeadOf(r) = k
        BY <2>1, <2>3, <4>1
      <4>2. CASE HeadOf(r) # k
        <5>1. d <= Content(HeadOf(r)).value
          BY <2>1, <3>2, <4>2 DEF Covers
        <5>2. Content(HeadOf(r)).value \in Nat
          BY <1>6, <3>2, HeadExists, ContentTyped DEF Counts
        <5> QED
          BY <2>2, <2>3, <5>1, <5>2
      <4> QED
        BY <4>1, <4>2
    <3> QED
      BY <3>1, <3>2 DEF Covers
  <2>5. Stems(e, b)
    <3>1. Stems(e, u)
      BY <1>6, <1>8, <1>10, <2>1, HeadStems
    <3>2. Stems(e, d)
      BY <2>1
    <3> QED
      BY <2>3, <3>1, <3>2
  <2> QED
    BY <1>4, <1>10, <2>1, <2>4, <2>5
<1> QED
  BY <1>4, <1>7, <1>9, <1>10

LEMMA NextHeadRecordInv ==
  ASSUME RecordInv, TypeInv', NEW p \in Refreshers, step[p] = "replaying", tx.todo # {},
         tx' = AfterNextHead, Passes(metadata),
         UNCHANGED <<data, live, metadata, staging, step, regressed, overlaid>>
  PROVE  RecordInv'
<1>1. LiveInv'
  BY PassesLiveInv DEF RecordInv
<1>2. PICK e, d, t : e = staging.export /\ d = AfterNextHead.draft /\ t = AfterNextHead.todo
  OBVIOUS
<1>3. e \in Exports
  BY <1>2, StagedExport DEF RecordInv
<1>4. ASSUME Absorbs[metadata] \subseteq Absorbs[e]
      PROVE  Covers(e, d, t)' /\ Stems(e, d)'
  <2>1. Covers(e, tx.draft, tx.todo) /\ Stems(e, tx.draft)
    BY <1>2, <1>4 DEF RecordInv, DraftInv
  <2>2. Covers(e, d, t) /\ Stems(e, d)
    BY <1>2, <1>3, <2>1, ReplayDraft DEF RecordInv
  <2>3. Passes(e)
    BY <1>4 DEF Passes
  <2> QED
    BY <2>2, <2>3, PassesCovers, PassesStems
<1>5. staging'.export = e /\ tx'.draft = d /\ tx'.todo = t
  BY <1>2
<1>6. DraftInv'
  BY <1>2, <1>4, <1>5 DEF DraftInv
<1> QED
  BY <1>1, <1>6 DEF RecordInv

\* The draft becomes the live record.
LEMMA CommitRecordInv ==
  ASSUME RecordInv, TypeInv', NEW p \in Refreshers, CommitActivation(p)
  PROVE  RecordInv'
<1>1. /\ step[p] = "replaying" /\ tx.todo = {} /\ Proceeds(p, "activated")
      /\ UNCHANGED <<data, settled, at, job>>
      /\ metadata' = manifest[p] /\ live' = tx.draft
      /\ regressed' = ~ (Absorbs[metadata] \subseteq Absorbs[manifest[p]])
  BY DEF CommitActivation, Proceeds, Running
<1>2. PICK e, d : e = staging.export /\ d = tx.draft
  OBVIOUS
<1>3. metadata' = e /\ live' = d
  BY <1>1, <1>2, StagedExport DEF RecordInv
<1>4. LiveInv'
  <2> SUFFICES ASSUME ~regressed'
               PROVE  Covers(e, d, {})' /\ Stems(e, d)'
    BY <1>3 DEF LiveInv
  <2>1. Absorbs[metadata] \subseteq Absorbs[e]
    BY <1>1, <1>2, StagedExport DEF RecordInv
  <2>2. Covers(e, d, {}) /\ Stems(e, d)
    BY <1>1, <1>2, <2>1 DEF RecordInv, DraftInv
  <2>3. Passes(e)
    BY <1>1 DEF Passes, Open, HeadOf
  <2> QED
    BY <1>1, <2>2, <2>3, PassesCovers, PassesStems
<1>5. \A q \in Refreshers : step'[q] # "replaying"
  BY <1>1, ProceedsParts DEF RecordInv, RefreshSteps
<1>6. DraftInv'
  BY <1>5 DEF DraftInv
<1> QED
  BY <1>4, <1>6 DEF RecordInv

\* A refresh that is over or breaks off.
LEMMA OverRecordInv ==
  ASSUME RecordInv, TypeInv', NEW p \in Refreshers, Leave(p),
         UNCHANGED <<workVars, live, metadata, overlaid, regressed>>,
         ~Running(p) => UNCHANGED staging,
         step[p] # "replaying" => UNCHANGED tx
  PROVE  RecordInv'
<1>1. /\ step'[p] = "idle"
      /\ \A q \in Refreshers : q # p => step'[q] = step[q]
  BY LeaveParts DEF RecordInv, TypeInv
<1>2. \A q \in Refreshers : step'[q] = "replaying" =>
        step[q] = "replaying" /\ staging' = staging /\ tx' = tx
  BY <1>1, Alone, OneReplays DEF RecordInv, TypeInv, Running
<1> QED
  BY <1>2, RefreshRecordInv DEF workVars

LEMMA RefreshStepRecordInv ==
  ASSUME RecordInv, TypeInv', NEW p \in Refreshers,
         Refresh(p) \/ FailRefresh(p) \/ CrashRefresh(p)
  PROVE  RecordInv'
<1>1. CASE Download(p) \/ TryLock(p)
  <2>1. /\ UNCHANGED <<workVars, live, exportVars, tx, flags>>
        /\ \A q \in Refreshers : step'[q] = "replaying" => step[q] = "replaying"
    BY <1>1 DEF Download, TryLock, Go, RecordInv, TypeInv, RefreshTypes
  <2> QED
    BY <2>1, RefreshRecordInv DEF workVars, exportVars, flags
<1>2. CASE CreateStaging(p) \/ CopyTables(p) \/ PopulateSingles(p) \/ PopulateAverages(p)
  <2>1. PICK place \in RefreshSteps \ {"replaying"} : Proceeds(p, place)
    BY <1>2 DEF CreateStaging, CopyTables, PopulateSingles, PopulateAverages, Proceeds, Running,
       RefreshSteps
  <2>2. \A q \in Refreshers : step'[q] # "replaying"
    BY <2>1, ProceedsParts DEF RecordInv
  <2>3. UNCHANGED <<workVars, live, metadata, flags>>
    BY <1>2 DEF CreateStaging, CopyTables, PopulateSingles, PopulateAverages
  <2> QED
    BY <2>2, <2>3, RefreshRecordInv DEF workVars, flags
<1>3. CASE ReplayHead(p)
  <2>1. /\ step[p] = "replaying" /\ tx.todo # {} /\ tx' = AfterNextHead
        /\ UNCHANGED <<data, settled, at, job, live, metadata, staging, step, regressed, overlaid>>
    BY <1>3 DEF ReplayHead, workVars, exportVars, flags
  <2>2. Passes(metadata)
    BY <2>1 DEF Passes, Open, HeadOf
  <2> QED
    BY <2>1, <2>2, NextHeadRecordInv
<1>4. CASE SwapHistoricalResults(p)
  BY <1>4, OverRecordInv DEF SwapHistoricalResults
<1>5. CASE FailRefresh(p)
  BY <1>5, OverRecordInv DEF FailRefresh, Abandon, Running
<1>6. CASE CrashRefresh(p)
  BY <1>6, OverRecordInv DEF CrashRefresh, exportVars
<1> QED
  BY <1>1, <1>2, <1>3, <1>4, <1>5, <1>6, SeedRecordInv, CommitRecordInv DEF Refresh

LEMMA BreakDeadlockRecordInv ==
  ASSUME RecordInv, TypeInv', NEW p \in Refreshers, NEW w \in Workers, BreakDeadlock(p, w)
  PROVE  RecordInv'
<1>1. step[p] = "replaying" /\ tx.todo # {}
  BY DEF BreakDeadlock, Deadlocked
<1>2. CASE Abandon(p)
  BY <1>1, <1>2, OverRecordInv DEF Abandon, Running
<1>3. CASE /\ Release(w) /\ tx' = AfterNextHead
           /\ UNCHANGED <<data, processed, settled, live, published, exportVars, lock, step,
                          manifest, mishaps, flags>>
  <2>1. Passes(metadata)
    BY <1>3, ReleasePasses DEF RecordInv, TypeInv
  <2> QED
    BY <1>1, <1>3, <2>1, NextHeadRecordInv DEF exportVars, flags
<1> QED
  BY <1>2, <1>3 DEF BreakDeadlock

LEMMA InitRecordInv == Init => RecordInv
<1> SUFFICES ASSUME Init
             PROVE  RecordInv
  OBVIOUS
<1>1. /\ \A r \in Results : data[r] = <<>>
      /\ live = Record[metadata] /\ metadata = Min(Exports)
      /\ \A p \in Refreshers : step[p] = "idle"
  BY DEF Init
<1>2. TypeInv
  BY InitTypeInv
<1>3. live <= Record[metadata]
  BY <1>1, <1>2, RecordTyped DEF TypeInv, RefreshTypes
<1>4. Covers(metadata, live, {}) /\ Stems(metadata, live)
  BY <1>1, <1>3 DEF Covers, Counts, Stems
<1>5. LiveInv /\ DraftInv
  BY <1>1, <1>4 DEF LiveInv, DraftInv
<1> QED
  BY <1>2, <1>5 DEF RecordInv

LEMMA NextRecordInv ==
  ASSUME RecordInv, [Next]_vars
  PROVE  RecordInv'
<1>1. TypeInv'
  BY NextTypeInv DEF RecordInv
<1>2. CASE Publish
  BY <1>1, <1>2, RefreshRecordInv DEF Publish, workVars, exportVars, refreshVars, flags
<1>3. CASE \E r \in Results : AddRevision(r)
  BY <1>1, <1>3, AddRevisionRecordInv
<1>4. CASE \E w \in Workers : Work(w) \/ FailWork(w)
  BY <1>1, <1>4, WorkRecordInv, ClassifyIncrementalRecordInv, RepairTimelineRecordInv DEF Work
<1>5. CASE \E p \in Refreshers : Refresh(p) \/ FailRefresh(p) \/ CrashRefresh(p)
  BY <1>1, <1>5, RefreshStepRecordInv
<1>6. CASE \E p \in Refreshers, w \in Workers : BreakDeadlock(p, w)
  BY <1>1, <1>6, BreakDeadlockRecordInv
<1>7. CASE UNCHANGED vars
  BY <1>1, <1>7, RefreshRecordInv DEF vars, workVars, exportVars, refreshVars, flags
<1> QED
  BY <1>2, <1>3, <1>4, <1>5, <1>6, <1>7 DEF Next

\* With all work settled no result is open: the live record covers all heads
\* and stems from one of them or from the export.
LEMMA SettledRecord == RecordInv => LiveUnlessOverlaid
<1> SUFFICES ASSUME RecordInv, AllSettled, ~overlaid, ~regressed
             PROVE  live = TrueRecord
  BY DEF LiveUnlessOverlaid
<1>1. \A r \in Results : ~Open(r)
  <2>1. \A r \in Results : Len(data[r]) \in Nat
    BY DEF RecordInv, TypeInv, WorkInv, WorkTypes
  <2> QED
    BY <2>1 DEF AllSettled, Open
<1>2. WorkInv /\ metadata \in Exports /\ live \in Nat /\ data \in [Results -> Seq(Contents)]
  BY DEF RecordInv, TypeInv, RefreshTypes, CountTypes, WorkInv, WorkTypes
<1>3. PICK ks, b : ks = {k \in Heads : k[1] \notin Absorbs[metadata]} /\ b = Best(metadata, ks)
  OBVIOUS
<1>4. \A k \in ks : Exists(k) /\ IsHead(k) /\ k[1] \notin Absorbs[metadata]
  <2>1. \A r \in Results : Len(data[r]) \in Nat
    BY <1>2
  <2> QED
    BY <1>3, <2>1, RevisionParts DEF Heads, Exists, IsHead
<1>5. /\ b \in Nat /\ b <= Record[metadata]
      /\ \A k \in ks : Content(k).fit => b <= Content(k).value
      /\ b = Record[metadata] \/ \E k \in ks : Content(k).fit /\ Content(k).value = b
  BY <1>2, <1>3, <1>4, BestIsLeast
<1>6. Covers(metadata, live, {}) /\ Stems(metadata, live)
  BY DEF RecordInv, LiveInv
<1>7. live <= b
  <2>1. CASE b = Record[metadata]
    BY <1>6, <2>1 DEF Covers
  <2>2. ASSUME NEW k \in ks, Content(k).fit, Content(k).value = b
        PROVE  live <= b
    <3>1. k[1] \in Results /\ k = HeadOf(k[1]) /\ data[k[1]] # <<>>
      BY <1>2, <1>4, HeadIs
    <3>2. Counts(k[1], metadata)
      BY <1>4, <2>2, <3>1 DEF Counts
    <3> QED
      BY <1>1, <1>6, <2>2, <3>1, <3>2 DEF Covers
  <2> QED
    BY <1>5, <2>1, <2>2
<1>8. b <= live
  <2>1. CASE live = Record[metadata]
    BY <1>5, <2>1
  <2>2. CASE live # Record[metadata]
    <3>1. PICK r \in Results \ Absorbs[metadata] : \E n \in 1 .. Len(data[r]) : From(r, n, live)
      BY <1>6, <2>2 DEF Stems
    <3>2. PICK n \in 1 .. Len(data[r]) : From(r, n, live)
      BY <3>1
    <3>3. /\ data[r] # <<>> /\ <<r, n>> = HeadOf(r) /\ Content(HeadOf(r)).fit
          /\ live = Content(HeadOf(r)).value
      <4>1. n = Len(data[r]) /\ Content(<<r, n>>).fit /\ live = Content(<<r, n>>).value
        BY <1>1, <3>2 DEF From
      <4>2. data[r] # <<>>
        BY <3>2
      <4> QED
        BY <4>1, <4>2 DEF HeadOf
    <3>4. HeadOf(r) \in ks
      BY <1>2, <1>3, <3>3, HeadExists DEF Heads, Exists
    <3> QED
      BY <1>5, <3>3, <3>4
  <2> QED
    BY <2>1, <2>2
<1> QED
  BY <1>2, <1>3, <1>5, <1>7, <1>8 DEF TrueRecord

\* Once all work is settled the live record is the export with the heads it
\* does not contain on top, however refreshes, workers, failures and deadlocks
\* interleaved, but for the two overlaps: rebuild_live_records_after_baseline_refresh
\* under the lock of the cell, and classify_revision beside it.
THEOREM SpecLiveUnlessOverlaid == Spec => []LiveUnlessOverlaid
<1>1. Spec => []RecordInv
  BY InitRecordInv, NextRecordInv, PTL DEF Spec
<1> QED
  BY <1>1, SettledRecord, PTL
=============================================================================
