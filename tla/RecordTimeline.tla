---------------------------- MODULE RecordTimeline ----------------------------
(***************************************************************************)
(* How the classifier keeps the live record cells of one event and kind,   *)
(* and the outcome every result has in the cells it competes in, while     *)
(* ingestion corrects, retracts and moves results.  A revision in its      *)
(* chronological place is compared with the live cells (incremental), any  *)
(* other replays its cells from the export (repair).                       *)
(*                                                                         *)
(* A cell stands for one (record level, scope), "World" for instance or    *)
(* one country; the scopes of a revision are the cells it competes in.     *)
(* Reads without a lock and committed transactions are separate actions;   *)
(* the transactions that write cells lock each cell before they read it.   *)
(* The queue is reduced to claims in revision order, with failures and     *)
(* lost leases (ClassificationQueue has it in full); recognition within a  *)
(* round or day and what is published are RecordPublication's.             *)
(***************************************************************************)
EXTENDS Integers, Sequences, FiniteSets, FiniteSetsExt

CONSTANTS
  Results,      \* CanonicalResult primary keys
  Cells,        \* record cells of one event and kind
  Baseline,     \* Baseline[c]: the export's record, larger than any value if none
  Contents,     \* what a revision may say: [value, at, fit, cells]
  Absorbed,     \* results of competitions the active export contains
  Workers,      \* classification worker processes
  None,         \* no worker
  MaxRevision,  \* bound on revisions of one result
  MaxMishaps    \* bound on failures of workers and leases lost by living ones

ASSUME ResultsAssumption == Results \subseteq Nat /\ Absorbed \subseteq Results
ASSUME CellsAssumption == IsFiniteSet(Cells) /\ Baseline \in [Cells -> Nat]
ASSUME ContentsAssumption ==
  Contents \subseteq [value : Nat, at : Nat, fit : BOOLEAN, cells : SUBSET Cells]
ASSUME TimelineBoundsAssumption == MaxRevision \in Nat /\ MaxMishaps \in Nat
ASSUME TimelineNoneAssumption == None \notin Workers

Revisions == Results \X (1 .. MaxRevision)
Outcomes  == {"none", "broken", "tied"}
Phases    == {"idle", "loaded", "materialized", "incremental", "repair", "historical", "settling"}

VARIABLES
  data,       \* data[r]: the revisions of r in order, the last is the head
  processed,  \* revisions with a ProcessedResult
  outcome,    \* outcome[k][c]: classification_outcome of revision k in cell c
  live,       \* live[c]: the live record
  settled,    \* settled[r]: revisions of r whose work is settled
  holder,     \* holder[r]: the worker with the claim on r's next revision
  phase, job, seenHead,   \* per worker: place in classify_revision, revision, head as read
  mishaps,    \* counter the bound applies to
  disturbed   \* history: a worker failed, or two were busy at once

workerVars == <<phase, job, seenHead>>
queueVars  == <<settled, holder, mishaps, disturbed>>
vars == <<data, processed, outcome, live, workerVars, queueVars>>

TypeOK ==
  /\ data \in [Results -> Seq(Contents)]
  /\ \A r \in Results : Len(data[r]) <= MaxRevision
  /\ processed \subseteq Revisions
  /\ outcome \in [Revisions -> [Cells -> Outcomes]]
  /\ live \in [Cells -> Nat]
  /\ settled \in [Results -> 0 .. MaxRevision]
  /\ holder \in [Results -> Workers \cup {None}]
  /\ phase \in [Workers -> Phases]
  /\ job \in [Workers -> Revisions \cup {<<>>}]
  /\ seenHead \in [Workers -> 0 .. MaxRevision]
  /\ mishaps \in 0 .. MaxMishaps
  /\ disturbed \in BOOLEAN

Init ==
  /\ data = [r \in Results |-> <<>>]
  /\ processed = {}
  /\ outcome = [k \in Revisions |-> [c \in Cells |-> "none"]]
  /\ live = Baseline
  /\ settled = [r \in Results |-> 0]
  /\ holder = [r \in Results |-> None]
  /\ phase = [w \in Workers |-> "idle"]
  /\ job = [w \in Workers |-> <<>>]
  /\ seenHead = [w \in Workers |-> 0]
  /\ mishaps = 0
  /\ disturbed = FALSE

-----------------------------------------------------------------------------
(* Timelines.                                                              *)

IsHead(k)   == k[2] = Len(data[k[1]])
Content(k)  == data[k[1]][k[2]]
CellsOf(k)  == Content(k).cells

\* classification_key: time, then primary key, then revision.
Before(j, k) ==
  LET a == Content(j).at
      b == Content(k).at
  IN \/ a < b
     \/ a = b /\ j[1] < k[1]
     \/ a = b /\ j[1] = k[1] /\ j[2] < k[2]

\* Mutant of Compare: equalling a record counts for nothing.
CompareStrictly(value, incumbent) == IF value < incumbent THEN "broken" ELSE "none"

Compare(value, incumbent) ==
  CASE value < incumbent -> "broken"
    [] value = incumbent -> "tied"
    [] OTHER             -> "none"

\* The best of a cell's export record and a set of revisions.
Best(c, ks) == Min({Baseline[c]} \cup {Content(k).value : k \in ks})

\* The revisions a repair replays: processed heads that are valid, compete in
\* the cell and are not part of the export.
CurrentTimeline(c) ==
  {k \in processed : IsHead(k) /\ Content(k).fit /\ c \in CellsOf(k) /\ k[1] \notin Absorbed}

\* What replaying a timeline gives revision k of it.
Replayed(k, c, timeline) ==
  Compare(Content(k).value, Best(c, {j \in timeline : Before(j, k)}))

\* Mutant of OutOfOrder: only the time counts, not the primary key.
OutOfTime(k) ==
  \E c \in CellsOf(k) : \E j \in CurrentTimeline(c) : Content(j).at > Content(k).at

\* A later result was processed already in a cell of k.
OutOfOrder(k) == \E c \in CellsOf(k) : \E j \in CurrentTimeline(c) : j # k /\ Before(k, j)

\* Mutant of AffectedCells: the cells the result has left are not repaired.
AffectedNow(k) == CellsOf(k)

\* The cells of a revision and of the one before it.
AffectedCells(k) ==
  CellsOf(k) \cup IF k[2] > 1 THEN CellsOf(<<k[1], k[2] - 1>>) ELSE {}

-----------------------------------------------------------------------------
(* Ingestion appends a revision, and workers claim the next one of a       *)
(* result, also from a worker that lost its lease.                         *)

AddRevision(r) ==
  /\ Len(data[r]) < MaxRevision
  /\ \E content \in Contents : data' = [data EXCEPT ![r] = Append(@, content)]
  /\ UNCHANGED <<processed, outcome, live, workerVars, queueVars>>

Claim(w) ==
  /\ phase[w] = "idle"
  /\ \E r \in Results :
       /\ settled[r] < Len(data[r])
       /\ \/ holder[r] = None /\ UNCHANGED mishaps
          \/ holder[r] # None /\ mishaps < MaxMishaps /\ mishaps' = mishaps + 1
       /\ holder' = [holder EXCEPT ![r] = w]
       /\ job' = [job EXCEPT ![w] = <<r, settled[r] + 1>>]
       /\ seenHead' = [seenHead EXCEPT ![w] = Len(data[r])]
  /\ phase' = [phase EXCEPT ![w] = "loaded"]
  /\ disturbed' = (disturbed \/ \E v \in Workers : phase[v] # "idle")
  /\ UNCHANGED <<data, processed, outcome, live, settled>>

-----------------------------------------------------------------------------
(* classify_revision.                                                      *)

Materialize(w) ==
  /\ phase[w] = "loaded"
  /\ processed' = processed \cup {job[w]}
  /\ phase' = [phase EXCEPT ![w] = "materialized"]
  /\ UNCHANGED <<data, outcome, live, job, seenHead, queueVars>>

\* Which way the revision is classified, decided without a lock.
ChooseWay(w) ==
  /\ phase[w] = "materialized"
  /\ LET k == job[w]
         way == CASE seenHead[w] > k[2] \/ k[1] \in Absorbed -> "historical"
                  [] seenHead[w] <= k[2] /\ k[1] \notin Absorbed
                     /\ (k[2] > 1 \/ OutOfOrder(k))          -> "repair"
                  [] OTHER                                   -> "incremental"
     IN phase' = [phase EXCEPT ![w] = way]
  /\ UNCHANGED <<data, processed, outcome, live, job, seenHead, queueVars>>

\* The head moved on: nothing of the transaction stays.
RollBack(w) ==
  /\ phase[w] \in {"incremental", "repair"}
  /\ ~IsHead(job[w])
  /\ phase' = [phase EXCEPT ![w] = "historical"]
  /\ UNCHANGED <<data, processed, outcome, live, job, seenHead, queueVars>>

\* Each cell is locked, read and set if the revision beats it.
ClassifyIncremental(w) ==
  /\ phase[w] = "incremental"
  /\ IsHead(job[w])
  /\ LET k == job[w]
         mine == IF Content(k).fit THEN CellsOf(k) ELSE {}
     IN /\ outcome' = [outcome EXCEPT ![k] =
              [c \in Cells |-> IF c \in mine THEN Compare(Content(k).value, live[c]) ELSE @[c]]]
        /\ live' = [c \in Cells |->
              IF c \in mine /\ Content(k).value < live[c] THEN Content(k).value ELSE live[c]]
  /\ phase' = [phase EXCEPT ![w] = "settling"]
  /\ UNCHANGED <<data, processed, job, seenHead, queueVars>>

\* Each affected cell is locked and its timeline replayed from the export.
RepairTimelines(w) ==
  /\ phase[w] = "repair"
  /\ IsHead(job[w])
  /\ LET affected == AffectedCells(job[w])
     IN /\ outcome' = [k \in Revisions |-> [c \in Cells |->
              IF c \in affected /\ k \in CurrentTimeline(c)
                THEN Replayed(k, c, CurrentTimeline(c))
                ELSE outcome[k][c]]]
        /\ live' = [c \in Cells |->
              IF c \in affected THEN Best(c, CurrentTimeline(c)) ELSE live[c]]
  /\ phase' = [phase EXCEPT ![w] = "settling"]
  /\ UNCHANGED <<data, processed, job, seenHead, queueVars>>

\* A superseded or absorbed revision is compared with every processed one
\* before it, valid or not; live cells are not touched.
ClassifyStaleHistorical(w) ==
  /\ phase[w] = "historical"
  /\ LET k == job[w]
         earlier(c) == {j \in processed : c \in CellsOf(j) /\ Before(j, k)}
     IN outcome' = [outcome EXCEPT ![k] = [c \in Cells |->
          IF c \in CellsOf(k) /\ Content(k).fit
            THEN Compare(Content(k).value, Best(c, earlier(c)))
            ELSE "none"]]
  /\ phase' = [phase EXCEPT ![w] = "settling"]
  /\ UNCHANGED <<data, processed, live, job, seenHead, queueVars>>

-----------------------------------------------------------------------------
Return(w) ==
  /\ phase' = [phase EXCEPT ![w] = "idle"]
  /\ job' = [job EXCEPT ![w] = <<>>]
  /\ seenHead' = [seenHead EXCEPT ![w] = 0]

\* Mutant of Settle: whoever finishes settles the work.
SettleAnyway(w) ==
  /\ phase[w] = "settling"
  /\ settled' = [settled EXCEPT ![job[w][1]] = @ + 1]
  /\ holder' = [holder EXCEPT ![job[w][1]] = None]
  /\ Return(w)
  /\ UNCHANGED <<data, processed, outcome, live, mishaps, disturbed>>

\* Only the holder of the claim settles the work.
Settle(w) ==
  /\ phase[w] = "settling"
  /\ LET r == job[w][1]
     IN IF holder[r] = w
          THEN /\ settled' = [settled EXCEPT ![r] = @ + 1]
               /\ holder' = [holder EXCEPT ![r] = None]
          ELSE UNCHANGED <<settled, holder>>
  /\ Return(w)
  /\ UNCHANGED <<data, processed, outcome, live, mishaps, disturbed>>

\* An exception or a crash between any two steps; the work is claimed again.
Fail(w) ==
  /\ phase[w] # "idle"
  /\ mishaps < MaxMishaps
  /\ mishaps' = mishaps + 1
  /\ disturbed' = TRUE
  /\ holder' = [holder EXCEPT ![job[w][1]] = IF @ = w THEN None ELSE @]
  /\ Return(w)
  /\ UNCHANGED <<data, processed, outcome, live, settled>>

Next ==
  \/ \E r \in Results : AddRevision(r)
  \/ \E w \in Workers :
       \/ Claim(w)
       \/ Materialize(w)
       \/ ChooseWay(w)
       \/ RollBack(w)
       \/ ClassifyIncremental(w)
       \/ RepairTimelines(w)
       \/ ClassifyStaleHistorical(w)
       \/ Settle(w)
       \/ Fail(w)

Spec == Init /\ [][Next]_vars

-----------------------------------------------------------------------------
(* Properties.                                                             *)

\* Every revision is settled and no worker is busy.
Quiescent ==
  /\ \A r \in Results : settled[r] = Len(data[r])
  /\ \A w \in Workers : phase[w] = "idle"

\* The heads a rebuild from scratch would count in a cell.
TrueTimeline(c) ==
  {k \in Revisions : /\ Len(data[k[1]]) > 0 /\ IsHead(k) /\ Content(k).fit
                     /\ c \in CellsOf(k) /\ k[1] \notin Absorbed}

\* Once all work is settled the live cells are what rebuilding them from the
\* export would give (rebuild_classification_from_scratch), whatever order,
\* concurrency, failures and lost leases they were computed under.
LiveMatchesOracle == Quiescent => \A c \in Cells : live[c] = Best(c, TrueTimeline(c))

\* A result competed in the cell, but not in its last two revisions.
LeftBehind(c) ==
  \E r \in Results : \E i \in 1 .. Len(data[r]) - 2 :
    c \in CellsOf(<<r, i>>) /\ c \notin AffectedCells(<<r, Len(data[r])>>)

\* The same, as far as it holds: for every cell that no result has left
\* behind by moving twice.
LiveUnlessLeftBehind ==
  Quiescent => \A c \in Cells : LeftBehind(c) \/ live[c] = Best(c, TrueTimeline(c))

\* Then every live record that beats the export is credited to a valid result
\* with that value: somebody holds it.
RecordHasHolder ==
  Quiescent => \A c \in Cells : live[c] < Baseline[c] /\ ~LeftBehind(c) =>
    \E k \in TrueTimeline(c) : Content(k).value = live[c] /\ outcome[k][c] # "none"

OutcomesRight(c) ==
  \A k \in TrueTimeline(c) : outcome[k][c] = Replayed(k, c, TrueTimeline(c))

\* The outcomes are what rebuilding them would give ("incremental
\* correctness oracle").
OutcomesMatchOracle == Quiescent => \A c \in Cells : OutcomesRight(c)

\* The same, as far as it holds: one worker at a time, no failure, and the
\* cells no result has left behind.
OutcomesUnlessDisturbed ==
  Quiescent /\ ~disturbed => \A c \in Cells : LeftBehind(c) \/ OutcomesRight(c)
=============================================================================
