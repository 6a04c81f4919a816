--------------------------- MODULE WcaLiveIngestion ---------------------------
(***************************************************************************)
(* What the WCA Live worker makes of a frame, a snapshot of a whole round: *)
(* the diff table of the round, the evidence handed to reconciliation and  *)
(* the records claimed by the provider's tags.  And what the poller makes  *)
(* of the provider's list of recent records, evidence and records of its   *)
(* own.  Each snapshot and each poll is one transaction.                   *)
(*                                                                         *)
(* A row is a normalised round result; context that never changes within a *)
(* round (competition, event, names) is left out, and so are observation   *)
(* times, counters and logging.  A payload hash is the payload itself.     *)
(***************************************************************************)
EXTENDS Finalization, FiniteSets

CONSTANTS
  Rounds,
  Results, RoundOf,   \* RoundOf[x]: the round of result x
  Rows,               \* what a provider may show of a result, see RowFields
  None                \* no row, no evidence

Kinds  == {"single", "average"}
Levels == {"WR", "CR", "NR"}

\* Attempts and the provider's own best and average (0 for none), its record tags
\* ("" for none, PR for what is no record level), and enteredAt, 0 for null.
RowFields(row) ==
  DOMAIN row = {"attempts", "best", "average", "singleTag", "averageTag", "enteredAt"}

ASSUME RoundOfAssumption == RoundOf \in [Results -> Rounds]
ASSUME RowsAssumption == \A row \in Rows : RowFields(row)

Value(row, k) == IF k = "single" THEN row.best ELSE row.average
Tag(row, k)   == IF k = "single" THEN row.singleTag ELSE row.averageTag

VARIABLES
  rule,         \* rule[r]: finalization rule of the SubscriptionRound
  seen,         \* snapshots whose SourceObservation is processed
  table,        \* table[x]: row and active flag of the diff table, or None
  evidence,     \* evidence[x][k]: active observation of the subscription, or None
  records,      \* records[x][k][l]: value of the active record observation, or 0
  polled,       \* recent records whose SourceObservation is processed
  apiEvidence,  \* the same two as the poller leaves them
  apiRecords

ingestionVars == <<rule, seen, table, evidence, records, polled, apiEvidence, apiRecords>>

ResultsOf(r)  == {x \in Results : RoundOf[x] = r}
NoObservation == [k \in Kinds |-> None]
NoRecord      == [l \in Levels |-> 0]
Evidence      == {[value |-> Value(row, k), enteredAt |-> row.enteredAt] : row \in Rows, k \in Kinds}
Snapshots     == UNION {[X -> Rows] : X \in SUBSET Results}

ASSUME NoneAssumption == None \notin Rows \cup Evidence \cup [row : Rows, active : BOOLEAN]

IngestionInit ==
  /\ seen = {} /\ polled = {}
  /\ table = [x \in Results |-> None]
  /\ evidence = [x \in Results |-> NoObservation]
  /\ records = [x \in Results |-> [k \in Kinds |-> NoRecord]]
  /\ apiEvidence = evidence /\ apiRecords = records

-----------------------------------------------------------------------------
(* From a row to evidence and records.                                        *)

\* The material of the observations a row stands for under a rule.  The source's
\* tag is not part of it (material_fingerprint).
ResultObservations(row, rl) == [k \in Kinds |->
  IF /\ RoundResultIsFinalized(row.attempts, rl)
     /\ Value(row, k) # 0
     /\ k = "average" => AllExpectedAttemptsAreEntered(row.attempts, rl.expected)
  THEN [value |-> Value(row, k), enteredAt |-> row.enteredAt]
  ELSE None]

ObservationsOf(stored, rl) ==
  IF stored = None THEN NoObservation ELSE ResultObservations(stored, rl)

\* Mutant of SynchronizeObservations: nothing is retracted.
SynchronizeNewObservations(known, previous, current) == [k \in Kinds |->
  IF current[k] # None /\ current[k] # previous[k] THEN current[k] ELSE known[k]]

\* New and different observations are reconciled, vanished ones retracted; what the
\* previous row stands for is worked out under today's rule.
SynchronizeObservations(known, previous, current) == [k \in Kinds |->
  IF current[k] # None /\ current[k] # previous[k] THEN current[k]
  ELSE IF current[k] = None /\ previous[k] # None THEN None
  ELSE known[k]]

Pairs(stored) ==
  IF stored = None THEN [k \in Kinds |-> <<None, "">>]
  ELSE [k \in Kinds |-> <<Value(stored, k), Tag(stored, k)>>]

\* Mutant of NeedsRecordSynchronization: only the tags of the new row are looked at.
NeedsSynchronizationNow(previous, current) ==
  /\ Pairs(previous) # Pairs(current)
  /\ {Pairs(current)[k][2] : k \in Kinds} \cap Levels # {}

NeedsRecordSynchronization(previous, current) ==
  LET before == Pairs(previous)
      now    == Pairs(current)
      tags   == {before[k][2] : k \in Kinds} \cup {now[k][2] : k \in Kinds}
  IN before # now /\ tags \cap Levels # {}

ActiveLevel(row, k) ==
  IF Tag(row, k) \in Levels /\ IsComplete(Value(row, k)) THEN Tag(row, k) ELSE ""

WithdrawOtherStates(known, activeLevel) ==
  [l \in Levels |-> IF l = activeLevel THEN known[l] ELSE 0]

\* The record of this level is active, whatever its status was.
PersistRecordCandidate(known, level, value) == [known EXCEPT ![level] = value]

\* Other levels are withdrawn, the level of the tag is persisted.
SynchronizeResultRecords(known, row) == [k \in Kinds |->
  LET level == ActiveLevel(row, k)
      kept  == WithdrawOtherStates(known[k], level)
  IN IF level = "" THEN kept ELSE PersistRecordCandidate(kept, level, Value(row, k))]

TaggedRecords(row) == SynchronizeResultRecords([k \in Kinds |-> NoRecord], row)

-----------------------------------------------------------------------------
(* process_round_snapshot: one frame of one round.                            *)

Stored(r)   == {x \in ResultsOf(r) : table[x] # None}
Previous(x) == IF table[x] # None /\ table[x].active THEN table[x].row ELSE None
IsInitial(r) == Stored(r) = {}

IsDuplicate(r, snapshot) == <<r, snapshot>> \in seen

\* diff_snapshots, by the hash of the row.
Differing(snapshot) ==
  {x \in DOMAIN snapshot : Previous(x) = None \/ Previous(x) # snapshot[x]}
Removals(r, snapshot) ==
  {x \in ResultsOf(r) : Previous(x) # None /\ x \notin DOMAIN snapshot}

\* The first snapshot ever of a round only tells of rows entered within the catch-up
\* window, `recent`; later ones of all rows that differ.
Evaluated(r, snapshot, recent) ==
  IF IsInitial(r) THEN {x \in DOMAIN snapshot \cap recent : snapshot[x].enteredAt # 0}
  ELSE Differing(snapshot)

\* Mutant of PersistStates: removed rows stay active.
PersistStatesOnly(r, snapshot) ==
  table' = [x \in Results |->
    IF x \in Differing(snapshot) THEN [row |-> snapshot[x], active |-> TRUE]
    ELSE table[x]]

PersistStates(r, snapshot) ==
  table' = [x \in Results |->
    IF x \in Differing(snapshot) THEN [row |-> snapshot[x], active |-> TRUE]
    ELSE IF x \in Removals(r, snapshot) THEN [table[x] EXCEPT !.active = FALSE]
    ELSE table[x]]

ReconcileSnapshot(r, snapshot, recent) ==
  LET evaluated == Evaluated(r, snapshot, recent)
      removed   == Removals(r, snapshot)
      before(x) == ObservationsOf(Previous(x), rule[r])
  IN evidence' = [x \in Results |->
       IF x \in evaluated
         THEN SynchronizeObservations(evidence[x], before(x), ResultObservations(snapshot[x], rule[r]))
       ELSE IF x \in removed
         THEN SynchronizeObservations(evidence[x], before(x), NoObservation)
       ELSE evidence[x]]

SynchronizeRecords(r, snapshot, recent) ==
  records' = [x \in Results |->
    IF x \in Removals(r, snapshot)
      THEN [k \in Kinds |-> WithdrawOtherStates(records[x][k], "")]
    ELSE IF /\ x \in Evaluated(r, snapshot, recent)
            /\ NeedsRecordSynchronization(Previous(x), snapshot[x])
      THEN SynchronizeResultRecords(records[x], snapshot[x])
    ELSE records[x]]

ProcessRoundSnapshot(r, snapshot, recent) ==
  /\ IF IsDuplicate(r, snapshot)
       THEN UNCHANGED <<seen, table, evidence, records>>
       ELSE /\ PersistStates(r, snapshot)
            /\ ReconcileSnapshot(r, snapshot, recent)
            /\ SynchronizeRecords(r, snapshot, recent)
            /\ seen' = seen \cup {<<r, snapshot>>}
  /\ UNCHANGED <<rule, polled, apiEvidence, apiRecords>>

-----------------------------------------------------------------------------
(* poll_recent_records: the whole list in one transaction.                    *)

\* An entry of the list: a result, one of its kinds, and the rule of its round.
RecordEntry(x, k, row, rl) == [result |-> x, kind |-> k, row |-> row, rule |-> rl]

\* The record's value is the result's own best or average.
CandidateIsFinalized(e) ==
  /\ RoundResultIsFinalized(e.row.attempts, e.rule)
  /\ e.kind = "average" => AllExpectedAttemptsAreEntered(e.row.attempts, e.rule.expected)
  /\ Value(e.row, e.kind) # 0

\* Evidence of a candidate that is not final is retracted.
ReconcileCandidate(e) ==
  IF CandidateIsFinalized(e)
  THEN [value |-> Value(e.row, e.kind), enteredAt |-> e.row.enteredAt] ELSE None

\* A payload processed before is passed over: its record exists, in whatever status.
NewEntries(list) == list \ polled

PollRecentRecords(list) ==
  LET fresh == NewEntries(list)
      entry(x, k) == CHOOSE e \in fresh : e.result = x /\ e.kind = k
      hit(x, k) == \E e \in fresh : e.result = x /\ e.kind = k
  IN /\ polled' = polled \cup list
     /\ apiRecords' = [x \in Results |-> [k \in Kinds |->
          IF hit(x, k) THEN SynchronizeResultRecords(apiRecords[x], entry(x, k).row)[k]
          ELSE apiRecords[x][k]]]
     /\ apiEvidence' = [x \in Results |-> [k \in Kinds |->
          IF hit(x, k) THEN ReconcileCandidate(entry(x, k)) ELSE apiEvidence[x][k]]]
     /\ UNCHANGED <<rule, seen, table, evidence, records>>
=============================================================================
