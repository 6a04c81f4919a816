------------------------- MODULE CubingChinaIngestion -------------------------
(***************************************************************************)
(* What the CubingChina worker makes of a snapshot of a round and of a     *)
(* message about one result: the diff table, the evidence and the tagged   *)
(* records.  Each message is one transaction.                              *)
(*                                                                         *)
(* A row carries no time and no name.  Names, regions and WCA IDs come     *)
(* from the roster of the connection; a stored row is named or not.  A     *)
(* payload hash is the payload: that of a snapshot holds the roster, that  *)
(* of a single result does not.                                            *)
(***************************************************************************)
EXTENDS Finalization, FiniteSets

CONSTANTS
  Rounds,
  Results, RoundOf,   \* RoundOf[x]: the round of result x
  Rows,               \* what the provider may show of a result, see RowFields
  None                \* no row, no evidence

Kinds  == {"single", "average"}
Levels == {"WR", "CR", "NR"}

\* Attempts, best and average (0 for none), the normalised record tags ("" for none).
RowFields(row) == DOMAIN row = {"attempts", "best", "average", "singleTag", "averageTag"}

ASSUME RoundOfAssumption == RoundOf \in [Results -> Rounds]
ASSUME RowsAssumption == \A row \in Rows : RowFields(row)

Value(row, k) == IF k = "single" THEN row.best ELSE row.average
Tag(row, k)   == IF k = "single" THEN row.singleTag ELSE row.averageTag

VARIABLES
  rule,        \* rule[r]: finalization rule of the CubingChinaRoundTarget
  seen,        \* payloads whose SourceObservation is processed
  table,       \* table[x]: row, named and active flag of the diff table, or None
  evidence,    \* evidence[x][k]: active observation, or None
  records      \* records[x][k][l]: value of the active record observation, or 0

ingestionVars == <<rule, seen, table, evidence, records>>

ResultsOf(r)  == {x \in Results : RoundOf[x] = r}
NoObservation == [k \in Kinds |-> None]
NoRecord      == [l \in Levels |-> 0]
Evidence      == {[value |-> Value(row, k), named |-> n] : row \in Rows, k \in Kinds, n \in BOOLEAN}

ASSUME NoneAssumption ==
  /\ None \notin Rows \cup Evidence
  /\ None \notin [row : Rows, named : BOOLEAN] \cup [row : Rows, named : BOOLEAN, active : BOOLEAN]

IngestionInit ==
  /\ seen = {}
  /\ table = [x \in Results |-> None]
  /\ evidence = [x \in Results |-> NoObservation]
  /\ records = [x \in Results |-> [k \in Kinds |-> NoRecord]]

-----------------------------------------------------------------------------
(* From a row to evidence and records.                                        *)

\* normalize_result: the row with what the roster says of its competitor.
NormalizeResult(x, row, users) == [row |-> row, named |-> x \in users]

NormalizeSnapshot(rows, users) ==
  [x \in DOMAIN rows |-> NormalizeResult(x, rows[x], users)]

\* The material of the observations a normalised result stands for under a rule.
ResultObservations(result, rl) == [k \in Kinds |->
  IF /\ RoundResultIsFinalized(result.row.attempts, rl)
     /\ Value(result.row, k) # 0
     /\ k = "average" => AllExpectedAttemptsAreEntered(result.row.attempts, rl.expected)
  THEN [value |-> Value(result.row, k), named |-> result.named]
  ELSE None]

ObservationsOf(stored, rl) ==
  IF stored = None THEN NoObservation ELSE ResultObservations(stored, rl)

\* New and different observations are reconciled, vanished ones retracted.
SynchronizeObservations(known, previous, current) == [k \in Kinds |->
  IF current[k] # None /\ current[k] # previous[k] THEN current[k]
  ELSE IF current[k] = None /\ previous[k] # None THEN None
  ELSE known[k]]

Pairs(stored) ==
  IF stored = None THEN [k \in Kinds |-> <<None, "">>]
  ELSE [k \in Kinds |-> <<Value(stored.row, k), Tag(stored.row, k)>>]

NeedsRecordSynchronization(previous, current) ==
  LET before == Pairs(previous)
      now    == Pairs(current)
      tags   == {before[k][2] : k \in Kinds} \cup {now[k][2] : k \in Kinds}
  IN before # now /\ tags \cap Levels # {}

ActiveLevel(row, k) ==
  IF Tag(row, k) \in Levels /\ IsComplete(Value(row, k)) THEN Tag(row, k) ELSE ""

WithdrawOtherStates(known, activeLevel) ==
  [l \in Levels |-> IF l = activeLevel THEN known[l] ELSE 0]

\* Mutant of SynchronizeRecords: records of other levels are not withdrawn.
SynchronizeTags(known, result) == [k \in Kinds |->
  LET level == ActiveLevel(result.row, k)
  IN IF level = "" THEN known[k] ELSE [known[k] EXCEPT ![level] = Value(result.row, k)]]

\* Other levels are withdrawn, the level of the tag is persisted as active.
SynchronizeRecords(known, result) == [k \in Kinds |->
  LET level == ActiveLevel(result.row, k)
      kept  == WithdrawOtherStates(known[k], level)
  IN IF level = "" THEN kept ELSE [kept EXCEPT ![level] = Value(result.row, k)]]

-----------------------------------------------------------------------------
(* process_round_snapshot.                                                    *)

Previous(x) ==
  IF table[x] # None /\ table[x].active
  THEN [row |-> table[x].row, named |-> table[x].named] ELSE None
IsInitial(r) == \A x \in ResultsOf(r) : table[x] = None

SnapshotPayload(r, rows, users) == [round |-> r, rows |-> rows, users |-> users]

\* Mutant of Differing: by the provider's row, without what the roster says.
DifferingByRow(current) ==
  {x \in DOMAIN current : IF Previous(x) = None THEN TRUE ELSE Previous(x).row # current[x].row}

\* diff_snapshots, by the hash of the normalised row.
Differing(current) == {x \in DOMAIN current : Previous(x) # current[x]}

Removals(r, current) == {x \in ResultsOf(r) : Previous(x) # None /\ x \notin DOMAIN current}

Evaluated(r, current) == IF IsInitial(r) THEN DOMAIN current ELSE Differing(current)

Row(result) == [row |-> result.row, named |-> result.named, active |-> TRUE]

Evaluate(r, current) ==
  LET evaluated == Evaluated(r, current)
      removed   == Removals(r, current)
      before(x) == ObservationsOf(Previous(x), rule[r])
  IN /\ table' = [x \in Results |->
          IF x \in evaluated THEN Row(current[x])
          ELSE IF x \in removed THEN [table[x] EXCEPT !.active = FALSE]
          ELSE table[x]]
     /\ evidence' = [x \in Results |->
          IF x \in evaluated
            THEN SynchronizeObservations(evidence[x], before(x), ResultObservations(current[x], rule[r]))
          ELSE IF x \in removed
            THEN SynchronizeObservations(evidence[x], before(x), NoObservation)
          ELSE evidence[x]]
     /\ records' = [x \in Results |->
          IF x \in removed THEN [k \in Kinds |-> WithdrawOtherStates(records[x][k], "")]
          ELSE IF x \in evaluated /\ NeedsRecordSynchronization(Previous(x), current[x])
            THEN SynchronizeRecords(records[x], current[x])
          ELSE records[x]]

\* Rows of another round cannot be normalised: the transaction is rolled back.
BelongTo(rows, r) == DOMAIN rows \subseteq ResultsOf(r)

ProcessRoundSnapshot(r, rows, users) ==
  /\ BelongTo(rows, r)
  /\ IF SnapshotPayload(r, rows, users) \in seen
       THEN UNCHANGED <<seen, table, evidence, records>>
       ELSE /\ Evaluate(r, NormalizeSnapshot(rows, users))
            /\ seen' = seen \cup {SnapshotPayload(r, rows, users)}

-----------------------------------------------------------------------------
(* process_result_update: one row, whatever is known of the others.           *)

UpdatePayload(x, row) == [result |-> x, row |-> row]

ProcessResultUpdate(x, row, users) ==
  LET result == NormalizeResult(x, row, users)
      rl     == rule[RoundOf[x]]
  IN IF UpdatePayload(x, row) \in seen
       THEN UNCHANGED <<seen, table, evidence, records>>
       ELSE /\ seen' = seen \cup {UpdatePayload(x, row)}
            /\ IF Previous(x) = result
                 THEN UNCHANGED <<table, evidence, records>>
                 ELSE /\ table' = [table EXCEPT ![x] = Row(result)]
                      /\ evidence' = [evidence EXCEPT ![x] = SynchronizeObservations(
                           @, ObservationsOf(Previous(x), rl), ResultObservations(result, rl))]
                      /\ records' = [records EXCEPT ![x] =
                           IF NeedsRecordSynchronization(Previous(x), result)
                           THEN SynchronizeRecords(@, result) ELSE @]
=============================================================================
