---------------------------- MODULE Reconciliation ----------------------------
(***************************************************************************)
(* From evidence to canonical results: sources report and retract what     *)
(* they know of one achievement, reconciliation finds the canonical row    *)
(* it belongs to, judges it and snapshots a revision for every change, and *)
(* the refresh of the official records judges rows again, which it reads   *)
(* without a lock.                                                         *)
(*                                                                         *)
(* Reconciling and retracting are one transaction each, serialised by the  *)
(* locks on identity scope and canonical row.  The refresh commits batches *)
(* of rows; since no property relates the verdicts of two rows, a batch    *)
(* here is one row.  The record levels of a result come down to the        *)
(* easiest benchmark it may qualify by, its context to the identity key it *)
(* was last reported under.  Observation times are left out: which of      *)
(* several equally trusted observations is the newest one is open.         *)
(***************************************************************************)
EXTENDS Integers, FiniteSets

CONSTANTS
  Observers,    \* observation keys: one per ingestion method that sees the result
  Trusted,      \* those with trusted evidence, the others are CubingChina's
  Origins, Origin,   \* Origin[o]: the source whose result identity o carries
  Keys,         \* provider-neutral identity keys
  None,         \* no key, no row, no revision, no benchmark, no verdict
  Values,       \* encoded results, positive if complete
  Benchmarks,   \* what a snapshot of the official records may ask for, 0 if nothing
  MaxRevision   \* bound on revisions of one row

ASSUME ObserversAssumption == Trusted \subseteq Observers /\ Origin \in [Observers -> Origins]
ASSUME OriginAssumption ==   \* a result is seen by two methods of a source at most
  \A o, p, q \in Observers :
    Origin[o] = Origin[p] /\ Origin[p] = Origin[q] => o = p \/ p = q \/ o = q
ASSUME RowsAssumption == Keys \cap Origins = {}
ASSUME ValuesAssumption == Values \subseteq Int /\ Values # {} /\ Benchmarks \subseteq Nat
ASSUME RevisionBoundAssumption == MaxRevision \in Nat

\* Canonical rows, by the identity key they were created under: a natural key
\* or, while that is unavailable, the source's own.
Rows == Keys \cup Origins

Verdicts == {"none", "disagreement", "trusted", "untrusted", "match", "no_match"}
Fields   == [name : Rows, context : Keys \cup {None}, value : Values, verdict : Verdicts]
Actions  == {"active", "corrected", "retracted"}
Snapshots == [action : Actions, fields : Fields]

ASSUME NoneAssumption ==
  /\ None \notin Rows /\ None \notin Verdicts /\ None \notin Actions
  /\ None \notin Snapshots /\ None \notin Benchmarks

VARIABLES
  obs,        \* obs[o]: row, last key, value and status of the ResultObservation
  name,       \* name[r]: identity_key, None before the row exists
  head,       \* head[r]: context, value, verdict, and whether evidence backs it
  latest,     \* latest[r]: action and fields of the last revision
  revision,   \* revision[r]: its number
  benchmark,  \* what the newest stored snapshot asks for
  step, todo, \* the refresh: where it stands, rows it has yet to judge
  seen,       \* row, value and verdict as the batch read them
  wanted,     \* the verdict it will write, None if it agrees
  \* History, read by no action:
  moved,      \* the row the batch is at was reconciled since it was read
  overtaken,  \* rows whose verdict a batch wrote although they had moved
  fresh,      \* the last refresh that was started has been completed
  rekeyed     \* some source identity was reported under two natural keys

rowVars     == <<name, head, latest, revision>>
refreshVars == <<benchmark, step, todo, seen, wanted>>
vars == <<obs, rowVars, refreshVars, moved, overtaken, fresh, rekeyed>>

TypeOK ==
  /\ obs \in [Observers -> [row : Rows \cup {None}, says : Keys \cup {None},
                            value : Values, active : BOOLEAN]]
  /\ name \in [Rows -> Rows \cup {None}]
  /\ head \in [Rows -> [context : Keys \cup {None}, value : Values,
                        verdict : Verdicts, backed : BOOLEAN]]
  /\ latest \in [Rows -> Snapshots \cup {None}]
  /\ revision \in [Rows -> Nat]
  /\ benchmark \in Benchmarks \cup {None}
  /\ step \in {"idle", "listing", "batch", "read", "write"}
  /\ todo \subseteq Rows
  /\ seen \in [row : Rows \cup {None}, value : Values, verdict : Verdicts]
  /\ wanted \in Verdicts \cup {None}
  /\ moved \in BOOLEAN /\ fresh \in BOOLEAN /\ rekeyed \in BOOLEAN
  /\ overtaken \subseteq Rows

NoValue == CHOOSE v \in Values : TRUE
NoRow   == [row |-> None, value |-> NoValue, verdict |-> "none"]

Init ==
  /\ obs = [o \in Observers |-> [row |-> None, says |-> None, value |-> NoValue, active |-> FALSE]]
  /\ name = [r \in Rows |-> None]
  /\ head = [r \in Rows |-> [context |-> None, value |-> NoValue, verdict |-> "none",
                             backed |-> FALSE]]
  /\ latest = [r \in Rows |-> None]
  /\ revision = [r \in Rows |-> 0]
  /\ benchmark = None
  /\ step = "idle"
  /\ todo = {}
  /\ seen = NoRow
  /\ wanted = None
  /\ moved = FALSE
  /\ overtaken = {}
  /\ fresh = TRUE
  /\ rekeyed = FALSE

-----------------------------------------------------------------------------
(* Judging a row by observations ob.                                       *)

Evidence(ob, r) == {o \in Observers : ob[o].row = r /\ ob[o].active}

\* The evidence the value may be taken from: trusted methods outrank the others.
Preferred(ob, r) ==
  LET e == Evidence(ob, r) IN IF e \cap Trusted # {} THEN e \cap Trusted ELSE e

Disagreement(ob, r) ==
  \E o, p \in Evidence(ob, r) \cap Trusted : ob[o].value # ob[p].value

\* Mutant of Qualify: the status of the official validation is stored.
QualifyOrReject(v) ==
  IF benchmark = None \/ v <= 0 THEN "untrusted"
  ELSE IF v <= benchmark THEN "match" ELSE "rejected"

\* Untrusted evidence qualifies by equalling or beating an official record.
Qualify(v) ==
  IF benchmark = None \/ v <= 0 THEN "untrusted"
  ELSE IF v <= benchmark THEN "match" ELSE "no_match"

Assess(ob, r, v) ==
  IF Evidence(ob, r) = {} THEN "none"
  ELSE IF Disagreement(ob, r) THEN "disagreement"
  ELSE IF Evidence(ob, r) \cap Trusted # {} THEN "trusted"
  ELSE Qualify(v)

-----------------------------------------------------------------------------
(* Snapshots, of the names and heads a step leaves behind.                 *)

FieldsOf(r) ==
  [name |-> name[r], context |-> head[r].context, value |-> head[r].value,
   verdict |-> head[r].verdict]

\* Mutant of ActionFor: a retracted row is retracted again.
ActionForEach(r) ==
  IF latest[r] = None THEN "active"
  ELSE IF ~head'[r].backed THEN "retracted"
  ELSE IF latest[r].action = "retracted" THEN "active"
  ELSE IF latest[r].fields # FieldsOf(r)' THEN "corrected" ELSE None

\* The action of the revision that the new head calls for, None if it calls
\* for none.
ActionFor(r) ==
  IF latest[r] = None THEN "active"
  ELSE IF ~head'[r].backed THEN IF latest[r].action = "retracted" THEN None ELSE "retracted"
  ELSE IF latest[r].action = "retracted" THEN "active"
  ELSE IF latest[r].fields # FieldsOf(r)' THEN "corrected" ELSE None

\* The revisions the new heads of the rows call for.
SnapshotAndEnqueue(rows) ==
  LET changed == {r \in rows : ActionFor(r) # None}
  IN /\ \A r \in changed : revision[r] < MaxRevision
     /\ revision' = [r \in Rows |-> IF r \in changed THEN revision[r] + 1 ELSE revision[r]]
     /\ latest' = [r \in Rows |->
          IF r \in changed THEN [action |-> ActionFor(r), fields |-> FieldsOf(r)'] ELSE latest[r]]

\* The values a row may take: that of its preferred evidence, if it has any.
ValuesFor(r) ==
  IF Evidence(obs', r) = {} THEN {head[r].value} ELSE {obs'[o].value : o \in Preferred(obs', r)}

\* Judges the rows by the observations a step leaves behind, under contexts cx.
RefreshAndEnqueue(cx, rows) ==
  /\ \E v \in [rows -> UNION {ValuesFor(r) : r \in rows}] :
       /\ \A r \in rows : v[r] \in ValuesFor(r)
       /\ head' = [r \in Rows |->
            IF r \in rows
              THEN [context |-> cx[r], value |-> v[r], verdict |-> Assess(obs', r, v[r]),
                    backed |-> Evidence(obs', r) # {}]
              ELSE head[r]]
  /\ SnapshotAndEnqueue(rows)
  /\ moved' = (moved \/ seen.row \in rows)
  /\ overtaken' = overtaken \ rows

-----------------------------------------------------------------------------
(* Sources.                                                                *)

Named(key) == {r \in Rows : name[r] = key}

\* The rows that observations of the same source identity belong to.
SameSource(o) == {obs[p].row : p \in {q \in Observers : Origin[q] = Origin[o]}} \ {None}

ProposedKey(o, key) == IF key # None THEN key ELSE Origin[o]

\* The row a report belongs to: the one with its natural key, else the one its
\* observation or its source identity belongs to, else a new one.
Target(o, key) ==
  IF key # None /\ Named(key) # {} THEN CHOOSE r \in Named(key) : TRUE
  ELSE IF obs[o].row # None THEN obs[o].row
  ELSE IF Cardinality(SameSource(o)) = 1 THEN CHOOSE r \in SameSource(o) : TRUE
  ELSE IF Named(ProposedKey(o, key)) # {}
    THEN CHOOSE r \in Named(ProposedKey(o, key)) : TRUE
    ELSE ProposedKey(o, key)

\* Mutant of NameAfter: a row keeps the key it was created under.
NameKept(o, key, r) == IF name[r] = None THEN ProposedKey(o, key) ELSE name[r]

\* Its identity key: a source's own key gives way to the natural one.
NameAfter(o, key, r) ==
  IF name[r] = None THEN ProposedKey(o, key)
  ELSE IF name[r] \in Origins /\ key # None THEN key ELSE name[r]

\* Mutant of RowsToRefresh: the row an observation leaves is not judged again.
RowJoined(o, r) == {r}

\* The row a report joins and the one its observation leaves.
RowsToRefresh(o, r) == {r, obs[o].row} \ {None}

ReconcileResultObservation(o, key, v) ==
  LET r == Target(o, key)
  IN /\ obs' = [obs EXCEPT ![o] = [row |-> r, says |-> IF key = None THEN @.says ELSE key,
                                   value |-> v, active |-> TRUE]]
     /\ name' = [name EXCEPT ![r] = NameAfter(o, key, r)]
     /\ RefreshAndEnqueue([q \in Rows |-> IF q = r /\ key # None THEN key ELSE head[q].context],
                          RowsToRefresh(o, r))
     /\ rekeyed' = (rekeyed \/ \E p \in Observers :
          Origin[p] = Origin[o] /\ key # None /\ obs[p].says \notin {None, key})
     /\ UNCHANGED <<refreshVars, fresh>>

RetractResultObservation(o) ==
  /\ obs[o].active
  /\ obs' = [obs EXCEPT ![o].active = FALSE]
  /\ UNCHANGED <<name, refreshVars, fresh, rekeyed>>
  /\ RefreshAndEnqueue([r \in Rows |-> head[r].context], {obs[o].row})

-----------------------------------------------------------------------------
(* The refresh of the official records.                                    *)

StoreSnapshot(b) ==
  /\ step = "idle"
  /\ benchmark' = b
  /\ step' = "listing"
  /\ fresh' = FALSE
  /\ UNCHANGED <<obs, rowVars, todo, seen, wanted, moved, overtaken, rekeyed>>

\* Back to the next row, or done.
NextRow(rest) ==
  /\ todo' = rest
  /\ step' = IF rest = {} THEN "idle" ELSE "batch"
  /\ fresh' = (rest = {})
  /\ seen' = NoRow
  /\ wanted' = None
  /\ moved' = FALSE

\* The rows with active CubingChina evidence, read once for all batches.
ListRows ==
  /\ step = "listing"
  /\ NextRow({r \in Rows : Evidence(obs, r) \ Trusted # {}})
  /\ UNCHANGED <<obs, rowVars, benchmark, overtaken, rekeyed>>

ReadHead(r) ==
  /\ step = "batch"
  /\ r \in todo
  /\ seen' = [row |-> r, value |-> head[r].value, verdict |-> head[r].verdict]
  /\ step' = "read"
  /\ moved' = FALSE
  /\ UNCHANGED <<obs, rowVars, benchmark, todo, wanted, overtaken, fresh, rekeyed>>

\* Mutant of ValidateScope: trusted evidence is not looked for.
ValidateUntrusted ==
  /\ step = "read"
  /\ LET now == {o \in Evidence(obs, seen.row) : obs[o].value = seen.value}
         judged == /\ now \ Trusted # {}
                   /\ seen.value > 0
                   /\ seen.verdict # Qualify(seen.value)
     IN wanted' = IF judged THEN Qualify(seen.value) ELSE None
  /\ seen' = [NoRow EXCEPT !.row = seen.row]
  /\ step' = "write"
  /\ UNCHANGED <<obs, rowVars, benchmark, todo, moved, overtaken, fresh, rekeyed>>

\* A second statement reads the evidence; the row as it was read before is
\* judged by it, and then forgotten but for the verdict to write.
ValidateScope ==
  /\ step = "read"
  /\ LET now == {o \in Evidence(obs, seen.row) : obs[o].value = seen.value}
         judged == /\ now \ Trusted # {}
                   /\ now \cap Trusted = {}
                   /\ seen.value > 0
                   /\ seen.verdict \notin {"disagreement", Qualify(seen.value)}
     IN wanted' = IF judged THEN Qualify(seen.value) ELSE None
  /\ seen' = [NoRow EXCEPT !.row = seen.row]
  /\ step' = "write"
  /\ UNCHANGED <<obs, rowVars, benchmark, todo, moved, overtaken, fresh, rekeyed>>

\* Mutant of WriteVerdict: the head is written, no revision.
WriteOnlyVerdict ==
  /\ step = "write"
  /\ head' = IF wanted = None THEN head ELSE [head EXCEPT ![seen.row].verdict = wanted]
  /\ overtaken' = IF wanted # None /\ moved THEN overtaken \cup {seen.row} ELSE overtaken
  /\ NextRow(todo \ {seen.row})
  /\ UNCHANGED <<obs, name, latest, revision, benchmark, rekeyed>>

\* The verdict is written over whatever the row holds by now, and the head
\* is snapshotted.
WriteVerdict ==
  /\ step = "write"
  /\ LET r == seen.row
     IN IF wanted = None THEN UNCHANGED <<rowVars, overtaken>>
        ELSE /\ head' = [head EXCEPT ![r].verdict = wanted]
             /\ UNCHANGED name
             /\ SnapshotAndEnqueue({r})
             /\ overtaken' = IF moved THEN overtaken \cup {r} ELSE overtaken
  /\ NextRow(todo \ {seen.row})
  /\ UNCHANGED <<obs, benchmark, rekeyed>>

\* An error or the end of the process: rows not judged yet wait for the next
\* refresh.
AbandonRefresh ==
  /\ step # "idle"
  /\ step' = "idle"
  /\ todo' = {}
  /\ seen' = NoRow
  /\ wanted' = None
  /\ moved' = FALSE
  /\ UNCHANGED <<obs, rowVars, benchmark, overtaken, fresh, rekeyed>>

-----------------------------------------------------------------------------
Next ==
  \/ \E o \in Observers, key \in Keys \cup {None}, v \in Values :
       ReconcileResultObservation(o, key, v)
  \/ \E o \in Observers : RetractResultObservation(o)
  \/ \E b \in Benchmarks : StoreSnapshot(b)
  \/ ListRows
  \/ \E r \in Rows : ReadHead(r)
  \/ ValidateScope
  \/ WriteVerdict
  \/ AbandonRefresh

Spec == Init /\ [][Next]_vars

-----------------------------------------------------------------------------
(* Properties.                                                             *)

Exists(r) == name[r] # None

\* A row is retracted exactly while no source has active evidence for it,
\* also when evidence moves from row to row (reconcile_result_observation).
RetractedIffNoEvidence ==
  \A r \in Rows : Exists(r) =>
    (latest[r].action = "retracted" <=> Evidence(obs, r) = {})

\* The last revision says what the head says: no change of a head escapes the
\* classifier (_snapshot_and_enqueue), but for rows a batch has written over.
LastRevisionUnlessOvertaken ==
  \A r \in Rows : Exists(r) /\ r \notin overtaken =>
    latest[r].fields = FieldsOf(r)

\* "otherwise untrusted CubingChina evidence": stored official records do not
\* overrule trusted evidence or a disagreement.
TrustedEvidenceDecides ==
  \A r \in Rows : Exists(r) /\ Evidence(obs, r) \cap Trusted # {} =>
    head[r].verdict = IF Disagreement(obs, r) THEN "disagreement" ELSE "trusted"

\* The same and more, as far as it holds: for rows no batch has written over
\* the verdict is a function of evidence and value, and of the newest official
\* records whenever the last refresh was completed.
VerdictUnlessOvertaken ==
  \A r \in Rows : Exists(r) /\ r \notin overtaken =>
    LET due == Assess(obs, r, head[r].value)
    IN \/ head[r].verdict = due
       \/ ~fresh /\ {head[r].verdict, due} \subseteq {"untrusted", "match", "no_match"}

\* Revisions tell what happened: the first is active, so is the first after a
\* retraction and only that; no retraction follows another, and a correction
\* differs from what it corrects.
RevisionsTellTheStory ==
  [][\A r \in Rows : revision'[r] # revision[r] =>
       /\ revision'[r] = revision[r] + 1
       /\ latest'[r].action = "active" <=>
            (latest[r] = None \/ latest[r].action = "retracted")
       /\ latest'[r].action = "corrected" => latest'[r].fields # latest[r].fields]_vars

\* "Its provider-neutral identity": active evidence reported under one natural
\* key belongs to one canonical result.
OneHeadPerFact ==
  \A o, p \in Observers :
    obs[o].active /\ obs[p].active /\ obs[o].says # None /\ obs[o].says = obs[p].says =>
      obs[o].row = obs[p].row

\* The same, as far as it holds: while no source changes the key of a result.
OneHeadUnlessRekeyed == ~rekeyed => OneHeadPerFact
===============================================================================
