------------------------- MODULE ReconciliationProofs -------------------------
(* Theorems about Reconciliation, for any observers, sources, keys, values  *)
(* and official records.                                                    *)
EXTENDS Reconciliation, FiniteSetTheorems, TLAPS

(***************************************************************************)
(* Verdicts as functions of the official records b.                        *)
(***************************************************************************)

Open3 == {"untrusted", "match", "no_match"}

QualifyBy(b, v) ==
  IF b = None \/ v <= 0 THEN "untrusted" ELSE IF v <= b THEN "match" ELSE "no_match"

AssessBy(b, ob, r, v) ==
  IF Evidence(ob, r) = {} THEN "none"
  ELSE IF Disagreement(ob, r) THEN "disagreement"
  ELSE IF Evidence(ob, r) \cap Trusted # {} THEN "trusted"
  ELSE QualifyBy(b, v)

LEMMA AssessIsBy ==
  ASSUME NEW ob, NEW r, NEW v
  PROVE  Assess(ob, r, v) = AssessBy(benchmark, ob, r, v) /\ Qualify(v) = QualifyBy(benchmark, v)
<1>1. Qualify(v) = QualifyBy(benchmark, v)
  BY DEF Qualify, QualifyBy
<1>2. Evidence(ob, r) = {} \/ Evidence(ob, r) \cap Trusted = {} => ~Disagreement(ob, r)
  BY DEF Disagreement
<1>3. Assess(ob, r, v) = AssessBy(benchmark, ob, r, v)
  BY <1>1, <1>2 DEF Assess, AssessBy
<1>4. QED
  BY <1>1, <1>3

LEMMA QualifyFacts ==
  ASSUME NEW b, NEW v
  PROVE  /\ QualifyBy(b, v) \in Open3
         /\ QualifyBy(b, v) = "untrusted" <=> (b = None \/ v <= 0)
  BY DEF QualifyBy, Open3

LEMMA AssessFacts ==
  ASSUME NEW b, NEW ob, NEW r, NEW v
  PROVE  /\ AssessBy(b, ob, r, v) \in Verdicts
         /\ Evidence(ob, r) = {} <=> AssessBy(b, ob, r, v) = "none"
         /\ AssessBy(b, ob, r, v) \in Open3
              <=> Evidence(ob, r) # {} /\ Evidence(ob, r) \cap Trusted = {}
         /\ AssessBy(b, ob, r, v) \in Open3 => AssessBy(b, ob, r, v) = QualifyBy(b, v)
         /\ AssessBy(b, ob, r, v) \notin Open3 =>
              \A c : AssessBy(c, ob, r, v) = AssessBy(b, ob, r, v)
<1>1. \A c : QualifyBy(c, v) \in Open3
  BY QualifyFacts
<1>2. Evidence(ob, r) \cap Trusted = {} => ~Disagreement(ob, r)
  BY DEF Disagreement
<1>3. QED
  BY <1>1, <1>2 DEF AssessBy, Open3, Verdicts

LEMMA AssessFrame ==
  ASSUME NEW ob, NEW now, NEW o \in Observers, NEW r,
         \A p \in Observers : p # o => now[p] = ob[p],
         ob[o].row # r, now[o].row # r
  PROVE  /\ Evidence(now, r) = Evidence(ob, r)
         /\ Preferred(now, r) = Preferred(ob, r)
         /\ \A p \in Evidence(ob, r) : now[p] = ob[p]
         /\ \A b, v : AssessBy(b, now, r, v) = AssessBy(b, ob, r, v)
<1>1. Evidence(now, r) = Evidence(ob, r)
  BY DEF Evidence
<1>2. \A p \in Evidence(ob, r) : now[p] = ob[p]
  BY DEF Evidence
<1>3. Disagreement(now, r) <=> Disagreement(ob, r)
  BY <1>1, <1>2 DEF Disagreement
<1>4. Preferred(now, r) = Preferred(ob, r)
  BY <1>1 DEF Preferred
<1>5. QED
  BY <1>1, <1>2, <1>3, <1>4 DEF AssessBy

(***************************************************************************)
(* The inductive invariant.                                                *)
(***************************************************************************)

\* Rows somebody refers to exist, and what exists has a revision.
KnownInv ==
  /\ \A o \in Observers : obs[o].row # None => name[obs[o].row] # None
  /\ \A o \in Observers : obs[o].active => obs[o].row # None
  /\ \A r \in Rows : name[r] = None <=> latest[r] = None
  /\ \A r \in todo : name[r] # None
  /\ seen.row # None => seen.row \in todo

BackedInv ==
  \A r \in Rows : Exists(r) => (head[r].backed <=> Evidence(obs, r) # {})

\* The value is that of some preferred evidence.
ValueInv ==
  \A r \in Rows : Evidence(obs, r) # {} =>
    \E o \in Preferred(obs, r) : obs[o].value = head[r].value

\* The last revision says what the head says; of a retracted row it says that
\* nothing supports it, whatever a batch has written over the head.
FieldsInv ==
  \A r \in Rows : Exists(r) =>
    /\ latest[r].action # "retracted" => latest[r].fields = FieldsOf(r)
    /\ latest[r].action = "retracted" =>
         latest[r].fields = [FieldsOf(r) EXCEPT !.verdict = "none"]

StepInv ==
  /\ step # "idle" => ~fresh /\ benchmark # None
  /\ step \in {"read", "write"} => seen.row # None

Due(r) == AssessBy(benchmark, obs, r, head[r].value)

\* What the batch knows of its row, as long as nobody reconciles that.
SeenInv ==
  /\ step = "read" /\ ~moved =>
       seen.value = head[seen.row].value /\ seen.verdict = head[seen.row].verdict
  /\ step = "write" /\ ~moved /\ wanted # None =>
       wanted = Due(seen.row) /\ wanted \in Open3 /\ head[seen.row].value > 0
  /\ step = "write" /\ ~moved /\ wanted = None /\ seen.row \notin overtaken =>
       head[seen.row].verdict = Due(seen.row)

\* Rows the refresh has yet to come to.
Waiting(r) == step \in {"idle", "listing"} \/ (r \in todo /\ ~(moved /\ seen.row = r))

DueInv ==
  \A r \in Rows : Exists(r) /\ r \notin overtaken =>
    \/ head[r].verdict = Due(r)
    \/ ~fresh /\ Waiting(r) /\ head[r].verdict \in Open3 /\ Due(r) \in Open3

PositiveInv ==
  \A r \in Rows : Exists(r) /\ r \notin overtaken /\ head[r].verdict \in {"match", "no_match"} =>
    head[r].value > 0

IInv ==
  /\ TypeOK
  /\ KnownInv
  /\ BackedInv
  /\ RetractedIffNoEvidence
  /\ ValueInv
  /\ FieldsInv
  /\ StepInv
  /\ SeenInv
  /\ DueInv
  /\ PositiveInv

LEMMA ConstantsTyped ==
  /\ None \notin Rows /\ Keys \subseteq Rows /\ Origins \subseteq Rows
  /\ NoValue \in Values /\ Values \subseteq Int /\ Benchmarks \subseteq Nat /\ None \notin Benchmarks
  /\ \A o \in Observers : Origin[o] \in Origins
  /\ NoRow.row = None /\ NoRow \in [row : Rows \cup {None}, value : Values, verdict : Verdicts]
<1>1. NoValue \in Values
  BY ValuesAssumption DEF ValuesAssumption, NoValue
<1>2. QED
  BY <1>1, NoneAssumption, ValuesAssumption, ObserversAssumption
     DEF NoneAssumption, ValuesAssumption, ObserversAssumption, Rows, NoRow, Verdicts

LEMMA InitIInv == Init => IInv
<1> SUFFICES ASSUME Init
             PROVE  IInv
  OBVIOUS
<1>1. TypeOK
  BY ConstantsTyped DEF Init, TypeOK, Verdicts
<1>2. \A r \in Rows : ~Exists(r) /\ Evidence(obs, r) = {}
  BY ConstantsTyped DEF Init, Exists, Evidence
<1>3. KnownInv
  BY ConstantsTyped DEF Init, KnownInv
<1>4. StepInv /\ SeenInv
  BY DEF Init, StepInv, SeenInv
<1>5. QED
  BY <1>1, <1>2, <1>3, <1>4
     DEF IInv, BackedInv, RetractedIffNoEvidence, ValueInv, FieldsInv, DueInv, PositiveInv

(***************************************************************************)
(* Steps of the refresh that leave observations and heads alone.           *)
(***************************************************************************)

\* What concerns observations, heads and revisions alone.
LEMMA RowsUnchanged ==
  ASSUME IInv, UNCHANGED <<obs, rowVars>>
  PROVE  BackedInv' /\ RetractedIffNoEvidence' /\ ValueInv' /\ FieldsInv'
<1>1. UNCHANGED <<obs, name, head, latest>>
  BY DEF rowVars
<1>2. BackedInv' /\ RetractedIffNoEvidence' /\ ValueInv'
  BY <1>1 DEF IInv, BackedInv, RetractedIffNoEvidence, ValueInv, Exists
<1>3. FieldsInv'
  BY <1>1 DEF IInv, FieldsInv, Exists, FieldsOf
<1>4. QED
  BY <1>2, <1>3

LEMMA StoreIInv ==
  ASSUME IInv, NEW b \in Benchmarks, StoreSnapshot(b)
  PROVE  IInv'
<1>1. /\ benchmark' = b /\ step' = "listing" /\ fresh' = FALSE /\ b # None
      /\ UNCHANGED <<obs, name, head, latest, revision, todo, seen, wanted, moved, overtaken, rekeyed>>
  BY ConstantsTyped DEF StoreSnapshot, rowVars
<1>2. TypeOK'
  BY <1>1 DEF IInv, TypeOK
<1>3. BackedInv' /\ RetractedIffNoEvidence' /\ ValueInv' /\ FieldsInv'
  BY <1>1, RowsUnchanged DEF rowVars
<1>4. KnownInv' /\ StepInv' /\ SeenInv' /\ PositiveInv'
  BY <1>1 DEF IInv, KnownInv, StepInv, SeenInv, PositiveInv, Exists
<1>5. DueInv'
  <2> SUFFICES ASSUME NEW r \in Rows, Exists(r), r \notin overtaken
               PROVE  \/ head[r].verdict = Due(r)'
                      \/ head[r].verdict \in Open3 /\ Due(r)' \in Open3
    BY <1>1 DEF DueInv, Exists, Waiting
  <2>1. Due(r)' = AssessBy(b, obs, r, head[r].value)
    BY <1>1 DEF Due
  <2>2. \/ head[r].verdict = Due(r)
        \/ head[r].verdict \in Open3 /\ Due(r) \in Open3
    BY DEF IInv, DueInv
  <2>3. CASE Due(r) \in Open3
    BY <2>1, <2>2, <2>3, AssessFacts DEF Due
  <2>4. CASE Due(r) \notin Open3
    BY <2>1, <2>2, <2>4, AssessFacts DEF Due
  <2>5. QED
    BY <2>3, <2>4
<1>6. QED
  BY <1>2, <1>3, <1>4, <1>5 DEF IInv

\* What is not listed needs no judgement.
LEMMA ListIInv ==
  ASSUME IInv, ListRows
  PROVE  IInv'
<1> DEFINE rest == {r \in Rows : Evidence(obs, r) \ Trusted # {}}
<1>1. /\ step = "listing" /\ todo' = rest /\ step' = IF rest = {} THEN "idle" ELSE "batch"
      /\ fresh' = (rest = {}) /\ seen' = NoRow /\ wanted' = None /\ moved' = FALSE
      /\ UNCHANGED <<obs, name, head, latest, revision, benchmark, overtaken, rekeyed>>
  BY DEF ListRows, NextRow, rowVars
<1>2. \A r \in rest : name[r] # None
  BY ConstantsTyped DEF IInv, KnownInv, Evidence
<1>3. \A r \in Rows : Due(r) \in Open3 => r \in rest
  BY AssessFacts DEF Due
<1>4. rest \subseteq Rows
  OBVIOUS
<1> HIDE DEF rest
<1>5. TypeOK'
  BY <1>1, <1>4, ConstantsTyped DEF IInv, TypeOK
<1>6. BackedInv' /\ RetractedIffNoEvidence' /\ ValueInv' /\ FieldsInv'
  BY <1>1, RowsUnchanged DEF rowVars
<1>7. KnownInv'
  BY <1>1, <1>2, ConstantsTyped DEF IInv, KnownInv
<1>8. StepInv' /\ SeenInv' /\ PositiveInv'
  BY <1>1 DEF IInv, StepInv, SeenInv, PositiveInv, Exists
<1>9. DueInv'
  <2> SUFFICES ASSUME NEW r \in Rows, Exists(r), r \notin overtaken, head[r].verdict # Due(r)
               PROVE  ~fresh' /\ Waiting(r)' /\ head[r].verdict \in Open3 /\ Due(r) \in Open3
    BY <1>1 DEF DueInv, Exists, Due
  <2>1. head[r].verdict \in Open3 /\ Due(r) \in Open3
    BY DEF IInv, DueInv
  <2>2. QED
    BY <1>1, <1>3, <2>1 DEF Waiting
<1>10. QED
  BY <1>5, <1>6, <1>7, <1>8, <1>9 DEF IInv

LEMMA ReadIInv ==
  ASSUME IInv, NEW r \in Rows, ReadHead(r)
  PROVE  IInv'
<1>1. /\ step = "batch" /\ r \in todo /\ step' = "read" /\ moved' = FALSE
      /\ seen' = [row |-> r, value |-> head[r].value, verdict |-> head[r].verdict]
      /\ UNCHANGED <<obs, name, head, latest, revision, benchmark, todo, wanted, overtaken, fresh, rekeyed>>
  BY DEF ReadHead, rowVars
<1>2. head[r].value \in Values /\ head[r].verdict \in Verdicts
  BY DEF IInv, TypeOK
<1>3. TypeOK'
  BY <1>1, <1>2 DEF IInv, TypeOK
<1>4. BackedInv' /\ RetractedIffNoEvidence' /\ ValueInv' /\ FieldsInv'
  BY <1>1, RowsUnchanged DEF rowVars
<1>5. KnownInv' /\ StepInv' /\ SeenInv' /\ PositiveInv'
  BY <1>1, ConstantsTyped DEF IInv, KnownInv, StepInv, SeenInv, PositiveInv, Exists
<1>6. DueInv'
  BY <1>1 DEF IInv, DueInv, Exists, Due, Waiting
<1>7. QED
  BY <1>3, <1>4, <1>5, <1>6 DEF IInv

LEMMA AbandonIInv ==
  ASSUME IInv, AbandonRefresh
  PROVE  IInv'
<1>1. /\ step # "idle" /\ step' = "idle" /\ todo' = {} /\ seen' = NoRow /\ wanted' = None
      /\ moved' = FALSE
      /\ UNCHANGED <<obs, name, head, latest, revision, benchmark, overtaken, fresh, rekeyed>>
  BY DEF AbandonRefresh, rowVars
<1>2. TypeOK'
  BY <1>1, ConstantsTyped DEF IInv, TypeOK
<1>3. BackedInv' /\ RetractedIffNoEvidence' /\ ValueInv' /\ FieldsInv'
  BY <1>1, RowsUnchanged DEF rowVars
<1>4. KnownInv' /\ StepInv' /\ SeenInv' /\ PositiveInv'
  BY <1>1, ConstantsTyped DEF IInv, KnownInv, StepInv, SeenInv, PositiveInv, Exists
<1>5. DueInv'
  BY <1>1 DEF IInv, DueInv, Exists, Due, Waiting
<1>6. QED
  BY <1>2, <1>3, <1>4, <1>5 DEF IInv

\* A verdict of the batch is the one due, and where it finds nothing to write
\* the row holds it already.
LEMMA ValidateIInv ==
  ASSUME IInv, ValidateScope
  PROVE  IInv'
<1> DEFINE r == seen.row
           now == {o \in Evidence(obs, r) : obs[o].value = seen.value}
           judged == /\ now \ Trusted # {}
                     /\ now \cap Trusted = {}
                     /\ seen.value > 0
                     /\ seen.verdict \notin {"disagreement", Qualify(seen.value)}
<1>1. /\ step = "read" /\ step' = "write" /\ seen' = [NoRow EXCEPT !.row = r]
      /\ wanted' = IF judged THEN Qualify(seen.value) ELSE None
      /\ UNCHANGED <<obs, name, head, latest, revision, benchmark, todo, moved, overtaken, fresh, rekeyed>>
  BY DEF ValidateScope, rowVars
<1>2. /\ Qualify(seen.value) = QualifyBy(benchmark, seen.value)
      /\ QualifyBy(benchmark, seen.value) \in Open3 /\ Open3 \subseteq Verdicts /\ None \notin Verdicts
  BY AssessIsBy, QualifyFacts, NoneAssumption DEF NoneAssumption, Open3, Verdicts
<1>3. /\ r \in Rows /\ r \in todo /\ name[r] # None /\ seen'.row = r
      /\ seen' \in [row : Rows \cup {None}, value : Values, verdict : Verdicts]
  BY <1>1, ConstantsTyped DEF IInv, TypeOK, KnownInv, StepInv
<1>4. wanted' # None <=> judged
  BY <1>1, <1>2
<1>5. ASSUME ~moved, judged
      PROVE  /\ QualifyBy(benchmark, seen.value) = Due(r)
             /\ head[r].value > 0
  <2>1. seen.value = head[r].value
    BY <1>1, <1>5 DEF IInv, SeenInv
  <2>2. Evidence(obs, r) # {}
    BY <1>5
  <2>3. Evidence(obs, r) \cap Trusted = {}
    <3> SUFFICES ASSUME Evidence(obs, r) \cap Trusted # {}
                 PROVE  FALSE
      OBVIOUS
    <3>1. \E o \in Evidence(obs, r) \cap Trusted : obs[o].value = head[r].value
      BY <1>3, <2>2 DEF IInv, ValueInv, Preferred
    <3>2. QED
      BY <1>5, <2>1, <3>1
  <2>4. QED
    BY <1>5, <2>1, <2>2, <2>3, AssessFacts DEF Due
<1>6. ASSUME ~moved, ~judged, r \notin overtaken
      PROVE  head[r].verdict = Due(r)
  <2>1. seen.value = head[r].value /\ seen.verdict = head[r].verdict
    BY <1>1, <1>6 DEF IInv, SeenInv
  <2> SUFFICES ASSUME head[r].verdict # Due(r)
               PROVE  FALSE
    OBVIOUS
  <2>2. head[r].verdict \in Open3 /\ Due(r) \in Open3
    BY <1>3, <1>6 DEF IInv, DueInv, Exists
  <2>3. /\ Evidence(obs, r) # {} /\ Evidence(obs, r) \cap Trusted = {}
        /\ Due(r) = QualifyBy(benchmark, seen.value)
    BY <2>1, <2>2, AssessFacts DEF Due
  <2>4. \E o \in Evidence(obs, r) : obs[o].value = seen.value
    BY <1>3, <2>1, <2>3 DEF IInv, ValueInv, Preferred
  <2>5. now \ Trusted # {} /\ now \cap Trusted = {}
    BY <2>3, <2>4
  <2>6. seen.verdict \notin {"disagreement", Qualify(seen.value)}
    BY <1>2, <2>1, <2>2, <2>3 DEF Open3
  <2>7. ~(seen.value > 0)
    BY <1>6, <2>5, <2>6
  <2>8. seen.value \in Int
    BY ConstantsTyped DEF IInv, TypeOK
  <2>9. Due(r) = "untrusted"
    BY <2>3, <2>7, <2>8, QualifyFacts
  <2>10. head[r].verdict \in {"match", "no_match"}
    BY <2>2, <2>9 DEF Open3
  <2>11. QED
    BY <1>3, <1>6, <2>1, <2>7, <2>10 DEF IInv, PositiveInv, Exists
<1>7. TypeOK'
  BY <1>1, <1>2, <1>3 DEF IInv, TypeOK
<1>8. BackedInv' /\ RetractedIffNoEvidence' /\ ValueInv' /\ FieldsInv'
  BY <1>1, RowsUnchanged DEF rowVars
<1>9. KnownInv' /\ StepInv' /\ PositiveInv'
  BY <1>1, <1>3, ConstantsTyped DEF IInv, KnownInv, StepInv, PositiveInv, Exists
<1>10. SeenInv'
  <2>1. Due(r)' = Due(r) /\ Due(seen.row)' = Due(r)'
    BY <1>1, <1>3 DEF Due
  <2> HIDE DEF judged, now
  <2>2. QED
    BY <1>1, <1>2, <1>3, <1>4, <1>5, <1>6, <2>1 DEF SeenInv
<1>11. DueInv'
  BY <1>1, <1>3 DEF IInv, DueInv, Exists, Due, Waiting
<1>12. QED
  BY <1>7, <1>8, <1>9, <1>10, <1>11 DEF IInv

(***************************************************************************)
(* Snapshots.                                                              *)
(***************************************************************************)

HeadTyped ==
  /\ name' \in [Rows -> Rows \cup {None}]
  /\ head' \in [Rows -> [context : Keys \cup {None}, value : Values,
                         verdict : Verdicts, backed : BOOLEAN]]

\* What becomes of the revisions of each row.
LEMMA SnapshotFacts ==
  ASSUME TypeOK, HeadTyped, NEW rows \in SUBSET Rows, SnapshotAndEnqueue(rows),
         \A r \in rows : name'[r] # None
  PROVE  /\ revision' \in [Rows -> Nat]
         /\ latest' \in [Rows -> Snapshots \cup {None}]
         /\ \A r \in Rows \ rows : latest'[r] = latest[r] /\ revision'[r] = revision[r]
         /\ \A r \in rows : ActionFor(r) = None =>
              latest'[r] = latest[r] /\ revision'[r] = revision[r]
         /\ \A r \in rows : ActionFor(r) # None =>
              /\ revision'[r] = revision[r] + 1
              /\ latest'[r] # None
              /\ latest'[r].action = ActionFor(r)
              /\ latest'[r].fields = FieldsOf(r)'
<1> DEFINE changed == {r \in rows : ActionFor(r) # None}
<1>1. /\ revision' = [r \in Rows |-> IF r \in changed THEN revision[r] + 1 ELSE revision[r]]
      /\ latest' = [r \in Rows |->
           IF r \in changed THEN [action |-> ActionFor(r), fields |-> FieldsOf(r)'] ELSE latest[r]]
  BY DEF SnapshotAndEnqueue
<1>2. \A r \in changed : ActionFor(r) \in Actions
  BY DEF ActionFor, Actions
<1>3. \A r \in changed : FieldsOf(r)' \in Fields
  BY DEF HeadTyped, FieldsOf, Fields
<1>4. \A r \in changed :
        /\ [action |-> ActionFor(r), fields |-> FieldsOf(r)'] \in Snapshots
        /\ [action |-> ActionFor(r), fields |-> FieldsOf(r)'] # None
  BY <1>2, <1>3, NoneAssumption DEF NoneAssumption, Snapshots
<1>5. \A r \in Rows : r \in changed <=> r \in rows /\ ActionFor(r) # None
  OBVIOUS
<1> HIDE DEF changed
<1>6. revision' \in [Rows -> Nat] /\ latest' \in [Rows -> Snapshots \cup {None}]
  BY <1>1, <1>4 DEF TypeOK
<1>7. QED
  BY <1>1, <1>4, <1>5, <1>6

\* The revisions tell about retractions and fields what the invariant asks for,
\* if only rows without evidence keep a retracted revision, and these keep their
\* name, context and value.
LEMMA SnapshotInv ==
  ASSUME TypeOK, HeadTyped, NEW rows \in SUBSET Rows, SnapshotAndEnqueue(rows),
         \A r \in rows : name'[r] # None,
         \A r \in Rows \ rows : name'[r] = name[r] /\ head'[r] = head[r]
                               /\ Evidence(obs', r) = Evidence(obs, r),
         KnownInv, RetractedIffNoEvidence, FieldsInv,
         \A r \in rows : head'[r].backed <=> Evidence(obs', r) # {},
         \A r \in rows : latest[r] = None => Evidence(obs', r) # {},
         \A r \in rows : Evidence(obs', r) = {} /\ latest[r] # None =>
           [FieldsOf(r)' EXCEPT !.verdict = "none"] = [FieldsOf(r) EXCEPT !.verdict = "none"],
         \A r \in rows : Evidence(obs', r) = {} => head'[r].verdict = "none"
                        \/ Evidence(obs, r) = {}
  PROVE  /\ \A r \in Rows : name'[r] = None <=> latest'[r] = None
         /\ RetractedIffNoEvidence'
         /\ FieldsInv'
<1>1. \A r \in Rows : name[r] = None <=> latest[r] = None
  BY DEF KnownInv
<1>2. ASSUME NEW r \in Rows \ rows
      PROVE  /\ name'[r] = None <=> latest'[r] = None
             /\ name'[r] # None => (latest'[r].action = "retracted" <=> Evidence(obs', r) = {})
             /\ name'[r] # None =>
                  /\ latest'[r].action # "retracted" => latest'[r].fields = FieldsOf(r)'
                  /\ latest'[r].action = "retracted" =>
                       latest'[r].fields = [FieldsOf(r)' EXCEPT !.verdict = "none"]
  <2>1. latest'[r] = latest[r] /\ name'[r] = name[r] /\ FieldsOf(r)' = FieldsOf(r)
    BY <1>2, SnapshotFacts DEF FieldsOf
  <2>2. QED
    BY <1>1, <1>2, <2>1 DEF RetractedIffNoEvidence, FieldsInv, Exists
<1>3. ASSUME NEW r \in rows
      PROVE  /\ latest'[r] # None
             /\ latest'[r].action = "retracted" <=> Evidence(obs', r) = {}
             /\ latest'[r].action # "retracted" => latest'[r].fields = FieldsOf(r)'
             /\ latest'[r].action = "retracted" =>
                  latest'[r].fields = [FieldsOf(r)' EXCEPT !.verdict = "none"]
  <2>1. CASE latest[r] = None
    <3>1. ActionFor(r) = "active" /\ "active" # None
      BY <2>1, NoneAssumption DEF NoneAssumption, Actions, ActionFor
    <3>2. QED
      BY <1>3, <2>1, <3>1, SnapshotFacts
  <2>2. CASE latest[r] # None /\ Evidence(obs', r) = {} /\ latest[r].action = "retracted"
    <3>1. ActionFor(r) = None
      BY <1>3, <2>2 DEF ActionFor
    <3>2. latest'[r] = latest[r]
      BY <1>3, <3>1, SnapshotFacts
    <3>3. latest[r].fields = [FieldsOf(r) EXCEPT !.verdict = "none"]
      BY <1>1, <1>3, <2>2 DEF FieldsInv, Exists
    <3>4. QED
      BY <1>3, <2>2, <3>2, <3>3
  <2>3. CASE latest[r] # None /\ Evidence(obs', r) = {} /\ latest[r].action # "retracted"
    <3>1. ActionFor(r) = "retracted" /\ "retracted" # None
      BY <1>3, <2>3, NoneAssumption DEF NoneAssumption, Actions, ActionFor
    <3>2. head'[r].verdict = "none"
      BY <1>1, <1>3, <2>3 DEF RetractedIffNoEvidence, Exists
    <3>3. FieldsOf(r)' = [FieldsOf(r)' EXCEPT !.verdict = "none"]
      BY <3>2 DEF FieldsOf
    <3>4. QED
      BY <1>3, <2>3, <3>1, <3>3, SnapshotFacts
  <2>4. CASE latest[r] # None /\ Evidence(obs', r) # {}
    <3>1. head'[r].backed
      BY <1>3, <2>4
    <3>2. ActionFor(r) # None => ActionFor(r) # "retracted"
      BY <2>4, <3>1 DEF ActionFor
    <3>3. ActionFor(r) = None =>
            latest[r].action # "retracted" /\ latest[r].fields = FieldsOf(r)'
      BY <2>4, <3>1, NoneAssumption DEF NoneAssumption, Actions, ActionFor
    <3>4. QED
      BY <1>3, <2>4, <3>2, <3>3, SnapshotFacts
  <2>5. QED
    BY <2>1, <2>2, <2>3, <2>4
<1>4. \A r \in Rows : name'[r] = None <=> latest'[r] = None
  BY <1>2, <1>3
<1>5. RetractedIffNoEvidence'
  BY <1>2, <1>3 DEF RetractedIffNoEvidence, Exists
<1>6. FieldsInv'
  BY <1>2, <1>3 DEF FieldsInv, Exists
<1>7. QED
  BY <1>4, <1>5, <1>6

(***************************************************************************)
(* The batch writes.                                                       *)
(***************************************************************************)

LEMMA WriteIInv ==
  ASSUME IInv, WriteVerdict
  PROVE  IInv'
<1>0. PICK r \in Rows : r = seen.row
  BY DEF WriteVerdict, IInv, TypeOK, StepInv
<1> DEFINE rest == todo \ {r}
<1>1. /\ step = "write" /\ todo' = rest /\ step' = IF rest = {} THEN "idle" ELSE "batch"
      /\ fresh' = (rest = {}) /\ seen' = NoRow /\ wanted' = None /\ moved' = FALSE
      /\ UNCHANGED <<obs, name, benchmark, rekeyed>>
  BY <1>0 DEF WriteVerdict, NextRow, rowVars
<1>2. r \in Rows /\ r \in todo /\ name[r] # None /\ latest[r] # None
  BY <1>0, <1>1 DEF IInv, TypeOK, KnownInv, StepInv
<1>3. \/ wanted = None /\ UNCHANGED <<head, latest, revision, overtaken>>
      \/ /\ wanted # None
         /\ head' = [head EXCEPT ![r].verdict = wanted]
         /\ SnapshotAndEnqueue({r})
         /\ overtaken' = IF moved THEN overtaken \cup {r} ELSE overtaken
  BY <1>0 DEF WriteVerdict, rowVars
<1>4. /\ head' \in [Rows -> [context : Keys \cup {None}, value : Values,
                             verdict : Verdicts, backed : BOOLEAN]]
      /\ \A q \in Rows : q # r => head'[q] = head[q]
      /\ head'[r].backed = head[r].backed /\ head'[r].value = head[r].value
      /\ head'[r].context = head[r].context
      /\ head'[r].verdict = IF wanted = None THEN head[r].verdict ELSE wanted
  BY <1>2, <1>3 DEF IInv, TypeOK
<1>5. HeadTyped
  BY <1>1, <1>4 DEF IInv, TypeOK, HeadTyped
<1>6. \A q \in Rows : Due(q)' = Due(q) /\ head'[q].value = head[q].value
                     /\ head'[q].backed = head[q].backed
  BY <1>1, <1>4 DEF Due
<1>7. /\ revision' \in [Rows -> Nat] /\ latest' \in [Rows -> Snapshots \cup {None}]
      /\ \A q \in Rows : name'[q] = None <=> latest'[q] = None
      /\ RetractedIffNoEvidence' /\ FieldsInv'
  <2>1. CASE wanted = None
    <3>1. UNCHANGED <<obs, rowVars>>
      BY <1>1, <1>3, <2>1 DEF rowVars
    <3>2. QED
      BY <1>1, <1>3, <2>1, <3>1, RowsUnchanged DEF IInv, TypeOK, KnownInv
  <2>2. CASE wanted # None
    <3>1. SnapshotAndEnqueue({r}) /\ {r} \in SUBSET Rows
      BY <1>2, <1>3, <2>2
    <3>2. /\ \A q \in {r} : name'[q] # None
          /\ \A q \in Rows \ {r} : name'[q] = name[q] /\ head'[q] = head[q]
                                  /\ Evidence(obs', q) = Evidence(obs, q)
      BY <1>1, <1>2, <1>4
    <3>3. /\ \A q \in {r} : head'[q].backed <=> Evidence(obs', q) # {}
          /\ \A q \in {r} : latest[q] = None => Evidence(obs', q) # {}
          /\ Evidence(obs', r) = Evidence(obs, r)
      BY <1>1, <1>2, <1>4 DEF IInv, BackedInv, Exists
    <3>4. [FieldsOf(r)' EXCEPT !.verdict = "none"] = [FieldsOf(r) EXCEPT !.verdict = "none"]
      BY <1>1, <1>4 DEF FieldsOf
    <3>5. TypeOK /\ KnownInv /\ RetractedIffNoEvidence /\ FieldsInv
      BY DEF IInv
    <3>6. revision' \in [Rows -> Nat] /\ latest' \in [Rows -> Snapshots \cup {None}]
      BY <1>5, <3>1, <3>2, <3>5, SnapshotFacts
    <3>7. QED
      BY <1>5, <3>1, <3>2, <3>3, <3>4, <3>5, <3>6, SnapshotInv
  <2>3. QED
    BY <2>1, <2>2
<1>8. overtaken' \subseteq Rows
  BY <1>2, <1>3 DEF IInv, TypeOK
<1>9. TypeOK'
  BY <1>1, <1>4, <1>7, <1>8, ConstantsTyped DEF IInv, TypeOK
<1>10. KnownInv'
  BY <1>1, <1>7, ConstantsTyped DEF IInv, KnownInv
<1>11. BackedInv'
  BY <1>1, <1>6 DEF IInv, BackedInv, Exists
<1>12. ValueInv'
  BY <1>1, <1>6 DEF IInv, ValueInv
<1>13. StepInv' /\ SeenInv'
  BY <1>1 DEF IInv, StepInv, SeenInv
<1>14. r \notin overtaken' => head'[r].verdict = Due(r)
  <2>1. CASE ~moved
    BY <1>0, <1>1, <1>2, <1>3, <1>4, <2>1 DEF IInv, SeenInv, TypeOK
  <2>2. CASE moved
    BY <1>0, <1>1, <1>2, <1>3, <1>4, <2>2 DEF IInv, DueInv, Exists, Waiting
  <2>3. QED
    BY <2>1, <2>2
<1>15. DueInv'
  <2> SUFFICES ASSUME NEW q \in Rows, Exists(q)', q \notin overtaken', head'[q].verdict # Due(q)
               PROVE  ~fresh' /\ Waiting(q)' /\ head'[q].verdict \in Open3 /\ Due(q) \in Open3
    BY <1>6 DEF DueInv
  <2>1. q # r /\ q \notin overtaken /\ Exists(q) /\ head'[q] = head[q]
    BY <1>1, <1>3, <1>4, <1>14 DEF Exists
  <2>2. Waiting(q) /\ head[q].verdict \in Open3 /\ Due(q) \in Open3
    BY <2>1 DEF IInv, DueInv
  <2>3. q \in rest
    BY <1>1, <2>1, <2>2 DEF Waiting
  <2>4. QED
    BY <1>1, <2>1, <2>2, <2>3 DEF Waiting
<1>16. PositiveInv'
  <2> SUFFICES ASSUME NEW q \in Rows, Exists(q)', q \notin overtaken',
                      head'[q].verdict \in {"match", "no_match"}
               PROVE  head[q].value > 0
    BY <1>6 DEF PositiveInv
  <2>1. CASE q = r /\ wanted # None
    BY <1>0, <1>1, <1>2, <1>3, <2>1 DEF IInv, SeenInv
  <2>2. CASE q # r \/ wanted = None
    BY <1>1, <1>3, <1>4, <2>2 DEF IInv, PositiveInv, Exists
  <2>3. QED
    BY <2>1, <2>2
<1>17. QED
  BY <1>7, <1>9, <1>10, <1>11, <1>12, <1>13, <1>15, <1>16 DEF IInv

(***************************************************************************)
(* Sources.                                                                *)
(***************************************************************************)

Reports == [row : Rows \cup {None}, says : Keys \cup {None}, value : Values, active : BOOLEAN]

\* What reconciling and retracting have in common: observation o becomes x, and
\* rows, among them those it belonged and belongs to, are judged again.
JudgeStep(o, x, cx, rows) ==
  /\ x \in Reports /\ obs' = [obs EXCEPT ![o] = x]
  /\ rows \subseteq Rows /\ x.row \in rows
  /\ obs[o].row # None => obs[o].row \in rows
  /\ name' \in [Rows -> Rows \cup {None}]
  /\ \A q \in rows : name'[q] # None
  /\ \A q \in Rows \ rows : name'[q] = name[q]
  /\ cx \in [Rows -> Keys \cup {None}]
  /\ \A q \in rows : Evidence(obs', q) = {} => name'[q] = name[q] /\ cx[q] = head[q].context
  /\ \A q \in rows : name[q] = None => Evidence(obs', q) # {}
  /\ RefreshAndEnqueue(cx, rows)
  /\ UNCHANGED <<benchmark, step, todo, seen, wanted, fresh>>
  /\ rekeyed' \in BOOLEAN

LEMMA JudgeIInv ==
  ASSUME IInv, NEW o \in Observers, NEW x, NEW cx, NEW rows, JudgeStep(o, x, cx, rows)
  PROVE  IInv'
<1>1. /\ x \in Reports /\ obs' = [obs EXCEPT ![o] = x]
      /\ rows \subseteq Rows /\ x.row \in rows
      /\ obs[o].row # None => obs[o].row \in rows
      /\ name' \in [Rows -> Rows \cup {None}]
      /\ \A q \in rows : name'[q] # None
      /\ \A q \in Rows \ rows : name'[q] = name[q]
      /\ cx \in [Rows -> Keys \cup {None}]
      /\ \A q \in rows : Evidence(obs', q) = {} => name'[q] = name[q] /\ cx[q] = head[q].context
      /\ \A q \in rows : name[q] = None => Evidence(obs', q) # {}
      /\ UNCHANGED <<benchmark, step, todo, seen, wanted, fresh>>
      /\ rekeyed' \in BOOLEAN
  BY DEF JudgeStep
<1>2. PICK v \in [rows -> UNION {ValuesFor(r) : r \in rows}] :
       /\ \A r \in rows : v[r] \in ValuesFor(r)
       /\ head' = [r \in Rows |->
            IF r \in rows
              THEN [context |-> cx[r], value |-> v[r], verdict |-> Assess(obs', r, v[r]),
                    backed |-> Evidence(obs', r) # {}]
              ELSE head[r]]
  BY DEF JudgeStep, RefreshAndEnqueue
<1>3. /\ SnapshotAndEnqueue(rows)
      /\ moved' = (moved \/ seen.row \in rows)
      /\ overtaken' = overtaken \ rows
  BY DEF JudgeStep, RefreshAndEnqueue
<1>4. /\ obs' \in [Observers -> Reports] /\ obs'[o] = x
      /\ \A p \in Observers : p # o => obs'[p] = obs[p]
      /\ obs \in [Observers -> Reports]
  BY <1>1 DEF IInv, TypeOK, Reports
\* Rows that are not judged keep their evidence, their head and what is due.
<1>5. ASSUME NEW q \in Rows, q \notin rows
      PROVE  /\ Evidence(obs', q) = Evidence(obs, q) /\ Preferred(obs', q) = Preferred(obs, q)
             /\ \A p \in Evidence(obs, q) : obs'[p] = obs[p]
             /\ head'[q] = head[q] /\ name'[q] = name[q]
             /\ Due(q)' = Due(q)
  <2>1. obs[o].row # q /\ obs'[o].row # q
    BY <1>1, <1>4, <1>5, ConstantsTyped
  <2>2. /\ Evidence(obs', q) = Evidence(obs, q) /\ Preferred(obs', q) = Preferred(obs, q)
        /\ \A p \in Evidence(obs, q) : obs'[p] = obs[p]
        /\ \A b, w : AssessBy(b, obs', q, w) = AssessBy(b, obs, q, w)
    BY <1>4, <2>1, AssessFrame
  <2>3. head'[q] = head[q]
    BY <1>2, <1>5
  <2>4. name'[q] = name[q]
    BY <1>1, <1>5
  <2>5. Due(q)' = Due(q)
    <3>1. benchmark' = benchmark
      BY <1>1
    <3>2. Due(q)' = AssessBy(benchmark, obs', q, head[q].value)
      BY <2>3, <3>1 DEF Due
    <3>3. QED
      BY <2>2, <3>2 DEF Due
  <2>6. QED
    BY <2>2, <2>3, <2>4, <2>5
<1>6. ASSUME NEW q \in rows
      PROVE  /\ v[q] \in Values
             /\ Evidence(obs', q) # {} => \E p \in Preferred(obs', q) : obs'[p].value = v[q]
             /\ Evidence(obs', q) = {} => v[q] = head[q].value
  <2>1. v[q] \in ValuesFor(q) /\ q \in Rows
    BY <1>1, <1>2
  <2>2. head[q].value \in Values
    BY <2>1 DEF IInv, TypeOK
  <2>3. Preferred(obs', q) \subseteq Observers
    BY DEF Preferred, Evidence
  <2>4. QED
    BY <1>4, <2>1, <2>2, <2>3 DEF ValuesFor, Reports
<1>7. ASSUME NEW q \in rows
      PROVE  /\ head'[q].context = cx[q] /\ head'[q].value = v[q]
             /\ head'[q].verdict = AssessBy(benchmark, obs', q, v[q])
             /\ head'[q].backed <=> Evidence(obs', q) # {}
             /\ head'[q] \in [context : Keys \cup {None}, value : Values,
                              verdict : Verdicts, backed : BOOLEAN]
  <2>1. head'[q] = [context |-> cx[q], value |-> v[q], verdict |-> Assess(obs', q, v[q]),
                    backed |-> Evidence(obs', q) # {}]
    BY <1>1, <1>2
  <2>2. Assess(obs', q, v[q]) = AssessBy(benchmark, obs', q, v[q])
    BY AssessIsBy
  <2>3. AssessBy(benchmark, obs', q, v[q]) \in Verdicts
    BY AssessFacts
  <2>4. cx[q] \in Keys \cup {None} /\ v[q] \in Values
    BY <1>1, <1>6
  <2>5. head'[q].context = cx[q] /\ head'[q].value = v[q] /\ head'[q].verdict = Assess(obs', q, v[q])
    BY <2>1
  <2>6. head'[q].backed <=> Evidence(obs', q) # {}
    <3>1. head'[q].backed = (Evidence(obs', q) # {})
      BY <2>1
    <3>2. QED
      BY <3>1
  <2>7. head'[q] \in [context : Keys \cup {None}, value : Values,
                     verdict : Verdicts, backed : BOOLEAN]
    <3>1. (Evidence(obs', q) # {}) \in BOOLEAN
      OBVIOUS
    <3>2. QED
      BY <2>1, <2>2, <2>3, <2>4, <3>1
  <2>8. QED
    BY <2>2, <2>5, <2>6, <2>7
<1>8. \A q \in rows : head'[q].verdict = Due(q)'
  BY <1>1, <1>7 DEF Due
<1>9. HeadTyped
  <2>1. \A q \in Rows : head'[q] \in [context : Keys \cup {None}, value : Values,
                                      verdict : Verdicts, backed : BOOLEAN]
    BY <1>5, <1>7 DEF IInv, TypeOK
  <2>2. head' = [q \in Rows |-> head'[q]]
    BY <1>2
  <2>3. QED
    BY <1>1, <2>1, <2>2 DEF HeadTyped
<1>10. /\ revision' \in [Rows -> Nat] /\ latest' \in [Rows -> Snapshots \cup {None}]
       /\ \A q \in Rows : name'[q] = None <=> latest'[q] = None
       /\ RetractedIffNoEvidence' /\ FieldsInv'
  <2>1. TypeOK /\ KnownInv /\ RetractedIffNoEvidence /\ FieldsInv /\ rows \in SUBSET Rows
    BY <1>1 DEF IInv
  <2>2. \A q \in rows : latest[q] = None => Evidence(obs', q) # {}
    BY <1>1, <2>1 DEF KnownInv
  <2>3. ASSUME NEW q \in rows, Evidence(obs', q) = {}, latest[q] # None
        PROVE  [FieldsOf(q)' EXCEPT !.verdict = "none"] = [FieldsOf(q) EXCEPT !.verdict = "none"]
    <3>1. name'[q] = name[q] /\ head'[q].context = head[q].context /\ head'[q].value = head[q].value
      BY <1>1, <1>6, <1>7, <2>3
    <3>2. QED
      BY <3>1 DEF FieldsOf
  <2>4. \A q \in rows : Evidence(obs', q) = {} =>
          head'[q].verdict = "none" \/ Evidence(obs, q) = {}
    BY <1>7, AssessFacts
  <2>5. \A q \in Rows \ rows : name'[q] = name[q] /\ head'[q] = head[q]
                              /\ Evidence(obs', q) = Evidence(obs, q)
    BY <1>5
  <2>6. revision' \in [Rows -> Nat] /\ latest' \in [Rows -> Snapshots \cup {None}]
    BY <1>1, <1>3, <1>9, <2>1, SnapshotFacts
  <2>7. QED
    BY <1>1, <1>3, <1>7, <1>9, <2>1, <2>2, <2>3, <2>4, <2>5, <2>6, SnapshotInv
<1>11. TypeOK'
  <2>1. moved' \in BOOLEAN /\ overtaken' \subseteq Rows
    BY <1>3 DEF IInv, TypeOK
  <2>2. QED
    BY <1>1, <1>4, <1>9, <1>10, <2>1 DEF IInv, TypeOK, HeadTyped, Reports
<1>12. KnownInv'
  <2>1. \A p \in Observers : obs'[p].row # None => name'[obs'[p].row] # None
    <3> SUFFICES ASSUME NEW p \in Observers, obs'[p].row # None
                 PROVE  name'[obs'[p].row] # None
      OBVIOUS
    <3>1. CASE p = o
      BY <1>1, <1>4, <3>1
    <3>2. CASE p # o
      <4>1. obs'[p].row = obs[p].row /\ obs[p].row \in Rows /\ name[obs[p].row] # None
        BY <1>4, <3>2 DEF IInv, KnownInv, Reports
      <4>2. QED
        BY <1>1, <4>1
    <3>3. QED
      BY <3>1, <3>2
  <2>2. todo \subseteq Rows
    BY DEF IInv, TypeOK
  <2>3. \A p \in Observers : obs'[p].active => obs'[p].row # None
    BY <1>1, <1>4, ConstantsTyped DEF IInv, KnownInv
  <2>4. QED
    BY <1>1, <1>10, <2>1, <2>2, <2>3 DEF IInv, KnownInv
<1>13. BackedInv'
  <2> SUFFICES ASSUME NEW q \in Rows, Exists(q)'
               PROVE  head'[q].backed <=> Evidence(obs', q) # {}
    BY DEF BackedInv
  <2>1. CASE q \in rows
    BY <1>7, <2>1
  <2>2. CASE q \notin rows
    BY <1>5, <2>2 DEF IInv, BackedInv, Exists
  <2>3. QED
    BY <2>1, <2>2
<1>14. ValueInv'
  <2> SUFFICES ASSUME NEW q \in Rows, Evidence(obs', q) # {}
               PROVE  \E p \in Preferred(obs', q) : obs'[p].value = head'[q].value
    BY DEF ValueInv
  <2>1. CASE q \in rows
    BY <1>6, <1>7, <2>1
  <2>2. CASE q \notin rows
    <3>1. \E p \in Preferred(obs, q) : obs[p].value = head[q].value
      BY <1>5, <2>2 DEF IInv, ValueInv
    <3>2. Preferred(obs, q) \subseteq Evidence(obs, q)
      BY DEF Preferred
    <3>3. QED
      BY <1>5, <2>2, <3>1, <3>2
  <2>3. QED
    BY <2>1, <2>2
<1>15. StepInv'
  BY <1>1 DEF IInv, StepInv
<1>16. SeenInv'
  <2> SUFFICES ASSUME step \in {"read", "write"}, ~moved'
               PROVE  SeenInv'
    BY <1>1 DEF SeenInv
  <2>1. seen.row \in Rows /\ seen.row \notin rows /\ ~moved
    BY <1>3 DEF IInv, TypeOK, StepInv
  <2>2. head'[seen.row] = head[seen.row] /\ Due(seen.row)' = Due(seen.row)
    <3>1. \A q \in Rows : q = seen.row => head'[q] = head[q] /\ Due(q)' = Due(q)
      BY <1>5, <2>1
    <3>2. PICK q \in Rows : q = seen.row
      BY <2>1
    <3>3. Due(seen.row)' = Due(q)'
      BY <1>1, <3>2 DEF Due
    <3>4. QED
      BY <3>1, <3>2, <3>3
  <2>3. QED
    BY <1>1, <1>3, <2>1, <2>2 DEF IInv, SeenInv
<1>17. DueInv'
  <2> SUFFICES ASSUME NEW q \in Rows, Exists(q)', q \notin overtaken', head'[q].verdict # Due(q)'
               PROVE  ~fresh' /\ Waiting(q)' /\ head'[q].verdict \in Open3 /\ Due(q)' \in Open3
    BY DEF DueInv
  <2>1. q \notin rows
    BY <1>8
  <2>2. head'[q] = head[q] /\ name'[q] = name[q] /\ Due(q)' = Due(q)
    BY <1>5, <2>1
  <2>3. ~fresh /\ Waiting(q) /\ head[q].verdict \in Open3 /\ Due(q) \in Open3
    BY <1>3, <2>1, <2>2 DEF IInv, DueInv, Exists
  <2>4. Waiting(q)'
    BY <1>1, <1>3, <2>1, <2>3 DEF Waiting
  <2>5. QED
    BY <1>1, <2>2, <2>3, <2>4
<1>18. PositiveInv'
  <2> SUFFICES ASSUME NEW q \in Rows, Exists(q)', q \notin overtaken',
                      head'[q].verdict \in {"match", "no_match"}
               PROVE  head'[q].value > 0
    BY DEF PositiveInv
  <2>1. CASE q \in rows
    <3>1. head'[q].verdict \in Open3 /\ head'[q].verdict # "untrusted"
      BY DEF Open3
    <3>2. head'[q].verdict = QualifyBy(benchmark, v[q])
      BY <1>7, <2>1, <3>1, AssessFacts
    <3>3. ~(v[q] <= 0)
      BY <3>1, <3>2, QualifyFacts
    <3>4. head'[q].value = v[q]
      BY <1>7, <2>1
    <3>5. v[q] \in Int
      BY <1>6, <2>1, ConstantsTyped
    <3>6. QED
      BY <3>3, <3>4, <3>5
  <2>2. CASE q \notin rows
    BY <1>3, <1>5, <2>2 DEF IInv, PositiveInv, Exists
  <2>3. QED
    BY <2>1, <2>2
<1>19. QED
  BY <1>10, <1>11, <1>12, <1>13, <1>14, <1>15, <1>16, <1>17, <1>18 DEF IInv

LEMMA TargetIsRow ==
  ASSUME TypeOK, NEW o \in Observers, NEW key \in Keys \cup {None}
  PROVE  /\ ProposedKey(o, key) \in Rows
         /\ Target(o, key) \in Rows
<1>1. ProposedKey(o, key) \in Rows
  BY ConstantsTyped DEF ProposedKey
<1>2. \A k : Named(k) # {} => (CHOOSE r \in Named(k) : TRUE) \in Rows
  BY DEF Named
<1>3. obs[o].row # None => obs[o].row \in Rows
  BY DEF TypeOK
<1>4. Cardinality(SameSource(o)) = 1 => (CHOOSE r \in SameSource(o) : TRUE) \in Rows
  <2>1. Cardinality(SameSource(o)) = 1 => SameSource(o) # {}
    BY FS_EmptySet
  <2>2. SameSource(o) \subseteq Rows
    BY DEF SameSource, TypeOK
  <2>3. QED
    BY <2>1, <2>2
<1>5. QED
  BY <1>1, <1>2, <1>3, <1>4 DEF Target

LEMMA ReconcileJudges ==
  ASSUME IInv, NEW o \in Observers, NEW key \in Keys \cup {None}, NEW v \in Values,
         ReconcileResultObservation(o, key, v)
  PROVE  \E x, cx, rows : JudgeStep(o, x, cx, rows)
<1>0. PICK r \in Rows : r = Target(o, key)
  BY TargetIsRow DEF IInv
<1> DEFINE x == [row |-> r, says |-> IF key = None THEN obs[o].says ELSE key,
                 value |-> v, active |-> TRUE]
           rows == {r, obs[o].row} \ {None}
           cx == [q \in Rows |-> IF q = r /\ key # None THEN key ELSE head[q].context]
<1>1. /\ obs' = [obs EXCEPT ![o] = x]
      /\ name' = [name EXCEPT ![r] = NameAfter(o, key, r)]
      /\ RefreshAndEnqueue(cx, rows)
      /\ UNCHANGED <<benchmark, step, todo, seen, wanted, fresh>>
  BY <1>0 DEF ReconcileResultObservation, RowsToRefresh, refreshVars
<1>2. rekeyed' \in BOOLEAN
  <2>1. rekeyed' = (rekeyed \/ \E p \in Observers :
          Origin[p] = Origin[o] /\ key # None /\ obs[p].says \notin {None, key})
    BY DEF ReconcileResultObservation
  <2>2. QED
    BY <2>1
<1>3. x \in Reports /\ x.row = r
  BY DEF IInv, TypeOK, Reports
<1>4. rows \subseteq Rows /\ r \in rows /\ (obs[o].row # None => obs[o].row \in rows)
  BY ConstantsTyped DEF IInv, TypeOK
<1>5. NameAfter(o, key, r) \in Rows
  BY TargetIsRow, ConstantsTyped DEF NameAfter, IInv, TypeOK
<1>6. name' \in [Rows -> Rows \cup {None}]
  BY <1>1, <1>5 DEF IInv, TypeOK
<1>7. /\ name'[r] # None
      /\ \A q \in Rows : q # r => name'[q] = name[q]
  BY <1>1, <1>5, ConstantsTyped DEF IInv, TypeOK
<1>8. \A q \in rows : q # r => q = obs[o].row /\ obs[o].row # None /\ name[q] # None
  BY DEF IInv, KnownInv
<1>9. cx \in [Rows -> Keys \cup {None}] /\ \A q \in Rows : q # r => cx[q] = head[q].context
  BY DEF IInv, TypeOK
<1>10. Evidence(obs', r) # {}
  <2>1. obs'[o] = x
    BY <1>1 DEF IInv, TypeOK
  <2>2. o \in Evidence(obs', r)
    BY <2>1 DEF Evidence
  <2>3. QED
    BY <2>2
<1> HIDE DEF x, rows, cx
<1>11. /\ \A q \in rows : name'[q] # None
       /\ \A q \in Rows \ rows : name'[q] = name[q]
       /\ \A q \in rows : Evidence(obs', q) = {} => name'[q] = name[q] /\ cx[q] = head[q].context
       /\ \A q \in rows : name[q] = None => Evidence(obs', q) # {}
  BY <1>4, <1>7, <1>8, <1>9, <1>10
<1>12. JudgeStep(o, x, cx, rows)
  BY <1>1, <1>2, <1>3, <1>4, <1>6, <1>9, <1>11 DEF JudgeStep
<1>13. QED
  BY <1>12

LEMMA RetractJudges ==
  ASSUME IInv, NEW o \in Observers, RetractResultObservation(o)
  PROVE  \E x, cx, rows : JudgeStep(o, x, cx, rows)
<1> DEFINE x == [obs[o] EXCEPT !.active = FALSE]
           cx == [q \in Rows |-> head[q].context]
           rows == {obs[o].row}
<1>1. /\ obs[o].active
      /\ obs' = [obs EXCEPT ![o] = x]
      /\ RefreshAndEnqueue(cx, rows)
      /\ UNCHANGED <<name, benchmark, step, todo, seen, wanted, fresh, rekeyed>>
  BY DEF RetractResultObservation, refreshVars
<1>2. x \in Reports /\ x.row = obs[o].row
  BY DEF IInv, TypeOK, Reports
<1>3. obs[o].row \in Rows /\ name[obs[o].row] # None
  BY <1>1 DEF IInv, TypeOK, KnownInv
<1>4. cx \in [Rows -> Keys \cup {None}] /\ \A q \in Rows : cx[q] = head[q].context
  BY DEF IInv, TypeOK
<1>5. name' \in [Rows -> Rows \cup {None}] /\ rekeyed' \in BOOLEAN
  BY <1>1 DEF IInv, TypeOK
<1>6. rows \subseteq Rows /\ x.row \in rows /\ \A q \in rows : q \in Rows /\ name[q] # None
  BY <1>2, <1>3
<1>7. obs[o].row \in rows
  OBVIOUS
<1> HIDE DEF x, cx, rows
<1>8. JudgeStep(o, x, cx, rows)
  BY <1>1, <1>2, <1>4, <1>5, <1>6, <1>7 DEF JudgeStep
<1>9. QED
  BY <1>8

LEMMA StutterIInv == IInv /\ UNCHANGED vars => IInv'
<1> SUFFICES ASSUME IInv, UNCHANGED vars
             PROVE  IInv'
  OBVIOUS
<1>1. UNCHANGED <<obs, name, head, latest, revision, benchmark, step, todo, seen, wanted, moved,
                  overtaken, fresh, rekeyed>>
  BY DEF vars, rowVars, refreshVars
<1>2. BackedInv' /\ RetractedIffNoEvidence' /\ ValueInv' /\ FieldsInv'
  BY <1>1, RowsUnchanged DEF rowVars
<1>3. TypeOK' /\ KnownInv'
  BY <1>1 DEF IInv, TypeOK, KnownInv
<1>4. StepInv' /\ SeenInv' /\ DueInv' /\ PositiveInv'
  BY <1>1 DEF IInv, StepInv, SeenInv, DueInv, PositiveInv, Exists, Due, Waiting
<1>5. QED
  BY <1>2, <1>3, <1>4 DEF IInv

LEMMA NextIInv == IInv /\ [Next]_vars => IInv'
<1> SUFFICES ASSUME IInv, [Next]_vars
             PROVE  IInv'
  OBVIOUS
<1>1. CASE UNCHANGED vars
  BY <1>1, StutterIInv
<1>2. ASSUME NEW o \in Observers, NEW key \in Keys \cup {None}, NEW v \in Values,
             ReconcileResultObservation(o, key, v)
      PROVE  IInv'
  BY <1>2, ReconcileJudges, JudgeIInv
<1>3. ASSUME NEW o \in Observers, RetractResultObservation(o)
      PROVE  IInv'
  BY <1>3, RetractJudges, JudgeIInv
<1>4. ASSUME NEW b \in Benchmarks, StoreSnapshot(b)
      PROVE  IInv'
  BY <1>4, StoreIInv
<1>5. ASSUME NEW r \in Rows, ReadHead(r)
      PROVE  IInv'
  BY <1>5, ReadIInv
<1>6. QED
  BY <1>1, <1>2, <1>3, <1>4, <1>5, ListIInv, ValidateIInv, WriteIInv, AbandonIInv DEF Next

THEOREM Inductive == Spec => []IInv
  BY InitIInv, NextIInv, PTL DEF Spec

(***************************************************************************)
(* Theorems.                                                               *)
(***************************************************************************)

\* Every reachable state of reconciliation and refresh is well typed.
THEOREM SpecReconciliationTypeOK == Spec => []TypeOK
<1>1. IInv => TypeOK
  BY DEF IInv
<1>2. QED
  BY <1>1, Inductive, PTL

\* A row is retracted exactly while nothing supports it, wherever evidence
\* moves (reconcile_result_observation, retract_result_observation).
THEOREM SpecRetractedIffNoEvidence == Spec => []RetractedIffNoEvidence
<1>1. IInv => RetractedIffNoEvidence
  BY DEF IInv
<1>2. QED
  BY <1>1, Inductive, PTL

\* The last revision of a row no batch has written over is its head
\* (_snapshot_and_enqueue).
THEOREM SpecLastRevisionUnlessOvertaken == Spec => []LastRevisionUnlessOvertaken
<1>1. IInv => LastRevisionUnlessOvertaken
  <2> SUFFICES ASSUME IInv, NEW r \in Rows, Exists(r), r \notin overtaken
               PROVE  latest[r].fields = FieldsOf(r)
    BY DEF LastRevisionUnlessOvertaken
  <2>1. CASE latest[r].action # "retracted"
    BY <2>1 DEF IInv, FieldsInv
  <2>2. CASE latest[r].action = "retracted"
    <3>1. Evidence(obs, r) = {}
      BY <2>2 DEF IInv, RetractedIffNoEvidence
    <3>2. Due(r) = "none" /\ "none" \notin Open3
      BY <3>1, AssessFacts DEF Due, Open3
    <3>3. head[r].verdict = "none"
      BY <3>2 DEF IInv, DueInv
    <3>4. latest[r].fields = [FieldsOf(r) EXCEPT !.verdict = "none"]
      BY <2>2 DEF IInv, FieldsInv
    <3>5. QED
      BY <3>3, <3>4 DEF FieldsOf
  <2>3. QED
    BY <2>1, <2>2
<1>2. QED
  BY <1>1, Inductive, PTL

\* The verdict of a row no batch has written over is a function of evidence and
\* value, and of the newest official records once a refresh is completed
\* (_refresh_canonical_values, validate_scope_against_latest_snapshot).
THEOREM SpecVerdictUnlessOvertaken == Spec => []VerdictUnlessOvertaken
<1>1. IInv => VerdictUnlessOvertaken
  <2> SUFFICES ASSUME IInv, NEW r \in Rows, Exists(r), r \notin overtaken
               PROVE  LET due == Assess(obs, r, head[r].value)
                      IN \/ head[r].verdict = due
                         \/ ~fresh /\ {head[r].verdict, due} \subseteq {"untrusted", "match", "no_match"}
    BY DEF VerdictUnlessOvertaken
  <2>1. Assess(obs, r, head[r].value) = Due(r)
    BY AssessIsBy DEF Due
  <2>2. QED
    BY <2>1 DEF IInv, DueInv, Open3
<1>2. QED
  BY <1>1, Inductive, PTL

\* Revisions tell what happened, whoever writes them and whatever the head holds
\* (_snapshot_and_enqueue).
THEOREM SpecRevisionsTellTheStory == Spec => RevisionsTellTheStory
<1> DEFINE Told == \A r \in Rows : revision'[r] # revision[r] =>
             /\ revision'[r] = revision[r] + 1
             /\ latest'[r].action = "active" <=>
                  (latest[r] = None \/ latest[r].action = "retracted")
             /\ latest'[r].action = "corrected" => latest'[r].fields # latest[r].fields
\* Snapshots are the only writers of revisions.
<1>1. ASSUME IInv, HeadTyped, NEW rows \in SUBSET Rows, SnapshotAndEnqueue(rows),
             \A r \in rows : name'[r] # None
      PROVE  Told
  <2> SUFFICES ASSUME NEW r \in Rows, revision'[r] # revision[r]
               PROVE  /\ revision'[r] = revision[r] + 1
                      /\ latest'[r].action = "active" <=>
                           (latest[r] = None \/ latest[r].action = "retracted")
                      /\ latest'[r].action = "corrected" => latest'[r].fields # latest[r].fields
    OBVIOUS
  <2>1. TypeOK
    BY <1>1 DEF IInv
  <2>2. r \in rows /\ ActionFor(r) # None
    BY <1>1, <2>1, SnapshotFacts
  <2>3. /\ revision'[r] = revision[r] + 1
        /\ latest'[r].action = ActionFor(r) /\ latest'[r].fields = FieldsOf(r)'
    BY <1>1, <2>1, <2>2, SnapshotFacts
  <2>4. ActionFor(r) = "active" <=> (latest[r] = None \/ latest[r].action = "retracted")
    BY <2>2 DEF ActionFor
  <2>5. ActionFor(r) = "corrected" => latest[r].fields # FieldsOf(r)'
    BY <2>2, NoneAssumption DEF NoneAssumption, Actions, ActionFor
  <2>6. QED
    BY <2>3, <2>4, <2>5
<1>2. ASSUME IInv, IInv', NEW o, NEW x, NEW cx, NEW rows, JudgeStep(o, x, cx, rows)
      PROVE  Told
  <2>1. SnapshotAndEnqueue(rows) /\ rows \in SUBSET Rows /\ \A r \in rows : name'[r] # None
    BY <1>2 DEF JudgeStep, RefreshAndEnqueue
  <2>2. HeadTyped
    BY <1>2 DEF IInv, TypeOK, HeadTyped
  <2> HIDE DEF Told
  <2>3. QED
    BY <1>1, <1>2, <2>1, <2>2
<1>3. ASSUME IInv, IInv', WriteVerdict
      PROVE  Told
  <2>1. CASE wanted = None
    <3>1. revision' = revision
      BY <1>3, <2>1 DEF WriteVerdict, rowVars
    <3>2. QED
      BY <3>1
  <2>2. CASE wanted # None
    <3>1. PICK r \in Rows : r = seen.row
      BY <1>3 DEF WriteVerdict, IInv, TypeOK, StepInv
    <3>2. SnapshotAndEnqueue({r}) /\ UNCHANGED name
      BY <1>3, <2>2, <3>1 DEF WriteVerdict
    <3>3. name'[r] # None /\ {r} \in SUBSET Rows
      BY <1>3, <3>1, <3>2, ConstantsTyped DEF IInv, KnownInv
    <3>4. HeadTyped
      BY <1>3 DEF IInv, TypeOK, HeadTyped
    <3> HIDE DEF Told
    <3>5. QED
      BY <1>1, <1>3, <3>2, <3>3, <3>4
  <2>3. QED
    BY <2>1, <2>2
<1>4. IInv /\ IInv' /\ [Next]_vars => [Told]_vars
  <2> SUFFICES ASSUME IInv, IInv', Next
               PROVE  Told
    OBVIOUS
  <2>1. ASSUME NEW o \in Observers, NEW key \in Keys \cup {None}, NEW v \in Values,
               ReconcileResultObservation(o, key, v)
        PROVE  Told
    <3> HIDE DEF Told
    <3>1. QED
      BY <1>2, <2>1, ReconcileJudges
  <2>2. ASSUME NEW o \in Observers, RetractResultObservation(o)
        PROVE  Told
    <3> HIDE DEF Told
    <3>1. QED
      BY <1>2, <2>2, RetractJudges
  <2>3. ASSUME UNCHANGED revision
        PROVE  Told
    BY <2>3
  <2> HIDE DEF Told
  <2>4. QED
    BY <1>3, <2>1, <2>2, <2>3
       DEF Next, StoreSnapshot, ListRows, ReadHead, ValidateScope, AbandonRefresh, rowVars
<1>5. QED
  BY <1>4, Inductive, PTL DEF Spec, RevisionsTellTheStory

(***************************************************************************)
(* One canonical row for one natural key.                                  *)
(***************************************************************************)

\* No two rows share an identity key; a row keeps its natural key, and is
\* created under a source's own key for an observation of that source.
NamesInv ==
  /\ \A r, s \in Rows : name[r] # None /\ name[r] = name[s] => r = s
  /\ \A r \in Keys : name[r] \in {None, r}
  /\ \A r \in Rows : name[r] \in Origins => name[r] = r
  /\ \A r \in Origins : name[r] # None => \E o \in Observers : Origin[o] = r /\ obs[o].row # None

\* The source identity says one natural key, and the row of whoever said it
\* has that name; other rows of the source have its own.
SaysInv ==
  /\ \A o, p \in Observers :
       Origin[o] = Origin[p] /\ obs[o].says # None /\ obs[p].says # None =>
         obs[o].says = obs[p].says
  /\ \A o \in Observers :
       obs[o].says # None => obs[o].row # None /\ name[obs[o].row] = obs[o].says
  /\ \A o \in Observers : obs[o].row # None =>
       \/ name[obs[o].row] = Origin[o]
       \/ \E p \in Observers :
            Origin[p] = Origin[o] /\ obs[p].says # None /\ name[obs[o].row] = obs[p].says

HeadsInv == NamesInv /\ (~rekeyed => SaysInv)

\* Natural keys, sources and None are apart.
LEMMA KeysApart ==
  /\ Keys \cap Origins = {} /\ None \notin Keys /\ None \notin Origins
  /\ Rows = Keys \cup Origins
  BY RowsAssumption, ConstantsTyped DEF RowsAssumption, Rows

LEMMA InitHeadsInv == Init => HeadsInv
  BY KeysApart DEF Init, HeadsInv, NamesInv, SaysInv

\* Before an observation has a row, its source has one row at most.
LEMMA SameSourceFacts ==
  ASSUME TypeOK, NEW o \in Observers, obs[o].row = None,
         NEW p \in Observers, Origin[p] = Origin[o], obs[p].row # None
  PROVE  SameSource(o) = {obs[p].row} /\ Cardinality(SameSource(o)) = 1
<1>1. p # o
  OBVIOUS
<1>2. \A q \in Observers : Origin[q] = Origin[o] => q = o \/ q = p
  BY <1>1, OriginAssumption DEF OriginAssumption
<1>3. SameSource(o) = {obs[p].row}
  BY <1>2 DEF SameSource
<1>4. QED
  BY <1>3, FS_Singleton

\* Where a report goes: to the row of its natural key; else to a row of its
\* source, its own if it has one; else to a new row under the key it proposes.
LEMMA TargetFacts ==
  ASSUME IInv, NamesInv, NEW o \in Observers, NEW key \in Keys \cup {None}, NEW r,
         r = Target(o, key)
  PROVE  \/ key # None /\ name[r] = key
         \/ /\ key = None \/ Named(key) = {}
            /\ \E p \in Observers : Origin[p] = Origin[o] /\ obs[p].row # None /\ obs[p].row = r
            /\ obs[o].row # None => r = obs[o].row
         \/ /\ key = None \/ Named(key) = {}
            /\ obs[o].row = None
            /\ name[r] = None /\ r = ProposedKey(o, key) /\ Named(r) = {}
<1>1. r \in Rows /\ ProposedKey(o, key) \in Rows
  BY TargetIsRow DEF IInv
<1>2. CASE key # None /\ Named(key) # {}
  <2>1. r = CHOOSE s \in Named(key) : TRUE
    BY <1>2 DEF Target
  <2>2. r \in Named(key)
    BY <1>2, <2>1
  <2>3. QED
    BY <1>2, <2>2 DEF Named
<1>3. CASE ~(key # None /\ Named(key) # {})
  <2>1. CASE obs[o].row # None
    BY <1>3, <2>1 DEF Target
  <2>2. CASE obs[o].row = None /\ \E p \in Observers : Origin[p] = Origin[o] /\ obs[p].row # None
    <3>1. PICK p \in Observers : Origin[p] = Origin[o] /\ obs[p].row # None
      BY <2>2
    <3>2. SameSource(o) = {obs[p].row} /\ Cardinality(SameSource(o)) = 1
      BY <2>2, <3>1, SameSourceFacts DEF IInv
    <3>3. r = CHOOSE s \in SameSource(o) : TRUE
      BY <1>3, <2>2, <3>2 DEF Target
    <3>4. r = obs[p].row
      BY <3>2, <3>3
    <3>5. QED
      BY <1>3, <2>2, <3>1, <3>4
  <2>3. CASE \A p \in Observers : Origin[p] = Origin[o] => obs[p].row = None
    <3> DEFINE k == ProposedKey(o, key)
    <3>1. SameSource(o) = {}
      BY <2>3 DEF SameSource
    <3>2. Cardinality(SameSource(o)) # 1 /\ obs[o].row = None
      BY <2>3, <3>1, FS_EmptySet
    <3>3. r = IF Named(k) # {} THEN CHOOSE s \in Named(k) : TRUE ELSE k
      BY <1>3, <3>2 DEF Target
    <3>4. key = None => k = Origin[o] /\ k \in Origins
      BY ConstantsTyped DEF ProposedKey
    <3>5. key # None => k = key /\ k \in Keys
      BY DEF ProposedKey
    <3>6. name[k] = None
      <4>1. CASE key = None
        BY <2>3, <3>4, <4>1 DEF NamesInv
      <4>2. CASE key # None
        <5>1. name[k] # k
          BY <1>1, <1>3, <3>5, <4>2 DEF Named
        <5>2. QED
          BY <3>5, <4>2, <5>1 DEF NamesInv
      <4>3. QED
        BY <4>1, <4>2
    <3>7. Named(k) = {}
      <4>1. CASE key = None
        <5> SUFFICES ASSUME NEW s \in Rows, name[s] = k
                     PROVE  FALSE
          BY DEF Named
        <5>1. s = k
          BY <3>4, <4>1 DEF NamesInv
        <5>2. QED
          BY <3>6, <5>1, <3>4, <4>1, KeysApart
      <4>2. CASE key # None
        BY <1>3, <3>5, <4>2
      <4>3. QED
        BY <4>1, <4>2
    <3>8. QED
      BY <1>3, <3>2, <3>3, <3>6, <3>7
  <2>4. QED
    BY <2>1, <2>2, <2>3
<1>4. QED
  BY <1>2, <1>3

LEMMA ReconcileHeadsInv ==
  ASSUME IInv, HeadsInv, NEW o \in Observers, NEW key \in Keys \cup {None}, NEW v \in Values,
         ReconcileResultObservation(o, key, v)
  PROVE  HeadsInv'
<1>1. PICK r \in Rows : r = Target(o, key)
  BY TargetIsRow DEF IInv
<1> DEFINE said == IF key = None THEN obs[o].says ELSE key
           x == [row |-> r, says |-> said, value |-> v, active |-> TRUE]
           n == NameAfter(o, key, r)
<1>2. /\ obs' = [obs EXCEPT ![o] = x]
      /\ name' = [name EXCEPT ![r] = n]
      /\ rekeyed' = (rekeyed \/ \E p \in Observers :
           Origin[p] = Origin[o] /\ key # None /\ obs[p].says \notin {None, key})
  BY <1>1 DEF ReconcileResultObservation
<1>3. /\ obs'[o].row = r /\ obs'[o].says = said
      /\ \A p \in Observers : p # o => obs'[p] = obs[p]
  BY <1>2 DEF IInv, TypeOK
<1>4. name'[r] = n /\ \A q \in Rows : q # r => name'[q] = name[q]
  BY <1>2 DEF IInv, TypeOK
<1>5. \/ key # None /\ name[r] = key
      \/ /\ key = None \/ Named(key) = {}
         /\ \E p \in Observers : Origin[p] = Origin[o] /\ obs[p].row # None /\ obs[p].row = r
         /\ obs[o].row # None => r = obs[o].row
      \/ /\ key = None \/ Named(key) = {}
         /\ obs[o].row = None
         /\ name[r] = None /\ r = ProposedKey(o, key) /\ Named(r) = {}
  BY <1>1, TargetFacts DEF HeadsInv
<1>6. /\ name[r] = None => n = ProposedKey(o, key)
      /\ name[r] \in Origins /\ key # None => n = key
      /\ name[r] # None /\ ~(name[r] \in Origins /\ key # None) => n = name[r]
  BY KeysApart DEF NameAfter
<1>7. /\ key = None => ProposedKey(o, key) = Origin[o] /\ Origin[o] \in Origins
      /\ key # None => ProposedKey(o, key) = key /\ key \in Keys
  BY ConstantsTyped DEF ProposedKey
<1>8. name[r] = None =>
        r = ProposedKey(o, key) /\ Named(r) = {} /\ obs[o].row = None /\ (key = None \/ Named(key) = {})
  BY <1>5, KeysApart DEF IInv, KnownInv
\* A name the step gives is nobody else's.
<1>9. n # name[r] => \A s \in Rows : name[s] # n
  <2>1. CASE name[r] = None
    BY <1>6, <1>8, <2>1 DEF Named
  <2>2. CASE name[r] # None /\ n # name[r]
    <3>1. name[r] \in Origins /\ key # None /\ n = key
      BY <1>6, <2>2
    <3>2. Named(key) = {}
      BY <1>5, <1>7, <2>2, <3>1
    <3>3. QED
      BY <3>1, <3>2 DEF Named
  <2>3. QED
    BY <2>1, <2>2
<1>10. \A p \in Observers : obs[p].row # None => obs'[p].row # None
  BY <1>3, ConstantsTyped
<1>11. obs[o].row \in Rows \cup {None} /\ name[r] \in Rows \cup {None} /\ r # None
       /\ \A p \in Observers : obs[p].row \in Rows \cup {None} /\ obs[p].says \in Keys \cup {None}
  BY ConstantsTyped DEF IInv, TypeOK
<1> HIDE DEF said, x, n
<1>12. NamesInv'
  <2>1. \A q, s \in Rows : name'[q] # None /\ name'[q] = name'[s] => q = s
    BY <1>4, <1>9 DEF HeadsInv, NamesInv
  <2>2. \A q \in Keys : name'[q] \in {None, q}
    <3> SUFFICES ASSUME r \in Keys
                 PROVE  n \in {None, r}
      BY <1>4, KeysApart DEF HeadsInv, NamesInv
    <3>1. CASE name[r] = None
      BY <1>6, <1>8, <3>1
    <3>2. CASE name[r] = r
      BY <1>6, <3>2, KeysApart
    <3>3. QED
      BY <3>1, <3>2 DEF HeadsInv, NamesInv
  <2>3. \A q \in Rows : name'[q] \in Origins => name'[q] = q
    <3> SUFFICES ASSUME n \in Origins
                 PROVE  n = r
      BY <1>4 DEF HeadsInv, NamesInv
    <3>1. CASE name[r] = None
      BY <1>6, <1>8, <3>1
    <3>2. CASE name[r] # None
      BY <1>6, <1>7, <3>2, KeysApart DEF HeadsInv, NamesInv
    <3>3. QED
      BY <3>1, <3>2
  <2>4. ASSUME NEW q \in Origins, name'[q] # None
        PROVE  \E p \in Observers : Origin[p] = q /\ obs'[p].row # None
    <3>1. CASE name[q] # None
      BY <1>10, <3>1 DEF HeadsInv, NamesInv
    <3>2. CASE name[q] = None
      <4>1. q = r
        BY <1>4, <2>4, <3>2, KeysApart
      <4>2. q = Origin[o]
        BY <1>7, <1>8, <3>2, <4>1, KeysApart
      <4>3. QED
        BY <1>3, <1>11, <4>2
    <3>3. QED
      BY <3>1, <3>2
  <2>5. QED
    BY <2>1, <2>2, <2>3, <2>4 DEF NamesInv
<1>13. ASSUME ~rekeyed'
       PROVE  SaysInv'
  <2>1. /\ SaysInv
        /\ \A p \in Observers : Origin[p] = Origin[o] /\ key # None => obs[p].says \in {None, key}
    BY <1>2, <1>13 DEF HeadsInv
  <2>2. /\ key # None => said = key
        /\ key = None => said = obs[o].says
    BY DEF said
  <2>3. \A p \in Observers : p # o => obs'[p].says = obs[p].says /\ obs'[p].row = obs[p].row
    BY <1>3
  <2>4. \A p, q \in Observers : Origin[p] = Origin[q] /\ obs'[p].says # None /\ obs'[q].says # None =>
          obs'[p].says = obs'[q].says
    BY <1>3, <2>1, <2>2, <2>3 DEF SaysInv
\* What was said before is still said.
  <2>5. \A p \in Observers : obs[p].says # None => obs'[p].says = obs[p].says
    BY <1>3, <2>1, <2>2, <2>3
\* A row of the source is named by its key or by the source.
  <2>6. key # None => n = key
    <3> SUFFICES ASSUME key # None, name[r] # None, name[r] # key
                 PROVE  name[r] \in Origins
      BY <1>6, <1>7
    <3>1. PICK p \in Observers : Origin[p] = Origin[o] /\ obs[p].row = r
      BY <1>5
    <3>2. \/ name[r] = Origin[p]
          \/ \E q \in Observers : Origin[q] = Origin[o] /\ obs[q].says # None /\ name[r] = obs[q].says
      BY <1>11, <2>1, <3>1 DEF SaysInv
    <3>3. QED
      BY <2>1, <3>1, <3>2, ConstantsTyped
\* Rows that are renamed hold observations of this source that said nothing.
  <2>7. ASSUME NEW p \in Observers, p # o, obs[p].row = r
        PROVE  /\ n # name[r] => obs[p].says = None /\ Origin[p] = Origin[o] /\ key # None
               /\ name[r] # None
    <3>1. name[r] # None
      BY <1>11, <2>7 DEF IInv, KnownInv
    <3>2. SUFFICES ASSUME n # name[r]
                   PROVE  obs[p].says = None /\ Origin[p] = Origin[o] /\ key # None
      BY <3>1
    <3>3. name[r] \in Origins /\ key # None
      BY <1>6, <3>1, <3>2
    <3>4. PICK q \in Observers : Origin[q] = Origin[o] /\ obs[q].row = r
      BY <1>5, <1>7, <3>1, <3>3, KeysApart
    <3>5. \A u \in Observers : obs[u].row = r => obs[u].says = None /\ name[r] = Origin[u]
      BY <1>11, <2>1, <3>3, KeysApart DEF SaysInv
    <3>6. QED
      BY <2>7, <3>3, <3>4, <3>5
  <2>8. ASSUME NEW p \in Observers, obs'[p].says # None
        PROVE  obs'[p].row # None /\ name'[obs'[p].row] = obs'[p].says
    <3>1. CASE p = o
      <4>1. CASE key # None
        BY <1>3, <1>4, <1>11, <2>2, <2>6, <3>1, <4>1
      <4>2. CASE key = None
        <5>1. obs[o].says # None /\ said = obs[o].says
          BY <1>3, <2>2, <2>8, <3>1, <4>2
        <5>2. obs[o].row # None /\ name[obs[o].row] = obs[o].says
          BY <2>1, <5>1 DEF SaysInv
        <5>3. r = obs[o].row
          BY <1>5, <4>2, <5>2
        <5>4. n = name[r]
          BY <1>6, <4>2, <5>1, <5>2, <5>3
        <5>5. QED
          BY <1>3, <1>4, <1>11, <3>1, <5>1, <5>2, <5>3, <5>4
      <4>3. QED
        BY <4>1, <4>2
    <3>2. CASE p # o
      <4>1. obs[p].says # None /\ obs[p].row # None /\ name[obs[p].row] = obs[p].says
        BY <2>1, <2>3, <2>8, <3>2 DEF SaysInv
      <4>2. name'[obs[p].row] = name[obs[p].row]
        BY <1>4, <1>11, <2>7, <3>2, <4>1
      <4>3. QED
        BY <2>3, <3>2, <4>1, <4>2
    <3>3. QED
      BY <3>1, <3>2
  <2>9. ASSUME NEW p \in Observers, obs'[p].row # None
        PROVE  \/ name'[obs'[p].row] = Origin[p]
               \/ \E q \in Observers :
                    Origin[q] = Origin[p] /\ obs'[q].says # None /\ name'[obs'[p].row] = obs'[q].says
    <3>1. CASE p = o /\ key # None
      BY <1>3, <2>2, <2>8, <3>1, KeysApart
    <3>2. CASE p = o /\ key = None
      <4>1. obs'[p].row = r /\ name'[r] = n
        BY <1>3, <1>4, <3>2
      <4>2. CASE name[r] = None
        BY <1>6, <1>7, <3>2, <4>1, <4>2
      <4>3. CASE name[r] # None
        <5>1. n = name[r]
          BY <1>6, <3>2, <4>3
        <5>2. PICK u \in Observers : Origin[u] = Origin[o] /\ obs[u].row # None /\ obs[u].row = r
          BY <1>5, <3>2, <4>3
        <5>3. \/ name[r] = Origin[o]
              \/ \E q \in Observers :
                   Origin[q] = Origin[o] /\ obs[q].says # None /\ name[r] = obs[q].says
          BY <2>1, <5>2 DEF SaysInv
        <5>4. QED
          BY <2>5, <3>2, <4>1, <5>1, <5>3
      <4>4. QED
        BY <4>2, <4>3
    <3>3. CASE p # o
      <4>1. obs'[p].row = obs[p].row /\ obs[p].row # None /\ obs[p].row \in Rows
        BY <1>11, <2>3, <2>9, <3>3
      <4>2. CASE obs[p].row = r /\ n # name[r]
        <5>1. Origin[p] = Origin[o] /\ key # None
          BY <2>7, <3>3, <4>2
        <5>2. obs'[o].says = key /\ name'[r] = key
          BY <1>3, <1>4, <2>2, <2>6, <5>1
        <5>3. QED
          BY <4>1, <4>2, <5>1, <5>2
      <4>3. CASE ~(obs[p].row = r /\ n # name[r])
        <5>1. name'[obs[p].row] = name[obs[p].row]
          BY <1>4, <4>1, <4>3
        <5>2. \/ name[obs[p].row] = Origin[p]
              \/ \E q \in Observers :
                   Origin[q] = Origin[p] /\ obs[q].says # None /\ name[obs[p].row] = obs[q].says
          BY <2>1, <4>1 DEF SaysInv
        <5>3. QED
          BY <2>5, <4>1, <5>1, <5>2
      <4>4. QED
        BY <4>2, <4>3
    <3>4. QED
      BY <3>1, <3>2, <3>3
  <2>10. QED
    BY <2>4, <2>8, <2>9 DEF SaysInv
<1>14. QED
  BY <1>12, <1>13 DEF HeadsInv

\* Steps that leave names and what observations say leave both.
LEMMA QuietHeadsInv ==
  ASSUME HeadsInv, name' = name, rekeyed' = rekeyed,
         \A o \in Observers : obs'[o].row = obs[o].row /\ obs'[o].says = obs[o].says
  PROVE  HeadsInv'
<1>1. NamesInv'
  BY DEF HeadsInv, NamesInv
<1>2. ~rekeyed => SaysInv'
  BY DEF HeadsInv, SaysInv
<1>3. QED
  BY <1>1, <1>2 DEF HeadsInv

LEMMA NextHeadsInv == IInv /\ HeadsInv /\ [Next]_vars => HeadsInv'
<1> SUFFICES ASSUME IInv, HeadsInv, [Next]_vars
             PROVE  HeadsInv'
  OBVIOUS
<1>1. ASSUME NEW o \in Observers, NEW key \in Keys \cup {None}, NEW v \in Values,
             ReconcileResultObservation(o, key, v)
      PROVE  HeadsInv'
  BY <1>1, ReconcileHeadsInv
<1>2. ASSUME NEW o \in Observers, RetractResultObservation(o)
      PROVE  HeadsInv'
  <2>1. /\ obs' = [obs EXCEPT ![o] = [obs[o] EXCEPT !.active = FALSE]]
        /\ name' = name /\ rekeyed' = rekeyed
    BY <1>2 DEF RetractResultObservation
  <2>2. \A p \in Observers : obs'[p].row = obs[p].row /\ obs'[p].says = obs[p].says
    BY <2>1 DEF IInv, TypeOK
  <2>3. QED
    BY <2>1, <2>2, QuietHeadsInv
<1>3. ASSUME UNCHANGED <<obs, name, rekeyed>>
      PROVE  HeadsInv'
  BY <1>3, QuietHeadsInv
<1>4. WriteVerdict => UNCHANGED <<obs, name, rekeyed>>
  BY DEF WriteVerdict, rowVars
<1>5. QED
  BY <1>1, <1>2, <1>3, <1>4
     DEF Next, StoreSnapshot, ListRows, ReadHead, ValidateScope, AbandonRefresh, vars, rowVars

\* Active evidence reported under one natural key is gathered in one row, by
\* however many sources, as long as none of them changes the key of a result
\* (reconcile_result_observation, _find_canonical).
THEOREM SpecOneHeadUnlessRekeyed == Spec => []OneHeadUnlessRekeyed
<1>1. IInv /\ HeadsInv => OneHeadUnlessRekeyed
  <2> SUFFICES ASSUME IInv, NamesInv, SaysInv, NEW o \in Observers, NEW p \in Observers,
                      obs[o].says # None, obs[o].says = obs[p].says
               PROVE  obs[o].row = obs[p].row
    BY DEF HeadsInv, OneHeadUnlessRekeyed, OneHeadPerFact
  <2>1. /\ obs[o].row # None /\ name[obs[o].row] = obs[o].says
        /\ obs[p].row # None /\ name[obs[p].row] = obs[p].says
    BY DEF SaysInv
  <2>2. obs[o].row \in Rows /\ obs[p].row \in Rows
    BY <2>1 DEF IInv, TypeOK
  <2>3. QED
    BY <2>1, <2>2 DEF NamesInv
<1>2. QED
  BY <1>1, InitHeadsInv, NextHeadsInv, Inductive, PTL DEF Spec
===============================================================================
