------------------------ MODULE RecordTimelineProofs ------------------------
(* Theorems about RecordTimeline, for any sets of results, cells, contents *)
(* and workers and any bounds.                                             *)
EXTENDS RecordTimeline, WellFoundedInduction, TLAPS

(***************************************************************************)
(* Minima.                                                                 *)
(***************************************************************************)
LEMMA MinIsLeast ==
  ASSUME NEW S \in SUBSET Nat, S # {}
  PROVE  Min(S) \in S /\ \A y \in S : Min(S) <= y
<1> DEFINE Less == {ss \in Nat \X Nat : ss[1] < ss[2]}
<1>1. IsWellFoundedOn(Less, Nat)
  BY NatLessThanWellFounded DEF OpToRel
<1>2. \E x \in S : \A y \in S : ~ (<<y, x>> \in Less)
  <2> HIDE DEF Less
  <2> QED
    BY <1>1, WFMin
<1>3. ASSUME NEW x \in Nat, NEW y \in Nat, ~ (<<y, x>> \in Less)
      PROVE  x <= y
  <2>1. <<y, x>> \in Nat \X Nat /\ <<y, x>>[1] = y /\ <<y, x>>[2] = x
    OBVIOUS
  <2>2. ~ (y < x)
    BY <1>3, <2>1
  <2> QED
    BY <2>2
<1>4. \E x \in S : \A y \in S : x <= y
  BY <1>2, <1>3
<1> QED
  BY <1>4 DEF Min

(***************************************************************************)
(* Revisions that exist, their contents and the best of them.              *)
(***************************************************************************)

\* Revision k was added.
Exists(k) == k \in Revisions /\ k[2] <= Len(data[k[1]])

LEMMA RevisionParts ==
  /\ \A k \in Revisions : k[1] \in Results /\ k[2] \in 1 .. MaxRevision /\ k = <<k[1], k[2]>>
  /\ \A r \in Results, n \in 1 .. MaxRevision :
       <<r, n>> \in Revisions /\ <<r, n>>[1] = r /\ <<r, n>>[2] = n
  BY DEF Revisions

LEMMA ContentTyped ==
  ASSUME TypeOK, NEW k, Exists(k)
  PROVE  /\ Content(k) \in Contents
         /\ Content(k).value \in Nat
         /\ Content(k).at \in Nat
         /\ Content(k).fit \in BOOLEAN
         /\ CellsOf(k) \subseteq Cells
<1>1. k[1] \in Results /\ k[2] \in 1 .. Len(data[k[1]]) /\ data[k[1]] \in Seq(Contents)
  BY RevisionParts DEF Exists, TypeOK
<1>2. Content(k) \in Contents
  BY <1>1 DEF Content
<1> QED
  BY <1>2, ContentsAssumption DEF ContentsAssumption, CellsOf

LEMMA BaselineTyped == ASSUME NEW c \in Cells PROVE Baseline[c] \in Nat
  BY CellsAssumption DEF CellsAssumption

LEMMA BestIsLeast ==
  ASSUME TypeOK, NEW c \in Cells, NEW ks, \A k \in ks : Exists(k)
  PROVE  /\ Best(c, ks) \in Nat
         /\ Best(c, ks) <= Baseline[c]
         /\ \A k \in ks : Best(c, ks) <= Content(k).value
         /\ Best(c, ks) = Baseline[c] \/ \E k \in ks : Content(k).value = Best(c, ks)
<1> DEFINE S == {Baseline[c]} \cup {Content(k).value : k \in ks}
<1>1. S \in SUBSET Nat /\ S # {}
  BY ContentTyped, BaselineTyped
<1>2. Min(S) \in S /\ \A y \in S : Min(S) <= y
  <2> HIDE DEF S
  <2> QED
    BY <1>1, MinIsLeast
<1> QED
  BY <1>1, <1>2 DEF Best

LEMMA CompareTyped == \A value, incumbent : Compare(value, incumbent) \in Outcomes
  BY DEF Compare, Outcomes

LEMMA CompareCredits ==
  ASSUME NEW value \in Nat, NEW incumbent \in Nat, value <= incumbent
  PROVE  Compare(value, incumbent) # "none"
  BY DEF Compare

(***************************************************************************)
(* The inductive invariant: where workers stand.                           *)
(***************************************************************************)
JobInv ==
  \A w \in Workers : phase[w] # "idle" =>
    /\ Exists(job[w])
    /\ seenHead[w] <= Len(data[job[w][1]])
    /\ phase[w] # "loaded" => job[w] \in processed

\* Only superseded and absorbed revisions are classified as historical; only
\* first revisions incrementally.
WayInv ==
  \A w \in Workers :
    /\ phase[w] = "historical" => ~IsHead(job[w]) \/ job[w][1] \in Absorbed
    /\ phase[w] \in {"incremental", "repair"} => job[w][1] \notin Absorbed
    /\ phase[w] = "incremental" => job[w][2] = 1

HolderInv ==
  \A r \in Results : \A w \in Workers :
    holder[r] = w => phase[w] # "idle" /\ job[w] = <<r, settled[r] + 1>>

RowInv ==
  /\ \A k \in processed : Exists(k)
  /\ \A k \in Revisions : k[2] <= settled[k[1]] => k \in processed

Placed == JobInv /\ WayInv /\ HolderInv /\ RowInv

LEMMA InitPlaced == Init => TypeOK /\ Placed
<1> SUFFICES ASSUME Init
             PROVE  TypeOK /\ Placed
  OBVIOUS
<1>1. TypeOK
  <2>1. data \in [Results -> Seq(Contents)] /\ \A r \in Results : Len(data[r]) <= MaxRevision
    BY TimelineBoundsAssumption DEF TimelineBoundsAssumption, Init
  <2>2. outcome \in [Revisions -> [Cells -> Outcomes]] /\ live \in [Cells -> Nat]
    BY CellsAssumption DEF CellsAssumption, Init, Outcomes
  <2>3. settled \in [Results -> 0 .. MaxRevision] /\ seenHead \in [Workers -> 0 .. MaxRevision]
    BY TimelineBoundsAssumption DEF TimelineBoundsAssumption, Init
  <2>4. mishaps \in 0 .. MaxMishaps
    BY TimelineBoundsAssumption DEF TimelineBoundsAssumption, Init
  <2>7. disturbed \in BOOLEAN
    BY DEF Init
  <2>5. holder \in [Results -> Workers \cup {None}] /\ phase \in [Workers -> Phases]
    BY DEF Init, Phases
  <2>6. job \in [Workers -> Revisions \cup {<<>>}] /\ processed \subseteq Revisions
    BY DEF Init
  <2> QED
    BY <2>1, <2>2, <2>3, <2>4, <2>5, <2>6, <2>7 DEF TypeOK
<1>2. JobInv /\ WayInv
  BY DEF Init, JobInv, WayInv
<1>3. HolderInv
  BY TimelineNoneAssumption DEF TimelineNoneAssumption, Init, HolderInv
<1>4. RowInv
  BY RevisionParts DEF Init, RowInv
<1> QED
  BY <1>1, <1>2, <1>3, <1>4 DEF Placed

\* Appending a revision keeps the earlier ones.
LEMMA AddedRevision ==
  ASSUME TypeOK, NEW r \in Results, AddRevision(r)
  PROVE  /\ data' \in [Results -> Seq(Contents)]
         /\ \A q \in Results : Len(data'[q]) = IF q = r THEN Len(data[r]) + 1 ELSE Len(data[q])
         /\ \A k : Exists(k) => Exists(k)' /\ Content(k)' = Content(k) /\ CellsOf(k)' = CellsOf(k)
<1>1. PICK content \in Contents : data' = [data EXCEPT ![r] = Append(@, content)]
  BY DEF AddRevision
<1>2. data \in [Results -> Seq(Contents)]
  BY DEF TypeOK
<1>3. /\ Append(data[r], content) \in Seq(Contents)
      /\ Len(Append(data[r], content)) = Len(data[r]) + 1
      /\ \A i \in 1 .. Len(data[r]) : Append(data[r], content)[i] = data[r][i]
  BY <1>2
<1>4. /\ data' \in [Results -> Seq(Contents)]
      /\ data'[r] = Append(data[r], content)
      /\ \A q \in Results : q # r => data'[q] = data[q]
  BY <1>1, <1>2, <1>3
<1>5. \A q \in Results : Len(data'[q]) = IF q = r THEN Len(data[r]) + 1 ELSE Len(data[q])
  BY <1>3, <1>4
<1>6. ASSUME NEW k, Exists(k)
      PROVE  Exists(k)' /\ Content(k)' = Content(k) /\ CellsOf(k)' = CellsOf(k)
  <2>1. k[1] \in Results /\ k[2] \in 1 .. Len(data[k[1]]) /\ k \in Revisions
    BY <1>2, <1>6, RevisionParts DEF Exists
  <2>2. k[2] <= Len(data'[k[1]])
    BY <1>2, <1>5, <2>1
  <2>3. data'[k[1]][k[2]] = data[k[1]][k[2]]
    BY <1>3, <1>4, <2>1
  <2> QED
    BY <2>1, <2>2, <2>3 DEF Exists, Content, CellsOf
<1> QED
  BY <1>4, <1>5, <1>6

\* The revision a worker is busy with.
LEMMA JobParts ==
  ASSUME TypeOK, Placed, NEW w \in Workers, phase[w] # "idle"
  PROVE  /\ job[w] \in Revisions /\ Exists(job[w])
         /\ job[w][1] \in Results
         /\ job[w][2] \in 1 .. MaxRevision
  BY RevisionParts DEF Placed, JobInv, Exists

\* The three ways.
LEMMA Ways ==
  ASSUME NEW w \in Workers, ChooseWay(w)
  PROVE  \E way \in {"historical", "repair", "incremental"} : phase' = [phase EXCEPT ![w] = way]
<1> DEFINE k == job[w]
           way == CASE seenHead[w] > k[2] \/ k[1] \in Absorbed -> "historical"
                    [] seenHead[w] <= k[2] /\ k[1] \notin Absorbed
                       /\ (k[2] > 1 \/ OutOfOrder(k))          -> "repair"
                    [] OTHER                                   -> "incremental"
<1>1. way \in {"historical", "repair", "incremental"} /\ phase' = [phase EXCEPT ![w] = way]
  BY DEF ChooseWay
<1> HIDE DEF way
<1> QED
  BY <1>1

LEMMA CurrentExists ==
  ASSUME TypeOK, Placed
  PROVE  \A c : CurrentTimeline(c) \subseteq processed /\ \A k \in CurrentTimeline(c) : Exists(k)
  BY DEF CurrentTimeline, Placed, RowInv

LEMMA TypeStep ==
  ASSUME TypeOK, Placed, [Next]_vars
  PROVE  TypeOK'
<1> USE TimelineBoundsAssumption DEF TimelineBoundsAssumption
<1>1. CASE UNCHANGED vars
  BY <1>1 DEF vars, workerVars, queueVars, TypeOK
<1>2. ASSUME NEW r \in Results, AddRevision(r)
      PROVE  TypeOK'
  <2>1. /\ data' \in [Results -> Seq(Contents)]
        /\ \A q \in Results : Len(data'[q]) = IF q = r THEN Len(data[r]) + 1 ELSE Len(data[q])
    BY <1>2, AddedRevision
  <2>2. Len(data[r]) < MaxRevision /\ Len(data[r]) \in Nat
    BY <1>2 DEF AddRevision, TypeOK
  <2>3. \A q \in Results : Len(data'[q]) <= MaxRevision
    BY <2>1, <2>2 DEF TypeOK
  <2> QED
    BY <1>2, <2>1, <2>3 DEF AddRevision, workerVars, queueVars, TypeOK
<1>3. ASSUME NEW w \in Workers, Claim(w)
      PROVE  TypeOK'
  <2>1. PICK r \in Results :
          /\ settled[r] < Len(data[r])
          /\ \/ holder[r] = None /\ UNCHANGED mishaps
             \/ holder[r] # None /\ mishaps < MaxMishaps /\ mishaps' = mishaps + 1
          /\ holder' = [holder EXCEPT ![r] = w]
          /\ job' = [job EXCEPT ![w] = <<r, settled[r] + 1>>]
          /\ seenHead' = [seenHead EXCEPT ![w] = Len(data[r])]
    BY <1>3 DEF Claim
  <2>2. /\ settled[r] \in 0 .. MaxRevision /\ Len(data[r]) \in Nat
        /\ settled[r] < Len(data[r]) /\ Len(data[r]) <= MaxRevision
    BY <2>1 DEF TypeOK
  <2>3. settled[r] + 1 \in 1 .. MaxRevision /\ Len(data[r]) \in 0 .. MaxRevision
    BY <2>2
  <2>4. mishaps' \in 0 .. MaxMishaps
    BY <2>1 DEF TypeOK
  <2>5. <<r, settled[r] + 1>> \in Revisions
    BY <2>3, RevisionParts
  <2>6. job' \in [Workers -> Revisions \cup {<<>>}] /\ holder' \in [Results -> Workers \cup {None}]
    BY <2>1, <2>5 DEF TypeOK
  <2>7. seenHead' \in [Workers -> 0 .. MaxRevision] /\ phase' \in [Workers -> Phases]
    BY <1>3, <2>1, <2>3 DEF Claim, TypeOK, Phases
  <2>8. disturbed' \in BOOLEAN
    BY <1>3 DEF Claim, TypeOK
  <2> QED
    BY <1>3, <2>4, <2>6, <2>7, <2>8 DEF Claim, TypeOK
<1>4. ASSUME NEW w \in Workers, Materialize(w)
      PROVE  TypeOK'
  <2>1. processed' \subseteq Revisions /\ phase' \in [Workers -> Phases]
    BY <1>4, JobParts DEF Materialize, TypeOK, Phases
  <2> QED
    BY <1>4, <2>1 DEF Materialize, queueVars, TypeOK
<1>5. ASSUME NEW w \in Workers, ChooseWay(w)
      PROVE  TypeOK'
  <2>1. phase' \in [Workers -> Phases]
    BY <1>5 DEF ChooseWay, TypeOK, Phases
  <2> QED
    BY <1>5, <2>1 DEF ChooseWay, queueVars, TypeOK
<1>6. ASSUME NEW w \in Workers, RollBack(w)
      PROVE  TypeOK'
  <2>1. phase' \in [Workers -> Phases]
    BY <1>6 DEF RollBack, TypeOK, Phases
  <2> QED
    BY <1>6, <2>1 DEF RollBack, queueVars, TypeOK
<1>7. ASSUME NEW w \in Workers, ClassifyIncremental(w)
      PROVE  TypeOK'
  <2> DEFINE k == job[w]
             mine == IF Content(k).fit THEN CellsOf(k) ELSE {}
  <2>1. k \in Revisions /\ Content(k).value \in Nat
    BY <1>7, JobParts, ContentTyped DEF ClassifyIncremental
  <2>2. live' \in [Cells -> Nat]
    BY <1>7, <2>1 DEF ClassifyIncremental, TypeOK
  <2>3. outcome' \in [Revisions -> [Cells -> Outcomes]]
    BY <1>7, <2>1, CompareTyped DEF ClassifyIncremental, TypeOK
  <2>4. phase' \in [Workers -> Phases]
    BY <1>7 DEF ClassifyIncremental, TypeOK, Phases
  <2> QED
    BY <1>7, <2>2, <2>3, <2>4 DEF ClassifyIncremental, queueVars, TypeOK
<1>8. ASSUME NEW w \in Workers, RepairTimelines(w)
      PROVE  TypeOK'
  <2>1. \A c \in Cells : Best(c, CurrentTimeline(c)) \in Nat
    BY CurrentExists, BestIsLeast
  <2>2. live' \in [Cells -> Nat]
    BY <1>8, <2>1 DEF RepairTimelines, TypeOK
  <2>3. outcome' \in [Revisions -> [Cells -> Outcomes]]
    BY <1>8, CompareTyped DEF RepairTimelines, Replayed, TypeOK
  <2>4. phase' \in [Workers -> Phases]
    BY <1>8 DEF RepairTimelines, TypeOK, Phases
  <2> QED
    BY <1>8, <2>2, <2>3, <2>4 DEF RepairTimelines, queueVars, TypeOK
<1>9. ASSUME NEW w \in Workers, ClassifyStaleHistorical(w)
      PROVE  TypeOK'
  <2>1. outcome' \in [Revisions -> [Cells -> Outcomes]]
    BY <1>9, CompareTyped, JobParts DEF ClassifyStaleHistorical, TypeOK, Outcomes
  <2>2. phase' \in [Workers -> Phases]
    BY <1>9 DEF ClassifyStaleHistorical, TypeOK, Phases
  <2> QED
    BY <1>9, <2>1, <2>2 DEF ClassifyStaleHistorical, queueVars, TypeOK
<1>10. ASSUME NEW w \in Workers, Return(w)
       PROVE  /\ phase' \in [Workers -> Phases]
              /\ job' \in [Workers -> Revisions \cup {<<>>}]
              /\ seenHead' \in [Workers -> 0 .. MaxRevision]
  BY <1>10 DEF Return, TypeOK, Phases
<1>11. ASSUME NEW w \in Workers, Settle(w)
       PROVE  TypeOK'
  <2>1. job[w][1] \in Results /\ job[w][2] \in 1 .. MaxRevision
    BY <1>11, JobParts DEF Settle
  <2>2. holder[job[w][1]] = w => settled[job[w][1]] + 1 = job[w][2]
    BY <2>1 DEF Placed, HolderInv
  <2>3. CASE holder[job[w][1]] = w
    <3>1. settled' \in [Results -> 0 .. MaxRevision]
      <4>1. settled[job[w][1]] + 1 \in 0 .. MaxRevision
        BY <2>1, <2>2, <2>3
      <4>2. settled' = [settled EXCEPT ![job[w][1]] = settled[job[w][1]] + 1]
        BY <1>11, <2>3 DEF Settle
      <4> QED
        BY <4>1, <4>2 DEF TypeOK
    <3>2. holder' \in [Results -> Workers \cup {None}]
      BY <1>11, <2>3 DEF Settle, TypeOK
    <3> QED
      BY <1>10, <1>11, <3>1, <3>2 DEF Settle, TypeOK
  <2>4. CASE holder[job[w][1]] # w
    BY <1>10, <1>11, <2>4 DEF Settle, TypeOK
  <2> QED
    BY <2>3, <2>4
<1>12. ASSUME NEW w \in Workers, Fail(w)
       PROVE  TypeOK'
  <2>1. holder' \in [Results -> Workers \cup {None}]
    BY <1>12 DEF Fail, TypeOK
  <2>3. mishaps' \in 0 .. MaxMishaps
    BY <1>12 DEF Fail, TypeOK
  <2>2. disturbed' \in BOOLEAN
    BY <1>12 DEF Fail
  <2> QED
    BY <1>10, <1>12, <2>1, <2>2, <2>3 DEF Fail, TypeOK
<1> QED
  BY <1>1, <1>2, <1>3, <1>4, <1>5, <1>6, <1>7, <1>8, <1>9, <1>11, <1>12 DEF Next

\* An action of w that changes neither data, rows nor claims, but moves w to
\* another phase of the same job.
LEMMA PlacedMoves ==
  ASSUME TypeOK, Placed, NEW w \in Workers, NEW ph \in Phases \ {"idle", "loaded"},
         phase[w] # "idle", job[w] \in processed',
         phase' = [phase EXCEPT ![w] = ph],
         processed \subseteq processed', \A k \in processed' : Exists(k),
         UNCHANGED <<data, job, seenHead, settled, holder>>,
         ph = "historical" => ~IsHead(job[w]) \/ job[w][1] \in Absorbed,
         ph \in {"incremental", "repair"} => job[w][1] \notin Absorbed,
         ph = "incremental" => job[w][2] = 1
  PROVE  Placed'
<1>1. \A v \in Workers : phase'[v] = IF v = w THEN ph ELSE phase[v]
  BY DEF TypeOK
<1>2. JobInv'
  BY <1>1 DEF Placed, JobInv, Exists
<1>3. WayInv'
  BY <1>1 DEF Placed, WayInv, IsHead
<1>4. HolderInv'
  BY <1>1 DEF Placed, HolderInv
<1>5. RowInv'
  BY DEF Placed, RowInv, Exists
<1> QED
  BY <1>2, <1>3, <1>4, <1>5 DEF Placed

LEMMA PlacedStep ==
  ASSUME TypeOK, Placed, [Next]_vars
  PROVE  Placed'
<1> USE DEF Placed
<1>1. CASE UNCHANGED vars
  BY <1>1 DEF vars, workerVars, queueVars, JobInv, WayInv, HolderInv, RowInv, Exists, IsHead
<1>2. ASSUME NEW r \in Results, AddRevision(r)
      PROVE  Placed'
  <2>1. /\ \A q \in Results : Len(data'[q]) = IF q = r THEN Len(data[r]) + 1 ELSE Len(data[q])
        /\ \A k : Exists(k) => Exists(k)'
    BY <1>2, AddedRevision
  <2>2. \A q \in Results : Len(data[q]) \in Nat
    BY DEF TypeOK
  <2>3. UNCHANGED <<processed, workerVars, queueVars>>
    BY <1>2 DEF AddRevision
  <2>4. JobInv'
    <3>1. ASSUME NEW w \in Workers, phase[w] # "idle"
          PROVE  /\ Exists(job[w])'
                 /\ seenHead[w] <= Len(data'[job[w][1]])
                 /\ phase[w] # "loaded" => job[w] \in processed
      <4>1. seenHead[w] \in Nat /\ seenHead[w] <= Len(data[job[w][1]])
        BY <3>1, TimelineBoundsAssumption DEF TimelineBoundsAssumption, TypeOK, JobInv
      <4>2. job[w][1] \in Results
        BY <3>1, JobParts
      <4>3. Exists(job[w]) /\ (phase[w] # "loaded" => job[w] \in processed)
        BY <3>1 DEF JobInv
      <4>4. Exists(job[w])'
        BY <2>1, <2>3, <4>3 DEF workerVars, Exists
      <4> QED
        BY <2>1, <2>2, <4>1, <4>2, <4>3, <4>4
    <3> QED
      BY <2>3, <3>1 DEF workerVars, JobInv
  <2>5. WayInv'
    <3>1. ASSUME NEW w \in Workers, phase[w] # "idle", ~IsHead(job[w])
          PROVE  ~IsHead(job[w])'
      <4>1. /\ job[w][1] \in Results /\ job[w][2] \in Nat
            /\ job[w][2] <= Len(data[job[w][1]]) /\ job[w][2] # Len(data[job[w][1]])
        BY <3>1, JobParts DEF IsHead, Exists
      <4> QED
        BY <2>1, <2>2, <2>3, <4>1 DEF workerVars, IsHead
    <3> QED
      BY <2>3, <3>1 DEF workerVars, WayInv
  <2>6. HolderInv'
    BY <2>3 DEF workerVars, queueVars, HolderInv
  <2>7. RowInv'
    BY <2>1, <2>3 DEF workerVars, queueVars, RowInv, Exists
  <2> QED
    BY <2>4, <2>5, <2>6, <2>7
<1>3. ASSUME NEW w \in Workers, Claim(w)
      PROVE  Placed'
  <2>1. PICK r \in Results :
          /\ settled[r] < Len(data[r])
          /\ holder' = [holder EXCEPT ![r] = w]
          /\ job' = [job EXCEPT ![w] = <<r, settled[r] + 1>>]
          /\ seenHead' = [seenHead EXCEPT ![w] = Len(data[r])]
    BY <1>3 DEF Claim
  <2>2. /\ settled[r] \in Nat /\ Len(data[r]) \in Nat
        /\ settled[r] + 1 <= Len(data[r]) /\ Len(data[r]) <= MaxRevision
    BY <2>1, TimelineBoundsAssumption DEF TimelineBoundsAssumption, TypeOK
  <2>3. settled[r] + 1 \in 1 .. MaxRevision
    BY <2>2, TimelineBoundsAssumption DEF TimelineBoundsAssumption
  <2>4. /\ \A v \in Workers : phase'[v] = IF v = w THEN "loaded" ELSE phase[v]
        /\ \A v \in Workers : job'[v] = IF v = w THEN <<r, settled[r] + 1>> ELSE job[v]
        /\ \A v \in Workers : seenHead'[v] = IF v = w THEN Len(data[r]) ELSE seenHead[v]
        /\ \A q \in Results : holder'[q] = IF q = r THEN w ELSE holder[q]
        /\ UNCHANGED <<data, processed, settled>>
        /\ phase[w] = "idle"
    BY <1>3, <2>1 DEF Claim, TypeOK
  <2>5. <<r, settled[r] + 1>> \in Revisions /\ <<r, settled[r] + 1>>[1] = r
        /\ <<r, settled[r] + 1>>[2] = settled[r] + 1
    BY <2>3, RevisionParts
  <2>6. JobInv'
    BY <2>2, <2>4, <2>5 DEF JobInv, Exists
  <2>7. WayInv'
    BY <2>4 DEF WayInv, IsHead
  <2>8. HolderInv'
    BY <2>4 DEF HolderInv
  <2>9. RowInv'
    BY <2>4 DEF RowInv, Exists
  <2> QED
    BY <2>6, <2>7, <2>8, <2>9
<1>4. ASSUME NEW w \in Workers, Materialize(w)
      PROVE  Placed'
  <2>1. Exists(job[w])
    BY <1>4, JobParts DEF Materialize
  <2> QED
    BY <1>4, <2>1, PlacedMoves DEF Materialize, queueVars, Phases, RowInv
<1>5. ASSUME NEW w \in Workers, ChooseWay(w)
      PROVE  Placed'
  <2> DEFINE k == job[w]
             way == CASE seenHead[w] > k[2] \/ k[1] \in Absorbed -> "historical"
                      [] seenHead[w] <= k[2] /\ k[1] \notin Absorbed
                         /\ (k[2] > 1 \/ OutOfOrder(k))          -> "repair"
                      [] OTHER                                   -> "incremental"
  <2>1. /\ k \in processed /\ k[2] \in 1 .. MaxRevision
        /\ seenHead[w] \in 0 .. MaxRevision
        /\ seenHead[w] <= Len(data[k[1]]) /\ Len(data[k[1]]) \in Nat
    BY <1>5, JobParts DEF ChooseWay, JobInv, TypeOK
  <2>2. way \in Phases \ {"idle", "loaded"}
    BY DEF Phases
  <2>3. way = "historical" => ~IsHead(k) \/ k[1] \in Absorbed
    BY <2>1 DEF IsHead
  <2>4. way \in {"incremental", "repair"} => k[1] \notin Absorbed
    OBVIOUS
  <2>5. way = "incremental" => k[2] = 1
    BY <2>1
  <2>6. phase' = [phase EXCEPT ![w] = way]
    BY <1>5 DEF ChooseWay
  <2> HIDE DEF way
  <2> QED
    BY <1>5, <2>1, <2>2, <2>3, <2>4, <2>5, <2>6, PlacedMoves DEF ChooseWay, queueVars, RowInv
<1>6. ASSUME NEW w \in Workers, RollBack(w)
      PROVE  Placed'
  BY <1>6, PlacedMoves DEF RollBack, queueVars, Phases, RowInv, JobInv
<1>7. ASSUME NEW w \in Workers, ClassifyIncremental(w)
      PROVE  Placed'
  BY <1>7, PlacedMoves DEF ClassifyIncremental, queueVars, Phases, RowInv, JobInv
<1>8. ASSUME NEW w \in Workers, RepairTimelines(w)
      PROVE  Placed'
  BY <1>8, PlacedMoves DEF RepairTimelines, queueVars, Phases, RowInv, JobInv
<1>9. ASSUME NEW w \in Workers, ClassifyStaleHistorical(w)
      PROVE  Placed'
  BY <1>9, PlacedMoves DEF ClassifyStaleHistorical, queueVars, Phases, RowInv, JobInv
<1>10. ASSUME NEW w \in Workers, Return(w)
       PROVE  /\ \A v \in Workers : phase'[v] = IF v = w THEN "idle" ELSE phase[v]
              /\ \A v \in Workers : v # w => job'[v] = job[v] /\ seenHead'[v] = seenHead[v]
  BY <1>10 DEF Return, TypeOK
<1>11. ASSUME NEW w \in Workers, Return(w), UNCHANGED <<data, processed>>
       PROVE  JobInv' /\ WayInv'
  BY <1>10, <1>11 DEF JobInv, WayInv, Exists, IsHead
<1>12. ASSUME NEW w \in Workers, Settle(w)
       PROVE  Placed'
  <2> DEFINE r == job[w][1]
  <2>1. /\ Return(w) /\ UNCHANGED <<data, processed>> /\ phase[w] = "settling"
        /\ IF holder[r] = w
             THEN /\ settled' = [settled EXCEPT ![r] = @ + 1]
                  /\ holder' = [holder EXCEPT ![r] = None]
             ELSE UNCHANGED <<settled, holder>>
    BY <1>12 DEF Settle
  <2>2. /\ JobInv' /\ WayInv'
        /\ \A v \in Workers : phase'[v] = IF v = w THEN "idle" ELSE phase[v]
        /\ \A v \in Workers : v # w => job'[v] = job[v]
    BY <1>10, <1>11, <2>1
  <2>3. r \in Results /\ job[w] \in processed
    BY <2>1, JobParts DEF JobInv
  <2>4. CASE holder[r] = w
    <3>1. job[w] = <<r, settled[r] + 1>>
      BY <2>3, <2>4 DEF HolderInv
    <3>2. /\ \A q \in Results : holder'[q] = IF q = r THEN None ELSE holder[q]
          /\ \A q \in Results : settled'[q] = IF q = r THEN settled[q] + 1 ELSE settled[q]
          /\ \A q \in Results : settled[q] \in Nat
      BY <2>1, <2>4, TimelineBoundsAssumption DEF TimelineBoundsAssumption, TypeOK
    <3>3. ASSUME NEW q \in Results, NEW v \in Workers, holder'[q] = v
          PROVE  phase'[v] # "idle" /\ job'[v] = <<q, settled'[q] + 1>>
      <4>1. q # r /\ holder[q] = v
        BY <3>2, <3>3, TimelineNoneAssumption DEF TimelineNoneAssumption
      <4>2. phase[v] # "idle" /\ job[v] = <<q, settled[q] + 1>>
        BY <4>1 DEF HolderInv
      <4>3. v # w
        BY <3>1, <4>1, <4>2
      <4> QED
        BY <2>2, <3>2, <4>1, <4>2, <4>3
    <3>4. HolderInv'
      BY <3>3 DEF HolderInv
    <3>5. ASSUME NEW k \in Revisions, k[2] <= settled'[k[1]]
          PROVE  k \in processed
      <4>1. k[1] \in Results /\ k[2] \in Nat /\ k = <<k[1], k[2]>>
        BY RevisionParts
      <4>2. CASE k[2] <= settled[k[1]]
        BY <4>2 DEF RowInv
      <4>3. CASE ~ (k[2] <= settled[k[1]])
        <5>1. k[1] = r /\ k[2] = settled[r] + 1
          BY <3>2, <3>5, <4>1, <4>3
        <5> QED
          BY <2>3, <3>1, <4>1, <5>1
      <4> QED
        BY <4>2, <4>3
    <3>6. RowInv'
      BY <2>1, <3>5 DEF RowInv, Exists
    <3> QED
      BY <2>2, <3>4, <3>6
  <2>5. CASE holder[r] # w
    <3>1. ASSUME NEW q \in Results, holder[q] = w
          PROVE  FALSE
      <4>1. job[w] = <<q, settled[q] + 1>>
        BY <3>1 DEF HolderInv
      <4> QED
        BY <2>5, <3>1, <4>1
    <3>2. HolderInv'
      BY <2>1, <2>2, <2>5, <3>1 DEF HolderInv
    <3>3. RowInv'
      BY <2>1, <2>5 DEF RowInv, Exists
    <3> QED
      BY <2>2, <3>2, <3>3
  <2> QED
    BY <2>4, <2>5
<1>13. ASSUME NEW w \in Workers, Fail(w)
       PROVE  Placed'
  <2>1. /\ Return(w) /\ UNCHANGED <<data, processed, settled>> /\ phase[w] # "idle"
        /\ holder' = [holder EXCEPT ![job[w][1]] = IF @ = w THEN None ELSE @]
    BY <1>13 DEF Fail
  <2>2. /\ JobInv' /\ WayInv'
        /\ \A v \in Workers : phase'[v] = IF v = w THEN "idle" ELSE phase[v]
        /\ \A v \in Workers : v # w => job'[v] = job[v]
    BY <1>10, <1>11, <2>1
  <2>3. \A q \in Results : holder'[q] = IF q = job[w][1] /\ holder[q] = w THEN None ELSE holder[q]
    BY <2>1 DEF TypeOK
  <2>4. ASSUME NEW q \in Results, NEW v \in Workers, holder'[q] = v
        PROVE  phase'[v] # "idle" /\ job'[v] = <<q, settled'[q] + 1>>
    <3>1. holder[q] = v /\ ~ (q = job[w][1] /\ v = w)
      BY <2>3, <2>4, TimelineNoneAssumption DEF TimelineNoneAssumption
    <3>2. phase[v] # "idle" /\ job[v] = <<q, settled[q] + 1>>
      BY <3>1 DEF HolderInv
    <3>3. v # w
      BY <3>1, <3>2
    <3> QED
      BY <2>1, <2>2, <3>2, <3>3
  <2>5. HolderInv'
    BY <2>4 DEF HolderInv
  <2>6. RowInv'
    BY <2>1 DEF RowInv, Exists
  <2> QED
    BY <2>2, <2>5, <2>6
<1> QED
  BY <1>1, <1>2, <1>3, <1>4, <1>5, <1>6, <1>7, <1>8, <1>9, <1>12, <1>13 DEF Next

(***************************************************************************)
(* The inductive invariant: what the live cells account for.               *)
(***************************************************************************)

\* The live cells were computed with revision k as the head of its result.
Counted(k) ==
  /\ k \in Revisions
  /\ IsHead(k)
  /\ k[1] \notin Absorbed
  /\ \/ k[2] <= settled[k[1]]
     \/ \E w \in Workers : phase[w] = "settling" /\ job[w] = k

\* Revision k accounts for the live record of c.  If it is not the head any
\* more, the head is still to be counted or does not touch the cell.
Attains(k, c) ==
  /\ k \in processed
  /\ Content(k).fit
  /\ c \in CellsOf(k)
  /\ k[1] \notin Absorbed
  /\ Content(k).value = live[c]
  /\ IsHead(k) => outcome[k][c] # "none"
  /\ \A h \in Revisions :
       h[1] = k[1] /\ Counted(h) /\ ~IsHead(k) => c \notin AffectedCells(h)

LiveCounts ==
  \A c \in Cells :
    /\ live[c] <= Baseline[c]
    /\ \A k \in Revisions : Counted(k) /\ Content(k).fit /\ c \in CellsOf(k)
                              => live[c] <= Content(k).value

LiveAttained ==
  \A c \in Cells : live[c] = Baseline[c] \/ \E k \in Revisions : Attains(k, c)

IInv == TypeOK /\ Placed /\ LiveCounts /\ LiveAttained

\* A counted revision has its projection.
LEMMA CountedProcessed ==
  ASSUME Placed, NEW k, Counted(k)
  PROVE  k \in processed /\ Exists(k)
  BY DEF Placed, RowInv, JobInv, Counted

\* Steps that leave data, live cells and the outcomes of heads alone, and
\* count no other revision.
LEMMA LiveFrame ==
  ASSUME TypeOK, Placed, LiveCounts, LiveAttained,
         UNCHANGED <<data, live>>, processed \subseteq processed',
         \A k \in Revisions : Counted(k)' => Counted(k),
         \A k \in processed : IsHead(k) /\ k[1] \notin Absorbed => outcome'[k] = outcome[k]
  PROVE  LiveCounts' /\ LiveAttained'
<1>1. LiveCounts'
  BY DEF LiveCounts, Content, CellsOf
<1>2. ASSUME NEW c \in Cells, NEW k \in Revisions, Attains(k, c)
      PROVE  Attains(k, c)'
  BY <1>2 DEF Attains, Content, CellsOf, IsHead, AffectedCells
<1>3. LiveAttained'
  BY <1>2 DEF LiveAttained
<1> QED
  BY <1>1, <1>3

\* A new revision is not counted, the head it replaces no longer is.
LEMMA CountedAdd ==
  ASSUME TypeOK, Placed, NEW r \in Results, AddRevision(r), NEW k \in Revisions, Counted(k)'
  PROVE  Counted(k)
<1>1. \A q \in Results : Len(data'[q]) = IF q = r THEN Len(data[r]) + 1 ELSE Len(data[q])
  BY AddedRevision
<1>2. (\A q \in Results : Len(data[q]) \in Nat) /\ UNCHANGED <<settled, phase, job>>
  BY DEF TypeOK, AddRevision, workerVars, queueVars
<1>3. k[1] \in Results /\ k[2] \in Nat /\ k[2] = Len(data'[k[1]])
  BY RevisionParts DEF Counted, IsHead
<1>4. k[2] <= settled[k[1]] \/ \E w \in Workers : phase[w] = "settling" /\ job[w] = k
  BY <1>2 DEF Counted
<1>5. Exists(k)
  BY <1>4 DEF Placed, RowInv, JobInv
<1>6. k[2] = Len(data[k[1]])
  BY <1>1, <1>2, <1>3, <1>5 DEF Exists
<1> QED
  BY <1>4, <1>6 DEF Counted, IsHead

LEMMA LiveAdd ==
  ASSUME TypeOK, Placed, LiveCounts, LiveAttained, NEW r \in Results, AddRevision(r)
  PROVE  LiveCounts' /\ LiveAttained'
<1>1. /\ \A q \in Results : Len(data'[q]) = IF q = r THEN Len(data[r]) + 1 ELSE Len(data[q])
      /\ \A k : Exists(k) => Exists(k)' /\ Content(k)' = Content(k) /\ CellsOf(k)' = CellsOf(k)
      /\ \A q \in Results : Len(data[q]) \in Nat
  BY AddedRevision DEF TypeOK
<1>2. UNCHANGED <<processed, outcome, live>>
  BY DEF AddRevision
<1>3. \A k \in Revisions : Counted(k)' => Counted(k)
  BY CountedAdd
<1>4. LiveCounts'
  <2>1. ASSUME NEW c \in Cells, NEW k \in Revisions,
               Counted(k)', Content(k)'.fit, c \in CellsOf(k)'
        PROVE  live[c] <= Content(k)'.value
    <3>1. Counted(k) /\ Exists(k)
      BY <1>3, <2>1, CountedProcessed
    <3> QED
      BY <1>1, <2>1, <3>1 DEF LiveCounts
  <2> QED
    BY <1>2, <2>1 DEF LiveCounts
<1>5. ASSUME NEW c \in Cells, NEW k \in Revisions, Attains(k, c)
      PROVE  Attains(k, c)'
  <2>1. Exists(k) /\ k[1] \in Results /\ k[2] \in Nat
    BY <1>5, RevisionParts DEF Attains, Placed, RowInv
  <2>2. IsHead(k)' => IsHead(k)
    BY <1>1, <2>1 DEF IsHead, Exists
  <2>3. ASSUME NEW h \in Revisions, h[1] = k[1], Counted(h)', ~IsHead(k)'
        PROVE  c \notin AffectedCells(h)'
    <3>1. Counted(h) /\ Exists(h)
      BY <1>3, <2>3, CountedProcessed
    <3>2. h[1] \in Results /\ h[2] \in 1 .. MaxRevision /\ h = <<h[1], h[2]>> /\ k = <<k[1], k[2]>>
      BY RevisionParts
    <3>3. ~IsHead(k)
      <4>1. SUFFICES ASSUME IsHead(k)
                     PROVE  FALSE
        OBVIOUS
      <4>2. k = h
        BY <2>3, <3>1, <3>2, <4>1 DEF IsHead, Counted
      <4> QED
        BY <2>3, <4>2 DEF Counted
    <3>4. c \notin AffectedCells(h)
      BY <1>5, <2>3, <3>1, <3>3 DEF Attains
    <3>5. h[2] > 1 => Exists(<<h[1], h[2] - 1>>)
      BY <1>1, <3>1, <3>2, RevisionParts, TimelineBoundsAssumption
         DEF Exists, TimelineBoundsAssumption
    <3> QED
      BY <1>1, <3>1, <3>4, <3>5 DEF AffectedCells
  <2> QED
    BY <1>1, <1>2, <1>5, <2>1, <2>2, <2>3 DEF Attains
<1>6. LiveAttained'
  BY <1>2, <1>5 DEF LiveAttained
<1> QED
  BY <1>4, <1>6

\* The revision counted by a classifying step, and no other.
LEMMA CountedStep ==
  ASSUME TypeOK, Placed, NEW w \in Workers, phase' = [phase EXCEPT ![w] = "settling"],
         UNCHANGED <<data, job, queueVars>>, NEW k, Counted(k)', k # job[w]
  PROVE  Counted(k)
  BY DEF Counted, IsHead, queueVars, TypeOK

\* Every step but the two that write live cells.
Quiet ==
  \/ UNCHANGED vars
  \/ \E r \in Results : AddRevision(r)
  \/ \E w \in Workers : \/ Claim(w) \/ Materialize(w) \/ ChooseWay(w) \/ RollBack(w)
                         \/ ClassifyStaleHistorical(w) \/ Settle(w) \/ Fail(w)

LEMMA QuietOrLive ==
  ASSUME [Next]_vars
  PROVE  Quiet \/ \E w \in Workers : ClassifyIncremental(w) \/ RepairTimelines(w)
  BY DEF Next, Quiet

\* Who finishes a revision has counted it before.
LEMMA CountedSettle ==
  ASSUME TypeOK, Placed, NEW w \in Workers, Settle(w), NEW k \in Revisions, Counted(k)'
  PROVE  Counted(k)
<1> DEFINE r == job[w][1]
<1>1. /\ phase[w] = "settling" /\ UNCHANGED data
      /\ \A u \in Workers : phase'[u] = IF u = w THEN "idle" ELSE phase[u]
      /\ \A u \in Workers : u # w => job'[u] = job[u]
      /\ IF holder[r] = w THEN settled' = [settled EXCEPT ![r] = @ + 1] ELSE UNCHANGED settled
  BY DEF Settle, Return, TypeOK
<1>2. r \in Results /\ (holder[r] = w => job[w] = <<r, settled[r] + 1>>)
  BY <1>1, JobParts DEF Placed, HolderInv
<1>3. IsHead(k) /\ k[1] \notin Absorbed
  BY <1>1 DEF Counted, IsHead
<1>4. CASE \E u \in Workers : phase'[u] = "settling" /\ job'[u] = k
  BY <1>1, <1>3, <1>4 DEF Counted
<1>5. CASE k[2] <= settled'[k[1]] /\ ~ (k[2] <= settled[k[1]])
  <2>1. k[1] \in Results /\ k[2] \in Nat /\ k = <<k[1], k[2]>> /\ settled[k[1]] \in Nat
    BY RevisionParts, TimelineBoundsAssumption DEF TypeOK, TimelineBoundsAssumption
  <2>2. holder[r] = w
    BY <1>1, <1>5
  <2>3. \A q \in Results : settled'[q] = IF q = r THEN settled[r] + 1 ELSE settled[q]
    BY <1>1, <1>2, <2>2 DEF TypeOK
  <2>4. k[1] = r /\ settled'[r] = settled[r] + 1
    BY <1>2, <1>5, <2>1, <2>2, <2>3
  <2>5. k[2] = settled[r] + 1
    BY <1>5, <2>1, <2>4
  <2>6. job[w] = k
    BY <1>2, <2>1, <2>2, <2>4, <2>5
  <2> QED
    BY <1>1, <1>3, <2>6 DEF Counted
<1> QED
  BY <1>3, <1>4, <1>5 DEF Counted

\* A quiet step counts no revision.
LEMMA CountedQuiet ==
  ASSUME TypeOK, Placed, Quiet, NEW k \in Revisions, Counted(k)'
  PROVE  Counted(k)
<1>1. CASE UNCHANGED vars
  BY <1>1 DEF vars, workerVars, queueVars, Counted, IsHead
<1>2. ASSUME NEW r \in Results, AddRevision(r)
      PROVE  Counted(k)
  BY <1>2, CountedAdd
<1>3. ASSUME NEW w \in Workers, NEW ph \in Phases \ {"settling"}, phase' = [phase EXCEPT ![w] = ph],
             UNCHANGED <<data, settled>>, \A u \in Workers \ {w} : job'[u] = job[u]
      PROVE  Counted(k)
  BY <1>3 DEF Counted, IsHead, TypeOK
<1>4. ASSUME NEW w \in Workers, Claim(w)
      PROVE  Counted(k)
  BY <1>3, <1>4 DEF Claim, TypeOK, Phases
<1>5. ASSUME NEW w \in Workers, Materialize(w) \/ RollBack(w)
      PROVE  Counted(k)
  BY <1>3, <1>5 DEF Materialize, RollBack, queueVars, Phases
<1>6. ASSUME NEW w \in Workers, ChooseWay(w)
      PROVE  Counted(k)
  BY <1>3, <1>6, Ways DEF ChooseWay, queueVars, Phases
<1>7. ASSUME NEW w \in Workers, ClassifyStaleHistorical(w)
      PROVE  Counted(k)
  <2>1. /\ ~IsHead(job[w]) \/ job[w][1] \in Absorbed
        /\ phase' = [phase EXCEPT ![w] = "settling"]
        /\ UNCHANGED <<data, job, queueVars>>
    BY <1>7 DEF ClassifyStaleHistorical, Placed, WayInv
  <2>2. k # job[w]
    BY <2>1 DEF Counted, IsHead
  <2> QED
    BY <2>1, <2>2, CountedStep
<1>8. ASSUME NEW w \in Workers, Fail(w)
      PROVE  Counted(k)
  <2>1. phase' = [phase EXCEPT ![w] = "idle"] /\ \A u \in Workers \ {w} : job'[u] = job[u]
    BY <1>8 DEF Fail, Return, TypeOK
  <2> QED
    BY <1>3, <1>8, <2>1 DEF Fail, Phases
<1> QED
  BY <1>1, <1>2, <1>4, <1>5, <1>6, <1>7, <1>8, CountedSettle DEF Quiet

\* A quiet step leaves the live cells and the outcomes of heads alone.
LEMMA OutcomeQuiet ==
  ASSUME TypeOK, Placed, Quiet
  PROVE  /\ live' = live /\ processed \subseteq processed'
         /\ \A k \in processed : IsHead(k) /\ k[1] \notin Absorbed => outcome'[k] = outcome[k]
<1>1. ASSUME NEW w \in Workers, ClassifyStaleHistorical(w), NEW k \in processed, IsHead(k),
             k[1] \notin Absorbed
      PROVE  outcome'[k] = outcome[k]
  <2>1. k # job[w] /\ k \in Revisions
    BY <1>1 DEF ClassifyStaleHistorical, Placed, WayInv, TypeOK
  <2> QED
    BY <1>1, <2>1 DEF ClassifyStaleHistorical, TypeOK
<1>2. live' = live /\ processed \subseteq processed'
  BY DEF Quiet, vars, AddRevision, Claim, Materialize, ChooseWay, RollBack,
         ClassifyStaleHistorical, Settle, Fail
<1>3. outcome' = outcome \/ \E w \in Workers : ClassifyStaleHistorical(w)
  BY DEF Quiet, vars, AddRevision, Claim, Materialize, ChooseWay, RollBack, Settle, Fail
<1> QED
  BY <1>1, <1>2, <1>3

LEMMA LiveIncremental ==
  ASSUME TypeOK, Placed, LiveCounts, LiveAttained, NEW w \in Workers, ClassifyIncremental(w)
  PROVE  LiveCounts' /\ LiveAttained'
<1>0. PICK k \in Revisions : k = job[w]
  BY JobParts DEF ClassifyIncremental
<1> DEFINE v == Content(k).value
           mine == IF Content(k).fit THEN CellsOf(k) ELSE {}
<1>1. /\ phase[w] = "incremental" /\ IsHead(k) /\ k \in Revisions /\ k \in processed /\ Exists(k)
      /\ v \in Nat /\ Content(k).fit \in BOOLEAN /\ k[1] \notin Absorbed /\ k[2] = 1
  BY <1>0, JobParts, ContentTyped DEF ClassifyIncremental, Placed, JobInv, WayInv
<1>2. /\ phase' = [phase EXCEPT ![w] = "settling"]
      /\ UNCHANGED <<data, processed, job, queueVars>>
  BY DEF ClassifyIncremental
<1>3. /\ \A c \in Cells : live'[c] = IF c \in mine /\ v < live[c] THEN v ELSE live[c]
      /\ \A c \in mine : c \in Cells => outcome'[k][c] = Compare(v, live[c])
      /\ \A j \in Revisions : j # k => outcome'[j] = outcome[j]
  <2>1. \A c \in Cells : live'[c] = IF c \in mine /\ v < live[c] THEN v ELSE live[c]
    BY <1>0 DEF ClassifyIncremental
  <2>2. outcome' = [outcome EXCEPT ![k] =
          [c \in Cells |-> IF c \in mine THEN Compare(v, live[c]) ELSE outcome[k][c]]]
    BY <1>0 DEF ClassifyIncremental
  <2>3. \A j \in Revisions : j # k => outcome'[j] = outcome[j]
    BY <2>2 DEF TypeOK
  <2>4. outcome'[k] = [c \in Cells |-> IF c \in mine THEN Compare(v, live[c]) ELSE outcome[k][c]]
    BY <2>2 DEF TypeOK
  <2>5. \A c \in mine : c \in Cells => outcome'[k][c] = Compare(v, live[c])
    <3> HIDE DEF v, mine
    <3> QED
      BY <2>4
  <2> QED
    BY <2>1, <2>3, <2>5
<1>4. \A c \in Cells : live[c] \in Nat /\ live'[c] \in Nat /\ live'[c] <= live[c] /\ Baseline[c] \in Nat
  <2>1. \A c \in Cells : live[c] \in Nat
    BY DEF TypeOK
  <2>2. \A c \in Cells : (live'[c] = v /\ v < live[c]) \/ live'[c] = live[c]
    BY <1>3
  <2>3. v \in Nat
    BY <1>1
  <2> HIDE DEF v
  <2> QED
    BY <2>1, <2>2, <2>3, BaselineTyped
<1> HIDE DEF v, mine
<1>5. ASSUME NEW c \in Cells
      PROVE  live'[c] <= Baseline[c]
  BY <1>4 DEF LiveCounts
<1>6. ASSUME NEW c \in Cells, NEW j \in Revisions, Counted(j)', Content(j).fit, c \in CellsOf(j)
      PROVE  live'[c] <= Content(j).value
  <2>1. CASE j = k
    <3>1. c \in mine
      BY <1>6, <2>1 DEF mine
    <3>2. Content(j).value = v
      BY <2>1 DEF v
    <3> QED
      BY <1>1, <1>3, <1>4, <3>1, <3>2
  <2>2. CASE j # k
    <3>1. Counted(j)
      BY <1>0, <1>2, <1>6, <2>2, CountedStep
    <3>2. live[c] <= Content(j).value /\ Content(j).value \in Nat
      BY <1>6, <3>1, CountedProcessed, ContentTyped DEF LiveCounts
    <3> QED
      BY <1>4, <3>2
  <2> QED
    BY <2>1, <2>2
<1>7. LiveCounts'
  BY <1>2, <1>5, <1>6 DEF LiveCounts, Content, CellsOf
<1>8. ASSUME NEW c \in Cells, c \in mine, v <= live[c]
      PROVE  Attains(k, c)'
  <2>1. live'[c] = v
    BY <1>1, <1>3, <1>4, <1>8
  <2>2. outcome'[k][c] # "none"
    BY <1>1, <1>3, <1>4, <1>8, CompareCredits
  <2>3. Content(k).fit /\ c \in CellsOf(k)
    BY <1>8 DEF mine
  <2>4. IsHead(k)'
    BY <1>1, <1>2 DEF IsHead
  <2> QED
    BY <1>1, <1>2, <2>1, <2>2, <2>3, <2>4 DEF Attains, Content, CellsOf, v
<1>9. ASSUME NEW c \in Cells, ~ (c \in mine /\ v <= live[c]), NEW j \in Revisions, Attains(j, c)
      PROVE  Attains(j, c)'
  <2>1. live'[c] = live[c]
    BY <1>1, <1>3, <1>4, <1>9
  <2>2. j # k
    <3>1. SUFFICES ASSUME j = k
                   PROVE  FALSE
      OBVIOUS
    <3>2. c \in mine /\ v = live[c]
      BY <1>9, <3>1 DEF Attains, mine, v
    <3> QED
      BY <1>4, <1>9, <3>2
  <2>3. ASSUME NEW h \in Revisions, h[1] = j[1], Counted(h)', ~IsHead(j)
        PROVE  c \notin AffectedCells(h)
    <3>1. CASE h = k
      <4>1. k[2] = Len(data[j[1]])
        BY <1>1, <2>3, <3>1 DEF IsHead
      <4>3. Exists(j)
        BY <1>9 DEF Attains, Placed, RowInv
      <4>4. j[2] \in 1 .. MaxRevision
        BY RevisionParts
      <4>2. j[2] = Len(data[j[1]])
        BY <1>1, <4>1, <4>3, <4>4 DEF Exists
      <4> QED
        BY <2>3, <4>2 DEF IsHead
    <3>2. CASE h # k
      BY <1>0, <1>2, <1>9, <2>3, <3>2, CountedStep DEF Attains
    <3> QED
      BY <3>1, <3>2
  <2> QED
    BY <1>2, <1>3, <1>9, <2>1, <2>2, <2>3 DEF Attains, Content, CellsOf, IsHead, AffectedCells
<1>10. ASSUME NEW c \in Cells
       PROVE  live'[c] = Baseline[c] \/ \E j \in Revisions : Attains(j, c)'
  <2>1. CASE c \in mine /\ v <= live[c]
    BY <1>1, <1>8, <2>1
  <2>2. CASE ~ (c \in mine /\ v <= live[c])
    <3>1. live'[c] = live[c]
      BY <1>1, <1>3, <1>4, <2>2
    <3> QED
      BY <1>9, <2>2, <3>1 DEF LiveAttained
  <2> QED
    BY <2>1, <2>2
<1>11. LiveAttained'
  BY <1>10 DEF LiveAttained
<1> QED
  BY <1>7, <1>11

LEMMA LiveRepair ==
  ASSUME TypeOK, Placed, LiveCounts, LiveAttained, NEW w \in Workers, RepairTimelines(w)
  PROVE  LiveCounts' /\ LiveAttained'
<1>0. PICK k \in Revisions : k = job[w]
  BY JobParts DEF RepairTimelines
<1>1. IsHead(k) /\ k \in Revisions /\ Exists(k) /\ k[1] \notin Absorbed
  BY <1>0, JobParts DEF RepairTimelines, Placed, WayInv
<1>2. /\ phase' = [phase EXCEPT ![w] = "settling"]
      /\ UNCHANGED <<data, processed, job, queueVars>>
  BY DEF RepairTimelines
<1>3. /\ \A c \in Cells : live'[c] = IF c \in AffectedCells(k) THEN Best(c, CurrentTimeline(c))
                                                               ELSE live[c]
      /\ \A j \in Revisions, c \in Cells :
           outcome'[j][c] = IF c \in AffectedCells(k) /\ j \in CurrentTimeline(c)
                              THEN Replayed(j, c, CurrentTimeline(c))
                              ELSE outcome[j][c]
  BY <1>0 DEF RepairTimelines
<1>4. ASSUME NEW c \in Cells
      PROVE  /\ Best(c, CurrentTimeline(c)) \in Nat
             /\ Best(c, CurrentTimeline(c)) <= Baseline[c]
             /\ \A j \in CurrentTimeline(c) : Best(c, CurrentTimeline(c)) <= Content(j).value
             /\ \/ Best(c, CurrentTimeline(c)) = Baseline[c]
                \/ \E j \in CurrentTimeline(c) : Content(j).value = Best(c, CurrentTimeline(c))
  BY CurrentExists, BestIsLeast
<1>5. ASSUME NEW c \in Cells, NEW j \in Revisions, Counted(j)', Content(j).fit, c \in CellsOf(j)
      PROVE  live'[c] <= Content(j).value
  <2>1. CASE c \in AffectedCells(k)
    <3>1. j \in processed
      <4>1. CASE j = k
        BY <1>0, <4>1 DEF RepairTimelines, Placed, JobInv
      <4>2. CASE j # k
        BY <1>2, <1>5, <4>2, CountedStep, CountedProcessed, <1>0
      <4> QED
        BY <4>1, <4>2
    <3>2. IsHead(j) /\ j[1] \notin Absorbed
      BY <1>2, <1>5 DEF Counted, IsHead
    <3>3. j \in CurrentTimeline(c)
      BY <1>5, <3>1, <3>2 DEF CurrentTimeline
    <3> QED
      BY <1>3, <1>4, <2>1, <3>3
  <2>2. CASE c \notin AffectedCells(k)
    <3>1. j # k
      BY <1>5, <2>2 DEF AffectedCells
    <3>2. Counted(j)
      BY <1>2, <1>5, <3>1, CountedStep, <1>0
    <3> QED
      BY <1>3, <1>5, <2>2, <3>2 DEF LiveCounts
  <2> QED
    BY <2>1, <2>2
<1>6. \A c \in Cells : live'[c] <= Baseline[c]
  BY <1>3, <1>4 DEF LiveCounts
<1>7. LiveCounts'
  BY <1>2, <1>5, <1>6 DEF LiveCounts, Content, CellsOf
<1>8. ASSUME NEW c \in Cells, c \in AffectedCells(k), NEW j \in CurrentTimeline(c),
             Content(j).value = Best(c, CurrentTimeline(c))
      PROVE  j \in Revisions /\ Attains(j, c)'
  <2> DEFINE earlier == {i \in CurrentTimeline(c) : Before(i, j)}
  <2>1. /\ j \in processed /\ j \in Revisions /\ IsHead(j) /\ Content(j).fit /\ c \in CellsOf(j)
        /\ j[1] \notin Absorbed /\ Content(j).value \in Nat
    BY CurrentExists, ContentTyped DEF CurrentTimeline, Exists
  <2>2. \A i \in earlier : Exists(i)
    BY CurrentExists
  <2>3. Best(c, earlier) \in Nat /\ Content(j).value <= Best(c, earlier)
    <3>1. /\ Best(c, earlier) \in Nat
          /\ Best(c, earlier) = Baseline[c] \/ \E i \in earlier : Content(i).value = Best(c, earlier)
      <4> HIDE DEF earlier
      <4> QED
        BY <2>2, BestIsLeast
    <3> QED
      BY <1>4, <1>8, <3>1
  <2>4. Compare(Content(j).value, Best(c, earlier)) # "none"
    <3> HIDE DEF earlier
    <3> QED
      BY <2>1, <2>3, CompareCredits
  <2>5. outcome'[j][c] # "none"
    BY <1>3, <1>8, <2>1, <2>4 DEF Replayed
  <2>6. live'[c] = Content(j).value
    BY <1>3, <1>8
  <2> QED
    BY <1>2, <2>1, <2>5, <2>6 DEF Attains, Content, CellsOf, IsHead
<1>9. ASSUME NEW c \in Cells, c \notin AffectedCells(k), NEW j \in Revisions, Attains(j, c)
      PROVE  Attains(j, c)'
  <2>1. ASSUME NEW h \in Revisions, h[1] = j[1], Counted(h)', ~IsHead(j)
        PROVE  c \notin AffectedCells(h)
    <3>1. CASE h = k
      BY <1>9, <3>1
    <3>2. CASE h # k
      BY <1>2, <1>9, <2>1, <3>2, CountedStep, <1>0 DEF Attains
    <3> QED
      BY <3>1, <3>2
  <2>2. live'[c] = live[c] /\ outcome'[j][c] = outcome[j][c]
    BY <1>3, <1>9
  <2> QED
    BY <1>2, <1>9, <2>1, <2>2 DEF Attains, Content, CellsOf, IsHead, AffectedCells
<1>10. ASSUME NEW c \in Cells
       PROVE  live'[c] = Baseline[c] \/ \E j \in Revisions : Attains(j, c)'
  <2>1. CASE c \in AffectedCells(k)
    BY <1>3, <1>4, <1>8, <2>1
  <2>2. CASE c \notin AffectedCells(k)
    BY <1>3, <1>9, <2>2 DEF LiveAttained
  <2> QED
    BY <2>1, <2>2
<1>11. LiveAttained'
  BY <1>10 DEF LiveAttained
<1> QED
  BY <1>7, <1>11

LEMMA LiveStep ==
  ASSUME IInv, [Next]_vars
  PROVE  LiveCounts' /\ LiveAttained'
<1> USE DEF IInv
<1>1. ASSUME NEW r \in Results, AddRevision(r)
      PROVE  LiveCounts' /\ LiveAttained'
  BY <1>1, LiveAdd
<1>2. ASSUME NEW w \in Workers, ClassifyIncremental(w) \/ RepairTimelines(w)
      PROVE  LiveCounts' /\ LiveAttained'
  BY <1>2, LiveIncremental, LiveRepair
<1>3. CASE Quiet /\ ~ \E r \in Results : AddRevision(r)
  <2>1. UNCHANGED data
    BY <1>3 DEF Quiet, vars, Claim, Materialize, ChooseWay, RollBack, ClassifyStaleHistorical,
                Settle, Fail
  <2> QED
    BY <1>3, <2>1, CountedQuiet, OutcomeQuiet, LiveFrame
<1> QED
  BY <1>1, <1>2, <1>3, QuietOrLive

THEOREM SpecTimelineIInv == Spec => []IInv
<1>1. Init => IInv
  <2>1. ASSUME Init
        PROVE  LiveCounts /\ LiveAttained
    <3>1. \A k \in Revisions : ~ Counted(k)
      <4>1. ASSUME NEW k \in Revisions
            PROVE  /\ k[1] \in Results /\ k[2] \in 1 .. MaxRevision
                   /\ settled[k[1]] = 0
        BY <2>1, RevisionParts DEF Init
      <4> QED
        BY <2>1, <4>1 DEF Init, Counted
    <3>2. \A c \in Cells : live[c] = Baseline[c] /\ Baseline[c] \in Nat
      BY <2>1, BaselineTyped DEF Init
    <3> QED
      BY <3>1, <3>2 DEF LiveCounts, LiveAttained
  <2> QED
    BY <2>1, InitPlaced DEF IInv
<1>2. IInv /\ [Next]_vars => IInv'
  BY TypeStep, PlacedStep, LiveStep DEF IInv
<1> QED
  BY <1>1, <1>2, PTL DEF Spec

\* In every reachable state the variables have their types.
THEOREM SpecTimelineTypeOK == Spec => []TypeOK
<1>1. IInv => TypeOK
  BY DEF IInv
<1> QED
  BY <1>1, SpecTimelineIInv, PTL

\* What the invariant says once no work is left.
LEMMA QuiescentCells ==
  ASSUME IInv, Quiescent, NEW c \in Cells, ~LeftBehind(c)
  PROVE  /\ live[c] = Best(c, TrueTimeline(c))
         /\ live[c] < Baseline[c] =>
              \E k \in TrueTimeline(c) : Content(k).value = live[c] /\ outcome[k][c] # "none"
<1> USE DEF IInv
<1>1. ASSUME NEW k \in TrueTimeline(c)
      PROVE  Exists(k) /\ live[c] <= Content(k).value
  <2>1. /\ k \in Revisions /\ IsHead(k) /\ Content(k).fit /\ c \in CellsOf(k)
        /\ k[1] \notin Absorbed /\ k[1] \in Results /\ k[2] \in Nat
    BY RevisionParts DEF TrueTimeline
  <2>2. k[2] <= settled[k[1]]
    BY <2>1 DEF Quiescent, IsHead
  <2>3. Counted(k)
    BY <2>1, <2>2 DEF Counted
  <2> QED
    BY <2>1, <2>3, CountedProcessed DEF LiveCounts
<1>2. ASSUME NEW k \in Revisions, Attains(k, c)
      PROVE  k \in TrueTimeline(c) /\ outcome[k][c] # "none" /\ Content(k).value = live[c]
  <2> DEFINE n == Len(data[k[1]])
             h == <<k[1], n>>
  <2>1. k[1] \in Results /\ k[2] \in 1 .. n /\ n \in 1 .. MaxRevision /\ k = <<k[1], k[2]>>
    BY <1>2, RevisionParts, TimelineBoundsAssumption
       DEF Attains, Placed, RowInv, Exists, TypeOK, TimelineBoundsAssumption
  <2>2. h \in Revisions /\ h[1] = k[1] /\ h[2] = n
    BY <2>1, RevisionParts
  <2>3. Counted(h)
    <3>1. IsHead(h) /\ h[1] \notin Absorbed
      BY <1>2, <2>2 DEF IsHead, Attains
    <3>2. h[2] <= settled[h[1]]
      BY <2>1, <2>2 DEF Quiescent
    <3> QED
      BY <2>2, <3>1, <3>2 DEF Counted
  <2>4. IsHead(k)
    <3>1. SUFFICES ASSUME ~IsHead(k)
                   PROVE  FALSE
      OBVIOUS
    <3>2. c \notin AffectedCells(h) /\ c \in CellsOf(k)
      BY <1>2, <2>2, <2>3, <3>1 DEF Attains
    <3>3. k[2] # n
      BY <3>1 DEF IsHead
    <3>4. k[2] # n - 1
      <4>1. SUFFICES ASSUME k[2] = n - 1
                     PROVE  FALSE
        OBVIOUS
      <4>2. n > 1 /\ <<h[1], h[2] - 1>> = k
        BY <2>1, <2>2, <4>1
      <4>3. CellsOf(k) \subseteq AffectedCells(h)
        BY <2>2, <4>2 DEF AffectedCells
      <4> QED
        BY <3>2, <4>3
    <3>5. k[2] \in 1 .. n - 2
      BY <2>1, <3>3, <3>4
    <3> QED
      BY <2>1, <3>2, <3>5 DEF LeftBehind
  <2>5. n > 0
    BY <2>1
  <2> QED
    BY <1>2, <2>4, <2>5 DEF Attains, TrueTimeline
<1>3. /\ Best(c, TrueTimeline(c)) \in Nat
      /\ Best(c, TrueTimeline(c)) <= Baseline[c]
      /\ \A k \in TrueTimeline(c) : Best(c, TrueTimeline(c)) <= Content(k).value
      /\ \/ Best(c, TrueTimeline(c)) = Baseline[c]
         \/ \E k \in TrueTimeline(c) : Content(k).value = Best(c, TrueTimeline(c))
  BY <1>1, BestIsLeast
<1>4. live[c] <= Best(c, TrueTimeline(c))
  BY <1>1, <1>3 DEF LiveCounts
<1>5. \/ live[c] = Baseline[c]
      \/ \E k \in TrueTimeline(c) : Content(k).value = live[c] /\ outcome[k][c] # "none"
  BY <1>2 DEF LiveAttained
<1>6. live[c] \in Nat /\ Baseline[c] \in Nat
  BY BaselineTyped DEF TypeOK
<1> QED
  BY <1>3, <1>4, <1>5, <1>6

\* Once all work is settled the live cells are what a rebuild would give, but
\* for cells a result has left behind.
THEOREM SpecLiveUnlessLeftBehind == Spec => []LiveUnlessLeftBehind
<1>1. IInv => LiveUnlessLeftBehind
  BY QuiescentCells DEF LiveUnlessLeftBehind
<1> QED
  BY <1>1, SpecTimelineIInv, PTL

\* Then somebody is credited with every live record that beats the export.
THEOREM SpecRecordHasHolder == Spec => []RecordHasHolder
<1>1. IInv => RecordHasHolder
  BY QuiescentCells DEF RecordHasHolder
<1> QED
  BY <1>1, SpecTimelineIInv, PTL

\* Where the results keep their cells, as almost all do, nothing is left behind.
NobodyMoves ==
  \A r \in Results : \A i, j \in 1 .. Len(data[r]) : CellsOf(<<r, i>>) = CellsOf(<<r, j>>)

\* While no correction moves a result to other scopes, the live cells are what
\* a rebuild would give.
THEOREM SpecLiveMatchesOracle == Spec => [](NobodyMoves => LiveMatchesOracle)
<1>1. ASSUME IInv, NobodyMoves, NEW c \in Cells
      PROVE  ~LeftBehind(c)
  <2>1. SUFFICES ASSUME NEW r \in Results, NEW i \in 1 .. Len(data[r]) - 2,
                        c \in CellsOf(<<r, i>>), c \notin AffectedCells(<<r, Len(data[r])>>)
                 PROVE  FALSE
    BY DEF LeftBehind
  <2>2. Len(data[r]) \in Nat
    BY <1>1 DEF IInv, TypeOK
  <2>3. i \in 1 .. Len(data[r]) /\ Len(data[r]) \in 1 .. Len(data[r])
    BY <2>2
  <2>4. CellsOf(<<r, i>>) = CellsOf(<<r, Len(data[r])>>)
    BY <1>1, <2>3 DEF NobodyMoves
  <2> QED
    BY <2>1, <2>4 DEF AffectedCells
<1>2. IInv => (NobodyMoves => LiveMatchesOracle)
  BY <1>1, QuiescentCells DEF LiveMatchesOracle
<1> QED
  BY <1>2, SpecTimelineIInv, PTL

(***************************************************************************)
(* Outcomes.  Before anything is disturbed one worker at a time works on   *)
(* the next revision of a result, so that whatever has a projection is     *)
(* counted or is its job, and a cell is right for the revisions counted,   *)
(* unless a correction still has to repair it.                             *)
(***************************************************************************)

CountedTimeline(c) == {k \in Revisions : Counted(k) /\ Content(k).fit /\ c \in CellsOf(k)}

CellRight(c) ==
  /\ live[c] = Best(c, CountedTimeline(c))
  /\ \A k \in CountedTimeline(c) : outcome[k][c] = Replayed(k, c, CountedTimeline(c))

\* A correction that is not counted is to repair the cell.
ToRepair(c) ==
  \E r \in Results \ Absorbed : \E n \in 2 .. MaxRevision :
    n = Len(data[r]) /\ ~Counted(<<r, n>>) /\ c \in AffectedCells(<<r, n>>)

\* The cell is left behind by a result that is not part of the export.
Abandoned(c) ==
  \E r \in Results \ Absorbed : \E i \in 1 .. Len(data[r]) - 2 :
    c \in CellsOf(<<r, i>>) /\ c \notin AffectedCells(<<r, Len(data[r])>>)

CellInv(c) == Abandoned(c) \/ ToRepair(c) \/ CellRight(c)

OneAtATime ==
  /\ \A v, w \in Workers : phase[v] # "idle" /\ phase[w] # "idle" => v = w
  /\ \A w \in Workers : phase[w] # "idle" => holder[job[w][1]] = w
  /\ \A j \in processed :
       j[2] <= settled[j[1]] \/ \E w \in Workers : phase[w] # "idle" /\ job[w] = j
  /\ \A w \in Workers : phase[w] = "incremental" => ~OutOfOrder(job[w])

OutcomeInv == ~disturbed => OneAtATime /\ \A c \in Cells : CellInv(c)

\* The best with one more revision.
LEMMA BestAdded ==
  ASSUME TypeOK, NEW c \in Cells, NEW ks, \A j \in ks : Exists(j), NEW k, Exists(k)
  PROVE  Best(c, ks \cup {k}) = IF Content(k).value < Best(c, ks) THEN Content(k).value
                                                                  ELSE Best(c, ks)
<1> DEFINE b == Best(c, ks)
           d == Best(c, ks \cup {k})
           v == Content(k).value
<1>1. /\ b \in Nat /\ b <= Baseline[c] /\ \A j \in ks : b <= Content(j).value
      /\ b = Baseline[c] \/ \E j \in ks : Content(j).value = b
  BY BestIsLeast
<1>2. \A j \in ks \cup {k} : Exists(j)
  OBVIOUS
<1>3. /\ d \in Nat /\ d <= Baseline[c] /\ \A j \in ks \cup {k} : d <= Content(j).value
      /\ d = Baseline[c] \/ \E j \in ks \cup {k} : Content(j).value = d
  <2> DEFINE all == ks \cup {k}
  <2>1. \A j \in all : Exists(j)
    BY <1>2
  <2> HIDE DEF all
  <2>2. /\ Best(c, all) \in Nat /\ Best(c, all) <= Baseline[c]
        /\ \A j \in all : Best(c, all) <= Content(j).value
        /\ Best(c, all) = Baseline[c] \/ \E j \in all : Content(j).value = Best(c, all)
    BY <2>1, BestIsLeast
  <2> QED
    BY <2>2 DEF all
<1>4. v \in Nat /\ Baseline[c] \in Nat
  BY ContentTyped, BaselineTyped
<1>5. d <= b /\ d <= v
  BY <1>1, <1>3
<1>6. d = b \/ d = v
  <2>1. CASE d = Baseline[c]
    BY <1>1, <1>4, <1>5, <2>1
  <2>2. CASE \E j \in ks : Content(j).value = d
    BY <1>1, <1>3, <1>5, <2>2
  <2> QED
    BY <1>3, <2>1, <2>2
<1> HIDE DEF b, d, v
<1>7. d = IF v < b THEN v ELSE b
  BY <1>1, <1>3, <1>4, <1>5, <1>6
<1> QED
  BY <1>7 DEF b, d, v

\* The chronological order of revisions of two results is total.
LEMMA BeforeOrders ==
  ASSUME TypeOK, NEW j, NEW k, Exists(j), Exists(k)
  PROVE  /\ j[1] # k[1] => Before(j, k) \/ Before(k, j)
         /\ ~ (Before(j, k) /\ Before(k, j))
<1>1. Content(j).at \in Nat /\ Content(k).at \in Nat
  BY ContentTyped
<1>2. j[1] \in Nat /\ j[2] \in Nat /\ k[1] \in Nat /\ k[2] \in Nat
  BY RevisionParts, ResultsAssumption DEF ResultsAssumption, Exists
<1> QED
  BY <1>1, <1>2 DEF Before

LEMMA TwoHeads ==
  ASSUME NEW j \in Revisions, NEW k \in Revisions, IsHead(j), IsHead(k), j # k
  PROVE  j[1] # k[1]
  BY RevisionParts DEF IsHead

LEMMA CountedExists ==
  ASSUME Placed
  PROVE  \A c : \A k \in CountedTimeline(c) : Exists(k) /\ k \in processed
  BY CountedProcessed DEF CountedTimeline

\* A step that keeps data, live cells, what is counted and its outcomes.
LEMMA CellFrame ==
  ASSUME TypeOK, Placed, UNCHANGED <<data, live>>,
         \A k \in Revisions : Counted(k)' <=> Counted(k),
         \A k \in Revisions : Counted(k) => outcome'[k] = outcome[k],
         NEW c \in Cells, CellInv(c)
  PROVE  CellInv(c)'
<1>1. /\ \A k : Content(k)' = Content(k) /\ CellsOf(k)' = CellsOf(k)
               /\ AffectedCells(k)' = AffectedCells(k)
      /\ \A j, k : Before(j, k)' <=> Before(j, k)
  BY DEF Content, CellsOf, AffectedCells, Before
<1>2. CountedTimeline(c)' = CountedTimeline(c)
  BY <1>1 DEF CountedTimeline
<1>3. CellRight(c) => CellRight(c)'
  BY <1>1, <1>2 DEF CellRight, Best, Replayed, CountedTimeline
<1>4. Abandoned(c) => Abandoned(c)'
  BY <1>1 DEF Abandoned
<1>5. ToRepair(c) => ToRepair(c)'
  <2>1. ASSUME NEW r \in Results, NEW n \in 2 .. MaxRevision
        PROVE  <<r, n>> \in Revisions
    BY RevisionParts, TimelineBoundsAssumption DEF TimelineBoundsAssumption
  <2> QED
    BY <1>1, <2>1 DEF ToRepair
<1> QED
  BY <1>3, <1>4, <1>5 DEF CellInv

\* A revision is added: its cells, and those of the one it replaces, are to be
\* repaired, and a cell it leaves out is left behind.
LEMMA AddMoves ==
  ASSUME TypeOK, Placed, NEW r \in Results, AddRevision(r), NEW c \in Cells
  PROVE  /\ Abandoned(c) \/ ToRepair(c) => Abandoned(c)' \/ ToRepair(c)'
         /\ \A k \in Revisions : k[1] = r /\ IsHead(k) /\ r \notin Absorbed /\ c \in CellsOf(k)
                                => ToRepair(c)'
         /\ \A q \in Results, m \in 1 .. MaxRevision : q # r /\ m = Len(data[q]) =>
              /\ AffectedCells(<<q, m>>)' = AffectedCells(<<q, m>>)
              /\ Content(<<q, m>>)' = Content(<<q, m>>) /\ Len(data'[q]) = m
<1>0. PICK n \in Nat : n = Len(data[r]) /\ n < MaxRevision
  BY DEF TypeOK, AddRevision
<1> DEFINE h == <<r, n + 1>>
<1>1. /\ \A q \in Results : Len(data'[q]) = IF q = r THEN n + 1 ELSE Len(data[q])
      /\ \A k : Exists(k) => Exists(k)' /\ Content(k)' = Content(k) /\ CellsOf(k)' = CellsOf(k)
      /\ \A q \in Results : Len(data[q]) \in Nat /\ Len(data[q]) <= MaxRevision
      /\ MaxRevision \in Nat
  BY <1>0, AddedRevision, TimelineBoundsAssumption DEF TypeOK, TimelineBoundsAssumption
<1>2. UNCHANGED <<processed, outcome, live, settled, phase, job>>
  BY DEF AddRevision, workerVars, queueVars
<1>3. \A k \in Revisions : Counted(k)' => Counted(k)
  BY CountedAdd
<1>4. \A k \in Revisions : Counted(k) /\ k[1] # r => Counted(k)'
  BY <1>1, <1>2, RevisionParts DEF Counted, IsHead
<1>5. h \in Revisions /\ h[1] = r /\ h[2] = n + 1 /\ ~Counted(h)'
  <2>1. h \in Revisions /\ h[1] = r /\ h[2] = n + 1
    BY <1>0, <1>1, RevisionParts
  <2>2. ~Exists(h)
    BY <1>0, <2>1 DEF Exists
  <2> QED
    BY <1>3, <2>1, <2>2, CountedProcessed
<1>6. \A q \in Results, i \in 1 .. MaxRevision :
        i <= Len(data[q]) => Exists(<<q, i>>) /\ CellsOf(<<q, i>>)' = CellsOf(<<q, i>>)
  BY <1>1, RevisionParts DEF Exists
<1>7. ASSUME r \notin Absorbed, n >= 1, c \in CellsOf(<<r, n>>)
      PROVE  ToRepair(c)'
  <2>1. CellsOf(<<r, n>>)' = CellsOf(<<r, n>>) /\ h[2] - 1 = n
    BY <1>0, <1>1, <1>5, <1>6, <1>7
  <2>2. <<h[1], h[2] - 1>> = <<r, n>>
    BY <1>5, <2>1
  <2>3. c \in AffectedCells(h)'
    BY <1>0, <1>5, <1>7, <2>1, <2>2 DEF AffectedCells
  <2>4. n + 1 \in 2 .. MaxRevision /\ Len(data'[r]) = n + 1 /\ r \in Results \ Absorbed
    BY <1>0, <1>1, <1>7
  <2> QED
    BY <1>5, <2>3, <2>4 DEF ToRepair
\* A cell in an earlier revision of r that is neither to be repaired nor left
\* behind with the new one.
<1>8. ASSUME r \notin Absorbed, NEW i \in 1 .. n - 1, c \in CellsOf(<<r, i>>), ~ToRepair(c)'
      PROVE  Abandoned(c)'
  <2>1. c \notin AffectedCells(h)'
    <3>1. n + 1 \in 2 .. MaxRevision /\ Len(data'[r]) = n + 1
      BY <1>0, <1>1, <1>8
    <3> QED
      BY <1>5, <1>8, <3>1 DEF ToRepair
  <2>2. CellsOf(<<r, i>>)' = CellsOf(<<r, i>>) /\ i \in 1 .. Len(data'[r]) - 2
    BY <1>0, <1>1, <1>6, <1>8
  <2>3. h = <<r, Len(data'[r])>>
    BY <1>1
  <2> QED
    BY <1>8, <2>1, <2>2, <2>3 DEF Abandoned
<1>9. ASSUME NEW q \in Results, q # r, NEW m \in 1 .. MaxRevision, m = Len(data[q])
      PROVE  /\ AffectedCells(<<q, m>>)' = AffectedCells(<<q, m>>) /\ Len(data'[q]) = m
             /\ Content(<<q, m>>)' = Content(<<q, m>>)
  <2>1. m > 1 => m - 1 \in 1 .. MaxRevision /\ m - 1 <= Len(data[q])
    BY <1>1, <1>9
  <2>2. /\ CellsOf(<<q, m>>)' = CellsOf(<<q, m>>) /\ Content(<<q, m>>)' = Content(<<q, m>>)
        /\ m > 1 => CellsOf(<<q, m - 1>>)' = CellsOf(<<q, m - 1>>)
    BY <1>1, <1>6, <1>9, <2>1
  <2> QED
    BY <1>1, <1>9, <2>2 DEF AffectedCells
<1>10. ASSUME Abandoned(c)
       PROVE  Abandoned(c)' \/ ToRepair(c)'
  <2>0. PICK q \in Results \ Absorbed : \E i \in 1 .. Len(data[q]) - 2 :
          c \in CellsOf(<<q, i>>) /\ c \notin AffectedCells(<<q, Len(data[q])>>)
    BY <1>10 DEF Abandoned
  <2>1. PICK i \in 1 .. Len(data[q]) - 2 :
          c \in CellsOf(<<q, i>>) /\ c \notin AffectedCells(<<q, Len(data[q])>>)
    BY <2>0
  <2>2. CASE q = r
    <3>1. i \in 1 .. n - 1
      BY <1>0, <2>1, <2>2
    <3> QED
      BY <1>8, <2>1, <2>2, <3>1
  <2>3. CASE q # r
    <3>1. PICK m \in 2 .. MaxRevision : m = Len(data[q])
      BY <1>1, <2>1
    <3>2. i \in 1 .. Len(data'[q]) - 2 /\ c \in CellsOf(<<q, i>>)'
      BY <1>1, <1>6, <2>1, <2>3, <3>1
    <3>3. c \notin AffectedCells(<<q, m>>)' /\ Len(data'[q]) = m
      BY <1>9, <2>1, <2>3, <3>1
    <3> QED
      BY <2>1, <3>2, <3>3 DEF Abandoned
  <2> QED
    BY <2>2, <2>3
<1>11. ASSUME ToRepair(c)
       PROVE  Abandoned(c)' \/ ToRepair(c)'
  <2>1. PICK q \in Results \ Absorbed, m \in 2 .. MaxRevision :
          m = Len(data[q]) /\ ~Counted(<<q, m>>) /\ c \in AffectedCells(<<q, m>>)
    BY <1>11 DEF ToRepair
  <2>2. CASE q = r
    <3>1. m = n /\ n >= 1 /\ n - 1 \in 1 .. n - 1 /\ <<r, n>>[1] = r /\ <<r, n>>[2] = n
      BY <1>0, <2>1, <2>2
    <3>2. c \in CellsOf(<<r, n>>) \/ c \in CellsOf(<<r, n - 1>>)
      BY <2>1, <2>2, <3>1 DEF AffectedCells
    <3> QED
      BY <1>7, <1>8, <2>1, <2>2, <3>1, <3>2
  <2>3. CASE q # r
    <3>1. <<q, m>> \in Revisions
      BY <1>1, <2>1, RevisionParts
    <3> QED
      BY <1>3, <1>9, <2>1, <2>3, <3>1 DEF ToRepair
  <2> QED
    BY <2>2, <2>3
<1>12. ASSUME NEW k \in Revisions, k[1] = r, IsHead(k), r \notin Absorbed, c \in CellsOf(k)
       PROVE  ToRepair(c)'
  <2>1. k = <<r, n>> /\ n >= 1
    BY <1>0, <1>12, RevisionParts DEF IsHead
  <2> QED
    BY <1>7, <1>12, <2>1
<1> QED
  BY <1>9, <1>10, <1>11, <1>12

LEMMA CellAdd ==
  ASSUME TypeOK, Placed, NEW r \in Results, AddRevision(r), NEW c \in Cells, CellInv(c)
  PROVE  CellInv(c)'
<1>1. /\ \A q \in Results : Len(data'[q]) = IF q = r THEN Len(data[r]) + 1 ELSE Len(data[q])
      /\ \A k : Exists(k) => Exists(k)' /\ Content(k)' = Content(k) /\ CellsOf(k)' = CellsOf(k)
  BY AddedRevision
<1>2. UNCHANGED <<outcome, live, settled, phase, job>>
  BY DEF AddRevision, workerVars, queueVars
<1>3. \A k \in Revisions : Counted(k)' => Counted(k)
  BY CountedAdd
<1>4. \A k \in Revisions : Counted(k) /\ k[1] # r => Counted(k)'
  BY <1>1, <1>2, RevisionParts DEF Counted, IsHead
<1>5. CASE CellRight(c) /\ ~ToRepair(c)'
  <2>1. ASSUME NEW k \in CountedTimeline(c)
        PROVE  /\ k \in Revisions /\ Counted(k)'
               /\ Content(k)' = Content(k) /\ CellsOf(k)' = CellsOf(k)
    <3>1. k \in Revisions /\ Counted(k) /\ Exists(k) /\ c \in CellsOf(k)
      BY CountedExists DEF CountedTimeline
    <3>2. k[1] # r
      BY <1>5, <3>1, AddMoves DEF Counted
    <3> QED
      BY <1>1, <1>4, <3>1, <3>2
  <2>2. CountedTimeline(c)' = CountedTimeline(c)
    <3>1. ASSUME NEW k \in Revisions, Counted(k)'
          PROVE  Counted(k) /\ Content(k)' = Content(k) /\ CellsOf(k)' = CellsOf(k)
      BY <1>1, <1>3, <3>1, CountedProcessed
    <3> QED
      BY <2>1, <3>1 DEF CountedTimeline
  <2>3. Best(c, CountedTimeline(c))' = Best(c, CountedTimeline(c))
    BY <2>1, <2>2 DEF Best
  <2>4. ASSUME NEW k \in CountedTimeline(c)
        PROVE  Replayed(k, c, CountedTimeline(c))' = Replayed(k, c, CountedTimeline(c))
    <3>1. \A j \in CountedTimeline(c) : Before(j, k)' <=> Before(j, k)
      BY <2>1 DEF Before
    <3>2. {j \in CountedTimeline(c) : Before(j, k)}' = {j \in CountedTimeline(c) : Before(j, k)}
      BY <2>2, <3>1
    <3>3. Best(c, {j \in CountedTimeline(c) : Before(j, k)})'
            = Best(c, {j \in CountedTimeline(c) : Before(j, k)})
      BY <2>1, <3>2 DEF Best
    <3> QED
      BY <2>1, <3>3 DEF Replayed
  <2>5. CellRight(c)'
    BY <1>2, <1>5, <2>2, <2>3, <2>4 DEF CellRight
  <2> QED
    BY <2>5 DEF CellInv
<1> QED
  BY <1>5, AddMoves DEF CellInv

\* The data stay: what is best, and what is replayed, depends on the timeline only.
LEMMA DataStay ==
  ASSUME UNCHANGED data, NEW c
  PROVE  /\ \A k : Content(k)' = Content(k) /\ CellsOf(k)' = CellsOf(k)
                   /\ AffectedCells(k)' = AffectedCells(k) /\ (IsHead(k)' <=> IsHead(k))
         /\ Abandoned(c)' <=> Abandoned(c)
         /\ Best(c, CountedTimeline(c))' = Best(c, CountedTimeline(c)')
         /\ \A k : Replayed(k, c, CountedTimeline(c))' = Replayed(k, c, CountedTimeline(c)')
<1>1. \A k : Content(k)' = Content(k) /\ CellsOf(k)' = CellsOf(k)
             /\ AffectedCells(k)' = AffectedCells(k) /\ (IsHead(k)' <=> IsHead(k))
  BY DEF Content, CellsOf, AffectedCells, IsHead
<1>2. \A j, k : Before(j, k)' <=> Before(j, k)
  BY <1>1 DEF Before
<1>3. Best(c, CountedTimeline(c))' = Best(c, CountedTimeline(c)')
  BY <1>1 DEF Best
<1>4. ASSUME NEW k
      PROVE  Replayed(k, c, CountedTimeline(c))' = Replayed(k, c, CountedTimeline(c)')
  <2>1. {j \in CountedTimeline(c) : Before(j, k)}' = {j \in CountedTimeline(c)' : Before(j, k)}
    BY <1>2
  <2>2. Best(c, {j \in CountedTimeline(c) : Before(j, k)})'
          = Best(c, {j \in CountedTimeline(c)' : Before(j, k)})
    BY <1>1, <2>1 DEF Best
  <2> QED
    BY <1>1, <2>2 DEF Replayed
<1> QED
  BY <1>1, <1>3, <1>4 DEF Abandoned

\* The revision in its chronological place is the last one, and what came
\* before it is as it was.
LEMMA CellIncremental ==
  ASSUME TypeOK, Placed, OneAtATime, NEW w \in Workers, ClassifyIncremental(w),
         NEW c \in Cells, CellInv(c)
  PROVE  CellInv(c)'
<1>0. PICK k \in Revisions : k = job[w]
  BY JobParts DEF ClassifyIncremental
<1> DEFINE ks == CountedTimeline(c)
           mine == IF Content(k).fit THEN CellsOf(k) ELSE {}
           v == Content(k).value
<1>1. /\ phase[w] = "incremental" /\ IsHead(k) /\ k \in processed /\ Exists(k)
      /\ k[1] \notin Absorbed /\ k[2] = 1 /\ v \in Nat /\ Content(k).fit \in BOOLEAN
  BY <1>0, JobParts, ContentTyped DEF ClassifyIncremental, Placed, JobInv, WayInv
<1>2. /\ phase' = [phase EXCEPT ![w] = "settling"]
      /\ UNCHANGED <<data, processed, job, queueVars>>
      /\ \A j : Content(j)' = Content(j) /\ CellsOf(j)' = CellsOf(j)
                /\ AffectedCells(j)' = AffectedCells(j)
  BY DEF ClassifyIncremental, Content, CellsOf, AffectedCells
<1>3. /\ live'[c] = IF c \in mine /\ v < live[c] THEN v ELSE live[c]
      /\ c \in mine => outcome'[k][c] = Compare(v, live[c])
      /\ \A j \in Revisions : j # k => outcome'[j] = outcome[j]
  <2>1. live'[c] = IF c \in mine /\ v < live[c] THEN v ELSE live[c]
    BY <1>0 DEF ClassifyIncremental
  <2>2. outcome' = [outcome EXCEPT ![k] =
          [d \in Cells |-> IF d \in mine THEN Compare(v, live[d]) ELSE outcome[k][d]]]
    BY <1>0 DEF ClassifyIncremental
  <2>3. \A j \in Revisions : j # k => outcome'[j] = outcome[j]
    BY <2>2 DEF TypeOK
  <2>4. outcome'[k] = [d \in Cells |-> IF d \in mine THEN Compare(v, live[d]) ELSE outcome[k][d]]
    BY <2>2 DEF TypeOK
  <2> HIDE DEF v, mine
  <2>5. c \in mine => outcome'[k][c] = Compare(v, live[c])
    BY <2>4
  <2> QED
    BY <2>1, <2>3, <2>5
\* What is counted now.
<1>4. /\ ~Counted(k) /\ Counted(k)'
      /\ \A j \in Revisions : j # k => (Counted(j)' <=> Counted(j))
  <2>1. holder[k[1]] = w /\ k = <<k[1], settled[k[1]] + 1>>
    BY <1>0, <1>1, RevisionParts DEF OneAtATime, Placed, HolderInv
  <2>2. ~ (k[2] <= settled[k[1]])
    <3>1. settled[k[1]] \in Nat
      BY RevisionParts, TimelineBoundsAssumption DEF TypeOK, TimelineBoundsAssumption
    <3> QED
      BY <1>1, <2>1, <3>1
  <2>3. \A u \in Workers : phase[u] = "settling" => u = w
    BY <1>1 DEF OneAtATime
  <2>4. ~Counted(k)
    BY <1>1, <2>2, <2>3 DEF Counted
  <2>5. \A u \in Workers : phase'[u] = IF u = w THEN "settling" ELSE phase[u]
    BY <1>2 DEF TypeOK
  <2>6. Counted(k)'
    BY <1>0, <1>1, <1>2, <2>5 DEF Counted, IsHead
  <2>7. \A j \in Revisions : j # k => (Counted(j)' <=> Counted(j))
    BY <1>0, <1>1, <1>2, <2>5 DEF Counted, IsHead, queueVars
  <2> QED
    BY <2>4, <2>6, <2>7
<1>5. CountedTimeline(c)' = IF c \in mine THEN ks \cup {k} ELSE ks
  BY <1>2, <1>4 DEF CountedTimeline
<1>6. \A j \in ks : j \in Revisions /\ Exists(j) /\ j # k /\ outcome'[j] = outcome[j]
  BY <1>3, <1>4, CountedExists DEF CountedTimeline
<1>7. ASSUME c \in mine, NEW j \in ks
      PROVE  Before(j, k) /\ ~Before(k, j)
  <2>1. j \in CurrentTimeline(c) /\ IsHead(j)
    BY CountedExists DEF CountedTimeline, CurrentTimeline, Counted
  <2>2. c \in CellsOf(k) /\ ~OutOfOrder(k)
    BY <1>0, <1>1, <1>7 DEF OneAtATime
  <2>3. ~Before(k, j)
    BY <1>6, <2>1, <2>2 DEF OutOfOrder
  <2>4. j[1] # k[1]
    BY <1>1, <1>6, <2>1, TwoHeads
  <2> QED
    BY <1>1, <1>6, <2>3, <2>4, BeforeOrders
<1>8. ~Before(k, k)
  BY <1>1, BeforeOrders
<1>9. ASSUME CellRight(c)
      PROVE  CellRight(c)'
  <2> HIDE DEF mine, v
  <2>1. CASE c \in mine
    <3>1. live[c] = Best(c, ks) /\ \A j \in ks : outcome[j][c] = Replayed(j, c, ks)
      BY <1>9 DEF CellRight
    <3>2. \A j \in ks \cup {k} : {i \in ks \cup {k} : Before(i, j)}
                                   = IF j = k THEN ks ELSE {i \in ks : Before(i, j)}
      BY <1>6, <1>7, <1>8, <2>1
    <3>3. \A j \in ks \cup {k} : Replayed(j, c, ks \cup {k})
                                   = IF j = k THEN Compare(v, Best(c, ks)) ELSE Replayed(j, c, ks)
      BY <3>2 DEF Replayed, v
    <3>4. \A j \in ks \cup {k} : outcome'[j][c] = Replayed(j, c, ks \cup {k})
      BY <1>3, <1>6, <2>1, <3>1, <3>3
    <3>5. live'[c] = Best(c, ks \cup {k})
      <4>1. \A j \in ks : Exists(j)
        BY <1>6
      <4>2. Best(c, ks \cup {k}) = IF v < Best(c, ks) THEN v ELSE Best(c, ks)
        <5> HIDE DEF ks
        <5> QED
          BY <1>1, <4>1, BestAdded DEF v
      <4> QED
        BY <1>3, <2>1, <3>1, <4>2
    <3> QED
      BY <1>2, <1>5, <2>1, <3>4, <3>5, DataStay DEF CellRight
  <2>2. CASE c \notin mine
    <3>1. live'[c] = live[c] /\ CountedTimeline(c)' = ks
      BY <1>3, <1>5, <2>2
    <3> QED
      BY <1>2, <1>6, <1>9, <3>1, DataStay DEF CellRight
  <2> QED
    BY <2>1, <2>2
<1>10. ASSUME ToRepair(c)
       PROVE  ToRepair(c)'
  <2>1. PICK r \in Results \ Absorbed, n \in 2 .. MaxRevision :
          n = Len(data[r]) /\ ~Counted(<<r, n>>) /\ c \in AffectedCells(<<r, n>>)
    BY <1>10 DEF ToRepair
  <2>2. <<r, n>> \in Revisions /\ <<r, n>> # k
    <3>1. n \in 1 .. MaxRevision /\ n # 1
      BY TimelineBoundsAssumption DEF TimelineBoundsAssumption
    <3> QED
      BY <1>1, <3>1, RevisionParts
  <2> QED
    BY <1>2, <1>4, <2>1, <2>2 DEF ToRepair
<1>11. Abandoned(c) => Abandoned(c)'
  BY <1>2 DEF Abandoned
<1> QED
  BY <1>9, <1>10, <1>11 DEF CellInv

\* A repair makes the cells it affects right: whatever has a projection is
\* counted with it.
LEMMA CellRepair ==
  ASSUME TypeOK, Placed, OneAtATime, NEW w \in Workers, RepairTimelines(w),
         NEW c \in Cells, CellInv(c)
  PROVE  CellInv(c)'
<1>0. PICK k \in Revisions : k = job[w]
  BY JobParts DEF RepairTimelines
<1>1. /\ phase[w] = "repair" /\ IsHead(k) /\ k \in processed /\ k[1] \notin Absorbed
  BY <1>0 DEF RepairTimelines, Placed, JobInv, WayInv
<1>2. /\ phase' = [phase EXCEPT ![w] = "settling"]
      /\ UNCHANGED <<data, processed, job, queueVars>>
  BY DEF RepairTimelines
<1>3. /\ live'[c] = IF c \in AffectedCells(k) THEN Best(c, CurrentTimeline(c)) ELSE live[c]
      /\ \A j \in Revisions :
           outcome'[j][c] = IF c \in AffectedCells(k) /\ j \in CurrentTimeline(c)
                              THEN Replayed(j, c, CurrentTimeline(c)) ELSE outcome[j][c]
  BY <1>0 DEF RepairTimelines
<1>4. \A u \in Workers : phase'[u] = IF u = w THEN "settling" ELSE phase[u]
  BY <1>2 DEF TypeOK
<1>5. \A j \in Revisions : Counted(j) => Counted(j)'
  BY <1>2, <1>4 DEF Counted, IsHead, queueVars
<1>6. \A j \in Revisions : j # k /\ Counted(j)' => Counted(j)
  BY <1>0, <1>2, CountedStep
<1>7. CASE c \in AffectedCells(k)
  <2>1. ASSUME NEW j \in CurrentTimeline(c)
        PROVE  Counted(j)'
    <3>1. j \in Revisions /\ j \in processed /\ IsHead(j) /\ j[1] \notin Absorbed
      BY DEF CurrentTimeline, TypeOK
    <3>2. j[2] <= settled[j[1]] \/ job[w] = j
      BY <1>1, <3>1 DEF OneAtATime
    <3> QED
      BY <1>2, <1>4, <3>1, <3>2 DEF Counted, IsHead, queueVars
  <2>2. ASSUME NEW j \in Revisions, Counted(j)'
        PROVE  j \in processed /\ IsHead(j) /\ j[1] \notin Absorbed
    <3>1. j \in processed
      BY <1>1, <1>6, <2>2, CountedProcessed
    <3> QED
      BY <1>2, <2>2, <3>1 DEF Counted, IsHead
  <2>3. \A j \in CurrentTimeline(c) : j \in Revisions /\ Content(j).fit /\ c \in CellsOf(j)
    BY DEF CurrentTimeline, TypeOK
  <2>4. CountedTimeline(c)' = CurrentTimeline(c)
    <3>1. CountedTimeline(c)' \subseteq CurrentTimeline(c)
      BY <1>2, <2>2, DataStay DEF CountedTimeline, CurrentTimeline
    <3>2. CurrentTimeline(c) \subseteq CountedTimeline(c)'
      BY <1>2, <2>1, <2>3, DataStay DEF CountedTimeline
    <3> QED
      BY <3>1, <3>2
  <2>5. CellRight(c)'
    BY <1>2, <1>3, <1>7, <2>3, <2>4, DataStay DEF CellRight
  <2> QED
    BY <2>5 DEF CellInv
<1>8. CASE c \notin AffectedCells(k)
  <2>1. CountedTimeline(c)' = CountedTimeline(c)
    <3>1. c \notin CellsOf(k)
      BY <1>8 DEF AffectedCells
    <3> QED
      BY <1>2, <1>5, <1>6, <3>1, DataStay DEF CountedTimeline
  <2>2. CellRight(c) => CellRight(c)'
    BY <1>2, <1>3, <1>8, <2>1, DataStay DEF CellRight, CountedTimeline
  <2>3. ToRepair(c) => ToRepair(c)'
    <3>1. SUFFICES ASSUME NEW r \in Results \ Absorbed, NEW n \in 2 .. MaxRevision,
                          n = Len(data[r]), ~Counted(<<r, n>>), c \in AffectedCells(<<r, n>>)
                   PROVE  ToRepair(c)'
      BY DEF ToRepair
    <3>2. <<r, n>> \in Revisions /\ <<r, n>> # k
      <4>1. n \in 1 .. MaxRevision
        BY TimelineBoundsAssumption DEF TimelineBoundsAssumption
      <4> QED
        BY <1>8, <3>1, <4>1, RevisionParts
    <3>3. AffectedCells(<<r, n>>)' = AffectedCells(<<r, n>>)
      BY <1>2, DataStay
    <3> QED
      BY <1>2, <1>6, <3>1, <3>2, <3>3 DEF ToRepair
  <2>4. Abandoned(c) => Abandoned(c)'
    BY <1>2, DataStay
  <2> QED
    BY <2>2, <2>3, <2>4 DEF CellInv
<1> QED
  BY <1>7, <1>8

\* The quiet steps, while nothing is disturbed: what was counted stays so.
LEMMA CellQuiet ==
  ASSUME TypeOK, Placed, OneAtATime, Quiet, ~disturbed', NEW c \in Cells, CellInv(c)
  PROVE  CellInv(c)'
<1>1. CASE \E r \in Results : AddRevision(r)
  BY <1>1, CellAdd
<1>2. CASE ~ \E r \in Results : AddRevision(r)
  <2>1. UNCHANGED data
    BY <1>2 DEF Quiet, vars, Claim, Materialize, ChooseWay, RollBack, ClassifyStaleHistorical,
                Settle, Fail
  <2>2. ASSUME NEW k \in Revisions, Counted(k)
        PROVE  Counted(k)'
    <3>1. CASE UNCHANGED vars
      BY <2>2, <3>1 DEF vars, workerVars, queueVars, Counted, IsHead
    <3>2. ASSUME NEW w \in Workers, NEW ph \in Phases, phase[w] # "settling",
                 phase' = [phase EXCEPT ![w] = ph],
                 UNCHANGED <<data, settled>>, \A u \in Workers \ {w} : job'[u] = job[u]
          PROVE  Counted(k)'
      BY <2>2, <3>2 DEF Counted, IsHead, TypeOK
    <3>3. ASSUME NEW w \in Workers, Claim(w)
          PROVE  Counted(k)'
      <4>1. phase' = [phase EXCEPT ![w] = "loaded"] /\ \A u \in Workers \ {w} : job'[u] = job[u]
        BY <3>3 DEF Claim, TypeOK
      <4> QED
        BY <3>2, <3>3, <4>1 DEF Claim, Phases
    <3>4. ASSUME NEW w \in Workers, Materialize(w) \/ RollBack(w) \/ ClassifyStaleHistorical(w)
          PROVE  Counted(k)'
      BY <3>2, <3>4 DEF Materialize, RollBack, ClassifyStaleHistorical, queueVars, Phases
    <3>5. ASSUME NEW w \in Workers, ChooseWay(w)
          PROVE  Counted(k)'
      BY <3>2, <3>5, Ways DEF ChooseWay, queueVars, Phases
    <3>6. ASSUME NEW w \in Workers, Settle(w)
          PROVE  Counted(k)'
      <4>1. /\ phase[w] = "settling" /\ holder[job[w][1]] = w /\ job[w] \in Revisions
            /\ \A u \in Workers : phase[u] = "settling" => u = w
        BY <3>6, JobParts DEF Settle, OneAtATime
      <4>2. settled' = [settled EXCEPT ![job[w][1]] = @ + 1] /\ job[w][1] \in Results
        BY <3>6, <4>1, RevisionParts DEF Settle
      <4>3. /\ \A q \in Results : settled[q] \in Nat
            /\ \A q \in Results : settled'[q] = IF q = job[w][1] THEN settled[q] + 1 ELSE settled[q]
        BY <4>2, TimelineBoundsAssumption DEF TypeOK, TimelineBoundsAssumption
      <4>4. job[w] = <<job[w][1], settled[job[w][1]] + 1>>
        BY <4>1, <4>2 DEF Placed, HolderInv
      <4>5. k[2] <= settled'[k[1]]
        <5>1. k[1] \in Results /\ k[2] \in Nat
          BY RevisionParts
        <5>2. CASE k[2] <= settled[k[1]]
          BY <4>3, <5>1, <5>2
        <5>3. CASE job[w] = k
          <6>1. k[2] = settled[k[1]] + 1
            BY <4>4, <5>3
          <6> QED
            BY <4>3, <5>1, <5>3, <6>1
        <5> QED
          BY <2>2, <4>1, <5>2, <5>3 DEF Counted
      <4> QED
        BY <2>1, <2>2, <4>5 DEF Counted, IsHead
    <3>7. ASSUME NEW w \in Workers, Fail(w)
          PROVE  FALSE
      BY <3>7 DEF Fail
    <3> QED
      BY <1>2, <3>1, <3>3, <3>4, <3>5, <3>6, <3>7 DEF Quiet
  <2>3. \A k \in Revisions : Counted(k)' <=> Counted(k)
    BY <2>2, CountedQuiet
  <2>4. \A k \in Revisions : Counted(k) => outcome'[k] = outcome[k]
    BY OutcomeQuiet, CountedProcessed DEF Counted
  <2> QED
    BY <2>1, <2>3, <2>4, OutcomeQuiet, CellFrame
<1> QED
  BY <1>1, <1>2

LEMMA OutOfOrderStays ==
  ASSUME UNCHANGED <<data, processed, job>>
  PROVE  \A w : OutOfOrder(job[w])' <=> OutOfOrder(job[w])
<1>1. ASSUME NEW c
      PROVE  CurrentTimeline(c)' = CurrentTimeline(c)
  BY DEF CurrentTimeline, CellsOf, Content, IsHead
<1>2. \A j, k : Before(j, k)' <=> Before(j, k)
  BY DEF Before, Content
<1>3. \A k : CellsOf(k)' = CellsOf(k)
  BY DEF CellsOf, Content
<1>4. ASSUME NEW w
      PROVE  OutOfOrder(job[w])' <=> OutOfOrder(job[w])
  <2>1. PICK k : k = job[w]
    OBVIOUS
  <2>2. OutOfOrder(k)' <=> OutOfOrder(k)
    BY <1>1, <1>2, <1>3 DEF OutOfOrder
  <2>3. OutOfOrder(job[w])' <=> OutOfOrder(k)'
    BY <2>1 DEF OutOfOrder, Before, CurrentTimeline, CellsOf, Content, IsHead
  <2> QED
    BY <2>1, <2>2, <2>3
<1> QED
  BY <1>4

LEMMA OneAtATimeStep ==
  ASSUME TypeOK, Placed, OneAtATime, [Next]_vars, ~disturbed'
  PROVE  OneAtATime'
<1>1. CASE UNCHANGED vars
  BY <1>1 DEF vars, workerVars, queueVars, OneAtATime, OutOfOrder, CurrentTimeline, CellsOf,
              Content, Before, IsHead
<1>2. ASSUME NEW r \in Results, AddRevision(r)
      PROVE  OneAtATime'
  <2>1. UNCHANGED <<processed, settled, holder, phase, job>>
    BY <1>2 DEF AddRevision, workerVars, queueVars
  <2>2. ASSUME NEW k, Exists(k), OutOfOrder(k)'
        PROVE  OutOfOrder(k)
    <3>1. PICK c \in CellsOf(k)' : \E j \in CurrentTimeline(c)' : j # k /\ Before(k, j)'
      BY <2>2 DEF OutOfOrder
    <3>2. PICK j \in CurrentTimeline(c)' : j # k /\ Before(k, j)'
      BY <3>1
    <3>3. Exists(j) /\ j \in processed /\ IsHead(j)' /\ j[1] \in Results /\ j[2] \in Nat
      BY <2>1, RevisionParts DEF CurrentTimeline, Placed, RowInv, Exists
    <3>4. /\ Content(j)' = Content(j) /\ CellsOf(j)' = CellsOf(j)
          /\ Content(k)' = Content(k) /\ CellsOf(k)' = CellsOf(k)
      BY <1>2, <2>2, <3>3, AddedRevision
    <3>5. IsHead(j)
      <4>1. /\ \A q \in Results : Len(data'[q]) = IF q = r THEN Len(data[r]) + 1 ELSE Len(data[q])
            /\ \A q \in Results : Len(data[q]) \in Nat
        BY <1>2, AddedRevision DEF TypeOK
      <4> QED
        BY <3>3, <4>1 DEF IsHead, Exists
    <3>6. j \in CurrentTimeline(c) /\ Before(k, j)
      BY <3>2, <3>3, <3>4, <3>5 DEF CurrentTimeline, Before
    <3> QED
      BY <3>2, <3>4, <3>6 DEF OutOfOrder
  <2>3. \A w \in Workers : phase[w] = "incremental" => ~OutOfOrder(job[w])'
    <3>1. ASSUME NEW w \in Workers, phase[w] = "incremental"
          PROVE  ~OutOfOrder(job[w])'
      <4>1. PICK k : k = job[w]
        OBVIOUS
      <4>2. Exists(k) /\ ~OutOfOrder(k)
        BY <3>1, <4>1, JobParts DEF OneAtATime
      <4>3. ~OutOfOrder(k)'
        BY <2>2, <4>2
      <4> QED
        BY <2>1, <4>1, <4>3
    <3> QED
      BY <3>1
  <2> QED
    BY <2>1, <2>3 DEF OneAtATime
<1>3. ASSUME NEW w \in Workers, Claim(w)
      PROVE  OneAtATime'
  <2>1. /\ \A v \in Workers : phase[v] = "idle"
        /\ phase' = [phase EXCEPT ![w] = "loaded"] /\ UNCHANGED <<processed, settled>>
    BY <1>3 DEF Claim
  <2>2. PICK r \in Results : /\ holder' = [holder EXCEPT ![r] = w]
                             /\ job' = [job EXCEPT ![w] = <<r, settled[r] + 1>>]
    BY <1>3 DEF Claim
  <2>3. \A v \in Workers : phase'[v] = IF v = w THEN "loaded" ELSE "idle"
    BY <2>1 DEF TypeOK
  <2>4. job'[w] = <<r, settled[r] + 1>> /\ holder'[r] = w
    BY <2>2 DEF TypeOK
  <2>5. holder'[job'[w][1]] = w
    BY <2>4
  <2>6. \A j \in processed' : j[2] <= settled'[j[1]]
    BY <2>1 DEF OneAtATime
  <2> QED
    BY <2>3, <2>5, <2>6 DEF OneAtATime
<1>4. ASSUME NEW w \in Workers, NEW ph \in Phases \ {"idle", "incremental"}, phase[w] # "idle",
             phase' = [phase EXCEPT ![w] = ph], UNCHANGED <<settled, holder, job>>,
             processed' = processed \/ processed' = processed \cup {job[w]}
      PROVE  OneAtATime'
  <2>1. \A v \in Workers : phase'[v] = IF v = w THEN ph ELSE "idle"
    BY <1>4 DEF TypeOK, OneAtATime
  <2>2. \A v \in Workers : phase'[v] # "incremental"
    BY <1>4, <2>1
  <2>3. \A v \in Workers : phase'[v] # "idle" <=> phase[v] # "idle"
    BY <1>4, <2>1 DEF OneAtATime
  <2> QED
    BY <1>4, <2>2, <2>3 DEF OneAtATime
<1>5. ASSUME NEW w \in Workers,
             \/ Materialize(w) \/ RollBack(w) \/ ClassifyIncremental(w) \/ RepairTimelines(w)
             \/ ClassifyStaleHistorical(w)
      PROVE  OneAtATime'
  <2>1. /\ \/ phase' = [phase EXCEPT ![w] = "materialized"]
           \/ phase' = [phase EXCEPT ![w] = "historical"]
           \/ phase' = [phase EXCEPT ![w] = "settling"]
        /\ phase[w] # "idle" /\ UNCHANGED <<settled, holder, job>>
        /\ processed' = processed \/ processed' = processed \cup {job[w]}
    BY <1>5 DEF Materialize, RollBack, ClassifyIncremental, RepairTimelines,
                ClassifyStaleHistorical, queueVars
  <2> QED
    BY <1>4, <2>1 DEF Phases
<1>6. ASSUME NEW w \in Workers, ChooseWay(w)
      PROVE  OneAtATime'
  <2> DEFINE k == job[w]
             way == CASE seenHead[w] > k[2] \/ k[1] \in Absorbed -> "historical"
                      [] seenHead[w] <= k[2] /\ k[1] \notin Absorbed
                         /\ (k[2] > 1 \/ OutOfOrder(k))          -> "repair"
                      [] OTHER                                   -> "incremental"
  <2>1. /\ phase' = [phase EXCEPT ![w] = way] /\ phase[w] = "materialized"
        /\ UNCHANGED <<data, processed, job, settled, holder>>
    BY <1>6 DEF ChooseWay, queueVars
  <2>2. seenHead[w] \in Nat /\ k[2] \in Nat
    BY <2>1, JobParts, TimelineBoundsAssumption DEF TypeOK, TimelineBoundsAssumption
  <2>3. way \in {"historical", "repair", "incremental"}
    OBVIOUS
  <2>4. way = "incremental" => ~OutOfOrder(k)
    BY <2>2
  <2>5. CASE way # "incremental"
    <3> HIDE DEF way, k
    <3> QED
      BY <1>4, <2>1, <2>3, <2>5 DEF Phases
  <2>6. CASE way = "incremental"
    <3>1. \A v \in Workers : phase'[v] = IF v = w THEN "incremental" ELSE "idle"
      BY <2>1, <2>6 DEF TypeOK, OneAtATime
    <3>2. ~OutOfOrder(job[w])'
      <4>1. ~OutOfOrder(job[w]) /\ UNCHANGED <<data, processed, job>>
        BY <2>1, <2>4, <2>6
      <4> HIDE DEF way, k
      <4> QED
        BY <4>1, OutOfOrderStays
    <3> HIDE DEF way, k
    <3> QED
      BY <2>1, <3>1, <3>2 DEF OneAtATime
  <2> QED
    BY <2>5, <2>6
<1>7. ASSUME NEW w \in Workers, Settle(w)
      PROVE  OneAtATime'
  <2>1. /\ phase[w] = "settling" /\ holder[job[w][1]] = w /\ UNCHANGED processed
        /\ phase' = [phase EXCEPT ![w] = "idle"]
    BY <1>7 DEF Settle, Return, OneAtATime
  <2>2. \A v \in Workers : phase'[v] = "idle"
    BY <2>1 DEF TypeOK, OneAtATime
  <2>3. job[w][1] \in Results /\ settled' = [settled EXCEPT ![job[w][1]] = @ + 1]
    BY <1>7, <2>1, JobParts DEF Settle
  <2>4. /\ \A q \in Results : settled[q] \in Nat
        /\ \A q \in Results : settled'[q] = IF q = job[w][1] THEN settled[q] + 1 ELSE settled[q]
    BY <2>3, TimelineBoundsAssumption DEF TypeOK, TimelineBoundsAssumption
  <2>5. job[w] = <<job[w][1], settled[job[w][1]] + 1>>
    BY <2>1, <2>3 DEF Placed, HolderInv
  <2>6. ASSUME NEW j \in processed
        PROVE  j[2] <= settled'[j[1]]
    <3>1. j[1] \in Results /\ j[2] \in Nat
      BY RevisionParts DEF TypeOK
    <3>2. CASE j[2] <= settled[j[1]]
      BY <2>4, <3>1, <3>2
    <3>3. CASE job[w] = j
      <4>1. j[2] = settled[j[1]] + 1
        BY <2>5, <3>3
      <4> QED
        BY <2>4, <3>1, <3>3, <4>1
    <3> QED
      BY <2>1, <3>2, <3>3 DEF OneAtATime
  <2> QED
    BY <2>1, <2>2, <2>6 DEF OneAtATime
<1>8. ASSUME NEW w \in Workers, Fail(w)
      PROVE  FALSE
  BY <1>8 DEF Fail
<1> QED
  BY <1>1, <1>2, <1>3, <1>5, <1>6, <1>7, <1>8 DEF Next

LEMMA OutcomeStep ==
  ASSUME TypeOK, Placed, OutcomeInv, [Next]_vars
  PROVE  OutcomeInv'
<1>1. SUFFICES ASSUME ~disturbed'
               PROVE  OneAtATime' /\ \A c \in Cells : CellInv(c)'
  BY DEF OutcomeInv
<1>2. ~disturbed
  BY <1>1 DEF Next, vars, queueVars, AddRevision, Claim, Materialize, ChooseWay, RollBack,
              ClassifyIncremental, RepairTimelines, ClassifyStaleHistorical, Settle, Fail
<1>3. OneAtATime /\ \A c \in Cells : CellInv(c)
  BY <1>2 DEF OutcomeInv
<1>4. OneAtATime'
  BY <1>1, <1>3, OneAtATimeStep
<1>5. ASSUME NEW c \in Cells
      PROVE  CellInv(c)'
  <2>1. CASE Quiet
    BY <1>1, <1>3, <2>1, CellQuiet
  <2>2. ASSUME NEW w \in Workers, ClassifyIncremental(w) \/ RepairTimelines(w)
        PROVE  CellInv(c)'
    BY <1>3, <2>2, CellIncremental, CellRepair
  <2> QED
    BY <2>1, <2>2, QuietOrLive
<1> QED
  BY <1>4, <1>5

LEMMA InitOutcome ==
  ASSUME Init
  PROVE  OutcomeInv
<1>1. TypeOK /\ Placed
  BY InitPlaced
<1>2. OneAtATime
  BY DEF Init, OneAtATime
<1>3. ASSUME NEW c \in Cells
      PROVE  CellRight(c)
  <2>1. CountedTimeline(c) = {}
    <3>1. \A k : ~Counted(k)
      BY <1>1, CountedProcessed DEF Init
    <3> QED
      BY <3>1 DEF CountedTimeline
  <2>2. Best(c, {}) = Baseline[c]
    BY <1>1, BestIsLeast
  <2> QED
    BY <2>1, <2>2 DEF CellRight, Init
<1> QED
  BY <1>2, <1>3 DEF OutcomeInv, CellInv

\* Until a worker fails or two are busy at once, the outcomes at rest are what
\* rebuilding them would give, but for cells a result has left behind: the
\* "incremental correctness oracle" of classification.
THEOREM SpecOutcomesUnlessDisturbed == Spec => []OutcomesUnlessDisturbed
<1>1. ASSUME TypeOK, Placed, OutcomeInv, Quiescent, ~disturbed, NEW c \in Cells, ~LeftBehind(c)
      PROVE  OutcomesRight(c)
  <2>1. ~Abandoned(c)
    BY <1>1 DEF Abandoned, LeftBehind
  <2>2. \A k \in Revisions : IsHead(k) /\ k[1] \notin Absorbed => Counted(k)
    <3>1. ASSUME NEW k \in Revisions, IsHead(k), k[1] \notin Absorbed
          PROVE  k[2] <= settled[k[1]]
      BY <1>1, <3>1, RevisionParts, TimelineBoundsAssumption
         DEF Quiescent, IsHead, TypeOK, TimelineBoundsAssumption
    <3> QED
      BY <3>1 DEF Counted
  <2>3. ~ToRepair(c)
    <3>1. SUFFICES ASSUME NEW r \in Results \ Absorbed, NEW n \in 2 .. MaxRevision,
                          n = Len(data[r]), ~Counted(<<r, n>>)
                   PROVE  FALSE
      BY DEF ToRepair
    <3>2. n \in 1 .. MaxRevision
      BY TimelineBoundsAssumption DEF TimelineBoundsAssumption
    <3> QED
      BY <2>2, <3>1, <3>2, RevisionParts DEF IsHead
  <2>4. CellRight(c)
    BY <1>1, <2>1, <2>3 DEF OutcomeInv, CellInv
  <2>5. CountedTimeline(c) = TrueTimeline(c)
    <3>1. \A k \in Revisions : Counted(k) <=> IsHead(k) /\ k[1] \notin Absorbed
      BY <2>2 DEF Counted
    <3>2. \A k \in Revisions : IsHead(k) => Len(data[k[1]]) > 0
      BY RevisionParts DEF IsHead
    <3> QED
      BY <3>1, <3>2 DEF CountedTimeline, TrueTimeline
  <2> QED
    BY <2>4, <2>5 DEF CellRight, OutcomesRight
<1>2. TypeOK /\ Placed /\ OutcomeInv => OutcomesUnlessDisturbed
  BY <1>1 DEF OutcomesUnlessDisturbed
<1>3. Init => TypeOK /\ Placed /\ OutcomeInv
  BY InitPlaced, InitOutcome
<1>4. TypeOK /\ Placed /\ OutcomeInv /\ [Next]_vars => TypeOK' /\ Placed' /\ OutcomeInv'
  BY TypeStep, PlacedStep, OutcomeStep
<1> QED
  BY <1>2, <1>3, <1>4, PTL DEF Spec
=============================================================================
