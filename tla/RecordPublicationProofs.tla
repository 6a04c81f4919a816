----------------------- MODULE RecordPublicationProofs -----------------------
(***************************************************************************)
(* Recognition and publication leave the timelines alone: every behaviour  *)
(* of RecordPublication is one of RecordTimeline, so that what is proved   *)
(* of its live cells and outcomes holds here.  Recognition follows the     *)
(* outcomes; every recognized record is announced, but for the named       *)
(* losses, and a revision that is worked on once at one level at most.     *)
(***************************************************************************)
EXTENDS RecordPublication, RecordTimelineProofs

LEMMA TimelineStep ==
  ASSUME [PublicationNext]_allVars
  PROVE  [Next]_vars
<1>1. CASE Ingest
  BY <1>1 DEF Ingest, Next
<1>2. ASSUME NEW w \in Workers, Proceed(w) \/ MaterializeResult(w)
      PROVE  Next
  BY <1>2 DEF Proceed, MaterializeResult, Next
<1>3. ASSUME NEW w \in Workers,
             AdjudicateIncremental(w) \/ AdjudicateRepaired(w) \/ RecognizeHistorical(w)
      PROVE  Next
  BY <1>3 DEF AdjudicateIncremental, AdjudicateRepaired, RecognizeHistorical, Next
<1>4. ASSUME NEW w \in Workers, Finish(w) \/ BreakOff(w)
      PROVE  Next
  BY <1>4 DEF Finish, BreakOff, Next
<1>5. ASSUME NEW w \in Workers, SelectRows(w) \/ ReadRow(w) \/ PublishRow(w) \/ PublishFails(w)
      PROVE  UNCHANGED vars
  BY <1>5 DEF SelectRows, ReadRow, PublishRow, PublishFails
<1>6. CASE UNCHANGED allVars
  BY <1>6 DEF allVars
<1> QED
  BY <1>1, <1>2, <1>3, <1>4, <1>5, <1>6 DEF PublicationNext

\* The classifier with recognition and publication is the classifier of
\* RecordTimeline: no step of theirs is seen in the timelines (classification.py).
THEOREM SpecImplementsTimeline == PublicationSpec => Spec
<1>1. PublicationInit => Init
  BY DEF PublicationInit
<1> QED
  BY <1>1, TimelineStep, PTL DEF PublicationSpec, Spec

\* Once all work is settled the live cells are what a rebuild would give, but
\* for cells a result has left behind, whatever is published.
THEOREM SpecPublicationKeepsLive == PublicationSpec => []LiveUnlessLeftBehind
  BY SpecImplementsTimeline, SpecLiveUnlessLeftBehind, PTL

\* And somebody is credited with every live record that beats the export.
THEOREM SpecPublicationKeepsHolder == PublicationSpec => []RecordHasHolder
  BY SpecImplementsTimeline, SpecRecordHasHolder, PTL

-----------------------------------------------------------------------------
(* One level each.  A worker that has written the projection of a revision *)
(* is the only one that works on it, unless the revision is worked on      *)
(* twice, and once it has announced it, it announces nothing more.         *)

AtWork(w) == phase[w] \notin {"idle", "loaded"}

AlertTypes ==
  /\ due \in [Workers -> BOOLEAN]
  /\ rows \in [Workers -> SUBSET Cells]
  /\ reading \in [Workers -> Cells \cup {None}]
  /\ events \subseteq Revisions \X Cells

\* Publication follows the classification, and its steps each other.
StepsInTurn ==
  \A w \in Workers :
    /\ Publishing(w) => phase[w] = "settling"
    /\ due[w] => rows[w] = {} /\ reading[w] = None

AtWorkProcessed == \A w \in Workers : AtWork(w) => job[w] \in processed

SilentUnprocessed == \A k \in Revisions \ processed : Alerts(k) = {}

OneAtWork ==
  \A v, w \in Workers :
    AtWork(v) /\ AtWork(w) /\ job[v] = job[w] /\ job[v] \notin retried => v = w

SilentOnceAnnounced ==
  \A w \in Workers :
    AtWork(w) /\ job[w] \notin retried /\ Alerts(job[w]) # {}
    => phase[w] = "settling" /\ ~Publishing(w)

OnceInv ==
  /\ AlertTypes /\ StepsInTurn /\ AtWorkProcessed /\ SilentUnprocessed
  /\ OneAtWork /\ SilentOnceAnnounced /\ OneLevelEach

LEMMA InitOnce == PublicationInit => OnceInv
  BY DEF PublicationInit, Init, OnceInv, AlertTypes, StepsInTurn, AtWorkProcessed,
         SilentUnprocessed, OneAtWork, SilentOnceAnnounced, OneLevelEach, AtWork,
         Publishing, Alerts

\* A step without an alert that brings no worker to work on a revision, keeps
\* revisions and alerts, and leaves silent who has announced.
LEMMA OnceQuiet ==
  ASSUME OnceInv, NEW w \in Workers, AlertTypes', StepsInTurn',
         \A v \in Workers \ {w} : /\ phase'[v] = phase[v] /\ job'[v] = job[v]
                                  /\ Publishing(v)' = Publishing(v),
         AtWork(w)' => AtWork(w) /\ job'[w] = job[w],
         phase[w] = "settling" /\ AtWork(w)' /\ ~Publishing(w) =>
           phase'[w] = "settling" /\ ~Publishing(w)',
         events' = events, retried' = retried, processed' = processed
  PROVE  OnceInv'
<1> USE DEF OnceInv
<1>1. \A k : Alerts(k)' = Alerts(k)
  BY DEF Alerts
<1>2. \A v \in Workers : AtWork(v)' => AtWork(v) /\ job'[v] = job[v]
  BY DEF AtWork
<1>3. AtWorkProcessed'
  BY <1>2 DEF AtWorkProcessed
<1>4. SilentUnprocessed'
  BY <1>1 DEF SilentUnprocessed
<1>5. OneAtWork'
  BY <1>2 DEF OneAtWork
<1>6. SilentOnceAnnounced'
  <2>1. SUFFICES ASSUME NEW v \in Workers, AtWork(v)', job'[v] \notin retried, Alerts(job'[v]) # {}
                 PROVE  phase'[v] = "settling" /\ ~Publishing(v)'
    BY <1>1 DEF SilentOnceAnnounced
  <2>2. phase[v] = "settling" /\ ~Publishing(v)
    BY <2>1, <1>2 DEF SilentOnceAnnounced
  <2> QED
    BY <2>1, <2>2
<1>7. OneLevelEach'
  BY <1>1 DEF OneLevelEach
<1> QED
  BY <1>3, <1>4, <1>5, <1>6, <1>7

LEMMA OnceMaterialized ==
  ASSUME TypeOK, Placed, OnceInv, NEW w \in Workers, MaterializeResult(w)
  PROVE  OnceInv'
<1> USE DEF OnceInv
<1>1. /\ phase[w] = "loaded" /\ phase' = [phase EXCEPT ![w] = "materialized"]
      /\ job' = job /\ processed' = processed \cup {job[w]} /\ events' = events
      /\ due' = due /\ rows' = rows /\ reading' = reading
      /\ retried' = IF job[w] \in processed THEN retried \cup {job[w]} ELSE retried
  BY DEF MaterializeResult, Materialize, alertVars
<1>2. job[w] \in Revisions
  BY <1>1, JobParts
<1>3. \A v \in Workers : phase'[v] = IF v = w THEN "materialized" ELSE phase[v]
  BY <1>1 DEF TypeOK
<1>4. (\A k : Alerts(k)' = Alerts(k)) /\ \A v : Publishing(v)' = Publishing(v)
  BY <1>1 DEF Alerts, Publishing
<1>5. AlertTypes' /\ StepsInTurn'
  BY <1>1, <1>3, <1>4 DEF AlertTypes, StepsInTurn
<1>6. AtWorkProcessed' /\ SilentUnprocessed'
  BY <1>1, <1>3, <1>4 DEF AtWorkProcessed, SilentUnprocessed, AtWork
<1>7. job[w] \notin retried' =>
        /\ Alerts(job[w]) = {}
        /\ \A v \in Workers : AtWork(v) => job[v] # job[w]
  BY <1>1, <1>2 DEF SilentUnprocessed, AtWorkProcessed
<1>8. OneAtWork'
  <2>1. SUFFICES ASSUME NEW u \in Workers, NEW v \in Workers, AtWork(u)', AtWork(v)',
                        job[u] = job[v], job[u] \notin retried', u # v
                 PROVE  FALSE
    BY <1>1 DEF OneAtWork
  <2>2. job[u] \notin retried
    BY <1>1, <2>1
  <2>3. CASE u # w /\ v # w
    BY <1>3, <2>1, <2>2, <2>3 DEF AtWork, OneAtWork
  <2>4. CASE u = w \/ v = w
    BY <1>3, <1>7, <2>1, <2>4 DEF AtWork
  <2> QED
    BY <2>3, <2>4
<1>9. SilentOnceAnnounced'
  <2>1. SUFFICES ASSUME NEW v \in Workers, AtWork(v)', job[v] \notin retried', Alerts(job[v]) # {}
                 PROVE  phase'[v] = "settling" /\ ~Publishing(v)
    BY <1>1, <1>4 DEF SilentOnceAnnounced
  <2>2. v # w /\ job[v] \notin retried
    BY <1>1, <1>7, <2>1
  <2> QED
    BY <1>3, <2>1, <2>2 DEF AtWork, SilentOnceAnnounced
<1>10. OneLevelEach'
  BY <1>1, <1>4 DEF OneLevelEach
<1> QED
  BY <1>5, <1>6, <1>8, <1>9, <1>10

LEMMA OncePublished ==
  ASSUME TypeOK, Placed, OnceInv, NEW w \in Workers, PublishRow(w)
  PROVE  OnceInv'
<1> USE DEF OnceInv
<1>1. /\ reading[w] # None /\ reading' = [reading EXCEPT ![w] = None]
      /\ phase' = phase /\ job' = job /\ processed' = processed /\ data' = data
      /\ due' = due /\ retried' = retried
  BY DEF PublishRow, historyVars, vars, workerVars
<1>2. phase[w] = "settling" /\ AtWork(w) /\ Publishing(w) /\ ~due[w] /\ reading[w] \in Cells
  BY <1>1 DEF StepsInTurn, Publishing, AtWork, AlertTypes
<1>3. job[w] \in Revisions /\ job[w] \in processed
  BY <1>2, JobParts DEF AtWorkProcessed
<1>4. CASE IsHead(job[w])
  <2>1. events' = events \cup {<<job[w], reading[w]>>} /\ rows' = [rows EXCEPT ![w] = {}]
    BY <1>4 DEF PublishRow
  <2>2. AlertTypes' /\ StepsInTurn'
    BY <1>1, <1>2, <1>3, <2>1 DEF AlertTypes, StepsInTurn, Publishing
  <2>3. \A k \in Revisions :
          Alerts(k)' = IF k = job[w] THEN Alerts(k) \cup {reading[w]} ELSE Alerts(k)
    BY <1>2, <2>1 DEF Alerts
  <2>4. AtWorkProcessed' /\ SilentUnprocessed' /\ OneAtWork'
    BY <1>1, <1>3, <2>3 DEF AtWorkProcessed, SilentUnprocessed, OneAtWork, AtWork
  <2>5. ~Publishing(w)'
    BY <1>1, <1>2, <2>1 DEF Publishing, AlertTypes
  <2>6. SilentOnceAnnounced'
    <3>1. SUFFICES ASSUME NEW v \in Workers, AtWork(v), job[v] \notin retried, Alerts(job[v])' # {}
                   PROVE  phase[v] = "settling" /\ ~Publishing(v)'
      BY <1>1 DEF SilentOnceAnnounced, AtWork
    <3>2. CASE job[v] = job[w]
      BY <1>2, <2>5, <3>1, <3>2 DEF OneAtWork
    <3>3. CASE job[v] # job[w]
      <4>1. Alerts(job[v])' = Alerts(job[v])
        BY <1>1, <2>1, <3>3 DEF Alerts
      <4>2. phase[v] = "settling" /\ ~Publishing(v)
        BY <3>1, <4>1 DEF SilentOnceAnnounced
      <4> QED
        BY <1>1, <2>1, <3>3, <4>2 DEF Publishing, AlertTypes
    <3> QED
      BY <3>2, <3>3
  <2>7. job[w] \notin retried => Alerts(job[w]) = {}
    BY <1>2 DEF SilentOnceAnnounced
  <2>8. OneLevelEach'
    BY <1>1, <2>3, <2>7 DEF OneLevelEach
  <2> QED
    BY <2>2, <2>4, <2>6, <2>8
<1>5. CASE ~IsHead(job[w])
  <2>1. events' = events /\ rows' = rows
    BY <1>5 DEF PublishRow
  <2>2. AlertTypes' /\ StepsInTurn'
    BY <1>1, <1>2, <2>1 DEF AlertTypes, StepsInTurn, Publishing
  <2>3. \A v \in Workers \ {w} : Publishing(v)' = Publishing(v)
    BY <1>1, <2>1 DEF Publishing, AlertTypes
  <2> QED
    BY <1>1, <1>2, <2>1, <2>2, <2>3, OnceQuiet DEF AtWork
<1> QED
  BY <1>4, <1>5

LEMMA OnceStep ==
  ASSUME TypeOK, Placed, OnceInv, [PublicationNext]_allVars
  PROVE  OnceInv'
<1> USE DEF OnceInv
<1>1. CASE UNCHANGED <<phase, job, processed, due, rows, reading, events, retried>>
  BY <1>1 DEF AlertTypes, StepsInTurn, AtWorkProcessed, SilentUnprocessed, OneAtWork,
              SilentOnceAnnounced, OneLevelEach, AtWork, Publishing, Alerts
<1>2. CASE Ingest \/ UNCHANGED allVars
  BY <1>1, <1>2 DEF Ingest, AddRevision, publicationVars, alertVars, historyVars, workerVars,
                    allVars, vars
<1>3. ASSUME NEW w \in Workers, Proceed(w) \/ RecognizeHistorical(w) \/ Finish(w)
      PROVE  OnceInv'
  <2>1. /\ UNCHANGED <<due, rows, reading, events, retried, processed>>
        /\ \A v \in Workers : Publishing(v)' = Publishing(v)
    BY <1>3 DEF Proceed, Claim, ChooseWay, RollBack, RecognizeHistorical, Finish,
                ClassifyStaleHistorical, Settle, publicationVars, alertVars, historyVars, Publishing
  <2>2. /\ phase[w] # "settling" \/ ~Publishing(w)
        /\ \E ph : phase' = [phase EXCEPT ![w] = ph] /\ (Publishing(w) => ph = "settling")
        /\ \A v \in Workers \ {w} : job'[v] = job[v]
        /\ phase'[w] \notin {"idle", "loaded"} => AtWork(w) /\ job'[w] = job[w]
        /\ phase[w] = "settling" => phase'[w] = "idle"
    <3>1. CASE Claim(w)
      BY <3>1 DEF Claim, TypeOK, StepsInTurn
    <3>2. CASE ChooseWay(w)
      BY <3>2 DEF ChooseWay, TypeOK, StepsInTurn, AtWork
    <3>3. CASE RollBack(w)
      BY <3>3 DEF RollBack, TypeOK, StepsInTurn, AtWork
    <3>4. CASE RecognizeHistorical(w)
      BY <3>4 DEF RecognizeHistorical, ClassifyStaleHistorical, TypeOK, StepsInTurn, AtWork
    <3>5. CASE Finish(w)
      BY <3>5 DEF Finish, Settle, Return, TypeOK, StepsInTurn
    <3> QED
      BY <1>3, <3>1, <3>2, <3>3, <3>4, <3>5 DEF Proceed
  <2>3. \A v \in Workers \ {w} : phase'[v] = phase[v]
    BY <2>2 DEF TypeOK
  <2>4. AlertTypes'
    BY <2>1 DEF AlertTypes
  <2>5. StepsInTurn'
    BY <2>1, <2>2, <2>3 DEF StepsInTurn, TypeOK
  <2> QED
    BY <2>1, <2>2, <2>3, <2>4, <2>5, OnceQuiet DEF AtWork
<1>4. ASSUME NEW w \in Workers, AdjudicateIncremental(w) \/ AdjudicateRepaired(w)
      PROVE  OnceInv'
  <2>1. /\ phase[w] \in {"incremental", "repair"} /\ phase' = [phase EXCEPT ![w] = "settling"]
        /\ \E b \in BOOLEAN : due' = [due EXCEPT ![w] = b]
        /\ UNCHANGED <<job, processed, rows, reading, events, retried>>
    <3>1. TypeOK /\ Content(job[w]).fit \in BOOLEAN
      <4>1. phase[w] # "idle"
        BY <1>4 DEF AdjudicateIncremental, AdjudicateRepaired, ClassifyIncremental, RepairTimelines
      <4> QED
        BY <4>1, JobParts, ContentTyped
    <3> QED
      BY <1>4, <3>1 DEF AdjudicateIncremental, AdjudicateRepaired, ClassifyIncremental,
                        RepairTimelines, Due
  <2>2. ~Publishing(w)
    BY <2>1 DEF StepsInTurn
  <2>3. \A v \in Workers \ {w} : phase'[v] = phase[v] /\ Publishing(v)' = Publishing(v)
    BY <2>1 DEF TypeOK, AlertTypes, Publishing
  <2>4. AlertTypes'
    BY <2>1 DEF AlertTypes
  <2>5. StepsInTurn'
    BY <2>1, <2>2, <2>3 DEF StepsInTurn, TypeOK, AlertTypes, Publishing
  <2> QED
    BY <2>1, <2>3, <2>4, <2>5, OnceQuiet DEF AtWork
<1>5. ASSUME NEW w \in Workers, BreakOff(w)
      PROVE  OnceInv'
  <2>1. /\ phase' = [phase EXCEPT ![w] = "idle"] /\ job' = [job EXCEPT ![w] = <<>>]
        /\ due' = [due EXCEPT ![w] = FALSE] /\ rows' = [rows EXCEPT ![w] = {}]
        /\ reading' = [reading EXCEPT ![w] = None]
        /\ UNCHANGED <<processed, events, retried>>
    BY <1>5 DEF BreakOff, Fail, Return, historyVars
  <2>2. \A v \in Workers \ {w} :
          phase'[v] = phase[v] /\ job'[v] = job[v] /\ Publishing(v)' = Publishing(v)
    BY <2>1 DEF TypeOK, AlertTypes, Publishing
  <2>3. ~AtWork(w)' /\ ~Publishing(w)'
    BY <2>1 DEF TypeOK, AlertTypes, Publishing, AtWork
  <2>4. AlertTypes'
    BY <2>1 DEF AlertTypes
  <2>5. StepsInTurn'
    BY <2>1, <2>2, <2>3 DEF StepsInTurn, AlertTypes
  <2> QED
    BY <2>1, <2>2, <2>3, <2>4, <2>5, OnceQuiet
<1>6. ASSUME NEW w \in Workers, SelectRows(w) \/ ReadRow(w) \/ PublishFails(w)
      PROVE  OnceInv'
  <2>1. UNCHANGED <<phase, job, processed, events, retried>>
    BY <1>6 DEF SelectRows, ReadRow, PublishFails, vars, workerVars, historyVars
  <2>2. Publishing(w)
    BY <1>6 DEF SelectRows, ReadRow, PublishFails, Publishing
  <2>3. /\ AlertTypes' /\ (due'[w] => rows'[w] = {} /\ reading'[w] = None)
        /\ \A v \in Workers \ {w} : due'[v] = due[v] /\ rows'[v] = rows[v] /\ reading'[v] = reading[v]
    <3>1. CASE SelectRows(w)
      BY <3>1 DEF SelectRows, AlertTypes, Worthy
    <3>2. CASE ReadRow(w)
      BY <3>2 DEF ReadRow, AlertTypes, StepsInTurn
    <3>3. CASE PublishFails(w)
      BY <3>3 DEF PublishFails, AlertTypes, StepsInTurn
    <3> QED
      BY <1>6, <3>1, <3>2, <3>3
  <2>4. \A v \in Workers \ {w} : Publishing(v)' = Publishing(v)
    BY <2>3 DEF Publishing
  <2>5. StepsInTurn'
    BY <2>1, <2>2, <2>3, <2>4 DEF StepsInTurn
  <2> QED
    BY <2>1, <2>2, <2>3, <2>4, <2>5, OnceQuiet DEF AtWork
<1> QED
  BY <1>2, <1>3, <1>4, <1>5, <1>6, OnceMaterialized, OncePublished DEF PublicationNext

\* No revision is announced at two levels, unless it was worked on twice
\* (publish_processed_result_after_commit).
THEOREM SpecOneLevelEach == PublicationSpec => []OneLevelEach
<1>1. PublicationInit => TypeOK /\ Placed /\ OnceInv
  BY InitPlaced, InitOnce DEF PublicationInit
<1>2. TypeOK /\ Placed /\ OnceInv /\ [PublicationNext]_allVars
      => TypeOK' /\ Placed' /\ OnceInv'
  BY TimelineStep, TypeStep, PlacedStep, OnceStep
<1>3. OnceInv => OneLevelEach
  BY DEF OnceInv
<1> QED
  BY <1>1, <1>2, <1>3, PTL DEF PublicationSpec

\* Until a worker fails or two are busy at once, the outcomes at rest are what
\* rebuilding them would give, but for cells a result has left behind.
THEOREM SpecPublicationKeepsOutcomes == PublicationSpec => []OutcomesUnlessDisturbed
  BY SpecImplementsTimeline, SpecOutcomesUnlessDisturbed, PTL

-----------------------------------------------------------------------------
(* Recognition.  A cell is adjudicated by its outcomes as they are, unless *)
(* a head that is not counted yet is to have it adjudicated again.         *)

CellRecognized(c) ==
  \A k \in CurrentTimeline(c) :
    recognition[k][c] = Adjudicated(k, c, CurrentTimeline(c), outcome)

ToAdjudicate(c) ==
  \E r \in Results \ Absorbed : \E n \in 1 .. MaxRevision :
    /\ n = Len(data[r]) /\ ~Counted(<<r, n>>) /\ c \in AffectedCells(<<r, n>>)
    /\ n > 1 \/ Content(<<r, n>>).fit

RecognitionCell(c) == Abandoned(c) \/ ToAdjudicate(c) \/ CellRecognized(c)

RowTypes ==
  /\ recognition \in [Revisions -> [Cells -> Recognitions]]
  /\ lost \cup retried \cup reinstated \subseteq processed
  /\ \A k \in Revisions, c \in Cells :
       recognition[k][c] = "recognized" => k \in processed /\ outcome[k][c] # "none"

RecognitionInv == RowTypes /\ \A c \in Cells : RecognitionCell(c)

LEMMA AdjudicatedFacts ==
  \A k, c, timeline, outcomes :
    /\ Adjudicated(k, c, timeline, outcomes) \in Recognitions
    /\ Adjudicated(k, c, timeline, outcomes) = "recognized" =>
         k \in timeline /\ outcomes[k][c] # "none"
  BY DEF Adjudicated, Recognitions

\* The adjudication of a timeline depends on its own outcomes only.
LEMMA AdjudicatedSame ==
  ASSUME UNCHANGED data, NEW c, CurrentTimeline(c)' = CurrentTimeline(c),
         \A k \in CurrentTimeline(c) : outcome'[k][c] = outcome[k][c]
  PROVE  \A k : /\ Adjudicated(k, c, CurrentTimeline(c), outcome)'
                     = Adjudicated(k, c, CurrentTimeline(c), outcome')
                /\ Adjudicated(k, c, CurrentTimeline(c), outcome')
                     = Adjudicated(k, c, CurrentTimeline(c), outcome)
<1>1. \A j, k : (SameRound(j, k)' <=> SameRound(j, k)) /\ (SameDay(j, k)' <=> SameDay(j, k))
                /\ Content(k)' = Content(k)
  BY DEF SameRound, SameDay, Content
<1>2. {j \in CurrentTimeline(c) : outcome'[j][c] # "none"}
        = {j \in CurrentTimeline(c) : outcome[j][c] # "none"}
  OBVIOUS
<1>3. ASSUME NEW k
      PROVE  Adjudicated(k, c, CurrentTimeline(c), outcome)'
               = Adjudicated(k, c, CurrentTimeline(c), outcome')
  BY <1>1 DEF Adjudicated
<1>4. ASSUME NEW k
      PROVE  Adjudicated(k, c, CurrentTimeline(c), outcome')
               = Adjudicated(k, c, CurrentTimeline(c), outcome)
  BY <1>2 DEF Adjudicated
<1> QED
  BY <1>3, <1>4

\* The rows of some of the affected cells, of all if the revision is to count
\* there or to be taken out of them, are adjudicated by the outcomes just written.
Adjudicates(w, cells) ==
  /\ cells \subseteq AffectedCells(job[w])
  /\ job[w][2] > 1 \/ Content(job[w]).fit => cells = AffectedCells(job[w])
  /\ recognition' = [k \in Revisions |-> [c \in Cells |->
       IF c \in cells /\ k \in CurrentTimeline(c)
         THEN Adjudicated(k, c, CurrentTimeline(c), outcome')
         ELSE recognition[k][c]]]
  /\ \A k \in Revisions, c \in Cells :
       ~ (c \in cells /\ k \in CurrentTimeline(c)) => outcome'[k][c] = outcome[k][c]

\* What a classifying transaction does.
LEMMA AdjudicatingStep ==
  ASSUME TypeOK, Placed, NEW w \in Workers, AdjudicateIncremental(w) \/ AdjudicateRepaired(w)
  PROVE  /\ phase[w] \in {"incremental", "repair"} /\ phase' = [phase EXCEPT ![w] = "settling"]
         /\ UNCHANGED <<data, processed, job, queueVars, rows, reading, events, lost, retried>>
         /\ job[w] \in Revisions /\ job[w] \in processed /\ IsHead(job[w])
         /\ job[w][1] \notin Absorbed /\ Content(job[w]).fit \in BOOLEAN
         /\ due' = [due EXCEPT ![w] = Content(job[w]).fit]
         /\ Reinstated(w)
         /\ \E cells : Adjudicates(w, cells)
<1>1. PICK k \in Revisions : k = job[w]
  BY JobParts DEF AdjudicateIncremental, AdjudicateRepaired, ClassifyIncremental, RepairTimelines
<1>2. /\ phase[w] \in {"incremental", "repair"} /\ phase' = [phase EXCEPT ![w] = "settling"]
      /\ UNCHANGED <<data, processed, job, queueVars, rows, reading, events, lost, retried>>
      /\ IsHead(k) /\ due' = [due EXCEPT ![w] = Content(k).fit] /\ Reinstated(w)
  BY <1>1 DEF AdjudicateIncremental, AdjudicateRepaired, ClassifyIncremental, RepairTimelines, Due
<1>3. k \in processed /\ k[1] \notin Absorbed /\ Content(k).fit \in BOOLEAN /\ k[2] \in Nat
      /\ CellsOf(k) \subseteq Cells
  BY <1>1, <1>2, JobParts, ContentTyped DEF Placed, JobInv, WayInv
<1>4. ASSUME AdjudicateIncremental(w)
      PROVE  \E cells : Adjudicates(w, cells)
  <2> DEFINE cells == IF Content(k).fit THEN CellsOf(k) ELSE {}
  <2>1. phase[w] = "incremental"
    BY <1>4 DEF AdjudicateIncremental, ClassifyIncremental
  <2>2. k[2] = 1 /\ AffectedCells(k) = CellsOf(k)
    BY <1>1, <2>1 DEF Placed, WayInv, AffectedCells
  <2>3. recognition' = [j \in Revisions |-> [c \in Cells |->
          IF c \in cells /\ j \in CurrentTimeline(c)
            THEN Adjudicated(j, c, CurrentTimeline(c), outcome') ELSE recognition[j][c]]]
    BY <1>1, <1>4 DEF AdjudicateIncremental, Adjudicate
  <2>4. outcome' = [outcome EXCEPT ![k] = [c \in Cells |->
          IF c \in cells THEN Compare(Content(k).value, live[c]) ELSE outcome[k][c]]]
    BY <1>1, <1>4 DEF AdjudicateIncremental, ClassifyIncremental
  <2>5. \A c \in cells : k \in CurrentTimeline(c)
    BY <1>2, <1>3 DEF CurrentTimeline
  <2>6. cells \in SUBSET AffectedCells(k) /\ (k[2] > 1 \/ Content(k).fit => cells = AffectedCells(k))
    BY <2>2
  <2> HIDE DEF cells
  <2>7. \A j \in Revisions, c \in Cells :
          ~ (c \in cells /\ j \in CurrentTimeline(c)) => outcome'[j][c] = outcome[j][c]
    <3>1. \A j \in Revisions : j # k => outcome'[j] = outcome[j]
      BY <2>4 DEF TypeOK
    <3>2. \A c \in Cells : c \notin cells => outcome'[k][c] = outcome[k][c]
      BY <2>4 DEF TypeOK
    <3> QED
      BY <2>5, <3>1, <3>2
  <2> QED
    BY <1>1, <2>3, <2>6, <2>7 DEF Adjudicates
<1>5. ASSUME AdjudicateRepaired(w)
      PROVE  \E cells : Adjudicates(w, cells)
  <2>0. PICK cells \in SUBSET AffectedCells(k) : cells = AffectedCells(k)
    OBVIOUS
  <2>1. recognition' = [j \in Revisions |-> [c \in Cells |->
          IF c \in cells /\ j \in CurrentTimeline(c)
            THEN Adjudicated(j, c, CurrentTimeline(c), outcome') ELSE recognition[j][c]]]
    BY <1>1, <1>5, <2>0 DEF AdjudicateRepaired, Adjudicate
  <2>2. outcome' = [j \in Revisions |-> [c \in Cells |->
          IF c \in cells /\ j \in CurrentTimeline(c)
            THEN Replayed(j, c, CurrentTimeline(c)) ELSE outcome[j][c]]]
    BY <1>1, <1>5, <2>0 DEF AdjudicateRepaired, RepairTimelines
  <2>3. \A j \in Revisions, c \in Cells :
          ~ (c \in cells /\ j \in CurrentTimeline(c)) => outcome'[j][c] = outcome[j][c]
    BY <2>2
  <2> QED
    BY <1>1, <2>0, <2>1, <2>3 DEF Adjudicates
<1> QED
  BY <1>1, <1>2, <1>3, <1>4, <1>5

\* A head that is to be counted has its cells adjudicated.
LEMMA AdjudicateLater ==
  ASSUME TypeOK, NEW k \in Revisions, IsHead(k), ~Counted(k), k[1] \notin Absorbed,
         NEW c \in AffectedCells(k), k[2] > 1 \/ Content(k).fit
  PROVE  ToAdjudicate(c)
<1>1. k[1] \in Results \ Absorbed /\ k[2] \in 1 .. MaxRevision /\ k = <<k[1], k[2]>>
  BY RevisionParts
<1> QED
  BY <1>1 DEF ToAdjudicate, IsHead

LEMMA ToAdjudicateStays ==
  ASSUME UNCHANGED data, NEW c, \A k \in Revisions : Counted(k)' => Counted(k)
  PROVE  ToAdjudicate(c) => ToAdjudicate(c)'
<1>1. \A r \in Results, n \in 1 .. MaxRevision : <<r, n>> \in Revisions
  BY RevisionParts
<1> QED
  BY <1>1, DataStay DEF ToAdjudicate

\* Steps that keep data, what is counted and the rows of heads.
LEMMA RecognitionFrame ==
  ASSUME TypeOK, Placed, UNCHANGED data, NEW c \in Cells, RecognitionCell(c),
         CurrentTimeline(c)' = CurrentTimeline(c),
         \A k \in Revisions : Counted(k)' => Counted(k),
         \A k \in CurrentTimeline(c) : /\ outcome'[k][c] = outcome[k][c]
                                       /\ recognition'[k][c] = recognition[k][c]
  PROVE  RecognitionCell(c)'
<1>1. CellRecognized(c) => CellRecognized(c)'
  BY AdjudicatedSame DEF CellRecognized
<1>2. ToAdjudicate(c) => ToAdjudicate(c)'
  BY ToAdjudicateStays
<1>3. Abandoned(c) => Abandoned(c)'
  BY DataStay
<1> QED
  BY <1>1, <1>2, <1>3 DEF RecognitionCell

LEMMA RecognitionAdd ==
  ASSUME TypeOK, Placed, NEW r \in Results, AddRevision(r), recognition' = recognition,
         NEW c \in Cells, RecognitionCell(c)
  PROVE  RecognitionCell(c)'
<1>1. /\ \A q \in Results : Len(data'[q]) = IF q = r THEN Len(data[r]) + 1 ELSE Len(data[q])
      /\ \A k : Exists(k) => Exists(k)' /\ Content(k)' = Content(k) /\ CellsOf(k)' = CellsOf(k)
      /\ \A q \in Results : Len(data[q]) \in Nat
  BY AddedRevision DEF TypeOK
<1>2. UNCHANGED <<outcome, processed>>
  BY DEF AddRevision
<1>3. ToRepair(c)' => ToAdjudicate(c)'
  <2>1. \A n \in 2 .. MaxRevision : n \in 1 .. MaxRevision /\ n > 1
    BY TimelineBoundsAssumption DEF TimelineBoundsAssumption
  <2> QED
    BY <2>1 DEF ToRepair, ToAdjudicate
<1>4. ToRepair(c) \/ Abandoned(c) => RecognitionCell(c)'
  BY <1>3, AddMoves DEF RecognitionCell
<1>5. CASE ToAdjudicate(c) /\ ~ToRepair(c)
  <2>1. PICK q \in Results \ Absorbed, n \in 1 .. MaxRevision :
          /\ n = Len(data[q]) /\ ~Counted(<<q, n>>) /\ c \in AffectedCells(<<q, n>>)
          /\ n > 1 \/ Content(<<q, n>>).fit
    BY <1>5 DEF ToAdjudicate
  <2>2. <<q, n>> \in Revisions /\ <<q, n>>[1] = q /\ <<q, n>>[2] = n
    BY <2>1, RevisionParts
  <2>3. n = 1
    <3>1. SUFFICES ASSUME n # 1
                   PROVE  FALSE
      OBVIOUS
    <3>2. n \in 2 .. MaxRevision
      BY <3>1, TimelineBoundsAssumption DEF TimelineBoundsAssumption
    <3> QED
      BY <1>5, <2>1, <3>2 DEF ToRepair
  <2>4. CASE q = r
    <3>1. c \in CellsOf(<<q, n>>) /\ IsHead(<<q, n>>)
      <4>1. AffectedCells(<<q, n>>) = CellsOf(<<q, n>>)
        BY <2>2, <2>3 DEF AffectedCells
      <4> QED
        BY <2>1, <2>2, <4>1 DEF IsHead
    <3> QED
      BY <1>3, <2>1, <2>2, <2>4, <3>1, AddMoves DEF RecognitionCell
  <2>5. CASE q # r
    <3>1. /\ AffectedCells(<<q, n>>)' = AffectedCells(<<q, n>>)
          /\ Content(<<q, n>>)' = Content(<<q, n>>) /\ Len(data'[q]) = n
      BY <2>1, <2>5, AddMoves
    <3>2. ~Counted(<<q, n>>)'
      BY <2>1, <2>2, CountedAdd
    <3> QED
      BY <2>1, <3>1, <3>2 DEF ToAdjudicate, RecognitionCell
  <2> QED
    BY <2>4, <2>5
<1>6. CASE CellRecognized(c) /\ ~ToRepair(c)'
  <2>1. \A k \in CurrentTimeline(c) : k \in Revisions /\ Exists(k) /\ k[1] # r
    BY <1>6, AddMoves, CurrentExists DEF CurrentTimeline, TypeOK
  <2>2. \A k \in CurrentTimeline(c) : IsHead(k)'
    BY <1>1, <2>1, RevisionParts DEF CurrentTimeline, IsHead
  <2>3. ASSUME NEW k \in CurrentTimeline(c)'
        PROVE  k \in CurrentTimeline(c)
    <3>1. k \in processed /\ Exists(k) /\ IsHead(k)' /\ k[1] \in Results /\ k[2] \in Nat
      BY <1>2, <2>3, RevisionParts DEF CurrentTimeline, Placed, RowInv, Exists
    <3>2. IsHead(k)
      BY <1>1, <3>1 DEF IsHead, Exists
    <3> QED
      BY <1>1, <2>3, <3>1, <3>2 DEF CurrentTimeline
  <2>4. CurrentTimeline(c)' = CurrentTimeline(c)
    BY <1>1, <1>2, <2>1, <2>2, <2>3 DEF CurrentTimeline
  <2>5. ASSUME NEW k \in CurrentTimeline(c)
        PROVE  Adjudicated(k, c, CurrentTimeline(c), outcome)'
                 = Adjudicated(k, c, CurrentTimeline(c), outcome)
    <3>1. \A j \in CurrentTimeline(c) : Content(j)' = Content(j)
      BY <1>1, <2>1
    <3>2. \A j \in CurrentTimeline(c) :
            (SameRound(j, k)' <=> SameRound(j, k)) /\ (SameDay(j, k)' <=> SameDay(j, k))
      BY <3>1 DEF SameRound, SameDay
    <3> QED
      BY <1>2, <2>4, <3>1, <3>2 DEF Adjudicated
  <2>6. CellRecognized(c)'
    BY <1>6, <2>4, <2>5 DEF CellRecognized
  <2> QED
    BY <2>6 DEF RecognitionCell
<1> QED
  BY <1>3, <1>4, <1>5, <1>6 DEF RecognitionCell

LEMMA RecognitionAdjudicated ==
  ASSUME TypeOK, Placed, NEW w \in Workers, AdjudicateIncremental(w) \/ AdjudicateRepaired(w),
         NEW c \in Cells, RecognitionCell(c)
  PROVE  RecognitionCell(c)'
<1>1. /\ phase' = [phase EXCEPT ![w] = "settling"] /\ UNCHANGED <<data, processed, job, queueVars>>
      /\ job[w] \in Revisions
  BY AdjudicatingStep
<1>2. PICK cells : Adjudicates(w, cells)
  BY AdjudicatingStep
<1>3. CurrentTimeline(c)' = CurrentTimeline(c) /\ \A k \in CurrentTimeline(c) : k \in Revisions
  <2>1. processed \subseteq Revisions /\ processed' = processed
    BY <1>1 DEF TypeOK
  <2>2. \A k : Content(k)' = Content(k) /\ CellsOf(k)' = CellsOf(k) /\ (IsHead(k)' <=> IsHead(k))
    BY <1>1, DataStay
  <2> QED
    BY <2>1, <2>2 DEF CurrentTimeline
<1>4. \A k \in Revisions : recognition'[k][c] =
        IF c \in cells /\ k \in CurrentTimeline(c)
          THEN Adjudicated(k, c, CurrentTimeline(c), outcome') ELSE recognition[k][c]
  BY <1>2 DEF Adjudicates
<1>5. CASE c \in cells
  <2>1. \A j, k : /\ SameRound(j, k)' <=> SameRound(j, k)
                  /\ SameDay(j, k)' <=> SameDay(j, k)
                  /\ Content(k)' = Content(k)
    BY <1>1 DEF SameRound, SameDay, Content
  <2>2. \A k : Adjudicated(k, c, CurrentTimeline(c), outcome)'
                 = Adjudicated(k, c, CurrentTimeline(c), outcome')
    BY <1>3, <2>1 DEF Adjudicated
  <2>3. CellRecognized(c)'
    BY <1>3, <1>4, <1>5, <2>2 DEF CellRecognized
  <2> QED
    BY <2>3 DEF RecognitionCell
<1>6. CASE c \notin cells
  <2>1. \A k \in CurrentTimeline(c) : /\ outcome'[k][c] = outcome[k][c]
                                      /\ recognition'[k][c] = recognition[k][c]
    BY <1>2, <1>3, <1>4, <1>6 DEF Adjudicates
  <2>2. CellRecognized(c) => CellRecognized(c)'
    BY <1>1, <1>3, <2>1, AdjudicatedSame DEF CellRecognized
  <2>3. Abandoned(c) => Abandoned(c)'
    BY <1>1, DataStay
  <2>4. ASSUME ToAdjudicate(c)
        PROVE  ToAdjudicate(c)'
    <3>1. PICK q \in Results \ Absorbed, n \in 1 .. MaxRevision :
            /\ n = Len(data[q]) /\ ~Counted(<<q, n>>) /\ c \in AffectedCells(<<q, n>>)
            /\ n > 1 \/ Content(<<q, n>>).fit
      BY <2>4 DEF ToAdjudicate
    <3>2. <<q, n>> \in Revisions /\ <<q, n>>[2] = n
      BY <3>1, RevisionParts
    <3>3. <<q, n>> # job[w]
      BY <1>2, <1>6, <3>1, <3>2 DEF Adjudicates
    <3>4. ~Counted(<<q, n>>)'
      BY <1>1, <3>1, <3>2, <3>3, CountedStep
    <3> QED
      BY <1>1, <3>1, <3>4, DataStay DEF ToAdjudicate
  <2> QED
    BY <2>2, <2>3, <2>4 DEF RecognitionCell
<1> QED
  BY <1>5, <1>6

\* Steps of the publication, and those of the classifier that do not write rows.
LEMMA PublicationQuiet ==
  ASSUME TypeOK, NEW w \in Workers,
         \/ Proceed(w) \/ Finish(w) \/ BreakOff(w)
         \/ SelectRows(w) \/ ReadRow(w) \/ PublishRow(w) \/ PublishFails(w)
  PROVE  Quiet /\ UNCHANGED <<data, processed, outcome, recognition, historyVars>>
<1>1. CASE Proceed(w)
  BY <1>1 DEF Proceed, Claim, ChooseWay, RollBack, publicationVars, Quiet
<1>2. CASE Finish(w)
  BY <1>2 DEF Finish, Settle, publicationVars, Quiet
<1>3. CASE BreakOff(w)
  BY <1>3 DEF BreakOff, Fail, Quiet
<1>4. CASE SelectRows(w) \/ ReadRow(w) \/ PublishRow(w) \/ PublishFails(w)
  BY <1>4 DEF SelectRows, ReadRow, PublishRow, PublishFails, Quiet, vars
<1> QED
  BY <1>1, <1>2, <1>3, <1>4

LEMMA RecognitionMaterialized ==
  ASSUME TypeOK, Placed, NEW w \in Workers, MaterializeResult(w),
         NEW c \in Cells, RecognitionCell(c)
  PROVE  RecognitionCell(c)'
<1>1. PICK k \in Revisions : k = job[w]
  BY JobParts DEF MaterializeResult, Materialize
<1>2. /\ UNCHANGED <<data, outcome, recognition>> /\ processed' = processed \cup {k}
      /\ Quiet
  BY <1>1 DEF MaterializeResult, Materialize, Quiet
<1>3. \A j \in Revisions : Counted(j)' => Counted(j)
  BY <1>2, CountedQuiet
<1>4. \A j : Content(j)' = Content(j) /\ CellsOf(j)' = CellsOf(j) /\ (IsHead(j)' <=> IsHead(j))
  BY <1>2, DataStay
<1>5. CASE k \notin processed /\ IsHead(k) /\ Content(k).fit /\ c \in CellsOf(k) /\ k[1] \notin Absorbed
  <2>1. ~Counted(k) /\ c \in AffectedCells(k)
    BY <1>5, CountedProcessed DEF AffectedCells
  <2>2. ToAdjudicate(c)'
    BY <1>2, <1>3, <1>5, <2>1, AdjudicateLater, ToAdjudicateStays
  <2> QED
    BY <2>2 DEF RecognitionCell
<1>6. CASE ~ (k \notin processed /\ IsHead(k) /\ Content(k).fit /\ c \in CellsOf(k) /\ k[1] \notin Absorbed)
  <2>1. CurrentTimeline(c)' = CurrentTimeline(c)
    BY <1>2, <1>4, <1>6 DEF CurrentTimeline
  <2> QED
    BY <1>2, <1>3, <2>1, RecognitionFrame
<1> QED
  BY <1>5, <1>6

LEMMA RecognitionCellStep ==
  ASSUME TypeOK, Placed, [PublicationNext]_allVars, NEW c \in Cells, RecognitionCell(c)
  PROVE  RecognitionCell(c)'
<1>1. ASSUME UNCHANGED <<data, processed, outcome, recognition>>, Quiet
      PROVE  RecognitionCell(c)'
  <2>1. CurrentTimeline(c)' = CurrentTimeline(c)
    BY <1>1, DataStay DEF CurrentTimeline
  <2>2. \A k \in Revisions : Counted(k)' => Counted(k)
    BY <1>1, CountedQuiet
  <2> QED
    BY <1>1, <2>1, <2>2, RecognitionFrame
<1>2. CASE Ingest
  BY <1>2, RecognitionAdd DEF Ingest, publicationVars
<1>3. CASE UNCHANGED allVars
  <2>1. Quiet /\ UNCHANGED <<data, processed, outcome, recognition>>
    BY <1>3 DEF allVars, vars, publicationVars, Quiet
  <2> QED
    BY <1>1, <2>1
<1>4. ASSUME NEW w \in Workers, RecognizeHistorical(w)
      PROVE  RecognitionCell(c)'
  <2>1. PICK k \in Revisions : k = job[w]
    BY <1>4, JobParts DEF RecognizeHistorical, ClassifyStaleHistorical
  <2>2. /\ UNCHANGED <<data, processed>> /\ Quiet /\ (~IsHead(k) \/ k[1] \in Absorbed)
        /\ \A j \in Revisions : j # k => outcome'[j] = outcome[j] /\ recognition'[j] = recognition[j]
    <3>1. UNCHANGED <<data, processed>> /\ Quiet /\ (~IsHead(k) \/ k[1] \in Absorbed)
      BY <1>4, <2>1 DEF RecognizeHistorical, ClassifyStaleHistorical, Quiet, Placed, WayInv
    <3>2. \A j \in Revisions : j # k => outcome'[j] = outcome[j]
      BY <1>4, <2>1 DEF RecognizeHistorical, ClassifyStaleHistorical, TypeOK
    <3>3. \A j \in Revisions : j # k => recognition'[j] = recognition[j]
      BY <1>4, <2>1 DEF RecognizeHistorical
    <3> QED
      BY <3>1, <3>2, <3>3
  <2>3. \A j \in CurrentTimeline(c) : j \in Revisions /\ j # k
    BY <2>2 DEF CurrentTimeline, TypeOK
  <2>4. CurrentTimeline(c)' = CurrentTimeline(c)
    BY <2>2, DataStay DEF CurrentTimeline
  <2>5. \A j \in Revisions : Counted(j)' => Counted(j)
    BY <2>2, CountedQuiet
  <2> QED
    BY <2>2, <2>3, <2>4, <2>5, RecognitionFrame
<1>5. ASSUME NEW w \in Workers,
             \/ Proceed(w) \/ Finish(w) \/ BreakOff(w)
             \/ SelectRows(w) \/ ReadRow(w) \/ PublishRow(w) \/ PublishFails(w)
      PROVE  RecognitionCell(c)'
  BY <1>1, <1>5, PublicationQuiet
<1> QED
  BY <1>2, <1>3, <1>4, <1>5, RecognitionMaterialized, RecognitionAdjudicated DEF PublicationNext

LEMMA RowTypesAdjudicated ==
  ASSUME TypeOK, Placed, RowTypes, NEW w \in Workers,
         AdjudicateIncremental(w) \/ AdjudicateRepaired(w)
  PROVE  RowTypes'
<1>1. /\ UNCHANGED <<processed, lost, retried>> /\ Reinstated(w)
  BY AdjudicatingStep
<1>2. PICK cells : Adjudicates(w, cells)
  BY AdjudicatingStep
<1>3. recognition' = [k \in Revisions |-> [c \in Cells |->
        IF c \in cells /\ k \in CurrentTimeline(c)
          THEN Adjudicated(k, c, CurrentTimeline(c), outcome') ELSE recognition[k][c]]]
  BY <1>2 DEF Adjudicates
<1>4. recognition' \in [Revisions -> [Cells -> Recognitions]]
  BY <1>3, AdjudicatedFacts DEF RowTypes
<1>5. ASSUME NEW k \in Revisions, NEW c \in Cells, recognition'[k][c] = "recognized"
      PROVE  k \in processed /\ outcome'[k][c] # "none"
  <2>1. CASE c \in cells /\ k \in CurrentTimeline(c)
    <3>1. recognition'[k][c] = Adjudicated(k, c, CurrentTimeline(c), outcome')
      BY <1>3, <2>1
    <3> QED
      BY <1>5, <2>1, <3>1, AdjudicatedFacts DEF CurrentTimeline
  <2>2. CASE ~ (c \in cells /\ k \in CurrentTimeline(c))
    <3>1. recognition'[k][c] = recognition[k][c] /\ outcome'[k][c] = outcome[k][c]
      BY <1>2, <1>3, <2>2 DEF Adjudicates
    <3> QED
      BY <1>5, <3>1 DEF RowTypes
  <2> QED
    BY <2>1, <2>2
<1>6. reinstated' \subseteq processed
  BY <1>1, <1>5 DEF Reinstated, RowTypes
<1> QED
  BY <1>1, <1>4, <1>5, <1>6 DEF RowTypes

LEMMA RowTypesStep ==
  ASSUME TypeOK, Placed, OnceInv, RowTypes, [PublicationNext]_allVars
  PROVE  RowTypes'
<1>1. ASSUME UNCHANGED <<outcome, recognition>>, processed \subseteq processed',
             lost' \cup retried' \cup reinstated' \subseteq processed'
      PROVE  RowTypes'
  BY <1>1 DEF RowTypes
<1>2. CASE Ingest \/ UNCHANGED allVars
  BY <1>1, <1>2 DEF Ingest, AddRevision, publicationVars, alertVars, historyVars, allVars, vars,
                    RowTypes
<1>3. ASSUME NEW w \in Workers, MaterializeResult(w)
      PROVE  RowTypes'
  BY <1>1, <1>3 DEF MaterializeResult, Materialize, alertVars, RowTypes
<1>4. ASSUME NEW w \in Workers, RecognizeHistorical(w)
      PROVE  RowTypes'
  <2>1. PICK k \in Revisions : k = job[w] /\ k \in processed
    BY <1>4, JobParts DEF RecognizeHistorical, ClassifyStaleHistorical, OnceInv, AtWorkProcessed, AtWork
  <2>2. /\ UNCHANGED <<processed, lost, retried, reinstated>>
        /\ recognition' = [recognition EXCEPT ![k] = [c \in Cells |->
             IF outcome'[k][c] # "none" THEN "recognized" ELSE "not_applicable"]]
        /\ \E o : outcome' = [outcome EXCEPT ![k] = o]
    BY <1>4, <2>1 DEF RecognizeHistorical, ClassifyStaleHistorical, alertVars, historyVars
  <2>3. \A j \in Revisions : j # k => outcome'[j] = outcome[j] /\ recognition'[j] = recognition[j]
    BY <2>2 DEF RowTypes, TypeOK
  <2>4. \A c \in Cells : recognition'[k][c] = "recognized" => outcome'[k][c] # "none"
    BY <2>2 DEF RowTypes
  <2>5. recognition' \in [Revisions -> [Cells -> Recognitions]]
    BY <2>2 DEF RowTypes, Recognitions
  <2> QED
    BY <2>1, <2>2, <2>3, <2>4, <2>5 DEF RowTypes
<1>5. ASSUME NEW w \in Workers,
             \/ Proceed(w) \/ Finish(w) \/ BreakOff(w)
             \/ SelectRows(w) \/ ReadRow(w) \/ PublishRow(w) \/ PublishFails(w)
      PROVE  RowTypes'
  <2>1. UNCHANGED <<processed, outcome, recognition, retried, reinstated>>
    BY <1>5, PublicationQuiet DEF historyVars
  <2>2. lost' \subseteq processed
    <3>1. lost' = lost \/ (lost' = lost \cup {job[w]} /\ Publishing(w))
      BY <1>5 DEF Proceed, Finish, BreakOff, SelectRows, ReadRow, PublishRow, PublishFails,
                  publicationVars, alertVars, Publishing
    <3>2. Publishing(w) => job[w] \in processed
      BY DEF OnceInv, StepsInTurn, AtWorkProcessed, AtWork
    <3> QED
      BY <3>1, <3>2 DEF RowTypes
  <2> QED
    BY <1>1, <2>1, <2>2 DEF RowTypes
<1> QED
  BY <1>2, <1>3, <1>4, <1>5, RowTypesAdjudicated DEF PublicationNext

RowInvariant == TypeOK /\ Placed /\ OnceInv /\ RecognitionInv

LEMMA SpecRowInvariant == PublicationSpec => []RowInvariant
<1>1. PublicationInit => RowInvariant
  <2>1. ASSUME PublicationInit
        PROVE  TypeOK /\ Placed /\ OnceInv
    BY <2>1, InitPlaced, InitOnce DEF PublicationInit
  <2>2. ASSUME PublicationInit
        PROVE  RowTypes
    BY <2>2 DEF PublicationInit, Init, RowTypes, Recognitions
  <2>3. ASSUME PublicationInit, NEW c \in Cells
        PROVE  RecognitionCell(c)
    BY <2>3 DEF PublicationInit, Init, CurrentTimeline, CellRecognized, RecognitionCell
  <2> QED
    BY <2>1, <2>2, <2>3 DEF RowInvariant, RecognitionInv
<1>2. RowInvariant /\ [PublicationNext]_allVars => RowInvariant'
  BY TimelineStep, TypeStep, PlacedStep, OnceStep, RowTypesStep, RecognitionCellStep
     DEF RowInvariant, RecognitionInv
<1> QED
  BY <1>1, <1>2, PTL DEF PublicationSpec

\* In every reachable state the variables have their types.
THEOREM SpecPublicationTypeOK == PublicationSpec => []PublicationTypeOK
<1>1. RowInvariant => PublicationTypeOK
  BY DEF RowInvariant, RecognitionInv, RowTypes, OnceInv, AlertTypes, StepsInTurn, PublicationTypeOK
<1> QED
  BY <1>1, SpecRowInvariant, PTL

\* At rest every head is recognized, or superseded in its round or its day, as
\* adjudicating its cell once more would have it, but for cells a result has
\* left behind (_adjudicate_timeline).
THEOREM SpecRecognitionFollowsOutcomes == PublicationSpec => []RecognitionFollowsOutcomes
<1>1. ASSUME RowInvariant, Quiescent, NEW c \in Cells, ~LeftBehind(c), NEW k \in TrueTimeline(c)
      PROVE  recognition[k][c] = Adjudicated(k, c, TrueTimeline(c), outcome)
  <2> USE <1>1 DEF RowInvariant, RecognitionInv
  <2>1. ~Abandoned(c)
    BY DEF Abandoned, LeftBehind
  <2>2. ASSUME NEW j \in Revisions, IsHead(j), j[1] \notin Absorbed
        PROVE  Counted(j) /\ j \in processed
    <3>1. j[2] <= settled[j[1]]
      BY <2>2, RevisionParts, TimelineBoundsAssumption
         DEF Quiescent, IsHead, TypeOK, TimelineBoundsAssumption
    <3> QED
      BY <2>2, <3>1 DEF Counted, Placed, RowInv
  <2>3. ~ToAdjudicate(c)
    <3>1. SUFFICES ASSUME NEW r \in Results \ Absorbed, NEW n \in 1 .. MaxRevision,
                          n = Len(data[r]), ~Counted(<<r, n>>)
                   PROVE  FALSE
      BY DEF ToAdjudicate
    <3> QED
      BY <2>2, <3>1, RevisionParts DEF IsHead
  <2>4. CurrentTimeline(c) = TrueTimeline(c)
    <3>1. \A j \in processed : j \in Revisions /\ j[1] \in Results /\ j[2] \in Nat /\ j[2] > 0
      BY RevisionParts DEF TypeOK
    <3>2. CurrentTimeline(c) \subseteq TrueTimeline(c)
      BY <3>1 DEF CurrentTimeline, TrueTimeline, IsHead
    <3>3. TrueTimeline(c) \subseteq CurrentTimeline(c)
      BY <2>2 DEF CurrentTimeline, TrueTimeline
    <3> QED
      BY <3>2, <3>3
  <2>5. CellRecognized(c)
    BY <2>1, <2>3 DEF RecognitionCell
  <2> QED
    BY <2>4, <2>5 DEF CellRecognized
<1>2. RowInvariant => RecognitionFollowsOutcomes
  BY <1>1 DEF RecognitionFollowsOutcomes
<1> QED
  BY <1>2, SpecRowInvariant, PTL

-----------------------------------------------------------------------------
(* A record is announced.  A recognized record of a head that somebody     *)
(* vouches for has its alert, or is on the way to it, or the work on its   *)
(* revision is still to be done or done again; or it is one of the         *)
(* exceptions the history records.                                         *)

OnItsWay(k, c) ==
  \E w \in Workers :
    job[w] = k /\ phase[w] = "settling" /\ (due[w] \/ c \in rows[w] \/ reading[w] # None)

ToBeDone(k) ==
  /\ k[2] > settled[k[1]]
  /\ \A w \in Workers : holder[k[1]] = w /\ job[w] = k => phase[w] # "settling"

Announceable(k, c) ==
  /\ IsHead(k) /\ Content(k).fit /\ k[1] \notin Absorbed
  /\ c \in Worthy(k) /\ c \in CellsOf(k) /\ <<k[1], c>> \in Vouched

Accounted(k, c) ==
  Alerts(k) # {} \/ k \in lost \cup reinstated \/ OnItsWay(k, c) \/ ToBeDone(k)

AnnouncedInv == \A k \in Revisions, c \in Cells : Announceable(k, c) => Accounted(k, c)

\* What is recorded stays.
LEMMA RecordedStays ==
  ASSUME TypeOK, Placed, RowTypes, [PublicationNext]_allVars
  PROVE  events \subseteq events' /\ lost \subseteq lost' /\ reinstated \subseteq reinstated'
<1>1. ASSUME NEW w \in Workers, AdjudicateIncremental(w) \/ AdjudicateRepaired(w)
      PROVE  events \subseteq events' /\ lost \subseteq lost' /\ reinstated \subseteq reinstated'
  BY <1>1, AdjudicatingStep DEF Reinstated
<1>2. ASSUME NEW w \in Workers,
             \/ Proceed(w) \/ MaterializeResult(w) \/ RecognizeHistorical(w) \/ Finish(w)
             \/ BreakOff(w) \/ SelectRows(w) \/ ReadRow(w) \/ PublishRow(w) \/ PublishFails(w)
      PROVE  events \subseteq events' /\ lost \subseteq lost' /\ reinstated \subseteq reinstated'
  BY <1>2 DEF Proceed, MaterializeResult, RecognizeHistorical, Finish, BreakOff, SelectRows,
              ReadRow, PublishRow, PublishFails, publicationVars, alertVars, historyVars
<1>3. CASE Ingest \/ UNCHANGED allVars
  BY <1>3 DEF Ingest, publicationVars, alertVars, historyVars, allVars
<1> QED
  BY <1>1, <1>2, <1>3 DEF PublicationNext

LEMMA AlertsStay ==
  ASSUME TypeOK, Placed, RowTypes, [PublicationNext]_allVars, NEW k
  PROVE  Alerts(k) # {} \/ k \in lost \cup reinstated =>
           Alerts(k)' # {} \/ k \in lost' \cup reinstated'
  BY RecordedStays DEF Alerts

\* A step of w on another revision, or before and after the publication of k,
\* keeps k accounted for.
LEMMA AccountedElsewhere ==
  ASSUME TypeOK, Placed, RowTypes, [PublicationNext]_allVars, NEW w \in Workers,
         NEW k \in Revisions, NEW c \in Cells, Accounted(k, c),
         \A v \in Workers \ {w} : /\ phase'[v] = phase[v] /\ job'[v] = job[v]
                                  /\ due'[v] = due[v] /\ rows'[v] = rows[v]
                                  /\ reading'[v] = reading[v],
         job[w] # k \/ phase[w] # "settling" \/ ~Publishing(w),
         job'[w] # k \/ phase'[w] # "settling",
         settled'[k[1]] = settled[k[1]],
         \A v \in Workers \ {w} : holder'[k[1]] = v => holder[k[1]] = v
  PROVE  Accounted(k, c)'
<1>1. CASE Alerts(k) # {} \/ k \in lost \cup reinstated
  BY <1>1, AlertsStay DEF Accounted
<1>2. CASE OnItsWay(k, c)
  <2>1. PICK v \in Workers :
          job[v] = k /\ phase[v] = "settling" /\ (due[v] \/ c \in rows[v] \/ reading[v] # None)
    BY <1>2 DEF OnItsWay
  <2>2. v # w
    BY <2>1 DEF Publishing
  <2> QED
    BY <2>1, <2>2 DEF Accounted, OnItsWay
<1>3. CASE ToBeDone(k)
  <2>1. ToBeDone(k)'
    BY <1>3 DEF ToBeDone
  <2> QED
    BY <2>1 DEF Accounted
<1> QED
  BY <1>1, <1>2, <1>3 DEF Accounted

\* Rows and data stay: what is to be announced was so before.
LEMMA AnnounceableStays ==
  ASSUME UNCHANGED <<data, outcome, recognition>>, NEW k, NEW c, Announceable(k, c)'
  PROVE  Announceable(k, c)
<1>1. Worthy(k)' = Worthy(k)
  BY DEF Worthy
<1> QED
  BY <1>1, DataStay DEF Announceable

LEMMA AnnouncedIngest ==
  ASSUME TypeOK, Placed, RowTypes, AnnouncedInv, [PublicationNext]_allVars, Ingest,
         NEW k \in Revisions, NEW c \in Cells, Announceable(k, c)'
  PROVE  Accounted(k, c)'
<1>1. PICK r \in Results : AddRevision(r)
  BY DEF Ingest
<1>2. /\ \A q \in Results : Len(data'[q]) = IF q = r THEN Len(data[r]) + 1 ELSE Len(data[q])
      /\ \A j : Exists(j) => Exists(j)' /\ Content(j)' = Content(j) /\ CellsOf(j)' = CellsOf(j)
      /\ \A q \in Results : Len(data[q]) \in Nat
  BY <1>1, AddedRevision DEF TypeOK
<1>3. UNCHANGED <<outcome, phase, job, settled, holder, due, rows, reading, events, lost, reinstated>>
      /\ recognition' = recognition
  BY <1>1 DEF Ingest, AddRevision, workerVars, queueVars, publicationVars, alertVars, historyVars
<1>4. Worthy(k)' = Worthy(k)
  BY <1>3 DEF Worthy
<1>5. k \in processed
  BY <1>4 DEF Announceable, Worthy, RowTypes
<1>6. Exists(k) /\ k[1] \in Results /\ k[2] \in Nat
  BY <1>5, RevisionParts DEF Placed, RowInv
<1>7. IsHead(k)
  BY <1>2, <1>6 DEF Announceable, IsHead, Exists
<1>8. Announceable(k, c)
  BY <1>2, <1>4, <1>6, <1>7 DEF Announceable
<1>9. Accounted(k, c)
  BY <1>8 DEF AnnouncedInv
<1> QED
  BY <1>3, <1>9 DEF Accounted, Alerts, OnItsWay, ToBeDone

LEMMA AnnouncedProceed ==
  ASSUME TypeOK, Placed, OnceInv, RowTypes, AnnouncedInv, [PublicationNext]_allVars,
         NEW w \in Workers, Proceed(w) \/ MaterializeResult(w),
         NEW k \in Revisions, NEW c \in Cells, Announceable(k, c)'
  PROVE  Accounted(k, c)'
<1>1. UNCHANGED <<data, outcome, recognition, due, rows, reading, settled>>
  BY DEF Proceed, MaterializeResult, Claim, Materialize, ChooseWay, RollBack, publicationVars,
         alertVars, queueVars
<1>2. phase[w] # "settling" /\ \A v \in Workers \ {w} : job'[v] = job[v]
  BY DEF Proceed, MaterializeResult, Claim, Materialize, ChooseWay, RollBack, TypeOK
<1>3. \E ph \in Phases \ {"settling"} : phase' = [phase EXCEPT ![w] = ph]
  <2>1. CASE ChooseWay(w)
    BY <2>1, Ways DEF Phases
  <2> QED
    BY <2>1 DEF Proceed, MaterializeResult, Claim, Materialize, RollBack, Phases
<1>4. phase'[w] # "settling" /\ \A v \in Workers \ {w} : phase'[v] = phase[v]
  BY <1>3 DEF TypeOK
<1>5. \A v \in Workers \ {w} : holder'[k[1]] = v => holder[k[1]] = v
  <2>1. holder' = holder \/ \E r \in Results : holder' = [holder EXCEPT ![r] = w]
    BY DEF Proceed, MaterializeResult, Claim, Materialize, ChooseWay, RollBack, queueVars
  <2> QED
    BY <2>1, RevisionParts DEF TypeOK
<1>6. Accounted(k, c)
  BY <1>1, AnnounceableStays DEF AnnouncedInv
<1> QED
  BY <1>1, <1>2, <1>4, <1>5, <1>6, AccountedElsewhere

LEMMA AnnouncedAdjudicated ==
  ASSUME TypeOK, Placed, OnceInv, RowTypes, AnnouncedInv, [PublicationNext]_allVars,
         NEW w \in Workers, AdjudicateIncremental(w) \/ AdjudicateRepaired(w),
         NEW k \in Revisions, NEW c \in Cells, Announceable(k, c)'
  PROVE  Accounted(k, c)'
<1>1. /\ phase[w] \in {"incremental", "repair"} /\ phase' = [phase EXCEPT ![w] = "settling"]
      /\ UNCHANGED <<data, job, settled, holder, rows, reading>>
      /\ due' = [due EXCEPT ![w] = Content(job[w]).fit]
      /\ Reinstated(w)
  BY AdjudicatingStep DEF queueVars
<1>2. phase'[w] = "settling" /\ due'[w] = Content(job[w]).fit
      /\ \A v \in Workers \ {w} : phase'[v] = phase[v] /\ due'[v] = due[v]
  BY <1>1 DEF TypeOK, OnceInv, AlertTypes
<1>3. CASE k = job[w]
  <2>1. due'[w]
    BY <1>1, <1>2, <1>3, DataStay DEF Announceable
  <2> QED
    BY <1>1, <1>2, <1>3, <2>1 DEF Accounted, OnItsWay
<1>4. CASE k # job[w] /\ recognition[k][c] # "recognized"
  <2>1. k \in reinstated'
    BY <1>1, <1>4 DEF Reinstated, Announceable, Worthy
  <2> QED
    BY <2>1 DEF Accounted
<1>5. CASE k # job[w] /\ recognition[k][c] = "recognized"
  <2>1. c \in Worthy(k)
    BY <1>5 DEF Announceable, Worthy, RowTypes
  <2>2. Announceable(k, c)
    BY <1>1, <2>1, DataStay DEF Announceable
  <2> QED
    BY <1>1, <1>2, <1>5, <2>2, AccountedElsewhere DEF AnnouncedInv
<1> QED
  BY <1>3, <1>4, <1>5

LEMMA AnnouncedHistorical ==
  ASSUME TypeOK, Placed, OnceInv, RowTypes, AnnouncedInv, [PublicationNext]_allVars,
         NEW w \in Workers, RecognizeHistorical(w),
         NEW k \in Revisions, NEW c \in Cells, Announceable(k, c)'
  PROVE  Accounted(k, c)'
<1>1. /\ phase[w] = "historical" /\ phase' = [phase EXCEPT ![w] = "settling"]
      /\ UNCHANGED <<data, job, settled, holder, due, rows, reading>>
      /\ \E o : outcome' = [outcome EXCEPT ![job[w]] = o]
      /\ \E s : recognition' = [recognition EXCEPT ![job[w]] = s]
  BY DEF RecognizeHistorical, ClassifyStaleHistorical, queueVars, alertVars
<1>2. ~IsHead(job[w]) \/ job[w][1] \in Absorbed
  BY <1>1 DEF Placed, WayInv
<1>3. k # job[w]
  BY <1>1, <1>2, DataStay DEF Announceable
<1>4. outcome'[k] = outcome[k] /\ recognition'[k] = recognition[k]
  BY <1>1, <1>3 DEF TypeOK, RowTypes
<1>5. Worthy(k)' = Worthy(k)
  BY <1>4 DEF Worthy
<1>6. Announceable(k, c)
  BY <1>1, <1>5, DataStay DEF Announceable
<1>7. \A v \in Workers \ {w} : phase'[v] = phase[v]
  BY <1>1 DEF TypeOK
<1> QED
  BY <1>1, <1>3, <1>6, <1>7, AccountedElsewhere DEF AnnouncedInv

LEMMA AnnouncedFinish ==
  ASSUME TypeOK, Placed, OnceInv, RowTypes, AnnouncedInv, [PublicationNext]_allVars,
         NEW w \in Workers, Finish(w),
         NEW k \in Revisions, NEW c \in Cells, Announceable(k, c)'
  PROVE  Accounted(k, c)'
<1> DEFINE r == job[w][1]
<1>1. /\ UNCHANGED <<data, outcome, recognition, due, rows, reading, events, lost, reinstated>>
      /\ ~Publishing(w) /\ phase[w] = "settling"
      /\ \A v \in Workers : phase'[v] = IF v = w THEN "idle" ELSE phase[v]
      /\ \A v \in Workers \ {w} : job'[v] = job[v]
      /\ IF holder[r] = w
           THEN settled' = [settled EXCEPT ![r] = @ + 1] /\ holder' = [holder EXCEPT ![r] = None]
           ELSE UNCHANGED <<settled, holder>>
  BY DEF Finish, Settle, Return, TypeOK, publicationVars, alertVars, historyVars
<1>2. Accounted(k, c) /\ IsHead(k)
  BY <1>1, AnnounceableStays DEF AnnouncedInv, Announceable
<1>3. CASE holder[r] # w \/ k[1] # r
  <2>1. settled'[k[1]] = settled[k[1]] /\ holder'[k[1]] = holder[k[1]]
    BY <1>1, <1>3, RevisionParts DEF TypeOK
  <2> QED
    BY <1>1, <1>2, <2>1, AccountedElsewhere
<1>4. CASE holder[r] = w /\ k[1] = r
  <2>1. k[1] \in Results /\ k[2] \in Nat /\ k = <<k[1], k[2]>> /\ settled[r] \in Nat
        /\ r \in Results
    BY <1>4, RevisionParts, TimelineBoundsAssumption DEF TypeOK, TimelineBoundsAssumption
  <2>2. job[w] = <<r, settled[r] + 1>> /\ Exists(job[w])
    BY <1>1, <1>4, <2>1, JobParts DEF Placed, HolderInv
  <2>3. settled'[r] = settled[r] + 1 /\ holder'[r] = None
    BY <1>1, <1>4, <2>1 DEF TypeOK
  <2>4. CASE Alerts(k) # {} \/ k \in lost \cup reinstated
    BY <2>4, AlertsStay DEF Accounted
  <2>5. CASE OnItsWay(k, c)
    <3>1. PICK v \in Workers :
            job[v] = k /\ phase[v] = "settling" /\ (due[v] \/ c \in rows[v] \/ reading[v] # None)
      BY <2>5 DEF OnItsWay
    <3>2. v # w
      BY <1>1, <3>1 DEF Publishing
    <3> QED
      BY <1>1, <3>1, <3>2 DEF Accounted, OnItsWay
  <2>6. CASE ToBeDone(k)
    <3>1. k # job[w]
      BY <1>1, <1>4, <2>6 DEF ToBeDone
    <3>2. k[2] # settled[r] + 1
      BY <1>4, <2>1, <2>2, <3>1
    <3>3. k[2] > settled'[k[1]]
      BY <1>4, <2>1, <2>3, <2>6, <3>2 DEF ToBeDone
    <3>4. \A v \in Workers : holder'[k[1]] # v
      BY <1>4, <2>3, TimelineNoneAssumption DEF TimelineNoneAssumption
    <3>5. ToBeDone(k)'
      BY <3>3, <3>4 DEF ToBeDone
    <3> QED
      BY <3>5 DEF Accounted
  <2> QED
    BY <1>2, <2>4, <2>5, <2>6 DEF Accounted
<1> QED
  BY <1>3, <1>4

LEMMA AnnouncedBreakOff ==
  ASSUME TypeOK, Placed, OnceInv, RowTypes, AnnouncedInv, [PublicationNext]_allVars,
         NEW w \in Workers, BreakOff(w),
         NEW k \in Revisions, NEW c \in Cells, Announceable(k, c)'
  PROVE  Accounted(k, c)'
<1>1. /\ UNCHANGED <<data, outcome, recognition, settled>> /\ phase[w] # "idle"
      /\ \A v \in Workers : phase'[v] = IF v = w THEN "idle" ELSE phase[v]
      /\ \A v \in Workers \ {w} : /\ job'[v] = job[v] /\ due'[v] = due[v]
                                  /\ rows'[v] = rows[v] /\ reading'[v] = reading[v]
      /\ holder' = [holder EXCEPT ![job[w][1]] = IF @ = w THEN None ELSE @]
      /\ Publishing(w) /\ holder[job[w][1]] # w => job[w] \in lost'
  BY DEF BreakOff, Fail, Return, TypeOK, OnceInv, AlertTypes
<1>2. Accounted(k, c)
  BY <1>1, AnnounceableStays DEF AnnouncedInv
<1>3. CASE k = job[w] /\ Publishing(w) /\ holder[k[1]] = w
  <2>1. /\ k[1] \in Results /\ k[2] \in Nat /\ settled[k[1]] \in Nat
    BY RevisionParts, TimelineBoundsAssumption DEF TypeOK, TimelineBoundsAssumption
  <2>2. k[2] = settled[k[1]] + 1
    <3>1. job[w] = <<k[1], settled[k[1]] + 1>>
      BY <1>3, <2>1 DEF Placed, HolderInv
    <3> QED
      BY <1>3, <3>1
  <2>3. holder'[k[1]] = None
    BY <1>1, <1>3, <2>1 DEF TypeOK
  <2>4. ToBeDone(k)'
    BY <1>1, <2>1, <2>2, <2>3, TimelineNoneAssumption DEF ToBeDone, TimelineNoneAssumption
  <2> QED
    BY <2>4 DEF Accounted
<1>4. CASE k = job[w] /\ Publishing(w) /\ holder[k[1]] # w
  BY <1>1, <1>4 DEF Accounted
<1>5. CASE k # job[w] \/ ~Publishing(w)
  <2>1. \A v \in Workers \ {w} : holder'[k[1]] = v => holder[k[1]] = v
    BY <1>1, RevisionParts, TimelineNoneAssumption DEF TypeOK, TimelineNoneAssumption
  <2> QED
    BY <1>1, <1>2, <1>5, <2>1, AccountedElsewhere
<1> QED
  BY <1>3, <1>4, <1>5

\* A step of the publication of w: whoever else is on the way stays so, and w
\* too, unless k has been recorded.
LEMMA AnnouncedPublishing ==
  ASSUME TypeOK, Placed, OnceInv, RowTypes, AnnouncedInv, [PublicationNext]_allVars,
         NEW w \in Workers,
         SelectRows(w) \/ ReadRow(w) \/ PublishRow(w) \/ PublishFails(w),
         NEW k \in Revisions, NEW c \in Cells, Announceable(k, c)'
  PROVE  Accounted(k, c)'
<1>1. /\ UNCHANGED <<data, outcome, recognition, phase, job, settled, holder>>
      /\ \A v \in Workers \ {w} : /\ due'[v] = due[v] /\ rows'[v] = rows[v]
                                  /\ reading'[v] = reading[v]
  BY DEF SelectRows, ReadRow, PublishRow, PublishFails, vars, workerVars, queueVars, OnceInv,
         AlertTypes
<1>2. Announceable(k, c) /\ Accounted(k, c)
  BY <1>1, AnnounceableStays DEF AnnouncedInv
<1>3. CASE Alerts(k) # {} \/ k \in lost \cup reinstated
  BY <1>3, AlertsStay DEF Accounted
<1>4. CASE ToBeDone(k)
  BY <1>1, <1>4 DEF Accounted, ToBeDone
<1>5. ASSUME NEW v \in Workers, v # w, job[v] = k, phase[v] = "settling",
             due[v] \/ c \in rows[v] \/ reading[v] # None
      PROVE  Accounted(k, c)'
  BY <1>1, <1>5 DEF Accounted, OnItsWay
<1>6. ASSUME job[w] = k, phase[w] = "settling", due'[w] \/ c \in rows'[w] \/ reading'[w] # None
      PROVE  Accounted(k, c)'
  BY <1>1, <1>6 DEF Accounted, OnItsWay
<1>7. ASSUME job[w] = k, phase[w] = "settling", due[w] \/ c \in rows[w] \/ reading[w] # None
      PROVE  Accounted(k, c)'
  <2>1. CASE SelectRows(w)
    <3>1. c \in rows'[w]
      BY <1>2, <1>7, <2>1 DEF SelectRows, Announceable, OnceInv, AlertTypes
    <3> QED
      BY <1>6, <1>7, <3>1
  <2>2. CASE ReadRow(w)
    <3>1. ~due[w] /\ reading[w] = None
      BY <2>2 DEF ReadRow, OnceInv, StepsInTurn
    <3>2. PICK d \in rows[w] :
            /\ rows' = [rows EXCEPT ![w] = @ \ {d}]
            /\ reading' = [reading EXCEPT ![w] =
                 IF d \in Worthy(job[w]) /\ <<job[w][1], d>> \in Vouched THEN d ELSE None]
      BY <2>2 DEF ReadRow
    <3>3. CASE d = c
      <4>1. reading'[w] = c
        BY <1>2, <1>7, <3>2, <3>3 DEF Announceable, OnceInv, AlertTypes
      <4> QED
        BY <1>6, <1>7, <4>1, NoCellAssumption DEF NoCellAssumption
    <3>4. CASE d # c
      <4>1. c \in rows'[w]
        BY <1>7, <3>1, <3>2, <3>4 DEF OnceInv, AlertTypes
      <4> QED
        BY <1>6, <1>7, <4>1
    <3> QED
      BY <3>3, <3>4
  <2>3. CASE PublishRow(w)
    <3>1. <<k, reading[w]>> \in events' /\ reading[w] \in Cells
      BY <1>2, <1>7, <2>3 DEF PublishRow, Announceable, OnceInv, AlertTypes
    <3> QED
      BY <3>1 DEF Accounted, Alerts
  <2>4. CASE PublishFails(w)
    BY <1>7, <2>4 DEF PublishFails, Accounted
  <2> QED
    BY <2>1, <2>2, <2>3, <2>4
<1> QED
  BY <1>2, <1>3, <1>4, <1>5, <1>7 DEF Accounted, OnItsWay

LEMMA AnnouncedStep ==
  ASSUME TypeOK, Placed, OnceInv, RowTypes, AnnouncedInv, [PublicationNext]_allVars
  PROVE  AnnouncedInv'
<1>1. SUFFICES ASSUME NEW k \in Revisions, NEW c \in Cells, Announceable(k, c)'
               PROVE  Accounted(k, c)'
  BY DEF AnnouncedInv
<1>2. CASE UNCHANGED allVars
  <2>1. /\ UNCHANGED <<data, outcome, recognition>>
        /\ UNCHANGED <<phase, job, settled, holder, due, rows, reading, events, lost, reinstated>>
    BY <1>2 DEF allVars, vars, workerVars, queueVars, publicationVars, alertVars, historyVars
  <2>2. Accounted(k, c)
    BY <1>1, <2>1, AnnounceableStays DEF AnnouncedInv
  <2> QED
    BY <2>1, <2>2 DEF Accounted, Alerts, OnItsWay, ToBeDone
<1> QED
  BY <1>1, <1>2, AnnouncedIngest, AnnouncedProceed, AnnouncedAdjudicated, AnnouncedHistorical,
     AnnouncedFinish, AnnouncedBreakOff, AnnouncedPublishing DEF PublicationNext

\* At rest a recognized record somebody vouches for is announced, but for the
\* exceptions recorded: a failed publication, one that broke off with a worker
\* that had lost its claim, and a record the work on another result brought
\* back; and no revision worked on once is announced at two levels
\* (publish_processed_result_after_commit).
THEOREM SpecAnnouncedOnce == PublicationSpec => []AnnouncedOnce
<1>1. PublicationInit => RowInvariant /\ AnnouncedInv
  <2>1. ASSUME PublicationInit, NEW k \in Revisions, NEW c \in Cells
        PROVE  c \notin Worthy(k)
    BY <2>1 DEF PublicationInit, Worthy
  <2>2. PublicationInit => TypeOK /\ Placed /\ OnceInv
    BY InitPlaced, InitOnce DEF PublicationInit
  <2>3. PublicationInit => RowTypes
    BY DEF PublicationInit, Init, RowTypes, Recognitions
  <2>4. ASSUME PublicationInit, NEW c \in Cells
        PROVE  RecognitionCell(c)
    BY <2>4 DEF PublicationInit, Init, CurrentTimeline, CellRecognized, RecognitionCell
  <2> QED
    BY <2>1, <2>2, <2>3, <2>4 DEF RowInvariant, RecognitionInv, AnnouncedInv, Announceable
<1>2. RowInvariant /\ AnnouncedInv /\ [PublicationNext]_allVars => RowInvariant' /\ AnnouncedInv'
  BY TimelineStep, TypeStep, PlacedStep, OnceStep, RowTypesStep, RecognitionCellStep, AnnouncedStep
     DEF RowInvariant, RecognitionInv
<1>3. ASSUME RowInvariant, AnnouncedInv, Quiescent, NEW r \in Results \ Absorbed, Len(data[r]) > 0,
             Content(<<r, Len(data[r])>>).fit,
             NEW c \in Worthy(<<r, Len(data[r])>>) \cap CellsOf(<<r, Len(data[r])>>),
             <<r, c>> \in Vouched
      PROVE  Alerts(<<r, Len(data[r])>>) # {} \/ <<r, Len(data[r])>> \in lost \cup reinstated
  <2>1. PICK n \in 1 .. MaxRevision : n = Len(data[r])
    BY <1>3, TimelineBoundsAssumption DEF RowInvariant, TypeOK, TimelineBoundsAssumption
  <2>2. <<r, n>> \in Revisions /\ <<r, n>>[1] = r /\ <<r, n>>[2] = n /\ c \in Cells
    BY <1>3, <2>1, RevisionParts DEF Worthy
  <2>3. Announceable(<<r, n>>, c)
    BY <1>3, <2>1, <2>2 DEF Announceable, IsHead
  <2>4. ~OnItsWay(<<r, n>>, c)
    BY <1>3 DEF Quiescent, OnItsWay
  <2>5. ~ToBeDone(<<r, n>>)
    BY <1>3, <2>1, <2>2, TimelineBoundsAssumption DEF Quiescent, ToBeDone, TimelineBoundsAssumption
  <2> QED
    BY <1>3, <2>1, <2>2, <2>3, <2>4, <2>5 DEF AnnouncedInv, Accounted
<1>4. RowInvariant /\ AnnouncedInv => RecordsAreAnnounced
  BY <1>3 DEF RecordsAreAnnounced
<1>5. RowInvariant /\ AnnouncedInv => AnnouncedOnce
  BY <1>4 DEF AnnouncedOnce, RowInvariant, OnceInv
<1> QED
  BY <1>1, <1>2, <1>5, PTL DEF PublicationSpec
=============================================================================
