-------------------------- MODULE RecordPublication --------------------------
(***************************************************************************)
(* What the classifier recognizes and announces: the adjudication of a     *)
(* cell after every change of its outcomes, which decides the results of a *)
(* round or a day that were records and are still worth the name, and the  *)
(* publication of a revision's highest recognized record after the commit. *)
(*                                                                         *)
(* Every action is one of RecordTimeline with what it does to recognition  *)
(* and alerts, or a step of publish_processed_result_after_commit between  *)
(* the classifying transaction and the settling one.  A time belongs to    *)
(* one round.  Who holds a record at present, and why another ceased to,   *)
(* is left out: it is written here and read by no other step.              *)
(***************************************************************************)
EXTENDS RecordTimeline

CONSTANTS
  RoundAt, DayAt,  \* the round and the local date of a time, NoDay if unknown
  NoDay,
  Rank,            \* Rank[c]: 1 for a WR, 2 for a CR, 3 for an NR, 0 for a PR
  Vouched,         \* results and cells a trusted source or a validation vouches for
  MaxIngested,     \* bound on revisions of all results
  MaxLost          \* bound on failed publications and the mishaps before them

Times == {content.at : content \in Contents}

ASSUME GroupsAssumption == DOMAIN RoundAt = Times /\ DOMAIN DayAt = Times
ASSUME RankAssumption == Rank \in [Cells -> 0 .. 3] /\ Vouched \subseteq Results \X Cells
ASSUME NoCellAssumption == None \notin Cells
ASSUME PublicationBoundsAssumption == MaxIngested \in Nat /\ MaxLost \in Nat

VARIABLES
  recognition,  \* recognition[k][c]: recognition_status of revision k in cell c
  due,          \* per worker: its revision is classified and not yet published
  rows,         \* per worker: cells publish_safely has yet to try
  reading,      \* per worker: the cell whose row it has read, while it waits for the head
  events,       \* revisions and cells announced (the deduplication key)
  \* History, read by no action:
  lost,         \* revisions whose publication failed, or broke off after the claim was lost
  retried,      \* revisions that were worked on twice
  reinstated    \* revisions the work on another one has made recognized

alertVars   == <<due, rows, reading, events, lost>>
historyVars == <<retried, reinstated>>
publicationVars == <<recognition, alertVars, historyVars>>
allVars == <<vars, publicationVars>>

Recognitions == {"not_applicable", "recognized", "superseded_same_round", "superseded_same_day"}

Publishing(w) == due[w] \/ rows[w] # {} \/ reading[w] # None

PublicationTypeOK ==
  /\ TypeOK
  /\ recognition \in [Revisions -> [Cells -> Recognitions]]
  /\ due \in [Workers -> BOOLEAN]
  /\ rows \in [Workers -> SUBSET Cells]
  /\ reading \in [Workers -> Cells \cup {None}]
  /\ \A w \in Workers : Publishing(w) => phase[w] = "settling"
  /\ events \subseteq Revisions \X Cells
  /\ lost \cup retried \cup reinstated \subseteq processed

PublicationInit ==
  /\ Init
  /\ recognition = [k \in Revisions |-> [c \in Cells |-> "not_applicable"]]
  /\ due = [w \in Workers |-> FALSE]
  /\ rows = [w \in Workers |-> {}]
  /\ reading = [w \in Workers |-> None]
  /\ events = {}
  /\ lost = {} /\ retried = {} /\ reinstated = {}

-----------------------------------------------------------------------------
(* _adjudicate_timeline.                                                   *)

SameRound(j, k) == RoundAt[Content(j).at] = RoundAt[Content(k).at]

\* Results of an unknown date are in no group.
SameDay(j, k) ==
  DayAt[Content(j).at] # NoDay /\ DayAt[Content(j).at] = DayAt[Content(k).at]

\* What a timeline and its outcomes make of revision k.
Adjudicated(k, c, timeline, outcomes) ==
  LET qualifying == {j \in timeline : outcomes[j][c] # "none"}
      better == {j \in qualifying : Content(j).value < Content(k).value}
  IN IF k \notin qualifying THEN "not_applicable"
     ELSE IF \E j \in better : SameRound(j, k) THEN "superseded_same_round"
     ELSE IF \E j \in better : SameDay(j, k) THEN "superseded_same_day"
     ELSE "recognized"

\* Mutant of Adjudicate: only the row just classified is looked at.
AdjudicateOwn(w, cells) ==
  recognition' = [recognition EXCEPT ![job[w]] = [c \in Cells |->
    IF c \in cells /\ job[w] \in CurrentTimeline(c)
      THEN Adjudicated(job[w], c, CurrentTimeline(c), outcome')
      ELSE @[c]]]

\* Every row of the timelines of the cells, by the outcomes just written.
Adjudicate(w, cells) ==
  recognition' = [k \in Revisions |-> [c \in Cells |->
    IF c \in cells /\ k \in CurrentTimeline(c)
      THEN Adjudicated(k, c, CurrentTimeline(c), outcome')
      ELSE recognition[k][c]]]

\* Revisions whose recognition the work on another one has brought back.
Reinstated(w) ==
  reinstated' = reinstated \cup {k \in Revisions \ {job[w]} : \E c \in Cells :
    recognition[k][c] # "recognized" /\ recognition'[k][c] = "recognized"}

-----------------------------------------------------------------------------
(* The steps of RecordTimeline.                                            *)

Ingest ==
  /\ MapThenSumSet(LAMBDA r : Len(data[r]), Results) < MaxIngested
  /\ \E r \in Results : AddRevision(r)
  /\ UNCHANGED publicationVars

\* Steps of a worker that neither adjudicate nor announce.
Proceed(w) ==
  /\ Claim(w) \/ ChooseWay(w) \/ RollBack(w)
  /\ UNCHANGED publicationVars

MaterializeResult(w) ==
  /\ Materialize(w)
  /\ retried' = IF job[w] \in processed THEN retried \cup {job[w]} ELSE retried
  /\ UNCHANGED <<recognition, alertVars, reinstated>>

\* A valid revision that was classified as the current one is to be published.
Due(w) ==
  /\ due' = [due EXCEPT ![w] = Content(job[w]).fit]
  /\ UNCHANGED <<rows, reading, events, lost, retried>>

AdjudicateIncremental(w) ==
  /\ ClassifyIncremental(w)
  /\ Adjudicate(w, IF Content(job[w]).fit THEN CellsOf(job[w]) ELSE {})
  /\ Reinstated(w)
  /\ Due(w)

AdjudicateRepaired(w) ==
  /\ RepairTimelines(w)
  /\ Adjudicate(w, AffectedCells(job[w]))
  /\ Reinstated(w)
  /\ Due(w)

\* A stale or absorbed revision is judged by its outcome alone, and not announced.
RecognizeHistorical(w) ==
  /\ ClassifyStaleHistorical(w)
  /\ recognition' = [recognition EXCEPT ![job[w]] = [c \in Cells |->
       IF outcome'[job[w]][c] # "none" THEN "recognized" ELSE "not_applicable"]]
  /\ UNCHANGED <<alertVars, historyVars>>

Finish(w) ==
  /\ ~Publishing(w)
  /\ Settle(w)
  /\ UNCHANGED publicationVars

\* The work of a holder is claimed again, that of another worker nobody repeats.
BreakOff(w) ==
  /\ Fail(w)
  /\ due' = [due EXCEPT ![w] = FALSE]
  /\ rows' = [rows EXCEPT ![w] = {}]
  /\ reading' = [reading EXCEPT ![w] = None]
  /\ lost' = IF Publishing(w) /\ holder[job[w][1]] # w THEN lost \cup {job[w]} ELSE lost
  /\ UNCHANGED <<recognition, events, historyVars>>

-----------------------------------------------------------------------------
(* publish_processed_result_after_commit.                                  *)

\* Cells in which a revision is worth an alert, by the rows as they are now.
Worthy(k) ==
  {c \in Cells : Rank[c] > 0 /\ outcome[k][c] # "none" /\ recognition[k][c] = "recognized"}

SelectRows(w) ==
  /\ due[w]
  /\ due' = [due EXCEPT ![w] = FALSE]
  /\ rows' = [rows EXCEPT ![w] = Worthy(job[w])]
  /\ UNCHANGED <<vars, recognition, reading, events, lost, historyVars>>

\* The highest level first.  A row nobody vouches for, or no longer worthy,
\* is refused and gives way to the next level.
ReadRow(w) ==
  /\ reading[w] = None
  /\ \E c \in rows[w] :
       /\ \A d \in rows[w] : Rank[c] <= Rank[d]
       /\ rows' = [rows EXCEPT ![w] = @ \ {c}]
       /\ reading' = [reading EXCEPT ![w] =
            IF c \in Worthy(job[w]) /\ <<job[w][1], c>> \in Vouched THEN c ELSE None]
  /\ UNCHANGED <<vars, recognition, due, events, lost, historyVars>>

\* Mutant of PublishRow: it goes on to the next level after an event.
PublishEveryRow(w) ==
  /\ reading[w] # None
  /\ events' = IF IsHead(job[w]) THEN events \cup {<<job[w], reading[w]>>} ELSE events
  /\ reading' = [reading EXCEPT ![w] = None]
  /\ UNCHANGED <<vars, recognition, due, rows, lost, historyVars>>

\* The head is locked after the row is read: a revision that is no longer the
\* head is refused, the row is not read again.  The first event is the last.
PublishRow(w) ==
  /\ reading[w] # None
  /\ IF IsHead(job[w])
       THEN /\ events' = events \cup {<<job[w], reading[w]>>}
            /\ rows' = [rows EXCEPT ![w] = {}]
       ELSE UNCHANGED <<events, rows>>
  /\ reading' = [reading EXCEPT ![w] = None]
  /\ UNCHANGED <<vars, recognition, due, lost, historyVars>>

\* An exception is logged and swallowed, and the work settled all the same.
PublishFails(w) ==
  /\ rows[w] # {} \/ reading[w] # None
  /\ lost' = lost \cup {job[w]}
  /\ Cardinality(lost') + mishaps <= MaxLost
  /\ rows' = [rows EXCEPT ![w] = {}]
  /\ reading' = [reading EXCEPT ![w] = None]
  /\ UNCHANGED <<vars, recognition, due, events, historyVars>>

PublicationNext ==
  \/ Ingest
  \/ \E w \in Workers :
       \/ Proceed(w)
       \/ MaterializeResult(w)
       \/ AdjudicateIncremental(w)
       \/ AdjudicateRepaired(w)
       \/ RecognizeHistorical(w)
       \/ Finish(w)
       \/ BreakOff(w)
       \/ SelectRows(w)
       \/ ReadRow(w)
       \/ PublishRow(w)
       \/ PublishFails(w)

PublicationSpec == PublicationInit /\ [][PublicationNext]_allVars

-----------------------------------------------------------------------------
(* Properties.                                                             *)

\* At rest every head is recognized, or superseded in its round or its day, as
\* adjudicating the cell's outcomes once more would have it, whatever order and
\* concurrency they were written under: no correction, retraction or retry
\* leaves a supersession behind.
RecognitionFollowsOutcomes ==
  Quiescent => \A c \in Cells : LeftBehind(c) \/ \A k \in TrueTimeline(c) :
    recognition[k][c] = Adjudicated(k, c, TrueTimeline(c), outcome)

Alerts(k) == {c \in Cells : <<k, c>> \in events}

\* At rest a recognized record somebody vouches for has been announced, unless
\* its publication failed, or broke off with a worker that had lost its claim,
\* or it became recognized only by the work on another result.
RecordsAreAnnounced ==
  Quiescent => \A r \in Results \ Absorbed : Len(data[r]) > 0 =>
    LET k == <<r, Len(data[r])>> IN
    /\ Content(k).fit
    /\ \E c \in Worthy(k) \cap CellsOf(k) : <<r, c>> \in Vouched
    => Alerts(k) # {} \/ k \in lost \cup reinstated

\* No revision is announced at two levels, unless it was worked on twice.
OneLevelEach == \A k \in Revisions \ retried : \A c, d \in Alerts(k) : c = d

\* Together: a record is announced, and announced once.
AnnouncedOnce == RecordsAreAnnounced /\ OneLevelEach
=============================================================================
