------------------------- MODULE ClassificationQueue -------------------------
(***************************************************************************)
(* The classifier's durable queue: ingestion snapshots a canonical result  *)
(* into a new revision with one work row, workers claim the rows under a   *)
(* lease, classify the revision in several transactions, publish its       *)
(* notification and settle the row; they fail, die or overrun their lease  *)
(* between any two of these.                                               *)
(*                                                                         *)
(* One database transaction is one action.  What classification computes   *)
(* is left out: live[r] is the revision of r the live cells account for,   *)
(* projection[k] whether the ProcessedResult of a revision is valid.       *)
(* Revisions of other results play no part, nor do the attempt counter,    *)
(* error texts and the choice between incremental pass and repair.         *)
(***************************************************************************)
EXTENDS Naturals

CONSTANTS
  Results,           \* CanonicalResult rows
  Absorbed,          \* results of competitions the active export contains
  Workers,           \* classification worker processes
  None,              \* no worker, no work
  MaxRevision,       \* bound on revisions of one result
  MaxInterruptions,  \* bound on exceptions and crashes of workers
  MaxOverruns        \* bound on leases that run out under a living worker

ASSUME AbsorbedAssumption == Absorbed \subseteq Results
ASSUME QueueBoundsAssumption ==
  MaxRevision \in Nat /\ MaxInterruptions \in Nat /\ MaxOverruns \in Nat
ASSUME QueueNoneAssumption == None \notin Workers /\ None \notin Results \X (1 .. MaxRevision)

Works == Results \X (1 .. MaxRevision)   \* unique (canonical_result, revision)

\* Revision j of the same result comes before revision k.
Earlier(j, k) == j[1] = k[1] /\ j[2] < k[2]

Unsettled == {"pending", "processing", "failed"}
Settled   == {"completed", "stale"}
Status    == {"absent"} \cup Unsettled \cup Settled
Phases    == {"idle", "claimed", "loaded", "materialized", "publishing", "settling"}

VARIABLES
  baseline,    \* an active BaselineMetadata exists
  head,        \* head[r]: CanonicalResult.revision, 0 before the first snapshot
  fit,         \* fit[k]: what _revision_is_valid says of revision k
  status,      \* status[k]: ClassificationWork.status
  claimedBy,   \* claimedBy[k]
  expired,     \* expired[k]: claim_expires_at has passed
  projection,  \* projection[k]: "none", "valid" or "invalid" ProcessedResult
  live,        \* live[r]
  events,      \* revisions with a notification event
  phase,       \* phase[w]: where worker w stands in process_claimed_work
  job,         \* job[w]: the work w claimed
  seenHead,    \* seenHead[w]: the head's revision when w loaded its work
  current,     \* current[w]: what classify_revision returned to w
  interruptions, overruns   \* counters the bounds apply to

rowVars    == <<status, claimedBy, expired>>
workerVars == <<phase, job, seenHead, current>>
bounds     == <<interruptions, overruns>>
vars == <<baseline, head, fit, rowVars, projection, live, events, workerVars, bounds>>

TypeOK ==
  /\ baseline \in BOOLEAN
  /\ head \in [Results -> 0 .. MaxRevision]
  /\ fit \in [Works -> BOOLEAN]
  /\ status \in [Works -> Status]
  /\ claimedBy \in [Works -> Workers \cup {None}]
  /\ expired \in [Works -> BOOLEAN]
  /\ projection \in [Works -> {"none", "valid", "invalid"}]
  /\ live \in [Results -> 0 .. MaxRevision]
  /\ events \subseteq Works
  /\ phase \in [Workers -> Phases]
  /\ job \in [Workers -> Works \cup {None}]
  /\ seenHead \in [Workers -> 0 .. MaxRevision]
  /\ current \in [Workers -> BOOLEAN]
  /\ interruptions \in Nat
  /\ overruns \in Nat

Init ==
  /\ baseline = FALSE
  /\ head = [r \in Results |-> 0]
  /\ fit = [k \in Works |-> FALSE]
  /\ status = [k \in Works |-> "absent"]
  /\ claimedBy = [k \in Works |-> None]
  /\ expired = [k \in Works |-> FALSE]
  /\ projection = [k \in Works |-> "none"]
  /\ live = [r \in Results |-> 0]
  /\ events = {}
  /\ phase = [w \in Workers |-> "idle"]
  /\ job = [w \in Workers |-> None]
  /\ seenHead = [w \in Workers |-> 0]
  /\ current = [w \in Workers |-> FALSE]
  /\ interruptions = 0
  /\ overruns = 0

-----------------------------------------------------------------------------
(* Ingestion and the export.                                               *)

\* Work may be queued before the first export is installed.
InstallBaseline ==
  /\ ~baseline
  /\ baseline' = TRUE
  /\ UNCHANGED <<head, fit, rowVars, projection, live, events, workerVars, bounds>>

\* A classifier-relevant change of r: head, revision and work in one transaction.
SnapshotAndEnqueue(r) ==
  /\ head[r] < MaxRevision
  /\ head' = [head EXCEPT ![r] = @ + 1]
  /\ \E valid \in BOOLEAN : fit' = [fit EXCEPT ![<<r, head[r] + 1>>] = valid]
  /\ status' = [status EXCEPT ![<<r, head[r] + 1>>] = "pending"]
  /\ UNCHANGED <<baseline, claimedBy, expired, projection, live, events, workerVars, bounds>>

-----------------------------------------------------------------------------
(* Workers.                                                                *)

\* Mutant of InOrder: failed revisions do not hold back later ones.
InOrderButFailed(k) ==
  \A j \in Works : Earlier(j, k) => status[j] \notin {"pending", "processing"}

\* No earlier revision of the same result is unsettled.
InOrder(k) == \A j \in Works : Earlier(j, k) => status[j] \notin Unsettled

\* Mutant of Claimable: expired leases are not taken over.
ClaimableUnclaimed(k) == status[k] \in {"pending", "failed"}

Claimable(k) ==
  \/ status[k] \in {"pending", "failed"}
  \/ status[k] = "processing" /\ expired[k]

ClaimNextWork(w) ==
  /\ phase[w] = "idle"
  /\ baseline
  /\ \E k \in Works :
       /\ Claimable(k)
       /\ InOrder(k)
       /\ status' = [status EXCEPT ![k] = "processing"]
       /\ claimedBy' = [claimedBy EXCEPT ![k] = w]
       /\ expired' = [expired EXCEPT ![k] = FALSE]
       /\ job' = [job EXCEPT ![w] = k]
  /\ phase' = [phase EXCEPT ![w] = "claimed"]
  /\ UNCHANGED <<baseline, head, fit, projection, live, events, seenHead, current, bounds>>

\* The work, its revision and the head are read once, without a lock.
LoadWork(w) ==
  /\ phase[w] = "claimed"
  /\ seenHead' = [seenHead EXCEPT ![w] = head[job[w][1]]]
  /\ phase' = [phase EXCEPT ![w] = "loaded"]
  /\ UNCHANGED <<baseline, head, fit, rowVars, projection, live, events, job, current, bounds>>

\* Mutant of Materialize: older projections are left as they are.
MaterializeOnly(w) ==
  /\ phase[w] = "loaded"
  /\ LET k == job[w]
     IN projection' = [projection EXCEPT ![k] = IF fit[k] THEN "valid" ELSE "invalid"]
  /\ phase' = [phase EXCEPT ![w] = "materialized"]
  /\ UNCHANGED <<baseline, head, fit, rowVars, live, events, job, seenHead, current, bounds>>

\* The revision's projection is written, older valid ones become invalid.
Materialize(w) ==
  /\ phase[w] = "loaded"
  /\ LET k == job[w]
     IN projection' = [p \in Works |->
          CASE p = k -> IF fit[k] THEN "valid" ELSE "invalid"
            [] Earlier(p, k) /\ projection[p] = "valid" -> "invalid"
            [] OTHER -> projection[p]]
  /\ phase' = [phase EXCEPT ![w] = "materialized"]
  /\ UNCHANGED <<baseline, head, fit, rowVars, live, events, job, seenHead, current, bounds>>

\* Mutant of Superseded: off by one, the head itself counts as superseded.
SupersededOrHead(w) == seenHead[w] >= job[w][2]

\* As far as the worker has seen, the revision is not the head's any more.
Superseded(w) == seenHead[w] > job[w][2]

\* A revision that was superseded when it was loaded, or whose competition
\* the export contains, gets a historical projection and leaves no live state.
ClassifyHistorical(w) ==
  /\ phase[w] = "materialized"
  /\ Superseded(w) \/ job[w][1] \in Absorbed
  /\ current' = [current EXCEPT ![w] = ~Superseded(w)]
  /\ phase' = [phase EXCEPT ![w] = "settling"]
  /\ UNCHANGED <<baseline, head, fit, rowVars, projection, live, events, job, seenHead, bounds>>

\* Mutant of ClassifyLive: the head is not compared before the commit.
ClassifyUnguarded(w) ==
  /\ phase[w] = "materialized"
  /\ ~Superseded(w) /\ job[w][1] \notin Absorbed
  /\ LET k == job[w]
     IN /\ live' = [live EXCEPT ![k[1]] = k[2]]
        /\ current' = [current EXCEPT ![w] = TRUE]
        /\ phase' = [phase EXCEPT ![w] = IF fit[k] THEN "publishing" ELSE "settling"]
  /\ UNCHANGED <<baseline, head, fit, rowVars, projection, events, job, seenHead, bounds>>

\* The transaction that writes live cells locks the head and compares; on a
\* newer revision it rolls back and only the historical projection is written.
ClassifyLive(w) ==
  /\ phase[w] = "materialized"
  /\ ~Superseded(w) /\ job[w][1] \notin Absorbed
  /\ LET k == job[w]
     IN \/ /\ head[k[1]] = k[2]
           /\ live' = [live EXCEPT ![k[1]] = k[2]]
           /\ current' = [current EXCEPT ![w] = TRUE]
           /\ phase' = [phase EXCEPT ![w] = IF fit[k] THEN "publishing" ELSE "settling"]
        \/ /\ head[k[1]] # k[2]
           /\ current' = [current EXCEPT ![w] = FALSE]
           /\ phase' = [phase EXCEPT ![w] = "settling"]
           /\ UNCHANGED live
  /\ UNCHANGED <<baseline, head, fit, rowVars, projection, events, job, seenHead, bounds>>

\* The event of a recognized record, at most one per revision.  It is skipped
\* for a result that is no record, is not verified, was superseded meanwhile,
\* or whose publication failed.
Publish(w) ==
  /\ phase[w] = "publishing"
  /\ LET k == job[w]
     IN \/ /\ projection[k] = "valid"
           /\ head[k[1]] = k[2]
           /\ events' = events \cup {k}
        \/ UNCHANGED events
  /\ phase' = [phase EXCEPT ![w] = "settling"]
  /\ UNCHANGED <<baseline, head, fit, rowVars, projection, live, job, seenHead, current, bounds>>

\* The worker is done with its claim and forgets what it read.
Return(w) ==
  /\ phase' = [phase EXCEPT ![w] = "idle"]
  /\ job' = [job EXCEPT ![w] = None]
  /\ seenHead' = [seenHead EXCEPT ![w] = 0]
  /\ current' = [current EXCEPT ![w] = FALSE]

\* Mutant of Settle: a revision found stale is settled as completed.
SettleAsCompleted(w) ==
  /\ phase[w] = "settling"
  /\ LET k == job[w]
     IN IF status[k] = "processing" /\ claimedBy[k] = w
          THEN /\ status' = [status EXCEPT ![k] = "completed"]
               /\ claimedBy' = [claimedBy EXCEPT ![k] = None]
               /\ expired' = [expired EXCEPT ![k] = FALSE]
          ELSE UNCHANGED rowVars
  /\ Return(w)
  /\ UNCHANGED <<baseline, head, fit, projection, live, events, bounds>>

\* Only the holder of the claim settles the row.
Settle(w) ==
  /\ phase[w] = "settling"
  /\ LET k == job[w]
     IN IF status[k] = "processing" /\ claimedBy[k] = w
          THEN /\ status' = [status EXCEPT ![k] = IF current[w] THEN "completed" ELSE "stale"]
               /\ claimedBy' = [claimedBy EXCEPT ![k] = None]
               /\ expired' = [expired EXCEPT ![k] = FALSE]
          ELSE UNCHANGED rowVars
  /\ Return(w)
  /\ UNCHANGED <<baseline, head, fit, projection, live, events, bounds>>

\* Mutant of Fail: the failure is recorded whoever holds the claim by now.
FailWhoeverHolds(w) ==
  /\ phase[w] # "idle"
  /\ interruptions < MaxInterruptions
  /\ interruptions' = interruptions + 1
  /\ status' = [status EXCEPT ![job[w]] = "failed"]
  /\ claimedBy' = [claimedBy EXCEPT ![job[w]] = None]
  /\ expired' = [expired EXCEPT ![job[w]] = FALSE]
  /\ Return(w)
  /\ UNCHANGED <<baseline, head, fit, projection, live, events, overruns>>

\* Any exception while the work is processed marks the row the worker holds.
Fail(w) ==
  /\ phase[w] # "idle"
  /\ interruptions < MaxInterruptions
  /\ interruptions' = interruptions + 1
  /\ LET k == job[w]
     IN IF claimedBy[k] = w
          THEN /\ status' = [status EXCEPT ![k] = "failed"]
               /\ claimedBy' = [claimedBy EXCEPT ![k] = None]
               /\ expired' = [expired EXCEPT ![k] = FALSE]
          ELSE UNCHANGED rowVars
  /\ Return(w)
  /\ UNCHANGED <<baseline, head, fit, projection, live, events, overruns>>

\* The process dies, or not even the failure can be written: the row stays
\* claimed until its lease runs out.
Crash(w) ==
  /\ phase[w] # "idle"
  /\ interruptions < MaxInterruptions
  /\ interruptions' = interruptions + 1
  /\ Return(w)
  /\ UNCHANGED <<baseline, head, fit, rowVars, projection, live, events, overruns>>

\* A living worker still processes the claim it holds on k.
InHand(k) == \E w \in Workers : job[w] = k /\ claimedBy[k] = w

LeaseExpires(k) ==
  /\ status[k] = "processing"
  /\ ~expired[k]
  /\ expired' = [expired EXCEPT ![k] = TRUE]
  /\ IF InHand(k)
       THEN overruns < MaxOverruns /\ overruns' = overruns + 1
       ELSE UNCHANGED overruns
  /\ UNCHANGED <<baseline, head, fit, status, claimedBy, projection, live, events, workerVars,
                 interruptions>>

-----------------------------------------------------------------------------
ProcessClaimedWork(w) ==
  \/ LoadWork(w)
  \/ Materialize(w)
  \/ ClassifyHistorical(w)
  \/ ClassifyLive(w)
  \/ Publish(w)
  \/ Settle(w)

Next ==
  \/ InstallBaseline
  \/ \E r \in Results : SnapshotAndEnqueue(r)
  \/ \E w \in Workers : ClaimNextWork(w) \/ ProcessClaimedWork(w) \/ Fail(w) \/ Crash(w)
  \/ \E k \in Works : LeaseExpires(k)

Spec == Init /\ [][Next]_vars

\* Workers poll and take their steps, leases run out, the export is installed
\* after the migration.  Ingestion owes nothing.
Fairness ==
  /\ WF_vars(InstallBaseline)
  /\ \A w \in Workers : WF_vars(ClaimNextWork(w) \/ ProcessClaimedWork(w))
  /\ \A k \in Works : WF_vars(LeaseExpires(k))

FairSpec == Spec /\ Fairness

-----------------------------------------------------------------------------
(* Properties.                                                             *)

\* Revisions of a result are handled in order: one is claimed, failed or
\* settled only after every earlier one is settled (claim_next_work), also
\* when leases are overrun and late workers fail or settle what they lost.
HandledInOrder ==
  \A j, k \in Works :
    Earlier(j, k) /\ status[k] \notin {"absent", "pending"} => status[j] \in Settled

\* Work that was settled stays as it was settled (process_claimed_work): no
\* late worker and no late exception reopens it.
SettledForGood == [][\A k \in Works : status[k] \in Settled => status'[k] = status[k]]_vars

\* A completed revision is in the live records, or they account for a later
\* one (classify_revision before the settling transaction).
CompletedIsLive ==
  \A k \in Works :
    status[k] = "completed" /\ k[1] \notin Absorbed => live[k[1]] >= k[2]

\* "marks the superseded projection invalid": of the revisions before a
\* completed one none has a valid projection (_invalidate_older_revisions).
SupersededProjectionsInvalid ==
  \A j, k \in Works : Earlier(j, k) /\ status[k] = "completed" => projection[j] # "valid"

\* The same, as far as it holds: while no lease ran out under a living worker.
InvalidUnlessOverrun == overruns = 0 => SupersededProjectionsInvalid

\* Live records and events follow the head: LiveHead is implemented.
HeadOf == INSTANCE LiveHead WITH latest <- head, announced <- events

ImplementsLiveHead == HeadOf!Spec

\* Every queued revision is settled, whatever failures, crashes and overrun
\* leases happened to it and to the revisions before it.
EveryRevisionSettles == \A k \in Works : status[k] = "pending" ~> status[k] \in Settled

\* The live records catch up with the head: a result whose head is at n is
\* accounted for at n or later.
LiveCatchesUp ==
  \A k \in Works :
    k[1] \notin Absorbed => (head[k[1]] = k[2] ~> live[k[1]] >= k[2])
=============================================================================
