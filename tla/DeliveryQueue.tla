---------------------------- MODULE DeliveryQueue ----------------------------
(***************************************************************************)
(* The notification outbox: the publisher fans an event out to endpoints,  *)
(* workers claim delivery rows, push them and record the answer, guests    *)
(* disable and enable their endpoint, claims time out, workers stop or die.*)
(*                                                                         *)
(* One database transaction, or one statement outside a transaction, is    *)
(* one action; provider.send runs between two of them.  Wall-clock time is *)
(* abstracted to one flag per row, timer[d], which TimerElapses sets once  *)
(* next_attempt_at (a retry) or the claim timeout (a claim) has passed.    *)
(* The order of rows inside a batch is left open.                          *)
(***************************************************************************)
EXTENDS Naturals, FiniteSets

CONSTANTS
  Events,            \* NotificationEvent rows the publisher may create
  Endpoints,         \* guests' NotificationEndpoint rows
  Workers,           \* notification worker processes
  None,              \* no worker, no delivery, no answer
  MaxAttempts,       \* PUSH_WORKER_MAX_ATTEMPTS
  BatchSize,         \* PUSH_WORKER_BATCH_SIZE
  MaxClock,          \* bound on stamped creations and activations
  MaxInterruptions,  \* bound on stops and crashes of workers
  MaxSlowClaims      \* bound on claims that time out while their worker lives

ASSUME MaxAttemptsAssumption == MaxAttempts \in Nat \ {0}
ASSUME BoundsAssumption ==
  BatchSize \in Nat /\ MaxClock \in Nat /\ MaxInterruptions \in Nat /\ MaxSlowClaims \in Nat
ASSUME WorkersAssumption == IsFiniteSet(Workers)
ASSUME NoneAssumption == None \notin Workers /\ None \notin Events \X Endpoints

Deliveries == Events \X Endpoints   \* unique_together (event, endpoint)

Waiting == {"pending", "retry"}
Settled == {"sent", "permanently_failed", "cancelled"}
Status  == {"absent", "processing"} \cup Waiting \cup Settled
Answers == {"success", "permanent", "transient"}

VARIABLES
  clock,       \* the last timestamp given to an event or an activation
  stage,       \* stage[ev]: how far publish_record_notification got
  createdAt,   \* createdAt[ev]
  recipients,  \* recipients[ev]: the endpoint rows create_deliveries read
  active,      \* active[ep]
  activatedAt, \* activatedAt[ep]
  status, attempts, claimedBy, timer,   \* the columns of each delivery row
  phase,       \* phase[w]: where worker w stands in process_due_batch
  batch,       \* batch[w]: claimed rows w has not taken up yet
  item,        \* item[w]: the row w is handling
  answer,      \* answer[w]: the provider's answer w has not recorded yet
  interruptions, slowClaims,   \* counters the bounds apply to
  \* History, read by no action:
  acks,        \* acks[d]: pushes of d the provider answered with success
  reclaims,    \* reclaims[d]: claims of d that took over a timed-out claim
  subscribed   \* subscribed[ev]: endpoints active when ev was created

eventVars    == <<stage, createdAt, recipients, subscribed>>
endpointVars == <<active, activatedAt>>
rowVars      == <<status, attempts, claimedBy, timer>>
workerVars   == <<phase, batch, item, answer>>
history      == <<acks, reclaims>>
bounds       == <<interruptions, slowClaims>>
vars == <<clock, eventVars, endpointVars, rowVars, workerVars, bounds, history>>

TypeOK ==
  /\ clock \in Nat
  /\ stage \in [Events -> {"new", "created", "selected", "published"}]
  /\ createdAt \in [Events -> Nat]
  /\ recipients \in [Events -> SUBSET Endpoints]
  /\ active \in [Endpoints -> BOOLEAN]
  /\ activatedAt \in [Endpoints -> Nat]
  /\ status \in [Deliveries -> Status]
  /\ attempts \in [Deliveries -> Nat]
  /\ claimedBy \in [Deliveries -> Workers \cup {None}]
  /\ timer \in [Deliveries -> BOOLEAN]
  /\ phase \in [Workers -> {"idle", "batch", "sending", "cancelling", "recording"}]
  /\ batch \in [Workers -> SUBSET Deliveries]
  /\ item \in [Workers -> Deliveries \cup {None}]
  /\ answer \in [Workers -> Answers \cup {None}]
  /\ interruptions \in Nat
  /\ slowClaims \in Nat
  /\ acks \in [Deliveries -> Nat]
  /\ reclaims \in [Deliveries -> Nat]
  /\ subscribed \in [Events -> SUBSET Endpoints]

Init ==
  /\ clock = 0
  /\ stage = [ev \in Events |-> "new"]
  /\ createdAt = [ev \in Events |-> 0]
  /\ recipients = [ev \in Events |-> {}]
  /\ active = [ep \in Endpoints |-> TRUE]
  /\ activatedAt = [ep \in Endpoints |-> 0]
  /\ status = [d \in Deliveries |-> "absent"]
  /\ attempts = [d \in Deliveries |-> 0]
  /\ claimedBy = [d \in Deliveries |-> None]
  /\ timer = [d \in Deliveries |-> FALSE]
  /\ phase = [w \in Workers |-> "idle"]
  /\ batch = [w \in Workers |-> {}]
  /\ item = [w \in Workers |-> None]
  /\ answer = [w \in Workers |-> None]
  /\ interruptions = 0
  /\ slowClaims = 0
  /\ acks = [d \in Deliveries |-> 0]
  /\ reclaims = [d \in Deliveries |-> 0]
  /\ subscribed = [ev \in Events |-> {}]

-----------------------------------------------------------------------------
(* The publisher: one transaction of three statements.  A rollback leaves  *)
(* no trace and is the same as never having started.                       *)

CreateEvent(ev) ==
  /\ stage[ev] = "new"
  /\ clock < MaxClock
  /\ clock' = clock + 1
  /\ createdAt' = [createdAt EXCEPT ![ev] = clock + 1]
  /\ stage' = [stage EXCEPT ![ev] = "created"]
  /\ subscribed' = [subscribed EXCEPT ![ev] = {ep \in Endpoints : active[ep]}]
  /\ UNCHANGED <<recipients, endpointVars, rowVars, workerVars, bounds, history>>

\* Mutant of Eligible: the activated_at filter is forgotten.
EligibleWhenActive(ev) == {ep \in Endpoints : active[ep]}

\* The endpoints the recipients' query can return; preferences pick among them.
Eligible(ev) == {ep \in Endpoints : active[ep] /\ activatedAt[ep] <= createdAt[ev]}

SelectRecipients(ev) ==
  /\ stage[ev] = "created"
  /\ \E chosen \in SUBSET Eligible(ev) : recipients' = [recipients EXCEPT ![ev] = chosen]
  /\ stage' = [stage EXCEPT ![ev] = "selected"]
  /\ UNCHANGED <<clock, createdAt, subscribed, endpointVars, rowVars, workerVars, bounds, history>>

InsertDeliveries(ev) ==
  /\ stage[ev] = "selected"
  /\ stage' = [stage EXCEPT ![ev] = "published"]
  /\ status' = [d \in Deliveries |->
       IF d[1] = ev /\ d[2] \in recipients[ev] THEN "pending" ELSE status[d]]
  /\ UNCHANGED <<clock, createdAt, recipients, subscribed, endpointVars, attempts, claimedBy,
                 timer, workerVars, bounds, history>>

-----------------------------------------------------------------------------
(* Guests.                                                                 *)

\* The POST of an existing subscription whose endpoint is inactive.
EnableEndpoint(ep) ==
  /\ ~active[ep]
  /\ clock < MaxClock
  /\ clock' = clock + 1
  /\ active' = [active EXCEPT ![ep] = TRUE]
  /\ activatedAt' = [activatedAt EXCEPT ![ep] = clock + 1]
  /\ UNCHANGED <<eventVars, rowVars, workerVars, bounds, history>>

DisableEndpoint(ep) ==
  /\ active' = [active EXCEPT ![ep] = FALSE]
  /\ status' = [d \in Deliveries |->
       IF d[2] = ep /\ status[d] \in Waiting THEN "cancelled" ELSE status[d]]
  /\ UNCHANGED <<clock, eventVars, activatedAt, attempts, claimedBy, timer, workerVars, bounds,
                 history>>

-----------------------------------------------------------------------------
(* Workers.                                                                *)

\* Mutant of Due: timed-out claims are never taken over.
DueUnclaimed(d) ==
  \/ status[d] = "pending"
  \/ status[d] = "retry" /\ timer[d]

Due(d) ==
  \/ status[d] = "pending"
  \/ status[d] \in {"retry", "processing"} /\ timer[d]

ClaimDueDeliveries(w) ==
  /\ phase[w] = "idle"
  /\ \E rows \in SUBSET {d \in Deliveries : Due(d)} :
       /\ rows # {}
       /\ Cardinality(rows) <= BatchSize
       /\ status' = [d \in Deliveries |-> IF d \in rows THEN "processing" ELSE status[d]]
       /\ attempts' = [d \in Deliveries |-> IF d \in rows THEN attempts[d] + 1 ELSE attempts[d]]
       /\ claimedBy' = [d \in Deliveries |-> IF d \in rows THEN w ELSE claimedBy[d]]
       /\ timer' = [d \in Deliveries |-> IF d \in rows THEN FALSE ELSE timer[d]]
       /\ reclaims' = [d \in Deliveries |->
            IF d \in rows /\ status[d] = "processing" THEN reclaims[d] + 1 ELSE reclaims[d]]
       /\ batch' = [batch EXCEPT ![w] = rows]
  /\ phase' = [phase EXCEPT ![w] = "batch"]
  /\ UNCHANGED <<clock, eventVars, endpointVars, item, answer, bounds, acks>>

\* Where the batch loop stands once the current row is done with.
PhaseAfter(rest) == IF rest = {} THEN "idle" ELSE "batch"

\* process_claimed_delivery reads the row and its endpoint, without a lock,
\* and then sends, cancels or drops the row.
TakeUp(w) ==
  /\ phase[w] = "batch"
  /\ \E d \in batch[w] :
       /\ batch' = [batch EXCEPT ![w] = @ \ {d}]
       /\ \/ /\ status[d] # "processing"
             /\ phase' = [phase EXCEPT ![w] = PhaseAfter(batch[w] \ {d})]
             /\ UNCHANGED item
          \/ /\ status[d] = "processing"
             /\ phase' = [phase EXCEPT ![w] = IF active[d[2]] THEN "sending" ELSE "cancelling"]
             /\ item' = [item EXCEPT ![w] = d]
  /\ UNCHANGED <<clock, eventVars, endpointVars, rowVars, answer, bounds, history>>

CancelInactive(w) ==
  /\ phase[w] = "cancelling"
  /\ IF status[item[w]] = "processing"
       THEN /\ status' = [status EXCEPT ![item[w]] = "cancelled"]
            /\ claimedBy' = [claimedBy EXCEPT ![item[w]] = None]
       ELSE UNCHANGED <<status, claimedBy>>
  /\ item' = [item EXCEPT ![w] = None]
  /\ phase' = [phase EXCEPT ![w] = PhaseAfter(batch[w])]
  /\ UNCHANGED <<clock, eventVars, endpointVars, attempts, timer, batch, answer, bounds, history>>

\* provider.send answers; an exception counts as an application failure.
ProviderAnswers(w) ==
  /\ phase[w] = "sending"
  /\ \E a \in Answers :
       /\ answer' = [answer EXCEPT ![w] = a]
       /\ acks' = IF a = "success" THEN [acks EXCEPT ![item[w]] = @ + 1] ELSE acks
  /\ phase' = [phase EXCEPT ![w] = "recording"]
  /\ UNCHANGED <<clock, eventVars, endpointVars, rowVars, batch, item, bounds, reclaims>>

RecordSuccess(d) ==
  /\ status' = [status EXCEPT ![d] = "sent"]
  /\ claimedBy' = [claimedBy EXCEPT ![d] = None]
  /\ UNCHANGED <<active, timer>>

\* The endpoint is gone: it is deactivated and every unsettled row of it fails.
RecordPermanentFailure(d) ==
  /\ active' = [active EXCEPT ![d[2]] = FALSE]
  /\ LET lost == {e \in Deliveries : e[2] = d[2] /\ status[e] \in Waiting \cup {"processing"}}
     IN /\ status' = [e \in Deliveries |->
                        IF e \in lost THEN "permanently_failed" ELSE status[e]]
        /\ claimedBy' = [e \in Deliveries |-> IF e \in lost THEN None ELSE claimedBy[e]]
  /\ UNCHANGED timer

\* Mutant of ScheduleRetry: off by one at the attempt limit.
ScheduleOneRetryMore(d) ==
  /\ claimedBy' = [claimedBy EXCEPT ![d] = None]
  /\ IF attempts[d] > MaxAttempts
       THEN status' = [status EXCEPT ![d] = "permanently_failed"] /\ UNCHANGED timer
       ELSE /\ status' = [status EXCEPT ![d] = "retry"]
            /\ timer' = [timer EXCEPT ![d] = FALSE]
  /\ UNCHANGED active

ScheduleRetry(d) ==
  /\ claimedBy' = [claimedBy EXCEPT ![d] = None]
  /\ IF attempts[d] >= MaxAttempts
       THEN status' = [status EXCEPT ![d] = "permanently_failed"] /\ UNCHANGED timer
       ELSE /\ status' = [status EXCEPT ![d] = "retry"]
            /\ timer' = [timer EXCEPT ![d] = FALSE]
  /\ UNCHANGED active

\* Mutant of RecordAnswer: a late answer is recorded over a settled row.
RecordAnyAnswer(d, a) ==
  CASE a = "success"   -> RecordSuccess(d)
    [] a = "permanent" -> RecordPermanentFailure(d)
    [] a = "transient" -> ScheduleRetry(d)

\* _record_delivery_result: whoever holds the claim by now, only the row's
\* status decides whether the answer counts.
RecordAnswer(d, a) ==
  IF status[d] # "processing" THEN UNCHANGED <<status, claimedBy, timer, active>>
  ELSE CASE a = "success"   -> RecordSuccess(d)
         [] a = "permanent" -> RecordPermanentFailure(d)
         [] a = "transient" -> ScheduleRetry(d)

RecordDeliveryResult(w) ==
  /\ phase[w] = "recording"
  /\ RecordAnswer(item[w], answer[w])
  /\ item' = [item EXCEPT ![w] = None]
  /\ answer' = [answer EXCEPT ![w] = None]
  /\ phase' = [phase EXCEPT ![w] = PhaseAfter(batch[w])]
  /\ UNCHANGED <<clock, eventVars, activatedAt, attempts, batch, bounds, history>>

\* The stop event is seen between two rows: the rest of the batch is given
\* back, as far as this worker still holds it, and the process exits.
Releasable(w) == {d \in batch[w] : status[d] = "processing" /\ claimedBy[d] = w}

\* Mutant of StopAndRelease: the batch loop is not left after the release.
ReleaseAndGoOn(w) ==
  /\ phase[w] = "batch"
  /\ interruptions < MaxInterruptions
  /\ interruptions' = interruptions + 1
  /\ LET given == Releasable(w)
     IN /\ status' = [d \in Deliveries |-> IF d \in given THEN "retry" ELSE status[d]]
        /\ attempts' = [d \in Deliveries |-> IF d \in given THEN attempts[d] - 1 ELSE attempts[d]]
        /\ timer' = [d \in Deliveries |-> IF d \in given THEN TRUE ELSE timer[d]]
        /\ claimedBy' = [d \in Deliveries |-> IF d \in given THEN None ELSE claimedBy[d]]
  /\ UNCHANGED <<clock, eventVars, endpointVars, workerVars, slowClaims, history>>

StopAndRelease(w) ==
  /\ phase[w] = "batch"
  /\ interruptions < MaxInterruptions
  /\ interruptions' = interruptions + 1
  /\ LET given == Releasable(w)
     IN /\ status' = [d \in Deliveries |-> IF d \in given THEN "retry" ELSE status[d]]
        /\ attempts' = [d \in Deliveries |-> IF d \in given THEN attempts[d] - 1 ELSE attempts[d]]
        /\ timer' = [d \in Deliveries |-> IF d \in given THEN TRUE ELSE timer[d]]
        /\ claimedBy' = [d \in Deliveries |-> IF d \in given THEN None ELSE claimedBy[d]]
  /\ phase' = [phase EXCEPT ![w] = "idle"]
  /\ batch' = [batch EXCEPT ![w] = {}]
  /\ UNCHANGED <<clock, eventVars, endpointVars, item, answer, slowClaims, history>>

\* The process dies, or a database error throws it out of the batch; either
\* way its rows stay claimed and its successor starts with no batch.
Crash(w) ==
  /\ phase[w] # "idle"
  /\ interruptions < MaxInterruptions
  /\ interruptions' = interruptions + 1
  /\ phase' = [phase EXCEPT ![w] = "idle"]
  /\ batch' = [batch EXCEPT ![w] = {}]
  /\ item' = [item EXCEPT ![w] = None]
  /\ answer' = [answer EXCEPT ![w] = None]
  /\ UNCHANGED <<clock, eventVars, endpointVars, rowVars, slowClaims, history>>

-----------------------------------------------------------------------------
(* Time.                                                                   *)

\* Some live worker still means to handle d.
Handled(d) == \E w \in Workers : d \in batch[w] \/ d = item[w]

TimerElapses(d) ==
  /\ status[d] \in {"retry", "processing"}
  /\ ~timer[d]
  /\ timer' = [timer EXCEPT ![d] = TRUE]
  /\ IF status[d] = "processing" /\ Handled(d)
       THEN slowClaims < MaxSlowClaims /\ slowClaims' = slowClaims + 1
       ELSE UNCHANGED slowClaims
  /\ UNCHANGED <<clock, eventVars, endpointVars, status, attempts, claimedBy, workerVars,
                 interruptions, history>>

-----------------------------------------------------------------------------
WorkerStep(w) ==
  \/ ClaimDueDeliveries(w)
  \/ TakeUp(w)
  \/ CancelInactive(w)
  \/ ProviderAnswers(w)
  \/ RecordDeliveryResult(w)

Next ==
  \/ \E ev \in Events : CreateEvent(ev) \/ SelectRecipients(ev) \/ InsertDeliveries(ev)
  \/ \E ep \in Endpoints : EnableEndpoint(ep) \/ DisableEndpoint(ep)
  \/ \E w \in Workers : WorkerStep(w) \/ StopAndRelease(w) \/ Crash(w)
  \/ \E d \in Deliveries : TimerElapses(d)

Spec == Init /\ [][Next]_vars

\* A worker that is up keeps stepping (its loop polls, and every request has
\* a timeout), and time passes.  Guests and publishers owe nothing.
Fairness ==
  /\ \A w \in Workers : WF_vars(WorkerStep(w))
  /\ \A d \in Deliveries : WF_vars(TimerElapses(d))

FairSpec == Spec /\ Fairness

-----------------------------------------------------------------------------
(* Properties.                                                             *)

\* A row is acknowledged by the provider at most once, unless a claim on it
\* timed out and another worker took it over (claim_due_deliveries): stops,
\* crashes, retries and late answers alone never repeat an alert.
RepeatsOnlyAfterReclaim == \A d \in Deliveries : acks[d] <= 1 + reclaims[d]

\* Attempts are limited: a row that waits for another attempt has one left,
\* and a claimed one has used at most the maximum, not counting the attempts
\* started by taking over a timed-out claim.
AttemptBudget ==
  \A d \in Deliveries :
    /\ status[d] \in Waiting => attempts[d] < MaxAttempts + reclaims[d]
    /\ status[d] = "processing" => attempts[d] \in 1 .. MaxAttempts + reclaims[d]

\* An endpoint that was inactive when the event was created gets no row for
\* it, though it may be enabled again before the recipients are read.
NoAlertFromBeforeActivation ==
  \A d \in Deliveries : status[d] # "absent" => d[2] \in subscribed[d[1]]

\* The rows implement the outbox: settled once and for good, sent only what
\* the provider accepted, with late answers of workers that lost their claim.
Fate(d) ==
  CASE status[d] \in Waiting \cup {"processing"} -> "owed"
    [] status[d] = "permanently_failed" -> "failed"
    [] OTHER -> status[d]

OutboxOf == INSTANCE Outbox WITH
  fate <- [d \in Deliveries |-> Fate(d)],
  accepted <- {d \in Deliveries : acks[d] > 0}

ImplementsOutbox == OutboxOf!Spec

\* Every inserted row is settled, whatever stops, crashes and lost claims did
\* to it on the way.
EveryRowSettles ==
  \A d \in Deliveries : status[d] # "absent" ~> status[d] \in Settled
=============================================================================
