------------------------- MODULE DeliveryQueueProofs -------------------------
(* Theorems about DeliveryQueue, for any sets of events, endpoints and     *)
(* workers and any bounds.                                                 *)
EXTENDS DeliveryQueue, FiniteSetTheorems, TLAPS

(***************************************************************************)
(* Type correctness.                                                       *)
(***************************************************************************)

LEMMA InitTypeOK == Init => TypeOK
  BY DEF Init, TypeOK, Deliveries, Status

LEMMA PublisherTypeOK ==
  ASSUME TypeOK, NEW ev \in Events,
         CreateEvent(ev) \/ SelectRecipients(ev) \/ InsertDeliveries(ev)
  PROVE  TypeOK'
<1> USE DEF TypeOK, eventVars, endpointVars, rowVars, workerVars, bounds, history
<1>1. CASE CreateEvent(ev)
  BY <1>1 DEF CreateEvent
<1>2. CASE SelectRecipients(ev)
  BY <1>2 DEF SelectRecipients, Eligible
<1>3. CASE InsertDeliveries(ev)
  BY <1>3 DEF InsertDeliveries, Status, Waiting
<1>4. QED
  BY <1>1, <1>2, <1>3

LEMMA GuestTypeOK ==
  ASSUME TypeOK, NEW ep \in Endpoints, EnableEndpoint(ep) \/ DisableEndpoint(ep)
  PROVE  TypeOK'
<1> USE DEF TypeOK, eventVars, endpointVars, rowVars, workerVars, bounds, history
<1>1. CASE EnableEndpoint(ep)
  BY <1>1 DEF EnableEndpoint
<1>2. CASE DisableEndpoint(ep)
  BY <1>2 DEF DisableEndpoint, Status, Settled
<1>3. QED
  BY <1>1, <1>2

\* What recording an answer amounts to.
LEMMA RecordAnswerCases ==
  ASSUME NEW d \in Deliveries, NEW a \in Answers, RecordAnswer(d, a)
  PROVE  \/ UNCHANGED <<status, claimedBy, timer, active>>
         \/ status[d] = "processing" /\ a = "success" /\ RecordSuccess(d)
         \/ status[d] = "processing" /\ a = "permanent" /\ RecordPermanentFailure(d)
         \/ status[d] = "processing" /\ a = "transient" /\ ScheduleRetry(d)
<1>1. CASE status[d] # "processing"
  BY <1>1 DEF RecordAnswer
<1>2. CASE status[d] = "processing"
  <2>1. a = "success" \/ a = "permanent" \/ a = "transient"
    BY DEF Answers
  <2>2. QED
    BY <1>2, <2>1 DEF RecordAnswer
<1>3. QED
  BY <1>1, <1>2

\* The row columns stay typed whatever answer is recorded.
LEMMA RecordAnswerTypeOK ==
  ASSUME TypeOK, NEW d \in Deliveries, NEW a \in Answers, RecordAnswer(d, a)
  PROVE  /\ status' \in [Deliveries -> Status]
         /\ claimedBy' \in [Deliveries -> Workers \cup {None}]
         /\ timer' \in [Deliveries -> BOOLEAN]
         /\ active' \in [Endpoints -> BOOLEAN]
<1> USE DEF TypeOK, Status, Settled, Waiting
<1>1. CASE RecordSuccess(d)
  BY <1>1 DEF RecordSuccess
<1>2. CASE RecordPermanentFailure(d)
  BY <1>2 DEF RecordPermanentFailure
<1>3. CASE ScheduleRetry(d)
  BY <1>3 DEF ScheduleRetry
<1>4. QED
  BY <1>1, <1>2, <1>3, RecordAnswerCases

\* What a worker that is recording holds: a row and an answer.
HoldsItem ==
  \A w \in Workers :
    /\ phase[w] \in {"sending", "cancelling", "recording"} => item[w] \in Deliveries
    /\ phase[w] = "recording" => answer[w] \in Answers

LEMMA WorkerTypeOK ==
  ASSUME TypeOK, HoldsItem, NEW w \in Workers, WorkerStep(w)
  PROVE  TypeOK'
<1> USE DEF TypeOK, eventVars, endpointVars, rowVars, workerVars, bounds, history
<1>1. CASE ClaimDueDeliveries(w)
  <2>1. PICK rows \in SUBSET Deliveries :
          /\ status' = [d \in Deliveries |-> IF d \in rows THEN "processing" ELSE status[d]]
          /\ attempts' = [d \in Deliveries |->
                            IF d \in rows THEN attempts[d] + 1 ELSE attempts[d]]
          /\ claimedBy' = [d \in Deliveries |-> IF d \in rows THEN w ELSE claimedBy[d]]
          /\ timer' = [d \in Deliveries |-> IF d \in rows THEN FALSE ELSE timer[d]]
          /\ reclaims' = [d \in Deliveries |->
               IF d \in rows /\ status[d] = "processing" THEN reclaims[d] + 1 ELSE reclaims[d]]
          /\ batch' = [batch EXCEPT ![w] = rows]
    BY <1>1 DEF ClaimDueDeliveries
  <2>2. /\ phase' = [phase EXCEPT ![w] = "batch"]
        /\ UNCHANGED <<clock, eventVars, endpointVars, item, answer, bounds, acks>>
    BY <1>1 DEF ClaimDueDeliveries
  <2>3. status' \in [Deliveries -> Status] /\ attempts' \in [Deliveries -> Nat]
    BY <2>1 DEF Status
  <2>4. claimedBy' \in [Deliveries -> Workers \cup {None}] /\ reclaims' \in [Deliveries -> Nat]
    BY <2>1
  <2>5. timer' \in [Deliveries -> BOOLEAN]
    BY <2>1
  <2>6. batch' \in [Workers -> SUBSET Deliveries]
    BY <2>1
  <2>7. QED
    BY <2>2, <2>3, <2>4, <2>5, <2>6
<1>2. CASE TakeUp(w)
  BY <1>2 DEF TakeUp, PhaseAfter
<1>3. CASE CancelInactive(w)
  BY <1>3 DEF CancelInactive, PhaseAfter, Status, Settled, HoldsItem
<1>4. CASE ProviderAnswers(w)
  BY <1>4 DEF ProviderAnswers, HoldsItem
<1>5. CASE RecordDeliveryResult(w)
  BY <1>5, RecordAnswerTypeOK DEF RecordDeliveryResult, PhaseAfter, HoldsItem
<1>6. QED
  BY <1>1, <1>2, <1>3, <1>4, <1>5 DEF WorkerStep

LEMMA InterruptionTypeOK ==
  ASSUME TypeOK, NEW w \in Workers, StopAndRelease(w) \/ Crash(w),
         \A d \in Releasable(w) : attempts[d] \in Nat \ {0}
  PROVE  TypeOK'
<1> USE DEF TypeOK, eventVars, endpointVars, rowVars, workerVars, bounds, history
<1>1. CASE StopAndRelease(w)
  <2>1. status' \in [Deliveries -> Status]
    BY <1>1 DEF StopAndRelease, Status, Waiting
  <2>2. attempts' \in [Deliveries -> Nat]
    <3>1. attempts' = [d \in Deliveries |->
                         IF d \in Releasable(w) THEN attempts[d] - 1 ELSE attempts[d]]
      BY <1>1 DEF StopAndRelease
    <3>2. \A d \in Releasable(w) : attempts[d] - 1 \in Nat
      OBVIOUS
    <3>3. QED
      BY <3>1, <3>2
  <2>3. timer' \in [Deliveries -> BOOLEAN] /\ claimedBy' \in [Deliveries -> Workers \cup {None}]
    BY <1>1 DEF StopAndRelease
  <2>4. /\ interruptions' = interruptions + 1
        /\ phase' = [phase EXCEPT ![w] = "idle"]
        /\ batch' = [batch EXCEPT ![w] = {}]
        /\ UNCHANGED <<clock, eventVars, endpointVars, item, answer, slowClaims, history>>
    BY <1>1 DEF StopAndRelease
  <2>5. QED
    BY <2>1, <2>2, <2>3, <2>4
<1>2. CASE Crash(w)
  BY <1>2 DEF Crash
<1>3. QED
  BY <1>1, <1>2

LEMMA TimerTypeOK ==
  ASSUME TypeOK, NEW d \in Deliveries, TimerElapses(d)
  PROVE  TypeOK'
  BY DEF TypeOK, TimerElapses, eventVars, endpointVars, rowVars, workerVars, bounds, history

LEMMA HoldsItemStep ==
  ASSUME TypeOK, HoldsItem, [Next]_vars
  PROVE  HoldsItem'
<1> USE DEF TypeOK, HoldsItem, workerVars, rowVars
<1>1. CASE UNCHANGED workerVars
  BY <1>1
<1>2. ASSUME NEW w \in Workers, WorkerStep(w)
      PROVE  HoldsItem'
  <2>1. CASE ClaimDueDeliveries(w)
    BY <2>1 DEF ClaimDueDeliveries
  <2>2. CASE TakeUp(w)
    BY <2>2 DEF TakeUp, PhaseAfter
  <2>3. CASE CancelInactive(w)
    BY <2>3 DEF CancelInactive, PhaseAfter
  <2>4. CASE ProviderAnswers(w)
    BY <2>4 DEF ProviderAnswers
  <2>5. CASE RecordDeliveryResult(w)
    BY <2>5 DEF RecordDeliveryResult, PhaseAfter
  <2>6. QED
    BY <1>2, <2>1, <2>2, <2>3, <2>4, <2>5 DEF WorkerStep
<1>3. ASSUME NEW w \in Workers, StopAndRelease(w) \/ Crash(w)
      PROVE  HoldsItem'
  <2>1. phase' = [phase EXCEPT ![w] = "idle"]
    BY <1>3 DEF StopAndRelease, Crash
  <2>2. \A u \in Workers : u # w => item'[u] = item[u] /\ answer'[u] = answer[u]
    BY <1>3 DEF StopAndRelease, Crash
  <2>3. QED
    BY <2>1, <2>2
<1>4. ASSUME NEW ev \in Events, CreateEvent(ev) \/ SelectRecipients(ev) \/ InsertDeliveries(ev)
      PROVE  UNCHANGED workerVars
  BY <1>4 DEF CreateEvent, SelectRecipients, InsertDeliveries
<1>5. ASSUME NEW ep \in Endpoints, EnableEndpoint(ep) \/ DisableEndpoint(ep)
      PROVE  UNCHANGED workerVars
  BY <1>5 DEF EnableEndpoint, DisableEndpoint
<1>6. ASSUME NEW d \in Deliveries, TimerElapses(d)
      PROVE  UNCHANGED workerVars
  BY <1>6 DEF TimerElapses
<1>7. CASE UNCHANGED vars
  BY <1>7 DEF vars
<1>8. QED
  BY <1>1, <1>2, <1>3, <1>4, <1>5, <1>6, <1>7 DEF Next

(***************************************************************************)
(* The inductive invariant.                                                *)
(***************************************************************************)

\* The publisher: rows of an event exist only once it is published, and only
\* endpoints that were active when it was stamped can be among its
\* recipients.  The timestamps carry this across the statements of the
\* transaction: whoever is enabled in between is stamped later.
EventInv ==
  \A ev \in Events :
    /\ createdAt[ev] <= clock
    /\ stage[ev] = "created" => Eligible(ev) \subseteq subscribed[ev]
    /\ stage[ev] \in {"selected", "published"} => recipients[ev] \subseteq subscribed[ev]
    /\ stage[ev] # "published" => \A d \in Deliveries : d[1] = ev => status[d] = "absent"

\* A row starts with no attempt, and every later status keeps to the budget.
AttemptInv ==
  /\ \A d \in Deliveries : status[d] = "absent" => attempts[d] = 0
  /\ AttemptBudget

\* Workers only hold rows that exist, and an unrecorded success was counted.
ClaimInv ==
  /\ \A w \in Workers :
       /\ \A d \in batch[w] : status[d] # "absent"
       /\ item[w] # None => status[item[w]] # "absent"
       /\ phase[w] = "recording" /\ answer[w] = "success" => acks[item[w]] > 0
  /\ \A d \in Deliveries : status[d] = "sent" => acks[d] > 0

IInv ==
  /\ TypeOK
  /\ HoldsItem
  /\ EventInv
  /\ AttemptInv
  /\ ClaimInv
  /\ NoAlertFromBeforeActivation

LEMMA InitIInv == Init => IInv
<1>1. Init => HoldsItem /\ AttemptInv
  BY MaxAttemptsAssumption DEF Init, HoldsItem, AttemptInv, AttemptBudget, Waiting
<1>2. Init => EventInv /\ ClaimInv /\ NoAlertFromBeforeActivation
  BY NoneAssumption DEF Init, EventInv, ClaimInv, NoAlertFromBeforeActivation
<1>3. QED
  BY <1>1, <1>2, InitTypeOK DEF IInv

\* Workers settle, claim and give back rows; they create none, and they
\* enable no endpoint.
LEMMA WorkerCreatesNothing ==
  ASSUME TypeOK, HoldsItem, NEW w \in Workers, WorkerStep(w)
  PROVE  /\ \A ep \in Endpoints : active'[ep] => active[ep]
         /\ \A d \in Deliveries : status[d] = "absent" => status'[d] = "absent"
<1> USE DEF TypeOK, endpointVars, rowVars
<1>1. CASE ClaimDueDeliveries(w)
  BY <1>1 DEF ClaimDueDeliveries, Due
<1>2. CASE TakeUp(w)
  BY <1>2 DEF TakeUp
<1>3. CASE CancelInactive(w)
  BY <1>3 DEF CancelInactive
<1>4. CASE ProviderAnswers(w)
  BY <1>4 DEF ProviderAnswers
<1>5. CASE RecordDeliveryResult(w)
  <2>1. item[w] \in Deliveries /\ answer[w] \in Answers /\ RecordAnswer(item[w], answer[w])
    BY <1>5 DEF RecordDeliveryResult, HoldsItem
  <2>2. CASE UNCHANGED <<status, active>>
    BY <2>2
  <2>3. CASE status[item[w]] = "processing" /\ RecordSuccess(item[w])
    BY <2>3 DEF RecordSuccess
  <2>4. CASE RecordPermanentFailure(item[w])
    BY <2>4 DEF RecordPermanentFailure, Waiting
  <2>5. CASE status[item[w]] = "processing" /\ ScheduleRetry(item[w])
    BY <2>5 DEF ScheduleRetry
  <2>6. QED
    BY <2>1, <2>2, <2>3, <2>4, <2>5, RecordAnswerCases
<1>6. QED
  BY <1>1, <1>2, <1>3, <1>4, <1>5 DEF WorkerStep

LEMMA EventInvStep ==
  ASSUME TypeOK, HoldsItem, EventInv, [Next]_vars
  PROVE  EventInv'
<1> USE DEF TypeOK, EventInv, Eligible
<1>1. ASSUME NEW ev \in Events, CreateEvent(ev)
      PROVE  EventInv'
  BY <1>1 DEF CreateEvent, endpointVars, rowVars
<1>2. ASSUME NEW ev \in Events, SelectRecipients(ev)
      PROVE  EventInv'
  BY <1>2 DEF SelectRecipients, endpointVars, rowVars
<1>3. ASSUME NEW ev \in Events, InsertDeliveries(ev)
      PROVE  EventInv'
  BY <1>3 DEF InsertDeliveries, endpointVars
<1>4. ASSUME NEW ep \in Endpoints, EnableEndpoint(ep)
      PROVE  EventInv'
  BY <1>4 DEF EnableEndpoint, eventVars, rowVars
<1>5. ASSUME NEW ep \in Endpoints, DisableEndpoint(ep)
      PROVE  EventInv'
  BY <1>5 DEF DisableEndpoint, eventVars, Waiting
\* Every other step keeps the event's columns, enables no endpoint and
\* creates no row.
<1>6. ASSUME UNCHANGED <<clock, eventVars, activatedAt>>,
             \A ep \in Endpoints : active'[ep] => active[ep],
             \A d \in Deliveries : status[d] = "absent" => status'[d] = "absent"
      PROVE  EventInv'
  BY <1>6 DEF eventVars
<1>7. ASSUME NEW w \in Workers, WorkerStep(w)
      PROVE  EventInv'
  <2>1. UNCHANGED <<clock, eventVars, activatedAt>>
    BY <1>7 DEF WorkerStep, ClaimDueDeliveries, TakeUp, CancelInactive, ProviderAnswers,
                RecordDeliveryResult, endpointVars
  <2>2. QED
    BY <1>6, <1>7, <2>1, WorkerCreatesNothing
<1>8. ASSUME NEW w \in Workers, StopAndRelease(w)
      PROVE  EventInv'
  <2>1. \A d \in Deliveries : status[d] = "absent" => status'[d] = "absent"
    BY <1>8 DEF StopAndRelease, Releasable
  <2>2. QED
    BY <1>8, <1>6, <2>1 DEF StopAndRelease, endpointVars
<1>9. ASSUME NEW w \in Workers, Crash(w)
      PROVE  EventInv'
  BY <1>9, <1>6 DEF Crash, endpointVars, rowVars
<1>10. ASSUME NEW d \in Deliveries, TimerElapses(d)
       PROVE  EventInv'
  BY <1>10, <1>6 DEF TimerElapses, endpointVars
<1>11. CASE UNCHANGED vars
  BY <1>11, <1>6 DEF vars, endpointVars, rowVars
<1>12. QED
  BY <1>1, <1>2, <1>3, <1>4, <1>5, <1>7, <1>8, <1>9, <1>10, <1>11 DEF Next

LEMMA NoAlertStep ==
  ASSUME TypeOK, HoldsItem, EventInv, NoAlertFromBeforeActivation, [Next]_vars
  PROVE  NoAlertFromBeforeActivation'
<1> USE DEF TypeOK, NoAlertFromBeforeActivation
<1>1. ASSUME NEW ev \in Events, CreateEvent(ev)
      PROVE  NoAlertFromBeforeActivation'
  <2>1. \A d \in Deliveries : status[d] # "absent" => d[1] # ev
    BY <1>1 DEF CreateEvent, EventInv
  <2>2. QED
    BY <1>1, <2>1 DEF CreateEvent, rowVars, Deliveries
<1>2. ASSUME NEW ev \in Events, InsertDeliveries(ev)
      PROVE  NoAlertFromBeforeActivation'
  <2>1. recipients[ev] \subseteq subscribed[ev]
    BY <1>2 DEF InsertDeliveries, EventInv
  <2>2. /\ UNCHANGED subscribed
        /\ \A d \in Deliveries :
             status'[d] # "absent" =>
               status[d] # "absent" \/ (d[1] = ev /\ d[2] \in recipients[ev])
    BY <1>2 DEF InsertDeliveries
  <2>3. ASSUME NEW d \in Deliveries, status'[d] # "absent"
        PROVE  d[2] \in subscribed[d[1]]
    <3>1. CASE status[d] # "absent"
      BY <3>1
    <3>2. CASE d[1] = ev /\ d[2] \in recipients[ev]
      BY <2>1, <3>2
    <3>3. QED
      BY <2>2, <2>3, <3>1, <3>2
  <2>4. QED
    BY <2>2, <2>3
\* No other step creates a row or an event.
<1>3. ASSUME UNCHANGED subscribed,
             \A d \in Deliveries : status[d] = "absent" => status'[d] = "absent"
      PROVE  NoAlertFromBeforeActivation'
  BY <1>3
<1>4. ASSUME NEW ev \in Events, SelectRecipients(ev)
      PROVE  NoAlertFromBeforeActivation'
  BY <1>3, <1>4 DEF SelectRecipients, rowVars
<1>5. ASSUME NEW ep \in Endpoints, EnableEndpoint(ep) \/ DisableEndpoint(ep)
      PROVE  NoAlertFromBeforeActivation'
  BY <1>3, <1>5 DEF EnableEndpoint, DisableEndpoint, eventVars, rowVars, Waiting
<1>6. ASSUME NEW w \in Workers, WorkerStep(w)
      PROVE  NoAlertFromBeforeActivation'
  <2>1. UNCHANGED subscribed
    BY <1>6 DEF WorkerStep, ClaimDueDeliveries, TakeUp, CancelInactive, ProviderAnswers,
                RecordDeliveryResult, eventVars
  <2>2. \A d \in Deliveries : status[d] = "absent" => status'[d] = "absent"
    BY <1>6, WorkerCreatesNothing
  <2>3. QED
    BY <1>3, <2>1, <2>2
<1>7. ASSUME NEW w \in Workers, StopAndRelease(w) \/ Crash(w)
      PROVE  NoAlertFromBeforeActivation'
  <2>1. CASE StopAndRelease(w)
    <3>1. \A d \in Deliveries : status[d] = "absent" => status'[d] = "absent"
      BY <2>1 DEF StopAndRelease, Releasable
    <3>2. QED
      BY <1>3, <2>1, <3>1 DEF StopAndRelease, eventVars
  <2>2. CASE Crash(w)
    BY <1>3, <2>2 DEF Crash, eventVars, rowVars
  <2>3. QED
    BY <1>7, <2>1, <2>2
<1>8. ASSUME NEW d \in Deliveries, TimerElapses(d)
      PROVE  NoAlertFromBeforeActivation'
  BY <1>3, <1>8 DEF TimerElapses, eventVars
<1>9. CASE UNCHANGED vars
  BY <1>3, <1>9 DEF vars, eventVars, rowVars
<1>10. QED
  BY <1>1, <1>2, <1>4, <1>5, <1>6, <1>7, <1>8, <1>9 DEF Next

LEMMA AttemptInvStep ==
  ASSUME TypeOK, HoldsItem, EventInv, AttemptInv, [Next]_vars
  PROVE  AttemptInv'
<1> USE DEF TypeOK, AttemptInv, AttemptBudget, Waiting
<1> USE MaxAttemptsAssumption
<1>1. CASE UNCHANGED <<status, attempts, reclaims>>
  BY <1>1
\* Settling rows spends no attempt.
<1>2. ASSUME UNCHANGED <<attempts, reclaims>>,
             \A d \in Deliveries : status'[d] = status[d] \/ status'[d] \in Settled
      PROVE  AttemptInv'
  BY <1>2 DEF Settled
<1>3. ASSUME NEW ev \in Events, InsertDeliveries(ev)
      PROVE  AttemptInv'
  <2>1. \A d \in Deliveries : d[1] = ev => status[d] = "absent" /\ attempts[d] = 0
    BY <1>3 DEF InsertDeliveries, EventInv
  <2>2. /\ UNCHANGED <<attempts, reclaims>>
        /\ \A d \in Deliveries :
             status'[d] = status[d] \/ (d[1] = ev /\ status'[d] = "pending")
    BY <1>3 DEF InsertDeliveries, history
  <2>3. QED
    BY <2>1, <2>2
<1>4. ASSUME NEW ep \in Endpoints, DisableEndpoint(ep)
      PROVE  AttemptInv'
  BY <1>2, <1>4 DEF DisableEndpoint, history, Settled
<1>5. ASSUME NEW w \in Workers, ClaimDueDeliveries(w)
      PROVE  AttemptInv'
  <2>1. PICK rows \in SUBSET {d \in Deliveries : Due(d)} :
          /\ status' = [d \in Deliveries |-> IF d \in rows THEN "processing" ELSE status[d]]
          /\ attempts' = [d \in Deliveries |->
                            IF d \in rows THEN attempts[d] + 1 ELSE attempts[d]]
          /\ reclaims' = [d \in Deliveries |->
               IF d \in rows /\ status[d] = "processing" THEN reclaims[d] + 1 ELSE reclaims[d]]
    BY <1>5 DEF ClaimDueDeliveries
  <2>2. \A d \in rows : status[d] \in {"pending", "retry", "processing"}
    BY DEF Due
  <2>3. QED
    BY <2>1, <2>2
<1>6. ASSUME NEW w \in Workers, CancelInactive(w)
      PROVE  AttemptInv'
  BY <1>2, <1>6 DEF CancelInactive, history, Settled
<1>7. ASSUME NEW w \in Workers, RecordDeliveryResult(w)
      PROVE  AttemptInv'
  <2>1. item[w] \in Deliveries /\ answer[w] \in Answers /\ RecordAnswer(item[w], answer[w])
    BY <1>7 DEF RecordDeliveryResult, HoldsItem
  <2>2. UNCHANGED <<attempts, reclaims>>
    BY <1>7 DEF RecordDeliveryResult, history
  <2>3. CASE UNCHANGED status
    BY <2>2, <2>3
  <2>4. CASE RecordSuccess(item[w])
    BY <1>2, <2>1, <2>2, <2>4 DEF RecordSuccess, Settled
  <2>5. CASE RecordPermanentFailure(item[w])
    BY <1>2, <2>2, <2>5 DEF RecordPermanentFailure, Settled
  <2>6. CASE status[item[w]] = "processing" /\ ScheduleRetry(item[w])
    BY <2>1, <2>2, <2>6 DEF ScheduleRetry
  <2>7. QED
    BY <2>1, <2>3, <2>4, <2>5, <2>6, RecordAnswerCases
<1>8. ASSUME NEW w \in Workers, StopAndRelease(w)
      PROVE  AttemptInv'
  <2>1. /\ UNCHANGED reclaims
        /\ \A d \in Deliveries :
             \/ status'[d] = status[d] /\ attempts'[d] = attempts[d]
             \/ status[d] = "processing" /\ status'[d] = "retry" /\ attempts'[d] = attempts[d] - 1
    BY <1>8 DEF StopAndRelease, Releasable, history
  <2>2. QED
    BY <2>1
<1>9. ASSUME NEW ev \in Events, CreateEvent(ev) \/ SelectRecipients(ev)
      PROVE  UNCHANGED <<status, attempts, reclaims>>
  BY <1>9 DEF CreateEvent, SelectRecipients, rowVars, history
<1>10. ASSUME NEW ep \in Endpoints, EnableEndpoint(ep)
       PROVE  UNCHANGED <<status, attempts, reclaims>>
  BY <1>10 DEF EnableEndpoint, rowVars, history
<1>11. ASSUME NEW w \in Workers, TakeUp(w) \/ ProviderAnswers(w) \/ Crash(w)
       PROVE  UNCHANGED <<status, attempts, reclaims>>
  BY <1>11 DEF TakeUp, ProviderAnswers, Crash, rowVars, history
<1>12. ASSUME NEW d \in Deliveries, TimerElapses(d)
       PROVE  UNCHANGED <<status, attempts, reclaims>>
  BY <1>12 DEF TimerElapses, history
<1>13. CASE UNCHANGED vars
  BY <1>1, <1>13 DEF vars, rowVars, history
<1>14. QED
  BY <1>1, <1>3, <1>4, <1>5, <1>6, <1>7, <1>8, <1>9, <1>10, <1>11, <1>12, <1>13
  DEF Next, WorkerStep

LEMMA ClaimInvStep ==
  ASSUME TypeOK, HoldsItem, ClaimInv, [Next]_vars
  PROVE  ClaimInv'
<1> USE DEF TypeOK, ClaimInv
\* Rows of other workers stay covered while no row vanishes, none is settled
\* as sent, and the counts of acknowledgements do not shrink.
<1>1. ASSUME \A d \in Deliveries : status[d] # "absent" => status'[d] # "absent",
             \A d \in Deliveries : status'[d] = "sent" => status[d] = "sent",
             UNCHANGED <<batch, item, phase, answer, acks>>
      PROVE  ClaimInv'
  BY <1>1
<1>2. ASSUME NEW ev \in Events, CreateEvent(ev) \/ SelectRecipients(ev) \/ InsertDeliveries(ev)
      PROVE  ClaimInv'
  BY <1>1, <1>2
  DEF CreateEvent, SelectRecipients, InsertDeliveries, rowVars, workerVars, history
<1>3. ASSUME NEW ep \in Endpoints, EnableEndpoint(ep) \/ DisableEndpoint(ep)
      PROVE  ClaimInv'
  BY <1>1, <1>3 DEF EnableEndpoint, DisableEndpoint, rowVars, workerVars, history
<1>4. ASSUME NEW w \in Workers, ClaimDueDeliveries(w)
      PROVE  ClaimInv'
  <2>1. PICK rows \in SUBSET {d \in Deliveries : Due(d)} :
          /\ status' = [d \in Deliveries |-> IF d \in rows THEN "processing" ELSE status[d]]
          /\ batch' = [batch EXCEPT ![w] = rows]
    BY <1>4 DEF ClaimDueDeliveries
  <2>2. phase' = [phase EXCEPT ![w] = "batch"] /\ UNCHANGED <<item, answer, acks>>
    BY <1>4 DEF ClaimDueDeliveries
  <2>3. \A d \in Deliveries : status[d] # "absent" => status'[d] # "absent"
    BY <2>1
  <2>4. QED
    BY <2>1, <2>2, <2>3
<1>5. ASSUME NEW w \in Workers, TakeUp(w)
      PROVE  ClaimInv'
  BY <1>5, NoneAssumption DEF TakeUp, rowVars, history, PhaseAfter
<1>6. ASSUME NEW w \in Workers, CancelInactive(w)
      PROVE  ClaimInv'
  BY <1>6, NoneAssumption DEF CancelInactive, history, PhaseAfter, HoldsItem
<1>7. ASSUME NEW w \in Workers, ProviderAnswers(w)
      PROVE  ClaimInv'
  BY <1>7 DEF ProviderAnswers, rowVars, history, HoldsItem
<1>8. ASSUME NEW w \in Workers, RecordDeliveryResult(w)
      PROVE  ClaimInv'
  <2>1. item[w] \in Deliveries /\ answer[w] \in Answers /\ RecordAnswer(item[w], answer[w])
    BY <1>8 DEF RecordDeliveryResult, HoldsItem
  <2>2. /\ item' = [item EXCEPT ![w] = None]
        /\ answer' = [answer EXCEPT ![w] = None]
        /\ phase' = [phase EXCEPT ![w] = PhaseAfter(batch[w])]
        /\ phase[w] = "recording"
        /\ UNCHANGED <<batch, acks>>
    BY <1>8 DEF RecordDeliveryResult, history
  <2>3. /\ \A d \in Deliveries : status[d] # "absent" => status'[d] # "absent"
        /\ \A d \in Deliveries : status'[d] = "sent" =>
             status[d] = "sent" \/ (d = item[w] /\ answer[w] = "success")
    <3>1. CASE UNCHANGED status
      BY <3>1
    <3>2. CASE answer[w] = "success" /\ RecordSuccess(item[w])
      BY <2>1, <3>2 DEF RecordSuccess
    <3>3. CASE RecordPermanentFailure(item[w])
      BY <3>3 DEF RecordPermanentFailure
    <3>4. CASE ScheduleRetry(item[w])
      BY <2>1, <3>4 DEF ScheduleRetry
    <3>5. QED
      BY <2>1, <3>1, <3>2, <3>3, <3>4, RecordAnswerCases
  <2>4. \A d \in Deliveries : status'[d] = "sent" => acks[d] > 0
    BY <2>2, <2>3
  <2>5. QED
    BY <2>2, <2>3, <2>4 DEF PhaseAfter
<1>9. ASSUME NEW w \in Workers, StopAndRelease(w)
      PROVE  ClaimInv'
  <2>1. /\ \A d \in Deliveries : status[d] # "absent" => status'[d] # "absent"
        /\ \A d \in Deliveries : status'[d] = "sent" => status[d] = "sent"
    BY <1>9 DEF StopAndRelease
  <2>2. /\ phase' = [phase EXCEPT ![w] = "idle"]
        /\ batch' = [batch EXCEPT ![w] = {}]
        /\ UNCHANGED <<item, answer, acks>>
    BY <1>9 DEF StopAndRelease, history
  <2>3. QED
    BY <2>1, <2>2
<1>10. ASSUME NEW w \in Workers, Crash(w)
       PROVE  ClaimInv'
  BY <1>10 DEF Crash, rowVars, history
<1>11. ASSUME NEW d \in Deliveries, TimerElapses(d)
       PROVE  ClaimInv'
  BY <1>1, <1>11 DEF TimerElapses, workerVars, history
<1>12. CASE UNCHANGED vars
  BY <1>1, <1>12 DEF vars, rowVars, workerVars, history
<1>13. QED
  BY <1>2, <1>3, <1>4, <1>5, <1>6, <1>7, <1>8, <1>9, <1>10, <1>11, <1>12 DEF Next, WorkerStep

(***************************************************************************)
(* The theorems.                                                           *)
(***************************************************************************)

LEMMA NextTypeOK ==
  ASSUME IInv, [Next]_vars
  PROVE  TypeOK'
<1> USE DEF IInv
<1>1. ASSUME NEW w \in Workers, StopAndRelease(w)
      PROVE  TypeOK'
  <2>1. \A d \in Releasable(w) : attempts[d] \in Nat \ {0}
    BY DEF Releasable, AttemptInv, AttemptBudget, TypeOK
  <2>2. QED
    BY <1>1, <2>1, InterruptionTypeOK
<1>2. ASSUME NEW w \in Workers, Crash(w)
      PROVE  TypeOK'
  BY <1>2
  DEF Crash, TypeOK, eventVars, endpointVars, rowVars, workerVars, bounds, history
<1>3. CASE UNCHANGED vars
  BY <1>3 DEF TypeOK, vars, eventVars, endpointVars, rowVars, workerVars, bounds, history
<1>4. QED
  BY <1>1, <1>2, <1>3, PublisherTypeOK, GuestTypeOK, WorkerTypeOK, TimerTypeOK DEF Next

\* The invariant that carries the theorems below holds in every reachable state.
THEOREM SpecIInv == Spec => []IInv
<1>1. IInv /\ [Next]_vars => IInv'
  <2> SUFFICES ASSUME IInv, [Next]_vars
               PROVE  IInv'
    OBVIOUS
  <2>1. TypeOK'
    BY NextTypeOK
  <2>2. QED
    BY <2>1, HoldsItemStep, EventInvStep, AttemptInvStep, ClaimInvStep, NoAlertStep DEF IInv
<1>2. QED
  BY <1>1, InitIInv, PTL DEF Spec

\* Every column of the outbox and every worker's local state keep their type,
\* attempt_count in particular never drops below zero when claims are released.
THEOREM SpecTypeOK == Spec => []TypeOK
<1>1. IInv => TypeOK
  BY DEF IInv
<1>2. QED
  BY <1>1, SpecIInv, PTL

\* The attempt budget of claim_due_deliveries, _schedule_retry and
\* release_claimed_deliveries, for any number of workers.
THEOREM SpecAttemptBudget == Spec => []AttemptBudget
<1>1. IInv => AttemptBudget
  BY DEF IInv, AttemptInv
<1>2. QED
  BY <1>1, SpecIInv, PTL

\* The activated_at filter of publish_record_notification and create_deliveries
\* keeps out every endpoint that was inactive when the event was created.
THEOREM SpecNoAlertFromBeforeActivation == Spec => []NoAlertFromBeforeActivation
<1>1. IInv => NoAlertFromBeforeActivation
  BY DEF IInv
<1>2. QED
  BY <1>1, SpecIInv, PTL

(***************************************************************************)
(* The delivery rows implement the outbox.                                 *)
(***************************************************************************)

LEMMA FateStutters ==
  ASSUME UNCHANGED <<status, acks>>
  PROVE  UNCHANGED OutboxOf!outboxVars
  BY DEF OutboxOf!outboxVars, Fate

LEMMA RecordImplementsOutbox ==
  ASSUME IInv, NEW w \in Workers, RecordDeliveryResult(w)
  PROVE  [OutboxOf!Next]_(OutboxOf!outboxVars)
<1> DEFINE d == item[w]
<1> USE DEF Waiting
<1>1. /\ d \in Deliveries
      /\ answer[w] \in Answers
      /\ RecordAnswer(d, answer[w])
      /\ answer[w] = "success" => acks[d] > 0
      /\ UNCHANGED acks
  BY DEF IInv, HoldsItem, ClaimInv, RecordDeliveryResult, history
<1>2. status \in [Deliveries -> Status]
  BY DEF IInv, TypeOK
<1>3. CASE UNCHANGED status
  BY <1>1, <1>3, FateStutters
<1>4. CASE status[d] = "processing" /\ answer[w] = "success" /\ RecordSuccess(d)
  <2>1. OutboxOf!Send(d)
    BY <1>1, <1>2, <1>4 DEF OutboxOf!Send, RecordSuccess, Fate
  <2>2. QED
    BY <1>1, <2>1 DEF OutboxOf!Next
<1>5. CASE RecordPermanentFailure(d)
  <2> DEFINE lost == {e \in Deliveries : e[2] = d[2] /\ status[e] \in Waiting \cup {"processing"}}
  <2>1. OutboxOf!GiveUp(lost, "failed")
    BY <1>1, <1>2, <1>5 DEF OutboxOf!GiveUp, RecordPermanentFailure, Fate
  <2>2. QED
    BY <2>1 DEF OutboxOf!Next
<1>6. CASE status[d] = "processing" /\ ScheduleRetry(d)
  <2>1. CASE attempts[d] >= MaxAttempts
    <3>1. OutboxOf!GiveUp({d}, "failed")
      BY <1>1, <1>2, <1>6, <2>1 DEF OutboxOf!GiveUp, ScheduleRetry, Fate
    <3>2. QED
      BY <1>1, <3>1 DEF OutboxOf!Next
  <2>2. CASE ~(attempts[d] >= MaxAttempts)
    BY <1>1, <1>2, <1>6, <2>2 DEF OutboxOf!outboxVars, ScheduleRetry, Fate
  <2>3. QED
    BY <2>1, <2>2
<1>7. QED
  BY <1>1, <1>3, <1>4, <1>5, <1>6, RecordAnswerCases

LEMMA NextImplementsOutbox ==
  ASSUME IInv, [Next]_vars
  PROVE  [OutboxOf!Next]_(OutboxOf!outboxVars)
<1> USE DEF Waiting
<1>1. status \in [Deliveries -> Status] /\ acks \in [Deliveries -> Nat]
  BY DEF IInv, TypeOK
<1>2. ASSUME NEW ev \in Events, InsertDeliveries(ev)
      PROVE  [OutboxOf!Next]_(OutboxOf!outboxVars)
  <2> DEFINE ds == {d \in Deliveries : d[1] = ev /\ d[2] \in recipients[ev]}
  <2>1. \A d \in ds : status[d] = "absent"
    BY <1>2 DEF InsertDeliveries, IInv, EventInv
  <2>2. OutboxOf!Owe(ds)
    BY <1>1, <1>2, <2>1 DEF OutboxOf!Owe, InsertDeliveries, Fate, history
  <2>3. QED
    BY <2>2 DEF OutboxOf!Next
<1>3. ASSUME NEW ep \in Endpoints, DisableEndpoint(ep)
      PROVE  [OutboxOf!Next]_(OutboxOf!outboxVars)
  <2> DEFINE ds == {d \in Deliveries : d[2] = ep /\ status[d] \in Waiting}
  <2>1. OutboxOf!GiveUp(ds, "cancelled")
    BY <1>1, <1>3 DEF OutboxOf!GiveUp, DisableEndpoint, Fate, history
  <2>2. QED
    BY <2>1 DEF OutboxOf!Next
<1>4. ASSUME NEW w \in Workers, ClaimDueDeliveries(w)
      PROVE  [OutboxOf!Next]_(OutboxOf!outboxVars)
  <2>1. PICK rows \in SUBSET {d \in Deliveries : Due(d)} :
          status' = [d \in Deliveries |-> IF d \in rows THEN "processing" ELSE status[d]]
    BY <1>4 DEF ClaimDueDeliveries
  <2>2. \A d \in rows : status[d] \in {"pending", "retry", "processing"}
    BY DEF Due
  <2>3. UNCHANGED acks
    BY <1>4 DEF ClaimDueDeliveries
  <2>4. \A d \in Deliveries : Fate(d)' = Fate(d)
    BY <1>1, <2>1, <2>2 DEF Fate
  <2>5. QED
    BY <2>3, <2>4 DEF OutboxOf!outboxVars
<1>5. ASSUME NEW w \in Workers, CancelInactive(w)
      PROVE  [OutboxOf!Next]_(OutboxOf!outboxVars)
  <2>1. item[w] \in Deliveries /\ UNCHANGED acks
    BY <1>5 DEF CancelInactive, IInv, HoldsItem, history
  <2>2. CASE status[item[w]] = "processing"
    <3>1. OutboxOf!GiveUp({item[w]}, "cancelled")
      BY <1>1, <1>5, <2>1, <2>2 DEF OutboxOf!GiveUp, CancelInactive, Fate
    <3>2. QED
      BY <2>1, <3>1 DEF OutboxOf!Next
  <2>3. CASE status[item[w]] # "processing"
    BY <1>5, <2>1, <2>3, FateStutters DEF CancelInactive
  <2>4. QED
    BY <2>2, <2>3
<1>6. ASSUME NEW w \in Workers, ProviderAnswers(w)
      PROVE  [OutboxOf!Next]_(OutboxOf!outboxVars)
  <2>1. item[w] \in Deliveries /\ status[item[w]] # "absent" /\ UNCHANGED status
    BY <1>6, NoneAssumption
    DEF ProviderAnswers, IInv, HoldsItem, ClaimInv, rowVars, Deliveries
  <2>2. CASE UNCHANGED acks
    BY <2>1, <2>2, FateStutters
  <2>3. CASE acks' = [acks EXCEPT ![item[w]] = @ + 1]
    <3>1. PICK d \in Deliveries : d = item[w]
      BY <2>1
    <3>2. OutboxOf!Accept(d)
      BY <1>1, <2>1, <2>3, <3>1 DEF OutboxOf!Accept, Fate
    <3>3. QED
      BY <3>2 DEF OutboxOf!Next
  <2>4. QED
    BY <1>6, <2>2, <2>3 DEF ProviderAnswers
<1>7. ASSUME NEW w \in Workers, StopAndRelease(w)
      PROVE  [OutboxOf!Next]_(OutboxOf!outboxVars)
  <2>1. \A d \in Deliveries : Fate(d)' = Fate(d)
    BY <1>1, <1>7 DEF StopAndRelease, Releasable, Fate
  <2>2. QED
    BY <1>7, <2>1 DEF StopAndRelease, history, OutboxOf!outboxVars
<1>8. CASE UNCHANGED <<status, acks>>
  BY <1>8, FateStutters
<1>9. ASSUME NEW ev \in Events, CreateEvent(ev) \/ SelectRecipients(ev)
      PROVE  UNCHANGED <<status, acks>>
  BY <1>9 DEF CreateEvent, SelectRecipients, rowVars, history
<1>10. ASSUME NEW ep \in Endpoints, EnableEndpoint(ep)
       PROVE  UNCHANGED <<status, acks>>
  BY <1>10 DEF EnableEndpoint, rowVars, history
<1>11. ASSUME NEW w \in Workers, TakeUp(w) \/ Crash(w)
       PROVE  UNCHANGED <<status, acks>>
  BY <1>11 DEF TakeUp, Crash, rowVars, history
<1>12. ASSUME NEW d \in Deliveries, TimerElapses(d)
       PROVE  UNCHANGED <<status, acks>>
  BY <1>12 DEF TimerElapses, history
<1>13. CASE UNCHANGED vars
  BY <1>8, <1>13 DEF vars, rowVars, history
<1>14. QED
  BY <1>2, <1>3, <1>4, <1>5, <1>6, <1>7, <1>8, <1>9, <1>10, <1>11, <1>12, <1>13,
     RecordImplementsOutbox DEF Next, WorkerStep

\* Whatever workers, guests and clocks do, a delivery row is settled once and
\* for good, and only as sent when the provider has accepted it.
THEOREM SpecImplementsOutbox == Spec => ImplementsOutbox
<1>1. Init => OutboxOf!Init
  BY DEF Init, OutboxOf!Init, Fate, Waiting
<1>2. IInv /\ [Next]_vars => [OutboxOf!Next]_(OutboxOf!outboxVars)
  BY NextImplementsOutbox
<1>3. QED
  BY <1>1, <1>2, SpecIInv, PTL DEF Spec, ImplementsOutbox, OutboxOf!Spec

(***************************************************************************)
(* Why an alert is acknowledged twice only after a claim was taken over.   *)
(* A row carries one token: it lies in the row while the row waits, and    *)
(* with every worker that may still get a success for it.  Taking over a   *)
(* timed-out claim is the only step that mints another one, and a success  *)
(* uses one up.                                                            *)
(***************************************************************************)

\* The workers that may still push d and be told that it was accepted.
Senders(d) ==
  {w \in Workers :
     \/ d \in batch[w]
     \/ d = item[w] /\ ~(phase[w] = "recording" /\ answer[w] = "success")}

TokenInRow(d) == IF status[d] \in Waiting \cup {"absent"} THEN 1 ELSE 0

TokenAt(d) == Cardinality(Senders(d)) + acks[d] + TokenInRow(d) <= 1 + reclaims[d]

TokenInv == \A d \in Deliveries : TokenAt(d)

\* A worker holds a row once: in its batch or as the one it handles.
HoldsOnce ==
  \A w \in Workers :
    /\ item[w] # None => item[w] \notin batch[w]
    /\ phase[w] \in {"idle", "batch"} => item[w] = None
    /\ phase[w] = "idle" => batch[w] = {}

-----------------------------------------------------------------------------
LEMMA SendersFinite ==
  ASSUME NEW d
  PROVE  IsFiniteSet(Senders(d)) /\ Cardinality(Senders(d)) \in Nat
  BY WorkersAssumption, FS_Subset, FS_CardinalityType DEF Senders

\* How the number of senders can change in a step.
LEMMA SendersShrink ==
  ASSUME NEW d, NEW T, T \subseteq Senders(d)
  PROVE  IsFiniteSet(T) /\ Cardinality(T) \in Nat /\ Cardinality(T) <= Cardinality(Senders(d))
  BY SendersFinite, FS_Subset, FS_CardinalityType

LEMMA SendersLose ==
  ASSUME NEW d, NEW T, NEW w \in Senders(d), T \subseteq Senders(d) \ {w}
  PROVE  Cardinality(T) \in Nat /\ Cardinality(T) + 1 <= Cardinality(Senders(d))
<1>1. /\ IsFiniteSet(Senders(d) \ {w})
      /\ Cardinality(Senders(d) \ {w}) = Cardinality(Senders(d)) - 1
  BY SendersFinite, FS_RemoveElement
<1>2. Cardinality(T) \in Nat /\ Cardinality(T) <= Cardinality(Senders(d) \ {w})
  BY <1>1, FS_Subset, FS_CardinalityType
<1>3. QED
  BY <1>1, <1>2, SendersFinite

LEMMA SendersGain ==
  ASSUME NEW d, NEW T, NEW w, T \subseteq Senders(d) \cup {w}
  PROVE  Cardinality(T) \in Nat /\ Cardinality(T) <= Cardinality(Senders(d)) + 1
<1>1. /\ IsFiniteSet(Senders(d) \cup {w})
      /\ Cardinality(Senders(d) \cup {w}) <= Cardinality(Senders(d)) + 1
  BY SendersFinite, FS_AddElement
<1>2. Cardinality(T) \in Nat /\ Cardinality(T) <= Cardinality(Senders(d) \cup {w})
  BY <1>1, FS_Subset, FS_CardinalityType
<1>3. QED
  BY <1>1, <1>2, SendersFinite, FS_CardinalityType

-----------------------------------------------------------------------------
LEMMA HoldsOnceStep ==
  ASSUME TypeOK, HoldsItem, HoldsOnce, [Next]_vars
  PROVE  HoldsOnce'
<1> USE DEF TypeOK, HoldsOnce
<1>1. CASE UNCHANGED workerVars
  BY <1>1 DEF workerVars
<1>2. ASSUME NEW w \in Workers, WorkerStep(w)
      PROVE  HoldsOnce'
  <2>1. CASE ClaimDueDeliveries(w)
    BY <2>1 DEF ClaimDueDeliveries
  <2>2. CASE TakeUp(w)
    BY <2>2, NoneAssumption DEF TakeUp, PhaseAfter, Deliveries
  <2>3. CASE CancelInactive(w)
    BY <2>3 DEF CancelInactive, PhaseAfter
  <2>4. CASE ProviderAnswers(w)
    BY <2>4 DEF ProviderAnswers
  <2>5. CASE RecordDeliveryResult(w)
    BY <2>5 DEF RecordDeliveryResult, PhaseAfter
  <2>6. QED
    BY <1>2, <2>1, <2>2, <2>3, <2>4, <2>5 DEF WorkerStep
<1>3. ASSUME NEW w \in Workers, StopAndRelease(w) \/ Crash(w)
      PROVE  HoldsOnce'
  BY <1>3 DEF StopAndRelease, Crash
<1>4. ASSUME NEW ev \in Events, CreateEvent(ev) \/ SelectRecipients(ev) \/ InsertDeliveries(ev)
      PROVE  UNCHANGED workerVars
  BY <1>4 DEF CreateEvent, SelectRecipients, InsertDeliveries
<1>5. ASSUME NEW ep \in Endpoints, EnableEndpoint(ep) \/ DisableEndpoint(ep)
      PROVE  UNCHANGED workerVars
  BY <1>5 DEF EnableEndpoint, DisableEndpoint
<1>6. ASSUME NEW d \in Deliveries, TimerElapses(d)
      PROVE  UNCHANGED workerVars
  BY <1>6 DEF TimerElapses
<1>7. CASE UNCHANGED vars
  BY <1>7 DEF vars, workerVars
<1>8. QED
  BY <1>1, <1>2, <1>3, <1>4, <1>5, <1>6, <1>7 DEF Next

-----------------------------------------------------------------------------
(* The three ways a step can move the token of one row.                    *)

LEMMA TokenKept ==
  ASSUME TypeOK, TypeOK', NEW d \in Deliveries, TokenAt(d),
         Senders(d)' \subseteq Senders(d),
         acks'[d] = acks[d], reclaims'[d] = reclaims[d],
         TokenInRow(d)' <= TokenInRow(d)
  PROVE  TokenAt(d)'
<1>1. Cardinality(Senders(d)') \in Nat /\ Cardinality(Senders(d)') <= Cardinality(Senders(d))
  BY SendersShrink
<1>2. TokenInRow(d) \in Nat /\ TokenInRow(d)' \in Nat
  BY DEF TokenInRow
<1>3. QED
  BY <1>1, <1>2, SendersFinite DEF TokenAt, TypeOK

LEMMA TokenReturned ==
  ASSUME TypeOK, TypeOK', NEW d \in Deliveries, TokenAt(d),
         NEW w \in Senders(d), Senders(d)' \subseteq Senders(d) \ {w},
         reclaims'[d] = reclaims[d],
         acks'[d] + TokenInRow(d)' <= acks[d] + TokenInRow(d) + 1
  PROVE  TokenAt(d)'
<1>1. Cardinality(Senders(d)') \in Nat /\ Cardinality(Senders(d)') + 1 <= Cardinality(Senders(d))
  BY SendersLose
<1>2. TokenInRow(d) \in Nat /\ TokenInRow(d)' \in Nat
  BY DEF TokenInRow
<1>3. QED
  BY <1>1, <1>2, SendersFinite DEF TokenAt, TypeOK

LEMMA TokenTaken ==
  ASSUME TypeOK, TypeOK', NEW d \in Deliveries, TokenAt(d),
         NEW w, Senders(d)' \subseteq Senders(d) \cup {w},
         acks'[d] = acks[d],
         TokenInRow(d)' + reclaims[d] + 1 <= TokenInRow(d) + reclaims'[d]
  PROVE  TokenAt(d)'
<1>1. Cardinality(Senders(d)') \in Nat /\ Cardinality(Senders(d)') <= Cardinality(Senders(d)) + 1
  BY SendersGain
<1>2. TokenInRow(d) \in Nat /\ TokenInRow(d)' \in Nat
  BY DEF TokenInRow
<1>3. QED
  BY <1>1, <1>2, SendersFinite DEF TokenAt, TypeOK

-----------------------------------------------------------------------------
(* One lemma per step of a worker, for one row d.                          *)

LEMMA ClaimToken ==
  ASSUME TypeOK, TypeOK', HoldsOnce, NEW w \in Workers, ClaimDueDeliveries(w),
         NEW d \in Deliveries, TokenAt(d)
  PROVE  TokenAt(d)'
<1>1. PICK rows \in SUBSET {e \in Deliveries : Due(e)} :
        /\ status' = [e \in Deliveries |-> IF e \in rows THEN "processing" ELSE status[e]]
        /\ reclaims' = [e \in Deliveries |->
             IF e \in rows /\ status[e] = "processing" THEN reclaims[e] + 1 ELSE reclaims[e]]
        /\ batch' = [batch EXCEPT ![w] = rows]
  BY DEF ClaimDueDeliveries
<1>2. /\ phase[w] = "idle"
      /\ phase' = [phase EXCEPT ![w] = "batch"]
      /\ UNCHANGED <<item, answer, acks>>
  BY DEF ClaimDueDeliveries
<1>3. item[w] = None /\ batch[w] = {}
  BY <1>2 DEF HoldsOnce
<1>4. CASE d \in rows
  <2>1. Senders(d)' \subseteq Senders(d) \cup {w}
    BY <1>1, <1>2 DEF Senders, TypeOK
  <2>2. status[d] \in {"pending", "retry", "processing"} /\ status'[d] = "processing"
    BY <1>1, <1>4 DEF Due
  <2>3. TokenInRow(d)' = 0
    BY <2>2 DEF TokenInRow, Waiting
  <2>4. TokenInRow(d)' + reclaims[d] + 1 <= TokenInRow(d) + reclaims'[d]
    <3>1. CASE status[d] = "processing"
      <4>1. reclaims'[d] = reclaims[d] + 1 /\ TokenInRow(d) = 0 /\ reclaims[d] \in Nat
        BY <1>1, <1>4, <3>1 DEF TokenInRow, Waiting, TypeOK
      <4>2. QED
        BY <2>3, <4>1
    <3>2. CASE status[d] \in {"pending", "retry"}
      <4>1. reclaims'[d] = reclaims[d] /\ TokenInRow(d) = 1 /\ reclaims[d] \in Nat
        BY <1>1, <1>4, <3>2 DEF TokenInRow, Waiting, TypeOK
      <4>2. QED
        BY <2>3, <4>1
    <3>3. QED
      BY <2>2, <3>1, <3>2
  <2>5. QED
    BY <1>2, <2>1, <2>4, TokenTaken
<1>5. CASE d \notin rows
  <2>1. Senders(d)' \subseteq Senders(d)
    BY <1>1, <1>2, <1>3, <1>5, NoneAssumption DEF Senders, TypeOK, Deliveries
  <2>2. status'[d] = status[d] /\ reclaims'[d] = reclaims[d]
    BY <1>1, <1>5
  <2>3. TokenInRow(d)' <= TokenInRow(d)
    BY <2>2 DEF TokenInRow
  <2>4. QED
    BY <1>2, <2>1, <2>2, <2>3, TokenKept
<1>6. QED
  BY <1>4, <1>5

LEMMA TakeUpToken ==
  ASSUME TypeOK, TypeOK', HoldsOnce, NEW w \in Workers, TakeUp(w),
         NEW d \in Deliveries, TokenAt(d)
  PROVE  TokenAt(d)'
<1>1. Senders(d)' \subseteq Senders(d)
  BY DEF TakeUp, Senders, TypeOK, PhaseAfter
<1>2. UNCHANGED <<status, acks, reclaims>>
  BY DEF TakeUp, rowVars, history
<1>3. QED
  BY <1>1, <1>2, TokenKept DEF TokenInRow

LEMMA CancelToken ==
  ASSUME TypeOK, TypeOK', HoldsItem, NEW w \in Workers, CancelInactive(w),
         NEW d \in Deliveries, TokenAt(d)
  PROVE  TokenAt(d)'
<1>1. Senders(d)' \subseteq Senders(d)
  BY NoneAssumption DEF CancelInactive, Senders, TypeOK, PhaseAfter, Deliveries
<1>2. TokenInRow(d)' <= TokenInRow(d)
  BY DEF CancelInactive, TokenInRow, TypeOK, HoldsItem, Waiting
<1>3. QED
  BY <1>1, <1>2, TokenKept DEF CancelInactive, history

LEMMA AnswerToken ==
  ASSUME TypeOK, TypeOK', HoldsItem, HoldsOnce, NEW w \in Workers, ProviderAnswers(w),
         NEW d \in Deliveries, TokenAt(d)
  PROVE  TokenAt(d)'
<1>1. PICK a \in Answers :
        /\ answer' = [answer EXCEPT ![w] = a]
        /\ acks' = IF a = "success" THEN [acks EXCEPT ![item[w]] = @ + 1] ELSE acks
  BY DEF ProviderAnswers
<1>2. /\ phase[w] = "sending"
      /\ phase' = [phase EXCEPT ![w] = "recording"]
      /\ UNCHANGED <<status, batch, item, reclaims>>
  BY DEF ProviderAnswers, rowVars
<1>3. TokenInRow(d)' = TokenInRow(d) /\ TokenInRow(d) \in Nat
  BY <1>2 DEF TokenInRow
<1>4. CASE a = "success" /\ d = item[w]
  <2>1. w \in Senders(d)
    BY <1>2, <1>4 DEF Senders
  <2>2. d \notin batch[w]
    BY <1>4, NoneAssumption DEF HoldsOnce, Deliveries
  <2>3. Senders(d)' \subseteq Senders(d) \ {w}
    BY <1>1, <1>2, <1>4, <2>2 DEF Senders, TypeOK
  <2>4. acks'[d] = acks[d] + 1
    BY <1>1, <1>4 DEF TypeOK
  <2>5. acks'[d] + TokenInRow(d)' <= acks[d] + TokenInRow(d) + 1
    BY <1>3, <2>4 DEF TypeOK
  <2>6. reclaims'[d] = reclaims[d]
    BY <1>2
  <2>7. QED
    BY <2>1, <2>3, <2>5, <2>6, TokenReturned
<1>5. CASE ~(a = "success" /\ d = item[w])
  <2>1. Senders(d)' \subseteq Senders(d)
    BY <1>1, <1>2, <1>5 DEF Senders, TypeOK
  <2>2. acks'[d] = acks[d]
    BY <1>1, <1>5 DEF TypeOK
  <2>3. QED
    BY <1>2, <1>3, <2>1, <2>2, TokenKept
<1>6. QED
  BY <1>4, <1>5

LEMMA RecordToken ==
  ASSUME TypeOK, TypeOK', HoldsItem, HoldsOnce, NEW w \in Workers, RecordDeliveryResult(w),
         NEW d \in Deliveries, TokenAt(d)
  PROVE  TokenAt(d)'
<1>1. item[w] \in Deliveries /\ answer[w] \in Answers /\ RecordAnswer(item[w], answer[w])
  BY DEF RecordDeliveryResult, HoldsItem
<1>2. /\ phase[w] = "recording"
      /\ phase' = [phase EXCEPT ![w] = PhaseAfter(batch[w])]
      /\ item' = [item EXCEPT ![w] = None]
      /\ answer' = [answer EXCEPT ![w] = None]
      /\ UNCHANGED <<batch, acks, reclaims>>
  BY DEF RecordDeliveryResult, history
<1>3. Senders(d)' \subseteq Senders(d)
  BY <1>2, NoneAssumption DEF Senders, TypeOK, PhaseAfter, Deliveries
\* Only a transient answer puts a row back, and its worker is then done with it.
<1>4. CASE d = item[w] /\ answer[w] = "transient" /\ status[d] = "processing"
  <2>1. w \in Senders(d)
    BY <1>4 DEF Senders
  <2>2. d \notin batch[w]
    BY <1>4, NoneAssumption DEF HoldsOnce, Deliveries
  <2>3. Senders(d)' \subseteq Senders(d) \ {w}
    BY <1>2, <1>3, <1>4, <2>2, NoneAssumption DEF Senders, TypeOK, Deliveries
  <2>4. acks'[d] = acks[d] /\ reclaims'[d] = reclaims[d] /\ acks[d] \in Nat
    BY <1>2 DEF TypeOK
  <2>5. TokenInRow(d) \in {0, 1} /\ TokenInRow(d)' \in {0, 1}
    BY DEF TokenInRow
  <2>6. acks'[d] + TokenInRow(d)' <= acks[d] + TokenInRow(d) + 1
    BY <2>4, <2>5
  <2>7. QED
    BY <2>1, <2>3, <2>4, <2>6, TokenReturned
<1>5. CASE ~(d = item[w] /\ answer[w] = "transient" /\ status[d] = "processing")
  <2>1. status'[d] = status[d] \/ status'[d] \in Settled
    <3>1. CASE UNCHANGED status
      BY <3>1
    <3>2. CASE RecordSuccess(item[w])
      BY <1>1, <3>2 DEF RecordSuccess, TypeOK, Settled
    <3>3. CASE RecordPermanentFailure(item[w])
      BY <3>3 DEF RecordPermanentFailure, Settled
    <3>4. CASE status[item[w]] = "processing" /\ answer[w] = "transient"
               /\ ScheduleRetry(item[w])
      BY <1>1, <1>5, <3>4 DEF ScheduleRetry, TypeOK
    <3>5. QED
      BY <1>1, <3>1, <3>2, <3>3, <3>4, RecordAnswerCases
  <2>2. TokenInRow(d)' <= TokenInRow(d)
    BY <2>1 DEF TokenInRow, Settled, Waiting
  <2>3. QED
    BY <1>2, <1>3, <2>2, TokenKept
<1>6. QED
  BY <1>4, <1>5

LEMMA ReleaseToken ==
  ASSUME TypeOK, TypeOK', HoldsOnce, NEW w \in Workers, StopAndRelease(w),
         NEW d \in Deliveries, TokenAt(d)
  PROVE  TokenAt(d)'
<1>1. /\ phase[w] = "batch"
      /\ phase' = [phase EXCEPT ![w] = "idle"]
      /\ batch' = [batch EXCEPT ![w] = {}]
      /\ UNCHANGED <<item, answer, acks, reclaims>>
  BY DEF StopAndRelease, history
<1>2. item[w] = None
  BY <1>1 DEF HoldsOnce
<1>3. Senders(d)' \subseteq Senders(d) \ {w}
  BY <1>1, <1>2, NoneAssumption DEF Senders, TypeOK, Deliveries
<1>4. TokenInRow(d) \in {0, 1} /\ TokenInRow(d)' \in {0, 1}
  BY DEF TokenInRow
<1>5. CASE d \in Releasable(w)
  <2>1. w \in Senders(d)
    BY <1>5 DEF Releasable, Senders
  <2>2. acks'[d] = acks[d] /\ reclaims'[d] = reclaims[d] /\ acks[d] \in Nat
    BY <1>1 DEF TypeOK
  <2>3. acks'[d] + TokenInRow(d)' <= acks[d] + TokenInRow(d) + 1
    BY <1>4, <2>2
  <2>4. QED
    BY <1>3, <2>1, <2>2, <2>3, TokenReturned
<1>6. CASE d \notin Releasable(w)
  <2>1. status'[d] = status[d]
    BY <1>6 DEF StopAndRelease
  <2>2. TokenInRow(d)' <= TokenInRow(d)
    BY <2>1 DEF TokenInRow
  <2>3. QED
    BY <1>1, <1>3, <2>2, TokenKept
<1>7. QED
  BY <1>5, <1>6

LEMMA CrashToken ==
  ASSUME TypeOK, TypeOK', NEW w \in Workers, Crash(w), NEW d \in Deliveries, TokenAt(d)
  PROVE  TokenAt(d)'
<1>1. Senders(d)' \subseteq Senders(d)
  BY NoneAssumption DEF Crash, Senders, TypeOK, Deliveries
<1>2. UNCHANGED <<status, acks, reclaims>>
  BY DEF Crash, rowVars, history
<1>3. QED
  BY <1>1, <1>2, TokenKept DEF TokenInRow

\* Steps of publishers, guests and clocks leave the senders alone and make no
\* settled or claimed row wait.
LEMMA OtherToken ==
  ASSUME TypeOK, TypeOK', UNCHANGED <<workerVars, acks, reclaims>>,
         NEW d \in Deliveries, TokenAt(d), TokenInRow(d)' <= TokenInRow(d)
  PROVE  TokenAt(d)'
<1>1. Senders(d)' = Senders(d)
  BY DEF Senders, workerVars
<1>2. QED
  BY <1>1, TokenKept

LEMMA TokenInvStep ==
  ASSUME IInv, HoldsOnce, TokenInv, [Next]_vars
  PROVE  TokenInv'
<1>1. TypeOK /\ TypeOK' /\ HoldsItem /\ EventInv
  BY NextTypeOK DEF IInv
<1> SUFFICES ASSUME NEW d \in Deliveries
             PROVE  TokenAt(d)'
  BY DEF TokenInv
<1>2. TokenAt(d)
  BY DEF TokenInv
<1>3. ASSUME NEW w \in Workers, WorkerStep(w) \/ StopAndRelease(w) \/ Crash(w)
      PROVE  TokenAt(d)'
  BY <1>1, <1>2, <1>3, ClaimToken, TakeUpToken, CancelToken, AnswerToken, RecordToken,
     ReleaseToken, CrashToken DEF WorkerStep
<1>4. ASSUME NEW ev \in Events, CreateEvent(ev) \/ SelectRecipients(ev)
      PROVE  TokenAt(d)'
  BY <1>1, <1>2, <1>4, OtherToken
  DEF CreateEvent, SelectRecipients, rowVars, history, TokenInRow
<1>5. ASSUME NEW ev \in Events, InsertDeliveries(ev)
      PROVE  TokenAt(d)'
  <2>1. status'[d] = status[d] \/ status[d] = "absent"
    BY <1>1, <1>5 DEF InsertDeliveries, EventInv
  <2>2. TokenInRow(d)' <= TokenInRow(d)
    BY <2>1 DEF TokenInRow
  <2>3. QED
    BY <1>1, <1>2, <1>5, <2>2, OtherToken DEF InsertDeliveries, history
<1>6. ASSUME NEW ep \in Endpoints, EnableEndpoint(ep)
      PROVE  TokenAt(d)'
  BY <1>1, <1>2, <1>6, OtherToken DEF EnableEndpoint, rowVars, history, TokenInRow
<1>7. ASSUME NEW ep \in Endpoints, DisableEndpoint(ep)
      PROVE  TokenAt(d)'
  <2>1. status'[d] = status[d] \/ status'[d] = "cancelled"
    BY <1>7 DEF DisableEndpoint
  <2>2. TokenInRow(d)' <= TokenInRow(d)
    BY <2>1 DEF TokenInRow, Waiting
  <2>3. QED
    BY <1>1, <1>2, <1>7, <2>2, OtherToken DEF DisableEndpoint, history
<1>8. ASSUME NEW e \in Deliveries, TimerElapses(e)
      PROVE  TokenAt(d)'
  BY <1>1, <1>2, <1>8, OtherToken DEF TimerElapses, history, TokenInRow
<1>9. CASE UNCHANGED vars
  BY <1>1, <1>2, <1>9, OtherToken DEF vars, rowVars, history, TokenInRow
<1>10. QED
  BY <1>3, <1>4, <1>5, <1>6, <1>7, <1>8, <1>9 DEF Next

\* However many workers run, stop or die, and however late they answer, a row
\* is acknowledged a second time only if a claim on it was taken over.
THEOREM SpecRepeatsOnlyAfterReclaim == Spec => []RepeatsOnlyAfterReclaim
<1>1. Init => HoldsOnce /\ TokenInv
  <2> SUFFICES ASSUME Init
               PROVE  HoldsOnce /\ TokenInv
    OBVIOUS
  <2>1. HoldsOnce
    BY DEF Init, HoldsOnce
  <2>2. ASSUME NEW d \in Deliveries
        PROVE  TokenAt(d)
    <3>1. Senders(d) = {}
      BY NoneAssumption DEF Init, Senders, Deliveries
    <3>2. Cardinality(Senders(d)) = 0
      BY <3>1, FS_EmptySet
    <3>3. QED
      BY <3>2 DEF Init, TokenAt, TokenInRow
  <2>3. QED
    BY <2>1, <2>2 DEF TokenInv
<1>2. IInv /\ HoldsOnce /\ TokenInv /\ [Next]_vars => HoldsOnce' /\ TokenInv'
  BY HoldsOnceStep, TokenInvStep DEF IInv
<1>3. IInv /\ TokenInv => RepeatsOnlyAfterReclaim
  <2> SUFFICES ASSUME IInv, TokenInv, NEW d \in Deliveries
               PROVE  acks[d] <= 1 + reclaims[d]
    BY DEF RepeatsOnlyAfterReclaim
  <2>1. acks[d] \in Nat /\ reclaims[d] \in Nat /\ Cardinality(Senders(d)) \in Nat
    BY SendersFinite DEF IInv, TypeOK
  <2>2. TokenInRow(d) \in Nat
    BY DEF TokenInRow
  <2>3. QED
    BY <2>1, <2>2 DEF TokenInv, TokenAt
<1>4. QED
  BY <1>1, <1>2, <1>3, SpecIInv, PTL DEF Spec
=============================================================================
