----------------------------- MODULE WcaLiveFeed -----------------------------
(***************************************************************************)
(* WCA Live end to end: a provider that enters, corrects, clears and       *)
(* removes results, the subscription worker that mirrors its rounds, and   *)
(* the poller that reads its list of recent records.                       *)
(*                                                                         *)
(* The provider is external.  It publishes a snapshot of a round to every  *)
(* subscription when the round changes, and it sets enteredAt when it      *)
(* enters attempts, but not when record tags change.                       *)
(***************************************************************************)
EXTENDS WcaLiveIngestion, SubscriptionSession

CONSTANTS
  Entries,       \* Entries[x]: what may be entered for x, rows without their time
  Start,         \* what the provider may show, and the rules, when the worker starts
  Formats,       \* finalization rules a round may have
  MaxChanges,    \* bound on changes at the provider
  MaxFormatChanges,
  MaxEvents,     \* bound on changes and failures together
  Deployments    \* which of the processes "subscription" and "polling" run

EnteredRow(e, at) ==
  [attempts |-> e.attempts, best |-> e.best, average |-> e.average,
   singleTag |-> e.singleTag, averageTag |-> e.averageTag, enteredAt |-> at]

ASSUME RoundsAssumption == SubscribableRounds = Rounds
ASSUME FormatsAssumption ==
  None \notin [result : Results, kind : Kinds, row : Rows, rule : Formats]
ASSUME EntriesAssumption ==
  \A x \in Results : \A e \in Entries[x] :
    \A at \in 0..(MaxChanges + 1) \cup {row.enteredAt : row \in Rows} : EnteredRow(e, at) \in Rows
ASSUME StartAssumption == Start \subseteq [shown : [Results -> Rows \cup {None}], format : [Rounds -> Formats]]
ASSUME ChangeBoundAssumption == MaxChanges \in Nat /\ MaxEvents \in Nat /\ MaxFormatChanges \in Nat

VARIABLES
  shown,     \* shown[x]: the row the provider shows, None if it has none
  format,    \* format[r]: the rule of the round at the provider
  changes, formatChanges,
  running,   \* the processes that run
  \* History, read by no action:
  missed,       \* rounds whose newest snapshot no subscription will bring
  repeated,     \* rounds whose last snapshot was passed over although it differed
  baselineRow,  \* the row a first snapshot stored without evaluating it, or None
  reruled,      \* rounds whose rule changed after the first row was stored
  listed,       \* listed[x][k]: the last entry of the poller for it, or None
  returned      \* pairs whose last entry was passed over although it differed

providerVars == <<shown, format, changes, formatChanges>>
historyVars  == <<missed, repeated, baselineRow, reruled, listed, returned>>
vars == <<ingestionVars, sessionVars, providerVars, running, historyVars>>

Events == changes + formatChanges + faults

\* What the provider shows of a round, and what the diff table says it shows.
Snapshot(r) == [x \in {y \in ResultsOf(r) : shown[y] # None} |-> shown[x]]
Mirrored(r) == [x \in {y \in ResultsOf(r) : Previous(y) # None} |-> Previous(x)]

\* The provider's list: one entry per result and kind it tags as a record.
RecentRecords ==
  {RecordEntry(p[1], p[2], shown[p[1]], format[RoundOf[p[1]]]) : p \in
     {q \in Results \X Kinds :
        /\ shown[q[1]] # None
        /\ Tag(shown[q[1]], q[2]) \in Levels /\ IsComplete(Value(shown[q[1]], q[2]))}}

TypeOK ==
  /\ SessionTypeOK
  /\ rule \in [Rounds -> Formats \cup {[expected |-> 0, cutoffAttempts |-> 0, cutoff |-> 0]}]
  /\ \A x \in Results :
       /\ table[x] = None \/ (table[x].row \in Rows /\ table[x].active \in BOOLEAN)
       /\ evidence[x] \in [Kinds -> Evidence \cup {None}]
       /\ apiEvidence[x] \in [Kinds -> Evidence \cup {None}]
       /\ \A k \in Kinds : DOMAIN records[x][k] = Levels /\ DOMAIN apiRecords[x][k] = Levels
  /\ \A s \in seen : s[1] \in Rounds /\ DOMAIN s[2] \subseteq ResultsOf(s[1])
  /\ \A x \in Results : shown[x] \in Rows \cup {None}

Init ==
  /\ IngestionInit /\ SessionInit
  /\ \E s \in Start : shown = s.shown /\ format = s.format
  /\ running \in Deployments
  /\ rule = [r \in Rounds |-> [expected |-> 0, cutoffAttempts |-> 0, cutoff |-> 0]]
  /\ changes = 1 /\ formatChanges = 0
  /\ missed = Rounds /\ repeated = {} /\ reruled = {} /\ returned = {}
  /\ baselineRow = [x \in Results |-> None]
  /\ listed = [x \in Results |-> NoObservation]

-----------------------------------------------------------------------------
(* What becomes of the newest snapshot of a round.                            *)

IsCurrent(r) == Mirrored(r) = Snapshot(r)

\* It is on the wire for a subscription the client knows, or in its queue.
Underway(r) ==
  \/ \E i \in 1..Len(wire) :
       /\ wire[i].kind = "data" /\ wire[i].data = Snapshot(r)
       /\ wire[i].ref \in DOMAIN mapped /\ mapped[wire[i].ref] = r
  \/ \E i \in 1..Len(queue) : queue[i].round = r /\ queue[i].data = Snapshot(r)

\* Both ends know of a subscription.
Established(r) ==
  \E id \in DOMAIN serving \cap DOMAIN mapped : serving[id] = r /\ mapped[id] = r

\* Rounds with frames on the wire, beyond position n, that the client would accept.
OnWire(n) == {mapped[wire[i].ref] :
  i \in {j \in (n + 1)..Len(wire) : wire[j].kind = "data" /\ wire[j].ref \in DOMAIN mapped}}

\* Later frames of a round than the one at the head of the queue.
Followed(r) == {i \in 2..Len(queue) : queue[i].round = r} \cup (OnWire(0) \cap {r})

Stale(R) == {r \in R : ~IsCurrent(r)}

-----------------------------------------------------------------------------
(* The provider.                                                              *)

Change(x, row) ==
  LET r     == RoundOf[x]
      after == [shown EXCEPT ![x] = row]
      snapshot == [y \in {z \in ResultsOf(r) : after[z] # None} |-> after[y]]
  IN /\ changes <= MaxChanges /\ Events <= MaxEvents
     /\ changes' = changes + 1
     /\ shown' = after
     /\ Send(r, snapshot)
     /\ missed' = IF Established(r) THEN missed \ {r} ELSE missed \cup {r}
     /\ UNCHANGED <<ingestionVars, format, formatChanges, running,
                    repeated, baselineRow, reruled, listed, returned>>

\* Attempts are entered or cleared, or only tags change.
EnterResult(x, e) ==
  LET old == shown[x]
      at  == IF e.attempts = <<>> THEN 0
             ELSE IF old # None /\ old.attempts = e.attempts THEN old.enteredAt
             ELSE changes + 1
  IN e \in Entries[x] /\ EnteredRow(e, at) # old /\ Change(x, EnteredRow(e, at))

RemoveResult(x) == shown[x] # None /\ Change(x, None)

\* The organiser changes the cutoff; the worker learns of it by discovery.
ChangeFormat(r, rl) ==
  /\ formatChanges < MaxFormatChanges /\ Events <= MaxEvents
  /\ formatChanges' = formatChanges + 1
  /\ rl # format[r] /\ format' = [format EXCEPT ![r] = rl]
  /\ UNCHANGED <<ingestionVars, sessionVars, shown, changes, running, historyVars>>

ProviderChange ==
  \/ \E x \in Results : RemoveResult(x) \/ \E e \in Entries[x] : EnterResult(x, e)
  \/ \E r \in Rounds, rl \in Formats : ChangeFormat(r, rl)

-----------------------------------------------------------------------------
(* The subscription worker.                                                   *)

\* Discovery writes the rules of the rounds it finds.
PersistRules(found) ==
  /\ rule' = [r \in Rounds |-> IF r \in found THEN format[r] ELSE rule[r]]
  /\ reruled' = reruled \cup {r \in found : rule[r] # format[r] /\ ~IsInitial(r)}
  /\ UNCHANGED <<seen, table, evidence, records, polled, apiEvidence, apiRecords>>

DiscoverRounds(found) ==
  /\ "subscription" \in running
  /\ found # SubscribableRounds => Events <= MaxEvents
  /\ Discover(found) \/ Rediscover(found)
  /\ PersistRules(found)
  /\ UNCHANGED <<providerVars, running, missed, repeated, baselineRow, listed, returned>>

ProcessMessage(threshold) ==
  LET m      == Head(queue)
      recent == {x \in DOMAIN m.data : m.data[x].enteredAt >= threshold}
  IN /\ TakeMessage
     /\ ProcessRoundSnapshot(m.round, m.data, recent)
     /\ missed' = IF m.data = Snapshot(m.round) /\ Followed(m.round) = {}
                  THEN missed \ {m.round} ELSE missed
     /\ repeated' = IF IsDuplicate(m.round, m.data) /\ Mirrored(m.round) # m.data
                    THEN repeated \cup {m.round} ELSE repeated \ {m.round}
     /\ baselineRow' = [x \in Results |->
          IF /\ ~IsDuplicate(m.round, m.data) /\ IsInitial(m.round)
             /\ x \in DOMAIN m.data \ Evaluated(m.round, m.data, recent)
          THEN m.data[x] ELSE baselineRow[x]]
     /\ UNCHANGED <<faults, providerVars, running, reruled, listed, returned>>

\* An exception rolls the snapshot back and is only logged.
ProcessingFails ==
  /\ Events <= MaxEvents
  /\ TakeMessage /\ Fault
  /\ missed' = missed \cup {Head(queue).round}
  /\ UNCHANGED <<ingestionVars, providerVars, running, repeated, baselineRow, reruled,
                 listed, returned>>

\* What a session loses when it ends and when the connection breaks.  Nothing is lost
\* when a round is unsubscribed, for no frame follows the reply.
SessionLosses == missed' = missed \cup
  IF link # "none" /\ link' = "none" THEN Stale(Rounds)
  ELSE IF link' = "broken" /\ link = "open" THEN OnWire(Len(wire'))
  ELSE {}

OtherFeedUnchanged ==
  UNCHANGED <<ingestionVars, providerVars, running, repeated, baselineRow, reruled, listed, returned>>

WorkerStep ==
  /\ \/ Connect \/ RetireAllTargets
     \/ \E r \in SubscribableRounds :
          AskToSubscribe(r) \/ AskToUnsubscribe(r)
     \/ Subscribed \/ SubscriptionRefused \/ EnterLoop
     \/ TakeFailure
     \/ Unsubscribed \/ UnsubscriptionRefused \/ SubscribeRemaining
  /\ SessionLosses
  /\ OtherFeedUnchanged

FrameStep == (ReadFrame \/ ReaderEnds \/ Answer) /\ OtherFeedUnchanged /\ UNCHANGED missed

FaultStep ==
  /\ Events <= MaxEvents
  /\ \/ ConnectFails \/ MarkingFails
     \/ SubscriptionTimesOut \/ UnsubscriptionTimesOut \/ Refuse
     \/ \E kept \in 0..Len(wire) : Break(kept)
  /\ SessionLosses
  /\ OtherFeedUnchanged

\* The first statement of a discovery writes the rules with the rounds.
PersistingFails ==
  /\ "subscription" \in running
  /\ Events <= MaxEvents
  /\ \E found \in SUBSET SubscribableRounds, n \in 0..3 :
       /\ DiscoveryFails(found, n) \/ Crash(found, n)
       /\ PersistRules(IF n = 0 THEN {} ELSE found)
  /\ SessionLosses
  /\ UNCHANGED <<providerVars, running, repeated, baselineRow, listed, returned>>

-----------------------------------------------------------------------------
(* The poller.                                                                *)

\* The list is read and processed in one step: nothing else touches what the poller
\* writes, so a list that is processed late is a list that was read late.  An entry whose
\* processing fails is rolled back and logged: only those in `list` are processed.
PollRecords(list) ==
  /\ "polling" \in running
  /\ IF list = RecentRecords THEN UNCHANGED faults ELSE Events <= MaxEvents /\ Fault
  /\ PollRecentRecords(list)
  /\ LET entries(x, k) == {e \in list : e.result = x /\ e.kind = k}
         last(x, k) == IF entries(x, k) = {} THEN listed[x][k] ELSE CHOOSE e \in entries(x, k) : TRUE
     IN /\ listed' = [x \in Results |-> [k \in Kinds |-> last(x, k)]]
        /\ returned' = {p \in Results \X Kinds :
             IF last(p[1], p[2]) = listed[p[1]][p[2]] THEN p \in returned
             ELSE last(p[1], p[2]) \in polled}
  /\ UNCHANGED <<dbVars, supervisorVars, clientVars, networkVars, over, providerVars, running,
                 missed, repeated, baselineRow, reruled>>

Next ==
  \/ ProviderChange
  \/ \E found \in SUBSET SubscribableRounds : DiscoverRounds(found)
  \/ \E threshold \in 0..changes : ProcessMessage(threshold)
  \/ ProcessingFails
  \/ WorkerStep \/ FrameStep \/ FaultStep \/ PersistingFails
  \/ \E list \in SUBSET RecentRecords : PollRecords(list)

Spec == Init /\ [][Next]_vars

\* Supervisor, reader, provider and network go on; a discovery finds all rounds unless
\* it fails.  The loop handles a message that is there before it discovers again, so a
\* message is not put off for ever although the loop is left and entered.
FairSpec ==
  /\ Spec
  /\ WF_vars(WorkerStep) /\ WF_vars(FrameStep)
  /\ WF_vars(DiscoverRounds(SubscribableRounds))
  /\ SF_vars(\E threshold \in 0..changes : ProcessMessage(threshold))
  /\ SF_vars(TakeFailure /\ WorkerStep)

-----------------------------------------------------------------------------
(* Properties.                                                                *)

\* The diff table shows what the provider shows, or the newest snapshot is on its way,
\* or it was lost with a connection, or it equals an earlier one and was passed over.
TableIsCurrent ==
  \A r \in Rounds : IsCurrent(r) \/ Underway(r) \/ r \in missed \/ r \in repeated

\* Subscription evidence is what the rows of the diff table stand for, but for rows the
\* first snapshot found too old, as long as they are not entered anew, and for rounds
\* whose rule changed.  The poller's evidence is that of the last entry it was given,
\* unless that entry came back; it outlives the row.
EvidenceFollowsSources ==
  \A x \in Results, k \in Kinds :
    /\ LET row == Previous(x)
           now == ObservationsOf(row, rule[RoundOf[x]])[k]
       IN \/ evidence[x][k] = now
          \/ RoundOf[x] \in reruled
          \/ /\ evidence[x][k] = None /\ baselineRow[x] # None
             /\ ObservationsOf(baselineRow[x], rule[RoundOf[x]])[k] = now
    /\ LET e == listed[x][k] IN
         \/ <<x, k>> \in returned
         \/ apiEvidence[x][k] =
              IF e = None THEN None ELSE ResultObservations(e.row, e.rule)[k]

\* A result has an active record of the level its row is tagged with and of no other,
\* unless it was so when the first snapshot found it too old; the poller's records
\* are those of the last entry, unless it came back.
RecordsFollowSources ==
  \A x \in Results :
    /\ \/ records[x] = IF Previous(x) = None THEN [k \in Kinds |-> NoRecord]
                       ELSE TaggedRecords(Previous(x))
       \/ /\ baselineRow[x] # None /\ Pairs(Previous(x)) = Pairs(baselineRow[x])
          /\ \A k \in Kinds : records[x][k] = NoRecord
    /\ \A k \in Kinds :
         \/ <<x, k>> \in returned
         \/ apiRecords[x][k] =
              IF listed[x][k] = None THEN NoRecord ELSE TaggedRecords(listed[x][k].row)[k]

\* A round whose status says subscribed, seen from the loop, is subscribed at both ends
\* of an unbroken connection.
SubscribedIsServed ==
  pc = "loop" /\ link = "open" =>
    \A r \in SubscribableRounds : status[r] = "subscribed" => Established(r)

\* A round that was retired, could not be unsubscribed in time and was found again, or
\* whose subscription could not be written down: the client counts it as subscribed and
\* does not ask again.
Halfway(r) == status[r] \in {"discovered", "error"} /\ r \in SubscribedRoundIds

\* After the last failure every round ends up subscribed, but for those left halfway.
EveryRoundIsSubscribed ==
  <>[](over \/ \A r \in SubscribableRounds : status[r] = "subscribed" \/ Halfway(r))

\* After the last failure and the last change the diff table settles on what the provider
\* shows, but for snapshots that were lost or passed over.
EventuallyCurrent ==
  <>[](over \/ \A r \in Rounds : IsCurrent(r) \/ r \in missed \/ r \in repeated)
=============================================================================
