------------------------- MODULE SubscriptionSession -------------------------
(***************************************************************************)
(* The subscription worker of WCA Live: the supervisor that discovers      *)
(* rounds, keeps one socket and subscribes every round on it, the client   *)
(* whose reader task turns frames into replies and queued messages, and    *)
(* the provider's end of the socket.                                       *)
(*                                                                         *)
(* The supervisor awaits: while it waits for a reply or for the database,  *)
(* the reader goes on.  A frame and a request travel in order and are lost *)
(* only with the connection.  Joining the control channel is part of       *)
(* Connect, for nothing else can happen on the socket before it.  Backoff  *)
(* and heartbeats are left out: no reply to a heartbeat is ever looked at, *)
(* and a heartbeat that cannot be sent ends the session as the reader does.*)
(* What a message does to the database is left to the module that composes *)
(* this one with the ingestion.                                            *)
(***************************************************************************)
EXTENDS Integers, Sequences, FiniteSets

CONSTANTS
  SubscribableRounds,   \* rounds of the weekend's competitions
  NoRound,              \* no round asked for, no reference pending
  MaxFaults             \* bound on failures

ASSUME NoRoundAssumption == NoRound \notin SubscribableRounds
ASSUME FaultBoundAssumption == MaxFaults \in Nat

VARIABLES
  status,      \* subscription_status of each SubscriptionRound
  connected,   \* IngestionWorkerStatus.connected
  pc,          \* where the supervisor stands, see Points
  targets,     \* rounds of the last discovery
  todo,        \* rounds the current loop over targets has yet to look at
  asking,      \* the round asked for, while a reply is awaited
  pending,     \* the client's pending reference
  reply,       \* the pending future: none, ok, refused or broken
  mapped,      \* the client's subscriptions: subscription id -> round
  queue,       \* messages read and not yet taken: [round, data], or Failure
  refs,        \* references used on this connection
  link,        \* none, open, broken (the reader has not noticed), ended
  serving,     \* the provider's subscriptions of this socket: id -> round
  requests,    \* requests on their way to the provider
  wire,        \* frames on their way to the client
  over,        \* the supervisor has seen the weekend pass
  faults       \* failures so far

dbVars         == <<status, connected>>
supervisorVars == <<pc, targets, todo, asking>>
clientVars     == <<pending, reply, mapped, queue, refs>>
networkVars    == <<link, serving, requests, wire>>
sessionVars    == <<dbVars, supervisorVars, clientVars, networkVars, over, faults>>

Points == {"discover", "connect", "subscribe", "await_subscribed", "loop",
           "unsubscribe", "await_unsubscribed", "done"}
\* A row is active unless it is "retired"; "returning" is a row that is active again and
\* says retired.
Statuses == {"unknown", "discovered", "subscribed", "error", "retired", "returning"}

Failure == [round |-> NoRound]
Empty   == [id \in {} |-> NoRound]

SubscribedRoundIds == {mapped[id] : id \in DOMAIN mapped}
ServedRounds       == {serving[id] : id \in DOMAIN serving}

SessionTypeOK ==
  /\ status \in [SubscribableRounds -> Statuses]
  /\ connected \in BOOLEAN
  /\ pc \in Points
  /\ targets \subseteq SubscribableRounds /\ todo \subseteq SubscribableRounds
  /\ asking \in SubscribableRounds \cup {NoRound}
  /\ pending \in 0..refs
  /\ reply \in {"none", "ok", "refused", "broken"}
  /\ DOMAIN mapped \subseteq 1..refs /\ SubscribedRoundIds \subseteq SubscribableRounds
  /\ DOMAIN serving \subseteq 1..refs /\ ServedRounds \subseteq SubscribableRounds
  /\ refs \in Nat
  /\ link \in {"none", "open", "broken", "ended"}
  /\ over \in BOOLEAN
  /\ faults \in 0..MaxFaults

SessionInit ==
  /\ status = [r \in SubscribableRounds |-> "unknown"]
  /\ connected = FALSE
  /\ pc = "discover" /\ targets = {} /\ todo = {} /\ asking = NoRound
  /\ pending = 0 /\ reply = "none" /\ mapped = Empty /\ queue = <<>> /\ refs = 0
  /\ link = "none" /\ serving = Empty /\ requests = <<>> /\ wire = <<>>
  /\ over = FALSE /\ faults = 0

Fault == faults < MaxFaults /\ faults' = faults + 1

-----------------------------------------------------------------------------
(* Database writes of the supervisor.                                         *)

Unfound(r) == IF status[r] = "unknown" THEN "unknown" ELSE "retired"

\* Rounds found that were new or retired have none but this status in the end.
Discovered(r) == IF status[r] \in {"unknown", "retired", "returning"} THEN "discovered" ELSE status[r]

\* Mutant of PersistTargets: rounds that are not found keep their status.
PersistFoundTargets(found) == [r \in SubscribableRounds |->
  IF r \in found THEN Discovered(r) ELSE status[r]]

\* Rounds found become active again; all others of the weekend are retired, those
\* whose competition could not be looked up among them.
PersistTargets(found) == [r \in SubscribableRounds |-> IF r \in found THEN Discovered(r) ELSE Unfound(r)]

\* The rows after the first n of the statements that do so, each a transaction of its own:
\* one writes the rounds found, one gives the retired among them another status, one
\* retires the others.
Persisted(found, n) ==
  IF n = 0 THEN status
  ELSE IF n = 3 THEN PersistTargets(found)
  ELSE [r \in SubscribableRounds |->
    IF r \notin found THEN status[r]
    ELSE IF n = 1 /\ status[r] \in {"retired", "returning"} THEN "returning" ELSE Discovered(r)]

\* Mutant of DisconnectedStatuses: a status that is none of the choices.
DisconnectedByName(st) == [r \in SubscribableRounds |->
  IF st[r] \in {"unknown", "retired"} THEN st[r] ELSE "disconnected"]

\* _set_worker_disconnected, when the rows are as in st.
DisconnectedStatuses(st) == [r \in SubscribableRounds |->
  IF st[r] \in {"unknown", "retired"} THEN st[r] ELSE "discovered"]

RetiredStatuses == [r \in SubscribableRounds |-> Unfound(r)]

-----------------------------------------------------------------------------
(* Leaving a session: the client is closed, its maps and its queue are gone.  *)

CloseClient ==
  /\ pending' = 0 /\ reply' = "none" /\ mapped' = Empty /\ queue' = <<>> /\ refs' = 0
  /\ link' = "none" /\ serving' = Empty /\ requests' = <<>> /\ wire' = <<>>
  /\ targets' = {} /\ todo' = {} /\ asking' = NoRound

\* Any exception in run_forever that leaves the rows as in st: mark everything
\* disconnected and discover again.
Abort(st) ==
  /\ CloseClient
  /\ pc' = "discover"
  /\ status' = DisconnectedStatuses(st) /\ connected' = FALSE

-----------------------------------------------------------------------------
(* run_forever.                                                               *)

\* Only the competitions in `found` could be looked up: a failed one is skipped, and
\* counts as a failure here.
Found(found) ==
  /\ found \subseteq SubscribableRounds
  /\ IF found = SubscribableRounds THEN UNCHANGED faults ELSE Fault

Discover(found) ==
  /\ pc = "discover"
  /\ Found(found)
  /\ IF found = {}
       THEN /\ status' = RetiredStatuses /\ connected' = FALSE
            /\ UNCHANGED <<pc, targets>>
       ELSE /\ status' = PersistTargets(found)
            /\ targets' = found /\ pc' = "connect"
            /\ UNCHANGED connected
  /\ UNCHANGED <<todo, asking, clientVars, networkVars, over>>

\* A discovery, or what it writes, fails after n statements.
Interrupted(found, n) ==
  /\ found \subseteq SubscribableRounds /\ n \in 0..3
  /\ n = 0 => found = {}
  /\ n # 0 => pc \in {"discover", "loop"}

DiscoveryFails(found, n) ==
  /\ pc \in {"discover", "loop"}
  /\ Interrupted(found, n)
  /\ Fault /\ Abort(Persisted(found, n))
  /\ UNCHANGED over

Connect ==
  /\ pc = "connect"
  /\ link' = "open" /\ connected' = TRUE
  /\ pc' = "subscribe" /\ todo' = targets
  /\ UNCHANGED <<status, targets, asking, clientVars, serving, requests, wire, over, faults>>

\* Connecting fails, or a refused round or the count of rounds cannot be written down.
ConnectFails ==
  /\ pc \in {"connect", "subscribe"}
  /\ Fault /\ Abort(status)
  /\ UNCHANGED over

\* The weekend has passed: the loop ends, or no new session begins.  Its passing is
\* seen nowhere else.
RetireAllTargets ==
  /\ pc \in {"discover", "loop"}
  /\ CloseClient
  /\ status' = RetiredStatuses /\ connected' = FALSE /\ pc' = "done"
  /\ over' = TRUE
  /\ UNCHANGED faults

-----------------------------------------------------------------------------
(* _subscribe_targets: one request at a time; a failure costs that round only. *)

\* subscribe_round and unsubscribe_round: register the future, then send.
SendRequest(r, kind, id) ==
  /\ refs' = refs + 1 /\ pending' = refs + 1 /\ reply' = "none" /\ asking' = r
  /\ requests' = Append(requests, [ref |-> refs + 1, kind |-> kind, round |-> r, id |-> id])

AskToSubscribe(r) ==
  /\ pc = "subscribe" /\ r \in todo \ SubscribedRoundIds
  /\ todo' = todo \ {r}
  /\ IF link = "open"
       THEN SendRequest(r, "doc", refs + 1) /\ pc' = "await_subscribed" /\ UNCHANGED status
       ELSE \* sending on a dead socket raises
            /\ status' = [status EXCEPT ![r] = "error"]
            /\ UNCHANGED <<pc, asking, pending, reply, refs, requests>>
  /\ UNCHANGED <<connected, targets, mapped, queue, link, serving, wire, over, faults>>

With(ids, id, r) == [i \in DOMAIN ids \cup {id} |-> IF i = id THEN r ELSE ids[i]]
Without(ids, out) == [i \in DOMAIN ids \ out |-> ids[i]]

\* The awaiting task resumes: only now is the subscription id known to the reader.
Resume(st) ==
  /\ pc = "await_subscribed" /\ reply = "ok"
  /\ mapped' = With(mapped, pending, asking)
  /\ status' = [status EXCEPT ![asking] = st]
  /\ pc' = "subscribe" /\ asking' = NoRound /\ pending' = 0 /\ reply' = "none"
  /\ UNCHANGED <<connected, targets, todo, queue, refs, networkVars, over>>

Subscribed == Resume("subscribed") /\ UNCHANGED faults

\* The subscription is there but cannot be written down: the row says that it failed.
MarkingFails == Fault /\ Resume("error")

GiveUpSubscribing ==
  /\ status' = [status EXCEPT ![asking] = "error"]
  /\ pc' = "subscribe" /\ asking' = NoRound /\ pending' = 0 /\ reply' = "none"
  /\ UNCHANGED <<connected, targets, todo, mapped, queue, refs, networkVars, over>>

SubscriptionRefused ==
  /\ pc = "await_subscribed" /\ reply \in {"refused", "broken"}
  /\ GiveUpSubscribing
  /\ UNCHANGED faults

\* wait_for gives up although the reply may still come: it will find nobody.
SubscriptionTimesOut ==
  /\ pc = "await_subscribed" /\ reply = "none"
  /\ Fault
  /\ GiveUpSubscribing

EnterLoop ==
  /\ pc = "subscribe" /\ todo \subseteq SubscribedRoundIds
  /\ pc' = "loop"
  /\ todo' = {}
  /\ UNCHANGED <<dbVars, targets, asking, clientVars, networkVars, over, faults>>

-----------------------------------------------------------------------------
(* _connected_loop.                                                           *)

\* The message at the head of the queue, while it is not the reader's failure.
TakeMessage ==
  /\ pc = "loop"
  /\ queue # <<>> /\ Head(queue).round # NoRound
  /\ queue' = Tail(queue)
  /\ UNCHANGED <<dbVars, supervisorVars, pending, reply, mapped, refs, networkVars, over>>

TakeFailure ==
  /\ pc = "loop"
  /\ queue # <<>> /\ Head(queue).round = NoRound
  /\ Abort(status)
  /\ UNCHANGED <<over, faults>>

Rediscover(found) ==
  /\ pc = "loop"
  /\ Found(found)
  /\ status' = PersistTargets(found)
  /\ targets' = found
  /\ todo' = SubscribedRoundIds \ found
  /\ pc' = "unsubscribe"
  /\ UNCHANGED <<connected, asking, clientVars, networkVars, over>>

\* _retire_missing_subscriptions; a failure is logged and the round stays mapped.
AskToUnsubscribe(r) ==
  /\ pc = "unsubscribe" /\ r \in todo
  /\ todo' = todo \ {r}
  /\ IF link = "open"
       THEN /\ SendRequest(r, "unsubscribe", CHOOSE id \in DOMAIN mapped : mapped[id] = r)
            /\ pc' = "await_unsubscribed"
       ELSE UNCHANGED <<pc, asking, pending, reply, refs, requests>>
  /\ UNCHANGED <<dbVars, targets, mapped, queue, link, serving, wire, over, faults>>

Unsubscribed ==
  /\ pc = "await_unsubscribed" /\ reply = "ok"
  /\ mapped' = Without(mapped, {id \in DOMAIN mapped : mapped[id] = asking})
  /\ status' = [status EXCEPT ![asking] = "retired"]
  /\ pc' = "unsubscribe" /\ asking' = NoRound /\ pending' = 0 /\ reply' = "none"
  /\ UNCHANGED <<connected, targets, todo, queue, refs, networkVars, over, faults>>

GiveUpUnsubscribing ==
  /\ pc' = "unsubscribe" /\ asking' = NoRound /\ pending' = 0 /\ reply' = "none"
  /\ UNCHANGED <<dbVars, targets, todo, mapped, queue, refs, networkVars, over>>

UnsubscriptionRefused ==
  /\ pc = "await_unsubscribed" /\ reply \in {"refused", "broken"}
  /\ GiveUpUnsubscribing
  /\ UNCHANGED faults

UnsubscriptionTimesOut ==
  /\ pc = "await_unsubscribed" /\ reply = "none"
  /\ Fault
  /\ GiveUpUnsubscribing

\* Mutant of SubscribeRemaining: a round that failed once is not asked for again.
SubscribeDiscovered ==
  /\ pc = "unsubscribe" /\ todo = {}
  /\ pc' = "subscribe" /\ todo' = {r \in targets : status[r] = "discovered"}
  /\ UNCHANGED <<dbVars, targets, asking, clientVars, networkVars, over, faults>>

SubscribeRemaining ==
  /\ pc = "unsubscribe" /\ todo = {}
  /\ pc' = "subscribe" /\ todo' = targets
  /\ UNCHANGED <<dbVars, targets, asking, clientVars, networkVars, over, faults>>

-----------------------------------------------------------------------------
(* _reader_loop.                                                              *)

Resolve(ref, answer) ==
  reply' = IF ref = pending /\ reply = "none" THEN answer ELSE reply

\* Mutant of ReadFrame: a frame is dropped while an earlier one waits.
ReadFrameWhenIdle ==
  /\ link \in {"open", "broken"} /\ wire # <<>>
  /\ wire' = Tail(wire)
  /\ LET frame == Head(wire) IN
       IF frame.kind = "reply"
         THEN Resolve(frame.ref, frame.data) /\ UNCHANGED queue
         ELSE /\ queue' = IF frame.ref \in DOMAIN mapped /\ queue = <<>>
                          THEN <<[round |-> mapped[frame.ref], data |-> frame.data]>>
                          ELSE queue
              /\ UNCHANGED reply
  /\ UNCHANGED <<dbVars, supervisorVars, pending, mapped, refs, link, serving, requests, over, faults>>

\* A frame is a reply to a reference or data for a subscription id; data of an id
\* that is not mapped, not yet or no longer, is dropped.
ReadFrame ==
  /\ link \in {"open", "broken"} /\ wire # <<>>
  /\ wire' = Tail(wire)
  /\ LET frame == Head(wire) IN
       IF frame.kind = "reply"
         THEN Resolve(frame.ref, frame.data) /\ UNCHANGED queue
         ELSE /\ queue' = IF frame.ref \in DOMAIN mapped
                          THEN Append(queue, [round |-> mapped[frame.ref], data |-> frame.data])
                          ELSE queue
              /\ UNCHANGED reply
  /\ UNCHANGED <<dbVars, supervisorVars, pending, mapped, refs, link, serving, requests, over, faults>>

ReaderEnds ==
  /\ link = "broken" /\ wire = <<>>
  /\ link' = "ended"
  /\ reply' = IF pending # 0 /\ reply = "none" THEN "broken" ELSE reply
  /\ queue' = Append(queue, Failure)
  /\ UNCHANGED <<dbVars, supervisorVars, pending, mapped, refs, serving, requests, wire, over, faults>>

-----------------------------------------------------------------------------
(* The provider's end of the socket, and what goes wrong from outside.        *)

ReplyFrame(ref, answer) == [kind |-> "reply", ref |-> ref, data |-> answer]
DataFrame(id, snapshot) == [kind |-> "data", ref |-> id, data |-> snapshot]

\* Subscribing sends no snapshot.
Answer ==
  /\ link = "open" /\ requests # <<>>
  /\ LET ask == Head(requests) IN
       /\ serving' = IF ask.kind = "doc" THEN With(serving, ask.id, ask.round)
                     ELSE Without(serving, {ask.id})
       /\ wire' = Append(wire, ReplyFrame(ask.ref, "ok"))
  /\ requests' = Tail(requests)
  /\ UNCHANGED <<dbVars, supervisorVars, clientVars, link, over, faults>>

Refuse ==
  /\ link = "open" /\ requests # <<>>
  /\ Fault
  /\ wire' = Append(wire, ReplyFrame(Head(requests).ref, "refused"))
  /\ requests' = Tail(requests)
  /\ UNCHANGED <<dbVars, supervisorVars, clientVars, link, serving, over>>

\* Each subscription of the round gets a frame of its own, in any order.
Send(r, snapshot) ==
  LET ids == {id \in DOMAIN serving : serving[id] = r}
      n   == Cardinality(ids)
  IN /\ \E order \in [1..n -> ids] :
          /\ {order[i] : i \in 1..n} = ids
          /\ wire' = wire \o [i \in 1..n |-> DataFrame(order[i], snapshot)]
     /\ UNCHANGED <<dbVars, supervisorVars, clientVars, link, serving, requests, over, faults>>

\* The connection breaks; of the frames under way some may still be read.
Break(kept) ==
  /\ link = "open"
  /\ Fault
  /\ link' = "broken" /\ serving' = Empty /\ requests' = <<>>
  /\ kept \in 0..Len(wire) /\ wire' = SubSeq(wire, 1, kept)
  /\ UNCHANGED <<dbVars, supervisorVars, clientVars, over>>

\* The process dies, or a database error escapes run_forever, and the command starts
\* a new session; the statuses of rounds are left as they are, in the middle of a
\* discovery as its statements so far made them.
Crash(found, n) ==
  /\ pc # "done"
  /\ Interrupted(found, n)
  /\ Fault
  /\ CloseClient
  /\ pc' = "discover" /\ connected' = FALSE
  /\ status' = Persisted(found, n)
  /\ UNCHANGED over
=============================================================================
