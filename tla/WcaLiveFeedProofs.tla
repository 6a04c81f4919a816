-------------------------- MODULE WcaLiveFeedProofs --------------------------
(* Theorems about WcaLiveFeed, for any rounds, results, rows and rules and *)
(* any bounds.                                                             *)
EXTENDS WcaLiveFeed, FiniteSetTheorems, TLAPS

(***************************************************************************)
(* The session: what the client, the network and the provider's end of the *)
(* socket know of each other.                                              *)
(***************************************************************************)

\* A snapshot of some of the results of a round.
Of(r) == {s \in Snapshots : DOMAIN s \subseteq ResultsOf(r)}

Messages == {m \in [round : Rounds, data : Snapshots] : m.data \in Of(m.round)} \cup {Failure}
Requests(n) ==
  {q \in [ref : 1..n, kind : {"doc", "unsubscribe"}, round : Rounds, id : 1..n] :
     IF q.kind = "doc" THEN q.id = q.ref ELSE q.id < q.ref}
Frames(n) ==
  [kind : {"reply"}, ref : 1..n, data : {"ok", "refused"}] \cup
  [kind : {"data"}, ref : 1..n, data : Snapshots]

InSession == pc \notin {"discover", "connect", "done"}
Awaits    == pc \in {"await_subscribed", "await_unsubscribed"}

Types ==
  /\ status \in [Rounds -> Statuses] /\ connected \in BOOLEAN
  /\ pc \in Points /\ targets \subseteq Rounds /\ todo \subseteq Rounds
  /\ asking \in Rounds \cup {NoRound}
  /\ reply \in {"none", "ok", "refused", "broken"}
  /\ refs \in Nat
  /\ link \in {"none", "open", "broken", "ended"}
  /\ over \in BOOLEAN /\ faults \in 0..MaxFaults

Maps ==
  /\ mapped \in [DOMAIN mapped -> Rounds] /\ DOMAIN mapped \subseteq 1..refs
  /\ serving \in [DOMAIN serving -> Rounds] /\ DOMAIN serving \subseteq 1..refs

Queues ==
  /\ queue \in Seq(Messages)
  /\ requests \in Seq(Requests(refs))
  /\ wire \in Seq(Frames(refs))

\* At most one request is waited for, the last; nothing is left of a session that is over.
Stage ==
  /\ Awaits <=> pending # 0
  /\ pending \in {0, refs}
  /\ Awaits => asking \in Rounds
  /\ link # "open" => requests = <<>> /\ serving = Empty
  /\ InSession <=> link # "none"
  /\ ~InSession => mapped = Empty /\ queue = <<>> /\ wire = <<>>

ShapeInv == Types /\ Maps /\ Queues /\ Stage

IsReply(f, ref) == f.kind = "reply" /\ f.ref = ref
IsData(f, id)   == f.kind = "data" /\ f.ref = id

Injective == \A i, j \in DOMAIN mapped : mapped[i] = mapped[j] => i = j

Agreed == \A id \in DOMAIN mapped : id \in DOMAIN serving => serving[id] = mapped[id]

RequestsInOrder ==
  /\ \A i \in 1..Len(requests) : requests[i].kind = "doc" => requests[i].id \notin DOMAIN mapped
  /\ \A i, j \in 1..Len(requests) : i < j => requests[i].ref < requests[j].ref

FramesFit ==
  \A i \in 1..Len(wire) : wire[i].kind = "data" =>
    \A id \in DOMAIN mapped : wire[i].ref = id => wire[i].data \in Of(mapped[id])

\* What is under way concerns the round the client takes it for.
RefsInv == Injective /\ Agreed /\ RequestsInOrder /\ FramesFit

\* The request that is waited for, while the provider has not seen it.
Asked ==
  \A i \in 1..Len(requests) : requests[i].ref = pending =>
    /\ reply = "none"
    /\ \A j \in 1..Len(wire) : ~IsReply(wire[j], pending)
    /\ pc = "await_subscribed" => requests[i].kind = "doc" /\ requests[i].round = asking
    /\ pc = "await_unsubscribed" =>
         /\ requests[i].kind = "unsubscribe"
         /\ requests[i].id \in DOMAIN mapped /\ mapped[requests[i].id] = asking

\* A subscription is known to the provider before it is known to the client.
Subscribing ==
  pc = "await_subscribed" =>
    /\ asking \notin SubscribedRoundIds /\ pending \notin DOMAIN mapped
    /\ pending \in DOMAIN serving => serving[pending] = asking
    /\ \A i \in 1..Len(wire) : IsData(wire[i], pending) => wire[i].data \in Of(asking)
    /\ link = "open" /\ reply = "ok" => pending \in DOMAIN serving
    /\ \A i \in 1..Len(wire) :
         link = "open" /\ IsReply(wire[i], pending) /\ wire[i].data = "ok" => pending \in DOMAIN serving

\* No frame of a subscription follows the answer that ends it.
Unsubscribing ==
  pc = "await_unsubscribed" =>
    \E id \in DOMAIN mapped :
      /\ mapped[id] = asking
      /\ reply = "ok" => id \notin DOMAIN serving /\ \A i \in 1..Len(wire) : ~IsData(wire[i], id)
      /\ \A i \in 1..Len(wire) : IsReply(wire[i], pending) /\ wire[i].data = "ok" =>
           id \notin DOMAIN serving /\ \A j \in 1..Len(wire) : i < j => ~IsData(wire[j], id)

AwaitInv == Asked /\ Subscribing /\ Unsubscribing

Marked(r) == status[r] = "subscribed"

\* The round is about to be asked for, whatever its status says.
ToBeAsked(r) ==
  /\ pc \in {"subscribe", "await_subscribed"} /\ r \notin SubscribedRoundIds
  /\ r \in todo \/ (pc = "await_subscribed" /\ r = asking)

Connecting == pc = "connect" => \A r \in Rounds : Marked(r) => r \in targets

\* Only rounds that are marked otherwise are unsubscribed.
Leaving ==
  /\ pc \in {"unsubscribe", "await_unsubscribed"} =>
       \A r \in todo : ~Marked(r) /\ r \in SubscribedRoundIds /\ (pc = "await_unsubscribed" => r # asking)
  /\ pc = "await_unsubscribed" => ~Marked(asking)
  /\ \A i \in 1..Len(requests) : \A id \in DOMAIN mapped :
       requests[i].kind = "unsubscribe" /\ requests[i].id = id => ~Marked(mapped[id])

Served == InSession /\ link = "open" =>
  \A r \in Rounds : Marked(r) => Established(r) \/ ToBeAsked(r)

StatusInv == Connecting /\ Leaving /\ Served

SessionInv == ShapeInv /\ RefsInv /\ AwaitInv /\ StatusInv

(***************************************************************************)
(* The ingestion.                                                          *)
(***************************************************************************)

Unruled == [expected |-> 0, cutoffAttempts |-> 0, cutoff |-> 0]

IngestionTypes ==
  /\ shown \in [Results -> Rows \cup {None}] /\ format \in [Rounds -> Formats]
  /\ rule \in [Rounds -> Formats \cup {Unruled}]
  /\ seen \subseteq {s \in Rounds \X Snapshots : s[2] \in Of(s[1])}
  /\ table \in [Results -> [row : Rows, active : BOOLEAN] \cup {None}]
  /\ evidence \in [Results -> [Kinds -> Evidence \cup {None}]]
  /\ apiEvidence \in [Results -> [Kinds -> Evidence \cup {None}]]
  /\ records = [x \in Results |-> [k \in Kinds |-> records[x][k]]]
  /\ apiRecords = [x \in Results |-> [k \in Kinds |-> apiRecords[x][k]]]
  /\ \A x \in Results, k \in Kinds : DOMAIN records[x][k] = Levels /\ DOMAIN apiRecords[x][k] = Levels
  /\ baselineRow \in [Results -> Rows \cup {None}]
  /\ listed \in [Results -> [Kinds -> [result : Results, kind : Kinds, row : Rows, rule : Formats] \cup {None}]]

\* A rule that matters changes only once the round has a row.
RuledInv == \A r \in reruled : ~IsInitial(r)

SourcesInv == IngestionTypes /\ RuledInv /\ EvidenceFollowsSources /\ RecordsFollowSources

(***************************************************************************)
(* The newest snapshot of a round.                                         *)
(***************************************************************************)

\* The client takes the frame f for the round r.
Accepted(f, r) == f.kind = "data" /\ f.ref \in DOMAIN mapped /\ mapped[f.ref] = r

WireTells(r) ==
  \E i \in 1..Len(wire) :
    /\ Accepted(wire[i], r)
    /\ \A j \in i..Len(wire) : Accepted(wire[j], r) => wire[j].data = Snapshot(r)

QueueTells(r) ==
  \E i \in 1..Len(queue) :
    /\ queue[i].round = r
    /\ \A j \in i..Len(queue) : queue[j].round = r => queue[j].data = Snapshot(r)

TableTells(r) == IsCurrent(r) \/ r \in repeated

NothingOnWire(r) == \A i \in 1..Len(wire) : ~Accepted(wire[i], r)
NothingQueued(r) == \A i \in 1..Len(queue) : queue[i].round # r

\* The last frame of the round shows the newest snapshot; without one the diff table
\* does, but for snapshots that were passed over.
Told(r) ==
  \/ WireTells(r)
  \/ NothingOnWire(r) /\ QueueTells(r)
  \/ NothingOnWire(r) /\ NothingQueued(r) /\ TableTells(r)

ToldUnlessMissed == \A r \in Rounds \ missed : Told(r)

\* Frames of a subscription the client does not know yet are missed.
PendingMissed ==
  pc = "await_subscribed" => \A i \in 1..Len(wire) : IsData(wire[i], pending) => asking \in missed

CurrentInv == ToldUnlessMissed /\ PendingMissed

FeedInv == changes \in Nat /\ SessionInv /\ SourcesInv /\ CurrentInv

(***************************************************************************)
(* Sequences.                                                              *)
(***************************************************************************)

LEMMA TailElements ==
  ASSUME NEW S, NEW q \in Seq(S), q # <<>>
  PROVE  /\ Len(q) \in Nat \ {0} /\ Len(Tail(q)) = Len(q) - 1 /\ Head(q) = q[1] /\ Head(q) \in S
         /\ Tail(q) \in Seq(S)
         /\ \A i \in 1..(Len(q) - 1) : Tail(q)[i] = q[i + 1]
  OBVIOUS

LEMMA AppendElements ==
  ASSUME NEW S, NEW q \in Seq(S), NEW m \in S
  PROVE  /\ Len(q) \in Nat /\ Append(q, m) \in Seq(S) /\ Len(Append(q, m)) = Len(q) + 1
         /\ \A i \in 1..Len(q) : Append(q, m)[i] = q[i]
         /\ Append(q, m)[Len(q) + 1] = m
  OBVIOUS

LEMMA ConcatElements ==
  ASSUME NEW S, NEW p \in Seq(S), NEW q \in Seq(S)
  PROVE  /\ Len(p) \in Nat /\ Len(q) \in Nat
         /\ p \o q \in Seq(S) /\ Len(p \o q) = Len(p) + Len(q)
         /\ \A i \in 1..Len(p) : (p \o q)[i] = p[i]
         /\ \A i \in (Len(p) + 1)..(Len(p) + Len(q)) : (p \o q)[i] = q[i - Len(p)]
  OBVIOUS

LEMMA SubSeqElements ==
  ASSUME NEW S, NEW q \in Seq(S), NEW n \in 0..Len(q)
  PROVE  /\ SubSeq(q, 1, n) \in Seq(S) /\ Len(SubSeq(q, 1, n)) = n
         /\ \A i \in 1..n : SubSeq(q, 1, n)[i] = q[i]
  OBVIOUS

LEMMA SeqElements ==
  ASSUME NEW S, NEW q \in Seq(S)
  PROVE  Len(q) \in Nat /\ \A i \in 1..Len(q) : q[i] \in S
  OBVIOUS

LEMMA SeqOfMore ==
  ASSUME NEW S, NEW T, S \subseteq T, NEW q \in Seq(S)
  PROVE  q \in Seq(T)
  OBVIOUS

LEMMA RangesGrow ==
  ASSUME NEW n \in Nat
  PROVE  /\ Requests(n) \subseteq Requests(n + 1) /\ Frames(n) \subseteq Frames(n + 1)
         /\ 1..n \subseteq 1..(n + 1) /\ n + 1 \notin 1..n
  BY DEF Requests, Frames

(***************************************************************************)
(* The end and the beginning of a session.                                 *)
(***************************************************************************)

LEMMA NothingIsEmpty ==
  /\ Empty \in [DOMAIN Empty -> Rounds] /\ DOMAIN Empty = {} /\ {Empty[id] : id \in DOMAIN Empty} = {}
  /\ \A n : <<>> \in Seq(n) /\ Len(<<>>) = 0
  BY DEF Empty

LEMMA SessionIsOver ==
  ASSUME CloseClient, pc' \in {"discover", "done"}, status' \in [Rounds -> Statuses],
         connected' \in BOOLEAN, over' \in BOOLEAN, faults' \in 0..MaxFaults
  PROVE  SessionInv'
<1>1. Types'
  BY DEF Types, CloseClient, Points
<1>2. Maps'
  BY NothingIsEmpty DEF Maps, CloseClient
<1>3. Queues'
  BY NothingIsEmpty DEF Queues, CloseClient
<1>4. Stage'
  BY DEF Stage, CloseClient, Awaits, InSession
<1>5. RefsInv'
  BY NothingIsEmpty DEF RefsInv, Injective, Agreed, RequestsInOrder, FramesFit, CloseClient
<1>6. AwaitInv'
  BY NothingIsEmpty DEF AwaitInv, Asked, Subscribing, Unsubscribing, CloseClient
<1>7. StatusInv'
  BY NothingIsEmpty DEF StatusInv, Connecting, Leaving, Served, CloseClient, InSession
<1> QED
  BY <1>1, <1>2, <1>3, <1>4, <1>5, <1>6, <1>7 DEF SessionInv, ShapeInv

LEMMA DisconnectedTyped ==
  ASSUME Types
  PROVE  /\ \A st \in [Rounds -> Statuses] : DisconnectedStatuses(st) \in [Rounds -> Statuses]
         /\ RetiredStatuses \in [Rounds -> Statuses]
         /\ \A found, n : Persisted(found, n) \in [Rounds -> Statuses]
<1> USE RoundsAssumption DEF RoundsAssumption, Types, Statuses
<1>1. \A st \in [Rounds -> Statuses] : DisconnectedStatuses(st) \in [Rounds -> Statuses]
  BY DEF DisconnectedStatuses
<1>2. RetiredStatuses \in [Rounds -> Statuses]
  BY DEF RetiredStatuses, Unfound
<1>3. ASSUME NEW found, NEW n
      PROVE  Persisted(found, n) \in [Rounds -> Statuses]
  <2>1. PersistTargets(found) \in [Rounds -> Statuses]
    BY DEF PersistTargets, Unfound, Discovered
  <2> QED
    BY <2>1 DEF Persisted, Discovered
<1> QED
  BY <1>1, <1>2, <1>3

LEMMA FaultTyped ==
  ASSUME Types
  PROVE  /\ Fault => faults' \in 0..MaxFaults
         /\ UNCHANGED faults => faults' \in 0..MaxFaults
  BY FaultBoundAssumption DEF FaultBoundAssumption, Types, Fault

LEMMA AbortKeeps ==
  ASSUME SessionInv, NEW st \in [Rounds -> Statuses], Abort(st), UNCHANGED over, Fault \/ UNCHANGED faults
  PROVE  SessionInv'
  BY SessionIsOver, DisconnectedTyped, FaultTyped DEF SessionInv, ShapeInv, Abort, Types

\* Whatever a discovery had written when it failed or the process died.
LEMMA InterruptedKeeps ==
  ASSUME SessionInv, NEW found, NEW n, DiscoveryFails(found, n) \/ Crash(found, n)
  PROVE  SessionInv' /\ CloseClient /\ pc' # "await_subscribed"
<1>1. Persisted(found, n) \in [Rounds -> Statuses]
  BY DisconnectedTyped DEF SessionInv, ShapeInv
<1>2. CASE DiscoveryFails(found, n)
  <2>1. Abort(Persisted(found, n)) /\ Fault /\ UNCHANGED over
    BY <1>2 DEF DiscoveryFails
  <2> QED
    BY <1>1, <2>1, AbortKeeps DEF Abort
<1>3. CASE Crash(found, n)
  BY <1>1, <1>3, SessionIsOver, FaultTyped DEF SessionInv, ShapeInv, Crash, Types
<1> QED
  BY <1>2, <1>3

LEMMA RetireAllTargetsKeeps ==
  ASSUME SessionInv, RetireAllTargets
  PROVE  SessionInv'
  BY SessionIsOver, DisconnectedTyped, FaultTyped DEF SessionInv, ShapeInv, RetireAllTargets, Types

\* Only the stored status and the supervisor's plans change.
LEMMA PlansKeep ==
  ASSUME SessionInv, UNCHANGED <<clientVars, networkVars, asking, over>>, Types',
         ~Awaits, ~Awaits', InSession' <=> InSession,
         \A r \in Rounds : Marked(r)' => Marked(r),
         Connecting', 
         pc' \in {"unsubscribe", "await_unsubscribed"} =>
           \A r \in todo' : ~Marked(r)' /\ r \in SubscribedRoundIds,
         InSession /\ link = "open" => 
           \A r \in Rounds : Marked(r)' /\ ~Established(r) => ToBeAsked(r)'
  PROVE  SessionInv'
<1> USE DEF clientVars, networkVars
<1>1. Maps' /\ Queues' /\ Stage'
  BY DEF SessionInv, ShapeInv, Maps, Queues, Stage, Awaits, InSession
<1>2. RefsInv'
  BY DEF SessionInv, RefsInv, Injective, Agreed, RequestsInOrder, FramesFit
<1>3. /\ pending' = 0 /\ \A i \in 1..Len(requests) : requests[i].ref # 0
  BY <1>1, SeqElements DEF Stage, SessionInv, ShapeInv, Queues, Requests
<1>4. AwaitInv'
  BY <1>3 DEF SessionInv, AwaitInv, Asked, Subscribing, Unsubscribing, Awaits
<1>5. \A id \in DOMAIN mapped : mapped[id] \in Rounds
  BY DEF SessionInv, ShapeInv, Maps
<1>6. Leaving'
  BY <1>5 DEF SessionInv, StatusInv, Leaving, Awaits, SubscribedRoundIds
<1>7. Served'
  BY DEF SessionInv, StatusInv, Served, Established, InSession
<1> QED
  BY <1>1, <1>2, <1>4, <1>6, <1>7 DEF SessionInv, ShapeInv, StatusInv

LEMMA PersistedStatuses ==
  ASSUME Types, NEW found, status' = PersistTargets(found)
  PROVE  /\ status' \in [Rounds -> Statuses]
         /\ \A r \in Rounds : Marked(r)' => Marked(r) /\ r \in found
  BY RoundsAssumption DEF RoundsAssumption, Types, PersistTargets, Unfound, Discovered, Statuses, Marked

LEMMA DiscoverKeeps ==
  ASSUME SessionInv, NEW found, Discover(found)
  PROVE  SessionInv'
<1>1. Types
  BY DEF SessionInv, ShapeInv
<1>2. CASE found = {}
  <2>1. /\ status' = RetiredStatuses /\ pc' = "discover" /\ pc = "discover"
        /\ UNCHANGED <<targets, todo, asking, clientVars, networkVars, over>> /\ connected' = FALSE
    BY <1>2 DEF Discover
  <2>2. Types'
    BY <1>1, <2>1, DisconnectedTyped, FaultTyped DEF Types, Discover, Found, clientVars, networkVars
  <2>3. \A r \in Rounds : ~Marked(r)'
    BY <2>1, RoundsAssumption DEF Marked, RetiredStatuses, Unfound, RoundsAssumption
  <2> QED
    BY <2>1, <2>2, <2>3, PlansKeep DEF Awaits, InSession, Connecting
<1>3. CASE found # {}
  <2>1. /\ status' = PersistTargets(found) /\ pc' = "connect" /\ pc = "discover" /\ targets' = found
        /\ UNCHANGED <<todo, asking, clientVars, networkVars, over, connected>>
        /\ found \subseteq Rounds
    BY <1>3, RoundsAssumption DEF Discover, Found, RoundsAssumption
  <2>2. Types'
    BY <1>1, <2>1, PersistedStatuses, FaultTyped
    DEF Types, Discover, Found, clientVars, networkVars, Points
  <2>3. \A r \in Rounds : Marked(r)' => Marked(r) /\ r \in found
    BY <1>1, <2>1, PersistedStatuses
  <2> QED
    BY <2>1, <2>2, <2>3, PlansKeep DEF Awaits, InSession, Connecting
<1> QED
  BY <1>2, <1>3

LEMMA RediscoverKeeps ==
  ASSUME SessionInv, NEW found, Rediscover(found)
  PROVE  SessionInv'
<1>1. Types /\ Maps
  BY DEF SessionInv, ShapeInv
<1>2. /\ status' = PersistTargets(found) /\ pc' = "unsubscribe" /\ pc = "loop" /\ targets' = found
      /\ todo' = SubscribedRoundIds \ found
      /\ UNCHANGED <<asking, clientVars, networkVars, over, connected>>
      /\ found \subseteq Rounds
  BY RoundsAssumption DEF Rediscover, Found, RoundsAssumption
<1>3. SubscribedRoundIds \subseteq Rounds
  BY <1>1 DEF Maps, SubscribedRoundIds
<1>4. Types'
  BY <1>1, <1>2, <1>3, PersistedStatuses, FaultTyped
  DEF Types, Rediscover, Found, clientVars, networkVars, Points
<1>5. \A r \in Rounds : Marked(r)' => Marked(r) /\ r \in found
  BY <1>1, <1>2, PersistedStatuses
<1>6. \A r \in todo' : ~Marked(r)' /\ r \in SubscribedRoundIds
  BY <1>2, <1>3, <1>5
<1>7. InSession /\ link = "open" => \A r \in Rounds : Marked(r) => Established(r)
  BY <1>2 DEF SessionInv, StatusInv, Served, ToBeAsked
<1> QED
  BY <1>2, <1>4, <1>5, <1>6, <1>7, PlansKeep DEF Awaits, InSession, Connecting

LEMMA SubscribeRemainingKeeps ==
  ASSUME SessionInv, SubscribeRemaining
  PROVE  SessionInv'
<1>1. /\ pc = "unsubscribe" /\ pc' = "subscribe" /\ todo' = targets
      /\ UNCHANGED <<dbVars, targets, asking, clientVars, networkVars, over, faults>>
  BY DEF SubscribeRemaining
<1>2. Types'
  BY <1>1 DEF SessionInv, ShapeInv, Types, dbVars, clientVars, networkVars, Points
<1>3. \A r \in Rounds : Marked(r)' <=> Marked(r)
  BY <1>1 DEF Marked, dbVars
<1>4. InSession /\ link = "open" => \A r \in Rounds : Marked(r) => Established(r)
  BY <1>1 DEF SessionInv, StatusInv, Served, ToBeAsked
<1> QED
  BY <1>1, <1>2, <1>3, <1>4, PlansKeep DEF Awaits, InSession, Connecting

LEMMA EnterLoopKeeps ==
  ASSUME SessionInv, EnterLoop
  PROVE  SessionInv'
<1>1. /\ pc = "subscribe" /\ pc' = "loop" /\ todo' = {} /\ todo \subseteq SubscribedRoundIds
      /\ UNCHANGED <<dbVars, targets, asking, clientVars, networkVars, over, faults>>
  BY DEF EnterLoop
<1>2. Types'
  BY <1>1 DEF SessionInv, ShapeInv, Types, dbVars, clientVars, networkVars, Points
<1>3. \A r \in Rounds : Marked(r)' <=> Marked(r)
  BY <1>1 DEF Marked, dbVars
<1>4. InSession /\ link = "open" => \A r \in Rounds : Marked(r) => Established(r)
  BY <1>1 DEF SessionInv, StatusInv, Served, ToBeAsked
<1> QED
  BY <1>1, <1>2, <1>3, <1>4, PlansKeep DEF Awaits, InSession, Connecting

LEMMA ConnectKeeps ==
  ASSUME SessionInv, Connect
  PROVE  SessionInv'
<1>1. /\ pc = "connect" /\ link' = "open" /\ connected' = TRUE /\ pc' = "subscribe" /\ todo' = targets
      /\ UNCHANGED <<status, targets, asking, pending, reply, mapped, queue, refs, serving, requests, wire, over, faults>>
  BY DEF Connect, clientVars
<1>2. Types'
  BY <1>1 DEF SessionInv, ShapeInv, Types, Points
<1>3. link = "none" /\ mapped = Empty
  BY <1>1 DEF SessionInv, ShapeInv, Stage, InSession
<1>4. Maps' /\ Queues' /\ Stage'
  BY <1>1 DEF SessionInv, ShapeInv, Maps, Queues, Stage, Awaits, InSession
<1>5. RefsInv'
  BY <1>1 DEF SessionInv, RefsInv, Injective, Agreed, RequestsInOrder, FramesFit
<1>6. requests = <<>>
  BY <1>3 DEF SessionInv, ShapeInv, Stage
<1>7. AwaitInv' /\ Leaving' /\ Connecting'
  BY <1>1, <1>6, NothingIsEmpty DEF AwaitInv, Asked, Subscribing, Unsubscribing, Leaving, Connecting
<1>8. SubscribedRoundIds' = {}
  BY <1>1, <1>3, NothingIsEmpty DEF SubscribedRoundIds
<1>9. \A r \in Rounds : Marked(r)' => r \in targets
  BY <1>1 DEF SessionInv, StatusInv, Connecting, Marked
<1>10. Served'
  BY <1>1, <1>8, <1>9 DEF Served, ToBeAsked
<1> QED
  BY <1>2, <1>4, <1>5, <1>7, <1>10 DEF SessionInv, ShapeInv, StatusInv

(***************************************************************************)
(* Requests and replies.                                                   *)
(***************************************************************************)

LEMMA WireTyped ==
  ASSUME Types, Queues
  PROVE  /\ refs \in Nat /\ Len(wire) \in Nat /\ Len(requests) \in Nat /\ Len(queue) \in Nat
         /\ \A i \in 1..Len(wire) : wire[i] \in Frames(refs) /\ wire[i].ref \in 1..refs
         /\ \A i \in 1..Len(requests) :
              requests[i] \in Requests(refs) /\ requests[i].ref \in 1..refs /\ requests[i].id \in 1..refs
         /\ \A i \in 1..Len(queue) : queue[i] \in Messages
<1>1. /\ refs \in Nat /\ Len(wire) \in Nat /\ Len(requests) \in Nat /\ Len(queue) \in Nat
      /\ \A i \in 1..Len(wire) : wire[i] \in Frames(refs)
      /\ \A i \in 1..Len(requests) : requests[i] \in Requests(refs)
      /\ \A i \in 1..Len(queue) : queue[i] \in Messages
  BY SeqElements DEF Types, Queues
<1> QED
  BY <1>1 DEF Frames, Requests

LEMMA RequestSent ==
  ASSUME SessionInv, NEW r \in Rounds, NEW kind \in {"doc", "unsubscribe"}, NEW id,
         kind = "doc" => id = refs + 1, kind = "unsubscribe" => id \in DOMAIN mapped,
         SendRequest(r, kind, id), UNCHANGED <<mapped, serving, queue, wire>>
  PROVE  /\ refs' = refs + 1 /\ pending' = refs' /\ reply' = "none" /\ asking' = r
         /\ Maps' /\ Queues' /\ RefsInv'
         /\ Len(requests') = Len(requests) + 1
         /\ \A i \in 1..Len(requests) : requests'[i] = requests[i] /\ requests[i].ref # pending'
         /\ requests'[Len(requests) + 1] = [ref |-> refs + 1, kind |-> kind, round |-> r, id |-> id]
         /\ \A i \in 1..Len(wire) : wire[i].ref # pending'
<1>1. /\ refs' = refs + 1 /\ pending' = refs' /\ reply' = "none" /\ asking' = r
      /\ requests' = Append(requests, [ref |-> refs + 1, kind |-> kind, round |-> r, id |-> id])
  BY DEF SendRequest
<1>2. Types /\ Queues /\ Maps
  BY DEF SessionInv, ShapeInv
<1>3. PICK q : q = [ref |-> refs + 1, kind |-> kind, round |-> r, id |-> id]
  OBVIOUS
<1>4. id \in 1..(refs + 1) /\ (kind = "unsubscribe" => id \in 1..refs) /\ refs \in Nat
  BY <1>2 DEF Types, Maps
<1>5. q \in Requests(refs + 1)
  BY <1>3, <1>4 DEF Requests
<1>6. requests \in Seq(Requests(refs + 1)) /\ wire \in Seq(Frames(refs + 1)) /\ queue \in Seq(Messages)
  BY <1>2, <1>4, RangesGrow, SeqOfMore DEF Queues
<1>7. /\ requests' \in Seq(Requests(refs + 1)) /\ Len(requests') = Len(requests) + 1
      /\ \A i \in 1..Len(requests) : requests'[i] = requests[i]
      /\ requests'[Len(requests) + 1] = q
  BY <1>1, <1>3, <1>5, <1>6, AppendElements
<1>8. Queues'
  BY <1>1, <1>6, <1>7 DEF Queues
<1>9. Maps'
  BY <1>1, <1>2, <1>4 DEF Maps
<1>10. /\ \A i \in 1..Len(requests) : requests[i].ref \in 1..refs
       /\ \A i \in 1..Len(wire) : wire[i].ref \in 1..refs
       /\ Len(requests) \in Nat
  BY <1>2, WireTyped
<1>11. Injective' /\ Agreed' /\ FramesFit'
  BY DEF SessionInv, RefsInv, Injective, Agreed, FramesFit
<1>12. \A i \in 1..(Len(requests) + 1) : i \in 1..Len(requests) \/ i = Len(requests) + 1
  BY <1>10
<1>13. RequestsInOrder'
  <2>1. q.kind = "doc" => q.id \notin DOMAIN mapped
    BY <1>2, <1>3, <1>4 DEF Maps
  <2>2. \A i \in 1..Len(requests') : requests'[i].kind = "doc" => requests'[i].id \notin DOMAIN mapped
    BY <2>1, <1>7, <1>12 DEF SessionInv, RefsInv, RequestsInOrder
  <2>3. \A i \in 1..Len(requests) : requests[i].ref < q.ref
    BY <1>3, <1>4, <1>10
  <2>4. \A i, j \in 1..Len(requests) : i < j => requests[i].ref < requests[j].ref
    BY DEF SessionInv, RefsInv, RequestsInOrder
  <2>5. ASSUME NEW i \in 1..Len(requests'), NEW j \in 1..Len(requests'), i < j
        PROVE  requests'[i].ref < requests'[j].ref
    <3>1. i \in 1..Len(requests)
      BY <2>5, <1>7, <1>10
    <3>2. CASE j \in 1..Len(requests)
      BY <3>1, <3>2, <2>4, <2>5, <1>7
    <3>3. CASE j = Len(requests) + 1
      BY <3>1, <3>3, <2>3, <1>7
    <3> QED
      BY <3>2, <3>3, <1>7, <1>12
  <2> QED
    BY <2>2, <2>5 DEF RequestsInOrder
<1>14. /\ \A i \in 1..Len(requests) : requests[i].ref # pending'
       /\ \A i \in 1..Len(wire) : wire[i].ref # pending'
  BY <1>1, <1>4, <1>10
<1> QED
  BY <1>1, <1>3, <1>7, <1>8, <1>9, <1>11, <1>13, <1>14 DEF RefsInv

LEMMA AskToSubscribeKeeps ==
  ASSUME SessionInv, NEW r \in SubscribableRounds, AskToSubscribe(r)
  PROVE  SessionInv'
<1>1. /\ pc = "subscribe" /\ r \in todo /\ r \notin SubscribedRoundIds /\ todo' = todo \ {r} /\ r \in Rounds
      /\ UNCHANGED <<connected, targets, mapped, queue, link, serving, wire, over, faults>>
  BY RoundsAssumption DEF AskToSubscribe, RoundsAssumption
<1>2. Types /\ Maps /\ Queues /\ Stage
  BY DEF SessionInv, ShapeInv
<1>3. CASE link = "open"
  <2>1. SendRequest(r, "doc", refs + 1) /\ pc' = "await_subscribed" /\ UNCHANGED status
    BY <1>3 DEF AskToSubscribe
  <2>2. /\ refs' = refs + 1 /\ pending' = refs' /\ reply' = "none" /\ asking' = r
        /\ Maps' /\ Queues' /\ RefsInv'
        /\ Len(requests') = Len(requests) + 1
        /\ \A i \in 1..Len(requests) : requests'[i] = requests[i] /\ requests[i].ref # pending'
        /\ requests'[Len(requests) + 1] = [ref |-> refs + 1, kind |-> "doc", round |-> r, id |-> refs + 1]
        /\ \A i \in 1..Len(wire) : wire[i].ref # pending'
    BY <1>1, <2>1, RequestSent
  <2>3. Types'
    BY <1>1, <1>2, <2>1, <2>2 DEF Types, Points
  <2>4. Stage'
    BY <1>1, <1>2, <1>3, <2>1, <2>2 DEF Stage, Awaits, InSession, Types
  <2>5. Len(requests) \in Nat /\ \A i \in 1..Len(requests') : i \in 1..Len(requests) \/ i = Len(requests) + 1
    BY <1>2, <2>2, WireTyped
  <2>6. \A j \in 1..Len(wire') : ~IsReply(wire'[j], pending') /\ ~IsData(wire'[j], pending')
    BY <1>1, <2>2 DEF IsReply, IsData
  <2>7. Asked'
    BY <2>1, <2>2, <2>5, <2>6 DEF Asked
  <2>8. pending' \notin DOMAIN mapped /\ pending' \notin DOMAIN serving
    BY <1>2, <2>2 DEF Maps, Types
  <2>9. Subscribing'
    BY <1>1, <2>2, <2>6, <2>8 DEF Subscribing, SubscribedRoundIds
  <2>10. Unsubscribing' /\ Connecting'
    BY <2>1 DEF Unsubscribing, Connecting
  <2>11. Leaving'
    BY <1>1, <2>1, <2>2, <2>5 DEF SessionInv, StatusInv, Leaving, Marked
  <2>12. Served'
    BY <1>1, <2>1, <2>2 DEF SessionInv, StatusInv, Served, Established, ToBeAsked, Marked, InSession, SubscribedRoundIds
  <2> QED
    BY <2>2, <2>3, <2>4, <2>7, <2>9, <2>10, <2>11, <2>12 DEF SessionInv, ShapeInv, AwaitInv, StatusInv
<1>4. CASE link # "open"
  <2>1. /\ status' = [status EXCEPT ![r] = "error"]
        /\ UNCHANGED <<pc, asking, pending, reply, refs, requests>>
    BY <1>4 DEF AskToSubscribe
  <2>2. Types' /\ \A q \in Rounds : Marked(q)' => Marked(q)
    BY <1>1, <1>2, <2>1 DEF Types, Marked, Statuses
  <2> QED
    BY <1>1, <1>4, <2>1, <2>2, PlansKeep DEF Awaits, InSession, Connecting, clientVars, networkVars
<1> QED
  BY <1>3, <1>4

LEMMA AskToUnsubscribeKeeps ==
  ASSUME SessionInv, NEW r \in SubscribableRounds, AskToUnsubscribe(r)
  PROVE  SessionInv'
<1>1. /\ pc = "unsubscribe" /\ r \in todo /\ todo' = todo \ {r} /\ r \in Rounds
      /\ UNCHANGED <<status, connected, targets, mapped, queue, link, serving, wire, over, faults>>
  BY RoundsAssumption DEF AskToUnsubscribe, RoundsAssumption, dbVars
<1>2. Types /\ Maps /\ Queues /\ Stage
  BY DEF SessionInv, ShapeInv
<1>3. \A q \in todo : ~Marked(q) /\ q \in SubscribedRoundIds
  BY <1>1 DEF SessionInv, StatusInv, Leaving
<1>4. InSession /\ link = "open" => \A q \in Rounds : Marked(q) => Established(q)
  BY <1>1 DEF SessionInv, StatusInv, Served, ToBeAsked
<1>5. CASE link = "open"
  <2>1. PICK id \in DOMAIN mapped : mapped[id] = r /\ SendRequest(r, "unsubscribe", id)
    <3>1. \E id \in DOMAIN mapped : mapped[id] = r
      BY <1>1, <1>3 DEF SubscribedRoundIds
    <3> QED
      BY <1>5, <3>1 DEF AskToUnsubscribe
  <2>2. pc' = "await_unsubscribed"
    BY <1>5 DEF AskToUnsubscribe
  <2>3. /\ refs' = refs + 1 /\ pending' = refs' /\ reply' = "none" /\ asking' = r
        /\ Maps' /\ Queues' /\ RefsInv'
        /\ Len(requests') = Len(requests) + 1
        /\ \A i \in 1..Len(requests) : requests'[i] = requests[i] /\ requests[i].ref # pending'
        /\ requests'[Len(requests) + 1] = [ref |-> refs + 1, kind |-> "unsubscribe", round |-> r, id |-> id]
        /\ \A i \in 1..Len(wire) : wire[i].ref # pending'
    BY <1>1, <2>1, RequestSent
  <2>4. Types'
    BY <1>1, <1>2, <2>2, <2>3 DEF Types, Points
  <2>5. Stage'
    BY <1>1, <1>2, <1>5, <2>2, <2>3 DEF Stage, Awaits, InSession, Types
  <2>6. Len(requests) \in Nat /\ \A i \in 1..Len(requests') : i \in 1..Len(requests) \/ i = Len(requests) + 1
    BY <1>2, <2>3, WireTyped
  <2>7. \A j \in 1..Len(wire') : ~IsReply(wire'[j], pending')
    BY <1>1, <2>3 DEF IsReply
  <2>8. Asked'
    BY <1>1, <2>1, <2>2, <2>3, <2>6, <2>7 DEF Asked
  <2>9. Subscribing' /\ Connecting'
    BY <2>2 DEF Subscribing, Connecting
  <2>10. Unsubscribing'
    BY <1>1, <2>1, <2>3, <2>7 DEF Unsubscribing
  <2>11. Leaving'
    <3>1. /\ ~Marked(r)' /\ \A q \in todo' : ~Marked(q)' /\ q \in SubscribedRoundIds' /\ q # asking'
      BY <1>1, <1>3, <2>3 DEF Marked, SubscribedRoundIds
    <3>2. \A i \in 1..Len(requests) : \A d \in DOMAIN mapped :
            requests[i].kind = "unsubscribe" /\ requests[i].id = d => ~Marked(mapped[d])
      BY DEF SessionInv, StatusInv, Leaving
    <3>3. \A i \in 1..Len(requests') : \A d \in DOMAIN mapped :
            requests'[i].kind = "unsubscribe" /\ requests'[i].id = d => ~Marked(mapped[d])
      BY <3>2, <1>1, <1>3, <2>1, <2>3, <2>6
    <3> QED
      BY <3>1, <3>3, <1>1, <2>3 DEF Leaving, Marked
  <2>12. Served'
    BY <1>1, <1>4, <2>2, <2>3 DEF Served, Established, Marked, InSession
  <2> QED
    BY <2>3, <2>4, <2>5, <2>8, <2>9, <2>10, <2>11, <2>12 DEF SessionInv, ShapeInv, AwaitInv, StatusInv
<1>6. CASE link # "open"
  <2>1. UNCHANGED <<pc, asking, pending, reply, refs, requests>>
    BY <1>6 DEF AskToUnsubscribe
  <2>2. Types' /\ \A q \in Rounds : Marked(q)' => Marked(q)
    BY <1>1, <1>2, <2>1 DEF Types, Marked
  <2> QED
    BY <1>1, <1>3, <1>6, <2>1, <2>2, PlansKeep DEF Awaits, InSession, Connecting, clientVars, networkVars, Marked
<1> QED
  BY <1>5, <1>6

LEMMA NobodyAwaited ==
  ASSUME SessionInv, pending' = 0, UNCHANGED requests, ~Awaits'
  PROVE  AwaitInv'
<1>1. \A i \in 1..Len(requests) : requests[i].ref # 0
  BY WireTyped DEF SessionInv, ShapeInv
<1> QED
  BY <1>1 DEF AwaitInv, Asked, Subscribing, Unsubscribing, Awaits

LEMMA ResumeKeeps ==
  ASSUME SessionInv, NEW st \in {"subscribed", "error"}, Resume(st), Fault \/ UNCHANGED faults
  PROVE  SessionInv'
<1>1. /\ pc = "await_subscribed" /\ reply = "ok" /\ mapped' = With(mapped, pending, asking)
      /\ status' = [status EXCEPT ![asking] = st]
      /\ pc' = "subscribe" /\ asking' = NoRound /\ pending' = 0 /\ reply' = "none"
      /\ UNCHANGED <<connected, targets, todo, queue, refs, link, serving, requests, wire, over>>
  BY DEF Resume, networkVars
<1>2. Types /\ Maps /\ Queues /\ Stage /\ Subscribing /\ Asked
  BY DEF SessionInv, ShapeInv, AwaitInv
<1>3. asking \in Rounds /\ pending \in 1..refs /\ pending = refs
  BY <1>1, <1>2 DEF Stage, Awaits, Types
<1>4. /\ asking \notin SubscribedRoundIds /\ pending \notin DOMAIN mapped
      /\ pending \in DOMAIN serving => serving[pending] = asking
      /\ \A i \in 1..Len(wire) : IsData(wire[i], pending) => wire[i].data \in Of(asking)
      /\ link = "open" => pending \in DOMAIN serving
  BY <1>1, <1>2 DEF Subscribing
<1>5. /\ DOMAIN mapped' = DOMAIN mapped \cup {pending} /\ mapped'[pending] = asking
      /\ \A id \in DOMAIN mapped : mapped'[id] = mapped[id]
      /\ mapped' \in [DOMAIN mapped' -> Rounds]
  BY <1>1, <1>2, <1>3, <1>4 DEF With, Maps
<1>6. Types'
  BY <1>1, <1>2, <1>3, FaultTyped DEF Types, Points, Statuses
<1>7. Maps' /\ Queues'
  BY <1>1, <1>2, <1>3, <1>5 DEF Maps, Queues
<1>8. Stage'
  BY <1>1, <1>2 DEF Stage, Awaits, InSession
<1>9. Injective' /\ Agreed'
  BY <1>1, <1>4, <1>5 DEF SessionInv, RefsInv, Injective, Agreed, SubscribedRoundIds
<1>10. \A i \in 1..Len(requests) : requests[i].ref # pending
  BY <1>1, <1>2 DEF Asked
<1>11. \A i \in 1..Len(requests) : requests[i].kind = "doc" => requests[i].id # pending
  BY <1>2, <1>10, WireTyped DEF Requests
<1>12. RequestsInOrder'
  BY <1>1, <1>5, <1>11 DEF SessionInv, RefsInv, RequestsInOrder
<1>13. FramesFit'
  BY <1>1, <1>4, <1>5 DEF SessionInv, RefsInv, FramesFit, IsData
<1>14. AwaitInv'
  BY <1>1, NobodyAwaited DEF Awaits
<1>15. \A i \in 1..Len(requests) : requests[i].kind = "unsubscribe" => requests[i].id # pending
  <2>1. \A i \in 1..Len(requests) :
          /\ requests[i] \in Requests(refs) /\ requests[i].ref \in 1..refs /\ requests[i].id \in 1..refs
    BY <1>2, WireTyped
  <2>2. \A i \in 1..Len(requests) : requests[i].kind = "unsubscribe" => requests[i].id < requests[i].ref
    BY <2>1 DEF Requests
  <2> QED
    BY <2>1, <2>2, <1>3
<1>16. \A q \in Rounds \ {asking} : Marked(q)' <=> Marked(q)
  BY <1>1, <1>2 DEF Marked, Types
<1>17. \A id \in DOMAIN mapped : mapped[id] # asking /\ mapped[id] \in Rounds
  BY <1>2, <1>4 DEF SubscribedRoundIds, Maps
<1>18. Leaving'
  <2>1. \A i \in 1..Len(requests) : \A id \in DOMAIN mapped :
          requests[i].kind = "unsubscribe" /\ requests[i].id = id => ~Marked(mapped[id])
    BY DEF SessionInv, StatusInv, Leaving
  <2>2. \A i \in 1..Len(requests) : \A id \in DOMAIN mapped' :
          requests[i].kind = "unsubscribe" /\ requests[i].id = id => id \in DOMAIN mapped
    BY <1>5, <1>15
  <2>3. \A i \in 1..Len(requests) : \A id \in DOMAIN mapped' :
          requests[i].kind = "unsubscribe" /\ requests[i].id = id => status'[mapped'[id]] # "subscribed"
    BY <2>1, <2>2, <1>5, <1>16, <1>17 DEF Marked
  <2> QED
    BY <1>1, <2>3 DEF Leaving, Marked
<1>19. SubscribedRoundIds' = SubscribedRoundIds \cup {asking}
  BY <1>5 DEF SubscribedRoundIds
<1>20. Served'
  <2>1. SUFFICES ASSUME link = "open", NEW q \in Rounds, Marked(q)'
                 PROVE  Established(q)' \/ ToBeAsked(q)'
    BY <1>1 DEF Served
  <2>2. CASE q = asking
    BY <2>1, <2>2, <1>1, <1>4, <1>5 DEF Established
  <2>3. CASE q # asking
    <3>1. Established(q) \/ ToBeAsked(q)
      BY <2>1, <2>3, <1>1, <1>16 DEF SessionInv, StatusInv, Served, InSession
    <3>2. Established(q) => Established(q)'
      BY <1>1, <1>5 DEF Established
    <3>3. ToBeAsked(q) => ToBeAsked(q)'
      BY <2>3, <1>1, <1>19 DEF ToBeAsked
    <3> QED
      BY <3>1, <3>2, <3>3
  <2> QED
    BY <2>2, <2>3
<1>21. Connecting'
  BY <1>1 DEF Connecting
<1> QED
  BY <1>6, <1>7, <1>8, <1>9, <1>12, <1>13, <1>14, <1>18, <1>20, <1>21 DEF SessionInv, ShapeInv, RefsInv, StatusInv

LEMMA GiveUpSubscribingKeeps ==
  ASSUME SessionInv, pc = "await_subscribed", GiveUpSubscribing, Fault \/ UNCHANGED faults
  PROVE  SessionInv'
<1>1. /\ status' = [status EXCEPT ![asking] = "error"]
      /\ pc' = "subscribe" /\ asking' = NoRound /\ pending' = 0 /\ reply' = "none"
      /\ UNCHANGED <<connected, targets, todo, mapped, queue, refs, link, serving, requests, wire, over>>
  BY DEF GiveUpSubscribing, networkVars
<1>2. Types /\ Maps /\ Queues /\ Stage
  BY DEF SessionInv, ShapeInv
<1>3. asking \in Rounds
  BY <1>2 DEF Stage, Awaits
<1>4. Types'
  BY <1>1, <1>2, <1>3, FaultTyped DEF Types, Points, Statuses
<1>5. Maps' /\ Queues' /\ Stage'
  BY <1>1, <1>2 DEF Maps, Queues, Stage, Awaits, InSession
<1>6. RefsInv'
  BY <1>1 DEF SessionInv, RefsInv, Injective, Agreed, RequestsInOrder, FramesFit
<1>7. AwaitInv'
  BY <1>1, NobodyAwaited DEF Awaits
<1>8. \A q \in Rounds : Marked(q)' <=> Marked(q) /\ q # asking
  BY <1>1, <1>2 DEF Marked, Types
<1>9. \A id \in DOMAIN mapped : mapped[id] \in Rounds
  BY <1>2 DEF Maps
<1>10. Leaving'
  BY <1>1, <1>8, <1>9 DEF SessionInv, StatusInv, Leaving
<1>11. Connecting' /\ Served'
  BY <1>1, <1>8 DEF SessionInv, StatusInv, Served, Connecting, Established, ToBeAsked, InSession, SubscribedRoundIds
<1> QED
  BY <1>4, <1>5, <1>6, <1>7, <1>10, <1>11 DEF SessionInv, ShapeInv, StatusInv

LEMMA UnsubscribedKeeps ==
  ASSUME SessionInv, Unsubscribed
  PROVE  SessionInv'
<1>1. /\ pc = "await_unsubscribed" /\ reply = "ok"
      /\ mapped' = Without(mapped, {id \in DOMAIN mapped : mapped[id] = asking})
      /\ status' = [status EXCEPT ![asking] = "retired"]
      /\ pc' = "unsubscribe" /\ asking' = NoRound /\ pending' = 0 /\ reply' = "none"
      /\ UNCHANGED <<connected, targets, todo, queue, refs, link, serving, requests, wire, over, faults>>
  BY DEF Unsubscribed, networkVars
<1>2. Types /\ Maps /\ Queues /\ Stage
  BY DEF SessionInv, ShapeInv
<1>3. asking \in Rounds
  BY <1>1, <1>2 DEF Stage, Awaits
<1>4. /\ DOMAIN mapped' = {id \in DOMAIN mapped : mapped[id] # asking}
      /\ \A id \in DOMAIN mapped' : mapped'[id] = mapped[id]
      /\ mapped' \in [DOMAIN mapped' -> Rounds]
  BY <1>1, <1>2 DEF Without, Maps
<1>5. Types'
  BY <1>1, <1>2, <1>3 DEF Types, Points, Statuses
<1>6. Maps' /\ Queues' /\ Stage'
  BY <1>1, <1>2, <1>4 DEF Maps, Queues, Stage, Awaits, InSession
<1>7. RefsInv'
  <2>1. Injective /\ Agreed /\ RequestsInOrder /\ FramesFit
    BY DEF SessionInv, RefsInv
  <2>2. Injective' /\ Agreed'
    BY <1>1, <1>4, <2>1 DEF Injective, Agreed
  <2>3. RequestsInOrder'
    BY <1>1, <1>4, <2>1 DEF RequestsInOrder
  <2>4. FramesFit'
    BY <1>1, <1>4, <2>1 DEF FramesFit
  <2> QED
    BY <2>2, <2>3, <2>4 DEF RefsInv
<1>8. AwaitInv'
  BY <1>1, NobodyAwaited DEF Awaits
<1>9. \A q \in Rounds : Marked(q)' <=> Marked(q) /\ q # asking
  BY <1>1, <1>2 DEF Marked, Types
<1>10. ~Marked(asking)
  BY <1>1 DEF SessionInv, StatusInv, Leaving
<1>11. SubscribedRoundIds' = SubscribedRoundIds \ {asking}
  BY <1>4 DEF SubscribedRoundIds
<1>12. \A id \in DOMAIN mapped : mapped[id] \in Rounds
  BY <1>2 DEF Maps
<1>13. Leaving'
  <2>1. /\ \A r \in todo : ~Marked(r) /\ r \in SubscribedRoundIds /\ r # asking
        /\ \A i \in 1..Len(requests) : \A id \in DOMAIN mapped :
             requests[i].kind = "unsubscribe" /\ requests[i].id = id => ~Marked(mapped[id])
    BY <1>1 DEF SessionInv, StatusInv, Leaving
  <2>2. \A r \in todo : r \in Rounds
    BY <1>2 DEF Types
  <2>3. \A i \in 1..Len(requests) : \A id \in DOMAIN mapped' :
          requests[i].kind = "unsubscribe" /\ requests[i].id = id => status'[mapped'[id]] # "subscribed"
    BY <2>1, <1>4, <1>9, <1>12 DEF Marked
  <2>4. \A r \in todo' : ~Marked(r)' /\ r \in SubscribedRoundIds'
    BY <2>1, <2>2, <1>1, <1>9, <1>11
  <2> QED
    BY <1>1, <2>3, <2>4 DEF Leaving, Marked
<1>14. Connecting' /\ Served'
  <2>1. \A q \in Rounds : Established(q) /\ q # asking => Established(q)'
    BY <1>1, <1>4 DEF Established
  <2>2. InSession /\ link = "open" => \A q \in Rounds : Marked(q) => Established(q)
    BY <1>1 DEF SessionInv, StatusInv, Served, ToBeAsked
  <2> QED
    BY <2>1, <2>2, <1>1, <1>9 DEF Connecting, Served, InSession
<1> QED
  BY <1>5, <1>6, <1>7, <1>8, <1>13, <1>14 DEF SessionInv, ShapeInv, StatusInv

LEMMA GiveUpUnsubscribingKeeps ==
  ASSUME SessionInv, pc = "await_unsubscribed", GiveUpUnsubscribing, Fault \/ UNCHANGED faults
  PROVE  SessionInv'
<1>1. /\ pc' = "unsubscribe" /\ asking' = NoRound /\ pending' = 0 /\ reply' = "none"
      /\ UNCHANGED <<status, connected, targets, todo, mapped, queue, refs, link, serving, requests, wire, over>>
  BY DEF GiveUpUnsubscribing, dbVars, networkVars
<1>2. Types /\ Maps /\ Queues /\ Stage
  BY DEF SessionInv, ShapeInv
<1>3. Types'
  BY <1>1, <1>2, FaultTyped DEF Types, Points, Statuses
<1>4. Maps' /\ Queues' /\ Stage'
  BY <1>1, <1>2 DEF Maps, Queues, Stage, Awaits, InSession
<1>5. RefsInv'
  BY <1>1 DEF SessionInv, RefsInv, Injective, Agreed, RequestsInOrder, FramesFit
<1>6. AwaitInv'
  BY <1>1, NobodyAwaited DEF Awaits
<1>7. Leaving' /\ Connecting'
  BY <1>1 DEF SessionInv, StatusInv, Leaving, Connecting, Marked, SubscribedRoundIds
<1>8. Served'
  BY <1>1 DEF SessionInv, StatusInv, Served, Marked, Established, ToBeAsked, InSession
<1> QED
  BY <1>3, <1>4, <1>5, <1>6, <1>7, <1>8 DEF SessionInv, ShapeInv, StatusInv

(***************************************************************************)
(* Frames and messages.                                                    *)
(***************************************************************************)

LEMMA StatusStays ==
  ASSUME SessionInv, UNCHANGED <<status, pc, targets, todo, asking, mapped, requests>>,
         link' = "open" => link = "open" /\ UNCHANGED serving
  PROVE  StatusInv'
<1>1. Connecting' /\ Leaving'
  BY DEF SessionInv, StatusInv, Leaving, Connecting, Marked, SubscribedRoundIds
<1>2. \A r \in Rounds : (Marked(r)' <=> Marked(r)) /\ (ToBeAsked(r)' <=> ToBeAsked(r))
  BY DEF Marked, ToBeAsked, SubscribedRoundIds
<1>3. link' = "open" => \A r \in Rounds : Established(r)' <=> Established(r)
  BY DEF Established
<1>4. Served'
  BY <1>2, <1>3 DEF SessionInv, StatusInv, Served, InSession
<1> QED
  BY <1>1, <1>4 DEF StatusInv

LEMMA TakeMessageKeeps ==
  ASSUME SessionInv, TakeMessage, Fault \/ UNCHANGED faults
  PROVE  SessionInv'
<1>1. /\ pc = "loop" /\ queue # <<>> /\ queue' = Tail(queue)
      /\ UNCHANGED <<status, connected, pc, targets, todo, asking, pending, reply, mapped, refs, link,
                     serving, requests, wire, over>>
  BY DEF TakeMessage, dbVars, supervisorVars, networkVars
<1>2. Types /\ Maps /\ Queues /\ Stage
  BY DEF SessionInv, ShapeInv
<1>3. Types'
  BY <1>1, <1>2, FaultTyped DEF Types
<1>4. queue' \in Seq(Messages)
  BY <1>1, <1>2, TailElements DEF Queues
<1>5. Maps' /\ Queues' /\ Stage'
  BY <1>1, <1>2, <1>4 DEF Maps, Queues, Stage, Awaits, InSession
<1>6. RefsInv'
  BY <1>1 DEF SessionInv, RefsInv, Injective, Agreed, RequestsInOrder, FramesFit
<1>7. AwaitInv'
  BY <1>1 DEF SessionInv, AwaitInv, Asked, Subscribing, Unsubscribing
<1>8. StatusInv'
  BY <1>1, StatusStays
<1> QED
  BY <1>3, <1>5, <1>6, <1>7, <1>8 DEF SessionInv, ShapeInv

\* What a frame becomes is a message.
LEMMA DataIsMessage ==
  ASSUME SessionInv, NEW i \in 1..Len(wire), wire[i].kind = "data", wire[i].ref \in DOMAIN mapped
  PROVE  [round |-> mapped[wire[i].ref], data |-> wire[i].data] \in Messages
<1>1. wire[i] \in Frames(refs) /\ mapped[wire[i].ref] \in Rounds
  BY WireTyped DEF SessionInv, ShapeInv, Maps
<1>2. wire[i].data \in Of(mapped[wire[i].ref])
  BY DEF SessionInv, RefsInv, FramesFit
<1>3. wire[i].data \in Snapshots
  BY <1>2 DEF Of
<1> QED
  BY <1>1, <1>2, <1>3 DEF Messages

LEMMA ReadFrameParts ==
  ASSUME SessionInv, ReadFrame
  PROVE  /\ Len(wire) \in Nat \ {0} /\ Len(wire') = Len(wire) - 1
         /\ \A i \in 1..Len(wire') : wire'[i] = wire[i + 1] /\ i + 1 \in 1..Len(wire)
         /\ wire' \in Seq(Frames(refs)) /\ 1 \in 1..Len(wire)
         /\ queue' = IF wire[1].kind = "data" /\ wire[1].ref \in DOMAIN mapped
                     THEN Append(queue, [round |-> mapped[wire[1].ref], data |-> wire[1].data]) ELSE queue
         /\ queue' \in Seq(Messages)
         /\ reply' = IF IsReply(wire[1], pending) /\ reply = "none" THEN wire[1].data ELSE reply
         /\ InSession
<1>1. Types /\ Maps /\ Queues /\ Stage
  BY DEF SessionInv, ShapeInv
<1>2. wire # <<>> /\ wire' = Tail(wire) /\ link \in {"open", "broken"} /\ wire \in Seq(Frames(refs))
  BY <1>1 DEF ReadFrame, Queues
<1>3. /\ Len(wire) \in Nat \ {0} /\ Len(wire') = Len(wire) - 1 /\ Head(wire) = wire[1]
      /\ wire' \in Seq(Frames(refs)) /\ \A i \in 1..(Len(wire) - 1) : wire'[i] = wire[i + 1]
  BY <1>2, TailElements
<1>4. 1 \in 1..Len(wire) /\ \A i \in 1..Len(wire') : i + 1 \in 1..Len(wire)
  BY <1>3
<1>5. wire[1].kind \in {"reply", "data"}
  BY <1>1, <1>4, WireTyped DEF Frames
<1>6. queue' = IF wire[1].kind = "data" /\ wire[1].ref \in DOMAIN mapped
               THEN Append(queue, [round |-> mapped[wire[1].ref], data |-> wire[1].data]) ELSE queue
  BY <1>3, <1>5 DEF ReadFrame
<1>7. queue' \in Seq(Messages)
  BY <1>1, <1>4, <1>6, DataIsMessage, AppendElements DEF Queues
<1>8. reply' = IF IsReply(wire[1], pending) /\ reply = "none" THEN wire[1].data ELSE reply
  BY <1>3, <1>5 DEF ReadFrame, Resolve, IsReply
<1>9. InSession
  BY <1>1, <1>2 DEF Stage
<1> QED
  BY <1>3, <1>4, <1>6, <1>7, <1>8, <1>9

LEMMA ReadFrameKeeps ==
  ASSUME SessionInv, ReadFrame
  PROVE  SessionInv'
<1>1. UNCHANGED <<status, connected, pc, targets, todo, asking, pending, mapped, refs, link,
                  serving, requests, over, faults>>
  BY DEF ReadFrame, dbVars, supervisorVars
<1>2. Types /\ Maps /\ Queues /\ Stage
  BY DEF SessionInv, ShapeInv
<1>3. /\ Len(wire) \in Nat \ {0} /\ Len(wire') = Len(wire) - 1
      /\ \A i \in 1..Len(wire') : wire'[i] = wire[i + 1] /\ i + 1 \in 1..Len(wire)
      /\ wire' \in Seq(Frames(refs)) /\ 1 \in 1..Len(wire)
      /\ queue' \in Seq(Messages)
      /\ reply' = IF IsReply(wire[1], pending) /\ reply = "none" THEN wire[1].data ELSE reply
      /\ InSession
  BY ReadFrameParts
<1>4. IsReply(wire[1], pending) => wire[1].data \in {"ok", "refused"}
  BY <1>2, <1>3, WireTyped DEF Frames, IsReply
<1>5. Types'
  BY <1>1, <1>2, <1>3, <1>4 DEF Types
<1>6. Maps' /\ Queues' /\ Stage'
  BY <1>1, <1>2, <1>3 DEF Maps, Queues, Stage, Awaits, InSession
<1>7. FramesFit'
  BY <1>1, <1>3 DEF SessionInv, RefsInv, FramesFit
<1>8. RefsInv'
  BY <1>1, <1>7 DEF SessionInv, RefsInv, Injective, Agreed, RequestsInOrder
<1>9. Asked'
  BY <1>1, <1>3 DEF SessionInv, AwaitInv, Asked
<1>10. Subscribing'
  BY <1>1, <1>3 DEF SessionInv, AwaitInv, Subscribing, SubscribedRoundIds
<1>11. Unsubscribing'
  <2>1. SUFFICES ASSUME pc = "await_unsubscribed"
                 PROVE  Unsubscribing'
    BY <1>1 DEF Unsubscribing
  <2>2. PICK id \in DOMAIN mapped :
          /\ mapped[id] = asking
          /\ reply = "ok" => id \notin DOMAIN serving /\ \A i \in 1..Len(wire) : ~IsData(wire[i], id)
          /\ \A i \in 1..Len(wire) : IsReply(wire[i], pending) /\ wire[i].data = "ok" =>
               id \notin DOMAIN serving /\ \A j \in 1..Len(wire) : i < j => ~IsData(wire[j], id)
    BY <2>1 DEF SessionInv, AwaitInv, Unsubscribing
  <2>3. \A i \in 1..Len(wire') : 1 < i + 1
    BY <1>3
  <2>4. reply' = "ok" => id \notin DOMAIN serving /\ \A i \in 1..Len(wire') : ~IsData(wire'[i], id)
    BY <2>2, <2>3, <1>3
  <2>5. \A i, j \in 1..Len(wire') : i < j => i + 1 < j + 1
    BY <1>3
  <2>6. \A i \in 1..Len(wire') : IsReply(wire'[i], pending) /\ wire'[i].data = "ok" =>
          id \notin DOMAIN serving /\ \A j \in 1..Len(wire') : i < j => ~IsData(wire'[j], id)
    BY <2>2, <2>5, <1>3
  <2> QED
    BY <2>2, <2>4, <2>6, <1>1 DEF Unsubscribing
<1>12. StatusInv'
  BY <1>1, StatusStays
<1> QED
  BY <1>5, <1>6, <1>8, <1>9, <1>10, <1>11, <1>12 DEF SessionInv, ShapeInv, AwaitInv

LEMMA ReaderEndsKeeps ==
  ASSUME SessionInv, ReaderEnds
  PROVE  SessionInv'
<1>1. /\ link = "broken" /\ wire = <<>> /\ link' = "ended" /\ queue' = Append(queue, Failure)
      /\ reply' = IF pending # 0 /\ reply = "none" THEN "broken" ELSE reply
      /\ UNCHANGED <<status, connected, pc, targets, todo, asking, pending, mapped, refs,
                     serving, requests, wire, over, faults>>
  BY DEF ReaderEnds, dbVars, supervisorVars
<1>2. Types /\ Maps /\ Queues /\ Stage
  BY DEF SessionInv, ShapeInv
<1>3. requests = <<>> /\ InSession
  BY <1>1, <1>2 DEF Stage
<1>4. Types'
  BY <1>1, <1>2 DEF Types
<1>5. queue' \in Seq(Messages)
  BY <1>1, <1>2, AppendElements DEF Queues, Messages
<1>6. Maps' /\ Queues' /\ Stage'
  BY <1>1, <1>2, <1>3, <1>5 DEF Maps, Queues, Stage, Awaits, InSession
<1>7. RefsInv'
  BY <1>1 DEF SessionInv, RefsInv, Injective, Agreed, RequestsInOrder, FramesFit
<1>8. Asked'
  BY <1>1, <1>3 DEF Asked
<1>9. Subscribing' /\ Unsubscribing'
  BY <1>1 DEF SessionInv, AwaitInv, Subscribing, Unsubscribing, SubscribedRoundIds
<1>10. StatusInv'
  BY <1>1, StatusStays
<1> QED
  BY <1>4, <1>6, <1>7, <1>8, <1>9, <1>10 DEF SessionInv, ShapeInv, AwaitInv

LEMMA RepliesKeep ==
  ASSUME SessionInv, NEW ref \in 1..refs, NEW answer \in {"ok", "refused"}
  PROVE  /\ Append(wire, ReplyFrame(ref, answer)) \in Seq(Frames(refs))
         /\ Len(wire) \in Nat /\ Len(Append(wire, ReplyFrame(ref, answer))) = Len(wire) + 1
         /\ \A i \in 1..Len(wire) : Append(wire, ReplyFrame(ref, answer))[i] = wire[i]
         /\ Append(wire, ReplyFrame(ref, answer))[Len(wire) + 1] = ReplyFrame(ref, answer)
<1>1. ReplyFrame(ref, answer) \in Frames(refs)
  BY DEF ReplyFrame, Frames
<1>2. wire \in Seq(Frames(refs))
  BY DEF SessionInv, ShapeInv, Queues
<1> QED
  BY <1>1, <1>2, AppendElements

\* The provider answers the first request.
LEMMA RequestAnswered ==
  ASSUME SessionInv, NEW answer \in {"ok", "refused"}, link = "open", requests # <<>>,
         wire' = Append(wire, ReplyFrame(requests[1].ref, answer)), requests' = Tail(requests),
         UNCHANGED <<status, connected, pc, targets, todo, asking, pending, reply, mapped, queue, refs, link, over>>,
         Fault \/ UNCHANGED faults,
         serving' \in [DOMAIN serving' -> Rounds], DOMAIN serving' \subseteq 1..refs, Agreed',
         answer = "refused" => UNCHANGED serving,
         answer = "ok" => serving' = IF requests[1].kind = "doc" THEN With(serving, requests[1].id, requests[1].round)
                                     ELSE Without(serving, {requests[1].id})
  PROVE  ShapeInv' /\ RefsInv' /\ Asked' /\ Leaving' /\ Connecting'
<1>1. Types /\ Maps /\ Queues /\ Stage
  BY DEF SessionInv, ShapeInv
<1>2. /\ Len(requests) \in Nat \ {0} /\ Len(requests') = Len(requests) - 1
      /\ requests' \in Seq(Requests(refs)) /\ requests[1] \in Requests(refs)
      /\ \A i \in 1..(Len(requests) - 1) : requests'[i] = requests[i + 1]
  BY <1>1, TailElements DEF Queues
<1>3. /\ \A i \in 1..Len(requests') : requests'[i] = requests[i + 1] /\ i + 1 \in 1..Len(requests) /\ 1 < i + 1
      /\ 1 \in 1..Len(requests)
      /\ \A i, j \in 1..Len(requests') : i < j => i + 1 < j + 1
  BY <1>2
<1>4. requests[1].ref \in 1..refs
  BY <1>2 DEF Requests
<1>5. PICK f : f = ReplyFrame(requests[1].ref, answer)
  OBVIOUS
<1>6. /\ wire' \in Seq(Frames(refs)) /\ Len(wire') = Len(wire) + 1 /\ Len(wire) \in Nat
      /\ \A i \in 1..Len(wire) : wire'[i] = wire[i]
      /\ wire'[Len(wire) + 1] = f
  BY <1>4, <1>5, RepliesKeep
<1>7. \A i \in 1..Len(wire') : i \in 1..Len(wire) \/ i = Len(wire) + 1
  BY <1>6
<1>8. Types'
  BY <1>1, FaultTyped DEF Types
<1>9. Maps' /\ Queues'
  BY <1>1, <1>2, <1>6 DEF Maps, Queues
<1>10. Stage'
  BY <1>1 DEF Stage, Awaits, InSession
<1>11. Injective' /\ RequestsInOrder'
  BY <1>3 DEF SessionInv, RefsInv, Injective, RequestsInOrder
<1>12. f.kind = "reply" /\ f.ref = requests[1].ref
  BY <1>5 DEF ReplyFrame
<1>13. FramesFit'
  BY <1>6, <1>7, <1>12 DEF SessionInv, RefsInv, FramesFit
<1>14. Asked'
  <2>1. SUFFICES ASSUME NEW i \in 1..Len(requests'), requests'[i].ref = pending
                 PROVE  /\ reply = "none"
                        /\ \A j \in 1..Len(wire') : ~IsReply(wire'[j], pending)
                        /\ pc = "await_subscribed" => requests'[i].kind = "doc" /\ requests'[i].round = asking
                        /\ pc = "await_unsubscribed" =>
                             /\ requests'[i].kind = "unsubscribe"
                             /\ requests'[i].id \in DOMAIN mapped /\ mapped[requests'[i].id] = asking
    BY DEF Asked
  <2>2. /\ reply = "none"
        /\ \A j \in 1..Len(wire) : ~IsReply(wire[j], pending)
        /\ pc = "await_subscribed" => requests'[i].kind = "doc" /\ requests'[i].round = asking
        /\ pc = "await_unsubscribed" =>
             /\ requests'[i].kind = "unsubscribe"
             /\ requests'[i].id \in DOMAIN mapped /\ mapped[requests'[i].id] = asking
    BY <2>1, <1>3 DEF SessionInv, AwaitInv, Asked
  <2>3. requests[1].ref < requests[i + 1].ref
    BY <1>3 DEF SessionInv, RefsInv, RequestsInOrder
  <2>4. ~IsReply(f, pending)
    BY <2>1, <2>3, <1>1, <1>3, <1>4, <1>12, WireTyped DEF IsReply
  <2>5. \A j \in 1..Len(wire') : ~IsReply(wire'[j], pending)
    BY <2>2, <2>4, <1>6, <1>7
  <2> QED
    BY <2>2, <2>5
<1>15. Leaving' /\ Connecting'
  BY <1>3 DEF SessionInv, StatusInv, Leaving, Connecting, Marked, SubscribedRoundIds
<1> QED
  BY <1>8, <1>9, <1>10, <1>11, <1>13, <1>14, <1>15 DEF ShapeInv, RefsInv

LEMMA RefuseKeeps ==
  ASSUME SessionInv, Refuse
  PROVE  SessionInv'
<1>1. Types /\ Maps /\ Queues /\ Stage
  BY DEF SessionInv, ShapeInv
<1>2. link = "open" /\ requests # <<>> /\ requests \in Seq(Requests(refs))
  BY <1>1 DEF Refuse, Queues
<1>3. Head(requests) = requests[1] /\ requests[1] \in Requests(refs)
  BY <1>2, TailElements
<1>4. /\ wire' = Append(wire, ReplyFrame(requests[1].ref, "refused")) /\ requests' = Tail(requests)
      /\ UNCHANGED <<status, connected, pc, targets, todo, asking, pending, reply, mapped, queue, refs, link, over, serving>>
      /\ Fault
  BY <1>3 DEF Refuse, dbVars, supervisorVars, clientVars
<1>5. Agreed'
  BY <1>4 DEF SessionInv, RefsInv, Agreed
<1>6. ShapeInv' /\ RefsInv' /\ Asked' /\ Leaving' /\ Connecting'
  BY <1>1, <1>2, <1>4, <1>5, RequestAnswered DEF Maps
<1>7. requests[1].ref \in 1..refs
  BY <1>3 DEF Requests
<1>8. PICK f : f = ReplyFrame(requests[1].ref, "refused")
  OBVIOUS
<1>9. /\ Len(wire') = Len(wire) + 1 /\ Len(wire) \in Nat
      /\ \A i \in 1..Len(wire) : wire'[i] = wire[i]
      /\ wire'[Len(wire) + 1] = f
  BY <1>4, <1>7, <1>8, RepliesKeep
<1>10. \A i \in 1..Len(wire') : i \in 1..Len(wire) \/ i = Len(wire) + 1
  BY <1>9
<1>11. f.kind = "reply" /\ f.data = "refused"
  BY <1>8 DEF ReplyFrame
<1>12. Subscribing'
  BY <1>4, <1>9, <1>10, <1>11 DEF SessionInv, AwaitInv, Subscribing, IsData, SubscribedRoundIds
<1>13. Unsubscribing'
  BY <1>4, <1>9, <1>10, <1>11 DEF SessionInv, AwaitInv, Unsubscribing, IsData
<1>14. Served'
  <2>1. \A r \in Rounds : /\ Marked(r)' <=> Marked(r)
                          /\ ToBeAsked(r)' <=> ToBeAsked(r)
                          /\ Established(r)' <=> Established(r)
    BY <1>4 DEF Marked, ToBeAsked, SubscribedRoundIds, Established
  <2> QED
    BY <2>1, <1>4 DEF SessionInv, StatusInv, Served, InSession
<1> QED
  BY <1>6, <1>12, <1>13, <1>14 DEF SessionInv, AwaitInv, StatusInv

LEMMA AnswerKeeps ==
  ASSUME SessionInv, Answer
  PROVE  SessionInv'
<1>1. Types /\ Maps /\ Queues /\ Stage
  BY DEF SessionInv, ShapeInv
<1>2. link = "open" /\ requests # <<>> /\ requests \in Seq(Requests(refs))
  BY <1>1 DEF Answer, Queues
<1>3. Head(requests) = requests[1] /\ requests[1] \in Requests(refs) /\ 1 \in 1..Len(requests)
  BY <1>2, TailElements
<1>4. PICK id, kind, r, ref : id = requests[1].id /\ kind = requests[1].kind /\ r = requests[1].round /\ ref = requests[1].ref
  OBVIOUS
<1>5. /\ wire' = Append(wire, ReplyFrame(ref, "ok")) /\ requests' = Tail(requests)
      /\ serving' = IF kind = "doc" THEN With(serving, id, r) ELSE Without(serving, {id})
      /\ UNCHANGED <<status, connected, pc, targets, todo, asking, pending, reply, mapped, queue, refs, link, over, faults>>
  BY <1>3, <1>4 DEF Answer, dbVars, supervisorVars, clientVars
<1>6. /\ id \in 1..refs /\ ref \in 1..refs /\ r \in Rounds /\ kind \in {"doc", "unsubscribe"}
      /\ kind = "doc" => id = ref
      /\ kind = "unsubscribe" => id < ref
  BY <1>3, <1>4 DEF Requests
<1>7. /\ kind = "doc" => id \notin DOMAIN mapped
      /\ kind = "unsubscribe" /\ id \in DOMAIN mapped => ~Marked(mapped[id])
  BY <1>3, <1>4 DEF SessionInv, RefsInv, RequestsInOrder, StatusInv, Leaving
<1>8. /\ kind = "doc" => DOMAIN serving' = DOMAIN serving \cup {id} /\ serving'[id] = r
      /\ kind = "unsubscribe" => DOMAIN serving' = DOMAIN serving \ {id}
      /\ \A d \in DOMAIN serving : d # id => d \in DOMAIN serving' /\ serving'[d] = serving[d]
      /\ \A d \in DOMAIN serving' : d # id => d \in DOMAIN serving
      /\ serving' \in [DOMAIN serving' -> Rounds]
  <2>1. CASE kind = "doc"
    BY <2>1, <1>1, <1>5, <1>6 DEF With, Maps
  <2>2. CASE kind = "unsubscribe"
    BY <2>2, <1>1, <1>5, <1>6 DEF Without, Maps
  <2> QED
    BY <2>1, <2>2, <1>6
<1>9. DOMAIN serving' \subseteq 1..refs
  BY <1>1, <1>6, <1>8 DEF Maps
<1>10. Agreed'
  BY <1>5, <1>6, <1>7, <1>8 DEF SessionInv, RefsInv, Agreed
<1>11. ShapeInv' /\ RefsInv' /\ Asked' /\ Leaving' /\ Connecting'
  BY <1>2, <1>4, <1>5, <1>8, <1>9, <1>10, RequestAnswered
<1>12. PICK f : f = ReplyFrame(ref, "ok")
  OBVIOUS
<1>13. /\ Len(wire') = Len(wire) + 1 /\ Len(wire) \in Nat
       /\ \A i \in 1..Len(wire) : wire'[i] = wire[i]
       /\ wire'[Len(wire) + 1] = f
  BY <1>5, <1>6, <1>12, RepliesKeep
<1>14. \A i \in 1..Len(wire') : i \in 1..Len(wire) \/ i = Len(wire) + 1
  BY <1>13
<1>15. f.kind = "reply" /\ f.ref = ref
  BY <1>12 DEF ReplyFrame
<1>16. /\ ref = pending /\ pc = "await_subscribed" => kind = "doc" /\ r = asking
       /\ ref = pending /\ pc = "await_unsubscribed" =>
            kind = "unsubscribe" /\ id \in DOMAIN mapped /\ mapped[id] = asking
  BY <1>3, <1>4 DEF SessionInv, AwaitInv, Asked
<1>17. Subscribing'
  <2>1. SUFFICES ASSUME pc = "await_subscribed"
                 PROVE  Subscribing'
    BY <1>5 DEF Subscribing
  <2>2. pending = refs /\ pending \in 1..refs
    BY <2>1, <1>1 DEF Stage, Awaits, Types
  <2>3. kind = "unsubscribe" => id # pending
    BY <2>2, <1>6
  <2>4. /\ asking \notin SubscribedRoundIds /\ pending \notin DOMAIN mapped
        /\ pending \in DOMAIN serving => serving[pending] = asking
        /\ \A i \in 1..Len(wire) : IsData(wire[i], pending) => wire[i].data \in Of(asking)
        /\ reply = "ok" => pending \in DOMAIN serving
        /\ \A i \in 1..Len(wire) : IsReply(wire[i], pending) /\ wire[i].data = "ok" => pending \in DOMAIN serving
    BY <2>1, <1>2 DEF SessionInv, AwaitInv, Subscribing
  <2>5. pending \in DOMAIN serving' => serving'[pending] = asking
    <3>1. CASE pending = id
      BY <3>1, <2>1, <2>3, <1>6, <1>8, <1>16
    <3>2. CASE pending # id
      BY <3>2, <2>4, <1>8
    <3> QED
      BY <3>1, <3>2
  <2>6. pending \in DOMAIN serving => pending \in DOMAIN serving'
    BY <2>3, <1>6, <1>8
  <2>7. ref = pending => pending \in DOMAIN serving'
    BY <2>1, <1>6, <1>8, <1>16
  <2>8. \A i \in 1..Len(wire') : IsData(wire'[i], pending) => wire'[i].data \in Of(asking)
    BY <2>4, <1>13, <1>14, <1>15 DEF IsData
  <2>9. \A i \in 1..Len(wire') : IsReply(wire'[i], pending) /\ wire'[i].data = "ok" => pending \in DOMAIN serving'
    BY <2>4, <2>6, <2>7, <1>13, <1>14, <1>15 DEF IsReply
  <2> QED
    BY <2>4, <2>5, <2>6, <2>8, <2>9, <1>5 DEF Subscribing, SubscribedRoundIds
<1>18. Unsubscribing'
  <2>1. SUFFICES ASSUME pc = "await_unsubscribed"
                 PROVE  Unsubscribing'
    BY <1>5 DEF Unsubscribing
  <2>2. PICK d \in DOMAIN mapped :
          /\ mapped[d] = asking
          /\ reply = "ok" => d \notin DOMAIN serving /\ \A i \in 1..Len(wire) : ~IsData(wire[i], d)
          /\ \A i \in 1..Len(wire) : IsReply(wire[i], pending) /\ wire[i].data = "ok" =>
               d \notin DOMAIN serving /\ \A j \in 1..Len(wire) : i < j => ~IsData(wire[j], d)
    BY <2>1 DEF SessionInv, AwaitInv, Unsubscribing
  <2>3. d \notin DOMAIN serving => d \notin DOMAIN serving'
    BY <2>2, <1>6, <1>7, <1>8
  <2>4. ref = pending => d \notin DOMAIN serving'
    BY <2>1, <2>2, <1>8, <1>16 DEF SessionInv, RefsInv, Injective
  <2>5. ~IsData(f, d)
    BY <1>15 DEF IsData
  <2>6. reply = "ok" => d \notin DOMAIN serving' /\ \A i \in 1..Len(wire') : ~IsData(wire'[i], d)
    BY <2>2, <2>3, <2>5, <1>13, <1>14
  <2>7. ASSUME NEW i \in 1..Len(wire'), IsReply(wire'[i], pending), wire'[i].data = "ok"
        PROVE  d \notin DOMAIN serving' /\ \A j \in 1..Len(wire') : i < j => ~IsData(wire'[j], d)
    <3>1. CASE i \in 1..Len(wire)
      BY <3>1, <2>2, <2>3, <2>5, <2>7, <1>13, <1>14
    <3>2. CASE i = Len(wire) + 1
      <4>1. ref = pending
        BY <3>2, <2>7, <1>13, <1>15 DEF IsReply
      <4>2. \A j \in 1..Len(wire') : ~(i < j)
        BY <3>2, <1>13
      <4> QED
        BY <4>1, <4>2, <2>4
    <3> QED
      BY <3>1, <3>2, <1>14
  <2> QED
    BY <2>2, <2>6, <2>7, <1>5 DEF Unsubscribing
<1>19. Served'
  <2>1. \A q \in Rounds : /\ Marked(q)' <=> Marked(q)
                          /\ ToBeAsked(q)' <=> ToBeAsked(q)
    BY <1>5 DEF Marked, ToBeAsked, SubscribedRoundIds
  <2>2. ASSUME NEW q \in Rounds, Marked(q), Established(q)
        PROVE  Established(q)'
    <3>1. PICK d \in DOMAIN serving \cap DOMAIN mapped : serving[d] = q /\ mapped[d] = q
      BY <2>2 DEF Established
    <3>2. d # id
      BY <3>1, <2>2, <1>6, <1>7
    <3>3. d \in DOMAIN serving' /\ serving'[d] = q
      BY <3>1, <3>2, <1>8
    <3> QED
      BY <3>1, <3>3, <1>5 DEF Established
  <2> QED
    BY <2>1, <2>2, <1>5 DEF SessionInv, StatusInv, Served, InSession
<1> QED
  BY <1>11, <1>17, <1>18, <1>19 DEF SessionInv, AwaitInv, StatusInv

LEMMA BreakKeeps ==
  ASSUME SessionInv, NEW kept, Break(kept)
  PROVE  SessionInv'
<1>1. /\ link = "open" /\ Fault /\ link' = "broken" /\ serving' = Empty /\ requests' = <<>>
      /\ kept \in 0..Len(wire) /\ wire' = SubSeq(wire, 1, kept)
      /\ UNCHANGED <<status, connected, pc, targets, todo, asking, pending, reply, mapped, queue, refs, over>>
  BY DEF Break, dbVars, supervisorVars, clientVars
<1>2. Types /\ Maps /\ Queues /\ Stage
  BY DEF SessionInv, ShapeInv
<1>3. /\ wire' \in Seq(Frames(refs)) /\ Len(wire') = kept /\ Len(wire) \in Nat
      /\ \A i \in 1..kept : wire'[i] = wire[i]
  BY <1>1, <1>2, SubSeqElements, SeqElements DEF Queues
<1>4. \A i \in 1..Len(wire') : wire'[i] = wire[i] /\ i \in 1..Len(wire)
  BY <1>1, <1>3
<1>5. Types'
  BY <1>1, <1>2, FaultTyped DEF Types
<1>6. Maps' /\ Queues' /\ Stage'
  BY <1>1, <1>2, <1>3, NothingIsEmpty DEF Maps, Queues, Stage, Awaits, InSession
<1>7. Injective' /\ FramesFit'
  BY <1>1, <1>4 DEF SessionInv, RefsInv, Injective, FramesFit
<1>8. Agreed' /\ RequestsInOrder' /\ Asked'
  BY <1>1, NothingIsEmpty DEF Agreed, RequestsInOrder, Asked
<1>9. Subscribing'
  BY <1>1, <1>4, NothingIsEmpty DEF SessionInv, AwaitInv, Subscribing, SubscribedRoundIds
<1>10. Unsubscribing'
  BY <1>1, <1>4, NothingIsEmpty DEF SessionInv, AwaitInv, Unsubscribing
<1>11. Leaving' /\ Connecting'
  BY <1>1, NothingIsEmpty DEF SessionInv, StatusInv, Leaving, Connecting, Marked, SubscribedRoundIds
<1>12. Served'
  BY <1>1 DEF Served
<1> QED
  BY <1>5, <1>6, <1>7, <1>8, <1>9, <1>10, <1>11, <1>12 DEF SessionInv, ShapeInv, RefsInv, AwaitInv, StatusInv

LEMMA SentFrames ==
  ASSUME SessionInv, NEW r \in Rounds, NEW snapshot \in Of(r), Send(r, snapshot)
  PROVE  /\ wire' \in Seq(Frames(refs)) /\ Len(wire) \in Nat /\ Len(wire') \in Nat /\ Len(wire) <= Len(wire')
         /\ \A i \in 1..Len(wire) : wire'[i] = wire[i]
         /\ \A i \in 1..Len(wire') : i \in 1..Len(wire) \/
              /\ wire'[i].kind = "data" /\ wire'[i].data = snapshot /\ Len(wire) < i
              /\ wire'[i].ref \in DOMAIN serving /\ serving[wire'[i].ref] = r
         /\ \A id \in DOMAIN serving : serving[id] = r =>
              \E i \in 1..Len(wire') : IsData(wire'[i], id) /\ Len(wire) < i
         /\ UNCHANGED <<status, connected, pc, targets, todo, asking, pending, reply, mapped, queue, refs,
                        link, serving, requests, over, faults>>
<1>1. PICK ids, n : ids = {id \in DOMAIN serving : serving[id] = r} /\ n = Cardinality(ids)
  OBVIOUS
<1>2. PICK order \in [1..n -> ids] :
        /\ {order[i] : i \in 1..n} = ids
        /\ wire' = wire \o [i \in 1..n |-> DataFrame(order[i], snapshot)]
  BY <1>1 DEF Send
<1>3. UNCHANGED <<status, connected, pc, targets, todo, asking, pending, reply, mapped, queue, refs,
                  link, serving, requests, over, faults>>
  BY DEF Send, dbVars, supervisorVars, clientVars
<1>4. Types /\ Maps /\ Queues
  BY DEF SessionInv, ShapeInv
<1>5. ids \subseteq 1..refs /\ refs \in Nat
  BY <1>1, <1>4 DEF Maps, Types
<1>6. IsFiniteSet(ids)
  <2>1. IsFiniteSet(1..refs)
    BY <1>5, FS_Interval
  <2> QED
    BY <2>1, <1>5, FS_Subset
<1>7. n \in Nat
  BY <1>1, <1>6, FS_CardinalityType
<1>8. PICK q : q = [i \in 1..n |-> DataFrame(order[i], snapshot)]
  OBVIOUS
<1>9. \A i \in 1..n : DataFrame(order[i], snapshot) \in Frames(refs)
  <2>1. snapshot \in Snapshots
    BY DEF Of
  <2> QED
    BY <2>1, <1>5 DEF DataFrame, Frames
<1>10. q \in Seq(Frames(refs)) /\ Len(q) = n /\ \A i \in 1..n : q[i] = DataFrame(order[i], snapshot)
  BY <1>7, <1>8, <1>9
<1>11. /\ wire' \in Seq(Frames(refs)) /\ Len(wire) \in Nat /\ Len(wire') = Len(wire) + n
       /\ \A i \in 1..Len(wire) : wire'[i] = wire[i]
       /\ \A i \in (Len(wire) + 1)..(Len(wire) + n) : wire'[i] = q[i - Len(wire)]
  <2>1. wire' = wire \o q /\ wire \in Seq(Frames(refs)) /\ q \in Seq(Frames(refs)) /\ Len(q) = n
    BY <1>2, <1>4, <1>8, <1>10 DEF Queues
  <2> QED
    BY <2>1, ConcatElements
<1>12. ASSUME NEW i \in 1..Len(wire'), i \notin 1..Len(wire)
       PROVE  /\ wire'[i].kind = "data" /\ wire'[i].data = snapshot /\ Len(wire) < i
              /\ wire'[i].ref \in DOMAIN serving /\ serving[wire'[i].ref] = r
  <2>1. i \in (Len(wire) + 1)..(Len(wire) + n) /\ i - Len(wire) \in 1..n /\ Len(wire) < i
    BY <1>7, <1>11, <1>12
  <2>2. wire'[i] = DataFrame(order[i - Len(wire)], snapshot)
    BY <2>1, <1>10, <1>11
  <2>3. order[i - Len(wire)] \in ids
    BY <2>1
  <2> QED
    BY <2>1, <2>2, <2>3, <1>1 DEF DataFrame
<1>13. ASSUME NEW id \in DOMAIN serving, serving[id] = r
       PROVE  \E i \in 1..Len(wire') : IsData(wire'[i], id) /\ Len(wire) < i
  <2>1. id \in ids
    BY <1>1, <1>13
  <2>2. PICK j \in 1..n : order[j] = id
    BY <2>1, <1>2
  <2>3. PICK i : i = Len(wire) + j
    OBVIOUS
  <2>4. i \in 1..Len(wire') /\ Len(wire) < i /\ i \in (Len(wire) + 1)..(Len(wire) + n) /\ i - Len(wire) = j
    BY <2>3, <1>7, <1>11
  <2>5. wire'[i] = DataFrame(id, snapshot)
    BY <2>2, <2>4, <1>10, <1>11
  <2> QED
    BY <2>4, <2>5 DEF DataFrame, IsData
<1> QED
  BY <1>3, <1>7, <1>11, <1>12, <1>13

LEMMA SendKeeps ==
  ASSUME SessionInv, NEW r \in Rounds, NEW snapshot \in Of(r), Send(r, snapshot)
  PROVE  SessionInv'
<1>1. /\ wire' \in Seq(Frames(refs)) /\ Len(wire) \in Nat /\ Len(wire') \in Nat
      /\ \A i \in 1..Len(wire) : wire'[i] = wire[i]
      /\ \A i \in 1..Len(wire') : i \in 1..Len(wire) \/
           /\ wire'[i].kind = "data" /\ wire'[i].data = snapshot
           /\ wire'[i].ref \in DOMAIN serving /\ serving[wire'[i].ref] = r
      /\ UNCHANGED <<status, connected, pc, targets, todo, asking, pending, reply, mapped, queue, refs,
                     link, serving, requests, over, faults>>
  BY SentFrames
<1>2. Types /\ Maps /\ Queues /\ Stage
  BY DEF SessionInv, ShapeInv
<1>3. Types'
  BY <1>1, <1>2 DEF Types
<1>4. Maps' /\ Queues'
  BY <1>1, <1>2 DEF Maps, Queues
<1>5. DOMAIN serving # {} => link = "open"
  BY <1>2, NothingIsEmpty DEF Stage
<1>6. Stage'
  <2>1. ~InSession => wire' = <<>>
    <3>1. ~InSession => wire = <<>> /\ link # "open"
      BY <1>2 DEF Stage
    <3>2. ~InSession => \A i \in 1..Len(wire') : FALSE
      BY <3>1, <1>1, <1>5
    <3>3. wire' \in Seq(Frames(refs)) /\ Len(wire') \in Nat
      BY <1>1
    <3>4. (\A i \in 1..Len(wire') : FALSE) => Len(wire') = 0
      BY <3>3
    <3> QED
      BY <3>2, <3>3, <3>4
  <2> QED
    BY <2>1, <1>1, <1>2 DEF Stage, Awaits, InSession
<1>7. FramesFit'
  <2>1. ASSUME NEW i \in 1..Len(wire'), wire'[i].kind = "data", NEW id \in DOMAIN mapped, wire'[i].ref = id
        PROVE  wire'[i].data \in Of(mapped[id])
    <3>1. CASE i \in 1..Len(wire)
      BY <3>1, <2>1, <1>1 DEF SessionInv, RefsInv, FramesFit
    <3>2. CASE i \notin 1..Len(wire)
      <4>1. wire'[i].data = snapshot /\ id \in DOMAIN serving /\ serving[id] = r
        BY <3>2, <2>1, <1>1
      <4>2. mapped[id] = r
        BY <4>1 DEF SessionInv, RefsInv, Agreed
      <4> QED
        BY <4>1, <4>2
    <3> QED
      BY <3>1, <3>2
  <2> QED
    BY <2>1, <1>1 DEF FramesFit
<1>8. RefsInv'
  BY <1>1, <1>7 DEF SessionInv, RefsInv, Injective, Agreed, RequestsInOrder
<1>9. \A i \in 1..Len(wire') : i \in 1..Len(wire) \/ ~IsReply(wire'[i], pending)
  BY <1>1 DEF IsReply
<1>10. Asked'
  BY <1>1, <1>9 DEF SessionInv, AwaitInv, Asked
<1>11. Subscribing'
  <2>1. SUFFICES ASSUME pc = "await_subscribed"
                 PROVE  Subscribing'
    BY <1>1 DEF Subscribing
  <2>2. Subscribing
    BY DEF SessionInv, AwaitInv
  <2>3. \A i \in 1..Len(wire') : IsData(wire'[i], pending) => wire'[i].data \in Of(asking)
    <3>1. ASSUME NEW i \in 1..Len(wire'), IsData(wire'[i], pending), i \notin 1..Len(wire)
          PROVE  wire'[i].data \in Of(asking)
      <4>1. wire'[i].data = snapshot /\ pending \in DOMAIN serving /\ serving[pending] = r
        BY <3>1, <1>1 DEF IsData
      <4>2. asking = r
        BY <4>1, <2>1, <2>2 DEF Subscribing
      <4> QED
        BY <4>1, <4>2
    <3>2. \A i \in 1..Len(wire) : IsData(wire'[i], pending) => wire'[i].data \in Of(asking)
      BY <2>1, <2>2, <1>1 DEF Subscribing
    <3> QED
      BY <3>1, <3>2
  <2>4. \A i \in 1..Len(wire') :
          link = "open" /\ IsReply(wire'[i], pending) /\ wire'[i].data = "ok" => pending \in DOMAIN serving
    BY <2>1, <2>2, <1>1, <1>9 DEF Subscribing
  <2> QED
    BY <2>1, <2>2, <2>3, <2>4, <1>1 DEF Subscribing, SubscribedRoundIds
<1>12. Unsubscribing'
  <2>1. SUFFICES ASSUME pc = "await_unsubscribed"
                 PROVE  Unsubscribing'
    BY <1>1 DEF Unsubscribing
  <2>2. PICK d \in DOMAIN mapped :
          /\ mapped[d] = asking
          /\ reply = "ok" => d \notin DOMAIN serving /\ \A i \in 1..Len(wire) : ~IsData(wire[i], d)
          /\ \A i \in 1..Len(wire) : IsReply(wire[i], pending) /\ wire[i].data = "ok" =>
               d \notin DOMAIN serving /\ \A j \in 1..Len(wire) : i < j => ~IsData(wire[j], d)
    BY <2>1 DEF SessionInv, AwaitInv, Unsubscribing
  <2>3. d \notin DOMAIN serving => \A i \in 1..Len(wire') : i \in 1..Len(wire) \/ ~IsData(wire'[i], d)
    BY <1>1 DEF IsData
  <2>4. reply = "ok" => d \notin DOMAIN serving /\ \A i \in 1..Len(wire') : ~IsData(wire'[i], d)
    BY <2>2, <2>3, <1>1
  <2>5. \A i \in 1..Len(wire') : IsReply(wire'[i], pending) /\ wire'[i].data = "ok" =>
          d \notin DOMAIN serving /\ \A j \in 1..Len(wire') : i < j => ~IsData(wire'[j], d)
    BY <2>2, <2>3, <1>1, <1>9
  <2> QED
    BY <2>2, <2>4, <2>5, <1>1 DEF Unsubscribing
<1>13. StatusInv'
  BY <1>1, StatusStays
<1> QED
  BY <1>3, <1>4, <1>6, <1>8, <1>10, <1>11, <1>12, <1>13 DEF SessionInv, ShapeInv, AwaitInv

(***************************************************************************)
(* From rows to evidence and records.                                      *)
(***************************************************************************)

LEMMA NoneIsNoRow ==
  /\ None \notin Rows /\ None \notin Evidence /\ None \notin [row : Rows, active : BOOLEAN]
  /\ None \notin [result : Results, kind : Kinds, row : Rows, rule : Formats]
  /\ \A x \in Results : RoundOf[x] \in Rounds
  BY NoneAssumption, FormatsAssumption, RoundOfAssumption
  DEF NoneAssumption, FormatsAssumption, RoundOfAssumption

LEMMA ObservationsTyped ==
  ASSUME NEW row \in Rows, NEW rl, NEW k \in Kinds
  PROVE  ResultObservations(row, rl)[k] \in Evidence \cup {None}
<1>1. [value |-> Value(row, k), enteredAt |-> row.enteredAt] \in Evidence
  BY DEF Evidence
<1> QED
  BY <1>1 DEF ResultObservations

\* The records of a row: what its tags say, whatever was known.
RecordsOf(stored) == IF stored = None THEN [k \in Kinds |-> NoRecord] ELSE TaggedRecords(stored)

LEMMA WithdrawnRecords ==
  ASSUME NEW known
  PROVE  WithdrawOtherStates(known, "") = NoRecord
  BY DEF WithdrawOtherStates, NoRecord, Levels

TaggedLevels(row, k) == [l \in Levels |-> IF l = ActiveLevel(row, k) THEN Value(row, k) ELSE 0]

LEMMA RecordsAreTagged ==
  ASSUME NEW known, NEW row, NEW k \in Kinds
  PROVE  SynchronizeResultRecords(known, row)[k] = TaggedLevels(row, k)
<1>1. PICK level : level = ActiveLevel(row, k)
  OBVIOUS
<1>2. PICK kept : kept = [l \in Levels |-> IF l = level THEN known[k][l] ELSE 0]
  OBVIOUS
<1>3. SynchronizeResultRecords(known, row)[k] =
        IF level = "" THEN kept ELSE [kept EXCEPT ![level] = Value(row, k)]
  BY <1>1, <1>2 DEF SynchronizeResultRecords, WithdrawOtherStates, PersistRecordCandidate
<1>4. level \in Levels \cup {""} /\ "" \notin Levels
  BY <1>1 DEF ActiveLevel, Levels
<1>5. CASE level = ""
  BY <1>1, <1>2, <1>3, <1>4, <1>5 DEF TaggedLevels
<1>6. CASE level # ""
  <2>1. SynchronizeResultRecords(known, row)[k] = [kept EXCEPT ![level] = Value(row, k)]
    BY <1>3, <1>6
  <2>2. [kept EXCEPT ![level] = Value(row, k)] = [l \in Levels |-> IF l = level THEN Value(row, k) ELSE 0]
    BY <1>2
  <2> QED
    BY <2>1, <2>2, <1>1, <1>4 DEF TaggedLevels
<1> QED
  BY <1>5, <1>6

LEMMA SynchronizedLevels ==
  ASSUME NEW known, NEW row
  PROVE  SynchronizeResultRecords(known, row) = [k \in Kinds |-> TaggedLevels(row, k)]
<1>1. \A k \in Kinds : SynchronizeResultRecords(known, row)[k] = TaggedLevels(row, k)
  BY RecordsAreTagged
<1>2. PICK f : f = SynchronizeResultRecords(known, row)
  OBVIOUS
<1>3. f = [k \in Kinds |-> f[k]]
  BY <1>2 DEF SynchronizeResultRecords
<1> QED
  BY <1>1, <1>2, <1>3

LEMMA TaggedShape ==
  ASSUME NEW row
  PROVE  TaggedRecords(row) = [k \in Kinds |-> TaggedLevels(row, k)]
  BY SynchronizedLevels DEF TaggedRecords

LEMMA SynchronizedRecords ==
  ASSUME NEW known, NEW row
  PROVE  SynchronizeResultRecords(known, row) = TaggedRecords(row)
  BY SynchronizedLevels, TaggedShape

\* Values and tags are all that counts.
LEMMA RecordsByPairs ==
  ASSUME NEW p, NEW q, Pairs(p) = Pairs(q)
  PROVE  RecordsOf(p) = RecordsOf(q)
<1>1. \A k \in Kinds : Pairs(p)[k] = Pairs(q)[k]
  OBVIOUS
<1>2. CASE p # None /\ q # None
  <2>1. \A k \in Kinds : <<Value(p, k), Tag(p, k)>> = <<Value(q, k), Tag(q, k)>>
    BY <1>1, <1>2 DEF Pairs
  <2>2. \A k \in Kinds : Value(p, k) = Value(q, k) /\ Tag(p, k) = Tag(q, k)
    BY <2>1
  <2>3. \A k \in Kinds : ActiveLevel(p, k) = ActiveLevel(q, k)
    BY <2>2 DEF ActiveLevel
  <2>4. \A k \in Kinds : TaggedLevels(p, k) = TaggedLevels(q, k)
    BY <2>2, <2>3 DEF TaggedLevels
  <2> QED
    BY <2>4, <1>2, TaggedShape DEF RecordsOf
<1>3. ASSUME NEW u, NEW v, u = None, v # None, \A k \in Kinds : Pairs(u)[k] = Pairs(v)[k]
      PROVE  RecordsOf(u) = RecordsOf(v)
  <2>1. \A k \in Kinds : <<Value(v, k), Tag(v, k)>> = <<None, "">>
    BY <1>3 DEF Pairs
  <2>2. \A k \in Kinds : Tag(v, k) = ""
    BY <2>1
  <2>3. \A k \in Kinds : ActiveLevel(v, k) = "" /\ "" \notin Levels
    BY <2>2 DEF ActiveLevel, Levels
  <2>4. \A k \in Kinds : TaggedLevels(v, k) = NoRecord
    BY <2>3 DEF NoRecord, TaggedLevels
  <2> QED
    BY <2>4, <1>3, TaggedShape DEF RecordsOf
<1>4. CASE p = None /\ q = None
  BY <1>4
<1> QED
  BY <1>1, <1>2, <1>3, <1>4

LEMMA UntaggedRecords ==
  ASSUME NEW stored, \A k \in Kinds : Pairs(stored)[k][2] \notin Levels
  PROVE  RecordsOf(stored) = [k \in Kinds |-> NoRecord]
<1>1. CASE stored = None
  BY <1>1 DEF RecordsOf
<1>2. CASE stored # None
  <2>1. \A k \in Kinds : Tag(stored, k) \notin Levels
    BY <1>2 DEF Pairs
  <2>2. \A k \in Kinds : ActiveLevel(stored, k) = "" /\ "" \notin Levels
    BY <2>1 DEF ActiveLevel, Levels
  <2>3. \A k \in Kinds : TaggedLevels(stored, k) = NoRecord
    BY <2>2 DEF NoRecord, TaggedLevels
  <2> QED
    BY <2>3, <1>2, TaggedShape DEF RecordsOf
<1> QED
  BY <1>1, <1>2

\* Records are those of the stored row, or none because a first snapshot found a row
\* with the same values and tags too old.
RecordsFit(known, stored, baseline) ==
  \/ known = RecordsOf(stored)
  \/ /\ baseline # None /\ Pairs(stored) = Pairs(baseline)
     /\ \A k \in Kinds : known[k] = NoRecord

LEMMA RecordsStillFit ==
  ASSUME NEW known, known = [k \in Kinds |-> known[k]], NEW previous, NEW current, current # None,
         NEW baseline, RecordsFit(known, previous, baseline)
  PROVE  RecordsFit(IF NeedsRecordSynchronization(previous, current)
                    THEN SynchronizeResultRecords(known, current) ELSE known, current, baseline)
<1>1. CASE NeedsRecordSynchronization(previous, current)
  BY <1>1, SynchronizedRecords DEF RecordsFit, RecordsOf
<1>2. CASE Pairs(previous) = Pairs(current)
  <2>1. ~NeedsRecordSynchronization(previous, current)
    BY <1>2 DEF NeedsRecordSynchronization
  <2>2. RecordsOf(previous) = RecordsOf(current)
    BY <1>2, RecordsByPairs
  <2> QED
    BY <2>1, <2>2, <1>2 DEF RecordsFit
<1>3. CASE ~NeedsRecordSynchronization(previous, current) /\ Pairs(previous) # Pairs(current)
  <2>1. \A k \in Kinds : Pairs(previous)[k][2] \notin Levels /\ Pairs(current)[k][2] \notin Levels
    BY <1>3 DEF NeedsRecordSynchronization
  <2>2. RecordsOf(previous) = [k \in Kinds |-> NoRecord] /\ RecordsOf(current) = [k \in Kinds |-> NoRecord]
    BY <2>1, UntaggedRecords
  <2>3. known = [k \in Kinds |-> NoRecord]
    BY <2>2 DEF RecordsFit
  <2> QED
    BY <2>2, <2>3, <1>3 DEF RecordsFit
<1> QED
  BY <1>1, <1>2, <1>3

(***************************************************************************)
(* A snapshot of a round.                                                  *)
(***************************************************************************)

LEMMA SnapshotTyped ==
  ASSUME NEW r, NEW s \in Of(r)
  PROVE  /\ s \in Snapshots /\ DOMAIN s \subseteq ResultsOf(r) /\ s = [x \in DOMAIN s |-> s[x]]
         /\ \A x \in DOMAIN s : s[x] \in Rows /\ s[x] # None /\ x \in Results /\ RoundOf[x] = r
<1>1. s \in Snapshots /\ DOMAIN s \subseteq ResultsOf(r)
  BY DEF Of
<1>2. PICK X \in SUBSET Results : s \in [X -> Rows]
  BY <1>1 DEF Snapshots
<1> QED
  BY <1>1, <1>2, NoneIsNoRow DEF ResultsOf

LEMMA PreviousTyped ==
  ASSUME IngestionTypes, NEW x \in Results
  PROVE  /\ Previous(x) \in Rows \cup {None}
         /\ table[x] = None => Previous(x) = None
         /\ table[x] # None => table[x].row \in Rows /\ table[x].active \in BOOLEAN
  BY DEF IngestionTypes, Previous

\* What the provider shows is a snapshot.
LEMMA ShownFits ==
  ASSUME NEW f \in [Results -> Rows \cup {None}], NEW r \in Rounds
  PROVE  [x \in {y \in ResultsOf(r) : f[y] # None} |-> f[x]] \in Of(r)
<1>1. PICK X : X = {y \in ResultsOf(r) : f[y] # None}
  OBVIOUS
<1>2. X \subseteq ResultsOf(r) /\ X \subseteq Results /\ \A x \in X : f[x] \in Rows
  BY <1>1 DEF ResultsOf
<1>3. [x \in X |-> f[x]] \in [X -> Rows] /\ DOMAIN [x \in X |-> f[x]] = X
  BY <1>2
<1>4. [x \in X |-> f[x]] \in Of(r)
  BY <1>2, <1>3 DEF Of, Snapshots
<1> QED
  BY <1>1, <1>4

LEMMA PersistedRows ==
  ASSUME IngestionTypes, NEW r \in Rounds, NEW s \in Of(r), PersistStates(r, s)
  PROVE  /\ table' \in [Results -> [row : Rows, active : BOOLEAN] \cup {None}]
         /\ \A x \in Results :
              /\ Previous(x)' = IF x \in DOMAIN s THEN s[x] ELSE IF RoundOf[x] = r THEN None ELSE Previous(x)
              /\ table[x] # None => table'[x] # None
              /\ x \in DOMAIN s => table'[x] # None
<1>1. SUFFICES ASSUME NEW x \in Results
               PROVE  /\ table'[x] \in [row : Rows, active : BOOLEAN] \cup {None}
                      /\ Previous(x)' = IF x \in DOMAIN s THEN s[x]
                                        ELSE IF RoundOf[x] = r THEN None ELSE Previous(x)
                      /\ table[x] # None => table'[x] # None
                      /\ x \in DOMAIN s => table'[x] # None
  BY DEF PersistStates
<1>2. table'[x] = IF x \in Differing(s) THEN [row |-> s[x], active |-> TRUE]
                  ELSE IF x \in Removals(r, s) THEN [table[x] EXCEPT !.active = FALSE]
                  ELSE table[x]
  BY DEF PersistStates
<1>3. /\ table[x] \in [row : Rows, active : BOOLEAN] \cup {None}
      /\ Previous(x) = IF table[x] # None /\ table[x].active THEN table[x].row ELSE None
      /\ Previous(x)' = IF table'[x] # None /\ table'[x].active THEN table'[x].row ELSE None
  BY DEF IngestionTypes, Previous
<1>4. CASE x \in Differing(s)
  <2>1. x \in DOMAIN s /\ s[x] \in Rows
    BY <1>4, SnapshotTyped DEF Differing
  <2>2. table'[x] = [row |-> s[x], active |-> TRUE]
    BY <1>2, <1>4
  <2>3. table'[x] \in [row : Rows, active : BOOLEAN]
    BY <2>1, <2>2
  <2>4. table'[x] # None
    BY <2>3, NoneIsNoRow
  <2>5. Previous(x)' = s[x]
    BY <2>2, <2>4, <1>3
  <2> QED
    BY <2>1, <2>3, <2>4, <2>5
<1>5. CASE x \notin Differing(s) /\ x \in Removals(r, s)
  <2>1. /\ x \notin DOMAIN s /\ RoundOf[x] = r /\ table[x] # None
    BY <1>3, <1>5 DEF Removals, ResultsOf
  <2>2. table[x] \in [row : Rows, active : BOOLEAN]
    BY <2>1, <1>3
  <2>3. table'[x] = [table[x] EXCEPT !.active = FALSE]
    BY <1>2, <1>5
  <2>4. table'[x] \in [row : Rows, active : BOOLEAN] /\ table'[x].active = FALSE
    BY <2>2, <2>3
  <2>5. table'[x] # None
    BY <2>4, NoneIsNoRow
  <2> QED
    BY <2>1, <2>4, <2>5, <1>3
<1>6. CASE x \notin Differing(s) /\ x \notin Removals(r, s)
  <2>1. table'[x] = table[x]
    BY <1>2, <1>6
  <2>2. Previous(x)' = Previous(x)
    BY <2>1, <1>3
  <2>3. x \in DOMAIN s => Previous(x) # None /\ Previous(x) = s[x]
    BY <1>6 DEF Differing
  <2>4. x \notin DOMAIN s /\ RoundOf[x] = r => Previous(x) = None
    BY <1>6 DEF Removals, ResultsOf
  <2>5. x \in DOMAIN s => table[x] # None
    BY <2>3, <1>3
  <2> QED
    BY <2>1, <2>2, <2>3, <2>4, <2>5, <1>3
<1> QED
  BY <1>4, <1>5, <1>6

\* What a snapshot makes of the table, round by round.
LEMMA MirroredAfter ==
  ASSUME IngestionTypes, NEW r \in Rounds, NEW s \in Of(r), PersistStates(r, s)
  PROVE  /\ Mirrored(r)' = s
         /\ \A q \in Rounds : q # r => Mirrored(q)' = Mirrored(q)
         /\ \A q \in Rounds : ~IsInitial(q) => ~IsInitial(q)'
<1>1. \A x \in Results :
        /\ Previous(x)' = IF x \in DOMAIN s THEN s[x] ELSE IF RoundOf[x] = r THEN None ELSE Previous(x)
        /\ table[x] # None => table'[x] # None
  BY PersistedRows
<1>2. /\ DOMAIN s \subseteq ResultsOf(r) /\ s = [x \in DOMAIN s |-> s[x]]
      /\ \A x \in DOMAIN s : s[x] # None /\ x \in Results /\ RoundOf[x] = r
  BY SnapshotTyped
<1>3. Mirrored(r)' = s
  <2>1. PICK X : X = {y \in ResultsOf(r) : Previous(y)' # None}
    OBVIOUS
  <2>2. Mirrored(r)' = [x \in X |-> Previous(x)']
    BY <2>1 DEF Mirrored, ResultsOf
  <2>3. \A x \in ResultsOf(r) : x \in Results /\ RoundOf[x] = r
    BY DEF ResultsOf
  <2>4. X = DOMAIN s
    BY <2>1, <2>3, <1>1, <1>2
  <2>5. \A x \in X : Previous(x)' = s[x]
    BY <2>4, <1>1, <1>2
  <2> QED
    BY <2>2, <2>4, <2>5, <1>2
<1>4. ASSUME NEW q \in Rounds, q # r
      PROVE  Mirrored(q)' = Mirrored(q)
  <2>1. \A x \in ResultsOf(q) : x \in Results /\ RoundOf[x] = q
    BY DEF ResultsOf
  <2>2. \A x \in ResultsOf(q) : Previous(x)' = Previous(x)
    BY <2>1, <1>1, <1>2, <1>4
  <2>3. Mirrored(q)' = [x \in {y \in ResultsOf(q) : Previous(y)' # None} |-> Previous(x)']
    BY DEF Mirrored, ResultsOf
  <2>4. {y \in ResultsOf(q) : Previous(y)' # None} = {y \in ResultsOf(q) : Previous(y) # None}
    BY <2>2
  <2> QED
    BY <2>2, <2>3, <2>4 DEF Mirrored
<1>5. \A q \in Rounds : ~IsInitial(q) => ~IsInitial(q)'
  BY <1>1 DEF IsInitial, Stored, ResultsOf
<1> QED
  BY <1>3, <1>4, <1>5

\* Evidence is what the stored row stands for, or nothing because a first snapshot found
\* a row that stands for the same too old.
EvidenceFits(known, stored, rl, baseline, k) ==
  \/ known[k] = ObservationsOf(stored, rl)[k]
  \/ known[k] = None /\ baseline # None /\ ObservationsOf(baseline, rl)[k] = ObservationsOf(stored, rl)[k]

SubscriptionFollows(x) ==
  /\ RoundOf[x] \in reruled \/
       \A k \in Kinds : EvidenceFits(evidence[x], Previous(x), rule[RoundOf[x]], baselineRow[x], k)
  /\ RecordsFit(records[x], Previous(x), baselineRow[x])

PollerFollows(x) ==
  \A k \in Kinds : <<x, k>> \in returned \/
    /\ apiEvidence[x][k] =
         IF listed[x][k] = None THEN None ELSE ResultObservations(listed[x][k].row, listed[x][k].rule)[k]
    /\ apiRecords[x][k] =
         IF listed[x][k] = None THEN NoRecord ELSE TaggedRecords(listed[x][k].row)[k]

LEMMA FollowsByResult ==
  EvidenceFollowsSources /\ RecordsFollowSources <=>
    \A x \in Results : SubscriptionFollows(x) /\ PollerFollows(x)
<1>1. ASSUME NEW x \in Results
      PROVE  SubscriptionFollows(x) <=>
               /\ \A k \in Kinds :
                    \/ evidence[x][k] = ObservationsOf(Previous(x), rule[RoundOf[x]])[k]
                    \/ RoundOf[x] \in reruled
                    \/ /\ evidence[x][k] = None /\ baselineRow[x] # None
                       /\ ObservationsOf(baselineRow[x], rule[RoundOf[x]])[k] =
                            ObservationsOf(Previous(x), rule[RoundOf[x]])[k]
               /\ \/ records[x] = IF Previous(x) = None THEN [k \in Kinds |-> NoRecord]
                                  ELSE TaggedRecords(Previous(x))
                  \/ /\ baselineRow[x] # None /\ Pairs(Previous(x)) = Pairs(baselineRow[x])
                     /\ \A k \in Kinds : records[x][k] = NoRecord
  BY DEF SubscriptionFollows, EvidenceFits, RecordsFit, RecordsOf
<1> QED
  BY <1>1 DEF EvidenceFollowsSources, RecordsFollowSources, PollerFollows

LEMMA FollowsByResultNext ==
  (EvidenceFollowsSources /\ RecordsFollowSources)' <=>
    (\A x \in Results : SubscriptionFollows(x) /\ PollerFollows(x))'
  BY FollowsByResult, PTL

LEMMA SynchronizedTyped ==
  ASSUME NEW known \in [Kinds -> Evidence \cup {None}], NEW previous,
         NEW current, \A k \in Kinds : current[k] \in Evidence \cup {None}
  PROVE  SynchronizeObservations(known, previous, current) \in [Kinds -> Evidence \cup {None}]
  BY DEF SynchronizeObservations

LEMMA EvidenceStillFits ==
  ASSUME NEW known, NEW rl, NEW previous, NEW current, NEW baseline, NEW k \in Kinds,
         EvidenceFits(known, previous, rl, baseline, k)
  PROVE  EvidenceFits(SynchronizeObservations(known, ObservationsOf(previous, rl), ObservationsOf(current, rl)),
                      current, rl, baseline, k)
<1>1. PICK p, c, b : p = ObservationsOf(previous, rl) /\ c = ObservationsOf(current, rl) /\ b = ObservationsOf(baseline, rl)
  OBVIOUS
<1>2. known[k] = p[k] \/ (known[k] = None /\ baseline # None /\ b[k] = p[k])
  BY <1>1 DEF EvidenceFits
<1>3. PICK a : a = SynchronizeObservations(known, p, c)
  OBVIOUS
<1>4. a[k] = IF c[k] # None /\ c[k] # p[k] THEN c[k]
             ELSE IF c[k] = None /\ p[k] # None THEN None ELSE known[k]
  BY <1>3 DEF SynchronizeObservations
<1>5. a[k] = c[k] \/ (a[k] = None /\ baseline # None /\ b[k] = c[k])
  BY <1>2, <1>4
<1> QED
  BY <1>1, <1>3, <1>5 DEF EvidenceFits

\* One result, as a snapshot of its round is processed.
LEMMA ResultProcessed ==
  ASSUME SourcesInv, NEW r \in Rounds, NEW s \in Of(r), NEW recent, NEW x \in Results,
         PersistStates(r, s), ReconcileSnapshot(r, s, recent), SynchronizeRecords(r, s, recent),
         baselineRow'[x] = IF IsInitial(r) /\ x \in DOMAIN s \ Evaluated(r, s, recent) THEN s[x] ELSE baselineRow[x],
         UNCHANGED <<rule, reruled>>
  PROVE  /\ SubscriptionFollows(x)'
         /\ evidence'[x] \in [Kinds -> Evidence \cup {None}]
         /\ records'[x] = [k \in Kinds |-> records'[x][k]]
         /\ \A k \in Kinds : DOMAIN records'[x][k] = Levels
         /\ baselineRow'[x] \in Rows \cup {None}
<1>1. IngestionTypes /\ SubscriptionFollows(x)
  BY FollowsByResult DEF SourcesInv
<1>2. PICK stored, after, base, rl :
        stored = Previous(x) /\ after = Previous(x)' /\ base = baselineRow[x] /\ rl = rule[RoundOf[x]]
  OBVIOUS
<1>3. /\ after = IF x \in DOMAIN s THEN s[x] ELSE IF RoundOf[x] = r THEN None ELSE stored
      /\ stored \in Rows \cup {None} /\ (table[x] = None => stored = None)
  BY <1>1, <1>2, PersistedRows, PreviousTyped
<1>4. x \in DOMAIN s => s[x] \in Rows /\ s[x] # None /\ RoundOf[x] = r
  BY SnapshotTyped
<1>5. PICK known, claims : known = evidence[x] /\ claims = records[x]
  OBVIOUS
<1>6. /\ known \in [Kinds -> Evidence \cup {None}] /\ claims = [k \in Kinds |-> claims[k]]
      /\ \A k \in Kinds : DOMAIN claims[k] = Levels
      /\ base \in Rows \cup {None}
  BY <1>1, <1>2, <1>5 DEF IngestionTypes
<1>7. /\ RoundOf[x] \in reruled \/ \A k \in Kinds : EvidenceFits(known, stored, rl, base, k)
      /\ RecordsFit(claims, stored, base)
  BY <1>1, <1>2, <1>5 DEF SubscriptionFollows
<1>8. PICK E : E = Evaluated(r, s, recent)
  OBVIOUS
<1>9. /\ E \subseteq DOMAIN s
      /\ IsInitial(r) /\ RoundOf[x] = r => stored = None
      /\ ~IsInitial(r) => E = Differing(s)
  BY <1>3, <1>8 DEF Evaluated, Differing, IsInitial, Stored, ResultsOf
<1>10. x \in Removals(r, s) <=> RoundOf[x] = r /\ stored # None /\ x \notin DOMAIN s
  BY <1>2 DEF Removals, ResultsOf
<1>11. SubscriptionFollows(x)' <=>
         /\ RoundOf[x] \in reruled \/ \A k \in Kinds : EvidenceFits(evidence'[x], after, rl, baselineRow'[x], k)
         /\ RecordsFit(records'[x], after, baselineRow'[x])
  BY <1>2 DEF SubscriptionFollows
<1>12. CASE x \in E
  <2>1. /\ x \in DOMAIN s /\ RoundOf[x] = r /\ after = s[x] /\ after \in Rows /\ after # None
        /\ baselineRow'[x] = base /\ x \notin Removals(r, s)
    BY <1>2, <1>3, <1>4, <1>8, <1>9, <1>10, <1>12
  <2>2. evidence'[x] = SynchronizeObservations(known, ObservationsOf(stored, rl), ObservationsOf(after, rl))
    BY <2>1, <1>2, <1>5, <1>8, <1>12 DEF ReconcileSnapshot, ObservationsOf
  <2>3. records'[x] = IF NeedsRecordSynchronization(stored, after)
                      THEN SynchronizeResultRecords(claims, after) ELSE claims
    BY <2>1, <1>2, <1>5, <1>8, <1>12 DEF SynchronizeRecords
  <2>4. RoundOf[x] \in reruled \/ \A k \in Kinds : EvidenceFits(evidence'[x], after, rl, base, k)
    BY <2>2, <1>7, EvidenceStillFits
  <2>5. RecordsFit(records'[x], after, base)
    BY <2>1, <2>3, <1>6, <1>7, RecordsStillFit
  <2>6. evidence'[x] \in [Kinds -> Evidence \cup {None}]
    <3>1. \A k \in Kinds : ObservationsOf(after, rl)[k] \in Evidence \cup {None}
      BY <2>1, ObservationsTyped DEF ObservationsOf
    <3> QED
      BY <3>1, <2>2, <1>6, SynchronizedTyped
  <2>7. SynchronizeResultRecords(claims, after) = [k \in Kinds |-> TaggedLevels(after, k)]
    BY SynchronizedLevels
  <2>8. /\ records'[x] = [k \in Kinds |-> records'[x][k]]
        /\ \A k \in Kinds : DOMAIN records'[x][k] = Levels
    BY <2>3, <2>7, <1>6 DEF TaggedLevels
  <2> QED
    BY <2>1, <2>4, <2>5, <2>6, <2>8, <1>6, <1>11
<1>13. CASE x \in Removals(r, s)
  <2>1. /\ x \notin E /\ x \notin DOMAIN s /\ RoundOf[x] = r /\ after = None /\ baselineRow'[x] = base
    BY <1>2, <1>3, <1>8, <1>9, <1>10, <1>13
  <2>2. evidence'[x] = SynchronizeObservations(known, ObservationsOf(stored, rl), ObservationsOf(after, rl))
    BY <2>1, <1>2, <1>5, <1>8, <1>13 DEF ReconcileSnapshot, ObservationsOf
  <2>3. records'[x] = [k \in Kinds |-> NoRecord]
    BY <2>1, <1>13, WithdrawnRecords DEF SynchronizeRecords
  <2>4. RoundOf[x] \in reruled \/ \A k \in Kinds : EvidenceFits(evidence'[x], after, rl, base, k)
    BY <2>2, <1>7, EvidenceStillFits
  <2>5. RecordsFit(records'[x], after, base)
    BY <2>1, <2>3 DEF RecordsFit, RecordsOf
  <2>6. evidence'[x] \in [Kinds -> Evidence \cup {None}]
    <3>1. \A k \in Kinds : ObservationsOf(after, rl)[k] \in Evidence \cup {None}
      BY <2>1 DEF ObservationsOf, NoObservation
    <3> QED
      BY <3>1, <2>2, <1>6, SynchronizedTyped
  <2> QED
    BY <2>1, <2>3, <2>4, <2>5, <2>6, <1>6, <1>11 DEF NoRecord
<1>14. CASE x \notin E /\ x \notin Removals(r, s)
  <2>1. evidence'[x] = known /\ records'[x] = claims
    BY <1>5, <1>8, <1>14 DEF ReconcileSnapshot, SynchronizeRecords
  <2>2. CASE IsInitial(r) /\ x \in DOMAIN s
    <3>1. baselineRow'[x] = s[x] /\ after = s[x] /\ stored = None
      BY <2>2, <1>3, <1>4, <1>8, <1>9, <1>14
    <3>2. RoundOf[x] \in reruled \/ \A k \in Kinds : known[k] = None
      BY <3>1, <1>7 DEF EvidenceFits, ObservationsOf, NoObservation
    <3>3. \A k \in Kinds : claims[k] = NoRecord
      BY <3>1, <1>7 DEF RecordsFit, RecordsOf
    <3>4. RecordsFit(claims, after, baselineRow'[x])
      BY <3>1, <3>3, <2>2, <1>4 DEF RecordsFit
    <3>5. RoundOf[x] \in reruled \/ \A k \in Kinds : EvidenceFits(known, after, rl, baselineRow'[x], k)
      BY <3>1, <3>2, <2>2, <1>4 DEF EvidenceFits
    <3> QED
      BY <3>1, <3>4, <3>5, <2>1, <2>2, <1>4, <1>6, <1>11
  <2>3. CASE ~(IsInitial(r) /\ x \in DOMAIN s)
    <3>1. baselineRow'[x] = base
      BY <2>3, <1>2, <1>8
    <3>2. after = stored
      BY <2>3, <1>2, <1>3, <1>4, <1>9, <1>10, <1>14 DEF Differing
    <3> QED
      BY <3>1, <3>2, <2>1, <1>6, <1>7, <1>11
  <2> QED
    BY <2>2, <2>3
<1> QED
  BY <1>12, <1>13, <1>14

LEMMA SourcesStay ==
  ASSUME SourcesInv,
         UNCHANGED <<ingestionVars, reruled, baselineRow, listed, returned>>,
         shown' \in [Results -> Rows \cup {None}], format' \in [Rounds -> Formats]
  PROVE  SourcesInv'
<1> USE DEF ingestionVars
<1>1. IngestionTypes'
  BY DEF SourcesInv, IngestionTypes
<1>2. RuledInv'
  BY DEF SourcesInv, RuledInv, IsInitial, Stored
<1>3. EvidenceFollowsSources'
  BY DEF SourcesInv, EvidenceFollowsSources, Previous
<1>4. RecordsFollowSources'
  BY DEF SourcesInv, RecordsFollowSources, Previous
<1> QED
  BY <1>1, <1>2, <1>3, <1>4 DEF SourcesInv

LEMMA SnapshotProcessed ==
  ASSUME SourcesInv, NEW r \in Rounds, NEW s \in Of(r), NEW recent,
         ProcessRoundSnapshot(r, s, recent),
         baselineRow' = [x \in Results |->
           IF ~IsDuplicate(r, s) /\ IsInitial(r) /\ x \in DOMAIN s \ Evaluated(r, s, recent)
           THEN s[x] ELSE baselineRow[x]],
         UNCHANGED <<shown, format, reruled, listed, returned>>
  PROVE  SourcesInv'
<1>1. IngestionTypes
  BY DEF SourcesInv
<1>2. CASE IsDuplicate(r, s)
  <2>1. baselineRow' = baselineRow
    BY <1>1, <1>2 DEF IngestionTypes
  <2>2. UNCHANGED ingestionVars
    BY <1>2 DEF ProcessRoundSnapshot, ingestionVars
  <2> QED
    BY <2>1, <2>2, <1>1, SourcesStay DEF IngestionTypes
<1>3. CASE ~IsDuplicate(r, s)
  <2>1. /\ PersistStates(r, s) /\ ReconcileSnapshot(r, s, recent) /\ SynchronizeRecords(r, s, recent)
        /\ seen' = seen \cup {<<r, s>>}
        /\ UNCHANGED <<rule, polled, apiEvidence, apiRecords>>
    BY <1>3 DEF ProcessRoundSnapshot
  <2>2. \A x \in Results :
          /\ SubscriptionFollows(x)'
          /\ evidence'[x] \in [Kinds -> Evidence \cup {None}]
          /\ records'[x] = [k \in Kinds |-> records'[x][k]]
          /\ \A k \in Kinds : DOMAIN records'[x][k] = Levels
          /\ baselineRow'[x] \in Rows \cup {None}
    <3>1. ASSUME NEW x \in Results
          PROVE  baselineRow'[x] = IF IsInitial(r) /\ x \in DOMAIN s \ Evaluated(r, s, recent)
                                   THEN s[x] ELSE baselineRow[x]
      BY <1>3
    <3> QED
      BY <3>1, <2>1, ResultProcessed
  <2>3. table' \in [Results -> [row : Rows, active : BOOLEAN] \cup {None}]
    BY <2>1, <1>1, PersistedRows
  <2>4. evidence' \in [Results -> [Kinds -> Evidence \cup {None}]]
    BY <2>1, <2>2 DEF ReconcileSnapshot
  <2>5. records' = [x \in Results |-> [k \in Kinds |-> records'[x][k]]]
    <3>1. records' = [x \in Results |-> records'[x]]
      BY <2>1 DEF SynchronizeRecords
    <3> QED
      BY <3>1, <2>2
  <2>6. baselineRow' \in [Results -> Rows \cup {None}]
    BY <2>2
  <2>7. seen' \subseteq {p \in Rounds \X Snapshots : p[2] \in Of(p[1])}
    <3>1. <<r, s>> \in Rounds \X Snapshots
      BY SnapshotTyped
    <3> QED
      BY <3>1, <2>1, <1>1 DEF IngestionTypes
  <2>8. IngestionTypes'
    BY <2>1, <2>2, <2>3, <2>4, <2>5, <2>6, <2>7, <1>1 DEF IngestionTypes
  <2>9. \A x \in Results : PollerFollows(x)'
    <3>1. \A x \in Results : PollerFollows(x)
      BY FollowsByResult DEF SourcesInv
    <3> QED
      BY <3>1, <2>1 DEF PollerFollows
  <2>10. (EvidenceFollowsSources /\ RecordsFollowSources)'
    BY <2>2, <2>9, FollowsByResultNext
  <2>11. RuledInv'
    <3>1. \A q \in Results : table[q] # None => table'[q] # None
      BY <2>1, <1>1, PersistedRows
    <3> QED
      BY <3>1 DEF SourcesInv, RuledInv, IsInitial, Stored, ResultsOf
  <2> QED
    BY <2>8, <2>10, <2>11 DEF SourcesInv
<1> QED
  BY <1>2, <1>3

LEMMA RulesPersisted ==
  ASSUME SourcesInv, NEW found \in SUBSET Rounds, PersistRules(found),
         UNCHANGED <<shown, format, baselineRow, listed, returned>>
  PROVE  SourcesInv'
<1>1. /\ rule' = [r \in Rounds |-> IF r \in found THEN format[r] ELSE rule[r]]
      /\ reruled' = reruled \cup {r \in found : rule[r] # format[r] /\ ~IsInitial(r)}
      /\ UNCHANGED <<seen, table, evidence, records, polled, apiEvidence, apiRecords>>
  BY DEF PersistRules
<1>2. IngestionTypes
  BY DEF SourcesInv
<1>3. IngestionTypes'
  BY <1>1, <1>2 DEF IngestionTypes
<1>4. RuledInv'
  BY <1>1 DEF SourcesInv, RuledInv, IsInitial, Stored
<1>5. ASSUME NEW x \in Results
      PROVE  SubscriptionFollows(x)' /\ PollerFollows(x)'
  <2>1. SubscriptionFollows(x) /\ PollerFollows(x)
    BY FollowsByResult DEF SourcesInv
  <2>2. PollerFollows(x)'
    BY <2>1, <1>1 DEF PollerFollows
  <2>3. Previous(x)' = Previous(x)
    BY <1>1 DEF Previous
  <2>4. PICK q : q = RoundOf[x]
    OBVIOUS
  <2>5. q \in Rounds
    BY <2>4, NoneIsNoRow
  <2>6. RecordsFit(records'[x], Previous(x)', baselineRow'[x])
    BY <2>1, <2>3, <1>1 DEF SubscriptionFollows
  <2>7. CASE q \in reruled'
    BY <2>2, <2>4, <2>6, <2>7 DEF SubscriptionFollows
  <2>8. CASE q \notin reruled' /\ IsInitial(q)
    <3>1. table[x] = None
      BY <2>4, <2>8 DEF IsInitial, Stored, ResultsOf
    <3>2. Previous(x) = None
      BY <3>1, <1>2, PreviousTyped
    <3>3. q \notin reruled
      BY <2>8, <1>1
    <3>4. \A k \in Kinds : EvidenceFits(evidence[x], None, rule[q], baselineRow[x], k)
      BY <2>1, <2>4, <3>2, <3>3 DEF SubscriptionFollows
    <3>5. \A k \in Kinds : evidence[x][k] = None
      BY <3>4 DEF EvidenceFits, ObservationsOf, NoObservation
    <3>6. \A k \in Kinds : EvidenceFits(evidence'[x], None, rule'[q], baselineRow'[x], k)
      BY <3>5, <1>1 DEF EvidenceFits, ObservationsOf, NoObservation
    <3> QED
      BY <3>6, <3>2, <2>2, <2>3, <2>4, <2>6 DEF SubscriptionFollows
  <2>9. CASE q \notin reruled' /\ ~IsInitial(q)
    <3>1. q \notin reruled /\ rule'[q] = rule[q]
      BY <2>5, <2>9, <1>1, <1>2 DEF IngestionTypes
    <3>2. \A k \in Kinds : EvidenceFits(evidence[x], Previous(x), rule[q], baselineRow[x], k)
      BY <2>1, <2>4, <3>1 DEF SubscriptionFollows
    <3>3. \A k \in Kinds : EvidenceFits(evidence'[x], Previous(x)', rule'[q], baselineRow'[x], k)
      BY <3>1, <3>2, <2>3, <1>1
    <3> QED
      BY <3>3, <2>2, <2>4, <2>6 DEF SubscriptionFollows
  <2> QED
    BY <2>2, <2>7, <2>8, <2>9
<1>6. (EvidenceFollowsSources /\ RecordsFollowSources)'
  BY <1>5, FollowsByResultNext
<1> QED
  BY <1>3, <1>4, <1>6 DEF SourcesInv

(***************************************************************************)
(* The poller.                                                             *)
(***************************************************************************)

EntryOf(x, k) == RecordEntry(x, k, shown[x], format[RoundOf[x]])
IsListed(x, k, list) == EntryOf(x, k) \in list

LEMMA EntriesOfResult ==
  ASSUME IngestionTypes, NEW x \in Results, NEW k \in Kinds
  PROVE  /\ \A e \in RecentRecords : e.result = x /\ e.kind = k => e = EntryOf(x, k)
         /\ EntryOf(x, k).result = x /\ EntryOf(x, k).kind = k
         /\ EntryOf(x, k).row = shown[x] /\ EntryOf(x, k).rule = format[RoundOf[x]]
         /\ EntryOf(x, k) \in RecentRecords =>
              /\ EntryOf(x, k) \in [result : Results, kind : Kinds, row : Rows, rule : Formats]
              /\ EntryOf(x, k) # None
<1>1. \A e \in RecentRecords : \E p \in Results \X Kinds :
        e = EntryOf(p[1], p[2]) /\ shown[p[1]] # None
  BY DEF RecentRecords, EntryOf
<1>2. \A y, j : EntryOf(y, j).result = y /\ EntryOf(y, j).kind = j
  BY DEF EntryOf, RecordEntry
<1>3. \A e \in RecentRecords : e.result = x /\ e.kind = k => e = EntryOf(x, k) /\ shown[x] # None
  BY <1>1, <1>2
<1>4. /\ EntryOf(x, k).row = shown[x] /\ EntryOf(x, k).rule = format[RoundOf[x]]
      /\ EntryOf(x, k) = [result |-> x, kind |-> k, row |-> shown[x], rule |-> format[RoundOf[x]]]
  BY DEF EntryOf, RecordEntry
<1>5. EntryOf(x, k) \in RecentRecords => shown[x] \in Rows
  BY <1>2, <1>3 DEF IngestionTypes
<1>6. format[RoundOf[x]] \in Formats
  BY NoneIsNoRow DEF IngestionTypes
<1>7. EntryOf(x, k) \in RecentRecords => EntryOf(x, k) \in [result : Results, kind : Kinds, row : Rows, rule : Formats]
  BY <1>4, <1>5, <1>6
<1> QED
  BY <1>2, <1>3, <1>4, <1>7, NoneIsNoRow

LEMMA PolledResult ==
  ASSUME IngestionTypes, NEW list \in SUBSET RecentRecords, PollRecords(list), NEW x \in Results, NEW k \in Kinds
  PROVE  /\ listed'[x][k] = IF IsListed(x, k, list) THEN EntryOf(x, k) ELSE listed[x][k]
         /\ <<x, k>> \in returned' <=>
              IF ~IsListed(x, k, list) \/ EntryOf(x, k) = listed[x][k] THEN <<x, k>> \in returned
              ELSE EntryOf(x, k) \in polled
         /\ apiRecords'[x][k] =
              IF IsListed(x, k, list) /\ EntryOf(x, k) \notin polled
              THEN TaggedRecords(shown[x])[k] ELSE apiRecords[x][k]
         /\ apiEvidence'[x][k] =
              IF IsListed(x, k, list) /\ EntryOf(x, k) \notin polled
              THEN ResultObservations(shown[x], format[RoundOf[x]])[k] ELSE apiEvidence[x][k]
<1> DEFINE entries(y, j) == {e \in list : e.result = y /\ e.kind = j}
           last(y, j) == IF entries(y, j) = {} THEN listed[y][j] ELSE CHOOSE e \in entries(y, j) : TRUE
           fresh == NewEntries(list)
           entry(y, j) == CHOOSE e \in fresh : e.result = y /\ e.kind = j
           hit(y, j) == \E e \in fresh : e.result = y /\ e.kind = j
<1>1. /\ listed' = [y \in Results |-> [j \in Kinds |-> last(y, j)]]
      /\ returned' = {p \in Results \X Kinds :
           IF last(p[1], p[2]) = listed[p[1]][p[2]] THEN p \in returned
           ELSE last(p[1], p[2]) \in polled}
  BY DEF PollRecords
<1>2. /\ apiRecords' = [y \in Results |-> [j \in Kinds |->
           IF hit(y, j) THEN SynchronizeResultRecords(apiRecords[y], entry(y, j).row)[j]
           ELSE apiRecords[y][j]]]
      /\ apiEvidence' = [y \in Results |-> [j \in Kinds |->
           IF hit(y, j) THEN ReconcileCandidate(entry(y, j)) ELSE apiEvidence[y][j]]]
  BY DEF PollRecords, PollRecentRecords
<1>3. /\ list \subseteq RecentRecords
      /\ \A e \in list : e.result = x /\ e.kind = k => e = EntryOf(x, k)
      /\ EntryOf(x, k).result = x /\ EntryOf(x, k).kind = k
      /\ EntryOf(x, k).row = shown[x] /\ EntryOf(x, k).rule = format[RoundOf[x]]
  BY EntriesOfResult
<1>4. entries(x, k) = IF IsListed(x, k, list) THEN {EntryOf(x, k)} ELSE {}
  BY <1>3 DEF IsListed
<1>5. last(x, k) = IF IsListed(x, k, list) THEN EntryOf(x, k) ELSE listed[x][k]
  <2>1. CASE IsListed(x, k, list)
    <3>1. entries(x, k) = {EntryOf(x, k)}
      BY <1>4, <2>1
    <3>2. (CHOOSE e \in {EntryOf(x, k)} : TRUE) = EntryOf(x, k)
      OBVIOUS
    <3> HIDE DEF entries
    <3> QED
      BY <3>1, <3>2, <2>1
  <2>2. CASE ~IsListed(x, k, list)
    <3>1. entries(x, k) = {}
      BY <1>4, <2>2
    <3> HIDE DEF entries
    <3> QED
      BY <3>1, <2>2
  <2> QED
    BY <2>1, <2>2
<1>6. hit(x, k) <=> IsListed(x, k, list) /\ EntryOf(x, k) \notin polled
  BY <1>3 DEF IsListed, NewEntries
<1>7. hit(x, k) => entry(x, k) = EntryOf(x, k)
  <2>1. \A e \in fresh : e.result = x /\ e.kind = k => e = EntryOf(x, k)
    BY <1>3 DEF NewEntries
  <2> HIDE DEF fresh
  <2> QED
    BY <2>1
<1> HIDE DEF last, hit, entry
<1>8. listed'[x][k] = last(x, k)
  BY <1>1
<1>9. <<x, k>> \in returned' <=> IF last(x, k) = listed[x][k] THEN <<x, k>> \in returned ELSE last(x, k) \in polled
  BY <1>1
<1>10. apiRecords'[x][k] = IF hit(x, k) THEN SynchronizeResultRecords(apiRecords[x], entry(x, k).row)[k]
                           ELSE apiRecords[x][k]
  BY <1>2
<1>11. apiEvidence'[x][k] = IF hit(x, k) THEN ReconcileCandidate(entry(x, k)) ELSE apiEvidence[x][k]
  BY <1>2
<1>12. hit(x, k) => SynchronizeResultRecords(apiRecords[x], entry(x, k).row)[k] = TaggedRecords(shown[x])[k]
  BY <1>3, <1>7, SynchronizedRecords
<1>13. hit(x, k) => ReconcileCandidate(entry(x, k)) = ResultObservations(shown[x], format[RoundOf[x]])[k]
  BY <1>3, <1>7 DEF ReconcileCandidate, CandidateIsFinalized, ResultObservations
<1> QED
  BY <1>5, <1>6, <1>8, <1>9, <1>10, <1>11, <1>12, <1>13

LEMMA PollKeeps ==
  ASSUME SourcesInv, NEW list \in SUBSET RecentRecords, PollRecords(list)
  PROVE  SourcesInv'
<1>1. IngestionTypes /\ UNCHANGED <<rule, seen, table, evidence, records, shown, format, baselineRow, reruled>>
  BY DEF SourcesInv, PollRecords, PollRecentRecords, providerVars
<1>2. ASSUME NEW x \in Results
      PROVE  PollerFollows(x)'
  <2>1. SUFFICES ASSUME NEW k \in Kinds, <<x, k>> \notin returned'
                 PROVE  /\ apiEvidence'[x][k] = IF listed'[x][k] = None THEN None
                             ELSE ResultObservations(listed'[x][k].row, listed'[x][k].rule)[k]
                        /\ apiRecords'[x][k] = IF listed'[x][k] = None THEN NoRecord
                             ELSE TaggedRecords(listed'[x][k].row)[k]
    BY DEF PollerFollows
  <2>2. <<x, k>> \in returned \/
          /\ apiEvidence[x][k] = IF listed[x][k] = None THEN None
                                 ELSE ResultObservations(listed[x][k].row, listed[x][k].rule)[k]
          /\ apiRecords[x][k] = IF listed[x][k] = None THEN NoRecord ELSE TaggedRecords(listed[x][k].row)[k]
    BY FollowsByResult DEF SourcesInv, PollerFollows
  <2>3. /\ EntryOf(x, k).row = shown[x] /\ EntryOf(x, k).rule = format[RoundOf[x]]
        /\ IsListed(x, k, list) => EntryOf(x, k) # None
    BY <1>1, EntriesOfResult DEF IsListed
  <2>4. /\ listed'[x][k] = IF IsListed(x, k, list) THEN EntryOf(x, k) ELSE listed[x][k]
        /\ <<x, k>> \in returned' <=>
             IF ~IsListed(x, k, list) \/ EntryOf(x, k) = listed[x][k] THEN <<x, k>> \in returned
             ELSE EntryOf(x, k) \in polled
        /\ apiRecords'[x][k] =
             IF IsListed(x, k, list) /\ EntryOf(x, k) \notin polled
             THEN TaggedRecords(shown[x])[k] ELSE apiRecords[x][k]
        /\ apiEvidence'[x][k] =
             IF IsListed(x, k, list) /\ EntryOf(x, k) \notin polled
             THEN ResultObservations(shown[x], format[RoundOf[x]])[k] ELSE apiEvidence[x][k]
    BY <1>1, PolledResult
  <2>5. CASE IsListed(x, k, list) /\ EntryOf(x, k) \notin polled
    BY <2>3, <2>4, <2>5
  <2>6. CASE ~(IsListed(x, k, list) /\ EntryOf(x, k) \notin polled)
    <3>1. listed'[x][k] = listed[x][k] /\ <<x, k>> \notin returned
      BY <2>1, <2>4, <2>6
    <3>2. apiRecords'[x][k] = apiRecords[x][k] /\ apiEvidence'[x][k] = apiEvidence[x][k]
      BY <2>4, <2>6
    <3> QED
      BY <3>1, <3>2, <2>2
  <2> QED
    BY <2>5, <2>6
<1>3. ASSUME NEW x \in Results, NEW k \in Kinds
      PROVE  /\ listed'[x][k] \in [result : Results, kind : Kinds, row : Rows, rule : Formats] \cup {None}
             /\ apiEvidence'[x][k] \in Evidence \cup {None}
             /\ DOMAIN apiRecords'[x][k] = Levels
  <2>1. /\ listed'[x][k] = IF IsListed(x, k, list) THEN EntryOf(x, k) ELSE listed[x][k]
        /\ apiRecords'[x][k] =
             IF IsListed(x, k, list) /\ EntryOf(x, k) \notin polled
             THEN TaggedRecords(shown[x])[k] ELSE apiRecords[x][k]
        /\ apiEvidence'[x][k] =
             IF IsListed(x, k, list) /\ EntryOf(x, k) \notin polled
             THEN ResultObservations(shown[x], format[RoundOf[x]])[k] ELSE apiEvidence[x][k]
    BY <1>1, PolledResult
  <2>2. IsListed(x, k, list) => /\ EntryOf(x, k) \in [result : Results, kind : Kinds, row : Rows, rule : Formats]
                          /\ EntryOf(x, k).row = shown[x]
    BY <1>1, EntriesOfResult DEF IsListed
  <2>3. IsListed(x, k, list) => shown[x] \in Rows
    BY <2>2
  <2>4. DOMAIN TaggedRecords(shown[x])[k] = Levels
    BY TaggedShape DEF TaggedLevels
  <2>5. IsListed(x, k, list) => ResultObservations(shown[x], format[RoundOf[x]])[k] \in Evidence \cup {None}
    BY <2>3, ObservationsTyped
  <2> QED
    BY <2>1, <2>2, <2>4, <2>5, <1>1 DEF IngestionTypes
<1>4. /\ listed' = [x \in Results |-> [k \in Kinds |-> listed'[x][k]]]
      /\ apiRecords' = [x \in Results |-> [k \in Kinds |-> apiRecords'[x][k]]]
      /\ apiEvidence' = [x \in Results |-> [k \in Kinds |-> apiEvidence'[x][k]]]
  BY DEF PollRecords, PollRecentRecords
<1>5. /\ listed' \in [Results -> [Kinds -> [result : Results, kind : Kinds, row : Rows, rule : Formats] \cup {None}]]
      /\ apiEvidence' \in [Results -> [Kinds -> Evidence \cup {None}]]
  BY <1>3, <1>4
<1>6. IngestionTypes'
  BY <1>1, <1>3, <1>4, <1>5 DEF IngestionTypes
<1>7. \A x \in Results : SubscriptionFollows(x)'
  BY <1>1, FollowsByResult DEF SourcesInv, SubscriptionFollows, Previous
<1>8. (EvidenceFollowsSources /\ RecordsFollowSources)'
  BY <1>2, <1>7, FollowsByResultNext
<1>9. RuledInv'
  BY <1>1 DEF SourcesInv, RuledInv, IsInitial, Stored
<1> QED
  BY <1>6, <1>8, <1>9 DEF SourcesInv

(***************************************************************************)
(* The newest snapshot, step by step.                                      *)
(***************************************************************************)

LEMMA LossesGrow ==
  ASSUME SessionLosses
  PROVE  missed \subseteq missed'
  BY DEF SessionLosses

LEMMA NoPendingMissed ==
  ASSUME PendingMissed, missed \subseteq missed', UNCHANGED wire,
         pc' = "await_subscribed" => UNCHANGED <<pc, pending, asking>>
  PROVE  PendingMissed'
  BY DEF PendingMissed

\* Nothing is read, sent or processed.
LEMMA ToldStays ==
  ASSUME ToldUnlessMissed, missed \subseteq missed', UNCHANGED <<wire, queue, mapped, shown, table, repeated>>
  PROVE  ToldUnlessMissed'
<1>1. ASSUME NEW r \in Rounds, Told(r)
      PROVE  Told(r)'
  <2>1. /\ Snapshot(r)' = Snapshot(r)
        /\ IsCurrent(r)' <=> IsCurrent(r)
    BY DEF IsCurrent, Mirrored, Snapshot, Previous
  <2>2. /\ WireTells(r) => WireTells(r)'
        /\ NothingOnWire(r) => NothingOnWire(r)'
        /\ QueueTells(r) => QueueTells(r)'
        /\ NothingQueued(r) => NothingQueued(r)'
        /\ TableTells(r) => TableTells(r)'
    BY <2>1 DEF WireTells, NothingOnWire, QueueTells, NothingQueued, TableTells, Accepted
  <2> QED
    BY <1>1, <2>2 DEF Told
<1> QED
  BY <1>1 DEF ToldUnlessMissed

\* The wire gets frames the client will not take for the round.
LEMMA WireGrows ==
  ASSUME NEW r, Told(r), Snapshot(r)' = Snapshot(r), UNCHANGED <<queue, table, repeated>>,
         Len(wire) \in Nat, Len(wire') \in Nat, Len(wire) <= Len(wire'),
         \A i \in 1..Len(wire) : wire'[i] = wire[i] /\ (Accepted(wire[i], r)' <=> Accepted(wire[i], r)),
         \A i \in 1..Len(wire') : i \in 1..Len(wire) \/ ~Accepted(wire[i], r)'
  PROVE  Told(r)'
<1>1. ASSUME WireTells(r)
      PROVE  WireTells(r)'
  <2>1. PICK i \in 1..Len(wire) :
          /\ Accepted(wire[i], r)
          /\ \A j \in i..Len(wire) : Accepted(wire[j], r) => wire[j].data = Snapshot(r)
    BY <1>1 DEF WireTells
  <2>2. i \in 1..Len(wire') /\ Accepted(wire[i], r)'
    BY <2>1
  <2>3. ASSUME NEW j \in i..Len(wire'), Accepted(wire[j], r)'
        PROVE  wire'[j].data = Snapshot(r)'
    <3>1. j \in 1..Len(wire')
      BY <2>1
    <3>2. j \in 1..Len(wire)
      BY <3>1, <2>3
    <3>3. j \in i..Len(wire)
      BY <3>2, <2>3
    <3> QED
      BY <3>2, <3>3, <2>1, <2>3
  <2> QED
    BY <2>2, <2>3 DEF WireTells
<1>2. NothingOnWire(r) => NothingOnWire(r)'
  BY DEF NothingOnWire
<1>3. QueueTells(r) => QueueTells(r)'
  BY DEF QueueTells
<1>4. NothingQueued(r) => NothingQueued(r)'
  BY DEF NothingQueued
<1>5. TableTells(r) => TableTells(r)'
  BY DEF TableTells, IsCurrent, Mirrored, Previous
<1> QED
  BY <1>1, <1>2, <1>3, <1>4, <1>5 DEF Told

\* A session ends: what it had not told is missed.
LEMMA NothingToldByClosed ==
  ASSUME ShapeInv, ToldUnlessMissed, CloseClient, SessionLosses, UNCHANGED <<shown, table, repeated>>,
         pc' # "await_subscribed"
  PROVE  CurrentInv'
<1>1. wire' = <<>> /\ queue' = <<>> /\ link' = "none"
  BY DEF CloseClient
<1>2. \A r : NothingOnWire(r)' /\ NothingQueued(r)'
  BY <1>1, NothingIsEmpty DEF NothingOnWire, NothingQueued
<1>3. ASSUME NEW r \in Rounds \ missed'
      PROVE  TableTells(r)
  <2>1. r \notin missed
    BY <1>3, LossesGrow
  <2>2. CASE link # "none"
    BY <1>1, <1>3, <2>2 DEF SessionLosses, Stale, TableTells
  <2>3. CASE link = "none"
    <3>1. wire = <<>> /\ queue = <<>>
      BY <2>3 DEF ShapeInv, Stage
    <3>2. ~WireTells(r) /\ ~QueueTells(r)
      BY <3>1, NothingIsEmpty DEF WireTells, QueueTells
    <3> QED
      BY <3>2, <2>1 DEF ToldUnlessMissed, Told
  <2> QED
    BY <2>2, <2>3
<1>4. \A r \in Rounds \ missed' : TableTells(r)'
  BY <1>3 DEF TableTells, IsCurrent, Mirrored, Snapshot, Previous
<1>5. ToldUnlessMissed'
  BY <1>2, <1>4 DEF ToldUnlessMissed, Told
<1> QED
  BY <1>5 DEF CurrentInv, PendingMissed

\* The provider answers a request.
LEMMA ReplyTold ==
  ASSUME ShapeInv, CurrentInv, requests # <<>>, missed \subseteq missed', NEW answer \in {"ok", "refused"},
         wire' = Append(wire, ReplyFrame(Head(requests).ref, answer)),
         UNCHANGED <<pc, pending, asking, mapped, queue, shown, table, repeated>>
  PROVE  CurrentInv'
<1>1. Types /\ Maps /\ Queues
  BY DEF ShapeInv
<1>2. ReplyFrame(Head(requests).ref, answer) \in Frames(refs)
  <2>1. Head(requests) \in Requests(refs)
    BY <1>1, TailElements DEF Queues
  <2> QED
    BY <2>1 DEF ReplyFrame, Frames, Requests
<1>3. /\ Len(wire) \in Nat /\ wire' \in Seq(Frames(refs)) /\ Len(wire') = Len(wire) + 1
      /\ \A i \in 1..Len(wire) : wire'[i] = wire[i]
      /\ wire'[Len(wire) + 1] = ReplyFrame(Head(requests).ref, answer)
  BY <1>1, <1>2, AppendElements DEF Queues
<1>4. wire'[Len(wire) + 1].kind # "data"
  BY <1>3 DEF ReplyFrame
<1>5. \A i \in 1..Len(wire') : i \in 1..Len(wire) \/ i = Len(wire) + 1
  BY <1>3
<1>6. Len(wire') \in Nat /\ Len(wire) <= Len(wire')
  BY <1>3
<1>7. ASSUME NEW r \in Rounds, Told(r)
      PROVE  Told(r)'
  <2>1. Snapshot(r)' = Snapshot(r)
    BY DEF Snapshot
  <2>2. \A i \in 1..Len(wire) : wire'[i] = wire[i] /\ (Accepted(wire[i], r)' <=> Accepted(wire[i], r))
    BY <1>3 DEF Accepted
  <2>3. \A i \in 1..Len(wire') : i \in 1..Len(wire) \/ ~Accepted(wire[i], r)'
    BY <1>4, <1>5 DEF Accepted
  <2> QED
    BY <1>3, <1>6, <1>7, <2>1, <2>2, <2>3, WireGrows
<1>8. ToldUnlessMissed'
  BY <1>7 DEF CurrentInv, ToldUnlessMissed
<1>9. PendingMissed'
  BY <1>3, <1>4, <1>5 DEF CurrentInv, PendingMissed, IsData
<1> QED
  BY <1>8, <1>9 DEF CurrentInv

\* The connection breaks; rounds with frames that are lost are missed.
LEMMA BreakTold ==
  ASSUME ShapeInv, CurrentInv, NEW kept, Break(kept), SessionLosses, UNCHANGED <<shown, table, repeated>>
  PROVE  CurrentInv'
<1>1. /\ link = "open" /\ link' = "broken" /\ kept \in 0..Len(wire) /\ wire' = SubSeq(wire, 1, kept)
      /\ UNCHANGED <<pc, asking, pending, mapped, queue>>
  BY DEF Break, dbVars, supervisorVars, clientVars
<1>2. /\ Len(wire') = kept /\ Len(wire) \in Nat
      /\ \A i \in 1..Len(wire') : wire'[i] = wire[i] /\ i \in 1..Len(wire)
  <2>1. wire \in Seq(Frames(refs)) /\ Len(wire) \in Nat
    BY SeqElements DEF ShapeInv, Queues
  <2>2. wire' \in Seq(Frames(refs)) /\ Len(wire') = kept /\ \A i \in 1..kept : wire'[i] = wire[i]
    BY <2>1, <1>1, SubSeqElements
  <2> QED
    BY <2>1, <2>2, <1>1
<1>3. missed' = missed \cup OnWire(Len(wire'))
  BY <1>1 DEF SessionLosses
<1>4. ASSUME NEW r \in Rounds \ missed'
      PROVE  Told(r)'
  <2>1. Told(r)
    BY <1>3, <1>4 DEF CurrentInv, ToldUnlessMissed
  <2>2. \A i \in (kept + 1)..Len(wire) : ~Accepted(wire[i], r)
    BY <1>2, <1>3, <1>4 DEF OnWire, Accepted
  <2>3. Snapshot(r)' = Snapshot(r)
    BY DEF Snapshot
  <2>4. \A i \in 1..Len(wire') : Accepted(wire[i], r)' <=> Accepted(wire[i], r)
    BY <1>1, <1>2 DEF Accepted
  <2>5. ASSUME WireTells(r)
        PROVE  WireTells(r)'
    <3>1. PICK i \in 1..Len(wire) :
            /\ Accepted(wire[i], r)
            /\ \A j \in i..Len(wire) : Accepted(wire[j], r) => wire[j].data = Snapshot(r)
      BY <2>5 DEF WireTells
    <3>2. i \in 1..Len(wire')
      BY <3>1, <2>2, <1>1, <1>2
    <3>3. \A j \in i..Len(wire') : j \in 1..Len(wire') /\ j \in i..Len(wire)
      BY <3>1, <1>1, <1>2
    <3>4. Accepted(wire[i], r)'
      BY <3>1, <3>2, <2>4
    <3>5. \A j \in i..Len(wire') : Accepted(wire[j], r)' => wire'[j].data = Snapshot(r)'
      BY <3>1, <3>3, <2>3, <2>4, <1>2
    <3> QED
      BY <3>2, <3>4, <3>5 DEF WireTells
  <2>6. NothingOnWire(r) => NothingOnWire(r)'
    BY <2>4, <1>2 DEF NothingOnWire
  <2>7. /\ QueueTells(r) => QueueTells(r)'
        /\ NothingQueued(r) => NothingQueued(r)'
    BY <2>3, <1>1 DEF QueueTells, NothingQueued
  <2>8. TableTells(r) => TableTells(r)'
    BY <2>3 DEF TableTells, IsCurrent, Mirrored, Previous
  <2> QED
    BY <2>1, <2>5, <2>6, <2>7, <2>8 DEF Told
<1>5. ToldUnlessMissed'
  BY <1>4 DEF ToldUnlessMissed
<1>6. PendingMissed'
  BY <1>1, <1>2, <1>3 DEF CurrentInv, PendingMissed, IsData
<1> QED
  BY <1>5, <1>6 DEF CurrentInv

\* The client learns of a subscription: what came before was missed.
LEMMA ResumeTold ==
  ASSUME SessionInv, CurrentInv, NEW st, Resume(st), missed \subseteq missed', UNCHANGED <<shown, table, repeated>>
  PROVE  CurrentInv'
<1>1. /\ pc = "await_subscribed" /\ mapped' = With(mapped, pending, asking) /\ pc' = "subscribe"
      /\ UNCHANGED <<queue, wire>>
  BY DEF Resume, networkVars
<1>2. Len(wire) \in Nat /\ pending \notin DOMAIN mapped
  BY <1>1, WireTyped DEF SessionInv, ShapeInv, AwaitInv, Subscribing
<1>3. /\ DOMAIN mapped' = DOMAIN mapped \cup {pending}
      /\ mapped'[pending] = asking
      /\ \A id \in DOMAIN mapped : mapped'[id] = mapped[id]
  BY <1>1, <1>2 DEF With
<1>4. ASSUME NEW r \in Rounds \ missed'
      PROVE  Told(r)'
  <2>1. Told(r)
    BY <1>4 DEF CurrentInv, ToldUnlessMissed
  <2>2. r = asking => \A i \in 1..Len(wire) : ~IsData(wire[i], pending)
    BY <1>1, <1>4 DEF CurrentInv, PendingMissed
  <2>3. \A i \in 1..Len(wire) : Accepted(wire[i], r)' <=> Accepted(wire[i], r)
    BY <2>2, <1>1, <1>2, <1>3 DEF Accepted, IsData
  <2>4. Snapshot(r)' = Snapshot(r)
    BY DEF Snapshot
  <2> QED
    BY <1>1, <1>2, <2>1, <2>3, <2>4, WireGrows
<1>5. ToldUnlessMissed'
  BY <1>4 DEF ToldUnlessMissed
<1> QED
  BY <1>1, <1>5 DEF CurrentInv, PendingMissed

\* The client forgets a subscription: nothing is left of it on the wire.
LEMMA UnsubscribedTold ==
  ASSUME SessionInv, CurrentInv, Unsubscribed, missed \subseteq missed', UNCHANGED <<shown, table, repeated>>
  PROVE  CurrentInv'
<1>1. /\ pc = "await_unsubscribed" /\ reply = "ok" /\ pc' = "unsubscribe"
      /\ mapped' = Without(mapped, {id \in DOMAIN mapped : mapped[id] = asking})
      /\ UNCHANGED <<queue, wire>>
  BY DEF Unsubscribed, networkVars
<1>2. Len(wire) \in Nat
  BY WireTyped DEF SessionInv, ShapeInv
<1>3. PICK d \in DOMAIN mapped : mapped[d] = asking /\ \A i \in 1..Len(wire) : ~IsData(wire[i], d)
  BY <1>1 DEF SessionInv, AwaitInv, Unsubscribing
<1>4. \A id \in DOMAIN mapped : mapped[id] = asking => id = d
  BY <1>3 DEF SessionInv, RefsInv, Injective
<1>5. /\ DOMAIN mapped' = DOMAIN mapped \ {d}
      /\ \A id \in DOMAIN mapped' : mapped'[id] = mapped[id]
  BY <1>1, <1>3, <1>4 DEF Without
<1>6. ASSUME NEW r \in Rounds \ missed'
      PROVE  Told(r)'
  <2>1. Told(r)
    BY <1>6 DEF CurrentInv, ToldUnlessMissed
  <2>2. \A i \in 1..Len(wire) : Accepted(wire[i], r)' <=> Accepted(wire[i], r)
    BY <1>1, <1>3, <1>5 DEF Accepted, IsData
  <2>3. Snapshot(r)' = Snapshot(r)
    BY DEF Snapshot
  <2> QED
    BY <1>1, <1>2, <2>1, <2>2, <2>3, WireGrows
<1>7. ToldUnlessMissed'
  BY <1>6 DEF ToldUnlessMissed
<1> QED
  BY <1>1, <1>7 DEF CurrentInv, PendingMissed

\* A new reference: no frame bears it yet.
LEMMA AskToSubscribeTold ==
  ASSUME SessionInv, CurrentInv, NEW r, AskToSubscribe(r), missed \subseteq missed',
         UNCHANGED <<shown, table, repeated>>
  PROVE  CurrentInv'
<1>1. UNCHANGED <<wire, queue, mapped>> /\ pc = "subscribe"
  BY DEF AskToSubscribe
<1>2. refs \in Nat /\ \A i \in 1..Len(wire) : wire[i].ref \in 1..refs
  BY WireTyped DEF SessionInv, ShapeInv
<1>3. CASE link = "open"
  <2>1. pending' = refs + 1
    BY <1>3 DEF AskToSubscribe, SendRequest
  <2> QED
    BY <2>1, <1>1, <1>2, ToldStays DEF CurrentInv, PendingMissed, IsData
<1>4. CASE link # "open"
  <2>1. pc' = "subscribe"
    BY <1>1, <1>4 DEF AskToSubscribe
  <2> QED
    BY <2>1, <1>1, ToldStays, NoPendingMissed DEF CurrentInv
<1> QED
  BY <1>3, <1>4

\* The queue gets a message of another round.
LEMMA QueueGrows ==
  ASSUME NEW r, Snapshot(r)' = Snapshot(r),
         Len(queue) \in Nat, Len(queue') \in Nat, Len(queue) <= Len(queue'),
         \A i \in 1..Len(queue) : queue'[i] = queue[i],
         \A i \in 1..Len(queue') : i \in 1..Len(queue) \/ queue'[i].round # r
  PROVE  /\ QueueTells(r) => QueueTells(r)'
         /\ NothingQueued(r) => NothingQueued(r)'
<1>1. ASSUME NEW i \in 1..Len(queue), queue[i].round = r,
             \A j \in i..Len(queue) : queue[j].round = r => queue[j].data = Snapshot(r)
      PROVE  QueueTells(r)'
  <2>1. i \in 1..Len(queue') /\ queue'[i].round = r
    BY <1>1
  <2>2. \A j \in i..Len(queue') : j \in 1..Len(queue') /\ (j \in 1..Len(queue) => j \in i..Len(queue))
    OBVIOUS
  <2>3. \A j \in i..Len(queue') : queue'[j].round = r => queue'[j].data = Snapshot(r)
    BY <2>2, <1>1
  <2> QED
    BY <2>1, <2>3 DEF QueueTells
<1>2. QueueTells(r) => QueueTells(r)'
  BY <1>1 DEF QueueTells
<1>3. NothingQueued(r) => NothingQueued(r)'
  BY DEF NothingQueued
<1> QED
  BY <1>2, <1>3

\* A message moves from the wire to the queue, or is dropped.
LEMMA ReadFrameTold ==
  ASSUME SessionInv, CurrentInv, ReadFrame, UNCHANGED <<missed, shown, table, repeated>>
  PROVE  CurrentInv'
<1>1. UNCHANGED <<pc, asking, pending, mapped>>
  BY DEF ReadFrame, supervisorVars
<1>2. /\ Len(wire) \in Nat \ {0} /\ Len(wire') = Len(wire) - 1
      /\ \A i \in 1..Len(wire') : wire'[i] = wire[i + 1] /\ i + 1 \in 1..Len(wire)
      /\ queue' = IF wire[1].kind = "data" /\ wire[1].ref \in DOMAIN mapped
                  THEN Append(queue, [round |-> mapped[wire[1].ref], data |-> wire[1].data]) ELSE queue
      /\ 1 \in 1..Len(wire)
  BY ReadFrameParts
<1>3. queue \in Seq(Messages)
  BY DEF SessionInv, ShapeInv, Queues
<1>4. ASSUME NEW r \in Rounds, Told(r)
      PROVE  Told(r)'
  <2>1. Snapshot(r)' = Snapshot(r)
    BY DEF Snapshot
  <2>2. \A i \in 1..Len(wire') : Accepted(wire[i], r)' <=> Accepted(wire[i + 1], r)
    BY <1>1, <1>2 DEF Accepted
  <2>3. TableTells(r) => TableTells(r)'
    BY <2>1 DEF TableTells, IsCurrent, Mirrored, Previous
  <2>4. NothingOnWire(r) => NothingOnWire(r)'
    BY <1>2, <2>2 DEF NothingOnWire
  <2>5. ASSUME NEW i \in 1..Len(wire), i # 1, Accepted(wire[i], r),
               \A j \in i..Len(wire) : Accepted(wire[j], r) => wire[j].data = Snapshot(r)
        PROVE  WireTells(r)'
    <3>1. PICK h : h = i - 1
      OBVIOUS
    <3>2. h \in 1..Len(wire') /\ h + 1 = i
      BY <3>1, <2>5, <1>2
    <3>3. \A j \in h..Len(wire') : j \in 1..Len(wire') /\ j + 1 \in i..Len(wire)
      BY <3>2, <1>2
    <3>4. Accepted(wire[h], r)'
      BY <3>2, <2>2, <2>5
    <3>5. \A j \in h..Len(wire') : Accepted(wire[j], r)' => wire'[j].data = Snapshot(r)'
      BY <3>3, <2>1, <2>2, <2>5, <1>2
    <3> QED
      BY <3>2, <3>4, <3>5 DEF WireTells
  <2>6. CASE Accepted(wire[1], r)
    <3>1. ~NothingOnWire(r)
      BY <2>6, <1>2 DEF NothingOnWire
    <3>2. PICK i \in 1..Len(wire) :
            /\ Accepted(wire[i], r)
            /\ \A j \in i..Len(wire) : Accepted(wire[j], r) => wire[j].data = Snapshot(r)
      BY <3>1, <1>4 DEF Told, WireTells
    <3>3. CASE \E j \in 1..Len(wire) : j # 1 /\ i <= j /\ Accepted(wire[j], r)
      <4>1. PICK j \in 1..Len(wire) : j # 1 /\ i <= j /\ Accepted(wire[j], r)
        BY <3>3
      <4>2. \A g \in j..Len(wire) : g \in i..Len(wire)
        BY <4>1, <3>2, <1>2
      <4> QED
        BY <4>1, <4>2, <3>2, <2>5 DEF Told
    <3>4. CASE ~(\E j \in 1..Len(wire) : j # 1 /\ i <= j /\ Accepted(wire[j], r))
      <4>1. i = 1
        BY <3>2, <3>4, <1>2
      <4>2. \A j \in 1..Len(wire) : j # 1 => ~Accepted(wire[j], r)
        BY <4>1, <3>4, <1>2
      <4>3. \A j \in 1..Len(wire') : j + 1 # 1
        BY <1>2
      <4>4. NothingOnWire(r)'
        BY <4>2, <4>3, <2>2, <1>2 DEF NothingOnWire
      <4>5. wire[1].data = Snapshot(r)
        BY <4>1, <3>2, <1>2
      <4>6. PICK m : m = [round |-> r, data |-> Snapshot(r)]
        OBVIOUS
      <4>7. queue' = Append(queue, m) /\ m \in Messages
        BY <4>5, <4>6, <2>6, <1>2, DataIsMessage DEF Accepted
      <4>8. /\ Len(queue) \in Nat /\ Len(queue') = Len(queue) + 1 /\ queue'[Len(queue) + 1] = m
        BY <4>7, <1>3, AppendElements
      <4>9. Len(queue) + 1 \in 1..Len(queue') /\ \A j \in (Len(queue) + 1)..Len(queue') : j = Len(queue) + 1
        BY <4>8
      <4>10. QueueTells(r)'
        BY <4>6, <4>8, <4>9, <2>1 DEF QueueTells
      <4> QED
        BY <4>4, <4>10 DEF Told
    <3> QED
      BY <3>3, <3>4
  <2>7. CASE ~Accepted(wire[1], r)
    <3>1. WireTells(r) => WireTells(r)'
      BY <2>5, <2>7 DEF WireTells
    <3>2. /\ Len(queue) \in Nat /\ Len(queue') \in Nat /\ Len(queue) <= Len(queue')
          /\ \A i \in 1..Len(queue) : queue'[i] = queue[i]
          /\ \A i \in 1..Len(queue') : i \in 1..Len(queue) \/ queue'[i].round # r
      <4>1. Len(queue) \in Nat
        BY <1>3
      <4>2. CASE wire[1].kind = "data" /\ wire[1].ref \in DOMAIN mapped
        <5>1. PICK m : m = [round |-> mapped[wire[1].ref], data |-> wire[1].data]
          OBVIOUS
        <5>2. m \in Messages /\ m.round # r /\ queue' = Append(queue, m)
          BY <5>1, <4>2, <2>7, <1>2, DataIsMessage DEF Accepted
        <5>3. /\ Len(queue') = Len(queue) + 1 /\ queue'[Len(queue) + 1] = m
              /\ \A i \in 1..Len(queue) : queue'[i] = queue[i]
          BY <5>2, <1>3, AppendElements
        <5>4. \A i \in 1..Len(queue') : i \in 1..Len(queue) \/ i = Len(queue) + 1
          BY <5>3, <4>1
        <5> QED
          BY <5>2, <5>3, <5>4, <4>1
      <4>3. CASE ~(wire[1].kind = "data" /\ wire[1].ref \in DOMAIN mapped)
        BY <4>1, <4>3, <1>2
      <4> QED
        BY <4>2, <4>3
    <3>3. (QueueTells(r) => QueueTells(r)') /\ (NothingQueued(r) => NothingQueued(r)')
      BY <3>2, <2>1, QueueGrows
    <3> QED
      BY <3>1, <3>3, <2>3, <2>4, <1>4 DEF Told
  <2> QED
    BY <2>6, <2>7
<1>5. ToldUnlessMissed'
  BY <1>4 DEF CurrentInv, ToldUnlessMissed
<1>6. PendingMissed'
  BY <1>1, <1>2 DEF CurrentInv, PendingMissed, IsData
<1> QED
  BY <1>5, <1>6 DEF CurrentInv

\* The reader gives up: its failure is queued.
LEMMA ReaderEndsTold ==
  ASSUME SessionInv, CurrentInv, ReaderEnds, UNCHANGED <<missed, shown, table, repeated>>
  PROVE  CurrentInv'
<1>1. UNCHANGED <<pc, asking, pending, mapped, wire>> /\ queue' = Append(queue, Failure)
  BY DEF ReaderEnds, supervisorVars
<1>2. queue \in Seq(Messages) /\ Failure \in Messages
  BY DEF SessionInv, ShapeInv, Queues, Messages
<1>3. /\ Len(queue) \in Nat /\ Len(queue') = Len(queue) + 1 /\ queue'[Len(queue) + 1] = Failure
      /\ \A i \in 1..Len(queue) : queue'[i] = queue[i]
  BY <1>1, <1>2, AppendElements
<1>4. \A i \in 1..Len(queue') : i \in 1..Len(queue) \/ queue'[i].round = NoRound
  <2>1. \A i \in 1..Len(queue') : i \in 1..Len(queue) \/ i = Len(queue) + 1
    BY <1>3
  <2> QED
    BY <2>1, <1>3 DEF Failure
<1>5. ASSUME NEW r \in Rounds, Told(r)
      PROVE  Told(r)'
  <2>1. Snapshot(r)' = Snapshot(r) /\ r # NoRound
    BY RoundsAssumption, NoRoundAssumption DEF Snapshot, RoundsAssumption, NoRoundAssumption
  <2>2. /\ QueueTells(r) => QueueTells(r)'
        /\ NothingQueued(r) => NothingQueued(r)'
    BY <2>1, <1>3, <1>4, QueueGrows
  <2>3. WireTells(r) => WireTells(r)'
    BY <2>1, <1>1 DEF WireTells, Accepted
  <2>4. NothingOnWire(r) => NothingOnWire(r)'
    BY <1>1 DEF NothingOnWire, Accepted
  <2>5. TableTells(r) => TableTells(r)'
    BY <2>1 DEF TableTells, IsCurrent, Mirrored, Previous
  <2> QED
    BY <1>5, <2>2, <2>3, <2>4, <2>5 DEF Told
<1>6. ToldUnlessMissed'
  BY <1>5 DEF CurrentInv, ToldUnlessMissed
<1> QED
  BY <1>1, <1>6, NoPendingMissed DEF CurrentInv

\* The supervisor takes a message; other rounds are told as before.
LEMMA QueueShrinks ==
  ASSUME SessionInv, TakeMessage, NEW r \in Rounds, Snapshot(r)' = Snapshot(r)
  PROVE  /\ Len(queue) \in Nat \ {0} /\ Head(queue) = queue[1] /\ 1 \in 1..Len(queue)
         /\ queue[1].round \in Rounds /\ queue[1].data \in Of(queue[1].round)
         /\ WireTells(r) => WireTells(r)'
         /\ NothingOnWire(r) => NothingOnWire(r)'
         /\ NothingQueued(r) => NothingQueued(r)'
         /\ (\A i \in 1..Len(queue) : i # 1 => queue[i].round # r) => NothingQueued(r)'
         /\ \A i \in 1..Len(queue) :
              /\ i # 1 /\ queue[i].round = r
              /\ \A j \in i..Len(queue) : queue[j].round = r => queue[j].data = Snapshot(r)
              => QueueTells(r)'
<1>1. UNCHANGED <<mapped, wire>> /\ queue # <<>> /\ queue' = Tail(queue) /\ Head(queue).round # NoRound
  BY DEF TakeMessage, networkVars
<1>2. queue \in Seq(Messages)
  BY DEF SessionInv, ShapeInv, Queues
<1>3. /\ Len(queue) \in Nat \ {0} /\ Len(queue') = Len(queue) - 1 /\ Head(queue) = queue[1]
      /\ Head(queue) \in Messages /\ \A i \in 1..(Len(queue) - 1) : queue'[i] = queue[i + 1]
  BY <1>1, <1>2, TailElements
<1>4. 1 \in 1..Len(queue) /\ \A i \in 1..Len(queue') : i + 1 \in 1..Len(queue) /\ i + 1 # 1
  BY <1>3
<1>5. queue[1].round \in Rounds /\ queue[1].data \in Of(queue[1].round)
  BY <1>1, <1>3 DEF Messages, Failure
<1>6. WireTells(r) => WireTells(r)'
  BY <1>1 DEF WireTells, Accepted
<1>7. NothingOnWire(r) => NothingOnWire(r)'
  BY <1>1 DEF NothingOnWire, Accepted
<1>8. (\A i \in 1..Len(queue) : i # 1 => queue[i].round # r) => NothingQueued(r)'
  BY <1>3, <1>4 DEF NothingQueued
<1>9. NothingQueued(r) => NothingQueued(r)'
  BY <1>3, <1>4 DEF NothingQueued
<1>10. ASSUME NEW i \in 1..Len(queue), i # 1, queue[i].round = r,
              \A j \in i..Len(queue) : queue[j].round = r => queue[j].data = Snapshot(r)
       PROVE  QueueTells(r)'
  <2>1. PICK h : h = i - 1
    OBVIOUS
  <2>2. h \in 1..Len(queue') /\ h + 1 = i
    BY <2>1, <1>3, <1>10
  <2>3. \A j \in h..Len(queue') : j \in 1..Len(queue') /\ j + 1 \in i..Len(queue)
    BY <2>2, <1>3
  <2>4. queue'[h].round = r
    BY <2>2, <1>3, <1>10
  <2>5. \A j \in h..Len(queue') : queue'[j].round = r => queue'[j].data = Snapshot(r)'
    BY <2>3, <1>3, <1>10
  <2> QED
    BY <2>2, <2>4, <2>5 DEF QueueTells
<1> QED
  BY <1>3, <1>4, <1>5, <1>6, <1>7, <1>8, <1>9, <1>10

LEMMA OtherRoundsTold ==
  ASSUME SessionInv, TakeMessage, NEW r \in Rounds, Snapshot(r)' = Snapshot(r), Head(queue).round # r,
         TableTells(r) => TableTells(r)', Told(r)
  PROVE  Told(r)'
<1>1. /\ Len(queue) \in Nat \ {0} /\ Head(queue) = queue[1] /\ 1 \in 1..Len(queue)
      /\ WireTells(r) => WireTells(r)'
      /\ NothingOnWire(r) => NothingOnWire(r)'
      /\ NothingQueued(r) => NothingQueued(r)'
      /\ \A i \in 1..Len(queue) :
           /\ i # 1 /\ queue[i].round = r
           /\ \A j \in i..Len(queue) : queue[j].round = r => queue[j].data = Snapshot(r)
           => QueueTells(r)'
  BY QueueShrinks
<1>2. QueueTells(r) => QueueTells(r)'
  <2>1. ASSUME NEW i \in 1..Len(queue), queue[i].round = r,
               \A j \in i..Len(queue) : queue[j].round = r => queue[j].data = Snapshot(r)
        PROVE  QueueTells(r)'
    <3>1. i # 1
      BY <2>1, <1>1
    <3> QED
      BY <3>1, <2>1, <1>1
  <2> QED
    BY <2>1 DEF QueueTells
<1> QED
  BY <1>1, <1>2 DEF Told

\* A snapshot that could not be processed is missed.
LEMMA ProcessingFailsTold ==
  ASSUME SessionInv, CurrentInv, ProcessingFails
  PROVE  CurrentInv'
<1>1. /\ TakeMessage /\ missed' = missed \cup {Head(queue).round}
      /\ UNCHANGED <<shown, table, repeated>>
  BY DEF ProcessingFails, ingestionVars, providerVars
<1>2. ASSUME NEW r \in Rounds \ missed'
      PROVE  Told(r)'
  <2>1. Told(r) /\ Head(queue).round # r
    BY <1>1, <1>2 DEF CurrentInv, ToldUnlessMissed
  <2>2. Snapshot(r)' = Snapshot(r)
    BY <1>1 DEF Snapshot
  <2>3. TableTells(r) => TableTells(r)'
    BY <2>2, <1>1 DEF TableTells, IsCurrent, Mirrored, Previous
  <2> QED
    BY <2>1, <2>2, <2>3, <1>1, OtherRoundsTold
<1>3. pc' = "loop"
  BY <1>1 DEF TakeMessage, supervisorVars
<1> QED
  BY <1>2, <1>3 DEF CurrentInv, ToldUnlessMissed, PendingMissed

\* A snapshot is processed: the table shows it, unless it was passed over.
LEMMA ProcessMessageTold ==
  ASSUME SessionInv, SourcesInv, CurrentInv, NEW threshold, ProcessMessage(threshold)
  PROVE  CurrentInv'
<1>1. PICK m, q, recent :
        /\ m = Head(queue) /\ q = m.round
        /\ recent = {x \in DOMAIN m.data : m.data[x].enteredAt >= threshold}
  OBVIOUS
<1>2. /\ TakeMessage
      /\ ProcessRoundSnapshot(q, m.data, recent)
      /\ missed' = IF m.data = Snapshot(q) /\ Followed(q) = {} THEN missed \ {q} ELSE missed
      /\ repeated' = IF IsDuplicate(q, m.data) /\ Mirrored(q) # m.data
                     THEN repeated \cup {q} ELSE repeated \ {q}
      /\ UNCHANGED shown
  BY <1>1 DEF ProcessMessage, providerVars
<1>3. \A r : Snapshot(r)' = Snapshot(r)
  BY <1>2 DEF Snapshot
<1>4. IngestionTypes
  BY DEF SourcesInv
<1>5. pc = "loop" /\ pc' = "loop"
  BY <1>2 DEF TakeMessage, supervisorVars
<1>6. q \in Rounds /\ m.data \in Of(q)
  <2>1. queue \in Seq(Messages) /\ queue # <<>> /\ m.round # NoRound
    BY <1>1, <1>2 DEF TakeMessage, SessionInv, ShapeInv, Queues
  <2>2. m \in Messages
    BY <2>1, <1>1, TailElements
  <2> QED
    BY <2>1, <2>2, <1>1 DEF Messages, Failure
<1>7. /\ \A r \in Rounds : r # q => Mirrored(r)' = Mirrored(r)
      /\ IF IsDuplicate(q, m.data) THEN Mirrored(q)' = Mirrored(q) ELSE Mirrored(q)' = m.data
  <2>1. CASE IsDuplicate(q, m.data)
    BY <2>1, <1>2 DEF ProcessRoundSnapshot, Mirrored, Previous
  <2>2. CASE ~IsDuplicate(q, m.data)
    BY <2>2, <1>2, <1>4, <1>6, MirroredAfter DEF ProcessRoundSnapshot
  <2> QED
    BY <2>1, <2>2
<1>8. ASSUME NEW r \in Rounds \ missed', r # q
      PROVE  Told(r)'
  <2>1. Told(r)
    BY <1>2, <1>8 DEF CurrentInv, ToldUnlessMissed
  <2>2. TableTells(r) => TableTells(r)'
    BY <1>2, <1>3, <1>7, <1>8 DEF TableTells, IsCurrent
  <2> QED
    BY <2>1, <2>2, <1>1, <1>2, <1>3, <1>8, OtherRoundsTold
<1>9. ASSUME q \notin missed'
      PROVE  Told(q)'
  <2>1. /\ Len(queue) \in Nat \ {0} /\ m = queue[1] /\ 1 \in 1..Len(queue)
        /\ WireTells(q) => WireTells(q)'
        /\ NothingOnWire(q) => NothingOnWire(q)'
        /\ (\A i \in 1..Len(queue) : i # 1 => queue[i].round # q) => NothingQueued(q)'
        /\ \A i \in 1..Len(queue) :
             /\ i # 1 /\ queue[i].round = q
             /\ \A j \in i..Len(queue) : queue[j].round = q => queue[j].data = Snapshot(q)
             => QueueTells(q)'
    BY <1>1, <1>2, <1>3, <1>6, QueueShrinks
  <2>2. Len(wire) \in Nat
    BY WireTyped DEF SessionInv, ShapeInv
  <2>3. Followed(q) = {} <=> NothingOnWire(q) /\ \A i \in 1..Len(queue) : i # 1 => queue[i].round # q
    <3>1. OnWire(0) \cap {q} = {} <=> NothingOnWire(q)
      BY <2>2 DEF OnWire, NothingOnWire, Accepted
    <3>2. \A i : i \in 2..Len(queue) <=> i \in 1..Len(queue) /\ i # 1
      BY <2>1
    <3>3. {i \in 2..Len(queue) : queue[i].round = q} = {} <=>
            \A i \in 1..Len(queue) : i # 1 => queue[i].round # q
      BY <3>2
    <3> QED
      BY <3>1, <3>3 DEF Followed
  <2>4. ~NothingQueued(q)
    BY <2>1, <1>1 DEF NothingQueued
  <2>5. q \notin missed => Told(q)
    BY <1>6 DEF CurrentInv, ToldUnlessMissed
  <2>6. CASE Followed(q) = {}
    <3>1. NothingOnWire(q) /\ \A i \in 1..Len(queue) : i # 1 => queue[i].round # q
      BY <2>3, <2>6
    <3>2. m.data = Snapshot(q)
      <4>1. q \notin missed => QueueTells(q)
        BY <2>4, <2>5, <3>1 DEF Told, WireTells, NothingOnWire
      <4>2. QueueTells(q) => m.data = Snapshot(q)
        BY <3>1, <2>1 DEF QueueTells
      <4> QED
        BY <4>1, <4>2, <1>2, <1>9
    <3>3. TableTells(q)'
      BY <3>2, <1>2, <1>3, <1>7 DEF TableTells, IsCurrent
    <3> QED
      BY <3>1, <3>3, <2>1 DEF Told
  <2>7. CASE Followed(q) # {}
    <3>1. Told(q)
      BY <2>5, <2>7, <1>2, <1>9
    <3>2. ASSUME NothingOnWire(q), QueueTells(q)
          PROVE  QueueTells(q)'
      <4>1. PICK h \in 1..Len(queue) : h # 1 /\ queue[h].round = q
        BY <3>2, <2>3, <2>7
      <4>2. PICK i \in 1..Len(queue) :
              /\ queue[i].round = q
              /\ \A j \in i..Len(queue) : queue[j].round = q => queue[j].data = Snapshot(q)
        BY <3>2 DEF QueueTells
      <4>3. CASE i # 1
        BY <4>2, <4>3, <2>1
      <4>4. CASE i = 1
        <5>1. \A j \in h..Len(queue) : j \in i..Len(queue)
          BY <4>1, <4>4, <2>1
        <5> QED
          BY <5>1, <4>1, <4>2, <2>1
      <4> QED
        BY <4>3, <4>4
    <3> QED
      BY <3>1, <3>2, <2>1, <2>4 DEF Told
  <2> QED
    BY <2>6, <2>7
<1>10. ToldUnlessMissed'
  BY <1>8, <1>9 DEF ToldUnlessMissed
<1> QED
  BY <1>5, <1>10 DEF CurrentInv, PendingMissed

\* The provider changes a round: the new snapshot is on the wire for the client, or the
\* round is missed.
LEMMA ChangeTold ==
  ASSUME SessionInv, CurrentInv, NEW x \in Results, NEW row \in Rows \cup {None}, Change(x, row),
         shown \in [Results -> Rows \cup {None}]
  PROVE  SessionInv' /\ CurrentInv' /\ shown' \in [Results -> Rows \cup {None}] /\ changes' = changes + 1
<1>1. PICK r : r = RoundOf[x]
  OBVIOUS
<1>2. r \in Rounds
  BY <1>1, NoneIsNoRow
<1>3. /\ shown' = [shown EXCEPT ![x] = row] /\ changes' = changes + 1
      /\ Send(r, Snapshot(r)')
      /\ missed' = IF Established(r) THEN missed \ {r} ELSE missed \cup {r}
      /\ UNCHANGED <<table, repeated>>
  BY <1>1 DEF Change, Snapshot, ResultsOf, ingestionVars
<1>4. shown' \in [Results -> Rows \cup {None}]
  BY <1>3
<1>5. PICK s : s = Snapshot(r)'
  OBVIOUS
<1>6. s \in Of(r)
  <2>1. s = [y \in {z \in ResultsOf(r) : shown'[z] # None} |-> shown'[y]]
    BY <1>5 DEF Snapshot, ResultsOf
  <2> QED
    BY <2>1, <1>2, <1>4, ShownFits
<1>7. Send(r, s)
  BY <1>3, <1>5
<1>8. SessionInv'
  BY <1>2, <1>6, <1>7, SendKeeps
<1>9. /\ Len(wire) \in Nat /\ Len(wire') \in Nat /\ Len(wire) <= Len(wire')
      /\ \A i \in 1..Len(wire) : wire'[i] = wire[i]
      /\ \A i \in 1..Len(wire') : i \in 1..Len(wire) \/
           /\ wire'[i].kind = "data" /\ wire'[i].data = s /\ Len(wire) < i
           /\ wire'[i].ref \in DOMAIN serving /\ serving[wire'[i].ref] = r
      /\ \A id \in DOMAIN serving : serving[id] = r =>
           \E i \in 1..Len(wire') : IsData(wire'[i], id) /\ Len(wire) < i
      /\ UNCHANGED <<pc, asking, pending, mapped, queue>>
  BY <1>2, <1>6, <1>7, SentFrames
<1>10. ASSUME NEW q \in Rounds \ missed', q # r
       PROVE  Told(q)'
  <2>1. Told(q)
    BY <1>3, <1>10 DEF CurrentInv, ToldUnlessMissed
  <2>2. Snapshot(q)' = Snapshot(q)
    <3>1. \A y \in ResultsOf(q) : y # x /\ shown'[y] = shown[y]
      BY <1>1, <1>3, <1>10 DEF ResultsOf
    <3>2. {y \in ResultsOf(q) : shown'[y] # None} = {y \in ResultsOf(q) : shown[y] # None}
      BY <3>1
    <3>3. Snapshot(q)' = [y \in {z \in ResultsOf(q) : shown'[z] # None} |-> shown'[y]]
      BY DEF Snapshot, ResultsOf
    <3> QED
      BY <3>1, <3>2, <3>3 DEF Snapshot
  <2>3. \A i \in 1..Len(wire) : wire'[i] = wire[i] /\ (Accepted(wire[i], q)' <=> Accepted(wire[i], q))
    BY <1>9 DEF Accepted
  <2>4. \A i \in 1..Len(wire') : i \in 1..Len(wire) \/ ~Accepted(wire[i], q)'
    BY <1>9, <1>10 DEF Accepted, SessionInv, RefsInv, Agreed
  <2> QED
    BY <2>1, <2>2, <2>3, <2>4, <1>3, <1>9, WireGrows
<1>11. ASSUME r \notin missed'
       PROVE  Told(r)'
  <2>1. PICK id \in DOMAIN serving \cap DOMAIN mapped : serving[id] = r /\ mapped[id] = r
    BY <1>3, <1>11 DEF Established
  <2>2. PICK i \in 1..Len(wire') : IsData(wire'[i], id) /\ Len(wire) < i
    BY <2>1, <1>9
  <2>3. Accepted(wire[i], r)'
    BY <2>1, <2>2, <1>9 DEF Accepted, IsData
  <2>4. \A j \in i..Len(wire') : j \in 1..Len(wire') /\ j \notin 1..Len(wire)
    BY <2>2, <1>9
  <2>5. \A j \in i..Len(wire') : wire'[j].data = s
    BY <2>4, <1>9
  <2> QED
    BY <2>2, <2>3, <2>5, <1>5 DEF Told, WireTells
<1>12. ToldUnlessMissed'
  BY <1>10, <1>11 DEF ToldUnlessMissed
<1>13. PendingMissed'
  <2>1. SUFFICES ASSUME pc = "await_subscribed", NEW i \in 1..Len(wire'), IsData(wire'[i], pending)
                 PROVE  asking \in missed'
    BY <1>9 DEF PendingMissed
  <2>2. asking = r => ~Established(r)
    <3>1. asking \notin SubscribedRoundIds
      BY <2>1 DEF SessionInv, AwaitInv, Subscribing
    <3> QED
      BY <3>1 DEF SubscribedRoundIds, Established
  <2>3. CASE asking = r
    BY <2>2, <2>3, <1>3
  <2>4. CASE asking # r
    <3>1. pending \in DOMAIN serving => serving[pending] = asking
      BY <2>1 DEF SessionInv, AwaitInv, Subscribing
    <3>2. i \in 1..Len(wire)
      BY <3>1, <2>1, <2>4, <1>9 DEF IsData
    <3>3. asking \in missed
      BY <3>2, <2>1, <1>9 DEF CurrentInv, PendingMissed
    <3> QED
      BY <3>3, <2>4, <1>3
  <2> QED
    BY <2>3, <2>4
<1> QED
  BY <1>3, <1>4, <1>8, <1>12, <1>13 DEF CurrentInv

(***************************************************************************)
(* The invariant of the feed.                                              *)
(***************************************************************************)

LEMMA SessionStaysThroughFaults ==
  ASSUME SessionInv, UNCHANGED <<dbVars, supervisorVars, clientVars, networkVars, over>>,
         Fault \/ UNCHANGED faults
  PROVE  SessionInv'
<1>1. ShapeInv'
  <2>1. faults' \in 0..MaxFaults
    BY FaultTyped DEF SessionInv, ShapeInv
  <2> QED
    BY <2>1 DEF SessionInv, ShapeInv, Types, Maps, Queues, Stage, Awaits, InSession,
                dbVars, supervisorVars, clientVars, networkVars
<1> USE DEF dbVars, supervisorVars, clientVars, networkVars
<1>2. RefsInv'
  BY DEF SessionInv, RefsInv, Injective, Agreed, RequestsInOrder, FramesFit
<1>3. AwaitInv'
  BY DEF SessionInv, AwaitInv, Asked, Subscribing, Unsubscribing, SubscribedRoundIds
<1>4. StatusInv'
  BY StatusStays
<1> QED
  BY <1>1, <1>2, <1>3, <1>4 DEF SessionInv

LEMMA SessionStays ==
  ASSUME SessionInv, UNCHANGED sessionVars
  PROVE  SessionInv'
  BY SessionStaysThroughFaults DEF sessionVars

LEMMA CurrentStays ==
  ASSUME CurrentInv, missed \subseteq missed', UNCHANGED <<wire, queue, mapped, shown, table, repeated>>,
         pc' = "await_subscribed" => UNCHANGED <<pc, pending, asking>>
  PROVE  CurrentInv'
  BY ToldStays, NoPendingMissed DEF CurrentInv

\* Steps of the session that leave the provider and the ingestion alone.
LEMMA ElsewhereStays ==
  ASSUME FeedInv, OtherFeedUnchanged
  PROVE  /\ changes' \in Nat /\ SourcesInv'
         /\ UNCHANGED <<shown, table, repeated>>
<1>1. /\ UNCHANGED <<ingestionVars, reruled, baselineRow, listed, returned>>
      /\ UNCHANGED <<changes, shown, format, repeated, table>>
  BY DEF OtherFeedUnchanged, providerVars, ingestionVars
<1>2. SourcesInv /\ shown' \in [Results -> Rows \cup {None}] /\ format' \in [Rounds -> Formats]
  BY <1>1 DEF FeedInv, SourcesInv, IngestionTypes
<1>3. SourcesInv'
  BY <1>1, <1>2, SourcesStay
<1> QED
  BY <1>1, <1>3 DEF FeedInv

LEMMA StutterKeeps ==
  ASSUME FeedInv, UNCHANGED vars
  PROVE  FeedInv'
<1>1. /\ UNCHANGED sessionVars /\ OtherFeedUnchanged
      /\ UNCHANGED <<missed, wire, queue, mapped, pc, pending, asking>>
  BY DEF vars, OtherFeedUnchanged, historyVars, sessionVars, networkVars, clientVars, supervisorVars
<1>2. SessionInv'
  BY <1>1, SessionStays DEF FeedInv
<1>3. CurrentInv'
  BY <1>1, ElsewhereStays, CurrentStays DEF FeedInv
<1> QED
  BY <1>1, <1>2, <1>3, ElsewhereStays DEF FeedInv

LEMMA ChangeKeeps ==
  ASSUME FeedInv, NEW x \in Results, NEW row \in Rows \cup {None}, Change(x, row)
  PROVE  FeedInv'
<1>1. SessionInv /\ CurrentInv /\ SourcesInv /\ shown \in [Results -> Rows \cup {None}] /\ changes \in Nat
      /\ format \in [Rounds -> Formats]
  BY DEF FeedInv, SourcesInv, IngestionTypes
<1>2. SessionInv' /\ CurrentInv' /\ shown' \in [Results -> Rows \cup {None}] /\ changes' = changes + 1
  BY <1>1, ChangeTold
<1>3. UNCHANGED <<ingestionVars, format, reruled, baselineRow, listed, returned>>
  BY DEF Change
<1>4. SourcesInv'
  BY <1>1, <1>2, <1>3, SourcesStay
<1> QED
  BY <1>1, <1>2, <1>4 DEF FeedInv

LEMMA ProviderKeeps ==
  ASSUME FeedInv, ProviderChange
  PROVE  FeedInv'
<1>1. ASSUME NEW x \in Results, RemoveResult(x)
      PROVE  FeedInv'
  BY <1>1, ChangeKeeps DEF RemoveResult
<1>2. ASSUME NEW x \in Results, NEW e \in Entries[x], EnterResult(x, e)
      PROVE  FeedInv'
  <2>1. PICK at : /\ at \in {0, changes + 1} \/ (shown[x] # None /\ at = shown[x].enteredAt)
                  /\ Change(x, EnteredRow(e, at))
    BY <1>2 DEF EnterResult
  <2>2. changes \in Nat /\ changes <= MaxChanges /\ MaxChanges \in Nat
    BY <2>1, ChangeBoundAssumption DEF ChangeBoundAssumption, Change, FeedInv
  <2>3. at \in 0..(MaxChanges + 1) \cup {row.enteredAt : row \in Rows}
    <3>1. CASE at = 0 \/ at = changes + 1
      BY <3>1, <2>2
    <3>2. CASE shown[x] # None /\ at = shown[x].enteredAt
      BY <3>2 DEF FeedInv, SourcesInv, IngestionTypes
    <3> QED
      BY <3>1, <3>2, <2>1
  <2>4. EnteredRow(e, at) \in Rows
    BY <2>3, EntriesAssumption DEF EntriesAssumption
  <2> QED
    BY <2>1, <2>4, ChangeKeeps
<1>3. ASSUME NEW r \in Rounds, NEW rl \in Formats, ChangeFormat(r, rl)
      PROVE  FeedInv'
  <2>1. /\ UNCHANGED <<ingestionVars, sessionVars, shown, changes, historyVars>>
        /\ format' = [format EXCEPT ![r] = rl]
    BY <1>3 DEF ChangeFormat
  <2>2. SessionInv'
    BY <2>1, SessionStays DEF FeedInv
  <2>3. UNCHANGED <<missed, wire, queue, mapped, shown, table, repeated, pc, pending, asking,
                    reruled, baselineRow, listed, returned>>
    BY <2>1 DEF historyVars, sessionVars, networkVars, clientVars, supervisorVars, ingestionVars
  <2>4. CurrentInv'
    BY <2>3, CurrentStays DEF FeedInv
  <2>5. shown' \in [Results -> Rows \cup {None}] /\ format' \in [Rounds -> Formats]
    BY <2>1 DEF FeedInv, SourcesInv, IngestionTypes
  <2>6. SourcesInv'
    BY <2>1, <2>3, <2>5, SourcesStay DEF FeedInv
  <2> QED
    BY <2>1, <2>2, <2>4, <2>6 DEF FeedInv
<1> QED
  BY <1>1, <1>2, <1>3 DEF ProviderChange

LEMMA DiscoverRoundsKeeps ==
  ASSUME FeedInv, NEW found \in SUBSET SubscribableRounds, DiscoverRounds(found)
  PROVE  FeedInv'
<1>1. found \in SUBSET Rounds
  BY RoundsAssumption DEF RoundsAssumption
<1>2. SessionInv'
  BY DiscoverKeeps, RediscoverKeeps DEF DiscoverRounds, FeedInv
<1>3. /\ PersistRules(found)
      /\ UNCHANGED <<changes, shown, format, missed, repeated, baselineRow, listed, returned>>
  BY DEF DiscoverRounds, providerVars
<1>4. SourcesInv'
  BY <1>1, <1>3, RulesPersisted DEF FeedInv
<1>5. UNCHANGED <<wire, queue, mapped, table>> /\ pc' # "await_subscribed"
  BY DEF DiscoverRounds, Discover, Rediscover, PersistRules, networkVars, clientVars
<1>6. CurrentInv'
  BY <1>3, <1>5, CurrentStays DEF FeedInv
<1> QED
  BY <1>2, <1>3, <1>4, <1>6 DEF FeedInv

LEMMA ProcessMessageKeeps ==
  ASSUME FeedInv, NEW threshold, ProcessMessage(threshold)
  PROVE  FeedInv'
<1>1. SessionInv'
  BY TakeMessageKeeps DEF ProcessMessage, FeedInv
<1>2. CurrentInv'
  BY ProcessMessageTold DEF FeedInv
<1>3. PICK m, recent :
        /\ m = Head(queue)
        /\ recent = {x \in DOMAIN m.data : m.data[x].enteredAt >= threshold}
  OBVIOUS
<1>4. /\ TakeMessage /\ ProcessRoundSnapshot(m.round, m.data, recent)
      /\ baselineRow' = [x \in Results |->
           IF ~IsDuplicate(m.round, m.data) /\ IsInitial(m.round)
              /\ x \in DOMAIN m.data \ Evaluated(m.round, m.data, recent)
           THEN m.data[x] ELSE baselineRow[x]]
      /\ UNCHANGED <<changes, shown, format, reruled, listed, returned>>
  BY <1>3 DEF ProcessMessage, providerVars
<1>5. m.round \in Rounds /\ m.data \in Of(m.round)
  <2>1. queue \in Seq(Messages) /\ queue # <<>> /\ m.round # NoRound
    BY <1>3, <1>4 DEF TakeMessage, FeedInv, SessionInv, ShapeInv, Queues
  <2>2. m \in Messages
    BY <2>1, <1>3, TailElements
  <2> QED
    BY <2>1, <2>2 DEF Messages, Failure
<1>6. SourcesInv'
  BY <1>4, <1>5, SnapshotProcessed DEF FeedInv
<1> QED
  BY <1>1, <1>2, <1>4, <1>6 DEF FeedInv

LEMMA ProcessingFailsKeeps ==
  ASSUME FeedInv, ProcessingFails
  PROVE  FeedInv'
<1>1. SessionInv'
  BY TakeMessageKeeps DEF ProcessingFails, FeedInv
<1>2. CurrentInv'
  BY ProcessingFailsTold DEF FeedInv
<1>3. OtherFeedUnchanged
  BY DEF ProcessingFails, OtherFeedUnchanged
<1> QED
  BY <1>1, <1>2, <1>3, ElsewhereStays DEF FeedInv

LEMMA PollRecordsKeeps ==
  ASSUME FeedInv, NEW list \in SUBSET RecentRecords, PollRecords(list)
  PROVE  FeedInv'
<1>1. UNCHANGED <<dbVars, supervisorVars, clientVars, networkVars, over, changes, shown, missed, repeated, table, wire, queue, mapped, pc, pending, asking>>
  BY DEF PollRecords, PollRecentRecords, providerVars, networkVars, clientVars, supervisorVars
<1>2. SessionInv'
  BY <1>1, SessionStaysThroughFaults DEF FeedInv, PollRecords
<1>3. CurrentInv'
  BY <1>1, CurrentStays DEF FeedInv
<1> QED
  BY <1>1, <1>2, <1>3, PollKeeps DEF FeedInv

LEMMA WorkerKeeps ==
  ASSUME FeedInv, WorkerStep
  PROVE  SessionInv' /\ CurrentInv'
<1>1. /\ SessionInv /\ CurrentInv /\ ShapeInv /\ ToldUnlessMissed
      /\ SessionLosses /\ missed \subseteq missed' /\ UNCHANGED <<shown, table, repeated>>
  BY ElsewhereStays, LossesGrow DEF FeedInv, SessionInv, CurrentInv, WorkerStep
<1> USE DEF networkVars, clientVars, supervisorVars
<1>2. CASE Connect
  <2>1. UNCHANGED <<wire, queue, mapped>> /\ pc' # "await_subscribed"
    BY <1>2 DEF Connect
  <2> QED
    BY <1>1, <1>2, <2>1, ConnectKeeps, CurrentStays
<1>3. CASE RetireAllTargets
  <2>1. CloseClient /\ pc' # "await_subscribed"
    BY <1>3 DEF RetireAllTargets
  <2> QED
    BY <1>1, <1>3, <2>1, RetireAllTargetsKeeps, NothingToldByClosed
<1>4. ASSUME NEW r \in SubscribableRounds, AskToSubscribe(r)
      PROVE  SessionInv' /\ CurrentInv'
  BY <1>1, <1>4, AskToSubscribeKeeps, AskToSubscribeTold
<1>5. ASSUME NEW r \in SubscribableRounds, AskToUnsubscribe(r)
      PROVE  SessionInv' /\ CurrentInv'
  <2>1. UNCHANGED <<wire, queue, mapped>> /\ pc' # "await_subscribed"
    BY <1>5 DEF AskToUnsubscribe
  <2> QED
    BY <1>1, <1>5, <2>1, AskToUnsubscribeKeeps, CurrentStays
<1>6. CASE Subscribed
  BY <1>1, <1>6, ResumeKeeps, ResumeTold DEF Subscribed
<1>7. CASE SubscriptionRefused
  <2>1. UNCHANGED <<wire, queue, mapped>> /\ pc' # "await_subscribed"
    BY <1>7 DEF SubscriptionRefused, GiveUpSubscribing
  <2>2. SessionInv'
    BY <1>1, <1>7, GiveUpSubscribingKeeps DEF SubscriptionRefused
  <2> QED
    BY <1>1, <2>1, <2>2, CurrentStays
<1>8. CASE EnterLoop
  <2>1. UNCHANGED <<wire, queue, mapped>> /\ pc' # "await_subscribed"
    BY <1>8 DEF EnterLoop
  <2> QED
    BY <1>1, <1>8, <2>1, EnterLoopKeeps, CurrentStays
<1>9. CASE TakeFailure
  <2>1. Abort(status) /\ UNCHANGED <<over, faults>> /\ CloseClient /\ pc' # "await_subscribed"
    BY <1>9 DEF TakeFailure, Abort
  <2>2. status \in [Rounds -> Statuses]
    BY <1>1 DEF ShapeInv, Types
  <2> QED
    BY <1>1, <2>1, <2>2, AbortKeeps, NothingToldByClosed
<1>10. CASE Unsubscribed
  BY <1>1, <1>10, UnsubscribedKeeps, UnsubscribedTold
<1>11. CASE UnsubscriptionRefused
  <2>1. UNCHANGED <<wire, queue, mapped>> /\ pc' # "await_subscribed"
    BY <1>11 DEF UnsubscriptionRefused, GiveUpUnsubscribing
  <2>2. SessionInv'
    BY <1>1, <1>11, GiveUpUnsubscribingKeeps DEF UnsubscriptionRefused
  <2> QED
    BY <1>1, <2>1, <2>2, CurrentStays
<1>12. CASE SubscribeRemaining
  <2>1. UNCHANGED <<wire, queue, mapped>> /\ pc' # "await_subscribed"
    BY <1>12 DEF SubscribeRemaining
  <2> QED
    BY <1>1, <1>12, <2>1, SubscribeRemainingKeeps, CurrentStays
<1> QED
  BY <1>2, <1>3, <1>4, <1>5, <1>6, <1>7, <1>8, <1>9, <1>10, <1>11, <1>12 DEF WorkerStep

LEMMA FrameKeeps ==
  ASSUME FeedInv, FrameStep
  PROVE  SessionInv' /\ CurrentInv'
<1>1. /\ SessionInv /\ CurrentInv /\ ShapeInv
      /\ UNCHANGED <<missed, shown, table, repeated>>
  BY ElsewhereStays DEF FeedInv, SessionInv, FrameStep
<1>2. CASE ReadFrame
  BY <1>1, <1>2, ReadFrameKeeps, ReadFrameTold
<1>3. CASE ReaderEnds
  BY <1>1, <1>3, ReaderEndsKeeps, ReaderEndsTold
<1>4. CASE Answer
  <2>1. /\ requests # <<>> /\ wire' = Append(wire, ReplyFrame(Head(requests).ref, "ok"))
        /\ UNCHANGED <<pc, pending, asking, mapped, queue>>
    BY <1>4 DEF Answer, supervisorVars, clientVars
  <2>2. CurrentInv'
    BY <1>1, <2>1, ReplyTold
  <2> QED
    BY <1>1, <1>4, <2>2, AnswerKeeps
<1> QED
  BY <1>2, <1>3, <1>4 DEF FrameStep

LEMMA FaultKeeps ==
  ASSUME FeedInv, FaultStep
  PROVE  SessionInv' /\ CurrentInv'
<1>1. /\ SessionInv /\ CurrentInv /\ ShapeInv /\ ToldUnlessMissed
      /\ SessionLosses /\ missed \subseteq missed' /\ UNCHANGED <<shown, table, repeated>>
  BY ElsewhereStays, LossesGrow DEF FeedInv, SessionInv, CurrentInv, FaultStep
<1> USE DEF networkVars, clientVars, supervisorVars
<1>2. CASE ConnectFails
  <2>1. Abort(status) /\ Fault /\ UNCHANGED over /\ CloseClient /\ pc' # "await_subscribed"
    BY <1>2 DEF ConnectFails, Abort
  <2>2. status \in [Rounds -> Statuses]
    BY <1>1 DEF ShapeInv, Types
  <2> QED
    BY <1>1, <2>1, <2>2, AbortKeeps, NothingToldByClosed
<1>3. CASE SubscriptionTimesOut
  <2>1. UNCHANGED <<wire, queue, mapped>> /\ pc' # "await_subscribed"
    BY <1>3 DEF SubscriptionTimesOut, GiveUpSubscribing
  <2>2. SessionInv'
    BY <1>1, <1>3, GiveUpSubscribingKeeps DEF SubscriptionTimesOut
  <2> QED
    BY <1>1, <2>1, <2>2, CurrentStays
<1>4. CASE UnsubscriptionTimesOut
  <2>1. UNCHANGED <<wire, queue, mapped>> /\ pc' # "await_subscribed"
    BY <1>4 DEF UnsubscriptionTimesOut, GiveUpUnsubscribing
  <2>2. SessionInv'
    BY <1>1, <1>4, GiveUpUnsubscribingKeeps DEF UnsubscriptionTimesOut
  <2> QED
    BY <1>1, <2>1, <2>2, CurrentStays
<1>5. CASE Refuse
  <2>1. /\ requests # <<>> /\ wire' = Append(wire, ReplyFrame(Head(requests).ref, "refused"))
        /\ UNCHANGED <<pc, pending, asking, mapped, queue>>
    BY <1>5 DEF Refuse
  <2>2. CurrentInv'
    BY <1>1, <2>1, ReplyTold
  <2> QED
    BY <1>1, <1>5, <2>2, RefuseKeeps
<1>6. ASSUME NEW kept, Break(kept)
      PROVE  SessionInv' /\ CurrentInv'
  BY <1>1, <1>6, BreakKeeps, BreakTold
<1>7. CASE MarkingFails
  BY <1>1, <1>7, ResumeKeeps, ResumeTold DEF MarkingFails
<1> QED
  BY <1>2, <1>3, <1>4, <1>5, <1>6, <1>7 DEF FaultStep

LEMMA PersistingFailsKeeps ==
  ASSUME FeedInv, PersistingFails
  PROVE  FeedInv'
<1>1. PICK found \in SUBSET SubscribableRounds, n \in 0..3 :
        /\ DiscoveryFails(found, n) \/ Crash(found, n)
        /\ PersistRules(IF n = 0 THEN {} ELSE found)
  BY DEF PersistingFails
<1>2. /\ SessionLosses
      /\ UNCHANGED <<changes, shown, format, repeated, baselineRow, listed, returned>>
  BY DEF PersistingFails, providerVars
<1>3. SessionInv' /\ CloseClient /\ pc' # "await_subscribed"
  BY <1>1, InterruptedKeeps DEF FeedInv
<1>4. UNCHANGED table
  BY <1>1 DEF PersistRules
<1>5. CurrentInv'
  BY <1>2, <1>3, <1>4, NothingToldByClosed DEF FeedInv, SessionInv, CurrentInv
<1>6. (IF n = 0 THEN {} ELSE found) \in SUBSET Rounds
  BY RoundsAssumption DEF RoundsAssumption
<1>7. SourcesInv'
  BY <1>1, <1>2, <1>6, RulesPersisted DEF FeedInv
<1> QED
  BY <1>2, <1>3, <1>5, <1>7 DEF FeedInv

LEMMA StepKeeps ==
  ASSUME FeedInv, [Next]_vars
  PROVE  FeedInv'
<1>1. CASE WorkerStep \/ FrameStep \/ FaultStep
  <2>1. OtherFeedUnchanged
    BY <1>1 DEF WorkerStep, FrameStep, FaultStep
  <2> QED
    BY <1>1, <2>1, WorkerKeeps, FrameKeeps, FaultKeeps, ElsewhereStays DEF FeedInv
<1> QED
  BY <1>1, ProviderKeeps, DiscoverRoundsKeeps, PersistingFailsKeeps, ProcessMessageKeeps, ProcessingFailsKeeps,
     PollRecordsKeeps, StutterKeeps DEF Next

LEMMA NothingHeard ==
  ASSUME Init
  PROVE  SessionInv /\ CurrentInv
<1>1. /\ status = [r \in Rounds |-> "unknown"] /\ connected = FALSE
      /\ pc = "discover" /\ targets = {} /\ todo = {} /\ asking = NoRound
      /\ pending = 0 /\ reply = "none" /\ mapped = Empty /\ queue = <<>> /\ refs = 0
      /\ link = "none" /\ serving = Empty /\ requests = <<>> /\ wire = <<>>
      /\ over = FALSE /\ faults = 0 /\ missed = Rounds
  BY RoundsAssumption DEF RoundsAssumption, Init, SessionInit
<1>2. Types
  <2>1. faults \in 0..MaxFaults /\ refs \in Nat
    BY <1>1, FaultBoundAssumption DEF FaultBoundAssumption
  <2>2. status \in [Rounds -> Statuses] /\ pc \in Points
    BY <1>1 DEF Statuses, Points
  <2> QED
    BY <1>1, <2>1, <2>2, Zenon DEF Types
<1>3. Maps /\ Queues /\ Stage
  BY <1>1, NothingIsEmpty DEF Maps, Queues, Stage, Awaits, InSession
<1>4. RefsInv /\ AwaitInv
  BY <1>1, NothingIsEmpty
  DEF RefsInv, Injective, Agreed, RequestsInOrder, FramesFit, AwaitInv, Asked, Subscribing, Unsubscribing
<1>5. StatusInv
  BY <1>1, NothingIsEmpty DEF StatusInv, Connecting, Leaving, Served, InSession
<1> QED
  BY <1>1, <1>2, <1>3, <1>4, <1>5 DEF SessionInv, ShapeInv, CurrentInv, ToldUnlessMissed, PendingMissed

LEMMA NothingIngested ==
  ASSUME Init
  PROVE  SourcesInv /\ changes \in Nat
<1>1. /\ rule = [r \in Rounds |-> Unruled] /\ reruled = {} /\ changes = 1
      /\ baselineRow = [x \in Results |-> None] /\ listed = [x \in Results |-> [k \in Kinds |-> None]]
      /\ seen = {} /\ table = [x \in Results |-> None]
      /\ evidence = [x \in Results |-> [k \in Kinds |-> None]]
      /\ records = [x \in Results |-> [k \in Kinds |-> NoRecord]]
      /\ apiEvidence = evidence /\ apiRecords = records
      /\ \E s \in Start : shown = s.shown /\ format = s.format
  BY DEF Init, IngestionInit, Unruled, NoObservation
<1>2. shown \in [Results -> Rows \cup {None}] /\ format \in [Rounds -> Formats]
  BY <1>1, StartAssumption DEF StartAssumption
<1>3. DOMAIN NoRecord = Levels
  BY DEF NoRecord
<1>4. IngestionTypes
  BY <1>1, <1>2, <1>3 DEF IngestionTypes
<1>5. RuledInv
  BY <1>1 DEF RuledInv
<1>6. \A x \in Results : Previous(x) = None
  BY <1>1 DEF Previous
<1>7. EvidenceFollowsSources
  BY <1>1, <1>6 DEF EvidenceFollowsSources, ObservationsOf, NoObservation
<1>8. RecordsFollowSources
  BY <1>1, <1>6 DEF RecordsFollowSources
<1> QED
  BY <1>1, <1>4, <1>5, <1>7, <1>8 DEF SourcesInv

\* The session's view, the ingestion's tables and the newest snapshots fit together in
\* every reachable state.
THEOREM SpecFeedInv == Spec => []FeedInv
<1>1. Init => FeedInv
  BY NothingHeard, NothingIngested DEF FeedInv
<1>2. FeedInv /\ [Next]_vars => FeedInv'
  BY StepKeeps
<1> QED
  BY <1>1, <1>2, PTL DEF Spec

(***************************************************************************)
(* What follows from it.                                                   *)
(***************************************************************************)

LEMMA SessionTyped ==
  ASSUME ShapeInv
  PROVE  SessionTypeOK
<1>1. Types /\ Maps /\ Stage
  BY DEF ShapeInv
<1>2. pending \in 0..refs
  BY <1>1 DEF Types, Stage
<1>3. SubscribedRoundIds \subseteq Rounds /\ ServedRounds \subseteq Rounds
  BY <1>1 DEF Maps, SubscribedRoundIds, ServedRounds
<1>4. SubscribableRounds = Rounds
  BY RoundsAssumption DEF RoundsAssumption
<1> QED
  BY <1>1, <1>2, <1>3, <1>4 DEF SessionTypeOK, Types, Maps

\* Every variable keeps its type: statuses are those of SubscriptionRound, rules are
\* formats, tables hold rows of the provider.
THEOREM SpecWcaTypeOK == Spec => []TypeOK
<1>1. FeedInv => TypeOK
  <2>1. SUFFICES ASSUME FeedInv
                 PROVE  TypeOK
    OBVIOUS
  <2>2. SessionTypeOK
    BY <2>1, SessionTyped DEF FeedInv, SessionInv
  <2>3. IngestionTypes
    BY <2>1 DEF FeedInv, SourcesInv
  <2>4. rule \in [Rounds -> Formats \cup {[expected |-> 0, cutoffAttempts |-> 0, cutoff |-> 0]}]
    BY <2>3 DEF IngestionTypes, Unruled
  <2>5. \A x \in Results : table[x] = None \/ (table[x].row \in Rows /\ table[x].active \in BOOLEAN)
    BY <2>3 DEF IngestionTypes
  <2>6. \A s \in seen : s[1] \in Rounds /\ DOMAIN s[2] \subseteq ResultsOf(s[1])
    BY <2>3 DEF IngestionTypes, Of
  <2> QED
    BY <2>2, <2>3, <2>4, <2>5, <2>6 DEF IngestionTypes, TypeOK
<1> QED
  BY <1>1, SpecFeedInv, PTL

\* The evidence of a result is what the stored row stands for under the rule of its
\* round; the poller's is that of the last entry it was given.
THEOREM SpecEvidenceFollowsSources == Spec => []EvidenceFollowsSources
<1>1. FeedInv => EvidenceFollowsSources
  BY DEF FeedInv, SourcesInv
<1> QED
  BY <1>1, SpecFeedInv, PTL

\* A result has active records of the levels its row is tagged with, and of no other.
THEOREM SpecRecordsFollowSources == Spec => []RecordsFollowSources
<1>1. FeedInv => RecordsFollowSources
  BY DEF FeedInv, SourcesInv
<1> QED
  BY <1>1, SpecFeedInv, PTL

\* A round whose status says subscribed is subscribed at both ends, while the loop runs on
\* an unbroken connection: through timeouts, late replies and rounds that come and go.
THEOREM SpecSubscribedIsServed == Spec => []SubscribedIsServed
<1>1. FeedInv => SubscribedIsServed
  <2>1. SUFFICES ASSUME FeedInv, pc = "loop", link = "open", NEW r \in Rounds, status[r] = "subscribed"
                 PROVE  Established(r)
    BY RoundsAssumption DEF RoundsAssumption, SubscribedIsServed
  <2>2. Established(r) \/ ToBeAsked(r)
    BY <2>1 DEF FeedInv, SessionInv, StatusInv, Served, InSession, Marked
  <2> QED
    BY <2>1, <2>2 DEF ToBeAsked
<1> QED
  BY <1>1, SpecFeedInv, PTL

\* The diff table shows what the provider shows, or the newest snapshot is under way, or
\* it was missed or passed over.
THEOREM SpecTableIsCurrent == Spec => []TableIsCurrent
<1>1. FeedInv => TableIsCurrent
  <2>1. SUFFICES ASSUME FeedInv, NEW r \in Rounds, r \notin missed, r \notin repeated, ~IsCurrent(r)
                 PROVE  Underway(r)
    BY DEF TableIsCurrent
  <2>2. Told(r) /\ ~TableTells(r)
    BY <2>1 DEF FeedInv, CurrentInv, ToldUnlessMissed, TableTells
  <2>3. Len(wire) \in Nat /\ Len(queue) \in Nat
    BY <2>1, WireTyped DEF FeedInv, SessionInv, ShapeInv
  <2>4. WireTells(r) => Underway(r)
    BY <2>3 DEF WireTells, Underway, Accepted
  <2>5. QueueTells(r) => Underway(r)
    BY <2>3 DEF QueueTells, Underway
  <2> QED
    BY <2>2, <2>4, <2>5 DEF Told
<1> QED
  BY <1>1, SpecFeedInv, PTL
=============================================================================
