------------------------ MODULE CubingChinaFeedProofs ------------------------
(* Theorems about CubingChinaFeed, for any competitions, rounds, results,  *)
(* rows and discoveries and any bounds.                                    *)
EXTENDS CubingChinaFeed, FiniteSetTheorems, TLAPS

(***************************************************************************)
(* Messages and sessions.                                                  *)
(***************************************************************************)

PartialRows  == UNION {[X -> Rows] : X \in SUBSET Results}
PartialRules == UNION {[R -> Formats] : R \in SUBSET Rounds}

UsersMessages  == [kind : {"users"}, users : SUBSET Results]
Updates(c)     == [kind : {"update"}, result : {x \in Results : CompetitionOf[RoundOf[x]] = c}, row : Rows]
Snapshots(c)   == {m \in [kind : {"snapshot"}, rows : PartialRows, round : RoundsOf(c)] :
                     DOMAIN m.rows \subseteq ResultsOf(m.round)}
RoundsMessages == [kind : {"rounds"}, rules : PartialRules]
Messages(c)    == UsersMessages \cup Updates(c) \cup Snapshots(c) \cup RoundsMessages \cup {Failure}

SessionTypes ==
  /\ users \in [Competitions -> SUBSET Results]
  /\ todo \in [Competitions -> SUBSET Rounds]
  /\ fetched \in [Competitions -> SUBSET Rounds]
  /\ asked \in [Competitions -> Rounds \cup {NoRound}]
  /\ inbox = [c \in Competitions |-> inbox[c]]

\* What a session holds, and that there is nothing without one.
SessionInv(c) ==
  /\ todo[c] \cup fetched[c] \subseteq RoundsOf(c)
  /\ todo[c] \cap fetched[c] = {}
  /\ asked[c] # NoRound <=> task[c] = "fetching"
  /\ task[c] = "fetching" => asked[c] \in fetched[c]
  /\ task[c] = "roster" => todo[c] = {} /\ fetched[c] = {}
  /\ inbox[c] \in Seq(Messages(c))
  /\ ~InSession(c) => users[c] = {} /\ todo[c] = {} /\ fetched[c] = {} /\ inbox[c] = <<>>

Sessions == SessionTypes /\ \A c \in Competitions : SessionInv(c)

LEMMA SessionStays ==
  ASSUME NEW c \in Competitions, SessionInv(c),
         users'[c] = users[c], todo'[c] = todo[c], fetched'[c] = fetched[c],
         asked'[c] = asked[c], inbox'[c] = inbox[c],
         task'[c] = task[c] \/ (~InSession(c) /\ ~InSession(c)')
  PROVE  SessionInv(c)'
  BY DEF SessionInv, InSession

LEMMA SessionEnds ==
  ASSUME NEW c \in Competitions,
         users'[c] = {}, todo'[c] = {}, fetched'[c] = {}, asked'[c] = NoRound, inbox'[c] = <<>>,
         ~InSession(c)'
  PROVE  SessionInv(c)'
  BY DEF SessionInv, InSession

LEMMA EndSessionsParts ==
  ASSUME SessionTypes, NEW C, EndSessions(C)
  PROVE  /\ SessionTypes'
         /\ \A c \in Competitions \cap C :
              users'[c] = {} /\ todo'[c] = {} /\ fetched'[c] = {} /\ asked'[c] = NoRound /\ inbox'[c] = <<>>
         /\ \A c \in Competitions \ C :
              /\ users'[c] = users[c] /\ todo'[c] = todo[c] /\ fetched'[c] = fetched[c]
              /\ asked'[c] = asked[c] /\ inbox'[c] = inbox[c]
  BY DEF SessionTypes, EndSessions

\* The sessions of C end, the others go on.
LEMMA EndSessionsKeep ==
  ASSUME Sessions, NEW C, EndSessions(C),
         \A c \in Competitions \cap C : task'[c] \notin {"roster", "fetching", "live"},
         \A c \in Competitions \ C : task'[c] = task[c] \/ (~InSession(c) /\ ~InSession(c)')
  PROVE  Sessions'
<1>1. \A c \in Competitions \cap C : SessionInv(c)'
  BY EndSessionsParts, SessionEnds DEF Sessions, InSession
<1>2. \A c \in Competitions \ C : SessionInv(c)'
  BY EndSessionsParts, SessionStays DEF Sessions
<1> QED
  BY <1>1, <1>2, EndSessionsParts DEF Sessions

LEMMA SessionsKeep ==
  ASSUME Sessions, UNCHANGED sessionVars,
         \A c \in Competitions : task'[c] = task[c] \/ (~InSession(c) /\ ~InSession(c)')
  PROVE  Sessions'
<1>1. SessionTypes'
  BY DEF Sessions, SessionTypes, sessionVars
<1>2. \A c \in Competitions : SessionInv(c)'
  BY SessionStays DEF Sessions, sessionVars
<1> QED
  BY <1>1, <1>2 DEF Sessions

\* Messages that arrive.
LEMMA InboxChanges ==
  ASSUME Sessions, NEW c \in Competitions, NEW q \in Seq(Messages(c)),
         InSession(c) \/ q = <<>>, inbox' = [inbox EXCEPT ![c] = q],
         UNCHANGED <<users, todo, fetched, asked, task>>
  PROVE  Sessions'
<1>1. /\ inbox'[c] = q /\ SessionTypes'
      /\ \A d \in Competitions \ {c} : inbox'[d] = inbox[d]
  BY DEF Sessions, SessionTypes
<1>2. SessionInv(c)'
  BY <1>1 DEF Sessions, SessionInv, InSession
<1>3. \A d \in Competitions \ {c} : SessionInv(d)'
  BY <1>1, SessionStays DEF Sessions, InSession
<1> QED
  BY <1>1, <1>2, <1>3 DEF Sessions

(***************************************************************************)
(* The collectors.                                                         *)
(***************************************************************************)

StoredInv ==
  /\ status \in [Competitions -> Statuses]
  /\ active \in [Competitions -> BOOLEAN] /\ ready \in [Competitions -> BOOLEAN]
  /\ connected \in [Competitions -> BOOLEAN]
  /\ \A c \in Competitions : status[c] = "unknown" => ~active[c] /\ ~ready[c]
  /\ targets \subseteq {r \in PageRounds : ready[CompetitionOf[r]]}

PlacedTasks == {c \in Competitions : task[c] \in Placed}

TaskInv ==
  /\ pc \in {"discover", "reconcile"} /\ found \subseteq {c \in Competitions : ready[c]}
  /\ task \in [Competitions -> Points]
  /\ Cardinality(PlacedTasks) <= MaxConnections
  /\ stopped \in BOOLEAN /\ faults \in 0..MaxFaults /\ abandoned \subseteq Competitions

QueueInv ==
  /\ ahead \in [Competitions -> SUBSET Competitions]
  /\ \A c \in Competitions : ahead[c] \subseteq IF c \in Waiting THEN Waiting \ {c} ELSE {}
  /\ \A c, d \in Waiting : c # d => (c \in ahead[d] <=> d \notin ahead[c])

CollectorInv == StoredInv /\ TaskInv /\ QueueInv /\ Sessions

LEMMA RoundOfCompetition ==
  /\ \A r \in Rounds : CompetitionOf[r] \in Competitions
  /\ \A x \in Results : RoundOf[x] \in Rounds
  /\ NoRound \notin Rounds
  BY CompetitionOfAssumption, RoundOfAssumption, PageRoundsAssumption
  DEF CompetitionOfAssumption, RoundOfAssumption, PageRoundsAssumption

LEMMA CollectorInvTypeOK ==
  CollectorInv /\ disowned \cup unsettled \subseteq Competitions => CollectorsTypeOK
<1> SUFFICES ASSUME CollectorInv, disowned \cup unsettled \subseteq Competitions
             PROVE  CollectorsTypeOK
  OBVIOUS
<1>1. \A c \in Competitions :
        /\ todo[c] \cup fetched[c] \subseteq RoundsOf(c) /\ todo[c] \cap fetched[c] = {}
        /\ asked[c] # NoRound <=> task[c] = "fetching"
        /\ ~InSession(c) => inbox[c] = <<>>
  BY DEF CollectorInv, Sessions, SessionInv
<1> QED
  BY <1>1 DEF CollectorInv, StoredInv, TaskInv, QueueInv, PlacedTasks, CollectorsTypeOK

LEMMA PlacesShrink ==
  ASSUME TaskInv, PlacedTasks' \subseteq PlacedTasks
  PROVE  Cardinality(PlacedTasks)' <= MaxConnections
<1>1. IsFiniteSet(PlacedTasks)
  BY FS_Subset, CompetitionsAssumption DEF CompetitionsAssumption, PlacedTasks
<1>2. PICK P, Q : P = PlacedTasks /\ Q = PlacedTasks'
  OBVIOUS
<1>3. IsFiniteSet(Q) /\ Cardinality(Q) <= Cardinality(P)
  BY <1>1, <1>2, FS_Subset
<1>4. Cardinality(Q) \in Nat /\ Cardinality(P) \in Nat
  BY <1>1, <1>2, <1>3, FS_CardinalityType
<1>5. Cardinality(P) <= MaxConnections /\ MaxConnections \in Nat
  BY <1>2, PlacesAssumption DEF TaskInv, PlacesAssumption
<1>6. Cardinality(Q) <= MaxConnections
  BY <1>3, <1>4, <1>5
<1> QED
  BY <1>2, <1>6

LEMMA PlacesGrow ==
  ASSUME TaskInv, Free, NEW c \in Competitions, PlacedTasks' \subseteq PlacedTasks \cup {c}
  PROVE  Cardinality(PlacedTasks)' <= MaxConnections
<1>1. IsFiniteSet(PlacedTasks)
  BY FS_Subset, CompetitionsAssumption DEF CompetitionsAssumption, PlacedTasks
<1>2. PICK P, Q : P = PlacedTasks /\ Q = PlacedTasks'
  OBVIOUS
<1>a. IsFiniteSet(P) /\ Cardinality(P) \in Nat
  BY <1>1, <1>2, FS_CardinalityType
<1>b. /\ IsFiniteSet(P \cup {c})
      /\ Cardinality(P \cup {c}) = IF c \in P THEN Cardinality(P) ELSE Cardinality(P) + 1
  BY <1>a, FS_AddElement
<1>3. /\ IsFiniteSet(P \cup {c}) /\ Cardinality(P) \in Nat
      /\ Cardinality(P \cup {c}) <= Cardinality(P) + 1 /\ Cardinality(P \cup {c}) \in Nat
  BY <1>a, <1>b, SMT
<1>4. IsFiniteSet(Q) /\ Cardinality(Q) <= Cardinality(P \cup {c})
  BY <1>2, <1>3, FS_Subset
<1>5. Cardinality(Q) \in Nat
  BY <1>4, FS_CardinalityType
<1>6. Cardinality(P) < MaxConnections /\ MaxConnections \in Nat
  BY <1>2, PlacesAssumption DEF Free, PlacedTasks, PlacesAssumption
<1>7. Cardinality(Q) <= MaxConnections
  BY <1>3, <1>4, <1>5, <1>6
<1> QED
  BY <1>2, <1>7

LEMMA QueueStays ==
  ASSUME QueueInv, UNCHANGED ahead, Waiting' = Waiting
  PROVE  QueueInv'
  BY DEF QueueInv

LEMMA QueueLeft ==
  ASSUME QueueInv, NEW C, LeaveQueue(C), Waiting' = Waiting \ C
  PROVE  QueueInv'
<1>1. /\ ahead' \in [Competitions -> SUBSET Competitions]
      /\ \A c \in Competitions : ahead'[c] = IF c \in C THEN {} ELSE ahead[c] \ C
  BY DEF QueueInv, LeaveQueue
<1>2. \A c \in Waiting : c \in Competitions
  BY DEF Waiting
<1>3. PICK W, V : W = Waiting /\ V = Waiting'
  OBVIOUS
<1>4. \A c \in Competitions : ahead'[c] \subseteq IF c \in V THEN V \ {c} ELSE {}
  BY <1>1, <1>3 DEF QueueInv
<1>5. \A c, d \in V : c # d => (c \in ahead'[d] <=> d \notin ahead'[c])
  BY <1>1, <1>2, <1>3 DEF QueueInv
<1> QED
  BY <1>1, <1>3, <1>4, <1>5 DEF QueueInv

LEMMA QueueJoined ==
  ASSUME QueueInv, NEW c \in Competitions, c \notin Waiting, Waiting' = Waiting \cup {c},
         ahead' = [ahead EXCEPT ![c] = Waiting]
  PROVE  QueueInv'
<1>1. \A d \in Waiting : d \in Competitions
  BY DEF Waiting
<1>2. /\ ahead' \in [Competitions -> SUBSET Competitions]
      /\ ahead'[c] = Waiting /\ \A d \in Competitions \ {c} : ahead'[d] = ahead[d]
  BY <1>1 DEF QueueInv
<1>3. PICK W, V : W = Waiting /\ V = Waiting'
  OBVIOUS
<1>4. \A d \in Competitions : ahead'[d] \subseteq IF d \in V THEN V \ {d} ELSE {}
  BY <1>2, <1>3 DEF QueueInv
<1>5. \A d, e \in V : d # e => (d \in ahead'[e] <=> e \notin ahead'[d])
  BY <1>1, <1>2, <1>3 DEF QueueInv
<1> QED
  BY <1>2, <1>3, <1>4, <1>5 DEF QueueInv

(***************************************************************************)
(* What the provider says.                                                 *)
(***************************************************************************)

ProviderInv ==
  /\ shown \in [Results -> Rows \cup {None}] /\ roster \subseteq Results
  /\ offered \subseteq Rounds /\ format \in [Rounds -> Formats]

LEMMA UsersIsMessage ==
  ASSUME ProviderInv, NEW c
  PROVE  UsersMessage(roster) \in Messages(c)
  BY DEF ProviderInv, UsersMessage, Messages, UsersMessages

LEMMA UpdateIsMessage ==
  ASSUME NEW x \in Results, NEW row \in Rows
  PROVE  UpdateMessage(x, row) \in Messages(CompetitionOf[RoundOf[x]])
  BY DEF UpdateMessage, Messages, Updates

\* The answer for a round holds its rows and no others.
LEMMA AnswerIsMessage ==
  ASSUME ProviderInv, NEW r \in Rounds
  PROVE  Answers[r] \in Messages(CompetitionOf[r])
<1>1. Answers[r] = [kind |-> "snapshot", rows |-> Shown(r), round |-> r]
  BY DEF Answers, SnapshotMessage
<1>2. PICK X : X = {y \in ResultsOf(r) : shown[y] # None}
  OBVIOUS
<1>3. Shown(r) = [x \in X |-> shown[x]]
  BY <1>2 DEF Shown
<1>4. X \subseteq ResultsOf(r) /\ X \in SUBSET Results /\ \A x \in X : shown[x] \in Rows
  BY <1>2 DEF ProviderInv, ResultsOf
<1>5. Shown(r) \in [X -> Rows] /\ DOMAIN Shown(r) = X
  BY <1>3, <1>4
<1>6. Shown(r) \in PartialRows
  BY <1>4, <1>5 DEF PartialRows
<1>7. r \in RoundsOf(CompetitionOf[r])
  BY PageRoundsAssumption DEF PageRoundsAssumption, RoundsOf
<1>8. Answers[r] \in Snapshots(CompetitionOf[r])
  BY <1>1, <1>4, <1>5, <1>6, <1>7 DEF Snapshots
<1> QED
  BY <1>8 DEF Messages

LEMMA RulesAreMessage ==
  ASSUME NEW c, NEW R \in SUBSET Rounds, NEW rules \in [R -> Formats]
  PROVE  RoundsMessage(rules) \in Messages(c)
  BY DEF RoundsMessage, Messages, RoundsMessages, PartialRules

LEMMA RoundsAreMessage ==
  ASSUME ProviderInv, NEW c
  PROVE  AllRounds(c) \in Messages(c)
<1>1. PICK R : R = offered \cap RoundsOf(c)
  OBVIOUS
<1>2. R \in SUBSET Rounds /\ [r \in R |-> format[r]] \in [R -> Formats]
  BY <1>1 DEF ProviderInv
<1>3. RoundsMessage([r \in R |-> format[r]]) \in Messages(c)
  BY <1>2, RulesAreMessage
<1> QED
  BY <1>1, <1>3 DEF AllRounds

LEMMA AskForKeeps ==
  ASSUME Sessions, ProviderInv, task \in [Competitions -> Points],
         NEW c \in Competitions, InSession(c),
         NEW R, R \subseteq RoundsOf(c) \ fetched[c],
         NEW q \in Seq(Messages(c)), AskFor(c, R, q, Answers),
         users' \in [Competitions -> SUBSET Results],
         \A d \in Competitions \ {c} : users'[d] = users[d]
  PROVE  Sessions'
<1> USE DEF Sessions
<1>1. \A d \in Competitions \ {c} :
        /\ task'[d] = task[d] /\ todo'[d] = todo[d] /\ fetched'[d] = fetched[d]
        /\ asked'[d] = asked[d] /\ inbox'[d] = inbox[d]
  BY DEF AskFor, SessionTypes
<1>2. \A d \in Competitions \ {c} : SessionInv(d)'
  BY <1>1, SessionStays
<1>3. \A r \in R : r \in Rounds /\ r \in RoundsOf(c) /\ Answers[r] \in Messages(c)
  BY AnswerIsMessage, PageRoundsAssumption DEF RoundsOf, PageRoundsAssumption
<1>4. CASE R = {}
  <2>1. /\ task'[c] = "live" /\ asked'[c] = NoRound /\ todo'[c] = {} /\ inbox'[c] = q
        /\ fetched' = fetched
    BY <1>4 DEF AskFor, SessionTypes
  <2>2. SessionTypes'
    BY <1>4 DEF AskFor, SessionTypes
  <2>3. SessionInv(c)'
    BY <2>1 DEF SessionInv, InSession
  <2> QED
    BY <1>2, <2>2, <2>3
<1>5. CASE R # {}
  <2>1. PICK r \in R : r = FirstOf(R)
    BY <1>5 DEF FirstOf
  <2>2. PICK i : i = IF Serving(c) THEN Append(q, Answers[r]) ELSE q
    OBVIOUS
  <2>3. i \in Seq(Messages(c))
    BY <1>3, <2>2
  <2>4. /\ task' = [task EXCEPT ![c] = "fetching"]
        /\ asked' = [asked EXCEPT ![c] = r]
        /\ todo' = [todo EXCEPT ![c] = R \ {r}]
        /\ fetched' = [fetched EXCEPT ![c] = @ \cup {r}]
        /\ inbox' = [inbox EXCEPT ![c] = i]
    BY <1>5, <2>1, <2>2 DEF AskFor
  <2>5. SessionTypes'
    BY <1>3, <2>4 DEF SessionTypes
  <2>6. /\ task'[c] = "fetching" /\ asked'[c] = r /\ todo'[c] = R \ {r}
        /\ fetched'[c] = fetched[c] \cup {r} /\ inbox'[c] = i
    BY <2>4 DEF SessionTypes
  <2>7. r \in Rounds /\ r \in RoundsOf(c) /\ r # NoRound
    BY <1>3, RoundOfCompetition
  <2>8. SessionInv(c)'
    BY <2>3, <2>6, <2>7 DEF SessionInv, InSession
  <2> QED
    BY <1>2, <2>5, <2>8
<1> QED
  BY <1>4, <1>5

LEMMA PushKeeps ==
  ASSUME Sessions, NEW c \in Competitions, NEW m \in Messages(c), Push(c, m),
         UNCHANGED <<users, todo, fetched, asked, task>>
  PROVE  Sessions'
<1>1. CASE Serving(c)
  <2>1. Append(inbox[c], m) \in Seq(Messages(c)) /\ InSession(c)
    BY <1>1 DEF Sessions, SessionInv, Serving
  <2>2. inbox' = [inbox EXCEPT ![c] = Append(inbox[c], m)]
    BY <1>1 DEF Push
  <2> QED
    BY <2>1, <2>2, InboxChanges
<1>2. CASE ~ Serving(c)
  <2>1. inbox' = inbox
    BY <1>2 DEF Push, Sessions, SessionTypes
  <2> QED
    BY <2>1, SessionsKeep DEF sessionVars
<1> QED
  BY <1>1, <1>2

(***************************************************************************)
(* The steps of the supervisor and of the tasks.                           *)
(***************************************************************************)

LEMMA FaultCounts ==
  ASSUME TaskInv, Fault \/ UNCHANGED faults
  PROVE  faults' \in 0..MaxFaults
  BY PlacesAssumption DEF TaskInv, Fault, PlacesAssumption

\* Whatever part of a discovery is stored, the rows fit together.
LEMMA StoredKeeps ==
  ASSUME StoredInv, NEW o, NEW page \in SUBSET Rounds, NEW entered, NEW saved, NEW retired, NEW closed,
         Stored(o, page, entered, saved, retired, closed)
  PROVE  /\ StoredInv'
         /\ \A c \in Competitions : ready[c] => ready'[c]
<1> DEFINE opened(c) == c \in entered /\ HasPage(o, c)
           added(c)  == c \in entered /\ o[c] = "unready" /\ status[c] = "unknown"
<1>1. /\ active' = [c \in Competitions |-> (active[c] \/ opened(c) \/ added(c)) /\ c \notin retired]
      /\ ready' = [c \in Competitions |-> ready[c] \/ opened(c)]
      /\ status' = [c \in Competitions |->
           IF c \in retired THEN "retired"
           ELSE IF opened(c) /\ o[c] = "ready" THEN "active"
           ELSE IF opened(c) \/ added(c) THEN "pending" ELSE status[c]]
      /\ connected' = Mark(connected, retired, FALSE)
      /\ \A r \in targets' :
           /\ r \in PageRounds
           /\ r \in targets \/ opened(CompetitionOf[r])
  BY DEF Stored
<1>2. \A c \in Competitions : opened(c) \in BOOLEAN /\ added(c) \in BOOLEAN
  BY DEF HasPage
<1> HIDE DEF opened, added
<1>3. /\ status' \in [Competitions -> Statuses]
      /\ active' \in [Competitions -> BOOLEAN] /\ ready' \in [Competitions -> BOOLEAN]
  BY <1>1, <1>2 DEF StoredInv, Statuses
<1>4. connected' \in [Competitions -> BOOLEAN]
  BY <1>1 DEF StoredInv, Mark
<1>5. ASSUME NEW c \in Competitions, status'[c] = "unknown"
      PROVE  ~active'[c] /\ ~ready'[c]
  BY <1>1, <1>5 DEF StoredInv
<1>6. \A c \in Competitions : ready[c] => ready'[c]
  BY <1>1
<1>7. targets' \subseteq {r \in PageRounds : ready'[CompetitionOf[r]]}
  BY <1>1, RoundOfCompetition, PageRoundsAssumption DEF StoredInv, PageRoundsAssumption
<1> QED
  BY <1>3, <1>4, <1>5, <1>6, <1>7 DEF StoredInv

LEMMA DiscoverKeeps ==
  ASSUME CollectorInv, NEW o, NEW page \in SUBSET Rounds, Discover(o, page)
  PROVE  CollectorInv'
<1> USE DEF CollectorInv
<1>1. /\ UNCHANGED <<task, ahead, sessionVars, stopped>> /\ (Fault \/ UNCHANGED faults)
      /\ pc' \in {"discover", "reconcile"}
      /\ Stored(o, page, Competitions, PageRounds, Retirable(o), Retirable(o))
      /\ found' = {c \in Competitions : active'[c] /\ ready'[c]}
  BY DEF Discover, PersistDiscovery, Collectable
<1>2. StoredInv'
  BY <1>1, StoredKeeps
<1>3. TaskInv'
  <2>1. found' \subseteq {c \in Competitions : ready'[c]} /\ abandoned' \subseteq Competitions
    BY <1>1 DEF Stored, TaskInv
  <2>2. PlacedTasks' \subseteq PlacedTasks
    BY <1>1 DEF PlacedTasks
  <2>3. Cardinality(PlacedTasks)' <= MaxConnections
    BY <2>2, PlacesShrink
  <2>4. faults' \in 0..MaxFaults
    BY <1>1, FaultCounts
  <2> QED
    BY <1>1, <2>1, <2>3, <2>4 DEF TaskInv
<1>4. QueueInv'
  BY <1>1, QueueStays DEF Waiting
<1>5. Sessions'
  BY <1>1, SessionsKeep
<1> QED
  BY <1>2, <1>3, <1>4, <1>5

LEMMA BreaksOffKeeps ==
  ASSUME CollectorInv, NEW o, NEW page \in SUBSET Rounds, NEW entered, NEW saved, NEW retired, NEW closed,
         DiscoveryBreaksOff(o, page, entered, saved, retired, closed)
  PROVE  CollectorInv'
<1> USE DEF CollectorInv
<1>1. /\ UNCHANGED <<task, ahead, sessionVars, stopped, pc, found>> /\ Fault
      /\ Stored(o, page, entered, saved, retired, closed)
  BY DEF DiscoveryBreaksOff
<1>2. StoredInv' /\ \A c \in Competitions : ready[c] => ready'[c]
  BY <1>1, StoredKeeps
<1>3. TaskInv'
  <2>1. found' \subseteq {c \in Competitions : ready'[c]} /\ abandoned' \subseteq Competitions
    BY <1>1, <1>2 DEF Stored, TaskInv
  <2>2. PlacedTasks' \subseteq PlacedTasks
    BY <1>1 DEF PlacedTasks
  <2>3. Cardinality(PlacedTasks)' <= MaxConnections
    BY <2>2, PlacesShrink
  <2>4. faults' \in 0..MaxFaults
    BY <1>1, FaultCounts
  <2> QED
    BY <1>1, <2>1, <2>3, <2>4 DEF TaskInv
<1>4. QueueInv'
  BY <1>1, QueueStays DEF Waiting
<1>5. Sessions'
  BY <1>1, SessionsKeep
<1> QED
  BY <1>2, <1>3, <1>4, <1>5

LEMMA ReconcileKeeps ==
  ASSUME CollectorInv, ReconcileCollectors
  PROVE  CollectorInv'
<1> USE DEF CollectorInv
<1> DEFINE G == {c \in Competitions \ found : task[c] # "none"}
<1>1. PICK gone : gone = G
  OBVIOUS
<1>2. /\ task' = [c \in Competitions |->
            IF c \in gone THEN "none"
            ELSE IF c \in found /\ task[c] \in {"none", "ended"} THEN "checking" ELSE task[c]]
      /\ LeaveQueue(gone)
      /\ connected' = Mark(connected, {c \in gone : InSession(c)}, FALSE)
      /\ abandoned' = abandoned \ {c \in gone : InSession(c)}
      /\ EndSessions(gone)
      /\ pc' = "discover"
      /\ UNCHANGED <<status, active, ready, targets, found, stopped, faults>>
  BY <1>1 DEF ReconcileCollectors
<1> HIDE DEF G
<1>3. \A c \in Competitions : task'[c] = IF c \in gone THEN "none"
            ELSE IF c \in found /\ task[c] \in {"none", "ended"} THEN "checking" ELSE task[c]
  BY <1>2
<1>4. StoredInv'
  BY <1>2 DEF StoredInv, Mark
<1>5. PlacedTasks' \subseteq PlacedTasks
  BY <1>3 DEF PlacedTasks, Placed
<1>6. Cardinality(PlacedTasks)' <= MaxConnections
  BY <1>5, PlacesShrink
<1>7. task' \in [Competitions -> Points]
  BY <1>2 DEF TaskInv, Points
<1>8. TaskInv'
  BY <1>2, <1>6, <1>7 DEF TaskInv
<1>9. Waiting' = Waiting \ gone
  BY <1>3 DEF Waiting
<1>10. QueueInv'
  BY <1>2, <1>9, QueueLeft
<1>11. /\ \A c \in Competitions \cap gone : task'[c] \notin {"roster", "fetching", "live"}
       /\ \A c \in Competitions \ gone : task'[c] = task[c] \/ (~InSession(c) /\ ~InSession(c)')
  BY <1>3 DEF InSession
<1>12. Sessions'
  BY <1>2, <1>11, EndSessionsKeep
<1> QED
  BY <1>4, <1>8, <1>10, <1>12

LEMMA CheckKeeps ==
  ASSUME CollectorInv, NEW c \in Competitions, Check(c)
  PROVE  CollectorInv'
<1> USE DEF CollectorInv
<1>1. /\ task[c] = "checking" /\ UNCHANGED <<targetVars, sessionVars, faults, abandoned>>
      /\ UNCHANGED <<pc, found, stopped>>
      /\ \/ task' = [task EXCEPT ![c] = "waiting"] /\ ahead' = [ahead EXCEPT ![c] = Waiting]
         \/ task' = [task EXCEPT ![c] = "ended"] /\ UNCHANGED ahead
  BY DEF Check, SupervisorUnchanged
<1>2. /\ task' \in [Competitions -> Points] /\ task'[c] \in {"waiting", "ended"}
      /\ \A d \in Competitions \ {c} : task'[d] = task[d]
  BY <1>1 DEF TaskInv, Points
<1>3. PlacedTasks' \subseteq PlacedTasks
  BY <1>1, <1>2 DEF PlacedTasks, Placed
<1>a. Cardinality(PlacedTasks)' <= MaxConnections
  BY <1>1, <1>3, PlacesShrink
<1>4. TaskInv'
  BY <1>1, <1>2, <1>a DEF TaskInv, targetVars
<1>5. QueueInv'
  <2>1. CASE task' = [task EXCEPT ![c] = "waiting"] /\ ahead' = [ahead EXCEPT ![c] = Waiting]
    <3>1. c \notin Waiting /\ Waiting' = Waiting \cup {c}
      BY <1>1, <2>1 DEF Waiting, TaskInv
    <3> QED
      BY <2>1, <3>1, QueueJoined
  <2>2. CASE task' = [task EXCEPT ![c] = "ended"] /\ UNCHANGED ahead
    <3>1. Waiting' = Waiting
      BY <1>1, <2>2 DEF Waiting, TaskInv
    <3> QED
      BY <2>2, <3>1, QueueStays
  <2> QED
    BY <1>1, <2>1, <2>2
<1>6. Sessions'
  <2>1. \A d \in Competitions : task'[d] = task[d] \/ (~InSession(d) /\ ~InSession(d)')
    BY <1>1, <1>2 DEF InSession
  <2> QED
    BY <1>1, <2>1, SessionsKeep
<1>7. StoredInv'
  BY <1>1 DEF StoredInv, targetVars
<1> QED
  BY <1>4, <1>5, <1>6, <1>7

LEMMA TakePlaceKeeps ==
  ASSUME CollectorInv, NEW c \in Competitions, TakePlace(c)
  PROVE  CollectorInv'
<1> USE DEF CollectorInv
<1>1. /\ task[c] = "waiting" /\ Free /\ LeaveQueue({c})
      /\ UNCHANGED <<targetVars, sessionVars, faults, abandoned>> /\ UNCHANGED <<pc, found, stopped>>
      /\ task' = [task EXCEPT ![c] = IF active[c] /\ ready[c] THEN "opening" ELSE "ended"]
  BY DEF TakePlace, SupervisorUnchanged
<1>2. /\ task' \in [Competitions -> Points] /\ task'[c] \in {"opening", "ended"}
      /\ \A d \in Competitions \ {c} : task'[d] = task[d]
  BY <1>1 DEF TaskInv, Points
<1>3. PlacedTasks' \subseteq PlacedTasks \cup {c}
  BY <1>1, <1>2 DEF PlacedTasks
<1>a. Cardinality(PlacedTasks)' <= MaxConnections
  BY <1>1, <1>3, PlacesGrow
<1>4. TaskInv'
  BY <1>1, <1>2, <1>a DEF TaskInv, targetVars
<1>5. Waiting' = Waiting \ {c}
  BY <1>1, <1>2 DEF Waiting
<1>6. QueueInv'
  BY <1>1, <1>5, QueueLeft
<1>7. Sessions'
  <2>1. \A d \in Competitions : task'[d] = task[d] \/ (~InSession(d) /\ ~InSession(d)')
    BY <1>1, <1>2 DEF InSession
  <2> QED
    BY <1>1, <2>1, SessionsKeep
<1>8. StoredInv'
  BY <1>1 DEF StoredInv, targetVars
<1> QED
  BY <1>4, <1>6, <1>7, <1>8

\* The task of c goes on from a point to another and leaves nothing in the queue.
LEMMA TaskMoves ==
  ASSUME CollectorInv, NEW c \in Competitions, NEW p \in Points \ {"waiting"},
         c \notin Waiting, p \in Placed => task[c] \in Placed,
         task' = [task EXCEPT ![c] = p],
         UNCHANGED <<ahead, active, ready, targets, pc, found, stopped>>,
         Fault \/ UNCHANGED faults,
         connected' \in [Competitions -> BOOLEAN], abandoned' \subseteq Competitions,
         \/ UNCHANGED status
         \/ \E s \in Statuses \ {"unknown"} : status' = [status EXCEPT ![c] = s],
         Sessions'
  PROVE  CollectorInv'
<1> USE DEF CollectorInv
<1>1. /\ task' \in [Competitions -> Points] /\ task'[c] = p
      /\ \A d \in Competitions \ {c} : task'[d] = task[d]
  BY DEF TaskInv
<1>2. PlacedTasks' \subseteq PlacedTasks
  BY <1>1 DEF PlacedTasks
<1>3. Cardinality(PlacedTasks)' <= MaxConnections
  BY <1>2, PlacesShrink
<1>4. faults' \in 0..MaxFaults
  BY FaultCounts
<1>5. TaskInv'
  BY <1>1, <1>3, <1>4 DEF TaskInv
<1>6. Waiting' = Waiting
  BY <1>1 DEF Waiting
<1>7. QueueInv'
  BY <1>6, QueueStays
<1>8. StoredInv'
  BY DEF StoredInv, Statuses
<1> QED
  BY <1>5, <1>7, <1>8

LEMMA ConnectKeeps ==
  ASSUME CollectorInv, ProviderInv, NEW c \in Competitions, Connect(c, roster)
  PROVE  CollectorInv'
<1>1. /\ task[c] = "opening" /\ task' = [task EXCEPT ![c] = "roster"]
      /\ connected' = [connected EXCEPT ![c] = TRUE]
      /\ status' = [status EXCEPT ![c] = "active"]
      /\ abandoned' = abandoned \ {c}
      /\ inbox' = [inbox EXCEPT ![c] = <<UsersMessage(roster)>>]
      /\ UNCHANGED <<active, ready, targets, ahead, users, todo, asked, fetched, faults>>
      /\ UNCHANGED <<pc, found, stopped>>
  BY DEF Connect, SupervisorUnchanged
<1>2. /\ task'[c] = "roster" /\ inbox'[c] = <<UsersMessage(roster)>> /\ SessionTypes'
      /\ \A d \in Competitions \ {c} : task'[d] = task[d] /\ inbox'[d] = inbox[d]
  BY <1>1 DEF CollectorInv, TaskInv, Sessions, SessionTypes
<1>3. inbox'[c] \in Seq(Messages(c))
  BY <1>2, UsersIsMessage
<1>4. SessionInv(c)'
  BY <1>1, <1>2, <1>3 DEF CollectorInv, Sessions, SessionInv, InSession
<1>5. \A d \in Competitions \ {c} : SessionInv(d)'
  BY <1>1, <1>2, SessionStays DEF CollectorInv, Sessions
<1>6. Sessions'
  BY <1>2, <1>4, <1>5 DEF Sessions
<1>7. c \notin Waiting /\ task[c] \in Placed /\ "roster" \in Points \ {"waiting"}
  BY <1>1 DEF Waiting, Placed, Points
<1>8. connected' \in [Competitions -> BOOLEAN] /\ abandoned' \subseteq Competitions
  BY <1>1 DEF CollectorInv, StoredInv, TaskInv
<1>9. \E s \in Statuses \ {"unknown"} : status' = [status EXCEPT ![c] = s]
  BY <1>1 DEF Statuses
<1> QED
  BY <1>1, <1>6, <1>7, <1>8, <1>9, TaskMoves

LEMMA SessionFailsKeeps ==
  ASSUME CollectorInv, NEW c \in Competitions, task[c] # "waiting", SessionFails(c),
         Fault \/ UNCHANGED faults
  PROVE  CollectorInv'
<1>1. /\ task' = [task EXCEPT ![c] = "checking"]
      /\ connected' = [connected EXCEPT ![c] = FALSE]
      /\ status' = [status EXCEPT ![c] = "error"]
      /\ abandoned' = abandoned \ {c}
      /\ EndSessions({c})
      /\ UNCHANGED <<active, ready, targets, ahead>> /\ UNCHANGED <<pc, found, stopped>>
  BY DEF SessionFails, SupervisorUnchanged
<1>2. task'[c] = "checking" /\ \A d \in Competitions \ {c} : task'[d] = task[d]
  BY <1>1 DEF CollectorInv, TaskInv
<1>3. Sessions'
  BY <1>1, <1>2, EndSessionsKeep DEF CollectorInv
<1>4. c \notin Waiting /\ "checking" \in Points \ {"waiting"} /\ "checking" \notin Placed
  BY DEF Waiting, Placed, Points
<1>5. connected' \in [Competitions -> BOOLEAN] /\ abandoned' \subseteq Competitions
  BY <1>1 DEF CollectorInv, StoredInv, TaskInv
<1>6. \E s \in Statuses \ {"unknown"} : status' = [status EXCEPT ![c] = s]
  BY <1>1 DEF Statuses
<1> QED
  BY <1>1, <1>3, <1>4, <1>5, <1>6, TaskMoves

LEMMA TaskDiesKeeps ==
  ASSUME CollectorInv, NEW c \in Competitions, TaskDies(c)
  PROVE  CollectorInv'
<1>1. PICK flag \in {connected[c], FALSE} :
        /\ connected' = [connected EXCEPT ![c] = flag]
        /\ abandoned' = IF flag THEN abandoned \cup {c} ELSE abandoned \ {c}
  BY DEF TaskDies
<1>2. /\ task[c] \in Placed \cup {"checking"} /\ Fault
      /\ task' = [task EXCEPT ![c] = "ended"] /\ EndSessions({c})
      /\ UNCHANGED <<ahead, status, active, ready, targets, pc, found, stopped>>
  BY DEF TaskDies, StoredUnchanged, SupervisorUnchanged
<1>3. task'[c] = "ended" /\ \A d \in Competitions \ {c} : task'[d] = task[d]
  BY <1>2 DEF CollectorInv, TaskInv
<1>4. Sessions'
  BY <1>2, <1>3, EndSessionsKeep DEF CollectorInv
<1>5. c \notin Waiting /\ "ended" \in Points \ {"waiting"} /\ "ended" \notin Placed
  BY <1>2 DEF Waiting, Placed, Points
<1>6. connected' \in [Competitions -> BOOLEAN]
  BY <1>1 DEF CollectorInv, StoredInv
<1>7. abandoned' \subseteq Competitions
  BY <1>1 DEF CollectorInv, TaskInv
<1> QED
  BY <1>2, <1>4, <1>5, <1>6, <1>7, TaskMoves

\* What happens within a session.
LEMMA AskForMoves ==
  ASSUME CollectorInv, NEW c \in Competitions, InSession(c), NEW R, NEW q, AskFor(c, R, q, Answers),
         Sessions', UNCHANGED <<targetVars, ahead, faults, abandoned>>,
         UNCHANGED <<pc, found, stopped>>
  PROVE  CollectorInv'
<1>1. PICK p \in {"live", "fetching"} : task' = [task EXCEPT ![c] = p]
  BY DEF AskFor
<1>2. p \in Points \ {"waiting"} /\ c \notin Waiting /\ task[c] \in Placed
  BY <1>1 DEF Points, Waiting, Placed, InSession
<1>3. connected' \in [Competitions -> BOOLEAN] /\ abandoned' \subseteq Competitions /\ UNCHANGED status
  BY DEF CollectorInv, StoredInv, TaskInv, targetVars
<1>4. UNCHANGED <<active, ready, targets>>
  BY DEF targetVars
<1> QED
  BY <1>1, <1>2, <1>3, <1>4, TaskMoves

LEMMA InboxHead ==
  ASSUME Sessions, NEW c \in Competitions, inbox[c] # <<>>
  PROVE  /\ Head(inbox[c]) \in Messages(c) /\ Tail(inbox[c]) \in Seq(Messages(c))
         /\ Head(inbox[c]).kind = "users" => Head(inbox[c]).users \subseteq Results
         /\ Head(inbox[c]).kind = "update" => Head(inbox[c]) \in Updates(c)
         /\ Head(inbox[c]).kind = "snapshot" => Head(inbox[c]) \in Snapshots(c)
         /\ Head(inbox[c]).kind = "rounds" => Head(inbox[c]).rules \in PartialRules
<1>1. Head(inbox[c]) \in Messages(c) /\ Tail(inbox[c]) \in Seq(Messages(c))
  BY DEF Sessions, SessionInv
<1>2. PICK m : m = Head(inbox[c])
  OBVIOUS
<1>3. /\ m.kind = "users" => m \in UsersMessages
      /\ m.kind = "update" => m \in Updates(c)
      /\ m.kind = "snapshot" => m \in Snapshots(c)
      /\ m.kind = "rounds" => m \in RoundsMessages
  BY <1>1, <1>2 DEF Messages, UsersMessages, Updates, Snapshots, RoundsMessages, Failure
<1> QED
  BY <1>1, <1>2, <1>3 DEF UsersMessages, RoundsMessages

LEMMA TakeRosterKeeps ==
  ASSUME CollectorInv, ProviderInv, NEW c \in Competitions, TakeRoster(c, AllRounds(c), Answers)
  PROVE  CollectorInv'
<1>1. /\ task[c] = "roster" /\ inbox[c] # <<>> /\ Head(inbox[c]).kind = "users"
      /\ users' = [users EXCEPT ![c] = Head(inbox[c]).users]
      /\ UNCHANGED <<targetVars, ahead, faults, abandoned>> /\ UNCHANGED <<pc, found, stopped>>
  BY DEF TakeRoster, SupervisorUnchanged
<1>2. PICK q : /\ q = IF Serving(c) THEN Append(Tail(inbox[c]), AllRounds(c)) ELSE Tail(inbox[c])
               /\ AskFor(c, targets \cap RoundsOf(c), q, Answers)
  BY DEF TakeRoster
<1>3. q \in Seq(Messages(c))
  BY <1>1, <1>2, InboxHead, RoundsAreMessage DEF CollectorInv
<1>4. users' \in [Competitions -> SUBSET Results] /\ \A d \in Competitions \ {c} : users'[d] = users[d]
  BY <1>1, InboxHead DEF CollectorInv, Sessions, SessionTypes
<1>5. InSession(c) /\ targets \cap RoundsOf(c) \subseteq RoundsOf(c) \ fetched[c]
  BY <1>1 DEF InSession, CollectorInv, Sessions, SessionInv
<1>6. Sessions /\ task \in [Competitions -> Points]
  BY DEF CollectorInv, TaskInv
<1>7. Sessions'
  BY <1>2, <1>3, <1>4, <1>5, <1>6, AskForKeeps
<1> QED
  BY <1>1, <1>2, <1>5, <1>7, AskForMoves

LEMMA TakeAnswerKeeps ==
  ASSUME CollectorInv, ProviderInv, NEW c \in Competitions, TakeAnswer(c, Answers), inbox[c] # <<>>
  PROVE  CollectorInv'
<1>1. /\ task[c] = "fetching" /\ AskFor(c, todo[c], Tail(inbox[c]), Answers)
      /\ UNCHANGED <<targetVars, ahead, users, faults, abandoned>> /\ UNCHANGED <<pc, found, stopped>>
  BY DEF TakeAnswer, SupervisorUnchanged
<1>2. Sessions /\ task \in [Competitions -> Points]
  BY DEF CollectorInv, TaskInv
<1>3. Tail(inbox[c]) \in Seq(Messages(c))
  BY <1>2, InboxHead
<1>4. users' \in [Competitions -> SUBSET Results] /\ \A d \in Competitions \ {c} : users'[d] = users[d]
  BY <1>1, <1>2 DEF Sessions, SessionTypes
<1>5. InSession(c) /\ todo[c] \subseteq RoundsOf(c) \ fetched[c]
  BY <1>1, <1>2 DEF InSession, Sessions, SessionInv
<1>6. Sessions'
  BY <1>1, <1>2, <1>3, <1>4, <1>5, AskForKeeps
<1> QED
  BY <1>1, <1>5, <1>6, AskForMoves

\* Nothing but the messages and the roster changes.
LEMMA SessionsOnly ==
  ASSUME CollectorInv, UNCHANGED <<targetVars, task, ahead, abandoned>>, UNCHANGED <<pc, found, stopped>>,
         Fault \/ UNCHANGED faults, Sessions'
  PROVE  CollectorInv'
<1> USE DEF CollectorInv
<1>1. PlacedTasks' \subseteq PlacedTasks /\ Waiting' = Waiting
  BY DEF PlacedTasks, Waiting
<1>2. Cardinality(PlacedTasks)' <= MaxConnections /\ faults' \in 0..MaxFaults
  BY <1>1, PlacesShrink, FaultCounts
<1>3. TaskInv'
  BY <1>2 DEF TaskInv, targetVars
<1>4. StoredInv' /\ QueueInv'
  BY <1>1, QueueStays DEF StoredInv, targetVars
<1> QED
  BY <1>3, <1>4

LEMMA TakeMessageKeeps ==
  ASSUME CollectorInv, NEW c \in Competitions, inbox[c] # <<>>, InSession(c), TakeMessage(c)
  PROVE  CollectorInv'
<1>1. /\ inbox' = [inbox EXCEPT ![c] = Tail(inbox[c])]
      /\ users' = [users EXCEPT ![c] =
           IF Head(inbox[c]).kind = "users" THEN Head(inbox[c]).users ELSE users[c]]
      /\ UNCHANGED <<targetVars, task, ahead, todo, asked, fetched, faults, abandoned>>
      /\ UNCHANGED <<pc, found, stopped>>
  BY DEF TakeMessage, Take, SupervisorUnchanged
<1>2. Sessions
  BY DEF CollectorInv
<1>3. /\ Tail(inbox[c]) \in Seq(Messages(c))
      /\ Head(inbox[c]).kind = "users" => Head(inbox[c]).users \subseteq Results
  BY <1>2, InboxHead
<1>4. /\ SessionTypes' /\ inbox'[c] = Tail(inbox[c])
      /\ \A d \in Competitions \ {c} : inbox'[d] = inbox[d] /\ users'[d] = users[d]
  BY <1>1, <1>2, <1>3 DEF Sessions, SessionTypes
<1>5. \A d \in Competitions \ {c} : SessionInv(d)'
  BY <1>1, <1>2, <1>4, SessionStays DEF Sessions
<1>6. SessionInv(c)'
  BY <1>1, <1>2, <1>3, <1>4 DEF Sessions, SessionInv, InSession
<1>7. Sessions'
  BY <1>4, <1>5, <1>6 DEF Sessions
<1> QED
  BY <1>1, <1>7, SessionsOnly

LEMMA BreakKeeps ==
  ASSUME CollectorInv, NEW c \in Competitions, NEW kept, Break(c, kept)
  PROVE  CollectorInv'
<1>1. /\ InSession(c) /\ Fault /\ kept \in 0..Len(inbox[c])
      /\ inbox' = [inbox EXCEPT ![c] = Append(SubSeq(inbox[c], 1, kept), Failure)]
      /\ UNCHANGED <<targetVars, task, ahead, users, todo, asked, fetched, abandoned>>
      /\ UNCHANGED <<pc, found, stopped>>
  BY DEF Break, Serving, SupervisorUnchanged
<1>2. inbox[c] \in Seq(Messages(c)) /\ Failure \in Messages(c)
  BY DEF CollectorInv, Sessions, SessionInv, Messages
<1>3. SubSeq(inbox[c], 1, kept) \in Seq(Messages(c))
  BY <1>1, <1>2
<1>4. Append(SubSeq(inbox[c], 1, kept), Failure) \in Seq(Messages(c))
  BY <1>2, <1>3
<1>5. Sessions'
  BY <1>1, <1>4, InboxChanges DEF CollectorInv
<1> QED
  BY <1>1, <1>5, SessionsOnly

LEMMA EndWorkerKeeps ==
  ASSUME CollectorInv, NEW flags \in [Competitions -> BOOLEAN], EndWorker(flags),
         stopped' \in BOOLEAN, Fault \/ UNCHANGED faults
  PROVE  CollectorInv'
<1> USE DEF CollectorInv
<1>1. /\ pc' = "discover" /\ found' = {} /\ task' = [c \in Competitions |-> "none"]
      /\ ahead' = [c \in Competitions |-> {}]
      /\ EndSessions(Competitions) /\ connected' = flags
      /\ abandoned' = {c \in Competitions : flags[c]}
      /\ UNCHANGED <<status, active, ready, targets>>
  BY DEF EndWorker, All, StoredUnchanged
<1>2. Sessions'
  BY <1>1, EndSessionsKeep
<1>3. PlacedTasks' \subseteq PlacedTasks /\ Waiting' = {}
  BY <1>1 DEF PlacedTasks, Placed, Waiting
<1>4. Cardinality(PlacedTasks)' <= MaxConnections /\ faults' \in 0..MaxFaults
  BY <1>3, PlacesShrink, FaultCounts
<1>5. TaskInv'
  BY <1>1, <1>4 DEF TaskInv, Points
<1>6. QueueInv'
  BY <1>1, <1>3 DEF QueueInv
<1>7. StoredInv'
  BY <1>1 DEF StoredInv
<1> QED
  BY <1>2, <1>5, <1>6, <1>7

LEMMA StopKeeps ==
  ASSUME CollectorInv, Stop
  PROVE  CollectorInv'
<1>1. [c \in Competitions |-> FALSE] \in [Competitions -> BOOLEAN]
  OBVIOUS
<1> QED
  BY <1>1, EndWorkerKeeps DEF Stop, All

LEMMA CrashKeeps ==
  ASSUME CollectorInv, Crash
  PROVE  CollectorInv'
<1>1. PICK flags \in {connected, All(FALSE)} : EndWorker(flags)
  BY DEF Crash
<1>2. flags \in [Competitions -> BOOLEAN]
  BY <1>1 DEF All, CollectorInv, StoredInv
<1>3. stopped' \in BOOLEAN /\ Fault
  BY DEF Crash, CollectorInv, TaskInv
<1> QED
  BY <1>1, <1>2, <1>3, EndWorkerKeeps

(***************************************************************************)
(* The stored targets and the collectors.                                  *)
(***************************************************************************)

\* The set a complete discovery left is that of the live competitions, but for what discoveries
\* that broke off have changed since, and between two discoveries just these have
\* tasks.  A session the supervisor is about to cancel may already be marked as closed, and
\* so may one that a broken-off discovery retired.
TellInv ==
  /\ disowned \cup unsettled \subseteq Competitions
  /\ \A c \in Competitions :
       /\ found # {} => (c \in found <=> active[c] /\ ready[c]) \/ c \in unsettled
       /\ pc = "discover" => (c \in found <=> task[c] # "none")
       /\ InSession(c) => connected[c] \/ c \in disowned \/ (pc = "reconcile" /\ c \notin found)
       /\ connected[c] => InSession(c) \/ c \in abandoned

LEMMA TellInvTells == TaskInv /\ TellInv => TargetsTellTheCollectors
<1> SUFFICES ASSUME TaskInv, TellInv
             PROVE  TargetsTellTheCollectors
  OBVIOUS
<1>1. \A c \in Competitions : connected[c] => InSession(c) \/ c \in abandoned
  BY DEF TellInv
<1>2. ASSUME pc = "discover", NEW c \in Competitions
      PROVE  /\ InSession(c) => connected[c] \/ c \in disowned
             /\ c \notin unsettled => /\ (task[c] # "none" => Live(c))
                                    /\ (found # {} /\ Live(c) => task[c] # "none")
  BY <1>2 DEF TellInv, Live
<1> QED
  BY <1>1, <1>2 DEF TargetsTellTheCollectors

\* What storing some part of a discovery does to flags and live competitions.
LEMMA StoredTells ==
  ASSUME StoredInv, TaskInv, NEW o, NEW page, NEW entered, NEW saved, NEW retired, NEW closed,
         Stored(o, page, entered, saved, retired, closed)
  PROVE  \A c \in Competitions :
           /\ c \in retired => ~active'[c] /\ ~connected'[c]
           /\ c \notin retired => connected'[c] = connected[c] /\ (c \in abandoned => c \in abandoned')
  BY DEF Stored, Mark, StoredInv, TaskInv

LEMMA DiscoverTells ==
  ASSUME StoredInv, TaskInv, TellInv, NEW o, NEW page, Discover(o, page)
  PROVE  TellInv'
<1>1. PICK retired : retired = Retirable(o)
  OBVIOUS
<1>2. /\ UNCHANGED <<task, disowned>> /\ pc = "discover" /\ unsettled' = {}
      /\ Stored(o, page, Competitions, PageRounds, retired, retired)
      /\ found' = {c \in Competitions : active'[c] /\ ready'[c]}
      /\ pc' = IF Reconciled(found') THEN "discover" ELSE "reconcile"
  BY <1>1 DEF Discover, PersistDiscovery, Collectable
<1>3. \A c \in Competitions :
        /\ c \in retired => ~active'[c] /\ ~connected'[c]
        /\ c \notin retired => connected'[c] = connected[c] /\ (c \in abandoned => c \in abandoned')
  BY <1>2, StoredTells
<1>4. ASSUME NEW c \in Competitions
      PROVE  /\ pc' = "discover" => (c \in found' <=> task'[c] # "none")
             /\ InSession(c)' => connected'[c] \/ c \in disowned' \/ (pc' = "reconcile" /\ c \notin found')
             /\ connected'[c] => InSession(c)' \/ c \in abandoned'
  <2>1. pc' = "discover" => (c \in found' <=> task'[c] # "none")
    BY <1>2 DEF Reconciled
  <2>2. InSession(c)' <=> InSession(c)
    BY <1>2 DEF InSession
  <2>3. InSession(c) => connected[c] \/ c \in disowned'
    BY <1>2 DEF TellInv
  <2>4. InSession(c) => task'[c] # "none"
    BY <1>2 DEF InSession
  <2>5. pc' = "discover" \/ pc' = "reconcile"
    BY <1>2
  <2>6. CASE c \in retired
    <3>1. ~active'[c] /\ ~connected'[c]
      BY <1>3, <2>6
    <3>2. c \notin found'
      BY <1>2, <3>1
    <3> QED
      BY <2>1, <2>2, <2>4, <2>5, <3>1, <3>2
  <2>7. CASE c \notin retired
    <3>1. connected'[c] = connected[c] /\ (c \in abandoned => c \in abandoned')
      BY <1>3, <2>7
    <3> QED
      BY <2>1, <2>2, <2>3, <3>1 DEF TellInv
  <2> QED
    BY <2>6, <2>7
<1>5. \A c \in Competitions : c \in found' <=> active'[c] /\ ready'[c]
  BY <1>2
<1>6. (disowned \cup unsettled)' \subseteq Competitions
  BY <1>2 DEF TellInv
<1> QED
  BY <1>4, <1>5, <1>6 DEF TellInv

LEMMA BreaksOffTells ==
  ASSUME StoredInv, TaskInv, TellInv, NEW o, NEW page, NEW entered, NEW saved, NEW retired, NEW closed,
         DiscoveryBreaksOff(o, page, entered, saved, retired, closed)
  PROVE  TellInv'
<1>1. /\ UNCHANGED <<task, pc, found>> /\ retired \subseteq Competitions
      /\ Stored(o, page, entered, saved, retired, closed)
      /\ disowned' = disowned \cup {c \in retired : InSession(c)}
      /\ unsettled' = unsettled \cup {c \in Competitions : Live(c) # Live(c)'}
  BY DEF DiscoveryBreaksOff, Retirable
<1>2. \A c \in Competitions :
        /\ c \in retired => ~active'[c] /\ ~connected'[c]
        /\ c \notin retired => connected'[c] = connected[c] /\ (c \in abandoned => c \in abandoned')
  BY <1>1, StoredTells
<1>3. ASSUME NEW c \in Competitions
      PROVE  /\ pc' = "discover" => (c \in found' <=> task'[c] # "none")
             /\ InSession(c)' => connected'[c] \/ c \in disowned' \/ (pc' = "reconcile" /\ c \notin found')
             /\ connected'[c] => InSession(c)' \/ c \in abandoned'
  <2>1. InSession(c)' <=> InSession(c)
    BY <1>1 DEF InSession
  <2>2. CASE c \in retired
    BY <1>1, <1>2, <2>1, <2>2 DEF TellInv
  <2>3. CASE c \notin retired
    BY <1>1, <1>2, <2>1, <2>3 DEF TellInv
  <2> QED
    BY <2>2, <2>3
<1>4. ASSUME NEW c \in Competitions, found' # {}
      PROVE  (c \in found' <=> active'[c] /\ ready'[c]) \/ c \in unsettled'
  <2>1. CASE c \in unsettled'
    BY <2>1
  <2>2. CASE c \notin unsettled'
    <3>1. c \notin unsettled /\ Live(c) = Live(c)'
      BY <1>1, <2>2
    <3>2. (active[c] /\ ready[c]) = (active'[c] /\ ready'[c])
      BY <3>1 DEF Live
    <3>3. c \in found <=> active[c] /\ ready[c]
      BY <1>1, <1>4, <3>1 DEF TellInv
    <3> QED
      BY <1>1, <3>2, <3>3
  <2> QED
    BY <2>1, <2>2
<1>5. (disowned \cup unsettled)' \subseteq Competitions
  BY <1>1 DEF TellInv
<1> QED
  BY <1>3, <1>4, <1>5 DEF TellInv

LEMMA ReconcileTells ==
  ASSUME StoredInv, TaskInv, TellInv, ReconcileCollectors
  PROVE  TellInv'
<1> DEFINE G == {c \in Competitions \ found : task[c] # "none"}
<1>1. PICK gone : gone = G
  OBVIOUS
<1>2. /\ task' = [c \in Competitions |->
            IF c \in gone THEN "none"
            ELSE IF c \in found /\ task[c] \in {"none", "ended"} THEN "checking" ELSE task[c]]
      /\ connected' = Mark(connected, {c \in gone : InSession(c)}, FALSE)
      /\ abandoned' = abandoned \ {c \in gone : InSession(c)}
      /\ pc = "reconcile" /\ pc' = "discover"
      /\ disowned' = disowned \ gone
      /\ UNCHANGED <<active, ready, found, unsettled>>
  BY <1>1 DEF ReconcileCollectors, EndSessions
<1>3. \A c \in Competitions : task'[c] = IF c \in gone THEN "none"
            ELSE IF c \in found /\ task[c] \in {"none", "ended"} THEN "checking" ELSE task[c]
  BY <1>2
<1>4. \A c \in Competitions : connected'[c] = IF c \in gone /\ InSession(c) THEN FALSE ELSE connected[c]
  BY <1>2 DEF Mark
<1>5. ASSUME NEW c \in Competitions
      PROVE  /\ c \in found' <=> task'[c] # "none"
             /\ InSession(c)' => connected'[c] \/ c \in disowned'
             /\ connected'[c] => InSession(c)' \/ c \in abandoned'
  <2>1. CASE c \in gone
    BY <1>1, <1>2, <1>3, <1>4, <2>1 DEF TellInv, InSession
  <2>2. CASE c \notin gone /\ c \in found
    BY <1>1, <1>2, <1>3, <1>4, <2>2 DEF TellInv, InSession
  <2>3. CASE c \notin gone /\ c \notin found
    <3>1. task[c] = "none" /\ task'[c] = "none"
      BY <1>1, <1>3, <2>3
    <3> QED
      BY <1>2, <1>4, <2>3, <3>1 DEF TellInv, InSession
  <2> QED
    BY <2>1, <2>2, <2>3
<1>6. \A c \in Competitions : found' # {} => (c \in found' <=> active'[c] /\ ready'[c]) \/ c \in unsettled'
  BY <1>2 DEF TellInv
<1>7. (disowned \cup unsettled)' \subseteq Competitions
  BY <1>2 DEF TellInv
<1> QED
  BY <1>2, <1>5, <1>6, <1>7 DEF TellInv

\* A step of the task of c, and what it says of its connection.
LEMMA TaskTells ==
  ASSUME TellInv, NEW c \in Competitions, task[c] # "none", task'[c] # "none",
         \A d \in Competitions \ {c} :
           task'[d] = task[d] /\ connected'[d] = connected[d] /\ (d \in abandoned => d \in abandoned'),
         UNCHANGED <<pc, found, active, ready, unsettled>>,
         disowned' = disowned \/ disowned' = disowned \ {c},
         InSession(c)' => connected'[c] \/ (InSession(c) /\ UNCHANGED <<connected, disowned>>),
         connected'[c] => InSession(c)' \/ c \in abandoned'
  PROVE  TellInv'
<1>1. \A d \in Competitions \ {c} : InSession(d)' <=> InSession(d)
  BY DEF InSession
<1>2. \A d \in Competitions \ {c} :
        /\ pc' = "discover" => (d \in found' <=> task'[d] # "none")
        /\ InSession(d)' => connected'[d] \/ d \in disowned' \/ (pc' = "reconcile" /\ d \notin found')
        /\ connected'[d] => InSession(d)' \/ d \in abandoned'
  BY <1>1 DEF TellInv
<1>3. /\ pc' = "discover" => (c \in found' <=> task'[c] # "none")
      /\ InSession(c)' => connected'[c] \/ c \in disowned' \/ (pc' = "reconcile" /\ c \notin found')
  BY DEF TellInv
<1>4. \A d \in Competitions : found' # {} => (d \in found' <=> active'[d] /\ ready'[d]) \/ d \in unsettled'
  BY DEF TellInv
<1>5. (disowned \cup unsettled)' \subseteq Competitions
  BY DEF TellInv
<1> QED
  BY <1>2, <1>3, <1>4, <1>5 DEF TellInv

LEMMA TellingStays ==
  ASSUME TellInv, UNCHANGED <<task, connected, active, ready, pc, found, abandoned, disowned, unsettled>>
  PROVE  TellInv'
  BY DEF TellInv, InSession

LEMMA CheckTells ==
  ASSUME StoredInv, TaskInv, TellInv, NEW c \in Competitions, Check(c)
  PROVE  TellInv'
<1>1. /\ task[c] = "checking" /\ task'[c] \in {"waiting", "ended"}
      /\ \A d \in Competitions \ {c} : task'[d] = task[d]
      /\ UNCHANGED <<connected, abandoned, pc, found, active, ready, disowned, unsettled>>
  BY DEF Check, SupervisorUnchanged, targetVars, TaskInv
<1> QED
  BY <1>1, TaskTells DEF TellInv, InSession

LEMMA TakePlaceTells ==
  ASSUME StoredInv, TaskInv, TellInv, NEW c \in Competitions, TakePlace(c)
  PROVE  TellInv'
<1>1. /\ task[c] = "waiting" /\ task'[c] \in {"opening", "ended"}
      /\ \A d \in Competitions \ {c} : task'[d] = task[d]
      /\ UNCHANGED <<connected, abandoned, pc, found, active, ready, disowned, unsettled>>
  BY DEF TakePlace, SupervisorUnchanged, targetVars, TaskInv
<1> QED
  BY <1>1, TaskTells DEF TellInv, InSession

LEMMA ConnectTells ==
  ASSUME StoredInv, TaskInv, TellInv, NEW c \in Competitions, Connect(c, roster)
  PROVE  TellInv'
<1>1. /\ task[c] = "opening" /\ task'[c] = "roster" /\ connected'[c]
      /\ \A d \in Competitions \ {c} :
           task'[d] = task[d] /\ connected'[d] = connected[d] /\ (d \in abandoned => d \in abandoned')
      /\ UNCHANGED <<pc, found, active, ready, disowned, unsettled>>
  BY DEF Connect, SupervisorUnchanged, TaskInv, StoredInv
<1> QED
  BY <1>1, TaskTells DEF InSession

LEMMA SessionFailsTells ==
  ASSUME StoredInv, TaskInv, TellInv, NEW c \in Competitions, task[c] # "none", SessionFails(c)
  PROVE  TellInv'
<1>1. /\ task'[c] = "checking" /\ ~connected'[c]
      /\ \A d \in Competitions \ {c} :
           task'[d] = task[d] /\ connected'[d] = connected[d] /\ (d \in abandoned => d \in abandoned')
      /\ disowned' = disowned \ {c} /\ UNCHANGED <<pc, found, active, ready, unsettled>>
  BY DEF SessionFails, EndSessions, SupervisorUnchanged, TaskInv, StoredInv
<1> QED
  BY <1>1, TaskTells DEF InSession

LEMMA TaskDiesTells ==
  ASSUME StoredInv, TaskInv, TellInv, NEW c \in Competitions, TaskDies(c)
  PROVE  TellInv'
<1>1. PICK flag \in {connected[c], FALSE} :
        /\ connected' = [connected EXCEPT ![c] = flag]
        /\ abandoned' = IF flag THEN abandoned \cup {c} ELSE abandoned \ {c}
  BY DEF TaskDies
<1>2. /\ task[c] \in Placed \cup {"checking"} /\ task'[c] = "ended"
      /\ \A d \in Competitions \ {c} : task'[d] = task[d]
      /\ disowned' = disowned \ {c} /\ UNCHANGED <<active, ready, pc, found, unsettled>>
  BY DEF TaskDies, EndSessions, StoredUnchanged, SupervisorUnchanged, TaskInv
<1>3. /\ connected'[c] = flag
      /\ \A d \in Competitions \ {c} : connected'[d] = connected[d]
  BY <1>1 DEF StoredInv
<1>4. \A d \in Competitions \ {c} : d \in abandoned => d \in abandoned'
  BY <1>1
<1>5. connected'[c] => c \in abandoned'
  BY <1>1, <1>3
<1>6. task[c] # "none" /\ ~InSession(c)'
  BY <1>2 DEF Placed, InSession
<1> QED
  BY <1>2, <1>3, <1>4, <1>5, <1>6, TaskTells

LEMMA AskForTells ==
  ASSUME StoredInv, TaskInv, TellInv, NEW c \in Competitions, InSession(c), NEW R, NEW q, NEW answers,
         AskFor(c, R, q, answers), UNCHANGED <<targetVars, abandoned, disowned>>,
         UNCHANGED <<pc, found, unsettled>>
  PROVE  TellInv'
<1>1. /\ task'[c] \in {"live", "fetching"}
      /\ \A d \in Competitions \ {c} : task'[d] = task[d]
  BY DEF AskFor, TaskInv
<1>2. UNCHANGED <<connected, active, ready>>
  BY DEF targetVars
<1>3. InSession(c)' /\ task[c] # "none"
  BY <1>1 DEF InSession
<1> QED
  BY <1>1, <1>2, <1>3, TaskTells

LEMMA EndWorkerTells ==
  ASSUME StoredInv, TaskInv, TellInv, NEW flags, EndWorker(flags)
  PROVE  TellInv'
<1>1. /\ pc' = "discover" /\ found' = {} /\ connected' = flags
      /\ \A c \in Competitions : task'[c] = "none"
      /\ abandoned' = {c \in Competitions : flags[c]}
      /\ disowned' = disowned \ Competitions /\ unsettled' = {}
  BY DEF EndWorker, EndSessions, All
<1> QED
  BY <1>1 DEF TellInv, InSession

(***************************************************************************)
(* The rules of the rounds.                                                *)
(***************************************************************************)

\* Every round that is collected has a rule, and every round a session asks for.
RuleInv ==
  /\ rule \in [Rounds -> Formats \cup {None}]
  /\ \A r \in targets : rule[r] # None
  /\ \A c \in Competitions : \A r \in todo[c] \cup fetched[c] : rule[r] # None

LEMMA RulesStay ==
  ASSUME RuleInv, UNCHANGED <<rule, targets>>,
         \A c \in Competitions : todo'[c] \cup fetched'[c] \subseteq todo[c] \cup fetched[c] \cup targets
  PROVE  RuleInv'
  BY DEF RuleInv

LEMMA EndSessionsRules ==
  ASSUME RuleInv, Sessions, UNCHANGED <<rule, targets>>, NEW C, EndSessions(C)
  PROVE  RuleInv'
<1>1. \A c \in Competitions : todo'[c] \subseteq todo[c] /\ fetched'[c] \subseteq fetched[c]
  BY DEF EndSessions
<1> QED
  BY <1>1, RulesStay

LEMMA AskForRules ==
  ASSUME RuleInv, Sessions, NEW c \in Competitions, NEW R, R \subseteq todo[c] \cup targets, NEW q,
         AskFor(c, R, q, Answers), UNCHANGED <<rule, targets>>
  PROVE  RuleInv'
<1>1. ASSUME NEW d \in Competitions
      PROVE  todo'[d] \cup fetched'[d] \subseteq todo[d] \cup fetched[d] \cup targets
  <2>1. CASE R = {}
    <3>1. todo' = [todo EXCEPT ![c] = {}] /\ fetched' = fetched
      BY <2>1 DEF AskFor
    <3> QED
      BY <3>1 DEF Sessions, SessionTypes
  <2>2. CASE R # {}
    <3>1. PICK r \in R : r = FirstOf(R)
      BY <2>2 DEF FirstOf
    <3>2. /\ todo' = [todo EXCEPT ![c] = R \ {r}]
          /\ fetched' = [fetched EXCEPT ![c] = @ \cup {r}]
      BY <2>2, <3>1 DEF AskFor
    <3> QED
      BY <3>1, <3>2 DEF Sessions, SessionTypes
  <2> QED
    BY <2>1, <2>2
<1> QED
  BY <1>1, RulesStay


LEMMA SetRulesParts ==
  ASSUME RuleInv, NEW R \in SUBSET Rounds, NEW rules, \A r \in R : rules[r] \in Formats,
         SetRules(R, rules)
  PROVE  /\ rule' \in [Rounds -> Formats \cup {None}]
         /\ \A r \in R : rule'[r] = rules[r] /\ rule'[r] # None
         /\ \A r \in Rounds \ R : rule'[r] = rule[r]
         /\ reruled' = reruled \cup {r \in R : rules[r] # rule[r] /\ ~IsInitial(r)}
         /\ UNCHANGED <<seen, table, evidence, records>>
  BY FormatsAssumption DEF FormatsAssumption, SetRules, RuleInv

(***************************************************************************)
(* The mirror.                                                             *)
(***************************************************************************)

StoredRows == [row : Rows, named : BOOLEAN, active : BOOLEAN]
Normalized   == [row : Rows, named : BOOLEAN]
Values     == {0} \cup {Value(row, k) : row \in Rows, k \in Kinds}

TableInv ==
  /\ table \in [Results -> StoredRows \cup {None}]
  /\ evidence \in [Results -> [Kinds -> Evidence \cup {None}]]
  /\ records \in [Results -> [Kinds -> [Levels -> Values]]]
  /\ \A x \in Results : table[x] # None => rule[RoundOf[x]] # None

\* The claims about x are those of what is stored of it.
EvidenceFollows(x) ==
  evidence[x] = ObservationsOf(Previous(x), rule[RoundOf[x]]) \/ RoundOf[x] \in reruled

RecordsOf(now) == IF now = None THEN [k \in Kinds |-> NoRecord]
                  ELSE SynchronizeRecords([k \in Kinds |-> NoRecord], now)

MirrorInv == TableInv /\ \A x \in Results : EvidenceFollows(x) /\ records[x] = RecordsOf(Previous(x))

LEMMA MirrorInvClaims == MirrorInv => ClaimsFollowMirror
  BY DEF MirrorInv, EvidenceFollows, RecordsOf, ClaimsFollowMirror

LEMMA PreviousType ==
  ASSUME TableInv, NEW x \in Results
  PROVE  Previous(x) \in Normalized \cup {None}
  BY DEF TableInv, Previous, StoredRows, Normalized

LEMMA NoneIsNoResult == None \notin Normalized /\ None \notin StoredRows /\ None \notin Evidence
  BY NoneAssumption DEF NoneAssumption, Normalized, StoredRows

LEMMA ObservationsType ==
  ASSUME NEW now \in Normalized \cup {None}, NEW rl
  PROVE  ObservationsOf(now, rl) \in [Kinds -> Evidence \cup {None}]
<1>1. CASE now = None
  BY <1>1 DEF ObservationsOf, NoObservation
<1>2. CASE now # None
  <2>1. now.row \in Rows /\ now.named \in BOOLEAN
    BY <1>2 DEF Normalized
  <2>2. \A k \in Kinds : [value |-> Value(now.row, k), named |-> now.named] \in Evidence
    BY <2>1 DEF Evidence
  <2> QED
    BY <1>2, <2>2 DEF ObservationsOf, ResultObservations
<1> QED
  BY <1>1, <1>2

\* Synchronized from what they were, the observations are the current ones.
LEMMA SynchronizedObservations ==
  ASSUME NEW before \in [Kinds -> Evidence \cup {None}],
         NEW current \in [Kinds -> Evidence \cup {None}]
  PROVE  SynchronizeObservations(before, before, current) = current
  BY DEF SynchronizeObservations

LEMMA SynchronizeType ==
  ASSUME NEW known \in [Kinds -> Evidence \cup {None}], NEW before \in [Kinds -> Evidence \cup {None}],
         NEW current \in [Kinds -> Evidence \cup {None}]
  PROVE  SynchronizeObservations(known, before, current) \in [Kinds -> Evidence \cup {None}]
  BY DEF SynchronizeObservations

\* The records of a result do not depend on those before it.
LEMMA RecordsForget ==
  ASSUME NEW known \in [Kinds -> [Levels -> Values]], NEW result \in Normalized
  PROVE  /\ SynchronizeRecords(known, result) = SynchronizeRecords([k \in Kinds |-> NoRecord], result)
         /\ SynchronizeRecords(known, result) \in [Kinds -> [Levels -> Values]]
<1> DEFINE Rec(kn, k) ==
      LET level == ActiveLevel(result.row, k)
          kept  == WithdrawOtherStates(kn[k], level)
      IN IF level = "" THEN kept ELSE [kept EXCEPT ![level] = Value(result.row, k)]
<1> DEFINE nothing == [k \in Kinds |-> NoRecord]
<1>1. ASSUME NEW k \in Kinds
      PROVE  Rec(known, k) = Rec(nothing, k) /\ Rec(known, k) \in [Levels -> Values]
  <2>1. PICK level : level = ActiveLevel(result.row, k)
    OBVIOUS
  <2>2. level = "" \/ level \in Levels
    BY <2>1 DEF ActiveLevel
  <2>3. PICK v : v = Value(result.row, k)
    OBVIOUS
  <2>4. v \in Values /\ 0 \in Values
    BY <2>3 DEF Values, Normalized
  <2>5. CASE level = ""
    <3>1. "" \notin Levels
      BY DEF Levels
    <3>2. Rec(known, k) = [l \in Levels |-> 0] /\ Rec(nothing, k) = [l \in Levels |-> 0]
      BY <2>1, <2>5, <3>1 DEF WithdrawOtherStates
    <3> QED
      BY <2>4, <3>2
  <2>6. CASE level \in Levels
    <3>1. level # ""
      BY <2>6 DEF Levels
    <3>2. Rec(known, k) = [l \in Levels |-> IF l = level THEN v ELSE 0]
      BY <2>1, <2>3, <2>6, <3>1 DEF WithdrawOtherStates
    <3>3. Rec(nothing, k) = [l \in Levels |-> IF l = level THEN v ELSE 0]
      BY <2>1, <2>3, <2>6, <3>1 DEF WithdrawOtherStates
    <3> QED
      BY <2>4, <3>2, <3>3
  <2> QED
    BY <2>2, <2>5, <2>6
<1>2. \A kn : SynchronizeRecords(kn, result) = [k \in Kinds |-> Rec(kn, k)]
  BY DEF SynchronizeRecords
<1> HIDE DEF Rec
<1> QED
  BY <1>1, <1>2

\* When the pairs of value and tag are the same, or name no level, the records are too.
LEMMA RecordsUnneeded ==
  ASSUME NEW before \in Normalized \cup {None}, NEW now \in Normalized,
         ~NeedsRecordSynchronization(before, now)
  PROVE  RecordsOf(before) = RecordsOf(now)
<1>1. now # None
  BY NoneIsNoResult
<1>2. \A k \in Kinds : /\ Pairs(now)[k] = <<Value(now.row, k), Tag(now.row, k)>>
                       /\ before = None => Pairs(before)[k] = <<None, "">>
                       /\ before # None => Pairs(before)[k] = <<Value(before.row, k), Tag(before.row, k)>>
  BY <1>1 DEF Pairs
<1>3. \/ \A k \in Kinds : Pairs(before)[k] = Pairs(now)[k]
      \/ \A k \in Kinds : Pairs(before)[k][2] \notin Levels /\ Pairs(now)[k][2] \notin Levels
  BY DEF NeedsRecordSynchronization
<1>4. "" \notin Levels
  BY DEF Levels
<1> DEFINE nothing == [k \in Kinds |-> NoRecord]
<1>5. ASSUME NEW result \in Normalized, \A k \in Kinds : Tag(result.row, k) \notin Levels
      PROVE  SynchronizeRecords(nothing, result) = nothing
  <2>1. \A k \in Kinds : ActiveLevel(result.row, k) = ""
    BY <1>5 DEF ActiveLevel
  <2>2. \A k \in Kinds : WithdrawOtherStates(nothing[k], "") = NoRecord
    BY <1>4 DEF WithdrawOtherStates, NoRecord
  <2> QED
    BY <2>1, <2>2 DEF SynchronizeRecords
<1>6. CASE before = None
  <2>1. \A k \in Kinds : Tag(now.row, k) \notin Levels
    <3>1. ASSUME NEW k \in Kinds
          PROVE  Tag(now.row, k) \notin Levels
      <4>1. CASE Pairs(before)[k] = Pairs(now)[k]
        <5>1. <<None, "">> = <<Value(now.row, k), Tag(now.row, k)>>
          BY <1>2, <1>6, <4>1
        <5>2. Tag(now.row, k) = ""
          BY <5>1
        <5> QED
          BY <1>4, <5>2
      <4>2. CASE Pairs(now)[k][2] \notin Levels
        <5>1. Pairs(now)[k] = <<Value(now.row, k), Tag(now.row, k)>>
          BY <1>2
        <5> QED
          BY <4>2, <5>1
      <4> QED
        BY <1>3, <4>1, <4>2
    <3> QED
      BY <3>1
  <2>2. SynchronizeRecords(nothing, now) = nothing
    BY <1>5, <2>1
  <2> QED
    BY <1>1, <1>6, <2>2 DEF RecordsOf
<1>7. CASE before # None /\ \A k \in Kinds : Pairs(before)[k] = Pairs(now)[k]
  <2>1. \A k \in Kinds : Value(before.row, k) = Value(now.row, k) /\ Tag(before.row, k) = Tag(now.row, k)
    <3>1. ASSUME NEW k \in Kinds
          PROVE  Value(before.row, k) = Value(now.row, k) /\ Tag(before.row, k) = Tag(now.row, k)
      <4>1. <<Value(before.row, k), Tag(before.row, k)>> = <<Value(now.row, k), Tag(now.row, k)>>
        BY <1>2, <1>7
      <4> QED
        BY <4>1
    <3> QED
      BY <3>1
  <2>2. \A k \in Kinds : ActiveLevel(before.row, k) = ActiveLevel(now.row, k)
    BY <2>1 DEF ActiveLevel
  <2>3. SynchronizeRecords(nothing, before) = SynchronizeRecords(nothing, now)
    BY <2>1, <2>2 DEF SynchronizeRecords
  <2> QED
    BY <1>1, <1>7, <2>3 DEF RecordsOf
<1>8. CASE before # None /\ \A k \in Kinds : Pairs(before)[k][2] \notin Levels /\ Pairs(now)[k][2] \notin Levels
  <2>1. \A k \in Kinds : Tag(before.row, k) \notin Levels /\ Tag(now.row, k) \notin Levels
    <3>1. ASSUME NEW k \in Kinds
          PROVE  Tag(before.row, k) \notin Levels /\ Tag(now.row, k) \notin Levels
      <4>1. /\ Pairs(before)[k] = <<Value(before.row, k), Tag(before.row, k)>>
            /\ Pairs(now)[k] = <<Value(now.row, k), Tag(now.row, k)>>
        BY <1>2, <1>8
      <4> QED
        BY <1>8, <4>1
    <3> QED
      BY <3>1
  <2>2. SynchronizeRecords(nothing, before) = nothing /\ SynchronizeRecords(nothing, now) = nothing
    BY <1>5, <1>8, <2>1
  <2> QED
    BY <1>1, <1>8, <2>2 DEF RecordsOf
<1> QED
  BY <1>3, <1>6, <1>7, <1>8

\* The claims of one result after it changed from what was stored of it to what is now.
LEMMA ClaimsTaken ==
  ASSUME MirrorInv, NEW x \in Results, NEW now \in Normalized \cup {None}, NEW rl, rl = rule[RoundOf[x]]
  PROVE  LET synchronized ==
               SynchronizeObservations(evidence[x], ObservationsOf(Previous(x), rl), ObservationsOf(now, rl))
         IN /\ synchronized = ObservationsOf(now, rl) \/ RoundOf[x] \in reruled
            /\ synchronized \in [Kinds -> Evidence \cup {None}]
<1>1. Previous(x) \in Normalized \cup {None}
  BY PreviousType DEF MirrorInv
<1>2. PICK before, current : before = ObservationsOf(Previous(x), rl) /\ current = ObservationsOf(now, rl)
  OBVIOUS
<1>3. before \in [Kinds -> Evidence \cup {None}] /\ current \in [Kinds -> Evidence \cup {None}]
  BY <1>1, <1>2, ObservationsType
<1>4. evidence[x] \in [Kinds -> Evidence \cup {None}] /\ (evidence[x] = before \/ RoundOf[x] \in reruled)
  BY <1>2 DEF MirrorInv, TableInv, EvidenceFollows
<1>5. SynchronizeObservations(evidence[x], before, current) \in [Kinds -> Evidence \cup {None}]
  BY <1>3, <1>4, SynchronizeType
<1>6. evidence[x] = before => SynchronizeObservations(evidence[x], before, current) = current
  BY <1>3, SynchronizedObservations
<1> QED
  BY <1>2, <1>4, <1>5, <1>6

\* What the table holds of x once a normalised result was stored, or its row put aside.
LEMMA RowStored ==
  ASSUME NEW x \in Results, NEW result \in Normalized, table'[x] = Row(result)
  PROVE  Previous(x)' = result
<1>1. result = [row |-> result.row, named |-> result.named]
  BY DEF Normalized
<1>2. Row(result) # None
  <2>1. Row(result) \in StoredRows
    BY DEF Normalized, StoredRows, Row
  <2> QED
    BY <2>1, NoneIsNoResult
<1> QED
  BY <1>1, <1>2 DEF Previous, Row

\* A snapshot of round r leaves of its results what it holds, claims and all.
LEMMA EvaluateMirrors ==
  ASSUME MirrorInv, NEW r \in Rounds, rule[r] # None, UNCHANGED <<rule, reruled>>,
         NEW X \in SUBSET ResultsOf(r), NEW current \in [X -> Normalized], Evaluate(r, current)
  PROVE  /\ MirrorInv'
         /\ \A x \in Results : Previous(x)' = IF x \in X THEN current[x]
                                             ELSE IF x \in ResultsOf(r) THEN None ELSE Previous(x)
<1>1. PICK E, V : E = Evaluated(r, current) /\ V = Removals(r, current)
  OBVIOUS
<1>2. /\ E \subseteq X /\ X \subseteq Results /\ V \subseteq ResultsOf(r) /\ V \cap X = {}
      /\ \A x \in ResultsOf(r) : x \in Results /\ RoundOf[x] = r
      /\ \A x \in X \ E : Previous(x) = current[x]
      /\ \A x \in ResultsOf(r) \ (X \cup V) : Previous(x) = None
      /\ \A x \in V : Previous(x) # None
  BY <1>1 DEF Evaluated, Differing, Removals, ResultsOf
<1>3. \A x \in Results :
        table'[x] = IF x \in E THEN Row(current[x])
                    ELSE IF x \in V THEN [table[x] EXCEPT !.active = FALSE] ELSE table[x]
  BY <1>1 DEF Evaluate
<1>4. \A x \in Results :
        evidence'[x] =
          IF x \in E THEN SynchronizeObservations(evidence[x], ObservationsOf(Previous(x), rule[r]),
                                                  ResultObservations(current[x], rule[r]))
          ELSE IF x \in V THEN SynchronizeObservations(evidence[x], ObservationsOf(Previous(x), rule[r]),
                                                       NoObservation)
          ELSE evidence[x]
  BY <1>1 DEF Evaluate
<1>5. \A x \in Results :
        records'[x] =
          IF x \in V THEN [k \in Kinds |-> WithdrawOtherStates(records[x][k], "")]
          ELSE IF x \in E /\ NeedsRecordSynchronization(Previous(x), current[x])
            THEN SynchronizeRecords(records[x], current[x])
          ELSE records[x]
  BY <1>1 DEF Evaluate
<1>6. /\ table' = [x \in Results |-> table'[x]] /\ evidence' = [x \in Results |-> evidence'[x]]
      /\ records' = [x \in Results |-> records'[x]]
  BY <1>1 DEF Evaluate
<1>7. TableInv
  BY DEF MirrorInv
<1>8. ASSUME NEW x \in E
      PROVE  /\ Previous(x)' = current[x] /\ table'[x] \in StoredRows
             /\ evidence'[x] = ObservationsOf(current[x], rule[r]) \/ r \in reruled
             /\ evidence'[x] \in [Kinds -> Evidence \cup {None}]
             /\ records'[x] = RecordsOf(current[x]) /\ records'[x] \in [Kinds -> [Levels -> Values]]
  <2>1. x \in Results /\ RoundOf[x] = r /\ x \notin V /\ x \in X
    BY <1>2
  <2>2. current[x] \in Normalized /\ current[x] # None
    BY <2>1, NoneIsNoResult
  <2>3. table'[x] = Row(current[x])
    BY <1>3, <2>1
  <2>4. Previous(x)' = current[x] /\ table'[x] \in StoredRows
    BY <2>1, <2>2, <2>3, RowStored DEF Row, StoredRows, Normalized
  <2>5. evidence'[x] = SynchronizeObservations(evidence[x], ObservationsOf(Previous(x), rule[r]),
                                               ObservationsOf(current[x], rule[r]))
    BY <1>4, <2>1, <2>2 DEF ObservationsOf
  <2>6. /\ evidence'[x] = ObservationsOf(current[x], rule[r]) \/ r \in reruled
        /\ evidence'[x] \in [Kinds -> Evidence \cup {None}]
    BY <2>1, <2>2, <2>5, ClaimsTaken
  <2>7. records[x] \in [Kinds -> [Levels -> Values]] /\ records[x] = RecordsOf(Previous(x))
    BY <1>7, <2>1 DEF TableInv, MirrorInv
  <2>8. records'[x] = RecordsOf(current[x]) /\ records'[x] \in [Kinds -> [Levels -> Values]]
    <3>1. CASE NeedsRecordSynchronization(Previous(x), current[x])
      BY <1>5, <2>1, <2>2, <2>7, <3>1, RecordsForget DEF RecordsOf
    <3>2. CASE ~NeedsRecordSynchronization(Previous(x), current[x])
      <4>1. records'[x] = records[x]
        BY <1>5, <2>1, <3>2
      <4>2. Previous(x) \in Normalized \cup {None}
        BY <1>7, <2>1, PreviousType
      <4> QED
        BY <2>2, <2>7, <3>2, <4>1, <4>2, RecordsUnneeded
    <3> QED
      BY <3>1, <3>2
  <2> QED
    BY <2>4, <2>6, <2>8
<1>9. ASSUME NEW x \in V
      PROVE  /\ Previous(x)' = None /\ table'[x] \in StoredRows
             /\ evidence'[x] = ObservationsOf(None, rule[r]) \/ r \in reruled
             /\ evidence'[x] \in [Kinds -> Evidence \cup {None}]
             /\ records'[x] = RecordsOf(None) /\ records'[x] \in [Kinds -> [Levels -> Values]]
  <2>1. x \in Results /\ RoundOf[x] = r /\ x \notin E /\ Previous(x) # None
    BY <1>2
  <2>2. table[x] \in StoredRows
    BY <1>7, <2>1 DEF TableInv, Previous
  <2>3. table'[x] = [table[x] EXCEPT !.active = FALSE]
    BY <1>3, <2>1
  <2>4. table'[x] \in StoredRows /\ table'[x].active = FALSE
    BY <2>2, <2>3 DEF StoredRows
  <2>5. evidence'[x] = SynchronizeObservations(evidence[x], ObservationsOf(Previous(x), rule[r]),
                                               ObservationsOf(None, rule[r]))
    BY <1>4, <2>1 DEF ObservationsOf
  <2>6. /\ evidence'[x] = ObservationsOf(None, rule[r]) \/ r \in reruled
        /\ evidence'[x] \in [Kinds -> Evidence \cup {None}]
    BY <2>1, <2>5, ClaimsTaken
  <2>7. records'[x] = [k \in Kinds |-> NoRecord]
    <3>1. "" \notin Levels
      BY DEF Levels
    <3>2. \A k \in Kinds : WithdrawOtherStates(records[x][k], "") = NoRecord
      BY <3>1 DEF WithdrawOtherStates, NoRecord
    <3> QED
      BY <1>5, <2>1, <3>2
  <2>8. records'[x] = RecordsOf(None) /\ records'[x] \in [Kinds -> [Levels -> Values]]
    BY <2>7 DEF RecordsOf, NoRecord, Values
  <2> QED
    BY <2>4, <2>6, <2>8 DEF Previous
<1>10. ASSUME NEW x \in Results, x \notin E, x \notin V
       PROVE  table'[x] = table[x] /\ evidence'[x] = evidence[x] /\ records'[x] = records[x]
              /\ Previous(x)' = Previous(x)
  BY <1>3, <1>4, <1>5, <1>10 DEF Previous
<1>11. \A x \in V : x \in Results /\ RoundOf[x] = r
  BY <1>2
<1>12. \A x \in E : x \in Results /\ RoundOf[x] = r
  BY <1>2
<1>13. TableInv'
  <2>1. table' \in [Results -> StoredRows \cup {None}]
    BY <1>6, <1>7, <1>8, <1>9, <1>10 DEF TableInv
  <2>2. evidence' \in [Results -> [Kinds -> Evidence \cup {None}]]
    BY <1>6, <1>7, <1>8, <1>9, <1>10 DEF TableInv
  <2>3. records' \in [Results -> [Kinds -> [Levels -> Values]]]
    BY <1>6, <1>7, <1>8, <1>9, <1>10 DEF TableInv
  <2>4. \A x \in Results : table'[x] # None => rule'[RoundOf[x]] # None
    BY <1>7, <1>10, <1>11, <1>12 DEF TableInv
  <2> QED
    BY <2>1, <2>2, <2>3, <2>4 DEF TableInv
<1>14. \A x \in Results : EvidenceFollows(x)' /\ records'[x] = RecordsOf(Previous(x)')
  <2>1. \A x \in E : EvidenceFollows(x)' /\ records'[x] = RecordsOf(Previous(x)')
    BY <1>8, <1>12 DEF EvidenceFollows
  <2>2. \A x \in V : EvidenceFollows(x)' /\ records'[x] = RecordsOf(Previous(x)')
    BY <1>9, <1>11 DEF EvidenceFollows
  <2>3. ASSUME NEW x \in Results, x \notin E, x \notin V
        PROVE  EvidenceFollows(x)' /\ records'[x] = RecordsOf(Previous(x)')
    BY <1>10, <2>3 DEF MirrorInv, EvidenceFollows
  <2> QED
    BY <2>1, <2>2, <2>3
<1>15. \A x \in Results : Previous(x)' = IF x \in X THEN current[x]
                                        ELSE IF x \in ResultsOf(r) THEN None ELSE Previous(x)
  BY <1>2, <1>8, <1>9, <1>10
<1> QED
  BY <1>13, <1>14, <1>15 DEF MirrorInv, RecordsOf

LEMMA NormalizedType ==
  /\ \A x, row, names : row \in Rows => NormalizeResult(x, row, names) \in Normalized
  /\ \A rows \in PartialRows : \A names : NormalizeSnapshot(rows, names) \in [DOMAIN rows -> Normalized]
<1>1. \A x, row, names : row \in Rows => NormalizeResult(x, row, names) \in Normalized
  BY DEF NormalizeResult, Normalized
<1>2. ASSUME NEW rows \in PartialRows, NEW names
      PROVE  NormalizeSnapshot(rows, names) \in [DOMAIN rows -> Normalized]
  <2>1. \A x \in DOMAIN rows : rows[x] \in Rows
    BY DEF PartialRows
  <2> QED
    BY <1>1, <2>1 DEF NormalizeSnapshot
<1> QED
  BY <1>1, <1>2

LEMMA MirrorStays ==
  ASSUME UNCHANGED <<rule, reruled, table, evidence, records>>
  PROVE  /\ MirrorInv => MirrorInv'
         /\ \A x \in Results : Previous(x)' = Previous(x)
  BY DEF MirrorInv, TableInv, EvidenceFollows, Previous

\* A snapshot is taken once; a repeated one changes nothing.
LEMMA SnapshotMirrors ==
  ASSUME MirrorInv, NEW r \in Rounds, rule[r] # None, UNCHANGED <<rule, reruled>>,
         NEW rows \in PartialRows, NEW names, ProcessRoundSnapshot(r, rows, names)
  PROVE  /\ MirrorInv'
         /\ SnapshotPayload(r, rows, names) \in seen => UNCHANGED <<seen, table>>
         /\ SnapshotPayload(r, rows, names) \notin seen =>
              \A x \in Results : Previous(x)' =
                IF x \in DOMAIN rows THEN NormalizeResult(x, rows[x], names)
                ELSE IF x \in ResultsOf(r) THEN None ELSE Previous(x)
<1>1. CASE SnapshotPayload(r, rows, names) \in seen
  BY <1>1, MirrorStays DEF ProcessRoundSnapshot
<1>2. CASE SnapshotPayload(r, rows, names) \notin seen
  <2>1. Evaluate(r, NormalizeSnapshot(rows, names)) /\ DOMAIN rows \in SUBSET ResultsOf(r)
    BY <1>2 DEF ProcessRoundSnapshot, BelongTo
  <2>2. PICK current : current = NormalizeSnapshot(rows, names)
    OBVIOUS
  <2>3. /\ current \in [DOMAIN rows -> Normalized] /\ Evaluate(r, current)
        /\ \A x \in DOMAIN rows : current[x] = NormalizeResult(x, rows[x], names)
    BY <2>1, <2>2, NormalizedType DEF NormalizeSnapshot
  <2>4. /\ MirrorInv'
        /\ \A x \in Results : Previous(x)' = IF x \in DOMAIN rows THEN current[x]
                                            ELSE IF x \in ResultsOf(r) THEN None ELSE Previous(x)
    BY <2>1, <2>3, EvaluateMirrors
  <2> QED
    BY <1>2, <2>3, <2>4
<1> QED
  BY <1>1, <1>2

LEMMA UpdateMirrors ==
  ASSUME MirrorInv, NEW y \in Results, rule[RoundOf[y]] # None, UNCHANGED <<rule, reruled>>,
         NEW row \in Rows, NEW names, ProcessResultUpdate(y, row, names)
  PROVE  /\ MirrorInv'
         /\ UpdatePayload(y, row) \in seen => UNCHANGED <<seen, table>>
         /\ UpdatePayload(y, row) \notin seen =>
              \A x \in Results : Previous(x)' =
                IF x = y THEN NormalizeResult(y, row, names) ELSE Previous(x)
<1>1. PICK result : result = NormalizeResult(y, row, names)
  OBVIOUS
<1>2. result \in Normalized /\ result # None
  BY <1>1, NormalizedType, NoneIsNoResult
<1>3. CASE UpdatePayload(y, row) \in seen
  BY <1>3, MirrorStays DEF ProcessResultUpdate
<1>4. CASE UpdatePayload(y, row) \notin seen /\ Previous(y) = result
  <2>1. UNCHANGED <<table, evidence, records>>
    BY <1>1, <1>4 DEF ProcessResultUpdate
  <2> QED
    BY <1>1, <1>4, <2>1, MirrorStays
<1>5. CASE UpdatePayload(y, row) \notin seen /\ Previous(y) # result
  <2>1. PICK rl : rl = rule[RoundOf[y]]
    OBVIOUS
  <2>2. TableInv
    BY DEF MirrorInv
  <2>3. /\ table' = [table EXCEPT ![y] = Row(result)]
        /\ evidence' = [evidence EXCEPT ![y] = SynchronizeObservations(
             evidence[y], ObservationsOf(Previous(y), rl), ResultObservations(result, rl))]
        /\ records' = [records EXCEPT ![y] =
             IF NeedsRecordSynchronization(Previous(y), result)
             THEN SynchronizeRecords(records[y], result) ELSE records[y]]
    BY <1>1, <1>5, <2>1 DEF ProcessResultUpdate
  <2>4. /\ table'[y] = Row(result)
        /\ evidence'[y] = SynchronizeObservations(
             evidence[y], ObservationsOf(Previous(y), rl), ObservationsOf(result, rl))
        /\ records'[y] = IF NeedsRecordSynchronization(Previous(y), result)
                         THEN SynchronizeRecords(records[y], result) ELSE records[y]
    BY <1>2, <2>2, <2>3 DEF TableInv, ObservationsOf
  <2>5. \A x \in Results \ {y} :
          table'[x] = table[x] /\ evidence'[x] = evidence[x] /\ records'[x] = records[x]
    BY <2>2, <2>3 DEF TableInv
  <2>6. Previous(y)' = result /\ table'[y] \in StoredRows
    BY <1>2, <2>4, RowStored DEF Row, StoredRows, Normalized
  <2>7. /\ evidence'[y] = ObservationsOf(result, rl) \/ RoundOf[y] \in reruled
        /\ evidence'[y] \in [Kinds -> Evidence \cup {None}]
    BY <1>2, <2>1, <2>4, ClaimsTaken
  <2>8. records'[y] = RecordsOf(result) /\ records'[y] \in [Kinds -> [Levels -> Values]]
    <3>1. records[y] \in [Kinds -> [Levels -> Values]] /\ records[y] = RecordsOf(Previous(y))
      BY <2>2 DEF TableInv, MirrorInv
    <3>2. CASE NeedsRecordSynchronization(Previous(y), result)
      BY <1>2, <2>4, <3>1, <3>2, RecordsForget DEF RecordsOf
    <3>3. CASE ~NeedsRecordSynchronization(Previous(y), result)
      <4>1. records'[y] = records[y] /\ Previous(y) \in Normalized \cup {None}
        BY <2>2, <2>4, <3>3, PreviousType
      <4> QED
        BY <1>2, <3>1, <3>3, <4>1, RecordsUnneeded
    <3> QED
      BY <3>2, <3>3
  <2>9. TableInv'
    <3>1. table' \in [Results -> StoredRows \cup {None}]
      BY <2>2, <2>3, <2>4, <2>6 DEF TableInv
    <3>2. evidence' \in [Results -> [Kinds -> Evidence \cup {None}]]
      BY <2>2, <2>3, <2>4, <2>5, <2>7 DEF TableInv
    <3>3. records' \in [Results -> [Kinds -> [Levels -> Values]]]
      BY <2>2, <2>3, <2>4, <2>5, <2>8 DEF TableInv
    <3>4. \A x \in Results : table'[x] # None => rule'[RoundOf[x]] # None
      BY <2>2, <2>5 DEF TableInv
    <3> QED
      BY <3>1, <3>2, <3>3, <3>4 DEF TableInv
  <2>10. \A x \in Results \ {y} : Previous(x)' = Previous(x)
    BY <2>5 DEF Previous
  <2>11. EvidenceFollows(y)' /\ records'[y] = RecordsOf(Previous(y)')
    BY <2>1, <2>6, <2>7, <2>8 DEF EvidenceFollows
  <2>12. \A x \in Results \ {y} : EvidenceFollows(x)' /\ records'[x] = RecordsOf(Previous(x)')
    BY <2>5, <2>10 DEF MirrorInv, EvidenceFollows
  <2> QED
    BY <1>1, <1>5, <2>6, <2>9, <2>10, <2>11, <2>12 DEF MirrorInv, RecordsOf
<1> QED
  BY <1>3, <1>4, <1>5

\* A round whose rule changes keeps its claims, and is remembered unless nothing is stored.
LEMMA SetRulesMirror ==
  ASSUME MirrorInv, RuleInv, NEW R \in SUBSET Rounds, NEW rules, \A r \in R : rules[r] \in Formats,
         SetRules(R, rules)
  PROVE  MirrorInv' /\ \A x \in Results : Previous(x)' = Previous(x)
<1>1. /\ \A r \in R : rule'[r] = rules[r] /\ rule'[r] # None
      /\ \A r \in Rounds \ R : rule'[r] = rule[r]
      /\ reruled' = reruled \cup {r \in R : rules[r] # rule[r] /\ ~IsInitial(r)}
      /\ UNCHANGED <<seen, table, evidence, records>>
  BY SetRulesParts
<1>2. \A x \in Results : Previous(x)' = Previous(x)
  BY <1>1 DEF Previous
<1>3. \A r \in Rounds : rule[r] # None => rule'[r] # None
  BY <1>1
<1>4. TableInv'
  <2>1. \A x \in Results : table'[x] # None => rule'[RoundOf[x]] # None
    BY <1>1, <1>3, RoundOfCompetition DEF MirrorInv, TableInv
  <2> QED
    BY <1>1, <2>1 DEF MirrorInv, TableInv
<1>5. ASSUME NEW x \in Results
      PROVE  EvidenceFollows(x)'
  <2>1. evidence'[x] = evidence[x] /\ Previous(x)' = Previous(x) /\ RoundOf[x] \in Rounds
    BY <1>1, <1>2, RoundOfCompetition
  <2>2. CASE rule'[RoundOf[x]] = rule[RoundOf[x]]
    BY <1>1, <2>1, <2>2 DEF MirrorInv, EvidenceFollows
  <2>3. CASE rule'[RoundOf[x]] # rule[RoundOf[x]] /\ ~IsInitial(RoundOf[x])
    BY <1>1, <2>1, <2>3 DEF EvidenceFollows
  <2>4. CASE IsInitial(RoundOf[x])
    <3>1. Previous(x) = None
      BY <2>4 DEF IsInitial, ResultsOf, Previous
    <3>2. evidence[x] = NoObservation \/ RoundOf[x] \in reruled
      BY <3>1 DEF MirrorInv, EvidenceFollows, ObservationsOf
    <3> QED
      BY <1>1, <2>1, <3>1, <3>2 DEF EvidenceFollows, ObservationsOf
  <2> QED
    BY <2>2, <2>3, <2>4
<1> QED
  BY <1>1, <1>2, <1>4, <1>5 DEF MirrorInv, RecordsOf

(***************************************************************************)
(* The whole feed, step by step.                                           *)
(***************************************************************************)

FeedInv == CollectorInv /\ ProviderInv /\ TellInv /\ RuleInv /\ MirrorInv

LEMMA ProviderActsKeep ==
  ASSUME FeedInv, ProviderActs, Sessions', ProviderInv'
  PROVE  FeedInv'
<1>1. /\ UNCHANGED <<ingestionVars, targetVars, pc, found, task, ahead, users, todo, asked>>
      /\ UNCHANGED <<fetched, stopped, faults, abandoned, disowned, unsettled, misread, reruled>>
  BY DEF ProviderActs
<1>2. CollectorInv'
  BY <1>1, SessionsOnly DEF FeedInv
<1>3. TellInv'
  BY <1>1, TellingStays DEF FeedInv, targetVars
<1>4. RuleInv'
  BY <1>1, RulesStay DEF FeedInv, targetVars, ingestionVars
<1>5. MirrorInv'
  BY <1>1, MirrorStays DEF FeedInv, ingestionVars
<1> QED
  BY <1>2, <1>3, <1>4, <1>5 DEF FeedInv

LEMMA ProviderChangeKeeps ==
  ASSUME FeedInv, ProviderChange
  PROVE  FeedInv'
<1> USE DEF FeedInv
<1>0. /\ ProviderActs => UNCHANGED <<users, todo, fetched, asked, task>>
      /\ ProviderActs /\ UNCHANGED inbox => UNCHANGED sessionVars
      /\ Sessions
  BY DEF ProviderActs, CollectorInv, sessionVars
<1>1. ASSUME NEW x \in Results, RemoveResult(x)
      PROVE  FeedInv'
  <2>1. ProviderActs /\ UNCHANGED inbox /\ ProviderInv'
    BY <1>1 DEF RemoveResult, ProviderInv
  <2>2. Sessions'
    BY <1>0, <2>1, SessionsKeep
  <2> QED
    BY <2>1, <2>2, ProviderActsKeep
<1>2. ASSUME NEW x \in Results, Register(x)
      PROVE  FeedInv'
  <2>1. /\ ProviderActs /\ roster' = roster \cup {x} /\ ProviderInv'
        /\ Push(CompetitionOf[RoundOf[x]], UsersMessage(roster'))
    BY <1>2 DEF Register, ProviderInv
  <2>2. UsersMessage(roster') \in Messages(CompetitionOf[RoundOf[x]])
    BY <2>1 DEF ProviderInv, UsersMessage, Messages, UsersMessages
  <2>3. Sessions'
    BY <1>0, <2>1, <2>2, PushKeeps, RoundOfCompetition
  <2> QED
    BY <2>1, <2>3, ProviderActsKeep
<1>3. ASSUME NEW x \in Results, NEW row \in Entries[x], EnterResult(x, row)
      PROVE  FeedInv'
  <2>1. row \in Rows
    BY EntriesAssumption DEF EntriesAssumption
  <2>2. ProviderActs /\ Push(CompetitionOf[RoundOf[x]], UpdateMessage(x, row)) /\ ProviderInv'
    BY <1>3, <2>1 DEF EnterResult, ProviderInv
  <2>3. Sessions'
    BY <1>0, <2>1, <2>2, PushKeeps, RoundOfCompetition, UpdateIsMessage
  <2> QED
    BY <2>2, <2>3, ProviderActsKeep
<1>4. ASSUME NEW r \in Rounds, Resend(r)
      PROVE  FeedInv'
  <2>1. ProviderActs /\ Push(CompetitionOf[r], Answers[r]) /\ ProviderInv'
    BY <1>4 DEF Resend, ProviderInv
  <2>2. Sessions'
    BY <1>0, <2>1, PushKeeps, RoundOfCompetition, AnswerIsMessage
  <2> QED
    BY <2>1, <2>2, ProviderActsKeep
<1>5. ASSUME NEW r \in Rounds, NEW rl \in Formats, ChangeFormat(r, rl)
      PROVE  FeedInv'
  <2>1. ProviderActs /\ Push(CompetitionOf[r], RoundsMessage([s \in {r} |-> rl])) /\ ProviderInv'
    BY <1>5 DEF ChangeFormat, ProviderInv
  <2>2. {r} \in SUBSET Rounds /\ [s \in {r} |-> rl] \in [{r} -> Formats]
    OBVIOUS
  <2>3. RoundsMessage([s \in {r} |-> rl]) \in Messages(CompetitionOf[r])
    BY <2>2, RulesAreMessage
  <2>4. Sessions'
    BY <1>0, <2>1, <2>3, PushKeeps, RoundOfCompetition
  <2> QED
    BY <2>1, <2>4, ProviderActsKeep
<1>6. ASSUME NEW r \in Floating, ChangePage(r)
      PROVE  FeedInv'
  <2>1. ProviderActs /\ UNCHANGED inbox /\ ProviderInv'
    BY <1>6, FloatingAssumption DEF ChangePage, ProviderInv, FloatingAssumption
  <2>2. Sessions'
    BY <1>0, <2>1, SessionsKeep
  <2> QED
    BY <2>1, <2>2, ProviderActsKeep
<1> QED
  BY <1>1, <1>2, <1>3, <1>4, <1>5, <1>6 DEF ProviderChange

\* Every round stored as active has been given a rule.
LEMMA StoredRules ==
  ASSUME FeedInv, NEW o, NEW entered, NEW saved, NEW retired, NEW closed,
         Stored(o, offered, entered, saved, retired, closed),
         NEW R \in SUBSET Rounds, R = Opened(o, offered, entered, saved),
         \A r \in R : format[r] \in Formats, SetRules(R, format), UNCHANGED <<todo, fetched>>
  PROVE  RuleInv'
<1>1. /\ rule' \in [Rounds -> Formats \cup {None}]
      /\ \A r \in R : rule'[r] # None
      /\ \A r \in Rounds \ R : rule'[r] = rule[r]
  BY SetRulesParts DEF FeedInv
<1>2. targets' \subseteq targets \cup R /\ targets \subseteq Rounds
  BY PageRoundsAssumption
  DEF Stored, Opened, PageRoundsAssumption, FeedInv, CollectorInv, StoredInv
<1>3. \A r \in Rounds : rule[r] # None => rule'[r] # None
  BY <1>1
<1>4. \A c \in Competitions : todo[c] \cup fetched[c] \subseteq Rounds
  BY DEF FeedInv, CollectorInv, Sessions, SessionTypes
<1> QED
  BY <1>1, <1>2, <1>3, <1>4 DEF FeedInv, RuleInv

LEMMA DiscoveryKeeps ==
  ASSUME FeedInv, NEW o, DiscoverCompetitions(o)
  PROVE  FeedInv'
<1> USE DEF FeedInv
<1>1. PICK R : R = Opened(o, offered, Competitions, PageRounds)
  OBVIOUS
<1>2. Discover(o, offered) /\ SetRules(R, format) /\ UNCHANGED <<shown, roster, offered, format>>
  BY <1>1 DEF DiscoverCompetitions, providerVars
<1>3. R \in SUBSET Rounds /\ \A r \in R : format[r] \in Formats
  BY <1>1 DEF ProviderInv, Opened
<1>4. CollectorInv' /\ TellInv'
  BY <1>2, DiscoverKeeps, DiscoverTells DEF CollectorInv, ProviderInv
<1>5. MirrorInv'
  BY <1>2, <1>3, SetRulesMirror
<1>6. RuleInv'
  <2>1. UNCHANGED <<todo, fetched>>
    BY <1>2 DEF Discover, sessionVars
  <2> QED
    BY <1>1, <1>2, <1>3, <2>1, StoredRules DEF Discover, PersistDiscovery
<1>7. ProviderInv'
  BY <1>2 DEF ProviderInv
<1> QED
  BY <1>4, <1>5, <1>6, <1>7

LEMMA DiscoveryFailsKeeps ==
  ASSUME FeedInv, NEW o, DiscoveryFails(o)
  PROVE  FeedInv'
<1> USE DEF FeedInv
<1>1. PICK entered, saved, retired, closed :
        /\ DiscoveryBreaksOff(o, offered, entered, saved, retired, closed)
        /\ SetRules(Opened(o, offered, entered, saved), format)
  BY DEF DiscoveryFails
<1>2. PICK R : R = Opened(o, offered, entered, saved)
  OBVIOUS
<1>3. R \in SUBSET Rounds /\ \A r \in R : format[r] \in Formats
  BY <1>2 DEF ProviderInv, Opened
<1>4. UNCHANGED <<shown, roster, offered, format>>
  BY DEF DiscoveryFails, providerVars
<1>5. CollectorInv' /\ TellInv'
  BY <1>1, BreaksOffKeeps, BreaksOffTells DEF CollectorInv, ProviderInv
<1>6. MirrorInv'
  BY <1>1, <1>2, <1>3, SetRulesMirror
<1>7. RuleInv'
  <2>1. UNCHANGED <<todo, fetched>>
    BY <1>1 DEF DiscoveryBreaksOff, sessionVars
  <2> QED
    BY <1>1, <1>2, <1>3, <2>1, StoredRules DEF DiscoveryBreaksOff
<1>8. ProviderInv'
  BY <1>4 DEF ProviderInv
<1> QED
  BY <1>5, <1>6, <1>7, <1>8

\* Where neither the provider nor the results change.
LEMMA ResultsStay ==
  ASSUME FeedInv, ResultsUnchanged, UNCHANGED providerVars, CollectorInv', TellInv', RuleInv'
  PROVE  FeedInv'
<1>1. ProviderInv'
  BY DEF FeedInv, ProviderInv, providerVars
<1>2. MirrorInv'
  BY MirrorStays DEF FeedInv, ResultsUnchanged, ingestionVars
<1> QED
  BY <1>1, <1>2 DEF FeedInv

LEMMA ReconcileStepKeeps ==
  ASSUME FeedInv, Reconcile
  PROVE  FeedInv'
<1>1. ReconcileCollectors /\ ResultsUnchanged /\ UNCHANGED providerVars
  BY DEF Reconcile
<1>2. CollectorInv' /\ TellInv'
  BY <1>1, ReconcileKeeps, ReconcileTells DEF FeedInv, CollectorInv
<1>3. RuleInv'
  <2>1. PICK gone : EndSessions(gone)
    BY <1>1 DEF ReconcileCollectors
  <2>2. UNCHANGED <<rule, targets>>
    BY <1>1 DEF ReconcileCollectors, ResultsUnchanged, ingestionVars
  <2> QED
    BY <2>1, <2>2, EndSessionsRules DEF FeedInv, CollectorInv
<1> QED
  BY <1>1, <1>2, <1>3, ResultsStay

LEMMA SessionFailsStep ==
  ASSUME FeedInv, NEW c \in Competitions, SessionFails(c), task[c] \notin {"none", "waiting"},
         Fault \/ UNCHANGED faults, UNCHANGED ingestionVars
  PROVE  CollectorInv' /\ TellInv' /\ RuleInv'
<1>1. CollectorInv' /\ TellInv'
  BY SessionFailsKeeps, SessionFailsTells DEF FeedInv, CollectorInv
<1>2. RuleInv'
  <2>1. EndSessions({c}) /\ UNCHANGED <<rule, targets>>
    BY DEF SessionFails, ingestionVars
  <2> QED
    BY <2>1, EndSessionsRules DEF FeedInv, CollectorInv
<1> QED
  BY <1>1, <1>2

LEMMA TaskStepKeeps ==
  ASSUME FeedInv, NEW c \in Competitions, TaskStep(c)
  PROVE  FeedInv'
<1> USE DEF FeedInv
<1>0. /\ ResultsUnchanged /\ UNCHANGED providerVars /\ UNCHANGED rule
      /\ StoredInv /\ TaskInv /\ Sessions
  BY DEF TaskStep, ResultsUnchanged, ingestionVars, CollectorInv
<1>1. CASE Check(c)
  <2>1. RuleInv'
    BY <1>0, <1>1, RulesStay DEF Check, targetVars, sessionVars
  <2> QED
    BY <1>0, <1>1, <2>1, CheckKeeps, CheckTells, ResultsStay
<1>2. CASE TakePlace(c)
  <2>1. RuleInv'
    BY <1>0, <1>2, RulesStay DEF TakePlace, targetVars, sessionVars
  <2> QED
    BY <1>0, <1>2, <2>1, TakePlaceKeeps, TakePlaceTells, ResultsStay
<1>3. CASE Connect(c, roster)
  <2>1. RuleInv'
    BY <1>0, <1>3, RulesStay DEF Connect
  <2> QED
    BY <1>0, <1>3, <2>1, ConnectKeeps, ConnectTells, ResultsStay
<1>4. CASE TakeFailure(c)
  <2>1. SessionFails(c) /\ task[c] \notin {"none", "waiting"} /\ UNCHANGED faults /\ UNCHANGED ingestionVars
    BY <1>0, <1>4 DEF TakeFailure, InSession, ResultsUnchanged
  <2> QED
    BY <1>0, <2>1, SessionFailsStep, ResultsStay
<1> QED
  BY <1>1, <1>2, <1>3, <1>4 DEF TaskStep

LEMMA RejectKeeps ==
  ASSUME FeedInv, NEW c \in Competitions, Reject(c), InSession(c), UNCHANGED providerVars
  PROVE  FeedInv'
<1>1. SessionFails(c) /\ UNCHANGED faults /\ ResultsUnchanged /\ task[c] \notin {"none", "waiting"}
      /\ UNCHANGED ingestionVars
  BY DEF Reject, InSession, ResultsUnchanged
<1> QED
  BY <1>1, SessionFailsStep, ResultsStay

\* The session has taken a message; its results follow.
LEMMA MessageTaken ==
  ASSUME FeedInv, NEW c \in Competitions, InSession(c), inbox[c] # <<>>, TakeMessage(c),
         UNCHANGED providerVars, MirrorInv', UNCHANGED rule
  PROVE  FeedInv'
<1>1. CollectorInv'
  BY TakeMessageKeeps DEF FeedInv
<1>2. UNCHANGED <<targetVars, task, todo, fetched, abandoned, disowned>> /\ UNCHANGED <<pc, found, unsettled>>
  BY DEF TakeMessage, SupervisorUnchanged
<1>3. TellInv'
  BY <1>2, TellingStays DEF FeedInv, targetVars
<1>4. RuleInv'
  BY <1>2, RulesStay DEF FeedInv, targetVars
<1>5. ProviderInv'
  BY DEF FeedInv, ProviderInv, providerVars
<1> QED
  BY <1>1, <1>3, <1>4, <1>5 DEF FeedInv

LEMMA AskingKeeps ==
  ASSUME FeedInv, NEW c \in Competitions, InSession(c), NEW R, R \subseteq todo[c] \cup targets, NEW q,
         AskFor(c, R, q, Answers), UNCHANGED <<targetVars, abandoned, disowned>>,
         UNCHANGED <<pc, found, unsettled>>, UNCHANGED providerVars, CollectorInv', MirrorInv', UNCHANGED rule
  PROVE  FeedInv'
<1>1. TellInv'
  BY AskForTells DEF FeedInv, CollectorInv
<1>2. RuleInv'
  BY AskForRules DEF FeedInv, CollectorInv, targetVars
<1>3. ProviderInv'
  BY DEF FeedInv, ProviderInv, providerVars
<1> QED
  BY <1>1, <1>2, <1>3 DEF FeedInv

LEMMA FirstUsersKeeps ==
  ASSUME FeedInv, NEW c \in Competitions, FirstUsers(c), UNCHANGED providerVars
  PROVE  FeedInv'
<1>1. PICK q : AskFor(c, targets \cap RoundsOf(c), q, Answers)
  BY DEF FirstUsers, TakeRoster
<1>2. /\ InSession(c) /\ TakeRoster(c, AllRounds(c), Answers) /\ ResultsUnchanged
      /\ UNCHANGED <<targetVars, abandoned, disowned>> /\ UNCHANGED <<pc, found, unsettled>>
  BY DEF FirstUsers, TakeRoster, InSession, SupervisorUnchanged
<1>3. CollectorInv'
  BY <1>2, TakeRosterKeeps DEF FeedInv
<1>4. MirrorInv' /\ UNCHANGED rule
  BY <1>2, MirrorStays DEF FeedInv, ResultsUnchanged, ingestionVars
<1> QED
  BY <1>1, <1>2, <1>3, <1>4, AskingKeeps

LEMMA RoundFetchedKeeps ==
  ASSUME FeedInv, NEW c \in Competitions, RoundFetched(c), UNCHANGED providerVars
  PROVE  FeedInv'
<1>1. task[c] = "fetching" /\ InSession(c) /\ inbox[c] # <<>> /\ Head(inbox[c]).kind = "snapshot"
  BY DEF RoundFetched, Receives
<1>2. PICK m : m = Head(inbox[c])
  OBVIOUS
<1>3. m \in Snapshots(c)
  BY <1>1, <1>2, InboxHead DEF FeedInv, CollectorInv
<1>4. CASE BelongTo(m.rows, asked[c])
  <2>1. TakeAnswer(c, Answers) /\ ApplySnapshot(c, asked[c], m)
    BY <1>2, <1>4 DEF RoundFetched
  <2>2. CollectorInv'
    BY <1>1, <2>1, TakeAnswerKeeps DEF FeedInv
  <2>3. asked[c] \in fetched[c] /\ asked[c] \in Rounds /\ rule[asked[c]] # None
    BY <1>1 DEF FeedInv, RuleInv, CollectorInv, Sessions, SessionInv, SessionTypes
  <2>4. ProcessRoundSnapshot(asked[c], m.rows, users[c]) /\ UNCHANGED <<rule, reruled>>
    BY <2>1 DEF ApplySnapshot
  <2>5. m.rows \in PartialRows
    BY <1>3 DEF Snapshots
  <2>6. MirrorInv'
    BY <2>3, <2>4, <2>5, SnapshotMirrors DEF FeedInv
  <2>7. AskFor(c, todo[c], Tail(inbox[c]), Answers) /\ UNCHANGED <<targetVars, abandoned, disowned>>
        /\ UNCHANGED <<pc, found, unsettled>>
    BY <2>1 DEF TakeAnswer, SupervisorUnchanged
  <2>8. todo[c] \subseteq todo[c] \cup targets /\ UNCHANGED rule
    BY <2>4
  <2> QED
    BY <1>1, <2>2, <2>6, <2>7, <2>8, AskingKeeps
<1>5. CASE ~BelongTo(m.rows, asked[c])
  <2>1. Reject(c)
    BY <1>2, <1>5 DEF RoundFetched
  <2> QED
    BY <1>1, <2>1, RejectKeeps
<1> QED
  BY <1>4, <1>5

LEMMA HandleUsersKeeps ==
  ASSUME FeedInv, NEW c \in Competitions, HandleUsers(c), UNCHANGED providerVars
  PROVE  FeedInv'
<1>1. InSession(c) /\ inbox[c] # <<>> /\ TakeMessage(c) /\ ResultsUnchanged
  BY DEF HandleUsers, Receives
<1>2. MirrorInv' /\ UNCHANGED rule
  BY <1>1, MirrorStays DEF FeedInv, ResultsUnchanged, ingestionVars
<1> QED
  BY <1>1, <1>2, MessageTaken

LEMMA TargetHasRule ==
  ASSUME FeedInv, NEW r \in targets
  PROVE  r \in Rounds /\ rule[r] # None
  BY PageRoundsAssumption DEF FeedInv, RuleInv, CollectorInv, StoredInv, PageRoundsAssumption

LEMMA HandleResultKeeps ==
  ASSUME FeedInv, NEW c \in Competitions, HandleResult(c), UNCHANGED providerVars
  PROVE  FeedInv'
<1>1. InSession(c) /\ inbox[c] # <<>> /\ Head(inbox[c]).kind = "update"
  BY DEF HandleResult, Receives
<1>2. PICK m : m = Head(inbox[c])
  OBVIOUS
<1>3. m.result \in Results /\ m.row \in Rows
  BY <1>1, <1>2, InboxHead DEF FeedInv, CollectorInv, Updates
<1>4. CASE RoundOf[m.result] \in targets
  <2>1. TakeMessage(c) /\ ApplyUpdate(c, m.result, m.row)
    BY <1>2, <1>4 DEF HandleResult
  <2>2. ProcessResultUpdate(m.result, m.row, users[c]) /\ UNCHANGED <<rule, reruled>>
    BY <2>1 DEF ApplyUpdate
  <2>3. MirrorInv'
    BY <1>3, <1>4, <2>2, TargetHasRule, UpdateMirrors DEF FeedInv
  <2> QED
    BY <1>1, <2>1, <2>2, <2>3, MessageTaken
<1>5. CASE RoundOf[m.result] \notin targets
  <2>1. Reject(c)
    BY <1>2, <1>5 DEF HandleResult
  <2> QED
    BY <1>1, <2>1, RejectKeeps
<1> QED
  BY <1>4, <1>5

LEMMA HandleRoundsKeeps ==
  ASSUME FeedInv, NEW c \in Competitions, HandleRounds(c), UNCHANGED providerVars
  PROVE  FeedInv'
<1>1. InSession(c) /\ inbox[c] # <<>> /\ Head(inbox[c]).kind = "rounds" /\ TakeMessage(c)
  BY DEF HandleRounds, Receives
<1>2. PICK rules : rules = Head(inbox[c]).rules
  OBVIOUS
<1>3. rules \in PartialRules
  BY <1>1, <1>2, InboxHead DEF FeedInv, CollectorInv
<1>4. PICK R : R = {r \in DOMAIN rules : rule[r] # None}
  OBVIOUS
<1>5. SetRules(R, rules)
  BY <1>2, <1>4 DEF HandleRounds, ApplyRules
<1>6. R \in SUBSET Rounds /\ \A r \in R : rules[r] \in Formats
  BY <1>3, <1>4 DEF PartialRules
<1>7. MirrorInv'
  BY <1>5, <1>6, SetRulesMirror DEF FeedInv
<1>8. CollectorInv'
  BY <1>1, TakeMessageKeeps DEF FeedInv
<1>9. UNCHANGED <<targetVars, task, todo, fetched, abandoned, disowned>> /\ UNCHANGED <<pc, found, unsettled>>
  BY <1>1 DEF TakeMessage, SupervisorUnchanged
<1>10. TellInv'
  BY <1>9, TellingStays DEF FeedInv, targetVars
<1>11. RuleInv'
  <2>1. /\ rule' \in [Rounds -> Formats \cup {None}]
        /\ \A r \in Rounds : rule[r] # None => rule'[r] # None
    BY <1>5, <1>6, SetRulesParts DEF FeedInv
  <2>2. targets \subseteq Rounds /\ \A d \in Competitions : todo[d] \cup fetched[d] \subseteq Rounds
    BY PageRoundsAssumption
    DEF FeedInv, CollectorInv, StoredInv, Sessions, SessionTypes, PageRoundsAssumption
  <2> QED
    BY <1>9, <2>1, <2>2 DEF FeedInv, RuleInv, targetVars
<1>12. ProviderInv'
  BY DEF FeedInv, ProviderInv, providerVars
<1> QED
  BY <1>7, <1>8, <1>10, <1>11, <1>12 DEF FeedInv

LEMMA HandleSnapshotKeeps ==
  ASSUME FeedInv, NEW c \in Competitions, HandleSnapshot(c), UNCHANGED providerVars
  PROVE  FeedInv'
<1>1. InSession(c) /\ inbox[c] # <<>> /\ Head(inbox[c]).kind = "snapshot"
  BY DEF HandleSnapshot, Receives
<1>2. PICK m : m = Head(inbox[c])
  OBVIOUS
<1>3. m.rows \in PartialRows
  BY <1>1, <1>2, InboxHead DEF FeedInv, CollectorInv, Snapshots
<1>4. CASE DOMAIN m.rows = {}
  <2>1. TakeMessage(c) /\ UNCHANGED <<ingestionVars, reruled>>
    BY <1>2, <1>4 DEF HandleSnapshot
  <2>2. MirrorInv' /\ UNCHANGED rule
    BY <2>1, MirrorStays DEF FeedInv, ingestionVars
  <2> QED
    BY <1>1, <2>1, <2>2, MessageTaken
<1>5. CASE DOMAIN m.rows # {}
  <2>1. PICK r : r = RoundOf[CHOOSE x \in DOMAIN m.rows : TRUE]
    OBVIOUS
  <2>2. CASE r \in targets
    <3>1. TakeMessage(c) /\ ApplySnapshot(c, r, m)
      BY <1>2, <1>5, <2>1, <2>2 DEF HandleSnapshot
    <3>2. ProcessRoundSnapshot(r, m.rows, users[c]) /\ UNCHANGED <<rule, reruled>>
      BY <3>1 DEF ApplySnapshot
    <3>3. MirrorInv'
      BY <1>3, <2>2, <3>2, TargetHasRule, SnapshotMirrors DEF FeedInv
    <3> QED
      BY <1>1, <3>1, <3>2, <3>3, MessageTaken
  <2>3. CASE r \notin targets
    <3>1. Reject(c)
      BY <1>2, <1>5, <2>1, <2>3 DEF HandleSnapshot
    <3> QED
      BY <1>1, <3>1, RejectKeeps
  <2> QED
    BY <2>2, <2>3
<1> QED
  BY <1>4, <1>5

LEMMA SessionStepKeeps ==
  ASSUME FeedInv, NEW c \in Competitions, SessionStep(c)
  PROVE  FeedInv'
  BY FirstUsersKeeps, RoundFetchedKeeps, HandleUsersKeeps, HandleResultKeeps, HandleRoundsKeeps,
     HandleSnapshotKeeps DEF SessionStep

LEMMA HandlingFailsKeeps ==
  ASSUME FeedInv, NEW c \in Competitions, HandlingFails(c)
  PROVE  FeedInv'
<1> USE DEF FeedInv
<1>1. /\ SessionFails(c) /\ Fault /\ task[c] \notin {"none", "waiting"}
      /\ InSession(c) /\ inbox[c] # <<>> /\ UNCHANGED providerVars
  BY DEF HandlingFails, Receives, InSession
<1>2. CASE ResultsUnchanged
  <2>1. UNCHANGED ingestionVars
    BY <1>2 DEF ResultsUnchanged
  <2> QED
    BY <1>1, <1>2, <2>1, SessionFailsStep, ResultsStay
<1>3. CASE ~ResultsUnchanged
  <2>1. PICK all : all = Head(inbox[c]).rules
    OBVIOUS
  <2>2. PICK S \in SUBSET DOMAIN all : ApplyRules([r \in S |-> all[r]])
    BY <1>3, <2>1 DEF HandlingFails
  <2>3. Head(inbox[c]).kind = "rounds"
    BY <1>3 DEF HandlingFails
  <2>4. all \in PartialRules
    BY <1>1, <2>1, <2>3, InboxHead DEF CollectorInv
  <2>5. PICK rules : rules = [r \in S |-> all[r]]
    OBVIOUS
  <2>6. PICK R : R = {r \in DOMAIN rules : rule[r] # None}
    OBVIOUS
  <2>7. SetRules(R, rules)
    BY <2>2, <2>5, <2>6 DEF ApplyRules
  <2>8. R \in SUBSET Rounds /\ \A r \in R : rules[r] \in Formats
    BY <2>4, <2>5, <2>6 DEF PartialRules
  <2>9. MirrorInv'
    BY <2>7, <2>8, SetRulesMirror
  <2>10. CollectorInv' /\ TellInv'
    BY <1>1, SessionFailsKeeps, SessionFailsTells DEF CollectorInv
  <2>11. RuleInv'
    <3>1. /\ rule' \in [Rounds -> Formats \cup {None}]
          /\ \A r \in Rounds : rule[r] # None => rule'[r] # None
      BY <2>7, <2>8, SetRulesParts
    <3>2. targets \subseteq Rounds /\ \A d \in Competitions : todo[d] \cup fetched[d] \subseteq Rounds
      BY PageRoundsAssumption DEF CollectorInv, StoredInv, Sessions, SessionTypes, PageRoundsAssumption
    <3>3. /\ UNCHANGED targets
          /\ \A d \in Competitions : todo'[d] \subseteq todo[d] /\ fetched'[d] \subseteq fetched[d]
      BY <1>1 DEF SessionFails, EndSessions
    <3> QED
      BY <3>1, <3>2, <3>3 DEF RuleInv
  <2>12. ProviderInv'
    BY <1>1 DEF ProviderInv, providerVars
  <2> QED
    BY <2>9, <2>10, <2>11, <2>12
<1> QED
  BY <1>2, <1>3

LEMMA FaultStepKeeps ==
  ASSUME FeedInv, FaultStep
  PROVE  FeedInv'
<1> USE DEF FeedInv
<1>0. /\ ResultsUnchanged /\ UNCHANGED providerVars /\ UNCHANGED rule /\ UNCHANGED ingestionVars
      /\ StoredInv /\ TaskInv /\ Sessions
  BY DEF FaultStep, ResultsUnchanged, ingestionVars, CollectorInv
<1>1. ASSUME NEW c \in Competitions, ConnectFails(c) \/ AnswerTimesOut(c)
      PROVE  FeedInv'
  <2>1. SessionFails(c) /\ Fault /\ task[c] \notin {"none", "waiting"}
    BY <1>1 DEF ConnectFails, AnswerTimesOut
  <2> QED
    BY <1>0, <2>1, SessionFailsStep, ResultsStay
<1>2. ASSUME NEW c \in Competitions, TaskDies(c)
      PROVE  FeedInv'
  <2>1. EndSessions({c}) /\ UNCHANGED <<rule, targets>>
    BY <1>0, <1>2 DEF TaskDies, StoredUnchanged
  <2>2. RuleInv'
    BY <1>0, <2>1, EndSessionsRules
  <2> QED
    BY <1>0, <1>2, <2>2, TaskDiesKeeps, TaskDiesTells, ResultsStay
<1>3. ASSUME NEW c \in Competitions, NEW kept, Break(c, kept)
      PROVE  FeedInv'
  <2>1. UNCHANGED <<targetVars, task, todo, fetched, abandoned, disowned>> /\ UNCHANGED <<pc, found, unsettled>>
    BY <1>3 DEF Break, SupervisorUnchanged
  <2>2. TellInv' /\ RuleInv'
    BY <1>0, <2>1, TellingStays, RulesStay DEF targetVars
  <2> QED
    BY <1>0, <1>3, <2>2, BreakKeeps, ResultsStay
<1>4. ASSUME Crash
      PROVE  FeedInv'
  <2>1. PICK flags : EndWorker(flags)
    BY <1>4 DEF Crash
  <2>2. EndSessions(Competitions) /\ UNCHANGED <<rule, targets>>
    BY <1>0, <2>1 DEF EndWorker, StoredUnchanged
  <2>3. TellInv' /\ RuleInv'
    BY <1>0, <2>1, <2>2, EndWorkerTells, EndSessionsRules
  <2> QED
    BY <1>0, <1>4, <2>3, CrashKeeps, ResultsStay
<1> QED
  BY <1>1, <1>2, <1>3, <1>4 DEF FaultStep

LEMMA StopWorkerKeeps ==
  ASSUME FeedInv, StopWorker
  PROVE  FeedInv'
<1> USE DEF FeedInv
<1>0. /\ ResultsUnchanged /\ UNCHANGED providerVars /\ UNCHANGED rule
      /\ StoredInv /\ TaskInv /\ Sessions /\ Stop
  BY DEF StopWorker, ResultsUnchanged, ingestionVars, CollectorInv
<1>1. PICK flags : EndWorker(flags)
  BY <1>0 DEF Stop
<1>2. EndSessions(Competitions) /\ UNCHANGED <<rule, targets>>
  BY <1>0, <1>1 DEF EndWorker, StoredUnchanged
<1>3. TellInv' /\ RuleInv'
  BY <1>0, <1>1, <1>2, EndWorkerTells, EndSessionsRules
<1> QED
  BY <1>0, <1>3, StopKeeps, ResultsStay

LEMMA FeedInvInit == Init => FeedInv
<1> SUFFICES ASSUME Init
             PROVE  FeedInv
  OBVIOUS
<1>1. CollectorsInit /\ IngestionInit /\ rule = [r \in Rounds |-> None] /\ reruled = {}
  BY DEF Init
<1>2. /\ task = [c \in Competitions |-> "none"] /\ found = {} /\ pc = "discover"
      /\ connected = [c \in Competitions |-> FALSE] /\ targets = {}
      /\ todo = [c \in Competitions |-> {}] /\ fetched = [c \in Competitions |-> {}]
      /\ inbox = [c \in Competitions |-> <<>>] /\ users = [c \in Competitions |-> {}]
      /\ asked = [c \in Competitions |-> NoRound] /\ ahead = [c \in Competitions |-> {}]
      /\ disowned = {} /\ unsettled = {}
  BY <1>1 DEF CollectorsInit, All
<1>3. StoredInv
  BY <1>1 DEF CollectorsInit, All, StoredInv, Statuses
<1>4. TaskInv
  <2>1. PlacedTasks = {}
    BY <1>2 DEF PlacedTasks, Placed
  <2>2. Cardinality(PlacedTasks) <= MaxConnections
    BY <2>1, FS_EmptySet, PlacesAssumption DEF PlacesAssumption
  <2>3. stopped = FALSE /\ faults = 0 /\ abandoned = {}
    BY <1>1 DEF CollectorsInit
  <2>4. 0 \in 0..MaxFaults
    BY PlacesAssumption DEF PlacesAssumption
  <2>5. task \in [Competitions -> Points]
    BY <1>2 DEF Points
  <2> QED
    BY <1>2, <2>2, <2>3, <2>4, <2>5 DEF TaskInv
<1>5. QueueInv
  BY <1>2 DEF QueueInv, Waiting
<1>6. Sessions
  BY <1>2 DEF Sessions, SessionTypes, SessionInv, InSession
<1>7. TellInv
  BY <1>2 DEF TellInv, InSession
<1>8. RuleInv
  BY <1>1, <1>2 DEF RuleInv
<1>9. ProviderInv
  <2>1. PICK s \in Start : shown = s.shown /\ roster = s.roster /\ offered = s.offered /\ format = s.format
    BY DEF Init
  <2> QED
    BY <2>1, StartAssumption DEF StartAssumption, ProviderInv
<1>10. MirrorInv
  <2>1. /\ table = [x \in Results |-> None] /\ evidence = [x \in Results |-> NoObservation]
        /\ records = [x \in Results |-> [k \in Kinds |-> NoRecord]]
    BY <1>1 DEF IngestionInit
  <2>2. \A x \in Results : Previous(x) = None
    BY <2>1 DEF Previous
  <2>3. TableInv
    BY <2>1 DEF TableInv, NoObservation, NoRecord, Values
  <2> QED
    BY <2>1, <2>2, <2>3 DEF MirrorInv, EvidenceFollows, ObservationsOf, RecordsOf
<1> QED
  BY <1>3, <1>4, <1>5, <1>6, <1>7, <1>8, <1>9, <1>10 DEF FeedInv, CollectorInv

LEMMA FeedInvStutters == FeedInv /\ UNCHANGED vars => FeedInv'
<1> SUFFICES ASSUME FeedInv, UNCHANGED vars
             PROVE  FeedInv'
  OBVIOUS
<1>1. /\ UNCHANGED <<targetVars, task, ahead, abandoned, disowned, unsettled>>
      /\ UNCHANGED <<pc, found, stopped>>
      /\ UNCHANGED faults /\ UNCHANGED sessionVars /\ UNCHANGED <<todo, fetched>>
      /\ UNCHANGED ingestionVars /\ UNCHANGED providerVars /\ UNCHANGED <<misread, reruled>>
  BY DEF vars, collectorVars, sessionVars, historyVars
<1>2. Sessions'
  BY <1>1, SessionsKeep DEF FeedInv, CollectorInv
<1>3. CollectorInv'
  BY <1>1, <1>2, SessionsOnly DEF FeedInv
<1>4. TellInv' /\ RuleInv'
  BY <1>1, TellingStays, RulesStay DEF FeedInv, targetVars, ingestionVars
<1>5. ResultsUnchanged
  BY <1>1 DEF ResultsUnchanged
<1> QED
  BY <1>1, <1>3, <1>4, <1>5, ResultsStay

LEMMA FeedInvNext == FeedInv /\ [Next]_vars => FeedInv'
<1> SUFFICES ASSUME FeedInv, [Next]_vars
             PROVE  FeedInv'
  OBVIOUS
<1>1. CASE ProviderChange
  BY <1>1, ProviderChangeKeeps
<1>2. CASE \E o \in Outcomes : DiscoverCompetitions(o) \/ DiscoveryFails(o)
  BY <1>2, DiscoveryKeeps, DiscoveryFailsKeeps
<1>3. CASE Reconcile
  BY <1>3, ReconcileStepKeeps
<1>4. CASE \E c \in Competitions : TaskStep(c) \/ SessionStep(c) \/ HandlingFails(c)
  BY <1>4, TaskStepKeeps, SessionStepKeeps, HandlingFailsKeeps
<1>5. CASE FaultStep
  BY <1>5, FaultStepKeeps
<1>6. CASE StopWorker
  BY <1>6, StopWorkerKeeps
<1>7. CASE UNCHANGED vars
  BY <1>7, FeedInvStutters
<1> QED
  BY <1>1, <1>2, <1>3, <1>4, <1>5, <1>6, <1>7 DEF Next

\* Collectors, inboxes and stored rows fit together in every reachable state.
THEOREM SpecFeedInv == Spec => []FeedInv
<1> QED
  BY FeedInvInit, FeedInvNext, PTL DEF Spec

LEMMA FeedInvTypeOK == FeedInv => TypeOK
<1> SUFFICES ASSUME FeedInv
             PROVE  TypeOK
  OBVIOUS
<1>1. CollectorsTypeOK
  BY CollectorInvTypeOK DEF FeedInv, TellInv
<1>2. \A r \in Rounds : r \in targets => rule[r] # None
  BY DEF FeedInv, RuleInv
<1>3. ASSUME NEW x \in Results
      PROVE  /\ table[x] # None => /\ table[x].row \in Rows
                                   /\ table[x].named \in BOOLEAN /\ table[x].active \in BOOLEAN
                                   /\ rule[RoundOf[x]] # None
             /\ evidence[x] \in [Kinds -> Evidence \cup {None}]
             /\ \A k \in Kinds : DOMAIN records[x][k] = Levels
             /\ shown[x] \in Rows \cup {None}
  <2>1. TableInv
    BY DEF FeedInv, MirrorInv
  <2>2. ASSUME table[x] # None
        PROVE  table[x].row \in Rows /\ table[x].named \in BOOLEAN /\ table[x].active \in BOOLEAN
    <3>1. table[x] \in StoredRows
      BY <2>1, <2>2 DEF TableInv
    <3> QED
      BY <3>1 DEF StoredRows
  <2> QED
    BY <2>1, <2>2 DEF TableInv, FeedInv, ProviderInv
<1> QED
  BY <1>1, <1>2, <1>3 DEF TypeOK, FeedInv, RuleInv

\* Every value is of its type, at most MaxConnections tasks have a place, the queue for a
\* place is one, a session has a task that asks one round at a time, and nothing is stored
\* of a round without a rule.
THEOREM SpecFeedTypeOK == Spec => []TypeOK
<1> QED
  BY SpecFeedInv, FeedInvTypeOK, PTL

\* Evidence and records are what the rows of the diff table stand for, whatever messages
\* came in which order and whichever were taken for duplicates.
THEOREM SpecClaimsFollowMirror == Spec => []ClaimsFollowMirror
<1>1. FeedInv => ClaimsFollowMirror
  BY MirrorInvClaims DEF FeedInv
<1> QED
  BY <1>1, SpecFeedInv, PTL

\* The stored targets tell which sockets are open, through every failure and every
\* discovery, wherever one breaks off, and between two discoveries the live competitions are
\* the ones with a task, but for those whose rows a broken-off discovery changed.
THEOREM SpecTargetsTellTheCollectors == Spec => []TargetsTellTheCollectors
<1>1. FeedInv => TargetsTellTheCollectors
  BY TellInvTells DEF FeedInv, CollectorInv
<1> QED
  BY <1>1, SpecFeedInv, PTL

(***************************************************************************)
(* What the messages on their way will tell.                               *)
(*                                                                         *)
(* The messages are applied in order, each with the roster that came last  *)
(* before it.  So what a session will know of a result is told by the last *)
(* message that tells of it, and rosters only grow.                        *)
(***************************************************************************)

Tells(m, x) ==
  \/ m.kind = "update" /\ m.result = x
  \/ m.kind = "snapshot" /\ m.round = RoundOf[x]

RowTold(m, x) ==
  IF m.kind = "update" THEN m.row ELSE IF x \in DOMAIN m.rows THEN m.rows[x] ELSE None

NamesTo(q, i, x) == \E j \in 1..i : q[j].kind = "users" /\ x \in q[j].users

\* The last message of q that tells of x tells this row, and its competitor if registered.
LastTold(q, names, x, row, known) ==
  \A i \in 1..Len(q) :
    Tells(q[i], x) /\ (\A k \in (i + 1)..Len(q) : ~Tells(q[k], x)) =>
      /\ RowTold(q[i], x) = row
      /\ row # None /\ x \in known => x \in names \/ NamesTo(q, i, x)

Untouched(q, x) == \A i \in 1..Len(q) : ~Tells(q[i], x)

\* Every roster of q holds the one before it.
Rosters(q, names, known) ==
  /\ names \subseteq known
  /\ \A i \in 1..Len(q) : q[i].kind = "users" =>
       /\ names \subseteq q[i].users /\ q[i].users \subseteq known
       /\ \A j \in (i + 1)..Len(q) : q[j].kind = "users" => q[i].users \subseteq q[j].users

NamesAfter(q, names) == IF Head(q).kind = "users" THEN Head(q).users ELSE names

LEMMA TailElements ==
  ASSUME NEW S, NEW q \in Seq(S), q # <<>>
  PROVE  /\ Len(q) \in Nat \ {0} /\ Len(Tail(q)) = Len(q) - 1 /\ Head(q) = q[1]
         /\ \A i \in 1..(Len(q) - 1) : Tail(q)[i] = q[i + 1]
  OBVIOUS

LEMMA AppendElements ==
  ASSUME NEW S, NEW q \in Seq(S), NEW m \in S
  PROVE  /\ Len(q) \in Nat /\ Len(Append(q, m)) = Len(q) + 1
         /\ \A i \in 1..Len(q) : Append(q, m)[i] = q[i]
         /\ Append(q, m)[Len(q) + 1] = m
  OBVIOUS

\* The head is taken.
LEMMA TailRosters ==
  ASSUME NEW S, NEW q \in Seq(S), q # <<>>, NEW names, NEW known, Rosters(q, names, known)
  PROVE  Rosters(Tail(q), NamesAfter(q, names), known) /\ names \subseteq NamesAfter(q, names)
<1>1. PICK t, n, n1 : t = Tail(q) /\ n = Len(q) /\ n1 = NamesAfter(q, names)
  OBVIOUS
<1>2. /\ n \in Nat \ {0} /\ Len(t) = n - 1 /\ \A i \in 1..(n - 1) : t[i] = q[i + 1]
      /\ n1 = IF q[1].kind = "users" THEN q[1].users ELSE names
  BY <1>1, TailElements DEF NamesAfter
<1>3. /\ names \subseteq known
      /\ \A i \in 1..n : q[i].kind = "users" =>
           /\ names \subseteq q[i].users /\ q[i].users \subseteq known
           /\ \A j \in (i + 1)..n : q[j].kind = "users" => q[i].users \subseteq q[j].users
  BY <1>1 DEF Rosters
<1>4. names \subseteq n1 /\ n1 \subseteq known
  BY <1>2, <1>3
<1>5. ASSUME NEW i \in 1..(n - 1), t[i].kind = "users"
      PROVE  /\ n1 \subseteq t[i].users /\ t[i].users \subseteq known
             /\ \A j \in (i + 1)..(n - 1) : t[j].kind = "users" => t[i].users \subseteq t[j].users
  <2>1. t[i] = q[i + 1] /\ i + 1 \in 1..n /\ i + 1 \in (1 + 1)..n /\ 1 \in 1..n
    BY <1>2
  <2>2. n1 \subseteq t[i].users /\ t[i].users \subseteq known
    BY <1>2, <1>3, <1>5, <2>1
  <2>3. ASSUME NEW j \in (i + 1)..(n - 1), t[j].kind = "users"
        PROVE  t[i].users \subseteq t[j].users
    <3>1. t[j] = q[j + 1] /\ j + 1 \in ((i + 1) + 1)..n
      BY <1>2, <2>1
    <3> QED
      BY <1>3, <1>5, <2>1, <2>3, <3>1
  <2> QED
    BY <2>2, <2>3
<1> QED
  BY <1>1, <1>2, <1>4, <1>5 DEF Rosters

LEMMA TailNames ==
  ASSUME NEW S, NEW q \in Seq(S), q # <<>>, NEW names, NEW known, Rosters(q, names, known),
         NEW i \in 1..Len(q), NEW x, x \in names \/ NamesTo(q, i, x)
  PROVE  x \in NamesAfter(q, names) \/ NamesTo(Tail(q), i - 1, x)
<1>1. names \subseteq NamesAfter(q, names)
  BY TailRosters
<1>2. CASE x \in names
  BY <1>1, <1>2
<1>3. CASE NamesTo(q, i, x)
  <2>1. PICK j \in 1..i : q[j].kind = "users" /\ x \in q[j].users
    BY <1>3 DEF NamesTo
  <2>2. CASE j = 1
    BY <2>1, <2>2, TailElements DEF NamesAfter
  <2>3. CASE j # 1
    <3>1. j - 1 \in 1..(i - 1) /\ j - 1 \in 1..(Len(q) - 1) /\ (j - 1) + 1 = j
      BY <2>3, TailElements
    <3>2. Tail(q)[j - 1] = q[j]
      BY <3>1, TailElements
    <3> QED
      BY <2>1, <3>1, <3>2 DEF NamesTo
  <2> QED
    BY <2>2, <2>3
<1> QED
  BY <1>2, <1>3

LEMMA TailTold ==
  ASSUME NEW S, NEW q \in Seq(S), q # <<>>, NEW names, NEW known, Rosters(q, names, known),
         NEW x, NEW row, LastTold(q, names, x, row, known)
  PROVE  LastTold(Tail(q), NamesAfter(q, names), x, row, known)
<1>1. PICK t, n : t = Tail(q) /\ n = Len(q)
  OBVIOUS
<1>2. n \in Nat \ {0} /\ Len(t) = n - 1 /\ \A i \in 1..(n - 1) : t[i] = q[i + 1]
  BY <1>1, TailElements
<1>3. ASSUME NEW i \in 1..(n - 1), Tells(t[i], x), \A k \in (i + 1)..(n - 1) : ~Tells(t[k], x)
      PROVE  /\ RowTold(t[i], x) = row
             /\ row # None /\ x \in known => x \in NamesAfter(q, names) \/ NamesTo(t, i, x)
  <2>1. t[i] = q[i + 1] /\ i + 1 \in 1..n /\ (i + 1) - 1 = i
    BY <1>2
  <2>2. ASSUME NEW k \in ((i + 1) + 1)..n
        PROVE  ~Tells(q[k], x)
    <3>1. k - 1 \in (i + 1)..(n - 1) /\ k - 1 \in 1..(n - 1) /\ (k - 1) + 1 = k
      BY <1>2
    <3>2. t[k - 1] = q[k]
      BY <1>2, <3>1
    <3> QED
      BY <1>3, <3>1, <3>2
  <2>3. /\ RowTold(q[i + 1], x) = row
        /\ row # None /\ x \in known => x \in names \/ NamesTo(q, i + 1, x)
    BY <1>1, <1>3, <2>1, <2>2 DEF LastTold
  <2>4. x \in names \/ NamesTo(q, i + 1, x) => x \in NamesAfter(q, names) \/ NamesTo(t, i, x)
    BY <1>1, <2>1, TailNames
  <2> QED
    BY <2>1, <2>3, <2>4
<1> QED
  BY <1>1, <1>2, <1>3 DEF LastTold

\* The head is the last message that tells of x, or it leaves that to another.
LEMMA HeadTold ==
  ASSUME NEW S, NEW q \in Seq(S), q # <<>>, NEW names, NEW known, Rosters(q, names, known),
         NEW x, NEW row, LastTold(q, names, x, row, known), Head(q).kind # "users",
         Untouched(Tail(q), x), Tells(Head(q), x)
  PROVE  /\ RowTold(Head(q), x) = row
         /\ row # None => (x \in names <=> x \in known)
<1>1. /\ Len(q) \in Nat \ {0} /\ Len(Tail(q)) = Len(q) - 1 /\ Head(q) = q[1]
      /\ \A i \in 1..(Len(q) - 1) : Tail(q)[i] = q[i + 1]
  BY TailElements
<1>2. ASSUME NEW k \in (1 + 1)..Len(q)
      PROVE  ~Tells(q[k], x)
  <2>1. k - 1 \in 1..(Len(q) - 1) /\ (k - 1) + 1 = k
    BY <1>1
  <2>2. Tail(q)[k - 1] = q[k]
    BY <1>1, <2>1
  <2> QED
    BY <1>1, <2>1, <2>2 DEF Untouched
<1>3. 1 \in 1..Len(q)
  BY <1>1
<1>4. /\ RowTold(q[1], x) = row
      /\ row # None /\ x \in known => x \in names \/ NamesTo(q, 1, x)
  BY <1>1, <1>2, <1>3 DEF LastTold
<1>5. ~NamesTo(q, 1, x)
  <2>1. \A j \in 1..1 : j = 1
    OBVIOUS
  <2> QED
    BY <1>1, <2>1 DEF NamesTo
<1>6. x \in names => x \in known
  BY DEF Rosters
<1> QED
  BY <1>1, <1>4, <1>5, <1>6

LEMMA TailUntouched ==
  ASSUME NEW S, NEW q \in Seq(S), q # <<>>, NEW x, Untouched(Tail(q), x), ~Tells(Head(q), x)
  PROVE  Untouched(q, x)
<1>1. /\ Len(q) \in Nat \ {0} /\ Len(Tail(q)) = Len(q) - 1 /\ Head(q) = q[1]
      /\ \A i \in 1..(Len(q) - 1) : Tail(q)[i] = q[i + 1]
  BY TailElements
<1>2. ASSUME NEW i \in 1..Len(q), i # 1
      PROVE  ~Tells(q[i], x)
  <2>1. i - 1 \in 1..(Len(q) - 1) /\ (i - 1) + 1 = i
    BY <1>1, <1>2
  <2>2. Tail(q)[i - 1] = q[i]
    BY <1>1, <2>1
  <2> QED
    BY <1>1, <2>1, <2>2 DEF Untouched
<1> QED
  BY <1>1, <1>2 DEF Untouched

\* A message is appended: a roster holds all that are registered.
LEMMA AppendRosters ==
  ASSUME NEW S, NEW q \in Seq(S), NEW m \in S, NEW names, NEW known, NEW now, known \subseteq now,
         Rosters(q, names, known), m.kind = "users" => m.users = now
  PROVE  Rosters(Append(q, m), names, now)
<1>1. PICK t, n : t = Append(q, m) /\ n = Len(q)
  OBVIOUS
<1>2. n \in Nat /\ Len(t) = n + 1 /\ t[n + 1] = m /\ \A i \in 1..n : t[i] = q[i]
  BY <1>1, AppendElements
<1>3. /\ names \subseteq known
      /\ \A i \in 1..n : q[i].kind = "users" =>
           /\ names \subseteq q[i].users /\ q[i].users \subseteq known
           /\ \A j \in (i + 1)..n : q[j].kind = "users" => q[i].users \subseteq q[j].users
  BY <1>1 DEF Rosters
<1>4. ASSUME NEW i \in 1..(n + 1), t[i].kind = "users"
      PROVE  /\ names \subseteq t[i].users /\ t[i].users \subseteq now
             /\ \A j \in (i + 1)..(n + 1) : t[j].kind = "users" => t[i].users \subseteq t[j].users
  <2>1. CASE i = n + 1
    <3>1. \A j \in (i + 1)..(n + 1) : FALSE
      BY <1>2, <2>1
    <3> QED
      BY <1>2, <1>3, <1>4, <2>1, <3>1
  <2>2. CASE i \in 1..n
    <3>1. t[i] = q[i] /\ names \subseteq t[i].users /\ t[i].users \subseteq known
      BY <1>2, <1>3, <1>4, <2>2
    <3>2. ASSUME NEW j \in (i + 1)..(n + 1), t[j].kind = "users"
          PROVE  t[i].users \subseteq t[j].users
      <4>1. CASE j = n + 1
        BY <1>2, <3>1, <3>2, <4>1
      <4>2. CASE j \in (i + 1)..n
        <5>1. t[j] = q[j]
          BY <1>2, <4>2
        <5> QED
          BY <1>3, <1>4, <2>2, <3>1, <3>2, <4>2, <5>1
      <4>3. j = n + 1 \/ j \in (i + 1)..n
        BY <1>2
      <4> QED
        BY <4>1, <4>2, <4>3
    <3> QED
      BY <3>1, <3>2
  <2>3. i = n + 1 \/ i \in 1..n
    BY <1>2
  <2> QED
    BY <2>1, <2>2, <2>3
<1>5. Len(t) = n + 1 /\ names \subseteq now
  BY <1>2, <1>3
<1> QED
  BY <1>1, <1>4, <1>5 DEF Rosters

LEMMA AppendNames ==
  ASSUME NEW S, NEW q \in Seq(S), NEW m \in S, NEW i \in 1..(Len(q) + 1), NEW k \in 0..Len(q), k <= i,
         NEW x, NamesTo(q, k, x)
  PROVE  NamesTo(Append(q, m), i, x)
<1>1. PICK j \in 1..k : q[j].kind = "users" /\ x \in q[j].users
  BY DEF NamesTo
<1>2. Len(q) \in Nat /\ j \in 1..Len(q) /\ j \in 1..i /\ Append(q, m)[j] = q[j]
  BY <1>1, AppendElements
<1> QED
  BY <1>1, <1>2 DEF NamesTo

LEMMA AppendTold ==
  ASSUME NEW S, NEW q \in Seq(S), NEW m \in S, NEW names, NEW known, NEW x, NEW row,
         Tells(m, x), RowTold(m, x) = row,
         row # None /\ x \in known => x \in names \/ NamesTo(q, Len(q), x)
  PROVE  LastTold(Append(q, m), names, x, row, known) /\ ~Untouched(Append(q, m), x)
<1>1. PICK t, n : t = Append(q, m) /\ n = Len(q)
  OBVIOUS
<1>2. n \in Nat /\ Len(t) = n + 1 /\ t[n + 1] = m /\ n + 1 \in 1..(n + 1)
  BY <1>1, AppendElements
<1>3. ASSUME NEW i \in 1..(n + 1), \A k \in (i + 1)..(n + 1) : ~Tells(t[k], x)
      PROVE  i = n + 1
  <2>1. i # n + 1 => n + 1 \in (i + 1)..(n + 1)
    BY <1>2
  <2> QED
    BY <1>2, <1>3, <2>1
<1>4. n \in 0..n /\ n <= n + 1
  BY <1>2
<1>5. NamesTo(q, n, x) => NamesTo(t, n + 1, x)
  BY <1>1, <1>2, <1>4, AppendNames
<1>6. LastTold(t, names, x, row, known)
  BY <1>1, <1>2, <1>3, <1>5 DEF LastTold
<1>7. ~Untouched(t, x)
  BY <1>2 DEF Untouched
<1> QED
  BY <1>1, <1>6, <1>7

LEMMA AppendSilent ==
  ASSUME NEW S, NEW q \in Seq(S), NEW m \in S, NEW names, NEW known, NEW x, NEW row,
         ~Tells(m, x), LastTold(q, names, x, row, known)
  PROVE  /\ LastTold(Append(q, m), names, x, row, known)
         /\ Untouched(Append(q, m), x) => Untouched(q, x)
<1>1. PICK t, n : t = Append(q, m) /\ n = Len(q)
  OBVIOUS
<1>2. n \in Nat /\ Len(t) = n + 1 /\ t[n + 1] = m /\ \A i \in 1..n : t[i] = q[i] /\ i \in 1..(n + 1)
  BY <1>1, AppendElements
<1>3. ASSUME NEW i \in 1..(n + 1), Tells(t[i], x), \A k \in (i + 1)..(n + 1) : ~Tells(t[k], x)
      PROVE  /\ RowTold(t[i], x) = row
             /\ row # None /\ x \in known => x \in names \/ NamesTo(t, i, x)
  <2>1. i # n + 1
    BY <1>2, <1>3
  <2>2. i \in 1..n
    BY <1>2, <2>1
  <2>3. \A k \in (i + 1)..n : k \in 1..n /\ k \in (i + 1)..(n + 1)
    BY <1>2, <2>2
  <2>4. \A k \in (i + 1)..n : ~Tells(q[k], x)
    BY <1>2, <1>3, <2>3
  <2>5. /\ RowTold(q[i], x) = row
        /\ row # None /\ x \in known => x \in names \/ NamesTo(q, i, x)
    BY <1>1, <1>2, <1>3, <2>2, <2>4 DEF LastTold
  <2>6. i \in 0..n /\ i <= i
    BY <2>2
  <2>7. NamesTo(q, i, x) => NamesTo(t, i, x)
    BY <1>1, <2>6, AppendNames
  <2> QED
    BY <1>2, <2>2, <2>5, <2>7
<1>4. LastTold(t, names, x, row, known)
  BY <1>1, <1>2, <1>3 DEF LastTold
<1>5. Untouched(t, x) => Untouched(q, x)
  BY <1>1, <1>2 DEF Untouched
<1> QED
  BY <1>1, <1>4, <1>5

\* Who is registered later has no row yet.
LEMMA RegisteredTold ==
  ASSUME NEW q, NEW names, NEW known, NEW now, NEW x, NEW row, LastTold(q, names, x, row, known),
         row # None /\ x \in now => x \in known
  PROVE  LastTold(q, names, x, row, now)
  BY DEF LastTold

(***************************************************************************)
(* The mirror is current.                                                  *)
(***************************************************************************)

\* A session knows or will be told of everyone its provider has registered.
Rostered(c) == Serving(c) =>
  /\ Rosters(inbox[c], users[c], roster)
  /\ \A x \in roster : CompetitionOf[RoundOf[x]] = c =>
       x \in users[c] \/ NamesTo(inbox[c], Len(inbox[c]), x)

\* The last message on its way that tells of x tells the truth; when there is none, the
\* mirror does.
Fresh(c, x) == Serving(c) /\ RoundOf[x] \in fetched[c] /\ x \notin untold =>
  /\ LastTold(inbox[c], users[c], x, shown[x], roster)
  /\ Untouched(inbox[c], x) => Previous(x) = Expected(x) \/ x \in misread

CurrentOf(c) == Rostered(c) /\ \A x \in Results : Fresh(c, x)
CurrentInv   == \A c \in Competitions : CurrentOf(c)

LEMMA CurrentInvMirror == FeedInv /\ CurrentInv => MirrorIsCurrent
<1> SUFFICES ASSUME FeedInv, CurrentInv, NEW c \in Competitions, task[c] = "live", inbox[c] = <<>>,
                    NEW x \in Results, RoundOf[x] \in fetched[c], x \notin untold
             PROVE  Previous(x) = Expected(x) \/ x \in misread
  BY DEF MirrorIsCurrent
<1>1. Len(inbox[c]) = 0 /\ \A i \in 1..0 : FALSE
  OBVIOUS
<1>2. Serving(c) /\ Untouched(inbox[c], x)
  BY <1>1 DEF Serving, InSession, Untouched
<1> QED
  BY <1>2 DEF CurrentInv, CurrentOf, Fresh

LEMMA NotServing ==
  ASSUME NEW c, ~Serving(c)'
  PROVE  CurrentOf(c)'
  BY DEF CurrentOf, Rostered, Fresh

\* What is none of c's business.
LEMMA CurrentStays ==
  ASSUME FeedInv, CurrentInv, NEW c \in Competitions, InSession(c)' => InSession(c),
         inbox'[c] = inbox[c], users'[c] = users[c], fetched'[c] = fetched[c], UNCHANGED roster,
         \A x \in Results : CompetitionOf[RoundOf[x]] = c =>
           \/ x \in untold'
           \/ /\ Previous(x)' = Previous(x) /\ (x \in misread => x \in misread')
              /\ shown'[x] = shown[x] /\ x \notin untold
  PROVE  CurrentOf(c)'
<1>1. Serving(c)' => Serving(c)
  BY DEF Serving
<1>2. Rostered(c)'
  BY <1>1 DEF CurrentInv, CurrentOf, Rostered
<1>3. ASSUME NEW x \in Results
      PROVE  Fresh(c, x)'
  <2>1. Fresh(c, x) /\ (shown'[x] = shown[x] => Expected(x)' = Expected(x))
    BY DEF CurrentInv, CurrentOf, Expected
  <2>2. RoundOf[x] \in fetched[c] => CompetitionOf[RoundOf[x]] = c
    BY DEF FeedInv, CollectorInv, Sessions, SessionInv, RoundsOf
  <2> QED
    BY <1>1, <2>1, <2>2 DEF Fresh
<1> QED
  BY <1>2, <1>3 DEF CurrentOf

LEMMA PreviousStays ==
  ASSUME UNCHANGED table
  PROVE  \A x \in Results : Previous(x)' = Previous(x)
  BY DEF Previous

\* Sessions end, the others go on.
LEMMA EndedCurrent ==
  ASSUME FeedInv, CurrentInv, UNCHANGED <<shown, roster, untold, misread, table>>,
         \A c \in Competitions :
           \/ ~Serving(c)'
           \/ /\ InSession(c)' => InSession(c)
              /\ inbox'[c] = inbox[c] /\ users'[c] = users[c] /\ fetched'[c] = fetched[c]
  PROVE  CurrentInv'
<1>1. ASSUME NEW c \in Competitions
      PROVE  CurrentOf(c)'
  <2>1. CASE ~Serving(c)'
    BY <2>1, NotServing
  <2>2. CASE /\ InSession(c)' => InSession(c)
             /\ inbox'[c] = inbox[c] /\ users'[c] = users[c] /\ fetched'[c] = fetched[c]
    BY <2>2, PreviousStays, CurrentStays
  <2> QED
    BY <2>1, <2>2
<1> QED
  BY <1>1 DEF CurrentInv

LEMMA EndSessionsCurrent ==
  ASSUME FeedInv, CurrentInv, UNCHANGED <<shown, roster, untold, misread, table>>, NEW C, EndSessions(C),
         \A c \in Competitions : IF c \in C THEN ~InSession(c)' ELSE InSession(c)' => InSession(c)
  PROVE  CurrentInv'
<1>1. \A c \in Competitions \ C : inbox'[c] = inbox[c] /\ users'[c] = users[c] /\ fetched'[c] = fetched[c]
  BY EndSessionsParts DEF FeedInv, CollectorInv, Sessions
<1>2. \A c \in Competitions \cap C : ~Serving(c)'
  BY DEF Serving
<1> QED
  BY <1>1, <1>2, EndedCurrent

(***************************************************************************)
(* What the provider does is told.                                         *)
(***************************************************************************)

LEMMA Pushed ==
  ASSUME FeedInv, NEW c \in Competitions, NEW m, Push(c, m), UNCHANGED task, Serving(c)'
  PROVE  Serving(c) /\ inbox'[c] = Append(inbox[c], m)
<1>1. inbox = [d \in Competitions |-> inbox[d]]
  BY DEF FeedInv, CollectorInv, Sessions, SessionTypes
<1>2. CASE Serving(c)
  BY <1>1, <1>2 DEF Push
<1>3. CASE ~Serving(c)
  <2>1. inbox'[c] = inbox[c]
    BY <1>1, <1>3 DEF Push
  <2> QED
    BY <1>3, <2>1 DEF Serving, InSession
<1> QED
  BY <1>2, <1>3

LEMMA PushedCurrent ==
  ASSUME FeedInv, CurrentInv, NEW c \in Competitions, NEW m \in Messages(c), m.kind # "users",
         Push(c, m), UNCHANGED <<users, fetched, task, roster, misread, table>>,
         \A x \in Results :
           \/ Tells(m, x) /\ RowTold(m, x) = shown'[x] /\ CompetitionOf[RoundOf[x]] = c
           \/ ~Tells(m, x) /\ shown'[x] = shown[x] /\ (x \notin untold' => x \notin untold)
  PROVE  CurrentInv'
<1>1. \A x \in Results : Previous(x)' = Previous(x)
  BY PreviousStays
<1>2. ASSUME NEW d \in Competitions \ {c}
      PROVE  CurrentOf(d)'
  <2>1. inbox'[d] = inbox[d] /\ (InSession(d)' => InSession(d))
    BY DEF Push, FeedInv, CollectorInv, Sessions, SessionTypes, InSession
  <2>2. \A x \in Results : CompetitionOf[RoundOf[x]] = d =>
          shown'[x] = shown[x] /\ (x \notin untold' => x \notin untold)
    OBVIOUS
  <2> QED
    BY <1>1, <2>1, <2>2, CurrentStays
<1>3. ASSUME Serving(c)'
      PROVE  CurrentOf(c)'
  <2>1. Serving(c) /\ inbox'[c] = Append(inbox[c], m)
    BY <1>3, Pushed
  <2>2. PICK q : q = inbox[c] /\ q \in Seq(Messages(c))
    BY DEF FeedInv, CollectorInv, Sessions, SessionInv
  <2>3. PICK names, known : names = users[c] /\ known = roster
    OBVIOUS
  <2>4. inbox'[c] = Append(q, m) /\ users'[c] = names /\ roster' = known /\ fetched'[c] = fetched[c]
    BY <2>1, <2>2, <2>3
  <2>5. /\ Rosters(q, names, known)
        /\ \A x \in known : CompetitionOf[RoundOf[x]] = c => x \in names \/ NamesTo(q, Len(q), x)
    BY <2>1, <2>2, <2>3 DEF CurrentInv, CurrentOf, Rostered
  <2>6. Rosters(Append(q, m), names, known)
    BY <2>2, <2>5, AppendRosters
  <2>7. Len(q) \in Nat /\ Len(Append(q, m)) = Len(q) + 1
    BY <2>2, AppendElements
  <2>8. ASSUME NEW x \in known, CompetitionOf[RoundOf[x]] = c
        PROVE  x \in names \/ NamesTo(Append(q, m), Len(Append(q, m)), x)
    <3>1. x \in names \/ NamesTo(q, Len(q), x)
      BY <2>5, <2>8
    <3>2. Len(q) \in 0..Len(q) /\ Len(q) + 1 \in 1..(Len(q) + 1) /\ Len(q) <= Len(q) + 1
      BY <2>7
    <3>3. NamesTo(q, Len(q), x) => NamesTo(Append(q, m), Len(q) + 1, x)
      BY <2>2, <3>2, AppendNames
    <3> QED
      BY <2>7, <3>1, <3>3
  <2>9. Rostered(c)'
    BY <2>4, <2>6, <2>8 DEF Rostered
  <2>10. ASSUME NEW x \in Results, RoundOf[x] \in fetched'[c], x \notin untold'
         PROVE  /\ LastTold(Append(q, m), names, x, shown'[x], known)
                /\ Untouched(Append(q, m), x) => Previous(x)' = Expected(x)' \/ x \in misread'
    <3>1. CASE Tells(m, x) /\ RowTold(m, x) = shown'[x] /\ CompetitionOf[RoundOf[x]] = c
      <4>1. x \in known => x \in names \/ NamesTo(q, Len(q), x)
        BY <2>5, <3>1
      <4>2. PICK row : row = shown'[x]
        OBVIOUS
      <4>3. LastTold(Append(q, m), names, x, row, known) /\ ~Untouched(Append(q, m), x)
        BY <2>2, <3>1, <4>1, <4>2, AppendTold
      <4> QED
        BY <4>2, <4>3
    <3>2. CASE ~Tells(m, x) /\ shown'[x] = shown[x] /\ (x \notin untold' => x \notin untold)
      <4>1. PICK row : row = shown[x]
        OBVIOUS
      <4>2. /\ LastTold(q, names, x, row, known)
            /\ Untouched(q, x) => Previous(x) = Expected(x) \/ x \in misread
        BY <2>1, <2>2, <2>3, <2>4, <2>10, <3>2, <4>1 DEF CurrentInv, CurrentOf, Fresh
      <4>3. /\ LastTold(Append(q, m), names, x, row, known)
            /\ Untouched(Append(q, m), x) => Untouched(q, x)
        BY <2>2, <3>2, <4>2, AppendSilent
      <4>4. Expected(x)' = Expected(x)
        BY <3>2 DEF Expected
      <4> QED
        BY <1>1, <3>2, <4>1, <4>2, <4>3, <4>4
    <3> QED
      BY <3>1, <3>2
  <2>11. \A x \in Results : Fresh(c, x)'
    BY <2>4, <2>10 DEF Fresh
  <2> QED
    BY <2>9, <2>11 DEF CurrentOf
<1>4. CurrentOf(c)'
  BY <1>3, NotServing
<1> QED
  BY <1>2, <1>4 DEF CurrentInv

LEMMA RegisterCurrent ==
  ASSUME FeedInv, CurrentInv, NEW y \in Results, Register(y)
  PROVE  CurrentInv'
<1>1. PICK c \in Competitions : c = CompetitionOf[RoundOf[y]]
  BY RoundOfCompetition
<1>2. PICK now : now = roster'
  OBVIOUS
<1>3. PICK m : m = UsersMessage(now)
  OBVIOUS
<1>4. /\ Push(c, m) /\ UNCHANGED <<users, fetched, task, misread, table, shown>>
      /\ now = roster \cup {y} /\ roster \subseteq now /\ m.kind = "users" /\ m.users = now
      /\ untold' = IF shown[y] = None THEN untold ELSE untold \cup {y}
  BY <1>1, <1>2, <1>3 DEF Register, ProviderActs, ingestionVars, UsersMessage
<1>5. \A x \in Results : Previous(x)' = Previous(x)
  BY <1>4, PreviousStays
<1>6. \A x \in Results : x \notin untold' =>
        x \notin untold /\ (shown[x] # None /\ x \in now => x \in roster) /\ Expected(x)' = Expected(x)
  BY <1>2, <1>4 DEF Expected, NormalizeResult
<1>7. \A x : ~Tells(m, x)
  BY <1>4 DEF Tells
<1>8. ASSUME NEW d \in Competitions \ {c}
      PROVE  CurrentOf(d)'
  <2>1. inbox'[d] = inbox[d] /\ (Serving(d)' => Serving(d))
    BY <1>4 DEF Push, FeedInv, CollectorInv, Sessions, SessionTypes, InSession, Serving
  <2>2. Rostered(d)'
    <3>1. Rosters(inbox[d], users[d], roster) => Rosters(inbox[d], users[d], now)
      BY <1>4 DEF Rosters
    <3>2. \A x \in now : CompetitionOf[RoundOf[x]] = d => x \in roster
      BY <1>1, <1>4
    <3> QED
      BY <1>2, <1>4, <2>1, <3>1, <3>2 DEF CurrentInv, CurrentOf, Rostered
  <2>3. ASSUME NEW x \in Results, Serving(d)', RoundOf[x] \in fetched'[d], x \notin untold'
        PROVE  /\ LastTold(inbox'[d], users'[d], x, shown'[x], now)
               /\ Untouched(inbox'[d], x) => Previous(x)' = Expected(x)' \/ x \in misread'
    <3>1. /\ LastTold(inbox[d], users[d], x, shown[x], roster)
          /\ Untouched(inbox[d], x) => Previous(x) = Expected(x) \/ x \in misread
      BY <1>4, <1>6, <2>1, <2>3 DEF CurrentInv, CurrentOf, Fresh
    <3>2. LastTold(inbox[d], users[d], x, shown[x], now)
      BY <1>6, <2>3, <3>1, RegisteredTold
    <3> QED
      BY <1>4, <1>5, <1>6, <2>1, <2>3, <3>1, <3>2
  <2>4. \A x \in Results : Fresh(d, x)'
    BY <1>2, <2>3 DEF Fresh
  <2> QED
    BY <2>2, <2>4 DEF CurrentOf
<1>9. ASSUME Serving(c)'
      PROVE  CurrentOf(c)'
  <2>1. Serving(c) /\ inbox'[c] = Append(inbox[c], m)
    BY <1>4, <1>9, Pushed
  <2>2. PICK q : q = inbox[c] /\ q \in Seq(Messages(c))
    BY DEF FeedInv, CollectorInv, Sessions, SessionInv
  <2>3. PICK names, known : names = users[c] /\ known = roster
    OBVIOUS
  <2>4. inbox'[c] = Append(q, m) /\ users'[c] = names /\ roster' = now /\ fetched'[c] = fetched[c]
    BY <1>2, <1>4, <2>1, <2>2, <2>3
  <2>5. Rosters(q, names, known) /\ m \in Messages(c) /\ known \subseteq now
    <3>1. now \subseteq Results
      BY <1>4 DEF FeedInv, ProviderInv
    <3>2. m \in Messages(c)
      BY <1>3, <3>1 DEF UsersMessage, Messages, UsersMessages
    <3> QED
      BY <1>4, <2>1, <2>2, <2>3, <3>2 DEF CurrentInv, CurrentOf, Rostered
  <2>6. Rosters(Append(q, m), names, now)
    BY <1>4, <2>2, <2>5, AppendRosters
  <2>7. /\ Len(q) \in Nat /\ Len(Append(q, m)) = Len(q) + 1 /\ Append(q, m)[Len(q) + 1] = m
    BY <2>2, <2>5, AppendElements
  <2>8. ASSUME NEW x \in now
        PROVE  NamesTo(Append(q, m), Len(Append(q, m)), x)
    <3>1. Len(q) + 1 \in 1..Len(Append(q, m))
      BY <2>7
    <3> QED
      BY <1>4, <2>7, <3>1 DEF NamesTo
  <2>9. Rostered(c)'
    BY <2>4, <2>6, <2>8 DEF Rostered
  <2>10. ASSUME NEW x \in Results, RoundOf[x] \in fetched'[c], x \notin untold'
         PROVE  /\ LastTold(Append(q, m), names, x, shown'[x], now)
                /\ Untouched(Append(q, m), x) => Previous(x)' = Expected(x)' \/ x \in misread'
    <3>1. PICK row : row = shown[x]
      OBVIOUS
    <3>2. /\ LastTold(q, names, x, row, known)
          /\ Untouched(q, x) => Previous(x) = Expected(x) \/ x \in misread
      BY <1>6, <2>1, <2>2, <2>3, <2>4, <2>10, <3>1 DEF CurrentInv, CurrentOf, Fresh
    <3>3. LastTold(q, names, x, row, now)
      BY <1>6, <2>3, <2>10, <3>1, <3>2, RegisteredTold
    <3>4. /\ LastTold(Append(q, m), names, x, row, now)
          /\ Untouched(Append(q, m), x) => Untouched(q, x)
      BY <1>7, <2>2, <2>5, <3>3, AppendSilent
    <3> QED
      BY <1>4, <1>5, <1>6, <2>10, <3>1, <3>2, <3>4
  <2>11. \A x \in Results : Fresh(c, x)'
    BY <2>4, <2>10 DEF Fresh
  <2> QED
    BY <2>9, <2>11 DEF CurrentOf
<1> QED
  BY <1>8, <1>9, NotServing DEF CurrentInv

\* The rows of an answer are those that are shown.
LEMMA AnswerTells ==
  ASSUME ProviderInv, NEW r \in Rounds
  PROVE  /\ Answers[r].kind = "snapshot"
         /\ \A x \in Results : Tells(Answers[r], x) <=> RoundOf[x] = r
         /\ \A x \in Results : RoundOf[x] = r => RowTold(Answers[r], x) = shown[x]
<1>1. Answers[r] = [kind |-> "snapshot", rows |-> Shown(r), round |-> r]
  BY DEF Answers, SnapshotMessage
<1>2. PICK X : X = {y \in ResultsOf(r) : shown[y] # None}
  OBVIOUS
<1>3. Shown(r) = [x \in X |-> shown[x]]
  BY <1>2 DEF Shown
<1>4. ASSUME NEW x \in Results, RoundOf[x] = r
      PROVE  RowTold(Answers[r], x) = shown[x]
  BY <1>1, <1>2, <1>3, <1>4 DEF RowTold, ResultsOf
<1> QED
  BY <1>1, <1>4 DEF Tells

LEMMA ProviderChangeCurrent ==
  ASSUME FeedInv, CurrentInv, ProviderChange
  PROVE  CurrentInv'
<1>0. ProviderActs => UNCHANGED <<users, fetched, task, misread, table>>
  BY DEF ProviderActs, ingestionVars
<1>1. ASSUME NEW y \in Results, RemoveResult(y)
      PROVE  CurrentInv'
  <2>1. /\ UNCHANGED <<users, fetched, task, misread, table, roster, inbox>>
        /\ untold' = untold \cup {y} /\ \A x \in Results \ {y} : shown'[x] = shown[x]
    BY <1>0, <1>1 DEF RemoveResult, FeedInv, ProviderInv
  <2>2. \A x \in Results : Previous(x)' = Previous(x)
    BY <2>1, PreviousStays
  <2>3. \A c \in Competitions : CurrentOf(c)'
    BY <2>1, <2>2, CurrentStays DEF InSession
  <2> QED
    BY <2>3 DEF CurrentInv
<1>2. ASSUME NEW x \in Results, Register(x)
      PROVE  CurrentInv'
  BY <1>2, RegisterCurrent
<1>3. ASSUME NEW y \in Results, NEW row \in Entries[y], EnterResult(y, row)
      PROVE  CurrentInv'
  <2>1. PICK m : m = UpdateMessage(y, row)
    OBVIOUS
  <2>2. row \in Rows
    BY EntriesAssumption DEF EntriesAssumption
  <2>3. /\ Push(CompetitionOf[RoundOf[y]], m) /\ UNCHANGED <<users, fetched, task, misread, table, roster>>
        /\ shown'[y] = row /\ \A x \in Results \ {y} : shown'[x] = shown[x]
        /\ untold' = untold \ {y}
    BY <1>0, <1>3, <2>1 DEF EnterResult, FeedInv, ProviderInv
  <2>4. m.kind = "update" /\ m.result = y /\ m.row = row
    BY <2>1 DEF UpdateMessage
  <2>5. ASSUME NEW x \in Results
        PROVE  \/ Tells(m, x) /\ RowTold(m, x) = shown'[x]
                  /\ CompetitionOf[RoundOf[x]] = CompetitionOf[RoundOf[y]]
               \/ ~Tells(m, x) /\ shown'[x] = shown[x] /\ (x \notin untold' => x \notin untold)
    BY <2>3, <2>4 DEF Tells, RowTold
  <2>6. m \in Messages(CompetitionOf[RoundOf[y]]) /\ CompetitionOf[RoundOf[y]] \in Competitions
    BY <2>1, <2>2, UpdateIsMessage, RoundOfCompetition
  <2> QED
    BY <2>3, <2>4, <2>5, <2>6, PushedCurrent
<1>4. ASSUME NEW r \in Rounds, Resend(r)
      PROVE  CurrentInv'
  <2>1. PICK m : m = Answers[r]
    OBVIOUS
  <2>2. /\ Push(CompetitionOf[r], m)
        /\ UNCHANGED <<users, fetched, task, misread, table, roster, shown>>
        /\ untold' = untold \ ResultsOf(r)
    BY <1>0, <1>4, <2>1 DEF Resend
  <2>3. /\ m.kind # "users"
        /\ \A x \in Results : Tells(m, x) <=> RoundOf[x] = r
        /\ \A x \in Results : RoundOf[x] = r => RowTold(m, x) = shown'[x]
    BY <2>1, <2>2, AnswerTells DEF FeedInv
  <2>4. ASSUME NEW x \in Results
        PROVE  \/ Tells(m, x) /\ RowTold(m, x) = shown'[x] /\ CompetitionOf[RoundOf[x]] = CompetitionOf[r]
               \/ ~Tells(m, x) /\ shown'[x] = shown[x] /\ (x \notin untold' => x \notin untold)
    BY <2>2, <2>3 DEF ResultsOf
  <2>5. m \in Messages(CompetitionOf[r]) /\ CompetitionOf[r] \in Competitions
    BY <2>1, AnswerIsMessage, RoundOfCompetition DEF FeedInv
  <2> QED
    BY <2>2, <2>3, <2>4, <2>5, PushedCurrent
<1>5. ASSUME NEW r \in Rounds, NEW rl \in Formats, ChangeFormat(r, rl)
      PROVE  CurrentInv'
  <2>1. PICK m : m = RoundsMessage([s \in {r} |-> rl])
    OBVIOUS
  <2>2. /\ Push(CompetitionOf[r], m)
        /\ UNCHANGED <<users, fetched, task, misread, table, roster, shown, untold>>
    BY <1>0, <1>5, <2>1 DEF ChangeFormat
  <2>3. m.kind # "users" /\ \A x : ~Tells(m, x)
    BY <2>1 DEF RoundsMessage, Tells
  <2>4. {r} \in SUBSET Rounds /\ [s \in {r} |-> rl] \in [{r} -> Formats]
    OBVIOUS
  <2>5. m \in Messages(CompetitionOf[r]) /\ CompetitionOf[r] \in Competitions
    BY <2>1, <2>4, RulesAreMessage, RoundOfCompetition
  <2> QED
    BY <2>2, <2>3, <2>5, PushedCurrent
<1>6. ASSUME NEW r \in Floating, ChangePage(r)
      PROVE  CurrentInv'
  <2>1. UNCHANGED <<users, fetched, task, misread, table, roster, inbox, shown, untold>>
    BY <1>0, <1>6 DEF ChangePage
  <2> QED
    BY <2>1, EndedCurrent DEF InSession
<1> QED
  BY <1>1, <1>2, <1>3, <1>4, <1>5, <1>6 DEF ProviderChange

(***************************************************************************)
(* What a session makes of a message.                                      *)
(***************************************************************************)

ToldResult(m, x, names) ==
  IF RowTold(m, x) = None THEN None ELSE NormalizeResult(x, RowTold(m, x), names)

\* The message m was applied by c: it leaves of the results it tells of what it told, or
\* they were misread, and it leaves the others alone.
Applied(c, m, x) ==
  \/ CompetitionOf[RoundOf[x]] = c /\ x \in misread'
  \/ CompetitionOf[RoundOf[x]] = c /\ Tells(m, x) /\ Previous(x)' = ToldResult(m, x, users[c])
  \/ ~Tells(m, x) /\ Previous(x)' = Previous(x) /\ (x \in misread => x \in misread')

LEMMA SnapshotApplied ==
  ASSUME FeedInv, NEW c \in Competitions, NEW m \in Snapshots(c), NEW r \in RoundsOf(c), r \in Rounds,
         rule[r] # None, ApplySnapshot(c, r, m)
  PROVE  \A x \in Results : Applied(c, m, x)
<1>1. m.kind = "snapshot" /\ m.rows \in PartialRows /\ DOMAIN m.rows \subseteq ResultsOf(m.round)
      /\ m.round \in RoundsOf(c)
  BY DEF Snapshots
<1>2. PICK rows, names : rows = m.rows /\ names = users[c]
  OBVIOUS
<1> DEFINE dup == SnapshotPayload(r, rows, names) \in seen
<1>4. ProcessRoundSnapshot(r, rows, names) /\ UNCHANGED <<rule, reruled>>
  BY <1>2 DEF ApplySnapshot
<1>5. /\ dup => UNCHANGED table
      /\ ~dup => \A x \in Results : Previous(x)' =
                IF x \in DOMAIN rows THEN NormalizeResult(x, rows[x], names)
                ELSE IF x \in ResultsOf(r) THEN None ELSE Previous(x)
  BY <1>1, <1>2, <1>4, SnapshotMirrors DEF FeedInv
<1>6. \A x \in Results : dup => Previous(x)' = Previous(x)
  BY <1>5, PreviousStays
<1>7. \A x \in Results : x \in ResultsOf(r) <=> RoundOf[x] = r
  BY DEF ResultsOf
<1>8. \A x \in Results : x \in ResultsOf(m.round) <=> Tells(m, x)
  BY <1>1 DEF ResultsOf, Tells
<1>9. \A x \in Results : (x \in ResultsOf(r) \/ x \in ResultsOf(m.round)) => CompetitionOf[RoundOf[x]] = c
  BY <1>1 DEF ResultsOf, RoundsOf
<1>10. \A x \in Results : RowTold(m, x) = IF x \in DOMAIN rows THEN rows[x] ELSE None
  BY <1>1, <1>2 DEF RowTold
<1>11. \A x \in DOMAIN rows : rows[x] \in Rows /\ rows[x] # None
  BY <1>1, <1>2, NoneAssumption DEF PartialRows, NoneAssumption
<1>12. CASE r = m.round
  <2>1. PICK current : current = NormalizeSnapshot(rows, names)
    OBVIOUS
  <2>2. DOMAIN current = DOMAIN rows /\ \A x \in DOMAIN rows : current[x] = NormalizeResult(x, rows[x], names)
    BY <2>1 DEF NormalizeSnapshot
  <2>3. misread' = (misread \ ResultsOf(r)) \cup
          {x \in ResultsOf(r) : dup /\ Previous(x) # (IF x \in DOMAIN current THEN current[x] ELSE None)}
    BY <1>2, <1>12, <2>1 DEF ApplySnapshot, Told
  <2>4. ASSUME NEW x \in Results, x \in ResultsOf(r)
        PROVE  Applied(c, m, x)
    <3>1. ToldResult(m, x, names) = IF x \in DOMAIN rows THEN NormalizeResult(x, rows[x], names) ELSE None
      BY <1>10, <1>11 DEF ToldResult
    <3>2. CASE dup
      BY <1>2, <1>6, <1>8, <1>9, <1>12, <2>2, <2>3, <2>4, <3>1, <3>2 DEF Applied
    <3>3. CASE ~dup
      BY <1>2, <1>5, <1>8, <1>9, <1>12, <2>4, <3>1, <3>3 DEF Applied
    <3> QED
      BY <3>2, <3>3
  <2>5. ASSUME NEW x \in Results, x \notin ResultsOf(r)
        PROVE  Applied(c, m, x)
    <3>1. x \notin DOMAIN rows
      BY <1>1, <1>2, <1>12, <2>5
    <3>2. Previous(x)' = Previous(x)
      BY <1>5, <1>6, <2>5, <3>1
    <3> QED
      BY <1>8, <1>12, <2>3, <2>5, <3>2 DEF Applied
  <2> QED
    BY <2>4, <2>5
<1>13. CASE r # m.round
  <2>1. misread' = misread \cup ResultsOf(r) \cup ResultsOf(m.round)
    BY <1>13 DEF ApplySnapshot
  <2>2. ASSUME NEW x \in Results, x \notin ResultsOf(r), x \notin ResultsOf(m.round)
        PROVE  Applied(c, m, x)
    <3>1. Previous(x)' = Previous(x)
      BY <1>1, <1>2, <1>5, <1>6, <2>2
    <3> QED
      BY <1>8, <2>1, <2>2, <3>1 DEF Applied
  <2> QED
    BY <1>9, <2>1, <2>2 DEF Applied
<1> QED
  BY <1>12, <1>13

LEMMA UpdateApplied ==
  ASSUME FeedInv, NEW c \in Competitions, NEW m \in Updates(c), rule[RoundOf[m.result]] # None,
         ApplyUpdate(c, m.result, m.row)
  PROVE  \A x \in Results : Applied(c, m, x)
<1>1. m.kind = "update" /\ m.row \in Rows /\ m.result \in Results /\ CompetitionOf[RoundOf[m.result]] = c
  BY DEF Updates
<1>2. PICK y, row, names : y = m.result /\ row = m.row /\ names = users[c]
  OBVIOUS
<1> DEFINE dup == UpdatePayload(y, row) \in seen
<1>4. ProcessResultUpdate(y, row, names) /\ UNCHANGED <<rule, reruled>>
  BY <1>2 DEF ApplyUpdate
<1>5. /\ dup => UNCHANGED table
      /\ ~dup => \A x \in Results : Previous(x)' = IF x = y THEN NormalizeResult(y, row, names) ELSE Previous(x)
  BY <1>1, <1>2, <1>4, UpdateMirrors DEF FeedInv
<1>6. \A x \in Results : dup => Previous(x)' = Previous(x)
  BY <1>5, PreviousStays
<1>7. misread' = (misread \ {y}) \cup {x \in {y} : dup /\ Previous(x) # NormalizeResult(x, row, names)}
  BY <1>2 DEF ApplyUpdate, Told
<1>8. ToldResult(m, y, names) = NormalizeResult(y, row, names)
  BY <1>1, <1>2, NoneAssumption DEF ToldResult, RowTold, NoneAssumption
<1>9. \A x : Tells(m, x) <=> x = y
  BY <1>1, <1>2 DEF Tells
<1>10. Applied(c, m, y)
  <2>1. CASE dup
    BY <1>1, <1>2, <1>6, <1>7, <1>8, <1>9, <2>1 DEF Applied
  <2>2. CASE ~dup
    BY <1>1, <1>2, <1>5, <1>8, <1>9, <2>2 DEF Applied
  <2> QED
    BY <2>1, <2>2
<1>11. ASSUME NEW x \in Results, x # y
       PROVE  Applied(c, m, x)
  <2>1. Previous(x)' = Previous(x)
    BY <1>5, <1>6, <1>11
  <2> QED
    BY <1>7, <1>9, <1>11, <2>1 DEF Applied
<1> QED
  BY <1>2, <1>10, <1>11

\* What is left in the inbox c will tell as before, and what is told already is there.
TailFresh(c, q, names) ==
  /\ Rosters(q, names, roster)
  /\ \A x \in roster : CompetitionOf[RoundOf[x]] = c => x \in names \/ NamesTo(q, Len(q), x)
  /\ \A x \in Results : RoundOf[x] \in fetched[c] /\ x \notin untold =>
       /\ LastTold(q, names, x, shown[x], roster)
       /\ Untouched(q, x) => Previous(x)' = Expected(x) \/ x \in misread'

LEMMA TailIsFresh ==
  ASSUME FeedInv, CurrentInv, NEW c \in Competitions, Serving(c), inbox[c] # <<>>,
         \A x \in Results : Applied(c, Head(inbox[c]), x)
  PROVE  TailFresh(c, Tail(inbox[c]), NamesAfter(inbox[c], users[c]))
<1>1. PICK q : q = inbox[c] /\ q \in Seq(Messages(c)) /\ q # <<>>
  BY DEF FeedInv, CollectorInv, Sessions, SessionInv
<1>2. PICK names, known, later : names = users[c] /\ known = roster /\ later = NamesAfter(q, names)
  OBVIOUS
<1>3. /\ Rosters(q, names, known)
      /\ \A x \in known : CompetitionOf[RoundOf[x]] = c => x \in names \/ NamesTo(q, Len(q), x)
  BY <1>1, <1>2 DEF CurrentInv, CurrentOf, Rostered
<1>4. Rosters(Tail(q), later, known)
  BY <1>1, <1>2, <1>3, TailRosters
<1>5. Len(q) \in Nat \ {0} /\ Len(Tail(q)) = Len(q) - 1
  BY <1>1, TailElements
<1>6. ASSUME NEW x \in known, CompetitionOf[RoundOf[x]] = c
      PROVE  x \in later \/ NamesTo(Tail(q), Len(Tail(q)), x)
  <2>1. Len(q) \in 1..Len(q)
    BY <1>5
  <2>2. x \in names \/ NamesTo(q, Len(q), x)
    BY <1>3, <1>6
  <2> QED
    BY <1>1, <1>2, <1>3, <1>5, <2>1, <2>2, TailNames
<1>7. ASSUME NEW x \in Results, RoundOf[x] \in fetched[c], x \notin untold
      PROVE  /\ LastTold(Tail(q), later, x, shown[x], known)
             /\ Untouched(Tail(q), x) => Previous(x)' = Expected(x) \/ x \in misread'
  <2>1. PICK row : row = shown[x]
    OBVIOUS
  <2>2. /\ LastTold(q, names, x, row, known)
        /\ Untouched(q, x) => Previous(x) = Expected(x) \/ x \in misread
    BY <1>1, <1>2, <1>7, <2>1 DEF CurrentInv, CurrentOf, Fresh
  <2>3. LastTold(Tail(q), later, x, row, known)
    BY <1>1, <1>2, <1>3, <2>2, TailTold
  <2>4. ASSUME Untouched(Tail(q), x), x \notin misread'
        PROVE  Previous(x)' = Expected(x)
    <3>1. CASE Tells(Head(q), x)
      <4>1. Head(q).kind # "users"
        BY <3>1 DEF Tells
      <4>2. RowTold(Head(q), x) = row /\ (row # None => (x \in names <=> x \in known))
        BY <1>1, <1>3, <2>2, <2>4, <3>1, <4>1, HeadTold
      <4>3. Previous(x)' = ToldResult(Head(q), x, names)
        BY <1>1, <1>2, <2>4, <3>1 DEF Applied
      <4>4. Previous(x)' = IF row = None THEN None ELSE NormalizeResult(x, row, names)
        BY <4>2, <4>3 DEF ToldResult
      <4>5. Expected(x) = IF row = None THEN None ELSE NormalizeResult(x, row, known)
        BY <1>2, <2>1 DEF Expected
      <4> QED
        BY <4>2, <4>4, <4>5 DEF NormalizeResult
    <3>2. CASE ~Tells(Head(q), x)
      <4>1. Untouched(q, x)
        BY <1>1, <2>4, <3>2, TailUntouched
      <4>2. Previous(x)' = Previous(x) /\ x \notin misread
        BY <1>1, <2>4, <3>2 DEF Applied
      <4> QED
        BY <2>2, <4>1, <4>2
    <3> QED
      BY <3>1, <3>2
  <2> QED
    BY <2>1, <2>3, <2>4
<1> QED
  BY <1>1, <1>2, <1>4, <1>6, <1>7 DEF TailFresh

\* A broken socket stays broken until its failure is read.
LEMMA FailureStays ==
  ASSUME Sessions, NEW c \in Competitions, inbox[c] # <<>>, Head(inbox[c]).kind # "failure",
         NEW i, i = Tail(inbox[c]), Failure \notin {i[j] : j \in 1..Len(i)}
  PROVE  Failure \notin {inbox[c][j] : j \in 1..Len(inbox[c])}
<1>1. PICK q : q = inbox[c] /\ q \in Seq(Messages(c)) /\ q # <<>>
  BY DEF Sessions, SessionInv
<1>2. /\ Len(q) \in Nat \ {0} /\ Len(i) = Len(q) - 1 /\ Head(q) = q[1]
      /\ \A j \in 1..(Len(q) - 1) : i[j] = q[j + 1]
  BY <1>1, TailElements
<1>3. ASSUME NEW j \in 1..Len(q), q[j] = Failure
      PROVE  FALSE
  <2>1. j # 1
    BY <1>1, <1>2, <1>3 DEF Failure
  <2>2. j - 1 \in 1..Len(i) /\ j - 1 \in 1..(Len(q) - 1) /\ (j - 1) + 1 = j
    BY <1>2, <2>1
  <2>3. i[j - 1] = Failure
    BY <1>2, <1>3, <2>2
  <2> QED
    BY <2>2, <2>3
<1> QED
  BY <1>1, <1>3

LEMMA OthersCurrent ==
  ASSUME FeedInv, CurrentInv, NEW c \in Competitions, NEW d \in Competitions \ {c}, NEW m,
         InSession(d)' => InSession(d), inbox'[d] = inbox[d], users'[d] = users[d],
         fetched'[d] = fetched[d], UNCHANGED <<shown, roster>>,
         \A x \in Results : Applied(c, m, x),
         \A x \in Results : CompetitionOf[RoundOf[x]] = d => (x \notin untold' => x \notin untold)
  PROVE  CurrentOf(d)'
<1>1. \A x \in Results : CompetitionOf[RoundOf[x]] = d =>
        Previous(x)' = Previous(x) /\ (x \in misread => x \in misread')
  BY DEF Applied
<1> QED
  BY <1>1, CurrentStays

LEMMA TakeMessageCurrent ==
  ASSUME FeedInv, CurrentInv, NEW c \in Competitions, InSession(c), inbox[c] # <<>>,
         Head(inbox[c]).kind # "failure", TakeMessage(c), UNCHANGED <<shown, roster, untold>>,
         \A x \in Results : Applied(c, Head(inbox[c]), x)
  PROVE  CurrentInv'
<1>1. /\ inbox' = [inbox EXCEPT ![c] = Tail(inbox[c])]
      /\ users' = [users EXCEPT ![c] = NamesAfter(inbox[c], users[c])]
      /\ UNCHANGED <<task, fetched>>
  BY DEF TakeMessage, Take, NamesAfter
<1>2. /\ inbox'[c] = Tail(inbox[c]) /\ users'[c] = NamesAfter(inbox[c], users[c])
      /\ \A d \in Competitions \ {c} : inbox'[d] = inbox[d] /\ users'[d] = users[d]
  BY <1>1 DEF FeedInv, CollectorInv, Sessions, SessionTypes
<1>3. \A d \in Competitions \ {c} : CurrentOf(d)'
  BY <1>1, <1>2, OthersCurrent DEF InSession
<1>4. ASSUME Serving(c)'
      PROVE  CurrentOf(c)'
  <2>1. PICK q, names : q = Tail(inbox[c]) /\ names = NamesAfter(inbox[c], users[c])
    OBVIOUS
  <2>2. Failure \notin {q[j] : j \in 1..Len(q)}
    BY <1>2, <1>4, <2>1 DEF Serving
  <2>3. Serving(c)
    BY <2>1, <2>2, FailureStays DEF Serving, FeedInv, CollectorInv
  <2>4. TailFresh(c, q, names)
    BY <2>1, <2>3, TailIsFresh
  <2>5. inbox'[c] = q /\ users'[c] = names /\ fetched'[c] = fetched[c]
    BY <1>1, <1>2, <2>1
  <2>6. Rostered(c)'
    BY <2>4, <2>5 DEF TailFresh, Rostered
  <2>7. \A x \in Results : Expected(x)' = Expected(x)
    BY DEF Expected
  <2>8. ASSUME NEW x \in Results
        PROVE  Fresh(c, x)'
    BY <2>4, <2>5, <2>7 DEF TailFresh, Fresh
  <2> QED
    BY <2>6, <2>8 DEF CurrentOf
<1>5. CurrentOf(c)'
  BY <1>4, NotServing
<1> QED
  BY <1>3, <1>5 DEF CurrentInv

\* The session goes on to the next round, which the provider answers.
LEMMA AskForCurrent ==
  ASSUME FeedInv, CurrentInv, NEW c \in Competitions, InSession(c), NEW R, R \subseteq RoundsOf(c),
         NEW q \in Seq(Messages(c)), AskFor(c, R, q, Answers), Asking,
         UNCHANGED <<shown, roster>>, NEW m, \A x \in Results : Applied(c, m, x),
         NEW names, users'[c] = names, \A d \in Competitions \ {c} : users'[d] = users[d],
         Failure \notin {q[j] : j \in 1..Len(q)} => Serving(c),
         Serving(c) => TailFresh(c, q, names)
  PROVE  CurrentInv'
<1>1. /\ task \in [Competitions -> Points] /\ Sessions /\ SessionTypes /\ ProviderInv
      /\ \A d \in Competitions \ {c} :
           task'[d] = task[d] /\ inbox'[d] = inbox[d] /\ fetched'[d] = fetched[d]
  BY DEF AskFor, FeedInv, CollectorInv, TaskInv, Sessions, SessionTypes
<1>2. \A x \in Results : x \notin untold' =>
        \/ x \notin untold
        \/ /\ RoundOf[x] \in fetched'[CompetitionOf[RoundOf[x]]]
           /\ RoundOf[x] \notin fetched[CompetitionOf[RoundOf[x]]]
  BY DEF Asking
<1>3. \A d \in Competitions \ {c} : CurrentOf(d)'
  BY <1>1, <1>2, OthersCurrent DEF InSession
<1>4. \A x \in Results : Expected(x)' = Expected(x)
  BY DEF Expected
<1>5. ASSUME Serving(c)'
      PROVE  CurrentOf(c)'
  <2>1. CASE R = {}
    <3>1. inbox'[c] = q /\ fetched' = fetched
      BY <1>1, <2>1 DEF AskFor, SessionTypes
    <3>2. TailFresh(c, q, names)
      BY <1>5, <3>1 DEF Serving
    <3>3. Rostered(c)'
      BY <3>1, <3>2 DEF TailFresh, Rostered
    <3>4. \A x \in Results : x \notin untold' => x \notin untold
      BY <1>2, <3>1
    <3>5. ASSUME NEW x \in Results
          PROVE  Fresh(c, x)'
      BY <1>4, <3>1, <3>2, <3>4 DEF TailFresh, Fresh
    <3> QED
      BY <3>3, <3>5 DEF CurrentOf
  <2>2. CASE R # {}
    <3>1. PICK r \in R : r = FirstOf(R)
      BY <2>2 DEF FirstOf
    <3>2. PICK a : a = Answers[r]
      OBVIOUS
    <3>3. r \in Rounds /\ CompetitionOf[r] = c
      BY PageRoundsAssumption DEF PageRoundsAssumption, RoundsOf
    <3>4. a \in Messages(c) /\ a.kind = "snapshot"
      BY <1>1, <3>2, <3>3, AnswerIsMessage, AnswerTells
    <3>5. /\ fetched'[c] = fetched[c] \cup {r}
          /\ inbox'[c] = IF Serving(c) THEN Append(q, a) ELSE q
      BY <1>1, <2>2, <3>1, <3>2 DEF AskFor, SessionTypes
    <3>6. Serving(c)
      BY <1>5, <3>5 DEF Serving
    <3>7. inbox'[c] = Append(q, a) /\ TailFresh(c, q, names)
      BY <3>5, <3>6
    <3>8. PICK known : known = roster
      OBVIOUS
    <3>9. /\ Rosters(q, names, known)
          /\ \A x \in known : CompetitionOf[RoundOf[x]] = c => x \in names \/ NamesTo(q, Len(q), x)
      BY <3>7, <3>8 DEF TailFresh
    <3>10. Rosters(Append(q, a), names, known)
      BY <3>4, <3>9, AppendRosters
    <3>11. Len(q) \in Nat /\ Len(Append(q, a)) = Len(q) + 1
      BY <3>4, AppendElements
    <3>12. ASSUME NEW x \in known, CompetitionOf[RoundOf[x]] = c
           PROVE  x \in names \/ NamesTo(Append(q, a), Len(Append(q, a)), x)
      <4>1. Len(q) \in 0..Len(q) /\ Len(q) + 1 \in 1..(Len(q) + 1) /\ Len(q) <= Len(q) + 1
        BY <3>11
      <4>2. NamesTo(q, Len(q), x) => NamesTo(Append(q, a), Len(q) + 1, x)
        BY <3>4, <4>1, AppendNames
      <4> QED
        BY <3>9, <3>11, <3>12, <4>2
    <3>13. Rostered(c)'
      BY <3>7, <3>8, <3>10, <3>12 DEF Rostered
    <3>14. ASSUME NEW x \in Results, RoundOf[x] \in fetched'[c], x \notin untold'
           PROVE  /\ LastTold(Append(q, a), names, x, shown[x], known)
                  /\ Untouched(Append(q, a), x) => Previous(x)' = Expected(x) \/ x \in misread'
      <4>1. PICK row : row = shown[x]
        OBVIOUS
      <4>2. CASE RoundOf[x] = r
        <5>1. Tells(a, x) /\ RowTold(a, x) = row
          BY <1>1, <3>2, <3>3, <4>1, <4>2, AnswerTells
        <5>2. x \in known => x \in names \/ NamesTo(q, Len(q), x)
          BY <3>3, <3>9, <4>2
        <5> QED
          BY <3>4, <4>1, <5>1, <5>2, AppendTold
      <4>3. CASE RoundOf[x] # r
        <5>1. RoundOf[x] \in fetched[c]
          BY <3>5, <3>14, <4>3
        <5>2. CompetitionOf[RoundOf[x]] = c
          BY <1>1, <5>1 DEF Sessions, SessionInv, RoundsOf
        <5>3. x \notin untold
          BY <1>2, <3>14, <5>1, <5>2
        <5>4. /\ LastTold(q, names, x, row, known)
              /\ Untouched(q, x) => Previous(x)' = Expected(x) \/ x \in misread'
          BY <3>7, <3>8, <4>1, <5>1, <5>3 DEF TailFresh
        <5>5. ~Tells(a, x)
          BY <1>1, <3>2, <3>3, <4>3, AnswerTells
        <5>6. /\ LastTold(Append(q, a), names, x, row, known)
              /\ Untouched(Append(q, a), x) => Untouched(q, x)
          BY <3>4, <5>4, <5>5, AppendSilent
        <5> QED
          BY <4>1, <5>4, <5>6
      <4> QED
        BY <4>2, <4>3
    <3>15. \A x \in Results : Fresh(c, x)'
      BY <1>4, <3>7, <3>8, <3>14 DEF Fresh
    <3> QED
      BY <3>13, <3>15 DEF CurrentOf
  <2> QED
    BY <2>1, <2>2
<1>6. CurrentOf(c)'
  BY <1>5, NotServing
<1> QED
  BY <1>3, <1>6 DEF CurrentInv

LEMMA SessionFailsCurrent ==
  ASSUME FeedInv, CurrentInv, NEW c \in Competitions, SessionFails(c), ResultsUnchanged,
         UNCHANGED providerVars, UNCHANGED untold
  PROVE  CurrentInv'
<1>1. /\ EndSessions({c}) /\ UNCHANGED <<shown, roster, untold, misread, table>>
      /\ task' = [task EXCEPT ![c] = "checking"]
  BY DEF SessionFails, ResultsUnchanged, ingestionVars, providerVars
<1>2. \A d \in Competitions : IF d \in {c} THEN ~InSession(d)' ELSE InSession(d)' => InSession(d)
  BY <1>1 DEF InSession, FeedInv, CollectorInv, TaskInv
<1> QED
  BY <1>1, <1>2, EndSessionsCurrent

LEMMA SilentApplied ==
  ASSUME NEW c, NEW m, UNCHANGED <<table, misread>>, \A x : ~Tells(m, x)
  PROVE  \A x \in Results : Applied(c, m, x)
  BY PreviousStays DEF Applied

LEMMA FirstUsersCurrent ==
  ASSUME FeedInv, CurrentInv, NEW c \in Competitions, FirstUsers(c), UNCHANGED providerVars
  PROVE  CurrentInv'
<1>1. /\ task[c] = "roster" /\ inbox[c] # <<>> /\ Head(inbox[c]).kind = "users"
      /\ users' = [users EXCEPT ![c] = Head(inbox[c]).users]
      /\ UNCHANGED <<table, misread>> /\ Asking /\ UNCHANGED <<shown, roster>>
  BY DEF FirstUsers, TakeRoster, ResultsUnchanged, ingestionVars, providerVars
<1>2. PICK q, rest, m : /\ rest = Tail(inbox[c]) /\ m = AllRounds(c)
                        /\ q = IF Serving(c) THEN Append(rest, m) ELSE rest
                        /\ AskFor(c, targets \cap RoundsOf(c), q, Answers)
  BY DEF FirstUsers, TakeRoster
<1>3. Sessions /\ ProviderInv
  BY DEF FeedInv, CollectorInv
<1>4. rest \in Seq(Messages(c)) /\ m \in Messages(c) /\ m.kind = "rounds"
  BY <1>1, <1>2, <1>3, InboxHead, RoundsAreMessage DEF AllRounds, RoundsMessage
<1>5. q \in Seq(Messages(c)) /\ InSession(c)
  BY <1>1, <1>2, <1>4 DEF InSession
<1>6. PICK names : names = NamesAfter(inbox[c], users[c])
  OBVIOUS
<1>7. users'[c] = names /\ \A d \in Competitions \ {c} : users'[d] = users[d]
  BY <1>1, <1>3, <1>6 DEF Sessions, SessionTypes, NamesAfter
<1>8. \A x : ~Tells(Head(inbox[c]), x)
  BY <1>1 DEF Tells
<1>9. \A x \in Results : Applied(c, Head(inbox[c]), x)
  BY <1>1, <1>8, SilentApplied
<1>10. Failure \notin {q[j] : j \in 1..Len(q)} => Serving(c)
  BY <1>1, <1>2, <1>3, <1>5, FailureStays DEF Serving
<1>11. ASSUME Serving(c)
       PROVE  TailFresh(c, q, names)
  <2>1. TailFresh(c, rest, names)
    BY <1>1, <1>2, <1>6, <1>9, <1>11, TailIsFresh
  <2>2. PICK known : known = roster
    OBVIOUS
  <2>3. /\ Rosters(rest, names, known)
        /\ \A x \in known : CompetitionOf[RoundOf[x]] = c => x \in names \/ NamesTo(rest, Len(rest), x)
    BY <2>1, <2>2 DEF TailFresh
  <2>4. q = Append(rest, m) /\ Len(rest) \in Nat /\ Len(q) = Len(rest) + 1
    BY <1>2, <1>4, <1>11, AppendElements
  <2>5. Rosters(q, names, known)
    BY <1>4, <2>3, <2>4, AppendRosters
  <2>6. ASSUME NEW x \in known, CompetitionOf[RoundOf[x]] = c
        PROVE  x \in names \/ NamesTo(q, Len(q), x)
    <3>1. Len(rest) \in 0..Len(rest) /\ Len(q) \in 1..(Len(rest) + 1) /\ Len(rest) <= Len(q)
      BY <2>4
    <3>2. NamesTo(rest, Len(rest), x) => NamesTo(q, Len(q), x)
      BY <1>4, <2>4, <3>1, AppendNames
    <3> QED
      BY <2>3, <2>6, <3>2
  <2>7. fetched[c] = {}
    BY <1>1, <1>3 DEF Sessions, SessionInv
  <2> QED
    BY <2>2, <2>5, <2>6, <2>7 DEF TailFresh
<1>12. targets \cap RoundsOf(c) \subseteq RoundsOf(c)
  OBVIOUS
<1> QED
  BY <1>1, <1>2, <1>5, <1>7, <1>9, <1>10, <1>11, <1>12, AskForCurrent

LEMMA RoundFetchedCurrent ==
  ASSUME FeedInv, CurrentInv, NEW c \in Competitions, RoundFetched(c), UNCHANGED providerVars
  PROVE  CurrentInv'
<1>1. task[c] = "fetching" /\ InSession(c) /\ inbox[c] # <<>> /\ Head(inbox[c]).kind = "snapshot"
      /\ UNCHANGED <<shown, roster>>
  BY DEF RoundFetched, Receives, providerVars
<1>2. PICK m : m = Head(inbox[c])
  OBVIOUS
<1>3. m \in Snapshots(c) /\ Sessions
  BY <1>1, <1>2, InboxHead DEF FeedInv, CollectorInv
<1>4. CASE BelongTo(m.rows, asked[c])
  <2>1. TakeAnswer(c, Answers) /\ ApplySnapshot(c, asked[c], m) /\ Asking
    BY <1>2, <1>4 DEF RoundFetched
  <2>2. asked[c] \in RoundsOf(c) /\ asked[c] \in Rounds /\ rule[asked[c]] # None
    BY <1>1, <1>3 DEF FeedInv, RuleInv, Sessions, SessionInv, SessionTypes
  <2>3. \A x \in Results : Applied(c, m, x)
    BY <1>3, <2>1, <2>2, SnapshotApplied
  <2>4. PICK q, names : q = Tail(inbox[c]) /\ names = NamesAfter(inbox[c], users[c])
    OBVIOUS
  <2>5. q \in Seq(Messages(c)) /\ AskFor(c, todo[c], q, Answers) /\ UNCHANGED users
    BY <1>1, <1>3, <2>1, <2>4, InboxHead DEF TakeAnswer
  <2>6. users'[c] = names /\ \A d \in Competitions \ {c} : users'[d] = users[d]
    BY <1>1, <2>4, <2>5 DEF NamesAfter
  <2>7. Failure \notin {q[j] : j \in 1..Len(q)} => Serving(c)
    BY <1>1, <1>3, <2>4, FailureStays DEF Serving
  <2>8. Serving(c) => TailFresh(c, q, names)
    BY <1>1, <1>2, <2>3, <2>4, TailIsFresh
  <2>9. todo[c] \subseteq RoundsOf(c)
    BY <1>3 DEF Sessions, SessionInv
  <2> QED
    BY <1>1, <2>1, <2>3, <2>5, <2>6, <2>7, <2>8, <2>9, AskForCurrent
<1>5. CASE ~BelongTo(m.rows, asked[c])
  BY <1>2, <1>5, SessionFailsCurrent DEF RoundFetched, Reject
<1> QED
  BY <1>4, <1>5

LEMMA HandleUsersCurrent ==
  ASSUME FeedInv, CurrentInv, NEW c \in Competitions, HandleUsers(c), UNCHANGED providerVars
  PROVE  CurrentInv'
<1>1. /\ InSession(c) /\ inbox[c] # <<>> /\ Head(inbox[c]).kind = "users" /\ TakeMessage(c)
      /\ UNCHANGED <<shown, roster, untold, table, misread>>
  BY DEF HandleUsers, Receives, ResultsUnchanged, ingestionVars, providerVars
<1>2. \A x : ~Tells(Head(inbox[c]), x)
  BY <1>1 DEF Tells
<1> QED
  BY <1>1, <1>2, SilentApplied, TakeMessageCurrent

LEMMA HandleResultCurrent ==
  ASSUME FeedInv, CurrentInv, NEW c \in Competitions, HandleResult(c), UNCHANGED providerVars
  PROVE  CurrentInv'
<1>1. InSession(c) /\ inbox[c] # <<>> /\ Head(inbox[c]).kind = "update" /\ UNCHANGED <<shown, roster>>
  BY DEF HandleResult, Receives, providerVars
<1>2. PICK m : m = Head(inbox[c])
  OBVIOUS
<1>3. m \in Updates(c)
  BY <1>1, <1>2, InboxHead DEF FeedInv, CollectorInv
<1>4. CASE RoundOf[m.result] \in targets
  <2>1. TakeMessage(c) /\ ApplyUpdate(c, m.result, m.row) /\ UNCHANGED untold
    BY <1>2, <1>4 DEF HandleResult
  <2>2. \A x \in Results : Applied(c, m, x)
    BY <1>3, <1>4, <2>1, TargetHasRule, UpdateApplied
  <2> QED
    BY <1>1, <1>2, <2>1, <2>2, TakeMessageCurrent
<1>5. CASE RoundOf[m.result] \notin targets
  BY <1>2, <1>5, SessionFailsCurrent DEF HandleResult, Reject
<1> QED
  BY <1>4, <1>5

LEMMA HandleRoundsCurrent ==
  ASSUME FeedInv, CurrentInv, NEW c \in Competitions, HandleRounds(c), UNCHANGED providerVars
  PROVE  CurrentInv'
<1>1. /\ InSession(c) /\ inbox[c] # <<>> /\ Head(inbox[c]).kind = "rounds" /\ TakeMessage(c)
      /\ UNCHANGED <<shown, roster, untold, table, misread>>
  BY DEF HandleRounds, Receives, ApplyRules, SetRules, providerVars
<1>2. \A x : ~Tells(Head(inbox[c]), x)
  BY <1>1 DEF Tells
<1> QED
  BY <1>1, <1>2, SilentApplied, TakeMessageCurrent

LEMMA HandleSnapshotCurrent ==
  ASSUME FeedInv, CurrentInv, NEW c \in Competitions, HandleSnapshot(c), UNCHANGED providerVars
  PROVE  CurrentInv'
<1>1. InSession(c) /\ inbox[c] # <<>> /\ Head(inbox[c]).kind = "snapshot" /\ UNCHANGED <<shown, roster>>
  BY DEF HandleSnapshot, Receives, providerVars
<1>2. PICK m : m = Head(inbox[c])
  OBVIOUS
<1>3. m \in Snapshots(c)
  BY <1>1, <1>2, InboxHead DEF FeedInv, CollectorInv
<1>4. DOMAIN m.rows \subseteq ResultsOf(m.round) /\ m.round \in RoundsOf(c) /\ m.kind = "snapshot"
  BY <1>3 DEF Snapshots
<1>5. CASE DOMAIN m.rows = {}
  <2>1. TakeMessage(c) /\ misread' = misread \cup ResultsOf(m.round) /\ UNCHANGED <<table, untold>>
    BY <1>2, <1>5 DEF HandleSnapshot, ingestionVars
  <2>2. ASSUME NEW x \in Results
        PROVE  Applied(c, m, x)
    <3>1. Tells(m, x) <=> RoundOf[x] = m.round
      BY <1>4 DEF Tells
    <3>2. RoundOf[x] = m.round => x \in misread' /\ CompetitionOf[RoundOf[x]] = c
      BY <1>4, <2>1 DEF ResultsOf, RoundsOf
    <3>3. Previous(x)' = Previous(x) /\ (x \in misread => x \in misread')
      BY <2>1, PreviousStays
    <3> QED
      BY <3>1, <3>2, <3>3 DEF Applied
  <2> QED
    BY <1>1, <1>2, <2>1, <2>2, TakeMessageCurrent
<1>6. CASE DOMAIN m.rows # {}
  <2>1. PICK y \in DOMAIN m.rows : y = CHOOSE x \in DOMAIN m.rows : TRUE
    BY <1>6
  <2>2. PICK r : r = RoundOf[y]
    OBVIOUS
  <2>3. r = m.round
    BY <1>4, <2>2 DEF ResultsOf
  <2>4. CASE r \in targets
    <3>1. TakeMessage(c) /\ ApplySnapshot(c, r, m) /\ UNCHANGED untold
      BY <1>2, <1>6, <2>1, <2>2, <2>4 DEF HandleSnapshot
    <3>2. r \in Rounds /\ rule[r] # None /\ r \in RoundsOf(c)
      BY <1>4, <2>3, <2>4, TargetHasRule
    <3>3. \A x \in Results : Applied(c, m, x)
      BY <1>3, <3>1, <3>2, SnapshotApplied
    <3> QED
      BY <1>1, <1>2, <3>1, <3>3, TakeMessageCurrent
  <2>5. CASE r \notin targets
    <3>1. Reject(c)
      BY <1>2, <1>6, <2>1, <2>2, <2>5 DEF HandleSnapshot
    <3> QED
      BY <3>1, SessionFailsCurrent DEF Reject
  <2> QED
    BY <2>4, <2>5
<1> QED
  BY <1>5, <1>6

LEMMA ConnectCurrent ==
  ASSUME FeedInv, CurrentInv, NEW c \in Competitions, Connect(c, roster), ResultsUnchanged,
         UNCHANGED providerVars, UNCHANGED untold
  PROVE  CurrentInv'
<1>1. /\ task[c] = "opening" /\ task' = [task EXCEPT ![c] = "roster"]
      /\ inbox' = [inbox EXCEPT ![c] = <<UsersMessage(roster)>>]
      /\ UNCHANGED <<users, fetched, shown, roster, untold, misread, table>>
  BY DEF Connect, ResultsUnchanged, ingestionVars, providerVars
<1>2. /\ inbox'[c] = <<UsersMessage(roster)>>
      /\ \A d \in Competitions \ {c} : inbox'[d] = inbox[d] /\ task'[d] = task[d]
  BY <1>1 DEF FeedInv, CollectorInv, TaskInv, Sessions, SessionTypes
<1>3. \A d \in Competitions \ {c} : CurrentOf(d)'
  BY <1>1, <1>2, PreviousStays, CurrentStays DEF InSession
<1>4. users'[c] = {} /\ fetched'[c] = {}
  BY <1>1 DEF FeedInv, CollectorInv, Sessions, SessionInv, InSession
<1>5. PICK q, m : m = UsersMessage(roster) /\ q = <<m>>
  OBVIOUS
<1>6. Len(q) = 1 /\ q[1] = m /\ m.kind = "users" /\ m.users = roster
  BY <1>5 DEF UsersMessage
<1>7. \A i \in 1..1 : i = 1 /\ \A j \in (i + 1)..1 : FALSE
  OBVIOUS
<1>8. Rosters(q, {}, roster)
  BY <1>6, <1>7 DEF Rosters
<1>9. \A x \in roster : NamesTo(q, Len(q), x)
  <2>1. 1 \in 1..1
    OBVIOUS
  <2> QED
    BY <1>6, <2>1 DEF NamesTo
<1>10. Rostered(c)'
  BY <1>1, <1>2, <1>4, <1>5, <1>8, <1>9 DEF Rostered
<1>11. \A x \in Results : Fresh(c, x)'
  BY <1>4 DEF Fresh
<1> QED
  BY <1>3, <1>10, <1>11 DEF CurrentInv, CurrentOf

LEMMA TaskStepCurrent ==
  ASSUME FeedInv, CurrentInv, NEW c \in Competitions, TaskStep(c)
  PROVE  CurrentInv'
<1>0. /\ ResultsUnchanged /\ UNCHANGED providerVars
      /\ UNCHANGED <<shown, roster, untold, misread, table>> /\ TaskInv
  BY DEF TaskStep, ResultsUnchanged, ingestionVars, providerVars, FeedInv, CollectorInv
<1>1. CASE Check(c) \/ TakePlace(c)
  <2>1. UNCHANGED <<inbox, users, fetched>> /\ \A d \in Competitions : InSession(d)' => InSession(d)
    BY <1>0, <1>1 DEF Check, TakePlace, sessionVars, TaskInv, InSession
  <2> QED
    BY <1>0, <2>1, EndedCurrent
<1>2. CASE Connect(c, roster)
  BY <1>0, <1>2, ConnectCurrent
<1>3. CASE TakeFailure(c)
  BY <1>0, <1>3, SessionFailsCurrent DEF TakeFailure
<1> QED
  BY <1>1, <1>2, <1>3 DEF TaskStep

LEMMA HandlingFailsCurrent ==
  ASSUME FeedInv, CurrentInv, NEW c \in Competitions, HandlingFails(c)
  PROVE  CurrentInv'
<1>1. SessionFails(c) /\ UNCHANGED <<shown, roster, untold, misread, table>>
  BY DEF HandlingFails, ResultsUnchanged, ApplyRules, SetRules, ingestionVars, providerVars
<1>2. EndSessions({c}) /\ task' = [task EXCEPT ![c] = "checking"]
  BY <1>1 DEF SessionFails
<1>3. \A d \in Competitions : IF d \in {c} THEN ~InSession(d)' ELSE InSession(d)' => InSession(d)
  BY <1>2 DEF InSession, FeedInv, CollectorInv, TaskInv
<1> QED
  BY <1>1, <1>2, <1>3, EndSessionsCurrent

LEMMA FaultStepCurrent ==
  ASSUME FeedInv, CurrentInv, FaultStep
  PROVE  CurrentInv'
<1>0. /\ ResultsUnchanged /\ UNCHANGED providerVars
      /\ UNCHANGED <<shown, roster, untold, misread, table>> /\ TaskInv
  BY DEF FaultStep, ResultsUnchanged, ingestionVars, providerVars, FeedInv, CollectorInv
<1>1. ASSUME NEW c \in Competitions, ConnectFails(c) \/ AnswerTimesOut(c)
      PROVE  CurrentInv'
  BY <1>0, <1>1, SessionFailsCurrent DEF ConnectFails, AnswerTimesOut
<1>2. ASSUME NEW c \in Competitions, TaskDies(c)
      PROVE  CurrentInv'
  <2>1. EndSessions({c}) /\ task' = [task EXCEPT ![c] = "ended"]
    BY <1>2 DEF TaskDies
  <2>2. \A d \in Competitions : IF d \in {c} THEN ~InSession(d)' ELSE InSession(d)' => InSession(d)
    BY <1>0, <2>1 DEF InSession, TaskInv
  <2> QED
    BY <1>0, <2>1, <2>2, EndSessionsCurrent
<1>3. ASSUME NEW c \in Competitions, NEW kept, Break(c, kept)
      PROVE  CurrentInv'
  <2>1. PICK q : q = Append(SubSeq(inbox[c], 1, kept), Failure)
    OBVIOUS
  <2>2. /\ inbox' = [inbox EXCEPT ![c] = q] /\ kept \in 0..Len(inbox[c])
        /\ UNCHANGED <<task, users, fetched>>
    BY <1>3, <2>1 DEF Break
  <2>3. inbox'[c] = q /\ \A d \in Competitions \ {c} : inbox'[d] = inbox[d]
    BY <2>2 DEF FeedInv, CollectorInv, Sessions, SessionTypes
  <2>4. \E i \in 1..Len(q) : q[i] = Failure
    <3>1. PICK p : p = SubSeq(inbox[c], 1, kept)
      OBVIOUS
    <3>2. inbox[c] \in Seq(Messages(c)) /\ Failure \in Messages(c)
      BY DEF FeedInv, CollectorInv, Sessions, SessionInv, Messages
    <3>3. p \in Seq(Messages(c))
      BY <2>2, <3>1, <3>2
    <3>4. Len(q) = Len(p) + 1 /\ q[Len(p) + 1] = Failure /\ Len(p) \in Nat
      BY <2>1, <3>1, <3>2, <3>3, AppendElements
    <3>5. Len(p) + 1 \in 1..Len(q)
      BY <3>4
    <3> QED
      BY <3>4, <3>5
  <2>5. ~Serving(c)'
    BY <2>3, <2>4 DEF Serving
  <2>6. \A d \in Competitions \ {c} : InSession(d)' => InSession(d)
    BY <2>2 DEF InSession
  <2> QED
    BY <1>0, <2>2, <2>3, <2>5, <2>6, EndedCurrent
<1>4. ASSUME Crash
      PROVE  CurrentInv'
  <2>1. EndSessions(Competitions) /\ \A d \in Competitions : ~InSession(d)'
    BY <1>4 DEF Crash, EndWorker, All, InSession
  <2> QED
    BY <1>0, <2>1, EndSessionsCurrent
<1> QED
  BY <1>1, <1>2, <1>3, <1>4 DEF FaultStep

LEMMA CurrentInvNext ==
  ASSUME FeedInv, CurrentInv, [Next]_vars
  PROVE  CurrentInv'
<1>1. ASSUME NEW o, DiscoverCompetitions(o) \/ DiscoveryFails(o)
      PROVE  CurrentInv'
  <2>1. /\ UNCHANGED <<task, inbox, users, fetched>>
        /\ UNCHANGED <<shown, roster, untold, misread, table>>
    BY <1>1 DEF DiscoverCompetitions, Discover, DiscoveryFails, DiscoveryBreaksOff, sessionVars, SetRules,
                providerVars
  <2> QED
    BY <2>1, EndedCurrent DEF InSession
<1>2. CASE Reconcile
  <2>0. UNCHANGED <<shown, roster, untold, misread, table>>
    BY <1>2 DEF Reconcile, ResultsUnchanged, ingestionVars, providerVars
  <2>1. PICK gone : /\ EndSessions(gone)
                    /\ task' = [c \in Competitions |->
                          IF c \in gone THEN "none"
                          ELSE IF c \in found /\ task[c] \in {"none", "ended"} THEN "checking" ELSE task[c]]
    BY <1>2 DEF Reconcile, ReconcileCollectors
  <2>2. \A d \in Competitions : IF d \in gone THEN ~InSession(d)' ELSE InSession(d)' => InSession(d)
    BY <2>1 DEF InSession
  <2> QED
    BY <2>0, <2>1, <2>2, EndSessionsCurrent
<1>3. ASSUME NEW c \in Competitions, SessionStep(c)
      PROVE  CurrentInv'
  BY <1>3, FirstUsersCurrent, RoundFetchedCurrent, HandleUsersCurrent, HandleResultCurrent,
     HandleRoundsCurrent, HandleSnapshotCurrent DEF SessionStep
<1>4. CASE StopWorker
  <2>0. UNCHANGED <<shown, roster, untold, misread, table>>
    BY <1>4 DEF StopWorker, ResultsUnchanged, ingestionVars, providerVars
  <2>1. EndSessions(Competitions) /\ \A d \in Competitions : ~InSession(d)'
    BY <1>4 DEF StopWorker, Stop, EndWorker, All, InSession
  <2> QED
    BY <2>0, <2>1, EndSessionsCurrent
<1>5. CASE UNCHANGED vars
  <2>1. /\ UNCHANGED <<task, inbox, users, fetched>>
        /\ UNCHANGED <<shown, roster, untold, misread, table>>
    BY <1>5 DEF vars, collectorVars, sessionVars, historyVars, providerVars, ingestionVars
  <2> QED
    BY <2>1, EndedCurrent DEF InSession
<1> QED
  BY <1>1, <1>2, <1>3, <1>4, <1>5, ProviderChangeCurrent, TaskStepCurrent, HandlingFailsCurrent,
     FaultStepCurrent DEF Next

LEMMA CurrentInvInit == Init => CurrentInv
<1>1. Init => \A c \in Competitions : ~Serving(c)
  BY DEF Init, CollectorsInit, All, Serving, InSession
<1> QED
  BY <1>1 DEF CurrentInv, CurrentOf, Rostered, Fresh

\* A live session that has handled its messages mirrors the rounds it fetched: what it
\* lost with earlier connections, in whatever order rosters, rounds and single results
\* came, is made up for, but for changes no message tells and messages taken for others.
THEOREM SpecMirrorIsCurrent == Spec => []MirrorIsCurrent
<1>1. Init => FeedInv /\ CurrentInv
  BY FeedInvInit, CurrentInvInit
<1>2. FeedInv /\ CurrentInv /\ [Next]_vars => (FeedInv /\ CurrentInv)'
  BY FeedInvNext, CurrentInvNext
<1>3. FeedInv /\ CurrentInv => MirrorIsCurrent
  BY CurrentInvMirror
<1> QED
  BY <1>1, <1>2, <1>3, PTL DEF Spec
=============================================================================
