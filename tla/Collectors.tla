------------------------------ MODULE Collectors ------------------------------
(***************************************************************************)
(* The collectors of CubingChina: a supervisor that discovers competitions *)
(* and starts and cancels one task each, the tasks, which share a limited  *)
(* number of places, and the socket of each task.                          *)
(*                                                                         *)
(* A socket and the queue its reader fills are one inbox here: the reader  *)
(* looks at nothing the task does.  The provider answers a request at      *)
(* once: what it sends in the meantime reaches the same task all the same. *)
(* Telemetry, keepalives, heartbeats and waiting times are left out.  What *)
(* a message does to the results is left to the module that composes this  *)
(* one with the ingestion.                                                 *)
(***************************************************************************)
EXTENDS Integers, Sequences, FiniteSets

CONSTANTS
  Competitions,
  PageRounds, CompetitionOf,  \* CompetitionOf[r]: the competition of round r
  Outcomes,                \* what a discovery may find: functions to Findings
  MaxConnections,          \* places of the semaphore
  MaxFaults,               \* bound on failures
  NoRound

\* Of a competition in the window: its live page is there, or is not, or not even its
\* own page; or the page is there but the time to collect it has passed; or it is not in
\* the window, or its time has passed and there is no page.
Findings == {"ready", "unready", "unverified", "expired", "unlisted"}

ASSUME CompetitionOfAssumption == CompetitionOf \in [PageRounds -> Competitions] /\ NoRound \notin PageRounds
ASSUME CompetitionsAssumption == IsFiniteSet(Competitions)
ASSUME OutcomesAssumption == Outcomes \subseteq [Competitions -> Findings]
ASSUME PlacesAssumption == MaxConnections \in Nat \ {0} /\ MaxFaults \in Nat

VARIABLES
  status, active, ready, connected,  \* of the CubingChinaCompetitionTarget
  targets,     \* active CubingChinaRoundTargets
  pc,          \* the supervisor is about to "discover" or to "reconcile"
  found,       \* competitions the last discovery returned
  task,        \* where each task stands, see Points
  ahead,       \* ahead[c]: tasks that wait for a place since before c
  users,       \* the session's roster
  todo,        \* rounds the session has yet to fetch
  asked,       \* the round it has asked for
  fetched,     \* rounds this session has asked for
  inbox,       \* messages to the session, Failure the last of them
  stopped,     \* the worker was told to stop
  faults,      \* failures so far
  \* History, read by no action:
  abandoned,   \* competitions whose connected flag was left behind
  disowned,    \* sessions whose competition a broken-off discovery retired
  unsettled    \* competitions a broken-off discovery made live or ended since the last
               \* complete one

targetVars    == <<status, active, ready, connected, targets>>
sessionVars   == <<users, todo, asked, fetched, inbox>>
collectorVars == <<targetVars, pc, found, task, ahead, sessionVars, stopped, faults, abandoned,
                  disowned, unsettled>>

Points == {"none", "checking", "waiting", "opening", "roster", "fetching", "live", "ended"}
Placed    == {"opening", "roster", "fetching", "live"}
InSession(c) == task[c] \in {"roster", "fetching", "live"}
Statuses  == {"unknown", "pending", "active", "error", "retired"}

Waiting   == {c \in Competitions : task[c] = "waiting"}

RoundsOf(c) == {r \in PageRounds : CompetitionOf[r] = c}
Failure     == [kind |-> "failure"]
\* The provider has this socket and it is not broken.
Serving(c)  == InSession(c) /\ Failure \notin {inbox[c][i] : i \in 1..Len(inbox[c])}

CollectorsTypeOK ==
  /\ status \in [Competitions -> Statuses]
  /\ active \in [Competitions -> BOOLEAN] /\ ready \in [Competitions -> BOOLEAN]
  /\ connected \in [Competitions -> BOOLEAN]
  /\ \A c \in Competitions : status[c] = "unknown" => ~active[c] /\ ~ready[c]
  /\ targets \subseteq {r \in PageRounds : ready[CompetitionOf[r]]}
  /\ pc \in {"discover", "reconcile"} /\ found \subseteq {c \in Competitions : ready[c]}
  /\ task \in [Competitions -> Points]
  /\ Cardinality({c \in Competitions : task[c] \in Placed}) <= MaxConnections
  /\ \A c \in Competitions : ahead[c] \subseteq IF c \in Waiting THEN Waiting \ {c} ELSE {}
  /\ \A c, d \in Waiting : c # d => (c \in ahead[d] <=> d \notin ahead[c])
  /\ \A c \in Competitions :
       /\ todo[c] \cup fetched[c] \subseteq RoundsOf(c) /\ todo[c] \cap fetched[c] = {}
       /\ asked[c] # NoRound <=> task[c] = "fetching"
       /\ ~InSession(c) => inbox[c] = <<>>
  /\ stopped \in BOOLEAN /\ faults \in 0..MaxFaults
  /\ abandoned \cup disowned \cup unsettled \subseteq Competitions

All(v) == [c \in Competitions |-> v]

CollectorsInit ==
  /\ status = All("unknown")
  /\ active = All(FALSE) /\ ready = All(FALSE) /\ connected = All(FALSE) /\ targets = {}
  /\ pc = "discover" /\ found = {} /\ task = All("none") /\ ahead = All({})
  /\ users = All({}) /\ todo = All({}) /\ asked = All(NoRound) /\ fetched = All({})
  /\ inbox = All(<<>>)
  /\ stopped = FALSE /\ faults = 0
  /\ abandoned = {} /\ disowned = {} /\ unsettled = {}

Fault == faults < MaxFaults /\ faults' = faults + 1

\* The sessions of the competitions in C are over, whatever they had in hand.
EndSessions(C) ==
  /\ users'   = [c \in Competitions |-> IF c \in C THEN {} ELSE users[c]]
  /\ todo'    = [c \in Competitions |-> IF c \in C THEN {} ELSE todo[c]]
  /\ asked'   = [c \in Competitions |-> IF c \in C THEN NoRound ELSE asked[c]]
  /\ fetched' = [c \in Competitions |-> IF c \in C THEN {} ELSE fetched[c]]
  /\ inbox'   = [c \in Competitions |-> IF c \in C THEN <<>> ELSE inbox[c]]
  /\ disowned' = disowned \ C

Mark(flags, C, value) == [c \in Competitions |-> IF c \in C THEN value ELSE flags[c]]

-----------------------------------------------------------------------------
(* run_forever: discover, then reconcile the tasks with what was found.       *)

\* Mutant of Collectable: a competition without a live page is given up.
CollectableNow(o, nowActive, nowReady) ==
  {c \in Competitions : o[c] = "ready" /\ nowActive[c] /\ nowReady[c]}

\* "Discovery is advisory": a known live target goes on through a failure.
Collectable(o, nowActive, nowReady) == {c \in Competitions : nowActive[c] /\ nowReady[c]}

\* Listed with a live page; its row becomes active, whether there is time left or not.
HasPage(o, c) == o[c] \in {"ready", "expired"}

\* Active rows that are not listed or whose time has passed.
Retirable(o) == {c \in Competitions : o[c] = "expired" \/ (o[c] = "unlisted" /\ active[c])}

\* The rows after the first part of a discovery that found o and `page`, the rounds of the
\* live pages: it has come to the competitions in `entered`, has saved the rounds in
\* `saved`, has retired those in `retired` and closed the rounds of those in `closed`.
Stored(o, page, entered, saved, retired, closed) ==
  LET opened(c) == c \in entered /\ HasPage(o, c)
      added(c)  == c \in entered /\ o[c] = "unready" /\ status[c] = "unknown"
  IN /\ active' = [c \in Competitions |-> (active[c] \/ opened(c) \/ added(c)) /\ c \notin retired]
     /\ ready' = [c \in Competitions |-> ready[c] \/ opened(c)]
     /\ status' = [c \in Competitions |->
          IF c \in retired THEN "retired"
          ELSE IF opened(c) /\ o[c] = "ready" THEN "active"
          ELSE IF opened(c) \/ added(c) THEN "pending" ELSE status[c]]
     /\ connected' = Mark(connected, retired, FALSE)
     /\ abandoned' = abandoned \ retired
     /\ targets' = {r \in PageRounds :
          /\ CompetitionOf[r] \notin closed
          /\ IF opened(CompetitionOf[r]) /\ r \in saved THEN r \in page ELSE r \in targets}

\* The rounds a discovery has written as the page shows them.
Opened(o, page, entered, saved) ==
  {r \in page \cap saved : CompetitionOf[r] \in entered /\ HasPage(o, CompetitionOf[r])}

PersistDiscovery(o, page) ==
  /\ Stored(o, page, Competitions, PageRounds, Retirable(o), Retirable(o))
  /\ found' = Collectable(o, active', ready')

\* No task to start, to forget or to cancel.
Reconciled(F) == \A c \in Competitions :
  IF c \in F THEN task[c] \notin {"none", "ended"} ELSE task[c] = "none"

\* A reconciliation with nothing to do is passed over.
Discover(o, page) ==
  /\ pc = "discover" /\ ~stopped
  /\ o \in Outcomes
  /\ IF \A c \in Competitions : o[c] = "ready" THEN UNCHANGED faults ELSE Fault
  /\ PersistDiscovery(o, page)
  /\ pc' = IF Reconciled(found') THEN "discover" ELSE "reconcile"
  /\ unsettled' = {}
  /\ UNCHANGED <<task, ahead, sessionVars, stopped, disowned>>

\* The order of the statements.  Competitions are entered one by one, in any order, each with
\* its row, the rounds of its page and then the rounds that are on it no more; after all
\* of them the others are retired one by one, each with its row and then its rounds.
InOrder(o, page, entered, saved, retired, closed) ==
  LET finished == {c \in entered : HasPage(o, c) => RoundsOf(c) \subseteq saved} IN
  /\ Cardinality(entered \ finished) <= 1
  /\ \A r \in saved \ page : page \cap RoundsOf(CompetitionOf[r]) \subseteq saved
  /\ retired # {} => finished = Competitions
  /\ Cardinality(retired \ closed) <= 1

Live(c) == active[c] /\ ready[c]

\* The rows are written by many statements and no transaction spans them.  An error in any of
\* them, or in the count of targets after them, leaves what was written and is logged;
\* nothing is reconciled, and the tasks go on as they are until the next discovery.  An
\* error before the first of them changes nothing.
DiscoveryBreaksOff(o, page, entered, saved, retired, closed) ==
  /\ pc = "discover" /\ ~stopped
  /\ Fault
  /\ o \in Outcomes
  /\ entered \subseteq Competitions /\ saved \subseteq PageRounds
  /\ retired \subseteq Retirable(o) /\ closed \subseteq retired
  /\ InOrder(o, page, entered, saved, retired, closed)
  /\ Stored(o, page, entered, saved, retired, closed)
  /\ disowned' = disowned \cup {c \in retired : InSession(c)}
  /\ unsettled' = unsettled \cup {c \in Competitions : Live(c) # Live(c)'}
  /\ UNCHANGED <<pc, found, task, ahead, sessionVars, stopped>>

\* The tasks of C wait no longer, if they did.
LeaveQueue(C) == ahead' = [c \in Competitions |-> IF c \in C THEN {} ELSE ahead[c] \ C]

\* Mutant of ReconcileCollectors: a task that has ended is not started again.
ReconcileCollectorsOnce ==
  /\ pc = "reconcile"
  /\ LET gone == {c \in Competitions \ found : task[c] # "none"} IN
       /\ task' = [c \in Competitions |->
            IF c \in gone THEN "none"
            ELSE IF c \in found /\ task[c] = "none" THEN "checking" ELSE task[c]]
       /\ LeaveQueue(gone)
       /\ connected' = Mark(connected, {c \in gone : InSession(c)}, FALSE)
       /\ abandoned' = abandoned \ {c \in gone : InSession(c)}
       /\ EndSessions(gone)
  /\ pc' = "discover"
  /\ UNCHANGED <<status, active, ready, targets, found, stopped, faults, unsettled>>

\* Tasks of competitions no longer found are cancelled, those that have ended are
\* forgotten, and every competition found without a task gets one.
ReconcileCollectors ==
  /\ pc = "reconcile"
  /\ LET gone == {c \in Competitions \ found : task[c] # "none"} IN
       /\ task' = [c \in Competitions |->
            IF c \in gone THEN "none"
            ELSE IF c \in found /\ task[c] \in {"none", "ended"} THEN "checking" ELSE task[c]]
       /\ LeaveQueue(gone)
       /\ connected' = Mark(connected, {c \in gone : InSession(c)}, FALSE)
       /\ abandoned' = abandoned \ {c \in gone : InSession(c)}
       /\ EndSessions(gone)
  /\ pc' = "discover"
  /\ UNCHANGED <<status, active, ready, targets, found, stopped, faults, unsettled>>

-----------------------------------------------------------------------------
(* _collector_loop.                                                           *)

SupervisorUnchanged == UNCHANGED <<pc, found, stopped, unsettled>>
StoredUnchanged == UNCHANGED <<status, active, ready, targets>>

\* Mutant of Free: one task more than there are places.
FreeOrLast == Cardinality({c \in Competitions : task[c] \in Placed}) <= MaxConnections

\* A place of the semaphore; it goes to the first waiter.
Free == Cardinality({c \in Competitions : task[c] \in Placed}) < MaxConnections

Check(c) ==
  /\ task[c] = "checking"
  /\ IF active[c] /\ ready[c]
       THEN /\ task' = [task EXCEPT ![c] = "waiting"]
            /\ ahead' = [ahead EXCEPT ![c] = Waiting]
       ELSE /\ task' = [task EXCEPT ![c] = "ended"]
            /\ UNCHANGED ahead
  /\ UNCHANGED <<targetVars, sessionVars, faults, abandoned, disowned>> /\ SupervisorUnchanged

TakePlace(c) ==
  /\ task[c] = "waiting" /\ ahead[c] = {} /\ Free
  /\ LeaveQueue({c})
  /\ task' = [task EXCEPT ![c] = IF active[c] /\ ready[c] THEN "opening" ELSE "ended"]
  /\ UNCHANGED <<targetVars, sessionVars, faults, abandoned, disowned>> /\ SupervisorUnchanged

UsersMessage(names) == [kind |-> "users", users |-> names]

\* Connecting, marking it and selecting the competition; the provider answers with its
\* roster.
Connect(c, roster) ==
  /\ task[c] = "opening"
  /\ task' = [task EXCEPT ![c] = "roster"]
  /\ connected' = [connected EXCEPT ![c] = TRUE]
  /\ status' = [status EXCEPT ![c] = "active"]
  /\ abandoned' = abandoned \ {c}
  /\ inbox' = [inbox EXCEPT ![c] = <<UsersMessage(roster)>>]
  /\ UNCHANGED <<active, ready, targets, ahead, users, todo, asked, fetched, faults, disowned>>
  /\ SupervisorUnchanged

\* Any exception of a session: it gives its place back and, after a while, tries again.
SessionFails(c) ==
  /\ task' = [task EXCEPT ![c] = "checking"]
  /\ connected' = [connected EXCEPT ![c] = FALSE]
  /\ status' = [status EXCEPT ![c] = "error"]
  /\ abandoned' = abandoned \ {c}
  /\ EndSessions({c})
  /\ UNCHANGED <<active, ready, targets, ahead>> /\ SupervisorUnchanged

ConnectFails(c) == task[c] = "opening" /\ Fault /\ SessionFails(c)

\* No roster within 30 seconds, no answer within 45.
AnswerTimesOut(c) == task[c] \in {"roster", "fetching"} /\ Fault /\ SessionFails(c)

\* The state of a competition cannot be read, or a failure cannot be written down: the
\* task ends with an exception, and what it last said of its connection may stay.
TaskDies(c) ==
  /\ task[c] \in Placed \cup {"checking"}
  /\ Fault
  /\ task' = [task EXCEPT ![c] = "ended"]
  /\ \E flag \in {connected[c], FALSE} :
       /\ connected' = [connected EXCEPT ![c] = flag]
       /\ abandoned' = IF flag THEN abandoned \cup {c} ELSE abandoned \ {c}
  /\ EndSessions({c})
  /\ UNCHANGED ahead /\ StoredUnchanged /\ SupervisorUnchanged

-----------------------------------------------------------------------------
(* _connected_session, up to what a message does to the results.              *)

\* The message is taken; nothing else of the session changes.
Take(c) == inbox' = [inbox EXCEPT ![c] = Tail(@)]

\* The code's order: by event, number and id of the round.
FirstOf(R) == CHOOSE r \in R : TRUE

\* Ask for the next round of R, if there is one; answers[r] is what the provider answers.
\* On a broken socket nobody answers, and the failure is in the inbox already.
AskFor(c, R, inboxNow, answers) ==
  IF R = {}
    THEN /\ task' = [task EXCEPT ![c] = "live"]
         /\ asked' = [asked EXCEPT ![c] = NoRound]
         /\ todo' = [todo EXCEPT ![c] = {}]
         /\ inbox' = [inbox EXCEPT ![c] = inboxNow]
         /\ UNCHANGED fetched
    ELSE LET r == FirstOf(R) IN
         /\ task' = [task EXCEPT ![c] = "fetching"]
         /\ asked' = [asked EXCEPT ![c] = r]
         /\ todo' = [todo EXCEPT ![c] = R \ {r}]
         /\ fetched' = [fetched EXCEPT ![c] = @ \cup {r}]
         /\ inbox' = [inbox EXCEPT ![c] = IF Serving(c) THEN Append(inboxNow, answers[r])
                                         ELSE inboxNow]

\* The roster is there (an empty one, which would leave the session waiting, is none a
\* provider of results has): ask for the rounds, then for the first round known here.
TakeRoster(c, rounds, answers) ==
  LET m == Head(inbox[c])
      rest == Tail(inbox[c]) IN
  /\ task[c] = "roster" /\ inbox[c] # <<>> /\ m.kind = "users"
  /\ users' = [users EXCEPT ![c] = m.users]
  /\ AskFor(c, targets \cap RoundsOf(c), IF Serving(c) THEN Append(rest, rounds) ELSE rest, answers)
  /\ UNCHANGED <<targetVars, ahead, faults, abandoned, disowned>> /\ SupervisorUnchanged

\* Any result.all ends the wait for the round asked for.
TakeAnswer(c, answers) ==
  /\ task[c] = "fetching"
  /\ AskFor(c, todo[c], Tail(inbox[c]), answers)
  /\ UNCHANGED <<targetVars, ahead, users, faults, abandoned, disowned>> /\ SupervisorUnchanged

TakeMessage(c) ==
  /\ Take(c)
  /\ users' = [users EXCEPT ![c] = IF Head(inbox[c]).kind = "users" THEN Head(inbox[c]).users ELSE @]
  /\ UNCHANGED <<targetVars, task, ahead, todo, asked, fetched, faults, abandoned, disowned>>
  /\ SupervisorUnchanged

\* The reader's failure has come up in the queue.
TakeFailure(c) ==
  /\ InSession(c) /\ inbox[c] # <<>> /\ Head(inbox[c]) = Failure
  /\ SessionFails(c)
  /\ UNCHANGED faults

-----------------------------------------------------------------------------
(* From outside.                                                              *)

\* Messages that arrived before the connection broke are still read.
Break(c, kept) ==
  /\ Serving(c)
  /\ Fault
  /\ kept \in 0..Len(inbox[c])
  /\ inbox' = [inbox EXCEPT ![c] = Append(SubSeq(@, 1, kept), Failure)]
  /\ UNCHANGED <<targetVars, task, ahead, users, todo, asked, fetched, abandoned, disowned>>
  /\ SupervisorUnchanged

EndWorker(flags) ==
  /\ pc' = "discover" /\ found' = {} /\ task' = All("none") /\ ahead' = All({})
  /\ EndSessions(Competitions)
  /\ connected' = flags
  /\ abandoned' = {c \in Competitions : flags[c]} /\ unsettled' = {}
  /\ StoredUnchanged

\* The command ends the worker; every task is cancelled and marked.
Stop ==
  /\ ~stopped
  /\ EndWorker(All(FALSE))
  /\ stopped' = TRUE
  /\ UNCHANGED faults

\* The process dies and is started again, or an exception escapes run_forever.
Crash ==
  /\ ~stopped
  /\ Fault
  /\ \E flags \in {connected, All(FALSE)} : EndWorker(flags)
  /\ UNCHANGED stopped

=============================================================================
