--------------------------- MODULE CubingChinaFeed ---------------------------
(***************************************************************************)
(* CubingChina end to end: a provider that enters, corrects and removes    *)
(* results, and the collectors that mirror its rounds.                     *)
(*                                                                         *)
(* The provider is external.  To every socket that has selected the        *)
(* competition it sends new and changed results one by one, changes of the *)
(* roster and of a round, and now and then a whole round nobody asked for. *)
(* Nothing tells of a result that was removed.                             *)
(***************************************************************************)
EXTENDS CubingChinaIngestion, Collectors

CONSTANTS
  Entries,      \* Entries[x]: rows that may be entered for x
  Start,        \* what the provider may show when the worker starts
  Formats,      \* finalization rules a round may have
  Floating,     \* rounds that may appear on the live page and vanish from it
  MaxChanges,   \* bound on changes at the provider
  MaxEvents     \* bound on changes and failures together

ASSUME PageRoundsAssumption == PageRounds = Rounds
ASSUME StartAssumption ==
  Start \subseteq [shown : [Results -> Rows \cup {None}], roster : SUBSET Results \ {{}},
                   offered : SUBSET Rounds, format : [Rounds -> Formats]]
ASSUME FormatsAssumption == None \notin Formats
ASSUME EntriesAssumption == \A x \in Results : Entries[x] \subseteq Rows
ASSUME FloatingAssumption == Floating \subseteq Rounds
ASSUME ChangeBoundAssumption == MaxChanges \in Nat /\ MaxEvents \in Nat

VARIABLES
  shown,       \* shown[x]: the row the provider shows, None if it has none
  roster,      \* results whose competitor the provider has registered
  offered,     \* rounds on the live pages
  format,      \* format[r]: the rule of the round at the provider
  changes,
  \* History, read by no action:
  untold,      \* results whose change no message has told or will tell
  misread,     \* results whose last message differs but was taken for a duplicate, or for
               \* that of another round
  reruled      \* rounds whose rule changed after a row was stored

providerVars == <<shown, roster, offered, format, changes>>
historyVars  == <<untold, misread, reruled>>
vars == <<ingestionVars, collectorVars, providerVars, historyVars>>

Events == changes + faults

\* What the diff table should hold of a result.
Expected(x) == IF shown[x] = None THEN None ELSE NormalizeResult(x, shown[x], roster)

TypeOK ==
  /\ CollectorsTypeOK
  /\ rule \in [Rounds -> Formats \cup {None}]
  /\ \A r \in Rounds : r \in targets => rule[r] # None
  /\ \A x \in Results :
       /\ table[x] # None => /\ table[x].row \in Rows
                             /\ table[x].named \in BOOLEAN /\ table[x].active \in BOOLEAN
                             /\ rule[RoundOf[x]] # None
       /\ evidence[x] \in [Kinds -> Evidence \cup {None}]
       /\ \A k \in Kinds : DOMAIN records[x][k] = Levels
       /\ shown[x] \in Rows \cup {None}

Init ==
  /\ IngestionInit /\ CollectorsInit
  /\ rule = [r \in Rounds |-> None]
  /\ \E s \in Start :
       shown = s.shown /\ roster = s.roster /\ offered = s.offered /\ format = s.format
  /\ changes = 0
  /\ untold = {} /\ misread = {} /\ reruled = {}

-----------------------------------------------------------------------------
(* The provider.                                                              *)

UpdateMessage(x, row)  == [kind |-> "update", result |-> x, row |-> row]
\* The round is there for the history only: no message names it.
SnapshotMessage(r, rows) == [kind |-> "snapshot", rows |-> rows, round |-> r]
RoundsMessage(rules)   == [kind |-> "rounds", rules |-> rules]

Shown(r) == [x \in {y \in ResultsOf(r) : shown[y] # None} |-> shown[x]]
Answers  == [r \in Rounds |-> SnapshotMessage(r, Shown(r))]
AllRounds(c) == RoundsMessage([r \in offered \cap RoundsOf(c) |-> format[r]])

Push(c, m) == inbox' = [inbox EXCEPT ![c] = IF Serving(c) THEN Append(@, m) ELSE @]

ProviderActs ==
  /\ ~stopped /\ changes < MaxChanges /\ Events < MaxEvents
  /\ changes' = changes + 1
  /\ UNCHANGED <<ingestionVars, targetVars, pc, found, task, ahead, users, todo, asked,
                 fetched, stopped, faults, abandoned, disowned, unsettled, misread, reruled>>

EnterResult(x, row) ==
  /\ row # shown[x]
  /\ ProviderActs
  /\ shown' = [shown EXCEPT ![x] = row]
  /\ Push(CompetitionOf[RoundOf[x]], UpdateMessage(x, row))
  /\ untold' = untold \ {x}
  /\ UNCHANGED <<roster, offered, format>>

RemoveResult(x) ==
  /\ shown[x] # None
  /\ ProviderActs
  /\ shown' = [shown EXCEPT ![x] = None]
  /\ untold' = untold \cup {x}
  /\ UNCHANGED <<inbox, roster, offered, format>>

\* The competitor of x appears in the roster; rows sent before are not sent again.
Register(x) ==
  /\ x \notin roster
  /\ ProviderActs
  /\ roster' = roster \cup {x}
  /\ Push(CompetitionOf[RoundOf[x]], UsersMessage(roster'))
  /\ untold' = IF shown[x] = None THEN untold ELSE untold \cup {x}
  /\ UNCHANGED <<shown, offered, format>>

\* A whole round nobody asked for.
Resend(r) ==
  /\ Serving(CompetitionOf[r])
  /\ ProviderActs
  /\ Push(CompetitionOf[r], Answers[r])
  /\ untold' = untold \ ResultsOf(r)
  /\ UNCHANGED <<shown, roster, offered, format>>

ChangeFormat(r, rl) ==
  /\ rl # format[r]
  /\ ProviderActs
  /\ format' = [format EXCEPT ![r] = rl]
  /\ Push(CompetitionOf[r], RoundsMessage([s \in {r} |-> rl]))
  /\ UNCHANGED <<shown, roster, offered, untold>>

ChangePage(r) ==
  /\ ProviderActs
  /\ offered' = IF r \in offered THEN offered \ {r} ELSE offered \cup {r}
  /\ UNCHANGED <<inbox, shown, roster, format, untold>>

ProviderChange ==
  \/ \E x \in Results : RemoveResult(x) \/ Register(x) \/ \E row \in Entries[x] : EnterResult(x, row)
  \/ \E r \in Rounds : Resend(r) \/ \E rl \in Formats : ChangeFormat(r, rl)
  \/ \E r \in Floating : ChangePage(r)

-----------------------------------------------------------------------------
(* The supervisor.                                                            *)

\* The rules of R become those given; rows stored before are not looked at again.
SetRules(R, rules) ==
  /\ rule' = [r \in Rounds |-> IF r \in R THEN rules[r] ELSE rule[r]]
  /\ reruled' = reruled \cup {r \in R : rules[r] # rule[r] /\ ~IsInitial(r)}
  /\ UNCHANGED <<seen, table, evidence, records>>

DiscoverCompetitions(o) ==
  /\ o # [c \in Competitions |-> "ready"] => Events < MaxEvents
  /\ Discover(o, offered)
  /\ SetRules(Opened(o, offered, Competitions, PageRounds), format)
  /\ UNCHANGED <<providerVars, untold, misread>>

\* The rounds written before a discovery broke off have the rules of the page.
DiscoveryFails(o) ==
  /\ Events < MaxEvents
  /\ \E entered \in SUBSET Competitions, retired \in SUBSET Retirable(o) :
     \E saved \in SUBSET UNION {RoundsOf(c) : c \in {d \in entered : HasPage(o, d)}},
        closed \in SUBSET retired :
       /\ DiscoveryBreaksOff(o, offered, entered, saved, retired, closed)
       /\ SetRules(Opened(o, offered, entered, saved), format)
  /\ UNCHANGED <<providerVars, untold, misread>>

-----------------------------------------------------------------------------
(* A session and its messages.                                                *)

\* Of the results in X a message has said what `current` holds.
Told(X, current, duplicate) ==
  misread' = (misread \ X) \cup
    {x \in X : duplicate /\ Previous(x) # (IF x \in DOMAIN current THEN current[x] ELSE None)}

\* A round that is asked for is told whole.
Asking == untold' = {x \in untold : RoundOf[x] \notin fetched'[CompetitionOf[RoundOf[x]]]
                                    \/ RoundOf[x] \in fetched[CompetitionOf[RoundOf[x]]]}

ApplySnapshot(c, r, m) ==
  /\ ProcessRoundSnapshot(r, m.rows, users[c])
  /\ IF r = m.round
       THEN Told(ResultsOf(r), NormalizeSnapshot(m.rows, users[c]),
                 SnapshotPayload(r, m.rows, users[c]) \in seen)
       ELSE misread' = misread \cup ResultsOf(r) \cup ResultsOf(m.round)
  /\ UNCHANGED <<rule, reruled>>

ApplyUpdate(c, x, row) ==
  /\ ProcessResultUpdate(x, row, users[c])
  /\ Told({x}, [y \in {x} |-> NormalizeResult(x, row, users[c])], UpdatePayload(x, row) \in seen)
  /\ UNCHANGED <<rule, reruled>>

ResultsUnchanged == UNCHANGED <<ingestionVars, misread, reruled>>

\* process_round_event, for the rounds that have a row.
ApplyRules(rules) ==
  /\ SetRules({r \in DOMAIN rules : rule[r] # None}, rules)
  /\ UNCHANGED misread

\* A message the session cannot make sense of ends it.
Reject(c) == SessionFails(c) /\ ResultsUnchanged /\ UNCHANGED <<faults, untold>>

Receives(c, kinds) ==
  /\ InSession(c) /\ inbox[c] # <<>>
  /\ Head(inbox[c]).kind \in kinds

FirstUsers(c) ==
  /\ TakeRoster(c, AllRounds(c), Answers) /\ Asking /\ ResultsUnchanged

RoundFetched(c) ==
  /\ task[c] = "fetching" /\ Receives(c, {"snapshot"})
  /\ LET m == Head(inbox[c]) IN
       IF BelongTo(m.rows, asked[c])
         THEN TakeAnswer(c, Answers) /\ ApplySnapshot(c, asked[c], m) /\ Asking
         ELSE Reject(c)

\* _handle_message: what a session does with anything else.
HandleUsers(c) ==
  /\ task[c] # "roster" /\ Receives(c, {"users"})
  /\ TakeMessage(c) /\ ResultsUnchanged /\ UNCHANGED untold

HandleResult(c) ==
  /\ Receives(c, {"update"})
  /\ LET m == Head(inbox[c]) IN
       IF RoundOf[m.result] \in targets
         THEN TakeMessage(c) /\ ApplyUpdate(c, m.result, m.row) /\ UNCHANGED untold
         ELSE Reject(c)

HandleRounds(c) ==
  /\ Receives(c, {"rounds"})
  /\ TakeMessage(c) /\ ApplyRules(Head(inbox[c]).rules) /\ UNCHANGED untold

\* The round of a snapshot nobody asked for is that of its first row.
HandleSnapshot(c) ==
  /\ task[c] # "fetching" /\ Receives(c, {"snapshot"})
  /\ LET m == Head(inbox[c]) IN
       IF DOMAIN m.rows = {}
         THEN /\ TakeMessage(c) /\ misread' = misread \cup ResultsOf(m.round)
              /\ UNCHANGED <<ingestionVars, reruled, untold>>
         ELSE LET r == RoundOf[CHOOSE x \in DOMAIN m.rows : TRUE] IN
              IF r \in targets THEN TakeMessage(c) /\ ApplySnapshot(c, r, m) /\ UNCHANGED untold
              ELSE Reject(c)

\* The handling of a message fails, and the session ends with it.  A result or a whole round
\* is one transaction; rounds are updated one by one, and those before the failure stay.
HandlingFails(c) ==
  /\ Events < MaxEvents
  /\ Receives(c, {"users", "update", "rounds", "snapshot"})
  /\ Fault /\ SessionFails(c)
  /\ \/ ResultsUnchanged
     \/ /\ Head(inbox[c]).kind = "rounds"
        /\ \E R \in SUBSET DOMAIN Head(inbox[c]).rules :
             ApplyRules([r \in R |-> Head(inbox[c]).rules[r]])
  /\ UNCHANGED <<providerVars, untold>>

SessionStep(c) ==
  /\ \/ FirstUsers(c) \/ RoundFetched(c)
     \/ HandleUsers(c) \/ HandleResult(c) \/ HandleRounds(c) \/ HandleSnapshot(c)
  /\ UNCHANGED providerVars

TaskStep(c) ==
  /\ Check(c) \/ TakePlace(c) \/ Connect(c, roster) \/ TakeFailure(c)
  /\ ResultsUnchanged /\ UNCHANGED <<providerVars, untold>>

Reconcile ==
  /\ ReconcileCollectors
  /\ ResultsUnchanged /\ UNCHANGED <<providerVars, untold>>

FaultStep ==
  /\ Events < MaxEvents
  /\ \/ \E c \in Competitions :
          \/ ConnectFails(c) \/ AnswerTimesOut(c) \/ TaskDies(c)
          \/ \E kept \in 0..Len(inbox[c]) : Break(c, kept)
     \/ Crash
  /\ ResultsUnchanged /\ UNCHANGED <<providerVars, untold>>

StopWorker == Stop /\ ResultsUnchanged /\ UNCHANGED <<providerVars, untold>>

Next ==
  \/ ProviderChange
  \/ \E o \in Outcomes : DiscoverCompetitions(o) \/ DiscoveryFails(o)
  \/ Reconcile
  \/ \E c \in Competitions : TaskStep(c) \/ SessionStep(c) \/ HandlingFails(c)
  \/ FaultStep
  \/ StopWorker

Spec == Init /\ [][Next]_vars

\* The event loop runs every task, and a discovery finds all live pages unless it fails.
FairSpec ==
  /\ Spec
  /\ WF_vars(DiscoverCompetitions([c \in Competitions |-> "ready"]))
  /\ WF_vars(Reconcile)
  /\ \A c \in Competitions : WF_vars(TaskStep(c) \/ SessionStep(c))

-----------------------------------------------------------------------------
(* Properties.                                                                *)

\* A live session that has handled its messages mirrors the rounds it fetched, whatever
\* connections were lost before, but for changes no message tells and for messages that
\* were taken for duplicates or for the answer of another round.
MirrorIsCurrent ==
  \A c \in Competitions : task[c] = "live" /\ inbox[c] = <<>> =>
    \A x \in Results : RoundOf[x] \in fetched[c] \cap targets =>
      Previous(x) = Expected(x) \/ x \in untold \/ x \in misread

\* Evidence and records are what the rows of the diff table stand for, but in rounds
\* whose rule changed.
ClaimsFollowMirror ==
  \A x \in Results :
    LET now == Previous(x) IN
    /\ evidence[x] = ObservationsOf(now, rule[RoundOf[x]]) \/ RoundOf[x] \in reruled
    /\ records[x] = IF now = None THEN [k \in Kinds |-> NoRecord]
                    ELSE SynchronizeRecords([k \in Kinds |-> NoRecord], now)

\* The stored targets tell which sockets are open, unless a task or the worker died or a
\* discovery broke off after it had retired a competition in session; and between two
\* discoveries every live competition has a task and no other one has, but for those a
\* broken-off discovery made live or ended since the last complete one.
TargetsTellTheCollectors ==
  /\ \A c \in Competitions : connected[c] => InSession(c) \/ c \in abandoned
  /\ pc = "discover" => \A c \in Competitions :
       /\ InSession(c) => connected[c] \/ c \in disowned
       /\ c \notin unsettled => /\ (task[c] # "none" => Live(c))
                              /\ (found # {} /\ Live(c) => task[c] # "none")

\* After the last failure and the last change every competition has a live session that
\* has handled its messages or waits, and none waits while there is a place.
PlacesAreUsed ==
  LET settled == {c \in Competitions : task[c] = "live" /\ inbox[c] = <<>>} IN
  <>[](stopped \/ /\ \A c \in Competitions \ settled : task[c] = "waiting"
                  /\ settled # Competitions => Cardinality(settled) = MaxConnections)
=============================================================================
