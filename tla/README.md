# A TLA+ verification project for CubingNow

CubingNow watches speedcubing competitions live. Providers (WCA Live, CubingChina) report
results; the backend keeps every report as evidence, derives one canonical result per person,
round and kind, classifies every revision of it against the record tables, and pushes new
records to subscribed browsers. The backend is a Django application in several processes that
share one PostgreSQL database (READ COMMITTED): the API, an API poller, a WCA Live
subscription worker, a CubingChina worker, a classification worker, a notification worker,
a weekly export refresh and a periodic attendance sync. They coordinate through rows only, so
the hard questions are about transactions of different processes in unexpected orders, leases
that run out, and work that is done twice.

This directory holds TLA+ modules for the parts that carry the program's logic, TLC configurations that
check them on small instances, and TLAPS proofs of the properties that matter most for all
values of the constants. `PROJECT.json` lists components, runs, mutants, theorems, findings,
hazards, and the source lines each definition translates.

## Inventory

| Component | State it keeps | Operations | Interacts with | What is hard | What makes it correct |
|---|---|---|---|---|---|
| Notification outbox (`apps/notifications/services.py`) | `NotificationEvent`, `NotificationDelivery`, `NotificationEndpoint` | publish, claim, send, record the answer, retry, release, enable/disable | classifier calls the publisher; workers claim; guests change endpoints | claim timeouts against late answers, stop in a batch, endpoints that die | settled once; repeats only after a takeover; attempts bounded; no alert from before activation |
| Publication (`services.py`, `payloads.py`) | events by deduplication key | create or correct an event after classification | called by the classifier after its commit | lost events, second alerts | one alert per record |
| Subscriptions (`views.py`, `policies.py`) | endpoints, tokens, preferences | register, update, rotate token, unsubscribe | read by the publisher | token rotation committed on a refused request | a guest can always manage what is active |
| Classification queue (`classification_work.py`) | `ClassificationWork` rows | enqueue, claim, lease, settle, fail | filled by reconciliation; calls the classifier | overrun leases, crashes between transactions, poison revisions | handled in order, settled for good, everything settles |
| Classifier (`classification.py`) | `ProcessedResult`, `ProcessedResultRecordLevel`, live record tables | incremental pass, repair, historical projection, rebuild | reads heads; locks live cells; publishes | unlocked reads, retries, corrections that move a result | live cells and outcomes equal a rebuild's |
| Reconciliation (`reconciliation.py`, `domain.py`) | `ResultObservation`, `CanonicalResult`, `CanonicalResultRevision` | reconcile, retract, snapshot and enqueue | called by ingestion and validation | two sources, unlocked validation | the head follows the most trusted evidence; one revision per change |
| Official record validation (`integrations/wca/record_validation.py`) | stored benchmarks, validation status of canonical results | store snapshot, validate a batch | writes canonical results, enqueues revisions | reads without a lock | no judgement about values that are gone |
| Finalization gate (`finalization.py`) | none (pure) | decide whether a row is final | used by ingestion | formats, cut-offs, DNF | final only when no later attempt can change it |
| Snapshot ingestion (`subscription_ingestion.py`, `ingestion.py`, `live_ingestion.py`) | `SourceObservation`, diff tables | process a round snapshot, a single update, removals | calls reconciliation | duplicates, reordered and repeated snapshots | the diff table mirrors the last snapshot |
| Subscription client and supervisor | sockets, pending replies, subscription ids | subscribe, unsubscribe, reconnect | feeds ingestion | frames before replies, silent sockets | every target is eventually subscribed |
| CubingChina collectors (`live_supervisor.py`) | collector tasks, targets | discover, start, stop, poll | feeds ingestion | semaphore, messages of other rounds | every open target is collected |
| Baseline refresh (`baseline_export.py`) | staged and active export, absorbed competitions | stage, activate, absorb, reseed live cells | rewrites what the classifier compares with | failure after activation, running workers | baseline and live cells agree |
| Attendance sync (`apps/competitors/weekend.py`) | competitors, attendances | collect, persist | none | partial sources | - |
| Maintenance commands, read API, parsers, frontend | - | - | - | - | - |

### How they interact

    provider payload -> SourceObservation -> diff table + finalization gate
      -> ResultObservation -> CanonicalResult (mutable head)
      -> CanonicalResultRevision (immutable) + ClassificationWork (queue)
      -> classifier -> live cells, ProcessedResult and its record levels
      -> NotificationEvent -> NotificationDelivery (outbox) -> push worker -> browser

Every arrow is at least one database transaction of its own; the two queues
(`ClassificationWork`, `NotificationDelivery`) make the arrows durable, and both may run the
same piece of work twice. The modules below follow these seams: a module for each queue, one for
what the classifier computes between them, and one for what fills the first.

## Modules

| Module | Models | Proofs |
|---|---|---|
| `Outbox` | abstract: what the outbox promises of each row | - |
| `DeliveryQueue` | publication of deliveries, endpoints, the notification workers | `DeliveryQueueProofs` |
| `LiveHead` | abstract: live records and events follow the head | - |
| `ClassificationQueue` | the durable queue and the transactions of `process_claimed_work` | `ClassificationQueueProofs` |
| `RecordTimeline` | live cells and outcomes: incremental pass, repair, historical | `RecordTimelineProofs` |
| `RecordPublication` | extends it with recognition in a round or a day, and with the choice and publication of alerts | `RecordPublicationProofs` |
| `Reconciliation` | evidence, canonical results, revisions, and the unlocked refresh of the official records | `ReconciliationProofs` |
| `BaselineRefresh` | the weekly export refresh beside the classification workers | `BaselineRefreshProofs` |
| `Finalization` | pure: when a round result is final | - |
| `WcaLiveIngestion` | what a WCA Live snapshot and a poll do to diff table, evidence, records | - |
| `SubscriptionSession` | the WCA Live supervisor, its client, the socket | - |
| `WcaLiveFeed` | composes the two with a provider | `WcaLiveFeedProofs` |
| `CubingChinaIngestion` | the same for CubingChina's rounds and single results | - |
| `Collectors` | CubingChina's supervisor, its tasks, their places and sockets | - |
| `CubingChinaFeed` | composes the two with a provider | `CubingChinaFeedProofs` |
| `MC...` | model values, symmetry and data for TLC | - |

In all of them one transaction, or one statement outside a transaction, is one action, and a
read without a lock that is acted on later is an action of its own. A run of statements is one action
only where nobody's statement can come between, because all database calls of the process that writes
these rows run one after another in one thread; such an action may stop after any of its statements,
and what it has written by then stays. Wall-clock time is a flag
that says that a deadline has passed. Definitions named `Mutant of ...` are the plausible bugs
each property is known to catch; nothing else uses them.

### DeliveryQueue and Outbox

- *State.* `status`, `attempts`, `claimedBy`, `timer` are the columns of a delivery row (the
  event and the endpoint are its key); `active` and `activatedAt` those of an endpoint.
  `timer[d]` stands for `next_attempt_at <= now` of a waiting row and for
  `claimed_at <= now - timeout` of a claimed one.
- *Publisher.* `CreateEvent`, `SelectRecipients`, `InsertDeliveries` are the three statements of
  `publish_record_notification`; guests act between them. Preferences only narrow the
  recipients, so `SelectRecipients` takes any subset of the eligible endpoints.
- *Guests.* `EnableEndpoint` stamps `activated_at`; stamp and commit are one instant in the model.
  A new registration is an endpoint that starts disabled. `DisableEndpoint` cancels waiting rows.
- *Workers.* `ClaimDueDeliveries` (skip-locked batch in any order), `TakeUp`
  (unlocked read), `CancelInactive`, `ProviderAnswers`, `RecordDeliveryResult`, `StopAndRelease`,
  `Crash`. `acks` counts accepted pushes: an answer lost on the way is a transient one, so
  the count is of answers seen. A database error, a deadlock abort included, throws the worker
  out of its batch and is a `Crash`. Worker identifiers are unique per process in the code; a
  crashed worker returns under its own name in the model, which allows more.
- *Refinement.* A waiting or claimed row is `owed`; `Outbox` lets an owed row be settled once,
  and sent only if the provider accepted it.

### ClassificationQueue and LiveHead

- *State.* `status`, `claimedBy`, `expired` are the columns of a work row, `head[r]` is
  `CanonicalResult.revision`, `live[r]` the revision the live cells account for,
  `projection[k]` the validity of a `ProcessedResult`, `events` the revisions announced.
- *Steps of a worker.* `ClaimNextWork`, `LoadWork`, `Materialize`, `ClassifyHistorical` or
  `ClassifyLive`, `Publish`, `Settle`, and between any two of them `Fail`
  (an exception) or `Crash`. `LeaseExpires` lets another worker in; if the first still runs it
  is an overrun.
- *Left out.* The attempt counter, error texts and the limit per poll: no decision in the
  code depends on them (a failed revision is retried for ever).
- *Refinement.* `LiveHead`: live records move only forward, to the head of that moment, and a
  revision is announced only while it is the head and in the live records.

### RecordTimeline

- *State.* `data[r]` holds the contents of the revisions of result `r`: value, time, whether
  `_revision_is_valid` accepts it (a retraction, a DNF or a rejected result is not), and
  the `cells` it competes in. A cell is one (record level, scope) of one event and kind:
  the world, a continent, a country or a person. `live[c]` is the live record, `outcome[k][c]`
  the `classification_outcome`.
- *Steps.* `Claim` reads work and head; `Materialize`; `ChooseWay` decides, without a lock, among
  historical, repair and incremental; the three ways; `RollBack` when the head has moved on;
  `Settle`; `Fail` at any point. The queue is reduced to claims in order and lost leases.
- *Why a transaction over several cells may be one action.* Each pass locks every cell before
  it reads it (`_record_value(lock=True)`) and holds the lock until it commits; outcomes and live
  value of a cell are written under that lock; and every property is about one cell at a time.
  `_assert_revision_is_current` locks the head before the commit, which is the guard.
- *Left out.* Recognition and publication, which `RecordPublication` adds. An export without a
  record for a cell is a baseline larger than any value.

### RecordPublication

- *State.* `recognition[k][c]` is the `recognition_status` of revision `k` in cell `c`. Per worker:
  `due` (the revision is classified, `publish_safely` has not begun), `rows` (the record levels it has
  selected and not yet tried), `reading` (the one it has read while it waits for the head's lock).
  `events` holds pairs of revision and cell, the deduplication key of an event.
- *Steps.* Every action is one of `RecordTimeline` together with what it does to recognition, or a
  step of the publication, which lies between the classifying transaction and the settling one:
  `SelectRows`, then for each level from the highest `ReadRow` and `PublishRow`. The row is read before
  the head is locked and not again afterwards; the first event ends the loop.
- *Failures.* `PublishFails` is the exception that is logged and swallowed; `BreakOff`
  is any other exception, a failed selection of the rows included, and a crash: the work is done again,
  unless the worker had lost its claim (`lost` in both cases).
- *Left out.* `currently_holds`, `is_shared_tie` and the reasons for which a record ceased (columns
  derived from the outcomes and read by no other step). `Vouched`, whether a trusted source or a
  validation vouches for a result, is fixed: verdicts that come later are `Reconciliation`'s and publish
  nothing. A time belongs to one round.

### Reconciliation

- *State.* `obs[o]` is the `ResultObservation` of one observation key, that is, of one ingestion
  method under one source identity `Origin[o]`; `name[r]`, `head[r]`, `latest[r]`, `revision[r]` are the
  identity key, the mutable fields, the last revision and its number of a `CanonicalResult`.
  `verdict` stands for the pair of validation status and reason; `backed` for
  `current_observation` not being null.
- *Rows* are named by the key they were created under, a natural key or, while competition, WCA ID
  or round are unknown, the source's own; `NameAfter` is the renaming. `context` is the natural
  key its context fields spell out.
- *Sources.* `ReconcileResultObservation` and `RetractResultObservation` are one transaction, hence
  one action, each: the identity scope and the canonical row are locked before anything is read that matters.
  `RefreshAndEnqueue` judges the row joined and the row left, with the official records stored by
  then, and `SnapshotAndEnqueue` writes the revisions.
- *Refresh.* `StoreSnapshot`, `ListRows`, and for each row `ReadHead` (the rows of a
  batch), `ValidateScope` (a second statement reads the evidence), `WriteVerdict` (bulk update,
  which locks, then snapshot). `AbandonRefresh` is an exception or a crash before the batch commits. A batch is one row
  here: every property is about one row, and rows are read before evidence in each batch. The easiest
  of the world, continental and national records decides whether any is met, so one
  `benchmark` stands for them; 0 is none.
- *History variables* (`moved`, `overtaken`, `fresh`, `rekeyed`) are read by no action. They say how far
  what the documents promise holds: `...UnlessOvertaken`, `...UnlessRekeyed`.
- *Left out.* Observation times, so that any of several equally trusted observations may be the
  newest; the other context fields; the race of two first reports without a natural key, the
  only ones no scope lock serialises; `RecordValidation` rows, which are an audit trail, and
  with them rows a listing includes only because of such a leftover; a second concurrent refresh.

### BaselineRefresh

- *State.* `data[r]` holds the revisions of a result, `settled[r]` how many of them are settled,
  `live` the one live record; `active`, `staging`, `next`, `history` are the schemas `wca_export`
  and `wca_export_next` and the tables `historical_results_next` and `historical_results`, each by
  the export it was made from; `metadata` is the active `BaselineMetadata`, `lock` the advisory lock.
- *A refresh.* `Download`, `TryLock` (a lock that is taken is an error), `CreateStaging`,
  `CopyTables`; the activating transaction as `SeedLiveRecords`, one `ReplayHead` per head and
  `CommitActivation`; then `PopulateSingles`, `PopulateAverages`, `SwapHistoricalResults`.
  `FailRefresh` and `CrashRefresh` may strike at any step. The transaction is seen step by step because it holds the live cell
  and the heads it has replayed while others wait; what it writes shows only at its commit (`tx`: the `draft` of the live
  record, the heads still `todo`, those `replayed`).
- *A worker.* `Take`, `ChooseWay`, then `LockHead` and `ClassifyIncremental`, or `RepairTimeline`,
  or `FindStale`; `Settle`. The incremental pass looks at the metadata *before* it waits for the
  cell; `checked` remembers the export it saw. `BreakDeadlock`: refresh and worker each hold what the other waits for, the
  database aborts one of them and the survivor gets the lock it waited for.
- *One cell* stands for all: passes over other cells wait in the same way, and every property is
  about one cell. `Record[e]` is its record in export `e`, `Absorbs[e]` the results that export contains.
- *Left out.* The SQL that projects baselines and historical results (no control flow), the
  checks of the archive (a failed one is a failure), the drop of the old schema.
- *History variables.* `overlaid`, `regressed`, `behind`; see the exceptions below.

### Finalization, WcaLiveIngestion, SubscriptionSession, WcaLiveFeed

- `Finalization` translates `round_result_is_finalized` and the rules of both providers, attempts
  and cutoffs included. The feeds feed it attempts that are entered and corrected, and cutoffs that change.
- `WcaLiveIngestion`. *State.* `table` is the diff table of the rounds, `seen` the processed
  `SourceObservation`s, `evidence` and `records` the active result and record observations;
  `apiEvidence`, `apiRecords`, `polled` the same for the poller, which is another ingestion method.
  `ProcessRoundSnapshot` and `PollRecentRecords` are one transaction each. A payload
  hash is the payload. The first snapshot of a round stores every row but evaluates only those entered within
  the catch-up window; a snapshot seen before is passed over; what a row stood for before is worked out under
  the rule of today. A poll is one step: nobody else writes what it writes; entries whose ingestion fails are rolled back and logged, so it
  processes any part of the list. It never retracts what leaves the list.
- `SubscriptionSession`. *State.* `pc`, `targets`, `todo`, `asking` are where the supervisor is;
  `pending`, `reply`, `mapped`, `queue` the client's fields; `serving`, `requests`, `wire` the
  provider's end and the socket. The supervisor awaits; the reader runs between any two of its
  steps, so a frame can arrive after the reply and before the id is known, and is dropped
  then. The frames of one change, one for each subscription the provider has of the round, arrive in any
  order. Subscribing brings no snapshot. Backoff, heartbeats and telemetry are left out; a silent socket is a broken one.
  A discovery writes in three statements, each a transaction of its own: the rounds found with their rules, another
  status for the retired among them, the retirement of all others. `DiscoveryFails` and `Crash` strike before, between
  or after them and leave what was written (`Persisted`); a row written as active that still says retired is
  "returning". `MarkingFails`: the subscription exists, but the statement that says so failed and the row says "error".
- `WcaLiveFeed` composes them with a provider (external): it enters, corrects,
  clears and removes results, changes tags without changing `enteredAt`, and changes a cutoff. The subscription worker and the poller share
  nothing but the provider, and no property relates what they write: `Deployments` looks at one at a time.

### CubingChinaIngestion, Collectors, CubingChinaFeed

- `CubingChinaIngestion` adds `process_result_update` (one row, whatever is known of the others)
  and the roster: a row is stored with what the session's roster says of its competitor. The
  payload of a snapshot contains the roster, that of a single result does not.
- `Collectors`. *State.* The columns of `CubingChinaCompetitionTarget` and `CubingChinaRoundTarget`, the
  supervisor's `found`, a task per competition (`task`; `ahead[c]` are the tasks before it at the semaphore) and its session
  (`users`, `todo`, `asked`, `fetched`, `inbox`). Socket and queue are one `inbox`: the
  reader looks at nothing the task does. Telemetry, keepalives and waiting times are left out.
- *A discovery* writes many rows by many statements and no transaction spans them: the competitions one by one, each with its
  row, the rounds of its page and the rounds that are on it no more, then the retirement of the others one by one, each
  with its row and its rounds. The statements of a complete discovery are one action (`Discover`), for the calls of a
  worker process to the database run one after another in one thread, a whole `_persist_discovery` among them, so
  that no statement of a task comes between. An error in any of them, or in the counts after them, is caught by the loop and
  nothing is reconciled: `DiscoveryBreaksOff` leaves what any beginning of the sequence has written (`Stored`,
  `InOrder`), while the tasks go on. A competition it retired in session says that it is not connected until
  the session ends or the next reconciliation cancels it; one it made live or ended is `unsettled` until the next complete
  discovery. A process that dies halfway is one that breaks off and then crashes. Left out: the time
  between reading the pages and writing what they say, and the row that a competition without a page gets
  and loses in one discovery when its time has passed.
- `CubingChinaFeed` composes them with a provider that pushes changed results, rosters and rounds,
  sometimes a whole round nobody asked for, and never a removal. Any `result.all`
  ends the wait for the round asked for; one of another round cannot be normalised and ends the session, an empty
  one is taken for the answer. A message about several rounds updates them one by one: when that fails (`HandlingFails`), those
  updated so far keep their new rules.

## Runs

| Run | Question | Bounds | Result |
|---|---|---|---|
| `delivery` | do rows settle once, within their attempts, without unexplained repeats or alerts from before activation, and does every row settle? | 2 alerts, 1 endpoint, 2 workers, 2 attempts, batches of 2, 2 timestamps, 1 interruption, 1 slow claim | holds, liveness under fairness |
| `classification` | order, finality, live records that follow the head; does all work settle, do live records catch up? | 1 result of 3 revisions, 2 workers, 1 interruption, 1 overrun | holds, liveness under fairness |
| `classification_superseded` | "marks the superseded projection invalid" | 2 revisions, 1 overrun | violated (finding) |
| `publication` | are live cells, and undisturbed outcomes, those of a rebuild? does recognition follow the outcomes? is every recognized record announced, and once? | 2 results of 3 revisions in all, 3 cells, 4 contents, 2 workers, 1 mishap, before it 1 failed publication | holds |
| `timeline_retry` | are outcomes those of a rebuild also after a retry? | 2 results of 1 revision, 1 worker, 1 mishap | violated (finding) |
| `timeline_moved` | are live cells those of a rebuild without exception? | 1 result of 3 revisions, 1 worker, no mishap | violated (finding) |
| `reconciliation_safety` | do retraction, revisions, verdicts and identity follow the evidence? | 3 observers (2 trusted, of one source), 1 natural key, 2 values, 1 official record, 3 revisions | holds |
| `reconciliation_race` | "otherwise untrusted CubingChina evidence" | 2 observers, 1 key, 1 value, 1 official record | violated (finding) |
| `reconciliation_identity` | "provider-neutral identity" | 2 observers, 2 keys, no refresh | violated (finding) |
| `wca_live_feed` | do diff table, evidence and claimed records follow WCA Live through reconnects, lost frames, retirement and changed cutoffs? does every round end up subscribed, every table current? | 2 rounds, 2 results of one of them, 3 changes of results, 1 of a cutoff, 2 failures, together at most 3 after the start | holds, liveness under fairness |
| `cubingchina_feed` | does a session mirror its rounds? do targets tell which sockets are open? is no place left unused? | 2 competitions, 1 place, 2 rounds of one competition (one comes and goes), 2 results, 3 changes and 1 failure, together at most 3 | holds, liveness under fairness |
| `baseline_refresh` | is the live record right after refreshes beside workers? are exports never mixed? does everything become fresh? | 1 cell, 2 results of 2 revisions, 2 exports, 1 worker, 2 refreshers, 1 mishap | holds, liveness under fairness |

*Why the bounds are enough.* Rows interact only through an endpoint, and an endpoint's rows
through a permanent failure or a disabling, which two rows show; two workers are needed for a
takeover and a late answer, and a third could only take over once more. Two attempts
distinguish the first, the last and one too many. Two timestamps let a guest come
back before, between or after two events. In the queue, three revisions let
a failed revision hold back one that holds back another; results of the queue do not
interact, and absorbed ones are covered by the proofs and by `baseline_refresh`. In the timeline, two results
in the order of time and against it, and equal and better values, at home and in another
country, cover the comparisons; an invalid revision covers retractions. Leaving a cell behind
needs three revisions: `timeline_moved` has them, and the proofs cover the rest. The contents are of two rounds
of one day, so that a result is superseded in its round, or in its day, and reinstated by a retraction; the second
result is vouched for in its country only, so that a level is refused and the next one announced. In reconciliation,
two trusted observers can disagree, the untrusted one can be alone; one value meets the official
record and one does not; three rows (one natural, two of sources) let evidence move; three revisions
go from active to retracted and back. In the WCA Live feed two rounds let one be retired, refused
or halfway while the other goes on, two results let one be removed or too old while the other
changes, and three changes are what a value that is corrected and then comes back needs; failures and changes
share a budget, so that each mixture of three of them occurs. In the CubingChina feed one place for two
competitions makes tasks wait, the vanishing round makes messages arrive that have no target, and
the two formats make rules change under stored rows. With one failure a broken-off discovery finds running tasks only if discoveries before it succeeded, which
covers the retirement of a competition in session and a discovery that breaks off before the first; a competition made live
beside running tasks needs two failures, which that run leaves to the proof. In the refresh the second export contains one
of the two results with a value worse than the live one, so that absorption changes the record upwards; two refreshers
contend for the lock, one of them may be late with the older export. A second worker would only
overlap with the first where the timeline's runs have two already. Counters bound
stops, crashes and overruns; the safety theorems hold without a bound on them.
`CHECK_DEADLOCK FALSE` in all runs but `baseline_refresh`: when all events, revisions and mishaps of the bounds
are used up, the system really is done. The refresh is scheduled again and again, so that run
checks that nobody waits for ever, the broken deadlock of worker and refresh included.

*Symmetry* permutes workers, or the two trusted observers of one source, in runs without liveness only.

*Fairness.* `DeliveryQueue`: a worker that can step does (the loop polls for ever, `provider.send`
has a timeout, a supervisor restarts the process), and time passes. `ClassificationQueue`: the
same, and the export is installed at last. Nothing is assumed of guests, publishers or ingestion.
Weak fairness of a worker's steps taken together is enough: it does not say which of the due rows
it claims, and with finitely many rows, interruptions and overruns none is needed. (In a system
with unbounded arrivals the code's order of claiming, oldest first, would be.) `WcaLiveFeed`: supervisor, reader and network go on (one event
loop), a discovery finds all rounds unless it fails; a message or a failure in the queue is
taken in the end although the loop is left for discoveries in between, because the loop
handles a message that is there before it discovers again, hence strong
fairness of these two. `CubingChinaFeed`: weak fairness of each task, of the reconciliation and of a full
discovery (one event loop again; the semaphore serves in order). `BaselineRefresh`: the refresh runs weekly
(`docs/live-result-architecture.md`: every Tuesday), workers poll, and whoever waits for a row lock gets it in
the end, which is what strong fairness of a worker's steps says; the database breaks deadlocks.

*Exceptions.* A property with exceptions names the ways in which it fails, as history variables that no
action reads:

| Property | Exception | What happens |
|---|---|---|
| `TableIsCurrent`, `EventuallyCurrent` | `missed` | the newest snapshot went with a connection or a failed transaction, or came before a subscription was known to both ends; the next change of the round brings a whole snapshot |
| | `repeated` | the snapshot equals one processed before (a value was corrected and the correction taken back) and was passed over |
| `EvidenceFollowsSources`, `RecordsFollowSources` | `baselineRow` | the first snapshot stored a row too old to evaluate |
| | `reruled` | a discovery changed the round's rule; stored rows are not looked at again |
| | `returned` | an entry of the recent records came back after another and was passed over |
| `EveryRoundIsSubscribed` | `Halfway` | a retired round whose unsubscription failed was found again, or a subscription could not be written down: the round counts as subscribed and is not asked for, its status stays "discovered" or "error" |
| `MirrorIsCurrent`, `ClaimsFollowMirror` | `untold` | no message tells of a removal, or of a row whose competitor was registered later |
| | `misread` | a payload was seen before, or a whole round was taken for another one's |
| | `reruled` | as above |
| `TargetsTellTheCollectors` | `abandoned` | a task or the worker died before it could write that it is disconnected |
| | `disowned` | a discovery broke off after it had retired a competition in session: its row says disconnected while the session goes on |
| | `unsettled` | a discovery broke off after it had made a competition live, or had ended one: until the next complete discovery it has no task, or keeps the one it has |
| `AnnouncedOnce` | `lost` | the publication failed, the failure was swallowed and the work settled; or it broke off in a worker that had lost its claim |
| | `reinstated` | the record is recognized again because another result was corrected or retracted; only the revision just classified is published |
| | `retried` | the work was done twice, and in between another result had taken the higher record: the second time it is announced at the next level |
| `LiveUnlessOverlaid` | `overlaid` | an incremental pass asked whether its result is in the active export, a refresh committed, and the pass then took the cell |
| | `regressed` | the export that was activated lacks a competition of the one before: a refresh that had downloaded earlier came late; results found absorbed meanwhile were not classified |
| `ExportsAreNotMixed` | `behind` | a refresh broke off after activating: historical results stay those of the export before |

`EventuallyFresh` shows that the next undisturbed refresh mends the last three.

## Findings

1. **A superseded projection can become valid again** (`classification_superseded`).
   `docs/live-result-architecture.md:138-139`: a correction "marks the superseded projection
   invalid". `_materialize_processed_result` writes the projection of its own revision without
   asking whether a later one exists. Worker 1 claims revision 1 and stalls; its lease runs out;
   worker 2 claims and starts revision 1 again and settles it, revision 2 is classified and
   marks projection 1 invalid; worker 1 wakes up and writes projection 1 as valid.
   `InvalidUnlessOverrun` says that without an overrun lease this cannot happen.
2. **A retry turns a broken record into a tied one** (`timeline_retry`). The incremental pass
   compares with the live cell whosever value it is. If the worker fails between the
   classifying transaction and the settling one, the retry finds its own value there. The tests
   that compare with the rebuild and that retry after a failure (`tests/test_live_result_domain.py`)
   fail before the classification, not after it. Two workers on two results can do
   the same; `OutcomesUnlessDisturbed` says that with one worker at a time and no failure the
   outcomes are right.
3. **A country left behind keeps the record** (`timeline_moved`). `_affected_scopes` unites the
   scopes of a revision and its predecessor. If the predecessor was found stale, its own
   predecessor's scopes are never repaired. `LiveUnlessLeftBehind` says that nothing else
   goes wrong: every other live cell is what a rebuild gives, under any concurrency and failures.

4. **An official verdict overrules trusted evidence** (`reconciliation_race`). A batch of the
   refresh reads a result that only CubingChina vouches for; WCA Live's report of it is reconciled,
   which makes it verified; the batch writes "no record match", pending, over it. As later
   batches skip rows with trusted evidence, it stays so until the result is reconciled again. A rejected
   disagreement can become verified in the same way, and a retracted row can be changed
   without a revision, against `docs/live-result-architecture.md:39-40`.
   `VerdictUnlessOvertaken` and `LastRevisionUnlessOvertaken` say that only rows a batch has
   written over after they moved are affected.
5. **One fact, two canonical results** (`reconciliation_identity`). When a source corrects the WCA
   ID, competition or round of a result and no row has the new key yet, `_find_canonical` keeps the
   row with the old key. The next source to report the corrected result gets a row of its own.
   `OneHeadUnlessRekeyed` says that without such a correction every natural key has one row.

### Smaller disagreements, seen as exceptions above

- `classification.py:666-668` says that absorbed rows "can never advance live state on top of the export". The
  incremental pass reads the metadata (`:469`) before it waits for the cell, so a refresh that
  commits in between is followed by just that (`overlaid`), until the next repair or refresh.
- `docs/live-result-architecture.md:172-173`: "Retries, repairs, and repeated publication therefore
  converge on one event." The key contains the level: a worker announces a world record and stops before it
  settles the work; a better result comes in meanwhile; the retry finds the world record taken and
  announces the same revision as a national record (`retried`). Without a second attempt it
  cannot happen (`SpecOneLevelEach`).
- `docs/web-push.md:158-159` counts a correction after a send "without emitting a second 'new record' alert". The key
  contains the revision as well, so a corrected result has a new event and recipients are alerted again.
- `docs/cubingchina-live.md:32-33`: "Reconnects repeat every snapshot so missed updates are healed".
  Not if the round has come back to a payload that was processed before (`misread`): it is
  taken for a duplicate and the rows stay as the update in between left them.
- `integrations/cubingchina/live_supervisor.py:450-451` announces that a known target is retired only by
  age; a few lines above (`:438`) it is also retired once its slug is no longer listed.
- "A failed download, load, calculation, or replay therefore preserves the previous raw snapshot and
  baseline" (`docs/live-result-architecture.md`) holds: `ExportsAreNotMixed`. What fails after them,
  the historical results, leaves the old table beside the new baseline (`behind`).

## Proofs

TLAPS checks everything below for every value of the constants that satisfies the named
assumptions: any sets of events, endpoints, workers, results, contents, rounds, rows, cells and exports,
any bound. The assumptions say

- that bounds are natural numbers (attempts and places at least one), and that `None` and `NoRound` are none of the
  workers, rows, keys, cells, rounds or observations they stand in for;
- that the workers of the outbox, the cells, the competitions, and the results and exports of the refresh are finite in number
  (batches, minima, places and the order of replay need it);
- that results of the timeline are numbered by their primary keys, and values and times are natural numbers;
- that constants which are functions or relations of others fit them: each result belongs to a round, each
  round to a competition, the rows the provider may show have the fields of a row, and entering a result at any time gives
  such a row.

Every invariant and every action property that a passing run checks, and both refinements, are theorems. The
invariants named `...Inv` in the proof modules are inductive; what they add to the property is said below.

- **`DeliveryQueueProofs`.** `SpecTypeOK`, `SpecAttemptBudget`,
  `SpecNoAlertFromBeforeActivation`, `SpecImplementsOutbox`, `SpecRepeatsOnlyAfterReclaim`. The budget is not inductive:
  a row given back by a stopping worker loses an attempt, which is right only because a claimed row has at least one; the
  refinement needs that whoever is about to record a success was answered with one. For repeats the
  invariant counts: for each row the acknowledgements so far plus the workers that may still get one never exceed
  one plus the takeovers. The workers that may are a finite set, and every step changes its
  cardinality by at most one, for which the module has lemmas on cardinalities.
- **`ClassificationQueueProofs`.** `SpecQueueTypeOK`, `SpecHandledInOrder`, `SpecCompletedIsLive`, `SpecSettledForGood`,
  `SpecImplementsLiveHead`, `SpecInvalidUnlessOverrun`. The invariant says what a worker at each phase knows: whoever has
  a revision in hand, claim lost or not, finds all earlier revisions settled; a current worker about to settle
  has its revision, or a later one, in the live records. Without an overrun (`OverrunInv`) a busy worker holds the
  unexpired lease of its work; so once it has materialized a revision the earlier projections are cleared, and nobody
  is left who could write one of them again.
- **`RecordTimelineProofs`.** `SpecTimelineTypeOK`, `SpecLiveUnlessLeftBehind`,
  `SpecRecordHasHolder`, `SpecLiveMatchesOracle` (for contents that never move), `SpecOutcomesUnlessDisturbed`. Two halves:
  a live cell *counts* every classified valid head (it is at most each of their values and the
  baseline), and it is *attained* (it is the baseline, or the value of some revision that is
  still the head, or of one whose successor is not settled and will repair the cell).
  At rest every head is classified and no successor is pending, so the
  two halves meet in the minimum, except in a cell left behind, where the repair never comes.
  The minimum of a set of numbers comes from well-founded induction over the naturals. For the outcomes the
  invariant says that before any disturbance one worker is busy at a time, and that the outcomes of a
  cell are right for the revisions counted so far, unless the cell is abandoned or a correction
  has still to repair it. It follows the order in which results are processed only as far as the cell itself
  remembers it, which is what an incremental pass compares with.
- **`RecordPublicationProofs`.** `SpecImplementsTimeline`: every step of classification, recognition and
  publication is a step of the timeline or none, so its theorems hold here
  (`SpecPublicationKeepsLive`, `SpecPublicationKeepsHolder`, `SpecPublicationKeepsOutcomes`). `SpecPublicationTypeOK`.
  `SpecRecognitionFollowsOutcomes`: each cell is abandoned, or some head in it is not yet counted and will adjudicate it,
  or it is adjudicated, its recognition being what its outcomes, rounds and days call for. `SpecAnnouncedOnce` has two halves.
  A record that could be announced is announced, or excepted, or on its way in a worker's hands, or still to be
  done. And no revision is announced at two levels unless it was worked on twice (`SpecOneLevelEach`): at
  most one worker is past the projection of such a revision, and it is silent once the revision is announced.
- **`ReconciliationProofs`.** `SpecReconciliationTypeOK`, `SpecRetractedIffNoEvidence`,
  `SpecLastRevisionUnlessOvertaken`, `SpecVerdictUnlessOvertaken`, `SpecRevisionsTellTheStory`, `SpecOneHeadUnlessRekeyed`.
  Reconciling and retracting are shown to be instances of one step that judges some rows
  again. The invariant says what the batch knows of its row as long as nobody moves it (first the value and verdict
  it read, then that the verdict it will write is the one due), and which rows the refresh
  has yet to come to: all others are judged by the newest official records. The last revision
  equals the head up to the verdict of a retracted row, which is what an overtaking batch can spoil. For
  identity the invariant says that names are unique, that while nobody rekeys a source says one natural
  key only, and that the row of its evidence bears it once it is known. That theorem alone needs
  that a source sees a result by two methods at most, as is so for both sources (WCA Live is polled and
  subscribed to, CubingChina has one worker) (a third would take neither row if the other two have one each); in the others origins may be shared by any number of observers.
- **`BaselineRefreshProofs`.** `SpecExportsAreNotMixed`, `SpecRefreshTypeOK`, `SpecLiveUnlessOverlaid`, for any number of
  concurrent refreshes and workers. The first
  invariant says what a refresh knows of the staging schema and of the half-built table at each step:
  neither is guarded by anything but the advisory lock, which at most one refresh past `TryLock` holds. The second
  has the timeline's two halves twice: for the live record and the results that are not open, and, while a
  refresh activates, for the draft of its transaction and the results it need not replay any more. Both
  are attained by the export, by a head, or by an earlier revision of an open result whose repair is to come.
- **`CubingChinaFeedProofs`.** `SpecFeedTypeOK` (with it, that no more tasks have a place than there are places),
  `SpecClaimsFollowMirror`, `SpecTargetsTellTheCollectors`, `SpecMirrorIsCurrent`. For the last the invariant looks at the
  messages a session has yet to handle: applied in order, each under the roster that is the last before it, the
  last one that tells of a result tells its current row, unless it is excepted; rosters only grow. A
  snapshot, an update and a rejected message each carry it over. For the targets (`TellInv`) it follows what a discovery has
  written up to any of its statements: the rows of `StoredTells` are those of a complete discovery as well as of one
  that broke off, so the exceptions hold what such a discovery can leave behind, and nothing else.
- **`WcaLiveFeedProofs`.** `SpecWcaTypeOK`, `SpecSubscribedIsServed`, `SpecEvidenceFollowsSources`,
  `SpecRecordsFollowSources`, `SpecTableIsCurrent`. `SessionInv` says what requests, replies, frames and the maps of
  both ends know of each other: the provider knows of a subscription before the client does, no frame
  follows the reply that ends its subscription, and only rounds not marked as subscribed are ever unsubscribed. It holds
  for whatever statuses a discovery has written when it fails or the process dies (`InterruptedKeeps`).
  Evidence and records follow their sources result by result; a rule can change without an exception only while its round
  has no row. `CurrentInv` says for each round that is not missed who tells the newest
  snapshot: the last frame on the wire the client will accept; if there is none, the last message queued; if there
  is none, the table. Changes, replies, frames, failures and the end of a session each shift this by one place. One
  exception became smaller by the proof: unsubscribing a round loses nothing, so `missed` does not count it.

The type invariants of all modules are among these theorems; the runs of `DeliveryQueue`, `ClassificationQueue` and
`RecordTimeline` do not check them again.

Only model-checked: liveness (`EveryRowSettles`, `EveryRevisionSettles`, `LiveCatchesUp`, `EveryRoundIsSubscribed`,
`EventuallyCurrent`, `PlacesAreUsed`, `EventuallyFresh`), for liveness under fairness and
ENABLED are out of the prover's reach. `Finalization` is used by the feeds' proofs as an operator about which nothing need be
known; what it computes is not proved but checked where the feeds use it. Facts about recursive
definitions, for which the library's induction over data would be needed, are out of reach too; no
module here needs one.

## Plan

1. `Outbox`, `DeliveryQueue` - modelled, safety and refinement proved.
2. `LiveHead`, `ClassificationQueue` - modelled, safety and refinement proved.
3. `RecordTimeline`, `RecordPublication` - modelled, safety proved.
4. `Reconciliation` - modelled, safety proved.
5. `Finalization`, `WcaLiveIngestion`, `SubscriptionSession`, `WcaLiveFeed` - modelled, safety proved.
6. `CubingChinaIngestion`, `Collectors`, `CubingChinaFeed` - modelled, safety proved.
7. `BaselineRefresh` - modelled, safety proved.
8. Open: what the modules promise each other. That the classified revisions of `ClassificationQueue` are those of
   `RecordTimeline`, and that the sessions of both feeds mirror a provider in the sense of one abstract module, would be
   refinements between modules that stand beside each other now.
9. Open: `Subscriptions` (registration, tokens, preferences).

Runs are few on purpose: one for each concurrent component, and one for each finding.

## Not modelled, and why

Registration of endpoints and preferences are planned (above); what they decide feeds
nothing back into the modules here, except the active flag of an endpoint, which `DeliveryQueue` has. The
attendance sync and the maintenance commands write tables of their own or are run by an operator. HTTP clients and parsers of
provider pages, serializers, read views and the admin are formatting and I/O without state of
their own. Migrations are generated; the constraints the code relies on (unique rows,
append-only revisions) are built into the modules. The frontend is a browser
application whose state is not shared with the backend beyond the endpoint rows. Row locks are
below the grain of all modules but `BaselineRefresh`: elsewhere a deadlock that PostgreSQL breaks is a
crash or a failure of the worker it aborts. The modules are not composed into one: the evidence
of the feeds is what `Reconciliation` takes from `Observers`, its revisions are those of the queue, and the
queue's classified revisions those of the timeline, each with everything its neighbours may do.
