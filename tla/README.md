# TLA+ verification of realtime-events-ai-trigger-svc

The service reads customer events from Pulsar, keeps one aggregated window per
anonymous user, evaluates rules over the windows, and for every match asks a
language model for a message, dispatches it (Slack or a mock e-mail) and shows
everything live on a dashboard over server-sent events. Its correctness rests on
goroutines that share channels, maps, atomics and a Postgres database. This
project models those parts in TLA+, checks them with TLC on small instances and
proves the central properties with TLAPS for all instances.

File and line references are to the repository; `PROJECT.json` maps every
definition that models code to its lines.

## 1. Inventory

| Component | State | Operations | Interacts with |
|---|---|---|---|
| Pulsar consumer (`internal/consumer`) | subscription, counters | `Run`, `processMessage`, `Close` | sends to `consumerOut`, acknowledges to the broker |
| Event filter (`internal/filter`) | allow-list, consent set | `Process` | called by the pipeline |
| Pipeline and archive (`cmd/.../runtime_pipeline.go`) | `consumerOut`, `archiveCh`, the batch | `runPipeline`, `runArchive`, `runIdleTicker`, `fanoutPrunes` | windows, hub, engine, Postgres |
| Window store (`internal/window/store.go`) | 16 locked shards, atomic counter, `prunedCh` | `WithWindow`, `Prune`, `Reset`, `evictGlobalOldest`, snapshots | written by the pipeline, the pruner and the demo reset |
| User window (`internal/window/window.go`) | counters, paths, last-seen times | `apply`, `snapshot` | under the shard's lock |
| Rule engine and gate (`internal/rules`) | rule list (atomic pointer), deadlines (mutex) | `EvaluateOnEvent`, `EvaluateOnTick`, `Reload`, `Allow`, `Mark`, `Reset` | two evaluator goroutines, demo reset, reloader |
| Dispatch workers (`runtime_dispatch.go`) | `matchCh`, four workers | `runDispatcher`, `fireMatch` | Postgres, LLM, dispatch back ends, hub |
| Postgres (`internal/db`) | tables events, rules, configs, triggers, cooldowns, mock_emails | queries | everything; survives the process |
| Demo reset (`internal/api/handlers_demo.go`, `runtime.go`) | none | one transaction, then `OnDemoReset` | Postgres, gate, windows, hub |
| SSE hub (`internal/sse`) | subscriber lists, per-subscriber channel and flag | `Subscribe`, `Publish`, drop, heartbeat, `Close` | pipeline, workers, HTTP handlers |
| Configurations (`internal/api/handlers_onboarding.go`, `internal/seed`) | configs and rules rows | generate, activate, seed | engine reload |
| Dispatch back ends, templates, LLM, Kapa, activation | none | `Dispatch`, `Render`, `Generate`, look-ups | called by `fireMatch` |
| Demo firer (`internal/demofire`, `handlers_demo.go`) | one goroutine per session, first error, total | `RunConcurrent`, `Fire` | Pulsar or the ingestion service |
| HTTP API, CLI, dashboard, Python scripts | connections, React state | drive and display the demo | the above |

What is hard here, and what would be wrong if it failed:

- **Check then act across locks.** `Allow` and `Mark`, the window cap and the
  insertion, the eviction scan and the deletion, the heartbeat's flag test and
  its send are each two steps that another goroutine may come between.
- **Lock-free closing.** A subscriber's channel is closed by whichever of three
  goroutines wins a compare-and-swap, without the hub's lock.
- **Two clocks of truth.** The cooldown lives in memory and in Postgres; a restart
  loses the one, a demo reset empties both in several steps, a fire writes the
  second long after it marked the first.
- **Bounded channels that drop.** `matchCh`, `archiveCh`, `prunedCh` and the
  subscribers' buffers discard when full; what is discarded must be accounted for.
- **Transactions that read before they begin.** Activations look a configuration up
  first and change it later, while seeds delete and insert configurations, fires
  refer to rules that may be gone, and two reloads overtake each other.
- **Aggregations kept event by event.** Windows hold running maxima, modes and merged
  traits; an order of events that breaks one shows only much later, in a rule or a
  message.
- **Untyped documents.** Rules, wizard answers and generated messages are nested maps
  decoded from YAML or JSON; a value in the wrong place is silently ignored.
- **Shared maps.** Answers compiled into the program are handed to concurrent fires
  by reference.
- **Shutdown.** Cancellation reaches goroutines blocked on channels whose readers
  may already be gone, and workers the errgroup does not wait for.

`PROJECT.json` lists these as hazards, each at its line, with the properties that
watch it.

## 2. Modules and how they correspond to the code

**Triggers.tla** - evaluation, gate, `matchCh`, workers, Postgres cooldowns, demo
reset and restart. `eval` holds the two evaluator goroutines: the pipeline, which
evaluates every rule, and the idle ticker, which evaluates only the rules with an
idle leaf (`TimeRules`). `AllowRule` and `MarkRule` are separate actions because
the gate locks separately for each. Whether a When-tree holds is left open: any
candidate rule may match (`AllowRule`) or not (`SkipRule`). A worker walks through
`fireMatch`: check, generate and dispatch, trigger row, cooldown row, each of the
database and LLM calls with its failure path. The reset is three actions, in the
handler's order; `Restart` loses all memory and keeps both tables. The history
variables (`emitted`, `outcome`, `epoch`, `gateEpoch`, `gen`, `cleanReset`) record
what the properties speak of and restrict no action.

**WindowStore.tla** - the sharded store. Each critical section is an action; the
counter's updates are actions of their own, since `active` is read without locks.
`evictGlobalOldest` scans shard by shard (`ScanShard`) and deletes later
(`EvictVictim`, `SpareVictim`). `Prune` removes windows one at a time while it holds
the shard; `Reset` empties shards one by one and then stores 0. The deployed
service has one writer (the pipeline); the store's comments promise safety for
several, so the writers are a constant. Expiry by age is abstracted: the pruner
may remove any set of resident windows.

**SSEHub.tla** - the hub. The read-write lock is implicit: an action that needs
the write lock is enabled when no publisher or heartbeat holds the read lock
(`CanWrite`). `closeSubscriber` is three lock-free steps (`WinFlag` or `LoseFlag`,
`CloseStop`, `CloseCh`) that any handler, publisher or the closer may be inside.
A send on, or a second close of, a closed channel sets `panicked` to the
culprit's name and stops the process, as Go does. Messages are counted, not
distinguished.

**Ingest.tla** - broker, consumer, `consumerOut`, filter, pipeline, archive writer,
workers' shutdown and the process lifecycle. A delivery is a number, `received`
says which message it carried; a message that was not acknowledged is delivered
again to the next process. The pipeline's rule evaluation is abstracted to "one
match may be queued"; Triggers has the detail. The last flush of `runArchive` uses
the cancelled context, so after `Cancel` each of its inserts fails (`InsertFails`),
as in the code. The Pulsar subscription (`Deliverable`) is external.

**AtMostOnce.tla** - what the trigger path promises, without goroutines, channel and
database: a match waits, is picked once by one of a bounded number of firers, and
ends; it may be dropped or lost with the process, never picked again. Triggers
implements it (`FiresAtMostOnce`): the waiting matches are those an evaluator is
about to hand over or that sit in `matchCh`, the firing ones those a worker holds.

**UserWindow.tla, EventFilter.tla, RuleLanguage.tla, Onboarding.tla** - pure
translations: `apply` and the window's answers; the filter and its redaction; the
compiler, the fourteen predicates and the evaluation of rules; the wizard's rewriting of
the two seed documents. JSON values are tagged records. Regular expressions are a
relation given as a constant, and `equalAny`'s comparison of unlike types by how
they print is inequality, since no number prints like one of the strings used.
`Maps.tla` has the Go maps they are built from: the entries of one map over those of
another, and a map restricted to some keys.

**Evaluation.tla** - composes them: events, possibly late, pass the filter, are folded
into windows, and a compiled rule is evaluated at each arrival and by the idle ticker.
`hist` keeps every applied event, so that each aggregation can be compared with its
definition over the whole history. The answer of a rule and whether it depends on time
are the constant operators `Holds` and `DependsOnTime`; the run gives them
RuleLanguage's `Eval` and `UsesTime`, and the theorems hold for any. **RuleProperties.tla**
adds the properties of rules written back (`MarshalSpec` and `UnmarshalSpec`, which only
tests call together so far) and of the wizard's documents, over the same reachable windows. Concurrency is the subject of Triggers and WindowStore.

**Configs.tla** - the configurations of one persona, four kinds of requests
(`Program` lists their statements), the engine's rule list, the reload ticker, fires
that insert a trigger, the demo reset's deletion, failures and restarts. Statements
follow READ COMMITTED: `Snapshot` picks the rows that are committed, `LockRow`
takes their locks one by one, waiting for the holder, and drops a row deleted
meanwhile; writes appear at `Commit`. The foreign key from triggers to rules makes a
deletion fail; `InsertTrigger` waits for a deletion in progress and undoes what
`Nullify` had seen. All rules of a document are one row, since they are inserted and
deleted together. `Fail` may end any request at any step.

**Templates.tla** - placeholders, the render context, the built-in answers and the
message builders of Slack and e-mail. Wording is reduced to names, and a placeholder
is its path and filter, so the grammar that finds placeholders in a text (capitals,
digits, spaces) is not modelled. `Native` marks the
Go slices only built-in answers hold, which the renderer passes through. The recursion
over nested values is the constant operator `renderValue`; **Rendering.tla** has the
service's, `renderNested`, and the property about its depth.

**DemoFire.tla, Delivery.tla, Demo.tla** - `DemoFire` is the fire-script request: its
validation, one goroutine per session with stagger, connection, delays and sends,
the common deadline, the first error and the total. `Delivery` is one fire: profile
look-up, generation, rendering, dispatch with Slack's three attempts or the mail row,
trigger row and the two SSE messages; `heap` holds the answers' maps, so that sharing
them is visible. `Record` has
the row that is written although the call fails. `Demo` composes the two: a rule of the
seeded configurations, or one of one's own, may match on any prefix of a session's
events, depending on whether the visitor's e-mail is known (`EmailKnown`). `Faults` is the budget of
failures the two share.

`MC*.tla` give the constants their values for TLC. The theorems are in `*Proofs.tla` and
`TriggersPlaces.tla`.

## 3. Runs

| Run | Checks | Result |
|---|---|---|
| `triggers_safety` | `TypeOK`, `MatchSpacing`, `EachMatchOnce`, `CooldownSurvivesRestart`, `QuiescentResetIsClean` | hold |
| `triggers_live` | the refinement `FiresAtMostOnce`, and `QueuedMatchResolved`, with failing calls and a rule without cooldown | hold |
| `triggers_race` | `SecondFireSuppressed` | violated: both evaluators pass `Allow` before either marks |
| `window_store` | `TypeOK`, `ActiveNotAbove`, `SoftCap`, `UpdateCompletes`, `EvictsOldest` | hold |
| `sse_hub` | `TypeOK`, `PublishAndCloseSafe`, `DroppedOnce`, `RemovedIsReleased` | hold |
| `sse_heartbeat` | `HeartbeatSafe` | violated: the channel is closed between the heartbeat's test and its send |
| `ingest` | `TypeOK`, `ArchiveFollowsWindows`, `AckedIsHandedOver`, `ArchiveCatchesUp`, `ShutdownEnds` | hold |
| `ingest_drain` | `DrainedBeforeExit` | violated: nothing waits for the workers at shutdown |
| `evaluation` | `DominantSuburbIsMode`, `TraitsPreferIdentify`, `PersonalDataRedacted` on windows; `TimelessIsTimeless`, `TickMissesNoMatch`, `RoundTripPreservesRule` on rules; `AnswersTakeEffect` on the wizard's documents; `TypeOK` | hold |
| `configs` | `TypeOK`, `ConfigHasItsRules`, `TwoActiveOnlyAfterOverlap`, `ActivationIsExclusive`, `EngineConverges` | hold |
| `configs_active` | `SomeConfigActive` | violated: the configuration is looked up before the transaction, and a seed replaces it |
| `demo` | `TypeOK`, `ReportedIsSent`, `StatusIsTrue`, `RecipientIsOwn`, `PlaceholderFree`, `RunEnds` | hold |

Each violated property states a sentence of the repository's own comments or
documents, quoted in `PROJECT.json` under findings.

Some weaknesses are visible in properties that hold only because they say so. A fire
that straddles a demo reset leaves its cooldown row behind (`QuiescentResetIsClean`
speaks of resets that begin with nothing under way). An event acknowledged at
cancellation before it was handed over is gone (`AckedIsHandedOver` admits it):
the comment at `internal/consumer/pulsar.go:234` has it replayed from Postgres, but what
has not left the consumer was never archived. A window created between the two
halves of `Reset` is never counted (`ActiveNotAbove` is one-sided). Two overlapping
seeds leave two active configurations (`TwoActiveOnlyAfterOverlap`). An e-mail without a
body quotes the answer as it was before rendering (`PlaceholderFree` excepts it), and a
fire whose context ends during Slack's retries delivers without a trigger row
(`StatusIsTrue` speaks of rows that exist). When an answer's recipient is there but blank, the
code contradicts the comment at `cmd/realtime-trigger/runtime_dispatch.go:79-84`, that the
injected recipient keeps "the persisted DB row, the SSE publish, and the OutcomeBanner
display consistent": line 89 injects only if the key is absent and the back end takes an
empty recipient for none, so the row has the default address and the dashboard the
user's (the last clause of `RecipientIsOwn`, reached in `demo`). A fire delivered without its row is
permitted; `EngineConverges` bounds only how long the engine keeps the replaced rule.
`QuiescentResetIsClean` speaks of rows and of the gate, not of the windows: an evaluator
between the purge and `ResetWindows` may leave a marked gate for a window that is then
emptied, which the code accepts.

**Bounds.** *Triggers:* one user (users share nothing but the channel), an idle rule and
an event rule, two workers, a channel of one, two matches: enough for a full channel,
two workers on one key, a reset and a restart inside a fire. Faults are in the liveness
run. *WindowStore:* three users on two shards, cap one, two writers, three updates, one
prune and one reset: an eviction, its victim gone or touched meanwhile, an overshoot and
a recount; that an older window is never passed over when the victim was touched takes a
fourth update and is covered by the theorem. *SSEHub:* one subscriber and two publishers
with a buffer of one, because the races are over one subscriber; the theorem covers
several. *Ingest:* an unparsable message, one of a foreign write key and two good ones,
two places in `consumerOut`, one in `archiveCh` and two in a batch, one fault, two
processes: two deliveries of one process can be anywhere between the consumer and the
table, also both in one batch of which one insert fails, and a message whose
acknowledgement failed comes again. Events without an id, and more of them under way,
are left to the theorems. *Evaluation:* seven events of two visitors that between them
carry every container and kind of field, up to three of them in any order and up to
three time units; one rule per predicate, operator form and error, and trees whose truth
changes with time under each connective. *Configs:* two requests at a time and three in
all, so that a third can undo what two left, one fire, one failed reload or restart; a
database seeded or empty. *Demo:* three sessions, the third of the anonymous visitor, of
which two fire, the second and the third one in turn, because what fires share two
share; one fault beside the refusals, which are not counted, so a fire is refused three
times, or loses an answer, or outlives its context; several faults in one run are
covered by the theorems; two configurations of the service. Fires are explored once a
run is answered with success, on any prefix of the events, since a fire reads only the
window it matched on. Every bound is a constant named `Max...`.

**Fairness.** Weak fairness for goroutines that are runnable: worker steps once a
match was taken and the taking itself (Triggers), a writer inside an update and the
pruner inside a pass (WindowStore; locks are held for finite sections only), steps
inside `closeSubscriber`, `Subscribe`, `Publish`, a heartbeat and `Close` (SSEHub),
consumer, pipeline, archive steps and exit (Ingest; the flush ticker is a runtime
timer), requests, which end because Postgres breaks deadlocks and contexts have
timeouts, and the reload ticker (Configs), and in Demo one condition for the whole
program: as long as something can run, something does, which its finitely many steps
make enough. None for arrivals, clock, faults, crashes, resets, subscriptions,
clients' requests or cancellation, so no liveness property depends on the
environment's help. The bound on updates also bounds how often a victim can be
touched under an eviction; in the service, with one writer, it cannot be touched at
all. `EngineConverges` needs that requests stop, which the bound on them provides.

## 4. Theorems

The properties are proved in the usual way: an inductive invariant, which TLC
checked first on the instance of the run, and one step per action of `Next`.

- **TriggersProofs** - `TypeCorrect`. `MatchSpacingHolds`: a rule without an idle
  leaf is only ever evaluated by the pipeline, so between its `Allow` and its `Mark`
  nobody else marks it. `SpacingInv` adds to the types: epochs of matches do not
  exceed the gate's (`InvEpoch`), a match of the current gate epoch leaves a
  deadline at least one cooldown after it (`InvGate`), a rule that passed `Allow`
  is a cooldown away from every such match (`InvAllowed`), and the ticker holds
  time-dependent rules only (`InvTick`). `CooldownSurvivesRestartHolds`: `RestartInv`
  adds what rows record (`InvRows`), what a worker past its check knows about the
  rows of earlier processes (`InvPassed`) and which workers got no answer
  (`InvUnsure`).
- **TriggersPlaces** - `MatchesInOnePlace`: `EachMatchOnce` is not inductive by
  itself, since a queue that held a match twice, or an id given to two matches, would
  break it later; `PlaceInv` says that every queue is without repetition, that ids
  tell matches apart and that every match under way was emitted. `NextMoves` then
  classifies every step as one of seven moves of a match from one place to another.
  The same moves give `CleanReset` (with `InvClean`: what is under way after a quiet
  reset belongs to the new epoch; `MarksOfDemo`: a step marks the gate for a match of
  the current epoch or clears it) and `PromiseKept`,
  the safety part of the refinement of `AtMostOnce`: each move is a step of the
  abstract specification or none (`InvBound`: the ids of new matches are ids of it).
- **WindowStoreProofs** - `TypeCorrect`, and `EvictsOldestHolds` from `InvScan`: the
  candidate of a scan is at most as recently touched as every window in a shard
  already scanned that was not touched since the scan began. `CounterNotAbove`:
  `LockInv` says that a window inserted and not yet counted keeps its shard locked, so
  it stays until it is counted; the counter then claims no more than the resident windows, corrected for the insertions
  and deletions still to be counted (`Balance <= 0`, exact until a reset runs).
  `CapIsSoft` needs more, because a
  writer whose scan found nothing goes on to insert: `InvCap` says, for every set *S*
  of writers whose scan is under way and has found no candidate, that the windows all
  of them have missed and the insertions to come are at most
  `MaxWindows + |Writers| - 1 - |S|`.
- **SSEHubProofs** - `TypeCorrect`, and `PublishAndCloseSafeHolds` from `HubSafe`: a
  subscriber in the list has not been closed and nobody is closing it, one the
  publisher has read is still in the list until the read lock is released, and
  exactly one goroutine is past the compare-and-swap for a subscriber whose
  channels are not both closed. `DroppedOnceHolds` adds that a subscriber in the list
  was never removed (`InvNew`). The claim about heartbeats is not
  provable: a heartbeat may hold a detached subscriber, and the run shows the panic.
- **IngestProofs** - `TypeCorrect`, with the capacities. `AckedIsHandedOverHolds`: the
  delivery about to be acknowledged is unparsable, handed over or abandoned
  (`InvDelivery`). `ArchiveFollowsWindowsHolds`: all deliveries that are somewhere
  stand in one line, table, batch, `archiveCh`, pipeline, `consumerOut`, consumer, and
  each part precedes the rest (`InvLine`); what is past the pipeline and has an
  anonymous id is in a window (`InvApplied`).
- **ConfigsProofs** - `TypeCorrect`, `ConfigHasItsRulesHolds`, `TwoActiveHolds` and the
  action property `ActivationIsExclusiveHolds`, all from `ConfigInv`. Per request
  (`Own`): its fields fit the step it is at (`Shape`), the rules it is about to delete
  are all those of the rows it holds (`GoneIsOwn`), every row its deactivation saw is
  its own, locked, still to be locked or deleted (`SeenIsOff`), and nobody has used its
  number (`Unused`). Of two requests (`Apart`): different locks, different numbers. Of
  the tables (`Tables`): rules and configurations correspond one to one. A commit
  preserves what is asked of the other requests because it deletes rules of rows it
  holds and inserts rules of such a row or of a new one. `OneSeed`: without overlapping
  seeds there is at most one configuration, and a seed that has picked its rows has
  picked, or holds, all there is.
- **EvaluationProofs** - `TypeCorrect`. `DominantSuburbCorrect`: the service compares
  the count just increased with that of the last winner; `SuburbInv` says that the
  counts are those of the whole history and that the winner is its mode, and the step
  is a fact about the mode of a history one event longer. `TraitsCorrect`: `TraitInv`
  gives every trait of a window as the last one identified with or else the first a
  context carried. `PersonalDataCorrect`: `RedactInv` says that each of a window's maps
  holds nothing but redaction marks under the redacted keys; events are masked before
  they are folded in, and `apply` only copies and merges. `TickMissesNone`: a rule that
  does not depend on time has matched every window it holds on (`TimelessMatched`),
  since its answer was the same when the last event arrived. That the mark is right
  (`TimelessIsTimeless`) is the theorem's hypothesis, checked by the run; it is a fact
  about nested rule trees.
- **DemoProofs** - *The request.* `ReportedIsSentHolds`, for the request alone
  (`FireSpec`), and `ReportedInRun`, for the whole run, each step of which is one of
  `FireNext` or leaves `fireVars` as they are.
  `InvSession`: what a session counted is in the topic, and no more unless it ended
  before its script did. `InvTotal`: the error and the total are those of the sessions
  that have ended, the total being the number of (session, send) pairs counted.
  *The fires.* `TypeCorrect`, `StatusCorrect` and `RecipientCorrect`, from `DeliveryInv`,
  which has a part for each fire and is kept for the others because a step changes the
  entries of one fire only and never a built-in answer (`BuiltinsKept`). `Outcome`
  relates the stage of a fire to what arrived: until the dispatch is over, everything
  that arrived is unsure, fewer messages than attempts; afterwards exactly one
  more arrived than is unsure if the status is "sent", and none otherwise, and what is
  recorded and published repeats that status. `Addressed` follows the answer from its map
  (a built-in one or the fire's own) through the rendering into the fire's own map, and
  says what recipient an e-mail made of it has. `RecipientCorrect` says of an answer that
  names a recipient that the e-mail goes there, of one without the key that it goes to the
  fire's own user or, that e-mail being unknown, to the default, with the dashboard
  showing the same, and of one with a blank recipient that the two differ; without a named
  recipient it never goes to another fire's user. The renderer of nested values may be any
  operator.

The proofs assume only the named assumptions on the constants, which TLC evaluates on
every run: types, nonzero capacities, that workers and writers are finitely many
(goroutines are started in a loop over a constant), that canned answers are maps or
null, and that no two users have the same e-mail address, nor one the default recipient's
(without which "never to another's" would mean nothing).

Only model-checked:

- liveness (`QueuedMatchResolved`, `UpdateCompletes`, `RemovedIsReleased`,
  `ArchiveCatchesUp`, `ShutdownEnds`, `EngineConverges`, `RunEnds`) and the fairness
  part of `FiresAtMostOnce`, which need ENABLED;
- `PlaceholderFree`, `RoundTripPreservesRule`, `TimelessIsTimeless` and
  `AnswersTakeEffect`: rule trees and message
  values are nested, the operators on them are RECURSIVE, and a module that reaches such
  an operator is out of the prover's reach. What these properties say of one value of
  any depth would take an induction over it.

## 5. Not modelled, and the plan

Left out for good, because they hold no state of their own or are layout: HTTP
routing and JSON, read-only handlers and the replay handler (it republishes a stored
row), CLI and environment parsing, logging and metrics, Slack's length limits, the
wording of messages and prompts. Left out because their results are not read back by
the service: the event log and Kapa columns of a trigger row. Outside the
service: the React dashboard and the Python demo scripts. `BedrockClient` is never
constructed, and the live activation client has the same outcomes as the mock.
Seeding of profiles, canned answers, templates and tracking plans is independent
upserts. The realtor roster is read once at start-up and is a constant of `Delivery`;
an activation that changes it takes effect at the next start. Runs of the
fire-script handler that overlap each other are not explored: they share no state but
the topic.

What remains to be proved is what section 4 lists as only model-checked.
