# A TLA+ model of ollama-hook

ollama-hook is an HTTP proxy between Ollama clients and an Ollama server. It
forwards the lines of a streamed answer and tells hooks (a log, metrics, a
PostgreSQL logger, RGB lighting) what happens. This directory holds TLA+
modules for its parts, the TLC configurations that check them, and proofs that
TLAPS checks. Source references are to files of the repository.

## Inventory

| Part | State | Operations | Interacts with |
|---|---|---|---|
| Streaming handler, `proxy.go` | per request: scanner, token count; nothing shared | `ServeHTTP`, `handleStreaming` | calls the hooks synchronously; upstream and client over HTTP |
| Tool stripping, `capabilities.go`, `proxy.go:207` | cache of capability lists under an RWMutex | `getCapabilities`, `fetchCapabilities`, `maybeStripTools` | called by the handler; asks Ollama |
| Hook interface, `hooks.go` | none | six callbacks; `MultiHook` fans out in order; `LogHook` | called by handlers concurrently |
| Database plugin, `database_hook.go` | map of conversations under a mutex, three bounded channels, batch of messages, three tables | hook calls, three writer goroutines, `Close`, `WriteExternalConversation` | PostgreSQL; `main` closes it |
| Metrics, `metrics.go` | map of requests in flight under a mutex, atomic counters | hook calls, `ServeMetrics` | scraped over HTTP |
| RGB plugin, `openrgb.go` | channel of one command, handle of the latest idle timer, connection | hook calls, executor, `scheduleIdle`, `Close` | OpenRGB server |
| Identifiers, `logging.go:42` | none | `reqID`: 32 random bits | keys of all maps |
| Shutdown, `main.go:136-180` | none | signal, `Shutdown`, `closePlugins` | closes the plugins |
| Start: `main.go`, `config.go`, `plugin.go`, `rgb_config.go`, `migrate.go` | registry, configuration, schema | `LoadConfig`, `BuildPlugins`, `RunMigrations` | sequential, before serving |
| External log, `proxy.go:438`, `database_hook.go:369` | one transaction per request | `handleExternalLog`, `WriteExternalConversation` | shares the pool of the database plugin, which `main` closes |

What makes each part correct, and what is hard in it:

* **Handler.** The client is served before the hooks; hooks see one start, the
  tokens numbered 1, 2, 3, ..., a completion per done line and, if anything
  fails, an error as the last call. Hard: a stream need not end with a done
  line, may go on after one, may hold lines that do not parse, and may break.
* **Capability cache.** Tools never reach a model that does not support them.
  Hard: the lock is released during the fetch, failures are cached, models
  change.
* **Database plugin.** What is stored is what was streamed, once, and no
  request waits. Hard: three channels and three writers with no order among
  them, drops in each, a transaction that one refused statement aborts, and a
  shutdown that runs while handlers still run.
* **Metrics.** Counters lose no increment; entries neither mix nor leak.
* **RGB plugin.** The lamps return to idle after the last request, and no hook
  call hangs. Hard: one timer handle and one command slot for all requests,
  effects of two commands each, sent by three kinds of goroutines without a
  lock, and a connection that goes away under them.
* **External log.** A conversation is stored whole or not at all, and the
  caller is told which. Hard: failures between the statements, a commit whose
  result is lost, a shutdown in the middle.
* **Process.** It serves with every registered plugin that is enabled or not at
  all (webhook can be enabled and is not registered, see below), and ends after a signal with the plugins closed. Hard: `Shutdown` and the closing
  of the plugins run at the same time as the handlers.

## Modules

| Module | Models | State corresponds to |
|---|---|---|
| `HookLifecycle` | the call order a hook sees, per request | `stage`: how far the calls have come; `sent`: `tokenCount` |
| `ProxyHandler` | `handleStreaming`, one action per stretch between two waits or calls, and `MultiHook` below it | `pc`: program counter; `got`/`out`: lines scanned and written; `pending`: fields of the current line not yet reported; `trace`: hook calls made; `told`: hooks that have been told of the last one |
| `DatabaseHook` | the database plugin with shutdown; handlers follow `HookLifecycle` | `conversations`, `convCh`, `msgCh`, `updateCh`, `batch` as in the code; `call`/`taken`: a hook call between its critical section and its sends; `convHeld`, `updHeld`, `tx`: records being written; `convRows`, `msgRows`, `endedRows`: the tables |
| `ConversationLog` | what the plugin promises of the records of a request | `record`: none, due, stored or lost |
| `ModelCapabilities` | cache and tool stripping; Ollama's models may change | `cache`; `capable`: what Ollama would answer |
| `MetricsHook` | metrics under `HookLifecycle` | `inFlight`, `total` (the atomics), `scrape`: counters read so far |
| `RGBHook` | the RGB plugin under `HookLifecycle`, one action per critical section and per command to the lamps | `cmdCh`, `idleCancel` as in the code; `call`: where a hook call is; `job`: the effect a goroutine is sending; `held`: the update the executor has; `timer`: the return-to-idle goroutines; `lamp`: what the server shows |
| `ExternalLog` | the handler and the transaction of `POST /_proxy/log` | `at`: where a request is; `inserted`/`rows`: rows in its transaction and in the database; `answer`: HTTP status |
| `Main` | the process, from the flags to its exit, over `ExternalLog` | `pc`: where `main` is; `config`, `built` (`pluginHooks`), `closed`, `schema`, `shutdown` (the goroutine that waits for the signal), `code` |
| `MCDatabaseHook`, `MCMetricsHook`, `MCRGBHook` | definitions the configurations need | |
| `DatabaseHookProofs`, `DatabaseRecordsProofs` | theorems about `DatabaseHook`: types and content; then drain, totals, the refinement of `ConversationLog`, and when records are lost | |
| `ProxyHandlerProofs`, `ProxyLifecycleProofs` | theorems about `ProxyHandler`: its invariants; then the refinement of `HookLifecycle` | |
| `ModelCapabilitiesProofs`, `MetricsHookProofs`, `RGBHookProofs`, `MainProofs` | theorems about the module each is named after (`MainProofs`: `ExternalLog` too) | |

`HookLifecycle` is the joint: `ProxyHandler` is shown to implement it
(`ImplementsLifecycle`), and the hook modules extend it, so they are checked
against every call order the proxy can produce and, since only the lifecycle is
assumed, against nothing more particular than that. `DatabaseHook` in turn is
shown to implement `ConversationLog`. `ProxyHandler` refines the lifecycle as
the last of several hooks sees it, so what is checked of one hook module does
not depend on its place in `MultiHook`. `Main` extends `ExternalLog` and closes
the pool under its transactions; `DatabaseHook` models the same shutdown for
the queues of the database plugin.

Abstractions. A response line is a record of the fields that cause hook calls,
whether it parses, and its terminator. A token is its request and number, a
UUID the request it was drawn for; distinct UUIDs are assumed, distinct request
identifiers are not (`ReqID` is a constant). Thinking and tool-call chunks are
kept as the set of requests they came from. Times, durations, headers and log
lines are left out. In `RGBHook` an effect is the event it is mapped to, which
of the effects breathe is a constant (`Breathing`, any set of events), every
configured device has a lamp of its own, and a handler's return, which makes no
hook call, is no step. In `Main` a configuration is the set of plugins it
enables, webhook included, and the settings their start depends on; which files
can be read, what they hold, and whether a database or a lamp server answers is
chosen when the code asks. The schema is old, dirty or current. `lost`, `late`,
`ever`, `always`, `failed` (in two modules), `atStart`, `started` and `unsure`
are history variables that no action's guard reads.

A database statement is one step: succeeds, is refused, or (`DbFails`) fails.
A commit that is applied though its answer is lost is modelled for the external
log, whose caller is answered, and not for the writers. Between any
two statements, those of one batch included, every other goroutine may run.

Operators whose comment begins with "Mutant" are wrong versions of the
definition that follows them. They are used by no specification: each one shows
that a property fails when the code has that error.

## Runs

Every configuration sets `CHECK_DEADLOCK FALSE`: handlers return, and a proxy
without requests does nothing.

| Run | Configuration | Bounds | Shows |
|---|---|---|---|
| proxy | `ProxyHandler.cfg` | 1 request, 2 lines, 2 hooks | line, token and error order; refinement of `HookLifecycle`; a line read is dispatched |
| capabilities | `ModelCapabilities.cfg` | 2 requests, 2 models | stripping and cache under races, failures and changes |
| capabilities_failed_fetch | `ModelCapabilitiesStripped.cfg` | 1 and 1 | violated: `StrippedOnlyIfUnsupported` |
| database_content | `DatabaseHookContent.cfg` | 2 requests, 1 token, capacities 1, batch 2 | content, uniqueness and agreement of what is stored; leaks; the inductive invariants |
| database_shutdown | `DatabaseHookShutdown.cfg` | 2 requests, no tokens, failing database, symmetry | no hook call waits for a writer; the drain; refinement of `ConversationLog` |
| database_settles | `DatabaseHookSettles.cfg` | 1 request, 2 tokens, failing database | token order, termination of `Close`, every record settles |
| database_persisted | `DatabaseHookPersisted.cfg` | 1 request, message channel of 2 | violated: `MessagesArePersisted` |
| metrics | `MetricsHook.cfg` | 3 requests, 2 of them with one identifier, 1 token each | exact counters of requests, tokens and errors, own entries, bracketed scrapes |
| rgb | `RGBHook.cfg` | 2 requests, 1 token each, 2 timers, 1 lamp | return to idle, nothing queued of finished requests, hook calls return |
| rgb_pending | `RGBHookPending.cfg` | 2 requests, no tokens | violated: `PendingCanBeCancelled` |
| main | `Main.cfg` | 2 external log requests, every configuration | start, migration, shutdown, whole conversations, true answers |
| main_graceful | `MainGraceful.cfg` | 1 external log request | violated: `ShutdownIsGraceful` |

Why the bounds suffice. Handlers of `ProxyHandler` share no state, so one is
enough; two lines give every pair of (earlier, later) fields, a done line with
a successor, a broken stream after a line, and a last line without terminator.
With two requests and channels of capacity one, every channel is full in some
states with another request still sending, and one batch holds the messages of
two conversations. Two tokens distinguish their orders (database_settles). Tokens do not interact
with the shutdown or with full channels, so database_shutdown has none, and database_content, which has every kind of chunk, ends at the
cancellation (`BeforeShutdown`). In metrics, three requests give two that share
an identifier and one that does not. In rgb every request makes at most one
ending that schedules, so two timers are one for each; two endings at once are
the race of `scheduleIdle`, the effects that breathe are those of the default
`rgb.yaml`, one ending during another request is the
cancellation, and one token is enough for the executor to hold an update while
another is queued. The lamp breathes, so it is shown both one- and two-command
effects; several lamps are sent to in turn and share nothing. In main two
requests can be at different statements when the pool is closed.

Symmetry is used where requests are interchangeable, and never with a liveness
property.

### Fairness

* `ProxyHandler`: weak fairness of the steps a handler takes by itself; none
  for upstream or client, on which there is no timeout, and so none for a
  write, which may block on the client.
* `DatabaseHook`: weak fairness per handler of the sends inside a hook call,
  which never block (`HandlersRun`); per writer goroutine, which assumes that a
  statement sent to the database returns (`WritersRun`); of `wg.Wait` and the
  return of `main` (`ShutdownRuns`). No handler is assumed ever to start,
  complete or return, and no signal to arrive. `HandlerNeverWaits` needs no
  fairness: it says that a send of a hook call is enabled in every state,
  whatever the writers do.
* `RGBHook`: weak fairness of the goroutines, inside a hook call for handlers.
  It assumes that a command to the server is answered or fails, and that time
  passes. One assumption is about durations: the hold before the return to
  idle, of 2 s at least in the code, is longer than the executor takes for the
  updates sent before (`HeldLongEnough`); an executor that stalls for longer
  would paint a token over the idle lamps. No request is assumed to end.
* `Main`: weak fairness of `main` until it serves and once it has been told to
  stop. It assumes that starting a plugin and closing it return;
  `CloseTerminates` is the latter for the database plugin. Nothing is asked of
  handlers, for which `main` does not wait, nor of the end of `Shutdown`
  (`ShutdownOver`), although it has 10 s: the process ends without it. A `main`
  that waited for a `Shutdown` with its timeout would end too; what the property
  excludes is one that waits without.

### Disagreements with comments and documentation

1. *Messages are lost though nothing fails* (`MessagesArePersisted`). The
   foreign key makes the order of two writers matter, and nothing orders them.
   One early message takes its whole batch with it.
2. *A failed look-up is for ever* (`StrippedOnlyIfUnsupported`).
3. *A return to idle that cannot be cancelled* (`PendingCanBeCancelled`): of two
   requests that end at once, one overwrites the handle of the other.
4. *The graceful shutdown is not waited for* (`ShutdownIsGraceful`).

Smaller ones, visible in the modules without a run of their own: a configuration
with `plugins.webhook.enabled: true` (`config.go:25, 41-46`) is accepted, no
factory has that name, and the proxy serves without the plugin and without a
message, though README.md:94-96 says that it refuses to start rather than run
silently degraded (README.md:84 does mark the plugin as not yet implemented; so
`ServesAllEnabled` and `NeverDegraded` are about the plugins that have a factory,
and say of webhook only that it is not built); a stream that
ends cleanly without a done line leaves its entries in the maps of the database
plugin and the metrics for ever (`OnlyAbandonedLeak` shows that nothing else
does); two requests in flight with one identifier mix up their entries
(`logging.go:43`); line terminators are normalised though README.md:5 says byte
for byte (`WrittenBeforeHooks` shows that nothing else changes); a device index
out of range is skipped with a warning though `openrgb.go:46` promises an error;
a `--config` that cannot be read gives the defaults, without a look at the other
places README.md:60-66 lists.

## Proofs

The theorems hold for any sets of requests, models, identifiers, lines, hooks,
devices and timers, and any bounds and capacities, that satisfy the assumptions
of the modules, which the runs evaluate. Every invariant that a passing run
checks is proved but for one, `HandlerNeverWaits`, and so are both refinements.

| Module | Theorem | Property |
|---|---|---|
| `ProxyHandlerProofs` | `TypeCorrect`, `ClientComesFirst`, `TokensAreNumbered`, `FailuresReachTheHooks`, `CompletionsMatchDoneLines` | `TypeOK`, `WrittenBeforeHooks`, `TokenNumbering`, `FailureIsReported`, `CompleteOncePerDoneLine` |
| `ProxyLifecycleProofs` | `LastHookSeesTheOrder`, `NoFieldIsSkipped` | `ImplementsLifecycle`, the safety half of `LineIsDispatched` |
| `DatabaseHookProofs` | `TypeCorrect`, `OwnConversations`*, `NoCrossTalk`*, `NothingElseLeaks`*, `OffTheMap`* | `TypeOK`, `HandlerInv`, `MessageFaithful`, `OnlyAbandonedLeak`, `PipelineInv` |
| `DatabaseRecordsProofs` | `NothingEarlierIsLeft`*, `NoDuplicateMessage`, `TotalsAgree`, `OneInHand`, `PluginIsALog`* | `LeftBehindIsLate`, `OneMessagePerConversation`, `RowsAgree`, the invariant behind `HandlerNeverWaits`, `ImplementsConversationLog` |
| `DatabaseRecordsProofs` | `FatesAreForGood`*, `RecordsGoTogether`*, `EveryRecordIsMade`*, `RowsAreFinal` | what a record and a row may become, step by step |
| `DatabaseRecordsProofs` | `DrainSettlesAll`*, `WritersComeToAnEnd` | the safety halves of `RecordsSettle` and `CloseTerminates` |
| `DatabaseRecordsProofs` | `OnlyOvertakingLoses`, `MessagesPersistInOrder`, `InOrderStoresAll`* | when `MessagesArePersisted` holds after all |
| `ModelCapabilitiesProofs` | `TypeCorrect`, `NothingIsInvented`, `NoToolsForTheUnable`, `NoToolsLostByRaces` | `TypeOK`, `CacheIsGrounded`, `UnsupportedToolsAreStripped`, `SupportedToolsAreKept` |
| `MetricsHookProofs` | `TypeCorrect`, `NoIncrementIsLost`, `ScrapesAreTrue`, `TimingsAreOwn`, `OnlyTheAbandonedStay` | `TypeOK`, `CountersAreExact`, `ScrapeIsBracketed`, `EntryIsOwn`, `OnlyAbandonedLeak` |
| `MainProofs` | `TypeCorrect`, `NeverDegraded`, `StoredWhole`, `CallerIsToldTheTruth`, `MigrationExitCode`, `ExitClosesPlugins`, `MainComesToAnEnd` | `TypeOK`, `ServesAllEnabled`, `WholeConversations`, `AnswerIsTrue`, `MigrateOnlyMigrates`, `CleanExitClosesAll`, the safety half of `SignalEndsProcess` |
| `RGBHookProofs` | `TypeCorrect`, `NoTokenAfterTheEnd`, `NoLampLeftBehind` | `TypeOK`, `QueuedIsLive`, the safety half of `ReturnsToIdle` |
| `RGBHookProofs` | `OnlyOverlapStrands`, `HookCallsComeToAnEnd` | when `PendingCanBeCancelled` holds after all, the safety half of `HookCallsReturn` |

A star marks the theorems with the constant-level hypothesis `NoCollision`:
distinct requests have distinct identifiers. For `NoCrossTalk` it cannot be
dropped: with two requests on one identifier TLC finds a message with the
tokens of both. `NoDuplicateMessage` and `TotalsAgree` hold without it: what is
stored under a collision may be the text of two requests, but it is stored at most
once and its two rows agree. The metrics theorems do without, because what they say of
an entry they say only of a request that shares its identifier with no other.

The arguments, by inductive invariant:

* **`ProxyInv`** (`ProxyHandlerProofs`). The properties relate the history of
  hook calls to the lines written, and none is inductive. `ProxyInv` says where
  each program counter puts a handler: what has been written, how many tokens,
  and which fields of the current line are still to be reported. Numbering and
  completions need to count positions in a history that grows by one call at a
  time, and lines by the fields they carry; the counting lemmas come first.
* **`LifecycleInv`** (`ProxyLifecycleProofs`). The mapping takes the calls the
  last hook has heard, a prefix of the history, to `stage` and `sent`. That a
  step is a lifecycle step needs that the calls are in order: the start first,
  nothing after an error. Telling a hook before the last is a stutter.
* **`OthersInv`**. `ProxyInv` counts tokens and completions; this counts thinking
  and tool calls: the calls made and the field still due make up the lines that
  carry the field. A handler makes one call in a step and for one field, the
  first of those due, so no field is counted by the call of another.
* **`HandlerInv`** (`DatabaseHookProofs`). `MessageFaithful` speaks of messages
  only: a message is made from a map entry some time after the entry was filled.
  `HandlerInv` adds that an entry in the map, or taken off it, is the stream of
  its own request so far, and that a handler inside `OnRequestComplete` is at
  one of its two sends, so no token can come between. From there messages only
  move: channel, batch, row.
* **`PipelineInv`**. A conversation with a message in the pipeline is off the
  map, is not about to be enqueued, and was started. Receiving a message and committing a batch leave
  the pipeline as a sequence unchanged; losing a batch takes a segment out of
  its middle, which keeps distinct messages distinct.
* **`DrainInv`** (`DatabaseRecordsProofs`). Whether something is left behind is
  decided when a writer finds its channel empty, which may be long before
  `Close` returns. `DrainInv` says that what a channel holds from then on is
  late, and that a handler still running was so when `Close` was called.
* **`PathInv`**. Each record of a request (conversation, message, update) is in
  one place at a time: due, in its channel, with its writer, stored or dropped.
  Without it a step of a writer could settle a record twice.
* **`CustodyInv`**. A conversation that has been started is in the map, in the
  hand of one handler, sent, or overwritten, and never goes back to the map, even
  if the handler that takes it off is that of another request with its
  identifier. Its
  message and its update are made by the handler that took it, while it makes no
  other call, so there is one of each and they carry one number of tokens.
  `HandInv` is the converse: a handler at one of the two sends has a conversation
  to send.
* **`TxInv`**. What an open transaction has found, so that a batch is stored only
  if all its conversations are. The proof of the refinement has one lemma per
  action.
* **`Grounded`** (`ModelCapabilitiesProofs`). An answer on its way from a fetch
  to the cache says as much as a cached one, and the history variables bracket
  what Ollama would answer now; this holds whichever of several fetches is
  stored last.
* **`Bracketed`, `EntriesInv`** (`MetricsHookProofs`). The counters only grow,
  and did so since the scrape began. An entry of a request alone with its
  identifier is marked as far as the request has come.
* **`CountInv`**. A counter is the number of requests in some stage, or of pairs
  of a request and a token, that have been counted. A handler about to count adds
  one element to such a set and no more, since a request starts once and ends
  once; and since an error is the last call of a request, it counts one error at
  most. That needs the requests to be finitely many (`RequestsAssumption`).
* **`LogInv`, `MigrateInv`, `ClosedInv`, `BuiltInv`** (`MainProofs`). What a
  request has stored at each of its statements, what a process with `--migrate`
  has done at each label, that the plugins closed are a prefix of those built,
  and how far the registry has been built.
* **`ServesInv`**. Of the plugins that the loop has come past, exactly the
  enabled ones are built, in the order of the registry. A factory that fails
  ends the process, so a process that serves has come past all that are
  registered, and past no others.
* **`QueueInv`, `Enough`** (`RGBHookProofs`). An update in the channel is some
  request's; what keeps it alive is that an ending empties the whole channel and
  that a request at its end offers nothing more. `Enough` counts: a timer is left for every request that is
  going to schedule one, so the choice of an unused timer is defined.
* **`LampInv`**. Each command that a lamp has still to receive is some actor's.
  An update that waits in the channel or with the executor carries, as history,
  the timers that wait behind it. A lamp that is not idle has
  a hook call running, a timer waiting, or a return to idle that will still
  send both the mode and the colour (or the mode alone, if the idle effect
  breathes on that lamp); so when there is none, all lamps are idle.

* **`FatesAgree`, `FatesAreFinal`**. Consequences of the refinement: they are
  proved of the steps of `ConversationLog`, of which there are four, and hold of
  the plugin because each of its steps is one of those or a stutter.
* **`OnceInv`**. A conversation is queued once, and its update is in one place.
  The statement that ends a conversation is an UPDATE, which would overwrite;
  since there is never a second for one conversation, rows are final.
* **`MadeInv`**. As long as a request is open its conversation is in the map, so
  its completion finds it and makes the other two records.

Three arguments bound the steps left. **`Work`** is what the writers of the
database plugin have still to do, at most two steps for a record in a channel,
or seven for a message, which may be flushed alone: each of their steps decreases it, and
only a send increases it. **`Left`** is what a handler inside a hook call of
`RGBHook` has still to do, at most two commands for each device and the two
critical sections of `scheduleIdle`; no other goroutine touches it.
**`MainLeft`** is what `main` has still to do, at most a factory and a `Close`
for each plugin and the labels between. With weak fairness of the steps
concerned, and some step always possible, each gives the liveness property;
these two premises are the part that TLC checks and the prover cannot.

Two theorems say under what condition a disagreement listed above disappears,
and so that nothing else causes it. The condition is on the behaviour, not on
the code: there are runs of the code that meet it and store everything, and a
program without the race would meet it always.

* `MessagesPersistInOrder` assumes that no INSERT of a message and no UPDATE is
  executed before the row it refers to is there (`InOrder`), and that each
  channel has room for all requests (`RoomForAll`). From `OnceInv` and
  `CustodyInv` a channel holds one record at most of each request, and the
  sender's is not among them, so by the pigeonhole principle it is not full; from
  `InOrder` no transaction is aborted (`NoLossInv`). `InOrderStoresAll` adds the
  drain: what was made before `Close` is stored when it returns.
* `OnlyOverlapStrands` assumes that no two handlers are between the critical
  sections of `scheduleIdle` (`OneAtATime`). A handler between them has just
  cancelled whatever was pending, and nothing becomes pending until it stores
  its own (`ReachableInv`).

TLC checks `HandlerInv` and `PipelineInv` too, in the run database_content; the
other inductive invariants serve the proofs only.

Only model-checked:

* liveness, which is out of the prover's reach: `LineIsDispatched`,
  `CloseTerminates`, `RecordsSettle`, `ReturnsToIdle`, `HookCallsReturn`,
  `SignalEndsProcess`. Of each the safety half is proved: what the lamps show
  when all is over (`ReturnsToIdle`), what has been reported once the loop is
  past a line (`LineIsDispatched`), that nothing is on its way once `Close` has
  returned (`RecordsSettle`), and that writers, hook calls and `main` have a
  bounded number of steps left (`CloseTerminates`, `HookCallsReturn`,
  `SignalEndsProcess`); not that any of this is ever reached;
* `HandlerNeverWaits`, which speaks of what is enabled. Proved is the invariant
  it rests on, `HandInv`; the rest is that each send is a `select` with a
  `default`, one branch of which can always be taken.

## Not modelled

* What `Validate` looks at in `rgb.yaml`, colours, brightness and hold times;
  the zones and numbers of LEDs of a device (a configured zone that the device
  does not have makes the code panic, `openrgb.go:272`).
* Listen address, log level and format, and of the upstream all but whether it
  parses; LogHook and the logger: they keep no state.
* The webhook plugin: there is a block for it in the configuration and no code.
* golang-migrate: `Main` says what a migration may leave, not how.
* The reverse proxy for other paths: a library; it makes no hook call.
* Recovery after a crash: there is none. A process that ends at any time is
  `Killed` in `Main` and `ProcessExit` in `DatabaseHook`; everything in memory
  is lost, and the tables are what the last commits left.
* Timings in the metrics log, and the counter of RGB drops, which no code
  increments.
