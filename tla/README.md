# A TLA+ model of telego-bot-api

telego-bot-api is a gateway that keeps one MTProto session per bot with Telegram
and serves the HTTP Bot API to applications: methods become MTProto calls, and
updates are stored in a Redis stream per bot, from where applications fetch them
with `getUpdates` or receive them through a webhook. This directory holds
TLA+ modules that model it, configurations that model-check them with TLC,
and proofs checked by TLAPS.

## The system

```
 Telegram ──> gotd client ──> intake ──> gap manager ──> Handle ──> update worker
                (per bot)     (gaps.go)     (gotd)        │  (updates_pipeline.go)
                                                          v
 application <── getUpdates <──────────────────────  Redis stream
      ^                                                   │
      └──── dispatcher workers <── delivery loop <────────┘
             (webhook/dispatcher.go)  (webhook_delivery.go)

 application ──> HTTP handler ──> bot registry ──> session ──> method ──> Telegram
                (api/server.go)   (manager.go)     (bot.go)   (methods.go)
```

| component | state | operations | meets | hard behaviours | what makes it correct |
|---|---|---|---|---|---|
| webhook delivery loop (`botmanager/webhook_delivery.go`) | cursor, chat queues, entries in flight / delivered / backing off, buffer of results | start, stop, notify, load, dispatch, send, complete, remove, retry | stream, dispatcher, update worker, setWebhook | results of cancelled loops, failing acknowledgements, crashes, back-off, expiry | no loss, order within a chat, one request per chat, exact accounting, progress |
| dispatcher (`webhook/dispatcher.go`) | task channel, worker pool | enqueue, take, post, retry, report, stop | all delivery loops, the applications | cancellation, timeouts with the request still running, drain | each live task reported once, stop drains and returns |
| update stream (`storage/redis.go`) | one stream and one counter per bot | append, read, acknowledge, drop | update worker, delivery loop, getUpdates | cap of 10000, lost replies, two writers | entries in the order of the appends, acknowledgement removes a prefix |
| webhook configuration (`botmanager/bot.go`) | URL and limits in memory and in Redis | setWebhook, deleteWebhook, restore | delivery loop | failed or lost writes, the call waits for the loop | memory and Redis agree after a success, calls return |
| update worker (`updates_pipeline.go`, `processUpdates`) | channel of 4096 batches, quit | Handle, run, drain, retry | gap manager, stream, delivery loop, getUpdates | back-pressure, shutdown, retry after a lost reply | batches in order, none lost or doubled |
| intake and gap manager (`gaps.go`, gotd) | queue, busy flag, pts | push, pop, catch up | client's read loop, Handle | overflow, re-entrance, pts stored before the append | read loop never waits, gaps are found |
| long polling (`GetUpdates`, `api/server.go`) | signal channel, stream | read, wait, acknowledge | update worker, webhook | lost wake-ups, concurrent calls, webhook conflict | no update missed, each acknowledged prefix is the caller's |
| bot registry (`manager.go`, `flight.go`) | map of instances, calls in flight | get or create, close, reset, revoke, stop all, sweep | HTTP handlers, sessions | creation against removal and shutdown | one running instance per token |
| bot session (`bot.go` Start, Stop) | client, run context, state | connect, back off, replace, hibernate | Telegram, registry | reconnects, revoked tokens, wake-up of a hibernated bot | a started bot reconnects, a stopped one does not |
| peers (`peer/storage.go`, `savePeersToRedis`) | maps in memory, hash in Redis | ingest, load, save, hibernate | update worker, methods | hibernation during a save: a panic in the update worker | its batch is the one that is lost, the worker goes on |
| watchdog (`watchdog.go`) | ping failures, restart times | ping, restart | session | quiet bot or dead connection | restarts bounded |
| business connections (`business.go`) | cache, invoker pool | resolve, invoke, discard, close | methods, update worker | a pool closed under a call, calls repeated on a new pool, datacenters of others | a request acts for its account, parts stay where they were uploaded |
| downloads (`downloads.go`) | slots, progress | acquire, watch, release | HTTP handlers | stalled transfer | slots bounded and given back |
| HTTP server, error mapping (`api/`) | none of its own | route, retry, map errors | registry, methods | 401 resets a bot, retry of a send | only the bot's own refused key resets it, a copy needs a lost answer |
| methods, media (`bot.go`, `methods.go`, `gifts.go`, `mediaupload.go` …) | media cache | uploads and MTProto calls, one after the other | session, business connections | one step of several fails | a refusal means nothing was done |
| converter (`converter/`) | - | conversions | methods | - | conversions |
| process (`cmd/server/main.go`) | - | start, shutdown | all | order of the shutdown | nothing that was accepted is lost |

## The modules

| module | models | role |
|---|---|---|
| `UpdateStream` | the operations on a Redis stream | operators used by the others |
| `Dispatcher` | task queue, workers, attempts, callbacks; the applications as external actions | actions used by the next two |
| `DispatcherPool` | the dispatcher on its own, with cancellation and shutdown | specification |
| `WebhookDelivery` | the delivery loop composed with stream, dispatcher, update worker, configuration calls, crashes | specification |
| `UpdatePipeline` | connection, intake, feeder, gap manager (external), `Handle`, update worker, stored pts, instances and restarts | specification |
| `LongPoll` | `getUpdates` beside the update worker: signal, reading, filter, acknowledgement; the polling application as external actions | specification |
| `WebhookPromise` | what the owner of a bot is promised, by webhook or by polling | abstract specification, implemented by `WebhookDelivery` and `LongPoll` |
| `BotRegistry` | the sessions of one token: registry, single flight, client loop, resets, revocation, shutdown | specification |
| `ApiSteps` | what a method is made of: checks, uploads, calls, the connection of each | operators used by the next four |
| `ApiMedia`, `ApiMethods` | every Bot API method as the sequence of its steps, from the shape of the request | tables |
| `ApiHandlers` | what the HTTP handler of each method checks before it calls the method | table |
| `ApiRequests` | one request after the other, step by step, with failing calls, repetition, deadline, errors and answers | specification |
| `WebhookDeliveryProofs` | type correctness | proofs |
| `WebhookOrderProofs` | no silent loss, order, refinement | proofs |
| `WebhookAccountingProofs` | room for every report, one request per chat | proofs |
| `DispatcherPoolProofs` | types, draining and single reports of the dispatcher | proofs |
| `BotRegistryProofs` | every invariant of the registry | proofs |
| `UpdatePipelineProofs` | every invariant of the pipeline | proofs |
| `LongPollProofs` | every invariant of long polling, and the refinement | proofs |
| `ApiRequestsProofs` | every invariant of the Bot API, for every method; requests make progress | proofs |
| `MC…` | constants and symmetry for TLC | model checking |

### UpdateStream

A stream is the finite set of the IDs it holds. Redis makes IDs grow, so an ID is
modelled by its place among all appends. `AppendUpdate` yields the set of the
streams that may result, because `MAXLEN ~` leaves Redis the choice of how many
of the oldest entries above the cap it evicts. Key names and the payload are left out.

### Dispatcher and DispatcherPool

`taskQueue` is the channel, `worker[w]` the point where a worker goroutine is:
idle, with a request on the wire (`posting`), or in the sleep before the next
attempt. `answer` is what the application did with the request that is on the
wire, before the worker knows. A worker that stops waiting before there was an answer, because
of its time-out or because the connection is gone, leaves the request behind
(`LeftBehind`): its update goes to `ghosts` and may be accepted later (`GhostEnds`), or never.
`Live(task)` is `task.Context.Err() == nil`. `Succeeds` and `Fails` are the
points where `OnSuccess` and `OnError` are called; what the callbacks do is up to
the module that uses the dispatcher.

`ConnectionFails` is the class of errors that `isNotDeliveredError` recognises.
`fasthttp.ErrConnectionClosed` belongs to it and says only that the
connection was closed before the first byte of the response, so the action is possible
whatever the application did with the request, or is still doing.

`DispatcherPool` adds the enqueuers as an environment, the callbacks as a record
of what was reported for each task, and `Stop`. `cmd/server/main.go` stops the bots first,
but `Stop` does not look whether their loops have ended, and the loop of a bot that
is restored beside the shutdown has not (see `BotRegistry`): in the module any loop may go
on enqueuing after `Stop`. `late` is history: what came then. Such a task is taken by a
worker that is still draining, or stays in the queue for good, without a report; its
update is in the stream, from where the next process delivers it.

### WebhookDelivery

| state | code |
|---|---|
| `stream`, `lastID`, `redisHook` | stream, last appended entry, stored `WebhookData` (its `max_connections`, 0 without a webhook) |
| `bot`, `hook`, `change` | instance, `webhookURL`/`webhookMaxConns`, the configuration call that holds `webhookMu` |
| `sawHook`, `notifying` | `url` read at the start of `processUpdates`; an update is appended and `notifyWebhookDelivery` is due |
| `pc` | where `run` is: `load`, `dispatch`, `select`, `drain` |
| `gen`, `live` | identity of the loop's context; empty when it is cancelled |
| `tail`, `queued`, `loaded`, `sending`, `delivered`, `backoff`, `inFlight` | fields of `webhookDelivery` and of its `pendingWebhook` entries |
| `results`, `wake` | the two channels |
| `expired`, `dropped`, `trimmed` | history: why an entry left the stream without having been accepted |
| `aged` | updates older than `webhookUpdateTTL`: the oldest ones |

A chat queue is a Go slice to which `load` appends in the order of the stream, so it
is modelled by the set of its members and its head is the smallest. Each iteration of the loops of
`load`, `dispatch` and the final drain is a step of its own: the order in which Go walks the
map of queues, appends between two pages, reports between two sends, and a
cancellation anywhere are all explored. Calls of Redis are atomic
and may fail with or without effect where `RedisFaults` says so, and
always when the context is cancelled. A delay is either over or not; the clock is read once per `dispatch`,
and a delay that ends meanwhile counts as ending before or after it.

`BeginChange` takes `webhookMu` and cancels the loop; `SetWebhook`,
`DeleteWebhook` and `StopBot` are the rest of the call after `<-webhookDone`.
`Crash` takes memory, queue and workers away; requests on the wire become ghosts.
`StartBot` is a new instance, after a crash or after a Stop in the same process,
whose old requests go on.

### UpdatePipeline

| state | code |
|---|---|
| `sent`, `conn`, `drops`, `arriving` | Telegram and the connection; `arriving` are updates in handler goroutines that have not called `push` |
| `inst`, `life`, `known` | which instance of the bot is current, where its `Stop` is, and whose `botID` is set |
| `intake`, `wake`, `feeder`, `items` | `updateIntake`, and where `runIntake` is with the items it popped |
| `gap`, `gapQueue`, `pending`, `sync`, `pts`, `storing` | gotd's gap manager: its queue, updates after a gap, a request under way, its pts and the one it stores when `Handle` returns |
| `handing`, `channel`, `quit`, `due` | batches inside `Handle`, `updatesCh`, `updatesQuit`; `due` is history: what was queued when `quit` was closed |
| `worker` | the update worker: batch, step, update_id in hand, failed attempts |
| `nextID`, `stream`, `storedPts` | Redis; `stream` here holds every entry ever appended |
| `lost`, `forgotten` | history: updates reported as lost in the log, and updates in memory when the process ended |

An update with a pts is identified with its pts. `Push`, `Pop`, `WaitForWake`,
`FeedGapManager` and `FeedHandle` are the intake; each item is a step.
`HandleEnqueues` and `HandleGivesUp` are the outcomes of the two `select`
statements of `Handle`: when several cases are ready Go picks any. The feeder and
the gap manager may be in `Handle` at the same time, and calls of a stopped
instance go on beside the next instance. The worker allocates and appends in steps
of their own, each of which may fail before or after its effect.

gotd is a library. From how this code uses it and what its comments say: it calls
`Handle` from one goroutine and stores the pts after `Handle` returned, under
the context of the run; without a run it passes updates straight on; its `Push`
waits for room and returns with an error when the run ends; it may hand over what it held
back at the end of a run (`watchdog_test.go` relies on it), then `Reset` forgets the rest.
`DifferenceTooLong` is an answer that skips updates: they count as reported, for `OnTooLong` says
so in the log, and they are not fetched again.
A process that is killed is one that ends after `Stop` without any other step
in between, so crashes are covered. Left out: qts, seq, the pts of channels, the first
connection of a bot (no stored state), and the reading of the state that fails (the run is
repeated).

### LongPoll

| state | code |
|---|---|
| `nextID`, `log`, `stream` | the counter, the update_id of each entry ever appended, the entries in the stream |
| `worker`, `unannounced` | update workers; `unannounced` is history: entries no `broadcastNewUpdates` has followed |
| `call[c]` | a call of `GetUpdates`: the point it is at, its parameters, `cursor`, the page it found; `acked` is history |
| `signalled` | calls that hold a channel `broadcastNewUpdates` has closed |
| `current`, `answer`, `offset`, `seen`, `abandoned` | the application |
| `discarded` | history: trimmed, dropped on request, or never appended |

`AckRead`/`AckDelete` are one page of `AckUpdates`, `TakeSignal`, `ReadPage`,
`Filter` and `Wake`/`Recheck`/`Deadline` the loop of `GetUpdates`; other calls, appends
and drops come between any two of them. The server runs a call under a context of its own
(`handleGetUpdates`), so a call goes on when the application has given up on it,
and a later call may overlap it. A closed channel that was replaced is
modelled per call: `Broadcast` signals all calls, `TakeSignal` takes a fresh channel.
`unannounced` are entries whose batch has not come to its broadcast, or ended
in a panic, which is recovered without one (`BatchPanics`); `acked` is what the
stream held when the call began to acknowledge.
An application acknowledges what it has processed, in the order of the answer;
after a restart it asks without an offset.

The entries carry the place of their XADD, the update_ids what `INCR` gave. With
one worker both have the same order. That there is one writer per bot is the
assumption under which the polling runs are made: `pipeline_writers` shows that
resetting a bot breaks it, and then `AckUpdates`, which stops at the
first entry it must keep, may also pass over an entry with a smaller ID that it keeps
or delete one that no answer contained.

`KeepsPromise` instantiates `WebhookPromise` with a single queue: an
application sees updates in the order of their IDs.

### WebhookPromise

Three variables: how many updates are published, which were delivered (accepted
at least once), which were discarded. `Deliver(u)` requires that all earlier readable
updates of the queue are delivered or discarded. The refinement maps
`published` to `lastID`, `delivered` to `accepted`, `discarded` to
`expired ∪ dropped ∪ trimmed`. Later deliveries of the same update are stutters:
delivery is at least once, and its order is that of first acceptances.

### BotRegistry

| state | code |
|---|---|
| `listed`, `session` | Redis: the token in `telego:bots`, the stored session with a key Telegram knows or refuses |
| `registered`, `flight` | `m.bots[token]`, the entry of `m.flight` (running, done, deleted) |
| `main` | where the shutdown of `cmd/server/main.go` is |
| `loop[i]`, `outcome[i]` | the client loop of instance i; `b.ready` closed, or the error in `errChan` |
| `drop[i]` | the goroutine of `onRevoked` |
| `caller[c]` | a request or a restore: where it is in `GetOrCreate`, in its method, in `ResetBot` or `CloseBot` |
| `revoked`, `faults` | Telegram: the token is rejected; broken connections and dropped keys |
| `midway` | history: what came while a bot was being created |

`Lookup`, `EnterFlight`, `Create`, `StartSucceeds`/`StartFails`,
`Register`, `List`, `Finish`, `ForgetFlight` are `GetOrCreate` with `botFlight.Do`,
cut wherever the code releases a lock or waits. `StartFails` is every error of
`Start`, its deadline of twenty seconds included, which may pass when the
bot is ready as well, or when its token was rejected, which then nobody purges here.
`Unregister`, `StopInstance`, `DeleteSession`/`UnregisterBot`
are `ResetBot` and `CloseBot`, which take whichever instance is registered.
`DropRemoves`, `DropStops`, `DropPurges` are `RemoveRevoked`, which takes its own.
A panic in the function of the flight is left out.

What the properties name rather than hide: `LoadAndStartAll` runs in a goroutine
nobody waits for, so a restore that is under way at `StopAll`, or goes on after it,
leaves a session and a delivery loop running until the process ends (`ShutdownStops`),
although `main.go:110` says "Stop bot sessions and webhook replay producers before stopping
workers"; `DispatcherPool` has such loops; a token
that is revoked between `Start` and `List` may be listed again after its
purge (`RevokedIsForgotten`); two failing requests
may reset one after the other, and the second one stops the instance the first one has
just created (no property forbids it: the requests that use it are answered with an error).

### The Bot API: ApiSteps, ApiMedia, ApiMethods, ApiHandlers, ApiRequests

A method of a `BotInstance` is a straight line: it refuses bad input, resolves the
chat, uploads, calls Telegram, looks in the reply for what it returns. Which
line it takes depends on the shape of the request only: the kind of chat, whether it
names a business connection (`NamesConnection`: the parameter of the request, whatever the method
makes of it) or an inline message, what its media parameter
holds, whether the optional part is asked for. So a method is an operator from a shape to
a sequence of steps, and the methods, some 180, are tables. The order of the steps is the
code's. The tables are joined by `++` to `Methods` and `Handlers`. A step says which connection it uses (the bot's own, a business connection
wrapped in `invokeWithBusinessConnection`, or sent directly to its datacenter),
whether repeating it is harmless (`Read`, `Set`), deduplicated by a random_id
(`Send`) or not (`Make`: links, sticker sets), whether it consumes uploaded
parts, and whether the text of its error says "business", which decides
what the error mapping makes of it: some methods put the word into the errors of the calls they
routed (`Named`), `businessErrorMiddleware` adds it when the key of a wrapped call is not known, and
nobody does for the other errors the mapping takes for a 401 (`session`: `SESSION_REVOKED`,
`ACCESS_TOKEN_INVALID` and the like). A loop over several files or messages is one step,
as all of them are alike.

| state of `ApiRequests` | code |
|---|---|
| `steps`, `retried` | what is left of the handler and its method; the second call `handleSendMessage` and `handleEditMessageText` may make |
| `ofBusiness`, `home` | the request names a business connection; its datacenter is the bot's own |
| `call` | attempts in `retryMiddleware`, pools in `rawBusinessInvoker`, executed by Telegram before |
| `parts`, `cache` | the connection the parts were uploaded on; the media cache |
| `done`, `sends`, `makes`, `lost`, `cause` | history: what Telegram executed, whether an answer was lost, what failed |
| `expired`, `reset`, `answer` | the deadline of the request, whether `ResetBot` was called, the HTTP code |

`CallSucceeds`, `CallRefused`, `ConnectionDrops`, `PoolClosed` and
`DeadlinePasses` are what may become of a call; the first failing step ends the
request, but for those the code ignores (`Try`). `PoolClosed` stands for other requests,
for the janitor (`Hibernate`) and for `replaceClient`: all they do to a request
is to close the pool it uses, or to empty the cache, so that a look at it may always
miss. Other requests run before and after, never beside, as two requests share nothing but
the cache. Recovered panics (500) are left out.

Known limits, named in the properties or by the model: a link or a sticker
set is made twice when the answer to the first attempt is lost; a message is sent twice
when its answer is lost and the repeated call finds the key refused
(`CopiesNeedALoss`). A refused key of another datacenter resets the bot when a story was sent
there, and so does an ended session of most calls for a business connection (`ResetIsDeserved`),
although nothing is wrong with the bot's own; while the bot's own refused key, met when a business connection is
looked up, is answered with 400 and does not. `forwardMessages` and `copyMessages`
to a channel, and `copyMessage` with a caption that cannot be edited, refuse after the effect
(`RefusalMeansNothingDone`). `deleteMessages` takes a `business_connection_id`, which its
handler drops (`extra_handlers.go:535`), and the live location of an inline message is edited
without it (`methods.go:556`): both act as the bot itself (`OneAccount`). The single-file methods remember a URL
without the business connection it was stored for (`bot.go:1849`), so what a
business request stored is offered to others, against the comment
of `resolveInputSingleMedia` (`bot.go:3734` "Media uploaded for a business connection can
only be reused by that connection"), which only that function honours: `ItemsStayHome` is
about its keys.

## The runs

| run | asks | bounds | states |
|---|---|---|---|
| `webhook_order` | `TypeOK`, `NoSilentLoss`, `ChatOrder`, `OnePerQueue`, `KeepsPromise` | 2 updates of one chat, 2 loops, 2 workers, 2 attempts, dispatcher queue 1, stream cap 2, one update may age; all four requests, all kinds of Redis fault | 624k |
| `webhook_recovery` | `EveryReportHasRoom`, `EventuallySettled`, `ChangeReturns` | 2 updates in two queues of a chat and one connection, the first refused and growing old, the second appended at any time; 2 loops, setWebhook, crash; reads, acknowledgements, saves and restores may fail | 74k |
| `dispatcher` | `PoolTypeOK`, `ReportedOnce`, `StopDrains`, `EveryTaskReported`, `StopReturns` | 2 workers, an update under 3 contexts, each cancelled or going on after `Stop`, queue 1, 2 attempts | 501k |
| `bot_registry` | `TypeOK`, `NoOrphan`, `OneSession`, `ShutdownStops`, `RevokedIsForgotten`, `WaitersAreServed` | 2 callers of every kind, 2 instances, one broken connection or dropped key, revocation, shutdown; each with and without a stored session | 955k |
| `pipeline_restart` | `TypeOK`, `NothingSkipped`, `StopPersists`, `IDsAreUnique` | 2 updates, 2 instances (reset or restart), all queues of 1, one attempt, a pts that cannot be stored | 1.27M |
| `pipeline_flow` | `EventuallyPersisted` | 2 updates, the first makes the conversion panic, one broken or cancelled run, all queues of 1, 2 attempts, all five Redis faults | 378k |
| `pipeline_stuck` | `Reconnects`, `HandleReturns` | 2 updates, one without a pts and one without a result, 2 instances, one broken or cancelled run, all queues of 1 | 200k |
| `poll` | `TypeOK`, `AckedWereSeen`, `AckComplete`, `NoLostWakeup`, `KeepsPromise`, `EventuallySeen` | 3 updates of which the first is filtered out, pages of 1, stream cap 2, 2 calls, one abandoned call, restart or drop, failing reads, appends and acknowledgements | 436k |
| `requests` | `TypeOK`, `CopiesNeedALoss`, `ResetIsDeserved`, `RefusalMeansNothingDone`, `PartsStayWhereUploaded`, `OneAccount`, `ItemsStayHome`, `EventuallyAnswered` | every method, every shape of request, every failure at every step; 3 attempts and 2 pools, which are the numbers of the code; requests without end | 465k |

Why the bounds are enough to be interesting: order needs two updates of a chat and
an obstacle between them (two attempts, two loops, a ghost); accounting needs more ready
queues than slots (two and one in `webhook_recovery`); a wake-up can be missed when an update is
appended beside setWebhook (the second one there); a task that comes too late needs two contexts
beside it, one whose task is at a worker and one whose task fills the queue; loading needs a page smaller
than the backlog; a restart needs two loops or instances; with queues of one, every queue of
the pipeline is full in some state, with a producer waiting for it; a gap
needs two updates; acknowledging needs a full page followed by another one, and a call that
is overtaken by the next; a flight needs one who executes and one who waits, a
duplicate session two instances. The proofs below cover all sizes of
every module for the safety properties.

`CHECK_DEADLOCK FALSE` is given where the system may come to rest: all tasks
reported, all updates sent, the bound on instances or abandoned calls reached.

Three more runs show where the code does not do what its comments and documentation say:

| run | statement | what the run shows |
|---|---|---|
| `pipeline_forgotten` | README.md:27 "после переподключения или перезапуска пропущенные апдейты догружаются" (after a reconnect or a restart missed updates are fetched); `updates_pipeline.go:60` "stops the worker after it persists the batches already queued" | the shutdown waits neither for the update worker nor for its queue, whose pts is stored already: the batches are lost without a message |
| `pipeline_writers` | `redis.go:451` "update_ids grow in stream order (one writer per bot)" | after a reset the worker of the old instance drains its queue while the new one appends: a smaller update_id follows a larger one |
| `webhook_restore` | `webhook_delivery.go:130` "Redis is the source of truth ... failures and restarts never lose it" | one failed read at Start, and the bot runs without its webhook |

Known limits of the promise that the properties name rather than hide: the
MAXLEN cap evicts the oldest updates of a large backlog (`trimmed`, `discarded`), the
requests of a cancelled delivery loop stay on the wire beside those of the next one
(`ghosts`), and a connection that closes without a response counts as a request that was not delivered.

## Fairness

`FairSpec` of `WebhookDelivery` assumes: goroutines are scheduled (weak fairness
of the loop, of a worker that has something to do, of the call that holds the
mutex); timers fire; a stopped or dead instance is started again; and strong fairness of
the steps that need Redis or the application to work: an operation
that is tried again and again succeeds at some point. An entry may be
removed as delivered or as too old: strong fairness is that of its
removal, in whichever way it is tried. Nothing is assumed of appends,
of requests, of crashes (they are bounded in number by
`MaxContexts`) or of the passing of a day, except that an update that is never old enough
excuses what waits behind it. `PoolFairSpec` assumes only that workers run,
sleeps end and a request ends by `webhookTimeout`; applications may never answer. `StopReturns`
rests on the number of tasks that come after `Stop`, which is finite: a loop that went on
enqueuing for ever could keep a worker draining for ever.

`StuckSpec` of `UpdatePipeline` lets goroutines run, connections be made
and a stopped bot be started again, and assumes nothing of the gap manager.
`FairSpec` adds that the gap manager proceeds: it asks again for what is missing, a request
ends by `updatesSyncTimeout`, and getDifference, asked over and over, is answered at some
point (strong fairness). Nothing is assumed of Redis: its operations are given up
after their attempts, and `EventuallyPersisted` excuses what the log reports as lost and what was
in memory when the process ended.

`FairSpec` of `LongPoll`: calls proceed, the recheck interval ends, a call that waits again and
again reaches its deadline, the application keeps polling and processing, and reading the
stream does not fail for ever. Nothing is assumed of the update worker, not even the broadcast.

`Spec` of `ApiRequests`: what the server has begun it goes on with; requests may never come.
`BotRegistry` states no fairness: a caller may wait for Telegram for twenty seconds, and that it
does not wait for somebody who is not there is the invariant `WaitersAreServed`.

## Proofs

The theorems about webhook delivery hold for every value of the constants that
satisfies `DeliveryAssumption`, those about the pool for every value that satisfies
`DispatcherAssumption`, those about the registry for `RegistryAssumption`, those about the
pipeline for `PipelineAssumption`, those about polling for `PollAssumption`, those about the
Bot API for `AttemptsAssumption`: any number of updates, workers, loops, callers and
instances, of attempts and pools, any limit, any combination of faults.

* `TypeCorrect`: `Spec => []TypeOK`, with the capacities of the channels. `TypeOK` is
  inductive; one lemma per group of actions.
* `NothingLost`, `OrderOfChats`: `NoSilentLoss` and `ChatOrder`. Neither is
  inductive. The invariant `IInv` adds: the stream holds only published updates
  (`StreamInv`); everything readable in the stream up to the cursor is in the loop's
  queues (`LoadInv`); what the loop, a result or a worker takes for accepted is accepted
  (`AcceptInv`); everything on its way to an application, in the task queue, at a
  worker or left behind, is published and in order (`OrderInv`). The key step is `HeadInOrder`: what comes
  before the head of a queue is not in the queue, hence not in the stream, hence
  settled. It rests on `PageClosed` (a page of XRANGE leaves no gap), which needs the
  monotonicity of cardinality.
* `ImplementsPromise`: `Spec => KeepsPromise`, each step is a publication, a first
  delivery, a discard or a stutter.

* `OneRequestPerChat`, `RoomForReports`: `OnePerQueue` and `EveryReportHasRoom`. Both
  follow from `AccountInv`. While the loop's context is live, every update that is being sent is
  in exactly one place: in the task queue, at a worker, or among the results (`PlacesInv`),
  `d.inFlight` is the number of them (`SlotsInv`), and each is the head of its queue
  (`HeadsInv`). What earlier loops left in the dispatcher carries an older context
  (`CtxInv`), so a new loop starts with empty places. That a page keeps the heads needs
  `LoadInv`: entries of a page are younger than everything loaded before. The places are counted
  with injections into the updates, so the workers need not be finite.
* `PoolTypeCorrect`: `PoolSpec => []PoolTypeOK`, inductive.
* `DrainsBeforeReturn`: `StopDrains`, with the strengthening that a worker returns only after
  `Stop` was called: it leaves an empty queue, and what is enqueued behind it came after `Stop`.
  Nothing is assumed of the loops.
* `ReportsEachOnce`: `ReportedOnce`. Its invariant `PoolInv` says for each task that it is in the
  queue, at a worker or reported, in one of them at most, and in one of them if it was submitted and
  is live; and that an answer seen by a worker was given by the application.
* `RegistryTypes`: `TypeOK` of the registry. One lemma per kind of step says where a caller
  is afterwards and that the others stay where they are (`Steps`); all later proofs use it.
* `NobodyWaitsForEver`: `WaitersAreServed`, from `FlightInv`: one caller at most is
  between entering `botFlight.Do` and deleting the entry, and the entry is running
  exactly while he executes.
* `NothingIsOrphaned`, `OneSessionAtATime`: `NoOrphan` is inductive with `FlightInv` and
  `CreatingInv`: while a bot is being created nothing is registered, so registering it
  replaces nothing. `OneSession` follows: two instances cannot both be registered, nor both
  being created.
* `NothingRunsAfterShutdown`: `ShutdownStops`, from `NoOrphan` and `DownInv`: after `StopAll`,
  but for a restore, nobody is in `GetOrCreate`.
* `RevokedStaysForgotten`: `RevokedIsForgotten`, from `RevokedInv`: once the token is
  revoked no key is good again, so nothing becomes ready and nothing is listed. It needs
  `FreshInv`: an instance that is not created yet reports nothing.

* `PipelineTypes`: `TypeOK` of the pipeline, inductive with two facts: the feeder is busy while
  its call of `Handle` lasts (`FeederInv`), and an instance that is still to come does nothing
  (`FreshInv`). That a batch has a first and a last update rests on well-founded induction.
* `UpdateIdsAreUnique`: `IDsAreUnique`, from `IdsInv`: what a worker holds to append is allocated,
  held by nobody else, and in the stream, if at all, with the same update (an append whose
  reply was lost).
* `StopPersistsTheQueue`: `StopPersists`, from `DueInv`: what was queued at quit is persisted,
  reported or still ahead of the worker. `LifeInv` adds that the worker is told to quit once
  and ends only then, so that nothing is due to a worker that is gone.
* `StoredPtsSkipsNothing`: `NothingSkipped`, from `SkipInv`: the stored pts and, during a live
  run, the gap manager's pts cover only updates that are safe, and the pts about to be stored
  those and the batch in its hands. The crux is `SkipHandle`: during a live run the queue's worker
  was not told to quit, so `Handle` gives up only when the run is over, and then no pts is
  stored. `SkipReceives` shows that the ready updates reach to the pts without a hole.

* `PollTypes`: `TypeOK` of long polling, from `TypeInv`, which adds what a call holds at each
  of its points (`CallSound`). The lemma `Page` says what `XRangeN` returns: no more than asked
  for, without a gap, and all there is if it is less; `Responses` that an answer has
  the updates in the order of their entries: ranks are an injection of them.
* `WakeupsArrive`: `NoLostWakeup`, from `WakeInv`, for any number of workers: since a call took its
  channel, whatever it passed over without finding it was announced later or not at all. The channel must
  be taken before the stream is read.
* `AcksAreComplete`: `AckComplete`, from `AckInv`: before the page in hand nothing is left, and the page
  that ends the acknowledgement is followed by nothing below the offset (`LastPage`).
* `NothingUnseenIsAcked`, `PollingKeepsPromise`: `AckedWereSeen` and `KeepsPromise`, from `SeenInv`:
  every allocated update is in the worker's hands, in the stream or settled (`KnownInv`);
  everything below an offset, also that of a call the application has given up, is settled,
  and so is what lies behind a cursor; what a call has found, and what it answers, has no gap
  (`NoGap`): an update with a lower ID is settled or comes before it. The crux is `SeenReading`:
  the scan leaves out only what is below the offset, and the cut at the limit is a prefix.

The last three hold for one update worker (`OneWorker`): then the update_ids in the stream never
decrease (`OrderInv`), also with appends that are repeated. `pipeline_writers` shows how a
reset gives a bot two.

The proofs about the Bot API say why the methods have the properties TLC finds in the tables:
an invariant of the execution that needs nothing but sound steps, and the soundness of each method.

* `RequestsAreSound`: every request, of every method, for every shape, is `SoundRequest`. What it
  changes goes through the business connection it names, if it names one and its method does not ignore
  it (`ActsFor`, `Ignoring`), and is followed by closing steps only
  (`ClosesAfter`: looks at the reply, or the exceptions `RefusalMeansNothingDone` names); file parts
  are uploaded and consumed on one side (`OneSide`); media is stored under the key of its account;
  what may be called again changes something at its very end (`Plain`). A
  method is put together from a prelude, which changes nothing, a program, and a coda of closing
  steps (`Joins`), each fitting one of five modes: the bot itself, a business connection whose
  files the bot uploads, one that uploads them itself, and the two in which a request that names a
  connection is served by the bot, each reserved for the methods that do so (`Suits`). That a
  method suits its mode is judged by the parameter of the request (`NamesConnection`), not by its steps.
  Nearly every table is a lemma that follows from
  the pieces it is written with, so a new method costs one line of proof, unless it is not sound. That each
  handler has a method to call is `HandlersFit`.
* `InvariantHolds`: `IInv`, from that. While a request runs, what is left of its steps is sound
  (`ProgramInv`), will find uploaded parts where they are (`PlaceInv`), holds
  closing steps only once something was changed (`DoneInv`) and no call of a business connection once
  the bot was started anew (`ResetInv`); a message that was sent is sent by the step under way, whose
  random_id Telegram knows (`SendInv`). None of the properties is inductive without it: the
  error of a step is judged by what the steps before it did.
* `TypeCorrect`, `CopiesNeedALossHolds`, `ResetIsDeservedHolds`, `RefusalMeansNothingDoneHolds`,
  `PartsStayWhereUploadedHolds`, `OneAccountHolds`, `ItemsStayHomeHolds`: the invariants of the run
  `requests` follow from `IInv`.
* `RequestsAdvance`: `[][Running /\ Running' => Advances]_vars`. Every step of a request under way uses up
  its second call, or leaves fewer steps, or tries a later pool, or a later attempt; `TypeCorrect` bounds
  the last two. It is the safety half of `EventuallyAnswered`: no loop of `retryMiddleware`,
  `rawBusinessInvoker` or a handler goes on for ever, for any number of attempts.

In `TypeOK` of the requests the fields of a step are typed but for `what`, the name of a call
or input: a string, which the prover cannot tell to be one.

Every invariant and every action property of a passing run is proved, the refinements included.
Only model-checked are the liveness properties, as TLAPS does not do liveness under fairness:
`EventuallySettled`, `ChangeReturns`, `EveryTaskReported`, `StopReturns`, `EventuallyPersisted`,
`Reconnects`, `HandleReturns`, `EventuallySeen`, `EventuallyAnswered`; and the three runs that
refute a statement.

## Not modelled, and why

The status and the reason for each component are in `PROJECT.json`. Not modelled at all are
the watchdog and the downloads (decisions over clocks and a semaphore; what the
watchdog does, ending a run, is a step of `UpdatePipeline`), the converter, configuration,
logging, dialing and the load generators. In the modelled parts:

* parameters beyond their shape, building of MTProto requests, conversion of
  replies, flood waits and the wording of errors;
* HTTP headers and secrets; the payload of updates beyond chat and kind; entries of the
  stream with malformed fields;
* the error text that `UpdateWebhookDeliveryError` stores: it reads, changes and writes the whole
  configuration, and two instances of a bot could overwrite each other's
  (`redis.go:167`; the delivery of two instances at a time is left out);
* the check for a webhook before a `getUpdates` begins (`server.go:729`), and a bot that does not
  know its ID yet;
* the decision of the janitor: requests see what hibernation does to them; that
  `savePeersToRedis` may write to a map `Hibernate` has set to nil (`bot.go:895`) is
  the batch that panics of `UpdatePipeline`, whose updates are lost although their pts is stored;
* expired file references in the media cache, which the code does not replace;
* polls in channels, which `stopPoll` never finds, are a step that refuses.

What `UpdatePipeline` leaves out of gotd is listed with the module.

## Plan

Done: delivery, dispatcher, registry, pipeline, long polling and the Bot API with their
proofs. Left, in this order:

1. Two instances of one bot beside each other in `WebhookDelivery`, as `UpdatePipeline` has them,
   and setWebhook beside a waiting getUpdates.
2. Composition of pipeline, stream and delivery: an update received is delivered once at
   least, in order.
