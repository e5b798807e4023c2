--------------------------- MODULE WebhookDelivery ---------------------------
(***************************************************************************)
(* Delivery of one bot's persisted updates to its webhook                  *)
(* (internal/botmanager/webhook_delivery.go) together with everything it   *)
(* meets: the Redis stream, the update worker that appends and notifies,   *)
(* setWebhook / deleteWebhook / Stop, the dispatcher (module Dispatcher),  *)
(* process crashes and restarts.                                           *)
(*                                                                         *)
(* Updates are the numbers 1..MaxUpdates in the order of their stream IDs. *)
(* A chat queue of the loop (a Go slice) is the set of its members: load   *)
(* appends in the order of the IDs, so the head is the smallest member.    *)
(* Back-off delays are abstracted to "not yet due" and "due"; the day of   *)
(* webhookUpdateTTL to a mark `aged' that moves over the oldest updates.   *)
(***************************************************************************)
EXTENDS UpdateStream, Sequences

CONSTANTS
  MaxUpdates,          \* bound: updates appended in a behaviour
  MaxContexts,         \* bound: delivery loops started in a behaviour
  MaxAged,             \* bound: updates that grow a day old
  MaxStreamLen,        \* streamMaxLen (10_000)
  PageSize,            \* entries read at once (100)
  MaxLoaded,           \* webhookMaxLoaded (1000)
  DefaultConnections,  \* defaultWebhookConnections (40)
  MaxConnections,      \* maxWebhookConnections (100)
  ChatOf, KindOf,      \* updateChatID and the kind of each update
  NoChat,              \* chat of an update without one (0 in the code)
  Unreadable,          \* updates whose stored payload cannot be decoded
  StoredHooks,         \* webhooks that may be stored when the process first starts
  Backlog,             \* updates in the stream when the process first starts
  Requests,            \* setWebhook, deleteWebhook, Stop calls that may come
  RedisFaults,         \* Redis operations that may fail
  Workers, QueueSize, MaxAttempts, Refused   \* see Dispatcher

Updates == 1..MaxUpdates
Readable == Updates \ Unreadable
Kinds == {"message", "member", "boost", "reaction", "other"}
Request == [op : {"set", "delete", "stop"}, conns : Nat, drop : BOOLEAN]
NoRequest == [op |-> "none", conns |-> 0, drop |-> FALSE]

ASSUME DeliveryAssumption ==
  /\ MaxUpdates \in Nat /\ MaxContexts \in Nat /\ MaxAged \in Nat /\ MaxStreamLen \in Nat \ {0}
  /\ Backlog \in 0..MaxUpdates /\ PageSize \in Nat \ {0} /\ MaxLoaded \in Nat \ {0}
  /\ MaxConnections \in Nat \ {0}
  /\ DefaultConnections \in 1..MaxConnections
  /\ DOMAIN ChatOf = Updates /\ KindOf \in [Updates -> Kinds]
  /\ Requests \subseteq Request /\ StoredHooks \subseteq 0..MaxConnections
  /\ RedisFaults \subseteq {"read", "ack", "save", "drop", "restore"}
  /\ QueueSize \in Nat \ {0} /\ MaxAttempts \in Nat \ {0}

VARIABLES
  \* Redis
  stream,      \* IDs in the bot's stream
  lastID,      \* updates 1..lastID have been appended
  redisHook,   \* stored max_connections of the webhook, 0 without a webhook
  \* the bot instance
  bot,         \* "up", "stopped" (Stop returned) or "down" (no process)
  hook,        \* b.webhookURL and b.webhookMaxConns, 0 without a webhook
  change,      \* the call holding webhookMu until the loop ends
  \* the update worker
  sawHook,     \* url # "" when the current batch began
  notifying,   \* an update is appended, notifyWebhookDelivery is due
  \* the delivery loop
  pc,          \* where the loop is, "none" without a loop
  gen, live,   \* the loop's context, {} when cancelled
  wake,        \* token in b.webhookWake
  conns,       \* d.maxConns
  tail,        \* d.tail
  queued,      \* members of d.queues
  loaded,      \* keys of d.byID
  sending,     \* entries with inFlight set
  delivered,   \* entries with delivered set
  backoff,     \* entries whose retryAt is not due
  inFlight,    \* d.inFlight
  results,     \* buffered results channel
  \* dispatcher and applications
  taskQueue, worker, accepted, ghosts,
  \* why an update is not in the stream any more, other than accepted
  expired, dropped, trimmed,
  aged         \* updates 1..aged are older than a day

redisVars == <<stream, lastID, redisHook>>
botVars == <<bot, hook, change>>
producerVars == <<sawHook, notifying>>
entryVars == <<tail, queued, loaded, sending, delivered, backoff, inFlight>>
loopVars == <<pc, gen, live, wake, conns, entryVars, results>>
dispatcherVars == <<taskQueue, worker, accepted, ghosts>>
lossVars == <<expired, dropped, trimmed>>
vars == <<redisVars, botVars, producerVars, loopVars, dispatcherVars, lossVars, aged>>

Contexts == 1..MaxContexts
D == INSTANCE Dispatcher WITH Ids <- Updates

-----------------------------------------------------------------------------
(* webhookQueueKey: messages, member changes, boosts and reactions of one  *)
(* chat are queues of their own, anything else is a queue by itself.       *)
WebhookQueueKey ==
  [u \in Updates |-> IF ChatOf[u] # NoChat /\ KindOf[u] # "other"
                     THEN <<KindOf[u], ChatOf[u]>>
                     ELSE <<"update", u>>]

SameQueue(u, v) == WebhookQueueKey[u] = WebhookQueueKey[v]

(* Mutant: no upper bound.                                                 *)
NormalizeConnectionsUnbounded(n) == IF n <= 0 THEN DefaultConnections ELSE n

NormalizeConnections(n) ==
  IF n <= 0 THEN DefaultConnections
  ELSE IF n > MaxConnections THEN MaxConnections ELSE n

Fails(operation) == operation \in RedisFaults

(* Mutant: one queue for all chats.                                        *)
IsHeadOfAll(u) == u \in queued /\ \A v \in queued : u <= v

IsHead(u) == u \in queued /\ \A v \in queued : SameQueue(u, v) => u <= v

-----------------------------------------------------------------------------
NoLoop ==
  /\ pc = "none" /\ live = {} /\ wake = FALSE /\ conns = 0
  /\ tail = 0 /\ queued = {} /\ loaded = {} /\ sending = {}
  /\ delivered = {} /\ backoff = {} /\ inFlight = 0 /\ results = <<>>

Init ==
  /\ stream = 1..Backlog /\ lastID = Backlog /\ redisHook \in StoredHooks
  /\ bot = "down" /\ hook = 0 /\ change = NoRequest
  /\ sawHook = FALSE /\ notifying = FALSE
  /\ NoLoop /\ gen = 0
  /\ D!DispatcherInit
  /\ expired = {} /\ dropped = {} /\ trimmed = {} /\ aged = 0

(* startWebhookDeliveryLocked: a fresh loop if there is a webhook; the     *)
(* state of the previous one is gone either way.                           *)
StartDelivery(webhook) ==
  /\ IF webhook = 0
     THEN pc' = "none" /\ live' = {} /\ conns' = 0 /\ UNCHANGED gen
     ELSE /\ pc' = "load" /\ gen' = gen + 1 /\ live' = {gen'}
          /\ conns' = NormalizeConnections(webhook)
  /\ wake' = FALSE /\ tail' = 0 /\ queued' = {} /\ loaded' = {} /\ sending' = {}
  /\ delivered' = {} /\ backoff' = {} /\ inFlight' = 0 /\ results' = <<>>

-----------------------------------------------------------------------------
(* The update worker (processUpdates).                                     *)

(* A batch begins: the webhook URL is read once for all of its updates.    *)
BeginBatch ==
  /\ bot # "down" /\ ~notifying
  /\ sawHook' = (hook # 0)
  /\ UNCHANGED <<redisVars, botVars, notifying, loopVars, dispatcherVars, lossVars, aged>>

AppendNext ==
  /\ bot # "down" /\ ~notifying /\ lastID < MaxUpdates
  /\ lastID' = lastID + 1
  /\ stream' \in AppendUpdate(stream, lastID + 1, MaxStreamLen)
  /\ trimmed' = trimmed \cup (stream \ stream')
  /\ notifying' = sawHook
  /\ UNCHANGED <<redisHook, botVars, sawHook, loopVars, dispatcherVars,
                 expired, dropped, aged>>

(* notifyWebhookDelivery: waits for webhookMu, leaves one token.           *)
Notify ==
  /\ notifying /\ change = NoRequest
  /\ notifying' = FALSE
  /\ wake' = (pc # "none")
  /\ UNCHANGED <<redisVars, botVars, sawHook, pc, gen, live, conns, entryVars,
                 results, dispatcherVars, lossVars, aged>>

-----------------------------------------------------------------------------
(* SetWebhook, DeleteWebhook and Stop hold webhookMu throughout: they      *)
(* cancel the loop's context, wait for the loop to end, and go on.         *)
BeginChange(r) ==
  /\ bot = "up" /\ change = NoRequest
  /\ gen < MaxContexts
  /\ change' = r
  /\ live' = {}
  /\ UNCHANGED <<redisVars, bot, hook, producerVars, pc, gen, wake, conns,
                 entryVars, results, dispatcherVars, lossVars, aged>>

DropPending(wanted) ==
  \/ /\ wanted
     /\ stream' = DropPendingUpdates
     /\ dropped' = dropped \cup stream
  \/ /\ wanted => Fails("drop")
     /\ UNCHANGED <<stream, dropped>>

(* The new configuration is written to Redis before memory.  A failed      *)
(* write changes nothing, a lost reply changes Redis only; both leave the  *)
(* old configuration running and skip the drop.                            *)
ChangeWebhook(webhook) ==
  /\ pc = "none"
  /\ change' = NoRequest
  /\ \/ /\ redisHook' = webhook /\ hook' = webhook
        /\ DropPending(change.drop)
     \/ /\ Fails("save")
        /\ redisHook' \in {redisHook, webhook}
        /\ UNCHANGED <<hook, stream, dropped>>
  /\ StartDelivery(hook')
  /\ UNCHANGED <<lastID, bot, producerVars, dispatcherVars, expired, trimmed, aged>>

SetWebhook ==
  change.op = "set" /\ ChangeWebhook(NormalizeConnections(change.conns))

DeleteWebhook == change.op = "delete" /\ ChangeWebhook(0)

StopBot ==
  /\ change.op = "stop" /\ pc = "none"
  /\ change' = NoRequest /\ bot' = "stopped"
  /\ UNCHANGED <<redisVars, hook, producerVars, loopVars, dispatcherVars, lossVars, aged>>

(* Start of an instance: the configuration comes from Redis; a failed read *)
(* is ignored and leaves the instance without a webhook.                   *)
StartBot ==
  /\ bot # "up" /\ gen < MaxContexts
  /\ bot' = "up" /\ change' = NoRequest
  /\ hook' = redisHook \/ (Fails("restore") /\ hook' = 0)
  /\ sawHook' = FALSE /\ notifying' = FALSE
  /\ StartDelivery(hook')
  /\ UNCHANGED <<redisVars, dispatcherVars, lossVars, aged>>

Crash ==
  /\ bot # "down" /\ gen < MaxContexts
  /\ bot' = "down" /\ hook' = 0 /\ change' = NoRequest
  /\ sawHook' = FALSE /\ notifying' = FALSE
  /\ StartDelivery(0)
  /\ D!ProcessDies
  /\ UNCHANGED <<redisVars, lossVars, aged>>

-----------------------------------------------------------------------------
(* The delivery loop (webhookDelivery.run).                                *)

(* Mutant: the loop waits for its reports before it ends.                  *)
ExitLoopAfterReports ==
  /\ pc = "load" /\ live = {} /\ inFlight = 0
  /\ StartDelivery(0)
  /\ UNCHANGED <<redisVars, botVars, producerVars, dispatcherVars, lossVars, aged>>

(* ctx.Err() # nil at the top of the loop: run returns and closes done.  A *)
(* loop cancelled inside load passes dispatch and select without effect.   *)
ExitLoop ==
  /\ pc = "load" /\ live = {}
  /\ StartDelivery(0)
  /\ UNCHANGED <<redisVars, botVars, producerVars, dispatcherVars, lossVars, aged>>

LoadFrame == UNCHANGED <<redisVars, botVars, producerVars, gen, live, wake, conns,
                         sending, delivered, backoff, inFlight, results,
                         dispatcherVars, lossVars, aged>>

Page == ReadUpdatesAfter(stream, tail, MaxLoaded - Cardinality(loaded), PageSize)

(* One page of load; a short page ends it.  Entries that cannot be decoded *)
(* are passed over and stay in the stream.                                 *)
LoadPage ==
  /\ pc = "load" /\ live # {}
  /\ Cardinality(loaded) < MaxLoaded
  /\ \E last \in 0..MaxUpdates :
        /\ IF Page = {} THEN last = tail
           ELSE last \in Page /\ \A e \in Page : e <= last
        /\ tail' = last
  /\ loaded' = loaded \cup (Page \ Unreadable)
  /\ queued' = queued \cup (Page \ Unreadable)
  /\ pc' = IF Cardinality(Page) < PageSize THEN "dispatch" ELSE "load"
  /\ LoadFrame

EndLoad ==
  /\ pc = "load" /\ live # {}
  /\ Cardinality(loaded) >= MaxLoaded \/ Fails("read")
  /\ pc' = "dispatch"
  /\ UNCHANGED <<tail, queued, loaded>>
  /\ LoadFrame

(* remove: the entry leaves the stream, the map and the front of its       *)
(* queue; if Redis fails, or its reply is lost, the entry is retried.      *)
Removed(u) ==
  /\ stream' = AckUpdate(stream, u)
  /\ loaded' = loaded \ {u}
  /\ queued' = IF IsHead(u) THEN queued \ {u} ELSE queued
  /\ sending' = sending \ {u}
  /\ delivered' = delivered \ {u}
  /\ UNCHANGED backoff

NotRemoved(u) ==
  /\ Fails("ack") \/ live = {}
  /\ stream' \in {stream, AckUpdate(stream, u)}
  /\ sending' = sending \ {u}
  /\ backoff' = backoff \cup {u}
  /\ UNCHANGED <<loaded, queued>>

DispatchFrame == UNCHANGED <<lastID, redisHook, botVars, producerVars, pc, gen,
                             live, wake, conns, tail, dropped, trimmed, aged>>

(* Mutants: any entry of a queue is sent; an entry is sent again at once.  *)
MayServeAny(u) ==
  /\ live # {} /\ inFlight < conns
  /\ u \in queued /\ u \notin sending /\ u \notin backoff

MayServeAgain(u) ==
  /\ live # {} /\ inFlight < conns
  /\ IsHead(u) /\ u \notin backoff

(* A queue is served if its head is neither in flight nor backing off, up  *)
(* to maxConns deliveries at a time, while the context is live.            *)
MayServe(u) ==
  /\ live # {} /\ inFlight < conns
  /\ IsHead(u) /\ u \notin sending /\ u \notin backoff

(* Mutant: no expiry.                                                      *)
ExpiredNever(u) == FALSE

Expired(u) == u <= aged

(* The head was delivered before but could not be removed, or it is a day  *)
(* old: it is removed, not sent.                                           *)
DropHead(u) ==
  /\ pc = "dispatch" /\ MayServe(u)
  /\ u \in delivered \/ Expired(u)
  /\ \/ Removed(u)
     \/ NotRemoved(u) /\ UNCHANGED delivered
  /\ expired' = IF u \in delivered \/ u \in stream' THEN expired ELSE expired \cup {u}
  /\ UNCHANGED <<inFlight, results, dispatcherVars>>
  /\ DispatchFrame

(* send: hand the head to the dispatcher; if its queue is full, the error  *)
(* is reported at once, from this goroutine.                               *)
SendHead(u) ==
  /\ pc = "dispatch" /\ MayServe(u)
  /\ u \notin delivered /\ ~Expired(u)
  /\ sending' = sending \cup {u}
  /\ inFlight' = inFlight + 1
  /\ \/ D!EnqueueTask([ctx |-> gen, id |-> u]) /\ UNCHANGED results
     \/ /\ D!QueueFull
        /\ Len(results) < conns
        /\ results' = Append(results, [id |-> u, outcome |-> "error"])
        /\ UNCHANGED dispatcherVars
  /\ UNCHANGED <<stream, queued, loaded, delivered, backoff, expired>>
  /\ DispatchFrame

LoopGoes(from, to) ==
  /\ pc = from /\ pc' = to
  /\ UNCHANGED <<redisVars, botVars, producerVars, gen, live, conns, entryVars,
                 results, dispatcherVars, lossVars, aged>>

EndDispatch ==
  /\ \A u \in queued : ~MayServe(u)
  /\ LoopGoes("dispatch", "select") /\ UNCHANGED wake

(* The select: a wake-up token, the timer (at most webhookMaxRetryDelay)   *)
(* or the end of the context; a result is taken by the actions below.      *)
TakeWake == wake /\ LoopGoes("select", "drain") /\ wake' = FALSE

(* Mutant: a select without a timer.                                       *)
TimerNever == live = {} /\ LoopGoes("select", "drain") /\ UNCHANGED wake

TimerFires == LoopGoes("select", "drain") /\ UNCHANGED wake

EndDrain == results = <<>> /\ LoopGoes("drain", "load") /\ UNCHANGED wake

TakeResult ==
  /\ pc \in {"select", "drain"} /\ results # <<>>
  /\ results' = Tail(results)
  /\ pc' = "drain"
  /\ UNCHANGED <<lastID, redisHook, botVars, producerVars, gen, live, wake, conns,
                 tail, dispatcherVars, lossVars, aged>>

(* complete; a result of an entry that is not in flight is ignored.        *)
InFlight(u) == u \in loaded \cap sending

(* Mutants: a failed update is given up; a failure frees no slot.          *)
CompleteErrorGivesUp ==
  /\ TakeResult
  /\ Head(results).outcome = "error"
  /\ Removed(Head(results).id)
  /\ inFlight' = inFlight - 1

CompleteErrorKeepsSlot ==
  /\ TakeResult
  /\ Head(results).outcome = "error"
  /\ sending' = sending \ {Head(results).id}
  /\ backoff' = backoff \cup {Head(results).id}
  /\ UNCHANGED <<stream, queued, loaded, delivered, inFlight>>

CompleteError ==
  /\ TakeResult
  /\ Head(results).outcome = "error"
  /\ LET u == Head(results).id IN
     IF InFlight(u)
     THEN /\ sending' = sending \ {u}
          /\ backoff' = backoff \cup {u}
          /\ inFlight' = inFlight - 1
     ELSE UNCHANGED <<sending, backoff, inFlight>>
  /\ UNCHANGED <<stream, queued, loaded, delivered>>

CompleteSuccess ==
  /\ TakeResult
  /\ Head(results).outcome = "ok"
  /\ LET u == Head(results).id IN
     IF InFlight(u)
     THEN /\ Removed(u) \/ (NotRemoved(u) /\ delivered' = delivered \cup {u})
          /\ inFlight' = inFlight - 1
     ELSE UNCHANGED <<stream, queued, loaded, sending, delivered, backoff, inFlight>>

(* retryAt passes.  dispatch reads the clock once: a delay (or a day) that *)
(* ends during a pass is one that ends after it, so this has more          *)
(* behaviours than the code, not fewer.                                    *)
RetryDue(u) ==
  /\ u \in backoff
  /\ backoff' = backoff \ {u}
  /\ UNCHANGED <<redisVars, botVars, producerVars, pc, gen, live, wake, conns, tail,
                 queued, loaded, sending, delivered, inFlight, results,
                 dispatcherVars, lossVars, aged>>

-----------------------------------------------------------------------------
(* The dispatcher.  A worker's report goes to the results channel of the   *)
(* loop that enqueued the task, unless that loop's context is cancelled.   *)
Report(task, outcome) ==
  IF task.ctx \in live
  THEN /\ Len(results) < conns
       /\ results' = Append(results, [id |-> task.id, outcome |-> outcome])
  ELSE UNCHANGED results

DispatcherFrame == UNCHANGED <<redisVars, botVars, producerVars, pc, gen, live, wake,
                               conns, entryVars, lossVars, aged>>

ReportSuccess(w) ==
  D!Succeeds(w) /\ Report(worker[w].task, "ok") /\ DispatcherFrame

(* Mutant: the callbacks are mixed up.                                     *)
ReportErrorAsSuccess(w) ==
  D!Fails(w) /\ Report(worker[w].task, "ok") /\ DispatcherFrame

ReportError(w) ==
  D!Fails(w) /\ Report(worker[w].task, "error") /\ DispatcherFrame

DispatcherStep == D!SilentStep /\ UNCHANGED results /\ DispatcherFrame

(* Time passes: the oldest update becomes a day old.                       *)
Age ==
  /\ aged < lastID /\ aged < MaxAged
  /\ aged' = aged + 1
  /\ UNCHANGED <<redisVars, botVars, producerVars, loopVars, dispatcherVars, lossVars>>

-----------------------------------------------------------------------------
Producer == BeginBatch \/ AppendNext \/ Notify

Control ==
  \/ \E r \in Requests : BeginChange(r)
  \/ SetWebhook \/ DeleteWebhook \/ StopBot \/ StartBot \/ Crash

Loop ==
  \/ ExitLoop \/ LoadPage \/ EndLoad
  \/ \E u \in queued : DropHead(u) \/ SendHead(u)
  \/ EndDispatch \/ TakeWake \/ TimerFires \/ EndDrain
  \/ CompleteError \/ CompleteSuccess

Dispatching ==
  \/ \E w \in Workers : ReportSuccess(w) \/ ReportError(w)
  \/ DispatcherStep

Next == Producer \/ Control \/ Loop \/ (\E u \in backoff : RetryDue(u))
        \/ Dispatching \/ Age

Spec == Init /\ [][Next]_vars

-----------------------------------------------------------------------------
(* Properties.                                                             *)

(* Types of the variables, the capacities of the queues, and a context left *)
(* for the loop that a configuration call in progress may start.           *)
RedisTypeOK ==
  /\ stream \subseteq Updates /\ lastID \in 0..MaxUpdates /\ redisHook \in Nat
  /\ expired \subseteq Updates /\ dropped \subseteq Updates /\ trimmed \subseteq Updates
  /\ aged \in 0..MaxUpdates

BotTypeOK ==
  /\ bot \in {"up", "stopped", "down"} /\ hook \in Nat
  /\ change \in Requests \cup {NoRequest}
  /\ change # NoRequest => gen < MaxContexts
  /\ sawHook \in BOOLEAN /\ notifying \in BOOLEAN

EntryTypeOK ==
  /\ tail \in 0..MaxUpdates /\ inFlight \in Int
  /\ queued \subseteq Updates /\ loaded \subseteq Updates
  /\ sending \subseteq Updates /\ delivered \subseteq Updates /\ backoff \subseteq Updates

Result == [id : Updates, outcome : {"ok", "error"}]

LoopTypeOK ==
  /\ pc \in {"none", "load", "dispatch", "select", "drain"}
  /\ gen \in 0..MaxContexts /\ live \subseteq {gen} \cap Contexts
  /\ wake \in BOOLEAN /\ conns \in 0..MaxConnections
  /\ results \in Seq(Result) /\ Len(results) <= conns

TypeOK == RedisTypeOK /\ BotTypeOK /\ EntryTypeOK /\ LoopTypeOK /\ D!DispatcherTypeOK

(* Updates that need no delivery any more.                                 *)
Settled == accepted \cup expired \cup dropped \cup trimmed

(* "An update leaves the stream only after the application accepted it, so *)
(* failures and restarts never lose it" (webhook_delivery.go:130), but for *)
(* the day-old, the dropped on request and the trimmed.                    *)
NoSilentLoss == 1..lastID \subseteq stream \cup Settled

(* Updates of one chat are first accepted strictly in order, across        *)
(* retries, time-outs, configuration changes, crashes and late requests:   *)
(* whatever comes before an accepted update is settled.                    *)
Before(u) == {v \in Readable : v < u /\ SameQueue(v, u)}
ChatOrder == \A u \in accepted : Before(u) \subseteq Settled

(* Tasks of the running loop that the dispatcher holds.                    *)
BusyLive == {w \in Workers : worker[w] # D!Idle /\ worker[w].task.ctx \in live}
QueuedLive == {i \in DOMAIN taskQueue : taskQueue[i].ctx \in live}
LiveIds == {worker[w].task.id : w \in BusyLive} \cup {taskQueue[i].id : i \in QueuedLive}

(* "Every in-flight task reports exactly once, so this buffer never blocks *)
(* a report" (webhook_delivery.go:153): while the loop runs, d.inFlight    *)
(* counts exactly the tasks whose report is still to be consumed, and they *)
(* fit max_connections, the capacity of the buffer.                        *)
EveryReportHasRoom ==
  live # {} =>
    /\ inFlight = Cardinality(BusyLive) + Cardinality(QueuedLive) + Len(results)
    /\ inFlight = Cardinality(sending)
    /\ inFlight <= conns

(* "The next one is sent only after the previous one was accepted": the    *)
(* running loop has at most one request per chat queue under way, for the  *)
(* oldest update it still holds of that queue, and "an acknowledgement     *)
(* failure must not resend a delivered update" (webhook_delivery.go:222).  *)
OnePerQueue ==
  /\ \A u \in LiveIds : IsHead(u) /\ u \notin delivered
  /\ LiveIds \subseteq sending

-----------------------------------------------------------------------------
(* Fairness: goroutines are scheduled, a back-off ends, Redis and an       *)
(* application that is asked again and again answer in time at some point. *)
(* Nothing is assumed of appends, of configuration calls or of the passing *)
(* of days.                                                                *)
Fairness ==
  /\ WF_vars(Loop) /\ WF_vars(TimerFires) /\ WF_vars(Notify)
  /\ WF_vars(SetWebhook \/ DeleteWebhook \/ StopBot) /\ WF_vars(StartBot)
  /\ SF_vars(LoadPage)
  /\ \A u \in Updates :
        /\ WF_vars(RetryDue(u))
        /\ SF_vars(SendHead(u))
        /\ SF_vars((DropHead(u) \/ CompleteSuccess) /\ Removed(u))
  /\ \A w \in Workers :
        /\ WF_vars(D!TakeTask(w) /\ DispatcherStep)
        /\ WF_vars(ReportError(w)) /\ SF_vars(ReportSuccess(w))
        /\ SF_vars(D!AppAccepts(w) /\ DispatcherStep)

FairSpec == Spec /\ Fairness

(* "A failing update delays only its own chat" (webhook_delivery.go:136),  *)
(* and its chat for a day at most: if the bot keeps running with a webhook *)
(* and is left alone, an update leaves the stream, unless it is refused,   *)
(* or behind a refused one in its queue, for less than a day.  Missed      *)
(* wake-ups (the batch began before setWebhook, the worker belonged to     *)
(* another instance), crashes and failing calls only delay it.             *)
Undisturbed == bot = "up" /\ hook # 0 /\ change = NoRequest
Blocked(u) == \E v \in (Before(u) \cup {u}) \cap Refused : v > aged
Delivers(u) == <>[]~Blocked(u) => []<>(u \notin stream)
EventuallySettled == <>[]Undisturbed => \A u \in Readable : Delivers(u)

(* The same for a webhook that is stored in Redis, "the source of truth"   *)
(* (webhook_delivery.go:130), whether the instance knows of it or not.     *)
StoredWebhookDelivers ==
  <>[](bot = "up" /\ redisHook # 0 /\ change = NoRequest)
     => \A u \in Readable : Delivers(u)

(* setWebhook, deleteWebhook and Stop return: the loop they wait for never *)
(* hangs on the dispatcher or on a report.                                 *)
ChangeReturns == (change # NoRequest) ~> (change = NoRequest)

(* The promise to the owner of the bot (module WebhookPromise).            *)
Promise == INSTANCE WebhookPromise WITH
  QueueOf <- WebhookQueueKey, published <- lastID,
  delivered <- accepted, discarded <- expired \cup dropped \cup trimmed
KeepsPromise == Promise!PromiseSpec
=============================================================================
