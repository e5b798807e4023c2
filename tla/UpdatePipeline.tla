--------------------------- MODULE UpdatePipeline ---------------------------
(***************************************************************************)
(* How an update gets from Telegram into the stream of a bot: the          *)
(* connection's handlers push it into the intake, the feeder hands it to   *)
(* the gap manager, which puts updates in order, fetches missed ones and   *)
(* calls Handle; the update worker gives each update its update_id and     *)
(* appends it (internal/botmanager/gaps.go, updates_pipeline.go, and       *)
(* processUpdates in bot.go).  Instances of a bot follow each other,       *)
(* within a process or over restarts; what they share is Redis.            *)
(*                                                                         *)
(* Telegram numbers its updates; the pts of an update is its number.       *)
(* `Unsequenced' updates have neither pts nor qts, `Silent' ones yield no  *)
(* Bot API update (own messages, affected-messages results, stale or       *)
(* replayed ones), converting a `Poisoned' one panics.  A batch is a set   *)
(* of updates that is processed in the order of the numbers.               *)
(*                                                                         *)
(* gotd's gap manager is modelled from how this code uses it.  Left out:   *)
(* channels with a pts of their own, peers, the first connection of a bot  *)
(* (no stored state), notifications of consumers, metrics, logging.        *)
(***************************************************************************)
EXTENDS Naturals, Sequences, FiniteSets

CONSTANTS
  MaxUpdates,       \* bound: updates Telegram sends
  MaxInstances,     \* bound: instances of the bot, one after the other
  MaxDrops,         \* bound: connections that break, runs that are cancelled
  Unsequenced, Silent, Poisoned,
  IntakeMaxItems,   \* intakeMaxItems (100_000 in the code)
  GapQueueSize,     \* updates the gap manager accepts before Push waits
  UpdateQueueSize,  \* updateQueueSize (4096 in the code)
  RetryAttempts,    \* attempts of retryRedis (8 in the code)
  RedisFaults,      \* what Redis may do wrong
  Resets            \* a bot may be stopped and started within a process

Updates == 1..MaxUpdates
Instances == 1..MaxInstances
Callers == {"gap", "feeder"}
FaultKinds == {"id", "id reply", "append", "append reply", "pts"}

ASSUME PipelineAssumption ==
  /\ MaxUpdates \in Nat /\ MaxInstances \in Nat \ {0} /\ MaxDrops \in Nat
  /\ Unsequenced \subseteq Updates /\ Silent \subseteq Updates
  /\ Poisoned \subseteq Updates
  /\ IntakeMaxItems \in Nat \ {0} /\ GapQueueSize \in Nat \ {0}
  /\ UpdateQueueSize \in Nat \ {0} /\ RetryAttempts \in Nat \ {0}
  /\ RedisFaults \subseteq FaultKinds
  /\ Resets \in BOOLEAN

VARIABLES
  \* Telegram and the connection
  sent,       \* updates 1..sent happened
  conn,       \* "down", "up", "broken", or "closing": the run is cancelled
  drops,      \* how often it broke or the run was cancelled
  arriving,   \* updates in handlers of the connection, before push
  \* the instance of the bot
  inst,       \* its number
  life,       \* "up", "cancelled" and "stopped" (in Stop), "gone" (no process)
  known,      \* instances whose botID is set
  \* the intake
  intake,     \* q.items
  wake,       \* token in q.wake
  feeder,     \* where runIntake is: "pop", "items", "busy", "wait", "ended"
  items,      \* the items it popped and has not handed over
  \* the gap manager
  gap,        \* it runs
  gapQueue,   \* updates it accepted
  pending,    \* updates after a gap
  sync,       \* getDifference: "no", "asked", or "dead": its connection broke
  pts,        \* its pts
  storing,    \* the pts to store when Handle returns, 0 for none
  \* Handle and the update workers, for each instance
  handing,    \* the batch a caller of Handle has in its hands, {} for none
  channel,    \* b.updatesCh
  quit,       \* b.updatesQuit is closed
  due,        \* what was queued when it was closed
  worker,     \* what the update worker is doing
  \* Redis
  nextID,     \* the update_id counter
  stream,     \* every entry ever appended, in order
  storedPts,
  \* what happened to updates that did not get into the stream
  lost,       \* reported in the log: a panic, all attempts failed, too many missed
  forgotten   \* in memory when the process ended

connVars == <<sent, conn, drops, arriving>>
instVars == <<inst, life, known>>
intakeVars == <<intake, wake, feeder, items>>
gapVars == <<gap, gapQueue, pending, sync, pts, storing>>
queueVars == <<handing, channel, quit, due>>
redisVars == <<nextID, stream, storedPts>>
lossVars == <<lost, forgotten>>
vars == <<connVars, instVars, intakeVars, gapVars, queueVars, worker, redisVars, lossVars>>

-----------------------------------------------------------------------------
Idle == [at |-> "wait", batch |-> {}, uid |-> 0, failed |-> 0]
First(S) == CHOOSE u \in S : \A v \in S : u <= v
Last(S) == CHOOSE u \in S : \A v \in S : u >= v
SetOf(seq) == {seq[k] : k \in DOMAIN seq}

Sequenced == Updates \ Unsequenced
Appended == {stream[k].update : k \in DOMAIN stream}
Missing == {u \in Sequenced : pts < u /\ u <= sent}

(* The context of one run of the client is not done.                       *)
RunLive == conn \in {"up", "broken"}
Fails(operation) == operation \in RedisFaults

Init ==
  /\ sent = 0 /\ conn = "down" /\ drops = 0 /\ arriving = {}
  /\ inst = 1 /\ life = "up" /\ known = {}
  /\ intake = <<>> /\ wake = FALSE /\ feeder = "pop" /\ items = <<>>
  /\ gap = FALSE /\ gapQueue = <<>> /\ pending = {} /\ sync = "no"
  /\ pts = 0 /\ storing = 0
  /\ handing = [i \in Instances |-> [c \in Callers |-> {}]]
  /\ channel = [i \in Instances |-> <<>>]
  /\ quit = [i \in Instances |-> FALSE]
  /\ due = [i \in Instances |-> {}]
  /\ worker = [i \in Instances |-> Idle]
  /\ nextID = 0 /\ stream = <<>> /\ storedPts = 0
  /\ lost = {} /\ forgotten = {}

-----------------------------------------------------------------------------
(* Telegram and the connection.                                            *)

(* An update happens.  It is pushed over the connection, or missed.        *)
TelegramSends ==
  /\ sent < MaxUpdates
  /\ sent' = sent + 1
  /\ \/ conn = "up" /\ arriving' = arriving \cup {sent'}
     \/ UNCHANGED arriving
  /\ UNCHANGED <<conn, drops, instVars, intakeVars, gapVars, queueVars, worker, redisVars, lossVars>>

(* The client loop of Start runs the client.                               *)
Connect ==
  /\ life = "up" /\ conn = "down"
  /\ conn' = "up"
  /\ UNCHANGED <<sent, drops, arriving, instVars, intakeVars, gapVars, queueVars, worker, redisVars, lossVars>>

(* The client callback learns the identity of the bot.                     *)
Authorize ==
  /\ conn = "up" /\ inst \notin known
  /\ known' = known \cup {inst}
  /\ UNCHANGED <<connVars, inst, life, intakeVars, gapVars, queueVars, worker, redisVars, lossVars>>

(* The connection breaks; what was asked over it is not answered any more. *)
ConnectionBreaks ==
  /\ conn = "up" /\ drops < MaxDrops
  /\ conn' = "broken" /\ drops' = drops + 1
  /\ sync' = IF sync = "asked" THEN "dead" ELSE sync
  /\ UNCHANGED <<sent, arriving, instVars, intakeVars, gap, gapQueue, pending, pts, storing, queueVars, worker, redisVars, lossVars>>

(* The client connects again when the handlers of the old connection have  *)
(* returned.                                                               *)
Reconnect ==
  /\ conn = "broken" /\ arriving = {}
  /\ conn' = "up"
  /\ UNCHANGED <<sent, drops, arriving, instVars, intakeVars, gapVars, queueVars, worker, redisVars, lossVars>>

(* The run is cancelled, by restartClient of the watchdog or by an error.  *)
RunCancelled ==
  /\ RunLive /\ drops < MaxDrops
  /\ conn' = "closing" /\ drops' = drops + 1
  /\ UNCHANGED <<sent, arriving, instVars, intakeVars, gapVars, queueVars, worker, redisVars, lossVars>>

(* It ends when its handlers and the gap manager have returned.            *)
RunEnds ==
  /\ conn = "closing" /\ arriving = {} /\ ~gap
  /\ conn' = "down"
  /\ UNCHANGED <<sent, drops, arriving, instVars, intakeVars, gapVars, queueVars, worker, redisVars, lossVars>>

(* Mutant: the handler calls the gap manager itself.                       *)
PushDirect(u) ==
  /\ u \in arriving /\ gap /\ Len(gapQueue) < GapQueueSize
  /\ arriving' = arriving \ {u} /\ gapQueue' = Append(gapQueue, u)
  /\ UNCHANGED <<sent, conn, drops, instVars, intakeVars, gap, pending, sync, pts, storing, queueVars, worker, redisVars, lossVars>>

(* Mutant: the intake has no limit.                                        *)
PushUnbounded(u) ==
  /\ u \in arriving
  /\ arriving' = arriving \ {u}
  /\ intake' = Append(intake, u) /\ wake' = TRUE
  /\ UNCHANGED <<sent, conn, drops, instVars, feeder, items, gapVars, queueVars, worker, redisVars, lossVars>>

(* intakeHandler.Handle and push: handlers of different messages run       *)
(* concurrently, and a full intake drops.                                  *)
Push(u) ==
  /\ u \in arriving
  /\ arriving' = arriving \ {u}
  /\ IF Len(intake) >= IntakeMaxItems
     THEN UNCHANGED <<intake, wake>>
     ELSE intake' = Append(intake, u) /\ wake' = TRUE
  /\ UNCHANGED <<sent, conn, drops, instVars, feeder, items, gapVars, queueVars, worker, redisVars, lossVars>>

-----------------------------------------------------------------------------
(* The feeder, runIntake.                                                  *)
Pop ==
  /\ feeder = "pop"
  /\ items' = intake /\ intake' = <<>>
  /\ feeder' = IF intake = <<>> THEN "wait" ELSE "items"
  /\ UNCHANGED <<connVars, instVars, wake, gapVars, queueVars, worker, redisVars, lossVars>>

WaitForWake ==
  /\ feeder = "wait"
  /\ \/ life # "up" /\ feeder' = "ended" /\ UNCHANGED wake
     \/ wake /\ wake' = FALSE /\ feeder' = "pop"
  /\ UNCHANGED <<connVars, instVars, intake, items, gapVars, queueVars, worker, redisVars, lossVars>>

(* After an item: stop if the context is done, else the next item.         *)
NextItem ==
  /\ items' = Tail(items)
  /\ feeder' = IF life # "up" THEN "ended"
               ELSE IF Tail(items) = <<>> THEN "pop" ELSE "items"

(* Push of the running gap manager waits for room in its queue; it returns *)
(* an error, and the item is dropped, when the run ends.                   *)
FeedGapManager ==
  /\ feeder = "items" /\ gap
  /\ \/ /\ Len(gapQueue) < GapQueueSize
        /\ gapQueue' = Append(gapQueue, Head(items))
     \/ ~RunLive /\ UNCHANGED gapQueue
  /\ NextItem
  /\ UNCHANGED <<connVars, instVars, intake, wake, gap, pending, sync, pts, storing, queueVars, worker, redisVars, lossVars>>

(* Without a run, the gap manager passes updates straight to Handle.       *)
FeedHandle ==
  /\ feeder = "items" /\ ~gap
  /\ handing' = [handing EXCEPT ![inst]["feeder"] = {Head(items)}]
  /\ feeder' = "busy"
  /\ UNCHANGED <<connVars, instVars, intake, wake, items, gapVars, channel, quit, due, worker, redisVars, lossVars>>

-----------------------------------------------------------------------------
(* The gap manager.                                                        *)

(* gaps.Run: read the stored state, then fetch what was missed.            *)
GapStarts ==
  /\ conn = "up" /\ inst \in known /\ ~gap
  /\ gap' = TRUE /\ pts' = storedPts /\ sync' = "asked"
  /\ gapQueue' = <<>> /\ pending' = {} /\ storing' = 0
  /\ UNCHANGED <<connVars, instVars, intakeVars, queueVars, worker, redisVars, lossVars>>

GapIdle == gap /\ storing = 0 /\ handing[inst]["gap"] = {}

(* Call Handle with a batch; the pts is stored when it returns.            *)
HandOver(batch, position) ==
  /\ handing' = [handing EXCEPT ![inst]["gap"] = batch]
  /\ storing' = position
  /\ UNCHANGED <<channel, quit, due>>

(* An update without pts is handed over as it is, the next ones with all   *)
(* pending updates that follow, known ones are ignored, later ones wait.   *)
GapReceives ==
  /\ GapIdle /\ sync = "no" /\ gapQueue # <<>>
  /\ gapQueue' = Tail(gapQueue)
  /\ LET u == Head(gapQueue)
         ready == {v \in pending \cup {u} :
                     \A w \in Sequenced : pts < w /\ w <= v => w \in pending \cup {u}}
     IN  \/ u \in Unsequenced /\ HandOver({u}, 0) /\ UNCHANGED pending
         \/ u \in Sequenced /\ u <= pts /\ UNCHANGED <<pending, storing, queueVars>>
         \/ u \in Sequenced /\ u > pts /\
              IF u \in ready
              THEN HandOver(ready, Last(ready)) /\ pending' = pending \ ready
              ELSE pending' = pending \cup {u} /\ UNCHANGED <<storing, queueVars>>
  /\ UNCHANGED <<connVars, instVars, intakeVars, gap, pts, sync, worker, redisVars, lossVars>>

(* A gap that does not close, or the periodic check, starts getDifference. *)
GapTimesOut ==
  /\ conn = "up" /\ GapIdle /\ sync = "no" /\ Missing # {}
  /\ sync' = "asked"
  /\ UNCHANGED <<connVars, instVars, intakeVars, gap, gapQueue, pending, pts, storing, queueVars, worker, redisVars, lossVars>>

(* getDifference answers with all that was missed, or a slice of it.       *)
DifferenceArrives ==
  /\ GapIdle /\ sync = "asked" /\ conn = "up"
  /\ IF Missing = {}
     THEN sync' = "no" /\ UNCHANGED <<pending, storing, queueVars>>
     ELSE \E last \in Missing :
            /\ HandOver({u \in Missing : u <= last}, last)
            /\ pending' = {u \in pending : u > last}
            /\ sync' = IF last = Last(Missing) THEN "no" ELSE "asked"
  /\ UNCHANGED <<connVars, instVars, intakeVars, gap, gapQueue, pts, worker, redisVars, lossVars>>

(* Or it answers differenceTooLong: Telegram skips updates, OnTooLong says *)
(* so in the log, and the gap manager goes on from the pts of the answer.  *)
DifferenceTooLong ==
  /\ GapIdle /\ sync = "asked" /\ conn = "up"
  /\ \E last \in Missing :
       /\ lost' = lost \cup {u \in Missing : u <= last}
       /\ pending' = {u \in pending : u > last}
       /\ pts' = last /\ storedPts' = last
  /\ UNCHANGED <<connVars, instVars, intakeVars, gap, gapQueue, sync, storing, queueVars, worker,
                 nextID, stream, forgotten>>

(* Mutant: no deadline for a request whose connection broke.               *)
DifferenceNeverFails == FALSE

(* It fails, at the latest when updatesSyncTimeout is over.                *)
DifferenceFails ==
  /\ GapIdle /\ sync # "no"
  /\ sync' = "no"
  /\ UNCHANGED <<connVars, instVars, intakeVars, gap, gapQueue, pending, pts, storing, queueVars, worker, redisVars, lossVars>>

(* After Handle returned: SetPts, which needs a live run.                  *)
GapStores ==
  /\ storing # 0 /\ handing[inst]["gap"] = {}
  /\ pts' = storing /\ storing' = 0
  /\ \/ RunLive /\ storedPts' = storing
     \/ (~RunLive \/ Fails("pts")) /\ UNCHANGED storedPts
  /\ UNCHANGED <<connVars, instVars, intakeVars, gap, gapQueue, pending, sync, queueVars, worker, nextID, stream, lossVars>>

(* The run is over.  The gap manager may hand over what it held back, then *)
(* it forgets everything (Reset).                                          *)
GapFlushes ==
  /\ GapIdle /\ ~RunLive /\ pending # {}
  /\ HandOver(pending, Last(pending)) /\ pending' = {}
  /\ UNCHANGED <<connVars, instVars, intakeVars, gap, gapQueue, pts, sync, worker, redisVars, lossVars>>

GapEnds ==
  /\ GapIdle /\ ~RunLive
  /\ gap' = FALSE /\ gapQueue' = <<>> /\ pending' = {} /\ sync' = "no"
  /\ UNCHANGED <<connVars, instVars, intakeVars, pts, storing, queueVars, worker, redisVars, lossVars>>

-----------------------------------------------------------------------------
(* Handle: enqueue, or wait for room until the worker is told to quit or   *)
(* the context is done.  If several are possible, select picks any.        *)
CallerReturns(i, c) ==
  IF c = "feeder" /\ i = inst THEN NextItem ELSE UNCHANGED <<feeder, items>>

HandleEnqueues(i, c) ==
  /\ handing[i][c] # {} /\ Len(channel[i]) < UpdateQueueSize
  /\ channel' = [channel EXCEPT ![i] = Append(@, handing[i][c])]
  /\ handing' = [handing EXCEPT ![i][c] = {}]
  /\ CallerReturns(i, c)
  /\ UNCHANGED <<connVars, instVars, intake, wake, gapVars, quit, due, worker, redisVars, lossVars>>

ContextDone(i, c) ==
  \/ i # inst \/ life # "up"
  \/ c = "gap" /\ ~RunLive

(* Mutant: a full queue drops the batch.                                   *)
HandleDropsWhenFull(i, c) ==
  /\ handing[i][c] # {}
  /\ quit[i] \/ Len(channel[i]) >= UpdateQueueSize
  /\ handing' = [handing EXCEPT ![i][c] = {}]
  /\ CallerReturns(i, c)
  /\ UNCHANGED <<connVars, instVars, intake, wake, gapVars, channel, quit, due, worker, redisVars, lossVars>>

(* Mutant: a plain send to the channel.                                    *)
HandleNeverGivesUp(i, c) == FALSE

HandleGivesUp(i, c) ==
  /\ handing[i][c] # {}
  /\ quit[i] \/ (ContextDone(i, c) /\ Len(channel[i]) >= UpdateQueueSize)
  /\ handing' = [handing EXCEPT ![i][c] = {}]
  /\ CallerReturns(i, c)
  /\ UNCHANGED <<connVars, instVars, intake, wake, gapVars, channel, quit, due, worker, redisVars, lossVars>>

-----------------------------------------------------------------------------
(* The update worker, runUpdateWorker, processQueued and processUpdates.   *)

(* The rest of the batch, or the next batch.                               *)
Proceed(i, batch) ==
  worker' = [worker EXCEPT ![i] =
    IF batch = {} THEN Idle
    ELSE [at |-> "id", batch |-> batch, uid |-> 0, failed |-> 0]]

(* Mutant: a panic ends the worker.                                        *)
TakeBatchDies(i) ==
  /\ worker[i].at = "wait" /\ channel[i] # <<>>
  /\ channel' = [channel EXCEPT ![i] = Tail(@)]
  /\ LET batch == Head(channel[i])
     IN  IF i \notin known
         THEN UNCHANGED <<worker, lost>>
         ELSE IF batch \cap Poisoned # {}
         THEN lost' = lost \cup batch /\ worker' = [worker EXCEPT ![i].at = "ended"]
         ELSE Proceed(i, batch \ Silent) /\ UNCHANGED lost
  /\ UNCHANGED <<connVars, instVars, intakeVars, gapVars, handing, quit, due, redisVars, forgotten>>

(* Take a batch.  Nothing is done with it before the bot knows its own ID; *)
(* a panic in the conversion is recovered and loses the batch.             *)
TakeBatch(i) ==
  /\ worker[i].at = "wait" /\ channel[i] # <<>>
  /\ channel' = [channel EXCEPT ![i] = Tail(@)]
  /\ LET batch == Head(channel[i])
     IN  IF i \notin known
         THEN UNCHANGED <<worker, lost>>
         ELSE IF batch \cap Poisoned # {}
         THEN lost' = lost \cup batch /\ UNCHANGED worker
         ELSE Proceed(i, batch \ Silent) /\ UNCHANGED lost
  /\ UNCHANGED <<connVars, instVars, intakeVars, gapVars, handing, quit, due, redisVars, forgotten>>

(* retryRedis: one more failure; after the last attempt the update is lost *)
(* and the worker goes on with the next one.                               *)
AttemptFails(i) ==
  LET w == worker[i]
  IN  IF w.failed + 1 < RetryAttempts
      THEN worker' = [worker EXCEPT ![i].failed = @ + 1] /\ UNCHANGED lost
      ELSE Proceed(i, w.batch \ {First(w.batch)}) /\ lost' = lost \cup {First(w.batch)}

(* nextUpdateID: INCR, whose reply may get lost.                           *)
AllocateID(i) ==
  /\ worker[i].at = "id"
  /\ \/ /\ nextID' = nextID + 1
        /\ worker' = [worker EXCEPT ![i].at = "append", ![i].uid = nextID', ![i].failed = 0]
        /\ UNCHANGED lost
     \/ Fails("id") /\ UNCHANGED nextID /\ AttemptFails(i)
     \/ Fails("id reply") /\ nextID' = nextID + 1 /\ AttemptFails(i)
  /\ UNCHANGED <<connVars, instVars, intakeVars, gapVars, queueVars, stream, storedPts, forgotten>>

(* appendUpdate: XADD, whose reply may get lost as well.                   *)
AppendUpdate(i) ==
  /\ worker[i].at = "append"
  /\ LET u == First(worker[i].batch)
         grown == Append(stream, [uid |-> worker[i].uid, update |-> u])
     IN  \/ stream' = grown /\ Proceed(i, worker[i].batch \ {u}) /\ UNCHANGED lost
         \/ Fails("append") /\ UNCHANGED stream /\ AttemptFails(i)
         \/ Fails("append reply") /\ stream' = grown /\ AttemptFails(i)
  /\ UNCHANGED <<connVars, instVars, intakeVars, gapVars, queueVars, nextID, storedPts, forgotten>>

(* Mutant: the worker returns without draining the channel.                *)
WorkerReturnsAtOnce(i) ==
  /\ worker[i].at = "wait" /\ quit[i]
  /\ worker' = [worker EXCEPT ![i].at = "ended"]
  /\ UNCHANGED <<connVars, instVars, intakeVars, gapVars, queueVars, redisVars, lossVars>>

(* Told to quit, and the channel is empty.                                 *)
WorkerReturns(i) ==
  /\ worker[i].at = "wait" /\ quit[i] /\ channel[i] = <<>>
  /\ worker' = [worker EXCEPT ![i].at = "ended"]
  /\ UNCHANGED <<connVars, instVars, intakeVars, gapVars, queueVars, redisVars, lossVars>>

-----------------------------------------------------------------------------
(* Stop: first the context is cancelled, then the worker is told to quit.  *)
OnItsWay(i) == (UNION SetOf(channel[i])) \cup worker[i].batch

StopCancels ==
  /\ life = "up" /\ inst < MaxInstances
  /\ life' = "cancelled"
  /\ conn' = IF RunLive THEN "closing" ELSE conn
  /\ UNCHANGED <<sent, drops, arriving, inst, known, intakeVars, gapVars, queueVars, worker, redisVars, lossVars>>

StopQuits ==
  /\ life = "cancelled"
  /\ life' = "stopped"
  /\ quit' = [quit EXCEPT ![inst] = TRUE]
  /\ due' = [due EXCEPT ![inst] = IF inst \in known THEN OnItsWay(inst) ELSE {}]
  /\ UNCHANGED <<connVars, inst, known, intakeVars, gapVars, handing, channel, worker, redisVars, lossVars>>

(* A new instance: nothing of the old one matters but its calls of Handle, *)
(* which may include a last flush of its gap manager, and its worker.      *)
NewInstance ==
  /\ inst' = inst + 1 /\ life' = "up"
  /\ conn' = "down" /\ arriving' = {}
  /\ intake' = <<>> /\ wake' = FALSE /\ feeder' = "pop" /\ items' = <<>>
  /\ gap' = FALSE /\ gapQueue' = <<>> /\ pending' = {} /\ sync' = "no"
  /\ pts' = 0 /\ storing' = 0

RestartBot ==
  /\ life = "stopped" /\ Resets
  /\ NewInstance
  /\ \/ UNCHANGED handing
     \/ GapIdle /\ pending # {} /\ handing' = [handing EXCEPT ![inst]["gap"] = pending]
  /\ UNCHANGED <<sent, drops, known, channel, quit, due, worker, redisVars, lossVars>>

(* main returns after Stop; it does not wait for the update worker.  A     *)
(* process that is killed is the case in which nothing else happens        *)
(* between StopCancels and here.                                           *)
ProcessEnds ==
  /\ life = "stopped"
  /\ life' = "gone" /\ conn' = "down" /\ arriving' = {}
  /\ forgotten' = forgotten \cup UNION {OnItsWay(i) : i \in Instances}
  /\ handing' = [i \in Instances |-> [c \in Callers |-> {}]]
  /\ channel' = [i \in Instances |-> <<>>]
  /\ due' = [i \in Instances |-> {}]
  /\ worker' = [i \in Instances |-> Idle]
  /\ quit' = [i \in Instances |-> FALSE]
  /\ feeder' = "ended" /\ intake' = <<>> /\ items' = <<>> /\ wake' = FALSE
  /\ gap' = FALSE /\ gapQueue' = <<>> /\ pending' = {} /\ sync' = "no"
  /\ pts' = 0 /\ storing' = 0
  /\ known' = {}
  /\ UNCHANGED <<sent, drops, inst, redisVars, lost>>

(* Mutant: the update_id counter is not persistent.                        *)
StartProcessCountsAnew ==
  /\ life = "gone"
  /\ NewInstance
  /\ nextID' = 0
  /\ UNCHANGED <<sent, drops, known, queueVars, worker, stream, storedPts, lossVars>>

StartProcess ==
  /\ life = "gone"
  /\ NewInstance
  /\ UNCHANGED <<sent, drops, known, queueVars, worker, redisVars, lossVars>>

-----------------------------------------------------------------------------
Connection == TelegramSends \/ Connect \/ Authorize \/ ConnectionBreaks
                \/ Reconnect \/ RunCancelled \/ RunEnds
                \/ \E u \in Updates : Push(u)
Feeder == Pop \/ WaitForWake \/ FeedGapManager \/ FeedHandle
GapManager == GapStarts \/ GapReceives \/ GapTimesOut \/ DifferenceArrives
                \/ DifferenceTooLong \/ DifferenceFails \/ GapStores \/ GapFlushes \/ GapEnds
HandleCall(i, c) == HandleEnqueues(i, c) \/ HandleGivesUp(i, c)
UpdateWorker(i) == TakeBatch(i) \/ AllocateID(i) \/ AppendUpdate(i) \/ WorkerReturns(i)
Process == StopCancels \/ StopQuits \/ RestartBot \/ ProcessEnds \/ StartProcess

Next ==
  \/ Connection \/ Feeder \/ GapManager \/ Process
  \/ \E i \in Instances : UpdateWorker(i) \/ \E c \in Callers : HandleCall(i, c)

Spec == Init /\ [][Next]_vars

(* Goroutines run, connections are made, a stopped bot is started again.   *)
(* Nothing is assumed of the gap manager.                                  *)
StuckSpec ==
  /\ Spec
  /\ WF_vars(Connect) /\ WF_vars(Authorize) /\ WF_vars(Reconnect) /\ WF_vars(RunEnds)
  /\ \A u \in Updates : WF_vars(Push(u))
  /\ WF_vars(Feeder)
  /\ \A i \in Instances : /\ WF_vars(UpdateWorker(i))
                          /\ \A c \in Callers : WF_vars(HandleCall(i, c))
  /\ WF_vars(StopQuits) /\ WF_vars(RestartBot \/ StartProcess)

(* The gap manager runs too: it asks again, a request ends by its timeout, *)
(* and one that is repeated over and over gets an answer.  Redis may fail  *)
(* for ever: its operations are given up, not waited for.                  *)
FairSpec ==
  /\ StuckSpec
  /\ WF_vars(GapStarts) /\ WF_vars(GapReceives) /\ WF_vars(GapTimesOut)
  /\ WF_vars(GapStores) /\ WF_vars(GapEnds)
  /\ SF_vars(DifferenceArrives) /\ WF_vars(DifferenceFails)

-----------------------------------------------------------------------------
TypeOK ==
  /\ sent \in 0..MaxUpdates /\ conn \in {"down", "up", "broken", "closing"}
  /\ drops \in 0..MaxDrops /\ arriving \subseteq Updates
  /\ inst \in Instances /\ life \in {"up", "cancelled", "stopped", "gone"}
  /\ known \subseteq Instances
  /\ intake \in Seq(Updates) /\ Len(intake) <= IntakeMaxItems /\ wake \in BOOLEAN
  /\ feeder \in {"pop", "items", "busy", "wait", "ended"} /\ items \in Seq(Updates)
  /\ gap \in BOOLEAN /\ sync \in {"no", "asked", "dead"} /\ pending \subseteq Updates
  /\ gapQueue \in Seq(Updates) /\ Len(gapQueue) <= GapQueueSize
  /\ pts \in 0..MaxUpdates /\ storing \in 0..MaxUpdates
  /\ handing \in [Instances -> [Callers -> SUBSET Updates]]
  /\ channel \in [Instances -> Seq(SUBSET Updates)]
  /\ \A i \in Instances : Len(channel[i]) <= UpdateQueueSize
  /\ quit \in [Instances -> BOOLEAN] /\ due \in [Instances -> SUBSET Updates]
  /\ worker \in [Instances -> [at : {"wait", "id", "append", "ended"},
                               batch : SUBSET Updates, uid : Nat,
                               failed : 0..RetryAttempts - 1]]
  /\ nextID \in Nat /\ stream \in Seq([uid : Nat, update : Updates])
  /\ storedPts \in 0..MaxUpdates
  /\ lost \subseteq Updates /\ forgotten \subseteq Updates

(* The stored pts never runs ahead of the updates: what it covers is not   *)
(* asked for again, so each such update is in the stream, with a worker    *)
(* that will get to it, reported as lost, or went with the process.  This  *)
(* is why Stop cancels the context before it tells the worker to quit, and *)
(* why Handle, when it drops a batch, may return no error.                 *)
NothingSkipped ==
  \A u \in Sequenced \ Silent : u <= storedPts =>
    \/ u \in Appended \cup lost \cup forgotten
    \/ \E i \in Instances : worker[i].at # "ended" /\ u \in OnItsWay(i)

(* stopUpdateWorker: the worker returns only after it has persisted the    *)
(* batches that were queued.                                               *)
StopPersists ==
  \A i \in Instances : worker[i].at = "ended" => due[i] \ Silent \subseteq Appended \cup lost

(* NextUpdateID counts in Redis, over restarts and for all instances: an   *)
(* update_id names one update, also when it is in the stream twice because *)
(* the reply to an append was lost.                                        *)
IDsAreUnique ==
  \A j, k \in DOMAIN stream :
    stream[j].uid = stream[k].uid => stream[j].update = stream[k].update

(* AckUpdates relies on it: update_ids grow in stream order.               *)
IDsGrowInStreamOrder ==
  \A j, k \in DOMAIN stream : j < k => stream[j].uid <= stream[k].uid

(* After a restart the gap manager fetches what was missed: an update in   *)
(* memory when the process ends is not covered by the stored pts.          *)
RestartFetchesMissed ==
  \A u \in Sequenced \ Silent : u \in forgotten /\ u <= storedPts => u \in Appended \cup lost

(* Every update with a pts gets into the stream, whatever the intake       *)
(* dropped and however often the connection breaks.                        *)
EventuallyPersisted ==
  \A u \in Sequenced \ Silent :
    u <= sent ~> u \in Appended \cup lost \cup forgotten

(* A broken connection is replaced although the gap manager waits for an   *)
(* answer over it: the handlers, for which the read loop waits before it   *)
(* closes, do not wait for the gap manager.                                *)
Reconnects == conn = "broken" ~> conn # "broken"

(* No call of Handle is left waiting for a worker that has gone.           *)
HandleReturns ==
  \A i \in Instances, c \in Callers : handing[i][c] # {} ~> handing[i][c] = {}
=============================================================================
