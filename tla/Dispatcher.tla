----------------------------- MODULE Dispatcher -----------------------------
(***************************************************************************)
(* The process-wide webhook dispatcher (internal/webhook/dispatcher.go): a *)
(* bounded queue of tasks, a pool of workers that POST them, and the       *)
(* applications that answer.  A task is a record with the delivery context *)
(* `ctx' it was enqueued under and the `id' of the update it carries.  The *)
(* callbacks OnSuccess and OnError belong to whoever enqueued the task:    *)
(* the actions below say when a worker calls them, the composing module    *)
(* says what they do.                                                      *)
(*                                                                         *)
(* Left out: HTTP details, logging, metrics, and the marshalling error of  *)
(* sendWebhook (the payload was decoded from JSON a moment before).        *)
(***************************************************************************)
EXTENDS Naturals, Sequences, FiniteSets

CONSTANTS
  Workers,      \* the worker goroutines (500 in cmd/server)
  QueueSize,    \* capacity of the task channel (50_000 in cmd/server)
  MaxAttempts,  \* immediate attempts of one task (3 in the code)
  Ids,          \* updates that tasks carry
  Contexts,     \* delivery contexts
  Refused       \* updates the application's handler never accepts

ASSUME DispatcherAssumption ==
  /\ QueueSize \in Nat \ {0}
  /\ MaxAttempts \in Nat \ {0}

VARIABLES
  taskQueue,    \* d.queue: tasks waiting for a worker, first in, first out
  worker,       \* what each worker is doing
  accepted,     \* updates an application has answered 2xx for, ever
  ghosts,       \* requests a worker gave up on, that an application may still process
  live          \* contexts that are not cancelled

dispatcherVars == <<taskQueue, worker, accepted, ghosts>>

Task == [ctx : Contexts, id : Ids]

(* A worker is idle, has a request on the wire, or sleeps before it tries  *)
(* again.  `answer' is what the application did with the request, which    *)
(* the worker has not seen yet.                                            *)
Idle == [phase |-> "idle"]
Answers == {"none", "accepted", "rejected"}
Busy == [phase : {"posting", "sleeping"}, task : Task,
         attempt : 1..MaxAttempts, answer : Answers]

Posting(task, attempt) ==
  [phase |-> "posting", task |-> task, attempt |-> attempt, answer |-> "none"]

Live(task) == task.ctx \in live

DispatcherTypeOK ==
  /\ taskQueue \in Seq(Task)
  /\ Len(taskQueue) <= QueueSize
  /\ worker \in [Workers -> {Idle} \cup Busy]
  /\ accepted \subseteq Ids
  /\ ghosts \subseteq Ids

DispatcherInit ==
  /\ taskQueue = <<>>
  /\ worker = [w \in Workers |-> Idle]
  /\ accepted = {}
  /\ ghosts = {}

-----------------------------------------------------------------------------
(* EnqueueTask: the send never blocks; a full queue is reported through    *)
(* OnError by the caller's own goroutine (see QueueFull).                  *)
QueueFull == Len(taskQueue) = QueueSize

(* Mutant: the queue has no limit.                                         *)
EnqueueTaskUnbounded(task) ==
  /\ taskQueue' = Append(taskQueue, task)
  /\ UNCHANGED <<worker, accepted, ghosts>>

EnqueueTask(task) ==
  /\ ~QueueFull
  /\ taskQueue' = Append(taskQueue, task)
  /\ UNCHANGED <<worker, accepted, ghosts>>

(* A worker receives a task; a cancelled one is dropped without any        *)
(* callback, a live one is posted.                                         *)
TakeTask(w) ==
  /\ worker[w] = Idle
  /\ taskQueue # <<>>
  /\ taskQueue' = Tail(taskQueue)
  /\ worker' = IF Live(Head(taskQueue))
               THEN [worker EXCEPT ![w] = Posting(Head(taskQueue), 1)]
               ELSE worker
  /\ UNCHANGED <<accepted, ghosts>>

(* A request whose worker stops waiting before there was an answer goes on *)
(* without it.                                                             *)
LeftBehind(w) ==
  IF worker[w].answer = "none" THEN ghosts \cup {worker[w].task.id} ELSE ghosts

(* The client reports that the connection broke, or could not be made: the *)
(* worker sleeps and tries the next attempt.  fasthttp.ErrConnectionClosed *)
(* is in this class and says only that no response byte arrived; a request *)
(* that was not sent at all is one that is lost (see GhostEnds).           *)
ConnectionFails(w) ==
  /\ worker[w].phase = "posting"
  /\ worker' = [worker EXCEPT ![w].phase = "sleeping", ![w].answer = "none"]
  /\ ghosts' = LeftBehind(w)
  /\ UNCHANGED <<taskQueue, accepted>>

Resend(w) ==
  /\ worker[w].phase = "sleeping"
  /\ worker[w].attempt < MaxAttempts
  /\ Live(worker[w].task)
  /\ worker' = [worker EXCEPT ![w] = Posting(@.task, @.attempt + 1)]
  /\ UNCHANGED <<taskQueue, accepted, ghosts>>

(* sendWebhook returns nil: a 2xx response arrived, OnSuccess is called.   *)
Succeeds(w) ==
  /\ worker[w].phase = "posting"
  /\ worker[w].answer = "accepted"
  /\ worker' = [worker EXCEPT ![w] = Idle]
  /\ UNCHANGED <<taskQueue, accepted, ghosts>>

(* sendWebhook returns an error, OnError is called.                        *)
(* ... because of a response that is not 2xx                               *)
Rejected(w) ==
  /\ worker[w].phase = "posting"
  /\ worker[w].answer = "rejected"
  /\ worker' = [worker EXCEPT ![w] = Idle]
  /\ UNCHANGED <<taskQueue, accepted, ghosts>>

(* Mutant: only reading the body of a response is bounded by the timeout.  *)
TimesOutReading(w) ==
  /\ worker[w].phase = "posting"
  /\ worker[w].answer # "none"
  /\ worker' = [worker EXCEPT ![w] = Idle]
  /\ UNCHANGED <<taskQueue, accepted, ghosts>>

(* ... because the request timed out; the application may have accepted it *)
(* already, or may still do so                                             *)
TimesOut(w) ==
  /\ worker[w].phase = "posting"
  /\ worker' = [worker EXCEPT ![w] = Idle]
  /\ ghosts' = LeftBehind(w)
  /\ UNCHANGED <<taskQueue, accepted>>

(* ... because no attempt is left, or the context was cancelled meanwhile. *)
GivesUp(w) ==
  /\ worker[w].phase = "sleeping"
  /\ worker[w].attempt = MaxAttempts \/ ~Live(worker[w].task)
  /\ worker' = [worker EXCEPT ![w] = Idle]
  /\ UNCHANGED <<taskQueue, accepted, ghosts>>

Fails(w) == Rejected(w) \/ TimesOut(w) \/ GivesUp(w)

-----------------------------------------------------------------------------
(* The applications behind the webhook URLs.                               *)
AppAccepts(w) ==
  /\ worker[w].phase = "posting"
  /\ worker[w].answer = "none"
  /\ worker[w].task.id \notin Refused
  /\ worker' = [worker EXCEPT ![w].answer = "accepted"]
  /\ accepted' = accepted \cup {worker[w].task.id}
  /\ UNCHANGED <<taskQueue, ghosts>>

AppRejects(w) ==
  /\ worker[w].phase = "posting"
  /\ worker[w].answer = "none"
  /\ worker' = [worker EXCEPT ![w].answer = "rejected"]
  /\ UNCHANGED <<taskQueue, accepted, ghosts>>

(* A request whose worker is gone is processed, or is lost for good.       *)
GhostEnds(id) ==
  /\ id \in ghosts
  /\ ghosts' = ghosts \ {id}
  /\ \/ id \notin Refused /\ accepted' = accepted \cup {id}
     \/ UNCHANGED accepted
  /\ UNCHANGED <<taskQueue, worker>>

(* The process dies: queue and workers are gone, what was on the wire may  *)
(* still reach the application.                                            *)
ProcessDies ==
  /\ taskQueue' = <<>>
  /\ worker' = [w \in Workers |-> Idle]
  /\ ghosts' = ghosts \cup {worker[w].task.id : w \in
         {x \in Workers : worker[x].phase = "posting" /\ worker[x].answer = "none"}}
  /\ UNCHANGED accepted

(* A step of the pool that calls no callback.                              *)
SilentStep ==
  \/ \E w \in Workers : TakeTask(w) \/ ConnectionFails(w) \/ Resend(w)
                        \/ AppAccepts(w) \/ AppRejects(w)
  \/ \E id \in ghosts : GhostEnds(id)
=============================================================================
