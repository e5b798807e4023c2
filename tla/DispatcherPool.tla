--------------------------- MODULE DispatcherPool ---------------------------
(***************************************************************************)
(* The life of the dispatcher by itself: tasks of several delivery         *)
(* contexts are enqueued and cancelled while the workers run, then the     *)
(* process shuts down (cmd/server/main.go): StopAll stops the loops of the *)
(* registered bots (Cancel), after that Stop closes `quit' and waits until *)
(* the workers have drained the queue.  Stop does not ask whether the      *)
(* loops have ended, and some may not have: a bot that is restored beside  *)
(* the shutdown (LoadAndStartAll, which nobody waits for) is registered    *)
(* behind StopAll, and its loop goes on enqueuing.                         *)
(***************************************************************************)
EXTENDS Dispatcher

VARIABLES
  submitted,    \* tasks given to EnqueueTask, each once
  reports,      \* the callbacks of each task, in the order of their calls
  quit,         \* d.quit is closed
  late,         \* history: tasks given to EnqueueTask after that
  exited        \* workers that returned; Stop returns when all have

poolVars == <<dispatcherVars, live, submitted, reports, quit, late, exited>>

PoolInit ==
  /\ DispatcherInit
  /\ live = Contexts
  /\ submitted = {} /\ quit = FALSE /\ late = {} /\ exited = {}
  /\ reports = [task \in Task |-> <<>>]

Reports(task, outcome) ==
  reports' = [reports EXCEPT ![task] = Append(@, outcome)]

(* A delivery loop hands a task over; each update is the task of one loop  *)
(* at a time, and a later loop may send it again under its own context.    *)
Submit(task) ==
  /\ Live(task) /\ task \notin submitted
  /\ submitted' = submitted \cup {task}
  /\ late' = IF quit THEN late \cup {task} ELSE late
  /\ \/ EnqueueTask(task) /\ UNCHANGED reports
     \/ QueueFull /\ Reports(task, "error") /\ UNCHANGED dispatcherVars
  /\ UNCHANGED <<live, quit, exited>>

(* A loop ends: setWebhook, deleteWebhook or the end of the bot.           *)
Cancel(ctx) ==
  /\ ctx \in live
  /\ live' = live \ {ctx}
  /\ UNCHANGED <<dispatcherVars, submitted, reports, quit, late, exited>>

(* Stop closes `quit', whatever loops are left.                            *)
Stop ==
  /\ ~quit
  /\ quit' = TRUE
  /\ UNCHANGED <<dispatcherVars, live, submitted, reports, late, exited>>

(* Mutant: a worker returns as soon as it sees `quit'.                     *)
ExitAtOnce(w) ==
  /\ quit /\ w \notin exited
  /\ worker[w] = Idle
  /\ exited' = exited \cup {w}
  /\ UNCHANGED <<dispatcherVars, live, submitted, reports, quit, late>>

(* A worker that sees `quit' drains the queue, then returns; the select    *)
(* may prefer the queue as long as there is something in it, so both ways  *)
(* the worker leaves only an empty queue behind.                           *)
Exit(w) ==
  /\ quit /\ w \notin exited
  /\ worker[w] = Idle /\ taskQueue = <<>>
  /\ exited' = exited \cup {w}
  /\ UNCHANGED <<dispatcherVars, live, submitted, reports, quit, late>>

PoolFrame == UNCHANGED <<live, submitted, quit, late, exited>>

Take(w) == w \notin exited /\ TakeTask(w) /\ UNCHANGED reports /\ PoolFrame

Answer(w) == (AppAccepts(w) \/ AppRejects(w)) /\ UNCHANGED reports /\ PoolFrame

Disconnect(w) == ConnectionFails(w) /\ UNCHANGED reports /\ PoolFrame

Retry(w) == Resend(w) /\ UNCHANGED reports /\ PoolFrame

(* Mutant: giving up is not reported.                                      *)
FinishSilently(w) ==
  /\ \/ Succeeds(w) /\ Reports(worker[w].task, "success")
     \/ (Rejected(w) \/ TimesOut(w)) /\ Reports(worker[w].task, "error")
     \/ GivesUp(w) /\ UNCHANGED reports
  /\ PoolFrame

Finish(w) ==
  /\ \/ Succeeds(w) /\ Reports(worker[w].task, "success")
     \/ Fails(w) /\ Reports(worker[w].task, "error")
  /\ PoolFrame

Late(id) == GhostEnds(id) /\ UNCHANGED reports /\ PoolFrame

PoolNext ==
  \/ \E task \in Task : Submit(task)
  \/ \E ctx \in Contexts : Cancel(ctx)
  \/ Stop
  \/ \E w \in Workers : Exit(w) \/ Take(w) \/ Answer(w) \/ Disconnect(w)
                        \/ Retry(w) \/ Finish(w)
  \/ \E id \in ghosts : Late(id)

PoolSpec == PoolInit /\ [][PoolNext]_poolVars

(* Workers are scheduled, a sleep ends, and a request ends at the latest   *)
(* after webhookTimeout.  Applications may never answer, loops need not    *)
(* end and the process need not shut down.                                 *)
PoolFairSpec ==
  /\ PoolSpec
  /\ \A w \in Workers : WF_poolVars(Exit(w)) /\ WF_poolVars(Take(w))
                        /\ WF_poolVars(Retry(w)) /\ WF_poolVars(Finish(w))

-----------------------------------------------------------------------------
(* Properties.                                                             *)

PoolTypeOK ==
  /\ DispatcherTypeOK
  /\ live \subseteq Contexts /\ submitted \subseteq Task
  /\ reports \in [Task -> Seq({"success", "error"})]
  /\ quit \in BOOLEAN /\ late \subseteq submitted /\ exited \subseteq Workers

Queued(task) == {i \in DOMAIN taskQueue : taskQueue[i] = task}
Held(task) == {w \in Workers : worker[w] # Idle /\ worker[w].task = task}

(* "Every in-flight task reports exactly once" (webhook_delivery.go:153):  *)
(* a submitted task has been reported or is in exactly one place, at most  *)
(* one worker and not the queue as well; only a cancelled task is dropped  *)
(* without a callback (dispatcher_test.go:101), and OnSuccess is called    *)
(* only for an update the application has accepted.                        *)
ReportedOnce ==
  \A task \in Task :
    LET places == Cardinality(Queued(task)) + Cardinality(Held(task)) + Len(reports[task])
    IN  /\ places <= 1
        /\ places = 0 /\ task \in submitted => ~Live(task)
        /\ reports[task] = <<"success">> => task.id \in accepted

(* "Finish in-flight HTTP attempts" (main.go:114), "draining remaining     *)
(* queued tasks" (dispatcher.go:223): when a worker returns it has ended   *)
(* its task, and nothing is left of what was enqueued before Stop; only a  *)
(* loop that StopAll did not know can leave a task behind.                 *)
StopDrains ==
  exited # {} => /\ \A i \in DOMAIN taskQueue : taskQueue[i] \in late
                 /\ \A w \in exited : worker[w] = Idle

(* Whatever the applications do, a task is reported unless it is           *)
(* cancelled, or came when the workers had left already.                   *)
EveryTaskReported ==
  \A task \in Task :
    task \in submitted ~> \/ reports[task] # <<>> \/ ~Live(task)
                          \/ task \in late /\ exited = Workers

(* And Stop, which waits for the workers, returns once it was called.      *)
StopReturns == quit ~> exited = Workers
=============================================================================
