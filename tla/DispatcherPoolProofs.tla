------------------------- MODULE DispatcherPoolProofs -------------------------
(***************************************************************************)
(* Proofs about DispatcherPool, for every number of workers, contexts,     *)
(* updates and attempts and every capacity of the queue: a task is at one  *)
(* place at a time and reported once, and Stop drains the queue.           *)
(*                                                                         *)
(* ReportedOnce counts places; the invariant PlaceInv says the same without*)
(* counting, and adds what the steps need: only submitted tasks are        *)
(* anywhere, and a live one that was submitted is somewhere.               *)
(***************************************************************************)
EXTENDS DispatcherPool, FiniteSetTheorems, SequenceTheorems, TLAPS

LEMMA PoolConstants == QueueSize \in Nat /\ MaxAttempts \in Nat \ {0}
BY DispatcherAssumption DEF DispatcherAssumption

USE PoolConstants

-----------------------------------------------------------------------------
(* Queues without repetition.                                              *)
InSeq(q, task) == \E i \in DOMAIN q : q[i] = task
NoRepeat(q) == \A i, j \in DOMAIN q : q[i] = q[j] => i = j

LEMMA TailOfQueue ==
  ASSUME NEW q \in Seq(Task), q # <<>>, NoRepeat(q)
  PROVE  /\ Head(q) \in Task /\ Tail(q) \in Seq(Task) /\ Len(Tail(q)) = Len(q) - 1
         /\ InSeq(q, Head(q)) /\ ~InSeq(Tail(q), Head(q)) /\ NoRepeat(Tail(q))
         /\ \A t : InSeq(Tail(q), t) <=> InSeq(q, t) /\ t # Head(q)
<1>1. Len(q) \in Nat \ {0} /\ DOMAIN q = 1..Len(q)
  BY EmptySeq, LenProperties
<1>2. /\ Head(q) \in Task /\ Head(q) = q[1]
      /\ Tail(q) \in Seq(Task) /\ Len(Tail(q)) = Len(q) - 1 /\ DOMAIN Tail(q) = 1..Len(q) - 1
      /\ \A i \in 1..Len(q) - 1 : Tail(q)[i] = q[i + 1]
  BY <1>1, HeadTailProperties, LenProperties
<1>3. InSeq(q, Head(q))
  BY <1>1, <1>2 DEF InSeq
<1>4. ~InSeq(Tail(q), Head(q))
  BY <1>1, <1>2 DEF InSeq, NoRepeat
<1>5. NoRepeat(Tail(q))
  <2> SUFFICES ASSUME NEW i \in 1..Len(q) - 1, NEW j \in 1..Len(q) - 1, q[i + 1] = q[j + 1]
               PROVE  i = j
    BY <1>2 DEF NoRepeat
  <2>1. i + 1 \in DOMAIN q /\ j + 1 \in DOMAIN q
    BY <1>1
  <2>2. i + 1 = j + 1
    BY <2>1 DEF NoRepeat
  <2> QED
    BY <1>1, <2>2
<1>6. ASSUME NEW t PROVE InSeq(Tail(q), t) <=> InSeq(q, t) /\ t # Head(q)
  <2>1. ASSUME InSeq(Tail(q), t) PROVE InSeq(q, t) /\ t # Head(q)
    BY <1>1, <1>2, <1>4, <2>1 DEF InSeq
  <2>2. ASSUME InSeq(q, t), t # Head(q) PROVE InSeq(Tail(q), t)
    <3>1. PICK i \in DOMAIN q : q[i] = t
      BY <2>2 DEF InSeq
    <3>2. i \in 1..Len(q) /\ i # 1
      BY <1>1, <1>2, <2>2, <3>1
    <3>3. i - 1 \in 1..Len(q) - 1 /\ (i - 1) + 1 = i
      BY <1>1, <3>2
    <3>4. Tail(q)[i - 1] = t
      BY <1>2, <3>1, <3>3
    <3> QED
      BY <1>2, <3>3, <3>4 DEF InSeq
  <2> QED
    BY <2>1, <2>2
<1> QED
  BY <1>2, <1>3, <1>4, <1>5, <1>6

LEMMA AppendToQueue ==
  ASSUME NEW q \in Seq(Task), NEW e \in Task, NoRepeat(q), ~InSeq(q, e)
  PROVE  /\ NoRepeat(Append(q, e))
         /\ \A t : InSeq(Append(q, e), t) <=> InSeq(q, t) \/ t = e
<1>1. Len(q) \in Nat /\ DOMAIN q = 1..Len(q)
  BY LenProperties
<1>2. /\ DOMAIN Append(q, e) = 1..Len(q) + 1 /\ Append(q, e)[Len(q) + 1] = e
      /\ \A i \in 1..Len(q) : Append(q, e)[i] = q[i]
  BY <1>1, AppendProperties, LenProperties
<1>3. \A i \in 1..Len(q) + 1 : i \in 1..Len(q) \/ i = Len(q) + 1
  BY <1>1
<1>4. NoRepeat(Append(q, e))
  BY <1>1, <1>2, <1>3 DEF NoRepeat, InSeq
<1>5. \A t : InSeq(Append(q, e), t) <=> InSeq(q, t) \/ t = e
  BY <1>1, <1>2, <1>3 DEF InSeq
<1> QED
  BY <1>4, <1>5

-----------------------------------------------------------------------------
(* Type correctness.                                                       *)
LEMMA BusyWorker ==
  ASSUME DispatcherTypeOK, NEW w \in Workers, worker[w].phase \in {"posting", "sleeping"}
  PROVE  worker[w] \in Busy /\ worker[w] # Idle /\ worker[w].task \in Task
BY DEF DispatcherTypeOK, Busy, Idle

LEMMA PoolTypeInit == PoolInit => PoolTypeOK
<1> SUFFICES ASSUME PoolInit PROVE PoolTypeOK
  OBVIOUS
<1>1. <<>> \in Seq(Task) /\ <<>> \in Seq({"success", "error"}) /\ Len(<<>>) = 0
  OBVIOUS
<1>2. DispatcherTypeOK
  BY <1>1 DEF PoolInit, DispatcherInit, DispatcherTypeOK
<1>3. reports \in [Task -> Seq({"success", "error"})]
  BY <1>1 DEF PoolInit
<1> QED
  BY <1>2, <1>3 DEF PoolInit, PoolTypeOK

LEMMA ReportTypes ==
  ASSUME PoolTypeOK, NEW task \in Task, NEW outcome \in {"success", "error"},
         Reports(task, outcome)
  PROVE  reports' \in [Task -> Seq({"success", "error"})]
<1>1. Append(reports[task], outcome) \in Seq({"success", "error"})
  BY AppendProperties DEF PoolTypeOK
<1> QED
  BY <1>1 DEF Reports, PoolTypeOK

(* What the action of a worker makes of its state.                         *)
KeepsTask(w) ==
  \E state \in Busy : /\ worker' = [worker EXCEPT ![w] = state]
                      /\ state.task = worker[w].task
                      /\ state.answer \in {"none", "rejected", worker[w].answer}
                         \/ (state.answer = "accepted" /\ state.task.id \in accepted')

LEMMA Keeps ==
  ASSUME DispatcherTypeOK, NEW w \in Workers,
         AppAccepts(w) \/ AppRejects(w) \/ ConnectionFails(w) \/ Resend(w)
  PROVE  /\ worker[w] \in Busy /\ worker[w] # Idle /\ worker[w].task \in Task
         /\ KeepsTask(w)
         /\ UNCHANGED taskQueue /\ ghosts' \subseteq ghosts \cup {worker[w].task.id}
         /\ accepted' \in {accepted, accepted \cup {worker[w].task.id}}
<1>1. worker[w] \in Busy /\ worker[w] # Idle /\ worker[w].task \in Task
  BY BusyWorker DEF AppAccepts, AppRejects, ConnectionFails, Resend
<1>2. CASE AppAccepts(w)
  <2> DEFINE state == [worker[w] EXCEPT !.answer = "accepted"]
  <2>1. state \in Busy /\ state.task = worker[w].task /\ state.answer = "accepted"
    BY <1>1 DEF Busy, Answers
  <2>2. state.task.id \in accepted' /\ worker' = [worker EXCEPT ![w] = state]
    BY <1>2, <2>1 DEF AppAccepts
  <2> QED
    BY <1>1, <1>2, <2>1, <2>2 DEF AppAccepts, KeepsTask
<1>3. CASE AppRejects(w)
  <2> DEFINE state == [worker[w] EXCEPT !.answer = "rejected"]
  <2>1. state \in Busy /\ state.task = worker[w].task /\ state.answer = "rejected"
    BY <1>1 DEF Busy, Answers
  <2>2. worker' = [worker EXCEPT ![w] = state]
    BY <1>3 DEF AppRejects
  <2> QED
    BY <1>1, <1>3, <2>1, <2>2 DEF AppRejects, KeepsTask
<1>4. CASE ConnectionFails(w)
  <2> DEFINE state == [worker[w] EXCEPT !.phase = "sleeping", !.answer = "none"]
  <2>1. state \in Busy /\ state.task = worker[w].task /\ state.answer = "none"
    BY <1>1 DEF Busy, Answers
  <2>2. worker' = [worker EXCEPT ![w] = state]
    BY <1>4 DEF ConnectionFails
  <2>3. ghosts' \subseteq ghosts \cup {worker[w].task.id}
    BY <1>4 DEF ConnectionFails, LeftBehind
  <2> QED
    BY <1>1, <1>4, <2>1, <2>2, <2>3 DEF ConnectionFails, KeepsTask
<1>5. CASE Resend(w)
  <2> DEFINE state == Posting(worker[w].task, worker[w].attempt + 1)
  <2>1. state \in Busy /\ state.task = worker[w].task /\ state.answer = "none"
    BY <1>1, <1>5 DEF Resend, Posting, Busy, Answers
  <2>2. worker' = [worker EXCEPT ![w] = state]
    BY <1>5 DEF Resend
  <2> QED
    BY <1>1, <1>5, <2>1, <2>2 DEF Resend, KeepsTask
<1> QED
  BY <1>2, <1>3, <1>4, <1>5

LEMMA KeepTypes ==
  ASSUME PoolTypeOK, NEW w \in Workers, Answer(w) \/ Disconnect(w) \/ Retry(w)
  PROVE  PoolTypeOK'
<1>1. /\ AppAccepts(w) \/ AppRejects(w) \/ ConnectionFails(w) \/ Resend(w)
      /\ UNCHANGED <<reports, live, submitted, quit, late, exited>>
  BY DEF Answer, Disconnect, Retry, PoolFrame
<1>2. /\ worker[w].task \in Task /\ UNCHANGED taskQueue
      /\ ghosts' \subseteq ghosts \cup {worker[w].task.id}
      /\ accepted' \in {accepted, accepted \cup {worker[w].task.id}}
      /\ \E state \in Busy : worker' = [worker EXCEPT ![w] = state]
  BY <1>1, Keeps DEF PoolTypeOK, KeepsTask
<1>3. worker[w].task.id \in Ids
  BY <1>2 DEF Task
<1>4. worker' \in [Workers -> {Idle} \cup Busy]
  BY <1>2 DEF PoolTypeOK, DispatcherTypeOK
<1> QED
  BY <1>1, <1>2, <1>3, <1>4 DEF PoolTypeOK, DispatcherTypeOK

(* What Finish leaves: an idle worker and a report of its task.            *)
LEMMA Finishes ==
  ASSUME PoolTypeOK, NEW w \in Workers, Finish(w)
  PROVE  /\ worker[w] # Idle /\ worker[w].task \in Task
         /\ worker' = [worker EXCEPT ![w] = Idle]
         /\ UNCHANGED <<taskQueue, accepted, live, submitted, quit, late, exited>>
         /\ ghosts' \subseteq ghosts \cup {worker[w].task.id}
         /\ \E outcome \in {"success", "error"} :
              /\ Reports(worker[w].task, outcome)
              /\ outcome = "success" => worker[w].answer = "accepted"
<1>1. worker[w] # Idle /\ worker[w].task \in Task
  BY BusyWorker DEF PoolTypeOK, Finish, Succeeds, Fails, Rejected, TimesOut, GivesUp
<1>2. /\ worker' = [worker EXCEPT ![w] = Idle] /\ UNCHANGED <<taskQueue, accepted>>
      /\ ghosts' \subseteq ghosts \cup {worker[w].task.id}
  BY DEF Finish, Succeeds, Fails, Rejected, TimesOut, GivesUp, LeftBehind
<1> QED
  BY <1>1, <1>2 DEF Finish, PoolFrame, Succeeds

LEMMA SubmitTypes ==
  ASSUME PoolTypeOK, NEW task \in Task, Submit(task)
  PROVE  PoolTypeOK'
<1>1. /\ UNCHANGED <<live, quit, exited, worker, accepted, ghosts>>
      /\ submitted' \subseteq Task /\ late' \subseteq submitted'
  BY DEF Submit, EnqueueTask, dispatcherVars, PoolTypeOK
<1>2. CASE EnqueueTask(task) /\ UNCHANGED reports
  <2>1. taskQueue' \in Seq(Task) /\ Len(taskQueue') = Len(taskQueue) + 1
    BY <1>2, AppendProperties DEF EnqueueTask, PoolTypeOK, DispatcherTypeOK
  <2>2. Len(taskQueue) \in Nat /\ Len(taskQueue) <= QueueSize /\ Len(taskQueue) # QueueSize
    BY <1>2, LenProperties DEF EnqueueTask, QueueFull, PoolTypeOK, DispatcherTypeOK
  <2>3. Len(taskQueue') <= QueueSize
    BY <2>1, <2>2
  <2> QED
    BY <1>1, <1>2, <2>1, <2>3 DEF PoolTypeOK, DispatcherTypeOK
<1>3. CASE Reports(task, "error") /\ UNCHANGED dispatcherVars
  BY <1>1, <1>3, ReportTypes DEF PoolTypeOK, DispatcherTypeOK, dispatcherVars
<1> QED
  BY <1>2, <1>3 DEF Submit

LEMMA TakeTypes ==
  ASSUME PoolTypeOK, NEW w \in Workers, Take(w)
  PROVE  PoolTypeOK'
<1>1. UNCHANGED <<reports, live, submitted, quit, late, exited, accepted, ghosts>>
  BY DEF Take, TakeTask, PoolFrame
<1>2. /\ Head(taskQueue) \in Task /\ taskQueue' \in Seq(Task)
      /\ Len(taskQueue') = Len(taskQueue) - 1 /\ Len(taskQueue) \in Nat
  BY HeadTailProperties, LenProperties DEF Take, TakeTask, PoolTypeOK, DispatcherTypeOK
<1>3. Posting(Head(taskQueue), 1) \in Busy
  BY <1>2 DEF Posting, Busy, Answers
<1>4. worker' \in [Workers -> {Idle} \cup Busy]
  BY <1>3 DEF Take, TakeTask, PoolTypeOK, DispatcherTypeOK
<1>5. Len(taskQueue') <= QueueSize
  BY <1>2 DEF PoolTypeOK, DispatcherTypeOK
<1> QED
  BY <1>1, <1>2, <1>4, <1>5 DEF PoolTypeOK, DispatcherTypeOK

LEMMA FinishTypes ==
  ASSUME PoolTypeOK, NEW w \in Workers, Finish(w)
  PROVE  PoolTypeOK'
<1>1. reports' \in [Task -> Seq({"success", "error"})]
  BY Finishes, ReportTypes
<1>2. worker' \in [Workers -> {Idle} \cup Busy]
  BY Finishes DEF PoolTypeOK, DispatcherTypeOK
<1>3. ghosts' \subseteq Ids
  BY Finishes DEF Task, PoolTypeOK, DispatcherTypeOK
<1> QED
  BY <1>1, <1>2, <1>3, Finishes DEF PoolTypeOK, DispatcherTypeOK

LEMMA PoolTypeStep == PoolTypeOK /\ [PoolNext]_poolVars => PoolTypeOK'
<1> SUFFICES ASSUME PoolTypeOK, [PoolNext]_poolVars PROVE PoolTypeOK'
  OBVIOUS
<1>1. ASSUME (\E ctx \in Contexts : Cancel(ctx)) \/ Stop \/ (\E w \in Workers : Exit(w))
      PROVE  PoolTypeOK'
  BY <1>1 DEF Cancel, Stop, Exit, dispatcherVars, PoolTypeOK, DispatcherTypeOK
<1>2. ASSUME NEW id \in ghosts, Late(id) PROVE PoolTypeOK'
  BY <1>2 DEF Late, GhostEnds, PoolFrame, PoolTypeOK, DispatcherTypeOK
<1>3. CASE UNCHANGED poolVars
  BY <1>3 DEF poolVars, dispatcherVars, PoolTypeOK, DispatcherTypeOK
<1> QED
  BY <1>1, <1>2, <1>3, SubmitTypes, TakeTypes, KeepTypes, FinishTypes DEF PoolNext

(* The types, and the capacity of the task queue, which EnqueueTask never  *)
(* exceeds.                                                                *)
THEOREM PoolTypeCorrect == PoolSpec => []PoolTypeOK
BY PoolTypeInit, PoolTypeStep, PTL DEF PoolSpec

-----------------------------------------------------------------------------
(* Stop: who leaves finds the queue empty.  What is put into it after that *)
(* came when `quit' was closed.                                            *)
DrainInv ==
  /\ exited # {} => quit /\ \A i \in DOMAIN taskQueue : taskQueue[i] \in late
  /\ \A w \in exited : worker[w] = Idle

LEMMA DrainInit == PoolInit => DrainInv
BY DEF PoolInit, DrainInv

LEMMA DrainStep == PoolTypeOK /\ DrainInv /\ [PoolNext]_poolVars => DrainInv'
<1> SUFFICES ASSUME PoolTypeOK, DrainInv, [PoolNext]_poolVars PROVE DrainInv'
  OBVIOUS
<1>1. ASSUME NEW task \in Task, Submit(task) PROVE DrainInv'
  <2>1. UNCHANGED <<quit, exited, worker>> /\ (quit => task \in late') /\ late \subseteq late'
    BY <1>1 DEF Submit, EnqueueTask, dispatcherVars
  <2>2. CASE taskQueue' = Append(taskQueue, task)
    <3>1. \A i \in DOMAIN taskQueue' :
            taskQueue'[i] = task \/ (i \in DOMAIN taskQueue /\ taskQueue'[i] = taskQueue[i])
      BY <2>2, AppendProperties, LenProperties DEF PoolTypeOK, DispatcherTypeOK
    <3> QED
      BY <2>1, <3>1 DEF DrainInv
  <2>3. CASE UNCHANGED taskQueue
    BY <2>1, <2>3 DEF DrainInv
  <2> QED
    BY <1>1, <2>2, <2>3 DEF Submit, EnqueueTask, dispatcherVars
<1>2. ASSUME NEW ctx \in Contexts, Cancel(ctx) PROVE DrainInv'
  BY <1>2 DEF Cancel, DrainInv, dispatcherVars
<1>3. CASE Stop
  BY <1>3 DEF Stop, DrainInv, dispatcherVars
<1>4. ASSUME NEW w \in Workers, Exit(w) PROVE DrainInv'
  <2>1. DOMAIN taskQueue = {}
    BY <1>4 DEF Exit
  <2> QED
    BY <1>4, <2>1 DEF Exit, DrainInv, dispatcherVars
<1>5. ASSUME NEW w \in Workers, Take(w) PROVE DrainInv'
  <2>1. /\ w \notin exited /\ UNCHANGED <<quit, late, exited>>
        /\ \A x \in Workers : x # w => worker'[x] = worker[x]
    BY <1>5 DEF Take, TakeTask, PoolFrame, PoolTypeOK, DispatcherTypeOK
  <2>2. \A x \in exited : worker'[x] = worker[x]
    BY <2>1 DEF PoolTypeOK
  <2>3. taskQueue \in Seq(Task) /\ taskQueue # <<>> /\ taskQueue' = Tail(taskQueue)
    BY <1>5 DEF Take, TakeTask, PoolTypeOK, DispatcherTypeOK
  <2>4. ASSUME NEW i \in DOMAIN taskQueue'
        PROVE  i + 1 \in DOMAIN taskQueue /\ taskQueue'[i] = taskQueue[i + 1]
    <3>1. /\ Len(taskQueue) \in Nat /\ DOMAIN taskQueue = 1..Len(taskQueue)
          /\ DOMAIN taskQueue' = 1..Len(taskQueue) - 1
          /\ \A j \in 1..Len(taskQueue) - 1 : taskQueue'[j] = taskQueue[j + 1]
      BY <2>3, HeadTailProperties, LenProperties
    <3> QED
      BY <3>1
  <2> QED
    BY <2>1, <2>2, <2>4 DEF DrainInv
<1>6. ASSUME NEW w \in Workers, worker[w] # Idle, NEW state,
             worker' = [worker EXCEPT ![w] = state],
             UNCHANGED <<taskQueue, quit, late, exited>>
      PROVE  DrainInv'
  <2>1. \A x \in exited : x \in Workers /\ x # w
    BY <1>6 DEF DrainInv, PoolTypeOK
  <2>2. \A x \in exited : worker'[x] = worker[x]
    BY <1>6, <2>1 DEF PoolTypeOK, DispatcherTypeOK
  <2> QED
    BY <1>6, <2>2 DEF DrainInv
<1>7. ASSUME NEW w \in Workers, Answer(w) \/ Disconnect(w) \/ Retry(w) PROVE DrainInv'
  <2>1. worker[w] # Idle /\ KeepsTask(w) /\ UNCHANGED taskQueue
    BY <1>7, Keeps DEF Answer, Disconnect, Retry, PoolTypeOK
  <2>2. UNCHANGED <<quit, late, exited>>
    BY <1>7 DEF Answer, Disconnect, Retry, PoolFrame
  <2> QED
    BY <1>6, <2>1, <2>2 DEF KeepsTask
<1>8. ASSUME NEW w \in Workers, Finish(w) PROVE DrainInv'
  BY <1>6, <1>8, Finishes
<1>9. ASSUME NEW id \in ghosts, Late(id) PROVE DrainInv'
  BY <1>9 DEF Late, GhostEnds, PoolFrame, DrainInv
<1>10. CASE UNCHANGED poolVars
  BY <1>10 DEF poolVars, dispatcherVars, DrainInv
<1> QED
  BY <1>1, <1>2, <1>3, <1>4, <1>5, <1>7, <1>8, <1>9, <1>10 DEF PoolNext

(* "Draining remaining queued tasks" (dispatcher.go:223): workers that     *)
(* return leave no request behind, and no task in the queue but those that *)
(* a loop which StopAll did not know enqueued after Stop was called.       *)
THEOREM DrainsBeforeReturn == PoolSpec => []StopDrains
<1>1. DrainInv => StopDrains
  BY DEF DrainInv, StopDrains
<1> QED
  BY <1>1, PoolTypeInit, PoolTypeStep, DrainInit, DrainStep, PTL DEF PoolSpec

-----------------------------------------------------------------------------
(* Where the tasks are.                                                    *)
InQueue(task) == InSeq(taskQueue, task)
AtWorker(task) == \E w \in Workers : worker[w] # Idle /\ worker[w].task = task
Reported(task) == reports[task] # <<>>
OneEach ==
  \A w, x \in Workers :
    worker[w] # Idle /\ worker[x] # Idle /\ worker[w].task = worker[x].task => w = x

PlaceInv(task) ==
  /\ ~(InQueue(task) /\ AtWorker(task))
  /\ Reported(task) => ~InQueue(task) /\ ~AtWorker(task)
  /\ Len(reports[task]) \in {0, 1}
  /\ InQueue(task) \/ AtWorker(task) \/ Reported(task) => task \in submitted
  /\ task \in submitted /\ Live(task) => InQueue(task) \/ AtWorker(task) \/ Reported(task)

(* A worker, and a report, know of an acceptance from the application only.*)
AnswerInv ==
  /\ \A w \in Workers : worker[w] # Idle /\ worker[w].answer = "accepted"
                        => worker[w].task.id \in accepted
  /\ \A task \in Task : reports[task] = <<"success">> => task.id \in accepted

PoolInv ==
  /\ PoolTypeOK /\ NoRepeat(taskQueue) /\ OneEach /\ AnswerInv
  /\ \A task \in Task : PlaceInv(task)

LEMMA PoolInvInit == PoolInit => PoolInv
<1> SUFFICES ASSUME PoolInit PROVE PoolInv
  OBVIOUS
<1>1. /\ taskQueue = <<>> /\ submitted = {} /\ \A w \in Workers : worker[w] = Idle
      /\ \A task \in Task : reports[task] = <<>>
  BY DEF PoolInit, DispatcherInit
<1>2. NoRepeat(taskQueue) /\ \A task \in Task : ~InQueue(task)
  BY <1>1 DEF NoRepeat, InQueue, InSeq
<1>3. OneEach /\ AnswerInv /\ \A task \in Task : ~AtWorker(task)
  BY <1>1 DEF OneEach, AnswerInv, AtWorker
<1>4. \A task \in Task : PlaceInv(task)
  BY <1>1, <1>2, <1>3 DEF PlaceInv, Reported
<1> QED
  BY <1>2, <1>3, <1>4, PoolTypeInit DEF PoolInv

(* One worker changes its state: who has which task afterwards.            *)
LEMMA Changed ==
  ASSUME PoolTypeOK, NEW w \in Workers, NEW state, worker' = [worker EXCEPT ![w] = state]
  PROVE  \A x \in Workers : worker'[x] = IF x = w THEN state ELSE worker[x]
BY DEF PoolTypeOK, DispatcherTypeOK

LEMMA Begins ==
  ASSUME PoolInv, NEW w \in Workers, worker[w] = Idle,
         NEW state, state # Idle, state.answer = "none", ~AtWorker(state.task),
         worker' = [worker EXCEPT ![w] = state], UNCHANGED <<accepted, reports>>
  PROVE  /\ OneEach' /\ AnswerInv'
         /\ \A task : AtWorker(task)' <=> AtWorker(task) \/ task = state.task
<1>1. \A x \in Workers : worker'[x] = IF x = w THEN state ELSE worker[x]
  BY Changed DEF PoolInv
<1>2. OneEach'
  BY <1>1 DEF PoolInv, OneEach, AtWorker
<1>3. AnswerInv'
  BY <1>1 DEF PoolInv, AnswerInv
<1>4. \A task : AtWorker(task)' <=> AtWorker(task) \/ task = state.task
  BY <1>1 DEF AtWorker
<1> QED
  BY <1>2, <1>3, <1>4

LEMMA GoesOn ==
  ASSUME PoolInv, NEW w \in Workers, worker[w] # Idle, KeepsTask(w),
         accepted \subseteq accepted', UNCHANGED reports
  PROVE  OneEach' /\ AnswerInv' /\ \A task : AtWorker(task)' <=> AtWorker(task)
<1>1. PICK state \in Busy :
         /\ worker' = [worker EXCEPT ![w] = state]
         /\ state.task = worker[w].task
         /\ state.answer \in {"none", "rejected", worker[w].answer}
            \/ (state.answer = "accepted" /\ state.task.id \in accepted')
  BY DEF KeepsTask
<1>2. state # Idle
  BY DEF Busy, Idle
<1>3. \A x \in Workers : worker'[x] = IF x = w THEN state ELSE worker[x]
  BY <1>1, Changed DEF PoolInv
<1>4. OneEach'
  BY <1>1, <1>3 DEF PoolInv, OneEach
<1>5. AnswerInv'
  BY <1>1, <1>3 DEF PoolInv, AnswerInv
<1>6. \A task : AtWorker(task)' <=> AtWorker(task)
  BY <1>1, <1>2, <1>3 DEF AtWorker
<1> QED
  BY <1>4, <1>5, <1>6

LEMMA Ends ==
  ASSUME PoolInv, NEW w \in Workers, worker[w] # Idle,
         worker' = [worker EXCEPT ![w] = Idle], UNCHANGED accepted
  PROVE  /\ OneEach'
         /\ \A x \in Workers : worker'[x] # Idle => worker'[x] = worker[x]
         /\ \A task : AtWorker(task)' <=> AtWorker(task) /\ task # worker[w].task
<1>1. \A x \in Workers : worker'[x] = IF x = w THEN Idle ELSE worker[x]
  BY Changed DEF PoolInv
<1>2. OneEach'
  BY <1>1 DEF PoolInv, OneEach
<1>3. \A task : AtWorker(task)' <=> AtWorker(task) /\ task # worker[w].task
  BY <1>1 DEF PoolInv, OneEach, AtWorker
<1> QED
  BY <1>1, <1>2, <1>3

(* A task that is not reported gets its only report.                       *)
LEMMA FirstReport ==
  ASSUME PoolTypeOK, NEW task \in Task, NEW outcome \in {"success", "error"},
         Reports(task, outcome), ~Reported(task)
  PROVE  /\ reports'[task] = <<outcome>> /\ Len(reports'[task]) = 1 /\ Reported(task)'
         /\ \A t \in Task : t # task => reports'[t] = reports[t]
<1>1. reports[task] = <<>> /\ reports'[task] = Append(reports[task], outcome)
      /\ \A t \in Task : t # task => reports'[t] = reports[t]
  BY DEF PoolTypeOK, Reports, Reported
<1>2. reports'[task] = <<outcome>>
  BY <1>1
<1> QED
  BY <1>1, <1>2 DEF Reported

-----------------------------------------------------------------------------
(* Every step.                                                             *)
LEMMA SubmitStep ==
  ASSUME PoolInv, NEW task \in Task, Submit(task)
  PROVE  PoolInv'
<1>1. /\ PoolTypeOK' /\ submitted' = submitted \cup {task}
      /\ UNCHANGED <<worker, accepted, live>>
  BY SubmitTypes DEF PoolInv, Submit, EnqueueTask, dispatcherVars
<1>2. ~InQueue(task) /\ ~AtWorker(task) /\ ~Reported(task)
  BY DEF PoolInv, PlaceInv, Submit
<1>3. OneEach' /\ \A t : AtWorker(t)' <=> AtWorker(t)
  BY <1>1 DEF PoolInv, OneEach, AtWorker
<1>4. CASE EnqueueTask(task) /\ UNCHANGED reports
  <2>1. taskQueue' = Append(taskQueue, task) /\ taskQueue \in Seq(Task)
    BY <1>4 DEF EnqueueTask, PoolInv, PoolTypeOK, DispatcherTypeOK
  <2>2. NoRepeat(taskQueue') /\ \A t : InQueue(t)' <=> InQueue(t) \/ t = task
    BY <1>2, <2>1, AppendToQueue DEF PoolInv, InQueue
  <2>3. AnswerInv'
    BY <1>1, <1>4 DEF PoolInv, AnswerInv
  <2>4. ASSUME NEW t \in Task PROVE PlaceInv(t)'
    BY <1>1, <1>2, <1>3, <1>4, <2>2 DEF PoolInv, PlaceInv, Reported, Live
  <2> QED
    BY <1>1, <1>3, <2>2, <2>3, <2>4 DEF PoolInv
<1>5. CASE Reports(task, "error") /\ UNCHANGED dispatcherVars
  <2>1. /\ reports'[task] = <<"error">> /\ Len(reports'[task]) = 1 /\ Reported(task)'
        /\ \A t \in Task : t # task => reports'[t] = reports[t]
    BY <1>2, <1>5, FirstReport DEF PoolInv
  <2>2. taskQueue' = taskQueue
    BY <1>5 DEF dispatcherVars
  <2>3. NoRepeat(taskQueue') /\ \A t : InQueue(t)' <=> InQueue(t)
    BY <2>2 DEF PoolInv, InQueue
  <2>4. <<"error">> # <<"success">>
    OBVIOUS
  <2>5. AnswerInv'
    BY <1>1, <2>1, <2>4 DEF PoolInv, AnswerInv
  <2>6. ASSUME NEW t \in Task PROVE PlaceInv(t)'
    <3>1. CASE t = task
      <4>1. Len(reports'[t]) = 1
        BY <2>1, <3>1, Zenon
      <4> QED
        BY <1>1, <1>2, <1>3, <2>1, <2>3, <3>1, <4>1, Zenon DEF PlaceInv
    <3>2. CASE t # task
      BY <1>1, <1>3, <2>1, <2>3, <3>2 DEF PoolInv, PlaceInv, Reported, Live
    <3> QED
      BY <3>1, <3>2
  <2> QED
    BY <1>1, <1>3, <2>3, <2>5, <2>6 DEF PoolInv
<1> QED
  BY <1>4, <1>5 DEF Submit

LEMMA TakeStep ==
  ASSUME PoolInv, NEW w \in Workers, Take(w)
  PROVE  PoolInv'
<1> DEFINE first == Head(taskQueue)
<1>1. /\ PoolTypeOK' /\ worker[w] = Idle
      /\ UNCHANGED <<reports, live, submitted, accepted>>
  BY TakeTypes DEF PoolInv, Take, TakeTask, PoolFrame
<1>2. /\ taskQueue \in Seq(Task) /\ taskQueue # <<>> /\ taskQueue' = Tail(taskQueue)
      /\ NoRepeat(taskQueue)
  BY DEF PoolInv, PoolTypeOK, DispatcherTypeOK, Take, TakeTask
<1>3. /\ NoRepeat(taskQueue') /\ InQueue(first) /\ first \in Task
      /\ \A t : InQueue(t)' <=> InQueue(t) /\ t # first
  BY <1>2, TailOfQueue DEF InQueue
<1>4. first \in submitted /\ ~AtWorker(first) /\ ~Reported(first)
  BY <1>3 DEF PoolInv, PlaceInv
<1>5. CASE Live(first)
  <2> DEFINE state == Posting(first, 1)
  <2>1. state # Idle /\ state.answer = "none" /\ state.task = first
    BY DEF Posting, Idle
  <2>2. worker' = [worker EXCEPT ![w] = state]
    BY <1>5 DEF Take, TakeTask
  <2> HIDE DEF state
  <2>3. OneEach' /\ AnswerInv' /\ \A t : AtWorker(t)' <=> AtWorker(t) \/ t = first
    BY <1>1, <1>4, <2>1, <2>2, Begins
  <2>4. ASSUME NEW t \in Task PROVE PlaceInv(t)'
    BY <1>1, <1>3, <1>4, <2>3 DEF PoolInv, PlaceInv, Reported, Live
  <2> QED
    BY <1>1, <1>3, <2>3, <2>4 DEF PoolInv
<1>6. CASE ~Live(first)
  <2>1. worker' = worker
    BY <1>6 DEF Take, TakeTask
  <2>2. OneEach' /\ AnswerInv' /\ \A t : AtWorker(t)' <=> AtWorker(t)
    BY <1>1, <2>1 DEF PoolInv, OneEach, AnswerInv, AtWorker
  <2>3. ASSUME NEW t \in Task PROVE PlaceInv(t)'
    BY <1>1, <1>3, <1>4, <1>6, <2>2 DEF PoolInv, PlaceInv, Reported, Live
  <2> QED
    BY <1>1, <1>3, <2>2, <2>3 DEF PoolInv
<1> QED
  BY <1>5, <1>6

LEMMA KeepStep ==
  ASSUME PoolInv, NEW w \in Workers, Answer(w) \/ Disconnect(w) \/ Retry(w)
  PROVE  PoolInv'
<1>1. PoolTypeOK' /\ UNCHANGED <<reports, live, submitted>>
  BY KeepTypes DEF PoolInv, Answer, Disconnect, Retry, PoolFrame
<1>2. /\ worker[w] # Idle /\ KeepsTask(w) /\ UNCHANGED taskQueue
      /\ accepted' \in {accepted, accepted \cup {worker[w].task.id}}
  BY Keeps DEF PoolInv, PoolTypeOK, Answer, Disconnect, Retry
<1>3. OneEach' /\ AnswerInv' /\ \A t : AtWorker(t)' <=> AtWorker(t)
  BY <1>1, <1>2, GoesOn
<1>4. NoRepeat(taskQueue') /\ \A t : InQueue(t)' <=> InQueue(t)
  BY <1>2 DEF PoolInv, InQueue
<1>5. ASSUME NEW t \in Task PROVE PlaceInv(t)'
  BY <1>1, <1>3, <1>4 DEF PoolInv, PlaceInv, Reported, Live
<1> QED
  BY <1>1, <1>3, <1>4, <1>5 DEF PoolInv

LEMMA FinishStep ==
  ASSUME PoolInv, NEW w \in Workers, Finish(w)
  PROVE  PoolInv'
<1> PICK task \in Task : task = worker[w].task
  BY Finishes DEF PoolInv
<1>1. /\ PoolTypeOK' /\ worker[w] # Idle
      /\ worker' = [worker EXCEPT ![w] = Idle]
      /\ UNCHANGED <<taskQueue, accepted, live, submitted>>
  BY Finishes, FinishTypes DEF PoolInv
<1>2. AtWorker(task) /\ ~InQueue(task) /\ ~Reported(task) /\ task \in submitted
  <2>1. AtWorker(task)
    BY <1>1 DEF AtWorker
  <2> QED
    BY <1>1, <2>1 DEF PoolInv, PlaceInv
<1>3. PICK outcome \in {"success", "error"} :
        Reports(task, outcome) /\ (outcome = "success" => worker[w].answer = "accepted")
  BY Finishes DEF PoolInv
<1>4. /\ OneEach' /\ \A x \in Workers : worker'[x] # Idle => worker'[x] = worker[x]
      /\ \A t : AtWorker(t)' <=> AtWorker(t) /\ t # task
  BY <1>1, Ends
<1>5. /\ reports'[task] = <<outcome>> /\ Len(reports'[task]) = 1 /\ Reported(task)'
      /\ \A t \in Task : t # task => reports'[t] = reports[t]
  BY <1>1, <1>2, <1>3, FirstReport DEF PoolInv
<1>6. NoRepeat(taskQueue') /\ \A t : InQueue(t)' <=> InQueue(t)
  BY <1>1 DEF PoolInv, InQueue
<1>7. AnswerInv'
  <2>1. outcome = "success" => task.id \in accepted
    BY <1>1, <1>3 DEF PoolInv, AnswerInv
  <2>2. <<outcome>> = <<"success">> => outcome = "success"
    OBVIOUS
  <2>3. \A t \in Task : reports'[t] = <<"success">> => t.id \in accepted'
    BY <1>1, <1>5, <2>1, <2>2 DEF PoolInv, AnswerInv
  <2> QED
    BY <1>1, <1>4, <2>3 DEF PoolInv, AnswerInv
<1>8. ASSUME NEW t \in Task PROVE PlaceInv(t)'
  <2>1. CASE t = task
    <3>1. Len(reports'[t]) = 1
      BY <1>5, <2>1, Zenon
    <3> QED
      BY <1>1, <1>2, <1>4, <1>5, <1>6, <2>1, <3>1, Zenon DEF PlaceInv
  <2>2. CASE t # task
    BY <1>1, <1>4, <1>5, <1>6, <2>2 DEF PoolInv, PlaceInv, Reported, Live
  <2> QED
    BY <2>1, <2>2
<1> QED
  BY <1>1, <1>4, <1>6, <1>7, <1>8 DEF PoolInv

LEMMA PoolInvStep == PoolInv /\ [PoolNext]_poolVars => PoolInv'
<1> SUFFICES ASSUME PoolInv, [PoolNext]_poolVars PROVE PoolInv'
  OBVIOUS
<1>1. PoolTypeOK'
  BY PoolTypeStep DEF PoolInv
<1>2. ASSUME UNCHANGED <<taskQueue, worker, reports, submitted>>, live' \subseteq live,
             accepted \subseteq accepted'
      PROVE  PoolInv'
  <2>1. /\ NoRepeat(taskQueue') /\ OneEach' /\ AnswerInv'
        /\ \A t : (InQueue(t)' <=> InQueue(t)) /\ (AtWorker(t)' <=> AtWorker(t))
    BY <1>2 DEF PoolInv, OneEach, AnswerInv, InQueue, AtWorker
  <2>2. ASSUME NEW t \in Task PROVE PlaceInv(t)'
    BY <1>2, <2>1 DEF PoolInv, PlaceInv, Reported, Live
  <2> QED
    BY <1>1, <2>1, <2>2 DEF PoolInv
<1>3. ASSUME (\E ctx \in Contexts : Cancel(ctx)) \/ Stop \/ (\E w \in Workers : Exit(w))
      PROVE  PoolInv'
  BY <1>2, <1>3 DEF Cancel, Stop, Exit, dispatcherVars
<1>4. ASSUME NEW id \in ghosts, Late(id) PROVE PoolInv'
  BY <1>2, <1>4 DEF Late, GhostEnds, PoolFrame
<1>5. CASE UNCHANGED poolVars
  BY <1>2, <1>5 DEF poolVars, dispatcherVars
<1> QED
  BY <1>3, <1>4, <1>5, SubmitStep, TakeStep, KeepStep, FinishStep DEF PoolNext

-----------------------------------------------------------------------------
(* The places counted.                                                     *)
LEMMA AtMostOne ==
  ASSUME NEW S, NEW P, \A x \in S, y \in S : x = y, P <=> S # {}
  PROVE  Cardinality(S) = IF P THEN 1 ELSE 0
<1>1. CASE S = {}
  BY <1>1, FS_EmptySet
<1>2. CASE S # {}
  <2>1. PICK x : S = {x}
    BY <1>2
  <2> QED
    BY <1>2, <2>1, FS_Singleton
<1> QED
  BY <1>1, <1>2

LEMMA CountPlaces ==
  ASSUME PoolInv
  PROVE  ReportedOnce
<1> SUFFICES ASSUME NEW task \in Task
             PROVE  LET places == Cardinality(Queued(task)) + Cardinality(Held(task))
                                    + Len(reports[task])
                    IN  /\ places <= 1
                        /\ places = 0 /\ task \in submitted => ~Live(task)
                        /\ reports[task] = <<"success">> => task.id \in accepted
  BY DEF ReportedOnce
<1>1. Cardinality(Queued(task)) = IF InQueue(task) THEN 1 ELSE 0
  <2>1. \A i \in Queued(task), j \in Queued(task) : i = j
    BY DEF PoolInv, NoRepeat, Queued
  <2>2. InQueue(task) <=> Queued(task) # {}
    BY DEF InQueue, InSeq, Queued
  <2> QED
    BY <2>1, <2>2, AtMostOne
<1>2. Cardinality(Held(task)) = IF AtWorker(task) THEN 1 ELSE 0
  <2>1. \A w \in Held(task), x \in Held(task) : w = x
    BY DEF PoolInv, OneEach, Held
  <2>2. AtWorker(task) <=> Held(task) # {}
    BY DEF AtWorker, Held
  <2> QED
    BY <2>1, <2>2, AtMostOne
<1>3. Len(reports[task]) = IF Reported(task) THEN 1 ELSE 0
  <2>1. reports[task] \in Seq({"success", "error"}) /\ Len(reports[task]) \in {0, 1}
    BY DEF PoolInv, PoolTypeOK, PlaceInv
  <2>2. Len(reports[task]) \in Nat /\ (reports[task] = <<>> <=> Len(reports[task]) = 0)
    BY <2>1, EmptySeq, LenProperties
  <2> QED
    BY <2>1, <2>2 DEF Reported
<1>4. PlaceInv(task) /\ (reports[task] = <<"success">> => task.id \in accepted)
  BY DEF PoolInv, AnswerInv
<1> QED
  BY <1>1, <1>2, <1>3, <1>4 DEF PlaceInv

(* Every task that is not cancelled is reported, and none is reported      *)
(* twice, whatever fails, is retried, times out or is cancelled.           *)
THEOREM ReportsEachOnce == PoolSpec => []ReportedOnce
BY PoolInvInit, PoolInvStep, CountPlaces, PTL DEF PoolSpec
===============================================================================
