-------------------------- MODULE WebhookOrderProofs --------------------------
(***************************************************************************)
(* What webhook delivery promises, for every value of the constants: no    *)
(* update is lost silently, the updates of a chat are first accepted in    *)
(* order, and the whole of WebhookDelivery implements WebhookPromise.      *)
(*                                                                         *)
(* ChatOrder is not inductive: it needs that whatever is on its way to an  *)
(* application (Outstanding) is already in order, which needs that the     *)
(* loop knows every update of the stream up to its cursor (LoadInv), which *)
(* together with NoSilentLoss makes the head of a queue the oldest update  *)
(* of its chat that is not settled.  NoSilentLoss in turn needs that what  *)
(* the loop takes for accepted is accepted (AcceptInv).                    *)
(***************************************************************************)
EXTENDS WebhookDeliveryProofs

USE ConstantTypes DEF Updates, Contexts

QueuedIds == {taskQueue[i].id : i \in DOMAIN taskQueue}
WorkerIds == {worker[w].task.id : w \in {x \in Workers : worker[x] # D!Idle}}
Outstanding == QueuedIds \cup WorkerIds \cup ghosts

StreamInv == stream \subseteq 1..lastID /\ NoSilentLoss

LoadInv ==
  /\ tail <= lastID
  /\ \A u \in queued : u <= tail
  /\ \A v \in stream \cap Readable : v <= tail => v \in queued

(* A worker learns of an acceptance only from the application.             *)
WorkersKnow ==
  \A w \in Workers : worker[w] # D!Idle /\ worker[w].answer = "accepted"
                     => worker[w].task.id \in accepted

AcceptInv ==
  /\ delivered \subseteq accepted
  /\ \A i \in DOMAIN results : results[i].outcome = "ok" => results[i].id \in accepted
  /\ WorkersKnow

OrderInv ==
  \A u \in Outstanding \cup accepted : u <= lastID /\ Before(u) \subseteq Settled

IInv == TypeOK /\ StreamInv /\ LoadInv /\ AcceptInv /\ OrderInv
-----------------------------------------------------------------------------
(* Elements of the queues the steps build.                                 *)
LEMMA TailElements ==
  ASSUME NEW S, NEW q \in Seq(S), q # <<>>
  PROVE  /\ 1 \in DOMAIN q /\ Head(q) = q[1]
         /\ \A i \in DOMAIN Tail(q) : i + 1 \in DOMAIN q /\ Tail(q)[i] = q[i + 1]
<1>1. Len(q) \in Nat \ {0} /\ DOMAIN q = 1..Len(q)
  BY EmptySeq, LenProperties
<1>2. Len(Tail(q)) = Len(q) - 1 /\ DOMAIN Tail(q) = 1..Len(q) - 1
  BY <1>1, HeadTailProperties, LenProperties
<1>3. \A i \in 1..Len(Tail(q)) : Tail(q)[i] = q[i + 1]
  BY HeadTailProperties
<1> QED
  BY <1>1, <1>2, <1>3, HeadTailProperties

LEMMA AppendElements ==
  ASSUME NEW S, NEW q \in Seq(S), NEW e \in S, NEW i \in DOMAIN Append(q, e)
  PROVE  Append(q, e)[i] = e \/ (i \in DOMAIN q /\ Append(q, e)[i] = q[i])
<1>1. Len(q) \in Nat /\ DOMAIN q = 1..Len(q)
  BY LenProperties
<1>2. DOMAIN Append(q, e) = 1..Len(q) + 1
  BY <1>1, AppendProperties, LenProperties
<1> QED
  BY <1>1, <1>2, AppendProperties

-----------------------------------------------------------------------------
(* What is on its way to an application came from where it was before, and *)
(* an application accepts only what was on its way.                        *)
OnlyKnown ==
  /\ Outstanding' \subseteq Outstanding
  /\ accepted \subseteq accepted'
  /\ accepted' \subseteq accepted \cup Outstanding

LEMMA OneWorker ==
  ASSUME D!DispatcherTypeOK, NEW w \in Workers, NEW state,
         worker' = [worker EXCEPT ![w] = state],
         NEW known, WorkerIds \subseteq known,
         state # D!Idle => state.task.id \in known
  PROVE  WorkerIds' \subseteq known
<1>1. \A x \in Workers : worker'[x] = IF x = w THEN state ELSE worker[x]
  BY DEF D!DispatcherTypeOK
<1> QED
  BY <1>1 DEF WorkerIds

LEMMA SilentKnown == D!DispatcherTypeOK /\ D!SilentStep => OnlyKnown
<1> USE DEF Outstanding
<1>1. ASSUME D!DispatcherTypeOK, NEW w \in Workers, D!TakeTask(w) PROVE OnlyKnown
  <2>1. Head(taskQueue).id \in QueuedIds /\ QueuedIds' \subseteq QueuedIds
    BY <1>1, TailElements DEF D!TakeTask, D!DispatcherTypeOK, QueuedIds
  <2>2. WorkerIds' \subseteq WorkerIds \cup QueuedIds
    <3>1. CASE worker' = worker
      BY <3>1 DEF WorkerIds
    <3>2. CASE worker' = [worker EXCEPT ![w] = D!Posting(Head(taskQueue), 1)]
      <4> DEFINE first == D!Posting(Head(taskQueue), 1)
      <4>1. first.task.id \in WorkerIds \cup QueuedIds
        BY <2>1 DEF D!Posting
      <4>2. WorkerIds \subseteq WorkerIds \cup QueuedIds
        OBVIOUS
      <4> HIDE DEF first
      <4>3. worker' = [worker EXCEPT ![w] = first]
        BY <3>2 DEF first
      <4> QED
        BY <1>1, <4>1, <4>2, <4>3, OneWorker
    <3> QED
      BY <1>1, <3>1, <3>2 DEF D!TakeTask
  <2> QED
    BY <1>1, <2>1, <2>2 DEF D!TakeTask, OnlyKnown
<1>2. ASSUME D!DispatcherTypeOK, NEW w \in Workers, worker[w] # D!Idle,
             NEW state, state.task = worker[w].task,
             worker' = [worker EXCEPT ![w] = state],
             UNCHANGED taskQueue, ghosts' \subseteq ghosts \cup {worker[w].task.id}
      PROVE  Outstanding' \subseteq Outstanding /\ worker[w].task.id \in Outstanding
  <2>1. worker[w].task.id \in WorkerIds
    BY <1>2 DEF WorkerIds
  <2>2. WorkerIds' \subseteq WorkerIds
    BY <1>2, <2>1, OneWorker
  <2> QED
    BY <1>2, <2>1, <2>2 DEF QueuedIds
<1>3. ASSUME D!DispatcherTypeOK, NEW w \in Workers,
             D!ConnectionFails(w) \/ D!Resend(w) \/ D!AppAccepts(w) \/ D!AppRejects(w)
      PROVE  OnlyKnown
  <2>1. worker[w] # D!Idle /\ worker[w] \in D!Busy
    BY <1>3, WorkerTypes DEF D!ConnectionFails, D!Resend, D!AppAccepts, D!AppRejects, D!Idle
  <2>2. \E state : /\ worker' = [worker EXCEPT ![w] = state]
                   /\ state.task = worker[w].task
    <3>1. CASE D!ConnectionFails(w)
      <4>1. [worker[w] EXCEPT !.phase = "sleeping", !.answer = "none"].task = worker[w].task
        BY <2>1 DEF D!Busy
      <4> QED
        BY <3>1, <4>1 DEF D!ConnectionFails
    <3>2. CASE D!Resend(w)
      <4> DEFINE next == D!Posting(worker[w].task, worker[w].attempt + 1)
      <4>1. next.task = worker[w].task
        BY DEF D!Posting
      <4>2. worker' = [worker EXCEPT ![w] = next]
        BY <3>2 DEF D!Resend
      <4> QED
        BY <4>1, <4>2
    <3>3. CASE D!AppAccepts(w)
      <4>1. [worker[w] EXCEPT !.answer = "accepted"].task = worker[w].task
        BY <2>1 DEF D!Busy
      <4> QED
        BY <3>3, <4>1 DEF D!AppAccepts
    <3>4. CASE D!AppRejects(w)
      <4>1. [worker[w] EXCEPT !.answer = "rejected"].task = worker[w].task
        BY <2>1 DEF D!Busy
      <4> QED
        BY <3>4, <4>1 DEF D!AppRejects
    <3> QED
      BY <1>3, <3>1, <3>2, <3>3, <3>4
  <2>3. UNCHANGED taskQueue /\ ghosts' \subseteq ghosts \cup {worker[w].task.id}
    BY <1>3 DEF D!ConnectionFails, D!LeftBehind, D!Resend, D!AppAccepts, D!AppRejects
  <2>4. Outstanding' \subseteq Outstanding /\ worker[w].task.id \in Outstanding
    BY <1>2, <1>3, <2>1, <2>2, <2>3
  <2>5. accepted' = accepted \/ accepted' = accepted \cup {worker[w].task.id}
    BY <1>3 DEF D!ConnectionFails, D!Resend, D!AppAccepts, D!AppRejects
  <2> QED
    BY <2>4, <2>5 DEF OnlyKnown
<1>4. ASSUME D!DispatcherTypeOK, NEW id \in ghosts, D!GhostEnds(id) PROVE OnlyKnown
  BY <1>4 DEF D!GhostEnds, OnlyKnown, QueuedIds, WorkerIds
<1> QED
  BY <1>1, <1>3, <1>4 DEF D!SilentStep

(* A worker that is done leaves at most a late request behind.             *)
LEMMA DoneKnown ==
  ASSUME D!DispatcherTypeOK, NEW w \in Workers, D!Succeeds(w) \/ D!Fails(w)
  PROVE  OnlyKnown
<1>1. worker[w] # D!Idle
  BY DEF D!Succeeds, D!Fails, D!Rejected, D!TimesOut, D!GivesUp, D!Idle
<1>2. worker[w].task.id \in WorkerIds
  BY <1>1 DEF WorkerIds
<1>3. worker' = [worker EXCEPT ![w] = D!Idle] /\ UNCHANGED <<taskQueue, accepted>>
  BY DEF D!Succeeds, D!Fails, D!Rejected, D!TimesOut, D!GivesUp
<1>4. WorkerIds' \subseteq WorkerIds
  BY <1>3, OneWorker
<1>5. ghosts' \subseteq ghosts \cup {worker[w].task.id}
  BY DEF D!Succeeds, D!Fails, D!Rejected, D!TimesOut, D!GivesUp, D!LeftBehind
<1> QED
  BY <1>2, <1>3, <1>4, <1>5 DEF OnlyKnown, Outstanding, QueuedIds

LEMMA CrashKnown ==
  ASSUME D!DispatcherTypeOK, D!ProcessDies
  PROVE  OnlyKnown
<1>1. QueuedIds' = {} /\ WorkerIds' = {}
  BY DEF D!ProcessDies, QueuedIds, WorkerIds
<1>2. ghosts' \subseteq ghosts \cup WorkerIds
  BY DEF D!ProcessDies, WorkerIds, D!Idle
<1> QED
  BY <1>1, <1>2 DEF OnlyKnown, Outstanding, D!ProcessDies

LEMMA EnqueueKnown ==
  ASSUME D!DispatcherTypeOK, NEW task \in D!Task, D!EnqueueTask(task)
  PROVE  Outstanding' \subseteq Outstanding \cup {task.id}
<1>1. QueuedIds' \subseteq QueuedIds \cup {task.id}
  BY AppendElements DEF D!EnqueueTask, D!DispatcherTypeOK, QueuedIds
<1> QED
  BY <1>1 DEF D!EnqueueTask, Outstanding, WorkerIds
-----------------------------------------------------------------------------
(* The initial states.                                                     *)
LEMMA InvInit == Init => IInv
<1> SUFFICES ASSUME Init PROVE IInv
  OBVIOUS
<1>1. taskQueue = <<>> /\ ghosts = {} /\ accepted = {} /\ \A w \in Workers : worker[w] = D!Idle
  BY DEF Init, D!DispatcherInit
<1>2. StreamInv
  BY DEF Init, StreamInv, NoSilentLoss
<1>3. LoadInv
  <2>1. tail = 0 /\ queued = {} /\ stream = 1..Backlog /\ lastID = Backlog /\ Backlog \in Nat
    BY DEF Init, NoLoop
  <2> QED
    BY <2>1 DEF LoadInv
<1>4. AcceptInv
  BY <1>1 DEF Init, NoLoop, AcceptInv, WorkersKnow
<1>5. OrderInv
  BY <1>1 DEF OrderInv, Outstanding, QueuedIds, WorkerIds
<1> QED
  BY TypeInit, <1>2, <1>3, <1>4, <1>5 DEF IInv

-----------------------------------------------------------------------------
(* The four parts of the invariant, each by what a step may change of it.  *)
Grows == lastID \in Nat /\ lastID' \in Nat /\ lastID <= lastID' /\ Settled \subseteq Settled'

(* What leaves the stream is settled.                                      *)
LEMMA StreamKept ==
  ASSUME StreamInv, Grows, lastID' = lastID, stream' \subseteq stream,
         stream \subseteq stream' \cup Settled'
  PROVE  StreamInv'
BY DEF StreamInv, NoSilentLoss, Grows

(* Nothing that the loop has passed comes back, and it forgets only what   *)
(* has left the stream.                                                    *)
LEMMA LoadKept ==
  ASSUME TypeOK, LoadInv, Grows, tail' = tail, queued' \subseteq queued,
         \A v \in stream' : v <= tail => v \in stream,
         \A v \in stream' : v \in queued => v \in queued'
  PROVE  LoadInv'
<1>1. tail \in Nat /\ tail' <= lastID'
  BY DEF TypeOK, EntryTypeOK, LoadInv, Grows
<1> QED
  BY <1>1 DEF LoadInv

LEMMA OutstandingUpdates ==
  ASSUME D!DispatcherTypeOK
  PROVE  Outstanding \subseteq Updates
<1>1. QueuedIds \subseteq Updates
  <2>1. taskQueue \in Seq(D!Task)
    BY DEF D!DispatcherTypeOK
  <2>2. \A i \in DOMAIN taskQueue : taskQueue[i] \in D!Task
    BY <2>1, LenProperties, ElementOfSeq
  <2> QED
    BY <2>2 DEF D!Task, QueuedIds
<1>2. WorkerIds \subseteq Updates
  BY DEF D!DispatcherTypeOK, D!Busy, D!Task, WorkerIds
<1> QED
  BY <1>1, <1>2 DEF Outstanding, D!DispatcherTypeOK

(* What is in order stays in order, and nothing new is on its way.         *)
LEMMA OrderKept ==
  ASSUME TypeOK, OrderInv, Grows, OnlyKnown
  PROVE  OrderInv'
<1>1. Outstanding' \cup accepted' \subseteq Outstanding \cup accepted
  BY DEF OnlyKnown
<1>2. Outstanding \cup accepted \subseteq Updates
  BY OutstandingUpdates DEF TypeOK, D!DispatcherTypeOK
<1>3. ASSUME NEW u \in Outstanding' \cup accepted'
      PROVE  u <= lastID' /\ Before(u)' \subseteq Settled'
  <2> u \in Outstanding \cup accepted
    BY <1>1, <1>3
  <2>1. u \in Nat /\ u <= lastID /\ Before(u) \subseteq Settled
    BY <1>2 DEF OrderInv
  <2>2. Before(u)' = Before(u)
    BY DEF Before, SameQueue, WebhookQueueKey, Readable
  <2> QED
    BY <2>1, <2>2 DEF Grows
<1> QED
  BY <1>3 DEF OrderInv

(* Steps that leave the applications, the pool and the stream alone.       *)
LEMMA StillKnown == UNCHANGED dispatcherVars => OnlyKnown
BY DEF dispatcherVars, OnlyKnown, Outstanding, QueuedIds, WorkerIds

-----------------------------------------------------------------------------
(* The update worker.                                                      *)
LEMMA AppendKeepsNew ==
  ASSUME NEW n \in Nat, NEW s \in SUBSET (1..n), NEW m,
         NEW t \in AppendUpdate(s, n + 1, m)
  PROVE  n + 1 \in t
<1>1. CASE t = s \cup {n + 1}
  BY <1>1
<1>2. CASE \E oldest \in s \cup {n + 1} : t = {e \in s \cup {n + 1} : e >= oldest}
  BY <1>2
<1> QED
  BY <1>1, <1>2 DEF AppendUpdate

LEMMA ProducerStep ==
  IInv /\ Producer => StreamInv' /\ LoadInv' /\ AcceptInv' /\ OrderInv' /\ Grows
<1> SUFFICES ASSUME IInv, Producer
             PROVE  StreamInv' /\ LoadInv' /\ AcceptInv' /\ OrderInv' /\ Grows
  OBVIOUS
<1>1. lastID \in Nat /\ tail \in Nat /\ stream \subseteq 1..lastID
  BY DEF IInv, TypeOK, RedisTypeOK, EntryTypeOK, StreamInv
<1>2. OnlyKnown
  BY StillKnown DEF Producer, BeginBatch, AppendNext, Notify
<1>3. AcceptInv'
  BY DEF IInv, AcceptInv, WorkersKnow, Producer, BeginBatch, AppendNext, Notify, entryVars, loopVars, dispatcherVars
<1>4. CASE BeginBatch \/ Notify
  <2>1. UNCHANGED <<stream, lastID, accepted, expired, dropped, trimmed, tail, queued>>
    BY <1>4 DEF BeginBatch, Notify, redisVars, lossVars, entryVars, loopVars, dispatcherVars
  <2>2. Grows
    BY <1>1, <2>1 DEF Grows, Settled
  <2> QED
    BY <1>2, <1>3, <2>1, <2>2, StreamKept, LoadKept, OrderKept DEF IInv
<1>5. CASE AppendNext
  <2>1. lastID' = lastID + 1 /\ UNCHANGED <<accepted, expired, dropped, tail, queued>>
    BY <1>5 DEF AppendNext, loopVars, entryVars, dispatcherVars
  <2>2. stream' \subseteq stream \cup {lastID + 1} /\ lastID + 1 \in stream'
    BY <1>1, <1>5, AppendBounded, AppendKeepsNew DEF AppendNext
  <2>3. trimmed' = trimmed \cup (stream \ stream')
    BY <1>5 DEF AppendNext
  <2>4. Grows
    BY <1>1, <2>1, <2>3 DEF Grows, Settled
  <2>5. StreamInv'
    BY <1>1, <2>1, <2>2, <2>3, <2>4 DEF IInv, StreamInv, NoSilentLoss, Grows, Settled
  <2>6. tail <= lastID
    BY DEF IInv, LoadInv
  <2>7. \A v \in stream' : v <= tail => v \in stream
    BY <1>1, <2>2, <2>6
  <2> QED
    BY <1>2, <1>3, <2>1, <2>4, <2>5, <2>7, LoadKept, OrderKept DEF IInv
<1> QED
  BY <1>4, <1>5 DEF Producer
-----------------------------------------------------------------------------
(* setWebhook, deleteWebhook, Stop, Start and crashes.                     *)
LEMMA FreshLoop ==
  ASSUME IInv, NEW h, StartDelivery(h), stream' \subseteq stream, UNCHANGED <<lastID, accepted>>,
         \A w \in Workers : worker'[w] \in {worker[w], D!Idle}
  PROVE  LoadInv' /\ AcceptInv'
<1>1. tail' = 0 /\ queued' = {} /\ results' = <<>> /\ delivered' = {}
  BY DEF StartDelivery
<1>2. stream' \subseteq 1..lastID' /\ lastID' \in Nat
  BY DEF IInv, StreamInv, TypeOK, RedisTypeOK
<1>3. LoadInv'
  <2>1. tail' <= lastID'
    BY <1>1, <1>2
  <2>2. \A v \in stream' : ~(v <= tail')
    BY <1>1, <1>2
  <2> QED
    BY <1>1, <2>1, <2>2 DEF LoadInv
<1>4. AcceptInv'
  BY <1>1 DEF IInv, AcceptInv, WorkersKnow
<1> QED
  BY <1>3, <1>4

LEMMA ControlStep ==
  IInv /\ Control => StreamInv' /\ LoadInv' /\ AcceptInv' /\ OrderInv' /\ Grows
<1> SUFFICES ASSUME IInv, Control
             PROVE  StreamInv' /\ LoadInv' /\ AcceptInv' /\ OrderInv' /\ Grows
  OBVIOUS
<1>1. lastID \in Nat
  BY DEF IInv, TypeOK, RedisTypeOK
<1>2. CASE (\E r \in Requests : BeginChange(r)) \/ StopBot
  <2>1. UNCHANGED <<stream, lastID, expired, dropped, trimmed, tail, queued, delivered,
                    results, dispatcherVars>>
    BY <1>2 DEF BeginChange, StopBot, redisVars, lossVars, entryVars, loopVars
  <2>2. Grows /\ OnlyKnown
    BY <1>1, <2>1, StillKnown DEF Grows, Settled, dispatcherVars
  <2>3. AcceptInv'
    BY <2>1 DEF IInv, AcceptInv, WorkersKnow, dispatcherVars
  <2> QED
    BY <2>1, <2>2, <2>3, StreamKept, LoadKept, OrderKept DEF IInv
<1>3. CASE SetWebhook \/ DeleteWebhook
  <2>1. PICK h : ChangeWebhook(h)
    BY <1>3 DEF SetWebhook, DeleteWebhook
  <2>2. UNCHANGED <<lastID, expired, trimmed, dispatcherVars>> /\ StartDelivery(hook')
    BY <2>1 DEF ChangeWebhook
  <2>3. stream' \subseteq stream /\ stream \subseteq stream' \cup dropped' /\ dropped \subseteq dropped'
    BY <2>1 DEF ChangeWebhook, DropPending, DropPendingUpdates
  <2>4. Grows /\ OnlyKnown
    BY <1>1, <2>2, <2>3, StillKnown DEF Grows, Settled, dispatcherVars
  <2>5. LoadInv' /\ AcceptInv'
    BY <2>2, <2>3, FreshLoop DEF dispatcherVars
  <2>6. stream \subseteq stream' \cup Settled'
    BY <2>3 DEF Settled
  <2> QED
    BY <2>2, <2>3, <2>4, <2>5, <2>6, StreamKept, OrderKept DEF IInv
<1>4. CASE StartBot \/ Crash
  <2>1. UNCHANGED <<stream, lastID, expired, dropped, trimmed, accepted>>
    BY <1>4 DEF StartBot, Crash, D!ProcessDies, redisVars, lossVars, dispatcherVars
  <2>2. \A w \in Workers : worker'[w] \in {worker[w], D!Idle}
    BY <1>4 DEF StartBot, Crash, D!ProcessDies, dispatcherVars
  <2>3. PICK h : StartDelivery(h)
    BY <1>4 DEF StartBot, Crash
  <2>4. Grows
    BY <1>1, <2>1 DEF Grows, Settled
  <2>5. OnlyKnown
    BY <1>4, StillKnown, CrashKnown DEF StartBot, Crash, IInv, TypeOK
  <2>6. LoadInv' /\ AcceptInv'
    BY <2>1, <2>2, <2>3, FreshLoop
  <2> QED
    BY <2>1, <2>4, <2>5, <2>6, StreamKept, OrderKept DEF IInv
<1> QED
  BY <1>2, <1>3, <1>4 DEF Control

-----------------------------------------------------------------------------
(* The pool and the applications.                                          *)

(* A result that is reported as a success is one.                          *)
LEMMA ReportAccepted ==
  ASSUME TypeOK, AcceptInv, accepted \subseteq accepted',
         NEW task \in D!Task, NEW outcome \in {"ok", "error"}, Report(task, outcome),
         outcome = "ok" => task.id \in accepted
  PROVE  \A i \in DOMAIN results' : results'[i].outcome = "ok" => results'[i].id \in accepted'
<1>1. results \in Seq(Result) /\ task.id \in Updates
  BY DEF TypeOK, LoopTypeOK, D!Task
<1>2. \A i \in DOMAIN results : results[i].outcome = "ok" => results[i].id \in accepted'
  BY DEF AcceptInv
<1>3. CASE results' = results
  BY <1>2, <1>3
<1>4. CASE results' = Append(results, [id |-> task.id, outcome |-> outcome])
  <2> DEFINE new == [id |-> task.id, outcome |-> outcome]
  <2>1. new \in Result
    BY <1>1 DEF Result
  <2>2. new.outcome = "ok" => new.id \in accepted'
    OBVIOUS
  <2> HIDE DEF new
  <2>3. results' = Append(results, new)
    BY <1>4 DEF new
  <2>4. \A i \in DOMAIN results' :
           results'[i] = new \/ (i \in DOMAIN results /\ results'[i] = results[i])
    BY <1>1, <2>1, <2>3, AppendElements
  <2> QED
    BY <1>2, <2>2, <2>4
<1> QED
  BY <1>3, <1>4 DEF Report

LEMMA WorkerKnows ==
  ASSUME D!DispatcherTypeOK, WorkersKnow, NEW w \in Workers, NEW state,
         worker' = [worker EXCEPT ![w] = state], accepted \subseteq accepted',
         state # D!Idle /\ state.answer = "accepted" => state.task.id \in accepted'
  PROVE  WorkersKnow'
<1>1. \A x \in Workers : worker'[x] = IF x = w THEN state ELSE worker[x]
  BY DEF D!DispatcherTypeOK
<1> QED
  BY <1>1 DEF WorkersKnow
LEMMA SilentKnows ==
  ASSUME D!DispatcherTypeOK, WorkersKnow, D!SilentStep
  PROVE  WorkersKnow'
<1>1. accepted \subseteq accepted'
  BY SilentKnown DEF OnlyKnown
<1>2. ASSUME NEW w \in Workers, D!TakeTask(w) PROVE WorkersKnow'
  <2>1. CASE worker' = worker
    BY <1>1, <2>1 DEF WorkersKnow
  <2>2. CASE worker' = [worker EXCEPT ![w] = D!Posting(Head(taskQueue), 1)]
    <3> DEFINE state == D!Posting(Head(taskQueue), 1)
    <3>1. state.answer = "none"
      BY DEF D!Posting
    <3> HIDE DEF state
    <3>2. worker' = [worker EXCEPT ![w] = state]
      BY <2>2 DEF state
    <3> QED
      BY <1>1, <3>1, <3>2, WorkerKnows
  <2> QED
    BY <1>2, <2>1, <2>2 DEF D!TakeTask
<1>3. ASSUME NEW w \in Workers, D!Resend(w) PROVE WorkersKnow'
  <2> DEFINE state == D!Posting(worker[w].task, worker[w].attempt + 1)
  <2>1. state.answer = "none"
    BY DEF D!Posting
  <2> HIDE DEF state
  <2>2. worker' = [worker EXCEPT ![w] = state]
    BY <1>3 DEF D!Resend, state
  <2> QED
    BY <1>1, <2>1, <2>2, WorkerKnows
<1>4. ASSUME NEW w \in Workers, D!ConnectionFails(w) PROVE WorkersKnow'
  <2> DEFINE state == [worker[w] EXCEPT !.phase = "sleeping", !.answer = "none"]
  <2>1. worker[w] \in D!Busy
    BY <1>4, WorkerTypes DEF D!ConnectionFails, D!Idle
  <2>2. state.answer = "none"
    BY <2>1 DEF D!Busy
  <2> HIDE DEF state
  <2>3. worker' = [worker EXCEPT ![w] = state]
    BY <1>4 DEF D!ConnectionFails, state
  <2> QED
    BY <1>1, <2>2, <2>3, WorkerKnows
<1>5. ASSUME NEW w \in Workers, NEW a, worker[w].phase = "posting",
             worker' = [worker EXCEPT ![w].answer = a],
             a = "accepted" => worker[w].task.id \in accepted'
      PROVE  WorkersKnow'
  <2> DEFINE state == [worker[w] EXCEPT !.answer = a]
  <2>1. worker[w] \in D!Busy
    BY <1>5, WorkerTypes
  <2>2. state.answer = a /\ state.task = worker[w].task
    BY <2>1 DEF D!Busy
  <2> HIDE DEF state
  <2>3. worker' = [worker EXCEPT ![w] = state]
    BY <1>5 DEF state
  <2> QED
    BY <1>1, <1>5, <2>2, <2>3, WorkerKnows
<1>6. ASSUME NEW w \in Workers, D!AppAccepts(w) \/ D!AppRejects(w) PROVE WorkersKnow'
  BY <1>5, <1>6 DEF D!AppAccepts, D!AppRejects
<1>7. ASSUME NEW id \in ghosts, D!GhostEnds(id) PROVE WorkersKnow'
  BY <1>1, <1>7 DEF D!GhostEnds, WorkersKnow
<1> QED
  BY <1>2, <1>3, <1>4, <1>6, <1>7 DEF D!SilentStep

LEMMA DispatchingStep ==
  IInv /\ Dispatching => StreamInv' /\ LoadInv' /\ AcceptInv' /\ OrderInv' /\ Grows
<1> SUFFICES ASSUME IInv, Dispatching
             PROVE  StreamInv' /\ LoadInv' /\ AcceptInv' /\ OrderInv' /\ Grows
  OBVIOUS
<1>1. UNCHANGED <<stream, lastID, expired, dropped, trimmed, tail, queued, delivered>>
  BY DEF Dispatching, ReportSuccess, ReportError, DispatcherStep, DispatcherFrame,
         redisVars, lossVars, entryVars
<1>2. D!DispatcherTypeOK /\ WorkersKnow /\ lastID \in Nat
  BY DEF IInv, TypeOK, RedisTypeOK, AcceptInv
<1>3. OnlyKnown
  BY <1>2, SilentKnown, DoneKnown DEF Dispatching, ReportSuccess, ReportError, DispatcherStep
<1>4. Grows
  BY <1>1, <1>2, <1>3 DEF Grows, Settled, OnlyKnown
<1>5. WorkersKnow'
  <2>1. ASSUME NEW w \in Workers, D!Succeeds(w) \/ D!Fails(w) PROVE WorkersKnow'
    <3>1. worker' = [worker EXCEPT ![w] = D!Idle]
      BY <2>1 DEF D!Succeeds, D!Fails, D!Rejected, D!TimesOut, D!GivesUp
    <3> QED
      BY <1>2, <1>3, <3>1, WorkerKnows DEF OnlyKnown
  <2> QED
    BY <1>2, <2>1, SilentKnows DEF Dispatching, ReportSuccess, ReportError, DispatcherStep
<1>6. AcceptInv'
  <2>1. ASSUME NEW w \in Workers, ReportSuccess(w) PROVE AcceptInv'
    <3>1. worker[w].task \in D!Task /\ worker[w].task.id \in accepted
      BY <1>2, <2>1, WorkerTypes DEF ReportSuccess, D!Succeeds, D!Idle, WorkersKnow
    <3>2. \A i \in DOMAIN results' : results'[i].outcome = "ok" => results'[i].id \in accepted'
      BY <1>3, <2>1, <3>1, ReportAccepted DEF IInv, ReportSuccess, OnlyKnown
    <3> QED
      BY <1>1, <1>3, <1>5, <3>2 DEF IInv, AcceptInv, OnlyKnown
  <2>2. ASSUME NEW w \in Workers, ReportError(w) PROVE AcceptInv'
    <3>1. worker[w].task \in D!Task
      BY <1>2, <2>2, WorkerTypes DEF ReportError, D!Fails, D!Rejected, D!TimesOut, D!GivesUp
    <3>2. \A i \in DOMAIN results' : results'[i].outcome = "ok" => results'[i].id \in accepted'
      BY <1>3, <2>2, <3>1, ReportAccepted DEF IInv, ReportError, OnlyKnown
    <3> QED
      BY <1>1, <1>3, <1>5, <3>2 DEF IInv, AcceptInv, OnlyKnown
  <2>3. CASE DispatcherStep
    BY <1>1, <1>3, <1>5, <2>3 DEF IInv, AcceptInv, OnlyKnown, DispatcherStep
  <2> QED
    BY <2>1, <2>2, <2>3 DEF Dispatching
<1> QED
  BY <1>1, <1>3, <1>4, <1>6, StreamKept, LoadKept, OrderKept DEF IInv
-----------------------------------------------------------------------------
(* The delivery loop.                                                      *)

(* A page leaves no gap: what lies between the cursor and an entry of the  *)
(* page is in the page.                                                    *)
LEMMA PageClosed ==
  ASSUME TypeOK, NEW e \in Page, NEW f \in stream, tail < f, f < e
  PROVE  f \in Page
<1> DEFINE n == IF MaxLoaded - Cardinality(loaded) <= 0
                   \/ MaxLoaded - Cardinality(loaded) > PageSize
                THEN PageSize ELSE MaxLoaded - Cardinality(loaded)
           Between(x) == {y \in stream : tail < y /\ y < x}
<1>1. stream \subseteq 1..MaxUpdates /\ tail \in Nat /\ loaded \subseteq 1..MaxUpdates
  BY DEF TypeOK, RedisTypeOK, EntryTypeOK
<1>2. IsFiniteSet(1..MaxUpdates)
  BY FS_Interval
<1>3. Cardinality(loaded) \in Nat
  BY <1>1, <1>2, FS_Subset, FS_CardinalityType
<1>4. n \in Int
  BY <1>3, DeliveryAssumption DEF DeliveryAssumption
<1>5. e \in stream /\ e > tail /\ Cardinality(Between(e)) < n
  BY DEF Page, ReadUpdatesAfter, XRangeN
<1>6. Cardinality(Between(f)) <= Cardinality(Between(e))
  <2>1. Between(f) \subseteq Between(e)
    <3>1. ASSUME NEW y \in stream, y < f PROVE y < e
      <4>1. y \in Nat /\ f \in Nat /\ e \in Nat /\ f < e
        BY <1>1, <1>5
      <4> QED
        BY <3>1, <4>1
    <3> QED
      BY <3>1
  <2>2. IsFiniteSet(Between(e))
    BY <1>1, <1>2, FS_Subset
  <2> QED
    BY <2>1, <2>2, FS_Subset
<1>7. Cardinality(Between(f)) \in Nat /\ Cardinality(Between(e)) \in Nat
  <2>1. IsFiniteSet(Between(e)) /\ IsFiniteSet(Between(f))
    BY <1>1, <1>2, FS_Subset
  <2> QED
    BY <2>1, FS_CardinalityType
<1>8. Cardinality(Between(f)) < n
  BY <1>4, <1>5, <1>6, <1>7
<1> QED
  BY <1>1, <1>8 DEF Page, ReadUpdatesAfter, XRangeN

LEMMA LoadPageStep ==
  ASSUME IInv, LoadPage
  PROVE  LoadInv'
<1>1. /\ stream \subseteq 1..lastID /\ lastID \in Nat /\ tail \in Nat /\ tail <= lastID
      /\ queued \subseteq Nat /\ UNCHANGED <<stream, lastID>>
  BY DEF IInv, TypeOK, RedisTypeOK, EntryTypeOK, StreamInv, LoadInv, LoadPage, LoadFrame, redisVars
<1>2. queued' = queued \cup (Page \ Unreadable)
  BY DEF LoadPage
<1>3. CASE Page = {}
  <2>1. tail' = tail /\ queued' = queued
    BY <1>2, <1>3 DEF LoadPage
  <2> QED
    BY <1>1, <2>1 DEF IInv, LoadInv
<1>4. CASE Page # {}
  <2>1. tail' \in Page /\ \A e \in Page : e <= tail'
    BY <1>4 DEF LoadPage
  <2>2. tail' \in stream /\ tail' > tail /\ tail' \in Nat /\ tail' <= lastID'
    BY <1>1, <2>1, PageInStream
  <2>3. ASSUME NEW u \in queued' PROVE u <= tail'
    BY <1>1, <1>2, <2>1, <2>2, <2>3 DEF IInv, LoadInv
  <2>4. ASSUME NEW v \in stream' \cap Readable, v <= tail' PROVE v \in queued'
    <3>1. v \in stream /\ v \in Nat
      BY <1>1
    <3>2. CASE v <= tail
      BY <1>2, <3>1, <3>2 DEF IInv, LoadInv
    <3>3. CASE v > tail
      <4>1. v \in Page
        BY <2>1, <2>2, <2>4, <3>1, <3>3, PageClosed DEF IInv
      <4> QED
        BY <1>2, <4>1 DEF Readable
    <3> QED
      BY <1>1, <3>1, <3>2, <3>3
  <2> QED
    BY <2>2, <2>3, <2>4 DEF LoadInv
<1> QED
  BY <1>3, <1>4

(* The head of a queue is the oldest update of its chat that is not        *)
(* settled: what was before it and is neither in the loop nor in the       *)
(* stream has been settled.                                                *)
LEMMA HeadInOrder ==
  ASSUME IInv, NEW u, IsHead(u)
  PROVE  u <= lastID /\ Before(u) \subseteq Settled
<1>1. u \in queued /\ u \in Nat /\ u <= tail /\ tail <= lastID /\ tail \in Nat /\ lastID \in Nat
  BY DEF IInv, TypeOK, RedisTypeOK, EntryTypeOK, LoadInv, IsHead
<1>2. ASSUME NEW v \in Before(u) PROVE v \in Settled
  <2>1. v \in Readable /\ v \in 1..MaxUpdates /\ v < u /\ SameQueue(u, v)
    BY DEF Before, Readable, SameQueue
  <2>2. v \notin queued
    BY <1>1, <2>1 DEF IsHead
  <2>3. v \notin stream
    BY <1>1, <2>1, <2>2 DEF IInv, LoadInv
  <2> QED
    BY <1>1, <2>1, <2>3 DEF IInv, StreamInv, NoSilentLoss
<1> QED
  BY <1>1, <1>2

LEMMA RemoveKept ==
  ASSUME IInv, Grows, NEW u, tail' = tail, lastID' = lastID,
         Removed(u) \/ NotRemoved(u)
  PROVE  LoadInv' /\ stream' \subseteq stream /\ stream \subseteq stream' \cup {u}
<1>1. stream' \subseteq stream /\ stream \subseteq stream' \cup {u}
  BY DEF Removed, NotRemoved, AckUpdate
<1>2. queued' \subseteq queued
  BY DEF Removed, NotRemoved
<1>3. \A v \in stream' : v \in queued => v \in queued'
  BY DEF Removed, NotRemoved, AckUpdate
<1> QED
  BY <1>1, <1>2, <1>3, LoadKept DEF IInv
LEMMA LoopStep ==
  IInv /\ Loop => StreamInv' /\ LoadInv' /\ AcceptInv' /\ OrderInv' /\ Grows
<1> SUFFICES ASSUME IInv, Loop
             PROVE  StreamInv' /\ LoadInv' /\ AcceptInv' /\ OrderInv' /\ Grows
  OBVIOUS
<1>1. lastID \in Nat
  BY DEF IInv, TypeOK, RedisTypeOK
<1>2. CASE ExitLoop
  <2>1. UNCHANGED <<stream, lastID, expired, dropped, trimmed, dispatcherVars>>
    BY <1>2 DEF ExitLoop, redisVars, lossVars
  <2>2. Grows /\ OnlyKnown
    BY <1>1, <2>1, StillKnown DEF Grows, Settled, dispatcherVars
  <2>3. LoadInv' /\ AcceptInv'
    BY <1>2, <2>1, FreshLoop DEF ExitLoop, dispatcherVars
  <2> QED
    BY <2>1, <2>2, <2>3, StreamKept, OrderKept DEF IInv
<1>3. CASE LoadPage \/ EndLoad
  <2>1. UNCHANGED <<stream, lastID, expired, dropped, trimmed, delivered, results, dispatcherVars>>
    BY <1>3 DEF LoadPage, EndLoad, LoadFrame, redisVars, lossVars
  <2>2. Grows /\ OnlyKnown
    BY <1>1, <2>1, StillKnown DEF Grows, Settled, dispatcherVars
  <2>3. AcceptInv'
    BY <2>1 DEF IInv, AcceptInv, WorkersKnow, dispatcherVars
  <2>4. LoadInv'
    BY <1>3, <2>1, <2>2, LoadPageStep, LoadKept DEF EndLoad, IInv
  <2> QED
    BY <2>1, <2>2, <2>3, <2>4, StreamKept, OrderKept DEF IInv
<1>4. ASSUME NEW u \in queued, DropHead(u)
      PROVE  StreamInv' /\ LoadInv' /\ AcceptInv' /\ OrderInv' /\ Grows
  <2>1. UNCHANGED <<lastID, tail, dropped, trimmed, results, dispatcherVars>>
        /\ (Removed(u) \/ NotRemoved(u))
    BY <1>4 DEF DropHead, DispatchFrame
  <2>2. expired \subseteq expired' /\ (u \in accepted \/ u \in stream' \/ u \in expired')
    BY <1>4 DEF DropHead, IInv, AcceptInv
  <2>3. Grows /\ OnlyKnown
    BY <1>1, <2>1, <2>2, StillKnown DEF Grows, Settled, dispatcherVars
  <2>4. LoadInv' /\ stream' \subseteq stream /\ stream \subseteq stream' \cup {u}
    BY <2>1, <2>3, RemoveKept
  <2>5. stream \subseteq stream' \cup Settled'
    BY <2>1, <2>2, <2>4 DEF Settled, dispatcherVars
  <2>6. delivered' \subseteq delivered
    BY <1>4 DEF DropHead, Removed
  <2>7. AcceptInv'
    BY <2>1, <2>6 DEF IInv, AcceptInv, WorkersKnow, dispatcherVars
  <2> QED
    BY <2>1, <2>3, <2>4, <2>5, <2>7, StreamKept, OrderKept DEF IInv
<1>5. ASSUME NEW u \in queued, SendHead(u)
      PROVE  StreamInv' /\ LoadInv' /\ AcceptInv' /\ OrderInv' /\ Grows
  <2>1. UNCHANGED <<stream, lastID, tail, queued, expired, dropped, trimmed, delivered,
                    worker, accepted, ghosts>>
    BY <1>5 DEF SendHead, DispatchFrame, D!EnqueueTask, dispatcherVars
  <2>2. Grows
    BY <1>1, <2>1 DEF Grows, Settled
  <2>3. AcceptInv'
    <3>1. results \in Seq(Result) /\ u \in Updates
      BY DEF IInv, TypeOK, LoopTypeOK, EntryTypeOK
    <3>2. CASE UNCHANGED results
      BY <2>1, <3>2 DEF IInv, AcceptInv, WorkersKnow
    <3>3. CASE results' = Append(results, [id |-> u, outcome |-> "error"])
      <4> DEFINE new == [id |-> u, outcome |-> "error"]
      <4>1. new \in Result /\ new.outcome # "ok"
        BY <3>1 DEF Result
      <4> HIDE DEF new
      <4>2. results' = Append(results, new)
        BY <3>3 DEF new
      <4>3. \A i \in DOMAIN results' :
               results'[i] = new \/ (i \in DOMAIN results /\ results'[i] = results[i])
        BY <3>1, <4>1, <4>2, AppendElements
      <4> QED
        BY <2>1, <4>1, <4>3 DEF IInv, AcceptInv, WorkersKnow
    <3> QED
      BY <1>5, <3>2, <3>3 DEF SendHead
  <2>4. OrderInv'
    <3>1. Outstanding' \subseteq Outstanding \cup {u}
      <4>1. CASE D!EnqueueTask([ctx |-> gen, id |-> u])
        <5>1. gen \in Contexts /\ u \in Updates
          BY <1>5 DEF SendHead, MayServe, IInv, TypeOK, LoopTypeOK, EntryTypeOK
        <5>2. [ctx |-> gen, id |-> u] \in D!Task
          BY <5>1 DEF D!Task
        <5> QED
          BY <4>1, <5>2, EnqueueKnown DEF IInv, TypeOK
      <4>2. CASE UNCHANGED dispatcherVars
        BY <4>2, StillKnown DEF OnlyKnown
      <4> QED
        BY <1>5, <4>1, <4>2 DEF SendHead
    <3>2. u <= lastID /\ Before(u) \subseteq Settled
      BY <1>5, HeadInOrder DEF SendHead, MayServe
    <3>3. \A x \in Outstanding \cup accepted \cup {u} : x <= lastID /\ Before(x) \subseteq Settled
      BY <3>2 DEF IInv, OrderInv
    <3>4. \A x \in Outstanding' \cup accepted' : x <= lastID /\ Before(x) \subseteq Settled
      BY <2>1, <3>1, <3>3
    <3>5. Settled' = Settled
      BY <2>1 DEF Settled
    <3>6. \A x : Before(x)' = Before(x)
      BY DEF Before, SameQueue, WebhookQueueKey, Readable
    <3> QED
      BY <2>1, <3>4, <3>5, <3>6 DEF OrderInv
  <2>5. StreamInv' /\ LoadInv'
    BY <2>1, <2>2, StreamKept, LoadKept DEF IInv
  <2> QED
    BY <2>2, <2>3, <2>4, <2>5
<1>6. CASE EndDispatch \/ TakeWake \/ TimerFires \/ EndDrain
  <2>1. UNCHANGED <<stream, lastID, expired, dropped, trimmed, tail, queued, delivered,
                    results, dispatcherVars>>
    BY <1>6 DEF EndDispatch, TakeWake, TimerFires, EndDrain, LoopGoes, redisVars, lossVars, entryVars
  <2>2. Grows /\ OnlyKnown
    BY <1>1, <2>1, StillKnown DEF Grows, Settled, dispatcherVars
  <2>3. AcceptInv'
    BY <2>1 DEF IInv, AcceptInv, WorkersKnow, dispatcherVars
  <2> QED
    BY <2>1, <2>2, <2>3, StreamKept, LoadKept, OrderKept DEF IInv
<1>7. CASE CompleteError \/ CompleteSuccess
  <2> DEFINE u == Head(results).id
  <2>1. UNCHANGED <<lastID, tail, expired, dropped, trimmed, dispatcherVars>>
        /\ results' = Tail(results) /\ results # <<>>
    BY <1>7 DEF CompleteError, CompleteSuccess, TakeResult, lossVars
  <2>2. Grows /\ OnlyKnown
    BY <1>1, <2>1, StillKnown DEF Grows, Settled, dispatcherVars
  <2>3. /\ Head(results) = results[1] /\ 1 \in DOMAIN results
        /\ \A i \in DOMAIN results' : i + 1 \in DOMAIN results /\ results'[i] = results[i + 1]
    BY <2>1, TailElements DEF IInv, TypeOK, LoopTypeOK
  <2>4. CASE UNCHANGED <<stream, queued, delivered>>
    <3>1. AcceptInv'
      BY <2>1, <2>3, <2>4 DEF IInv, AcceptInv, WorkersKnow, dispatcherVars
    <3> QED
      BY <2>1, <2>2, <2>4, <3>1, StreamKept, LoadKept, OrderKept DEF IInv
  <2>5. CASE /\ Head(results).outcome = "ok"
             /\ Removed(u) \/ (NotRemoved(u) /\ delivered' = delivered \cup {u})
    <3>1. u \in accepted
      BY <2>3, <2>5 DEF IInv, AcceptInv
    <3>2. LoadInv' /\ stream' \subseteq stream /\ stream \subseteq stream' \cup {u}
      BY <2>1, <2>2, <2>5, RemoveKept
    <3>3. stream \subseteq stream' \cup Settled'
      BY <2>1, <3>1, <3>2 DEF Settled, dispatcherVars
    <3>4. delivered' \subseteq accepted
      BY <2>5, <3>1 DEF Removed, IInv, AcceptInv
    <3>5. AcceptInv'
      BY <2>1, <2>3, <3>4 DEF IInv, AcceptInv, WorkersKnow, dispatcherVars
    <3> QED
      BY <2>1, <2>2, <3>2, <3>3, <3>5, StreamKept, OrderKept DEF IInv
  <2> QED
    BY <1>7, <2>4, <2>5 DEF CompleteError, CompleteSuccess
<1> QED
  BY <1>2, <1>3, <1>4, <1>5, <1>6, <1>7 DEF Loop
(* A delay ends, a day passes, or nothing happens.                         *)
LEMMA TimeStep ==
  IInv /\ ((\E u \in backoff : RetryDue(u)) \/ Age \/ UNCHANGED vars)
    => StreamInv' /\ LoadInv' /\ AcceptInv' /\ OrderInv' /\ Grows
<1> SUFFICES ASSUME IInv, (\E u \in backoff : RetryDue(u)) \/ Age \/ UNCHANGED vars
             PROVE  StreamInv' /\ LoadInv' /\ AcceptInv' /\ OrderInv' /\ Grows
  OBVIOUS
<1>1. UNCHANGED <<stream, lastID, expired, dropped, trimmed, tail, queued, delivered,
                  results, dispatcherVars>>
  BY DEF RetryDue, Age, vars, redisVars, lossVars, entryVars, loopVars
<1>2. Grows /\ OnlyKnown
  BY <1>1, StillKnown DEF Grows, Settled, dispatcherVars, IInv, TypeOK, RedisTypeOK
<1>3. AcceptInv'
  BY <1>1 DEF IInv, AcceptInv, WorkersKnow, dispatcherVars
<1> QED
  BY <1>1, <1>2, <1>3, StreamKept, LoadKept, OrderKept DEF IInv

-----------------------------------------------------------------------------
(* The results.                                                            *)
LEMMA InvStep == IInv /\ [Next]_vars => IInv' /\ Grows
<1> SUFFICES ASSUME IInv, [Next]_vars PROVE IInv' /\ Grows
  OBVIOUS
<1>1. TypeOK'
  BY TypeStep DEF IInv
<1>2. StreamInv' /\ LoadInv' /\ AcceptInv' /\ OrderInv' /\ Grows
  BY ProducerStep, ControlStep, LoopStep, DispatchingStep, TimeStep DEF Next
<1> QED
  BY <1>1, <1>2 DEF IInv

LEMMA InvHolds == Spec => []IInv
BY InvInit, InvStep, PTL DEF Spec

(* An update leaves the stream only if an application accepted it, or it   *)
(* was a day old, dropped on request or trimmed (webhook_delivery.go:130): *)
(* for every number of updates, workers and loops, every page size and     *)
(* limit, every fault of Redis and every crash.                            *)
THEOREM NothingLost == Spec => []NoSilentLoss
<1>1. IInv => NoSilentLoss
  BY DEF IInv, StreamInv
<1> QED
  BY <1>1, InvHolds, PTL

(* Whatever the interleaving of loops, workers, late requests and crashes, *)
(* the updates of a chat are first accepted in order                       *)
(* (webhook_delivery.go:133).                                              *)
THEOREM OrderOfChats == Spec => []ChatOrder
<1>1. IInv => ChatOrder
  BY DEF IInv, OrderInv, ChatOrder
<1> QED
  BY <1>1, InvHolds, PTL
-----------------------------------------------------------------------------
(* The refinement: appending publishes, what leaves the stream without     *)
(* having been accepted is discarded, an application that accepts an       *)
(* update for the first time delivers it, and nothing else is visible.     *)
LEMMA PublishStep ==
  ASSUME IInv, AppendNext
  PROVE  Promise!Publish(stream \ stream') /\ stream \ stream' \in SUBSET (1..lastID + 1)
<1>1. lastID \in Nat /\ stream \subseteq 1..lastID
  BY DEF IInv, StreamInv, TypeOK, RedisTypeOK
<1>2. /\ lastID < MaxUpdates /\ lastID' = lastID + 1 /\ trimmed' = trimmed \cup (stream \ stream')
      /\ UNCHANGED <<accepted, expired, dropped>>
  BY DEF AppendNext, dispatcherVars
<1>3. stream \ stream' \in SUBSET (1..lastID + 1)
  <2>1. 1..lastID \subseteq 1..lastID + 1
    BY <1>1
  <2> QED
    BY <1>1, <2>1
<1>4. expired' \cup dropped' \cup trimmed' = expired \cup dropped \cup trimmed \cup (stream \ stream')
  BY <1>2
<1> QED
  BY <1>2, <1>3, <1>4 DEF Promise!Publish

LEMMA DiscardStep ==
  ASSUME IInv, NEW some, some \subseteq 1..lastID,
         UNCHANGED <<lastID, accepted>>,
         expired' \cup dropped' \cup trimmed' = expired \cup dropped \cup trimmed \cup some
  PROVE  Promise!PromiseNext
<1>1. Promise!Discard(some)
  BY DEF Promise!Discard
<1> QED
  BY <1>1 DEF Promise!PromiseNext

LEMMA DeliverStep ==
  ASSUME IInv, NEW u \in Outstanding, UNCHANGED <<lastID, expired, dropped, trimmed>>,
         accepted' = accepted \cup {u}
  PROVE  Promise!PromiseNext
<1>1. Outstanding \subseteq Updates
  BY OutstandingUpdates DEF IInv, TypeOK
<1>2. u \in 1..lastID /\ Before(u) \subseteq Settled
  BY <1>1 DEF IInv, OrderInv, TypeOK, RedisTypeOK
<1>3. Promise!Before(u) \subseteq accepted \cup (expired \cup dropped \cup trimmed)
  BY <1>2 DEF Promise!Before, Before, SameQueue, Settled
<1>4. Promise!Deliver(u)
  BY <1>3 DEF Promise!Deliver
<1> QED
  BY <1>2, <1>4 DEF Promise!PromiseNext

Stutters == UNCHANGED <<lastID, accepted, expired, dropped, trimmed>>

LEMMA AcceptStep ==
  ASSUME IInv, DispatcherStep
  PROVE  Promise!PromiseNext \/ Stutters
<1>1. UNCHANGED <<lastID, expired, dropped, trimmed>>
  BY DEF DispatcherStep, DispatcherFrame, redisVars, lossVars
<1>2. CASE accepted' = accepted
  BY <1>1, <1>2 DEF Stutters
<1>3. ASSUME NEW w \in Workers, D!AppAccepts(w) PROVE Promise!PromiseNext
  <2>1. worker[w].task.id \in Outstanding
    BY <1>3 DEF D!AppAccepts, D!Idle, Outstanding, WorkerIds
  <2> QED
    BY <1>1, <1>3, <2>1, DeliverStep DEF D!AppAccepts
<1>4. ASSUME NEW id \in ghosts, D!GhostEnds(id), accepted' # accepted PROVE Promise!PromiseNext
  <2>1. id \in Outstanding /\ accepted' = accepted \cup {id}
    BY <1>4 DEF D!GhostEnds, Outstanding
  <2> QED
    BY <1>1, <2>1, DeliverStep
<1>5. accepted' = accepted \/ (\E w \in Workers : D!AppAccepts(w))
      \/ (\E id \in ghosts : D!GhostEnds(id))
  BY DEF DispatcherStep, D!SilentStep, D!TakeTask, D!ConnectionFails, D!Resend, D!AppRejects
<1> QED
  BY <1>2, <1>3, <1>4, <1>5

LEMMA RefinesStep ==
  ASSUME IInv, [Next]_vars
  PROVE  Promise!PromiseNext \/ Stutters
<1>1. stream \subseteq 1..lastID /\ lastID \in Nat
  BY DEF IInv, StreamInv, TypeOK, RedisTypeOK
<1>2. CASE Producer
  <2>1. CASE AppendNext
    BY <2>1, PublishStep DEF Promise!PromiseNext
  <2>2. CASE BeginBatch \/ Notify
    BY <2>2 DEF BeginBatch, Notify, Stutters, redisVars, dispatcherVars, lossVars
  <2> QED
    BY <1>2, <2>1, <2>2 DEF Producer
<1>3. CASE Control
  <2>1. CASE (\E r \in Requests : BeginChange(r)) \/ StopBot \/ StartBot \/ Crash
    BY <2>1 DEF BeginChange, StopBot, StartBot, Crash, D!ProcessDies, Stutters,
                redisVars, dispatcherVars, lossVars
  <2>2. ASSUME NEW h, ChangeWebhook(h) PROVE Promise!PromiseNext \/ Stutters
    <3>1. UNCHANGED <<lastID, accepted, expired, trimmed>>
          /\ (dropped' = dropped \/ dropped' = dropped \cup stream)
      BY <2>2 DEF ChangeWebhook, DropPending, dispatcherVars
    <3>2. CASE dropped' = dropped
      BY <3>1, <3>2 DEF Stutters
    <3>3. CASE dropped' = dropped \cup stream
      <4>1. expired' \cup dropped' \cup trimmed' = expired \cup dropped \cup trimmed \cup stream
        BY <3>1, <3>3
      <4> QED
        BY <1>1, <3>1, <4>1, DiscardStep
    <3> QED
      BY <3>1, <3>2, <3>3
  <2> QED
    BY <1>3, <2>1, <2>2 DEF Control, SetWebhook, DeleteWebhook
<1>4. CASE Loop
  <2>1. CASE ExitLoop \/ LoadPage \/ EndLoad \/ EndDispatch \/ TakeWake \/ TimerFires \/ EndDrain
             \/ CompleteError \/ CompleteSuccess
    BY <2>1 DEF ExitLoop, LoadPage, EndLoad, LoadFrame, EndDispatch, TakeWake, TimerFires,
                EndDrain, LoopGoes, CompleteError, CompleteSuccess, TakeResult, Stutters,
                redisVars, dispatcherVars, lossVars
  <2>2. ASSUME NEW u \in queued, DropHead(u) PROVE Promise!PromiseNext \/ Stutters
    <3>1. UNCHANGED <<lastID, accepted, dropped, trimmed>>
          /\ (expired' = expired \/ expired' = expired \cup {u})
      BY <2>2 DEF DropHead, DispatchFrame, dispatcherVars
    <3>2. CASE expired' = expired
      BY <3>1, <3>2 DEF Stutters
    <3>3. CASE expired' = expired \cup {u}
      <4>1. {u} \subseteq 1..lastID
        BY <1>1 DEF IInv, LoadInv, TypeOK, EntryTypeOK
      <4>2. expired' \cup dropped' \cup trimmed' = expired \cup dropped \cup trimmed \cup {u}
        BY <3>1, <3>3
      <4> QED
        BY <3>1, <4>1, <4>2, DiscardStep
    <3> QED
      BY <3>1, <3>2, <3>3
  <2>3. ASSUME NEW u \in queued, SendHead(u) PROVE Stutters
    BY <2>3 DEF SendHead, DispatchFrame, D!EnqueueTask, Stutters, dispatcherVars
  <2> QED
    BY <1>4, <2>1, <2>2, <2>3 DEF Loop
<1>5. CASE Dispatching
  <2>1. ASSUME NEW w \in Workers, ReportSuccess(w) \/ ReportError(w) PROVE Stutters
    BY <2>1 DEF ReportSuccess, ReportError, DispatcherFrame, D!Succeeds, D!Fails, D!Rejected,
                D!TimesOut, D!GivesUp, Stutters, redisVars, lossVars
  <2> QED
    BY <1>5, <2>1, AcceptStep DEF Dispatching
<1>6. CASE (\E u \in backoff : RetryDue(u)) \/ Age \/ UNCHANGED vars
  BY <1>6 DEF RetryDue, Age, vars, Stutters, redisVars, dispatcherVars, lossVars
<1> QED
  BY <1>2, <1>3, <1>4, <1>5, <1>6 DEF Next

(* Everything the loop, the dispatcher, Redis and the applications do, in  *)
(* any interleaving and with any faults, keeps the promise stated by the   *)
(* type comment of webhookDelivery (webhook_delivery.go:130).              *)
THEOREM ImplementsPromise == Spec => KeepsPromise
<1>1. Init => Promise!PromiseInit
  BY DEF Init, D!DispatcherInit, Promise!PromiseInit
<1>2. IInv /\ [Next]_vars => [Promise!PromiseNext]_Promise!promiseVars
  <2> SUFFICES ASSUME IInv, [Next]_vars PROVE [Promise!PromiseNext]_Promise!promiseVars
    OBVIOUS
  <2>1. Stutters => UNCHANGED Promise!promiseVars
    BY DEF Stutters, Promise!promiseVars
  <2> QED
    BY <2>1, RefinesStep
<1> QED
  BY <1>1, <1>2, InvHolds, PTL DEF Spec, KeepsPromise, Promise!PromiseSpec
=============================================================================
