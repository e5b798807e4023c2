----------------------- MODULE WebhookDeliveryProofs -----------------------
(***************************************************************************)
(* Proofs about WebhookDelivery, for every value of its constants.         *)
(***************************************************************************)
EXTENDS WebhookDelivery, FiniteSetTheorems, SequenceTheorems, TLAPS

(* What the proofs need to know of the constants.                          *)
LEMMA ConstantTypes ==
  /\ MaxUpdates \in Nat /\ MaxContexts \in Nat
  /\ MaxConnections \in Nat /\ DefaultConnections \in 1..MaxConnections
  /\ QueueSize \in Nat /\ MaxAttempts \in Nat \ {0}
  /\ Backlog \in 0..MaxUpdates
  /\ StoredHooks \subseteq Nat
  /\ Requests \subseteq Request
BY DeliveryAssumption DEF DeliveryAssumption

USE ConstantTypes DEF Updates, Contexts

(* The webhook settings a loop is started with are bounded.                *)
LEMMA NormalizeBounded ==
  ASSUME NEW n \in Nat
  PROVE  NormalizeConnections(n) \in 1..MaxConnections
BY DEF NormalizeConnections

(* A page holds entries of the stream after the cursor.                    *)
LEMMA PageInStream == Page \subseteq {e \in stream : e > tail}
BY DEF Page, ReadUpdatesAfter, XRangeN

(* What an append leaves is part of the old stream and the new entry.      *)
LEMMA AppendBounded ==
  ASSUME NEW s, NEW e, NEW m, NEW t \in AppendUpdate(s, e, m)
  PROVE  t \subseteq s \cup {e}
BY DEF AppendUpdate

LEMMA TypeInit == Init => TypeOK
<1> SUFFICES ASSUME Init PROVE TypeOK
  OBVIOUS
<1>1. RedisTypeOK
  BY DEF Init, RedisTypeOK
<1>2. BotTypeOK
  BY DEF Init, BotTypeOK
<1>3. EntryTypeOK
  BY DEF Init, NoLoop, EntryTypeOK
<1>4. LoopTypeOK
  <2>1. results = <<>> /\ conns = 0
    BY DEF Init, NoLoop
  <2>2. results \in Seq(Result) /\ Len(results) <= conns
    BY <2>1
  <2>3. pc = "none" /\ gen = 0 /\ live = {} /\ wake \in BOOLEAN
    BY DEF Init, NoLoop
  <2> QED
    BY <2>1, <2>2, <2>3 DEF LoopTypeOK
<1>5. D!DispatcherTypeOK
  BY DEF Init, D!DispatcherInit, D!DispatcherTypeOK, D!Task
<1> QED
  BY <1>1, <1>2, <1>3, <1>4, <1>5 DEF TypeOK

-----------------------------------------------------------------------------
(* Every step preserves the types: one lemma per group of actions.         *)

(* A loop is started, or its absence recorded, with well-typed state.      *)
LEMMA StartTypes ==
  ASSUME NEW h \in Nat, gen \in 0..MaxContexts, h # 0 => gen < MaxContexts,
         StartDelivery(h)
  PROVE  EntryTypeOK' /\ LoopTypeOK'
<1>1. EntryTypeOK'
  BY DEF StartDelivery, EntryTypeOK
<1>2. results' \in Seq(Result) /\ Len(results') = 0
  BY DEF StartDelivery
<1>3. wake' \in BOOLEAN /\ pc' \in {"none", "load"}
  BY DEF StartDelivery
<1>4. gen' \in 0..MaxContexts /\ live' \subseteq {gen'} \cap Contexts
  BY DEF StartDelivery
<1>5. conns' \in 0..MaxConnections
  <2>1. PICK limit : limit = NormalizeConnections(h)
    OBVIOUS
  <2>2. limit \in 1..MaxConnections
    BY <2>1, NormalizeBounded
  <2>3. conns' = 0 \/ conns' = limit
    BY <2>1 DEF StartDelivery
  <2> QED
    BY <2>2, <2>3
<1> QED
  BY <1>1, <1>2, <1>3, <1>4, <1>5 DEF LoopTypeOK

LEMMA ChangeTypes ==
  ASSUME TypeOK, NEW h \in Nat, change # NoRequest, ChangeWebhook(h)
  PROVE  TypeOK'
<1>1. hook' \in Nat /\ redisHook' \in Nat
  BY DEF ChangeWebhook, TypeOK, RedisTypeOK, BotTypeOK
<1>2. EntryTypeOK' /\ LoopTypeOK'
  <2>1. StartDelivery(hook')
    BY DEF ChangeWebhook
  <2>2. gen \in 0..MaxContexts /\ gen < MaxContexts
    BY DEF TypeOK, LoopTypeOK, BotTypeOK
  <2> QED
    BY <1>1, <2>1, <2>2, StartTypes
<1>3. RedisTypeOK'
  BY <1>1 DEF ChangeWebhook, DropPending, DropPendingUpdates, TypeOK, RedisTypeOK
<1>4. BotTypeOK'
  BY <1>1 DEF ChangeWebhook, TypeOK, BotTypeOK, producerVars
<1>5. D!DispatcherTypeOK'
  BY DEF ChangeWebhook, TypeOK, D!DispatcherTypeOK, dispatcherVars
<1> QED
  BY <1>2, <1>3, <1>4, <1>5 DEF TypeOK

LEMMA ProducerTypes == TypeOK /\ Producer => TypeOK'
<1> USE DEF TypeOK, RedisTypeOK, BotTypeOK, EntryTypeOK, LoopTypeOK, D!DispatcherTypeOK,
            redisVars, botVars, producerVars, entryVars, loopVars, dispatcherVars, lossVars
<1>1. ASSUME TypeOK, BeginBatch PROVE TypeOK'
  BY <1>1 DEF BeginBatch
<1>2. ASSUME TypeOK, AppendNext PROVE TypeOK'
  <2>1. stream' \subseteq stream \cup {lastID + 1}
    BY <1>2, AppendBounded DEF AppendNext
  <2>2. lastID + 1 \in Updates
    BY <1>2 DEF AppendNext
  <2>3. stream' \subseteq Updates /\ trimmed' \subseteq Updates
    BY <1>2, <2>1, <2>2 DEF AppendNext
  <2> QED
    BY <1>2, <2>2, <2>3 DEF AppendNext
<1>3. ASSUME TypeOK, Notify PROVE TypeOK'
  BY <1>3 DEF Notify
<1> QED
  BY <1>1, <1>2, <1>3 DEF Producer

LEMMA ControlTypes == TypeOK /\ Control => TypeOK'
<1>1. ASSUME TypeOK, NEW r \in Requests, BeginChange(r) PROVE TypeOK'
  BY <1>1 DEF BeginChange, TypeOK, RedisTypeOK, BotTypeOK, EntryTypeOK, LoopTypeOK,
    D!DispatcherTypeOK, redisVars, producerVars, entryVars, dispatcherVars, lossVars
<1>2. ASSUME TypeOK, SetWebhook PROVE TypeOK'
  <2>1. change # NoRequest /\ change.conns \in Nat
    BY <1>2 DEF SetWebhook, NoRequest, TypeOK, BotTypeOK, Request
  <2>2. NormalizeConnections(change.conns) \in Nat
    BY <2>1, NormalizeBounded
  <2> QED
    BY <1>2, <2>1, <2>2, ChangeTypes DEF SetWebhook
<1>3. ASSUME TypeOK, DeleteWebhook PROVE TypeOK'
  <2>1. change # NoRequest
    BY <1>3 DEF DeleteWebhook, NoRequest
  <2> QED
    BY <1>3, <2>1, ChangeTypes DEF DeleteWebhook
<1>4. ASSUME TypeOK, StopBot PROVE TypeOK'
  BY <1>4 DEF StopBot, TypeOK, RedisTypeOK, BotTypeOK, EntryTypeOK, LoopTypeOK,
    D!DispatcherTypeOK, redisVars, producerVars, entryVars, loopVars, dispatcherVars, lossVars
<1>5. ASSUME TypeOK, StartBot PROVE TypeOK'
  <2>1. hook' \in Nat
    BY <1>5 DEF StartBot, TypeOK, RedisTypeOK
  <2>2. EntryTypeOK' /\ LoopTypeOK'
    BY <1>5, <2>1, StartTypes DEF StartBot, TypeOK, LoopTypeOK
  <2> QED
    BY <1>5, <2>1, <2>2 DEF StartBot, TypeOK, RedisTypeOK, BotTypeOK,
      D!DispatcherTypeOK, redisVars, dispatcherVars, lossVars
<1>6. ASSUME TypeOK, Crash PROVE TypeOK'
  <2>1. EntryTypeOK' /\ LoopTypeOK'
    BY <1>6, StartTypes DEF Crash, TypeOK, LoopTypeOK
  <2>2. D!DispatcherTypeOK'
    <3>1. taskQueue' = <<>> /\ worker' \in [Workers -> {D!Idle}]
      BY <1>6 DEF Crash, D!ProcessDies
    <3>2. \A w \in Workers : worker[w].phase = "posting" => worker[w].task.id \in Updates
      BY <1>6 DEF TypeOK, D!DispatcherTypeOK, D!Idle, D!Busy, D!Task
    <3>3. accepted' \subseteq Updates /\ ghosts' \subseteq Updates
      BY <1>6, <3>2 DEF Crash, D!ProcessDies, TypeOK, D!DispatcherTypeOK
    <3> QED
      BY <3>1, <3>3 DEF D!DispatcherTypeOK
  <2> QED
    BY <1>6, <2>1, <2>2 DEF Crash, TypeOK, RedisTypeOK, BotTypeOK, redisVars, lossVars
<1> QED
  BY <1>1, <1>2, <1>3, <1>4, <1>5, <1>6 DEF Control

(* A result that is put into the buffer when there is room, or taken.      *)
LEMMA AppendResult ==
  ASSUME NEW buffer \in Seq(Result), NEW room \in Nat, Len(buffer) < room,
         NEW u \in Updates, NEW outcome \in {"ok", "error"}
  PROVE  /\ Append(buffer, [id |-> u, outcome |-> outcome]) \in Seq(Result)
         /\ Len(Append(buffer, [id |-> u, outcome |-> outcome])) <= room
<1> DEFINE longer == Append(buffer, [id |-> u, outcome |-> outcome])
<1>1. [id |-> u, outcome |-> outcome] \in Result
  BY DEF Result
<1>2. longer \in Seq(Result) /\ Len(longer) = Len(buffer) + 1
  BY <1>1, AppendProperties
<1>3. Len(buffer) \in Nat
  BY LenProperties
<1> QED
  BY <1>2, <1>3

LEMMA LoopTypes == TypeOK /\ Loop => TypeOK'
<1> USE DEF TypeOK, RedisTypeOK, BotTypeOK, EntryTypeOK, D!DispatcherTypeOK,
            redisVars, botVars, producerVars, entryVars, dispatcherVars, lossVars
<1>1. ASSUME TypeOK, ExitLoop PROVE TypeOK'
  <2>1. EntryTypeOK' /\ LoopTypeOK'
    BY <1>1, StartTypes DEF ExitLoop, LoopTypeOK
  <2>2. gen' = gen
    BY <1>1 DEF ExitLoop, StartDelivery
  <2> QED
    BY <1>1, <2>1, <2>2 DEF ExitLoop
<1>2. ASSUME TypeOK, LoadPage PROVE TypeOK'
  <2>1. Page \subseteq Updates
    BY <1>2, PageInStream
  <2>2. EntryTypeOK'
    BY <1>2, <2>1 DEF LoadPage, LoadFrame
  <2> QED
    BY <1>2, <2>2 DEF LoadPage, LoadFrame, LoopTypeOK
<1>3. ASSUME TypeOK, EndLoad PROVE TypeOK'
  BY <1>3 DEF EndLoad, LoadFrame, LoopTypeOK
<1>4. ASSUME TypeOK, NEW u \in queued, DropHead(u) PROVE TypeOK'
  BY <1>4 DEF DropHead, DispatchFrame, Removed, NotRemoved, AckUpdate, LoopTypeOK
<1>5. ASSUME TypeOK, NEW u \in queued, SendHead(u) PROVE TypeOK'
  <2>1. u \in Updates /\ gen \in Contexts
    BY <1>5 DEF SendHead, MayServe, LoopTypeOK
  <2>2. EntryTypeOK'
    BY <1>5 DEF SendHead, DispatchFrame
  <2>3. LoopTypeOK'
    <3>1. results' \in Seq(Result) /\ Len(results') <= conns
      <4>1. results \in Seq(Result) /\ Len(results) <= conns /\ conns \in Nat
        BY <1>5 DEF LoopTypeOK
      <4>2. CASE UNCHANGED results
        BY <4>1, <4>2
      <4>3. CASE Len(results) < conns /\ results' = Append(results, [id |-> u, outcome |-> "error"])
        BY <2>1, <4>1, <4>3, AppendResult
      <4> QED
        BY <1>5, <4>2, <4>3 DEF SendHead
    <3> QED
      BY <1>5, <3>1 DEF SendHead, DispatchFrame, LoopTypeOK
  <2>4. D!DispatcherTypeOK'
    <3>1. [ctx |-> gen, id |-> u] \in D!Task
      BY <2>1 DEF D!Task
    <3>2. CASE D!EnqueueTask([ctx |-> gen, id |-> u])
      <4>1. taskQueue' \in Seq(D!Task) /\ Len(taskQueue') = Len(taskQueue) + 1
        BY <1>5, <3>1, <3>2, AppendProperties DEF D!EnqueueTask
      <4>2. Len(taskQueue) < QueueSize
        BY <1>5, <3>2 DEF D!EnqueueTask, D!QueueFull
      <4> QED
        BY <1>5, <3>2, <4>1, <4>2 DEF D!EnqueueTask
    <3> QED
      BY <1>5, <3>2 DEF SendHead
  <2> QED
    BY <1>5, <2>2, <2>3, <2>4 DEF SendHead, DispatchFrame
<1>6. ASSUME TypeOK, NEW from, NEW to \in {"select", "drain", "load"}, LoopGoes(from, to),
             wake' \in BOOLEAN
      PROVE  TypeOK'
  BY <1>6 DEF LoopGoes, LoopTypeOK
<1>7. ASSUME TypeOK, EndDispatch \/ TakeWake \/ TimerFires \/ EndDrain PROVE TypeOK'
  BY <1>6, <1>7 DEF EndDispatch, TakeWake, TimerFires, EndDrain, LoopTypeOK
<1>8. ASSUME TypeOK, TakeResult PROVE RedisTypeOK' <=> stream' \subseteq Updates
  BY <1>8 DEF TakeResult
<1>9. ASSUME TypeOK, TakeResult PROVE BotTypeOK' /\ LoopTypeOK' /\ D!DispatcherTypeOK'
  <2>1. results' \in Seq(Result) /\ Len(results') <= conns
    <3>1. results \in Seq(Result) /\ results # <<>> /\ Len(results) <= conns /\ conns \in Nat
      BY <1>9 DEF TakeResult, LoopTypeOK
    <3>2. Tail(results) \in Seq(Result) /\ Len(Tail(results)) = Len(results) - 1
      BY <3>1, HeadTailProperties
    <3> QED
      BY <1>9, <3>1, <3>2 DEF TakeResult
  <2> QED
    BY <1>9, <2>1 DEF TakeResult, LoopTypeOK
<1>10. ASSUME TypeOK, TakeResult PROVE tail' = tail /\ Head(results).id \in Updates
  <2>1. Head(results) \in Result
    BY <1>10, HeadTailProperties DEF TakeResult, LoopTypeOK
  <2> QED
    BY <1>10, <2>1 DEF TakeResult, Result
<1>11. ASSUME TypeOK, CompleteError PROVE TypeOK'
  <2>1. stream' = stream /\ queued' = queued /\ loaded' = loaded /\ delivered' = delivered
    BY <1>11 DEF CompleteError
  <2>2. inFlight' \in Int
    BY <1>11 DEF CompleteError
  <2>3. sending' \subseteq Updates /\ backoff' \subseteq Updates
    BY <1>10, <1>11 DEF CompleteError
  <2> QED
    BY <1>8, <1>9, <1>10, <1>11, <2>1, <2>2, <2>3 DEF CompleteError
<1>12. ASSUME TypeOK, CompleteSuccess PROVE TypeOK'
  <2>1. inFlight' \in Int
    BY <1>12 DEF CompleteSuccess
  <2>2. stream' \subseteq Updates /\ queued' \subseteq Updates /\ loaded' \subseteq Updates
    BY <1>12 DEF CompleteSuccess, Removed, NotRemoved, AckUpdate
  <2>3. sending' \subseteq Updates /\ backoff' \subseteq Updates /\ delivered' \subseteq Updates
    BY <1>10, <1>12 DEF CompleteSuccess, Removed, NotRemoved
  <2> QED
    BY <1>8, <1>9, <1>10, <1>12, <2>1, <2>2, <2>3 DEF CompleteSuccess
<1> QED
  BY <1>1, <1>2, <1>3, <1>4, <1>5, <1>7, <1>11, <1>12 DEF Loop

(* The pool keeps its own types; a task comes from its queue.              *)
LEMMA WorkerTypes ==
  ASSUME D!DispatcherTypeOK, NEW w \in Workers, worker[w].phase \in {"posting", "sleeping"}
  PROVE  worker[w] \in D!Busy /\ worker[w].task \in D!Task /\ worker[w].task.id \in Updates
BY DEF D!DispatcherTypeOK, D!Busy, D!Idle, D!Task

LEMMA SilentTypes == D!DispatcherTypeOK /\ D!SilentStep => D!DispatcherTypeOK'
<1>1. ASSUME D!DispatcherTypeOK, NEW w \in Workers, D!TakeTask(w) PROVE D!DispatcherTypeOK'
  <2>1. Head(taskQueue) \in D!Task /\ Tail(taskQueue) \in Seq(D!Task)
        /\ Len(Tail(taskQueue)) = Len(taskQueue) - 1
    BY <1>1, HeadTailProperties DEF D!TakeTask, D!DispatcherTypeOK
  <2>2. D!Posting(Head(taskQueue), 1) \in D!Busy
    BY <2>1 DEF D!Posting, D!Busy, D!Answers
  <2> QED
    BY <1>1, <2>1, <2>2 DEF D!TakeTask, D!DispatcherTypeOK
<1>2. ASSUME D!DispatcherTypeOK, NEW w \in Workers, D!ConnectionFails(w)
      PROVE  D!DispatcherTypeOK'
  <2>1. worker[w] \in D!Busy /\ worker[w].task.id \in Updates
    BY <1>2, WorkerTypes DEF D!ConnectionFails
  <2>2. [worker[w] EXCEPT !.phase = "sleeping", !.answer = "none"] \in D!Busy
    BY <2>1 DEF D!Busy, D!Answers
  <2>3. ghosts' \subseteq Updates
    BY <1>2, <2>1 DEF D!ConnectionFails, D!LeftBehind, D!DispatcherTypeOK
  <2> QED
    BY <1>2, <2>2, <2>3 DEF D!ConnectionFails, D!DispatcherTypeOK
<1>3. ASSUME D!DispatcherTypeOK, NEW w \in Workers, D!Resend(w) PROVE D!DispatcherTypeOK'
  <2>1. worker[w] \in D!Busy
    BY <1>3, WorkerTypes DEF D!Resend
  <2>2. D!Posting(worker[w].task, worker[w].attempt + 1) \in D!Busy
    BY <1>3, <2>1 DEF D!Resend, D!Posting, D!Busy, D!Answers
  <2> QED
    BY <1>3, <2>2 DEF D!Resend, D!DispatcherTypeOK
<1>4. ASSUME D!DispatcherTypeOK, NEW w \in Workers, NEW a \in D!Answers,
             worker[w].phase = "posting",
             worker' = [worker EXCEPT ![w].answer = a]
      PROVE  worker' \in [Workers -> {D!Idle} \cup D!Busy]
  <2>1. worker[w] \in D!Busy
    BY <1>4, WorkerTypes
  <2>2. [worker[w] EXCEPT !.answer = a] \in D!Busy
    BY <1>4, <2>1 DEF D!Busy
  <2> QED
    BY <1>4, <2>2 DEF D!DispatcherTypeOK
<1>5. ASSUME D!DispatcherTypeOK, NEW w \in Workers, D!AppAccepts(w) \/ D!AppRejects(w)
      PROVE  D!DispatcherTypeOK'
  <2>1. worker[w].task.id \in Updates
    BY <1>5, WorkerTypes DEF D!AppAccepts, D!AppRejects
  <2>2. worker' \in [Workers -> {D!Idle} \cup D!Busy]
    BY <1>4, <1>5 DEF D!AppAccepts, D!AppRejects, D!Answers
  <2> QED
    BY <1>5, <2>1, <2>2 DEF D!AppAccepts, D!AppRejects, D!DispatcherTypeOK
<1>6. ASSUME D!DispatcherTypeOK, NEW id \in ghosts, D!GhostEnds(id) PROVE D!DispatcherTypeOK'
  BY <1>6 DEF D!GhostEnds, D!DispatcherTypeOK
<1> QED
  BY <1>1, <1>2, <1>3, <1>5, <1>6 DEF D!SilentStep

LEMMA DispatchingTypes == TypeOK /\ Dispatching => TypeOK'
<1>1. ASSUME TypeOK, DispatcherFrame
      PROVE  RedisTypeOK' /\ BotTypeOK' /\ EntryTypeOK'
  BY <1>1 DEF DispatcherFrame, TypeOK, RedisTypeOK, BotTypeOK, EntryTypeOK, redisVars,
              botVars, producerVars, entryVars, lossVars
<1>2. ASSUME TypeOK, DispatcherFrame, NEW task \in D!Task, NEW outcome \in {"ok", "error"}, Report(task, outcome)
      PROVE  LoopTypeOK'
  <2>1. task.id \in Updates
    BY <1>2 DEF D!Task
  <2>2. results' \in Seq(Result) /\ Len(results') <= conns
    <3>1. results \in Seq(Result) /\ Len(results) <= conns /\ conns \in Nat
      BY <1>2 DEF TypeOK, LoopTypeOK
    <3>2. CASE task.ctx \in live
      BY <1>2, <2>1, <3>1, <3>2, AppendResult DEF Report
    <3>3. CASE task.ctx \notin live
      BY <1>2, <3>1, <3>3 DEF Report
    <3> QED
      BY <3>2, <3>3
  <2> QED
    BY <1>2, <2>2 DEF DispatcherFrame, TypeOK, LoopTypeOK
<1>3. ASSUME TypeOK, NEW w \in Workers, ReportSuccess(w) PROVE TypeOK'
  <2>1. worker[w].task \in D!Task
    BY <1>3, WorkerTypes DEF TypeOK, ReportSuccess, D!Succeeds
  <2>2. D!DispatcherTypeOK'
    BY <1>3 DEF TypeOK, ReportSuccess, D!Succeeds, D!DispatcherTypeOK
  <2> QED
    BY <1>1, <1>2, <1>3, <2>1, <2>2 DEF TypeOK, ReportSuccess
<1>4. ASSUME TypeOK, NEW w \in Workers, ReportError(w) PROVE TypeOK'
  <2>1. worker[w].task \in D!Task /\ worker[w].task.id \in Updates
    BY <1>4, WorkerTypes DEF TypeOK, ReportError, D!Fails, D!Rejected, D!TimesOut, D!GivesUp
  <2>2. D!DispatcherTypeOK'
    BY <1>4, <2>1 DEF TypeOK, ReportError, D!Fails, D!Rejected, D!TimesOut, D!GivesUp,
                      D!LeftBehind, D!DispatcherTypeOK
  <2> QED
    BY <1>1, <1>2, <1>4, <2>1, <2>2 DEF TypeOK, ReportError
<1>5. ASSUME TypeOK, DispatcherStep PROVE TypeOK'
  BY <1>1, <1>5, SilentTypes DEF TypeOK, DispatcherStep, DispatcherFrame, LoopTypeOK
<1> QED
  BY <1>3, <1>4, <1>5 DEF Dispatching

LEMMA TimeTypes ==
  ASSUME TypeOK, (\E u \in backoff : RetryDue(u)) \/ Age \/ UNCHANGED vars
  PROVE  TypeOK'
<1> USE DEF TypeOK, RedisTypeOK, BotTypeOK, EntryTypeOK, LoopTypeOK, D!DispatcherTypeOK,
            redisVars, botVars, producerVars, entryVars, loopVars, dispatcherVars, lossVars
<1>1. CASE \E u \in backoff : RetryDue(u)
  BY <1>1 DEF RetryDue
<1>2. CASE Age
  <2>1. aged' \in 0..MaxUpdates
    BY <1>2 DEF Age
  <2> QED
    BY <1>2, <2>1 DEF Age
<1>3. CASE UNCHANGED vars
  BY <1>3 DEF vars
<1> QED
  BY <1>1, <1>2, <1>3

LEMMA TypeStep == TypeOK /\ [Next]_vars => TypeOK'
BY ProducerTypes, ControlTypes, LoopTypes, DispatchingTypes, TimeTypes DEF Next

(* Type correctness, for every number of updates, workers, contexts and    *)
(* every limit of the code: in particular the task queue and the buffer of *)
(* results never hold more than their capacity.                            *)
THEOREM TypeCorrect == Spec => []TypeOK
BY TypeInit, TypeStep, PTL DEF Spec

=============================================================================
