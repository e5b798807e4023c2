------------------------ MODULE WebhookAccountingProofs ------------------------
(***************************************************************************)
(* The accounts of the delivery loop, for every value of the constants: no *)
(* report ever waits for room in the buffer of results, and a chat has one *)
(* request under way at most, for its oldest update.                       *)
(*                                                                         *)
(* Neither property is inductive.  An update that is being sent is in      *)
(* exactly one place (PlacesInv): in the task queue, at a worker or among  *)
(* the results, each under the context of the running loop.  What an       *)
(* earlier loop left in the dispatcher carries an older context (CtxInv),  *)
(* so a new loop starts with empty places.                                 *)
(***************************************************************************)
EXTENDS WebhookOrderProofs

USE ConstantTypes DEF Updates, Contexts

(* Elements of a queue that are counted, each for an update of its own.    *)
OnceIn(q, C) == \A i, j \in DOMAIN q : q[i] \in C /\ q[j] \in C /\ q[i].id = q[j].id => i = j
IdsIn(q, C) == {q[i].id : i \in {j \in DOMAIN q : q[j] \in C}}

LiveTask == {t \in D!Task : t.ctx \in live}
TaskIds == IdsIn(taskQueue, LiveTask)
BusyIds == {worker[w].task.id : w \in BusyLive}
ResultIds == IdsIn(results, Result)
Held == {taskQueue[i] : i \in DOMAIN taskQueue}
        \cup {worker[w].task : w \in {x \in Workers : worker[x] # D!Idle}}

CtxInv == \A t \in Held : t.ctx <= gen

OneEach == \A w, x \in BusyLive : worker[w].task.id = worker[x].task.id => w = x

PlacesInv ==
  /\ OnceIn(taskQueue, LiveTask) /\ OneEach /\ OnceIn(results, Result)
  /\ TaskIds \cap BusyIds = {} /\ TaskIds \cap ResultIds = {} /\ BusyIds \cap ResultIds = {}
  /\ sending = TaskIds \cup BusyIds \cup ResultIds

SlotsInv == inFlight = Cardinality(sending) /\ inFlight <= conns

HeadsInv ==
  /\ \A u \in sending : IsHead(u) /\ u \notin delivered
  /\ queued \subseteq loaded

AccountInv == CtxInv /\ (live # {} => PlacesInv /\ SlotsInv /\ HeadsInv)

-----------------------------------------------------------------------------
(* Queues.                                                                 *)
LEMMA TailCounts ==
  ASSUME NEW S, NEW q \in Seq(S), q # <<>>, NEW C, OnceIn(q, C)
  PROVE  /\ OnceIn(Tail(q), C)
         /\ Head(q) \in C => Head(q).id \in IdsIn(q, C)
                             /\ IdsIn(Tail(q), C) = IdsIn(q, C) \ {Head(q).id}
         /\ Head(q) \notin C => IdsIn(Tail(q), C) = IdsIn(q, C)
<1>1. /\ Len(q) \in Nat \ {0} /\ DOMAIN q = 1..Len(q) /\ Head(q) = q[1]
      /\ DOMAIN Tail(q) = 1..(Len(q) - 1)
      /\ \A i \in DOMAIN Tail(q) : Tail(q)[i] = q[i + 1]
  <2>1. Len(q) \in Nat \ {0} /\ DOMAIN q = 1..Len(q)
    BY EmptySeq, LenProperties
  <2>2. Len(Tail(q)) = Len(q) - 1 /\ DOMAIN Tail(q) = 1..Len(q) - 1
    BY <2>1, HeadTailProperties, LenProperties
  <2> QED
    BY <2>1, <2>2, HeadTailProperties
<1>2. OnceIn(Tail(q), C)
  <2> SUFFICES ASSUME NEW i \in DOMAIN Tail(q), NEW j \in DOMAIN Tail(q),
                      Tail(q)[i] \in C, Tail(q)[j] \in C, Tail(q)[i].id = Tail(q)[j].id
               PROVE  i = j
    BY DEF OnceIn
  <2>1. i + 1 \in DOMAIN q /\ j + 1 \in DOMAIN q /\ i \in Int /\ j \in Int
    BY <1>1
  <2>2. i + 1 = j + 1
    BY <1>1, <2>1 DEF OnceIn
  <2> QED
    BY <2>1, <2>2
<1>3. \A k \in DOMAIN q : k = 1 \/ (k - 1 \in DOMAIN Tail(q) /\ Tail(q)[k - 1] = q[k])
  BY <1>1
<1>4. \A i \in DOMAIN Tail(q) : i + 1 \in DOMAIN q /\ i + 1 # 1
  BY <1>1
<1>5. IdsIn(Tail(q), C) \subseteq IdsIn(q, C)
  BY <1>1, <1>4 DEF IdsIn
<1>6. \A n \in IdsIn(q, C) : n \in IdsIn(Tail(q), C) \/ (q[1] \in C /\ n = q[1].id)
  BY <1>3 DEF IdsIn
<1>7. q[1] \in C => q[1].id \notin IdsIn(Tail(q), C)
  <2> SUFFICES ASSUME q[1] \in C, NEW i \in DOMAIN Tail(q), Tail(q)[i] \in C,
                      Tail(q)[i].id = q[1].id
               PROVE  FALSE
    BY DEF IdsIn
  <2> QED
    BY <1>1, <1>4 DEF OnceIn
<1>8. q[1] \in C => q[1].id \in IdsIn(q, C)
  BY <1>1 DEF IdsIn
<1> QED
  BY <1>1, <1>2, <1>5, <1>6, <1>7, <1>8

LEMMA AppendCounts ==
  ASSUME NEW S, NEW q \in Seq(S), NEW e \in S, NEW C, OnceIn(q, C),
         e \in C, e.id \notin IdsIn(q, C)
  PROVE  OnceIn(Append(q, e), C) /\ IdsIn(Append(q, e), C) = IdsIn(q, C) \cup {e.id}
<1> DEFINE n == Len(q) + 1
           r == Append(q, e)
<1>1. n \in Nat /\ DOMAIN q = 1..Len(q) /\ n \notin DOMAIN q /\ Len(q) \in Nat
  BY LenProperties
<1>2. DOMAIN r = 1..n /\ r[n] = e /\ \A i \in DOMAIN q : i \in DOMAIN r /\ r[i] = q[i]
  BY <1>1, AppendProperties, LenProperties
<1>3. \A i \in DOMAIN r : i = n \/ i \in DOMAIN q
  BY <1>1, <1>2
<1>4. n \in DOMAIN r
  BY <1>1, <1>2
<1> HIDE DEF n, r
<1>5. OnceIn(r, C)
  BY <1>1, <1>2, <1>3 DEF OnceIn, IdsIn
<1>6. IdsIn(r, C) = IdsIn(q, C) \cup {e.id}
  BY <1>1, <1>2, <1>3, <1>4 DEF IdsIn
<1> QED
  BY <1>5, <1>6 DEF r

(* Sets of updates are finite, and add up when they are disjoint.          *)
LEMMA FiniteUpdates == \A S \in SUBSET Updates : IsFiniteSet(S) /\ Cardinality(S) \in Nat
<1>1. IsFiniteSet(1..MaxUpdates)
  BY FS_Interval
<1>2. \A S \in SUBSET (1..MaxUpdates) : IsFiniteSet(S)
  BY <1>1, FS_Subset
<1> QED
  BY <1>2, FS_CardinalityType

LEMMA CountDisjoint ==
  ASSUME NEW S \in SUBSET Updates, NEW T \in SUBSET Updates, S \cap T = {}
  PROVE  Cardinality(S \cup T) = Cardinality(S) + Cardinality(T)
<1>1. /\ IsFiniteSet(S) /\ IsFiniteSet(T)
      /\ Cardinality(S) \in Nat /\ Cardinality(T) \in Nat /\ Cardinality({}) = 0
  BY FiniteUpdates, FS_EmptySet
<1>2. Cardinality(S \cup T) = Cardinality(S) + Cardinality(T) - Cardinality(S \cap T)
  BY <1>1, FS_Union
<1>3. Cardinality(S \cap T) = 0
  BY <1>1
<1>4. \A m, n \in Nat : m + n - 0 = m + n
  OBVIOUS
<1> QED
  BY <1>1, <1>2, <1>3, <1>4

(* As many elements as updates.                                            *)
LEMMA CountByUpdate ==
  ASSUME NEW I, NEW f \in [I -> Updates], \A i, j \in I : f[i] = f[j] => i = j
  PROVE  IsFiniteSet(I) /\ Cardinality(I) = Cardinality({f[i] : i \in I})
<1>1. {f[i] : i \in I} \in SUBSET Updates
  BY SMT
<1>2. PICK T : T = {f[i] : i \in I}
  OBVIOUS
<1>3. IsFiniteSet(T)
  BY <1>1, <1>2, FiniteUpdates
<1>4. f \in Surjection(I, T) /\ f \in Injection(I, T)
  BY <1>2 DEF Surjection, Injection, IsInjective
<1> QED
  BY <1>2, <1>3, <1>4, FS_Injection

-----------------------------------------------------------------------------
(* Workers.                                                                *)
LEMMA WorkerIsNow ==
  ASSUME D!DispatcherTypeOK, NEW w \in Workers, NEW state, worker' = [worker EXCEPT ![w] = state]
  PROVE  \A x \in Workers : worker'[x] = IF x = w THEN state ELSE worker[x]
BY DEF D!DispatcherTypeOK

(* A worker goes on with its task.                                         *)
LEMMA GoesOn ==
  ASSUME D!DispatcherTypeOK, UNCHANGED live, NEW w \in Workers, NEW state,
         worker' = [worker EXCEPT ![w] = state],
         worker[w] # D!Idle, state # D!Idle, state.task = worker[w].task
  PROVE  BusyIds' = BusyIds /\ (OneEach => OneEach')
<1>1. \A x \in Workers : worker'[x] = IF x = w THEN state ELSE worker[x]
  BY WorkerIsNow
<1>2. \A x \in Workers : (worker'[x] # D!Idle <=> worker[x] # D!Idle)
                         /\ worker'[x].task = worker[x].task
  BY <1>1
<1>3. BusyLive' = BusyLive
  BY <1>2 DEF BusyLive
<1> QED
  BY <1>2, <1>3 DEF BusyIds, OneEach, BusyLive

(* A worker begins a live task.                                            *)
LEMMA Begins ==
  ASSUME D!DispatcherTypeOK, UNCHANGED live, NEW w \in Workers, NEW state,
         worker' = [worker EXCEPT ![w] = state],
         worker[w] = D!Idle, state # D!Idle, state.task.ctx \in live,
         OneEach, state.task.id \notin BusyIds
  PROVE  BusyIds' = BusyIds \cup {state.task.id} /\ OneEach'
<1>1. \A x \in Workers : worker'[x] = IF x = w THEN state ELSE worker[x]
  BY WorkerIsNow
<1>2. BusyLive' = BusyLive \cup {w} /\ w \notin BusyLive
  BY <1>1 DEF BusyLive
<1>3. \A x \in BusyLive : worker'[x] = worker[x] /\ worker[x].task.id # state.task.id
  BY <1>1, <1>2 DEF BusyIds, BusyLive
<1>4. worker'[w] = state
  BY <1>1
<1>5. BusyIds' = BusyIds \cup {state.task.id}
  BY <1>2, <1>3, <1>4 DEF BusyIds
<1>6. OneEach'
  BY <1>2, <1>3, <1>4 DEF OneEach
<1> QED
  BY <1>5, <1>6

(* A worker ends a task, live or not.                                      *)
LEMMA Ends ==
  ASSUME D!DispatcherTypeOK, UNCHANGED live, NEW w \in Workers,
         worker' = [worker EXCEPT ![w] = D!Idle], worker[w] # D!Idle, OneEach
  PROVE  /\ OneEach'
         /\ worker[w].task.ctx \in live => worker[w].task.id \in BusyIds
                                           /\ BusyIds' = BusyIds \ {worker[w].task.id}
         /\ worker[w].task.ctx \notin live => BusyIds' = BusyIds
<1>1. \A x \in Workers : worker'[x] = IF x = w THEN D!Idle ELSE worker[x]
  BY WorkerIsNow
<1>2. BusyLive' = BusyLive \ {w} /\ \A x \in BusyLive' : worker'[x] = worker[x]
  BY <1>1 DEF BusyLive
<1>3. OneEach'
  BY <1>2 DEF OneEach
<1>4. CASE worker[w].task.ctx \in live
  <2>1. w \in BusyLive
    BY <1>4 DEF BusyLive
  <2>2. \A x \in BusyLive' : worker[x].task.id # worker[w].task.id
    BY <1>2, <2>1 DEF OneEach
  <2> QED
    BY <1>2, <1>3, <1>4, <2>1, <2>2 DEF BusyIds
<1>5. CASE worker[w].task.ctx \notin live
  <2>1. BusyLive' = BusyLive
    BY <1>2, <1>5 DEF BusyLive
  <2> QED
    BY <1>2, <1>3, <1>5, <2>1 DEF BusyIds
<1> QED
  BY <1>4, <1>5

-----------------------------------------------------------------------------
(* What the dispatcher holds comes from a loop that ran before.            *)
LEMMA HeldTasks == D!DispatcherTypeOK => Held \subseteq D!Task
<1> SUFFICES ASSUME D!DispatcherTypeOK PROVE Held \subseteq D!Task
  OBVIOUS
<1>1. \A i \in DOMAIN taskQueue : taskQueue[i] \in D!Task
  BY LenProperties, ElementOfSeq DEF D!DispatcherTypeOK
<1>2. \A w \in Workers : worker[w] # D!Idle => worker[w].task \in D!Task
  BY DEF D!DispatcherTypeOK, D!Busy
<1> QED
  BY <1>1, <1>2 DEF Held

LEMMA OneWorkerHeld ==
  ASSUME D!DispatcherTypeOK, NEW w \in Workers, NEW state,
         worker' = [worker EXCEPT ![w] = state], UNCHANGED taskQueue,
         state # D!Idle => state.task \in Held
  PROVE  Held' \subseteq Held
<1>1. \A x \in Workers : worker'[x] = IF x = w THEN state ELSE worker[x]
  BY WorkerIsNow
<1> QED
  BY <1>1 DEF Held

LEMMA CtxKept ==
  ASSUME TypeOK, TypeOK', CtxInv, gen <= gen', Held' \subseteq Held
  PROVE  CtxInv'
<1>1. gen \in Nat /\ gen' \in Nat
  BY DEF TypeOK, LoopTypeOK
<1>2. \A t \in Held : t.ctx \in Nat
  BY HeldTasks DEF TypeOK, D!Task
<1> QED
  BY <1>1, <1>2 DEF CtxInv

-----------------------------------------------------------------------------
(* The steps.                                                              *)

(* A loop begins, or there is none: nothing is in any place.               *)
LEMMA FreshAccount ==
  ASSUME TypeOK, TypeOK', AccountInv, NEW h, StartDelivery(h), Held' \subseteq Held
  PROVE  AccountInv'
<1>1. gen \in Nat /\ gen' \in Nat /\ conns' \in Nat
  BY DEF TypeOK, LoopTypeOK
<1>2. (live' = {} /\ gen' = gen) \/ (live' = {gen'} /\ gen' = gen + 1)
  BY DEF StartDelivery
<1>3. CtxInv'
  BY <1>1, <1>2, CtxKept DEF AccountInv
<1>4. ASSUME live' # {} PROVE PlacesInv' /\ SlotsInv' /\ HeadsInv'
  <2>1. live' = {gen'} /\ gen' = gen + 1
    BY <1>2, <1>4
  <2>2. \A t \in Held' : t.ctx \notin live'
    <3>1. \A t \in Held : t.ctx \in Nat /\ t.ctx <= gen
      BY HeldTasks DEF TypeOK, D!Task, AccountInv, CtxInv
    <3> QED
      BY <1>1, <2>1, <3>1
  <2>3. \A i \in DOMAIN taskQueue' : taskQueue'[i] \notin LiveTask'
    BY <2>2 DEF Held, LiveTask
  <2>4. BusyLive' = {}
    BY <2>2 DEF Held, BusyLive
  <2>5. results' = <<>> /\ sending' = {} /\ queued' = {} /\ inFlight' = 0
    BY DEF StartDelivery
  <2>6. TaskIds' = {} /\ BusyIds' = {} /\ ResultIds' = {}
    BY <2>3, <2>4, <2>5 DEF TaskIds, BusyIds, ResultIds, IdsIn
  <2>7. PlacesInv'
    BY <2>3, <2>4, <2>5, <2>6 DEF PlacesInv, OnceIn, OneEach
  <2>8. SlotsInv'
    BY <1>1, <2>5, FS_EmptySet DEF SlotsInv
  <2>9. HeadsInv'
    BY <2>5 DEF HeadsInv
  <2> QED
    BY <2>7, <2>8, <2>9
<1> QED
  BY <1>3, <1>4 DEF AccountInv

(* The context is cancelled.                                               *)
LEMMA CancelAccount ==
  ASSUME AccountInv, live' = {}, UNCHANGED <<gen, dispatcherVars>>
  PROVE  AccountInv'
BY DEF AccountInv, CtxInv, Held, dispatcherVars

(* Nothing changes its place.                                              *)
LEMMA PlacesKept ==
  ASSUME AccountInv, UNCHANGED <<gen, live, conns, taskQueue, worker, results, sending, inFlight>>,
         live # {} /\ HeadsInv => HeadsInv'
  PROVE  AccountInv'
<1>1. CtxInv'
  BY DEF AccountInv, CtxInv, Held
<1>2. LiveTask' = LiveTask
  BY DEF LiveTask
<1>3. TaskIds' = TaskIds /\ BusyIds' = BusyIds /\ ResultIds' = ResultIds
  BY <1>2 DEF TaskIds, BusyIds, ResultIds, BusyLive
<1>4. PlacesInv => PlacesInv'
  BY <1>2, <1>3 DEF PlacesInv, OnceIn, OneEach, BusyLive
<1>5. SlotsInv => SlotsInv'
  BY DEF SlotsInv
<1> QED
  BY <1>1, <1>4, <1>5 DEF AccountInv

(* The same heads as before for whatever is being sent.                    *)
LEMMA HeadsKept ==
  ASSUME HeadsInv, UNCHANGED <<queued, loaded>>, sending' \subseteq sending,
         \A u \in sending' : u \notin delivered'
  PROVE  HeadsInv'
BY DEF HeadsInv, IsHead, SameQueue, WebhookQueueKey

LEMMA ProducerAccount == TypeOK /\ AccountInv /\ Producer => AccountInv'
<1> SUFFICES ASSUME TypeOK, AccountInv, Producer PROVE AccountInv'
  OBVIOUS
<1>1. UNCHANGED <<gen, live, conns, entryVars, results, dispatcherVars>>
  BY DEF Producer, BeginBatch, AppendNext, Notify, loopVars
<1>2. HeadsInv => HeadsInv'
  BY <1>1, HeadsKept DEF HeadsInv, entryVars
<1> QED
  BY <1>1, <1>2, PlacesKept DEF entryVars, dispatcherVars

LEMMA ControlAccount == TypeOK /\ TypeOK' /\ AccountInv /\ Control => AccountInv'
<1> SUFFICES ASSUME TypeOK, TypeOK', AccountInv, Control PROVE AccountInv'
  OBVIOUS
<1>1. CASE \E r \in Requests : BeginChange(r)
  BY <1>1, CancelAccount DEF BeginChange
<1>2. CASE StopBot
  <2>1. UNCHANGED <<gen, live, conns, entryVars, results, dispatcherVars>>
    BY <1>2 DEF StopBot, loopVars
  <2>2. HeadsInv => HeadsInv'
    BY <2>1, HeadsKept DEF HeadsInv, entryVars
  <2> QED
    BY <2>1, <2>2, PlacesKept DEF entryVars, dispatcherVars
<1>3. ASSUME NEW h, StartDelivery(h), UNCHANGED dispatcherVars PROVE AccountInv'
  BY <1>3, FreshAccount DEF dispatcherVars, Held
<1>4. CASE SetWebhook \/ DeleteWebhook \/ StartBot
  BY <1>3, <1>4 DEF SetWebhook, DeleteWebhook, ChangeWebhook, StartBot
<1>5. CASE Crash
  <2>1. Held' = {} /\ StartDelivery(0)
    BY <1>5 DEF Crash, D!ProcessDies, Held
  <2> QED
    BY <2>1, FreshAccount
<1> QED
  BY <1>1, <1>2, <1>4, <1>5 DEF Control

-----------------------------------------------------------------------------
(* A page brings only younger updates: what is being sent stays ahead.     *)
LEMMA PageHeads ==
  ASSUME IInv, HeadsInv, LoadPage
  PROVE  HeadsInv'
<1> DEFINE New == Page \ Unreadable
<1>1. queued' = queued \cup New /\ loaded' = loaded \cup New /\ UNCHANGED <<sending, delivered>>
  BY DEF LoadPage, LoadFrame
<1>2. tail \in Nat /\ queued \subseteq Nat /\ \A u \in queued : u <= tail
  BY DEF IInv, TypeOK, EntryTypeOK, LoadInv
<1>3. \A v \in New : v \in Nat /\ v > tail
  BY PageInStream DEF IInv, TypeOK, RedisTypeOK
<1> HIDE DEF New
<1>4. \A u \in queued, v \in New : u <= v
  BY <1>2, <1>3
<1>5. \A u : IsHead(u) => IsHead(u)'
  BY <1>1, <1>4 DEF IsHead, SameQueue, WebhookQueueKey
<1> QED
  BY <1>1, <1>5 DEF HeadsInv

(* The head of a queue leaves it: the heads of other queues stay.          *)
LEMMA RemovedHeads ==
  ASSUME HeadsInv, NEW u, Removed(u), IsHead(u)
  PROVE  HeadsInv'
<1>1. /\ queued' = queued \ {u} /\ loaded' = loaded \ {u} /\ sending' = sending \ {u}
      /\ delivered' = delivered \ {u}
  BY DEF Removed
<1>2. \A v \in sending' : IsHead(v)'
  BY <1>1 DEF HeadsInv, IsHead, SameQueue, WebhookQueueKey
<1> QED
  BY <1>1, <1>2 DEF HeadsInv

LEMMA DropAccount ==
  ASSUME AccountInv, NEW u, DropHead(u)
  PROVE  AccountInv'
<1>1. u \notin sending /\ IsHead(u) /\ live # {}
  BY DEF DropHead, MayServe
<1>2. UNCHANGED <<gen, live, conns, results, inFlight, dispatcherVars>>
      /\ (Removed(u) \/ (NotRemoved(u) /\ UNCHANGED delivered))
  BY DEF DropHead, DispatchFrame
<1>3. UNCHANGED sending
  BY <1>1, <1>2 DEF Removed, NotRemoved
<1>4. HeadsInv => HeadsInv'
  <2>1. CASE HeadsInv /\ Removed(u)
    BY <1>1, <2>1, RemovedHeads
  <2>2. CASE HeadsInv /\ NotRemoved(u) /\ UNCHANGED delivered
    BY <1>3, <2>2, HeadsKept DEF NotRemoved, HeadsInv
  <2> QED
    BY <1>2, <2>1, <2>2
<1> QED
  BY <1>2, <1>3, <1>4, PlacesKept DEF dispatcherVars

(* What is sent goes to the task queue, or straight to the results.        *)
LEMMA SendAccount ==
  ASSUME TypeOK, TypeOK', AccountInv, NEW u \in queued, SendHead(u)
  PROVE  AccountInv'
<1>1. /\ live # {} /\ inFlight < conns /\ IsHead(u) /\ u \notin sending /\ u \notin delivered
      /\ sending' = sending \cup {u} /\ inFlight' = inFlight + 1
      /\ UNCHANGED <<gen, live, conns, worker, queued, loaded, delivered>>
  BY DEF SendHead, MayServe, DispatchFrame, D!EnqueueTask, dispatcherVars
<1>2. PlacesInv /\ SlotsInv /\ HeadsInv /\ CtxInv
  BY <1>1 DEF AccountInv
<1>3. /\ u \in Updates /\ gen \in Contexts /\ gen \in live /\ conns \in Nat /\ inFlight \in Int
      /\ sending \in SUBSET Updates
  <2>1. u \in Updates /\ inFlight \in Int /\ sending \in SUBSET Updates
    BY DEF TypeOK, EntryTypeOK
  <2>2. live \subseteq {gen} \cap Contexts /\ conns \in Nat
    BY DEF TypeOK, LoopTypeOK
  <2>3. gen \in Contexts /\ gen \in live
    BY <1>1, <2>2
  <2> QED
    BY <2>1, <2>2, <2>3
<1>4. LiveTask' = LiveTask /\ BusyIds' = BusyIds /\ (OneEach => OneEach')
  BY <1>1 DEF LiveTask, BusyIds, BusyLive, OneEach
<1>5. u \notin TaskIds /\ u \notin BusyIds /\ u \notin ResultIds
  BY <1>1, <1>2 DEF PlacesInv
<1>6. SlotsInv'
  <2>1. IsFiniteSet(sending) /\ Cardinality(sending') = Cardinality(sending) + 1
    BY <1>1, <1>3, FiniteUpdates, FS_AddElement
  <2> QED
    BY <1>1, <1>2, <1>3, <2>1 DEF SlotsInv
<1>7. HeadsInv'
  BY <1>1, <1>2 DEF HeadsInv, IsHead, SameQueue, WebhookQueueKey
<1>8. CASE D!EnqueueTask([ctx |-> gen, id |-> u]) /\ UNCHANGED results
  <2> DEFINE task == [ctx |-> gen, id |-> u]
  <2>1. task \in D!Task /\ task \in LiveTask /\ task.id = u /\ task.ctx = gen
    BY <1>3 DEF D!Task, LiveTask
  <2>2. taskQueue' = Append(taskQueue, task) /\ taskQueue \in Seq(D!Task)
    BY <1>8 DEF D!EnqueueTask, TypeOK, D!DispatcherTypeOK
  <2> HIDE DEF task
  <2>3. OnceIn(taskQueue', LiveTask) /\ IdsIn(taskQueue', LiveTask) = TaskIds \cup {u}
    BY <1>2, <1>5, <2>1, <2>2, AppendCounts DEF PlacesInv, TaskIds
  <2>4. ResultIds' = ResultIds /\ (OnceIn(results, Result) => OnceIn(results, Result)')
    BY <1>8 DEF ResultIds, OnceIn, IdsIn
  <2>5. TaskIds' = TaskIds \cup {u} /\ OnceIn(taskQueue, LiveTask)'
    BY <1>4, <2>3 DEF TaskIds, OnceIn, IdsIn
  <2>6. PlacesInv'
    BY <1>1, <1>2, <1>4, <1>5, <2>4, <2>5 DEF PlacesInv
  <2>7. CtxInv'
    <3>1. \A i \in DOMAIN taskQueue' : taskQueue'[i] = task \/ taskQueue'[i] \in Held
      BY <2>1, <2>2, AppendElements DEF Held
    <3>2. \A t \in Held' : t = task \/ t \in Held
      BY <1>1, <3>1 DEF Held
    <3>3. gen <= gen
      BY <1>3
    <3> QED
      BY <1>1, <1>2, <2>1, <3>2, <3>3 DEF CtxInv
  <2> QED
    BY <1>6, <1>7, <2>6, <2>7 DEF AccountInv
<1>9. CASE /\ results' = Append(results, [id |-> u, outcome |-> "error"])
           /\ UNCHANGED dispatcherVars
  <2> DEFINE new == [id |-> u, outcome |-> "error"]
  <2>1. new \in Result /\ new.id = u
    BY <1>3 DEF Result
  <2>2. results' = Append(results, new) /\ results \in Seq(Result)
    BY <1>9 DEF TypeOK, LoopTypeOK
  <2> HIDE DEF new
  <2>3. OnceIn(results', Result) /\ IdsIn(results', Result) = ResultIds \cup {u}
    BY <1>2, <1>5, <2>1, <2>2, AppendCounts DEF PlacesInv, ResultIds
  <2>4. ResultIds' = ResultIds \cup {u} /\ OnceIn(results, Result)'
    BY <2>3 DEF ResultIds, OnceIn, IdsIn, Result
  <2>5. TaskIds' = TaskIds /\ (OnceIn(taskQueue, LiveTask) => OnceIn(taskQueue, LiveTask)')
    BY <1>4, <1>9 DEF TaskIds, OnceIn, IdsIn, dispatcherVars
  <2>6. PlacesInv'
    BY <1>1, <1>2, <1>4, <1>5, <2>4, <2>5 DEF PlacesInv
  <2>7. CtxInv'
    BY <1>1, <1>2, <1>9 DEF CtxInv, Held, dispatcherVars
  <2> QED
    BY <1>6, <1>7, <2>6, <2>7 DEF AccountInv
<1> QED
  BY <1>8, <1>9 DEF SendHead

-----------------------------------------------------------------------------
(* A result is taken: its update was being sent, and leaves the accounts.  *)
LEMMA CompleteAccount ==
  ASSUME TypeOK, AccountInv, CompleteError \/ CompleteSuccess
  PROVE  AccountInv'
<1>1. /\ UNCHANGED <<gen, live, conns, taskQueue, worker>>
      /\ results # <<>> /\ results' = Tail(results) /\ results \in Seq(Result)
  BY DEF CompleteError, CompleteSuccess, TakeResult, dispatcherVars, TypeOK, LoopTypeOK
<1>2. CtxInv'
  BY <1>1 DEF AccountInv, CtxInv, Held
<1>3. ASSUME live # {} PROVE PlacesInv' /\ SlotsInv' /\ HeadsInv'
  <2>1. PlacesInv /\ SlotsInv /\ HeadsInv
    BY <1>3 DEF AccountInv
  <2>2. PICK u : u = Head(results).id
    OBVIOUS
  <2>3. /\ u \in ResultIds /\ IdsIn(results', Result) = ResultIds \ {u}
        /\ OnceIn(results', Result)
    <3>1. Head(results) \in Result
      BY <1>1, HeadTailProperties
    <3> QED
      BY <1>1, <2>1, <2>2, <3>1, TailCounts DEF PlacesInv, ResultIds
  <2>4. u \in sending /\ IsHead(u) /\ InFlight(u)
    BY <2>1, <2>3 DEF PlacesInv, HeadsInv, InFlight, IsHead
  <2>5. sending' = sending \ {u} /\ inFlight' = inFlight - 1
    BY <2>2, <2>4 DEF CompleteError, CompleteSuccess, Removed, NotRemoved
  <2>6. PlacesInv'
    <3>1. ResultIds' = ResultIds \ {u} /\ OnceIn(results, Result)'
      BY <2>3 DEF ResultIds, OnceIn, IdsIn, Result
    <3>2. /\ TaskIds' = TaskIds /\ BusyIds' = BusyIds /\ (OneEach => OneEach')
          /\ (OnceIn(taskQueue, LiveTask) => OnceIn(taskQueue, LiveTask)')
      BY <1>1 DEF TaskIds, BusyIds, OneEach, BusyLive, OnceIn, IdsIn, LiveTask
    <3> QED
      BY <2>1, <2>3, <2>5, <3>1, <3>2 DEF PlacesInv
  <2>7. SlotsInv'
    <3>1. sending \in SUBSET Updates /\ conns \in Nat /\ inFlight \in Int
      BY DEF TypeOK, EntryTypeOK, LoopTypeOK
    <3>2. Cardinality(sending') = Cardinality(sending) - 1
      BY <2>4, <2>5, <3>1, FiniteUpdates, FS_RemoveElement
    <3> QED
      BY <1>1, <2>1, <2>5, <3>1, <3>2 DEF SlotsInv
  <2>8. HeadsInv'
    <3>1. CASE Removed(u)
      BY <2>1, <2>4, <3>1, RemovedHeads
    <3>2. CASE UNCHANGED <<queued, loaded>> /\ delivered' \subseteq delivered \cup {u}
      BY <2>1, <2>5, <3>2, HeadsKept DEF HeadsInv
    <3> QED
      BY <2>2, <2>4, <3>1, <3>2 DEF CompleteError, CompleteSuccess, NotRemoved
  <2> QED
    BY <2>6, <2>7, <2>8
<1> QED
  BY <1>1, <1>2, <1>3 DEF AccountInv

LEMMA LoopAccount == IInv /\ TypeOK' /\ AccountInv /\ Loop => AccountInv'
<1> SUFFICES ASSUME IInv, TypeOK', AccountInv, Loop PROVE AccountInv'
  OBVIOUS
<1> TypeOK
  BY DEF IInv
<1>1. CASE ExitLoop
  BY <1>1, FreshAccount DEF ExitLoop, dispatcherVars, Held
<1>2. CASE LoadPage \/ EndLoad
  <2>1. UNCHANGED <<gen, live, conns, results, sending, delivered, inFlight, dispatcherVars>>
    BY <1>2 DEF LoadPage, EndLoad, LoadFrame
  <2>2. HeadsInv => HeadsInv'
    BY <1>2, <2>1, PageHeads, HeadsKept DEF EndLoad, HeadsInv
  <2> QED
    BY <2>1, <2>2, PlacesKept DEF dispatcherVars
<1>3. CASE EndDispatch \/ TakeWake \/ TimerFires \/ EndDrain
  <2>1. UNCHANGED <<gen, live, conns, entryVars, results, dispatcherVars>>
    BY <1>3 DEF EndDispatch, TakeWake, TimerFires, EndDrain, LoopGoes
  <2>2. HeadsInv => HeadsInv'
    BY <2>1, HeadsKept DEF HeadsInv, entryVars
  <2> QED
    BY <2>1, <2>2, PlacesKept DEF entryVars, dispatcherVars
<1> QED
  BY <1>1, <1>2, <1>3, DropAccount, SendAccount, CompleteAccount DEF Loop

-----------------------------------------------------------------------------
(* The pool.                                                               *)

(* A worker takes a task, and keeps it if it is live.                      *)
LEMMA TakeAccount ==
  ASSUME TypeOK, TypeOK', AccountInv, NEW w \in Workers, D!TakeTask(w),
         UNCHANGED <<gen, live, conns, results, sending, inFlight, queued, loaded, delivered>>
  PROVE  AccountInv'
<1>1. /\ D!DispatcherTypeOK /\ taskQueue \in Seq(D!Task) /\ taskQueue # <<>>
      /\ taskQueue' = Tail(taskQueue) /\ worker[w] = D!Idle
  BY DEF TypeOK, D!DispatcherTypeOK, D!TakeTask
<1>2. PICK task : task = Head(taskQueue)
  OBVIOUS
<1>3. PICK state : state = D!Posting(task, 1)
  OBVIOUS
<1>4. /\ task \in D!Task /\ task \in Held
      /\ \A i \in DOMAIN taskQueue' : taskQueue'[i] \in Held
  <2>1. task \in D!Task
    BY <1>1, <1>2, HeadTailProperties
  <2> QED
    BY <1>1, <1>2, <2>1, TailElements DEF Held
<1>5. state # D!Idle /\ state.task = task
  <2>1. state.phase = "posting" /\ D!Idle.phase = "idle" /\ state.task = task
    BY <1>3 DEF D!Posting, D!Idle
  <2> QED
    BY <2>1
<1>6. worker' = IF task.ctx \in live THEN [worker EXCEPT ![w] = state] ELSE worker
  BY <1>2, <1>3 DEF D!TakeTask, D!Live
<1>7. CtxInv'
  <2>1. \A x \in Workers : worker'[x] # D!Idle => worker'[x].task \in Held
    <3>1. \A x \in Workers : worker'[x] = worker[x] \/ worker'[x] = state
      BY <1>1, <1>6, WorkerIsNow
    <3> QED
      BY <1>4, <1>5, <3>1 DEF Held
  <2>2. Held' \subseteq Held
    BY <1>4, <2>1 DEF Held
  <2>3. gen \in Nat
    BY DEF TypeOK, LoopTypeOK
  <2> QED
    BY <2>2, <2>3, CtxKept DEF AccountInv
<1>8. ASSUME live # {} PROVE PlacesInv' /\ SlotsInv' /\ HeadsInv'
  <2>1. PlacesInv /\ SlotsInv /\ HeadsInv
    BY <1>8 DEF AccountInv
  <2>2. SlotsInv' /\ HeadsInv'
    BY <2>1, HeadsKept DEF SlotsInv, HeadsInv
  <2>3. ResultIds' = ResultIds /\ (OnceIn(results, Result) => OnceIn(results, Result)')
    BY DEF ResultIds, OnceIn, IdsIn, Result
  <2>4. LiveTask' = LiveTask /\ (task \in LiveTask <=> task.ctx \in live)
    BY <1>4 DEF LiveTask
  <2>5. /\ OnceIn(taskQueue', LiveTask)
        /\ task \in LiveTask => task.id \in TaskIds
                                /\ IdsIn(taskQueue', LiveTask) = TaskIds \ {task.id}
        /\ task \notin LiveTask => IdsIn(taskQueue', LiveTask) = TaskIds
    BY <1>1, <1>2, <2>1, TailCounts DEF PlacesInv, TaskIds
  <2>6. OnceIn(taskQueue, LiveTask)' /\ TaskIds' = IdsIn(taskQueue', LiveTask)
    BY <2>4, <2>5 DEF TaskIds, OnceIn, IdsIn
  <2>7. CASE task.ctx \in live
    <3>1. task.id \notin BusyIds
      BY <2>1, <2>4, <2>5, <2>7 DEF PlacesInv
    <3>2. BusyIds' = BusyIds \cup {task.id} /\ OneEach'
      BY <1>1, <1>5, <1>6, <2>1, <2>7, <3>1, Begins DEF PlacesInv
    <3>3. task.id \notin ResultIds
      BY <2>1, <2>4, <2>5, <2>7 DEF PlacesInv
    <3> QED
      BY <2>1, <2>2, <2>3, <2>4, <2>5, <2>6, <2>7, <3>1, <3>2, <3>3 DEF PlacesInv
  <2>8. CASE task.ctx \notin live
    <3>1. worker' = worker
      BY <1>6, <2>8
    <3>2. BusyIds' = BusyIds /\ (OneEach => OneEach')
      BY <3>1 DEF BusyIds, OneEach, BusyLive
    <3> QED
      BY <2>1, <2>2, <2>3, <2>4, <2>5, <2>6, <2>8, <3>2 DEF PlacesInv
  <2> QED
    BY <2>7, <2>8
<1> QED
  BY <1>7, <1>8 DEF AccountInv

(* A worker goes on with its task, or an application is late.              *)
LEMMA StayAccount ==
  ASSUME TypeOK, TypeOK', AccountInv, UNCHANGED taskQueue,
         UNCHANGED <<gen, live, conns, results, sending, inFlight, queued, loaded, delivered>>,
         BusyIds' = BusyIds /\ (OneEach => OneEach'), Held' \subseteq Held
  PROVE  AccountInv'
<1>1. CtxInv'
  <2>1. gen \in Nat
    BY DEF TypeOK, LoopTypeOK
  <2> QED
    BY <2>1, CtxKept DEF AccountInv
<1>2. SlotsInv => SlotsInv'
  BY DEF SlotsInv
<1>3. HeadsInv => HeadsInv'
  BY HeadsKept DEF HeadsInv
<1>4. /\ ResultIds' = ResultIds /\ (OnceIn(results, Result) => OnceIn(results, Result)')
      /\ TaskIds' = TaskIds /\ (OnceIn(taskQueue, LiveTask) => OnceIn(taskQueue, LiveTask)')
  BY DEF ResultIds, TaskIds, OnceIn, IdsIn, Result, LiveTask
<1>5. PlacesInv => PlacesInv'
  BY <1>4 DEF PlacesInv
<1> QED
  BY <1>1, <1>2, <1>3, <1>5 DEF AccountInv

LEMMA SilentAccount ==
  ASSUME TypeOK, TypeOK', AccountInv, D!SilentStep,
         UNCHANGED <<gen, live, conns, results, sending, inFlight, queued, loaded, delivered>>
  PROVE  AccountInv'
<1> D!DispatcherTypeOK
  BY DEF TypeOK
<1>1. ASSUME NEW w \in Workers, NEW state, worker[w] # D!Idle, state # D!Idle,
             state.task = worker[w].task, worker' = [worker EXCEPT ![w] = state],
             UNCHANGED taskQueue
      PROVE  AccountInv'
  <2>1. state.task \in Held
    BY <1>1 DEF Held
  <2>2. Held' \subseteq Held
    BY <1>1, <2>1, OneWorkerHeld
  <2>3. BusyIds' = BusyIds /\ (OneEach => OneEach')
    BY <1>1, GoesOn
  <2> QED
    BY <1>1, <2>2, <2>3, StayAccount
<1>2. ASSUME NEW w \in Workers, D!ConnectionFails(w) PROVE AccountInv'
  <2>1. PICK state : state = [worker[w] EXCEPT !.phase = "sleeping", !.answer = "none"]
    OBVIOUS
  <2>2. worker[w] \in D!Busy
    BY <1>2, WorkerTypes DEF D!ConnectionFails
  <2>3. state.phase = "sleeping" /\ state.task = worker[w].task /\ worker[w] # D!Idle
    BY <1>2, <2>1, <2>2, WorkerTypes DEF D!Busy, D!Idle, D!ConnectionFails
  <2>4. state # D!Idle
    BY <2>3 DEF D!Idle
  <2>5. UNCHANGED taskQueue /\ worker' = [worker EXCEPT ![w] = state]
    BY <1>2, <2>1 DEF D!ConnectionFails
  <2> QED
    BY <1>1, <2>3, <2>4, <2>5
<1>3. ASSUME NEW w \in Workers, D!Resend(w) PROVE AccountInv'
  <2>1. PICK state : state = D!Posting(worker[w].task, worker[w].attempt + 1)
    OBVIOUS
  <2>2. worker[w] \in D!Busy
    BY <1>3, WorkerTypes DEF D!Resend
  <2>3. worker[w] # D!Idle
    BY <2>2 DEF D!Busy, D!Idle
  <2>4. state.phase = "posting" /\ state.task = worker[w].task
    BY <2>1 DEF D!Posting
  <2>5. state # D!Idle
    BY <2>4 DEF D!Idle
  <2> QED
    BY <1>1, <1>3, <2>1, <2>3, <2>4, <2>5 DEF D!Resend
<1>4. ASSUME NEW w \in Workers, D!AppAccepts(w) \/ D!AppRejects(w) PROVE AccountInv'
  <2>1. PICK a \in {"accepted", "rejected"} : worker' = [worker EXCEPT ![w].answer = a]
    BY <1>4 DEF D!AppAccepts, D!AppRejects
  <2>2. PICK state : state = [worker[w] EXCEPT !.answer = a]
    OBVIOUS
  <2>3. worker[w] \in D!Busy
    BY <1>4, WorkerTypes DEF D!AppAccepts, D!AppRejects
  <2>4. worker[w] # D!Idle /\ state # D!Idle /\ state.task = worker[w].task
    BY <2>2, <2>3 DEF D!Busy, D!Idle
  <2> QED
    BY <1>1, <1>4, <2>1, <2>2, <2>4 DEF D!AppAccepts, D!AppRejects
<1>5. ASSUME NEW id \in ghosts, D!GhostEnds(id) PROVE AccountInv'
  <2>1. UNCHANGED <<taskQueue, worker>>
    BY <1>5 DEF D!GhostEnds
  <2> QED
    BY <2>1, StayAccount DEF BusyIds, OneEach, BusyLive, Held
<1> QED
  BY <1>2, <1>3, <1>4, <1>5, TakeAccount DEF D!SilentStep

(* A worker is done: its update goes to the results, unless its loop is    *)
(* gone.                                                                   *)
LEMMA ReportAccount ==
  ASSUME TypeOK, TypeOK', AccountInv, NEW w \in Workers, worker[w] # D!Idle,
         NEW outcome \in {"ok", "error"}, Report(worker[w].task, outcome),
         worker' = [worker EXCEPT ![w] = D!Idle], UNCHANGED taskQueue,
         UNCHANGED <<gen, live, conns, sending, inFlight, queued, loaded, delivered>>
  PROVE  AccountInv'
<1> D!DispatcherTypeOK
  BY DEF TypeOK
<1>1. PICK task : task = worker[w].task
  OBVIOUS
<1>2. task \in D!Task /\ task.id \in Updates
  BY <1>1 DEF D!DispatcherTypeOK, D!Busy, D!Task
<1>3. CtxInv'
  <2>1. Held' \subseteq Held
    BY OneWorkerHeld
  <2>2. gen \in Nat
    BY DEF TypeOK, LoopTypeOK
  <2> QED
    BY <2>1, <2>2, CtxKept DEF AccountInv
<1>4. ASSUME live # {} PROVE PlacesInv' /\ SlotsInv' /\ HeadsInv'
  <2>1. PlacesInv /\ SlotsInv /\ HeadsInv
    BY <1>4 DEF AccountInv
  <2>2. SlotsInv' /\ HeadsInv'
    BY <2>1, HeadsKept DEF SlotsInv, HeadsInv
  <2>3. TaskIds' = TaskIds /\ (OnceIn(taskQueue, LiveTask) => OnceIn(taskQueue, LiveTask)')
    BY DEF TaskIds, OnceIn, IdsIn, LiveTask
  <2>4. /\ OneEach'
        /\ task.ctx \in live => task.id \in BusyIds /\ BusyIds' = BusyIds \ {task.id}
        /\ task.ctx \notin live => BusyIds' = BusyIds
    BY <1>1, <2>1, Ends DEF PlacesInv
  <2>5. CASE task.ctx \in live
    <3>1. PICK new : new = [id |-> task.id, outcome |-> outcome]
      OBVIOUS
    <3>2. new \in Result /\ new.id = task.id
      BY <1>2, <3>1 DEF Result
    <3>3. results' = Append(results, new) /\ results \in Seq(Result)
      BY <1>1, <2>5, <3>1 DEF Report, TypeOK, LoopTypeOK
    <3>4. task.id \notin ResultIds /\ task.id \notin TaskIds
      BY <2>1, <2>4, <2>5 DEF PlacesInv
    <3>5. OnceIn(results', Result) /\ IdsIn(results', Result) = ResultIds \cup {task.id}
      BY <2>1, <3>2, <3>3, <3>4, AppendCounts DEF PlacesInv, ResultIds
    <3>6. ResultIds' = ResultIds \cup {task.id} /\ OnceIn(results, Result)'
      BY <3>5 DEF ResultIds, OnceIn, IdsIn, Result
    <3> QED
      BY <2>1, <2>2, <2>3, <2>4, <2>5, <3>4, <3>6 DEF PlacesInv
  <2>6. CASE task.ctx \notin live
    <3>1. results' = results
      BY <1>1, <2>6 DEF Report
    <3>2. ResultIds' = ResultIds /\ (OnceIn(results, Result) => OnceIn(results, Result)')
      BY <3>1 DEF ResultIds, OnceIn, IdsIn, Result
    <3> QED
      BY <2>1, <2>2, <2>3, <2>4, <2>6, <3>2 DEF PlacesInv
  <2> QED
    BY <2>5, <2>6
<1> QED
  BY <1>3, <1>4 DEF AccountInv

LEMMA DispatchingAccount == TypeOK /\ TypeOK' /\ AccountInv /\ Dispatching => AccountInv'
<1> SUFFICES ASSUME TypeOK, TypeOK', AccountInv, Dispatching PROVE AccountInv'
  OBVIOUS
<1>1. UNCHANGED <<gen, live, conns, sending, inFlight, queued, loaded, delivered>>
  BY DEF Dispatching, ReportSuccess, ReportError, DispatcherStep, DispatcherFrame, entryVars
<1>2. ASSUME NEW w \in Workers, D!Succeeds(w) \/ D!Fails(w)
      PROVE  /\ worker[w] # D!Idle /\ worker' = [worker EXCEPT ![w] = D!Idle]
             /\ UNCHANGED taskQueue
  BY <1>2 DEF D!Succeeds, D!Fails, D!Rejected, D!TimesOut, D!GivesUp, D!Idle
<1>3. ASSUME NEW w \in Workers, ReportSuccess(w) PROVE AccountInv'
  BY <1>1, <1>2, <1>3, ReportAccount DEF ReportSuccess
<1>4. ASSUME NEW w \in Workers, ReportError(w) PROVE AccountInv'
  BY <1>1, <1>2, <1>4, ReportAccount DEF ReportError
<1>5. CASE DispatcherStep
  BY <1>1, <1>5, SilentAccount DEF DispatcherStep
<1> QED
  BY <1>3, <1>4, <1>5 DEF Dispatching

LEMMA TimeAccount ==
  AccountInv /\ ((\E u \in backoff : RetryDue(u)) \/ Age \/ UNCHANGED vars) => AccountInv'
<1> SUFFICES ASSUME AccountInv, (\E u \in backoff : RetryDue(u)) \/ Age \/ UNCHANGED vars
             PROVE  AccountInv'
  OBVIOUS
<1>1. UNCHANGED <<gen, live, conns, results, sending, inFlight, queued, loaded, delivered,
                  dispatcherVars>>
  BY DEF RetryDue, Age, vars, loopVars, entryVars
<1>2. HeadsInv => HeadsInv'
  BY <1>1, HeadsKept DEF HeadsInv
<1> QED
  BY <1>1, <1>2, PlacesKept DEF dispatcherVars

-----------------------------------------------------------------------------
(* The results.                                                            *)
LEMMA AccountInit == Init => AccountInv
BY DEF Init, NoLoop, D!DispatcherInit, AccountInv, CtxInv, Held

LEMMA AccountStep == IInv /\ AccountInv /\ [Next]_vars => AccountInv'
<1> SUFFICES ASSUME IInv, AccountInv, [Next]_vars PROVE AccountInv'
  OBVIOUS
<1>1. TypeOK /\ TypeOK'
  BY TypeStep DEF IInv
<1> QED
  BY <1>1, ProducerAccount, ControlAccount, LoopAccount, DispatchingAccount, TimeAccount DEF Next

LEMMA AccountHolds == Spec => []AccountInv
BY InvInit, InvStep, AccountInit, AccountStep, PTL DEF Spec

(* The running loop has one request under way for each chat at most, for   *)
(* its oldest update, and never for one that was delivered before          *)
(* (webhook_delivery.go:222), whatever was left over by earlier loops.     *)
THEOREM OneRequestPerChat == Spec => []OnePerQueue
<1>1. TypeOK /\ AccountInv => OnePerQueue
  <2> SUFFICES ASSUME TypeOK, AccountInv PROVE OnePerQueue
    OBVIOUS
  <2>1. LiveIds = TaskIds \cup BusyIds
    <3>1. \A i \in DOMAIN taskQueue : taskQueue[i] \in D!Task
      BY LenProperties, ElementOfSeq DEF TypeOK, D!DispatcherTypeOK
    <3>2. \A i \in DOMAIN taskQueue : taskQueue[i] \in LiveTask <=> taskQueue[i].ctx \in live
      BY <3>1 DEF LiveTask
    <3> QED
      BY <3>2 DEF LiveIds, TaskIds, BusyIds, IdsIn, QueuedLive
  <2>2. CASE live = {}
    BY <2>2 DEF OnePerQueue, LiveIds, BusyLive, QueuedLive
  <2>3. CASE live # {}
    <3>1. LiveIds \subseteq sending
      BY <2>1, <2>3 DEF AccountInv, PlacesInv
    <3> QED
      BY <2>3, <3>1 DEF AccountInv, HeadsInv, OnePerQueue
  <2> QED
    BY <2>2, <2>3
<1>2. IInv => TypeOK
  BY DEF IInv
<1> QED
  BY <1>1, <1>2, InvHolds, AccountHolds, PTL

LEMMA CountPlaces ==
  ASSUME TypeOK, PlacesInv
  PROVE  Cardinality(sending) = Cardinality(BusyLive) + Cardinality(QueuedLive) + Len(results)
<1>1. \A i \in DOMAIN taskQueue :
         /\ taskQueue[i].id \in Updates
         /\ taskQueue[i] \in LiveTask <=> taskQueue[i].ctx \in live
  <2>1. \A i \in DOMAIN taskQueue : taskQueue[i] \in D!Task
    BY LenProperties, ElementOfSeq DEF TypeOK, D!DispatcherTypeOK
  <2> QED
    BY <2>1 DEF LiveTask, D!Task
<1>2. TaskIds = {taskQueue[i].id : i \in QueuedLive}
  BY <1>1 DEF TaskIds, IdsIn, QueuedLive
<1>3. Cardinality(QueuedLive) = Cardinality(TaskIds)
  <2>1. PICK f : f = [i \in QueuedLive |-> taskQueue[i].id]
    OBVIOUS
  <2>2. f \in [QueuedLive -> Updates] /\ \A i \in QueuedLive : f[i] = taskQueue[i].id
    BY <1>1, <2>1 DEF QueuedLive
  <2>3. \A i, j \in QueuedLive : f[i] = f[j] => i = j
    BY <1>1, <2>2 DEF PlacesInv, OnceIn, QueuedLive
  <2>4. {f[i] : i \in QueuedLive} = TaskIds
    BY <1>2, <2>2
  <2> QED
    BY <2>2, <2>3, <2>4, CountByUpdate
<1>4. Cardinality(BusyLive) = Cardinality(BusyIds)
  <2>1. PICK f : f = [w \in BusyLive |-> worker[w].task.id]
    OBVIOUS
  <2>2. f \in [BusyLive -> Updates] /\ \A w \in BusyLive : f[w] = worker[w].task.id
    BY <2>1 DEF BusyLive, TypeOK, D!DispatcherTypeOK, D!Busy, D!Task
  <2>3. \A w, x \in BusyLive : f[w] = f[x] => w = x
    BY <2>2 DEF PlacesInv, OneEach
  <2>4. {f[w] : w \in BusyLive} = BusyIds
    BY <2>2 DEF BusyIds
  <2> QED
    BY <2>2, <2>3, <2>4, CountByUpdate
<1>5. Len(results) = Cardinality(ResultIds)
  <2>1. results \in Seq(Result) /\ Len(results) \in Nat /\ DOMAIN results = 1..Len(results)
    BY LenProperties DEF TypeOK, LoopTypeOK
  <2>2. \A i \in DOMAIN results : results[i] \in Result /\ results[i].id \in Updates
    <3>1. \A i \in DOMAIN results : results[i] \in Result
      BY <2>1, ElementOfSeq
    <3> QED
      BY <3>1 DEF Result
  <2>3. PICK f : f = [i \in DOMAIN results |-> results[i].id]
    OBVIOUS
  <2>4. f \in [DOMAIN results -> Updates] /\ \A i \in DOMAIN results : f[i] = results[i].id
    BY <2>2, <2>3
  <2>5. \A i, j \in DOMAIN results : f[i] = f[j] => i = j
    BY <2>2, <2>4 DEF PlacesInv, OnceIn
  <2>6. {f[i] : i \in DOMAIN results} = ResultIds
    BY <2>2, <2>4 DEF ResultIds, IdsIn
  <2>7. Cardinality(DOMAIN results) = Cardinality(ResultIds)
    BY <2>4, <2>5, <2>6, CountByUpdate
  <2>8. Cardinality(1..Len(results)) = Len(results)
    <3>1. PICK n \in Nat : n = Len(results)
      BY <2>1
    <3>2. Cardinality(1..n) = n
      BY FS_Interval
    <3> QED
      BY <3>1, <3>2
  <2> QED
    BY <2>1, <2>7, <2>8
<1>6. /\ TaskIds \in SUBSET Updates /\ BusyIds \in SUBSET Updates /\ ResultIds \in SUBSET Updates
      /\ BusyIds \cup TaskIds \in SUBSET Updates
  BY DEF PlacesInv, TypeOK, EntryTypeOK
<1>7. Cardinality(BusyIds \cup TaskIds) = Cardinality(BusyIds) + Cardinality(TaskIds)
  <2>1. BusyIds \cap TaskIds = {}
    BY DEF PlacesInv
  <2> QED
    BY <1>6, <2>1, CountDisjoint
<1>8. Cardinality((BusyIds \cup TaskIds) \cup ResultIds)
        = Cardinality(BusyIds \cup TaskIds) + Cardinality(ResultIds)
  <2>1. (BusyIds \cup TaskIds) \cap ResultIds = {}
    BY DEF PlacesInv
  <2> QED
    BY <1>6, <2>1, CountDisjoint
<1>9. sending = (BusyIds \cup TaskIds) \cup ResultIds
  BY DEF PlacesInv
<1> QED
  BY <1>3, <1>4, <1>5, <1>7, <1>8, <1>9

(* While a loop runs, d.inFlight counts exactly the tasks whose report is  *)
(* still to be consumed, and they fit the buffer: no worker ever blocks on *)
(* a report (webhook_delivery.go:153).                                     *)
THEOREM RoomForReports == Spec => []EveryReportHasRoom
<1>1. TypeOK /\ AccountInv => EveryReportHasRoom
  BY CountPlaces DEF AccountInv, SlotsInv, EveryReportHasRoom
<1>2. IInv => TypeOK
  BY DEF IInv
<1> QED
  BY <1>1, <1>2, InvHolds, AccountHolds, PTL
================================================================================
