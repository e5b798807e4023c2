------------------------- MODULE UpdatePipelineProofs -------------------------
(***************************************************************************)
(* Proofs about UpdatePipeline, for any number of updates, instances,      *)
(* drops and attempts, any sizes of the queues and any faults of Redis.    *)
(***************************************************************************)
EXTENDS UpdatePipeline, WellFoundedInduction, TLAPS

LEMMA PipelineConstants ==
  /\ MaxUpdates \in Nat /\ MaxInstances \in Nat \ {0} /\ MaxDrops \in Nat
  /\ Unsequenced \subseteq Updates /\ Silent \subseteq Updates /\ Poisoned \subseteq Updates
  /\ IntakeMaxItems \in Nat \ {0} /\ GapQueueSize \in Nat \ {0}
  /\ UpdateQueueSize \in Nat \ {0} /\ RetryAttempts \in Nat \ {0}
BY PipelineAssumption DEF PipelineAssumption

USE PipelineConstants DEF Instances, Callers

-----------------------------------------------------------------------------
(* Updates are numbers, so a batch has a first and a last one.             *)
LEMMA Least == ASSUME NEW S, S \subseteq Nat, S # {} PROVE \E u \in S : \A v \in S : u <= v
<1> DEFINE Less == OpToRel(<, Nat)
<1>1. IsWellFoundedOn(Less, Nat)
  BY NatLessThanWellFounded
<1>2. ASSUME NEW u \in Nat, NEW v \in Nat, v < u PROVE <<v, u>> \in Less
  BY <1>2 DEF OpToRel
<1> HIDE DEF Less
<1>3. \E u \in S : \A v \in S : ~(<<v, u>> \in Less)
  BY <1>1, WFMin
<1>4. PICK u \in S : \A v \in S : ~(<<v, u>> \in Less)
  BY <1>3
<1>5. ASSUME NEW v \in S PROVE u <= v
  <2>1. ~(v < u)
    BY <1>2, <1>4
  <2> QED
    BY <2>1
<1> QED
  BY <1>5

LEMMA FirstOfBatch ==
  ASSUME NEW S, S \subseteq Updates, S # {}
  PROVE  First(S) \in S /\ \A v \in S : First(S) <= v
<1>1. S \subseteq Nat
  BY DEF Updates
<1>2. \E u \in S : \A v \in S : u <= v
  BY <1>1, Least
<1> QED
  BY <1>2 DEF First

LEMMA LastOfBatch ==
  ASSUME NEW S, S \subseteq Updates, S # {}
  PROVE  Last(S) \in S /\ \A v \in S : Last(S) >= v
<1>1. PICK N \in Nat : N = MaxUpdates
  OBVIOUS
<1> DEFINE T == {N - u : u \in S}
<1>2. S \subseteq 1..N
  BY <1>1 DEF Updates
<1>3. T \subseteq Nat /\ T # {}
  <2>1. PICK s \in S : TRUE
    OBVIOUS
  <2>2. N - s \in T
    OBVIOUS
  <2>3. \A u \in S : N - u \in Nat
    BY <1>2
  <2> QED
    BY <2>2, <2>3
<1>4. PICK t \in T : \A v \in T : t <= v
  BY <1>3, Least
<1>5. PICK u \in S : t = N - u
  BY <1>4
<1>6. \A v \in S : u >= v
  BY <1>2, <1>4, <1>5
<1> QED
  BY <1>6 DEF Last

-----------------------------------------------------------------------------
(* Types, by the parts of the system.                                      *)
ConnTypes ==
  /\ sent \in 0..MaxUpdates /\ conn \in {"down", "up", "broken", "closing"}
  /\ drops \in 0..MaxDrops /\ arriving \subseteq Updates
InstTypes ==
  /\ inst \in Instances /\ life \in {"up", "cancelled", "stopped", "gone"}
  /\ known \subseteq Instances /\ (life # "up" => inst < MaxInstances)
IntakeTypes ==
  /\ intake \in Seq(Updates) /\ Len(intake) <= IntakeMaxItems /\ wake \in BOOLEAN
  /\ feeder \in {"pop", "items", "busy", "wait", "ended"} /\ items \in Seq(Updates)
  /\ feeder \in {"items", "busy"} => items # <<>>
GapTypes ==
  /\ gap \in BOOLEAN /\ sync \in {"no", "asked", "dead"} /\ pending \subseteq Updates
  /\ gapQueue \in Seq(Updates) /\ Len(gapQueue) <= GapQueueSize
  /\ pts \in 0..MaxUpdates /\ storing \in 0..MaxUpdates
QueueTypes ==
  /\ handing \in [Instances -> [Callers -> SUBSET Updates]]
  /\ channel \in [Instances -> Seq(SUBSET Updates)]
  /\ \A i \in Instances : Len(channel[i]) <= UpdateQueueSize
  /\ quit \in [Instances -> BOOLEAN] /\ due \in [Instances -> SUBSET Updates]
WorkerTypes ==
  /\ worker \in [Instances -> [at : {"wait", "id", "append", "ended"}, batch : SUBSET Updates,
                               uid : Nat, failed : 0..RetryAttempts - 1]]
  /\ \A i \in Instances : worker[i].batch = {} <=> worker[i].at \in {"wait", "ended"}
RedisTypes ==
  /\ nextID \in Nat /\ stream \in Seq([uid : Nat, update : Updates])
  /\ storedPts \in 0..MaxUpdates
LossTypes == lost \subseteq Updates /\ forgotten \subseteq Updates

(* The feeder calls Handle for the item it is busy with, and an instance   *)
(* that is still to come does nothing.                                     *)
FeederInv == handing[inst]["feeder"] # {} => feeder = "busy"
FreshInv == \A i \in Instances : i > inst =>
  /\ \A c \in Callers : handing[i][c] = {}
  /\ channel[i] = <<>> /\ ~quit[i] /\ due[i] = {} /\ worker[i] = Idle /\ i \notin known

TypeInv ==
  /\ ConnTypes /\ InstTypes /\ IntakeTypes /\ GapTypes /\ QueueTypes /\ WorkerTypes
  /\ RedisTypes /\ LossTypes
  /\ FeederInv /\ FreshInv

LEMMA EmptySeq ==
  /\ \A S : <<>> \in Seq(S)
  /\ Len(<<>>) = 0 /\ 0 <= IntakeMaxItems /\ 0 <= GapQueueSize /\ 0 <= UpdateQueueSize
OBVIOUS

LEMMA TypeInit == Init => TypeInv
<1> SUFFICES ASSUME Init PROVE TypeInv
  OBVIOUS
<1>1. ConnTypes /\ InstTypes /\ LossTypes
  BY DEF Init, ConnTypes, InstTypes, LossTypes
<1>5. IntakeTypes
  <2>1. intake = <<>> /\ wake = FALSE /\ feeder = "pop" /\ items = <<>>
    BY DEF Init
  <2> QED
    BY <2>1, EmptySeq DEF IntakeTypes
<1>6. GapTypes
  <2>1. gap = FALSE /\ gapQueue = <<>> /\ pending = {} /\ sync = "no" /\ pts = 0 /\ storing = 0
    BY DEF Init
  <2>2. 0 \in 0..MaxUpdates /\ gapQueue \in Seq(Updates) /\ Len(gapQueue) <= GapQueueSize
    BY <2>1, EmptySeq
  <2> QED
    BY <2>1, <2>2 DEF GapTypes
<1>7. RedisTypes
  BY DEF Init, RedisTypes
<1>2. QueueTypes /\ FeederInv
  BY DEF Init, QueueTypes, FeederInv
<1>3. WorkerTypes
  BY DEF Init, WorkerTypes, Idle
<1>4. FreshInv
  BY DEF Init, FreshInv
<1> QED
  BY <1>1, <1>2, <1>3, <1>4, <1>5, <1>6, <1>7 DEF TypeInv

LEMMA TypesKept ==
  /\ ConnTypes /\ UNCHANGED connVars => ConnTypes'
  /\ InstTypes /\ UNCHANGED instVars => InstTypes'
  /\ IntakeTypes /\ UNCHANGED intakeVars => IntakeTypes'
  /\ GapTypes /\ UNCHANGED gapVars => GapTypes'
  /\ QueueTypes /\ UNCHANGED queueVars => QueueTypes'
  /\ WorkerTypes /\ UNCHANGED worker => WorkerTypes'
  /\ RedisTypes /\ UNCHANGED redisVars => RedisTypes'
  /\ LossTypes /\ UNCHANGED lossVars => LossTypes'
  /\ FeederInv /\ UNCHANGED <<handing, inst, feeder>> => FeederInv'
  /\ FreshInv /\ UNCHANGED <<inst, queueVars, worker, known>> => FreshInv'
BY DEF ConnTypes, connVars, InstTypes, instVars, IntakeTypes, intakeVars, GapTypes, gapVars,
   QueueTypes, queueVars, WorkerTypes, RedisTypes, redisVars, LossTypes, lossVars, FeederInv, FreshInv

LEMMA ConnectionTypes == TypeInv /\ Connection => TypeInv'
<1> SUFFICES ASSUME TypeInv, Connection PROVE TypeInv'
  OBVIOUS
<1> USE DEF TypeInv
<1>1. CASE TelegramSends
  <2>1. ConnTypes'
    <3>1. sent' \in Updates /\ sent' \in 0..MaxUpdates
      BY <1>1 DEF ConnTypes, TelegramSends, Updates
    <3> QED
      BY <1>1, <3>1 DEF ConnTypes, TelegramSends
  <2> QED
    BY <1>1, <2>1, TypesKept DEF TelegramSends, instVars, intakeVars, queueVars
<1>2. CASE Connect \/ Reconnect \/ RunCancelled \/ RunEnds
  <2>1. ConnTypes'
    BY <1>2 DEF Connect, Reconnect, RunCancelled, RunEnds, ConnTypes
  <2> QED
    BY <1>2, <2>1, TypesKept DEF Connect, Reconnect, RunCancelled, RunEnds, instVars, intakeVars, queueVars
<1>3. CASE Authorize
  <2>1. InstTypes' /\ FreshInv'
    <3>1. known' = known \cup {inst} /\ UNCHANGED <<inst, life, queueVars, worker>>
      BY <1>3 DEF Authorize
    <3>2. \A j \in Instances : j > inst => j # inst
      BY DEF InstTypes
    <3>3. FreshInv'
      BY <3>1, <3>2 DEF FreshInv, queueVars
    <3> QED
      BY <3>1, <3>3 DEF InstTypes
  <2> QED
    BY <1>3, <2>1, TypesKept DEF Authorize, intakeVars, queueVars
<1>4. CASE ConnectionBreaks
  <2>1. ConnTypes' /\ GapTypes'
    BY <1>4 DEF ConnectionBreaks, ConnTypes, GapTypes
  <2> QED
    BY <1>4, <2>1, TypesKept DEF ConnectionBreaks, instVars, intakeVars, queueVars
<1>5. ASSUME NEW u \in Updates, Push(u) PROVE TypeInv'
  <2>1. ConnTypes'
    BY <1>5 DEF Push, ConnTypes
  <2>2. IntakeTypes'
    <3>1. /\ Append(intake, u) \in Seq(Updates)
          /\ Len(Append(intake, u)) = Len(intake) + 1 /\ Len(intake) \in Nat
      BY DEF IntakeTypes
    <3>2. CASE Len(intake) >= IntakeMaxItems
      BY <1>5, <3>2 DEF IntakeTypes, Push
    <3>3. CASE ~(Len(intake) >= IntakeMaxItems)
      <4>1. Len(intake) + 1 <= IntakeMaxItems
        BY <3>1, <3>3
      <4>2. intake' = Append(intake, u) /\ wake' = TRUE /\ UNCHANGED <<feeder, items>>
        BY <1>5, <3>3 DEF Push
      <4> QED
        BY <3>1, <4>1, <4>2 DEF IntakeTypes
    <3> QED
      BY <3>2, <3>3
  <2> QED
    BY <1>5, <2>1, <2>2, TypesKept DEF Push, instVars, queueVars
<1> QED
  BY <1>1, <1>2, <1>3, <1>4, <1>5 DEF Connection

(* After an item.                                                          *)
LEMMA NextItemTypes ==
  ASSUME IntakeTypes, NextItem, items # <<>>, UNCHANGED <<intake, wake>>
  PROVE  IntakeTypes' /\ feeder' # "busy"
BY DEF IntakeTypes, NextItem

LEMMA FeederTypes == TypeInv /\ Feeder => TypeInv'
<1> SUFFICES ASSUME TypeInv, Feeder PROVE TypeInv'
  OBVIOUS
<1> USE DEF TypeInv
<1>1. CASE Pop \/ WaitForWake
  <2>1. IntakeTypes'
    <3>1. CASE Pop
      <4>1. intake' = <<>> /\ items' = intake /\ UNCHANGED wake
        BY <3>1 DEF Pop
      <4>2. CASE intake = <<>>
        BY <3>1, <4>1, <4>2, EmptySeq DEF IntakeTypes, Pop
      <4>3. CASE intake # <<>>
        BY <3>1, <4>1, <4>3, EmptySeq DEF IntakeTypes, Pop
      <4> QED
        BY <4>2, <4>3
    <3>2. CASE WaitForWake
      BY <3>2 DEF WaitForWake, IntakeTypes
    <3> QED
      BY <1>1, <3>1, <3>2
  <2>2. FeederInv'
    BY <1>1 DEF Pop, WaitForWake, FeederInv, instVars, queueVars
  <2> QED
    BY <1>1, <2>1, <2>2, TypesKept DEF Pop, WaitForWake, instVars
<1>2. CASE FeedGapManager
  <2>1. items # <<>> /\ NextItem /\ UNCHANGED <<intake, wake>>
    BY <1>2 DEF FeedGapManager, IntakeTypes
  <2>2. IntakeTypes'
    BY <2>1, NextItemTypes
  <2>3. GapTypes'
    <3>1. gapQueue' \in Seq(Updates) /\ Len(gapQueue') <= GapQueueSize
      <4>1. PICK u : u = Head(items)
        OBVIOUS
      <4>2. u \in Updates
        BY <2>1, <4>1 DEF IntakeTypes
      <4>3. /\ Append(gapQueue, u) \in Seq(Updates) /\ Len(Append(gapQueue, u)) = Len(gapQueue) + 1
            /\ Len(gapQueue) \in Nat /\ Len(gapQueue) <= GapQueueSize
        BY <4>2 DEF GapTypes
      <4>4. \/ gapQueue' = gapQueue
            \/ Len(gapQueue) < GapQueueSize /\ gapQueue' = Append(gapQueue, u)
        BY <1>2, <4>1 DEF FeedGapManager
      <4> QED
        BY <4>3, <4>4 DEF GapTypes
    <3>2. UNCHANGED <<gap, sync, pending, pts, storing>>
      BY <1>2 DEF FeedGapManager
    <3> QED
      BY <3>1, <3>2 DEF GapTypes
  <2>4. FeederInv'
    BY <1>2 DEF FeedGapManager, FeederInv, instVars, queueVars
  <2> QED
    BY <1>2, <2>2, <2>3, <2>4, TypesKept DEF FeedGapManager, instVars
<1>3. CASE FeedHandle
  <2>1. items # <<>> /\ Head(items) \in Updates
    BY <1>3 DEF FeedHandle, IntakeTypes
  <2>2. IntakeTypes' /\ QueueTypes' /\ FeederInv'
    BY <1>3, <2>1 DEF FeedHandle, IntakeTypes, QueueTypes, FeederInv, InstTypes
  <2>3. FreshInv'
    <3>1. \A i \in Instances : i > inst => handing'[i] = handing[i]
      BY <1>3 DEF FeedHandle, QueueTypes, InstTypes
    <3> QED
      BY <1>3, <3>1 DEF FeedHandle, FreshInv, InstTypes, instVars
  <2> QED
    BY <1>3, <2>2, <2>3, TypesKept DEF FeedHandle
<1> QED
  BY <1>1, <1>2, <1>3 DEF Feeder

(* What the gap manager hands over reaches Handle of the current instance. *)
LEMMA HandOverTypes ==
  ASSUME TypeInv, NEW batch \in SUBSET Updates, UNCHANGED <<inst, feeder, known, worker>>,
         UNCHANGED <<channel, quit, due>>,
         handing' = [handing EXCEPT ![inst]["gap"] = batch]
  PROVE  QueueTypes' /\ FeederInv' /\ FreshInv'
<1> USE DEF TypeInv, InstTypes
<1>1. QueueTypes' /\ FeederInv'
  BY DEF QueueTypes, FeederInv
<1>2. \A i \in Instances : i > inst => handing'[i] = handing[i]
  BY DEF QueueTypes
<1>3. FreshInv'
  BY <1>2 DEF FreshInv
<1> QED
  BY <1>1, <1>3

Ready(u) == {v \in pending \cup {u} :
               \A w \in Sequenced : pts < w /\ w <= v => w \in pending \cup {u}}

LEMMA GapManagerTypes == TypeInv /\ GapManager => TypeInv'
<1> SUFFICES ASSUME TypeInv, GapManager PROVE TypeInv'
  OBVIOUS
<1> USE DEF TypeInv
<1>1. ASSUME UNCHANGED <<connVars, instVars, intakeVars, worker, nextID, stream, lossVars>>,
             GapTypes', storedPts' \in 0..MaxUpdates, QueueTypes' /\ FeederInv' /\ FreshInv'
      PROVE  TypeInv'
  <2>1. RedisTypes'
    BY <1>1 DEF RedisTypes
  <2> QED
    BY <1>1, <2>1, TypesKept
<1>2. ASSUME UNCHANGED <<inst, feeder, known, worker, queueVars>>
      PROVE  QueueTypes' /\ FeederInv' /\ FreshInv'
  BY <1>2, TypesKept DEF queueVars
<1>3. storedPts \in 0..MaxUpdates
  BY DEF RedisTypes
<1>4. CASE GapStarts \/ GapTimesOut \/ DifferenceFails \/ GapEnds
  <2>1. GapTypes'
    <3>1. CASE GapStarts
      <4>1. 0 \in 0..MaxUpdates /\ gapQueue' \in Seq(Updates) /\ Len(gapQueue') <= GapQueueSize
        BY <3>1, EmptySeq DEF GapStarts
      <4> QED
        BY <1>3, <3>1, <4>1 DEF GapStarts, GapTypes
    <3>2. CASE GapEnds
      <4>1. gapQueue' \in Seq(Updates) /\ Len(gapQueue') <= GapQueueSize
        BY <3>2, EmptySeq DEF GapEnds
      <4> QED
        BY <3>2, <4>1 DEF GapEnds, GapTypes
    <3>3. CASE GapTimesOut \/ DifferenceFails
      BY <3>3 DEF GapTimesOut, DifferenceFails, GapTypes
    <3> QED
      BY <1>4, <3>1, <3>2, <3>3
  <2> QED
    BY <1>1, <1>2, <1>3, <1>4, <2>1
       DEF GapStarts, GapTimesOut, DifferenceFails, GapEnds, instVars, intakeVars, redisVars
<1>5. CASE GapReceives
  <2>1. PICK u \in Updates : u = Head(gapQueue)
    BY <1>5 DEF GapReceives, GapTypes
  <2>2. gapQueue' \in Seq(Updates) /\ Len(gapQueue') <= GapQueueSize
        /\ UNCHANGED <<gap, pts, sync>>
    BY <1>5 DEF GapReceives, GapTypes
  <2>3. Ready(u) \subseteq Updates
    BY DEF Ready, GapTypes
  <2>4. UNCHANGED <<connVars, instVars, intakeVars, worker, redisVars, lossVars>>
    BY <1>5 DEF GapReceives
  <2>5. ASSUME pending' \subseteq Updates, storing' \in 0..MaxUpdates PROVE GapTypes'
    BY <2>2, <2>5 DEF GapTypes
  <2>6. CASE HandOver({u}, 0) /\ UNCHANGED pending
    <3>1. 0 \in 0..MaxUpdates /\ {u} \in SUBSET Updates
      OBVIOUS
    <3>2. GapTypes'
      BY <2>5, <2>6, <3>1 DEF HandOver, GapTypes
    <3>3. QueueTypes' /\ FeederInv' /\ FreshInv'
      BY <2>4, <2>6, <3>1, HandOverTypes DEF HandOver, instVars, intakeVars
    <3> QED
      BY <1>1, <1>3, <2>4, <3>2, <3>3 DEF redisVars
  <2>7. CASE UNCHANGED <<storing, queueVars>> /\ pending' \in {pending, pending \cup {u}}
    BY <1>1, <1>2, <1>3, <2>4, <2>5, <2>7 DEF GapTypes, instVars, intakeVars, redisVars
  <2>8. CASE u \in Ready(u) /\ HandOver(Ready(u), Last(Ready(u))) /\ pending' = pending \ Ready(u)
    <3>1. Last(Ready(u)) \in 0..MaxUpdates
      <4>1. Last(Ready(u)) \in Updates
        BY <2>3, <2>8, LastOfBatch
      <4> QED
        BY <4>1 DEF Updates
    <3> QED
      BY <1>1, <1>3, <2>3, <2>4, <2>5, <2>8, <3>1, HandOverTypes
         DEF HandOver, GapTypes, instVars, intakeVars, redisVars
  <2> QED
    BY <1>5, <2>1, <2>6, <2>7, <2>8 DEF GapReceives, Ready
<1>6. CASE DifferenceArrives
  <2>1. UNCHANGED <<connVars, instVars, intakeVars, gap, gapQueue, pts, worker, redisVars, lossVars>>
    BY <1>6 DEF DifferenceArrives
  <2>2. CASE sync' = "no" /\ UNCHANGED <<pending, storing, queueVars>>
    <3>1. GapTypes'
      BY <2>1, <2>2 DEF GapTypes
    <3> QED
      BY <1>1, <1>2, <1>3, <2>1, <2>2, <3>1 DEF instVars, intakeVars, redisVars
  <2>3. ASSUME NEW last \in Missing, HandOver({u \in Missing : u <= last}, last),
               pending' = {u \in pending : u > last}, sync' \in {"no", "asked"}
        PROVE  TypeInv'
    <3>1. Missing \subseteq Updates
      BY DEF Missing, Sequenced
    <3>2. GapTypes'
      BY <2>1, <2>3, <3>1 DEF GapTypes, HandOver, Updates
    <3>3. QueueTypes' /\ FeederInv' /\ FreshInv'
      BY <2>1, <2>3, <3>1, HandOverTypes DEF HandOver, instVars, intakeVars
    <3> QED
      BY <1>1, <1>3, <2>1, <3>2, <3>3 DEF redisVars
  <2> QED
    BY <1>6, <2>2, <2>3 DEF DifferenceArrives
<1>7. CASE GapStores
  <2>1. GapTypes' /\ storedPts' \in 0..MaxUpdates
    BY <1>3, <1>7 DEF GapStores, GapTypes
  <2> QED
    BY <1>1, <1>2, <1>7, <2>1 DEF GapStores, instVars, intakeVars
<1>8. CASE GapFlushes
  <2>1. pending \subseteq Updates /\ pending # {}
    BY <1>8 DEF GapFlushes, GapTypes
  <2>2. Last(pending) \in Updates
    BY <2>1, LastOfBatch
  <2>3. GapTypes'
    BY <1>8, <2>2 DEF GapFlushes, HandOver, GapTypes, Updates
  <2>4. QueueTypes' /\ FeederInv' /\ FreshInv'
    BY <1>8, <2>1, HandOverTypes DEF GapFlushes, HandOver, instVars, intakeVars
  <2> QED
    BY <1>1, <1>3, <1>8, <2>3, <2>4 DEF GapFlushes, redisVars
<1>9. CASE DifferenceTooLong
  <2>1. PICK last \in Missing : /\ lost' = lost \cup {u \in Missing : u <= last}
                                /\ pending' = {u \in pending : u > last}
                                /\ pts' = last /\ storedPts' = last
    BY <1>9 DEF DifferenceTooLong
  <2>2. Missing \subseteq Updates /\ last \in 0..MaxUpdates
    BY <2>1 DEF Missing, Sequenced, Updates
  <2>3. GapTypes'
    BY <1>9, <2>1, <2>2 DEF DifferenceTooLong, GapTypes
  <2>4. RedisTypes' /\ LossTypes'
    BY <1>9, <2>1, <2>2 DEF DifferenceTooLong, RedisTypes, LossTypes
  <2> QED
    BY <1>2, <1>9, <2>3, <2>4, TypesKept DEF DifferenceTooLong, instVars, intakeVars
<1> QED
  BY <1>4, <1>5, <1>6, <1>7, <1>8, <1>9 DEF GapManager

LEMMA HandleTypes ==
  ASSUME TypeInv, NEW i \in Instances, NEW c \in Callers, HandleCall(i, c)
  PROVE  TypeInv'
<1> USE DEF TypeInv
<1>1. handing[i][c] # {} /\ handing[i][c] \in SUBSET Updates
      /\ handing' = [handing EXCEPT ![i][c] = {}] /\ CallerReturns(i, c)
      /\ UNCHANGED <<connVars, instVars, intake, wake, gapVars, quit, due, worker, redisVars, lossVars>>
  BY DEF HandleCall, HandleEnqueues, HandleGivesUp, QueueTypes
<1>2. i <= inst
  BY <1>1 DEF FreshInv, InstTypes
<1>3. IntakeTypes' /\ FeederInv'
  <2>1. handing'[inst]["feeder"] = IF i = inst /\ c = "feeder" THEN {} ELSE handing[inst]["feeder"]
    BY <1>1 DEF QueueTypes, InstTypes
  <2>2. CASE c = "feeder" /\ i = inst
    <3>1. items # <<>> /\ NextItem
      BY <1>1, <2>2 DEF FeederInv, IntakeTypes, CallerReturns
    <3> QED
      BY <1>1, <2>1, <2>2, <3>1, NextItemTypes DEF FeederInv, instVars
  <2>3. CASE ~(c = "feeder" /\ i = inst)
    BY <1>1, <2>1, <2>3 DEF CallerReturns, IntakeTypes, FeederInv, instVars
  <2> QED
    BY <2>2, <2>3
<1>4. QueueTypes'
  <2>1. handing' \in [Instances -> [Callers -> SUBSET Updates]]
    BY <1>1 DEF QueueTypes
  <2>2. CASE HandleGivesUp(i, c)
    BY <1>1, <2>1, <2>2 DEF HandleGivesUp, QueueTypes
  <2>3. CASE HandleEnqueues(i, c)
    <3>1. PICK longer : longer = Append(channel[i], handing[i][c])
      OBVIOUS
    <3>2. longer \in Seq(SUBSET Updates) /\ Len(longer) <= UpdateQueueSize
      BY <1>1, <2>3, <3>1 DEF HandleEnqueues, QueueTypes
    <3>3. channel' = [channel EXCEPT ![i] = longer]
      BY <2>3, <3>1 DEF HandleEnqueues
    <3> QED
      BY <1>1, <2>1, <3>2, <3>3 DEF QueueTypes
  <2> QED
    BY <2>2, <2>3 DEF HandleCall
<1>5. FreshInv'
  <2>1. \A j \in Instances : j > inst => j # i
    BY <1>2 DEF InstTypes
  <2>2. \A j \in Instances : j > inst => handing'[j] = handing[j] /\ channel'[j] = channel[j]
    BY <1>1, <2>1 DEF HandleCall, HandleEnqueues, HandleGivesUp, QueueTypes
  <2> QED
    BY <1>1, <2>2 DEF FreshInv, instVars
<1> QED
  BY <1>1, <1>3, <1>4, <1>5, TypesKept

LEMMA ProceedTypes ==
  ASSUME WorkerTypes, NEW i \in Instances, NEW batch \in SUBSET Updates, Proceed(i, batch)
  PROVE  WorkerTypes' /\ (\A j \in Instances \ {i} : worker'[j] = worker[j])
         /\ worker'[i].batch = batch /\ worker'[i].at \in {"wait", "id"}
<1>1. 0 \in 0..RetryAttempts - 1
  OBVIOUS
<1>2. PICK next : next = IF batch = {} THEN Idle
                         ELSE [at |-> "id", batch |-> batch, uid |-> 0, failed |-> 0]
  OBVIOUS
<1>3. /\ next \in [at : {"wait", "id", "append", "ended"}, batch : SUBSET Updates,
                   uid : Nat, failed : 0..RetryAttempts - 1]
      /\ next.batch = {} <=> next.at \in {"wait", "ended"}
      /\ next.batch = batch /\ next.at \in {"wait", "id"}
  BY <1>1, <1>2 DEF Idle
<1>4. worker' = [worker EXCEPT ![i] = next]
  BY <1>2 DEF Proceed
<1> QED
  BY <1>3, <1>4 DEF WorkerTypes

LEMMA AttemptFailsTypes ==
  ASSUME WorkerTypes, LossTypes, NEW i \in Instances, worker[i].batch # {}, AttemptFails(i),
         UNCHANGED forgotten
  PROVE  /\ WorkerTypes' /\ LossTypes' /\ \A j \in Instances \ {i} : worker'[j] = worker[j]
         /\ \/ UNCHANGED lost /\ worker'[i] = [worker[i] EXCEPT !.failed = @ + 1]
            \/ /\ First(worker[i].batch) \in worker[i].batch
               /\ lost' = lost \cup {First(worker[i].batch)}
               /\ Proceed(i, worker[i].batch \ {First(worker[i].batch)})
<1>1. worker[i].batch \subseteq Updates /\ worker[i].failed \in 0..RetryAttempts - 1
  BY DEF WorkerTypes
<1>2. First(worker[i].batch) \in worker[i].batch
  BY <1>1, FirstOfBatch
<1>3. CASE worker[i].failed + 1 < RetryAttempts
  <2>1. worker' = [worker EXCEPT ![i].failed = @ + 1] /\ UNCHANGED lost
    BY <1>3 DEF AttemptFails
  <2>2. worker[i].failed + 1 \in 0..RetryAttempts - 1
    BY <1>1, <1>3
  <2> QED
    BY <2>1, <2>2 DEF WorkerTypes, LossTypes
<1>4. CASE ~(worker[i].failed + 1 < RetryAttempts)
  <2>1. /\ Proceed(i, worker[i].batch \ {First(worker[i].batch)})
        /\ lost' = lost \cup {First(worker[i].batch)}
    BY <1>4 DEF AttemptFails
  <2>2. worker[i].batch \ {First(worker[i].batch)} \in SUBSET Updates
    BY <1>1
  <2> QED
    BY <1>1, <1>2, <2>1, <2>2, ProceedTypes DEF LossTypes
<1> QED
  BY <1>3, <1>4

LEMMA WorkerStepTypes ==
  ASSUME TypeInv, NEW i \in Instances, UpdateWorker(i)
  PROVE  TypeInv' /\ i <= inst /\ \A j \in Instances \ {i} : worker'[j] = worker[j]
<1> USE DEF TypeInv
<1>1. i <= inst
  <2>1. channel[i] # <<>> \/ quit[i] \/ worker[i].at # "wait"
    BY DEF UpdateWorker, TakeBatch, AllocateID, AppendUpdate, WorkerReturns
  <2>2. Idle.at = "wait"
    BY DEF Idle
  <2>3. ~(i > inst)
    BY <2>1, <2>2 DEF FreshInv
  <2> QED
    BY <2>3 DEF InstTypes
<1>2. UNCHANGED <<connVars, instVars, intakeVars, gapVars, handing, quit, due, storedPts, forgotten>>
  BY DEF UpdateWorker, TakeBatch, AllocateID, AppendUpdate, WorkerReturns, queueVars, redisVars, lossVars
<1>3. FeederInv'
  BY <1>2 DEF FeederInv, instVars, intakeVars
<1>4. ASSUME WorkerTypes', \A j \in Instances \ {i} : worker'[j] = worker[j], RedisTypes', LossTypes',
             QueueTypes', \A j \in Instances \ {i} : channel'[j] = channel[j]
      PROVE  TypeInv'
  <2>1. FreshInv'
    BY <1>1, <1>2, <1>4 DEF FreshInv, InstTypes, instVars
  <2> QED
    BY <1>2, <1>3, <1>4, <2>1, TypesKept
<1>5. CASE TakeBatch(i)
  <2>1. PICK batch : batch = Head(channel[i])
    OBVIOUS
  <2>2. channel[i] \in Seq(SUBSET Updates) /\ channel[i] # <<>>
    BY <1>5 DEF TakeBatch, QueueTypes
  <2>3. batch \subseteq Updates /\ Tail(channel[i]) \in Seq(SUBSET Updates)
        /\ Len(Tail(channel[i])) <= UpdateQueueSize
    BY <2>1, <2>2 DEF QueueTypes
  <2>4. channel' = [channel EXCEPT ![i] = Tail(channel[i])] /\ UNCHANGED <<nextID, stream>>
    BY <1>5 DEF TakeBatch, redisVars
  <2>5. QueueTypes' /\ \A j \in Instances \ {i} : channel'[j] = channel[j]
    BY <1>2, <2>3, <2>4 DEF QueueTypes
  <2>6. WorkerTypes' /\ LossTypes' /\ \A j \in Instances \ {i} : worker'[j] = worker[j]
    <3>1. CASE UNCHANGED worker /\ lost' \in {lost, lost \cup batch}
      BY <1>2, <2>3, <3>1, TypesKept DEF LossTypes
    <3>2. CASE Proceed(i, batch \ Silent) /\ UNCHANGED lost
      BY <1>2, <2>3, <3>2, ProceedTypes DEF LossTypes
    <3> QED
      BY <1>5, <2>1, <3>1, <3>2 DEF TakeBatch
  <2> QED
    BY <1>1, <1>2, <1>4, <2>4, <2>5, <2>6 DEF RedisTypes
<1>6. CASE AllocateID(i)
  <2>1. worker[i].batch # {} /\ UNCHANGED <<queueVars, stream>> /\ nextID' \in Nat
    <3>1. nextID \in Nat /\ (nextID' = nextID \/ nextID' = nextID + 1)
      BY <1>6 DEF AllocateID, RedisTypes
    <3>2. worker[i].at = "id" /\ worker[i].batch # {} /\ UNCHANGED <<queueVars, stream>>
      BY <1>6 DEF AllocateID, WorkerTypes
    <3> QED
      BY <3>1, <3>2
  <2>2. RedisTypes' /\ QueueTypes' /\ UNCHANGED channel
    BY <1>2, <2>1, TypesKept DEF RedisTypes, queueVars
  <2>3. CASE AttemptFails(i)
    BY <1>1, <1>2, <1>4, <2>1, <2>2, <2>3, AttemptFailsTypes
  <2>4. CASE /\ worker' = [worker EXCEPT ![i].at = "append", ![i].uid = nextID', ![i].failed = 0]
             /\ UNCHANGED lost
    <3>0. worker \in [Instances -> [at : {"wait", "id", "append", "ended"}, batch : SUBSET Updates,
                                    uid : Nat, failed : 0..RetryAttempts - 1]]
      BY DEF WorkerTypes
    <3>1. /\ worker'[i] = [worker[i] EXCEPT !.at = "append", !.uid = nextID', !.failed = 0]
          /\ worker' = [j \in Instances |-> worker'[j]]
          /\ \A j \in Instances \ {i} : worker'[j] = worker[j]
      <4>1. PICK uid : uid = nextID'
        OBVIOUS
      <4>2. worker' = [worker EXCEPT ![i].at = "append", ![i].uid = uid, ![i].failed = 0]
        BY <2>4, <4>1
      <4>3. PICK next : next = [worker[i] EXCEPT !.at = "append", !.uid = uid, !.failed = 0]
        OBVIOUS
      <4>4. worker' = [worker EXCEPT ![i] = next]
        BY <4>2, <4>3, <3>0
      <4>5. /\ worker'[i] = next /\ worker' = [j \in Instances |-> worker'[j]]
            /\ \A j \in Instances \ {i} : worker'[j] = worker[j]
        BY <3>0, <4>4
      <4> QED
        BY <4>1, <4>3, <4>5
    <3>2. PICK k, id : k = worker[i] /\ id = nextID' /\ id \in Nat /\ k.batch # {}
      BY <2>1
    <3>3. k \in [at : {"wait", "id", "append", "ended"}, batch : SUBSET Updates,
                 uid : Nat, failed : 0..RetryAttempts - 1] /\ 0 \in 0..RetryAttempts - 1
      BY <3>2 DEF WorkerTypes
    <3>4. worker'[i] = [k EXCEPT !.at = "append", !.uid = id, !.failed = 0]
      BY <3>1, <3>2
    <3>5. /\ worker'[i] \in [at : {"wait", "id", "append", "ended"}, batch : SUBSET Updates,
                             uid : Nat, failed : 0..RetryAttempts - 1]
          /\ worker'[i].batch # {} /\ worker'[i].at = "append"
      <4>1. PICK k1 : k1 = [k EXCEPT !.at = "append"]
        OBVIOUS
      <4>2. /\ k1 \in [at : {"wait", "id", "append", "ended"}, batch : SUBSET Updates,
                       uid : Nat, failed : 0..RetryAttempts - 1]
            /\ k1.at = "append" /\ k1.batch = k.batch
        BY <3>3, <4>1
      <4>3. PICK k2 : k2 = [k1 EXCEPT !.uid = id]
        OBVIOUS
      <4>4. /\ k2 \in [at : {"wait", "id", "append", "ended"}, batch : SUBSET Updates,
                       uid : Nat, failed : 0..RetryAttempts - 1]
            /\ k2.at = "append" /\ k2.batch = k.batch
        BY <3>2, <4>2, <4>3
      <4>5. worker'[i] = [k2 EXCEPT !.failed = 0]
        BY <3>4, <4>1, <4>3
      <4> QED
        BY <3>2, <3>3, <4>4, <4>5
    <3>6. WorkerTypes'
      <4>1. \A j \in Instances : worker'[j] \in [at : {"wait", "id", "append", "ended"}, batch : SUBSET Updates,
                                                 uid : Nat, failed : 0..RetryAttempts - 1]
        BY <3>0, <3>1, <3>5
      <4>2. \A j \in Instances : worker'[j].batch = {} <=> worker'[j].at \in {"wait", "ended"}
        BY <3>1, <3>5 DEF WorkerTypes
      <4>3. worker' \in [Instances -> [at : {"wait", "id", "append", "ended"}, batch : SUBSET Updates,
                                       uid : Nat, failed : 0..RetryAttempts - 1]]
        BY <3>1, <4>1
      <4> QED
        BY <4>2, <4>3 DEF WorkerTypes
    <3>7. LossTypes'
      BY <1>2, <1>6, <2>4 DEF LossTypes, AllocateID, lossVars
    <3> QED
      BY <1>1, <1>4, <2>2, <3>1, <3>6, <3>7
  <2> QED
    BY <1>6, <2>3, <2>4 DEF AllocateID
<1>7. CASE AppendUpdate(i)
  <2>1. PICK u : u = First(worker[i].batch)
    OBVIOUS
  <2>2. worker[i].batch # {} /\ worker[i].batch \subseteq Updates /\ worker[i].uid \in Nat
        /\ UNCHANGED <<queueVars, nextID>>
    BY <1>7 DEF AppendUpdate, WorkerTypes
  <2>3. u \in worker[i].batch
    BY <2>1, <2>2, FirstOfBatch
  <2>4. Append(stream, [uid |-> worker[i].uid, update |-> u]) \in Seq([uid : Nat, update : Updates])
    BY <2>2, <2>3 DEF RedisTypes
  <2>5. RedisTypes' /\ QueueTypes' /\ UNCHANGED channel
    BY <1>2, <1>7, <2>1, <2>2, <2>4, TypesKept DEF AppendUpdate, RedisTypes, queueVars
  <2>6. CASE AttemptFails(i)
    BY <1>1, <1>2, <1>4, <2>2, <2>5, <2>6, AttemptFailsTypes
  <2>7. CASE Proceed(i, worker[i].batch \ {u}) /\ UNCHANGED lost
    <3>1. LossTypes'
      BY <1>2, <2>7 DEF LossTypes
    <3>2. WorkerTypes' /\ \A j \in Instances \ {i} : worker'[j] = worker[j]
      BY <2>2, <2>7, ProceedTypes
    <3> QED
      BY <1>1, <1>4, <2>5, <3>1, <3>2
  <2> QED
    BY <1>7, <2>1, <2>6, <2>7 DEF AppendUpdate
<1>8. CASE WorkerReturns(i)
  <2>1. WorkerTypes' /\ \A j \in Instances \ {i} : worker'[j] = worker[j]
    BY <1>8 DEF WorkerReturns, WorkerTypes
  <2> QED
    BY <1>1, <1>4, <1>8, <2>1, TypesKept DEF WorkerReturns, queueVars
<1> QED
  BY <1>5, <1>6, <1>7, <1>8 DEF UpdateWorker

LEMMA WayTypes ==
  ASSUME TypeInv, NEW i \in Instances
  PROVE  OnItsWay(i) \subseteq Updates
<1>1. channel[i] \in Seq(SUBSET Updates) /\ worker[i].batch \subseteq Updates
  BY DEF TypeInv, QueueTypes, WorkerTypes
<1>2. \A k \in DOMAIN channel[i] : channel[i][k] \subseteq Updates
  BY <1>1
<1>3. UNION SetOf(channel[i]) \subseteq Updates
  BY <1>2 DEF SetOf
<1> QED
  BY <1>1, <1>3 DEF OnItsWay

LEMMA ProcessTypes == TypeInv /\ Process => TypeInv'
<1> SUFFICES ASSUME TypeInv, Process PROVE TypeInv'
  OBVIOUS
<1> USE DEF TypeInv
<1>1. CASE StopCancels
  <2>1. ConnTypes' /\ InstTypes' /\ UNCHANGED <<inst, known>>
    BY <1>1 DEF StopCancels, ConnTypes, InstTypes
  <2> QED
    BY <1>1, <2>1, TypesKept DEF StopCancels, intakeVars, queueVars
<1>2. CASE StopQuits
  <2>1. OnItsWay(inst) \subseteq Updates
    BY WayTypes DEF InstTypes
  <2>2. InstTypes' /\ UNCHANGED <<inst, known>>
    BY <1>2 DEF StopQuits, InstTypes
  <2>3. QueueTypes'
    BY <1>2, <2>1 DEF StopQuits, QueueTypes, InstTypes
  <2>4. FreshInv'
    <3>1. \A j \in Instances : j > inst => quit'[j] = quit[j] /\ due'[j] = due[j]
      <4>1. ASSUME NEW j \in Instances, j > inst PROVE quit'[j] = quit[j] /\ due'[j] = due[j]
        <5>1. j # inst
          BY <4>1 DEF InstTypes
        <5> QED
          BY <1>2, <5>1 DEF StopQuits, QueueTypes
      <4> QED
        BY <4>1
    <3> QED
      BY <1>2, <3>1 DEF StopQuits, FreshInv
  <2> QED
    BY <1>2, <2>2, <2>3, <2>4, TypesKept DEF StopQuits, intakeVars
<1>3. ASSUME NewInstance, life # "up", UNCHANGED <<sent, drops, known>>
      PROVE  ConnTypes' /\ InstTypes' /\ IntakeTypes' /\ GapTypes'
  <2>1. inst + 1 \in Instances /\ 0 \in 0..MaxUpdates
    BY <1>3 DEF InstTypes
  <2>2. ConnTypes' /\ InstTypes'
    BY <1>3, <2>1 DEF NewInstance, ConnTypes, InstTypes
  <2>3. IntakeTypes'
    <3>1. intake' = <<>> /\ wake' = FALSE /\ feeder' = "pop" /\ items' = <<>>
      BY <1>3 DEF NewInstance
    <3> QED
      BY <3>1, EmptySeq DEF IntakeTypes
  <2>4. GapTypes'
    <3>1. gap' = FALSE /\ gapQueue' = <<>> /\ pending' = {} /\ sync' = "no" /\ pts' = 0 /\ storing' = 0
      BY <1>3 DEF NewInstance
    <3>2. gapQueue' \in Seq(Updates) /\ Len(gapQueue') <= GapQueueSize
      BY <3>1, EmptySeq
    <3> QED
      BY <2>1, <3>1, <3>2 DEF GapTypes
  <2> QED
    BY <2>2, <2>3, <2>4
<1>4. CASE RestartBot \/ StartProcess
  <2>1. NewInstance /\ life # "up" /\ UNCHANGED <<sent, drops, known, channel, quit, due, worker, redisVars, lossVars>>
    BY <1>4 DEF RestartBot, StartProcess, queueVars
  <2>2. PICK n \in Instances : n = inst /\ n < MaxInstances /\ inst' = n + 1
    BY <2>1 DEF InstTypes, NewInstance
  <2>3. handing' \in {handing, [handing EXCEPT ![n]["gap"] = pending]}
    BY <1>4, <2>2 DEF RestartBot, StartProcess, queueVars
  <2>4. QueueTypes'
    <3>1. handing' \in [Instances -> [Callers -> SUBSET Updates]]
      <4>1. pending \in SUBSET Updates
        BY DEF GapTypes
      <4>2. CASE handing' = [handing EXCEPT ![n]["gap"] = pending]
        BY <4>1, <4>2 DEF QueueTypes
      <4> QED
        BY <2>3, <4>2 DEF QueueTypes
    <3> QED
      BY <2>1, <3>1 DEF QueueTypes
  <2>5. \A j \in Instances : j > n => handing'[j] = handing[j]
    BY <2>3 DEF QueueTypes
  <2>6. FeederInv' /\ FreshInv'
    <3>1. n + 1 \in Instances /\ n + 1 > n
      BY <2>2
    <3>2. handing'[n + 1]["feeder"] = {}
      BY <2>2, <2>5, <3>1 DEF FreshInv
    <3>3. FeederInv'
      BY <2>2, <3>2 DEF FeederInv
    <3>4. \A j \in Instances : j > n + 1 => j > n
      OBVIOUS
    <3>5. FreshInv'
      BY <2>1, <2>2, <2>5, <3>4 DEF FreshInv
    <3> QED
      BY <3>3, <3>5
  <2> QED
    BY <1>3, <2>1, <2>4, <2>6, TypesKept
<1>5. CASE ProcessEnds
  <2>1. /\ UNCHANGED <<sent, drops, inst, redisVars, lost>> /\ life' = "gone" /\ life = "stopped"
        /\ conn' = "down" /\ arriving' = {} /\ known' = {}
    BY <1>5 DEF ProcessEnds
  <2>2. ConnTypes' /\ InstTypes'
    BY <2>1 DEF ConnTypes, InstTypes
  <2>3. IntakeTypes'
    <3>1. intake' = <<>> /\ wake' = FALSE /\ feeder' = "ended" /\ items' = <<>>
      BY <1>5 DEF ProcessEnds
    <3> QED
      BY <3>1, EmptySeq DEF IntakeTypes
  <2>4. GapTypes'
    <3>1. gap' = FALSE /\ gapQueue' = <<>> /\ pending' = {} /\ sync' = "no" /\ pts' = 0 /\ storing' = 0
      BY <1>5 DEF ProcessEnds
    <3>2. 0 \in 0..MaxUpdates /\ gapQueue' \in Seq(Updates) /\ Len(gapQueue') <= GapQueueSize
      BY <3>1, EmptySeq
    <3> QED
      BY <3>1, <3>2 DEF GapTypes
  <2>5. QueueTypes'
    <3>1. /\ handing' = [i \in Instances |-> [c \in Callers |-> {}]]
          /\ channel' = [i \in Instances |-> <<>>]
          /\ due' = [i \in Instances |-> {}] /\ quit' = [i \in Instances |-> FALSE]
      BY <1>5 DEF ProcessEnds
    <3>2. channel' \in [Instances -> Seq(SUBSET Updates)]
      BY <3>1, EmptySeq
    <3>3. \A i \in Instances : Len(channel'[i]) <= UpdateQueueSize
      BY <3>1, EmptySeq
    <3>4. handing' \in [Instances -> [Callers -> SUBSET Updates]]
      BY <3>1
    <3>5. quit' \in [Instances -> BOOLEAN] /\ due' \in [Instances -> SUBSET Updates]
      BY <3>1
    <3> QED
      BY <3>2, <3>3, <3>4, <3>5 DEF QueueTypes
  <2>6. WorkerTypes'
    <3>1. Idle \in [at : {"wait", "id", "append", "ended"}, batch : SUBSET Updates,
                    uid : Nat, failed : 0..RetryAttempts - 1]
          /\ Idle.batch = {} /\ Idle.at = "wait"
      BY DEF Idle
    <3>2. worker' = [i \in Instances |-> Idle]
      BY <1>5 DEF ProcessEnds
    <3> QED
      BY <3>1, <3>2 DEF WorkerTypes
  <2>7. LossTypes'
    <3>1. ASSUME NEW i \in Instances PROVE OnItsWay(i) \subseteq Updates
      BY WayTypes
    <3> QED
      BY <1>5, <3>1 DEF ProcessEnds, LossTypes
  <2>8. FeederInv' /\ FreshInv'
    BY <1>5, <2>1 DEF ProcessEnds, FeederInv, FreshInv, InstTypes
  <2> QED
    BY <2>1, <2>2, <2>3, <2>4, <2>5, <2>6, <2>7, <2>8, TypesKept
<1> QED
  BY <1>1, <1>2, <1>4, <1>5 DEF Process

LEMMA TypeStep == TypeInv /\ [Next]_vars => TypeInv'
<1>1. TypeInv /\ UNCHANGED vars => TypeInv'
  BY TypesKept DEF TypeInv, vars, connVars, instVars, intakeVars, gapVars, queueVars
<1> QED
  BY <1>1, ConnectionTypes, FeederTypes, GapManagerTypes, HandleTypes, WorkerStepTypes, ProcessTypes
     DEF Next

(* The pipeline keeps to its types and to the sizes of its queues.         *)
THEOREM PipelineTypes == Spec => []TypeOK
<1>1. TypeInv => TypeOK
  BY DEF TypeInv, TypeOK, ConnTypes, InstTypes, IntakeTypes, GapTypes, QueueTypes, WorkerTypes,
     RedisTypes, LossTypes
<1> QED
  BY <1>1, TypeInit, TypeStep, PTL DEF Spec

-----------------------------------------------------------------------------
(* What is not a step of an update worker leaves the stream alone, and the *)
(* workers but for the end of the process; what is lost stays lost.        *)
LEMMA OtherSteps ==
  ASSUME \/ Connection \/ Feeder \/ GapManager \/ Process \/ UNCHANGED vars
         \/ \E i \in Instances, c \in Callers : HandleCall(i, c)
  PROVE  /\ UNCHANGED <<nextID, stream>> /\ lost \subseteq lost'
         /\ UNCHANGED <<worker, forgotten>> \/ ProcessEnds
<1> USE DEF redisVars, lossVars
<1>1. CASE Connection
  BY <1>1 DEF Connection, TelegramSends, Connect, Authorize, ConnectionBreaks, Reconnect, RunCancelled,
     RunEnds, Push
<1>2. CASE Feeder
  BY <1>2 DEF Feeder, Pop, WaitForWake, FeedGapManager, FeedHandle
<1>3. CASE GapManager
  BY <1>3 DEF GapManager, GapStarts, GapReceives, GapTimesOut, DifferenceArrives, DifferenceTooLong,
     DifferenceFails, GapStores, GapFlushes, GapEnds
<1>4. CASE Process
  BY <1>4 DEF Process, StopCancels, StopQuits, RestartBot, ProcessEnds, StartProcess
<1>5. CASE UNCHANGED vars
  BY <1>5 DEF vars
<1>6. ASSUME NEW i \in Instances, NEW c \in Callers, HandleCall(i, c)
      PROVE  UNCHANGED <<nextID, stream, lost, worker, forgotten>>
  BY <1>6 DEF HandleCall, HandleEnqueues, HandleGivesUp
<1> QED
  BY <1>1, <1>2, <1>3, <1>4, <1>5, <1>6

-----------------------------------------------------------------------------
(* update_ids.  A worker that is about to append holds an ID nobody else   *)
(* holds, and only its own update can be in the stream with it.            *)
HoldsID(i) == worker[i].at = "append"

IdsInv ==
  /\ \A k \in DOMAIN stream : stream[k].uid <= nextID
  /\ \A i \in Instances : HoldsID(i) =>
       /\ worker[i].uid <= nextID
       /\ \A k \in DOMAIN stream :
            stream[k].uid = worker[i].uid => stream[k].update = First(worker[i].batch)
  /\ \A i, j \in Instances : HoldsID(i) /\ HoldsID(j) /\ i # j => worker[i].uid # worker[j].uid
  /\ IDsAreUnique

LEMMA IdsInit == Init => IdsInv
BY DEF Init, IdsInv, HoldsID, Idle, IDsAreUnique

LEMMA Elements == ASSUME NEW S, NEW s \in Seq(S) PROVE \A k \in DOMAIN s : s[k] \in S
OBVIOUS

LEMMA EntryTypes ==
  ASSUME TypeInv PROVE \A k \in DOMAIN stream : stream[k].uid \in Nat /\ stream[k].update \in Updates
<1>1. stream \in Seq([uid : Nat, update : Updates])
  BY DEF TypeInv, RedisTypes
<1>2. \A k \in DOMAIN stream : stream[k] \in [uid : Nat, update : Updates]
  BY <1>1, Elements
<1> QED
  BY <1>2

(* Workers keep what they hold, or let go of it; the stream is the same.   *)
LEMMA IdsKept ==
  ASSUME TypeInv, IdsInv, UNCHANGED stream, nextID' \in {nextID, nextID + 1},
         \A i \in Instances : HoldsID(i)' =>
           HoldsID(i) /\ worker'[i].uid = worker[i].uid /\ worker'[i].batch = worker[i].batch
  PROVE  IdsInv'
<1>1. nextID \in Nat /\ nextID <= nextID'
  BY DEF TypeInv, RedisTypes
<1>2. nextID' \in Nat /\ \A k \in DOMAIN stream : stream[k].uid \in Nat
  BY <1>1, EntryTypes
<1>3. \A i \in Instances : worker[i].uid \in Nat
  BY DEF TypeInv, WorkerTypes
<1> QED
  BY <1>1, <1>2, <1>3 DEF IdsInv, IDsAreUnique

LEMMA IdsWorker == ASSUME TypeInv, IdsInv, NEW i \in Instances, UpdateWorker(i) PROVE IdsInv'
<1>1. \A j \in Instances \ {i} : worker'[j] = worker[j]
  BY WorkerStepTypes
<1>2. \A j \in Instances \ {i} : HoldsID(j)' => HoldsID(j)
  BY <1>1 DEF HoldsID
<1>3. WorkerTypes /\ LossTypes /\ nextID \in Nat
  BY DEF TypeInv, RedisTypes
<1>4. ASSUME UNCHANGED stream, nextID' \in {nextID, nextID + 1}, ~HoldsID(i)' PROVE IdsInv'
  BY <1>1, <1>2, <1>4, IdsKept
<1>5. CASE TakeBatch(i) \/ WorkerReturns(i)
  <2>1. ~HoldsID(i)'
    <3>1. CASE TakeBatch(i)
      <4>1. channel[i] \in Seq(SUBSET Updates) /\ channel[i] # <<>> /\ ~HoldsID(i)
        BY <3>1 DEF TakeBatch, HoldsID, TypeInv, QueueTypes
      <4>2. Head(channel[i]) \ Silent \in SUBSET Updates
        BY <4>1
      <4>3. UNCHANGED worker \/ Proceed(i, Head(channel[i]) \ Silent)
        BY <3>1 DEF TakeBatch
      <4> QED
        BY <1>3, <4>1, <4>2, <4>3, ProceedTypes DEF HoldsID
    <3>2. CASE WorkerReturns(i)
      BY <1>3, <3>2 DEF WorkerReturns, HoldsID, WorkerTypes
    <3> QED
      BY <1>5, <3>1, <3>2
  <2> QED
    BY <1>4, <1>5, <2>1 DEF TakeBatch, WorkerReturns, redisVars
<1>6. CASE AllocateID(i)
  <2>1. worker[i].at = "id" /\ worker[i].batch # {} /\ UNCHANGED <<stream, forgotten>>
    BY <1>3, <1>6 DEF AllocateID, WorkerTypes
  <2>2. CASE AttemptFails(i) /\ nextID' \in {nextID, nextID + 1}
    <3>1. ~HoldsID(i)'
      <4>1. worker[i].batch \ {First(worker[i].batch)} \in SUBSET Updates
        BY <1>3 DEF WorkerTypes
      <4>2. CASE worker'[i] = [worker[i] EXCEPT !.failed = @ + 1]
        BY <1>3, <2>1, <4>2 DEF HoldsID, WorkerTypes
      <4>3. CASE Proceed(i, worker[i].batch \ {First(worker[i].batch)})
        BY <1>3, <4>1, <4>3, ProceedTypes DEF HoldsID
      <4> QED
        BY <1>3, <2>1, <2>2, <4>2, <4>3, AttemptFailsTypes
    <3> QED
      BY <1>4, <2>1, <2>2, <3>1
  <2>3. CASE /\ worker' = [worker EXCEPT ![i].at = "append", ![i].uid = nextID', ![i].failed = 0]
             /\ nextID' = nextID + 1
    <3>1. worker'[i].uid = nextID + 1
      BY <1>3, <2>3 DEF WorkerTypes
    <3>2. \A k \in DOMAIN stream : stream[k].uid \in Nat /\ stream[k].uid <= nextID
      BY EntryTypes DEF IdsInv
    <3>3. \A j \in Instances \ {i} : HoldsID(j)' => worker'[j].uid \in Nat /\ worker'[j].uid <= nextID
      BY <1>1, <1>2, <1>3 DEF IdsInv, WorkerTypes
    <3>4. \A j \in Instances \ {i} : HoldsID(j)' => \A k \in DOMAIN stream :
            stream[k].uid = worker'[j].uid => stream[k].update = First(worker'[j].batch)
      BY <1>1, <1>2 DEF IdsInv
    <3>5. \A j, l \in Instances \ {i} : HoldsID(j)' /\ HoldsID(l)' /\ j # l => worker'[j].uid # worker'[l].uid
      BY <1>1, <1>2 DEF IdsInv
    <3>6. IDsAreUnique'
      BY <2>1 DEF IdsInv, IDsAreUnique
    <3>7. \A k \in DOMAIN stream' : stream'[k].uid <= nextID'
      BY <1>3, <2>1, <2>3, <3>2
    <3>8. \A j \in Instances : HoldsID(j)' =>
            /\ worker'[j].uid <= nextID'
            /\ \A k \in DOMAIN stream' :
                 stream'[k].uid = worker'[j].uid => stream'[k].update = First(worker'[j].batch)
      <4>1. \A k \in DOMAIN stream' : stream'[k].uid # worker'[i].uid
        BY <1>3, <2>1, <3>1, <3>2
      <4>2. worker'[i].uid <= nextID'
        BY <1>3, <2>3, <3>1
      <4>3. \A j \in Instances \ {i} : HoldsID(j)' => worker'[j].uid <= nextID'
        <5>1. ASSUME NEW n \in Nat, n <= nextID PROVE n <= nextID'
          BY <1>3, <2>3, <5>1
        <5> QED
          BY <3>3, <5>1
      <4> QED
        BY <2>1, <3>4, <4>1, <4>2, <4>3
    <3>9. \A j, l \in Instances : HoldsID(j)' /\ HoldsID(l)' /\ j # l => worker'[j].uid # worker'[l].uid
      BY <1>3, <3>1, <3>3, <3>5
    <3> QED
      BY <3>6, <3>7, <3>8, <3>9 DEF IdsInv
  <2> QED
    BY <1>6, <2>2, <2>3 DEF AllocateID
<1>7. CASE AppendUpdate(i)
  <2>1. PICK u : u = First(worker[i].batch)
    OBVIOUS
  <2>2. HoldsID(i) /\ worker[i].batch # {} /\ worker[i].batch \subseteq Updates /\ worker[i].uid \in Nat
        /\ UNCHANGED <<nextID, forgotten>>
    BY <1>3, <1>7 DEF AppendUpdate, WorkerTypes, HoldsID
  <2>3. PICK e : e = [uid |-> worker[i].uid, update |-> u]
    OBVIOUS
  <2>4. stream' \in {stream, Append(stream, e)}
    BY <1>7, <2>1, <2>3 DEF AppendUpdate
  <2>5. HoldsID(i)' => worker'[i].uid = worker[i].uid /\ worker'[i].batch = worker[i].batch
    <3>1. worker[i].batch \ {u} \in SUBSET Updates
      BY <2>2
    <3>2. CASE worker'[i] = [worker[i] EXCEPT !.failed = @ + 1]
      BY <1>3, <2>2, <3>2 DEF WorkerTypes
    <3>3. CASE Proceed(i, worker[i].batch \ {u})
      BY <1>3, <3>1, <3>3, ProceedTypes DEF HoldsID
    <3> QED
      BY <1>3, <1>7, <2>1, <2>2, <3>2, <3>3, AttemptFailsTypes DEF AppendUpdate
  <2>6. CASE UNCHANGED stream
    BY <1>1, <1>2, <2>2, <2>5, <2>6, IdsKept
  <2>7. CASE stream' = Append(stream, e)
    <3>1. stream \in Seq([uid : Nat, update : Updates])
      BY DEF TypeInv, RedisTypes
    <3>2. u \in Updates
      BY <2>1, <2>2, FirstOfBatch
    <3>3. e \in [uid : Nat, update : Updates]
      BY <2>2, <2>3, <3>2
    <3>4. \A k \in DOMAIN stream' : (k \in DOMAIN stream /\ stream'[k] = stream[k]) \/ stream'[k] = e
      BY <2>7, <3>1, <3>3
    <3>5. \A k \in DOMAIN stream : stream[k].uid = e.uid => stream[k].update = e.update
      BY <2>1, <2>2, <2>3 DEF IdsInv
    <3>6. IDsAreUnique'
      BY <3>4, <3>5 DEF IdsInv, IDsAreUnique
    <3>7. e.uid <= nextID /\ e.uid = worker[i].uid /\ e.update = u
      BY <2>2, <2>3 DEF IdsInv
    <3>8. \A k \in DOMAIN stream' : stream'[k].uid <= nextID'
      BY <2>2, <3>4, <3>7 DEF IdsInv
    <3>9. \A j \in Instances \ {i} : HoldsID(j)' => worker'[j].uid # e.uid
      BY <1>1, <1>2, <2>2, <3>7 DEF IdsInv
    <3>10. \A j \in Instances : HoldsID(j)' =>
              /\ worker'[j].uid <= nextID'
              /\ \A k \in DOMAIN stream' :
                   stream'[k].uid = worker'[j].uid => stream'[k].update = First(worker'[j].batch)
      <4>1. ASSUME NEW j \in Instances \ {i}, HoldsID(j)'
            PROVE  /\ worker'[j].uid <= nextID'
                   /\ \A k \in DOMAIN stream' :
                        stream'[k].uid = worker'[j].uid => stream'[k].update = First(worker'[j].batch)
        BY <1>1, <1>2, <2>2, <3>4, <3>9, <4>1 DEF IdsInv
      <4>2. ASSUME HoldsID(i)'
            PROVE  /\ worker'[i].uid <= nextID'
                   /\ \A k \in DOMAIN stream' :
                        stream'[k].uid = worker'[i].uid => stream'[k].update = First(worker'[i].batch)
        BY <2>1, <2>2, <2>5, <3>4, <3>7, <4>2 DEF IdsInv
      <4> QED
        BY <4>1, <4>2
    <3>11. \A j, l \in Instances : HoldsID(j)' /\ HoldsID(l)' /\ j # l => worker'[j].uid # worker'[l].uid
      BY <1>1, <1>2, <2>2, <2>5, <3>7, <3>9 DEF IdsInv
    <3> QED
      BY <3>6, <3>8, <3>10, <3>11 DEF IdsInv
  <2> QED
    BY <2>4, <2>6, <2>7
<1> QED
  BY <1>5, <1>6, <1>7 DEF UpdateWorker

LEMMA IdsStep == TypeInv /\ IdsInv /\ [Next]_vars => IdsInv'
<1> SUFFICES ASSUME TypeInv, IdsInv, [Next]_vars, ~\E i \in Instances : UpdateWorker(i) PROVE IdsInv'
  BY IdsWorker
<1>1. UNCHANGED <<nextID, stream>> /\ (UNCHANGED <<worker, forgotten>> \/ ProcessEnds)
  BY OtherSteps DEF Next
<1>2. CASE UNCHANGED worker
  BY <1>1, <1>2, IdsKept DEF HoldsID
<1>3. CASE ProcessEnds
  BY <1>1, <1>3, IdsKept DEF ProcessEnds, HoldsID, Idle
<1> QED
  BY <1>1, <1>2, <1>3

(* An update_id names one update (redis.go, NextUpdateID), whatever gets   *)
(* lost, with any number of workers and over restarts.                     *)
THEOREM UpdateIdsAreUnique == Spec => []IDsAreUnique
<1>1. IdsInv => IDsAreUnique
  BY DEF IdsInv
<1>2. Spec => [](TypeInv /\ IdsInv)
  BY TypeInit, TypeStep, IdsInit, IdsStep, PTL DEF Spec
<1> QED
  BY <1>1, <1>2, PTL

-----------------------------------------------------------------------------
(* Where an update is: what was queued at a worker that knows its bot      *)
(* stays on its way until it is in the stream or reported.                 *)
LEMMA QueueEnds ==
  ASSUME NEW S, NEW s \in Seq(S)
  PROVE  /\ \A e \in S : SetOf(Append(s, e)) = SetOf(s) \cup {e}
         /\ s # <<>> => SetOf(s) = {Head(s)} \cup SetOf(Tail(s))
<1>1. ASSUME NEW e \in S PROVE SetOf(Append(s, e)) = SetOf(s) \cup {e}
  <2>1. DOMAIN s = 1..Len(s) /\ DOMAIN Append(s, e) = 1..Len(s) + 1 /\ Len(s) \in Nat
    OBVIOUS
  <2>2. \A k \in 1..Len(s) : Append(s, e)[k] = s[k]
    OBVIOUS
  <2>3. Append(s, e)[Len(s) + 1] = e
    OBVIOUS
  <2>4. SetOf(Append(s, e)) \subseteq SetOf(s) \cup {e}
    BY <2>1, <2>2, <2>3 DEF SetOf
  <2>5. SetOf(s) \cup {e} \subseteq SetOf(Append(s, e))
    BY <2>1, <2>2, <2>3 DEF SetOf
  <2> QED
    BY <2>4, <2>5
<1>2. ASSUME s # <<>> PROVE SetOf(s) = {Head(s)} \cup SetOf(Tail(s))
  <2>1. /\ DOMAIN s = 1..Len(s) /\ Len(s) \in Nat /\ Len(s) >= 1 /\ Head(s) = s[1]
        /\ DOMAIN Tail(s) = 1..Len(s) - 1
    BY <1>2
  <2>2. \A k \in 1..Len(s) - 1 : Tail(s)[k] = s[k + 1]
    BY <1>2
  <2>3. \A k \in 1..Len(s) : k = 1 \/ (k - 1 \in 1..Len(s) - 1 /\ Tail(s)[k - 1] = s[k])
    BY <2>1, <2>2
  <2>4. ASSUME NEW e \in SetOf(s) PROVE e \in {Head(s)} \cup SetOf(Tail(s))
    <3>1. PICK k \in 1..Len(s) : e = s[k]
      BY <2>1 DEF SetOf
    <3>2. CASE k = 1
      BY <2>1, <3>1, <3>2
    <3>3. CASE k - 1 \in 1..Len(s) - 1 /\ Tail(s)[k - 1] = s[k]
      BY <2>1, <3>1, <3>3 DEF SetOf
    <3> QED
      BY <2>3, <3>2, <3>3
  <2>5. {Head(s)} \cup SetOf(Tail(s)) \subseteq SetOf(s)
    BY <2>1, <2>2 DEF SetOf
  <2> QED
    BY <2>4, <2>5
<1> QED
  BY <1>1, <1>2

LEMMA AppendedGrows ==
  ASSUME TypeInv, NEW u \in Updates, NEW n \in Nat, stream' = Append(stream, [uid |-> n, update |-> u])
  PROVE  Appended' = Appended \cup {u}
<1>1. PICK e \in [uid : Nat, update : Updates] : e = [uid |-> n, update |-> u]
  OBVIOUS
<1>2. stream \in Seq([uid : Nat, update : Updates])
  BY DEF TypeInv, RedisTypes
<1>3. SetOf(stream') = SetOf(stream) \cup {e}
  <2>1. \A f \in [uid : Nat, update : Updates] : SetOf(Append(stream, f)) = SetOf(stream) \cup {f}
    BY <1>2, QueueEnds
  <2>2. stream' = Append(stream, e)
    BY <1>1
  <2>3. SetOf(stream') = SetOf(Append(stream, e))
    BY <2>2 DEF SetOf
  <2> QED
    BY <2>1, <2>3
<1>4. Appended = {f.update : f \in SetOf(stream)} /\ Appended' = {f.update : f \in SetOf(stream')}
  BY DEF Appended, SetOf
<1> QED
  BY <1>1, <1>3, <1>4

LEMMA WorkerWay ==
  ASSUME TypeInv, NEW i \in Instances, UpdateWorker(i)
  PROVE  /\ Appended \subseteq Appended' /\ lost \subseteq lost' /\ UNCHANGED forgotten
         /\ \A j \in Instances \ {i} : OnItsWay(j)' = OnItsWay(j) /\ worker'[j].at = worker[j].at
         /\ i \in known => OnItsWay(i) \ Silent \subseteq OnItsWay(i)' \cup Appended' \cup lost'
         /\ worker'[i].at = "ended" => worker[i].at = "wait" /\ quit[i] /\ OnItsWay(i) = {}
<1>1. \A j \in Instances \ {i} : worker'[j] = worker[j]
  BY WorkerStepTypes
<1>2. WorkerTypes /\ LossTypes /\ channel[i] \in Seq(SUBSET Updates)
  BY DEF TypeInv, QueueTypes
<1>3. \A j \in Instances \ {i} : channel'[j] = channel[j]
  BY DEF UpdateWorker, TakeBatch, AllocateID, AppendUpdate, WorkerReturns, queueVars, TypeInv, QueueTypes
<1>4. \A j \in Instances \ {i} : OnItsWay(j)' = OnItsWay(j) /\ worker'[j].at = worker[j].at
  BY <1>1, <1>3 DEF OnItsWay
<1>5. CASE TakeBatch(i)
  <2>1. PICK batch : batch = Head(channel[i])
    OBVIOUS
  <2>2. channel[i] # <<>> /\ worker[i].at = "wait" /\ worker[i].batch = {} /\ batch \subseteq Updates
    BY <1>2, <1>5, <2>1 DEF TakeBatch, WorkerTypes
  <2>3. channel'[i] = Tail(channel[i]) /\ UNCHANGED <<stream, forgotten>>
    BY <1>5 DEF TakeBatch, redisVars, TypeInv, QueueTypes
  <2>4. OnItsWay(i) = (UNION SetOf(channel'[i])) \cup batch
    BY <1>2, <2>1, <2>2, <2>3, QueueEnds DEF OnItsWay
  <2>5. OnItsWay(i)' = (UNION SetOf(channel'[i])) \cup worker'[i].batch
    BY DEF OnItsWay
  <2>6. CASE i \notin known /\ UNCHANGED <<worker, lost>>
    BY <1>4, <2>2, <2>3, <2>6 DEF Appended
  <2>7. CASE lost' = lost \cup batch /\ UNCHANGED worker
    BY <1>4, <2>2, <2>3, <2>4, <2>5, <2>7 DEF Appended
  <2>8. CASE Proceed(i, batch \ Silent) /\ UNCHANGED lost
    <3>1. worker'[i].batch = batch \ Silent /\ worker'[i].at # "ended"
      BY <1>2, <2>2, <2>8, ProceedTypes
    <3> QED
      BY <1>4, <2>3, <2>4, <2>5, <2>8, <3>1 DEF Appended
  <2> QED
    BY <1>5, <2>1, <2>6, <2>7, <2>8 DEF TakeBatch
<1>6. CASE AllocateID(i) \/ AppendUpdate(i)
  <2>1. PICK u : u = First(worker[i].batch)
    OBVIOUS
  <2>2. /\ worker[i].at \in {"id", "append"} /\ worker[i].batch # {} /\ worker[i].batch \subseteq Updates
        /\ worker[i].uid \in Nat /\ UNCHANGED <<channel, forgotten>>
    BY <1>2, <1>6 DEF AllocateID, AppendUpdate, WorkerTypes, queueVars
  <2>3. u \in worker[i].batch
    BY <2>1, <2>2, FirstOfBatch
  <2>4. \/ UNCHANGED stream \/ stream' = Append(stream, [uid |-> worker[i].uid, update |-> u])
    BY <1>6, <2>1 DEF AllocateID, AppendUpdate
  <2>5. Appended \subseteq Appended'
    <3>1. CASE UNCHANGED stream
      BY <3>1 DEF Appended
    <3>2. CASE stream' = Append(stream, [uid |-> worker[i].uid, update |-> u])
      BY <2>2, <2>3, <3>2, AppendedGrows
    <3> QED
      BY <2>4, <3>1, <3>2
  <2>6. OnItsWay(i) = (UNION SetOf(channel[i])) \cup worker[i].batch
        /\ OnItsWay(i)' = (UNION SetOf(channel[i])) \cup worker'[i].batch
    BY <2>2 DEF OnItsWay
  <2>7. worker[i].batch \ {u} \in SUBSET Updates
    BY <2>2
  <2>8. CASE AttemptFails(i)
    <3>1. CASE UNCHANGED lost /\ worker'[i] = [worker[i] EXCEPT !.failed = @ + 1]
      <4>1. worker'[i].batch = worker[i].batch /\ worker'[i].at = worker[i].at
        BY <1>2, <3>1 DEF WorkerTypes
      <4> QED
        BY <1>4, <2>2, <2>5, <2>6, <3>1, <4>1
    <3>2. CASE lost' = lost \cup {u} /\ Proceed(i, worker[i].batch \ {u})
      <4>1. worker'[i].batch = worker[i].batch \ {u} /\ worker'[i].at # "ended"
        BY <1>2, <2>7, <3>2, ProceedTypes
      <4> QED
        BY <1>4, <2>2, <2>5, <2>6, <3>2, <4>1
    <3> QED
      BY <1>2, <2>1, <2>2, <2>8, <3>1, <3>2, AttemptFailsTypes
  <2>9. CASE /\ stream' = Append(stream, [uid |-> worker[i].uid, update |-> u])
             /\ Proceed(i, worker[i].batch \ {u}) /\ UNCHANGED lost
    <3>1. worker'[i].batch = worker[i].batch \ {u} /\ worker'[i].at # "ended"
      BY <1>2, <2>7, <2>9, ProceedTypes
    <3>2. u \in Appended'
      BY <2>2, <2>3, <2>9, AppendedGrows
    <3> QED
      BY <1>4, <2>2, <2>5, <2>6, <2>9, <3>1, <3>2
  <2>10. CASE /\ worker' = [worker EXCEPT ![i].at = "append", ![i].uid = nextID', ![i].failed = 0]
              /\ UNCHANGED lost
    <3>1. worker'[i].batch = worker[i].batch /\ worker'[i].at # "ended"
      BY <1>2, <2>10 DEF WorkerTypes
    <3> QED
      BY <1>4, <2>2, <2>5, <2>6, <2>10, <3>1
  <2> QED
    BY <1>6, <2>1, <2>8, <2>9, <2>10 DEF AllocateID, AppendUpdate
<1>7. CASE WorkerReturns(i)
  <2>1. worker[i].at = "wait" /\ quit[i] /\ worker[i].batch = {} /\ channel[i] = <<>>
        /\ UNCHANGED <<stream, lost, forgotten>>
    BY <1>2, <1>7 DEF WorkerReturns, WorkerTypes, redisVars, lossVars
  <2>2. OnItsWay(i) = {}
    BY <2>1 DEF OnItsWay, SetOf
  <2> QED
    BY <1>4, <2>1, <2>2 DEF Appended
<1> QED
  BY <1>5, <1>6, <1>7 DEF UpdateWorker

(* Others only add to what is on its way, until the process ends.          *)
LEMMA OtherWay ==
  ASSUME TypeInv, [Next]_vars, ~\E i \in Instances : UpdateWorker(i), ~ProcessEnds
  PROVE  \A i \in Instances : OnItsWay(i) \subseteq OnItsWay(i)'
<1>1. UNCHANGED worker
  BY OtherSteps DEF Next
<1>2. ASSUME NEW i \in Instances, NEW c \in Callers, HandleCall(i, c)
      PROVE  \A j \in Instances : OnItsWay(j) \subseteq OnItsWay(j)'
  <2>1. CASE HandleGivesUp(i, c)
    BY <1>1, <2>1 DEF HandleGivesUp, OnItsWay
  <2>2. CASE HandleEnqueues(i, c)
    <3>1. handing[i][c] \in SUBSET Updates /\ channel[i] \in Seq(SUBSET Updates)
      BY DEF TypeInv, QueueTypes
    <3>2. channel' = [channel EXCEPT ![i] = Append(channel[i], handing[i][c])]
      BY <2>2 DEF HandleEnqueues
    <3>3. SetOf(Append(channel[i], handing[i][c])) = SetOf(channel[i]) \cup {handing[i][c]}
      BY <3>1, QueueEnds
    <3>4. \A j \in Instances : SetOf(channel[j]) \subseteq SetOf(channel'[j])
      BY <3>2, <3>3 DEF TypeInv, QueueTypes
    <3> QED
      BY <1>1, <3>4 DEF OnItsWay
  <2> QED
    BY <1>2, <2>1, <2>2 DEF HandleCall
<1>3. ASSUME UNCHANGED channel PROVE \A j \in Instances : OnItsWay(j) \subseteq OnItsWay(j)'
  BY <1>1, <1>3 DEF OnItsWay
<1>4. CASE Connection \/ Feeder \/ UNCHANGED vars
  BY <1>3, <1>4 DEF Connection, TelegramSends, Connect, Authorize, ConnectionBreaks, Reconnect,
     RunCancelled, RunEnds, Push, Feeder, Pop, WaitForWake, FeedGapManager, FeedHandle, vars, queueVars
<1>5. CASE GapManager
  BY <1>3, <1>5 DEF GapManager, GapStarts, GapReceives, GapTimesOut, DifferenceArrives, DifferenceTooLong,
     DifferenceFails, GapStores, GapFlushes, GapEnds, HandOver, queueVars
<1>6. CASE Process
  BY <1>3, <1>6 DEF Process, StopCancels, StopQuits, RestartBot, StartProcess, queueVars
<1> QED
  BY <1>2, <1>4, <1>5, <1>6 DEF Next

-----------------------------------------------------------------------------
(* The life of an instance: it runs and has a gap manager only while it is *)
(* up, its worker is told to quit once, and ends only then.                *)
LifeInv ==
  /\ life \in {"up", "cancelled"} => ~quit[inst]
  /\ RunLive => life = "up"
  /\ conn = "down" => ~gap
  /\ storing # 0 => gap
  /\ gap => inst \in known
  /\ \A i \in Instances : worker[i].at = "ended" => quit[i]

LEMMA LifeInit == Init => LifeInv
BY DEF Init, LifeInv, RunLive, Idle

(* What the worker's steps leave alone.                                    *)
LEMMA WorkerLeaves ==
  ASSUME NEW i \in Instances, UpdateWorker(i)
  PROVE  UNCHANGED <<connVars, instVars, gapVars, handing, quit, due, storedPts, forgotten>>
BY DEF UpdateWorker, TakeBatch, AllocateID, AppendUpdate, WorkerReturns, queueVars, redisVars, lossVars

LEMMA StopSteps ==
  ASSUME TypeInv, ~\E i \in Instances : UpdateWorker(i), [Next]_vars, ~ProcessEnds
  PROVE  /\ known \subseteq known'
         /\ UNCHANGED <<quit, due>> \/ StopQuits
         /\ \/ inst' = inst
            \/ inst' = inst + 1 /\ inst' \in Instances /\ gap' = FALSE /\ storing' = 0 /\ conn' = "down"
               /\ life' = "up" /\ UNCHANGED <<quit, due, storedPts>>
<1> USE DEF connVars, instVars, queueVars
<1>1. CASE Connection \/ Feeder \/ UNCHANGED vars
  BY <1>1 DEF Connection, TelegramSends, Connect, Authorize, ConnectionBreaks, Reconnect, RunCancelled,
     RunEnds, Push, Feeder, Pop, WaitForWake, FeedGapManager, FeedHandle, vars
<1>2. CASE GapManager
  BY <1>2 DEF GapManager, GapStarts, GapReceives, GapTimesOut, DifferenceArrives, DifferenceTooLong,
     DifferenceFails, GapStores, GapFlushes, GapEnds, HandOver
<1>3. CASE \E i \in Instances, c \in Callers : HandleCall(i, c)
  BY <1>3 DEF HandleCall, HandleEnqueues, HandleGivesUp
<1>4. CASE RestartBot \/ StartProcess
  BY <1>4 DEF RestartBot, StartProcess, NewInstance, redisVars, TypeInv, InstTypes
<1>5. CASE StopCancels
  BY <1>5 DEF StopCancels
<1>6. CASE StopQuits
  BY <1>6 DEF StopQuits
<1> QED
  BY <1>1, <1>2, <1>3, <1>4, <1>5, <1>6 DEF Next, Process

LEMMA LifeStep == TypeInv /\ LifeInv /\ [Next]_vars => LifeInv'
<1> SUFFICES ASSUME TypeInv, LifeInv, [Next]_vars PROVE LifeInv'
  OBVIOUS
<1> USE DEF LifeInv, RunLive, connVars, instVars, gapVars, queueVars
<1>1. CASE \E i \in Instances : UpdateWorker(i)
  <2>1. PICK i \in Instances : UpdateWorker(i)
    BY <1>1
  <2>2. \A j \in Instances : worker'[j].at = "ended" => worker[j].at = "ended" \/ quit[j]
    BY <2>1, WorkerWay
  <2> QED
    BY <2>1, <2>2, WorkerLeaves
<1>2. CASE ProcessEnds
  BY <1>2 DEF ProcessEnds, Idle
<1>3. CASE ~ProcessEnds /\ ~\E i \in Instances : UpdateWorker(i)
  <2>1. UNCHANGED worker
    BY <1>3, OtherSteps DEF Next
  <2>2. CASE Connection \/ Feeder \/ UNCHANGED vars
    BY <2>1, <2>2 DEF Connection, TelegramSends, Connect, Authorize, ConnectionBreaks, Reconnect,
       RunCancelled, RunEnds, Push, Feeder, Pop, WaitForWake, FeedGapManager, FeedHandle, vars
  <2>3. CASE GapManager
    BY <2>1, <2>3 DEF GapManager, GapStarts, GapReceives, GapTimesOut, DifferenceArrives,
       DifferenceTooLong, DifferenceFails, GapStores, GapFlushes, GapEnds, GapIdle, HandOver
  <2>4. CASE \E i \in Instances, c \in Callers : HandleCall(i, c)
    BY <2>1, <2>4 DEF HandleCall, HandleEnqueues, HandleGivesUp
  <2>5. CASE RestartBot \/ StartProcess
    <3>1. ~quit[inst'] /\ UNCHANGED quit
      BY <1>3, <2>5 DEF RestartBot, StartProcess, NewInstance, TypeInv, InstTypes, FreshInv
    <3> QED
      BY <2>1, <2>5, <3>1 DEF RestartBot, StartProcess, NewInstance
  <2>6. CASE StopCancels
    BY <2>1, <2>6 DEF StopCancels
  <2>7. CASE StopQuits
    <3>1. \A j \in Instances : quit[j] => quit'[j]
      BY <2>7 DEF StopQuits, TypeInv, QueueTypes
    <3> QED
      BY <2>1, <2>7, <3>1 DEF StopQuits
  <2> QED
    BY <1>3, <2>2, <2>3, <2>4, <2>5, <2>6, <2>7 DEF Next, Process
<1> QED
  BY <1>1, <1>2, <1>3

-----------------------------------------------------------------------------
(* What was queued when the worker was told to quit is in the stream,      *)
(* reported, or still ahead of the worker; it does not end before it got   *)
(* there.                                                                  *)
DueInv == \A i \in Instances :
  /\ due[i] # {} => i \in known
  /\ due[i] \ Silent \subseteq Appended \cup lost \cup OnItsWay(i)
  /\ worker[i].at = "ended" => due[i] \ Silent \subseteq Appended \cup lost

LEMMA DueInit == Init => DueInv
BY DEF Init, DueInv, Idle

LEMMA DueStep == TypeInv /\ LifeInv /\ DueInv /\ [Next]_vars => DueInv'
<1> SUFFICES ASSUME TypeInv, LifeInv, DueInv, [Next]_vars PROVE DueInv'
  OBVIOUS
<1>1. CASE \E i \in Instances : UpdateWorker(i)
  <2>1. PICK i \in Instances : UpdateWorker(i)
    BY <1>1
  <2>2. UNCHANGED <<due, known>>
    BY <2>1, WorkerLeaves DEF instVars
  <2>3. /\ Appended \subseteq Appended' /\ lost \subseteq lost'
        /\ \A j \in Instances \ {i} : OnItsWay(j)' = OnItsWay(j) /\ worker'[j].at = worker[j].at
        /\ i \in known => OnItsWay(i) \ Silent \subseteq OnItsWay(i)' \cup Appended' \cup lost'
        /\ worker'[i].at = "ended" => OnItsWay(i) = {}
    BY <2>1, WorkerWay
  <2> QED
    BY <2>2, <2>3 DEF DueInv
<1>2. CASE ProcessEnds
  BY <1>2 DEF ProcessEnds, DueInv
<1>3. CASE ~ProcessEnds /\ ~\E i \in Instances : UpdateWorker(i)
  <2>1. UNCHANGED worker /\ lost \subseteq lost' /\ Appended' = Appended
    BY <1>3, OtherSteps DEF Next, Appended
  <2>2. \A i \in Instances : OnItsWay(i) \subseteq OnItsWay(i)'
    BY <1>3, OtherWay
  <2>3. known \subseteq known' /\ (UNCHANGED <<quit, due>> \/ StopQuits)
    BY <1>3, StopSteps
  <2>4. CASE UNCHANGED due
    BY <2>1, <2>2, <2>3, <2>4 DEF DueInv
  <2>5. CASE StopQuits
    <3>1. /\ UNCHANGED known /\ inst \in Instances
          /\ due' = [due EXCEPT ![inst] = IF inst \in known THEN OnItsWay(inst) ELSE {}]
      BY <2>5 DEF StopQuits, TypeInv, InstTypes
    <3>2. worker[inst].at # "ended"
      BY <2>5, <3>1 DEF StopQuits, LifeInv
    <3>3. \A j \in Instances \ {inst} : due'[j] = due[j]
      BY <3>1 DEF TypeInv, QueueTypes
    <3>4. due'[inst] = IF inst \in known THEN OnItsWay(inst) ELSE {}
      BY <3>1 DEF TypeInv, QueueTypes
    <3> QED
      BY <2>1, <2>2, <3>1, <3>2, <3>3, <3>4 DEF DueInv
  <2> QED
    BY <2>3, <2>4, <2>5
<1> QED
  BY <1>1, <1>2, <1>3

(* stopUpdateWorker: when the worker has returned, every update that was   *)
(* queued when Stop told it to quit is in the stream, or its loss was      *)
(* reported; with any number of instances, and whatever Redis does.        *)
THEOREM StopPersistsTheQueue == Spec => []StopPersists
<1>1. DueInv => StopPersists
  BY DEF DueInv, StopPersists
<1>2. Spec => [](TypeInv /\ LifeInv /\ DueInv)
  BY TypeInit, TypeStep, LifeInit, LifeStep, DueInit, DueStep, PTL DEF Spec
<1> QED
  BY <1>1, <1>2, PTL

-----------------------------------------------------------------------------
(* An update is safe when it is in the stream, its loss was reported, it   *)
(* went with the process, or a worker that knows its bot will get to it.   *)
(* The gap manager's pts, and the pts it is about to store, cover updates  *)
(* that are safe or in the batch it is handing over; a batch is given up   *)
(* only when the run, and with it SetPts, is over.                         *)
Safe(u) ==
  \/ u \in Appended \cup lost \cup forgotten
  \/ \E i \in known : worker[i].at # "ended" /\ u \in OnItsWay(i)
Must == Sequenced \ Silent

StoredInv == \A u \in Must : u <= storedPts => Safe(u)
PtsInv == gap /\ RunLive => \A u \in Must : u <= pts => Safe(u)
StoringInv == gap /\ RunLive /\ storing # 0 =>
  \A u \in Must : u <= storing => Safe(u) \/ u \in handing[inst]["gap"]
SkipInv == StoredInv /\ PtsInv /\ StoringInv

LEMMA MustAreNumbers == Must \subseteq Nat /\ Must \subseteq Sequenced /\ Sequenced \subseteq Updates
BY DEF Must, Sequenced, Updates

LEMMA SkipInit == Init => SkipInv
<1> SUFFICES ASSUME Init PROVE SkipInv
  OBVIOUS
<1>1. \A u \in Must : ~(u <= 0)
  BY DEF Must, Sequenced, Updates
<1> QED
  BY <1>1 DEF Init, SkipInv, StoredInv, PtsInv, StoringInv

LEMMA SafeKept ==
  ASSUME TypeInv, [Next]_vars, NEW u, u \notin Silent, Safe(u)
  PROVE  Safe(u)'
<1>1. CASE \E i \in Instances : UpdateWorker(i)
  <2>1. PICK i \in Instances : UpdateWorker(i)
    BY <1>1
  <2>2. /\ Appended \subseteq Appended' /\ lost \subseteq lost' /\ UNCHANGED forgotten
        /\ \A j \in Instances \ {i} : OnItsWay(j)' = OnItsWay(j) /\ worker'[j].at = worker[j].at
        /\ i \in known => OnItsWay(i) \ Silent \subseteq OnItsWay(i)' \cup Appended' \cup lost'
        /\ worker'[i].at = "ended" => OnItsWay(i) = {}
    BY <2>1, WorkerWay
  <2>3. UNCHANGED known /\ known \subseteq Instances
    BY <2>1, WorkerLeaves DEF instVars, TypeInv, InstTypes
  <2>4. CASE u \in Appended \cup lost \cup forgotten
    BY <2>2, <2>4 DEF Safe
  <2>5. ASSUME NEW j \in known, worker[j].at # "ended", u \in OnItsWay(j) PROVE Safe(u)'
    <3>1. CASE j = i
      <4>1. worker'[i].at # "ended"
        BY <2>2, <2>5, <3>1
      <4>2. u \in OnItsWay(i)' \cup Appended' \cup lost'
        BY <2>2, <2>5, <3>1
      <4> QED
        BY <2>3, <2>5, <3>1, <4>1, <4>2 DEF Safe
    <3>2. CASE j # i
      <4>1. OnItsWay(j)' = OnItsWay(j) /\ worker'[j].at = worker[j].at
        BY <2>2, <2>3, <2>5, <3>2
      <4> QED
        BY <2>3, <2>5, <4>1 DEF Safe
    <3> QED
      BY <3>1, <3>2
  <2> QED
    BY <2>4, <2>5 DEF Safe
<1>2. CASE ProcessEnds
  <2>1. UNCHANGED <<stream, lost>> /\ known \subseteq Instances
        /\ forgotten' = forgotten \cup UNION {OnItsWay(i) : i \in Instances}
    BY <1>2 DEF ProcessEnds, redisVars, TypeInv, InstTypes
  <2>2. u \in Appended \cup lost \cup forgotten \/ \E i \in Instances : u \in OnItsWay(i)
    BY <2>1 DEF Safe
  <2>3. u \in Appended' \cup lost' \cup forgotten'
    BY <2>1, <2>2 DEF Appended
  <2> QED
    BY <2>3 DEF Safe
<1>3. CASE ~ProcessEnds /\ ~\E i \in Instances : UpdateWorker(i)
  <2>1. UNCHANGED <<worker, forgotten>> /\ lost \subseteq lost' /\ Appended' = Appended
    BY <1>3, OtherSteps DEF Next, Appended
  <2>2. \A i \in Instances : OnItsWay(i) \subseteq OnItsWay(i)'
    BY <1>3, OtherWay
  <2>3. known \subseteq known' /\ known \subseteq Instances
    BY <1>3, StopSteps DEF TypeInv, InstTypes
  <2> QED
    BY <2>1, <2>2, <2>3 DEF Safe
<1> QED
  BY <1>1, <1>2, <1>3

(* Steps that do not move the pts, nor the batch in hand, keep the cover.  *)
LEMMA CoverKept ==
  ASSUME TypeInv, SkipInv, [Next]_vars, UNCHANGED storedPts,
         gap' /\ RunLive' => gap /\ RunLive /\ UNCHANGED <<pts, storing>>
                             /\ handing'[inst']["gap"] = handing[inst]["gap"]
  PROVE  SkipInv'
<1>1. \A u \in Must : u \notin Silent
  BY DEF Must
<1> USE SafeKept DEF SkipInv, StoredInv, PtsInv, StoringInv
<1>2. StoredInv'
  BY <1>1
<1>3. PtsInv'
  BY <1>1
<1>4. StoringInv'
  BY <1>1
<1> QED
  BY <1>2, <1>3, <1>4

LEMMA SkipHandOver ==
  ASSUME TypeInv, SkipInv, [Next]_vars, UNCHANGED <<storedPts, pts, gap, conn, inst>>,
         GapIdle, NEW batch \in SUBSET Updates, NEW position \in Nat, HandOver(batch, position),
         RunLive => \A u \in Must : pts < u /\ u <= position => u \in batch
  PROVE  SkipInv'
<1>1. \A u \in Must : u \notin Silent /\ u \in Nat
  BY MustAreNumbers DEF Must
<1>2. storing' = position /\ handing'[inst]["gap"] = batch /\ pts \in Nat
  BY DEF HandOver, TypeInv, QueueTypes, GapTypes, InstTypes
<1>3. StoredInv' /\ PtsInv'
  BY <1>1, SafeKept DEF SkipInv, StoredInv, PtsInv, RunLive
<1>4. ASSUME RunLive, NEW u \in Must, u <= position PROVE Safe(u)' \/ u \in batch
  <2>1. CASE u <= pts
    <3>1. Safe(u)
      BY <1>4, <2>1 DEF SkipInv, PtsInv, GapIdle
    <3> QED
      BY <1>1, <3>1, SafeKept
  <2>2. CASE pts < u
    BY <1>4, <2>2
  <2> QED
    BY <1>1, <1>2, <2>1, <2>2
<1>5. StoringInv'
  BY <1>2, <1>4 DEF StoringInv, RunLive
<1> QED
  BY <1>3, <1>5 DEF SkipInv

LEMMA SkipReceives == ASSUME TypeInv, SkipInv, GapReceives, [Next]_vars PROVE SkipInv'
<1>1. PICK u : u = Head(gapQueue)
  OBVIOUS
<1>2. PICK all : all = pending \cup {u}
  OBVIOUS
<1>3. PICK ready : ready = {v \in all : \A w \in Sequenced : pts < w /\ w <= v => w \in all}
  OBVIOUS
<1>4. /\ GapIdle /\ gapQueue # <<>> /\ UNCHANGED <<storedPts, pts, gap, conn, inst>>
      /\ \/ u \in Unsequenced /\ HandOver({u}, 0)
         \/ UNCHANGED <<storing, queueVars>>
         \/ u \in ready /\ HandOver(ready, Last(ready))
  BY <1>1, <1>2, <1>3 DEF GapReceives, connVars, instVars, redisVars
<1>5. u \in Updates /\ all \subseteq Updates /\ pts \in Nat
  BY <1>1, <1>2, <1>4 DEF TypeInv, GapTypes
<1>6. CASE u \in Unsequenced /\ HandOver({u}, 0)
  <2>1. \A w \in Must : pts < w /\ w <= 0 => w \in {u}
    BY <1>5, MustAreNumbers
  <2>2. {u} \in SUBSET Updates /\ 0 \in Nat
    BY <1>5
  <2> QED
    BY <1>4, <1>6, <2>1, <2>2, SkipHandOver
<1>7. CASE UNCHANGED <<storing, queueVars>>
  BY <1>4, <1>7, CoverKept DEF queueVars, RunLive
<1>8. CASE u \in ready /\ HandOver(ready, Last(ready))
  <2>1. ready \subseteq Updates /\ ready # {}
    BY <1>3, <1>5, <1>8
  <2>2. PICK last : last = Last(ready)
    OBVIOUS
  <2>3. last \in ready /\ last \in Nat
    <3>1. last \in ready
      BY <2>1, <2>2, LastOfBatch
    <3> QED
      BY <2>1, <3>1 DEF Updates
  <2>4. \A w \in Must : pts < w /\ w <= last => w \in ready
    <3> SUFFICES ASSUME NEW w \in Must, pts < w, w <= last PROVE w \in ready
      OBVIOUS
    <3>1. \A x \in Sequenced : pts < x /\ x <= last => x \in all
      BY <1>3, <2>3
    <3>2. \A x \in Sequenced : x <= w => x <= last
      BY <2>3, MustAreNumbers DEF Updates
    <3>3. w \in all
      BY <3>1, MustAreNumbers
    <3> QED
      BY <1>3, <3>1, <3>2, <3>3
  <2> QED
    BY <1>4, <1>8, <2>1, <2>2, <2>3, <2>4, SkipHandOver
<1> QED
  BY <1>4, <1>6, <1>7, <1>8

LEMMA SkipDifference == ASSUME TypeInv, SkipInv, DifferenceArrives, [Next]_vars PROVE SkipInv'
<1>1. GapIdle /\ UNCHANGED <<storedPts, pts, gap, conn, inst>>
  BY DEF DifferenceArrives, connVars, instVars, redisVars
<1>2. CASE Missing = {}
  <2>1. UNCHANGED <<storing, queueVars>>
    BY <1>2 DEF DifferenceArrives
  <2> QED
    BY <1>1, <2>1, CoverKept DEF queueVars, RunLive
<1>3. CASE Missing # {}
  <2>1. PICK last \in Missing : HandOver({u \in Missing : u <= last}, last)
    BY <1>3 DEF DifferenceArrives
  <2>2. last \in Nat /\ sent \in Nat /\ last <= sent /\ {u \in Missing : u <= last} \in SUBSET Updates
    BY <2>1 DEF Missing, Sequenced, Updates, TypeInv, ConnTypes
  <2>3. \A u \in Must : pts < u /\ u <= last => u \in {v \in Missing : v <= last}
    BY <2>2, MustAreNumbers DEF Missing, Updates
  <2> QED
    BY <1>1, <2>1, <2>2, <2>3, SkipHandOver
<1> QED
  BY <1>2, <1>3

LEMMA SkipTooLong == ASSUME TypeInv, SkipInv, DifferenceTooLong, [Next]_vars PROVE SkipInv'
<1>1. PICK last \in Missing : /\ lost' = lost \cup {u \in Missing : u <= last}
                              /\ pts' = last /\ storedPts' = last
  BY DEF DifferenceTooLong
<1>2. GapIdle /\ RunLive /\ storing' = 0 /\ gap
  BY DEF DifferenceTooLong, GapIdle, RunLive
<1>3. ASSUME NEW u \in Must, u <= last
      PROVE  Safe(u)'
  <2>1. CASE u <= pts
    <3>1. Safe(u)
      BY <1>2, <2>1 DEF SkipInv, PtsInv, GapIdle
    <3> QED
      BY <3>1, SafeKept DEF Must
  <2>2. CASE ~(u <= pts)
    <3>1. last \in Nat /\ sent \in Nat /\ last <= sent /\ pts \in Nat
      BY DEF Missing, Sequenced, Updates, TypeInv, ConnTypes, GapTypes
    <3>2. u \in Missing
      BY <1>3, <2>2, <3>1, MustAreNumbers DEF Missing, Must
    <3>3. u \in lost'
      BY <1>1, <1>3, <3>2
    <3> QED
      BY <3>3 DEF Safe
  <2> QED
    BY <2>1, <2>2
<1>4. StoredInv' /\ PtsInv'
  BY <1>1, <1>3 DEF StoredInv, PtsInv
<1>5. StoringInv'
  BY <1>2 DEF StoringInv
<1> QED
  BY <1>4, <1>5 DEF SkipInv

LEMMA SkipGap == ASSUME TypeInv, LifeInv, SkipInv, GapManager, [Next]_vars PROVE SkipInv'
<1>1. \A u \in Must : u \notin Silent
  BY DEF Must
<1>2. CASE GapStarts
  <2>1. UNCHANGED storedPts /\ pts' = storedPts /\ storing' = 0
    BY <1>2 DEF GapStarts, redisVars
  <2> QED
    BY <1>1, <2>1, SafeKept DEF SkipInv, StoredInv, PtsInv, StoringInv
<1>3. CASE GapTimesOut \/ DifferenceFails \/ GapEnds
  BY <1>3, CoverKept DEF GapTimesOut, DifferenceFails, GapEnds, connVars, instVars, redisVars, queueVars,
     RunLive
<1>4. CASE GapFlushes
  <2>1. UNCHANGED <<storedPts, conn>> /\ ~RunLive
    BY <1>4 DEF GapFlushes, connVars, redisVars
  <2> QED
    BY <2>1, CoverKept DEF RunLive
<1>5. CASE GapStores
  <2>1. /\ storing # 0 /\ handing[inst]["gap"] = {} /\ pts' = storing /\ storing' = 0
        /\ UNCHANGED <<gap, conn>>
        /\ (RunLive /\ storedPts' = storing) \/ UNCHANGED storedPts
    BY <1>5 DEF GapStores, connVars
  <2>2. gap
    BY <2>1 DEF LifeInv
  <2>3. RunLive => \A u \in Must : u <= storing => Safe(u)
    BY <2>1, <2>2 DEF SkipInv, StoringInv
  <2>4. StoredInv'
    BY <1>1, <2>1, <2>3, SafeKept DEF SkipInv, StoredInv
  <2>5. PtsInv'
    BY <1>1, <2>1, <2>3, SafeKept DEF PtsInv, RunLive
  <2>6. StoringInv'
    BY <2>1 DEF StoringInv
  <2> QED
    BY <2>4, <2>5, <2>6 DEF SkipInv
<1> QED
  BY <1>2, <1>3, <1>4, <1>5, SkipReceives, SkipDifference, SkipTooLong DEF GapManager

LEMMA SkipHandle ==
  ASSUME TypeInv, LifeInv, SkipInv, [Next]_vars, NEW i \in Instances, NEW c \in Callers, HandleCall(i, c)
  PROVE  SkipInv'
<1>1. /\ UNCHANGED <<conn, inst, known, gap, pts, storing, storedPts, worker>> /\ inst \in Instances
      /\ handing' = [handing EXCEPT ![i][c] = {}]
  BY DEF HandleCall, HandleEnqueues, HandleGivesUp, connVars, instVars, gapVars, redisVars, TypeInv,
     InstTypes
<1>2. CASE ~(i = inst /\ c = "gap")
  <2>1. handing'[inst]["gap"] = handing[inst]["gap"]
    BY <1>1, <1>2 DEF TypeInv, QueueTypes
  <2> QED
    BY <1>1, <2>1, CoverKept DEF RunLive
<1>3. CASE i = inst /\ c = "gap"
  <2>1. CASE gap /\ RunLive
    <3>1. life = "up" /\ ~quit[inst] /\ inst \in known /\ worker[inst].at # "ended"
      BY <1>1, <2>1 DEF LifeInv
    <3>2. HandleEnqueues(i, c)
      BY <1>3, <2>1, <3>1 DEF HandleCall, HandleGivesUp, ContextDone
    <3>3. PICK batch : batch = handing[inst]["gap"]
      OBVIOUS
    <3>4. batch \in SUBSET Updates /\ channel[inst] \in Seq(SUBSET Updates)
      BY <1>1, <3>3 DEF TypeInv, QueueTypes
    <3>5. channel'[inst] = Append(channel[inst], batch)
      BY <1>1, <1>3, <3>2, <3>3 DEF HandleEnqueues, TypeInv, QueueTypes
    <3>6. batch \in SetOf(channel'[inst])
      <4>1. \A b \in SUBSET Updates : SetOf(Append(channel[inst], b)) = SetOf(channel[inst]) \cup {b}
        BY <3>4, QueueEnds
      <4> QED
        BY <3>4, <3>5, <4>1 DEF SetOf
    <3>7. \A u \in batch : Safe(u)'
      <4>1. \A u \in batch : u \in OnItsWay(inst)'
        BY <1>1, <3>6 DEF OnItsWay
      <4> QED
        BY <1>1, <3>1, <4>1 DEF Safe
    <3>8. \A u \in Must : u \notin Silent
      BY DEF Must
    <3>9. StoredInv' /\ PtsInv'
      BY <1>1, <3>8, SafeKept DEF SkipInv, StoredInv, PtsInv, RunLive
    <3>10. StoringInv'
      BY <1>1, <3>3, <3>7, <3>8, SafeKept DEF SkipInv, StoringInv, RunLive
    <3> QED
      BY <3>9, <3>10 DEF SkipInv
  <2>2. CASE ~(gap /\ RunLive)
    BY <1>1, <2>2, CoverKept DEF RunLive
  <2> QED
    BY <2>1, <2>2
<1> QED
  BY <1>2, <1>3

LEMMA SkipStep == TypeInv /\ LifeInv /\ SkipInv /\ [Next]_vars => SkipInv'
<1> SUFFICES ASSUME TypeInv, LifeInv, SkipInv, [Next]_vars PROVE SkipInv'
  OBVIOUS
<1>1. CASE \E i \in Instances : UpdateWorker(i)
  BY <1>1, WorkerLeaves, CoverKept DEF connVars, instVars, gapVars, RunLive
<1>2. CASE Connection \/ UNCHANGED vars
  <2>1. UNCHANGED <<inst, gap, pts, storing, handing, storedPts>>
    BY <1>2 DEF Connection, TelegramSends, Connect, Authorize, ConnectionBreaks, Reconnect, RunCancelled,
       RunEnds, Push, vars, instVars, gapVars, queueVars, redisVars
  <2>2. RunLive' => RunLive \/ conn = "down"
    BY <1>2 DEF RunLive, Connection, TelegramSends, Connect, Authorize, ConnectionBreaks, Reconnect,
       RunCancelled, RunEnds, Push, vars, connVars
  <2> QED
    BY <2>1, <2>2, CoverKept DEF LifeInv
<1>3. CASE Feeder
  <2>1. UNCHANGED <<inst, conn, gap, pts, storing, storedPts>>
    BY <1>3 DEF Feeder, Pop, WaitForWake, FeedGapManager, FeedHandle, instVars, connVars, gapVars, redisVars
  <2>2. UNCHANGED handing \/ ~gap
    BY <1>3 DEF Feeder, Pop, WaitForWake, FeedGapManager, FeedHandle, queueVars
  <2> QED
    BY <2>1, <2>2, CoverKept DEF RunLive
<1>4. CASE Process
  <2>1. UNCHANGED storedPts
    BY <1>4 DEF Process, StopCancels, StopQuits, RestartBot, ProcessEnds, StartProcess, redisVars
  <2>2. gap' /\ RunLive' =>
          gap /\ RunLive /\ UNCHANGED <<pts, storing>> /\ handing'[inst']["gap"] = handing[inst]["gap"]
    BY <1>4 DEF Process, StopCancels, StopQuits, RestartBot, ProcessEnds, StartProcess, NewInstance,
       connVars, gapVars, queueVars, RunLive
  <2> QED
    BY <2>1, <2>2, CoverKept
<1> QED
  BY <1>1, <1>2, <1>3, <1>4, SkipGap, SkipHandle DEF Next

(* The stored pts never covers an update that could still be asked for and *)
(* is neither in the stream, nor with a worker that will get to it, nor    *)
(* reported: whatever breaks, for any number of instances and updates.     *)
THEOREM StoredPtsSkipsNothing == Spec => []NothingSkipped
<1>1. TypeInv /\ SkipInv => NothingSkipped
  BY DEF TypeInv, InstTypes, SkipInv, StoredInv, Safe, Must, NothingSkipped
<1>2. Spec => [](TypeInv /\ LifeInv /\ SkipInv)
  BY TypeInit, TypeStep, LifeInit, LifeStep, SkipInit, SkipStep, PTL DEF Spec
<1> QED
  BY <1>1, <1>2, PTL
===============================================================================
