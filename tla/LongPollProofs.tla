---------------------------- MODULE LongPollProofs ----------------------------
(***************************************************************************)
(* Proofs about LongPoll, for any number of updates and calls, any size of *)
(* the pages and of the stream, any limits, and whatever fails.            *)
(***************************************************************************)
EXTENDS LongPoll, FiniteSetTheorems, SequenceTheorems, TLAPS

LEMMA PollConstants ==
  /\ MaxUpdates \in Nat /\ MaxStreamLen \in Nat \ {0} /\ PageSize \in Nat \ {0}
  /\ Limits \subseteq 1..PageSize /\ Hidden \subseteq Updates
  /\ NoCall \notin Calls /\ MaxAbandoned \in Nat
BY PollAssumption DEF PollAssumption

USE PollConstants

-----------------------------------------------------------------------------
(* Sets of entries are finite and have a first and a last one.             *)
LEMMA FiniteEntries ==
  ASSUME NEW n \in Nat, NEW S \in SUBSET (1..n)
  PROVE  IsFiniteSet(S) /\ Cardinality(S) \in Nat
<1>1. IsFiniteSet(1..n)
  BY FS_Interval
<1> QED
  BY <1>1, FS_Subset, FS_CardinalityType

LEMMA LeastEntry == ASSUME NEW S, S \subseteq Nat, S # {} PROVE \E e \in S : \A f \in S : e <= f
<1> DEFINE Less == OpToRel(<, Nat)
<1>1. IsWellFoundedOn(Less, Nat)
  BY NatLessThanWellFounded
<1>2. ASSUME NEW e \in Nat, NEW f \in Nat, f < e PROVE <<f, e>> \in Less
  BY <1>2 DEF OpToRel
<1> HIDE DEF Less
<1>3. PICK e \in S : \A f \in S : ~(<<f, e>> \in Less)
  BY <1>1, WFMin
<1>4. ASSUME NEW f \in S PROVE e <= f
  <2>1. ~(f < e)
    BY <1>2, <1>3
  <2> QED
    BY <2>1
<1> QED
  BY <1>4

LEMMA LastEntry ==
  ASSUME NEW n \in Nat, NEW S \in SUBSET (1..n), S # {}
  PROVE  Last(S) \in S /\ \A e \in S : Last(S) >= e
<1> DEFINE T == {n - e : e \in S}
<1>1. T \subseteq Nat /\ T # {}
  <2>1. PICK s \in S : TRUE
    OBVIOUS
  <2>2. n - s \in T
    OBVIOUS
  <2>3. \A e \in S : n - e \in Nat
    OBVIOUS
  <2> QED
    BY <2>2, <2>3
<1>2. PICK t \in T : \A f \in T : t <= f
  BY <1>1, LeastEntry
<1>3. PICK e \in S : t = n - e
  BY <1>2
<1>4. \A f \in S : e >= f
  BY <1>2, <1>3
<1> HIDE DEF T
<1>5. \E g \in S : \A f \in S : g >= f
  BY <1>4
<1> QED
  BY <1>5 DEF Last

(* A larger set of entries has more of them.                               *)
LEMMA MoreEntries ==
  ASSUME NEW n \in Nat, NEW S \in SUBSET (1..n), NEW T \in SUBSET S
  PROVE  Cardinality(T) <= Cardinality(S) /\ (T # S => Cardinality(T) < Cardinality(S))
<1>1. IsFiniteSet(S) /\ Cardinality(S) \in Nat /\ T \in SUBSET (1..n)
  BY FiniteEntries
<1>2. Cardinality(T) \in Nat
  BY <1>1, FiniteEntries
<1>3. Cardinality(T) <= Cardinality(S) /\ (Cardinality(S) = Cardinality(T) => S = T)
  BY <1>1, FS_Subset
<1> QED
  BY <1>1, <1>2, <1>3

(* XRANGE: the page is a part of the rest of the stream without a hole, at *)
(* most as long as was asked for, and shorter only at the end of the       *)
(* stream.                                                                 *)
IsPage(page, S, cursor, m) ==
  /\ page \subseteq {e \in S : e > cursor}
  /\ \A e \in page, f \in S : cursor < f /\ f <= e => f \in page
  /\ Cardinality(page) <= m
  /\ Cardinality(page) < m => page = {e \in S : e > cursor}

LEMMA Page ==
  ASSUME NEW n \in Nat, NEW S \in SUBSET (1..n), NEW cursor \in Nat, NEW m \in Nat
  PROVE  IsPage(XRangeN(S, cursor, m), S, cursor, m)
<1> DEFINE Between(x) == {y \in S : cursor < y /\ y < x}
           P == {e \in S : e > cursor /\ Cardinality(Between(e)) < m}
<1>1. P = XRangeN(S, cursor, m)
  BY DEF XRangeN
<1>2. \A x : Between(x) \in SUBSET (1..n) /\ Cardinality(Between(x)) \in Nat
  BY FiniteEntries
<1>3. P \in SUBSET (1..n) /\ Cardinality(P) \in Nat
  <2>1. P \in SUBSET (1..n)
    OBVIOUS
  <2> QED
    BY <2>1, FiniteEntries
<1>4. ASSUME NEW e \in P, NEW f \in S, cursor < f, f <= e PROVE f \in P
  <2>1. Between(f) \subseteq Between(e)
    <3>1. \A y \in S : y < f => y < e
      <4>1. e \in Nat /\ f \in Nat /\ \A y \in S : y \in Nat
        OBVIOUS
      <4> HIDE DEF P, Between
      <4> QED
        BY <1>4, <4>1
    <3> QED
      BY <3>1
  <2>2. Cardinality(Between(f)) <= Cardinality(Between(e))
    <3> HIDE DEF Between
    <3> QED
      BY <1>2, <2>1, MoreEntries
  <2>3. Cardinality(Between(f)) < m
    <3>1. Cardinality(Between(e)) < m
      OBVIOUS
    <3> HIDE DEF Between
    <3> QED
      BY <1>2, <2>2, <3>1
  <2> QED
    BY <1>4, <2>3
<1>5. Cardinality(P) <= m
  <2>1. CASE P = {}
    <3>1. Cardinality(P) = 0
      BY <2>1, FS_EmptySet
    <3> HIDE DEF P
    <3> QED
      BY <3>1
  <2>2. CASE P # {}
    <3>1. PICK e : e = Last(P)
      OBVIOUS
    <3>2. e \in P /\ \A f \in P : f <= e
      <4>1. Last(P) \in P /\ \A f \in P : Last(P) >= f
        <5> HIDE DEF P
        <5> QED
          BY <1>3, <2>2, LastEntry
      <4>2. P \subseteq Nat
        BY <1>3
      <4> HIDE DEF P
      <4> QED
        BY <3>1, <4>1, <4>2
    <3>3. P \ {e} \subseteq Between(e)
      <4>1. ASSUME NEW f \in P \ {e} PROVE f \in S /\ cursor < f /\ f < e
        <5>1. f \in S /\ cursor < f /\ f \in Nat /\ e \in Nat
          BY <3>2
        <5>2. f <= e /\ f # e
          BY <3>2, <4>1
        <5> HIDE DEF P, Between
        <5> QED
          BY <5>1, <5>2
      <4> QED
        BY <4>1
    <3>4. Cardinality(Between(e)) < m
      BY <3>2
    <3>5. Cardinality(P \ {e}) <= Cardinality(Between(e)) /\ Cardinality(P \ {e}) \in Nat
      <4>1. P \ {e} \in SUBSET (1..n)
        OBVIOUS
      <4> HIDE DEF P, Between
      <4> QED
        BY <1>2, <3>3, <4>1, MoreEntries, FiniteEntries
    <3>6. Cardinality(P \ {e}) = Cardinality(P) - 1
      <4> HIDE DEF P
      <4> QED
        BY <1>3, <3>2, FiniteEntries, FS_RemoveElement
    <3> HIDE DEF P, Between
    <3> QED
      BY <1>2, <1>3, <3>4, <3>5, <3>6
  <2> QED
    BY <2>1, <2>2
<1>6. ASSUME Cardinality(P) < m PROVE P = {e \in S : e > cursor}
  <2> DEFINE Rest == {e \in S : e > cursor /\ e \notin P}
  <2>1. SUFFICES ASSUME Rest # {} PROVE FALSE
    OBVIOUS
  <2>2. PICK e \in Rest : \A f \in Rest : e <= f
    <3>1. Rest \subseteq Nat
      <4>1. Rest \subseteq S
        OBVIOUS
      <4> HIDE DEF Rest, P
      <4> QED
        BY <4>1
    <3> HIDE DEF Rest
    <3> QED
      BY <2>1, <3>1, LeastEntry
  <2>3. Between(e) \subseteq P
    <3>1. ASSUME NEW f \in Between(e), f \notin P PROVE FALSE
      <4>1. f \in Rest /\ f < e /\ f \in Nat /\ e \in Nat
        BY <3>1
      <4>2. e <= f
        BY <2>2, <4>1
      <4> QED
        BY <4>1, <4>2
    <3> QED
      BY <3>1
  <2>4. Cardinality(Between(e)) <= Cardinality(P)
    <3> HIDE DEF P, Between
    <3> QED
      BY <1>3, <2>3, MoreEntries
  <2>5. Cardinality(Between(e)) < m
    <3> HIDE DEF P, Between
    <3> QED
      BY <1>2, <1>3, <1>6, <2>4
  <2> QED
    BY <2>5
<1>7. P \subseteq {e \in S : e > cursor}
  OBVIOUS
<1> HIDE DEF P
<1>8. IsPage(P, S, cursor, m)
  BY <1>4, <1>5, <1>6, <1>7 DEF IsPage
<1> QED
  BY <1>1, <1>8

(* Entries have a rank: their place in the order.                          *)
Rank(S, e) == Cardinality({f \in S : f <= e})

LEMMA Ranks ==
  ASSUME NEW n \in Nat, NEW S \in SUBSET (1..n)
  PROVE  /\ \A e \in S : Rank(S, e) \in 1..Cardinality(S)
         /\ \A e, f \in S : e < f => Rank(S, e) < Rank(S, f)
         /\ \A k \in 1..Cardinality(S) : \E e \in S : Rank(S, e) = k
<1> DEFINE UpTo(e) == {f \in S : f <= e}
           N == Cardinality(S)
           R == [e \in S |-> Rank(S, e)]
<1>1. \A e : UpTo(e) \in SUBSET S /\ UpTo(e) \in SUBSET (1..n) /\ Rank(S, e) = Cardinality(UpTo(e))
  BY DEF Rank
<1>2. N \in Nat /\ IsFiniteSet(S) /\ S \subseteq Nat
  <2>1. S \subseteq Nat
    OBVIOUS
  <2> QED
    BY <2>1, FiniteEntries
<1>3. ASSUME NEW e \in S PROVE Rank(S, e) \in 1..N
  <2>1. Rank(S, e) <= N /\ Rank(S, e) \in Nat
    <3>1. UpTo(e) \in SUBSET S /\ UpTo(e) \in SUBSET (1..n) /\ Rank(S, e) = Cardinality(UpTo(e))
      BY <1>1
    <3> HIDE DEF UpTo
    <3>2. Cardinality(UpTo(e)) <= Cardinality(S)
      BY <3>1, MoreEntries
    <3>3. Cardinality(UpTo(e)) \in Nat
      BY <3>1, FiniteEntries
    <3> QED
      BY <3>1, <3>2, <3>3
  <2>2. UpTo(e) # {}
    BY <1>2
  <2>3. Rank(S, e) # 0
    <3>1. IsFiniteSet(UpTo(e))
      <4> HIDE DEF UpTo
      <4> QED
        BY <1>1, FiniteEntries
    <3> HIDE DEF UpTo
    <3> QED
      BY <1>1, <2>2, <3>1, FS_EmptySet
  <2> HIDE DEF UpTo, N
  <2> QED
    BY <1>2, <2>1, <2>3
<1>4. ASSUME NEW e \in S, NEW f \in S, e < f PROVE Rank(S, e) < Rank(S, f)
  <2>1. UpTo(e) \subseteq UpTo(f) /\ f \in UpTo(f) /\ f \notin UpTo(e)
    <3>1. e \in Nat /\ f \in Nat /\ \A g \in S : g \in Nat
      BY <1>2
    <3>2. \A g \in S : g <= e => g <= f
      BY <1>4, <3>1
    <3>3. f <= f /\ ~(f <= e)
      BY <1>4, <3>1
    <3> QED
      BY <3>2, <3>3
  <2>2. UpTo(e) \in SUBSET UpTo(f) /\ UpTo(e) # UpTo(f)
    BY <2>1
  <2>3. UpTo(f) \in SUBSET (1..n)
    BY <1>1
  <2>4. Rank(S, e) = Cardinality(UpTo(e)) /\ Rank(S, f) = Cardinality(UpTo(f))
    BY <1>1
  <2> HIDE DEF UpTo
  <2> QED
    BY <2>2, <2>3, <2>4, MoreEntries
<1>5. R \in Injection(S, 1..N)
  <2>1. R \in [S -> 1..N]
    BY <1>3
  <2>2. ASSUME NEW e \in S, NEW f \in S, R[e] = R[f] PROVE e = f
    <3>1. Rank(S, e) = Rank(S, f)
      BY <2>2
    <3>2. e \in Nat /\ f \in Nat /\ Rank(S, e) \in Nat /\ Rank(S, f) \in Nat
      BY <1>2, <1>3
    <3>3. ~(e < f) /\ ~(f < e)
      BY <1>4, <3>1, <3>2
    <3> QED
      BY <3>2, <3>3
  <2> HIDE DEF R
  <2>3. \A e, f \in S : R[e] = R[f] => e = f
    BY <2>2
  <2>4. IsInjective(R)
    BY <2>1, <2>3 DEF IsInjective
  <2> QED
    BY <2>1, <2>4 DEF Injection
<1>6. R \in Surjection(S, 1..N)
  <2>1. IsFiniteSet(1..N) /\ Cardinality(1..N) = N
    BY <1>2, FS_Interval
  <2> HIDE DEF R
  <2> QED
    BY <1>5, <2>1, FS_Injection
<1>7. \A k \in 1..N : \E e \in S : R[e] = k
  <2> HIDE DEF R
  <2> QED
    BY <1>6 DEF Surjection
<1> QED
  BY <1>3, <1>4, <1>7

-----------------------------------------------------------------------------
(* Types.  Between its steps a call has found nothing unless it is about   *)
(* to delete, to read on, to filter or to answer.                          *)
Entries == 1..Len(log)

CallType ==
  [at : {"idle", "ack", "delete", "signal", "read", "filter", "wait", "answer"},
   offset : 0..MaxUpdates + 1, limit : 0..PageSize, from : Nat, done : BOOLEAN,
   cursor : Nat, found : SUBSET Nat, acked : Nat]

RedisTypes ==
  /\ nextID \in 0..MaxUpdates /\ log \in Seq(Updates) /\ stream \subseteq Entries
  /\ worker \in [Workers -> [id : 0..MaxUpdates, persisted : BOOLEAN]]
  /\ unannounced \subseteq Entries /\ discarded \subseteq Updates
AppTypes ==
  /\ signalled \subseteq Calls /\ current \in Calls \cup {NoCall}
  /\ answer \in Seq(Updates) /\ offset \in 0..MaxUpdates + 1
  /\ seen \subseteq Updates /\ abandoned \in 0..MaxAbandoned

(* What can be said of a call and the entries of the log.                  *)
CallSound(k) ==
  /\ k.found \subseteq Entries /\ k.from <= Len(log) /\ k.cursor <= Len(log) /\ k.acked <= Len(log)
  /\ k.at \notin {"delete", "read", "filter", "answer"} => k.found = {}
  /\ k.at = "delete" => k.found # {}
  /\ k.at # "idle" => k.limit # 0
  /\ k.at \in {"read", "filter", "answer"} => Cardinality(k.found) <= k.limit
  /\ k.cursor # 0 /\ k.at = "read" => k.found = {}
  /\ k.at \in {"read", "filter", "wait"} => k.acked = 0
CallTypes == call \in [Calls -> CallType] /\ \A c \in Calls : CallSound(call[c])

TypeInv == RedisTypes /\ AppTypes /\ CallTypes

LEMMA LogEntries ==
  ASSUME log \in Seq(Updates)
  PROVE  DOMAIN log = Entries /\ Len(log) \in Nat /\ Entries \subseteq Nat /\ \A e \in Entries : log[e] \in Updates
BY DEF Entries

LEMMA TypeInit == Init => TypeInv
<1> SUFFICES ASSUME Init PROVE TypeInv
  OBVIOUS
<1>1. log = <<>> /\ Len(log) = 0 /\ log \in Seq(Updates) /\ answer = <<>> /\ answer \in Seq(Updates)
  BY DEF Init
<1>2. RedisTypes /\ AppTypes
  BY <1>1 DEF Init, RedisTypes, AppTypes
<1>3. NotRunning \in CallType
  BY DEF NotRunning, CallType
<1>4. CallSound(NotRunning)
  BY <1>1 DEF CallSound, NotRunning
<1> QED
  BY <1>2, <1>3, <1>4 DEF Init, TypeInv, CallTypes

LEMMA TypesOK == TypeInv => TypeOK
<1> SUFFICES ASSUME TypeInv PROVE TypeOK
  OBVIOUS
<1>1. DOMAIN log = Entries
  BY LogEntries DEF TypeInv, RedisTypes
<1>2. ASSUME NEW c \in Calls
      PROVE  /\ call[c].at \in {"idle", "ack", "delete", "signal", "read", "filter", "wait", "answer"}
             /\ call[c].found \subseteq DOMAIN log
             /\ call[c].at \in {"read", "filter", "answer"} => Cardinality(call[c].found) <= call[c].limit
  BY <1>1 DEF TypeInv, CallTypes, CallType, CallSound
<1> QED
  BY <1>1, <1>2 DEF TypeInv, TypeOK, RedisTypes, AppTypes

(* A step of a call changes nothing of the others.                         *)
LEMMA OneCall ==
  ASSUME TypeInv, NEW c \in Calls, GetUpdates(c) \/ CallGetUpdates(c)
  PROVE  /\ call' = [call EXCEPT ![c] = call'[c]]
         /\ \A d \in Calls \ {c} : call'[d] = call[d]
         /\ UNCHANGED <<workerVars, discarded, offset, seen, abandoned>>
         /\ stream' \subseteq stream /\ signalled' \in {signalled, signalled \ {c}}
<1> USE DEF appVars
<1>1. call \in [Calls -> CallType]
  BY DEF TypeInv, CallTypes
<1>2. \E k : call' = [call EXCEPT ![c] = k]
  <2>1. \A at : \E k : Goto(c, at) = [call EXCEPT ![c] = k]
    BY DEF Goto
  <2>2. \A found : \E k : Answer(c, found) = [call EXCEPT ![c] = k]
    BY DEF Answer
  <2>3. CASE CallGetUpdates(c) \/ AckDelete(c) \/ AckFails(c) \/ TakeSignal(c) \/ Respond(c)
    BY <2>3 DEF CallGetUpdates, AckDelete, AckFails, TakeSignal, Respond
  <2>4. CASE AckRead(c) \/ ReadPage(c)
    BY <2>1, <2>4 DEF AckRead, ReadPage
  <2>5. CASE Filter(c) \/ ReadFails(c) \/ Wake(c) \/ Recheck(c) \/ Deadline(c)
    BY <2>1, <2>2, <2>5 DEF Filter, ReadFails, Wake, Recheck, Deadline
  <2> QED
    BY <2>3, <2>4, <2>5 DEF GetUpdates
<1>3. /\ UNCHANGED <<workerVars, discarded, offset, seen, abandoned>>
      /\ stream' \subseteq stream /\ signalled' \in {signalled, signalled \ {c}}
  BY DEF CallGetUpdates, GetUpdates, AckRead, AckDelete, AckFails, TakeSignal, ReadPage, Filter, ReadFails,
     Wake, Recheck, Deadline, Respond
<1> QED
  BY <1>1, <1>2, <1>3

LEMMA Answering ==
  ASSUME TypeInv, NEW c \in Calls, NEW found, call' = Answer(c, found)
  PROVE  /\ call'[c].at = "answer" /\ call'[c].found = found /\ call'[c].offset = 0
         /\ call'[c].cursor = 0 /\ call'[c].from = 0 /\ call'[c].acked = 0
<1>1. call'[c] = [NotRunning EXCEPT !.at = "answer", !.limit = call[c].limit, !.found = found]
  BY DEF Answer, TypeInv, CallTypes
<1> QED
  BY <1>1 DEF NotRunning

LEMMA Beginning ==
  ASSUME TypeInv, NEW c \in Calls, CallGetUpdates(c)
  PROVE  /\ call'[c].at = (IF offset > 0 THEN "ack" ELSE "signal") /\ call'[c].found = {}
         /\ call'[c].offset = offset /\ call'[c].cursor = 0 /\ call'[c].from = 0
         /\ call'[c].acked = Len(log)
<1>1. PICK limit \in Limits :
        call' = [call EXCEPT ![c] = [NotRunning EXCEPT
          !.at = IF offset > 0 THEN "ack" ELSE "signal",
          !.offset = offset, !.limit = limit, !.acked = Len(log)]]
  BY DEF CallGetUpdates
<1>2. call'[c] = [NotRunning EXCEPT !.at = IF offset > 0 THEN "ack" ELSE "signal",
                    !.offset = offset, !.limit = limit, !.acked = Len(log)]
  BY <1>1 DEF TypeInv, CallTypes
<1> QED
  BY <1>2 DEF NotRunning

(* The steps of the others leave the calls alone.                          *)
LEMMA Elsewhere ==
  ASSUME TypeInv, DropPending \/ ProcessUpdate \/ Abandon \/ RestartApplication \/ UNCHANGED vars
                  \/ \E w \in Workers : UpdateWorker(w)
  PROVE  UNCHANGED call
BY DEF DropPending, ProcessUpdate, Abandon, RestartApplication, UpdateWorker, Allocate, AppendEntry,
   AppendFails, Broadcast, BatchPanics, vars

(* XADD: the new entry is the last one, and it is in the stream.           *)
LEMMA Appending ==
  ASSUME TypeInv, NEW w \in Workers, AppendEntry(w)
  PROVE  /\ log' = Append(log, worker[w].id) /\ log' \in Seq(Updates)
         /\ Len(log') = Len(log) + 1 /\ log'[Len(log) + 1] = worker[w].id /\ worker[w].id \in Updates
         /\ \A e \in Entries : log'[e] = log[e]
         /\ Entries' = Entries \cup {Len(log) + 1} /\ Len(log) + 1 \notin Entries
         /\ stream' \subseteq stream \cup {Len(log) + 1} /\ Len(log) + 1 \in stream'
<1>1. worker[w].id \in Updates /\ log \in Seq(Updates) /\ stream \subseteq Entries /\ Len(log) \in Nat
  <2>1. worker[w] \in [id : 0..MaxUpdates, persisted : BOOLEAN] /\ worker[w].id # 0
    BY DEF AppendEntry, TypeInv, RedisTypes
  <2>2. worker[w].id \in Updates
    BY <2>1 DEF Updates
  <2>3. log \in Seq(Updates) /\ stream \subseteq Entries
    BY DEF TypeInv, RedisTypes
  <2> QED
    BY <2>2, <2>3
<1>2. /\ log' = Append(log, worker[w].id) /\ log' \in Seq(Updates)
      /\ Len(log') = Len(log) + 1 /\ log'[Len(log) + 1] = worker[w].id
      /\ \A e \in Entries : log'[e] = log[e]
  <2>1. PICK id \in Updates : id = worker[w].id
    BY <1>1
  <2>2. log' = Append(log, id)
    BY <2>1 DEF AppendEntry
  <2>3. /\ Append(log, id) \in Seq(Updates) /\ Len(Append(log, id)) = Len(log) + 1
        /\ Append(log, id)[Len(log) + 1] = id /\ \A e \in 1..Len(log) : Append(log, id)[e] = log[e]
    BY <1>1
  <2> QED
    BY <2>1, <2>2, <2>3 DEF Entries
<1>3. Entries' = Entries \cup {Len(log) + 1} /\ Len(log) + 1 \notin Entries
  BY <1>1, <1>2 DEF Entries
<1>4. PICK new \in Nat : new = Len(log) + 1
  BY <1>1
<1>5. \A e \in stream : new >= e
  BY <1>1, <1>4 DEF Entries
<1>6. stream' \in AppendUpdate(stream, new, MaxStreamLen)
  BY <1>2, <1>4 DEF AppendEntry
<1>7. stream' \subseteq stream \cup {new} /\ new \in stream'
  <2>1. PICK grown : grown = stream \cup {new}
    OBVIOUS
  <2>2. stream' = grown \/ \E oldest \in grown : stream' = {e \in grown : e >= oldest}
    BY <1>6, <2>1 DEF AppendUpdate
  <2>3. \A oldest \in grown : new >= oldest
    BY <1>4, <1>5, <2>1
  <2> QED
    BY <2>1, <2>2, <2>3
<1> QED
  BY <1>1, <1>2, <1>3, <1>4, <1>7

(* The response names the updates in the order of their entries.           *)
LEMMA Responses ==
  ASSUME log \in Seq(Updates), NEW S \in SUBSET Entries
  PROVE  /\ Inorder(S) \in Seq(Updates) /\ DOMAIN Inorder(S) = 1..Cardinality(S)
         /\ \A k \in 1..Cardinality(S) : \E e \in S :
              /\ Inorder(S)[k] = log[e]
              /\ \A g \in S : g < e => \E j \in 1..k - 1 : Inorder(S)[j] = log[g]
<1> DEFINE At(k) == CHOOSE e \in S : Rank(S, e) = k
           N == Cardinality(S)
<1>1. Len(log) \in Nat /\ S \in SUBSET (1..Len(log)) /\ \A e \in S : log[e] \in Updates
  BY LogEntries DEF Entries
<1>2. N \in Nat
  BY <1>1, FiniteEntries
<1>3. Inorder(S) = [k \in 1..N |-> log[At(k)]]
  BY DEF Inorder, Rank
<1>4. /\ \A e \in S : Rank(S, e) \in 1..N
      /\ \A e, f \in S : e < f => Rank(S, e) < Rank(S, f)
      /\ \A k \in 1..N : \E e \in S : Rank(S, e) = k
  BY <1>1, Ranks
<1>5. \A k \in 1..N : At(k) \in S /\ Rank(S, At(k)) = k
  BY <1>4
<1>6. ASSUME NEW e \in S PROVE At(Rank(S, e)) = e
  <2>1. At(Rank(S, e)) \in S /\ Rank(S, At(Rank(S, e))) = Rank(S, e)
    BY <1>4, <1>5
  <2>2. PICK f \in S : f = At(Rank(S, e)) /\ Rank(S, f) = Rank(S, e)
    BY <2>1
  <2>3. e \in Nat /\ f \in Nat /\ Rank(S, e) \in Nat
    BY <1>1, <1>4
  <2>4. ~(e < f) /\ ~(f < e)
    BY <1>4, <2>2, <2>3
  <2> QED
    BY <2>2, <2>3, <2>4
<1> HIDE DEF At, N
<1>7. Inorder(S) \in [1..N -> Updates]
  BY <1>1, <1>3, <1>5
<1>8. Inorder(S) \in Seq(Updates)
  BY <1>2, <1>7, SeqDef
<1>9. ASSUME NEW k \in 1..N
      PROVE  \E e \in S : /\ Inorder(S)[k] = log[e]
                          /\ \A g \in S : g < e => \E j \in 1..k - 1 : Inorder(S)[j] = log[g]
  <2>1. PICK e \in S : e = At(k) /\ Rank(S, e) = k
    BY <1>5
  <2>2. Inorder(S)[k] = log[e]
    BY <1>3, <2>1
  <2>3. ASSUME NEW g \in S, g < e PROVE \E j \in 1..k - 1 : Inorder(S)[j] = log[g]
    <3>1. PICK j \in 1..N : j = Rank(S, g)
      BY <1>4
    <3>2. j < k
      BY <1>4, <2>1, <2>3, <3>1
    <3>3. j \in 1..k - 1
      BY <1>2, <3>2
    <3>4. Inorder(S)[j] = log[g]
      BY <1>3, <1>6, <3>1
    <3> QED
      BY <3>3, <3>4
  <2> QED
    BY <2>2, <2>3
<1> QED
  BY <1>7, <1>8, <1>9 DEF N

-----------------------------------------------------------------------------
(* A page of AckUpdates, and what of it will be deleted.                   *)
AckPage(c) == XRangeN(stream, call[c].from, PageSize)
Old(c) == {e \in AckPage(c) : \A f \in AckPage(c) : f <= e => log[f] < call[c].offset}

LEMMA Acknowledging ==
  ASSUME TypeInv, NEW c \in Calls, AckRead(c)
  PROVE  /\ call[c].at = "ack"
         /\ AckPage(c) \subseteq {e \in stream : e > call[c].from}
         /\ \A e \in AckPage(c), f \in stream : call[c].from < f /\ f <= e => f \in AckPage(c)
         /\ Cardinality(AckPage(c)) < PageSize \/ AckPage(c) = {} =>
              AckPage(c) = {e \in stream : e > call[c].from}
         /\ Old(c) # {} => Last(Old(c)) \in Old(c) /\ \A e \in Old(c) : Last(Old(c)) >= e
         /\ call'[c] = IF Old(c) = {} THEN [call[c] EXCEPT !.at = "signal"]
                       ELSE [call[c] EXCEPT !.at = "delete", !.found = Old(c),
                               !.done = (Old(c) # AckPage(c) \/ Cardinality(AckPage(c)) < PageSize)]
         /\ UNCHANGED <<log, stream, signalled, current, answer>>
<1>1. Len(log) \in Nat /\ stream \in SUBSET (1..Len(log)) /\ call[c].from \in Nat
  BY LogEntries DEF TypeInv, RedisTypes, CallTypes, CallType, Entries
<1>2. /\ AckPage(c) \subseteq {e \in stream : e > call[c].from}
      /\ \A e \in AckPage(c), f \in stream : call[c].from < f /\ f <= e => f \in AckPage(c)
      /\ Cardinality(AckPage(c)) < PageSize => AckPage(c) = {e \in stream : e > call[c].from}
  <2>0. PICK n \in Nat : n = Len(log)
    BY <1>1
  <2>1. PICK S \in SUBSET (1..n), from \in Nat, m \in Nat : S = stream /\ from = call[c].from /\ m = PageSize
    BY <1>1, <2>0
  <2>2. IsPage(XRangeN(S, from, m), S, from, m)
    BY Page
  <2>3. IsPage(AckPage(c), stream, call[c].from, PageSize)
    BY <2>1, <2>2 DEF AckPage
  <2> QED
    BY <2>3 DEF IsPage
<1>3. AckPage(c) = {} => Cardinality(AckPage(c)) < PageSize
  BY FS_EmptySet
<1>4. Old(c) # {} => Last(Old(c)) \in Old(c) /\ \A e \in Old(c) : Last(Old(c)) >= e
  <2>1. Old(c) \in SUBSET (1..Len(log))
    BY <1>1, <1>2 DEF Old
  <2> QED
    BY <1>1, <2>1, LastEntry
<1>5. /\ call[c].at = "ack" /\ UNCHANGED <<log, stream, signalled, current, answer>>
      /\ call' = IF Old(c) = {} THEN Goto(c, "signal")
                 ELSE [call EXCEPT ![c].at = "delete", ![c].found = Old(c),
                         ![c].done = (Old(c) # AckPage(c) \/ Cardinality(AckPage(c)) < PageSize)]
  BY DEF AckRead, Old, AckPage, workerVars, appVars
<1>6. call \in [Calls -> CallType]
  BY DEF TypeInv, CallTypes
<1> QED
  BY <1>2, <1>3, <1>4, <1>5, <1>6 DEF Goto

(* A page of ReadUpdates, and what is found with it.                       *)
Start(c) == IF call[c].cursor = 0 THEN call[c].from ELSE call[c].cursor
ReadPart(c) ==
  IF call[c].cursor = 0 THEN ReadUpdatesAfter(stream, call[c].from, PageSize, PageSize)
  ELSE ReadUpdatesAfter(stream, call[c].cursor, call[c].limit, PageSize)
Wanted(c) ==
  call[c].found \cup (IF call[c].cursor = 0 THEN {e \in ReadPart(c) : log[e] >= call[c].offset}
                      ELSE ReadPart(c))
Found(c) == XRangeN(Wanted(c), 0, call[c].limit)
More(c) == call[c].cursor = 0 /\ ReadPart(c) # {} /\ Cardinality(Found(c)) < call[c].limit

LEMMA Reading ==
  ASSUME TypeInv, NEW c \in Calls, ReadPage(c)
  PROVE  /\ call[c].at = "read"
         /\ ReadPart(c) \subseteq {e \in stream : e > Start(c)}
         /\ \A e \in ReadPart(c), f \in stream : Start(c) < f /\ f <= e => f \in ReadPart(c)
         /\ ReadPart(c) = {} => \A e \in stream : ~(e > Start(c))
         /\ Wanted(c) \subseteq Entries /\ Found(c) \subseteq Wanted(c)
         /\ \A e \in Found(c), f \in Wanted(c) : f <= e => f \in Found(c)
         /\ Cardinality(Found(c)) <= call[c].limit
         /\ Found(c) = {} => Wanted(c) = {}
         /\ More(c) => /\ Found(c) = Wanted(c) /\ Last(ReadPart(c)) \in ReadPart(c)
                       /\ \A e \in ReadPart(c) : Last(ReadPart(c)) >= e
         /\ ~More(c) /\ call[c].cursor = 0 /\ Found(c) = {} => ReadPart(c) = {}
         /\ call'[c] = [call[c] EXCEPT !.found = Found(c),
                          !.from = IF More(c) THEN Last(ReadPart(c)) ELSE 0,
                          !.at = IF More(c) THEN "read" ELSE "filter"]
         /\ UNCHANGED <<log, stream, signalled, current, answer>>
<1>1. /\ Len(log) \in Nat /\ stream \in SUBSET (1..Len(log)) /\ Entries \subseteq Nat
      /\ call[c].from \in Nat /\ call[c].cursor \in Nat /\ call[c].found \subseteq Entries
      /\ call[c].limit \in 0..PageSize /\ call \in [Calls -> CallType]
  BY LogEntries DEF TypeInv, RedisTypes, CallTypes, CallType, CallSound, Entries
<1>2. /\ call[c].at = "read" /\ UNCHANGED <<log, stream, signalled, current, answer>>
      /\ call' = [call EXCEPT ![c].found = Found(c),
                    ![c].from = IF More(c) THEN Last(ReadPart(c)) ELSE 0,
                    ![c].at = IF More(c) THEN "read" ELSE "filter"]
  BY DEF ReadPage, Found, Wanted, More, ReadPart, workerVars, appVars
<1>3. call[c].limit \in Nat \ {0}
  BY <1>1, <1>2 DEF TypeInv, CallTypes, CallSound
<1>4. PICK limit \in Nat \ {0} : ReadPart(c) = XRangeN(stream, Start(c), limit)
  <2>1. CASE call[c].cursor = 0
    BY <2>1 DEF ReadPart, Start, ReadUpdatesAfter
  <2>2. CASE call[c].cursor # 0
    BY <1>3, <2>2 DEF ReadPart, Start, ReadUpdatesAfter
  <2> QED
    BY <2>1, <2>2
<1>5. Start(c) \in Nat
  BY <1>1 DEF Start
<1>6. /\ ReadPart(c) \subseteq {e \in stream : e > Start(c)}
      /\ \A e \in ReadPart(c), f \in stream : Start(c) < f /\ f <= e => f \in ReadPart(c)
      /\ Cardinality(ReadPart(c)) < limit => ReadPart(c) = {e \in stream : e > Start(c)}
  <2>0. PICK n \in Nat : n = Len(log)
    BY <1>1
  <2>1. PICK S \in SUBSET (1..n), from \in Nat : S = stream /\ from = Start(c)
    BY <1>1, <1>5, <2>0
  <2>2. PICK m \in Nat : m = limit
    BY <1>4
  <2>3. IsPage(XRangeN(S, from, m), S, from, m)
    BY Page
  <2>4. IsPage(ReadPart(c), stream, Start(c), limit)
    BY <1>4, <2>1, <2>2, <2>3
  <2> QED
    BY <2>4 DEF IsPage
<1>7. ReadPart(c) = {} => \A e \in stream : ~(e > Start(c))
  BY <1>4, <1>6, FS_EmptySet
<1>8. Wanted(c) \subseteq Entries /\ Wanted(c) \in SUBSET (1..Len(log))
  BY <1>1, <1>6 DEF Wanted, Entries
<1>9. /\ Found(c) \subseteq {e \in Wanted(c) : e > 0}
      /\ \A e \in Found(c), f \in Wanted(c) : 0 < f /\ f <= e => f \in Found(c)
      /\ Cardinality(Found(c)) <= call[c].limit
      /\ Cardinality(Found(c)) < call[c].limit => Found(c) = {e \in Wanted(c) : e > 0}
  <2>0. PICK n \in Nat : n = Len(log)
    BY <1>1
  <2>1. PICK S \in SUBSET (1..n), m \in Nat : S = Wanted(c) /\ m = call[c].limit
    BY <1>1, <1>3, <1>8, <2>0
  <2>2. PICK z \in Nat : z = 0
    OBVIOUS
  <2>3. IsPage(XRangeN(S, z, m), S, z, m)
    BY Page
  <2>4. IsPage(Found(c), Wanted(c), 0, call[c].limit)
    BY <2>1, <2>2, <2>3 DEF Found
  <2> QED
    BY <2>4 DEF IsPage
<1>10. \A e \in Wanted(c) : e > 0
  BY <1>1, <1>8
<1>11. Cardinality({}) < call[c].limit
  BY <1>3, FS_EmptySet
<1>12. More(c) => Last(ReadPart(c)) \in ReadPart(c) /\ \A e \in ReadPart(c) : Last(ReadPart(c)) >= e
  <2>1. ReadPart(c) \in SUBSET (1..Len(log))
    BY <1>1, <1>6
  <2> QED
    BY <1>1, <2>1, LastEntry DEF More
<1>13. call'[c] = [call[c] EXCEPT !.found = Found(c), !.from = IF More(c) THEN Last(ReadPart(c)) ELSE 0,
                                  !.at = IF More(c) THEN "read" ELSE "filter"]
  BY <1>1, <1>2
<1>14. /\ Found(c) \subseteq Wanted(c)
       /\ \A e \in Found(c), f \in Wanted(c) : f <= e => f \in Found(c)
       /\ Found(c) = {} => Wanted(c) = {}
       /\ More(c) => Found(c) = Wanted(c)
       /\ ~More(c) /\ call[c].cursor = 0 /\ Found(c) = {} => ReadPart(c) = {}
  BY <1>9, <1>10, <1>11 DEF More
<1> QED
  BY <1>2, <1>6, <1>7, <1>8, <1>9, <1>12, <1>13, <1>14

-----------------------------------------------------------------------------
(* Types, step by step.                                                    *)
LEMMA NotRunningType == NotRunning \in CallType
BY DEF NotRunning, CallType

LEMMA Answers ==
  ASSUME NEW limit \in 0..PageSize, NEW found \in SUBSET Nat
  PROVE  [NotRunning EXCEPT !.at = "answer", !.limit = limit, !.found = found] \in CallType
BY NotRunningType DEF CallType

LEMMA Beginnings ==
  ASSUME NEW at \in {"ack", "signal"}, NEW first \in 0..MaxUpdates + 1, NEW limit \in 1..PageSize,
         NEW n \in Nat
  PROVE  [NotRunning EXCEPT !.at = at, !.offset = first, !.limit = limit, !.acked = n] \in CallType
<1>1. limit \in 0..PageSize /\ at \in {"idle", "ack", "delete", "signal", "read", "filter", "wait", "answer"}
  OBVIOUS
<1>2. PICK k1 \in CallType : k1 = [NotRunning EXCEPT !.at = at]
  BY <1>1, NotRunningType DEF CallType
<1>3. PICK k2 \in CallType : k2 = [k1 EXCEPT !.offset = first]
  BY DEF CallType
<1>4. PICK k3 \in CallType : k3 = [k2 EXCEPT !.limit = limit]
  BY <1>1 DEF CallType
<1>5. PICK k4 \in CallType : k4 = [k3 EXCEPT !.acked = n]
  BY DEF CallType
<1>6. k4 = [NotRunning EXCEPT !.at = at, !.offset = first, !.limit = limit, !.acked = n]
  BY <1>2, <1>3, <1>4, <1>5
<1> QED
  BY <1>6

LEMMA Failures ==
  ASSUME NEW k \in CallType PROVE [k EXCEPT !.at = "signal", !.found = {}, !.acked = 0] \in CallType
BY DEF CallType

LEMMA NewReading ==
  ASSUME NEW k \in CallType PROVE [k EXCEPT !.at = "read", !.from = 0, !.acked = 0] \in CallType
BY DEF CallType

LEMMA PageReads ==
  ASSUME NEW k \in CallType, NEW found \in SUBSET Nat, NEW from \in Nat, NEW at \in {"read", "filter"}
  PROVE  [k EXCEPT !.found = found, !.from = from, !.at = at] \in CallType
<1>1. PICK k1 \in CallType : k1 = [k EXCEPT !.found = found]
  BY DEF CallType
<1>2. PICK k2 \in CallType : k2 = [k1 EXCEPT !.from = from]
  BY DEF CallType
<1>3. PICK k3 \in CallType : k3 = [k2 EXCEPT !.at = at]
  BY DEF CallType
<1>4. k3 = [k EXCEPT !.found = found, !.from = from, !.at = at]
  BY <1>1, <1>2, <1>3
<1> QED
  BY <1>4

LEMMA CallMoves ==
  ASSUME TypeInv, NEW c \in Calls, GetUpdates(c) \/ CallGetUpdates(c),
         call'[c] \in CallType, CallSound(call'[c]), current' \in Calls \cup {NoCall}, answer' \in Seq(Updates)
  PROVE  TypeInv'
<1>1. /\ call' = [call EXCEPT ![c] = call'[c]] /\ \A d \in Calls \ {c} : call'[d] = call[d]
      /\ UNCHANGED <<workerVars, discarded, offset, seen, abandoned>>
      /\ stream' \subseteq stream /\ signalled' \in {signalled, signalled \ {c}}
  BY OneCall
<1>2. UNCHANGED <<log, Entries>>
  BY <1>1 DEF workerVars, Entries
<1>3. RedisTypes' /\ AppTypes'
  BY <1>1, <1>2 DEF TypeInv, RedisTypes, AppTypes, workerVars
<1>4. call' \in [Calls -> CallType]
  BY <1>1 DEF TypeInv, CallTypes
<1>5. \A d \in Calls : CallSound(call'[d])
  BY <1>1 DEF TypeInv, CallTypes
<1>6. \A d \in Calls : CallSound(call[d])'
  BY <1>2, <1>5 DEF CallSound
<1> QED
  BY <1>3, <1>4, <1>6 DEF TypeInv, CallTypes

LEMMA CallTypesKept ==
  ASSUME TypeInv, UNCHANGED call, Len(log') \in Nat, Len(log) <= Len(log')
  PROVE  CallTypes'
<1>1. Len(log) \in Nat /\ Entries \subseteq Entries'
  BY LogEntries DEF TypeInv, RedisTypes, Entries
<1>2. ASSUME NEW c \in Calls PROVE CallSound(call[c])'
  <2>1. call[c] \in CallType /\ CallSound(call[c]) /\ call'[c] = call[c]
    BY DEF TypeInv, CallTypes
  <2> QED
    BY <1>1, <2>1 DEF CallSound, CallType
<1> QED
  BY <1>2 DEF TypeInv, CallTypes

LEMMA AckTypes ==
  ASSUME TypeInv, NEW c \in Calls, AckRead(c) \/ AckDelete(c) \/ AckFails(c)
  PROVE  TypeInv'
<1>1. call[c] \in CallType /\ CallSound(call[c]) /\ stream \subseteq Entries /\ Entries \subseteq Nat
      /\ GetUpdates(c) /\ call \in [Calls -> CallType] /\ current \in Calls \cup {NoCall}
      /\ answer \in Seq(Updates) /\ Len(log) \in Nat
  BY LogEntries DEF TypeInv, CallTypes, RedisTypes, AppTypes, GetUpdates
<1>2. PICK k \in CallType : k = call[c] /\ CallSound(k)
  BY <1>1
<1>3. CASE AckRead(c)
  <2>1. PICK old, page : old = Old(c) /\ page = AckPage(c)
    OBVIOUS
  <2>2. old \subseteq Entries /\ old \subseteq Nat
    BY <1>1, <1>3, <2>1, Acknowledging DEF Old
  <2>3. k.at = "ack" /\ UNCHANGED <<current, answer>>
        /\ call'[c] = IF old = {} THEN [k EXCEPT !.at = "signal"]
                      ELSE [k EXCEPT !.at = "delete", !.found = old,
                              !.done = (old # page \/ Cardinality(page) < PageSize)]
    BY <1>2, <1>3, <2>1, Acknowledging
  <2>4. call'[c] \in CallType /\ CallSound(call'[c])
    <3>1. call'[c] \in CallType
      <4>1. PICK done \in BOOLEAN : done = (old # page \/ Cardinality(page) < PageSize)
        OBVIOUS
      <4>2. PICK k1 \in CallType : k1 = [k EXCEPT !.at = "delete"]
        BY DEF CallType
      <4>3. PICK k2 \in CallType : k2 = [k1 EXCEPT !.found = old]
        BY <2>2 DEF CallType
      <4>4. PICK k3 \in CallType : k3 = [k2 EXCEPT !.done = done]
        BY DEF CallType
      <4>5. k3 = [k EXCEPT !.at = "delete", !.found = old, !.done = done]
        BY <4>2, <4>3, <4>4
      <4>6. [k EXCEPT !.at = "signal"] \in CallType
        BY DEF CallType
      <4> QED
        BY <2>3, <4>1, <4>5, <4>6
    <3>2. CallSound(call'[c])
      BY <1>2, <2>2, <2>3 DEF CallType, CallSound
    <3> QED
      BY <3>1, <3>2
  <2> QED
    BY <1>1, <2>3, <2>4, CallMoves
<1>4. CASE AckDelete(c)
  <2>1. PICK last : last = Last(k.found)
    OBVIOUS
  <2>2. /\ k.at = "delete" /\ UNCHANGED <<current, answer>>
        /\ call'[c] = [k EXCEPT !.at = IF k.done THEN "signal" ELSE "ack", !.from = last, !.found = {}]
    BY <1>1, <1>2, <1>4, <2>1 DEF AckDelete, appVars
  <2>3. last \in Entries
    <3>1. k.found \subseteq Entries /\ k.found # {}
      BY <1>2, <2>2 DEF CallSound
    <3>2. k.found \in SUBSET (1..Len(log))
      BY <3>1 DEF Entries
    <3> QED
      BY <1>1, <2>1, <3>1, <3>2, LastEntry
  <2>4. last \in Nat /\ last <= Len(log)
    BY <1>1, <2>3 DEF Entries
  <2>5. call'[c] \in CallType /\ CallSound(call'[c])
    BY <1>2, <2>2, <2>4 DEF CallType, CallSound
  <2> QED
    BY <1>1, <2>2, <2>5, CallMoves
<1>5. CASE AckFails(c)
  <2>1. /\ k.at \in {"ack", "delete"} /\ UNCHANGED <<current, answer>>
        /\ call'[c] = [k EXCEPT !.at = "signal", !.found = {}, !.acked = 0]
    BY <1>1, <1>2, <1>5 DEF AckFails, appVars
  <2>2. call'[c] \in CallType /\ CallSound(call'[c])
    <3>1. call'[c] \in CallType
      BY <2>1, Failures
    <3>2. CallSound(call'[c])
      BY <1>1, <1>2, <2>1 DEF CallType, CallSound
    <3> QED
      BY <3>1, <3>2
  <2> QED
    BY <1>1, <2>1, <2>2, CallMoves
<1> QED
  BY <1>3, <1>4, <1>5

LEMMA ReadTypes ==
  ASSUME TypeInv, NEW c \in Calls, TakeSignal(c) \/ ReadPage(c) \/ Filter(c) \/ ReadFails(c)
  PROVE  TypeInv'
<1>1. call[c] \in CallType /\ CallSound(call[c]) /\ stream \subseteq Entries /\ Entries \subseteq Nat
      /\ GetUpdates(c) /\ call \in [Calls -> CallType] /\ current \in Calls \cup {NoCall}
      /\ answer \in Seq(Updates) /\ Len(log) \in Nat
  BY LogEntries DEF TypeInv, CallTypes, RedisTypes, AppTypes, GetUpdates
<1>2. PICK k \in CallType : k = call[c] /\ CallSound(k)
  BY <1>1
<1>3. Cardinality({}) = 0
  BY FS_EmptySet
<1>4. ASSUME NEW found \in SUBSET Entries, k.at \in {"read", "filter", "wait"},
             Cardinality(found) <= k.limit, call' = Answer(c, found), UNCHANGED <<current, answer>>
      PROVE  TypeInv'
  <2>1. call'[c] = [NotRunning EXCEPT !.at = "answer", !.limit = k.limit, !.found = found]
    BY <1>1, <1>2, <1>4 DEF Answer
  <2>2. call'[c] \in CallType /\ CallSound(call'[c])
    <3>1. call'[c] \in CallType
      <4>1. k.limit \in 0..PageSize /\ found \in SUBSET Nat
        BY <1>1, <1>2 DEF CallType
      <4> QED
        BY <2>1, <4>1, Answers
    <3>2. CallSound(call'[c])
      <4>1. k.limit # 0
        BY <1>2, <1>4 DEF CallSound
      <4>2. call'[c].at = "answer" /\ call'[c].limit = k.limit /\ call'[c].found = found
            /\ call'[c].from = 0 /\ call'[c].cursor = 0 /\ call'[c].acked = 0
        BY <2>1 DEF NotRunning
      <4> QED
        BY <1>1, <1>4, <4>1, <4>2 DEF CallSound
    <3> QED
      BY <3>1, <3>2
  <2> QED
    BY <1>1, <1>4, <2>2, CallMoves
<1>5. CASE TakeSignal(c)
  <2>1. k.at = "signal" /\ UNCHANGED <<current, answer>>
        /\ call'[c] = [k EXCEPT !.at = "read", !.from = 0, !.acked = 0]
    BY <1>1, <1>2, <1>5 DEF TakeSignal, appVars
  <2>2. k.found = {}
    BY <1>2, <2>1 DEF CallSound
  <2>3. call'[c] \in CallType /\ CallSound(call'[c])
    <3>1. call'[c] \in CallType
      BY <2>1, NewReading
    <3>2. CallSound(call'[c])
      <4>1. /\ call'[c].at = "read" /\ call'[c].limit = k.limit /\ call'[c].found = {}
            /\ call'[c].from = 0 /\ call'[c].cursor = k.cursor /\ call'[c].acked = 0
        BY <1>2, <2>1, <2>2 DEF CallType
      <4>2. k.limit # 0 /\ k.limit \in Nat /\ k.cursor <= Len(log)
        BY <1>2, <2>1 DEF CallSound, CallType
      <4> QED
        BY <1>1, <1>3, <4>1, <4>2 DEF CallSound
    <3> QED
      BY <3>1, <3>2
  <2> QED
    BY <1>1, <2>1, <2>3, CallMoves
<1>6. CASE ReadPage(c)
  <2>1. PICK found, last, more : found = Found(c) /\ last = Last(ReadPart(c)) /\ more = More(c)
    OBVIOUS
  <2>2. /\ k.at = "read" /\ UNCHANGED <<current, answer>>
        /\ found \subseteq Entries /\ Cardinality(found) <= k.limit
        /\ more => last \in stream /\ k.cursor = 0
        /\ call'[c] = [k EXCEPT !.found = found, !.from = IF more THEN last ELSE 0,
                                !.at = IF more THEN "read" ELSE "filter"]
    BY <1>2, <1>6, <2>1, Reading DEF More
  <2>3. more => last \in Nat /\ last <= Len(log)
    BY <1>1, <2>2 DEF Entries
  <2>4. call'[c] \in CallType /\ CallSound(call'[c])
    <3>1. PICK from, at : from = (IF more THEN last ELSE 0) /\ at = (IF more THEN "read" ELSE "filter")
      OBVIOUS
    <3>2. /\ from \in Nat /\ from <= Len(log) /\ at \in {"read", "filter"} /\ found \in SUBSET Nat
          /\ (at = "read" => k.cursor = 0)
      BY <1>1, <2>2, <2>3, <3>1
    <3>3. call'[c] = [k EXCEPT !.found = found, !.from = from, !.at = at]
      BY <2>2, <3>1
    <3>4. call'[c] \in CallType
      <4>1. [k EXCEPT !.found = found, !.from = from, !.at = at] \in CallType
        BY <3>2, PageReads
      <4> QED
        BY <3>3, <4>1
    <3>5. /\ call'[c].found = found /\ call'[c].from = from /\ call'[c].at = at
          /\ call'[c].cursor = k.cursor /\ call'[c].limit = k.limit /\ call'[c].acked = k.acked
      BY <3>3 DEF CallType
    <3> QED
      BY <1>2, <2>2, <3>2, <3>4, <3>5 DEF CallSound
  <2> QED
    BY <1>1, <2>2, <2>4, CallMoves
<1>7. CASE Filter(c)
  <2>1. k.at = "filter" /\ UNCHANGED <<current, answer>>
    BY <1>2, <1>7 DEF Filter, appVars
  <2>2. CASE call' = Answer(c, k.found)
    BY <1>2, <1>4, <2>1, <2>2 DEF CallSound
  <2>3. CASE call' = Answer(c, {})
    BY <1>2, <1>3, <1>4, <2>1, <2>3 DEF CallType
  <2>4. CASE k.found = {} /\ call' = Goto(c, "wait")
    <3>1. call'[c] = [k EXCEPT !.at = "wait"]
      BY <1>1, <1>2, <2>4 DEF Goto
    <3>2. call'[c] \in CallType /\ CallSound(call'[c])
      BY <1>1, <1>2, <2>1, <2>4, <3>1 DEF CallType, CallSound
    <3> QED
      BY <1>1, <2>1, <3>2, CallMoves
  <2>5. CASE /\ k.found # {}
             /\ call' = [call EXCEPT ![c].at = "signal", ![c].cursor = Last(k.found), ![c].found = {}]
    <3>1. PICK last : last = Last(k.found)
      OBVIOUS
    <3>2. last \in Nat /\ last <= Len(log)
      <4>1. k.found \in SUBSET (1..Len(log))
        BY <1>2 DEF CallSound, Entries
      <4>2. last \in 1..Len(log)
        BY <1>1, <2>5, <3>1, <4>1, LastEntry
      <4> QED
        BY <1>1, <4>2
    <3>3. call'[c] = [k EXCEPT !.at = "signal", !.cursor = last, !.found = {}]
      BY <1>1, <1>2, <2>5, <3>1
    <3>4. call'[c] \in CallType /\ CallSound(call'[c])
      BY <1>1, <1>2, <2>1, <3>2, <3>3 DEF CallType, CallSound
    <3> QED
      BY <1>1, <2>1, <3>4, CallMoves
  <2> QED
    BY <1>2, <1>7, <2>2, <2>3, <2>4, <2>5 DEF Filter
<1>8. CASE ReadFails(c)
  <2>1. k.at = "read" /\ call' = Answer(c, {}) /\ UNCHANGED <<current, answer>>
    BY <1>2, <1>8 DEF ReadFails, appVars
  <2> QED
    BY <1>2, <1>3, <1>4, <2>1 DEF CallType
<1> QED
  BY <1>5, <1>6, <1>7, <1>8

LEMMA WaitTypes ==
  ASSUME TypeInv, NEW c \in Calls, Wake(c) \/ Recheck(c) \/ Deadline(c) \/ Respond(c) \/ CallGetUpdates(c)
  PROVE  TypeInv'
<1>1. call[c] \in CallType /\ CallSound(call[c]) /\ (GetUpdates(c) \/ CallGetUpdates(c))
      /\ call \in [Calls -> CallType] /\ current \in Calls \cup {NoCall}
      /\ answer \in Seq(Updates) /\ Len(log) \in Nat /\ offset \in 0..MaxUpdates + 1
  BY LogEntries DEF TypeInv, CallTypes, RedisTypes, AppTypes, GetUpdates
<1>2. PICK k \in CallType : k = call[c] /\ CallSound(k)
  BY <1>1
<1>3. CASE Wake(c) \/ Recheck(c)
  <2>1. k.at = "wait" /\ call' = Goto(c, "signal") /\ UNCHANGED <<current, answer>>
    BY <1>2, <1>3 DEF Wake, Recheck, appVars
  <2>2. call'[c] = [k EXCEPT !.at = "signal"]
    BY <1>1, <1>2, <2>1 DEF Goto
  <2>3. call'[c] \in CallType /\ CallSound(call'[c])
    BY <1>2, <2>1, <2>2 DEF CallType, CallSound
  <2> QED
    BY <1>1, <2>1, <2>3, CallMoves
<1>4. CASE Deadline(c)
  <2>1. k.at = "wait" /\ call' = Answer(c, {}) /\ UNCHANGED <<current, answer>>
    BY <1>2, <1>4 DEF Deadline, appVars
  <2>2. call'[c] = [NotRunning EXCEPT !.at = "answer", !.limit = k.limit, !.found = {}]
    BY <1>1, <1>2, <2>1 DEF Answer
  <2>3. call'[c] \in CallType /\ CallSound(call'[c])
    <3>1. call'[c] \in CallType
      <4>1. k.limit \in 0..PageSize /\ {} \in SUBSET Nat
        BY <1>2 DEF CallType
      <4> QED
        BY <2>2, <4>1, Answers
    <3>2. CallSound(call'[c])
      <4>1. k.limit # 0 /\ k.limit \in Nat /\ Cardinality({}) = 0
        BY <1>2, <2>1, FS_EmptySet DEF CallSound, CallType
      <4>2. call'[c].at = "answer" /\ call'[c].limit = k.limit /\ call'[c].found = {}
            /\ call'[c].from = 0 /\ call'[c].cursor = 0 /\ call'[c].acked = 0
        BY <2>2 DEF NotRunning
      <4> QED
        BY <1>1, <4>1, <4>2 DEF CallSound
    <3> QED
      BY <3>1, <3>2
  <2> QED
    BY <1>1, <2>1, <2>3, CallMoves
<1>5. CASE Respond(c)
  <2>1. call'[c] = NotRunning
    BY <1>1, <1>5 DEF Respond
  <2>2. call'[c] \in CallType /\ CallSound(call'[c])
    BY <1>1, <2>1 DEF CallType, CallSound, NotRunning
  <2>3. PICK shown \in SUBSET Entries : shown = {e \in call[c].found : log[e] \notin Hidden}
    BY <1>1 DEF CallSound
  <2>4. current' \in Calls \cup {NoCall} /\ (answer' = answer \/ answer' = Inorder(shown))
    BY <1>1, <1>5, <2>3 DEF Respond
  <2>5. Inorder(shown) \in Seq(Updates)
    BY Responses DEF TypeInv, RedisTypes
  <2> QED
    BY <1>1, <2>2, <2>4, <2>5, CallMoves
<1>6. CASE CallGetUpdates(c)
  <2>1. PICK limit \in Limits :
          call' = [call EXCEPT ![c] = [NotRunning EXCEPT
            !.at = IF offset > 0 THEN "ack" ELSE "signal",
            !.offset = offset, !.limit = limit, !.acked = Len(log)]]
    BY <1>6 DEF CallGetUpdates
  <2>2. call'[c] = [NotRunning EXCEPT !.at = IF offset > 0 THEN "ack" ELSE "signal",
                      !.offset = offset, !.limit = limit, !.acked = Len(log)]
    BY <1>1, <2>1
  <2>3. limit \in 1..PageSize
    OBVIOUS
  <2>4. call'[c] \in CallType /\ CallSound(call'[c])
    <3>1. call'[c] \in CallType
      <4>1. PICK at \in {"ack", "signal"} : at = IF offset > 0 THEN "ack" ELSE "signal"
        OBVIOUS
      <4>2. call'[c] = [NotRunning EXCEPT !.at = at, !.offset = offset, !.limit = limit, !.acked = Len(log)]
        BY <2>2, <4>1
      <4> QED
        <5>1. offset \in 0..MaxUpdates + 1 /\ Len(log) \in Nat
          BY <1>1
        <5>2. [NotRunning EXCEPT !.at = at, !.offset = offset, !.limit = limit, !.acked = Len(log)] \in CallType
          BY <2>3, <4>1, <5>1, Beginnings
        <5> QED
          BY <4>2, <5>2
    <3>2. CallSound(call'[c])
      BY <1>1, <2>2, <2>3 DEF CallType, CallSound, NotRunning
    <3> QED
      BY <3>1, <3>2
  <2>5. current' \in Calls \cup {NoCall} /\ answer' = answer
    BY <1>6 DEF CallGetUpdates
  <2> QED
    BY <1>1, <2>4, <2>5, CallMoves
<1> QED
  BY <1>3, <1>4, <1>5, <1>6

LEMMA WorkersKept ==
  ASSUME worker \in [Workers -> [id : 0..MaxUpdates, persisted : BOOLEAN]], NEW w \in Workers,
         UpdateWorker(w), nextID' \in 0..MaxUpdates
  PROVE  worker' \in [Workers -> [id : 0..MaxUpdates, persisted : BOOLEAN]]
<1>1. PICK v \in [id : 0..MaxUpdates, persisted : BOOLEAN] : v = worker[w]
  OBVIOUS
<1>2. \A id \in 0..MaxUpdates, b \in BOOLEAN :
        /\ [v EXCEPT !.id = id] \in [id : 0..MaxUpdates, persisted : BOOLEAN]
        /\ [v EXCEPT !.persisted = b] \in [id : 0..MaxUpdates, persisted : BOOLEAN]
        /\ [id |-> id, persisted |-> b] \in [id : 0..MaxUpdates, persisted : BOOLEAN]
  OBVIOUS
<1>3. 0 \in 0..MaxUpdates
  OBVIOUS
<1>4. \/ worker' = worker
      \/ worker' = [worker EXCEPT ![w] = [v EXCEPT !.id = nextID']]
      \/ worker' = [worker EXCEPT ![w] = [v EXCEPT !.id = 0]]
      \/ worker' = [worker EXCEPT ![w] = [v EXCEPT !.persisted = FALSE]]
      \/ worker' = [worker EXCEPT ![w] = [id |-> 0, persisted |-> TRUE]]
  BY <1>1 DEF UpdateWorker, Allocate, AppendEntry, AppendFails, Broadcast, BatchPanics
<1>5. \A x \in [id : 0..MaxUpdates, persisted : BOOLEAN] :
        [worker EXCEPT ![w] = x] \in [Workers -> [id : 0..MaxUpdates, persisted : BOOLEAN]]
  OBVIOUS
<1>6. \E x \in [id : 0..MaxUpdates, persisted : BOOLEAN] : worker' = worker \/ worker' = [worker EXCEPT ![w] = x]
  <2>1. [v EXCEPT !.id = nextID'] \in [id : 0..MaxUpdates, persisted : BOOLEAN]
    BY <1>2
  <2>2. [v EXCEPT !.id = 0] \in [id : 0..MaxUpdates, persisted : BOOLEAN]
    BY <1>2, <1>3
  <2>3. [v EXCEPT !.persisted = FALSE] \in [id : 0..MaxUpdates, persisted : BOOLEAN]
    BY <1>2
  <2>4. [id |-> 0, persisted |-> TRUE] \in [id : 0..MaxUpdates, persisted : BOOLEAN]
    BY <1>2, <1>3
  <2> QED
    BY <1>4, <2>1, <2>2, <2>3, <2>4, Zenon
<1> QED
  BY <1>5, <1>6

LEMMA WorkerTypes == ASSUME TypeInv, NEW w \in Workers, UpdateWorker(w) PROVE TypeInv'
<1>1. /\ worker[w] \in [id : 0..MaxUpdates, persisted : BOOLEAN] /\ nextID \in 0..MaxUpdates
      /\ worker \in [Workers -> [id : 0..MaxUpdates, persisted : BOOLEAN]]
      /\ log \in Seq(Updates) /\ Len(log) \in Nat /\ stream \subseteq Entries /\ DOMAIN log = Entries
      /\ \A e \in Entries : log[e] \in Updates
  BY LogEntries DEF TypeInv, RedisTypes
<1>2. UNCHANGED call
  BY Elsewhere
<1>3. CASE AppendEntry(w)
  <2>1. /\ log' \in Seq(Updates) /\ Len(log') = Len(log) + 1 /\ worker[w].id \in Updates
        /\ Entries' = Entries \cup {Len(log) + 1} /\ \A e \in Entries : log'[e] = log[e]
        /\ log'[Len(log) + 1] = worker[w].id
        /\ stream' \subseteq stream \cup {Len(log) + 1}
    BY <1>3, Appending
  <2>2. CallTypes'
    <3>1. Len(log') \in Nat /\ Len(log) <= Len(log')
      BY <1>1, <2>1
    <3> QED
      BY <1>2, <3>1, CallTypesKept
  <2>3. \A e \in Entries' : log'[e] \in Updates
    BY <1>1, <2>1
  <2>4. discarded' \subseteq Updates /\ unannounced' \subseteq Entries'
    <3>1. discarded \subseteq Updates /\ unannounced \subseteq Entries
      BY DEF TypeInv, RedisTypes
    <3>2. stream \subseteq Entries'
      BY <1>1, <2>1
    <3>3. /\ discarded' = discarded \cup ({log'[e] : e \in stream} \ {log'[e] : e \in stream'})
          /\ unannounced' = unannounced \cup {Len(log')}
      BY <1>3 DEF AppendEntry
    <3>4. discarded' \subseteq Updates
      BY <2>3, <3>1, <3>2, <3>3
    <3>5. unannounced' \subseteq Entries'
      BY <2>1, <3>1, <3>3
    <3> QED
      BY <3>4, <3>5
  <2>5. worker' \in [Workers -> [id : 0..MaxUpdates, persisted : BOOLEAN]] /\ nextID' = nextID
    BY <1>1, <1>3, WorkersKept DEF AppendEntry
  <2>6. AppTypes'
    BY <1>3 DEF AppendEntry, TypeInv, AppTypes, appVars
  <2> QED
    BY <1>1, <2>1, <2>2, <2>4, <2>5, <2>6 DEF TypeInv, RedisTypes
<1>4. CASE Allocate(w) \/ AppendFails(w) \/ Broadcast(w) \/ BatchPanics(w)
  <2>1. UNCHANGED <<log, Entries, stream>> /\ CallTypes'
    <3>1. UNCHANGED <<log, stream>>
      BY <1>4 DEF Allocate, AppendFails, Broadcast, BatchPanics
    <3>2. Len(log') \in Nat /\ Len(log) <= Len(log')
      BY <1>1, <3>1
    <3> QED
      BY <1>2, <3>1, <3>2, CallTypesKept DEF Entries
  <2>2. AppTypes'
    BY <1>4 DEF Allocate, AppendFails, Broadcast, BatchPanics, TypeInv, AppTypes, appVars
  <2>3. unannounced' \subseteq Entries /\ nextID' \in 0..MaxUpdates
    BY <1>1, <1>4 DEF Allocate, AppendFails, Broadcast, BatchPanics, TypeInv, RedisTypes
  <2>4. discarded' \subseteq Updates
    <3>1. worker[w].id # 0 => worker[w].id \in Updates
      BY <1>1 DEF Updates
    <3> QED
      BY <1>4, <3>1 DEF Allocate, AppendFails, Broadcast, BatchPanics, TypeInv, RedisTypes
  <2>5. worker' \in [Workers -> [id : 0..MaxUpdates, persisted : BOOLEAN]]
    BY <1>1, <2>3, WorkersKept
  <2> QED
    BY <1>1, <2>1, <2>2, <2>3, <2>4, <2>5 DEF TypeInv, RedisTypes
<1> QED
  BY <1>3, <1>4 DEF UpdateWorker

LEMMA AppTypesKept ==
  ASSUME TypeInv, DropPending \/ ProcessUpdate \/ Abandon \/ RestartApplication \/ UNCHANGED vars
  PROVE  TypeInv'
<1>1. /\ log \in Seq(Updates) /\ Len(log) \in Nat /\ stream \subseteq Entries
      /\ \A e \in Entries : log[e] \in Updates
  BY LogEntries DEF TypeInv, RedisTypes
<1>2. UNCHANGED workerVars
  BY DEF DropPending, ProcessUpdate, Abandon, RestartApplication, vars
<1>3. CallTypes'
  <2>1. UNCHANGED call
    BY Elsewhere
  <2>2. Len(log') \in Nat /\ Len(log) <= Len(log')
    BY <1>1, <1>2 DEF workerVars
  <2> QED
    BY <2>1, <2>2, CallTypesKept
<1>4. stream' \subseteq stream /\ discarded' \subseteq Updates
  <2>1. IDs(stream) \subseteq Updates
    BY <1>1 DEF IDs
  <2> QED
    BY <2>1 DEF DropPending, ProcessUpdate, Abandon, RestartApplication, vars, DropPendingUpdates, TypeInv,
       RedisTypes
<1>5. RedisTypes'
  BY <1>2, <1>4 DEF TypeInv, RedisTypes, workerVars, Entries
<1>6. AppTypes'
  <2>1. CASE ProcessUpdate
    <3>1. PICK u : u = Head(answer)
      OBVIOUS
    <3>2. u \in Updates /\ Tail(answer) \in Seq(Updates)
      BY <2>1, <3>1 DEF ProcessUpdate, TypeInv, AppTypes
    <3>3. u + 1 \in 0..MaxUpdates + 1
      BY <3>2 DEF Updates
    <3> QED
      BY <2>1, <3>1, <3>2, <3>3 DEF ProcessUpdate, TypeInv, AppTypes
  <2>2. CASE RestartApplication
    <3>1. <<>> \in Seq(Updates) /\ 0 \in 0..MaxUpdates + 1
      OBVIOUS
    <3>2. abandoned + 1 \in 0..MaxAbandoned
      BY <2>2 DEF RestartApplication, TypeInv, AppTypes
    <3> QED
      BY <2>2, <3>1, <3>2 DEF RestartApplication, TypeInv, AppTypes
  <2>3. CASE DropPending \/ Abandon \/ UNCHANGED vars
    BY <2>3 DEF DropPending, Abandon, vars, TypeInv, AppTypes, appVars
  <2> QED
    BY <2>1, <2>2, <2>3
<1> QED
  BY <1>3, <1>5, <1>6 DEF TypeInv

LEMMA TypeStep == TypeInv /\ [Next]_vars => TypeInv'
BY AckTypes, ReadTypes, WaitTypes, WorkerTypes, AppTypesKept DEF Next, GetUpdates

(* The limits: no call finds more than it was asked for; the answers and   *)
(* the stream hold updates (GetUpdates).                                   *)
THEOREM PollTypes == Spec => []TypeOK
BY TypeInit, TypeStep, TypesOK, PTL DEF Spec

-----------------------------------------------------------------------------
(* No lost wake-up.  Since it took its channel, what a call passed over    *)
(* without finding it was announced later, so its channel is closed, or is *)
(* not announced yet.                                                      *)
Missed(c) == {e \in stream : e > call[c].cursor /\ log[e] >= call[c].offset}
WakeInv == \A c \in Calls : c \notin signalled =>
  /\ call[c].at = "wait" \/ (call[c].at = "filter" /\ call[c].found = {}) => Missed(c) \subseteq unannounced
  /\ call[c].at = "read" /\ call[c].found = {} => {e \in Missed(c) : e <= call[c].from} \subseteq unannounced

LEMMA WakeInit == Init => WakeInv
BY DEF Init, WakeInv, NotRunning

LEMMA WakeOthers ==
  ASSUME TypeInv, WakeInv, NEW c \in Calls, UNCHANGED call, c \in signalled => c \in signalled',
         \/ stream' \subseteq stream /\ UNCHANGED <<log, unannounced>>
         \/ \E w \in Workers : AppendEntry(w)
  PROVE  c \notin signalled' =>
           /\ call'[c].at = "wait" \/ (call'[c].at = "filter" /\ call'[c].found = {})
                => Missed(c)' \subseteq unannounced'
           /\ call'[c].at = "read" /\ call'[c].found = {}
                => {e \in Missed(c)' : e <= call'[c].from} \subseteq unannounced'
<1>1. CASE stream' \subseteq stream /\ UNCHANGED <<log, unannounced>>
  BY <1>1 DEF WakeInv, Missed
<1>2. CASE \E w \in Workers : AppendEntry(w)
  <2>1. PICK w \in Workers : AppendEntry(w)
    BY <1>2
  <2>2. PICK new : new = Len(log) + 1
    OBVIOUS
  <2>3. \A e \in stream : log'[e] = log[e]
    BY <2>1, Appending DEF TypeInv, RedisTypes
  <2>4. stream' \subseteq stream \cup {new}
    BY <2>1, <2>2, Appending
  <2>5. unannounced' = unannounced \cup {new}
    <3>1. Len(log') = new
      BY <2>1, <2>2, Appending
    <3> QED
      BY <2>1, <3>1 DEF AppendEntry
  <2>6. Missed(c)' \subseteq Missed(c) \cup {new}
    BY <2>3, <2>4 DEF Missed
  <2> QED
    BY <2>5, <2>6 DEF WakeInv
<1> QED
  BY <1>1, <1>2

LEMMA WakeReading == ASSUME TypeInv, WakeInv, NEW c \in Calls, ReadPage(c), c \notin signalled
  PROVE  /\ call'[c].at = "filter" /\ call'[c].found = {} => Missed(c)' \subseteq unannounced'
         /\ call'[c].at = "read" /\ call'[c].found = {}
              => {e \in Missed(c)' : e <= call'[c].from} \subseteq unannounced'
<1>1. call[c] \in CallType /\ stream \subseteq Nat
  BY LogEntries DEF TypeInv, CallTypes, RedisTypes
<1>2. PICK part, last, found, more :
        part = ReadPart(c) /\ last = Last(ReadPart(c)) /\ found = Found(c) /\ more = More(c)
  OBVIOUS
<1>3. /\ call[c].at = "read" /\ UNCHANGED <<log, stream>>
      /\ call'[c] = [call[c] EXCEPT !.found = found, !.from = IF more THEN last ELSE 0,
                                    !.at = IF more THEN "read" ELSE "filter"]
      /\ \A e \in part, f \in stream : Start(c) < f /\ f <= e => f \in part
      /\ part = {} => \A e \in stream : ~(e > Start(c))
      /\ found = {} => Wanted(c) = {}
      /\ more => last \in part
      /\ ~more /\ call[c].cursor = 0 /\ found = {} => part = {}
      /\ more => call[c].cursor = 0
  BY <1>2, Reading DEF More
<1>4. /\ call'[c].found = found /\ call'[c].from = (IF more THEN last ELSE 0)
      /\ call'[c].at = (IF more THEN "read" ELSE "filter")
      /\ call'[c].cursor = call[c].cursor /\ call'[c].offset = call[c].offset
  BY <1>1, <1>3 DEF CallType
<1>5. UNCHANGED unannounced /\ Missed(c)' = Missed(c)
  <2>1. UNCHANGED unannounced
    BY DEF ReadPage, workerVars
  <2> QED
    BY <1>3, <1>4, <2>1 DEF Missed
<1>6. SUFFICES ASSUME found = {}, NEW e \in Missed(c), more => e <= last
               PROVE  e \in unannounced
  BY <1>4, <1>5
<1>7. call[c].found = {} /\ Wanted(c) = {}
  BY <1>3, <1>6 DEF Wanted
<1>8. e \in stream /\ e > call[c].cursor /\ log[e] >= call[c].offset /\ e \in Nat
  BY <1>1 DEF Missed
<1>9. CASE call[c].cursor # 0
  <2>1. part = {} /\ Start(c) = call[c].cursor
    BY <1>2, <1>7, <1>9 DEF Wanted, Start
  <2> QED
    BY <1>3, <1>8, <2>1
<1>10. CASE call[c].cursor = 0
  <2>1. Start(c) = call[c].from /\ call[c].from \in Nat
    BY <1>1, <1>10 DEF Start, CallType
  <2>2. e \notin part
    BY <1>2, <1>7, <1>8, <1>10 DEF Wanted
  <2>3. ~(e > call[c].from)
    BY <1>3, <1>6, <1>8, <1>10, <2>1, <2>2
  <2>4. e <= call[c].from
    BY <1>8, <2>1, <2>3
  <2> QED
    BY <1>3, <1>7, <2>4 DEF WakeInv
<1> QED
  BY <1>9, <1>10

LEMMA WakeStep == TypeInv /\ WakeInv /\ [Next]_vars => WakeInv'
<1> SUFFICES ASSUME TypeInv, WakeInv, [Next]_vars PROVE WakeInv'
  OBVIOUS
<1>1. CASE \E w \in Workers : UpdateWorker(w)
  <2>1. PICK w \in Workers : UpdateWorker(w)
    BY <1>1
  <2>2. UNCHANGED call
    BY <2>1, Elsewhere
  <2>3. CASE Broadcast(w)
    BY <2>2, <2>3 DEF Broadcast, WakeInv
  <2>4. CASE ~Broadcast(w)
    <3>1. UNCHANGED signalled /\ (AppendEntry(w) \/ (stream' \subseteq stream /\ UNCHANGED <<log, unannounced>>))
      BY <2>1, <2>4 DEF UpdateWorker, Allocate, AppendEntry, AppendFails, BatchPanics
    <3> QED
      BY <2>2, <3>1, WakeOthers DEF WakeInv
  <2> QED
    BY <2>3, <2>4
<1>2. CASE DropPending \/ ProcessUpdate \/ Abandon \/ RestartApplication \/ UNCHANGED vars
  <2>1. UNCHANGED call
    BY <1>2, Elsewhere
  <2>2. UNCHANGED <<log, unannounced, signalled>> /\ stream' \subseteq stream
    BY <1>2 DEF DropPending, DropPendingUpdates, ProcessUpdate, Abandon, RestartApplication, vars, workerVars
  <2> QED
    BY <2>1, <2>2, WakeOthers DEF WakeInv
<1>3. CASE \E c \in Calls : GetUpdates(c) \/ CallGetUpdates(c)
  <2>1. PICK c \in Calls : GetUpdates(c) \/ CallGetUpdates(c)
    BY <1>3
  <2>2. /\ \A d \in Calls \ {c} : call'[d] = call[d]
        /\ stream' \subseteq stream /\ signalled' \in {signalled, signalled \ {c}}
        /\ UNCHANGED <<log, unannounced>>
    BY <2>1, OneCall DEF workerVars
  <2>3. ASSUME NEW d \in Calls \ {c}
        PROVE  d \notin signalled' =>
                 /\ call'[d].at = "wait" \/ (call'[d].at = "filter" /\ call'[d].found = {})
                      => Missed(d)' \subseteq unannounced'
                 /\ call'[d].at = "read" /\ call'[d].found = {}
                      => {e \in Missed(d)' : e <= call'[d].from} \subseteq unannounced'
    <3>1. call'[d] = call[d] /\ (d \in signalled => d \in signalled') /\ Missed(d)' \subseteq Missed(d)
      BY <2>2 DEF Missed
    <3> QED
      BY <2>2, <3>1 DEF WakeInv
  <2>4. call[c] \in CallType /\ call \in [Calls -> CallType]
    BY DEF TypeInv, CallTypes
  <2>5. CASE ReadPage(c)
    <3>1. call'[c].at # "wait"
      <4>1. PICK found, last, more : found = Found(c) /\ last = Last(ReadPart(c)) /\ more = More(c)
        OBVIOUS
      <4>2. call'[c] = [call[c] EXCEPT !.found = found, !.from = IF more THEN last ELSE 0,
                                       !.at = IF more THEN "read" ELSE "filter"]
        BY <2>5, <4>1, Reading
      <4> QED
        BY <2>4, <4>2 DEF CallType
    <3>2. UNCHANGED signalled
      BY <2>5 DEF ReadPage
    <3> QED
      BY <2>3, <2>5, <3>1, <3>2, WakeReading DEF WakeInv
  <2>6. CASE TakeSignal(c)
    <3>1. call'[c].at = "read" /\ call'[c].from = 0
      BY <2>4, <2>6 DEF TakeSignal
    <3>2. \A e \in Missed(c)' : ~(e <= 0)
      <4>1. stream \subseteq Entries /\ Len(log) \in Nat
        BY LogEntries DEF TypeInv, RedisTypes
      <4>2. stream' = stream
        BY <2>6 DEF TakeSignal
      <4> QED
        BY <4>1, <4>2 DEF Missed, Entries
    <3> QED
      BY <2>3, <3>1, <3>2 DEF WakeInv
  <2>7. CASE Filter(c)
    <3>1. call[c].at = "filter" /\ UNCHANGED <<signalled, stream, log, unannounced>>
      BY <2>7 DEF Filter, workerVars
    <3>2. CASE call[c].found = {} /\ call' = Goto(c, "wait")
      <4>1. call'[c] = [call[c] EXCEPT !.at = "wait"]
        BY <2>4, <3>2 DEF Goto
      <4>2. call'[c].cursor = call[c].cursor /\ call'[c].offset = call[c].offset /\ call'[c].at = "wait"
        BY <2>4, <4>1 DEF CallType
      <4>3. Missed(c)' = Missed(c)
        BY <3>1, <4>2 DEF Missed
      <4> QED
        BY <2>3, <3>1, <3>2, <4>2, <4>3 DEF WakeInv
    <3>3. CASE call'[c].at \in {"signal", "answer"}
      BY <2>3, <3>3 DEF WakeInv
    <3>4. \/ call[c].found = {} /\ call' = Goto(c, "wait")
          \/ call'[c].at \in {"signal", "answer"}
      <4>1. CASE \E found : call' = Answer(c, found)
        BY <4>1, Answering
      <4>2. CASE \E last : call' = [call EXCEPT ![c].at = "signal", ![c].cursor = last, ![c].found = {}]
        <5>1. PICK last : call'[c] = [call[c] EXCEPT !.at = "signal", !.cursor = last, !.found = {}]
          BY <2>4, <4>2
        <5> QED
          BY <2>4, <5>1 DEF CallType
      <4> QED
        BY <2>7, <4>1, <4>2 DEF Filter
    <3> QED
      BY <3>2, <3>3, <3>4
  <2>8. CASE ~ReadPage(c) /\ ~TakeSignal(c) /\ ~Filter(c)
    <3>1. call'[c].at \notin {"read", "filter", "wait"}
      <4>1. CASE ReadFails(c) \/ Deadline(c)
        <5>1. call' = Answer(c, {})
          BY <4>1 DEF ReadFails, Deadline
        <5> QED
          BY <5>1, Answering
      <4>2. CASE AckRead(c)
        <5>1. PICK old, done : /\ old = Old(c)
                               /\ done = (Old(c) # AckPage(c) \/ Cardinality(AckPage(c)) < PageSize)
          OBVIOUS
        <5>2. call'[c] = IF old = {} THEN [call[c] EXCEPT !.at = "signal"]
                         ELSE [call[c] EXCEPT !.at = "delete", !.found = old, !.done = done]
          BY <4>2, <5>1, Acknowledging
        <5> QED
          BY <2>4, <5>2 DEF CallType
      <4>3. CASE AckDelete(c)
        BY <2>4, <4>3 DEF AckDelete, CallType
      <4>4. CASE AckFails(c)
        BY <2>4, <4>4 DEF AckFails, CallType
      <4>5. CASE Wake(c) \/ Recheck(c)
        BY <2>4, <4>5 DEF Wake, Recheck, Goto, CallType
      <4>6. CASE Respond(c)
        BY <2>4, <4>6 DEF Respond, NotRunning
      <4>7. CASE CallGetUpdates(c)
        BY <4>7, Beginning
      <4> QED
        BY <2>1, <2>8, <4>1, <4>2, <4>3, <4>4, <4>5, <4>6, <4>7 DEF GetUpdates
    <3> QED
      BY <2>3, <3>1 DEF WakeInv
  <2> QED
    BY <2>5, <2>6, <2>7, <2>8
<1> QED
  BY <1>1, <1>2, <1>3 DEF Next

(* A call that waits misses no broadcast (GetUpdates takes the channel     *)
(* before it reads): what it could read has closed its channel or is not   *)
(* announced yet, for any number of workers, calls, pages and limits.      *)
THEOREM WakeupsArrive == Spec => []NoLostWakeup
<1>1. WakeInv => NoLostWakeup
  BY DEF WakeInv, NoLostWakeup, Missed
<1>2. Spec => [](TypeInv /\ WakeInv)
  BY TypeInit, TypeStep, WakeInit, WakeStep, PTL DEF Spec
<1> QED
  BY <1>1, <1>2, PTL
-----------------------------------------------------------------------------
(* Where a call is after its step, field by field.                         *)
LEMMA AckReadMoves ==
  ASSUME TypeInv, NEW c \in Calls, AckRead(c)
  PROVE  /\ call'[c].at = (IF Old(c) = {} THEN "signal" ELSE "delete") /\ call'[c].found = Old(c)
         /\ Old(c) # {} => call'[c].done = (Old(c) # AckPage(c) \/ Cardinality(AckPage(c)) < PageSize)
         /\ call'[c].from = call[c].from /\ call'[c].offset = call[c].offset
         /\ call'[c].cursor = call[c].cursor /\ call'[c].acked = call[c].acked
<1>1. PICK old, done : old = Old(c) /\ done = (Old(c) # AckPage(c) \/ Cardinality(AckPage(c)) < PageSize)
  OBVIOUS
<1>2. /\ call[c].at = "ack"
      /\ call'[c] = IF old = {} THEN [call[c] EXCEPT !.at = "signal"]
                    ELSE [call[c] EXCEPT !.at = "delete", !.found = old, !.done = done]
  BY <1>1, Acknowledging
<1>3. call[c] \in CallType /\ call[c].found = {}
  BY <1>2 DEF TypeInv, CallTypes, CallSound
<1>4. /\ call'[c].at = (IF old = {} THEN "signal" ELSE "delete") /\ call'[c].found = old
      /\ old # {} => call'[c].done = done
      /\ call'[c].from = call[c].from /\ call'[c].offset = call[c].offset
      /\ call'[c].cursor = call[c].cursor /\ call'[c].acked = call[c].acked
  <2>1. CASE old = {}
    BY <1>2, <1>3, <2>1 DEF CallType
  <2>2. CASE old # {}
    BY <1>2, <1>3, <2>2 DEF CallType
  <2> QED
    BY <2>1, <2>2
<1> QED
  BY <1>1, <1>4

LEMMA AckDeleteMoves ==
  ASSUME TypeInv, NEW c \in Calls, AckDelete(c)
  PROVE  /\ call'[c].at = (IF call[c].done THEN "signal" ELSE "ack") /\ call'[c].found = {}
         /\ call'[c].from = Last(call[c].found) /\ call'[c].offset = call[c].offset
         /\ call'[c].cursor = call[c].cursor /\ call'[c].acked = call[c].acked
         /\ Last(call[c].found) \in call[c].found /\ \A e \in call[c].found : Last(call[c].found) >= e
<1>1. call[c] \in CallType /\ call \in [Calls -> CallType] /\ Len(log) \in Nat
      /\ call[c].found \in SUBSET (1..Len(log)) /\ call[c].found # {}
  BY LogEntries DEF TypeInv, RedisTypes, CallTypes, CallSound, AckDelete, Entries
<1>2. PICK last, at : last = Last(call[c].found) /\ at = (IF call[c].done THEN "signal" ELSE "ack")
  OBVIOUS
<1>3. call'[c] = [call[c] EXCEPT !.at = at, !.from = last, !.found = {}]
  BY <1>1, <1>2 DEF AckDelete
<1>4. last \in call[c].found /\ \A e \in call[c].found : last >= e
  BY <1>1, <1>2, LastEntry
<1>5. /\ call'[c].at = at /\ call'[c].found = {} /\ call'[c].from = last /\ call'[c].offset = call[c].offset
      /\ call'[c].cursor = call[c].cursor /\ call'[c].acked = call[c].acked
  BY <1>1, <1>3 DEF CallType
<1> QED
  BY <1>2, <1>4, <1>5

LEMMA OtherMoves ==
  ASSUME TypeInv, NEW c \in Calls
  PROVE  /\ AckFails(c) => call'[c].at = "signal" /\ call'[c].found = {} /\ call'[c].acked = 0
         /\ TakeSignal(c) => call'[c].at = "read" /\ call'[c].found = {} /\ call'[c].acked = 0 /\ call'[c].from = 0
         /\ Wake(c) \/ Recheck(c) => /\ call[c].at = "wait" /\ call'[c].at = "signal" /\ call'[c].found = {}
                                     /\ call'[c].acked = call[c].acked
         /\ AckFails(c) \/ TakeSignal(c) \/ Wake(c) \/ Recheck(c) =>
              call'[c].offset = call[c].offset /\ call'[c].cursor = call[c].cursor
         /\ ReadFails(c) \/ Deadline(c) => call'[c].at = "answer" /\ call'[c].found = {} /\ call'[c].offset = 0
                                           /\ call'[c].cursor = 0
         /\ Respond(c) => call'[c].at = "idle" /\ call'[c].found = {} /\ call'[c].offset = 0 /\ call'[c].cursor = 0
<1>1. call[c] \in CallType /\ call \in [Calls -> CallType] /\ CallSound(call[c])
  BY DEF TypeInv, CallTypes
<1>2. ASSUME TakeSignal(c)
      PROVE  /\ call'[c].at = "read" /\ call'[c].found = {} /\ call'[c].acked = 0 /\ call'[c].from = 0
             /\ call'[c].offset = call[c].offset /\ call'[c].cursor = call[c].cursor
  BY <1>1, <1>2 DEF TakeSignal, CallType, CallSound
<1>3. ASSUME Wake(c) \/ Recheck(c)
      PROVE  /\ call[c].at = "wait" /\ call'[c].at = "signal" /\ call'[c].found = {}
             /\ call'[c].acked = call[c].acked
             /\ call'[c].offset = call[c].offset /\ call'[c].cursor = call[c].cursor
  BY <1>1, <1>3 DEF Wake, Recheck, Goto, CallType, CallSound
<1>4. ReadFails(c) \/ Deadline(c) => call' = Answer(c, {})
  BY DEF ReadFails, Deadline
<1>5. Respond(c) => call'[c] = NotRunning
  BY <1>1 DEF Respond
<1>6. AckFails(c) => /\ call'[c].at = "signal" /\ call'[c].found = {} /\ call'[c].acked = 0
                     /\ call'[c].offset = call[c].offset /\ call'[c].cursor = call[c].cursor
  BY <1>1 DEF AckFails, CallType
<1> QED
  BY <1>2, <1>3, <1>4, <1>5, <1>6, Answering DEF NotRunning

LEMMA ReadMoves ==
  ASSUME TypeInv, NEW c \in Calls, ReadPage(c)
  PROVE  /\ call'[c].found = Found(c) /\ call'[c].from = (IF More(c) THEN Last(ReadPart(c)) ELSE 0)
         /\ call'[c].at = (IF More(c) THEN "read" ELSE "filter")
         /\ call'[c].cursor = call[c].cursor /\ call'[c].offset = call[c].offset
<1>1. call[c] \in CallType
  BY DEF TypeInv, CallTypes
<1>2. PICK found, from, at : /\ found = Found(c) /\ from = (IF More(c) THEN Last(ReadPart(c)) ELSE 0)
                             /\ at = (IF More(c) THEN "read" ELSE "filter")
  OBVIOUS
<1>3. call'[c] = [call[c] EXCEPT !.found = found, !.from = from, !.at = at]
  BY <1>2, Reading
<1> QED
  BY <1>1, <1>2, <1>3 DEF CallType

LEMMA FilterMoves ==
  ASSUME TypeInv, NEW c \in Calls, Filter(c)
  PROVE  /\ call[c].at = "filter" /\ call'[c].acked = 0
         /\ \/ /\ call'[c].at = "answer" /\ call'[c].found = call[c].found
               /\ call'[c].offset = 0 /\ call'[c].cursor = 0
            \/ /\ call'[c].at = "signal" /\ call'[c].found = {} /\ call'[c].offset = call[c].offset
               /\ IDs(call[c].found) \subseteq Hidden /\ call'[c].cursor = Last(call[c].found)
               /\ Last(call[c].found) \in call[c].found /\ \A e \in call[c].found : Last(call[c].found) >= e
            \/ /\ call'[c].at = "wait" /\ call'[c].found = {}
               /\ call'[c].offset = call[c].offset /\ call'[c].cursor = call[c].cursor
<1>1. call[c] \in CallType /\ call \in [Calls -> CallType] /\ Len(log) \in Nat /\ call[c].at = "filter"
      /\ call[c].found \in SUBSET (1..Len(log)) /\ call[c].acked = 0
  BY LogEntries DEF TypeInv, RedisTypes, CallTypes, CallSound, Filter, Entries
<1>2. CASE call' = Answer(c, call[c].found)
  BY <1>1, <1>2, Answering
<1>3. CASE /\ IDs(call[c].found) \ Hidden = {} /\ call[c].found # {}
           /\ call' = [call EXCEPT ![c].at = "signal", ![c].cursor = Last(call[c].found), ![c].found = {}]
  <2>1. PICK last : last = Last(call[c].found)
    OBVIOUS
  <2>2. call'[c] = [call[c] EXCEPT !.at = "signal", !.cursor = last, !.found = {}]
    BY <1>1, <1>3, <2>1
  <2>3. last \in call[c].found /\ \A e \in call[c].found : last >= e
    BY <1>1, <1>3, <2>1, LastEntry
  <2>4. /\ call'[c].at = "signal" /\ call'[c].found = {} /\ call'[c].cursor = last
        /\ call'[c].offset = call[c].offset /\ call'[c].acked = call[c].acked
    BY <1>1, <2>2 DEF CallType
  <2> QED
    BY <1>1, <1>3, <2>1, <2>3, <2>4
<1>4. CASE call[c].found = {} /\ call' = Goto(c, "wait")
  <2>1. call'[c] = [call[c] EXCEPT !.at = "wait"]
    BY <1>1, <1>4 DEF Goto
  <2> QED
    BY <1>1, <1>4, <2>1 DEF CallType
<1>5. CASE call[c].found = {} /\ call' = Answer(c, {})
  BY <1>1, <1>5, Answering
<1> QED
  BY <1>2, <1>3, <1>4, <1>5 DEF Filter
-----------------------------------------------------------------------------
(* One worker.  Without a reset a bot has one update worker                *)
(* (newUpdateWorker); then the update_ids in the log never decrease.       *)
OneWorker == \A v, w \in Workers : v = w
OrderInv ==
  /\ \A e, f \in Entries : e <= f => log[e] <= log[f]
  /\ \A e \in Entries : log[e] <= nextID
  /\ \A w \in Workers : worker[w].id \in {0, nextID}

LEMMA OrderInit == Init => OrderInv
BY DEF Init, OrderInv, Entries

LEMMA OrderStep == OneWorker /\ TypeInv /\ OrderInv /\ [Next]_vars => OrderInv'
<1> SUFFICES ASSUME OneWorker, TypeInv, OrderInv, [Next]_vars PROVE OrderInv'
  OBVIOUS
<1>1. /\ log \in Seq(Updates) /\ Len(log) \in Nat /\ Entries \subseteq Nat /\ nextID \in Nat
      /\ \A e \in Entries : log[e] \in Nat
      /\ worker \in [Workers -> [id : 0..MaxUpdates, persisted : BOOLEAN]]
  BY LogEntries DEF TypeInv, RedisTypes, Updates
<1>2. CASE UNCHANGED workerVars
  BY <1>2 DEF OrderInv, workerVars, Entries
<1>3. CASE \E w \in Workers : UpdateWorker(w)
  <2>1. PICK w \in Workers : UpdateWorker(w)
    BY <1>3
  <2>2. \A v \in Workers : v = w
    BY DEF OneWorker
  <2>3. CASE Allocate(w)
    <3>1. nextID' = nextID + 1 /\ worker' = [worker EXCEPT ![w].id = nextID'] /\ UNCHANGED <<log, Entries>>
      BY <2>3 DEF Allocate, Entries
    <3>2. worker'[w].id = nextID'
      BY <1>1, <3>1
    <3>3. \A e \in Entries : log[e] <= nextID + 1
      BY <1>1 DEF OrderInv
    <3> QED
      BY <2>2, <3>1, <3>2, <3>3 DEF OrderInv
  <2>4. CASE AppendEntry(w)
    <3>1. /\ Entries' = Entries \cup {Len(log) + 1} /\ \A e \in Entries : log'[e] = log[e]
          /\ log'[Len(log) + 1] = worker[w].id /\ Len(log) + 1 \notin Entries
      BY <2>4, Appending
    <3>2. worker[w].id = nextID /\ nextID' = nextID
      BY <2>4 DEF AppendEntry, OrderInv
    <3>3. \A e \in Entries : e < Len(log) + 1
      BY <1>1 DEF Entries
    <3>4. \A v \in Workers : worker'[v].id \in {0, nextID}
      <4>1. worker' = [worker EXCEPT ![w] = [id |-> 0, persisted |-> TRUE]] \/ UNCHANGED worker
        BY <2>4 DEF AppendEntry
      <4> QED
        BY <1>1, <2>2, <4>1 DEF OrderInv
    <3>5. \A e \in Entries' : log'[e] <= nextID'
      BY <1>1, <3>1, <3>2 DEF OrderInv
    <3>6. ASSUME NEW e \in Entries', NEW f \in Entries', e <= f PROVE log'[e] <= log'[f]
      <4>1. CASE f \in Entries
        <5>1. e \in Entries
          BY <1>1, <3>1, <3>3, <3>6, <4>1
        <5> QED
          BY <3>1, <3>6, <4>1, <5>1 DEF OrderInv
      <4>2. CASE f = Len(log) + 1
        BY <3>1, <3>2, <3>5, <4>2
      <4> QED
        BY <3>1, <4>1, <4>2
    <3> QED
      BY <3>2, <3>4, <3>5, <3>6 DEF OrderInv
  <2>5. CASE AppendFails(w) \/ Broadcast(w) \/ BatchPanics(w)
    <3>1. UNCHANGED <<nextID, log, Entries>>
      BY <2>5 DEF AppendFails, Broadcast, BatchPanics, Entries
    <3>2. \/ worker' = [worker EXCEPT ![w].id = 0]
          \/ worker' = [worker EXCEPT ![w].persisted = FALSE]
      BY <2>5 DEF AppendFails, Broadcast, BatchPanics
    <3>3. worker'[w].id \in {0, worker[w].id}
      BY <1>1, <3>2
    <3> QED
      BY <2>2, <3>1, <3>3 DEF OrderInv
  <2> QED
    BY <2>1, <2>3, <2>4, <2>5 DEF UpdateWorker
<1>4. UNCHANGED workerVars \/ \E w \in Workers : UpdateWorker(w)
  <2>1. CASE \E c \in Calls : GetUpdates(c) \/ CallGetUpdates(c)
    BY <2>1, OneCall
  <2> QED
    BY <2>1 DEF Next, DropPending, ProcessUpdate, Abandon, RestartApplication, vars
<1> QED
  BY <1>2, <1>3, <1>4

-----------------------------------------------------------------------------
(* Acknowledging.  What is older than the page has been deleted, and what  *)
(* will be deleted is the head of the stream.                              *)
AckInv == \A c \in Calls :
  /\ call[c].at = "ack" => \A e \in stream : e > call[c].from
  /\ call[c].at = "delete" => \A e \in stream : e \in call[c].found \/ e > Last(call[c].found)
  /\ call[c].at = "delete" /\ call[c].done =>
       \A e \in stream \ call[c].found : e <= call[c].acked => log[e] >= call[c].offset
  /\ call[c].at = "signal" => \A e \in stream : e <= call[c].acked => log[e] >= call[c].offset

LEMMA AckInit == Init => AckInv
BY DEF Init, AckInv, NotRunning

(* What the others do leaves the head of the stream to the call.           *)
LEMMA AckOthers ==
  ASSUME TypeInv, AckInv, UNCHANGED call,
         \/ stream' \subseteq stream /\ UNCHANGED log
         \/ \E w \in Workers : AppendEntry(w)
  PROVE  AckInv'
<1>1. CASE stream' \subseteq stream /\ UNCHANGED log
  BY <1>1 DEF AckInv
<1>2. CASE \E w \in Workers : AppendEntry(w)
  <2>1. PICK w \in Workers : AppendEntry(w)
    BY <1>2
  <2>2. PICK new : new = Len(log) + 1
    OBVIOUS
  <2>3. stream' \subseteq stream \cup {new} /\ \A e \in stream : log'[e] = log[e]
    BY <2>1, <2>2, Appending DEF TypeInv, RedisTypes
  <2>4. ASSUME NEW c \in Calls
        PROVE  /\ call[c].from < new /\ ~(new <= call[c].acked)
               /\ call[c].at = "delete" => new > Last(call[c].found)
    <3>1. /\ call[c] \in CallType /\ CallSound(call[c]) /\ Len(log) \in Nat
          /\ call[c].found \in SUBSET (1..Len(log))
      BY LogEntries DEF TypeInv, CallTypes, RedisTypes, CallSound, Entries
    <3>2. call[c].from < new /\ ~(new <= call[c].acked)
      BY <2>2, <3>1 DEF CallSound, CallType
    <3>3. call[c].at = "delete" => Last(call[c].found) \in 1..Len(log)
      BY <3>1, LastEntry DEF CallSound
    <3> QED
      BY <2>2, <3>1, <3>2, <3>3
  <2> QED
    BY <2>3, <2>4 DEF AckInv
<1> QED
  BY <1>1, <1>2

(* What a page leaves in the stream is at or above the offset, if it is    *)
(* the last one.                                                           *)
LEMMA LastPage ==
  ASSUME TypeInv, OrderInv, AckInv, NEW c \in Calls, AckRead(c),
         \/ Old(c) = {} \/ Old(c) # AckPage(c) \/ Cardinality(AckPage(c)) < PageSize,
         NEW e \in stream \ Old(c)
  PROVE  log[e] >= call[c].offset
<1>1. PICK page, old, from, first :
        page = AckPage(c) /\ old = Old(c) /\ from = call[c].from /\ first = call[c].offset
  OBVIOUS
<1>2. /\ stream \subseteq Entries /\ Entries \subseteq Nat /\ first \in Nat /\ from \in Nat
      /\ \A g \in Entries : log[g] \in Nat
  <2>1. first \in Nat /\ from \in Nat
    BY <1>1 DEF TypeInv, CallTypes, CallType
  <2> QED
    BY <2>1, LogEntries DEF TypeInv, RedisTypes, Updates
<1>3. /\ call[c].at = "ack" /\ page \subseteq stream
      /\ \A g \in page, f \in stream : from < f /\ f <= g => f \in page
      /\ old = {} \/ old # page \/ page = {g \in stream : g > from}
      /\ page = {} => page = {g \in stream : g > from}
  BY <1>1, Acknowledging
<1>4. e > from
  BY <1>1, <1>3 DEF AckInv
<1>5. \A g \in page : g \in old \/ \E f \in page : f <= g /\ ~(log[f] < first)
  BY <1>1 DEF Old
<1>6. ASSUME NEW f \in page, f <= e, ~(log[f] < first) PROVE log[e] >= first
  <2>1. log[f] <= log[e]
    BY <1>2, <1>3, <1>6 DEF OrderInv
  <2> QED
    BY <1>2, <1>3, <1>6, <2>1
<1>7. CASE e \in page
  BY <1>1, <1>5, <1>6, <1>7
<1>8. CASE e \notin page
  <2>1. page # {} /\ page # {g \in stream : g > from}
    BY <1>3, <1>4, <1>8
  <2>2. old \subseteq page
    BY <1>1 DEF Old
  <2>3. PICK g \in page : g \notin old
    BY <1>3, <2>1, <2>2
  <2>4. PICK f \in page : ~(log[f] < first)
    BY <1>5, <2>3
  <2>5. ~(e <= f)
    BY <1>3, <1>4, <1>8
  <2>6. f <= e
    BY <1>2, <1>3, <2>5
  <2> QED
    BY <1>1, <1>6, <2>4, <2>6
<1> QED
  BY <1>7, <1>8

LEMMA AckStep == TypeInv /\ OrderInv /\ AckInv /\ [Next]_vars => AckInv'
<1> SUFFICES ASSUME TypeInv, OrderInv, AckInv, [Next]_vars PROVE AckInv'
  OBVIOUS
<1>1. CASE \E w \in Workers : UpdateWorker(w)
  <2>1. PICK w \in Workers : UpdateWorker(w)
    BY <1>1
  <2>2. AppendEntry(w) \/ UNCHANGED <<stream, log>>
    BY <2>1 DEF UpdateWorker, Allocate, AppendFails, Broadcast, BatchPanics
  <2>3. UNCHANGED call
    BY <2>1, Elsewhere
  <2> QED
    BY <2>2, <2>3, AckOthers
<1>2. CASE DropPending \/ ProcessUpdate \/ Abandon \/ RestartApplication \/ UNCHANGED vars
  <2>1. stream' \subseteq stream /\ UNCHANGED log
    BY <1>2 DEF DropPending, DropPendingUpdates, ProcessUpdate, Abandon, RestartApplication, vars, workerVars
  <2>2. UNCHANGED call
    BY <1>2, Elsewhere
  <2> QED
    BY <2>1, <2>2, AckOthers
<1>3. CASE \E c \in Calls : GetUpdates(c) \/ CallGetUpdates(c)
  <2>1. PICK c \in Calls : GetUpdates(c) \/ CallGetUpdates(c)
    BY <1>3
  <2>2. /\ \A d \in Calls \ {c} : call'[d] = call[d] /\ stream' \subseteq stream /\ UNCHANGED log
        /\ stream' \subseteq stream /\ UNCHANGED log
    BY <2>1, OneCall DEF workerVars
  <2>3. SUFFICES
          /\ call'[c].at = "ack" => \A e \in stream' : e > call'[c].from
          /\ call'[c].at = "delete" => \A e \in stream' : e \in call'[c].found \/ e > Last(call'[c].found)
          /\ call'[c].at = "delete" /\ call'[c].done =>
               \A e \in stream' \ call'[c].found : e <= call'[c].acked => log[e] >= call'[c].offset
          /\ call'[c].at = "signal" => \A e \in stream' : e <= call'[c].acked => log[e] >= call'[c].offset
    BY <2>2 DEF AckInv
  <2>4. stream \subseteq Entries /\ Entries \subseteq Nat /\ \A e \in stream : e > 0 /\ log[e] \in Nat
    BY LogEntries DEF TypeInv, RedisTypes, Entries, Updates
  <2>5. CASE CallGetUpdates(c)
    <3>1. /\ call'[c].at = (IF offset > 0 THEN "ack" ELSE "signal") /\ call'[c].offset = offset
          /\ call'[c].from = 0
      BY <2>5, Beginning
    <3>2. offset \in Nat
      BY DEF TypeInv, AppTypes
    <3> QED
      BY <2>2, <2>4, <3>1, <3>2
  <2>6. CASE AckRead(c)
    <3>1. /\ call'[c].at = (IF Old(c) = {} THEN "signal" ELSE "delete") /\ call'[c].found = Old(c)
          /\ Old(c) # {} => call'[c].done = (Old(c) # AckPage(c) \/ Cardinality(AckPage(c)) < PageSize)
          /\ call'[c].offset = call[c].offset
      BY <2>6, AckReadMoves
    <3>2. call'[c].at = "signal" \/ call'[c].done => \A e \in stream' \ Old(c) : log[e] >= call[c].offset
      BY <2>2, <2>6, <3>1, LastPage
    <3>3. Old(c) # {} => \A e \in stream' : e \in Old(c) \/ e > Last(Old(c))
      <4>1. SUFFICES ASSUME Old(c) # {}, NEW e \in stream, ~(e > Last(Old(c))) PROVE e \in Old(c)
        BY <2>2
      <4>2. PICK page, last, from : page = AckPage(c) /\ last = Last(Old(c)) /\ from = call[c].from
        OBVIOUS
      <4>3. last \in Old(c)
        BY <2>6, <4>1, <4>2, Acknowledging
      <4>4. /\ last \in page /\ \A f \in page : f <= last => log[f] < call[c].offset
            /\ page \subseteq stream /\ from \in Nat
            /\ \A g \in page, f \in stream : from < f /\ f <= g => f \in page
            /\ call[c].at = "ack"
        BY <2>6, <4>2, <4>3, Acknowledging DEF Old, TypeInv, CallTypes, CallType
      <4>5. e > from
        BY <4>2, <4>4 DEF AckInv
      <4>6. page \subseteq Nat /\ e \in Nat /\ last \in Nat
        BY <2>4, <4>1, <4>4
      <4>7. ~(e > last)
        BY <4>1, <4>2
      <4>8. e <= last
        BY <4>6, <4>7
      <4>9. e \in page
        BY <4>1, <4>4, <4>5, <4>8
      <4>10. \A f \in page : f <= e => f <= last
        BY <4>6, <4>8
      <4> QED
        BY <4>2, <4>4, <4>9, <4>10 DEF Old
    <3> QED
      BY <3>1, <3>2, <3>3
  <2>7. CASE AckDelete(c)
    <3>1. /\ call'[c].at = (IF call[c].done THEN "signal" ELSE "ack")
          /\ call'[c].from = Last(call[c].found) /\ call'[c].offset = call[c].offset
          /\ call'[c].acked = call[c].acked
      BY <2>7, AckDeleteMoves
    <3>2. call[c].at = "delete" /\ stream' = stream \ call[c].found
      BY <2>7 DEF AckDelete
    <3> QED
      BY <3>1, <3>2 DEF AckInv
  <2>8. CASE ~CallGetUpdates(c) /\ ~AckRead(c) /\ ~AckDelete(c)
    <3>1. /\ call'[c].at \notin {"ack", "delete"}
          /\ call'[c].at = "signal" => call'[c].acked = 0
      <4>1. CASE ReadPage(c)
        BY <4>1, ReadMoves
      <4>2. CASE Filter(c)
        BY <4>2, FilterMoves
      <4>3. CASE Wake(c) \/ Recheck(c)
        <5>1. call[c].at = "wait" /\ call'[c].at = "signal" /\ call'[c].acked = call[c].acked
          BY <4>3, OtherMoves
        <5> QED
          BY <5>1 DEF TypeInv, CallTypes, CallSound
      <4> QED
        BY <2>1, <2>8, <4>1, <4>2, <4>3, OtherMoves DEF GetUpdates
    <3> QED
      BY <2>2, <2>4, <3>1
  <2> QED
    BY <2>5, <2>6, <2>7, <2>8
<1> QED
  BY <1>1, <1>2, <1>3 DEF Next

(* AckUpdates removes, page by page, everything below the offset that was  *)
(* in the stream when the call began, if the bot has one update worker.    *)
THEOREM AcksAreComplete == OneWorker => (Spec => []AckComplete)
<1>1. AckInv => AckComplete
  BY DEF AckInv, AckComplete
<1> SUFFICES ASSUME OneWorker PROVE Spec => []AckComplete
  OBVIOUS
<1>2. Init => TypeInv /\ OrderInv /\ AckInv
  BY TypeInit, OrderInit, AckInit
<1>3. TypeInv /\ OrderInv /\ AckInv /\ [Next]_vars => (TypeInv /\ OrderInv /\ AckInv)'
  BY TypeStep, OrderStep, AckStep
<1> QED
  BY <1>1, <1>2, <1>3, PTL DEF Spec
-----------------------------------------------------------------------------
(* Nothing the application asks for is passed over.  An update is settled  *)
(* once it was processed or discarded, or if nobody asks for it; a present *)
(* one is settled or in the stream.  Updates below an offset are settled,  *)
(* and so is what lies behind the cursor.  What a call has found leaves no *)
(* gap: an update with a lower ID is settled or comes before it.           *)
Settled == seen \cup discarded \cup Hidden
Present(v) == v \in Settled \/ \E g \in stream : log[g] = v

KnownInv ==
  /\ \A e \in Entries : Present(log[e])
  /\ \A v \in 1..nextID : Present(v) \/ \E w \in Workers : worker[w].id = v
AnswerInv ==
  /\ \A v \in Updates : v < offset => v \in Settled
  /\ \A k \in DOMAIN answer :
       /\ answer[k] <= nextID
       /\ \A v \in Updates : v < answer[k] => v \in Settled \/ \E j \in 1..k - 1 : answer[j] = v
NoGap(found) ==
  \A e \in found, v \in Updates : v < log[e] => v \in Settled \/ \E g \in found : g < e /\ log[g] = v
CallSeen(c) ==
  /\ \A v \in Updates : v < call[c].offset => v \in Settled
  /\ call[c].at = "delete" => \A e \in call[c].found : log[e] < call[c].offset
  /\ \A e \in Entries : e <= call[c].cursor => log[e] \in Settled
  /\ call[c].at = "read" /\ call[c].cursor = 0 =>
       \A e \in stream : e <= call[c].from => e \in call[c].found \/ log[e] < call[c].offset
  /\ call[c].at \in {"read", "filter", "answer"} => NoGap(call[c].found)
SeenInv == KnownInv /\ AnswerInv /\ \A c \in Calls : CallSeen(c)

LEMMA SeenInit == Init => SeenInv
<1> SUFFICES ASSUME Init PROVE SeenInv
  OBVIOUS
<1>1. log = <<>> /\ Len(log) = 0 /\ Entries = {} /\ nextID = 0 /\ offset = 0 /\ answer = <<>>
  BY DEF Init, Entries
<1>2. KnownInv /\ AnswerInv
  BY <1>1 DEF KnownInv, AnswerInv, Updates
<1>3. \A c \in Calls : CallSeen(c)
  BY <1>1 DEF Init, CallSeen, NotRunning, Updates
<1> QED
  BY <1>2, <1>3 DEF SeenInv

(* Whatever happens, the log only grows, and so does what is settled.      *)
LEMMA Growing ==
  ASSUME TypeInv, [Next]_vars
  PROVE  /\ Settled \subseteq Settled' /\ nextID <= nextID' /\ stream' \subseteq stream \cup {Len(log) + 1}
         /\ \A e \in Entries : e \in Entries' /\ log'[e] = log[e]
         /\ (\E w \in Workers : AppendEntry(w)) \/ (stream' \subseteq stream /\ UNCHANGED <<log, Entries>>)
<1>1. nextID \in Nat
  BY DEF TypeInv, RedisTypes
<1>2. CASE \E w \in Workers : UpdateWorker(w)
  <2>1. PICK w \in Workers : UpdateWorker(w)
    BY <1>2
  <2>2. Settled \subseteq Settled' /\ nextID <= nextID'
    <3>1. nextID' \in {nextID, nextID + 1}
      BY <2>1 DEF UpdateWorker, Allocate, AppendEntry, AppendFails, Broadcast, BatchPanics
    <3>2. seen' = seen /\ discarded \subseteq discarded'
      BY <2>1 DEF UpdateWorker, Allocate, AppendEntry, AppendFails, Broadcast, BatchPanics, appVars
    <3> QED
      BY <1>1, <3>1, <3>2 DEF Settled
  <2>3. AppendEntry(w) \/ UNCHANGED <<stream, log>>
    BY <2>1 DEF UpdateWorker, Allocate, AppendFails, Broadcast, BatchPanics
  <2> QED
    BY <2>2, <2>3, Appending DEF Entries
<1>3. CASE \E c \in Calls : GetUpdates(c) \/ CallGetUpdates(c)
  BY <1>1, <1>3, OneCall DEF workerVars, Settled, Entries
<1>4. CASE DropPending \/ ProcessUpdate \/ Abandon \/ RestartApplication \/ UNCHANGED vars
  <2>1. UNCHANGED <<nextID, log>> /\ stream' \subseteq stream
    BY <1>4 DEF DropPending, DropPendingUpdates, ProcessUpdate, Abandon, RestartApplication, vars, workerVars
  <2>2. seen \subseteq seen' /\ discarded \subseteq discarded'
    BY <1>4 DEF DropPending, ProcessUpdate, Abandon, RestartApplication, vars, appVars
  <2> QED
    BY <1>1, <2>1, <2>2 DEF Settled, Entries
<1> QED
  BY <1>2, <1>3, <1>4 DEF Next

(* What is present stays so: entries leave the stream below an offset,     *)
(* trimmed or dropped.                                                     *)
LEMMA PresentKept ==
  ASSUME TypeInv, SeenInv, [Next]_vars, NEW v, Present(v)
  PROVE  Present(v)'
<1>1. Settled \subseteq Settled' /\ stream \subseteq Entries /\ \A e \in Entries : log'[e] = log[e]
  BY Growing DEF TypeInv, RedisTypes
<1>2. CASE v \in Settled
  BY <1>1, <1>2 DEF Present
<1>3. ASSUME NEW g \in stream, log[g] = v PROVE Present(v)'
  <2>1. log'[g] = v
    BY <1>1, <1>3
  <2>2. CASE g \in stream'
    BY <2>1, <2>2 DEF Present
  <2>3. CASE g \notin stream'
    <3>1. CASE \E w \in Workers : AppendEntry(w)
      <4>1. discarded' = discarded \cup ({log'[e] : e \in stream} \ {log'[e] : e \in stream'})
        BY <3>1 DEF AppendEntry
      <4>2. v \in {log'[e] : e \in stream'} \/ v \in discarded'
        BY <2>1, <4>1
      <4> QED
        BY <4>2 DEF Present, Settled
    <3>2. CASE DropPending
      BY <1>3, <3>2 DEF DropPending, IDs, Present, Settled
    <3>3. CASE \E c \in Calls : AckDelete(c) \/ AckFails(c)
      <4>1. PICK c \in Calls : AckDelete(c) \/ AckFails(c)
        BY <3>3
      <4>2. call[c].at = "delete" /\ g \in call[c].found
        BY <2>3, <4>1 DEF AckDelete, AckFails
      <4>3. v \in Updates /\ log[g] < call[c].offset
        BY <1>1, <1>3, <4>2, LogEntries DEF SeenInv, CallSeen, TypeInv, RedisTypes
      <4>4. v \in Settled
        BY <1>3, <4>3 DEF SeenInv, CallSeen
      <4> QED
        BY <1>1, <4>4 DEF Present
    <3>4. CASE UNCHANGED stream
      BY <2>3, <3>4
    <3>5. \/ \E w \in Workers : AppendEntry(w)
          \/ DropPending
          \/ \E c \in Calls : AckDelete(c) \/ AckFails(c)
          \/ UNCHANGED stream
      BY DEF Next, ProcessUpdate, Abandon, RestartApplication, vars, UpdateWorker, Allocate, AppendFails,
         Broadcast, BatchPanics, GetUpdates, CallGetUpdates, AckRead, TakeSignal, ReadPage, Filter, ReadFails,
         Wake, Recheck, Deadline, Respond
    <3> QED
      BY <3>1, <3>2, <3>3, <3>4, <3>5
  <2> QED
    BY <2>2, <2>3
<1> QED
  BY <1>2, <1>3 DEF Present

LEMMA KnownStep ==
  ASSUME OneWorker, TypeInv, OrderInv, SeenInv, [Next]_vars
  PROVE  KnownInv'
<1>1. /\ Len(log) \in Nat /\ stream \subseteq Entries /\ nextID \in Nat
      /\ worker \in [Workers -> [id : 0..MaxUpdates, persisted : BOOLEAN]]
  BY LogEntries DEF TypeInv, RedisTypes
<1>2. /\ \A e \in Entries : Present(log[e])'
      /\ \A v \in 1..nextID : Present(v)' \/ \E w \in Workers : worker[w].id = v
  <2>1. \A e \in Entries : Present(log[e]) /\ log'[e] = log[e]
    BY Growing DEF SeenInv, KnownInv
  <2>2. ASSUME NEW e \in Entries PROVE Present(log[e])'
    <3>1. PICK v : v = log[e]
      OBVIOUS
    <3>2. Present(v)'
      BY <2>1, <3>1, PresentKept
    <3> QED
      BY <2>1, <3>1, <3>2
  <2> QED
    BY <2>2, PresentKept DEF SeenInv, KnownInv
<1>3. CASE \E w \in Workers : AppendEntry(w)
  <2>1. PICK w \in Workers : AppendEntry(w)
    BY <1>3
  <2>2. PICK new : new = Len(log) + 1
    OBVIOUS
  <2>3. Entries' = Entries \cup {new} /\ new \in stream' /\ log'[new] = worker[w].id /\ UNCHANGED nextID
    BY <2>1, <2>2, Appending DEF AppendEntry
  <2>4. PICK id : id = worker[w].id /\ Present(id)'
    BY <2>3 DEF Present
  <2>5. \A v \in Workers : v = w
    BY DEF OneWorker
  <2>6. ASSUME NEW e \in Entries' PROVE Present(log[e])'
    BY <1>2, <2>3, <2>4
  <2>7. ASSUME NEW v \in 1..nextID' PROVE Present(v)'
    BY <1>2, <2>3, <2>4, <2>5
  <2> QED
    BY <2>6, <2>7 DEF KnownInv
<1>4. CASE ~ \E w \in Workers : AppendEntry(w)
  <2>1. UNCHANGED <<log, Entries>>
    BY <1>4, Growing
  <2>2. ASSUME NEW v \in 1..nextID' PROVE Present(v)' \/ \E w \in Workers : worker'[w].id = v
    <3>1. CASE \E w \in Workers : Allocate(w)
      <4>1. PICK w \in Workers : Allocate(w)
        BY <3>1
      <4>2. nextID' = nextID + 1 /\ worker'[w].id = nextID' /\ worker[w].id = 0
        BY <1>1, <4>1 DEF Allocate
      <4>3. v \in 1..nextID \/ v = nextID'
        BY <1>1, <4>2
      <4>4. \A u \in Workers : worker[u].id # v
        BY <4>2 DEF OneWorker
      <4> QED
        BY <1>2, <4>2, <4>3, <4>4
    <3>2. CASE \E w \in Workers : AppendFails(w)
      <4>1. PICK w \in Workers : AppendFails(w)
        BY <3>2
      <4>2. worker[w].id = v => Present(v)'
        BY <4>1 DEF AppendFails, Present, Settled, IDs
      <4>3. UNCHANGED nextID
        BY <4>1 DEF AppendFails
      <4> QED
        BY <1>2, <4>2, <4>3 DEF OneWorker
    <3>3. CASE UNCHANGED nextID /\ \A w \in Workers : worker'[w].id = worker[w].id
      BY <1>2, <3>3
    <3>4. CASE \E w \in Workers : Broadcast(w) \/ BatchPanics(w)
      <4>1. PICK w \in Workers : Broadcast(w) \/ BatchPanics(w)
        BY <3>4
      <4>2. worker' = [worker EXCEPT ![w].persisted = FALSE] /\ UNCHANGED nextID
        BY <4>1 DEF Broadcast, BatchPanics
      <4>3. \A u \in Workers : worker'[u].id = worker[u].id
        BY <1>1, <4>2
      <4> QED
        BY <3>3, <4>2, <4>3
    <3>5. CASE UNCHANGED <<nextID, worker>>
      BY <1>2, <3>5
    <3>6. \/ \E w \in Workers : Allocate(w) \/ AppendFails(w) \/ Broadcast(w) \/ BatchPanics(w)
          \/ UNCHANGED <<nextID, worker>>
      <4>1. CASE \E c \in Calls : GetUpdates(c) \/ CallGetUpdates(c)
        BY <4>1, OneCall DEF workerVars
      <4> QED
        BY <1>4, <4>1 DEF Next, UpdateWorker, DropPending, ProcessUpdate, Abandon, RestartApplication, vars,
           workerVars
    <3> QED
      BY <3>1, <3>2, <3>4, <3>5, <3>6
  <2> QED
    BY <1>2, <2>1, <2>2 DEF KnownInv
<1> QED
  BY <1>3, <1>4
(* A response is in order and leaves no gap, and the application goes on   *)
(* from it.                                                                *)
LEMMA AnswerStep ==
  ASSUME TypeInv, OrderInv, SeenInv, [Next]_vars
  PROVE  AnswerInv'
<1>1. /\ answer \in Seq(Updates) /\ nextID \in Nat /\ Settled \subseteq Settled' /\ nextID <= nextID'
      /\ nextID' \in Nat
  BY Growing, TypeStep DEF TypeInv, AppTypes, RedisTypes
<1>2. AnswerInv
  BY DEF SeenInv
<1>3. CASE ProcessUpdate
  <2>1. PICK u, rest : u = Head(answer) /\ rest = Tail(answer)
    OBVIOUS
  <2>2. /\ u = answer[1] /\ rest \in Seq(Updates) /\ DOMAIN answer = 1..Len(answer) /\ Len(answer) \in Nat \ {0}
        /\ Len(rest) = Len(answer) - 1 /\ \A k \in 1..Len(rest) : rest[k] = answer[k + 1]
        /\ u \in Updates
    BY <1>1, <1>3, <2>1 DEF ProcessUpdate
  <2>3. offset' = u + 1 /\ answer' = rest /\ u \in seen' /\ nextID' = nextID
    BY <1>3, <2>1 DEF ProcessUpdate, workerVars
  <2>4. u \in Settled' /\ \A v \in Updates : v < u => v \in Settled
    <3>1. ASSUME NEW v \in Updates, v < u PROVE v \in Settled
      <4>1. v \in Settled \/ \E j \in 1..1 - 1 : answer[j] = v
        BY <1>2, <2>2, <3>1 DEF AnswerInv
      <4> QED
        BY <4>1
    <3> QED
      BY <2>3, <3>1 DEF Settled
  <2>5. \A v \in Updates : v < u + 1 => v \in Settled'
    BY <1>1, <2>2, <2>4 DEF Updates
  <2>6. ASSUME NEW k \in 1..Len(rest)
        PROVE  /\ rest[k] <= nextID
               /\ \A v \in Updates : v < rest[k] => v \in Settled' \/ \E j \in 1..k - 1 : rest[j] = v
    <3>1. k + 1 \in DOMAIN answer /\ rest[k] = answer[k + 1] /\ k \in Nat /\ k + 1 - 1 = k
      BY <2>2
    <3>2. ASSUME NEW v \in Updates, v < rest[k], v \notin Settled' PROVE \E j \in 1..k - 1 : rest[j] = v
      <4>1. PICK i \in 1..k : answer[i] = v
        BY <1>1, <1>2, <3>1, <3>2 DEF AnswerInv
      <4>2. i # 1
        BY <2>2, <2>4, <3>2, <4>1
      <4>3. i - 1 \in 1..k - 1 /\ i - 1 \in 1..Len(rest) /\ (i - 1) + 1 = i
        BY <2>2, <4>2
      <4> QED
        BY <2>2, <4>1, <4>3
    <3> QED
      BY <1>2, <3>1, <3>2 DEF AnswerInv
  <2>7. DOMAIN rest = 1..Len(rest)
    BY <2>2
  <2> QED
    BY <2>3, <2>5, <2>6, <2>7 DEF AnswerInv
<1>4. CASE \E c \in Calls : Respond(c) /\ c = current
  <2>1. PICK c \in Calls : Respond(c) /\ c = current
    BY <1>4
  <2>2. PICK found, wanted : found = call[c].found /\ wanted = {e \in call[c].found : log[e] \notin Hidden}
    OBVIOUS
  <2>3. /\ call[c].at = "answer" /\ answer' = Inorder(wanted) /\ offset' = offset
    BY <2>1, <2>2 DEF Respond
  <2>4. found \subseteq Entries /\ wanted \subseteq found /\ log \in Seq(Updates)
    BY <2>2 DEF TypeInv, CallTypes, CallSound, RedisTypes
  <2>5. /\ DOMAIN Inorder(wanted) = 1..Cardinality(wanted)
        /\ \A k \in 1..Cardinality(wanted) : \E e \in wanted :
             /\ Inorder(wanted)[k] = log[e]
             /\ \A g \in wanted : g < e => \E j \in 1..k - 1 : Inorder(wanted)[j] = log[g]
    BY <2>4, Responses
  <2>6. NoGap(found)
    BY <2>2, <2>3 DEF SeenInv, CallSeen
  <2>7. ASSUME NEW k \in DOMAIN answer'
        PROVE  /\ answer'[k] <= nextID'
               /\ \A v \in Updates : v < answer'[k] => v \in Settled' \/ \E j \in 1..k - 1 : answer'[j] = v
    <3>1. PICK e \in wanted : /\ answer'[k] = log[e]
                              /\ \A g \in wanted : g < e => \E j \in 1..k - 1 : answer'[j] = log[g]
      BY <2>3, <2>5
    <3>2. log[e] <= nextID /\ log[e] \in Nat
      BY <2>4, LogEntries DEF OrderInv, Updates
    <3>3. ASSUME NEW v \in Updates, v < log[e], v \notin Settled
          PROVE  \E j \in 1..k - 1 : answer'[j] = v
      <4>1. PICK g \in found : g < e /\ log[g] = v
        BY <2>4, <2>6, <3>3 DEF NoGap
      <4>2. g \in wanted
        BY <2>2, <3>3, <4>1 DEF Settled
      <4> QED
        BY <3>1, <4>1, <4>2
    <3> QED
      BY <1>1, <3>1, <3>2, <3>3
  <2> QED
    BY <1>1, <1>2, <2>3, <2>7 DEF AnswerInv
<1>5. CASE UNCHANGED <<answer, offset>>
  <2>1. ASSUME NEW k \in DOMAIN answer PROVE answer[k] <= nextID'
    <3>1. answer[k] \in Nat /\ answer[k] <= nextID
      BY <1>1, <1>2 DEF AnswerInv, Updates
    <3> QED
      BY <1>1, <3>1
  <2> QED
    BY <1>1, <1>2, <1>5, <2>1 DEF AnswerInv
<1>6. CASE RestartApplication
  BY <1>6 DEF RestartApplication, AnswerInv, Updates
<1>7. \/ ProcessUpdate \/ RestartApplication
      \/ \E c \in Calls : Respond(c) /\ c = current
      \/ UNCHANGED <<answer, offset>>
  <2>1. CASE \E w \in Workers : UpdateWorker(w)
    BY <2>1 DEF UpdateWorker, Allocate, AppendEntry, AppendFails, Broadcast, BatchPanics, appVars
  <2>2. CASE \E c \in Calls : GetUpdates(c) \/ CallGetUpdates(c)
    <3>1. PICK c \in Calls : GetUpdates(c) \/ CallGetUpdates(c)
      BY <2>2
    <3>2. UNCHANGED offset
      BY <3>1, OneCall
    <3>3. Respond(c) \/ UNCHANGED answer
      BY <3>1 DEF GetUpdates, CallGetUpdates, AckRead, AckDelete, AckFails, TakeSignal, ReadPage, Filter,
         ReadFails, Wake, Recheck, Deadline, appVars
    <3> QED
      BY <3>2, <3>3 DEF Respond
  <2>3. CASE DropPending \/ Abandon \/ UNCHANGED vars
    BY <2>3 DEF DropPending, Abandon, vars, appVars
  <2> QED
    BY <2>1, <2>2, <2>3 DEF Next
<1> QED
  BY <1>3, <1>4, <1>5, <1>6, <1>7

(* What a call knows stays true while it does nothing.                     *)
LEMMA CallSeenKept ==
  ASSUME TypeInv, SeenInv, [Next]_vars, NEW c \in Calls, call'[c] = call[c]
  PROVE  CallSeen(c)'
<1>1. PICK k : k = call[c]
  OBVIOUS
<1>2. /\ Settled \subseteq Settled' /\ stream' \subseteq stream \cup {Len(log) + 1}
      /\ \A e \in Entries : log'[e] = log[e]
  BY Growing
<1>3. k \in CallType /\ CallSound(k) /\ Len(log) \in Nat /\ stream \subseteq Entries /\ Len(log') \in Nat
  BY <1>1, LogEntries, TypeStep DEF TypeInv, CallTypes, RedisTypes
<1>4. k.found \subseteq Entries /\ k.cursor <= Len(log) /\ k.from <= Len(log) /\ k.cursor \in Nat /\ k.from \in Nat
  BY <1>3 DEF CallSound, CallType
<1>5. /\ \A v \in Updates : v < k.offset => v \in Settled
      /\ k.at = "delete" => \A e \in k.found : log[e] < k.offset
      /\ \A e \in Entries : e <= k.cursor => log[e] \in Settled
      /\ k.at = "read" /\ k.cursor = 0 =>
           \A e \in stream : e <= k.from => e \in k.found \/ log[e] < k.offset
      /\ k.at \in {"read", "filter", "answer"} => NoGap(k.found)
  BY <1>1 DEF SeenInv, CallSeen
<1>6. \A e \in Entries' : e <= k.cursor => e \in Entries /\ log'[e] \in Settled'
  BY <1>2, <1>3, <1>4, <1>5 DEF Entries
<1>7. \A e \in stream' : e <= k.from => e \in stream /\ log'[e] = log[e]
  BY <1>2, <1>3, <1>4
<1>8. ASSUME NoGap(k.found)
      PROVE  \A e \in k.found, v \in Updates : v < log'[e] =>
               v \in Settled' \/ \E g \in k.found : g < e /\ log'[g] = v
  BY <1>2, <1>4, <1>8 DEF NoGap
<1>9. call'[c] = k
  BY <1>1
<1>10. /\ \A v \in Updates : v < k.offset => v \in Settled'
       /\ k.at = "delete" => \A e \in k.found : log'[e] < k.offset
       /\ \A e \in Entries' : e <= k.cursor => log'[e] \in Settled'
       /\ k.at = "read" /\ k.cursor = 0 =>
            \A e \in stream' : e <= k.from => e \in k.found \/ log'[e] < k.offset
       /\ k.at \in {"read", "filter", "answer"} =>
            \A e \in k.found, v \in Updates : v < log'[e] =>
               v \in Settled' \/ \E g \in k.found : g < e /\ log'[g] = v
  BY <1>2, <1>4, <1>5, <1>6, <1>7, <1>8
<1> QED
  BY <1>9, <1>10 DEF CallSeen, NoGap

(* Below an update in the log: settled, or before it in the stream.        *)
LEMMA Lower ==
  ASSUME TypeInv, OrderInv, SeenInv, NEW e \in Entries, NEW v \in Updates, v < log[e]
  PROVE  v \in Settled \/ \E h \in stream : h < e /\ log[h] = v
<1>1. /\ log[e] \in Nat /\ log[e] <= nextID /\ nextID \in Nat /\ v \in Nat /\ v >= 1
      /\ Entries \subseteq Nat /\ stream \subseteq Entries
  BY LogEntries DEF TypeInv, RedisTypes, OrderInv, Updates
<1>2. v \in 1..nextID /\ v # nextID /\ v # 0
  BY <1>1
<1>3. Present(v)
  BY <1>2 DEF SeenInv, KnownInv, OrderInv
<1>4. ASSUME NEW h \in stream, log[h] = v PROVE h < e
  <2>1. ~(e <= h)
    BY <1>1, <1>4 DEF OrderInv
  <2> QED
    BY <1>1, <2>1
<1> QED
  BY <1>3, <1>4 DEF Present
LEMMA SeenReading ==
  ASSUME TypeInv, OrderInv, SeenInv, [Next]_vars, NEW c \in Calls, ReadPage(c),
         UNCHANGED <<log, Entries, Settled, stream>>
  PROVE  CallSeen(c)'
<1>1. PICK part, from, cursor, first, found, more, last :
        /\ part = ReadPart(c) /\ from = call[c].from /\ cursor = call[c].cursor /\ first = call[c].offset
        /\ found = Found(c) /\ more = More(c) /\ last = Last(ReadPart(c))
  OBVIOUS
<1>2. /\ call'[c].found = found /\ call'[c].from = (IF more THEN last ELSE 0)
      /\ call'[c].at = (IF more THEN "read" ELSE "filter")
      /\ call'[c].cursor = cursor /\ call'[c].offset = first
  BY <1>1, ReadMoves
<1>3. /\ call[c].at = "read" /\ part \subseteq stream
      /\ \A e \in part, f \in stream : Start(c) < f /\ f <= e => f \in part
      /\ Wanted(c) \subseteq Entries /\ found \subseteq Wanted(c)
      /\ \A e \in found, f \in Wanted(c) : f <= e => f \in found
      /\ more => found = Wanted(c) /\ last \in part
  BY <1>1, Reading
<1>4. /\ Wanted(c) = call[c].found \cup (IF cursor = 0 THEN {e \in part : log[e] >= first} ELSE part)
      /\ Start(c) = (IF cursor = 0 THEN from ELSE cursor) /\ (more => cursor = 0)
  BY <1>1 DEF Wanted, Start, More
<1>5. /\ \A v \in Updates : v < first => v \in Settled
      /\ \A e \in Entries : e <= cursor => log[e] \in Settled
      /\ cursor = 0 => \A e \in stream : e <= from => e \in call[c].found \/ log[e] < first
      /\ NoGap(call[c].found)
      /\ cursor # 0 => call[c].found = {}
  BY <1>1, <1>3 DEF SeenInv, CallSeen, TypeInv, CallTypes, CallSound
<1>6. /\ stream \subseteq Entries /\ Entries \subseteq Nat /\ \A e \in Entries : log[e] \in Updates /\ log[e] \in Nat
      /\ first \in Nat /\ from \in Nat /\ cursor \in Nat
  BY <1>1, LogEntries DEF TypeInv, RedisTypes, CallTypes, CallType, Updates
<1>7. ASSUME cursor = 0, more, NEW e \in stream, e <= last, ~(log[e] < first) PROVE e \in found
  <2>1. log[e] >= first
    BY <1>6, <1>7
  <2>2. CASE e <= from
    BY <1>3, <1>4, <1>5, <1>7, <2>2
  <2>3. CASE ~(e <= from)
    <3>1. from < e
      BY <1>6, <2>3
    <3>2. e \in part
      BY <1>3, <1>4, <1>7, <3>1
    <3> QED
      BY <1>3, <1>4, <1>7, <2>1, <3>2
  <2> QED
    BY <2>2, <2>3
<1>8. ASSUME NEW e \in found, NEW v \in Updates, v < log[e], v \notin Settled
      PROVE  \E g \in found : g < e /\ log[g] = v
  <2>1. e \in Wanted(c) /\ e \in Entries /\ e \in Nat
    BY <1>3, <1>6
  <2>2. PICK h \in stream : h < e /\ log[h] = v
    BY <1>8, <2>1, Lower
  <2>3. h \in Nat /\ h <= e /\ ~(log[h] < first) /\ log[h] >= first
    <3>1. h \in Nat /\ v \in Nat /\ h \in Entries
      BY <1>6, <2>2
    <3>2. ~(v < first)
      BY <1>5, <1>8
    <3> QED
      BY <1>6, <2>1, <2>2, <3>1, <3>2
  <2>4. CASE e \in call[c].found
    <3>1. PICK g \in call[c].found : g < e /\ log[g] = v
      BY <1>5, <1>8, <2>4 DEF NoGap
    <3>2. g \in Wanted(c) /\ g \in Nat
      BY <1>3, <1>4, <1>6
    <3>3. g <= e
      BY <2>1, <3>1, <3>2
    <3> QED
      BY <1>3, <3>1, <3>2, <3>3
  <2>5. CASE e \in part
    <3>1. ASSUME ~(Start(c) < h) PROVE h \in Wanted(c)
      <4>1. CASE cursor = 0
        <5>1. h <= from
          BY <1>4, <1>6, <2>3, <3>1, <4>1
        <5> QED
          BY <1>4, <1>5, <2>3, <4>1, <5>1
      <4>2. CASE cursor # 0
        <5>1. h <= cursor
          BY <1>4, <1>6, <2>3, <3>1, <4>2
        <5>2. h \in Entries
          BY <1>6
        <5> QED
          BY <1>5, <1>8, <2>2, <5>1, <5>2
      <4> QED
        BY <4>1, <4>2
    <3>2. Start(c) < h => h \in Wanted(c)
      <4>1. Start(c) < h => h \in part
        BY <1>3, <2>3, <2>5
      <4> QED
        BY <1>4, <2>3, <4>1
    <3> QED
      BY <1>3, <2>2, <2>3, <3>1, <3>2
  <2>6. e \in call[c].found \/ e \in part
    BY <1>4, <2>1
  <2> QED
    BY <2>4, <2>5, <2>6
<1>9. Settled' = Settled /\ log' = log /\ Entries' = Entries /\ stream' = stream
  OBVIOUS
<1>10. NoGap(call[c].found)'
  BY <1>2, <1>8, <1>9 DEF NoGap
<1>11. /\ call'[c].at # "delete"
       /\ call'[c].at = "read" /\ call'[c].cursor = 0 =>
            \A e \in stream' : e <= call'[c].from => e \in call'[c].found \/ log'[e] < call'[c].offset
  BY <1>2, <1>7, <1>9
<1>12. /\ \A v \in Updates : v < call'[c].offset => v \in Settled'
       /\ \A e \in Entries' : e <= call'[c].cursor => log'[e] \in Settled'
  BY <1>2, <1>5, <1>9
<1> QED
  BY <1>10, <1>11, <1>12 DEF CallSeen

(* The cursor passes over what nobody asks for.                            *)
LEMMA SeenFiltering ==
  ASSUME TypeInv, OrderInv, SeenInv, NEW c \in Calls, Filter(c),
         UNCHANGED <<log, Entries, Settled>>
  PROVE  CallSeen(c)'
<1>1. PICK found, last : found = call[c].found /\ last = Last(call[c].found)
  OBVIOUS
<1>2. Settled' = Settled /\ log' = log /\ Entries' = Entries
  OBVIOUS
<1>3. /\ found \subseteq Entries /\ Entries \subseteq Nat /\ \A e \in Entries : log[e] \in Updates /\ log[e] \in Nat
      /\ \A e \in Entries : ~(e <= 0)
  BY <1>1, LogEntries DEF TypeInv, RedisTypes, CallTypes, CallSound, Updates, Entries
<1>4. /\ call[c].at = "filter"
      /\ \/ /\ call'[c].at = "answer" /\ call'[c].found = found
            /\ call'[c].offset = 0 /\ call'[c].cursor = 0
         \/ /\ call'[c].at = "signal" /\ call'[c].found = {} /\ call'[c].offset = call[c].offset
            /\ IDs(found) \subseteq Hidden /\ call'[c].cursor = last
            /\ last \in found
         \/ /\ call'[c].at = "wait" /\ call'[c].found = {}
            /\ call'[c].offset = call[c].offset /\ call'[c].cursor = call[c].cursor
  BY <1>1, FilterMoves
<1>5. /\ \A v \in Updates : v < call[c].offset => v \in Settled
      /\ \A e \in Entries : e <= call[c].cursor => log[e] \in Settled
      /\ NoGap(found)
  BY <1>1, <1>4 DEF SeenInv, CallSeen
<1>6. \A v \in Updates : ~(v < 0)
  BY DEF Updates
<1>7. ASSUME IDs(found) \subseteq Hidden, last \in found, NEW e \in Entries, e <= last
      PROVE  log[e] \in Settled
  <2>1. log[e] <= log[last]
    BY <1>3, <1>7 DEF OrderInv
  <2>2. CASE log[e] = log[last]
    BY <1>7, <2>2 DEF IDs, Settled
  <2>3. CASE log[e] < log[last]
    <3>1. log[e] \in Settled \/ \E g \in found : log[g] = log[e]
      BY <1>3, <1>5, <1>7, <2>3 DEF NoGap
    <3> QED
      BY <1>7, <3>1 DEF IDs, Settled
  <2>4. log[e] \in Nat /\ log[last] \in Nat
    BY <1>3, <1>7
  <2> QED
    BY <2>1, <2>2, <2>3, <2>4
<1>8. \A v \in Updates : v < call'[c].offset => v \in Settled
  BY <1>4, <1>5, <1>6
<1>9. \A e \in Entries : e <= call'[c].cursor => log[e] \in Settled
  BY <1>3, <1>4, <1>5, <1>7
<1>10. call'[c].at \notin {"delete", "read", "filter"} /\ (call'[c].at = "answer" => NoGap(call[c].found)')
  BY <1>1, <1>2, <1>4, <1>5 DEF NoGap
<1> QED
  BY <1>2, <1>8, <1>9, <1>10 DEF CallSeen

LEMMA SeenMoves ==
  ASSUME TypeInv, OrderInv, SeenInv, [Next]_vars, NEW c \in Calls, GetUpdates(c) \/ CallGetUpdates(c)
  PROVE  CallSeen(c)'
<1>1. UNCHANGED <<log, Entries, Settled>> /\ stream' \subseteq stream
  BY OneCall DEF workerVars, Entries, Settled
<1>2. Settled' = Settled /\ log' = log /\ Entries' = Entries
  BY <1>1
<1>3. /\ \A v \in Updates : v < call[c].offset => v \in Settled
      /\ \A e \in Entries : e <= call[c].cursor => log[e] \in Settled
      /\ \A v \in Updates : v < offset => v \in Settled
  BY DEF SeenInv, CallSeen, AnswerInv
<1>4. (\A e \in Entries : ~(e <= 0)) /\ (\A v \in Updates : ~(v < 0)) /\ stream' \subseteq Entries
  BY <1>1 DEF Entries, Updates, TypeInv, RedisTypes
<1>5. CASE ReadPage(c)
  BY <1>1, <1>5, SeenReading, Reading
<1>6. CASE Filter(c)
  BY <1>1, <1>6, SeenFiltering
<1>7. SUFFICES ASSUME ~ReadPage(c), ~Filter(c)
               PROVE  /\ \A v \in Updates : v < call'[c].offset => v \in Settled
                      /\ call'[c].at = "delete" => \A e \in call'[c].found : log[e] < call'[c].offset
                      /\ \A e \in Entries : e <= call'[c].cursor => log[e] \in Settled
                      /\ call'[c].at = "read" => \A e \in stream' : ~(e <= call'[c].from)
                      /\ call'[c].at \in {"read", "filter", "answer"} => call'[c].found = {}
  BY <1>2, <1>5, <1>6 DEF CallSeen, NoGap
<1>8. CASE CallGetUpdates(c)
  <2>1. /\ call'[c].at \in {"ack", "signal"} /\ call'[c].offset = offset /\ call'[c].cursor = 0
    BY <1>8, Beginning
  <2> QED
    BY <1>3, <1>4, <2>1
<1>9. CASE AckRead(c)
  <2>1. /\ call'[c].at = (IF Old(c) = {} THEN "signal" ELSE "delete") /\ call'[c].found = Old(c)
        /\ call'[c].offset = call[c].offset /\ call'[c].cursor = call[c].cursor
    BY <1>9, AckReadMoves
  <2>2. \A e \in Old(c) : log[e] < call[c].offset
    <3>1. AckPage(c) \subseteq stream /\ stream \subseteq Nat
      BY <1>9, Acknowledging, LogEntries DEF TypeInv, RedisTypes
    <3>2. ASSUME NEW e \in AckPage(c) PROVE e <= e
      <4>1. e \in Nat
        BY <3>1
      <4> QED
        BY <4>1
    <3>3. ASSUME NEW e \in Old(c) PROVE log[e] < call[c].offset
      <4>1. e \in AckPage(c)
        BY DEF Old
      <4>2. e <= e
        BY <3>2, <4>1
      <4> QED
        BY <4>1, <4>2 DEF Old
    <3> QED
      BY <3>3
  <2> QED
    BY <1>3, <2>1, <2>2
<1>10. CASE AckDelete(c)
  <2>1. /\ call'[c].at \in {"signal", "ack"} /\ call'[c].offset = call[c].offset
        /\ call'[c].cursor = call[c].cursor
    BY <1>10, AckDeleteMoves
  <2> QED
    BY <1>3, <2>1
<1>11. CASE TakeSignal(c)
  <2>1. /\ call'[c].at = "read" /\ call'[c].found = {} /\ call'[c].from = 0
        /\ call'[c].offset = call[c].offset /\ call'[c].cursor = call[c].cursor
    BY <1>11, OtherMoves
  <2> QED
    BY <1>3, <1>4, <2>1
<1>12. CASE AckFails(c) \/ Wake(c) \/ Recheck(c)
  <2>1. /\ call'[c].at = "signal" /\ call'[c].offset = call[c].offset
        /\ call'[c].cursor = call[c].cursor
    BY <1>12, OtherMoves
  <2> QED
    BY <1>3, <2>1
<1>13. CASE ReadFails(c) \/ Deadline(c) \/ Respond(c)
  <2>1. /\ call'[c].at \in {"answer", "idle"} /\ call'[c].found = {} /\ call'[c].offset = 0
        /\ call'[c].cursor = 0
    BY <1>13, OtherMoves
  <2> QED
    BY <1>3, <1>4, <2>1
<1> QED
  BY <1>7, <1>8, <1>9, <1>10, <1>11, <1>12, <1>13 DEF GetUpdates

LEMMA SeenStep == OneWorker /\ TypeInv /\ OrderInv /\ SeenInv /\ [Next]_vars => SeenInv'
<1> SUFFICES ASSUME OneWorker, TypeInv, OrderInv, SeenInv, [Next]_vars PROVE SeenInv'
  OBVIOUS
<1>1. ASSUME NEW c \in Calls PROVE CallSeen(c)'
  <2>1. CASE call'[c] = call[c]
    BY <2>1, CallSeenKept
  <2>2. CASE GetUpdates(c) \/ CallGetUpdates(c)
    BY <2>2, SeenMoves
  <2>3. call'[c] = call[c] \/ GetUpdates(c) \/ CallGetUpdates(c)
    <3>1. CASE \E d \in Calls : GetUpdates(d) \/ CallGetUpdates(d)
      BY <3>1, OneCall
    <3>2. CASE ~ \E d \in Calls : GetUpdates(d) \/ CallGetUpdates(d)
      BY <3>2, Elsewhere DEF Next
    <3> QED
      BY <3>1, <3>2
  <2> QED
    BY <2>1, <2>2, <2>3
<1> QED
  BY <1>1, KnownStep, AnswerStep DEF SeenInv

LEMMA SeenHolds == OneWorker => (Spec => [](TypeInv /\ OrderInv /\ SeenInv))
<1> SUFFICES ASSUME OneWorker PROVE Spec => [](TypeInv /\ OrderInv /\ SeenInv)
  OBVIOUS
<1>1. Init => TypeInv /\ OrderInv /\ SeenInv
  BY TypeInit, OrderInit, SeenInit
<1>2. TypeInv /\ OrderInv /\ SeenInv /\ [Next]_vars => (TypeInv /\ OrderInv /\ SeenInv)'
  BY TypeStep, OrderStep, SeenStep
<1> QED
  BY <1>1, <1>2, PTL DEF Spec

(* Acknowledging takes nothing away that the application has not had: what *)
(* is gone from the stream was processed, filtered out or discarded,       *)
(* whatever the application forgets and whichever calls outlive it.        *)
THEOREM NothingUnseenIsAcked == OneWorker => (Spec => []AckedWereSeen)
<1>1. TypeInv /\ SeenInv => AckedWereSeen
  BY LogEntries DEF TypeInv, RedisTypes, SeenInv, KnownInv, Present, Settled, AckedWereSeen, IDs
<1> QED
  BY <1>1, SeenHolds, PTL

-----------------------------------------------------------------------------
(* Polling implements the promise: appending and dropping are discards,    *)
(* processing an update delivers it.                                       *)
LEMMA Discards ==
  ASSUME NEW some \in SUBSET (1..nextID), discarded' = discarded \cup some, UNCHANGED <<nextID, seen>>
  PROVE  Promise!PromiseNext
<1>1. Promise!Discard(some)
  BY DEF Promise!Discard
<1> QED
  BY <1>1 DEF Promise!PromiseNext

LEMMA Delivers ==
  ASSUME TypeInv, SeenInv, ProcessUpdate
  PROVE  Promise!PromiseNext
<1>1. PICK u : u = Head(answer)
  OBVIOUS
<1>2. u \in Updates /\ u = answer[1] /\ 1 \in DOMAIN answer /\ nextID \in Nat
  BY <1>1 DEF ProcessUpdate, TypeInv, AppTypes, RedisTypes
<1>3. u \in 1..nextID
  BY <1>2 DEF SeenInv, AnswerInv, Updates
<1>4. ASSUME NEW v \in Updates, v < u, v \notin Hidden PROVE v \in seen \cup discarded
  <2>1. v \in Settled \/ \E j \in 1..1 - 1 : answer[j] = v
    BY <1>2, <1>4 DEF SeenInv, AnswerInv
  <2> QED
    BY <1>4, <2>1 DEF Settled
<1>5. Promise!Before(u) \subseteq seen \cup discarded
  BY <1>4 DEF Promise!Before
<1>6. seen' = seen \cup {u} /\ UNCHANGED <<nextID, discarded>>
  BY <1>1 DEF ProcessUpdate, workerVars
<1>7. Promise!Deliver(u)
  BY <1>5, <1>6 DEF Promise!Deliver
<1> QED
  BY <1>3, <1>7 DEF Promise!PromiseNext

LEMMA PromiseStep ==
  ASSUME TypeInv, OrderInv, SeenInv, [Next]_vars
  PROVE  Promise!PromiseNext \/ UNCHANGED <<nextID, seen, discarded>>
<1>1. /\ nextID \in Nat /\ stream \subseteq Entries /\ \A e \in Entries : log[e] \in 1..nextID
      /\ \A w \in Workers : worker[w].id # 0 => worker[w].id \in 1..nextID
  <2>1. nextID \in Nat /\ stream \subseteq Entries /\ \A e \in Entries : log[e] \in Nat /\ log[e] >= 1
    BY LogEntries DEF TypeInv, RedisTypes, Updates
  <2> QED
    BY <2>1 DEF OrderInv
<1>2. CASE \E w \in Workers : UpdateWorker(w)
  <2>1. PICK w \in Workers : UpdateWorker(w)
    BY <1>2
  <2>2. CASE Allocate(w)
    <3>1. Promise!Publish({})
      BY <2>2 DEF Allocate, Promise!Publish, appVars
    <3> QED
      BY <3>1 DEF Promise!PromiseNext
  <2>3. CASE AppendEntry(w)
    <3>1. PICK some : some = {log'[e] : e \in stream} \ {log'[e] : e \in stream'}
      OBVIOUS
    <3>2. some \in SUBSET (1..nextID)
      BY <1>1, <2>3, <3>1, Appending
    <3> QED
      BY <2>3, <3>1, <3>2, Discards DEF AppendEntry, appVars
  <2>4. CASE AppendFails(w)
    <3>1. PICK some : some = {worker[w].id} \ IDs(stream)
      OBVIOUS
    <3>2. some \in SUBSET (1..nextID)
      BY <1>1, <2>4, <3>1 DEF AppendFails
    <3> QED
      BY <2>4, <3>1, <3>2, Discards DEF AppendFails, appVars
  <2>5. CASE Broadcast(w) \/ BatchPanics(w)
    BY <2>5 DEF Broadcast, BatchPanics, appVars
  <2> QED
    BY <2>1, <2>2, <2>3, <2>4, <2>5 DEF UpdateWorker
<1>3. CASE DropPending
  <2>1. IDs(stream) \in SUBSET (1..nextID)
    BY <1>1 DEF IDs
  <2> QED
    BY <1>3, <2>1, Discards DEF DropPending, workerVars
<1>4. CASE ProcessUpdate
  BY <1>4, Delivers
<1>5. CASE \E c \in Calls : GetUpdates(c) \/ CallGetUpdates(c)
  BY <1>5, OneCall DEF workerVars
<1>6. CASE Abandon \/ RestartApplication \/ UNCHANGED vars
  BY <1>6 DEF Abandon, RestartApplication, vars, workerVars, appVars
<1> QED
  BY <1>2, <1>3, <1>4, <1>5, <1>6 DEF Next

(* getUpdates keeps the promise of WebhookPromise with one queue: updates  *)
(* are first processed in the order of their IDs, and one is skipped only  *)
(* if it was discarded.                                                    *)
THEOREM PollingKeepsPromise == OneWorker => (Spec => KeepsPromise)
<1>1. Init => Promise!PromiseInit
  BY DEF Init, Promise!PromiseInit
<1>2. TypeInv /\ OrderInv /\ SeenInv /\ [Next]_vars => [Promise!PromiseNext]_Promise!promiseVars
  BY PromiseStep DEF Promise!promiseVars
<1> QED
  BY <1>1, <1>2, SeenHolds, PTL DEF Spec, KeepsPromise, Promise!PromiseSpec
===============================================================================
