-------------------------- MODULE ApiRequestsProofs --------------------------
(***************************************************************************)
(* Proofs about the requests of the Bot API, for every number of attempts  *)
(* and of pools.                                                           *)
(*                                                                         *)
(* The argument has two halves.  The first is about any request whose      *)
(* steps are sound: what is changed through whom, what may follow a        *)
(* change, where file parts go, which key media is stored under.  From     *)
(* that the inductive invariant IInv follows, one lemma for each kind of   *)
(* step of the system (StepKinds, then MovingKeeps to RestKeeps).          *)
(*                                                                         *)
(* The second half shows that the steps of every method of the code are    *)
(* sound, whatever the shape of the request.  They are put together with   *)
(* \o from a prelude that changes nothing, a program that changes          *)
(* something, and a coda that only looks at the reply; Joins says what the *)
(* parts make together, and one lemma per table of ApiMedia and ApiMethods *)
(* that each of its methods is such a program (MessagesAndMediaGood,       *)
(* AnswersGood and so on).                                                 *)
(***************************************************************************)
EXTENDS ApiRequests, SequenceTheorems, TLAPS

(* A sequence, a step, and a sequence of steps, whatever they are about.   *)
IsSeq(p) == \E S : p \in Seq(S)
IsStep(s) ==
  \E W : s \in [do : Kinds, what : W, via : {"bot", "business", "direct"},
                parts : BOOLEAN, says : BOOLEAN, skip : Nat]
AreSteps(p) == IsSeq(p) /\ \A i \in DOMAIN p : IsStep(p[i])

LEMMA StepFields ==
  ASSUME NEW s, IsStep(s)
  PROVE  /\ s.do \in Kinds /\ s.via \in {"bot", "business", "direct"}
         /\ s.parts \in BOOLEAN /\ s.says \in BOOLEAN /\ s.skip \in Nat
  BY DEF IsStep

LEMMA SeqFacts ==
  ASSUME NEW p, IsSeq(p)
  PROVE  /\ Len(p) \in Nat /\ DOMAIN p = 1..Len(p)
         /\ p # << >> => 1 \in DOMAIN p /\ Head(p) = p[1]
  BY DEF IsSeq

LEMMA StepsTyped ==
  ASSUME NEW p, AreSteps(p)
  PROVE  /\ DOMAIN p = 1..Len(p)
         /\ \A i \in DOMAIN p :
              /\ p[i].do \in Kinds /\ p[i].via \in {"bot", "business", "direct"}
              /\ p[i].parts \in BOOLEAN /\ p[i].says \in BOOLEAN /\ p[i].skip \in Nat
  BY SeqFacts, StepFields DEF AreSteps

LEMMA NothingSteps ==
  /\ AreSteps(Nothing)
  /\ \A p : AreSteps(p) /\ DOMAIN p = {} => p = Nothing
<1>1. << >> \in Seq({}) /\ DOMAIN << >> = {}
  OBVIOUS
<1>2. ASSUME NEW p, IsSeq(p), DOMAIN p = {}
      PROVE  p = << >>
  <2>1. PICK S : p \in Seq(S)
    BY <1>2 DEF IsSeq
  <2>2. Len(p) \in Nat /\ DOMAIN p = 1..Len(p)
    BY <2>1
  <2>3. Len(p) = 0
    BY <1>2, <2>2
  <2> QED
    BY <2>1, <2>3
<1> QED
  BY <1>1, <1>2 DEF AreSteps, IsSeq, Nothing

(* What a step does: it changes something; it may follow a change without  *)
(* making a lie of the answer (Closing); it has to do with file parts; it  *)
(* goes to a datacenter; it acts for whom it should, or its method ignores *)
(* the connection there; a call sent directly says "business" when it      *)
(* fails, unless it is about a story.                                      *)
Changes(s) == s.do \in {"set", "make", "send"}
Excused == {"without message ids", "caption markup", "messages.editMessage"}
Closing(s) ==
  \/ s.do \in {"want", "store"}
  \/ s.do \notin {"make", "send"} /\ s.what \in Excused
Touches(s) == s.do \in {"upload", "try"} \/ s.parts
Place(s) == Either(s.via = "bot" \/ home, "bot", "pool")
ActsFor(m, business, s) ==
  /\ business /\ Changes(s) => s.via # "bot" \/ <<m, s.what>> \in Ignoring
  /\ s.do = "store" => s.what # Either(business, "item", "business item")
Told(s) == s.via = "direct" => s.says \/ s.what \in Unwrapped

(* What is required of the steps of a request of method m: every direct    *)
(* call is told apart; only closing steps follow a change; file parts are  *)
(* uploaded and consumed through the bot, or never through it; every step  *)
(* acts for the account of the request.  The steps that may be run again   *)
(* (Plain) go through the bot and change something at their end.           *)
AllTold(p) == \A i \in DOMAIN p : Told(p[i])
ClosesAfter(p) == \A i, j \in DOMAIN p : i < j /\ Changes(p[i]) => Closing(p[j])
OneSide(p) ==
  \A i, j \in DOMAIN p :
    Touches(p[i]) /\ Touches(p[j]) => (p[i].via = "bot" <=> p[j].via = "bot")
Sound(m, business, p) ==
  /\ AreSteps(p)
  /\ AllTold(p) /\ ClosesAfter(p) /\ OneSide(p)
  /\ \A i \in DOMAIN p : ActsFor(m, business, p[i])
Plain(p) == \A i \in DOMAIN p : p[i].via = "bot" /\ (Changes(p[i]) => i = Len(p))
SoundRequest(q) ==
  /\ q.ofBusiness \in BOOLEAN
  /\ Sound(q.method, q.ofBusiness, q.steps) /\ AreSteps(q.retried)
  /\ q.retried # Nothing =>
       Sound(q.method, q.ofBusiness, q.retried) /\ Plain(q.retried) /\ Plain(q.steps)

(* The inductive invariant.  While a request runs, what is left of it is   *)
(* sound (ProgramInv) and may be run again (AgainInv); uploaded parts are  *)
(* where the steps left will look for them (PlaceInv); a bot started anew  *)
(* has no business step left (ResetInv); after a change only closing steps *)
(* are left (DoneInv), and after a message only the step that sent it      *)
(* (SendInv), which is executed once.  CountInv counts the copies.         *)
TypeInv ==
  /\ TypeOK /\ call \in [try : 1..Attempts, pool : 1..PoolAttempts, executed : BOOLEAN]
  /\ AreSteps(steps) /\ AreSteps(retried) /\ sends \in Nat /\ makes \in Nat
  /\ done \in BOOLEAN /\ lost \in BOOLEAN /\ reset \in BOOLEAN
ProgramInv ==
  /\ AllTold(steps) /\ ClosesAfter(steps) /\ OneSide(steps)
  /\ \A i \in DOMAIN steps : ActsFor(method, ofBusiness, steps[i])
AgainInv ==
  retried # Nothing =>
    Sound(method, ofBusiness, retried) /\ Plain(retried) /\ Plain(steps) /\ ~reset
PlaceInv ==
  parts # "none" => \A i \in DOMAIN steps : Touches(steps[i]) => Place(steps[i]) = parts
ResetInv == reset => \A i \in DOMAIN steps : steps[i].via = "bot"
DoneInv ==
  done /\ ~lost => /\ \A i \in DOMAIN steps : Closing(steps[i])
                   /\ retried # Nothing => steps = Nothing
SendInv ==
  ~reset /\ sends > 0 => \A i \in DOMAIN steps : steps[i].do = "send" => i = 1 /\ call.executed
CountInv ==
  /\ sends > 0 \/ makes > 0 => done
  /\ ~lost => sends <= 1 /\ makes <= 1
  /\ ~reset => sends <= 1
IdleInv == Idle => parts = "none" /\ ~done /\ ~lost /\ ~reset
IInv ==
  /\ TypeInv /\ IdleInv /\ CountInv
  /\ ResetIsDeserved /\ RefusalMeansNothingDone /\ ItemsStayHome
  /\ Running => ProgramInv /\ AgainInv /\ PlaceInv /\ ResetInv /\ DoneInv /\ SendInv

(* What a step of the system can do to a request.                          *)
Running1 == Running /\ steps # Nothing
Moving(k) ==
  /\ Running1 /\ k \in Nat /\ Proceed(k)
  /\ UNCHANGED <<method, retried, ofBusiness, home, reset, cause, answer>>
  /\ Execute
  /\ \/ lost' = lost
     \/ lost' = TRUE /\ ~Changes(step)
  /\ \/ parts' = parts
     \/ Touches(step) /\ parts' \in {connection, "none"}
  /\ \/ cache' = cache
     \/ /\ step.do = "store"
        /\ cache' = [cache EXCEPT ![step.what] = Either(ofBusiness, "business", "bot")]
Ending(error) ==
  /\ Running1 /\ step.do \notin {"try", "store", "cache"}
  /\ Respond(error) /\ UNCHANGED cache
  /\ UNCHANGED telegram \/ (Execute /\ lost' = TRUE)
CallingAgain ==
  /\ Running1 /\ CallAgain("key") /\ UNCHANGED <<cache, telegram>>
Repeating ==
  /\ Running1 /\ Repeatable
  /\ \E arrived \in BOOLEAN : Repeat(arrived) /\ Dropped(arrived)
  /\ UNCHANGED <<request, parts, cache, reset, cause, answer>>

LEMMA StepTyped ==
  ASSUME TypeInv, Running, steps # Nothing
  PROVE  /\ AreSteps(steps) /\ Len(steps) \in Nat \ {0} /\ DOMAIN steps = 1..Len(steps)
         /\ step = steps[1] /\ IsStep(step) /\ step.skip \in Nat
<1>1. AreSteps(steps) /\ Len(steps) \in Nat /\ DOMAIN steps = 1..Len(steps)
  BY SeqFacts DEF TypeInv, AreSteps
<1>2. 1 \in DOMAIN steps /\ step = steps[1]
  BY <1>1, SeqFacts DEF Nothing, step, AreSteps
<1>3. IsStep(step)
  BY <1>1, <1>2 DEF AreSteps
<1> QED
  BY <1>1, <1>2, <1>3, StepFields

LEMMA FailsKinds ==
  ASSUME TypeInv, Running1, NEW error, Fails(error), UNCHANGED cache,
         step.do \notin {"store", "cache"},
         \/ UNCHANGED telegram
         \/ error # "key" /\ Execute /\ lost' = TRUE
  PROVE  Moving(0) \/ Ending(error) \/ CallingAgain
<1>1. CASE step.do = "try"
  <2>1. Proceed(0) /\ UNCHANGED <<method, retried, ofBusiness, home, parts, reset, cause, answer>>
    BY <1>1 DEF Fails
  <2>2. ~Changes(step)
    BY <1>1 DEF Changes
  <2>3. Execute /\ (lost' = lost \/ lost' = TRUE)
    BY <1>1 DEF Execute, telegram, TypeInv, Either
  <2> QED
    BY <2>1, <2>2, <2>3 DEF Moving
<1>2. CASE step.do # "try"
  <2>1. CASE Respond(error)
    BY <1>2, <2>1 DEF Ending
  <2>2. CASE CallAgain(error)
    <3>1. error = "key"
      BY <2>2 DEF CallAgain
    <3> QED
      BY <2>2, <3>1 DEF CallingAgain
  <2> QED
    BY <1>2, <2>1, <2>2 DEF Fails
<1> QED
  BY <1>1, <1>2

LEMMA DroppedEffect ==
  ASSUME TypeInv, NEW arrived \in BOOLEAN, Dropped(arrived)
  PROVE  UNCHANGED telegram \/ (Execute /\ lost' = TRUE)
  BY DEF Dropped

(* Every step of the system is one of these.                               *)
LEMMA StepKinds ==
  ASSUME TypeInv, Next
  PROVE  \/ Begin \/ Finish \/ Answered
         \/ \E k \in Nat : Moving(k)
         \/ \E error : Ending(error)
         \/ CallingAgain \/ Repeating
<1>1. CASE LocalStep
  <2>1. Running1 /\ ~Changes(step) /\ step.do \in {"check", "want", "cache", "store"}
    BY <1>1 DEF LocalStep, On, Running1, Changes
  <2>2. /\ Execute /\ lost' = lost
        /\ UNCHANGED <<method, retried, ofBusiness, home, parts, reset, cause, answer>>
    BY <1>1, <2>1 DEF LocalStep, telegram, Execute, TypeInv, Either
  <2>3. step.skip \in Nat
    BY <2>1, StepTyped DEF Running1
  <2>4. CASE step.do = "cache"
    <3>1. UNCHANGED cache /\ (Proceed(0) \/ Proceed(step.skip))
      BY <1>1, <2>4 DEF LocalStep
    <3> QED
      BY <2>1, <2>2, <2>3, <3>1 DEF Moving
  <2>5. CASE step.do = "store"
    <3>1. Proceed(0) /\ (UNCHANGED cache \/
            cache' = [cache EXCEPT ![step.what] = Either(ofBusiness, "business", "bot")])
      BY <1>1, <2>5 DEF LocalStep
    <3> QED
      BY <2>1, <2>2, <2>5, <3>1 DEF Moving
  <2>6. CASE step.do \in {"check", "want"}
    <3>1. Proceed(0) /\ UNCHANGED cache
      BY <1>1, <2>6 DEF LocalStep
    <3> QED
      BY <2>1, <2>2, <3>1 DEF Moving
  <2> QED
    BY <2>1, <2>4, <2>5, <2>6
<1>2. CASE StepRefuses
  <2>1. PICK error : Fails(error)
    BY <1>2 DEF StepRefuses
  <2>2. Running1 /\ step.do \notin {"store", "cache"} /\ UNCHANGED <<cache, telegram>>
    BY <1>2 DEF StepRefuses, On, Running1
  <2> QED
    BY <2>1, <2>2, FailsKinds
<1>3. CASE LookupKnown
  <2>1. Running1 /\ step.do = "lookup" /\ UNCHANGED <<cache, telegram>>
    BY <1>3 DEF LookupKnown, On, Running1
  <2>2. CASE Fails("refused")
    BY <2>1, <2>2, FailsKinds
  <2>3. CASE /\ Proceed(0)
             /\ UNCHANGED <<method, retried, ofBusiness, home, parts, reset, cause, answer>>
    <3>1. Execute /\ lost' = lost
      BY <2>1 DEF telegram, Execute, TypeInv, Either
    <3> QED
      BY <2>1, <2>3, <3>1 DEF Moving
  <2> QED
    BY <1>3, <2>2, <2>3 DEF LookupKnown
<1>4. CASE CallSucceeds
  <2>1. Running1 /\ Execute /\ lost' = lost
        /\ UNCHANGED <<method, retried, ofBusiness, home, cache, reset, cause, answer>>
    BY <1>4 DEF CallSucceeds, Calling, On, Running1
  <2>2. step.skip \in Nat
    BY <2>1, StepTyped DEF Running1
  <2>3. PICK k \in Nat : Proceed(k)
    BY <1>4, <2>2 DEF CallSucceeds, Either
  <2>4. \/ parts' = parts
        \/ Touches(step) /\ parts' \in {connection, "none"}
    BY <1>4 DEF CallSucceeds, Touches
  <2> QED
    BY <2>1, <2>3, <2>4 DEF Moving
<1>5. CASE CallRefused
  <2>1. PICK error : Fails(error)
    BY <1>5 DEF CallRefused
  <2>2. Running1 /\ step.do \notin {"store", "cache"} /\ UNCHANGED <<cache, telegram>>
    BY <1>5 DEF CallRefused, Calling, On, Running1
  <2> QED
    BY <2>1, <2>2, FailsKinds
<1>6. CASE ConnectionDrops
  <2>1. PICK arrived \in BOOLEAN :
          /\ Dropped(arrived)
          /\ IF Repeatable
             THEN Repeat(arrived) /\ UNCHANGED <<request, parts, reset, cause, answer>>
             ELSE Fails("dropped")
    BY <1>6 DEF ConnectionDrops
  <2>2. Running1 /\ step.do \notin {"store", "cache"} /\ UNCHANGED cache
    BY <1>6 DEF ConnectionDrops, Calling, On, Running1
  <2>3. CASE Repeatable
    BY <2>1, <2>2, <2>3 DEF Repeating
  <2>4. CASE ~Repeatable
    BY <2>1, <2>2, <2>4, FailsKinds, DroppedEffect
  <2> QED
    BY <2>3, <2>4
<1>7. CASE PoolClosed
  <2>1. PICK arrived \in BOOLEAN : Dropped(arrived)
    BY <1>7 DEF PoolClosed
  <2>2. /\ Running1 /\ step.do \notin {"store", "cache"} /\ UNCHANGED cache
        /\ Fails("closed")
    BY <1>7 DEF PoolClosed, Calling, On, Running1
  <2> QED
    BY <2>1, <2>2, FailsKinds, DroppedEffect
<1>8. CASE DeadlinePasses
  <2>1. PICK arrived \in BOOLEAN : Dropped(arrived)
    BY <1>8 DEF DeadlinePasses
  <2>2. /\ Running1 /\ step.do \notin {"store", "cache"} /\ UNCHANGED cache
        /\ Fails("deadline")
    BY <1>8 DEF DeadlinePasses, Calling, On, Running1
  <2> QED
    BY <2>1, <2>2, FailsKinds, DroppedEffect
<1> QED
  BY <1>1, <1>2, <1>3, <1>4, <1>5, <1>6, <1>7, <1>8 DEF Next, ServerStep

(* What is left of a sequence of steps.                                    *)
Remains(q, p, k) ==
  \A i \in DOMAIN q : i \in Nat \ {0} /\ i + 1 + k \in DOMAIN p /\ q[i] = p[i + 1 + k]

LEMMA Later ==
  ASSUME NEW p, AreSteps(p), p # Nothing, NEW k \in Nat,
         NEW q, q = SubSeq(p, 2 + k, Len(p))
  PROVE  AreSteps(q) /\ Remains(q, p, k)
<1>1. PICK S : p \in Seq(S)
  BY DEF AreSteps, IsSeq
<1>2. Len(p) \in Nat \ {0} /\ DOMAIN p = 1..Len(p)
  BY <1>1 DEF Nothing
<1>3. \A i \in (2 + k)..Len(p) : p[i] \in S
  BY <1>1, <1>2
<1>4. /\ q \in Seq(S)
      /\ Len(q) = IF 2 + k <= Len(p) THEN Len(p) - (2 + k) + 1 ELSE 0
      /\ \A i \in 1..(Len(p) - (2 + k) + 1) : q[i] = p[(2 + k) + i - 1]
  BY <1>2, <1>3, SubSeqProperties
<1>5. DOMAIN q = 1..Len(q)
  BY <1>4
<1>6. ASSUME NEW i \in DOMAIN q
      PROVE  i \in Nat \ {0} /\ i + 1 + k \in DOMAIN p /\ q[i] = p[i + 1 + k]
  <2>1. i \in 1..Len(q)
    BY <1>5
  <2>2. 2 + k <= Len(p)
    BY <1>2, <1>4, <2>1
  <2>3. i \in 1..(Len(p) - (2 + k) + 1)
    BY <1>2, <1>4, <2>1, <2>2
  <2>4. (2 + k) + i - 1 = i + 1 + k
    BY <2>3, <1>2
  <2> QED
    BY <1>2, <1>4, <2>3, <2>4
<1> QED
  BY <1>4, <1>6 DEF AreSteps, IsSeq, Remains

(* What the invariant says of the step under way.                          *)
LEMMA StepUnderWay ==
  ASSUME IInv, Running1
  PROVE  /\ Running /\ TypeInv /\ ProgramInv /\ AgainInv /\ PlaceInv /\ ResetInv
         /\ DoneInv /\ SendInv /\ CountInv
         /\ ResetIsDeserved /\ RefusalMeansNothingDone /\ ItemsStayHome
         /\ AreSteps(steps) /\ Len(steps) \in Nat \ {0}
         /\ DOMAIN steps = 1..Len(steps) /\ 1 \in DOMAIN steps
         /\ step = steps[1] /\ IsStep(step)
         /\ ActsFor(method, ofBusiness, step) /\ Told(step)
         /\ Changes(step) => \A j \in DOMAIN steps : 1 < j => Closing(steps[j])
         /\ done /\ ~lost => Closing(step) /\ retried = Nothing
         /\ ~reset /\ sends > 0 /\ step.do = "send" => call.executed
         /\ reset => step.via = "bot"
<1>1. /\ Running /\ TypeInv /\ ProgramInv /\ AgainInv /\ PlaceInv /\ ResetInv
      /\ DoneInv /\ SendInv /\ CountInv
      /\ ResetIsDeserved /\ RefusalMeansNothingDone /\ ItemsStayHome
  BY DEF IInv, Running1
<1>2. /\ AreSteps(steps) /\ Len(steps) \in Nat \ {0} /\ DOMAIN steps = 1..Len(steps)
      /\ step = steps[1] /\ IsStep(step)
  BY <1>1, StepTyped DEF Running1
<1>3. 1 \in DOMAIN steps
  BY <1>2
<1>4. ActsFor(method, ofBusiness, steps[1]) /\ Told(steps[1])
  BY <1>1, <1>3 DEF ProgramInv, AllTold
<1>5. Changes(steps[1]) => \A j \in DOMAIN steps : 1 < j => Closing(steps[j])
  BY <1>1, <1>3 DEF ProgramInv, ClosesAfter
<1>6. done /\ ~lost => Closing(steps[1]) /\ retried = Nothing
  BY <1>1, <1>3 DEF DoneInv, Running1
<1>7. ~reset /\ sends > 0 /\ steps[1].do = "send" => call.executed
  BY <1>1, <1>3 DEF SendInv
<1>8. reset => steps[1].via = "bot"
  BY <1>1, <1>3 DEF ResetInv
<1> QED
  BY <1>1, <1>2, <1>3, <1>4, <1>5, <1>6, <1>7, <1>8

LEMMA MovingKeeps ==
  ASSUME IInv, NEW k \in Nat, Moving(k)
  PROVE  IInv'
<1>1. /\ Running /\ Running' /\ TypeInv /\ ProgramInv /\ AgainInv /\ PlaceInv /\ ResetInv
      /\ DoneInv /\ SendInv /\ CountInv
      /\ ResetIsDeserved /\ RefusalMeansNothingDone /\ ItemsStayHome
  BY StepUnderWay DEF Moving, Running
<1>2. /\ AreSteps(steps) /\ Len(steps) \in Nat \ {0} /\ DOMAIN steps = 1..Len(steps)
      /\ step = steps[1] /\ IsStep(step)
  BY StepUnderWay DEF Moving
<1>a. /\ 1 \in DOMAIN steps /\ ActsFor(method, ofBusiness, step)
      /\ Changes(step) => \A j \in DOMAIN steps : 1 < j => Closing(steps[j])
      /\ done /\ ~lost => Closing(step)
      /\ ~reset /\ sends > 0 /\ step.do = "send" => call.executed
  BY StepUnderWay DEF Moving
<1>3. /\ AreSteps(steps') /\ call' = Fresh
      /\ \A i \in DOMAIN steps' : /\ i \in Nat \ {0} /\ i + 1 + k \in DOMAIN steps
                                  /\ steps'[i] = steps[i + 1 + k]
  <2>1. steps # Nothing /\ steps' = SubSeq(steps, 2 + k, Len(steps)) /\ call' = Fresh
    BY DEF Moving, Proceed, Running1
  <2>2. PICK q : q = SubSeq(steps, 2 + k, Len(steps))
    OBVIOUS
  <2>3. PICK p : p = steps
    OBVIOUS
  <2>4. AreSteps(p) /\ p # Nothing /\ q = SubSeq(p, 2 + k, Len(p))
    BY <1>2, <2>1, <2>2, <2>3
  <2>5. AreSteps(q) /\ Remains(q, p, k)
    BY <2>4, Later
  <2> QED
    BY <2>1, <2>2, <2>3, <2>5 DEF Remains
<1>4. UNCHANGED <<method, retried, ofBusiness, home, reset, cause, answer>>
  BY DEF Moving
<1>5. /\ done' = (done \/ Changes(step))
      /\ makes' = IF step.do = "make" THEN makes + 1 ELSE makes
      /\ sends' = IF step.do = "send" /\ ~call.executed THEN sends + 1 ELSE sends
      /\ lost' = lost \/ (lost' = TRUE /\ ~Changes(step))
  BY <1>1 DEF Moving, Execute, Changes, Either, TypeInv
<1>6. TypeInv'
  <2>1. parts' \in {"none", "bot", "pool"}
    BY <1>1 DEF Moving, connection, Either, TypeInv, TypeOK
  <2>2. cache' \in [Keys -> {"none", "bot", "business"}]
    BY <1>1 DEF Moving, Either, TypeInv, TypeOK
  <2>3. call' \in [try : 1..Attempts, pool : 1..PoolAttempts, executed : BOOLEAN]
    BY <1>3, AttemptsAssumption DEF Fresh
  <2>4. sends' \in Nat /\ makes' \in Nat /\ done' \in BOOLEAN /\ lost' \in BOOLEAN
    <3>1. sends \in Nat /\ makes \in Nat /\ done \in BOOLEAN /\ lost \in BOOLEAN
      BY <1>1 DEF TypeInv
    <3>2. sends' \in Nat /\ makes' \in Nat
      BY <1>5, <3>1
    <3>3. done' \in BOOLEAN /\ lost' \in BOOLEAN
      BY <1>5, <3>1 DEF Changes
    <3> QED
      BY <3>2, <3>3
  <2> QED
    BY <1>1, <1>3, <1>4, <2>1, <2>2, <2>3, <2>4, StepsTyped DEF TypeInv, TypeOK
<1>7. ProgramInv'
  <2>1. AllTold(steps') /\ OneSide(steps')
    BY <1>1, <1>3 DEF ProgramInv, AllTold, OneSide
  <2>2. ClosesAfter(steps')
    <3> SUFFICES ASSUME NEW i \in DOMAIN steps', NEW j \in DOMAIN steps', i < j,
                        Changes(steps'[i])
                 PROVE  Closing(steps'[j])
      BY DEF ClosesAfter
    <3>1. i + 1 + k < j + 1 + k
      BY <1>3
    <3> QED
      BY <1>1, <1>3, <3>1 DEF ProgramInv, ClosesAfter
  <2>3. \A i \in DOMAIN steps' : ActsFor(method', ofBusiness', steps'[i])
    BY <1>1, <1>3, <1>4 DEF ProgramInv
  <2> QED
    BY <2>1, <2>2, <2>3 DEF ProgramInv
<1>8. AgainInv'
  <2> SUFFICES ASSUME retried' # Nothing
               PROVE  Plain(steps')
    BY <1>1, <1>4 DEF AgainInv
  <2>1. Plain(steps)
    BY <1>1, <1>4 DEF AgainInv
  <2>2. ASSUME NEW i \in DOMAIN steps', Changes(steps'[i])
        PROVE  i = Len(steps')
    <3>1. i + 1 + k = Len(steps)
      BY <1>3, <2>1, <2>2 DEF Plain
    <3>2. Len(steps') \in Nat /\ DOMAIN steps' = 1..Len(steps')
      BY <1>3
    <3>3. Len(steps') \in DOMAIN steps' /\ i <= Len(steps')
      BY <3>2, <2>2
    <3>4. Len(steps') + 1 + k <= Len(steps)
      BY <1>2, <1>3, <3>3
    <3> QED
      BY <3>1, <3>2, <3>3, <3>4, <1>3
  <2>3. \A i \in DOMAIN steps' : steps'[i].via = "bot"
    BY <1>3, <2>1 DEF Plain
  <2> QED
    BY <2>2, <2>3 DEF Plain
<1>9. PlaceInv'
  <2>1. \A i \in DOMAIN steps' : Place(steps[i])' = Place(steps[i + 1 + k])
    BY <1>3, <1>4 DEF Place
  <2>2. CASE parts' = parts
    BY <1>1, <1>3, <2>1, <2>2 DEF PlaceInv
  <2>3. CASE parts' = connection /\ Touches(step)
    <3> SUFFICES ASSUME NEW i \in DOMAIN steps', Touches(steps'[i])
                 PROVE  Place(steps[i + 1 + k]) = parts'
      BY <2>1 DEF PlaceInv
    <3>1. steps[i + 1 + k].via = "bot" <=> step.via = "bot"
      BY <1>1, <1>2, <1>3, <2>3 DEF ProgramInv, OneSide
    <3> QED
      BY <2>3, <3>1 DEF Place, connection
  <2>4. CASE parts' = "none"
    BY <2>4 DEF PlaceInv
  <2> QED
    BY <2>2, <2>3, <2>4 DEF Moving
<1>10. ResetInv'
  BY <1>1, <1>3, <1>4 DEF ResetInv
<1>11. DoneInv'
  <2> SUFFICES ASSUME done', ~lost'
               PROVE  /\ \A i \in DOMAIN steps' : Closing(steps'[i])
                      /\ retried' # Nothing => steps' = Nothing
    BY DEF DoneInv
  <2>1. lost = FALSE
    BY <1>1, <1>5 DEF TypeInv
  <2>2. CASE Changes(step)
    <3>1. \A i \in DOMAIN steps' : Closing(steps'[i])
      <4> TAKE i \in DOMAIN steps'
      <4>1. 1 < i + 1 + k
        BY <1>3
      <4> QED
        BY <1>a, <1>3, <2>2, <4>1
    <3>2. ASSUME retried' # Nothing
          PROVE  steps' = Nothing
      <4>1. Len(steps) = 1
        BY <1>1, <1>2, <1>4, <2>2, <3>2 DEF AgainInv, Plain
      <4>2. ASSUME NEW i \in DOMAIN steps'
            PROVE  FALSE
        <5>1. i \in Nat \ {0} /\ i + 1 + k \in 1..1
          BY <1>2, <1>3, <4>1
        <5> QED
          BY <5>1
      <4> QED
        BY <1>3, <4>2, NothingSteps
    <3> QED
      BY <3>1, <3>2
  <2>3. CASE ~Changes(step)
    <3>1. done
      BY <1>5, <2>3
    <3>2. \A i \in DOMAIN steps' : Closing(steps'[i])
      BY <1>1, <1>3, <2>1, <3>1 DEF DoneInv
    <3>3. retried = Nothing
      BY <1>1, <2>1, <3>1 DEF DoneInv, Moving, Running1
    <3> QED
      BY <1>4, <3>2, <3>3
  <2> QED
    BY <2>2, <2>3
<1>12. SendInv' /\ CountInv'
  <2>0. /\ sends \in Nat /\ makes \in Nat
        /\ done \in BOOLEAN /\ lost \in BOOLEAN /\ reset \in BOOLEAN
    BY <1>1 DEF TypeInv
  <2>1. CASE step.do = "send"
    <3>1. \A i \in DOMAIN steps' : steps'[i].do # "send"
      <4> TAKE i \in DOMAIN steps'
      <4>1. 1 < i + 1 + k
        BY <1>3
      <4>2. Closing(steps[i + 1 + k])
        BY <1>a, <1>3, <2>1, <4>1 DEF Changes
      <4> QED
        BY <1>3, <4>2 DEF Closing
    <3>2. ~lost => ~done
      BY <1>a, <2>1 DEF Closing
    <3>3. ~reset /\ sends > 0 => call.executed
      BY <1>a, <2>1
    <3>4. makes' = makes /\ done' /\ (lost' = lost)
      BY <1>5, <2>1 DEF Changes
    <3>5. sends' <= 1 \/ (reset /\ lost)
      BY <1>1, <1>5, <2>0, <2>1, <3>2, <3>3 DEF CountInv
    <3>6. makes' <= 1 \/ lost
      BY <1>1, <2>0, <3>4 DEF CountInv
    <3> QED
      BY <1>1, <1>4, <2>0, <3>1, <3>4, <3>5, <3>6 DEF SendInv, CountInv
  <2>2. CASE step.do # "send"
    <3>1. sends' = sends
      BY <1>5, <2>2
    <3>2. SendInv'
      <4> SUFFICES ASSUME ~reset, sends > 0, NEW i \in DOMAIN steps', steps'[i].do = "send"
                   PROVE  FALSE
        BY <1>4, <3>1 DEF SendInv
      <4>1. i + 1 + k = 1
        BY <1>1, <1>3 DEF SendInv
      <4> QED
        BY <1>3, <4>1
    <3>3. ASSUME step.do = "make"
          PROVE  (~lost => ~done) /\ done' /\ lost' = lost /\ makes' = makes + 1
      BY <1>a, <1>5, <3>3 DEF Closing, Changes
    <3>4. step.do # "make" => makes' = makes
      BY <1>5
    <3>5. done => done'
      BY <1>5
    <3>6. ~lost' => ~lost
      BY <1>5, <2>0
    <3>7. sends' > 0 \/ makes' > 0 => done'
      BY <1>1, <2>0, <3>1, <3>3, <3>4, <3>5 DEF CountInv
    <3>8. ~lost => makes <= 1 /\ (step.do = "make" => makes = 0)
      BY <1>1, <2>0, <3>3 DEF CountInv
    <3>9. ~lost' => sends' <= 1 /\ makes' <= 1
      BY <1>1, <2>0, <3>1, <3>3, <3>4, <3>6, <3>8 DEF CountInv
    <3>10. ~reset' => sends' <= 1
      BY <1>1, <1>4, <3>1 DEF CountInv
    <3>11. CountInv'
      BY <3>7, <3>9, <3>10 DEF CountInv
    <3> QED
      BY <3>2, <3>11
  <2> QED
    BY <2>1, <2>2
<1>13. ResetIsDeserved' /\ RefusalMeansNothingDone' /\ IdleInv'
  BY <1>1, <1>4 DEF ResetIsDeserved, RefusalMeansNothingDone, IdleInv, Running, Idle
<1>14. ItemsStayHome'
  <2>1. CASE cache' = cache
    BY <1>1, <2>1 DEF ItemsStayHome
  <2>2. CASE /\ step.do = "store"
             /\ cache' = [cache EXCEPT ![step.what] = Either(ofBusiness, "business", "bot")]
    <3>1. step.what # Either(ofBusiness, "item", "business item")
      BY <1>a, <2>2 DEF ActsFor
    <3>2. cache \in [Keys -> {"none", "bot", "business"}] /\ ofBusiness \in BOOLEAN
      BY <1>1 DEF TypeInv, TypeOK
    <3> QED
      BY <1>1, <2>2, <3>1, <3>2 DEF ItemsStayHome, Keys, Either
  <2> QED
    BY <2>1, <2>2 DEF Moving
<1> QED
  BY <1>6, <1>7, <1>8, <1>9, <1>10, <1>11, <1>12, <1>13, <1>14 DEF IInv

(* What a call that Telegram executes, whether it answers or not, does to  *)
(* the counters.                                                           *)
LEMMA ExecuteCounts ==
  ASSUME IInv, Running1, Execute
  PROVE  /\ done' \in BOOLEAN /\ sends' \in Nat /\ makes' \in Nat
         /\ sends' > 0 \/ makes' > 0 => done'
         /\ ~reset => sends' <= 1
         /\ done => done'
<1>1. /\ TypeInv /\ CountInv /\ (~reset /\ sends > 0 /\ step.do = "send" => call.executed)
  BY StepUnderWay
<1>2. sends \in Nat /\ makes \in Nat /\ done \in BOOLEAN
  BY <1>1 DEF TypeInv
<1>3. /\ done' = (done \/ Changes(step))
      /\ makes' = IF step.do = "make" THEN makes + 1 ELSE makes
      /\ sends' = IF step.do = "send" /\ ~call.executed THEN sends + 1 ELSE sends
  BY <1>2 DEF Execute, Changes, Either
<1>4. step.do \in {"make", "send"} => done'
  BY <1>3 DEF Changes
<1>5. done' \in BOOLEAN /\ (done => done')
  BY <1>2, <1>3 DEF Changes
<1>6. sends' \in Nat /\ makes' \in Nat
  BY <1>2, <1>3
<1>7. ~reset => sends' <= 1
  BY <1>1, <1>2, <1>3 DEF CountInv
<1>8. sends' > 0 => done'
  BY <1>1, <1>2, <1>3, <1>4, <1>5 DEF CountInv
<1>9. makes' > 0 => done'
  BY <1>1, <1>2, <1>3, <1>4, <1>5 DEF CountInv
<1> QED
  BY <1>5, <1>6, <1>7, <1>8, <1>9

LEMMA EndingKeeps ==
  ASSUME IInv, NEW error, Ending(error)
  PROVE  IInv'
<1>1. /\ Running1 /\ step.do \notin {"try", "store", "cache"} /\ Respond(error) /\ cache' = cache
      /\ UNCHANGED telegram \/ (Execute /\ lost' = TRUE)
  BY DEF Ending
<1>2. /\ answer' = Code(error) /\ reset' = (reset \/ Code(error) = "401")
      /\ UNCHANGED <<steps, retried, ofBusiness, home, call, parts>>
      /\ UNCHANGED method
      /\ cause'.do = step.do /\ cause'.what = step.what /\ cause'.via = step.via
      /\ cause'.error = error
  BY <1>1 DEF Respond, Explain, request
<1>3. Code(error) \in {"400", "401", "404", "500", "502", "504"}
  BY DEF Code, Either
<1>4. ~Running' /\ ~Idle'
  BY <1>2, <1>3 DEF Running, Idle
<1>5. TypeInv /\ CountInv /\ ItemsStayHome /\ ResetIsDeserved
  BY <1>1, StepUnderWay
<1>6. TypeInv'
  <2>1. done' \in BOOLEAN /\ lost' \in BOOLEAN /\ sends' \in Nat /\ makes' \in Nat
    <3>1. CASE UNCHANGED telegram
      BY <1>5, <3>1 DEF TypeInv, telegram
    <3>2. CASE Execute /\ lost' = TRUE
      BY <1>1, <3>2, ExecuteCounts
    <3> QED
      BY <1>1, <3>1, <3>2
  <2>2. reset' \in BOOLEAN
    BY <1>2, <1>5 DEF TypeInv
  <2>3. TypeOK'
    BY <1>1, <1>2, <1>3, <1>5 DEF TypeInv, TypeOK
  <2> QED
    BY <1>2, <1>5, <2>1, <2>2, <2>3 DEF TypeInv
<1>7. CountInv'
  <2>1. CASE UNCHANGED telegram
    BY <1>2, <1>5, <2>1 DEF CountInv, telegram
  <2>2. CASE Execute /\ lost' = TRUE
    BY <1>1, <1>2, <2>2, ExecuteCounts DEF CountInv
  <2> QED
    BY <1>1, <2>1, <2>2
<1>8. ResetIsDeserved'
  <2> SUFFICES ASSUME reset'
               PROVE  cause'.via = "bot" \/ cause'.what \in Unwrapped \/ cause'.error = "session"
    BY DEF ResetIsDeserved
  <2>1. CASE reset
    <3>1. step.via = "bot"
      BY <1>1, <2>1, StepUnderWay
    <3> QED
      BY <1>2, <3>1
  <2>2. CASE Code(error) = "401"
    <3>1. error = "session" \/ (~step.says /\ step.via # "business")
      BY <2>2 DEF Code, Either
    <3>2. CASE step.via = "direct" /\ ~step.says
      BY <1>1, <1>2, <3>2, StepUnderWay DEF Told
    <3>3. step.via \in {"bot", "business", "direct"}
      BY <1>1, StepUnderWay, StepFields
    <3> QED
      BY <1>2, <3>1, <3>2, <3>3
  <2> QED
    BY <1>2, <2>1, <2>2
<1>9. RefusalMeansNothingDone'
  <2> SUFFICES ASSUME done', ~lost'
               PROVE  \/ cause'.do = "want"
                      \/ cause'.what \in {"without message ids", "caption markup",
                                          "messages.editMessage"}
    BY DEF RefusalMeansNothingDone
  <2>1. done /\ ~lost
    <3>1. UNCHANGED telegram
      BY <1>1
    <3>2. done' = done /\ lost' = lost
      BY <3>1 DEF telegram
    <3> QED
      BY <3>2
  <2>2. Closing(step)
    BY <1>1, <2>1, StepUnderWay
  <2> QED
    BY <1>1, <1>2, <2>2 DEF Closing, Excused
<1>10. ItemsStayHome'
  BY <1>1, <1>5 DEF ItemsStayHome
<1> QED
  BY <1>4, <1>6, <1>7, <1>8, <1>9, <1>10 DEF IInv, IdleInv

LEMMA CallingAgainKeeps ==
  ASSUME IInv, CallingAgain
  PROVE  IInv'
<1>1. /\ Running1 /\ retried # Nothing /\ cache' = cache /\ UNCHANGED <<done, sends, makes, lost>>
      /\ steps' = retried /\ retried' = Nothing /\ reset' = TRUE /\ call' = Fresh
      /\ parts' = "none"
      /\ UNCHANGED <<method, ofBusiness, home, answer>>
      /\ cause'.via = step.via
  BY DEF CallingAgain, CallAgain, Explain, telegram
<1>2. /\ TypeInv /\ CountInv /\ ItemsStayHome /\ AgainInv /\ Running
      /\ 1 \in DOMAIN steps /\ step = steps[1]
      /\ (done /\ ~lost => retried = Nothing)
  BY <1>1, StepUnderWay
<1>3. Sound(method, ofBusiness, retried) /\ Plain(retried) /\ Plain(steps) /\ ~reset
  BY <1>1, <1>2 DEF AgainInv
<1>4. Running' /\ ~Idle'
  BY <1>1, <1>2 DEF Running, Idle
<1>5. TypeInv'
  <2>1. call' \in [try : 1..Attempts, pool : 1..PoolAttempts, executed : BOOLEAN]
    BY <1>1, AttemptsAssumption DEF Fresh
  <2>2. AreSteps(steps') /\ AreSteps(retried')
    BY <1>1, <1>3, NothingSteps DEF Sound
  <2>3. TypeOK'
    BY <1>1, <1>2, <2>1, <2>2, StepsTyped DEF TypeInv, TypeOK
  <2> QED
    BY <1>1, <1>2, <2>1, <2>2, <2>3 DEF TypeInv
<1>6. ProgramInv'
  BY <1>1, <1>3 DEF ProgramInv, Sound
<1>7. AgainInv' /\ PlaceInv'
  BY <1>1 DEF AgainInv, PlaceInv
<1>8. ResetInv'
  BY <1>1, <1>3 DEF ResetInv, Plain
<1>9. DoneInv' /\ SendInv'
  BY <1>1, <1>2 DEF DoneInv, SendInv
<1>10. CountInv'
  BY <1>1, <1>2 DEF CountInv
<1>11. ResetIsDeserved'
  <2>1. step.via = "bot"
    BY <1>2, <1>3 DEF Plain
  <2> QED
    BY <1>1, <2>1 DEF ResetIsDeserved
<1>12. RefusalMeansNothingDone' /\ ItemsStayHome'
  BY <1>1, <1>2 DEF RefusalMeansNothingDone, ItemsStayHome, Running
<1> QED
  BY <1>4, <1>5, <1>6, <1>7, <1>8, <1>9, <1>10, <1>11, <1>12 DEF IInv, IdleInv

LEMMA RepeatingKeeps ==
  ASSUME IInv, Repeating
  PROVE  IInv'
<1>1. PICK arrived \in BOOLEAN : Repeat(arrived) /\ Dropped(arrived)
  BY DEF Repeating
<1>2. /\ Running1 /\ Repeatable
      /\ UNCHANGED <<method, steps, retried, ofBusiness, home, parts, cache, reset, cause, answer>>
  BY DEF Repeating, request
<1>3. /\ TypeInv /\ ProgramInv /\ AgainInv /\ PlaceInv /\ ResetInv
      /\ DoneInv /\ SendInv /\ CountInv /\ Running
      /\ ResetIsDeserved /\ RefusalMeansNothingDone /\ ItemsStayHome
      /\ 1 \in DOMAIN steps /\ step = steps[1] /\ AreSteps(steps)
      /\ DOMAIN steps = 1..Len(steps) /\ Len(steps) \in Nat \ {0}
      /\ Changes(step) => \A j \in DOMAIN steps : 1 < j => Closing(steps[j])
  BY <1>2, StepUnderWay
<1>4. Running' /\ ~Idle'
  BY <1>2, <1>3 DEF Running, Idle
<1>5. /\ call' \in [try : 1..Attempts, pool : 1..PoolAttempts, executed : BOOLEAN]
      /\ call'.executed = (call.executed \/ arrived)
  <2>1. call \in [try : 1..Attempts, pool : 1..PoolAttempts, executed : BOOLEAN]
    BY <1>3 DEF TypeInv
  <2>2. Attempts \in Nat \ {0} /\ PoolAttempts \in Nat \ {0}
    BY AttemptsAssumption
  <2>3. CASE call.try < Attempts
    BY <1>1, <2>1, <2>2, <2>3 DEF Repeat, Either
  <2>4. CASE ~(call.try < Attempts)
    <3>1. call.pool < PoolAttempts
      BY <1>2, <2>4 DEF Repeatable
    <3> QED
      BY <1>1, <2>1, <2>2, <2>4, <3>1 DEF Repeat, Either
  <2> QED
    BY <2>3, <2>4
<1>6. \/ UNCHANGED <<done, sends, makes, lost>>
      \/ arrived /\ Execute /\ lost' = TRUE
  BY <1>1 DEF Dropped, telegram
<1>7. TypeInv'
  <2>1. done' \in BOOLEAN /\ lost' \in BOOLEAN /\ sends' \in Nat /\ makes' \in Nat
    <3>1. CASE UNCHANGED <<done, sends, makes, lost>>
      BY <1>3, <3>1 DEF TypeInv
    <3>2. CASE Execute /\ lost' = TRUE
      BY <1>2, <3>2, ExecuteCounts
    <3> QED
      BY <1>6, <3>1, <3>2
  <2>2. TypeOK'
    BY <1>2, <1>3, <1>5 DEF TypeInv, TypeOK
  <2> QED
    BY <1>2, <1>3, <1>5, <2>1, <2>2 DEF TypeInv
<1>8. CountInv'
  <2>1. CASE UNCHANGED <<done, sends, makes, lost>>
    BY <1>2, <1>3, <2>1 DEF CountInv
  <2>2. CASE Execute /\ lost' = TRUE
    BY <1>2, <2>2, ExecuteCounts DEF CountInv
  <2> QED
    BY <1>6, <2>1, <2>2
<1>9. DoneInv'
  BY <1>2, <1>3, <1>6 DEF DoneInv
<1>10. SendInv'
  <2> SUFFICES ASSUME ~reset, sends' > 0, NEW i \in DOMAIN steps, steps[i].do = "send"
               PROVE  i = 1 /\ call'.executed
    BY <1>2 DEF SendInv
  <2>1. CASE UNCHANGED <<done, sends, makes, lost>>
    BY <1>3, <1>5, <2>1 DEF SendInv
  <2>2. CASE arrived /\ Execute /\ step.do = "send"
    <3>1. i = 1
      <4> SUFFICES ASSUME i # 1
                   PROVE  FALSE
        OBVIOUS
      <4>1. Closing(steps[i])
        BY <1>3, <2>2 DEF Changes
      <4> QED
        BY <4>1 DEF Closing
    <3> QED
      BY <1>5, <2>2, <3>1
  <2>3. CASE Execute /\ step.do # "send"
    <3>1. sends' = sends
      BY <1>3, <2>3 DEF Execute, Either, TypeInv
    <3> QED
      BY <1>3, <1>5, <3>1 DEF SendInv
  <2> QED
    BY <1>6, <2>1, <2>2, <2>3
<1>11. ProgramInv' /\ AgainInv' /\ ResetInv'
  BY <1>2, <1>3 DEF ProgramInv, AgainInv, ResetInv
<1>12. PlaceInv'
  BY <1>2, <1>3 DEF PlaceInv, Place
<1>13. ResetIsDeserved' /\ RefusalMeansNothingDone' /\ ItemsStayHome'
  BY <1>2, <1>3 DEF ResetIsDeserved, RefusalMeansNothingDone, ItemsStayHome, Running
<1> QED
  BY <1>4, <1>7, <1>8, <1>9, <1>10, <1>11, <1>12, <1>13 DEF IInv, IdleInv

LEMMA BeginKeeps ==
  ASSUME IInv, Begin, NEW q, SoundRequest(q), method' = q.method,
         steps' = q.steps, retried' = q.retried, ofBusiness' = q.ofBusiness
  PROVE  IInv'
<1>1. /\ Idle /\ answer' = "none" /\ home' \in BOOLEAN
      /\ UNCHANGED <<call, parts, cache, done, sends, makes, lost, reset, cause>>
  BY DEF Begin, telegram
<1>2. parts = "none" /\ ~done /\ ~lost /\ ~reset /\ TypeInv /\ CountInv /\ ItemsStayHome
  BY <1>1 DEF IInv, IdleInv
<1>3. /\ Sound(method', ofBusiness', steps') /\ AreSteps(retried')
      /\ retried' # Nothing =>
           Sound(method', ofBusiness', retried') /\ Plain(retried') /\ Plain(steps')
  BY DEF SoundRequest
<1>4. TypeInv'
  <2>1. AreSteps(steps')
    BY <1>3 DEF Sound
  <2>2. ofBusiness' \in BOOLEAN
    BY DEF SoundRequest
  <2>3. TypeOK'
    BY <1>1, <1>2, <2>1, <2>2, StepsTyped DEF TypeInv, TypeOK
  <2> QED
    BY <1>1, <1>2, <1>3, <2>1, <2>2, <2>3 DEF TypeInv
<1>5. ProgramInv'
  BY <1>3 DEF ProgramInv, Sound
<1>6. AgainInv'
  BY <1>1, <1>2, <1>3 DEF AgainInv
<1>7. PlaceInv' /\ ResetInv' /\ DoneInv'
  BY <1>1, <1>2 DEF PlaceInv, ResetInv, DoneInv
<1>8. sends = 0
  BY <1>2 DEF CountInv, TypeInv
<1>9. SendInv' /\ CountInv'
  BY <1>1, <1>2, <1>8 DEF SendInv, CountInv
<1>10. ResetIsDeserved' /\ RefusalMeansNothingDone' /\ ItemsStayHome' /\ IdleInv'
  BY <1>1, <1>2 DEF ResetIsDeserved, RefusalMeansNothingDone, ItemsStayHome, IdleInv, Idle
<1> QED
  BY <1>4, <1>5, <1>6, <1>7, <1>9, <1>10 DEF IInv

LEMMA RestKeeps ==
  ASSUME IInv, Finish \/ Answered \/ UNCHANGED vars
  PROVE  IInv'
<1>1. CASE Finish
  <2>1. /\ answer' = "ok"
        /\ UNCHANGED <<method, steps, retried, ofBusiness, home, call, parts, cache, done, sends,
                       makes, lost, reset, cause>>
    BY <1>1 DEF Finish, request, telegram
  <2>2. TypeInv /\ CountInv /\ ResetIsDeserved /\ ItemsStayHome
    BY DEF IInv
  <2>3. TypeInv'
    BY <2>1, <2>2 DEF TypeInv, TypeOK
  <2>4. CountInv' /\ ResetIsDeserved' /\ ItemsStayHome' /\ RefusalMeansNothingDone'
    BY <2>1, <2>2 DEF CountInv, ResetIsDeserved, ItemsStayHome, RefusalMeansNothingDone
  <2>5. ~Running' /\ ~Idle'
    BY <2>1 DEF Running, Idle
  <2> QED
    BY <2>3, <2>4, <2>5 DEF IInv, IdleInv
<1>2. CASE Answered
  <2>1. /\ steps' = << >> /\ retried' = << >> /\ ofBusiness' = FALSE /\ home' = FALSE
        /\ call' = Fresh /\ parts' = "none" /\ cache' = cache
        /\ done' = FALSE /\ sends' = 0 /\ makes' = 0 /\ lost' = FALSE
        /\ reset' = FALSE /\ answer' = "idle"
    BY <1>2 DEF Answered, Nothing
  <2>2. TypeInv /\ ItemsStayHome
    BY DEF IInv
  <2>3. TypeInv'
    <3>1. call' \in [try : 1..Attempts, pool : 1..PoolAttempts, executed : BOOLEAN]
      BY <2>1, AttemptsAssumption DEF Fresh
    <3>2. AreSteps(steps') /\ AreSteps(retried')
      BY <2>1, NothingSteps DEF Nothing
    <3>3. TypeOK'
      BY <2>1, <2>2, <3>1, <3>2, StepsTyped DEF TypeInv, TypeOK
    <3> QED
      BY <2>1, <3>1, <3>2, <3>3 DEF TypeInv
  <2>4. CountInv' /\ ResetIsDeserved' /\ ItemsStayHome' /\ RefusalMeansNothingDone' /\ IdleInv'
    <3>1. CountInv'
      BY <2>1 DEF CountInv
    <3>2. ItemsStayHome'
      BY <2>1, <2>2 DEF ItemsStayHome
    <3> QED
      BY <2>1, <3>1, <3>2 DEF ResetIsDeserved, RefusalMeansNothingDone, IdleInv
  <2>5. ~Running'
    BY <2>1 DEF Running
  <2> QED
    BY <2>3, <2>4, <2>5 DEF IInv
<1>3. CASE UNCHANGED vars
  <2>1. UNCHANGED <<method, steps, retried, ofBusiness, home, call, parts, cache, done, sends,
                    makes, lost, reset, cause, answer>>
    BY <1>3 DEF vars, request, telegram
  <2>2. TypeInv' <=> TypeInv
    BY <2>1 DEF TypeInv, TypeOK
  <2>3. (IdleInv' <=> IdleInv) /\ (CountInv' <=> CountInv) /\ (Running' <=> Running)
    BY <2>1 DEF IdleInv, CountInv, Running, Idle
  <2>4. /\ ResetIsDeserved' <=> ResetIsDeserved
        /\ RefusalMeansNothingDone' <=> RefusalMeansNothingDone
        /\ ItemsStayHome' <=> ItemsStayHome
    BY <2>1 DEF ResetIsDeserved, RefusalMeansNothingDone, ItemsStayHome
  <2>5. (ProgramInv' <=> ProgramInv) /\ (AgainInv' <=> AgainInv) /\ (ResetInv' <=> ResetInv)
    BY <2>1 DEF ProgramInv, AgainInv, ResetInv
  <2>6. (PlaceInv' <=> PlaceInv) /\ (DoneInv' <=> DoneInv) /\ (SendInv' <=> SendInv)
    BY <2>1 DEF PlaceInv, Place, DoneInv, SendInv
  <2> QED
    BY <2>2, <2>3, <2>4, <2>5, <2>6 DEF IInv
<1> QED
  BY <1>1, <1>2, <1>3


-----------------------------------------------------------------------------
(* The requests.  A step fits a request for the bot itself, one for a      *)
(* business connection whose files the bot uploads, one for a business     *)
(* connection that uploads them itself ("direct"), or one of the two that  *)
(* name a connection and ignore it: for messages to be deleted, and for an *)
(* inline message.                                                         *)
Modes == {"bot", "business", "direct", "deletes", "inline"}
Fits(m, s) ==
  /\ IsStep(s) /\ Told(s)
  /\ Touches(s) => (s.via = "bot" <=> m # "direct")
  /\ Changes(s) =>
       /\ m \in {"business", "direct"} => s.via # "bot"
       /\ m = "deletes" => s.what \in {"messages.deleteMessages", "channels.deleteMessages"}
       /\ m = "inline" => s.what = "messages.editInlineBotMessage"
  /\ s.do = "store" => s.what # Either(m = "bot", "business item", "item")
  /\ m = "bot" => s.via = "bot"
AllFit(m, p) == IsSeq(p) /\ \A i \in DOMAIN p : Fits(m, p[i])

(* What comes before the change, the whole, and what comes after it.       *)
Prelude(m, p) == AllFit(m, p) /\ \A i \in DOMAIN p : ~Changes(p[i])
Program(m, p) == AllFit(m, p) /\ ClosesAfter(p)
Coda(m, p) == AllFit(m, p) /\ \A i \in DOMAIN p : Closing(p[i])

Joined(p, q, pq) ==
  /\ IsSeq(pq) /\ Len(p) \in Nat /\ DOMAIN p = 1..Len(p)
  /\ \A i \in DOMAIN pq :
       \/ i \in DOMAIN p /\ pq[i] = p[i]
       \/ i \in Nat /\ i > Len(p) /\ i - Len(p) \in DOMAIN q /\ pq[i] = q[i - Len(p)]
  /\ \A i \in DOMAIN p : i \in DOMAIN pq /\ pq[i] = p[i]
  /\ \A i \in DOMAIN q : i + Len(p) \in DOMAIN pq /\ pq[i + Len(p)] = q[i]

LEMMA ConcatElements ==
  ASSUME NEW p, IsSeq(p), NEW q, IsSeq(q)
  PROVE  Joined(p, q, p \o q)
<1>1. PICK S, T : p \in Seq(S) /\ q \in Seq(T)
  BY DEF IsSeq
<1>2. PICK U : U = S \cup T
  OBVIOUS
<1>3. p \in Seq(U) /\ q \in Seq(U)
  BY <1>1, <1>2, SeqMonotonic
<1>4. /\ p \o q \in Seq(U) /\ Len(p \o q) = Len(p) + Len(q)
      /\ \A i \in 1..Len(p) + Len(q) :
           (p \o q)[i] = IF i <= Len(p) THEN p[i] ELSE q[i - Len(p)]
  BY <1>3, ConcatProperties
<1>5. /\ Len(p) \in Nat /\ Len(q) \in Nat /\ DOMAIN p = 1..Len(p) /\ DOMAIN q = 1..Len(q)
      /\ DOMAIN (p \o q) = 1..Len(p) + Len(q)
  BY <1>3, <1>4
<1>6. ASSUME NEW i \in DOMAIN (p \o q)
      PROVE  \/ i \in DOMAIN p /\ (p \o q)[i] = p[i]
             \/ /\ i \in Nat /\ i > Len(p)
                /\ i - Len(p) \in DOMAIN q /\ (p \o q)[i] = q[i - Len(p)]
  BY <1>4, <1>5
<1>7. ASSUME NEW i \in DOMAIN p
      PROVE  i \in DOMAIN (p \o q) /\ (p \o q)[i] = p[i]
  BY <1>4, <1>5
<1>8. ASSUME NEW i \in DOMAIN q
      PROVE  i + Len(p) \in DOMAIN (p \o q) /\ (p \o q)[i + Len(p)] = q[i]
  BY <1>4, <1>5
<1> QED
  BY <1>4, <1>5, <1>6, <1>7, <1>8 DEF IsSeq, Joined

LEMMA AllFitJoin ==
  ASSUME NEW m, NEW p, AllFit(m, p), NEW q, AllFit(m, q), NEW pq, Joined(p, q, pq)
  PROVE  AllFit(m, pq)
<1>1. IsSeq(p) /\ IsSeq(q)
  BY DEF AllFit
<1>2. ASSUME NEW i \in DOMAIN pq
      PROVE  Fits(m, pq[i])
  BY <1>1 DEF AllFit, Joined
<1> QED
  BY <1>1, <1>2 DEF AllFit, Joined

LEMMA PreludesJoin ==
  ASSUME NEW m, NEW p, Prelude(m, p), NEW q, Prelude(m, q), NEW pq, Joined(p, q, pq)
  PROVE  Prelude(m, pq)
<1>1. IsSeq(p) /\ IsSeq(q)
  BY DEF Prelude, AllFit
<1>2. ASSUME NEW i \in DOMAIN pq
      PROVE  ~Changes(pq[i])
  BY <1>1 DEF Prelude, Joined
<1> QED
  BY <1>2, AllFitJoin DEF Prelude

LEMMA CodasJoin ==
  ASSUME NEW m, NEW p, Coda(m, p), NEW q, Coda(m, q), NEW pq, Joined(p, q, pq)
  PROVE  Coda(m, pq)
<1>1. ASSUME NEW i \in DOMAIN pq
      PROVE  Closing(pq[i])
  BY DEF Coda, Joined
<1> QED
  BY <1>1, AllFitJoin DEF Coda

LEMMA ClosesLater ==
  ASSUME NEW m, NEW p, Prelude(m, p), NEW q, IsSeq(q), ClosesAfter(q), NEW pq, Joined(p, q, pq)
  PROVE  ClosesAfter(pq)
<1>1. IsSeq(p) /\ \A i \in DOMAIN p : ~Changes(p[i])
  BY DEF Prelude, AllFit
<1> SUFFICES ASSUME NEW i \in DOMAIN pq, NEW j \in DOMAIN pq, i < j,
                    Changes(pq[i])
             PROVE  Closing(pq[j])
  BY DEF ClosesAfter
<1>2. Len(p) \in Nat /\ DOMAIN p = 1..Len(p)
  BY <1>1 DEF Joined
<1>3. /\ i \in Nat /\ i > Len(p)
      /\ i - Len(p) \in DOMAIN q /\ pq[i] = q[i - Len(p)]
  BY <1>1 DEF Joined
<1>4. j \in Nat /\ j - Len(p) \in DOMAIN q /\ pq[j] = q[j - Len(p)]
  BY <1>1, <1>2, <1>3 DEF Joined
<1>5. i - Len(p) < j - Len(p)
  BY <1>2, <1>3, <1>4
<1> QED
  BY <1>3, <1>4, <1>5 DEF ClosesAfter

LEMMA Leading ==
  ASSUME NEW m, NEW p, Prelude(m, p), NEW q, Program(m, q), NEW pq, Joined(p, q, pq)
  PROVE  Program(m, pq)
<1>1. AllFit(m, p) /\ AllFit(m, q) /\ IsSeq(p) /\ IsSeq(q)
  BY DEF Prelude, Program, AllFit
<1> QED
  BY <1>1, AllFitJoin, ClosesLater DEF Program

LEMMA Trailing ==
  ASSUME NEW m, NEW p, Program(m, p), NEW q, Coda(m, q), NEW pq, Joined(p, q, pq)
  PROVE  Program(m, pq)
<1>1. AllFit(m, p) /\ AllFit(m, q) /\ IsSeq(p) /\ IsSeq(q)
  BY DEF Coda, Program, AllFit
<1>2. ASSUME NEW i \in DOMAIN pq, NEW j \in DOMAIN pq, i < j, Changes(pq[i])
      PROVE  Closing(pq[j])
  <2>1. Len(p) \in Nat /\ DOMAIN p = 1..Len(p)
    BY <1>1 DEF Joined
  <2>2. CASE j \in DOMAIN p /\ pq[j] = p[j]
    <3>1. i \in DOMAIN p /\ pq[i] = p[i]
      BY <1>1, <1>2, <2>1, <2>2 DEF Joined
    <3> QED
      BY <1>2, <2>2, <3>1 DEF ClosesAfter, Program
  <2>3. CASE j - Len(p) \in DOMAIN q /\ pq[j] = q[j - Len(p)]
    BY <2>3 DEF Coda
  <2> QED
    BY <1>1, <2>2, <2>3 DEF Joined
<1> QED
  BY <1>1, <1>2, AllFitJoin DEF Program, ClosesAfter

LEMMA Joins ==
  ASSUME NEW m, NEW p, NEW q
  PROVE  /\ Prelude(m, p) /\ Prelude(m, q) => Prelude(m, p \o q)
         /\ Prelude(m, p) /\ Program(m, q) => Program(m, p \o q)
         /\ Program(m, p) /\ Coda(m, q) => Program(m, p \o q)
         /\ Coda(m, p) /\ Coda(m, q) => Coda(m, p \o q)
<1>1. PICK pq : pq = p \o q
  OBVIOUS
<1>2. IsSeq(p) /\ IsSeq(q) => Joined(p, q, pq)
  BY <1>1, ConcatElements
<1>3. /\ Prelude(m, p) => IsSeq(p)
      /\ Program(m, q) => IsSeq(q)
      /\ Prelude(m, q) => IsSeq(q)
      /\ Program(m, p) => IsSeq(p)
      /\ Coda(m, p) => IsSeq(p)
      /\ Coda(m, q) => IsSeq(q)
  BY DEF Prelude, Program, Coda, AllFit
<1>4. Prelude(m, p) /\ Prelude(m, q) => Prelude(m, pq)
  BY <1>2, <1>3, PreludesJoin
<1>5. Prelude(m, p) /\ Program(m, q) => Program(m, pq)
  BY <1>2, <1>3, Leading
<1>6. Program(m, p) /\ Coda(m, q) => Program(m, pq)
  BY <1>2, <1>3, Trailing
<1>7. Coda(m, p) /\ Coda(m, q) => Coda(m, pq)
  BY <1>2, <1>3, CodasJoin
<1> QED
  BY <1>1, <1>4, <1>5, <1>6, <1>7

LEMMA PreludePrograms ==
  ASSUME NEW m, NEW p, Prelude(m, p)
  PROVE  Program(m, p)
  BY DEF Prelude, Program, ClosesAfter

(* Which mode suits which request.                                         *)
Suits(m, x, business) ==
  /\ m # "bot" <=> business
  /\ m = "deletes" => x = "deleteMessages"
  /\ m = "inline" => x \in {"editMessageLiveLocation", "stopMessageLiveLocation"}

LEMMA ProgramsAreSound ==
  ASSUME NEW m \in Modes, NEW p, Program(m, p), NEW x, NEW business, Suits(m, x, business)
  PROVE  Sound(x, business, p)
<1>1. IsSeq(p) /\ ClosesAfter(p) /\ \A i \in DOMAIN p : Fits(m, p[i])
  BY DEF Program, AllFit
<1>2. AreSteps(p) /\ AllTold(p)
  BY <1>1 DEF AreSteps, AllTold, Fits
<1>3. OneSide(p)
  BY <1>1 DEF OneSide, Fits
<1>4. ASSUME NEW i \in DOMAIN p
      PROVE  ActsFor(x, business, p[i])
  <2>1. Fits(m, p[i])
    BY <1>1
  <2>2. ASSUME business, Changes(p[i]), p[i].via = "bot"
        PROVE  <<x, p[i].what>> \in Ignoring
    <3>1. m \in {"deletes", "inline"}
      BY <2>1, <2>2 DEF Fits, Suits, Modes
    <3> QED
      BY <2>1, <2>2, <3>1 DEF Fits, Suits, Ignoring
  <2>3. p[i].do = "store" => p[i].what # Either(business, "item", "business item")
    BY <2>1 DEF Fits, Suits, Either
  <2> QED
    BY <2>2, <2>3 DEF ActsFor
<1> QED
  BY <1>1, <1>2, <1>3, <1>4 DEF Sound

(* Sequences of one step.                                                  *)
LEMMA Single ==
  ASSUME NEW s, NEW f, f = [i \in 1..1 |-> f[i]], f[1] = s
  PROVE  f = <<s>>
<1>1. f \in [1..1 -> {s}]
  OBVIOUS
<1>2. f \in Seq({s}) /\ Len(f) = 1
  BY <1>1
<1>3. <<s>> \in Seq({s}) /\ Len(<<s>>) = 1 /\ <<s>>[1] = s
  OBVIOUS
<1> QED
  BY <1>2, <1>3, SeqEqual

(* What becomes of one step when a field of it changes.                    *)
LEMMA OneStep ==
  ASSUME NEW do \in Kinds, NEW what
  PROVE  \E s : /\ Step(do, what) = <<s>> /\ IsStep(s)
                /\ s.do = do /\ s.what = what /\ s.via = "bot" /\ ~s.parts /\ ~s.says
<1>1. PICK s : s = [do |-> do, what |-> what, via |-> "bot", parts |-> FALSE, says |-> FALSE,
                    skip |-> 0]
  OBVIOUS
<1>2. s.do = do /\ s.what = what /\ s.via = "bot" /\ ~s.parts /\ ~s.says
  BY <1>1
<1>3. s \in [do : Kinds, what : {what}, via : {"bot", "business", "direct"},
             parts : BOOLEAN, says : BOOLEAN, skip : Nat]
  BY <1>1
<1>4. IsStep(s)
  BY <1>3 DEF IsStep
<1>5. Step(do, what) = <<s>>
  BY <1>1 DEF Step
<1> QED
  BY <1>2, <1>4, <1>5

LEMMA OneOfParts ==
  ASSUME NEW s, IsStep(s)
  PROVE  \E t : /\ [<<s>> EXCEPT ![1].parts = TRUE] = <<t>> /\ IsStep(t)
                /\ t.do = s.do /\ t.what = s.what /\ t.via = s.via /\ t.parts /\ t.says = s.says
<1>1. DOMAIN <<s>> = 1..1 /\ <<s>>[1] = s
  OBVIOUS
<1>2. PICK f : f = [<<s>> EXCEPT ![1].parts = TRUE]
  OBVIOUS
<1>3. PICK t : t = [s EXCEPT !.parts = TRUE]
  OBVIOUS
<1>4. f[1] = t
  BY <1>1, <1>2, <1>3
<1>5. f = [i \in 1..1 |-> f[i]]
  BY <1>1, <1>2
<1>6. /\ IsStep(t) /\ t.do = s.do /\ t.what = s.what /\ t.via = s.via /\ t.parts
      /\ t.says = s.says
  BY <1>3 DEF IsStep
<1>7. f = <<t>>
  BY <1>4, <1>5, Single
<1> QED
  BY <1>2, <1>6, <1>7

LEMMA OneSays ==
  ASSUME NEW s, IsStep(s)
  PROVE  \E t : /\ Saying(<<s>>) = <<t>> /\ IsStep(t)
                /\ t.do = s.do /\ t.what = s.what /\ t.via = s.via /\ t.parts = s.parts /\ t.says
<1>1. DOMAIN <<s>> = 1..1 /\ <<s>>[1] = s
  OBVIOUS
<1>2. ASSUME NEW y, NEW f, f = [i \in DOMAIN <<s>> |-> [<<s>>[i] EXCEPT !.says = y]]
      PROVE  f = <<[s EXCEPT !.says = y]>>
  <2>1. f[1] = [<<s>>[1] EXCEPT !.says = y]
    BY <1>1, <1>2
  <2>2. f[1] = [s EXCEPT !.says = y]
    BY <1>1, <2>1
  <2>3. f = [i \in 1..1 |-> f[i]]
    BY <1>1, <1>2
  <2> QED
    BY <2>2, <2>3, Single
<1>3. PICK t : t = [s EXCEPT !.says = TRUE]
  OBVIOUS
<1>4. Saying(<<s>>) = <<[s EXCEPT !.says = TRUE]>>
  BY <1>2 DEF Saying
<1>5. /\ IsStep(t) /\ t.do = s.do /\ t.what = s.what /\ t.via = s.via /\ t.parts = s.parts
      /\ t.says
  BY <1>3 DEF IsStep
<1> QED
  BY <1>3, <1>4, <1>5

LEMMA OneThrough ==
  ASSUME NEW s, IsStep(s), NEW via \in {"bot", "business", "direct"}
  PROVE  \E t : /\ Through(via, <<s>>) = Lookup \o <<t>> /\ IsStep(t)
                /\ t.do = s.do /\ t.what = s.what /\ t.via = via /\ t.parts = s.parts
                /\ t.says = s.says
<1>1. DOMAIN <<s>> = 1..1 /\ <<s>>[1] = s
  OBVIOUS
<1>2. PICK f : f = [i \in DOMAIN <<s>> |-> [<<s>>[i] EXCEPT !.via = via]]
  OBVIOUS
<1>3. PICK t : t = [s EXCEPT !.via = via]
  OBVIOUS
<1>4. f[1] = t
  BY <1>1, <1>2, <1>3
<1>5. f = [i \in 1..1 |-> f[i]]
  BY <1>1, <1>2
<1>6. /\ IsStep(t) /\ t.do = s.do /\ t.what = s.what /\ t.via = via /\ t.parts = s.parts
      /\ t.says = s.says
  BY <1>3 DEF IsStep
<1>7. f = <<t>>
  BY <1>4, <1>5, Single
<1>8. Through(via, <<s>>) = Lookup \o f
  BY <1>2 DEF Through
<1> QED
  BY <1>6, <1>7, <1>8

LEMMA OneSkips ==
  ASSUME NEW s, IsStep(s), NEW n \in Nat
  PROVE  \E t : /\ [<<s>> EXCEPT ![1].skip = n] = <<t>> /\ IsStep(t)
                /\ t.do = s.do /\ t.what = s.what /\ t.via = s.via /\ t.parts = s.parts
                /\ t.says = s.says
<1>1. DOMAIN <<s>> = 1..1 /\ <<s>>[1] = s
  OBVIOUS
<1>2. PICK f : f = [<<s>> EXCEPT ![1].skip = n]
  OBVIOUS
<1>3. PICK t : t = [s EXCEPT !.skip = n]
  OBVIOUS
<1>4. f[1] = t
  BY <1>1, <1>2, <1>3
<1>5. f = [i \in 1..1 |-> f[i]]
  BY <1>1, <1>2
<1>6. /\ IsStep(t) /\ t.do = s.do /\ t.what = s.what /\ t.via = s.via /\ t.parts = s.parts
      /\ t.says = s.says
  BY <1>3 DEF IsStep
<1>7. f = <<t>>
  BY <1>4, <1>5, Single
<1> QED
  BY <1>2, <1>6, <1>7

LEMMA OneTried ==
  ASSUME NEW s, IsStep(s), NEW n \in Nat
  PROVE  \E t : /\ [<<s>> EXCEPT ![1].do = "try", ![1].skip = n] = <<t>> /\ IsStep(t)
                /\ t.do = "try" /\ t.what = s.what /\ t.via = s.via /\ t.parts = s.parts
                /\ t.says = s.says
<1>1. DOMAIN <<s>> = 1..1 /\ <<s>>[1] = s
  OBVIOUS
<1>2. PICK f : f = [<<s>> EXCEPT ![1].do = "try", ![1].skip = n]
  OBVIOUS
<1>3. PICK t : t = [s EXCEPT !.do = "try", !.skip = n]
  OBVIOUS
<1>4. f[1] = t
  BY <1>1, <1>2, <1>3
<1>5. f = [i \in 1..1 |-> f[i]]
  BY <1>1, <1>2
<1>6. IsStep(t)
  <2>1. PICK u : u = [s EXCEPT !.do = "try"]
    OBVIOUS
  <2>2. "try" \in Kinds
    BY DEF Kinds
  <2>3. IsStep(u)
    BY <2>1, <2>2 DEF IsStep
  <2>4. t = [u EXCEPT !.skip = n]
    BY <1>3, <2>1
  <2> QED
    BY <2>3, <2>4 DEF IsStep
<1>7. /\ t.do = "try" /\ t.what = s.what /\ t.via = s.via /\ t.parts = s.parts
      /\ t.says = s.says
  BY <1>3 DEF IsStep
<1>8. f = <<t>>
  BY <1>4, <1>5, Single
<1> QED
  BY <1>2, <1>6, <1>7, <1>8

(* Which of them fit where.                                                *)
LEMMA OneFits ==
  ASSUME NEW m, NEW s, Fits(m, s)
  PROVE  /\ AllFit(m, <<s>>) /\ ClosesAfter(<<s>>) /\ Program(m, <<s>>)
         /\ ~Changes(s) => Prelude(m, <<s>>)
         /\ Closing(s) => Coda(m, <<s>>)
<1>1. PICK p : p = <<s>>
  OBVIOUS
<1>2. DOMAIN p = 1..1 /\ p[1] = s /\ p \in Seq({s})
  BY <1>1
<1>3. DOMAIN p = {1}
  BY <1>2
<1>4. AllFit(m, p)
  BY <1>2, <1>3 DEF AllFit, IsSeq
<1>5. ClosesAfter(p)
  BY <1>3 DEF ClosesAfter
<1>6. ~Changes(s) => Prelude(m, p)
  BY <1>2, <1>3, <1>4 DEF Prelude
<1>7. Closing(s) => Coda(m, p)
  BY <1>2, <1>3, <1>4 DEF Coda
<1>8. Program(m, p)
  BY <1>4, <1>5 DEF Program
<1> QED
  BY <1>1, <1>4, <1>5, <1>6, <1>7, <1>8

LEMMA LocalPieces ==
  ASSUME NEW m \in Modes, NEW what
  PROVE  /\ Prelude(m, Check(what)) /\ Prelude(m, Want(what))
         /\ Prelude(m, Refuse(what)) /\ Prelude(m, Read(what))
         /\ Coda(m, Want(what))
         /\ what \in Excused => Coda(m, Check(what)) /\ Coda(m, Refuse(what))
<1>1. ASSUME NEW do \in {"check", "want", "refuse", "read"}
      PROVE  /\ Prelude(m, Step(do, what))
             /\ do = "want" \/ what \in Excused => Coda(m, Step(do, what))
  <2>1. do \in Kinds
    BY DEF Kinds
  <2>2. PICK s : /\ Step(do, what) = <<s>> /\ IsStep(s)
                 /\ s.do = do /\ s.what = what /\ s.via = "bot" /\ ~s.parts /\ ~s.says
    BY <2>1, OneStep
  <2>3. Fits(m, s)
    BY <2>2 DEF Fits, Told, Touches, Changes
  <2>4. ~Changes(s) /\ (do = "want" \/ what \in Excused => Closing(s))
    BY <2>2 DEF Changes, Closing
  <2> QED
    BY <2>2, <2>3, <2>4, OneFits
<1>2. Prelude(m, Step("check", what)) /\ (what \in Excused => Coda(m, Step("check", what)))
  BY <1>1
<1>3. Prelude(m, Step("want", what)) /\ Coda(m, Step("want", what))
  BY <1>1
<1>4. Prelude(m, Step("refuse", what)) /\ (what \in Excused => Coda(m, Step("refuse", what)))
  BY <1>1
<1>5. Prelude(m, Step("read", what))
  BY <1>1
<1> QED
  BY <1>2, <1>3, <1>4, <1>5 DEF Check, Want, Refuse, Read

LEMMA NothingPieces ==
  ASSUME NEW m
  PROVE  Prelude(m, Nothing) /\ Coda(m, Nothing)
<1>1. IsSeq(Nothing) /\ DOMAIN Nothing = {}
  BY DEF IsSeq, Nothing
<1> QED
  BY <1>1 DEF Prelude, Coda, AllFit

LEMMA StorePieces ==
  ASSUME NEW m \in Modes, NEW key, key # Either(m = "bot", "business item", "item")
  PROVE  Prelude(m, Store(key)) /\ Coda(m, Store(key))
<1>1. "store" \in Kinds
  BY DEF Kinds
<1>2. PICK s : /\ Step("store", key) = <<s>> /\ IsStep(s)
               /\ s.do = "store" /\ s.what = key /\ s.via = "bot" /\ ~s.parts /\ ~s.says
  BY <1>1, OneStep
<1>3. Fits(m, s)
  BY <1>2 DEF Fits, Told, Touches, Changes
<1>4. ~Changes(s) /\ Closing(s)
  BY <1>2 DEF Changes, Closing
<1> QED
  BY <1>2, <1>3, <1>4, OneFits DEF Store

LEMMA CachePieces ==
  ASSUME NEW m \in Modes, NEW key, NEW rest, Prelude(m, rest)
  PROVE  Prelude(m, Cached(key, rest))
<1>1. Len(rest) \in Nat /\ "cache" \in Kinds
  BY SeqFacts DEF Prelude, AllFit, Kinds
<1>2. PICK s : /\ Step("cache", key) = <<s>> /\ IsStep(s)
               /\ s.do = "cache" /\ s.what = key /\ s.via = "bot" /\ ~s.parts /\ ~s.says
  BY <1>1, OneStep
<1>3. PICK t : /\ [<<s>> EXCEPT ![1].skip = Len(rest)] = <<t>> /\ IsStep(t)
               /\ t.do = s.do /\ t.what = s.what /\ t.via = s.via /\ t.parts = s.parts
               /\ t.says = s.says
  BY <1>1, <1>2, OneSkips
<1>4. Fits(m, t) /\ ~Changes(t)
  BY <1>2, <1>3 DEF Fits, Told, Touches, Changes
<1>5. Prelude(m, <<t>>)
  BY <1>4, OneFits
<1>6. Cached(key, rest) = <<t>> \o rest
  BY <1>2, <1>3 DEF Cached
<1> QED
  BY <1>5, <1>6, Joins

LEMMA FirstTryPieces ==
  ASSUME NEW m \in {"bot", "business"}, NEW s, IsStep(s), s.via = "bot",
         NEW rest, Prelude(m, rest)
  PROVE  Prelude(m, FirstTry(<<s>>, rest))
<1>1. Len(rest) \in Nat
  BY SeqFacts DEF Prelude, AllFit
<1>2. PICK t : /\ [<<s>> EXCEPT ![1].do = "try", ![1].skip = Len(rest)] = <<t>> /\ IsStep(t)
               /\ t.do = "try" /\ t.what = s.what /\ t.via = s.via /\ t.parts = s.parts
               /\ t.says = s.says
  BY <1>1, OneTried
<1>3. Fits(m, t) /\ ~Changes(t)
  BY <1>2 DEF Fits, Told, Touches, Changes
<1>4. Prelude(m, <<t>>)
  BY <1>3, OneFits
<1>5. FirstTry(<<s>>, rest) = <<t>> \o rest
  BY <1>2 DEF FirstTry
<1> QED
  BY <1>4, <1>5, Joins

LEMMA FilePieces ==
  ASSUME NEW m \in {"bot", "business"}, NEW what
  PROVE  /\ Prelude(m, Upload(what)) /\ Prelude(m, Try(what))
         /\ Prelude(m, Ready) /\ Prelude(m, Saying(Ready))
         /\ \A rest : Prelude(m, rest) => /\ Prelude(m, FirstTry(Ready, rest))
                                          /\ Prelude(m, FirstTry(Read(what), rest))
<1>1. "upload" \in Kinds /\ "read" \in Kinds
  BY DEF Kinds
<1>2. PICK u : /\ Step("upload", what) = <<u>> /\ IsStep(u)
               /\ u.do = "upload" /\ u.what = what /\ u.via = "bot" /\ ~u.parts /\ ~u.says
  BY <1>1, OneStep
<1>3. Fits(m, u) /\ ~Changes(u)
  BY <1>2 DEF Fits, Told, Touches, Changes
<1>4. Prelude(m, Upload(what))
  BY <1>2, <1>3, OneFits DEF Upload
<1>5. PICK v : /\ Step("read", what) = <<v>> /\ IsStep(v)
               /\ v.do = "read" /\ v.what = what /\ v.via = "bot" /\ ~v.parts /\ ~v.says
  BY <1>1, OneStep
<1>6. PICK w : /\ Step("read", "messages.uploadMedia") = <<w>> /\ IsStep(w)
               /\ w.do = "read" /\ w.via = "bot"
  BY <1>1, OneStep
<1>7. PICK x : /\ [<<w>> EXCEPT ![1].parts = TRUE] = <<x>> /\ IsStep(x)
               /\ x.do = w.do /\ x.via = w.via
  BY <1>6, OneOfParts
<1>8. Ready = <<x>>
  BY <1>6, <1>7 DEF Ready
<1>9. PICK y : /\ Saying(<<x>>) = <<y>> /\ IsStep(y) /\ y.do = x.do /\ y.via = x.via
  BY <1>7, OneSays
<1>10. Fits(m, x) /\ ~Changes(x) /\ Fits(m, y) /\ ~Changes(y)
  BY <1>6, <1>7, <1>9 DEF Fits, Told, Touches, Changes
<1>11. Prelude(m, Ready) /\ Prelude(m, Saying(Ready))
  BY <1>8, <1>9, <1>10, OneFits
<1>12. \A rest : Prelude(m, rest) => Prelude(m, FirstTry(Ready, rest))
  BY <1>6, <1>7, <1>8, FirstTryPieces
<1>13. \A rest : Prelude(m, rest) => Prelude(m, FirstTry(Read(what), rest))
  BY <1>5, FirstTryPieces DEF Read
<1>14. Prelude(m, Try(what))
  BY <1>2, FirstTryPieces, NothingPieces DEF Try, Upload
<1> QED
  BY <1>4, <1>11, <1>12, <1>13, <1>14

LEMMA LookupPieces ==
  ASSUME NEW m \in {"business", "direct"}
  PROVE  Prelude(m, Lookup) /\ Program(m, Lookup)
<1>1. "lookup" \in Kinds
  BY DEF Kinds
<1>2. PICK s : /\ Step("lookup", "account.getBotBusinessConnection") = <<s>> /\ IsStep(s)
               /\ s.do = "lookup" /\ s.via = "bot" /\ ~s.parts
  BY <1>1, OneStep
<1>3. PICK t : /\ Saying(<<s>>) = <<t>> /\ IsStep(t)
               /\ t.do = s.do /\ t.via = s.via /\ t.parts = s.parts
  BY <1>2, OneSays
<1>4. Fits(m, t) /\ ~Changes(t) /\ t.do = "lookup"
  BY <1>2, <1>3 DEF Fits, Told, Touches, Changes
<1>5. Lookup = <<t>>
  BY <1>2, <1>3 DEF Lookup
<1> QED
  BY <1>4, <1>5, OneFits

(* A step that goes through the connection of the request, once that is    *)
(* looked up.                                                              *)
LEMMA ThroughPieces ==
  ASSUME NEW m \in {"business", "direct"}, NEW s, Fits(m, s)
  PROVE  /\ Program(m, Lookup \o <<s>>)
         /\ ~Changes(s) => Prelude(m, Lookup \o <<s>>)
<1>1. PICK p : p = Lookup \o <<s>>
  OBVIOUS
<1>2. AllFit(m, <<s>>) /\ ClosesAfter(<<s>>) /\ Prelude(m, Lookup)
  BY OneFits, LookupPieces
<1>3. IsSeq(Lookup) /\ IsSeq(<<s>>) /\ AllFit(m, Lookup)
  BY <1>2 DEF Prelude, AllFit
<1>4. Joined(Lookup, <<s>>, p)
  BY <1>1, <1>3, ConcatElements
<1>5. AllFit(m, p) /\ ClosesAfter(p)
  BY <1>2, <1>3, <1>4, AllFitJoin, ClosesLater
<1>6. ~Changes(s) => Prelude(m, p)
  BY <1>1, <1>2, OneFits, Joins
<1> QED
  BY <1>1, <1>5, <1>6 DEF Program

(* Calls, through the bot or through the business connection.              *)
Account(r) == Either(r.business, "business", "bot")

LEMMA OfPartsSingle ==
  ASSUME NEW s, IsStep(s)
  PROVE  \E t : /\ OfParts(<<s>>) = <<t>> /\ IsStep(t)
                /\ t.do = s.do /\ t.what = s.what /\ t.via = s.via /\ t.parts /\ t.says = s.says
<1>1. Len(<<s>>) = 1
  OBVIOUS
<1>2. OfParts(<<s>>) = [<<s>> EXCEPT ![1].parts = TRUE]
  BY <1>1 DEF OfParts
<1> QED
  BY <1>2, OneOfParts

LEMMA BusinessSingle ==
  ASSUME NEW m \in {"business", "direct"}, NEW s, IsStep(s), s.via = "bot",
         s.do \notin {"store", "lookup"}, Touches(s) => m = "direct"
  PROVE  /\ Program(m, Business(<<s>>)) /\ (~Changes(s) => Prelude(m, Business(<<s>>)))
         /\ s.says \/ s.what \in Unwrapped =>
              Program(m, Direct(<<s>>)) /\ (~Changes(s) => Prelude(m, Direct(<<s>>)))
<1>1. PICK u : /\ Through("business", <<s>>) = Lookup \o <<u>> /\ IsStep(u)
               /\ u.do = s.do /\ u.what = s.what /\ u.via = "business" /\ u.parts = s.parts
               /\ u.says = s.says
  <2>1. IsStep(s) /\ "business" \in {"bot", "business", "direct"}
    OBVIOUS
  <2> QED
    BY <2>1, OneThrough
<1>2. PICK v : /\ Through("direct", <<s>>) = Lookup \o <<v>> /\ IsStep(v)
               /\ v.do = s.do /\ v.what = s.what /\ v.via = "direct" /\ v.parts = s.parts
               /\ v.says = s.says
  <2>1. IsStep(s) /\ "direct" \in {"bot", "business", "direct"}
    OBVIOUS
  <2> QED
    BY <2>1, OneThrough
<1>3. (Touches(u) => m = "direct") /\ (Touches(v) => m = "direct")
  BY <1>1, <1>2 DEF Touches
<1>4. Fits(m, u) /\ (Changes(u) <=> Changes(s))
  BY <1>1, <1>3 DEF Fits, Told, Changes
<1>5. (s.says \/ s.what \in Unwrapped => Fits(m, v)) /\ (Changes(v) <=> Changes(s))
  BY <1>2, <1>3 DEF Fits, Told, Changes
<1>6. Business(<<s>>) = Lookup \o <<u>> /\ Direct(<<s>>) = Lookup \o <<v>>
  BY <1>1, <1>2 DEF Business, Direct
<1> QED
  BY <1>4, <1>5, <1>6, ThroughPieces

LEMMA StepCalls ==
  ASSUME NEW do \in {"read", "set", "make", "send"}, NEW rpc
  PROVE  /\ Program("bot", Step(do, rpc)) /\ Program("bot", OfParts(Step(do, rpc)))
         /\ Program("business", Business(Step(do, rpc)))
         /\ Program("business", Business(Saying(Step(do, rpc))))
         /\ rpc \in Unwrapped => Program("business", Direct(Step(do, rpc)))
         /\ Program("direct", Business(OfParts(Step(do, rpc))))
         /\ do = "read" => Prelude("business", Business(Step(do, rpc)))
         /\ do = "set" /\ rpc \in Excused => Coda("bot", Step(do, rpc))
<1>1. do \in Kinds
  BY DEF Kinds
<1>2. PICK s : /\ Step(do, rpc) = <<s>> /\ IsStep(s)
               /\ s.do = do /\ s.what = rpc /\ s.via = "bot" /\ ~s.parts /\ ~s.says
  BY <1>1, OneStep
<1>3. PICK t : /\ OfParts(<<s>>) = <<t>> /\ IsStep(t)
               /\ t.do = s.do /\ t.what = s.what /\ t.via = s.via
  BY <1>2, OfPartsSingle
<1>4. Fits("bot", s) /\ Fits("bot", t)
  BY <1>2, <1>3 DEF Fits, Told, Touches, Changes
<1>5. Program("bot", <<s>>) /\ Program("bot", <<t>>)
  BY <1>4, OneFits
<1>6. ~Touches(s) /\ (do = "read" => ~Changes(s)) /\ (do = "set" /\ rpc \in Excused => Closing(s))
  BY <1>2 DEF Touches, Changes, Closing
<1>7. /\ Program("business", Business(<<s>>))
      /\ rpc \in Unwrapped => Program("business", Direct(<<s>>))
      /\ do = "read" => Prelude("business", Business(<<s>>))
  BY <1>2, <1>6, BusinessSingle
<1>8. Program("direct", Business(<<t>>))
  BY <1>2, <1>3, BusinessSingle
<1>9. do = "set" /\ rpc \in Excused => Coda("bot", <<s>>)
  BY <1>4, <1>6, OneFits
<1>10. Program("business", Business(Saying(<<s>>)))
  <2>1. PICK u : /\ Saying(<<s>>) = <<u>> /\ IsStep(u)
                 /\ u.do = s.do /\ u.what = s.what /\ u.via = s.via /\ u.parts = s.parts
    BY <1>2, OneSays
  <2>2. ~Touches(u)
    BY <1>2, <2>1 DEF Touches
  <2> QED
    BY <1>2, <2>1, <2>2, BusinessSingle
<1> QED
  BY <1>2, <1>3, <1>5, <1>7, <1>8, <1>9, <1>10

LEMMA Calls ==
  ASSUME NEW rpc
  PROVE  /\ Program("bot", Read(rpc)) /\ Program("bot", Set(rpc))
         /\ Program("bot", Make(rpc)) /\ Program("bot", Send(rpc))
         /\ Program("bot", OfParts(Set(rpc))) /\ Program("bot", OfParts(Send(rpc)))
         /\ Program("business", Business(Read(rpc))) /\ Program("business", Business(Set(rpc)))
         /\ Program("business", Business(Make(rpc))) /\ Program("business", Business(Send(rpc)))
         /\ Program("business", Business(Saying(Set(rpc))))
         /\ Program("business", Business(Saying(Send(rpc))))
         /\ rpc \in Unwrapped =>
              Program("business", Direct(Set(rpc))) /\ Program("business", Direct(Send(rpc)))
         /\ Program("direct", Business(OfParts(Set(rpc))))
         /\ Prelude("business", Business(Read(rpc)))
         /\ rpc \in Excused => Coda("bot", Set(rpc))
<1>1. /\ Program("bot", Step("read", rpc)) /\ Program("business", Business(Step("read", rpc)))
      /\ Prelude("business", Business(Step("read", rpc)))
  BY StepCalls
<1>2. /\ Program("bot", Step("set", rpc)) /\ Program("bot", OfParts(Step("set", rpc)))
      /\ Program("business", Business(Step("set", rpc)))
      /\ Program("business", Business(Saying(Step("set", rpc))))
      /\ rpc \in Unwrapped => Program("business", Direct(Step("set", rpc)))
      /\ Program("direct", Business(OfParts(Step("set", rpc))))
      /\ rpc \in Excused => Coda("bot", Step("set", rpc))
  BY StepCalls
<1>3. /\ Program("bot", Step("make", rpc)) /\ Program("business", Business(Step("make", rpc)))
  BY StepCalls
<1>4. /\ Program("bot", Step("send", rpc)) /\ Program("bot", OfParts(Step("send", rpc)))
      /\ Program("business", Business(Step("send", rpc)))
      /\ Program("business", Business(Saying(Step("send", rpc))))
      /\ rpc \in Unwrapped => Program("business", Direct(Step("send", rpc)))
  BY StepCalls
<1> QED
  BY <1>1, <1>2, <1>3, <1>4 DEF Read, Set, Make, Send

(* The calls of the methods that name a connection and ignore it.          *)
LEMMA IgnoringCalls ==
  /\ Program("deletes", Set("messages.deleteMessages"))
  /\ Program("deletes", Set("channels.deleteMessages"))
  /\ Program("inline", Set("messages.editInlineBotMessage"))
<1>1. ASSUME NEW m \in {"deletes", "inline"}, NEW rpc,
             m = "deletes" => rpc \in {"messages.deleteMessages", "channels.deleteMessages"},
             m = "inline" => rpc = "messages.editInlineBotMessage"
      PROVE  Program(m, Set(rpc))
  <2>1. "set" \in Kinds
    BY DEF Kinds
  <2>2. PICK s : /\ Step("set", rpc) = <<s>> /\ IsStep(s)
                 /\ s.do = "set" /\ s.what = rpc /\ s.via = "bot" /\ ~s.parts
    BY <2>1, OneStep
  <2>3. Fits(m, s)
    BY <1>1, <2>2 DEF Fits, Told, Touches, Changes
  <2> QED
    BY <2>2, <2>3, OneFits DEF Set
<1> QED
  BY <1>1

LEMMA Routed ==
  ASSUME NEW r, NEW rpc
  PROVE  /\ Account(r) \in Modes /\ Account(r) \in {"bot", "business"}
         /\ Program(Account(r), Route(r, Set(rpc))) /\ Program(Account(r), Route(r, Make(rpc)))
         /\ Program(Account(r), Route(r, Send(rpc))) /\ Prelude(Account(r), Route(r, Read(rpc)))
         /\ Program(Account(r), Named(r, Set(rpc))) /\ Program(Account(r), Named(r, Send(rpc)))
<1>1. CASE r.business
  BY <1>1, Calls DEF Account, Either, Route, Named, Modes
<1>2. CASE ~r.business
  <2>1. Prelude("bot", Read(rpc))
    BY LocalPieces DEF Modes
  <2> QED
    BY <1>2, <2>1, Calls DEF Account, Either, Route, Named, Modes
<1> QED
  BY <1>1, <1>2

LEMMA DirectUpload ==
  ASSUME NEW what
  PROVE  Prelude("direct", Direct(Saying(Upload(what))))
<1>1. "upload" \in Kinds
  BY DEF Kinds
<1>2. PICK s : /\ Step("upload", what) = <<s>> /\ IsStep(s)
               /\ s.do = "upload" /\ s.what = what /\ s.via = "bot"
  BY <1>1, OneStep
<1>3. PICK t : Saying(<<s>>) = <<t>> /\ IsStep(t) /\ t.do = s.do /\ t.via = s.via /\ t.says
  BY <1>2, OneSays
<1>4. ~Changes(t)
  BY <1>2, <1>3 DEF Changes
<1>5. Prelude("direct", Direct(<<t>>))
  BY <1>2, <1>3, <1>4, BusinessSingle
<1> QED
  BY <1>2, <1>3, <1>5 DEF Upload

(* The helpers of the tables.                                              *)
LEMMA PeerPieces ==
  ASSUME NEW m \in Modes, NEW r
  PROVE  Prelude(m, Peer(r)) /\ Prelude(m, Channel(r))
  BY LocalPieces, NothingPieces DEF Peer, Channel, Either

LEMMA ByChatPieces ==
  ASSUME NEW m \in Modes, NEW r, NEW user, NEW group, NEW channel,
         Program(m, user), Program(m, group), Program(m, channel)
  PROVE  Program(m, ByChat(r, user, group, channel))
<1>1. PICK q : q = CASE r.chat = "user" -> user
                     [] r.chat = "group" -> group
                     [] OTHER -> channel
  OBVIOUS
<1>2. Program(m, q)
  BY <1>1
<1>3. ByChat(r, user, group, channel) = Peer(r) \o q
  BY <1>1 DEF ByChat
<1> QED
  BY <1>2, <1>3, PeerPieces, Joins

LEMMA BotByChat ==
  ASSUME NEW r, NEW user, NEW group, NEW channel,
         Program("bot", user), Program("bot", group), Program("bot", channel)
  PROVE  Program("bot", ByChat(r, user, group, channel))
<1>1. "bot" \in Modes
  BY DEF Modes
<1> QED
  BY <1>1, ByChatPieces

LEMMA BotPieces ==
  ASSUME NEW p, Prelude("bot", p)
  PROVE  Program("bot", p)
  BY PreludePrograms

LEMMA AccountModes ==
  ASSUME NEW r
  PROVE  /\ Account(r) \in Modes /\ Account(r) \in {"bot", "business"}
         /\ r.business => Account(r) = "business"
         /\ ~r.business => Account(r) = "bot"
  BY DEF Account, Either, Modes

LEMMA FilePrelude ==
  ASSUME NEW r, NEW thumbnail, Prelude(Account(r), thumbnail)
  PROVE  Prelude(Account(r), File(r, thumbnail))
<1>1. PICK m \in {"bot", "business"} : m = Account(r) /\ m \in Modes
  BY AccountModes
<1>2. /\ Prelude(m, Upload("file")) /\ Prelude(m, Try("url")) /\ Prelude(m, Nothing)
      /\ Prelude(m, Refuse("no file")) /\ Prelude(m, thumbnail)
  BY <1>1, FilePieces, LocalPieces, NothingPieces
<1>3. Prelude(m, Upload("file") \o Either(r.extra, thumbnail, Nothing))
  BY <1>2, Joins DEF Either
<1> QED
  BY <1>1, <1>2, <1>3 DEF File

LEMMA ResolvePrelude ==
  ASSUME NEW r
  PROVE  Prelude(Account(r), ResolveInputSingleMedia(r))
<1>1. PICK m \in {"bot", "business"} : m = Account(r) /\ m \in Modes
  BY AccountModes
<1>2. /\ Prelude(m, Upload("file")) /\ Prelude(m, Ready) /\ Prelude(m, Nothing)
      /\ Prelude(m, Refuse("no file")) /\ Prelude(m, Want("stored media"))
  BY <1>1, FilePieces, LocalPieces, NothingPieces
<1>3. PICK stored : stored = Upload("file") \o Ready \o Want("stored media")
  OBVIOUS
<1>4. Prelude(m, stored)
  BY <1>2, <1>3, Joins
<1>5. ItemKey(r) # Either(m = "bot", "business item", "item")
  BY <1>1, AccountModes DEF ItemKey, Either
<1>6. Prelude(m, Store(ItemKey(r)))
  BY <1>1, <1>5, StorePieces
<1>7. Prelude(m, stored \o Store(ItemKey(r)))
  BY <1>4, <1>6, Joins
<1>8. Prelude(m, FirstTry(Ready, stored) \o Store(ItemKey(r)))
  BY <1>4, <1>6, FilePieces, Joins
<1>9. /\ Prelude(m, Cached(ItemKey(r), stored \o Store(ItemKey(r))))
      /\ Prelude(m, Cached(ItemKey(r), FirstTry(Ready, stored) \o Store(ItemKey(r))))
  BY <1>1, <1>7, <1>8, CachePieces
<1> QED
  BY <1>1, <1>2, <1>3, <1>4, <1>9 DEF ResolveInputSingleMedia

LEMMA SendMediaProgram ==
  ASSUME NEW r
  PROVE  Program(Account(r), SendMedia(r))
<1>1. CASE r.business
  BY <1>1, Calls, AccountModes DEF SendMedia, Route, Either
<1>2. CASE ~r.business
  BY <1>2, Calls, AccountModes DEF SendMedia, Route, Either
<1> QED
  BY <1>1, <1>2

LEMMA SendFileProgram ==
  ASSUME NEW r, NEW thumbnail, Prelude(Account(r), thumbnail), NEW asks, NEW remembers
  PROVE  Program(Account(r), SendFile(r, thumbnail, asks, remembers))
<1>1. PICK m \in {"bot", "business"} : m = Account(r) /\ m \in Modes
  BY AccountModes
<1>2. PICK media : media = File(r, thumbnail) \o Stored(r)
  OBVIOUS
<1>3. Prelude(m, Stored(r))
  <2>1. Prelude(m, Saying(Ready)) /\ Prelude(m, Want("stored media")) /\ Prelude(m, Nothing)
    BY <1>1, FilePieces, LocalPieces, NothingPieces
  <2>2. Prelude(m, Saying(Ready) \o Want("stored media"))
    BY <2>1, Joins
  <2> QED
    BY <2>1, <2>2 DEF Stored, Either
<1>4. Prelude(m, media)
  BY <1>1, <1>2, <1>3, FilePrelude, Joins
<1>5. Prelude(m, Cached(LinkKey, media))
  BY <1>1, <1>4, CachePieces
<1>6. PICK before : before = Peer(r) \o Either(asks /\ IsURL(r), Cached(LinkKey, media), media)
  OBVIOUS
<1>7. Prelude(m, before)
  BY <1>1, <1>4, <1>5, <1>6, PeerPieces, Joins DEF Either
<1>8. PICK after : after = Either(remembers /\ IsURL(r), Store(LinkKey), Nothing)
  OBVIOUS
<1>9. Coda(m, after)
  <2>1. LinkKey # Either(m = "bot", "business item", "item")
    BY DEF LinkKey, Either
  <2> QED
    BY <1>1, <1>8, <2>1, StorePieces, NothingPieces DEF Either
<1>10. SendFile(r, thumbnail, asks, remembers) = before \o SendMedia(r) \o after
  BY <1>2, <1>6, <1>8 DEF SendFile
<1>11. Program(m, before \o SendMedia(r))
  BY <1>1, <1>7, SendMediaProgram, Joins
<1> QED
  BY <1>1, <1>9, <1>10, <1>11, Joins

(* A table of methods whose steps are those of a request r.                *)
Good(x, r, p) == \E m \in Modes : Program(m, p) /\ Suits(m, x, NamesConnection(x, r))
AllGood(r, f) == \A x \in DOMAIN f : Good(x, r, f[x])

(* The methods of the bot, those about a connection, and those that act    *)
(* for the account if the request names one.                               *)
ForBot(r, p) == \A x : x \notin AboutConnection \cup MayActForAccount => Good(x, r, p)
ForConnection(r, p) == \A x \in AboutConnection : Good(x, r, p)
ForAccount(r, p) == \A x \in MayActForAccount : Good(x, r, p)

LEMMA GoodPrograms ==
  ASSUME NEW p, NEW r
  PROVE  /\ Program("bot", p) => ForBot(r, p)
         /\ Program("business", p) \/ Program("direct", p) => ForConnection(r, p)
         /\ Program(Account(r), p) => ForAccount(r, p)
<1>1. ASSUME Program("bot", p), NEW x, x \notin AboutConnection \cup MayActForAccount
      PROVE  Good(x, r, p)
  <2>1. "bot" \in Modes /\ Suits("bot", x, NamesConnection(x, r))
    BY <1>1 DEF Modes, Suits, NamesConnection
  <2> QED
    BY <1>1, <2>1 DEF Good
<1>2. ASSUME NEW m \in {"business", "direct"}, Program(m, p), NEW x \in AboutConnection
      PROVE  Good(x, r, p)
  <2>1. m \in Modes /\ Suits(m, x, NamesConnection(x, r))
    BY <1>2 DEF Modes, Suits, NamesConnection
  <2> QED
    BY <1>2, <2>1 DEF Good
<1>3. ASSUME Program(Account(r), p), NEW x \in MayActForAccount
      PROVE  Good(x, r, p)
  <2>1. x \notin AboutConnection
    BY <1>3 DEF AboutConnection, MayActForAccount
  <2>2. Account(r) \in Modes /\ Suits(Account(r), x, NamesConnection(x, r))
    BY <1>3, <2>1 DEF Account, Either, Modes, Suits, NamesConnection
  <2> QED
    BY <1>3, <2>2 DEF Good
<1> QED
  BY <1>1, <1>2, <1>3 DEF ForBot, ForConnection, ForAccount

LEMMA TwoTables ==
  ASSUME NEW f, NEW g
  PROVE  /\ DOMAIN (f ++ g) = DOMAIN f \cup DOMAIN g
         /\ \A x \in DOMAIN f : (f ++ g)[x] = f[x]
         /\ \A x \in DOMAIN g : x \in DOMAIN f \/ (f ++ g)[x] = g[x]
<1>1. DOMAIN Joint(f, g) = DOMAIN f \cup DOMAIN g
  BY Zenon DEF Joint
<1>2. \A x \in DOMAIN f \cup DOMAIN g : Joint(f,
      g)[x] = IF x \in DOMAIN f THEN f[x] ELSE g[x]
  BY Zenon DEF Joint
<1>3. f ++ g = Joint(f, g)
  BY Zenon DEF ++
<1> QED
  BY <1>1, <1>2, <1>3, Zenon

LEMMA TablesJoin ==
  ASSUME NEW r, NEW f, AllGood(r, f), NEW g, AllGood(r, g)
  PROVE  AllGood(r, f ++ g)
<1>1. PICK h : h = f ++ g
  OBVIOUS
<1>2. /\ DOMAIN (f ++ g) = DOMAIN f \cup DOMAIN g
      /\ \A x \in DOMAIN f : (f ++ g)[x] = f[x]
      /\ \A x \in DOMAIN g : x \in DOMAIN f \/ (f ++ g)[x] = g[x]
  BY TwoTables
<1>3. ASSUME NEW x \in DOMAIN h
      PROVE  Good(x, r, h[x])
  BY <1>1, <1>2, <1>3 DEF AllGood
<1> QED
  BY <1>1, <1>3 DEF AllGood

(* The pieces of the methods of the bot, and of those that may name a      *)
(* business connection.                                                    *)
LEMMA Pieces ==
  ASSUME NEW m \in {"bot", "business"}, NEW r, NEW what
  PROVE  /\ Prelude(m, Peer(r)) /\ Prelude(m, Channel(r)) /\ Prelude(m, Nothing)
         /\ Prelude(m, Check(what)) /\ Prelude(m, Want(what)) /\ Prelude(m, Refuse(what))
         /\ Prelude(m, Read(what)) /\ Prelude(m, Upload(what)) /\ Prelude(m, Ready)
         /\ Prelude("bot", what) => Program("bot", what)
         /\ Coda(m, Want(what)) /\ Coda(m, Nothing)
<1>1. m \in Modes
  BY DEF Modes
<1> QED
  BY <1>1, PeerPieces, LocalPieces, NothingPieces, FilePieces, BotPieces

LEMMA HelperPieces ==
  ASSUME NEW r
  PROVE  /\ Program("bot", HideChatJoinRequest(r)) /\ Program("bot", EditGeneralForumTopic(r))
         /\ Prelude("bot", UploadStickerDocument)
         /\ Program(Account(r), SendMediaMessage(r))
         /\ Program(Account(r), SendPhoto(r))
<1>1. Program("bot", HideChatJoinRequest(r)) /\ Program("bot", EditGeneralForumTopic(r))
  BY Pieces, Calls, Joins DEF HideChatJoinRequest, EditGeneralForumTopic
<1>2. Prelude("bot", UploadStickerDocument)
  BY Pieces, Joins DEF UploadStickerDocument
<1>3. Program(Account(r), SendMediaMessage(r))
  BY AccountModes, Pieces, Routed, Joins DEF SendMediaMessage
<1>4. Program(Account(r), SendPhoto(r))
  BY AccountModes, Pieces, SendFileProgram DEF SendPhoto
<1> QED
  BY <1>1, <1>2, <1>3, <1>4

LEMMA AnswersGood ==
  ASSUME NEW r
  PROVE  AllGood(r, Answers(r))
<1> DEFINE answerCallbackQuery == Check("callback_query_id") \o
                                  Set("messages.setBotCallbackAnswer")
           answerPreCheckoutQuery == Check("pre_checkout_query_id") \o
                                     Set("messages.setBotPrecheckoutResults")
           setMyCommands == Set("bots.setBotCommands")
           getChatMember == ByChat(r, Nothing, Read("messages.getFullChat") \o
                            Want("full chat"), Check("user_id") \o
                            FirstTry(Read("channels.getParticipant"),
                            Read("channels.getParticipant")))
<1>1. /\ Program("bot", answerCallbackQuery)
      /\ Program("bot", answerPreCheckoutQuery)
      /\ Program("bot", setMyCommands)
      /\ Program("bot", getChatMember)
  BY Pieces, Calls, Joins, BotByChat, FilePieces
<1> HIDE DEF answerCallbackQuery, answerPreCheckoutQuery, setMyCommands, getChatMember
<1>2. /\ ForBot(r, answerCallbackQuery) /\ ForBot(r, answerPreCheckoutQuery)
      /\ ForBot(r, setMyCommands) /\ ForBot(r, getChatMember)
  BY <1>1, GoodPrograms
<1>3. Answers(r) = [answerCallbackQuery |-> answerCallbackQuery,
                    answerPreCheckoutQuery |-> answerPreCheckoutQuery,
                    setMyCommands |-> setMyCommands, getChatMember |-> getChatMember]
  BY DEF Answers, answerCallbackQuery, answerPreCheckoutQuery, setMyCommands, getChatMember
<1> QED
  BY <1>2, <1>3
     DEF AllGood, ForBot, AboutConnection, MayActForAccount

LEMMA BusinessAccountGood ==
  ASSUME NEW r
  PROVE  AllGood(r, BusinessAccount(r))
<1> DEFINE profile == Business(Set("account.updateProfile"))
           setBusinessAccountUsername == Business(Set("account.updateUsername"))
           removeBusinessAccountProfilePhoto == Business(Set("photos.updateProfilePhoto"))
           deleteStory == Lookup \o Business(Set("stories.deleteStories"))
           readBusinessMessage == Peer(r) \o Business(Set("messages.readHistory"))
<1>1. /\ Program("business", profile)
      /\ Program("business", setBusinessAccountUsername)
      /\ Program("business", removeBusinessAccountProfilePhoto)
      /\ Program("business", deleteStory)
      /\ Program("business", readBusinessMessage)
  BY Pieces, Calls, LookupPieces, Joins
<1> HIDE DEF profile, setBusinessAccountUsername, removeBusinessAccountProfilePhoto,
             deleteStory, readBusinessMessage
<1>2. /\ ForConnection(r, profile) /\ ForConnection(r, setBusinessAccountUsername)
      /\ ForConnection(r, removeBusinessAccountProfilePhoto) /\ ForConnection(r, deleteStory)
      /\ ForConnection(r, readBusinessMessage)
  BY <1>1, GoodPrograms
<1>3. BusinessAccount(r) = [setBusinessAccountBio |-> profile,
                            setBusinessAccountName |-> profile,
                            setBusinessAccountUsername |-> setBusinessAccountUsername,
                            removeBusinessAccountProfilePhoto |-> removeBusinessAccountProfilePhoto,
                            deleteStory |-> deleteStory,
                            readBusinessMessage |-> readBusinessMessage]
  BY DEF BusinessAccount, profile, setBusinessAccountUsername,
     removeBusinessAccountProfilePhoto, deleteStory, readBusinessMessage
<1> QED
  BY <1>2, <1>3
     DEF AllGood, ForConnection, AboutConnection, MayActForAccount

LEMMA ChatReadingGood ==
  ASSUME NEW r
  PROVE  AllGood(r, ChatReading(r))
<1> DEFINE getChat == ByChat(r, Read("users.getFullUser"), Read("messages.getFullChat"),
                      Read("channels.getFullChannel"))
<1>1. Program("bot", getChat)
  BY Pieces, Calls, Joins, BotByChat
<1> HIDE DEF getChat
<1>2. ForBot(r, getChat)
  BY <1>1, GoodPrograms
<1>3. ChatReading(r) = [getChat |-> getChat]
  BY DEF ChatReading, getChat
<1> QED
  BY <1>2, <1>3
     DEF AllGood, ForBot, AboutConnection, MayActForAccount

LEMMA DeletionAndReactionsGood ==
  ASSUME NEW r
  PROVE  AllGood(r, DeletionAndReactions(r))
<1> DEFINE delete == Set("messages.deleteMessages")
           deleteMessages == ByChat(r, delete, delete, Set("channels.deleteMessages"))
           setMessageReaction == Peer(r) \o Set("messages.sendReaction")
<1>1. Program("bot", setMessageReaction) /\ Program("bot", deleteMessages)
  BY Pieces, Calls, Joins, BotByChat
<1>2. Program("deletes", deleteMessages)
  <2>1. "deletes" \in Modes
    BY DEF Modes
  <2> QED
    BY <2>1, IgnoringCalls, ByChatPieces
<1> HIDE DEF delete, deleteMessages, setMessageReaction
<1>3. ForBot(r, setMessageReaction)
  BY <1>1, GoodPrograms
<1>4. Good("deleteMessages", r, deleteMessages)
  <2>1. PICK m \in Modes : m = Either(NamesConnection("deleteMessages", r), "deletes", "bot")
    BY DEF Modes, Either
  <2>2. /\ Program(m, deleteMessages)
        /\ Suits(m, "deleteMessages", NamesConnection("deleteMessages", r))
    BY <1>1, <1>2, <2>1 DEF Either, Suits
  <2> QED
    BY <2>2 DEF Good
<1>5. DeletionAndReactions(r) = [deleteMessages |-> deleteMessages,
                                 setMessageReaction |-> setMessageReaction]
  BY DEF DeletionAndReactions, delete, deleteMessages, setMessageReaction
<1> QED
  BY <1>3, <1>4, <1>5
     DEF AllGood, ForBot, AboutConnection, MayActForAccount

LEMMA DiceAndPinsGood ==
  ASSUME NEW r
  PROVE  AllGood(r, DiceAndPins(r))
<1> DEFINE pin == Peer(r) \o Route(r, Set("messages.updatePinnedMessage"))
           sendDice == Peer(r) \o SendMediaMessage(r)
           unpinAllChatMessages == Peer(r) \o Set("messages.unpinAllMessages")
           leaveChat == ByChat(r, Refuse("private chat"), Set("messages.deleteChatUser"),
                        Set("channels.leaveChannel"))
<1>1. /\ Program(Account(r), sendDice)
      /\ Program(Account(r), pin)
  BY AccountModes, Pieces, Routed, Joins, HelperPieces
<1>2. /\ Program("bot", unpinAllChatMessages)
      /\ Program("bot", leaveChat)
  BY Pieces, Calls, Joins, BotByChat
<1> HIDE DEF pin, sendDice, unpinAllChatMessages, leaveChat
<1>3. /\ ForAccount(r, sendDice) /\ ForAccount(r, pin) /\ ForBot(r, unpinAllChatMessages)
      /\ ForBot(r, leaveChat)
  BY <1>1, <1>2, GoodPrograms
<1>4. DiceAndPins(r) = [sendDice |-> sendDice, pinChatMessage |-> pin,
                        unpinChatMessage |-> pin,
                        unpinAllChatMessages |-> unpinAllChatMessages,
                        leaveChat |-> leaveChat]
  BY DEF DiceAndPins, pin, sendDice, unpinAllChatMessages, leaveChat
<1> QED
  BY <1>3, <1>4
     DEF AllGood, ForAccount, ForBot, AboutConnection, MayActForAccount

LEMMA MembersGood ==
  ASSUME NEW r
  PROVE  AllGood(r, Members(r))
<1> DEFINE fullChat == Read("messages.getFullChat") \o Want("full chat")
           getChatAdministrators == ByChat(r, Refuse("private chat"), fullChat,
                                    Read("channels.getParticipants") \o
                                    Want("participants"))
           getChatMemberCount == ByChat(r, Nothing, fullChat,
                                 Read("channels.getFullChannel") \o Want("full channel"))
<1>1. /\ Program("bot", getChatAdministrators)
      /\ Program("bot", getChatMemberCount)
  BY Pieces, Calls, Joins, BotByChat
<1> HIDE DEF fullChat, getChatAdministrators, getChatMemberCount
<1>2. ForBot(r, getChatAdministrators) /\ ForBot(r, getChatMemberCount)
  BY <1>1, GoodPrograms
<1>3. Members(r) = [getChatAdministrators |-> getChatAdministrators,
                    getChatMemberCount |-> getChatMemberCount]
  BY DEF Members, fullChat, getChatAdministrators, getChatMemberCount
<1> QED
  BY <1>2, <1>3
     DEF AllGood, ForBot, AboutConnection, MayActForAccount

LEMMA ModerationGood ==
  ASSUME NEW r
  PROVE  AllGood(r, Moderation(r))
<1> DEFINE ban == Peer(r) \o Channel(r) \o Set("channels.editBanned")
           promoteChatMember == Peer(r) \o Channel(r) \o Set("channels.editAdmin")
<1>1. /\ Program("bot", ban)
      /\ Program("bot", promoteChatMember)
  BY Pieces, Calls, Joins
<1> HIDE DEF ban, promoteChatMember
<1>2. ForBot(r, ban) /\ ForBot(r, promoteChatMember)
  BY <1>1, GoodPrograms
<1>3. Moderation(r) = [banChatMember |-> ban, unbanChatMember |-> ban,
                       restrictChatMember |-> ban, promoteChatMember |-> promoteChatMember]
  BY DEF Moderation, ban, promoteChatMember
<1> QED
  BY <1>2, <1>3
     DEF AllGood, ForBot, AboutConnection, MayActForAccount

LEMMA AdministrationGood ==
  ASSUME NEW r
  PROVE  AllGood(r, Administration(r))
<1> DEFINE banSender == Peer(r) \o Channel(r) \o Check("sender_chat_id") \o
                        Set("channels.editBanned")
           setChatAdministratorCustomTitle == Peer(r) \o Channel(r) \o
                                              Read("channels.getParticipant") \o
                                              Want("administrator") \o
                                              Set("channels.editAdmin")
           setChatPermissions == Peer(r) \o Set("messages.editChatDefaultBannedRights")
<1>1. /\ Program("bot", setChatAdministratorCustomTitle)
      /\ Program("bot", banSender)
      /\ Program("bot", setChatPermissions)
  BY Pieces, Calls, Joins
<1> HIDE DEF banSender, setChatAdministratorCustomTitle, setChatPermissions
<1>2. /\ ForBot(r, setChatAdministratorCustomTitle) /\ ForBot(r, banSender)
      /\ ForBot(r, setChatPermissions)
  BY <1>1, GoodPrograms
<1>3. Administration(r) = [setChatAdministratorCustomTitle |-> setChatAdministratorCustomTitle,
                           banChatSenderChat |-> banSender,
                           unbanChatSenderChat |-> banSender,
                           setChatPermissions |-> setChatPermissions]
  BY DEF Administration, banSender, setChatAdministratorCustomTitle, setChatPermissions
<1> QED
  BY <1>2, <1>3
     DEF AllGood, ForBot, AboutConnection, MayActForAccount

LEMMA InviteLinksGood ==
  ASSUME NEW r
  PROVE  AllGood(r, InviteLinks(r))
<1> DEFINE new == Peer(r) \o Make("messages.exportChatInvite") \o Want("invite")
           edit == Peer(r) \o Set("messages.editExportedChatInvite") \o Want("invite")
           approveChatJoinRequest == HideChatJoinRequest(r)
<1>1. /\ Program("bot", new)
      /\ Program("bot", edit)
      /\ Program("bot", approveChatJoinRequest)
  BY Pieces, Calls, HelperPieces, Joins
<1> HIDE DEF new, edit, approveChatJoinRequest
<1>2. ForBot(r, new) /\ ForBot(r, edit) /\ ForBot(r, approveChatJoinRequest)
  BY <1>1, GoodPrograms
<1>3. InviteLinks(r) = [exportChatInviteLink |-> new, createChatInviteLink |-> new,
                        createChatSubscriptionInviteLink |-> new,
                        editChatSubscriptionInviteLink |-> edit,
                        editChatInviteLink |-> edit, revokeChatInviteLink |-> edit,
                        approveChatJoinRequest |-> approveChatJoinRequest,
                        declineChatJoinRequest |-> approveChatJoinRequest]
  BY DEF InviteLinks, new, edit, approveChatJoinRequest
<1> QED
  BY <1>2, <1>3
     DEF AllGood, ForBot, AboutConnection, MayActForAccount

LEMMA ChatProfileGood ==
  ASSUME NEW r
  PROVE  AllGood(r, ChatProfile(r))
<1> DEFINE photo == OfParts(Set("channels.editPhoto"))
           setChatPhoto == Peer(r) \o Channel(r) \o Either(r.source = "bytes" \/ IsURL(r),
                           Upload("photo") \o photo, Refuse("photo upload is required"))
           deleteChatPhoto == Peer(r) \o Channel(r) \o Set("channels.editPhoto")
           setChatTitle == ByChat(r, Refuse("private chat"), Set("messages.editChatTitle"),
                           Set("channels.editTitle"))
           setChatDescription == Peer(r) \o Set("messages.editChatAbout")
           setChatMenuButton == Check("menu_button") \o Set("bots.setBotMenuButton")
           getChatMenuButton == Read("bots.getBotMenuButton") \o Want("button")
<1>1. /\ Program("bot", setChatPhoto)
      /\ Program("bot", deleteChatPhoto)
      /\ Program("bot", setChatTitle)
      /\ Program("bot", setChatDescription)
      /\ Program("bot", setChatMenuButton)
      /\ Program("bot", getChatMenuButton)
  BY Pieces, Calls, Joins, BotByChat DEF Either
<1> HIDE DEF photo, setChatPhoto, deleteChatPhoto, setChatTitle, setChatDescription,
             setChatMenuButton, getChatMenuButton
<1>2. /\ ForBot(r, setChatPhoto) /\ ForBot(r, deleteChatPhoto) /\ ForBot(r, setChatTitle)
      /\ ForBot(r, setChatDescription) /\ ForBot(r, setChatMenuButton)
      /\ ForBot(r, getChatMenuButton)
  BY <1>1, GoodPrograms
<1>3. ChatProfile(r) = [setChatPhoto |-> setChatPhoto, deleteChatPhoto |-> deleteChatPhoto,
                        setChatTitle |-> setChatTitle,
                        setChatDescription |-> setChatDescription,
                        setChatMenuButton |-> setChatMenuButton,
                        getChatMenuButton |-> getChatMenuButton]
  BY DEF ChatProfile, photo, setChatPhoto, deleteChatPhoto, setChatTitle,
     setChatDescription, setChatMenuButton, getChatMenuButton
<1> QED
  BY <1>2, <1>3
     DEF AllGood, ForBot, AboutConnection, MayActForAccount

LEMMA BotProfileGood ==
  ASSUME NEW r
  PROVE  AllGood(r, BotProfile)
<1> DEFINE setInfo == Set("bots.setBotInfo")
           getInfo == Read("bots.getBotInfo")
           setMyDefaultAdministratorRights == Set("bots.setBotDefaultAdminRights")
           getMyDefaultAdministratorRights == Read("users.getFullUser")
           getMyCommands == Read("bots.getBotCommands")
           deleteMyCommands == Set("bots.resetBotCommands")
           setUserEmojiStatus == Check("custom_emoji_id") \o
                                 Set("bots.updateUserEmojiStatus")
<1>1. /\ Program("bot", setMyDefaultAdministratorRights)
      /\ Program("bot", getMyDefaultAdministratorRights)
      /\ Program("bot", getMyCommands)
      /\ Program("bot", deleteMyCommands)
      /\ Program("bot", setInfo)
      /\ Program("bot", getInfo)
      /\ Program("bot", setUserEmojiStatus)
  BY Pieces, Calls, Joins
<1> HIDE DEF setInfo, getInfo, setMyDefaultAdministratorRights,
             getMyDefaultAdministratorRights, getMyCommands, deleteMyCommands,
             setUserEmojiStatus
<1>2. /\ ForBot(r, setMyDefaultAdministratorRights)
      /\ ForBot(r, getMyDefaultAdministratorRights) /\ ForBot(r, getMyCommands)
      /\ ForBot(r, deleteMyCommands) /\ ForBot(r, setInfo) /\ ForBot(r, getInfo)
      /\ ForBot(r, setUserEmojiStatus)
  BY <1>1, GoodPrograms
<1>3. BotProfile = [setMyDefaultAdministratorRights |-> setMyDefaultAdministratorRights,
                    getMyDefaultAdministratorRights |-> getMyDefaultAdministratorRights,
                    getMyCommands |-> getMyCommands, deleteMyCommands |-> deleteMyCommands,
                    setMyName |-> setInfo, getMyName |-> getInfo,
                    setMyDescription |-> setInfo, getMyDescription |-> getInfo,
                    setMyShortDescription |-> setInfo, getMyShortDescription |-> getInfo,
                    setUserEmojiStatus |-> setUserEmojiStatus]
  BY DEF BotProfile, setInfo, getInfo, setMyDefaultAdministratorRights,
     getMyDefaultAdministratorRights, getMyCommands, deleteMyCommands, setUserEmojiStatus
<1> QED
  BY <1>2, <1>3
     DEF AllGood, ForBot, AboutConnection, MayActForAccount

LEMMA ForumTopicsGood ==
  ASSUME NEW r
  PROVE  AllGood(r, ForumTopics(r))
<1> DEFINE edit == Peer(r) \o Set("messages.editForumTopic")
           createForumTopic == Peer(r) \o Check("icon_custom_emoji_id") \o
                               Send("messages.createForumTopic") \o Want("message id")
           editForumTopic == Peer(r) \o Check("icon_custom_emoji_id") \o
                             Set("messages.editForumTopic")
           deleteForumTopic == Peer(r) \o Set("messages.deleteTopicHistory")
           unpinAllForumTopicMessages == Peer(r) \o Set("messages.unpinAllMessages")
           editGeneralForumTopic == EditGeneralForumTopic(r)
           getForumTopicIconStickers == Read("messages.getStickerSet") \o Want("stickers")
<1>1. /\ Program("bot", createForumTopic)
      /\ Program("bot", editForumTopic)
      /\ Program("bot", edit)
      /\ Program("bot", deleteForumTopic)
      /\ Program("bot", unpinAllForumTopicMessages)
      /\ Program("bot", editGeneralForumTopic)
      /\ Program("bot", getForumTopicIconStickers)
  BY Pieces, Calls, HelperPieces, Joins
<1> HIDE DEF edit, createForumTopic, editForumTopic, deleteForumTopic,
             unpinAllForumTopicMessages, editGeneralForumTopic, getForumTopicIconStickers
<1>2. /\ ForBot(r, createForumTopic) /\ ForBot(r, editForumTopic) /\ ForBot(r, edit)
      /\ ForBot(r, deleteForumTopic) /\ ForBot(r, unpinAllForumTopicMessages)
      /\ ForBot(r, editGeneralForumTopic) /\ ForBot(r, getForumTopicIconStickers)
  BY <1>1, GoodPrograms
<1>3. ForumTopics(r) = [createForumTopic |-> createForumTopic,
                        editForumTopic |-> editForumTopic, closeForumTopic |-> edit,
                        reopenForumTopic |-> edit, deleteForumTopic |-> deleteForumTopic,
                        unpinAllForumTopicMessages |-> unpinAllForumTopicMessages,
                        editGeneralForumTopic |-> editGeneralForumTopic,
                        closeGeneralForumTopic |-> editGeneralForumTopic,
                        reopenGeneralForumTopic |-> editGeneralForumTopic,
                        hideGeneralForumTopic |-> editGeneralForumTopic,
                        unhideGeneralForumTopic |-> editGeneralForumTopic,
                        unpinAllGeneralForumTopicMessages |-> unpinAllForumTopicMessages,
                        getForumTopicIconStickers |-> getForumTopicIconStickers]
  BY DEF ForumTopics, edit, createForumTopic, editForumTopic, deleteForumTopic,
     unpinAllForumTopicMessages, editGeneralForumTopic, getForumTopicIconStickers
<1> QED
  BY <1>2, <1>3
     DEF AllGood, ForBot, AboutConnection, MayActForAccount

LEMMA InlineAnswersGood ==
  ASSUME NEW r
  PROVE  AllGood(r, InlineAnswers(r))
<1> DEFINE stickers == Peer(r) \o Channel(r) \o Set("channels.setStickers")
           answerInlineQuery == Check("inline_query_id") \o Check("results") \o
                                Set("messages.setInlineBotResults")
           answerWebAppQuery == Check("result") \o
                                Send("messages.sendWebViewResultMessage") \o
                                Want("inline_message_id")
           savePreparedInlineMessage == Check("result") \o
                                        Make("messages.savePreparedInlineMessage")
<1>1. /\ Program("bot", stickers)
      /\ Program("bot", answerInlineQuery)
      /\ Program("bot", answerWebAppQuery)
      /\ Program("bot", savePreparedInlineMessage)
  BY Pieces, Calls, Joins
<1> HIDE DEF stickers, answerInlineQuery, answerWebAppQuery, savePreparedInlineMessage
<1>2. /\ ForBot(r, stickers) /\ ForBot(r, answerInlineQuery) /\ ForBot(r, answerWebAppQuery)
      /\ ForBot(r, savePreparedInlineMessage)
  BY <1>1, GoodPrograms
<1>3. InlineAnswers(r) = [setChatStickerSet |-> stickers, deleteChatStickerSet |-> stickers,
                          answerInlineQuery |-> answerInlineQuery,
                          answerWebAppQuery |-> answerWebAppQuery,
                          savePreparedInlineMessage |-> savePreparedInlineMessage]
  BY DEF InlineAnswers, stickers, answerInlineQuery, answerWebAppQuery,
     savePreparedInlineMessage
<1> QED
  BY <1>2, <1>3
     DEF AllGood, ForBot, AboutConnection, MayActForAccount

LEMMA InvoicesGood ==
  ASSUME NEW r
  PROVE  AllGood(r, Invoices(r))
<1> DEFINE export == Make("payments.exportInvoice")
           sendInvoice == Peer(r) \o Check("prices") \o Check("reply_markup") \o
                          Send("messages.sendMedia")
           createInvoiceLink == Check("prices") \o Route(r, export)
           answerShippingQuery == Check("shipping_query_id") \o Check("shipping_options") \o
                                  Set("messages.setBotShippingResults")
<1>1. /\ Program("bot", sendInvoice)
      /\ Program("bot", answerShippingQuery)
  BY Pieces, Calls, Joins
<1>2. Program(Account(r), createInvoiceLink)
  BY AccountModes, Pieces, Routed, Joins
<1> HIDE DEF export, sendInvoice, createInvoiceLink, answerShippingQuery
<1>3. /\ ForBot(r, sendInvoice) /\ ForAccount(r, createInvoiceLink)
      /\ ForBot(r, answerShippingQuery)
  BY <1>1, <1>2, GoodPrograms
<1>4. Invoices(r) = [sendInvoice |-> sendInvoice, createInvoiceLink |-> createInvoiceLink,
                     answerShippingQuery |-> answerShippingQuery]
  BY DEF Invoices, export, sendInvoice, createInvoiceLink, answerShippingQuery
<1> QED
  BY <1>3, <1>4
     DEF AllGood, ForAccount, ForBot, AboutConnection, MayActForAccount

LEMMA StarsGood ==
  ASSUME NEW r
  PROVE  AllGood(r, Stars)
<1> DEFINE refundStarPayment == Set("payments.refundStarsCharge")
           getStarTransactions == Read("payments.getStarsTransactions")
           getAvailableGifts == Read("payments.getStarGifts") \o Want("gifts")
<1>1. /\ Program("bot", refundStarPayment)
      /\ Program("bot", getStarTransactions)
      /\ Program("bot", getAvailableGifts)
  BY Pieces, Calls, Joins
<1> HIDE DEF refundStarPayment, getStarTransactions, getAvailableGifts
<1>2. /\ ForBot(r, refundStarPayment) /\ ForBot(r, getStarTransactions)
      /\ ForBot(r, getAvailableGifts)
  BY <1>1, GoodPrograms
<1>3. Stars = [refundStarPayment |-> refundStarPayment,
               getStarTransactions |-> getStarTransactions,
               getAvailableGifts |-> getAvailableGifts]
  BY DEF Stars, refundStarPayment, getStarTransactions, getAvailableGifts
<1> QED
  BY <1>2, <1>3
     DEF AllGood, ForBot, AboutConnection, MayActForAccount

LEMMA VerificationGood ==
  ASSUME NEW r
  PROVE  AllGood(r, Verification(r))
<1> DEFINE chat == Peer(r) \o Set("bots.setCustomVerification")
           user == Set("bots.setCustomVerification")
           sendGift == Check("gift_id") \o Read("payments.getPaymentForm") \o
                       Send("payments.sendStarsForm")
<1>1. /\ Program("bot", sendGift)
      /\ Program("bot", user)
      /\ Program("bot", chat)
  BY Pieces, Calls, Joins
<1> HIDE DEF chat, user, sendGift
<1>2. ForBot(r, sendGift) /\ ForBot(r, user) /\ ForBot(r, chat)
  BY <1>1, GoodPrograms
<1>3. Verification(r) = [sendGift |-> sendGift, verifyUser |-> user,
                         removeUserVerification |-> user, verifyChat |-> chat,
                         removeChatVerification |-> chat]
  BY DEF Verification, chat, user, sendGift
<1> QED
  BY <1>2, <1>3
     DEF AllGood, ForBot, AboutConnection, MayActForAccount

LEMMA StickerSetsGood ==
  ASSUME NEW r
  PROVE  AllGood(r, StickerSets)
<1> DEFINE getStickerSet == Read("messages.getStickerSet") \o Want("set")
           getCustomEmojiStickers == Check("custom_emoji_ids") \o
                                     Read("messages.getCustomEmojiDocuments")
           uploadStickerFile == UploadStickerDocument
           createNewStickerSet == Check("stickers") \o Make("stickers.createStickerSet")
           addStickerToSet == Check("sticker") \o Make("stickers.addStickerToSet")
           setStickerPositionInSet == Check("sticker") \o
                                      Set("stickers.changeStickerPosition")
           deleteStickerFromSet == Check("sticker") \o Set("stickers.removeStickerFromSet")
           replaceStickerInSet == Check("old_sticker") \o Check("sticker") \o
                                  Set("stickers.replaceSticker")
           setStickerEmojiList == Check("sticker") \o Set("stickers.changeSticker")
<1>1. /\ Program("bot", getStickerSet)
      /\ Program("bot", getCustomEmojiStickers)
      /\ Program("bot", uploadStickerFile)
      /\ Program("bot", createNewStickerSet)
      /\ Program("bot", addStickerToSet)
      /\ Program("bot", setStickerPositionInSet)
      /\ Program("bot", deleteStickerFromSet)
      /\ Program("bot", replaceStickerInSet)
      /\ Program("bot", setStickerEmojiList)
  BY Pieces, Calls, HelperPieces, Joins
<1> HIDE DEF getStickerSet, getCustomEmojiStickers, uploadStickerFile, createNewStickerSet,
             addStickerToSet, setStickerPositionInSet, deleteStickerFromSet,
             replaceStickerInSet, setStickerEmojiList
<1>2. /\ ForBot(r, getStickerSet) /\ ForBot(r, getCustomEmojiStickers)
      /\ ForBot(r, uploadStickerFile) /\ ForBot(r, createNewStickerSet)
      /\ ForBot(r, addStickerToSet) /\ ForBot(r, setStickerPositionInSet)
      /\ ForBot(r, deleteStickerFromSet) /\ ForBot(r, replaceStickerInSet)
      /\ ForBot(r, setStickerEmojiList)
  BY <1>1, GoodPrograms
<1>3. StickerSets = [getStickerSet |-> getStickerSet,
                     getCustomEmojiStickers |-> getCustomEmojiStickers,
                     uploadStickerFile |-> uploadStickerFile,
                     createNewStickerSet |-> createNewStickerSet,
                     addStickerToSet |-> addStickerToSet,
                     setStickerPositionInSet |-> setStickerPositionInSet,
                     deleteStickerFromSet |-> deleteStickerFromSet,
                     replaceStickerInSet |-> replaceStickerInSet,
                     setStickerEmojiList |-> setStickerEmojiList]
  BY DEF StickerSets, getStickerSet, getCustomEmojiStickers, uploadStickerFile,
     createNewStickerSet, addStickerToSet, setStickerPositionInSet, deleteStickerFromSet,
     replaceStickerInSet, setStickerEmojiList
<1> QED
  BY <1>2, <1>3
     DEF AllGood, ForBot, AboutConnection, MayActForAccount

LEMMA StickerChangesGood ==
  ASSUME NEW r
  PROVE  AllGood(r, StickerChanges(r))
<1> DEFINE change == Check("sticker") \o Set("stickers.changeSticker")
           thumbnail == Set("stickers.setStickerSetThumb")
           setStickerSetTitle == Set("stickers.renameStickerSet")
           setStickerSetThumbnail == Either(r.source = "bytes", UploadStickerDocument,
                                     Check("thumbnail")) \o thumbnail
           setCustomEmojiStickerSetThumbnail == Check("custom_emoji_id") \o thumbnail
           deleteStickerSet == Set("stickers.deleteStickerSet")
<1>1. /\ Program("bot", change)
      /\ Program("bot", setStickerSetTitle)
      /\ Program("bot", setStickerSetThumbnail)
      /\ Program("bot", setCustomEmojiStickerSetThumbnail)
      /\ Program("bot", deleteStickerSet)
  BY Pieces, Calls, HelperPieces, Joins DEF Either
<1> HIDE DEF change, thumbnail, setStickerSetTitle, setStickerSetThumbnail,
             setCustomEmojiStickerSetThumbnail, deleteStickerSet
<1>2. /\ ForBot(r, change) /\ ForBot(r, setStickerSetTitle)
      /\ ForBot(r, setStickerSetThumbnail) /\ ForBot(r, setCustomEmojiStickerSetThumbnail)
      /\ ForBot(r, deleteStickerSet)
  BY <1>1, GoodPrograms
<1>3. StickerChanges(r) = [setStickerKeywords |-> change, setStickerMaskPosition |-> change,
                           setStickerSetTitle |-> setStickerSetTitle,
                           setStickerSetThumbnail |-> setStickerSetThumbnail,
                           setCustomEmojiStickerSetThumbnail |-> setCustomEmojiStickerSetThumbnail,
                           deleteStickerSet |-> deleteStickerSet]
  BY DEF StickerChanges, change, thumbnail, setStickerSetTitle, setStickerSetThumbnail,
     setCustomEmojiStickerSetThumbnail, deleteStickerSet
<1> QED
  BY <1>2, <1>3
     DEF AllGood, ForBot, AboutConnection, MayActForAccount

LEMMA BotItselfGood ==
  ASSUME NEW r
  PROVE  AllGood(r, BotItself(r))
<1> DEFINE react == Peer(r) \o Set("messages.sendReaction")
           getUserChatBoosts == Peer(r) \o Read("premium.getUserBoosts")
           readBusinessConnection == Read("account.getBotBusinessConnection")
           logOut == Set("auth.logOut")
           setMyProfilePhoto == Check("photo") \o Upload("photo") \o
                                OfParts(Set("photos.uploadProfilePhoto"))
           removeMyProfilePhoto == Set("photos.updateProfilePhoto")
           getMyStarBalance == Read("payments.getStarsStatus")
           setChatMemberTag == Peer(r) \o Channel(r) \o Set("channels.editAdmin")
<1>1. /\ Program("bot", getUserChatBoosts)
      /\ Program("bot", logOut)
      /\ Program("bot", setMyProfilePhoto)
      /\ Program("bot", removeMyProfilePhoto)
      /\ Program("bot", getMyStarBalance)
      /\ Program("bot", react)
      /\ Program("bot", setChatMemberTag)
  BY Pieces, Calls, Joins
<1>0. Program("business", readBusinessConnection)
  <2>1. "business" \in Modes
    BY DEF Modes
  <2> QED
    BY <2>1, LocalPieces, PreludePrograms
<1> HIDE DEF react, getUserChatBoosts, readBusinessConnection, logOut, setMyProfilePhoto,
             removeMyProfilePhoto, getMyStarBalance, setChatMemberTag
<1>2. /\ ForBot(r, getUserChatBoosts) /\ ForConnection(r, readBusinessConnection)
      /\ ForBot(r, logOut) /\ ForBot(r, setMyProfilePhoto) /\ ForBot(r, removeMyProfilePhoto)
      /\ ForBot(r, getMyStarBalance) /\ ForBot(r, react) /\ ForBot(r, setChatMemberTag)
  BY <1>0, <1>1, GoodPrograms
<1>3. BotItself(r) = [getUserChatBoosts |-> getUserChatBoosts,
                      readBusinessConnection |-> readBusinessConnection, logOut |-> logOut,
                      setMyProfilePhoto |-> setMyProfilePhoto,
                      removeMyProfilePhoto |-> removeMyProfilePhoto,
                      getMyStarBalance |-> getMyStarBalance,
                      deleteMessageReaction |-> react, deleteAllMessageReactions |-> react,
                      setChatMemberTag |-> setChatMemberTag]
  BY DEF BotItself, react, getUserChatBoosts, readBusinessConnection, logOut,
     setMyProfilePhoto, removeMyProfilePhoto, getMyStarBalance, setChatMemberTag
<1> QED
  BY <1>2, <1>3
     DEF AllGood, ForBot, ForConnection, AboutConnection, MayActForAccount

LEMMA GuestQueriesGood ==
  ASSUME NEW r
  PROVE  AllGood(r, GuestQueries)
<1> DEFINE getUserProfileAudios == Read("users.getSavedMusic")
           answerChatJoinRequestQuery == Check("result") \o Set("bots.setJoinChatResults")
           sendChatJoinRequestWebApp == Check("web_app_url") \o
                                        Set("bots.setJoinChatResults")
           answerCustomQuery == Check("custom_query_id") \o
                                Set("bots.answerWebhookJSONQuery")
           sendCustomRequest == Check("method") \o Make("bots.sendCustomRequest")
           answerGuestQuery == Check("result") \o Set("messages.setBotGuestChatResult") \o
                               Want("inline_message_id")
<1>1. /\ Program("bot", getUserProfileAudios)
      /\ Program("bot", answerChatJoinRequestQuery)
      /\ Program("bot", sendChatJoinRequestWebApp)
      /\ Program("bot", answerCustomQuery)
      /\ Program("bot", sendCustomRequest)
      /\ Program("bot", answerGuestQuery)
  BY Pieces, Calls, Joins
<1> HIDE DEF getUserProfileAudios, answerChatJoinRequestQuery, sendChatJoinRequestWebApp,
             answerCustomQuery, sendCustomRequest, answerGuestQuery
<1>2. /\ ForBot(r, getUserProfileAudios) /\ ForBot(r, answerChatJoinRequestQuery)
      /\ ForBot(r, sendChatJoinRequestWebApp) /\ ForBot(r, answerCustomQuery)
      /\ ForBot(r, sendCustomRequest) /\ ForBot(r, answerGuestQuery)
  BY <1>1, GoodPrograms
<1>3. GuestQueries = [getUserProfileAudios |-> getUserProfileAudios,
                      answerChatJoinRequestQuery |-> answerChatJoinRequestQuery,
                      sendChatJoinRequestWebApp |-> sendChatJoinRequestWebApp,
                      answerCustomQuery |-> answerCustomQuery,
                      sendCustomRequest |-> sendCustomRequest,
                      answerGuestQuery |-> answerGuestQuery]
  BY DEF GuestQueries, getUserProfileAudios, answerChatJoinRequestQuery,
     sendChatJoinRequestWebApp, answerCustomQuery, sendCustomRequest, answerGuestQuery
<1> QED
  BY <1>2, <1>3
     DEF AllGood, ForBot, AboutConnection, MayActForAccount

LEMMA ManagedBotsGood ==
  ASSUME NEW r
  PROVE  AllGood(r, ManagedBots)
<1> DEFINE getManagedBotToken == Read("bots.exportBotToken")
           getManagedBotAccessSettings == Read("bots.getAccessSettings")
           setManagedBotAccessSettings == Check("added_user_ids") \o
                                          Set("bots.editAccessSettings")
           replaceManagedBotToken == Make("bots.exportBotToken")
           getUserPersonalChatMessages == Read("messages.getHistory")
           editUserStarSubscription == Set("payments.changeStarsSubscription")
<1>1. /\ Program("bot", getManagedBotToken)
      /\ Program("bot", getManagedBotAccessSettings)
      /\ Program("bot", setManagedBotAccessSettings)
      /\ Program("bot", replaceManagedBotToken)
      /\ Program("bot", getUserPersonalChatMessages)
      /\ Program("bot", editUserStarSubscription)
  BY Pieces, Calls, Joins
<1> HIDE DEF getManagedBotToken, getManagedBotAccessSettings, setManagedBotAccessSettings,
             replaceManagedBotToken, getUserPersonalChatMessages, editUserStarSubscription
<1>2. /\ ForBot(r, getManagedBotToken) /\ ForBot(r, getManagedBotAccessSettings)
      /\ ForBot(r, setManagedBotAccessSettings) /\ ForBot(r, replaceManagedBotToken)
      /\ ForBot(r, getUserPersonalChatMessages) /\ ForBot(r, editUserStarSubscription)
  BY <1>1, GoodPrograms
<1>3. ManagedBots = [getManagedBotToken |-> getManagedBotToken,
                     getManagedBotAccessSettings |-> getManagedBotAccessSettings,
                     setManagedBotAccessSettings |-> setManagedBotAccessSettings,
                     replaceManagedBotToken |-> replaceManagedBotToken,
                     getUserPersonalChatMessages |-> getUserPersonalChatMessages,
                     editUserStarSubscription |-> editUserStarSubscription]
  BY DEF ManagedBots, getManagedBotToken, getManagedBotAccessSettings,
     setManagedBotAccessSettings, replaceManagedBotToken, getUserPersonalChatMessages,
     editUserStarSubscription
<1> QED
  BY <1>2, <1>3
     DEF AllGood, ForBot, AboutConnection, MayActForAccount

LEMMA StoriesAndDraftsGood ==
  ASSUME NEW r
  PROVE  AllGood(r, StoriesAndDrafts(r))
<1> DEFINE repostStory == Lookup \o Check("from_chat_id") \o
                          Direct(Send("stories.sendStory")) \o Want("story id")
           editStory == Lookup \o Direct(Set("stories.editStory"))
           savePreparedKeyboardButton == Check("button") \o
                                         Make("bots.requestWebViewButton")
           sendLivePhoto == SendPhoto(r)
           sendMessageDraft == Peer(r) \o Set("messages.saveDraft")
<1>1. /\ Program("business", repostStory)
      /\ Program("business", editStory)
  <2>1. "stories.sendStory" \in Unwrapped /\ "stories.editStory" \in Unwrapped
    BY DEF Unwrapped
  <2> QED
    BY <2>1, Pieces, Calls, LookupPieces, Joins
<1>2. /\ Program("bot", savePreparedKeyboardButton)
      /\ Program("bot", sendMessageDraft)
  BY Pieces, Calls, Joins
<1>3. Program(Account(r), sendLivePhoto)
  BY AccountModes, Pieces, Routed, Joins, HelperPieces
<1> HIDE DEF repostStory, editStory, savePreparedKeyboardButton, sendLivePhoto,
             sendMessageDraft
<1>4. /\ ForConnection(r, repostStory) /\ ForConnection(r, editStory)
      /\ ForBot(r, savePreparedKeyboardButton) /\ ForAccount(r, sendLivePhoto)
      /\ ForBot(r, sendMessageDraft)
  BY <1>1, <1>2, <1>3, GoodPrograms
<1>5. StoriesAndDrafts(r) = [repostStory |-> repostStory, editStory |-> editStory,
                             savePreparedKeyboardButton |-> savePreparedKeyboardButton,
                             sendLivePhoto |-> sendLivePhoto,
                             sendMessageDraft |-> sendMessageDraft]
  BY DEF StoriesAndDrafts, repostStory, editStory, savePreparedKeyboardButton,
     sendLivePhoto, sendMessageDraft
<1> QED
  BY <1>4, <1>5
     DEF AllGood, ForAccount, ForBot, ForConnection, AboutConnection, MayActForAccount

LEMMA SavedGiftsGood ==
  ASSUME NEW r
  PROVE  AllGood(r, SavedGifts(r))
<1> DEFINE saved == Read("payments.getSavedStarGifts")
           getChatGifts == Peer(r) \o saved
           getBusinessAccountGifts == Lookup \o Business(saved)
<1>1. /\ Program("bot", getChatGifts)
      /\ Program("bot", saved)
  BY Pieces, Calls, Joins
<1>2. Program("business", getBusinessAccountGifts)
  BY Pieces, Calls, LookupPieces, Joins
<1> HIDE DEF saved, getChatGifts, getBusinessAccountGifts
<1>3. /\ ForBot(r, getChatGifts) /\ ForBot(r, saved)
      /\ ForConnection(r, getBusinessAccountGifts)
  BY <1>1, <1>2, GoodPrograms
<1>4. SavedGifts(r) = [getChatGifts |-> getChatGifts, getUserGifts |-> saved,
                       getBusinessAccountGifts |-> getBusinessAccountGifts]
  BY DEF SavedGifts, saved, getChatGifts, getBusinessAccountGifts
<1> QED
  BY <1>3, <1>4
     DEF AllGood, ForBot, ForConnection, AboutConnection, MayActForAccount

LEMMA ChecklistsGood ==
  ASSUME NEW r
  PROVE  AllGood(r, Checklists(r))
<1> DEFINE sendChecklist == Check("checklist") \o Peer(r) \o Check("reply_markup") \o
                            Route(r, Send("messages.sendMedia"))
           editMessageChecklist == Check("checklist") \o Peer(r) \o Check("reply_markup") \o
                                   Route(r, Set("messages.editMessage"))
<1>1. /\ Program(Account(r), sendChecklist)
      /\ Program(Account(r), editMessageChecklist)
  BY AccountModes, Pieces, Routed, Joins
<1> HIDE DEF sendChecklist, editMessageChecklist
<1>2. ForAccount(r, sendChecklist) /\ ForAccount(r, editMessageChecklist)
  BY <1>1, GoodPrograms
<1>3. Checklists(r) = [sendChecklist |-> sendChecklist,
                       editMessageChecklist |-> editMessageChecklist]
  BY DEF Checklists, sendChecklist, editMessageChecklist
<1> QED
  BY <1>2, <1>3
     DEF AllGood, ForAccount, AboutConnection, MayActForAccount

LEMMA ForwardingGood ==
  ASSUME NEW r
  PROVE  AllGood(r, Forwarding(r))
<1> DEFINE forward == Peer(r) \o Check("from_chat_id") \o Send("messages.forwardMessages")
           one == forward \o Want("message id")
           many == forward \o Forwarded(r)
<1>1. Program("bot", forward)
  BY Pieces, Calls, Joins
<1>2. Coda("bot", Forwarded(r))
  <2>1. "bot" \in Modes /\ "without message ids" \in Excused
    BY DEF Modes, Excused
  <2> QED
    BY <2>1, LocalPieces DEF Forwarded, Either
<1> HIDE DEF forward
<1>3. Program("bot", one) /\ Program("bot", many)
  BY <1>1, <1>2, Pieces, Joins
<1> HIDE DEF one, many
<1>4. ForBot(r, one) /\ ForBot(r, many)
  BY <1>3, GoodPrograms
<1>5. Forwarding(r) = [forwardMessage |-> one, forwardMessages |-> many, copyMessages |-> many]
  BY DEF Forwarding, forward, one, many
<1> QED
  BY <1>4, <1>5
     DEF AllGood, ForBot, AboutConnection, MayActForAccount

LEMMA PlacesGood ==
  ASSUME NEW r
  PROVE  AllGood(r, Places(r))
<1> DEFINE send == Peer(r) \o SendMediaMessage(r)
           edit == Either(r.inline, Nothing, Peer(r)) \o EditMediaMessage(r)
<1>1. Program(Account(r), send)
  BY AccountModes, Pieces, Joins, HelperPieces
<1>2. ASSUME NEW x \in {"editMessageLiveLocation", "stopMessageLiveLocation"}
      PROVE  Good(x, r, edit)
  <2>1. x \in MayActForAccount /\ x \notin AboutConnection
    BY <1>2 DEF MayActForAccount, AboutConnection
  <2>2. CASE r.inline
    <3>1. PICK m \in Modes : m = Either(r.business, "inline", "bot")
      BY DEF Modes, Either
    <3>2. Program(m, Set("messages.editInlineBotMessage"))
      BY <3>1, Calls, IgnoringCalls DEF Either
    <3>3. Prelude(m, Check("inline_message_id")) /\ Prelude(m, Check("reply_markup"))
          /\ Prelude(m, Nothing)
      BY LocalPieces, NothingPieces
    <3>4. Program(m, edit)
      <4>1. PICK p : p = Check("inline_message_id") \o Set("messages.editInlineBotMessage")
        OBVIOUS
      <4>2. Program(m, p)
        BY <3>2, <3>3, <4>1, Joins
      <4>3. edit = Nothing \o (Check("reply_markup") \o p)
        BY <2>2, <4>1 DEF EditMediaMessage, Either
      <4>4. Program(m, Check("reply_markup") \o p)
        BY <3>3, <4>2, Joins
      <4> QED
        BY <3>3, <4>3, <4>4, Joins
    <3>5. Suits(m, x, NamesConnection(x, r))
      BY <1>2, <2>1, <3>1 DEF Suits, NamesConnection, Either
    <3> QED
      BY <3>4, <3>5 DEF Good
  <2>3. CASE ~r.inline
    <3>1. Program(Account(r), edit)
      BY <2>3, AccountModes, Pieces, Routed, Joins DEF EditMediaMessage, Either
    <3> QED
      BY <2>1, <3>1, GoodPrograms DEF ForAccount
  <2> QED
    BY <2>2, <2>3
<1> HIDE DEF send, edit
<1>3. ForAccount(r, send)
  BY <1>1, GoodPrograms
<1>4. Places(r) = [sendLocation |-> send, editMessageLiveLocation |-> edit,
                   stopMessageLiveLocation |-> edit, sendVenue |-> send, sendContact |-> send]
  BY DEF Places, send, edit
<1> QED
  BY <1>2, <1>3, <1>4
     DEF AllGood, ForAccount, AboutConnection, MayActForAccount

LEMMA PollsGood ==
  ASSUME NEW r
  PROVE  AllGood(r, Polls(r))
<1> DEFINE close == Check("reply_markup") \o Set("messages.editMessage")
           ofBot == ByChat(r, Read("messages.getMessages") \o Want("poll") \o close,
                              Read("messages.getMessages") \o Want("poll") \o close,
                              Read("channels.getMessages") \o Refuse("poll message not found"))
           forBusiness == Peer(r) \o Check("reply_markup") \o
                         Business(Set("messages.editMessage")) \o Want("poll")
           send == Peer(r) \o Check("options") \o SendMediaMessage(r)
           stop == Either(r.business, forBusiness, ofBot)
<1>1. Program(Account(r), send)
  BY AccountModes, Pieces, Joins, HelperPieces
<1>2. Program("bot", close)
  BY Pieces, Calls, Joins
<1>3. Program("business", forBusiness)
  BY Pieces, Calls, Joins
<1> HIDE DEF close
<1>4. Program("bot", Read("messages.getMessages") \o Want("poll") \o close)
  BY <1>2, Pieces, Joins
<1>5. Program("bot", Read("channels.getMessages") \o Refuse("poll message not found"))
  BY Pieces, Joins
<1>6. Program("bot", ofBot)
  BY <1>4, <1>5, BotByChat
<1> HIDE DEF ofBot, forBusiness, send
<1>7. Program(Account(r), stop)
  BY <1>3, <1>6 DEF Account, Either
<1>8. ForAccount(r, send) /\ ForAccount(r, stop)
  BY <1>1, <1>7, GoodPrograms
<1> HIDE DEF stop
<1>9. Polls(r) = [sendPoll |-> send, stopPoll |-> stop]
  BY DEF Polls, close, ofBot, forBusiness, send, stop
<1> QED
  BY <1>8, <1>9
     DEF AllGood, ForAccount, AboutConnection, MayActForAccount

LEMMA GamesGood ==
  ASSUME NEW r
  PROVE  AllGood(r, Games(r))
<1> DEFINE send == Peer(r) \o Check("reply_markup") \o Route(r, Send("messages.sendMedia"))
           inlineScore == Check("inline_message_id") \o Set("messages.setInlineGameScore")
           chatScore == Peer(r) \o Set("messages.setGameScore")
           score == Either(r.inline, inlineScore, chatScore)
           inlineScores == Check("inline_message_id") \o Read("messages.getInlineGameHighScores")
           chatScores == Peer(r) \o Read("messages.getGameHighScores")
           scores == Either(r.inline, inlineScores, chatScores)
<1>1. Program(Account(r), send)
  BY AccountModes, Pieces, Routed, Joins
<1>2. /\ Program("bot", inlineScore) /\ Program("bot", chatScore)
      /\ Program("bot", inlineScores) /\ Program("bot", chatScores)
  BY Pieces, Calls, Joins
<1> HIDE DEF send, inlineScore, chatScore, inlineScores, chatScores
<1>3. Program("bot", score) /\ Program("bot", scores)
  BY <1>2 DEF Either
<1> HIDE DEF score, scores
<1>4. ForAccount(r, send) /\ ForBot(r, score) /\ ForBot(r, scores)
  BY <1>1, <1>3, GoodPrograms
<1>5. Games(r) = [sendGame |-> send, setGameScore |-> score, getGameHighScores |-> scores]
  BY DEF Games, send, inlineScore, chatScore, score, inlineScores, chatScores, scores
<1> QED
  BY <1>4, <1>5
     DEF AllGood, ForAccount, ForBot, AboutConnection, MayActForAccount

LEMMA PayStarsProgram ==
  ASSUME NEW r
  PROVE  Program(Account(r), PayStars(r))
  BY AccountModes, Pieces, Routed, Joins DEF PayStars

LEMMA GiftsGood ==
  ASSUME NEW r \in Shapes
  PROVE  AllGood(r, Gifts(r))
<1> DEFINE gift == Check("owned_gift_id")
           orPay(rpc) == Either(r.extra, PayStars(r), Route(r, Set(rpc)))
           convert == gift \o Route(r, Set("payments.convertStarGift"))
           upgrade == Check("star_count") \o gift \o orPay("payments.upgradeStarGift")
           transfer == Check("star_count") \o gift \o Check("new_owner_chat_id") \o
                       orPay("payments.transferStarGift")
           forBusiness == Check("star_count") \o PayStars([r EXCEPT !.business = TRUE])
           ofBot == Check("star_count") \o PayStars([r EXCEPT !.business = FALSE])
<1>1. ASSUME NEW q
      PROVE  Program(Account(q), Check("star_count") \o PayStars(q))
  BY AccountModes, Pieces, PayStarsProgram, Joins
<1>2. Program(Account(r), orPay("payments.upgradeStarGift"))
  BY Routed, PayStarsProgram DEF Either
<1>3. Program(Account(r), orPay("payments.transferStarGift"))
  BY Routed, PayStarsProgram DEF Either
<1>4. Program(Account(r), convert)
  BY AccountModes, Pieces, Routed, Joins
<1> HIDE DEF orPay
<1>5. Program(Account(r), upgrade) /\ Program(Account(r), transfer)
  BY <1>2, <1>3, AccountModes, Pieces, Joins
<1>6. ForConnection(r, forBusiness)
  <2>1. PICK q : q = [r EXCEPT !.business = TRUE]
    OBVIOUS
  <2>2. Account(q) = "business"
    BY <2>1 DEF Shapes, Account, Either
  <2>3. Program("business", Check("star_count") \o PayStars(q))
    BY <1>1, <2>2
  <2> QED
    BY <2>1, <2>3, GoodPrograms
<1>7. ForBot(r, ofBot)
  <2>1. PICK q : q = [r EXCEPT !.business = FALSE]
    OBVIOUS
  <2>2. Account(q) = "bot"
    BY <2>1 DEF Shapes, Account, Either
  <2>3. Program("bot", Check("star_count") \o PayStars(q))
    BY <1>1, <2>2
  <2> QED
    BY <2>1, <2>3, GoodPrograms
<1> HIDE DEF convert, upgrade, transfer, forBusiness, ofBot
<1>8. ForAccount(r, convert) /\ ForAccount(r, upgrade) /\ ForAccount(r, transfer)
  BY <1>4, <1>5, GoodPrograms
<1>9. Gifts(r) = [convertGiftToStars |-> convert, upgradeGift |-> upgrade,
                  transferGift |-> transfer, transferBusinessAccountStars |-> forBusiness,
                  giftPremiumSubscription |-> ofBot]
  BY DEF Gifts, orPay, convert, upgrade, transfer, forBusiness, ofBot
<1> QED
  BY <1>6, <1>7, <1>8, <1>9
     DEF AllGood, ForAccount, ForBot, ForConnection, AboutConnection, MayActForAccount

LEMMA DeletionGood ==
  ASSUME NEW r
  PROVE  AllGood(r, Deletion(r))
<1> DEFINE delete == Set("messages.deleteMessages")
           ofBot == ByChat(r, delete, delete, Set("channels.deleteMessages"))
           forBusiness == Business(Saying(delete))
           one == Either(r.business, forBusiness, ofBot)
           many == Check("message_ids") \o forBusiness
           action == Peer(r) \o Route(r, Set("messages.setTyping"))
<1>1. Program("bot", ofBot)
  BY Calls, BotByChat
<1>2. Program("business", forBusiness) /\ Program("business", many)
  BY Pieces, Calls, Joins
<1>3. Program(Account(r), action)
  BY AccountModes, Pieces, Routed, Joins
<1> HIDE DEF delete, ofBot, forBusiness, many, action
<1>4. Program(Account(r), one)
  BY <1>1, <1>2 DEF Account, Either
<1> HIDE DEF one
<1>5. ForAccount(r, one) /\ ForConnection(r, many) /\ ForAccount(r, action)
  BY <1>2, <1>3, <1>4, GoodPrograms
<1>6. Deletion(r) = [deleteMessage |-> one, deleteBusinessMessages |-> many,
                     sendChatAction |-> action]
  BY DEF Deletion, delete, ofBot, one, forBusiness, many, action
<1> QED
  BY <1>5, <1>6
     DEF AllGood, ForAccount, ForConnection, AboutConnection, MayActForAccount

LEMMA BusinessSettingsGood ==
  ASSUME NEW r
  PROVE  AllGood(r, BusinessSettings(r))
<1> DEFINE approval == Peer(r) \o Set("messages.toggleSuggestedPostApproval")
           stars == Lookup \o Business(Read("payments.getStarsStatus"))
           gifts == Check("accepted_gift_types") \o
                    Business(Set("account.setGlobalPrivacySettings"))
           photo == Check("photo") \o Direct(Saying(Upload("photo"))) \o Check("photo_type") \o
                    Business(OfParts(Set("photos.uploadProfilePhoto")))
<1>1. Program("bot", approval)
  BY Pieces, Calls, Joins
<1>2. Program("business", stars) /\ Program("business", gifts)
  BY Pieces, Calls, LookupPieces, Joins
<1>3. Program("direct", photo)
  <2>1. "direct" \in Modes
    BY DEF Modes
  <2>2. Prelude("direct", Check("photo")) /\ Prelude("direct", Check("photo_type"))
    BY <2>1, LocalPieces
  <2> QED
    BY <2>2, DirectUpload, Calls, Joins
<1> HIDE DEF approval, stars, gifts, photo
<1>4. /\ ForBot(r, approval) /\ ForConnection(r, stars) /\ ForConnection(r, gifts)
      /\ ForConnection(r, photo)
  BY <1>1, <1>2, <1>3, GoodPrograms
<1>5. BusinessSettings(r) =
        [approveSuggestedPost |-> approval, declineSuggestedPost |-> approval,
         getBusinessAccountStarBalance |-> stars, setBusinessAccountGiftSettings |-> gifts,
         setBusinessAccountProfilePhoto |-> photo]
  BY DEF BusinessSettings, approval, stars, gifts, photo
<1> QED
  BY <1>4, <1>5
     DEF AllGood, ForBot, ForConnection, AboutConnection, MayActForAccount

LEMMA RichMessagesGood ==
  ASSUME NEW r
  PROVE  AllGood(r, RichMessages(r))
<1> DEFINE refused == Refuse("needs a newer layer")
           media == Either(r.extra, ResolveInputSingleMedia(r), Nothing)
           send == Peer(r) \o Check("rich_message") \o media \o
                   Check("reply_markup") \o Route(r, Send("messages.sendMessage"))
           delete == Check("receiver_user_id") \o Peer(r) \o Set("ephemeral.deleteMessage")
<1>1. Program("bot", refused) /\ Program("bot", delete)
  BY Pieces, Calls, Joins
<1>2. Prelude(Account(r), media)
  BY AccountModes, Pieces, ResolvePrelude DEF Either
<1> HIDE DEF media
<1>3. Program(Account(r), send)
  BY <1>2, AccountModes, Pieces, Routed, Joins
<1> HIDE DEF refused, send, delete
<1>4. ForBot(r, refused) /\ ForAccount(r, send) /\ ForBot(r, delete)
  BY <1>1, <1>3, GoodPrograms
<1>5. RichMessages(r) =
        [sendRichMessage |-> send, sendRichMessageDraft |-> refused,
         deleteEphemeralMessage |-> delete, editEphemeralMessageText |-> refused,
         editEphemeralMessageMedia |-> refused, editEphemeralMessageCaption |-> refused,
         editEphemeralMessageReplyMarkup |-> refused]
  BY DEF RichMessages, refused, media, send, delete
<1> QED
  BY <1>4, <1>5
     DEF AllGood, ForAccount, ForBot, AboutConnection, MayActForAccount

(* The names of the methods.                                               *)
Within(f, names) == DOMAIN f \subseteq names

LEMMA WithinBoth ==
  ASSUME NEW f, NEW g, NEW names, Within(f ++ g, names)
  PROVE  Within(f, names) /\ Within(g, names)
<1>1. DOMAIN (f ++ g) = DOMAIN f \cup DOMAIN g
  BY TwoTables
<1> QED
  BY <1>1 DEF Within

LEMMA BothWithin ==
  ASSUME NEW f, NEW g, NEW names, Within(f, names), Within(g, names)
  PROVE  Within(f ++ g, names)
<1>1. DOMAIN (f ++ g) = DOMAIN f \cup DOMAIN g
  BY TwoTables
<1> QED
  BY <1>1 DEF Within

LEMMA MethodTables ==
  ASSUME NEW r, NEW names, Within(Methods(r), names)
  PROVE  /\ Within(MessagesAndMedia(r), names) /\ Within(Deletion(r), names)
         /\ Within(Answers(r), names) /\ Within(BusinessAccount(r), names)
         /\ Within(ChatReading(r), names) /\ Within(Forwarding(r), names)
         /\ Within(DeletionAndReactions(r), names) /\ Within(Places(r), names)
         /\ Within(Polls(r), names) /\ Within(DiceAndPins(r), names)
         /\ Within(Members(r), names) /\ Within(Moderation(r), names)
         /\ Within(Administration(r), names) /\ Within(InviteLinks(r), names)
         /\ Within(ChatProfile(r), names) /\ Within(BotProfile, names)
         /\ Within(ForumTopics(r), names) /\ Within(InlineAnswers(r), names)
         /\ Within(Invoices(r), names) /\ Within(Stars, names)
         /\ Within(Verification(r), names) /\ Within(StickerSets, names)
         /\ Within(StickerChanges(r), names) /\ Within(Games(r), names)
         /\ Within(BotItself(r), names) /\ Within(GuestQueries, names)
         /\ Within(BusinessSettings(r), names) /\ Within(ManagedBots, names)
         /\ Within(StoriesAndDrafts(r), names) /\ Within(Gifts(r), names)
         /\ Within(SavedGifts(r), names) /\ Within(Checklists(r), names)
         /\ Within(RichMessages(r), names)
  BY WithinBoth DEF Methods

(* The handlers: what they ask of the parameters changes nothing, and each *)
(* has a method to call.                                                   *)
AlwaysPrelude(f) == \A x \in DOMAIN f : \A m \in Modes : Prelude(m, f[x])

LEMMA HandlerTables ==
  ASSUME NEW methods
  PROVE  /\ DOMAIN Bare(methods) = methods /\ AlwaysPrelude(Bare(methods))
         /\ DOMAIN Bound(methods) = methods /\ AlwaysPrelude(Bound(methods))
         /\ DOMAIN Required(methods) = methods /\ AlwaysPrelude(Required(methods))
<1>1. ASSUME NEW m \in Modes
      PROVE  /\ Prelude(m, Nothing) /\ Prelude(m, Check("payload"))
             /\ Prelude(m, Check("payload") \o Check("required parameters"))
  BY LocalPieces, NothingPieces, Joins
<1> QED
  BY <1>1 DEF Bare, Bound, Required, AlwaysPrelude

LEMMA HandlersJoin ==
  ASSUME NEW f, AlwaysPrelude(f), NEW g, AlwaysPrelude(g)
  PROVE  AlwaysPrelude(f ++ g)
<1>1. PICK h : h = f ++ g
  OBVIOUS
<1>2. /\ DOMAIN (f ++ g) = DOMAIN f \cup DOMAIN g
      /\ \A x \in DOMAIN f : (f ++ g)[x] = f[x]
      /\ \A x \in DOMAIN g : x \in DOMAIN f \/ (f ++ g)[x] = g[x]
  BY TwoTables
<1>3. ASSUME NEW x \in DOMAIN h, NEW m \in Modes
      PROVE  Prelude(m, h[x])
  BY <1>1, <1>2, <1>3 DEF AlwaysPrelude
<1> QED
  BY <1>1, <1>3 DEF AlwaysPrelude

LEMMA HandlerGroups ==
  ASSUME NEW r, NEW names, Within(Methods(r), names)
  PROVE  /\ AlwaysPrelude(MemberHandlers) /\ Within(MemberHandlers, names)
         /\ AlwaysPrelude(InviteHandlers) /\ Within(InviteHandlers, names)
         /\ AlwaysPrelude(ProfileHandlers) /\ Within(ProfileHandlers, names)
         /\ AlwaysPrelude(ForwardHandlers) /\ Within(ForwardHandlers, names)
         /\ AlwaysPrelude(PlaceHandlers) /\ Within(PlaceHandlers, names)
         /\ AlwaysPrelude(CommandHandlers) /\ Within(CommandHandlers, names)
         /\ AlwaysPrelude(TopicHandlers) /\ Within(TopicHandlers, names)
         /\ AlwaysPrelude(GeneralTopicHandlers) /\ Within(GeneralTopicHandlers, names)
         /\ AlwaysPrelude(InlineHandlers) /\ Within(InlineHandlers, names)
         /\ AlwaysPrelude(GiftHandlers) /\ Within(GiftHandlers, names)
         /\ AlwaysPrelude(StickerHandlers) /\ Within(StickerHandlers, names)
         /\ AlwaysPrelude(StickerSetHandlers) /\ Within(StickerSetHandlers, names)
         /\ AlwaysPrelude(GameHandlers) /\ Within(GameHandlers, names)
         /\ AlwaysPrelude(StoryHandlers) /\ Within(StoryHandlers, names)
         /\ AlwaysPrelude(JoinRequestHandlers) /\ Within(JoinRequestHandlers, names)
         /\ AlwaysPrelude(OwnedGiftHandlers) /\ Within(OwnedGiftHandlers, names)
         /\ AlwaysPrelude(ManagedBotHandlers) /\ Within(ManagedBotHandlers, names)
         /\ AlwaysPrelude(DraftHandlers) /\ Within(DraftHandlers, names)
         /\ AlwaysPrelude(RichHandlers) /\ Within(RichHandlers, names)
         /\ AlwaysPrelude(EditHandlers) /\ Within(EditHandlers, names)
         /\ AlwaysPrelude(PhotoHandlers) /\ Within(PhotoHandlers, names)
         /\ AlwaysPrelude(AudioHandlers) /\ Within(AudioHandlers, names)
         /\ AlwaysPrelude(AnimationHandlers) /\ Within(AnimationHandlers, names)
         /\ AlwaysPrelude(AlbumHandlers) /\ Within(AlbumHandlers, names)
         /\ AlwaysPrelude(BusinessHandlers) /\ Within(BusinessHandlers, names)
         /\ AlwaysPrelude(RetryingHandlers) /\ Within(RetryingHandlers, names)
<1>1. ASSUME NEW methods, methods \subseteq names
      PROVE  /\ Within(Bare(methods), names) /\ Within(Bound(methods), names)
             /\ Within(Required(methods), names)
  BY <1>1, HandlerTables DEF Within
<1>2. AlwaysPrelude(MemberHandlers) /\ Within(MemberHandlers, names)
  <2>1. {"getChatAdministrators", "getChatMemberCount", "banChatMember",
         "unbanChatMember", "restrictChatMember", "promoteChatMember",
         "setChatAdministratorCustomTitle"} \subseteq names
    BY MethodTables DEF Within, Members, Moderation, Administration
  <2>2. {"getChat"} \subseteq names
    BY MethodTables DEF Within, ChatReading
  <2> QED
    BY <1>1, <2>1, <2>2, HandlerTables, HandlersJoin, BothWithin DEF MemberHandlers
<1>3. AlwaysPrelude(InviteHandlers) /\ Within(InviteHandlers, names)
  <2>1. {"banChatSenderChat", "unbanChatSenderChat", "setChatPermissions",
         "exportChatInviteLink", "createChatInviteLink", "editChatInviteLink",
         "revokeChatInviteLink", "approveChatJoinRequest"} \subseteq names
    BY MethodTables DEF Within, Administration, InviteLinks
  <2> QED
    BY <1>1, <2>1, HandlerTables, HandlersJoin, BothWithin DEF InviteHandlers
<1>4. AlwaysPrelude(ProfileHandlers) /\ Within(ProfileHandlers, names)
  <2>1. {"declineChatJoinRequest", "setChatPhoto", "deleteChatPhoto",
         "setChatTitle", "setChatDescription", "leaveChat", "setChatMenuButton",
         "getChatMenuButton"} \subseteq names
    BY MethodTables DEF Within, InviteLinks, ChatProfile, DiceAndPins
  <2> QED
    BY <1>1, <2>1, HandlerTables, HandlersJoin, BothWithin DEF ProfileHandlers
<1>5. AlwaysPrelude(ForwardHandlers) /\ Within(ForwardHandlers, names)
  <2>1. {"setMyDefaultAdministratorRights", "getMyDefaultAdministratorRights",
         "forwardMessage", "forwardMessages", "copyMessages", "deleteMessages",
         "setMessageReaction", "sendLocation"} \subseteq names
    BY MethodTables DEF Within, BotProfile, Forwarding, DeletionAndReactions, Places
  <2> QED
    BY <1>1, <2>1, HandlerTables, HandlersJoin, BothWithin DEF ForwardHandlers
<1>6. AlwaysPrelude(PlaceHandlers) /\ Within(PlaceHandlers, names)
  <2>1. {"editMessageLiveLocation", "stopMessageLiveLocation", "sendVenue",
         "sendContact", "sendPoll", "stopPoll", "sendDice", "pinChatMessage"} \subseteq names
    BY MethodTables DEF Within, Places, Polls, DiceAndPins
  <2> QED
    BY <1>1, <2>1, HandlerTables, HandlersJoin, BothWithin DEF PlaceHandlers
<1>7. AlwaysPrelude(CommandHandlers) /\ Within(CommandHandlers, names)
  <2>1. {"unpinChatMessage", "unpinAllChatMessages", "getMyCommands",
         "deleteMyCommands", "setMyName", "getMyName", "setMyDescription",
         "getMyDescription"} \subseteq names
    BY MethodTables DEF Within, DiceAndPins, BotProfile
  <2> QED
    BY <1>1, <2>1, HandlerTables, HandlersJoin, BothWithin DEF CommandHandlers
<1>8. AlwaysPrelude(TopicHandlers) /\ Within(TopicHandlers, names)
  <2>1. {"setMyShortDescription", "getMyShortDescription", "setUserEmojiStatus",
         "createForumTopic", "editForumTopic", "closeForumTopic",
         "reopenForumTopic", "deleteForumTopic"} \subseteq names
    BY MethodTables DEF Within, BotProfile, ForumTopics
  <2> QED
    BY <1>1, <2>1, HandlerTables, HandlersJoin, BothWithin DEF TopicHandlers
<1>9. AlwaysPrelude(GeneralTopicHandlers) /\ Within(GeneralTopicHandlers, names)
  <2>1. {"unpinAllForumTopicMessages", "editGeneralForumTopic",
         "closeGeneralForumTopic", "reopenGeneralForumTopic",
         "hideGeneralForumTopic", "unhideGeneralForumTopic",
         "unpinAllGeneralForumTopicMessages"} \subseteq names
    BY MethodTables DEF Within, ForumTopics
  <2>2. {"getForumTopicIconStickers"} \subseteq names
    BY MethodTables DEF Within, ForumTopics
  <2> QED
    BY <1>1, <2>1, <2>2, HandlerTables, HandlersJoin, BothWithin DEF GeneralTopicHandlers
<1>10. AlwaysPrelude(InlineHandlers) /\ Within(InlineHandlers, names)
  <2>1. {"answerInlineQuery", "answerWebAppQuery", "savePreparedInlineMessage",
         "sendInvoice", "createInvoiceLink", "answerShippingQuery",
         "sendPaidMedia", "refundStarPayment"} \subseteq names
    BY MethodTables DEF Within, InlineAnswers, Invoices, MessagesAndMedia, Stars
  <2> QED
    BY <1>1, <2>1, HandlerTables, HandlersJoin, BothWithin DEF InlineHandlers
<1>11. AlwaysPrelude(GiftHandlers) /\ Within(GiftHandlers, names)
  <2>1. {"getStarTransactions", "sendGift", "verifyUser", "verifyChat",
         "removeUserVerification", "removeChatVerification", "getStickerSet"} \subseteq names
    BY MethodTables DEF Within, Stars, Verification, StickerSets
  <2>2. {"getAvailableGifts"} \subseteq names
    BY MethodTables DEF Within, Stars
  <2> QED
    BY <1>1, <2>1, <2>2, HandlerTables, HandlersJoin, BothWithin DEF GiftHandlers
<1>12. AlwaysPrelude(StickerHandlers) /\ Within(StickerHandlers, names)
  <2>1. {"getCustomEmojiStickers", "uploadStickerFile", "createNewStickerSet",
         "addStickerToSet", "setStickerPositionInSet", "deleteStickerFromSet",
         "replaceStickerInSet", "setStickerEmojiList"} \subseteq names
    BY MethodTables DEF Within, StickerSets
  <2> QED
    BY <1>1, <2>1, HandlerTables, HandlersJoin, BothWithin DEF StickerHandlers
<1>13. AlwaysPrelude(StickerSetHandlers) /\ Within(StickerSetHandlers, names)
  <2>1. {"setStickerKeywords", "setStickerMaskPosition", "setStickerSetTitle",
         "setStickerSetThumbnail", "setCustomEmojiStickerSetThumbnail",
         "deleteStickerSet", "sendGame", "setGameScore"} \subseteq names
    BY MethodTables DEF Within, StickerChanges, Games
  <2> QED
    BY <1>1, <2>1, HandlerTables, HandlersJoin, BothWithin DEF StickerSetHandlers
<1>14. AlwaysPrelude(GameHandlers) /\ Within(GameHandlers, names)
  <2>1. {"getGameHighScores", "setPassportDataErrors", "getUserChatBoosts",
         "readBusinessConnection", "createChatSubscriptionInviteLink",
         "editChatSubscriptionInviteLink", "setChatStickerSet",
         "deleteChatStickerSet"} \subseteq names
    BY MethodTables DEF Within, Games, MessagesAndMedia, BotItself, InviteLinks, InlineAnswers
  <2>2. {"logOut"} \subseteq names
    BY MethodTables DEF Within, BotItself
  <2> QED
    BY <1>1, <2>1, <2>2, HandlerTables, HandlersJoin, BothWithin DEF GameHandlers
<1>15. AlwaysPrelude(StoryHandlers) /\ Within(StoryHandlers, names)
  <2>1. {"deleteStory", "readBusinessMessage", "setBusinessAccountUsername",
         "removeBusinessAccountProfilePhoto"} \subseteq names
    BY MethodTables DEF Within, BusinessAccount
  <2>2. {"setMyProfilePhoto", "deleteMessageReaction",
         "deleteAllMessageReactions"} \subseteq names
    BY MethodTables DEF Within, BotItself
  <2>3. {"removeMyProfilePhoto", "getMyStarBalance"} \subseteq names
    BY MethodTables DEF Within, BotItself
  <2> QED
    BY <1>1, <2>1, <2>2, <2>3, HandlerTables, HandlersJoin, BothWithin DEF StoryHandlers
<1>16. AlwaysPrelude(JoinRequestHandlers) /\ Within(JoinRequestHandlers, names)
  <2>1. {"answerChatJoinRequestQuery", "sendChatJoinRequestWebApp",
         "answerCustomQuery", "sendCustomRequest", "answerGuestQuery",
         "approveSuggestedPost"} \subseteq names
    BY MethodTables DEF Within, GuestQueries, BusinessSettings
  <2>2. {"setChatMemberTag", "getUserProfileAudios"} \subseteq names
    BY MethodTables DEF Within, BotItself, GuestQueries
  <2> QED
    BY <1>1, <2>1, <2>2, HandlerTables, HandlersJoin, BothWithin DEF JoinRequestHandlers
<1>17. AlwaysPrelude(OwnedGiftHandlers) /\ Within(OwnedGiftHandlers, names)
  <2>1. {"declineSuggestedPost", "convertGiftToStars", "upgradeGift",
         "transferGift", "getChatGifts", "getUserGifts", "getBusinessAccountGifts",
         "getBusinessAccountStarBalance", "transferBusinessAccountStars"} \subseteq names
    BY MethodTables DEF Within, BusinessSettings, Gifts, SavedGifts
  <2> QED
    BY <1>1, <2>1, HandlerTables, HandlersJoin, BothWithin DEF OwnedGiftHandlers
<1>18. AlwaysPrelude(ManagedBotHandlers) /\ Within(ManagedBotHandlers, names)
  <2>1. {"setBusinessAccountGiftSettings", "getManagedBotToken",
         "getManagedBotAccessSettings", "setManagedBotAccessSettings",
         "replaceManagedBotToken", "getUserPersonalChatMessages"} \subseteq names
    BY MethodTables DEF Within, BusinessSettings, ManagedBots
  <2>2. {"setBusinessAccountProfilePhoto"} \subseteq names
    BY MethodTables DEF Within, BusinessSettings
  <2> QED
    BY <1>1, <2>1, <2>2, HandlerTables, HandlersJoin, BothWithin DEF ManagedBotHandlers
<1>19. AlwaysPrelude(DraftHandlers) /\ Within(DraftHandlers, names)
  <2>1. {"giftPremiumSubscription", "editUserStarSubscription", "repostStory",
         "editStory", "savePreparedKeyboardButton", "sendLivePhoto",
         "sendMessageDraft", "sendRichMessageDraft"} \subseteq names
    BY MethodTables DEF Within, Gifts, ManagedBots, StoriesAndDrafts, RichMessages
  <2> QED
    BY <1>1, <2>1, HandlerTables, HandlersJoin, BothWithin DEF DraftHandlers
<1>20. AlwaysPrelude(RichHandlers) /\ Within(RichHandlers, names)
  <2>1. {"sendRichMessage", "sendChecklist", "editMessageChecklist",
         "editEphemeralMessageText", "editEphemeralMessageMedia",
         "editEphemeralMessageCaption", "editEphemeralMessageReplyMarkup",
         "deleteEphemeralMessage"} \subseteq names
    BY MethodTables DEF Within, RichMessages, Checklists
  <2> QED
    BY <1>1, <2>1, HandlerTables, HandlersJoin, BothWithin DEF RichHandlers
<1>21. AlwaysPrelude(EditHandlers) /\ Within(EditHandlers, names)
  <2>1. {"deleteMessage", "editMessageMedia", "sendChatAction", "copyMessage",
         "editMessageCaption", "editMessageReplyMarkup", "answerCallbackQuery"} \subseteq names
    BY MethodTables DEF Within, Deletion, MessagesAndMedia, Answers
  <2> QED
    BY <1>1, <2>1, HandlerTables, HandlersJoin, BothWithin DEF EditHandlers
<1>22. AlwaysPrelude(PhotoHandlers) /\ Within(PhotoHandlers, names)
  <2>1. {"sendPhoto", "sendVideo", "sendDocument", "sendVoice"} \subseteq names
    BY MethodTables DEF Within, MessagesAndMedia
  <2> QED
    BY <1>1, <2>1, HandlerTables, HandlersJoin, BothWithin DEF PhotoHandlers
<1>23. AlwaysPrelude(AudioHandlers) /\ Within(AudioHandlers, names)
  <2>1. {"sendVideoNote", "sendAudio", "sendSticker"} \subseteq names
    BY MethodTables DEF Within, MessagesAndMedia
  <2> QED
    BY <1>1, <2>1, HandlerTables, HandlersJoin, BothWithin DEF AudioHandlers
<1>24. AlwaysPrelude(AnimationHandlers) /\ Within(AnimationHandlers, names)
  <2>1. {"sendAnimation", "getFile"} \subseteq names
    BY MethodTables DEF Within, MessagesAndMedia
  <2> QED
    BY <1>1, <2>1, HandlerTables, HandlersJoin, BothWithin DEF AnimationHandlers
<1>25. AlwaysPrelude(AlbumHandlers) /\ Within(AlbumHandlers, names)
  <2>1. {"answerPreCheckoutQuery", "getChatMember", "setMyCommands"} \subseteq names
    BY MethodTables DEF Within, Answers
  <2>2. {"getBusinessConnection", "deleteBusinessMessages", "getUserProfilePhotos",
         "sendMediaGroup"} \subseteq names
    BY MethodTables DEF Within, MessagesAndMedia, Deletion
  <2> QED
    BY <1>1, <2>1, <2>2, HandlerTables, HandlersJoin, BothWithin DEF AlbumHandlers
<1>26. AlwaysPrelude(BusinessHandlers) /\ Within(BusinessHandlers, names)
  <2>1. {"postStory"} \subseteq names
    BY MethodTables DEF Within, MessagesAndMedia
  <2>2. {"setBusinessAccountBio", "setBusinessAccountName"} \subseteq names
    BY MethodTables DEF Within, BusinessAccount
  <2> QED
    BY <1>1, <2>1, <2>2, HandlerTables, HandlersJoin, BothWithin DEF BusinessHandlers
<1>27. AlwaysPrelude(RetryingHandlers) /\ Within(RetryingHandlers, names)
  <2>1. {"sendMessage"} \subseteq names
    BY MethodTables DEF Within, MessagesAndMedia
  <2>2. {"editMessageText"} \subseteq names
    BY MethodTables DEF Within, MessagesAndMedia
  <2> QED
    BY <1>1, <2>1, <2>2, HandlerTables, HandlersJoin, BothWithin DEF RetryingHandlers
<1> QED
  BY <1>2, <1>3, <1>4, <1>5, <1>6, <1>7, <1>8, <1>9, <1>10, <1>11, <1>12, <1>13,
     <1>14, <1>15, <1>16, <1>17, <1>18, <1>19, <1>20, <1>21, <1>22, <1>23, <1>24,
     <1>25, <1>26, <1>27

LEMMA HandlersFit ==
  ASSUME NEW r, NEW names, names = DOMAIN Methods(r)
  PROVE  AlwaysPrelude(Handlers) /\ Within(Handlers, names)
<1>1. Within(Methods(r), names)
  BY DEF Within
<1>2. AlwaysPrelude(Handlers)
  BY <1>1, HandlerGroups, HandlersJoin DEF Handlers
<1>3. Within(Handlers, names)
  BY <1>1, HandlerGroups, BothWithin DEF Handlers
<1> QED
  BY <1>2, <1>3

(* The methods that send messages, media and stories.                      *)
LEMMA MessagePrograms ==
  ASSUME NEW r
  PROVE  /\ Program(Account(r), SendMessage(r)) /\ Program(Account(r), EditMessage(r))
         /\ Program(Account(r), EditMessageMedia(r)) /\ Program(Account(r), SendMediaGroup(r))
         /\ Program(Account(r), SendPaidMedia(r)) /\ Program("bot", CopyMessage(r))
<1>1. PICK m \in {"bot", "business"} : m = Account(r) /\ m \in Modes
  BY AccountModes
<1>2. PICK resolve : resolve = ResolveInputSingleMedia(r)
  OBVIOUS
<1>3. /\ Prelude(m, resolve) /\ Prelude(m, Peer(r)) /\ Prelude(m, Check("media"))
      /\ Prelude(m, Check("reply_markup")) /\ Coda(m, Want("messages"))
  BY <1>1, <1>2, ResolvePrelude, Pieces
<1>4. Program(m, SendMessage(r)) /\ Program(m, EditMessage(r))
  BY <1>1, <1>3, Routed, Joins DEF SendMessage, EditMessage
<1>5. Program(m, EditMessageMedia(r))
  BY <1>1, <1>2, <1>3, Routed, Joins DEF EditMessageMedia
<1>6. Program(m, SendMediaGroup(r))
  BY <1>1, <1>2, <1>3, Routed, Joins DEF SendMediaGroup
<1>7. Program(m, SendPaidMedia(r))
  BY <1>1, <1>2, <1>3, Routed, Joins DEF SendPaidMedia
<1>8. Program("bot", CopyMessage(r))
  <2>1. PICK edit : edit = Check("caption markup") \o Set("messages.editMessage")
    OBVIOUS
  <2>2. "bot" \in Modes /\ "caption markup" \in Excused /\ "messages.editMessage" \in Excused
    BY DEF Modes, Excused
  <2>3. Coda("bot", edit)
    BY <2>1, <2>2, LocalPieces, Calls, Joins
  <2>4. PICK caption : caption = Either(r.extra, edit, Nothing)
    OBVIOUS
  <2>5. Coda("bot", caption)
    BY <2>3, <2>4, Pieces DEF Either
  <2>6. CopyMessage(r) = Peer(r) \o Check("from_chat_id") \o Send("messages.forwardMessages") \o
                         Want("message id") \o caption
    BY <2>1, <2>4 DEF CopyMessage
  <2> QED
    BY <2>5, <2>6, Pieces, Calls, Joins
<1> QED
  BY <1>1, <1>4, <1>5, <1>6, <1>7, <1>8

LEMMA FilePrograms ==
  ASSUME NEW r
  PROVE  /\ Program(Account(r), SendPhoto(r)) /\ Program(Account(r), SendVideo(r))
         /\ Program(Account(r), SendDocument(r)) /\ Program(Account(r), SendVoice(r))
         /\ Program(Account(r), SendVideoNote(r)) /\ Program(Account(r), SendAudio(r))
         /\ Program(Account(r), SendSticker(r)) /\ Program(Account(r), SendAnimation(r))
<1>1. PICK m \in {"bot", "business"} : m = Account(r)
  BY AccountModes
<1>2. Prelude(m, Thumbnail) /\ Prelude(m, Nothing)
  BY FilePieces, NothingPieces DEF Thumbnail
<1> QED
  BY <1>1, <1>2, SendFileProgram
     DEF SendPhoto, SendVideo, SendDocument, SendVoice, SendVideoNote, SendAudio, SendSticker,
         SendAnimation

LEMMA PostStoryProgram ==
  ASSUME NEW r \in Shapes
  PROVE  Program("business", PostStory(r))
<1>1. PICK q : q = [r EXCEPT !.business = TRUE]
  OBVIOUS
<1>2. q.business
  BY <1>1 DEF Shapes
<1>3. PICK resolve : resolve = ResolveInputSingleMedia(q)
  OBVIOUS
<1>4. Prelude("business", resolve)
  BY <1>2, <1>3, ResolvePrelude, AccountModes
<1>5. PostStory(r) = Lookup \o Check("content") \o resolve \o Check("caption") \o
                     Direct(Send("stories.sendStory")) \o Want("story id")
  BY <1>1, <1>3 DEF PostStory
<1>6. "stories.sendStory" \in Unwrapped
  BY DEF Unwrapped
<1> QED
  BY <1>4, <1>5, <1>6, LookupPieces, Pieces, Calls, Joins

LEMMA MessagesAndMediaGood ==
  ASSUME NEW r \in Shapes
  PROVE  AllGood(r, MessagesAndMedia(r))
<1>1. /\ ForAccount(r, SendMessage(r)) /\ ForAccount(r, EditMessage(r))
      /\ ForAccount(r, EditMessageMedia(r)) /\ ForAccount(r, SendMediaGroup(r))
      /\ ForAccount(r, SendPaidMedia(r)) /\ ForBot(r, CopyMessage(r))
  BY MessagePrograms, GoodPrograms
<1>2. /\ ForAccount(r, SendPhoto(r)) /\ ForAccount(r, SendVideo(r))
      /\ ForAccount(r, SendDocument(r)) /\ ForAccount(r, SendVoice(r))
      /\ ForAccount(r, SendVideoNote(r)) /\ ForAccount(r, SendAudio(r))
      /\ ForAccount(r, SendSticker(r)) /\ ForAccount(r, SendAnimation(r))
  BY FilePrograms, GoodPrograms
<1>3. ForConnection(r, PostStory(r))
  BY PostStoryProgram, GoodPrograms
<1>4. ForConnection(r, Lookup)
  BY LookupPieces, GoodPrograms
<1>5. ForBot(r, GetFile)
  BY Pieces, GoodPrograms DEF GetFile
<1>6. ForBot(r, GetUserProfilePhotos)
  BY Calls, GoodPrograms DEF GetUserProfilePhotos
<1>7. ForBot(r, SetPassportDataErrors)
  BY Pieces, Calls, Joins, GoodPrograms DEF SetPassportDataErrors
<1> QED
  BY <1>1, <1>2, <1>3, <1>4, <1>5, <1>6, <1>7 DEF MessagesAndMedia, AllGood, ForAccount, ForBot,
     ForConnection, AboutConnection, MayActForAccount

LEMMA MethodsGood ==
  ASSUME NEW r \in Shapes
  PROVE  AllGood(r, Methods(r))
  BY TablesJoin, MessagesAndMediaGood, DeletionGood, AnswersGood, BusinessAccountGood,
     ChatReadingGood, ForwardingGood, DeletionAndReactionsGood, PlacesGood, PollsGood,
     DiceAndPinsGood, MembersGood, ModerationGood, AdministrationGood, InviteLinksGood,
     ChatProfileGood, BotProfileGood, ForumTopicsGood, InlineAnswersGood, InvoicesGood,
     StarsGood, VerificationGood, StickerSetsGood, StickerChangesGood, GamesGood,
     BotItselfGood, GuestQueriesGood, BusinessSettingsGood, ManagedBotsGood,
     StoriesAndDraftsGood, GiftsGood, SavedGiftsGood, ChecklistsGood, RichMessagesGood
     DEF Methods

(* The two methods that may be called again.                               *)
Gives(f, x, v) == x \in DOMAIN f /\ f[x] = v

LEMMA GivesJoin ==
  ASSUME NEW f, NEW g, NEW x, NEW v, Gives(f, x, v)
  PROVE  Gives(f ++ g, x, v)
<1>1. /\ DOMAIN (f ++ g) = DOMAIN f \cup DOMAIN g
      /\ \A y \in DOMAIN f : (f ++ g)[y] = f[y]
  BY TwoTables
<1> QED
  BY <1>1 DEF Gives

LEMMA RetriedMethods ==
  ASSUME NEW r, NEW methods, methods = Methods(r)
  PROVE  /\ methods["sendMessage"] = SendMessage(r)
         /\ methods["editMessageText"] = EditMessage(r)
         /\ DOMAIN RetryingHandlers = {"sendMessage", "editMessageText"}
<1>1. PICK first : first = MessagesAndMedia(r)
  OBVIOUS
<1>2. /\ Gives(first, "sendMessage", SendMessage(r))
      /\ Gives(first, "editMessageText", EditMessage(r))
  BY <1>1 DEF MessagesAndMedia, Gives
<1>3. Gives(methods, "sendMessage", SendMessage(r))
  BY <1>1, <1>2, GivesJoin DEF Methods
<1>4. Gives(methods, "editMessageText", EditMessage(r))
  BY <1>1, <1>2, GivesJoin DEF Methods
<1>5. DOMAIN RetryingHandlers = {"sendMessage"} \cup {"editMessageText"}
  <2>1. PICK f, g : f = Required({"sendMessage"}) /\ g = Bound({"editMessageText"})
    OBVIOUS
  <2>2. DOMAIN f = {"sendMessage"} /\ DOMAIN g = {"editMessageText"}
    BY <2>1, HandlerTables
  <2>3. RetryingHandlers = f ++ g
    BY <2>1 DEF RetryingHandlers
  <2> QED
    BY <2>2, <2>3, TwoTables
<1> QED
  BY <1>3, <1>4, <1>5 DEF Gives

Ends(p) == \A i \in DOMAIN p : Changes(p[i]) => i = Len(p)

LEMMA EndsJoin ==
  ASSUME NEW m, NEW p, Prelude(m, p), NEW q, IsSeq(q), Ends(q), NEW pq, pq = p \o q
  PROVE  Ends(pq)
<1>1. IsSeq(p) /\ \A i \in DOMAIN p : ~Changes(p[i])
  BY DEF Prelude, AllFit
<1>2. Joined(p, q, pq)
  BY <1>1, ConcatElements
<1>3. Len(pq) = Len(p) + Len(q)
  <2>1. PICK S, T : p \in Seq(S) /\ q \in Seq(T)
    BY <1>1 DEF IsSeq
  <2>2. PICK U : U = S \cup T
    OBVIOUS
  <2>3. p \in Seq(U) /\ q \in Seq(U)
    BY <2>1, <2>2, SeqMonotonic
  <2> QED
    BY <2>3, ConcatProperties
<1>4. ASSUME NEW i \in DOMAIN pq, Changes(pq[i])
      PROVE  i = Len(pq)
  <2>1. Len(p) \in Nat /\ Len(q) \in Nat
    BY <1>1, SeqFacts
  <2>2. i \in Nat /\ i - Len(p) \in DOMAIN q /\ pq[i] = q[i - Len(p)]
    BY <1>1, <1>2, <1>4 DEF Joined
  <2>3. i - Len(p) = Len(q)
    BY <1>4, <2>2 DEF Ends
  <2> QED
    BY <1>3, <2>1, <2>2, <2>3
<1> QED
  BY <1>4 DEF Ends

LEMMA PlainPrograms ==
  ASSUME NEW p, Program("bot", p), Ends(p)
  PROVE  Plain(p)
  BY DEF Program, AllFit, Fits, Plain, Ends

LEMMA RetriedPlain ==
  ASSUME NEW r, ~r.business, NEW body, body \in {SendMessage(r), EditMessage(r)}
  PROVE  Program("bot", body) /\ Ends(body)
<1>1. Program("bot", body)
  BY MessagePrograms, AccountModes
<1>2. ASSUME NEW rpc, NEW do \in {"set", "send"}
      PROVE  IsSeq(Step(do, rpc)) /\ Ends(Step(do, rpc))
  <2>1. do \in Kinds
    BY DEF Kinds
  <2>2. PICK s : Step(do, rpc) = <<s>>
    BY <2>1, OneStep
  <2>3. <<s>> \in Seq({s}) /\ DOMAIN <<s>> = {1} /\ Len(<<s>>) = 1
    OBVIOUS
  <2> QED
    BY <2>2, <2>3 DEF IsSeq, Ends
<1>3. PICK peer : peer = Peer(r)
  OBVIOUS
<1>4. Prelude("bot", peer)
  BY <1>3, Pieces
<1>5. PICK send, set : send = Step("send", "messages.sendMessage")
                       /\ set = Step("set", "messages.editMessage")
  OBVIOUS
<1>6. IsSeq(send) /\ Ends(send) /\ IsSeq(set) /\ Ends(set)
  BY <1>2, <1>5
<1>7. SendMessage(r) = peer \o send /\ EditMessage(r) = peer \o set
  BY <1>3, <1>5 DEF SendMessage, EditMessage, Named, Route, Either, Send, Set
<1> QED
  BY <1>1, <1>4, <1>6, <1>7, EndsJoin

LEMMA RequestSound ==
  ASSUME NEW q \in Requests
  PROVE  SoundRequest(q)
<1>1. PICK r \in Shapes, x \in DOMAIN Handlers :
        q = [method |-> x, ofBusiness |-> NamesConnection(x, r),
             steps |-> Handlers[x] \o Methods(r)[x],
             retried |-> Either(x \in DOMAIN RetryingHandlers /\ ~r.business,
                                Methods(r)[x], Nothing)]
  BY Zenon DEF Requests
<1>2. PICK methods :
        /\ methods = Methods(r)
        /\ q.method = x /\ q.ofBusiness = NamesConnection(x, r)
        /\ q.steps = Handlers[x] \o methods[x]
        /\ q.retried = Either(x \in DOMAIN RetryingHandlers /\ ~r.business,
                              methods[x], Nothing)
  BY <1>1
<1>3. PICK handler, body : handler = Handlers[x] /\ body = methods[x]
  OBVIOUS
<1>4. PICK names : names = DOMAIN methods
  OBVIOUS
<1>5. x \in names /\ \A mode \in Modes : Prelude(mode, handler)
  BY <1>2, <1>3, <1>4, HandlersFit DEF Within, AlwaysPrelude
<1>6. PICK mode \in Modes : Program(mode, body) /\ Suits(mode, x, NamesConnection(x, r))
  BY <1>2, <1>3, <1>4, <1>5, MethodsGood DEF AllGood, Good
<1>7. PICK all : all = handler \o body
  OBVIOUS
<1>8. q.steps = all
  BY <1>2, <1>3, <1>7
<1>9. Program(mode, all)
  BY <1>5, <1>6, <1>7, Joins
<1>10. Sound(x, NamesConnection(x, r), all) /\ Sound(x, NamesConnection(x, r), body)
  BY <1>6, <1>9, ProgramsAreSound
<1>11. AreSteps(body) /\ AreSteps(Nothing)
  BY <1>10, NothingSteps DEF Sound
<1>12. ASSUME x \in DOMAIN RetryingHandlers, ~r.business
       PROVE  Plain(body) /\ Plain(all)
  <2>1. body \in {SendMessage(r), EditMessage(r)}
    BY <1>2, <1>3, <1>12, RetriedMethods
  <2>2. Program("bot", body) /\ Ends(body)
    BY <1>12, <2>1, RetriedPlain
  <2>3. "bot" \in Modes /\ IsSeq(body)
    BY <2>2 DEF Modes, Program, AllFit
  <2>4. Program("bot", all)
    BY <1>5, <1>7, <2>2, <2>3, Joins
  <2>5. Ends(all)
    BY <1>5, <1>7, <2>2, <2>3, EndsJoin
  <2> QED
    BY <2>2, <2>4, <2>5, PlainPrograms
<1>13. q.retried = body \/ q.retried = Nothing
  BY <1>2, <1>3 DEF Either
<1>14. q.retried # Nothing => x \in DOMAIN RetryingHandlers /\ ~r.business
  BY <1>2 DEF Either
<1>15. q.method = x /\ q.ofBusiness = NamesConnection(x, r)
  BY <1>2
<1>16. NamesConnection(x, r) \in BOOLEAN
  BY DEF NamesConnection, Shapes
<1> QED
  BY <1>8, <1>10, <1>11, <1>12, <1>13, <1>14, <1>15, <1>16 DEF SoundRequest

LEMMA UnknownSound == SoundRequest(Unknown)
<1>1. PICK p : p = Refuse("method")
  OBVIOUS
<1>2. Program("bot", p)
  BY <1>1, Pieces
<1>3. "bot" \in Modes /\ Suits("bot", "unknown", FALSE)
  BY DEF Modes, Suits
<1>4. Sound("unknown", FALSE, p)
  BY <1>2, <1>3, ProgramsAreSound
<1> QED
  BY <1>1, <1>4, NothingSteps DEF SoundRequest, Unknown

(* The steps of every request are sound: of every method in HandleRequest, *)
(* behind its handler, for every chat, account, source and option.  In     *)
(* particular a request that names a business connection changes nothing   *)
(* through the bot, except where its method ignores the connection: in     *)
(* deleteMessages, and for the live location of an inline message.         *)
THEOREM RequestsAreSound == \A q \in Requests \cup {Unknown} : SoundRequest(q)
  BY RequestSound, UnknownSound

-----------------------------------------------------------------------------
(* The invariant.                                                          *)
LEMMA InitInv ==
  ASSUME Init
  PROVE  IInv
<1>1. 1 \in 1..Attempts /\ 1 \in 1..PoolAttempts
  BY AttemptsAssumption
<1>2. call \in [try : 1..Attempts, pool : 1..PoolAttempts, executed : BOOLEAN]
  BY <1>1 DEF Init, Fresh
<1>3. steps = << >> /\ DOMAIN steps = 1..Len(steps) /\ DOMAIN steps = {}
  BY DEF Init, Nothing
<1>4. cache \in [Keys -> {"none", "bot", "business"}]
  BY DEF Init
<1>5. TypeOK
  BY <1>2, <1>3, <1>4 DEF Init, TypeOK
<1>6. TypeInv
  BY <1>2, <1>5, NothingSteps DEF Init, TypeInv
<1>7. IdleInv /\ CountInv /\ ResetIsDeserved /\ RefusalMeansNothingDone /\ ~Running
  BY DEF Init, IdleInv, CountInv, ResetIsDeserved, RefusalMeansNothingDone, Running
<1>8. ItemsStayHome
  BY DEF Init, ItemsStayHome, Keys
<1> QED
  BY <1>6, <1>7, <1>8 DEF IInv

LEMMA NextKeepsInv ==
  ASSUME IInv, [Next]_vars
  PROVE  IInv'
<1>1. TypeInv
  BY DEF IInv
<1>2. CASE Begin
  <2>1. PICK q \in Requests \cup {Unknown} :
          /\ method' = q.method /\ steps' = q.steps /\ retried' = q.retried
          /\ ofBusiness' = q.ofBusiness
    BY <1>2 DEF Begin
  <2>2. SoundRequest(q)
    BY RequestsAreSound
  <2> QED
    BY <1>2, <2>1, <2>2, BeginKeeps
<1>3. CASE Finish \/ Answered \/ UNCHANGED vars
  BY <1>3, RestKeeps
<1>4. ASSUME NEW k \in Nat, Moving(k)
      PROVE  IInv'
  BY <1>4, MovingKeeps
<1>5. ASSUME NEW error, Ending(error)
      PROVE  IInv'
  BY <1>5, EndingKeeps
<1>6. CASE CallingAgain
  BY <1>6, CallingAgainKeeps
<1>7. CASE Repeating
  BY <1>7, RepeatingKeeps
<1> QED
  BY <1>1, <1>2, <1>3, <1>4, <1>5, <1>6, <1>7, StepKinds

(* The inductive invariant: every request is served as its steps, and what *)
(* was done for it so far, allow.                                          *)
THEOREM InvariantHolds == Spec => []IInv
<1>1. Init => IInv
  BY InitInv
<1>2. IInv /\ [Next]_vars => IInv'
  BY NextKeepsInv
<1> QED
  BY <1>1, <1>2, PTL DEF Spec

(* The state of a request has its type, and the loops of retryMiddleware   *)
(* and rawBusinessInvoker keep to their bounds.                            *)
THEOREM TypeCorrect == Spec => []TypeOK
<1>1. IInv => TypeOK
  BY DEF IInv, TypeInv
<1> QED
  BY <1>1, InvariantHolds, PTL

(* A request sends a message twice only after a lost answer and a new      *)
(* client, and makes a thing twice only after a lost answer.               *)
THEOREM CopiesNeedALossHolds == Spec => []CopiesNeedALoss
<1>1. ASSUME IInv
      PROVE  CopiesNeedALoss
  <2>1. CountInv /\ sends \in Nat /\ makes \in Nat
    BY <1>1 DEF IInv, TypeInv
  <2>2. sends > 1 => lost
    BY <2>1 DEF CountInv
  <2>3. sends > 1 => reset
    BY <2>1 DEF CountInv
  <2>4. makes > 1 => lost
    BY <2>1 DEF CountInv
  <2> QED
    BY <2>2, <2>3, <2>4 DEF CopiesNeedALoss
<1> QED
  BY <1>1, InvariantHolds, PTL

(* The bot is started anew only for a call of its own, for a story, or for *)
(* a session or a token that is no longer valid: respondError,             *)
(* businessErrorMiddleware and the handlers that call again.               *)
THEOREM ResetIsDeservedHolds == Spec => []ResetIsDeserved
<1>1. IInv => ResetIsDeserved
  BY DEF IInv
<1> QED
  BY <1>1, InvariantHolds, PTL

(* A 400 means that nothing was changed, but for the exceptions the        *)
(* property names: the order of the steps of every method.                 *)
THEOREM RefusalMeansNothingDoneHolds == Spec => []RefusalMeansNothingDone
<1>1. IInv => RefusalMeansNothingDone
  BY DEF IInv
<1> QED
  BY <1>1, InvariantHolds, PTL

(* Every method consumes file parts on the connection it uploaded them to, *)
(* also when it is called again.                                           *)
THEOREM PartsStayWhereUploadedHolds == Spec => []PartsStayWhereUploaded
<1>1. ASSUME IInv
      PROVE  PartsStayWhereUploaded
  <2> SUFFICES ASSUME On({"set", "send", "read", "try"}), step.parts, parts # "none"
               PROVE  parts = connection
    BY DEF PartsStayWhereUploaded
  <2>1. Running /\ steps # Nothing
    BY DEF On
  <2>2. 1 \in DOMAIN steps /\ step = steps[1] /\ PlaceInv
    BY <1>1, <2>1, StepUnderWay DEF Running1
  <2>3. Touches(step)
    BY DEF Touches
  <2>4. Place(step) = parts
    BY <2>2, <2>3 DEF PlaceInv
  <2> QED
    BY <2>4 DEF Place, connection
<1> QED
  BY <1>1, InvariantHolds, PTL

(* A request that names a business connection never changes anything as    *)
(* the bot itself: invokeBusiness in every method that takes one, but for  *)
(* deleteMessages and the live locations of inline messages.               *)
THEOREM OneAccountHolds == Spec => []OneAccount
<1>1. ASSUME IInv
      PROVE  OneAccount
  <2> SUFFICES ASSUME ofBusiness, On({"set", "make", "send"})
               PROVE  step.via # "bot" \/ <<method, step.what>> \in Ignoring
    BY DEF OneAccount
  <2>1. Running /\ steps # Nothing /\ Changes(step)
    BY DEF On, Changes
  <2>2. ActsFor(method, ofBusiness, step)
    BY <1>1, <2>1, StepUnderWay DEF Running1
  <2> QED
    BY <2>1, <2>2 DEF ActsFor
<1> QED
  BY <1>1, InvariantHolds, PTL

(* Media stored for a business connection and media of the bot never       *)
(* stand under the key of the other: resolveInputSingleMedia.              *)
THEOREM ItemsStayHomeHolds == Spec => []ItemsStayHome
<1>1. IInv => ItemsStayHome
  BY DEF IInv
<1> QED
  BY <1>1, InvariantHolds, PTL

(* No step but the answer leaves a request as far from its end as it was:  *)
(* the one call of its method after a new client is used up, or fewer steps*)
(* are left, or fewer pools, or fewer attempts on the pool.                *)
Advances ==
  \/ retried # Nothing /\ retried' = Nothing
  \/ retried' = retried /\ Len(steps') < Len(steps)
  \/ /\ retried' = retried /\ steps' = steps
     /\ \/ call.pool < call'.pool
        \/ call'.pool = call.pool /\ call.try < call'.try

LEMMA RequestAdvances ==
  ASSUME IInv, Next, Running, Running'
  PROVE  Advances
<1>1. TypeInv
  BY DEF IInv
<1>2. CASE Begin \/ Finish \/ Answered
  BY <1>2 DEF Begin, Finish, Answered, Idle, Running
<1>3. ASSUME NEW k \in Nat, Moving(k)
      PROVE  Advances
  <2>1. Running1 /\ Proceed(k) /\ retried' = retried
    BY <1>3 DEF Moving
  <2>2. AreSteps(steps) /\ Len(steps) \in Nat \ {0} /\ steps # Nothing
    BY <2>1, StepUnderWay DEF Running1
  <2>3. steps' = SubSeq(steps, 2 + k, Len(steps))
    BY <2>1 DEF Proceed
  <2>4. PICK S : steps \in Seq(S)
    BY <2>2 DEF AreSteps, IsSeq
  <2>5. Len(steps') < Len(steps)
    <3>1. CASE 2 + k > Len(steps)
      <4>1. steps' = << >>
        BY <2>2, <2>3, <2>4, <3>1
      <4> QED
        BY <2>2, <4>1
    <3>2. CASE 2 + k <= Len(steps)
      <4>1. \A i \in (2 + k)..Len(steps) : steps[i] \in S
        BY <2>4, <2>2
      <4>2. Len(steps') = Len(steps) - (2 + k) + 1
        BY <2>2, <2>3, <2>4, <3>2, <4>1, SubSeqProperties
      <4> QED
        BY <2>2, <4>2
    <3> QED
      BY <2>2, <3>1, <3>2
  <2> QED
    BY <2>1, <2>5 DEF Advances
<1>4. ASSUME NEW error, Ending(error)
      PROVE  FALSE
  BY <1>4 DEF Ending, Respond, Code, Either, Running
<1>5. CASE CallingAgain
  BY <1>5 DEF CallingAgain, CallAgain, Advances
<1>6. CASE Repeating
  <2>1. PICK arrived \in BOOLEAN : Repeat(arrived)
    BY <1>6 DEF Repeating
  <2>2. retried' = retried /\ steps' = steps
    BY <1>6 DEF Repeating, request
  <2>3. call.try \in Nat /\ call.pool \in Nat
    BY <1>1, AttemptsAssumption DEF TypeInv
  <2>4. CASE call.try < Attempts
    BY <2>1, <2>2, <2>3, <2>4 DEF Repeat, Either, Advances
  <2>5. CASE ~(call.try < Attempts)
    BY <2>1, <2>2, <2>3, <2>5 DEF Repeat, Either, Advances
  <2> QED
    BY <2>4, <2>5
<1> QED
  BY <1>1, <1>2, <1>3, <1>4, <1>5, <1>6, StepKinds

(* The loops of retryMiddleware and rawBusinessInvoker, the steps of a     *)
(* method and its second call all end: every step under way is progress.   *)
THEOREM RequestsAdvance == Spec => [][Running /\ Running' => Advances]_vars
<1>1. IInv /\ [Next]_vars => [Running /\ Running' => Advances]_vars
  BY RequestAdvances
<1> QED
  BY <1>1, InvariantHolds, PTL DEF Spec
=============================================================================
