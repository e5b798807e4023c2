--------------------------- MODULE BotRegistryProofs ---------------------------
(***************************************************************************)
(* Proofs about BotRegistry, for any number of callers, instances and      *)
(* faults.                                                                 *)
(***************************************************************************)
EXTENDS BotRegistry, TLAPS

LEMMA RegistryConstants ==
  /\ MaxInstances \in Nat /\ MaxFaults \in Nat
  /\ Jobs \subseteq {"send", "close", "restore"} /\ MayRevoke \in BOOLEAN
BY RegistryAssumption DEF RegistryAssumption

USE RegistryConstants DEF Instances, None, Idle

-----------------------------------------------------------------------------
(* Types.                                                                  *)
LEMMA TypeInit == Init => TypeOK
<1> SUFFICES ASSUME Init PROVE TypeOK
  OBVIOUS
<1>1. /\ revoked \in BOOLEAN /\ faults = 0 /\ listed \in BOOLEAN
      /\ session \in {"none", "good"} /\ registered = 0 /\ created = 0 /\ main = "serving"
      /\ midway = {} /\ flight = NoFlight
  BY Zenon DEF Init
<1>5. flight \in [at : {"free", "running", "done"}, value : 0..0]
  BY <1>1 DEF NoFlight
<1>2. /\ loop \in [Instances -> {"connect", "good", "dead", "ended"}]
      /\ outcome \in [Instances -> {"none", "ready", "revoked"}]
      /\ drop \in [Instances -> {"no", "remove", "stop", "purge", "done"}]
  BY DEF Init
<1>3. /\ Idle \in [at : Places, job : {"send", "close", "restore"}, bot : 0..0, again : BOOLEAN]
      /\ Idle.at = "idle"
  BY DEF Places
<1>4. caller = [c \in Callers |-> Idle]
  BY DEF Init
<1> HIDE DEF Idle
<1> QED
  BY <1>1, <1>2, <1>3, <1>4, <1>5 DEF TypeOK

LEMMA TelegramTypes == TypeOK /\ (DropKeys \/ RevokeToken) => TypeOK'
<1> USE DEF TypeOK
<1>1. ASSUME TypeOK, ForgetKeys PROVE session' \in {"none", "good", "dead"}
                              /\ loop' \in [Instances -> {"connect", "good", "dead", "ended"}]
  BY <1>1 DEF ForgetKeys, Forgets
<1>2. ASSUME TypeOK, DropKeys PROVE TypeOK'
  BY <1>1, <1>2 DEF DropKeys, managerVars
<1>3. ASSUME TypeOK, RevokeToken PROVE TypeOK'
  <2>1. midway' \subseteq {"revoke", "stop"}
    BY <1>3 DEF RevokeToken
  <2> QED
    BY <1>1, <1>3, <2>1 DEF RevokeToken, managerVars
<1> QED
  BY <1>2, <1>3

LEMMA ClientTypes == TypeOK /\ (\E i \in Instances : ClientLoop(i) \/ DropRevokedBot(i)) => TypeOK'
<1> USE DEF TypeOK
<1>1. ASSUME TypeOK, NEW i \in Instances, NEW at \in {"connect", "good", "dead", "ended"}, Moves(i, at)
      PROVE  loop' \in [Instances -> {"connect", "good", "dead", "ended"}]
  BY <1>1 DEF Moves
<1>2. ASSUME TypeOK, NEW i \in Instances, Authorized(i) PROVE TypeOK'
  BY <1>1, <1>2 DEF Authorized, telegramVars, managerVars
<1>3. ASSUME TypeOK, NEW i \in Instances, KeyUnregistered(i) PROVE TypeOK'
  BY <1>1, <1>3 DEF KeyUnregistered, telegramVars, managerVars
<1>4. ASSUME TypeOK, NEW i \in Instances, TokenRejected(i) PROVE TypeOK'
  BY <1>1, <1>4 DEF TokenRejected, telegramVars, managerVars, redisVars
<1>5. ASSUME TypeOK, NEW i \in Instances, ConnectionFails(i) PROVE TypeOK'
  BY <1>1, <1>5 DEF ConnectionFails, managerVars, redisVars
<1>6. ASSUME TypeOK, NEW i \in Instances, DropRevokedBot(i) PROVE TypeOK'
  <2>1. drop' \in [Instances -> {"no", "remove", "stop", "purge", "done"}]
    BY <1>6 DEF DropRevokedBot, DropRemoves, DropStops, DropPurges
  <2>2. CASE DropRemoves(i)
    BY <1>6, <2>1, <2>2 DEF DropRemoves, telegramVars, redisVars
  <2>3. CASE DropStops(i)
    BY <1>1, <1>6, <2>1, <2>3 DEF DropStops, Stop, telegramVars, redisVars, managerVars
  <2>4. CASE DropPurges(i)
    BY <1>6, <2>1, <2>4 DEF DropPurges, PurgeToken, telegramVars, managerVars
  <2> QED
    BY <1>6, <2>2, <2>3, <2>4 DEF DropRevokedBot
<1> QED
  BY <1>2, <1>3, <1>4, <1>5, <1>6 DEF ClientLoop

LEMMA ShutdownTypes == TypeOK /\ (ShutdownBegins \/ StopAll) => TypeOK'
<1> USE DEF TypeOK, telegramVars, instanceVars, redisVars
<1>1. ASSUME TypeOK, ShutdownBegins PROVE TypeOK'
  BY <1>1 DEF ShutdownBegins
<1>2. ASSUME TypeOK, StopAll PROVE TypeOK'
  BY <1>2 DEF StopAll, StopRegistered, Stop, Moves
<1> QED
  BY <1>1, <1>2

(* A step of one caller: where it is then, with which bot, and that the    *)
(* others stay where they are.                                             *)
Caller(n) == [at : Places, job : {"send", "close", "restore"}, bot : 0..n, again : BOOLEAN]

Steps(c, at, bot) ==
  /\ caller' \in [Callers -> Caller(created')]
  /\ caller'[c].at = at /\ caller'[c].bot = bot
  /\ \A d \in Callers \ {c} : caller'[d] = caller[d]

LEMMA GotoSteps ==
  ASSUME TypeOK, NEW c \in Callers, NEW at \in Places, Goto(c, at), UNCHANGED created
  PROVE  Steps(c, at, caller[c].bot)
<1>1. PICK n : n = created
  OBVIOUS
<1>2. caller \in [Callers -> Caller(n)] /\ created' = n
  BY <1>1 DEF TypeOK, Caller
<1>3. PICK k \in Caller(n) : k = caller[c]
  BY <1>2
<1>4. PICK next \in Caller(n) : next = [k EXCEPT !.at = at]
  BY DEF Caller
<1>5. next.at = at /\ next.bot = k.bot
  BY <1>4 DEF Caller
<1>6. caller' = [caller EXCEPT ![c] = next]
  BY <1>3, <1>4 DEF Goto
<1>7. /\ caller' \in [Callers -> Caller(n)] /\ caller'[c] = next
      /\ \A d \in Callers \ {c} : caller'[d] = caller[d]
  BY <1>2, <1>6
<1> QED
  BY <1>2, <1>3, <1>5, <1>7 DEF Steps

LEMMA AtBotSteps ==
  ASSUME TypeOK, NEW c \in Callers, NEW at \in Places, created' \in Nat, created <= created',
         NEW i \in 0..created', caller' = [caller EXCEPT ![c].at = at, ![c].bot = i]
  PROVE  Steps(c, at, i)
<1>1. PICK n : n = created'
  OBVIOUS
<1>2. 0..created \subseteq 0..n /\ i \in 0..n
  BY <1>1 DEF TypeOK
<1>3. caller \in [Callers -> Caller(created)]
  BY DEF TypeOK, Caller
<1>4. \A k \in Caller(created) : k \in Caller(n)
  BY <1>2 DEF Caller
<1>5. PICK k \in Caller(n) : k = caller[c]
  BY <1>3, <1>4
<1>6. PICK moved \in Caller(n) : moved = [k EXCEPT !.at = at]
  BY DEF Caller
<1>7. PICK next \in Caller(n) : next = [moved EXCEPT !.bot = i]
  BY <1>2 DEF Caller
<1>8. next.at = at /\ next.bot = i
  BY <1>6, <1>7 DEF Caller
<1>9. caller' = [caller EXCEPT ![c] = next]
  BY <1>5, <1>6, <1>7
<1>10. /\ caller' \in [Callers -> Caller(n)] /\ caller'[c] = next
       /\ \A d \in Callers \ {c} : caller'[d] = caller[d]
  BY <1>3, <1>4, <1>9
<1> QED
  BY <1>1, <1>8, <1>10 DEF Steps

LEMMA GotBotSteps ==
  ASSUME TypeOK, NEW c \in Callers, NEW i \in 0..created, GotBot(c, i), UNCHANGED created
  PROVE  Steps(c, IF i = None THEN "failed" ELSE "use", i)
<1>1. PICK at \in {"failed", "use"} : at = IF i = None THEN "failed" ELSE "use"
  OBVIOUS
<1>2. caller' = [caller EXCEPT ![c].at = at, ![c].bot = i] /\ at \in Places
  BY <1>1 DEF GotBot, Places
<1>3. created' \in Nat /\ created <= created' /\ i \in 0..created'
  BY DEF TypeOK
<1>4. Steps(c, at, i)
  BY <1>2, <1>3, AtBotSteps
<1> QED
  BY <1>1, <1>4

LEMMA DoneSteps ==
  ASSUME TypeOK, NEW c \in Callers, Done(c), UNCHANGED created
  PROVE  Steps(c, "idle", 0)
BY DEF TypeOK, Done, Steps, Caller, Places

(* The steps of a caller in GetOrCreate, and in the handlers.              *)
LEMMA CallerSteps ==
  ASSUME TypeOK, NEW c \in Callers
  PROVE  /\ Begin(c) => Steps(c, "get", 0)
         /\ Lookup(c) => Steps(c, IF registered # None THEN "use" ELSE "flight",
                                  IF registered # None THEN registered ELSE caller[c].bot)
         /\ EnterFlight(c) =>
              \/ flight.at = "free" /\ Steps(c, "check", caller[c].bot)
                                   /\ flight' = [at |-> "running", value |-> None]
              \/ flight.at = "running" /\ Steps(c, "wait", caller[c].bot) /\ UNCHANGED flight
              \/ flight.at = "done" /\ UNCHANGED flight
                 /\ Steps(c, IF flight.value = None THEN "failed" ELSE "use", flight.value)
         /\ Create(c) =>
              \/ Steps(c, "finish", IF registered # None THEN registered ELSE None)
                 /\ UNCHANGED <<created, loop>>
              \/ Steps(c, "start", created + 1) /\ registered = None /\ created < MaxInstances
                 /\ created' = created + 1 /\ loop' = [loop EXCEPT ![created + 1] = "connect"]
<1>1. ASSUME Begin(c) PROVE Steps(c, "get", 0)
  <2>1. PICK job \in {"send", "close", "restore"} :
           caller' = [caller EXCEPT ![c] = [at |-> "get", job |-> job, bot |-> 0, again |-> FALSE]]
    BY <1>1 DEF Begin
  <2>2. UNCHANGED created
    BY <1>1 DEF Begin, instanceVars
  <2> QED
    BY <2>1, <2>2 DEF TypeOK, Steps, Caller, Places
<1>2. ASSUME Lookup(c)
      PROVE  Steps(c, IF registered # None THEN "use" ELSE "flight",
                   IF registered # None THEN registered ELSE caller[c].bot)
  <2>1. "flight" \in Places
    BY DEF Places
  <2>2. CASE registered # None
    <3>1. registered \in 0..created /\ GotBot(c, registered)
      BY <1>2, <2>2 DEF Lookup, TypeOK
    <3> QED
      BY <1>2, <2>2, <3>1, GotBotSteps DEF Lookup, instanceVars
  <2>3. CASE registered = None
    BY <1>2, <2>1, <2>3, GotoSteps DEF Lookup, instanceVars
  <2> QED
    BY <2>2, <2>3
<1>3. ASSUME EnterFlight(c)
      PROVE  \/ flight.at = "free" /\ Steps(c, "check", caller[c].bot)
                                   /\ flight' = [at |-> "running", value |-> None]
             \/ flight.at = "running" /\ Steps(c, "wait", caller[c].bot) /\ UNCHANGED flight
             \/ flight.at = "done" /\ UNCHANGED flight
                /\ Steps(c, IF flight.value = None THEN "failed" ELSE "use", flight.value)
  <2>1. "check" \in Places /\ "wait" \in Places /\ flight.value \in 0..created
    BY DEF Places, TypeOK
  <2> QED
    BY <1>3, <2>1, GotoSteps, GotBotSteps DEF EnterFlight, instanceVars
<1>4. ASSUME Create(c)
      PROVE  \/ Steps(c, "finish", IF registered # None THEN registered ELSE None)
                /\ UNCHANGED <<created, loop>>
             \/ Steps(c, "start", created + 1) /\ registered = None /\ created < MaxInstances
                /\ created' = created + 1 /\ loop' = [loop EXCEPT ![created + 1] = "connect"]
  <2>1. "finish" \in Places /\ "start" \in Places /\ registered \in 0..created /\ created \in Nat
    BY DEF Places, TypeOK
  <2>2. created + 1 \in 0..(created + 1) /\ created + 1 \in Nat /\ created <= created + 1
        /\ 0 \in 0..created /\ created <= created
    BY <2>1
  <2>3. CASE registered # None
    BY <1>4, <2>1, <2>2, <2>3, AtBotSteps DEF Create
  <2>4. CASE registered = None /\ created < MaxInstances
    BY <1>4, <2>1, <2>2, <2>4, AtBotSteps DEF Create
  <2>5. CASE registered = None /\ created = MaxInstances
    BY <1>4, <2>1, <2>2, <2>5, AtBotSteps DEF Create
  <2> QED
    BY <1>4, <2>3, <2>4, <2>5 DEF Create
<1> QED
  BY <1>1, <1>2, <1>3, <1>4

LEMMA CreatorSteps ==
  ASSUME TypeOK, NEW c \in Callers
  PROVE  /\ StartSucceeds(c) => Steps(c, "register", caller[c].bot)
         /\ StartFails(c) => \E at \in {"purge", "finish"} : Steps(c, at, 0)
         /\ PurgeRejected(c) => Steps(c, "finish", caller[c].bot)
         /\ Register(c) => Steps(c, "list", caller[c].bot)
         /\ List(c) => Steps(c, "finish", caller[c].bot)
         /\ ForgetFlight(c) => Steps(c, IF caller[c].bot = None THEN "failed" ELSE "use", caller[c].bot)
<1>1. "register" \in Places /\ "finish" \in Places /\ "list" \in Places /\ "purge" \in Places
  BY DEF Places
<1>2. caller[c].bot \in 0..created /\ 0 \in 0..created /\ created \in Nat /\ created <= created
  BY DEF TypeOK
<1>3. StartFails(c) => \E at \in {"purge", "finish"} : Steps(c, at, 0)
  <2> SUFFICES ASSUME StartFails(c)
               PROVE  \E at \in {"purge", "finish"} : Steps(c, at, 0)
    OBVIOUS
  <2>1. PICK at \in {"purge", "finish"} : caller' = [caller EXCEPT ![c].at = at, ![c].bot = 0]
    BY DEF StartFails, None
  <2>2. at \in Places /\ UNCHANGED created
    BY <1>1 DEF StartFails
  <2> QED
    BY <1>2, <2>1, <2>2, AtBotSteps
<1> QED
  BY <1>1, <1>2, <1>3, GotoSteps, GotBotSteps
     DEF StartSucceeds, PurgeRejected, Register, List, ForgetFlight, instanceVars

LEMMA HandlerSteps ==
  ASSUME TypeOK, NEW c \in Callers
  PROVE  /\ NoBot(c) => \E at \in {"reset", "idle"} : \E bot : Steps(c, at, bot)
         /\ Respond(c) => Steps(c, "idle", 0)
         /\ Unauthorized(c) => Steps(c, "reset", caller[c].bot)
         /\ Unregister(c) =>
              \/ registered = None /\ \E at \in {"idle", "delete"} : \E bot : Steps(c, at, bot)
              \/ registered # None /\ Steps(c, "stop", registered)
         /\ StopInstance(c) => Steps(c, "delete", caller[c].bot)
         /\ DeleteSession(c) => \E at \in {"get", "idle"} : \E bot : Steps(c, at, bot)
         /\ UnregisterBot(c) => Steps(c, "idle", 0)
<1>1. /\ "reset" \in Places /\ "stop" \in Places /\ "delete" \in Places
      /\ created \in Nat /\ created <= created /\ registered \in 0..created
  BY DEF Places, TypeOK
<1>2. NoBot(c) => \E at \in {"reset", "idle"} : \E bot : Steps(c, at, bot)
  BY <1>1, GotoSteps, DoneSteps DEF NoBot, instanceVars
<1>3. Respond(c) => Steps(c, "idle", 0)
  BY DoneSteps DEF Respond, instanceVars
<1>4. Unauthorized(c) => Steps(c, "reset", caller[c].bot)
  BY <1>1, GotoSteps DEF Unauthorized, instanceVars
<1>5. ASSUME Unregister(c)
      PROVE  \/ registered = None /\ \E at \in {"idle", "delete"} : \E bot : Steps(c, at, bot)
             \/ registered # None /\ Steps(c, "stop", registered)
  <2>1. created' = created
    BY <1>5 DEF Unregister, instanceVars
  <2>2. CASE Done(c) /\ registered = None
    BY <2>1, <2>2, DoneSteps
  <2>3. CASE /\ registered = None
             /\ caller' = [caller EXCEPT ![c].at = "delete", ![c].bot = registered]
    BY <1>1, <2>1, <2>3, AtBotSteps
  <2>4. CASE /\ registered # None
             /\ caller' = [caller EXCEPT ![c].at = "stop", ![c].bot = registered]
    BY <1>1, <2>1, <2>4, AtBotSteps
  <2> QED
    BY <1>5, <2>2, <2>3, <2>4 DEF Unregister
<1>6. StopInstance(c) => Steps(c, "delete", caller[c].bot)
  BY <1>1, GotoSteps DEF StopInstance
<1>7. ASSUME DeleteSession(c) PROVE \E at \in {"get", "idle"} : \E bot : Steps(c, at, bot)
  <2>1. created' = created
    BY <1>7 DEF DeleteSession, instanceVars
  <2>2. CASE Done(c)
    BY <2>1, <2>2, DoneSteps
  <2>3. CASE caller' = [caller EXCEPT ![c] = [Idle EXCEPT !.at = "get", !.again = TRUE]]
    <3>1. Idle \in [at : Places, job : {"send", "close", "restore"}, bot : {0}, again : BOOLEAN]
      BY DEF Places
    <3> HIDE DEF Idle
    <3>2. PICK next : next = [Idle EXCEPT !.at = "get", !.again = TRUE]
      OBVIOUS
    <3>3. next.at = "get" /\ next.bot = 0
      BY <3>1, <3>2
    <3>4. next \in [at : Places, job : {"send", "close", "restore"}, bot : {0}, again : BOOLEAN]
      BY <3>1, <3>2 DEF Places
    <3>5. next \in Caller(created) /\ next.at = "get" /\ next.bot = 0
      BY <1>1, <3>3, <3>4 DEF Caller
    <3>6. caller' = [caller EXCEPT ![c] = next]
      BY <2>3, <3>1, <3>2
    <3> QED
      BY <2>1, <3>5, <3>6 DEF TypeOK, Steps, Caller
  <2> QED
    BY <1>7, <2>2, <2>3 DEF DeleteSession
<1>8. UnregisterBot(c) => Steps(c, "idle", 0)
  BY DoneSteps DEF UnregisterBot, instanceVars
<1> QED
  BY <1>2, <1>3, <1>4, <1>5, <1>6, <1>7, <1>8

(* The result is there: who waited has it.                                 *)
LEMMA FinishSteps ==
  ASSUME TypeOK, NEW c \in Callers, Finish(c)
  PROVE  /\ caller' \in [Callers -> Caller(created')] /\ UNCHANGED created
         /\ caller'[c].at = "forget"
         /\ \A d \in Callers \ {c} :
              IF At(d, "wait") THEN caller'[d].at \in {"use", "failed"} ELSE caller'[d] = caller[d]
<1> DEFINE i == caller[c].bot
           To(d) == IF d = c THEN [caller[c] EXCEPT !.at = "forget"]
                    ELSE IF At(d, "wait")
                    THEN [caller[d] EXCEPT !.at = IF i = None THEN "failed" ELSE "use", !.bot = i]
                    ELSE caller[d]
<1>1. caller' = [d \in Callers |-> To(d)] /\ UNCHANGED created
  BY DEF Finish, instanceVars
<1>2. caller \in [Callers -> Caller(created)] /\ i \in 0..created
  BY DEF TypeOK, Caller
<1>3. To(c) \in Caller(created) /\ To(c).at = "forget"
  BY <1>2 DEF Caller, Places
<1>4. \A d \in Callers \ {c} : To(d) \in Caller(created)
        /\ IF At(d, "wait") THEN To(d).at \in {"use", "failed"} ELSE To(d) = caller[d]
  BY <1>2 DEF Caller, Places
<1> HIDE DEF To
<1> QED
  BY <1>1, <1>3, <1>4

LEMMA HandleTypes == TypeOK /\ (\E c \in Callers : Begin(c) \/ Handle(c)) => TypeOK'
<1> SUFFICES ASSUME TypeOK, NEW c \in Callers, Begin(c) \/ Handle(c) PROVE TypeOK'
  OBVIOUS
<1> USE DEF telegramVars, redisVars, managerVars, instanceVars
<1>1. ASSUME NEW at, NEW bot, Steps(c, at, bot), created <= created', created' \in 0..MaxInstances,
             at \in {"start", "register", "stop"} => bot # None
      PROVE  /\ caller' \in [Callers -> Caller(created')]
             /\ \A d \in Callers :
                  caller'[d].at \in {"start", "register", "stop"} => caller'[d].bot # None
  BY <1>1 DEF Steps, TypeOK
<1>2. ASSUME /\ caller' \in [Callers -> Caller(created')]
             /\ \A d \in Callers :
                  caller'[d].at \in {"start", "register", "stop"} => caller'[d].bot # None,
             created <= created', created' \in 0..MaxInstances,
             midway' \subseteq {"revoke", "stop"},
             registered' \in 0..created', flight' \in [at : {"free", "running", "done"}, value : 0..created'],
             loop' \in [Instances -> {"connect", "good", "dead", "ended"}],
             listed' \in BOOLEAN, session' \in {"none", "good", "dead"},
             UNCHANGED <<revoked, faults, main, outcome, drop>>
      PROVE  TypeOK'
  BY <1>2 DEF TypeOK, Caller
<1>3. created \in 0..MaxInstances /\ created <= created
  BY DEF TypeOK
<1>4. CASE Begin(c)
  <2>1. Steps(c, "get", 0)
    BY <1>4, CallerSteps
  <2> QED
    BY <1>1, <1>2, <1>3, <1>4, <2>1 DEF Begin, TypeOK
<1>5. CASE Lookup(c)
  <2>1. \E at \in {"use", "flight"} : \E bot : Steps(c, at, bot)
    BY <1>5, CallerSteps
  <2> QED
    BY <1>1, <1>2, <1>3, <1>5, <2>1 DEF Lookup, TypeOK
<1>6. CASE EnterFlight(c)
  <2>1. \E at \in {"check", "wait", "use", "failed"} : \E bot : Steps(c, at, bot)
    BY <1>6, CallerSteps
  <2>2. flight' \in [at : {"free", "running", "done"}, value : 0..created]
    BY <1>3, <1>6, CallerSteps DEF TypeOK
  <2> QED
    BY <1>1, <1>2, <1>3, <1>6, <2>1, <2>2 DEF EnterFlight, TypeOK
<1>7. CASE Create(c)
  <2>1. CASE \E bot : Steps(c, "finish", bot) /\ UNCHANGED <<created, loop>>
    BY <1>1, <1>2, <1>3, <1>7, <2>1 DEF Create, TypeOK
  <2>2. CASE /\ Steps(c, "start", created + 1) /\ created < MaxInstances
             /\ created' = created + 1 /\ loop' = [loop EXCEPT ![created + 1] = "connect"]
    <3>1. created <= created' /\ created' \in 0..MaxInstances /\ created + 1 # 0
          /\ 0..created \subseteq 0..created'
      BY <1>3, <2>2
    <3>2. loop' \in [Instances -> {"connect", "good", "dead", "ended"}]
      BY <2>2 DEF TypeOK
    <3>3. UNCHANGED <<registered, flight, revoked, faults, listed, session, main, outcome, drop, midway>>
      BY <1>7 DEF Create
    <3>4. registered' \in 0..created' /\ flight' \in [at : {"free", "running", "done"}, value : 0..created']
      BY <3>1, <3>3 DEF TypeOK
    <3>5. /\ caller' \in [Callers -> Caller(created')]
          /\ \A d \in Callers :
               caller'[d].at \in {"start", "register", "stop"} => caller'[d].bot # None
      BY <1>1, <2>2, <3>1
    <3> QED
      BY <1>2, <3>1, <3>2, <3>3, <3>4, <3>5 DEF TypeOK
  <2> QED
    BY <1>7, <2>1, <2>2, CallerSteps
<1>8. CASE StartSucceeds(c)
  BY <1>1, <1>2, <1>3, <1>8, CreatorSteps DEF StartSucceeds, TypeOK, At
<1>9. CASE StartFails(c)
  <2>1. \E at \in {"purge", "finish"} : Steps(c, at, 0)
    BY <1>9, CreatorSteps
  <2>2. loop' \in [Instances -> {"connect", "good", "dead", "ended"}]
    BY <1>9 DEF StartFails, Stop, Moves, TypeOK
  <2> QED
    BY <1>1, <1>2, <1>3, <1>9, <2>1, <2>2 DEF StartFails, TypeOK
<1>10. CASE PurgeRejected(c)
  BY <1>1, <1>2, <1>3, <1>10, CreatorSteps DEF PurgeRejected, PurgeToken, TypeOK
<1>11. CASE Register(c)
  BY <1>1, <1>2, <1>3, <1>11, CreatorSteps DEF Register, TypeOK
<1>12. CASE List(c)
  BY <1>1, <1>2, <1>3, <1>12, CreatorSteps DEF List, TypeOK
<1>13. CASE Finish(c)
  <2>1. \A d \in Callers :
          caller'[d].at \in {"start", "register", "stop"} => caller'[d].bot # None
    BY <1>13, FinishSteps DEF TypeOK
  <2>2. flight' \in [at : {"free", "running", "done"}, value : 0..created]
    BY <1>13 DEF Finish, TypeOK
  <2> QED
    BY <1>2, <1>3, <1>13, <2>1, <2>2, FinishSteps DEF Finish, TypeOK
<1>14. CASE ForgetFlight(c)
  <2>1. \E at \in {"use", "failed"} : \E bot : Steps(c, at, bot)
    BY <1>14, CreatorSteps
  <2>2. flight' \in [at : {"free", "running", "done"}, value : 0..created]
    BY <1>3, <1>14 DEF ForgetFlight, NoFlight
  <2> QED
    BY <1>1, <1>2, <1>3, <1>14, <2>1, <2>2 DEF ForgetFlight, TypeOK
<1>15. CASE NoBot(c)
  BY <1>1, <1>2, <1>3, <1>15, HandlerSteps DEF NoBot, TypeOK
<1>16. CASE Respond(c) \/ Unauthorized(c)
  BY <1>1, <1>2, <1>3, <1>16, HandlerSteps DEF Respond, Unauthorized, TypeOK
<1>17. CASE Unregister(c)
  <2>1. \E at \in {"idle", "delete", "stop"} : \E bot : Steps(c, at, bot) /\ (at = "stop" => bot # None)
    BY <1>17, HandlerSteps
  <2>2. registered' \in 0..created' /\ UNCHANGED <<flight, created>>
    BY <1>3, <1>17 DEF Unregister
  <2> QED
    BY <1>1, <1>2, <1>3, <1>17, <2>1, <2>2 DEF Unregister, TypeOK
<1>18. CASE StopInstance(c)
  <2>1. loop' \in [Instances -> {"connect", "good", "dead", "ended"}]
    BY <1>18 DEF StopInstance, Stop, Moves, TypeOK
  <2> QED
    BY <1>1, <1>2, <1>3, <1>18, <2>1, HandlerSteps DEF StopInstance, TypeOK
<1>19. CASE DeleteSession(c) \/ UnregisterBot(c)
  BY <1>1, <1>2, <1>3, <1>19, HandlerSteps DEF DeleteSession, UnregisterBot, TypeOK
<1> QED
  BY <1>4, <1>5, <1>6, <1>7, <1>8, <1>9, <1>10, <1>11, <1>12, <1>13, <1>14, <1>15, <1>16, <1>17,
     <1>18, <1>19 DEF Handle, GetOrCreate

LEMMA TypeStep == TypeOK /\ [Next]_vars => TypeOK'
<1>1. TypeOK /\ UNCHANGED vars => TypeOK'
  BY DEF TypeOK, vars, telegramVars, redisVars, managerVars, instanceVars
<1> QED
  BY <1>1, TelegramTypes, ClientTypes, ShutdownTypes, HandleTypes DEF Next

(* The registry keeps to its types; in particular whoever starts,          *)
(* registers or stops a bot has one.                                       *)
THEOREM RegistryTypes == Spec => []TypeOK
BY TypeInit, TypeStep, PTL DEF Spec

-----------------------------------------------------------------------------
(* Single flight: one caller at a time executes the function, and those    *)
(* who wait, wait for him.                                                 *)
Active(c) == Executing(c) \/ At(c, "forget")

FlightInv ==
  /\ \A c, d \in Callers : Active(c) /\ Active(d) => c = d
  /\ \A c \in Callers : Executing(c) \/ At(c, "wait") => flight.at = "running"
  /\ \A c \in Callers : At(c, "forget") => flight.at = "done"
  /\ flight.at = "running" => \E d \in Callers : Executing(d)

Outside == {"idle", "get", "flight", "failed", "use", "reset", "stop", "delete"}
Inside == {"check", "start", "purge", "register", "list", "finish"}

LEMMA FlightInit == Init => FlightInv
BY DEF Init, FlightInv, Active, Executing, At, NoFlight

LEMMA OutsideFlight ==
  ASSUME FlightInv, NEW c \in Callers, NEW at \in Outside, NEW bot, Steps(c, at, bot),
         caller[c].at \in Outside, UNCHANGED flight
  PROVE  FlightInv'
<1>1. \A d \in Callers : (Executing(d)' <=> Executing(d)) /\ (At(d, "wait")' <=> At(d, "wait"))
                        /\ (At(d, "forget")' <=> At(d, "forget"))
  BY DEF Steps, Executing, At, Outside
<1> QED
  BY <1>1 DEF FlightInv, Active

LEMMA InsideFlight ==
  ASSUME FlightInv, NEW c \in Callers, NEW at \in Inside, NEW bot, Steps(c, at, bot),
         caller[c].at \in Inside, UNCHANGED flight
  PROVE  FlightInv'
<1>1. \A d \in Callers : (Executing(d)' <=> Executing(d)) /\ (At(d, "wait")' <=> At(d, "wait"))
                        /\ (At(d, "forget")' <=> At(d, "forget"))
  BY DEF Steps, Executing, At, Inside
<1> QED
  BY <1>1 DEF FlightInv, Active

LEMMA FlightStep == TypeOK /\ FlightInv /\ [Next]_vars => FlightInv'
<1> SUFFICES ASSUME TypeOK, FlightInv, [Next]_vars PROVE FlightInv'
  OBVIOUS
<1>1. ASSUME UNCHANGED <<caller, flight>> PROVE FlightInv'
  BY <1>1 DEF FlightInv, Active, Executing, At
<1>2. CASE DropKeys \/ RevokeToken \/ ShutdownBegins \/ StopAll \/ UNCHANGED vars
  BY <1>1, <1>2 DEF DropKeys, RevokeToken, ShutdownBegins, StopAll, StopRegistered, vars, managerVars
<1>3. ASSUME NEW i \in Instances, ClientLoop(i) \/ DropRevokedBot(i) PROVE FlightInv'
  BY <1>1, <1>3 DEF ClientLoop, DropRevokedBot, Authorized, KeyUnregistered, TokenRejected,
     ConnectionFails, DropRemoves, DropStops, DropPurges, managerVars
<1>4. ASSUME NEW c \in Callers, Begin(c) \/ Lookup(c) PROVE FlightInv'
  BY <1>4, CallerSteps, OutsideFlight DEF Begin, Lookup, managerVars, At, Outside
<1>5. ASSUME NEW c \in Callers,
             NoBot(c) \/ Respond(c) \/ Unauthorized(c) \/ Unregister(c) \/ StopInstance(c)
             \/ DeleteSession(c) \/ UnregisterBot(c)
      PROVE  FlightInv'
  <2>1. caller[c].at \in Outside /\ UNCHANGED flight
    BY <1>5 DEF NoBot, Respond, Unauthorized, Unregister, StopInstance, DeleteSession, UnregisterBot,
                managerVars, At, Outside
  <2>2. \E at \in Outside : \E bot : Steps(c, at, bot)
    BY <1>5, HandlerSteps DEF Outside
  <2> QED
    BY <2>1, <2>2, OutsideFlight
<1>6. ASSUME NEW c \in Callers,
             Create(c) \/ StartSucceeds(c) \/ StartFails(c) \/ PurgeRejected(c) \/ Register(c) \/ List(c)
      PROVE  FlightInv'
  <2>1. caller[c].at \in Inside /\ UNCHANGED flight
    BY <1>6 DEF Create, StartSucceeds, StartFails, PurgeRejected, Register, List,
                managerVars, At, Inside
  <2>2. \E at \in Inside : \E bot : Steps(c, at, bot)
    BY <1>6, CallerSteps, CreatorSteps DEF Inside
  <2> QED
    BY <2>1, <2>2, InsideFlight
<1>7. ASSUME NEW c \in Callers, EnterFlight(c) PROVE FlightInv'
  <2>1. caller[c].at = "flight"
    BY <1>7 DEF EnterFlight, At
  <2>2. CASE /\ flight.at = "free" /\ Steps(c, "check", caller[c].bot)
             /\ flight' = [at |-> "running", value |-> None]
    <3>1. \A d \in Callers : ~Active(d) /\ ~At(d, "wait")
      BY <2>2 DEF FlightInv, Active
    <3>2. Executing(c)' /\ flight'.at = "running"
      BY <2>2 DEF Steps, Executing
    <3>3. \A d \in Callers \ {c} : ~Active(d)' /\ ~At(d, "wait")'
      BY <2>2, <3>1 DEF Steps, Active, Executing, At
    <3>4. ~At(c, "wait")' /\ ~At(c, "forget")'
      BY <2>2 DEF Steps, At
    <3> QED
      BY <3>2, <3>3, <3>4 DEF FlightInv, Active
  <2>3. CASE flight.at = "running" /\ Steps(c, "wait", caller[c].bot) /\ UNCHANGED flight
    <3>1. \A d \in Callers : (Executing(d)' <=> Executing(d)) /\ (At(d, "forget")' <=> At(d, "forget"))
      BY <2>1, <2>3 DEF Steps, Executing, At
    <3> QED
      BY <2>3, <3>1 DEF FlightInv, Active
  <2>4. CASE /\ flight.at = "done" /\ UNCHANGED flight
             /\ \E at \in {"failed", "use"} : \E bot : Steps(c, at, bot)
    BY <2>1, <2>4, OutsideFlight DEF Outside
  <2> QED
    BY <1>7, <2>2, <2>3, <2>4, CallerSteps
<1>8. ASSUME NEW c \in Callers, Finish(c) PROVE FlightInv'
  <2>1. Executing(c) /\ flight'.at = "done"
    BY <1>8 DEF Finish, At, Executing
  <2>2. \A d \in Callers \ {c} : ~Active(d)
    BY <2>1 DEF FlightInv, Active
  <2>3. \A d \in Callers \ {c} : ~Active(d)' /\ ~At(d, "wait")'
    BY <1>8, <2>2, FinishSteps DEF Active, Executing, At
  <2>4. At(c, "forget")' /\ ~Executing(c)' /\ ~At(c, "wait")'
    BY <1>8, FinishSteps DEF Executing, At
  <2> QED
    BY <2>1, <2>3, <2>4 DEF FlightInv, Active
<1>9. ASSUME NEW c \in Callers, ForgetFlight(c) PROVE FlightInv'
  <2>1. At(c, "forget") /\ flight'.at = "free"
    BY <1>9 DEF ForgetFlight, NoFlight
  <2>2. \A d \in Callers \ {c} : ~Active(d) /\ ~At(d, "wait")
    BY <2>1 DEF FlightInv, Active
  <2>3. PICK at \in {"use", "failed"} : \E bot : Steps(c, at, bot)
    BY <1>9, CreatorSteps
  <2>4. \A d \in Callers : ~Active(d)' /\ ~At(d, "wait")'
    BY <2>2, <2>3 DEF Steps, Active, Executing, At
  <2> QED
    BY <2>1, <2>4 DEF FlightInv, Active
<1> QED
  BY <1>2, <1>3, <1>4, <1>5, <1>6, <1>7, <1>8, <1>9 DEF Next, Handle, GetOrCreate

(* Nobody waits in botFlight.Do for somebody who has left (flight.go:40).  *)
THEOREM NobodyWaitsForEver == Spec => []WaitersAreServed
<1>1. FlightInv => WaitersAreServed
  BY DEF FlightInv, WaitersAreServed
<1>2. Spec => []FlightInv
  BY RegistryTypes, FlightInit, FlightStep, PTL DEF Spec
<1> QED
  BY <1>1, <1>2, PTL
-----------------------------------------------------------------------------
(* No orphan: while a caller creates a bot nothing is registered, since    *)
(* only he could register one; so what he registers replaces nothing.      *)
CreatingInv == \A c \in Callers : caller[c].at \in {"start", "register"} => registered = None

Held(i) == registered = i \/ BeingCreated(i) \/ BeingStopped(i)

LEMMA OrphanInit == Init => CreatingInv /\ NoOrphan
BY DEF Init, CreatingInv, NoOrphan, Running

LEMMA CreatingKept ==
  ASSUME CreatingInv, registered' \in {registered, None},
         \A c \in Callers : caller'[c].at \in {"start", "register"} =>
            caller[c].at \in {"start", "register"} \/ registered = None
  PROVE  CreatingInv'
BY DEF CreatingInv

LEMMA CreatingStep == TypeOK /\ FlightInv /\ CreatingInv /\ [Next]_vars => CreatingInv'
<1> SUFFICES ASSUME TypeOK, FlightInv, CreatingInv, [Next]_vars PROVE CreatingInv'
  OBVIOUS
<1>1. ASSUME UNCHANGED caller, registered' \in {registered, None} PROVE CreatingInv'
  BY <1>1, CreatingKept
<1>2. CASE DropKeys \/ RevokeToken \/ ShutdownBegins \/ StopAll \/ UNCHANGED vars
  BY <1>1, <1>2 DEF DropKeys, RevokeToken, ShutdownBegins, StopAll, StopRegistered, vars, managerVars
<1>3. ASSUME NEW i \in Instances, ClientLoop(i) \/ DropRevokedBot(i) PROVE CreatingInv'
  BY <1>1, <1>3 DEF ClientLoop, DropRevokedBot, Authorized, KeyUnregistered, TokenRejected,
     ConnectionFails, DropRemoves, DropStops, DropPurges, managerVars
<1>4. ASSUME NEW c \in Callers, NEW at, NEW bot, Steps(c, at, bot),
             at \in {"start", "register"} =>
               caller[c].at \in {"start", "register"} \/ registered = None,
             registered' \in {registered, None}
      PROVE  CreatingInv'
  <2>1. \A d \in Callers : caller'[d].at \in {"start", "register"} =>
            caller[d].at \in {"start", "register"} \/ registered = None
    BY <1>4 DEF Steps
  <2> QED
    BY <1>4, <2>1, CreatingKept
<1>5. ASSUME NEW c \in Callers, Begin(c) \/ Lookup(c) \/ EnterFlight(c) \/ Create(c) PROVE CreatingInv'
  <2>1. UNCHANGED registered
    BY <1>5 DEF Begin, Lookup, EnterFlight, Create, managerVars
  <2>2. \E at, bot : Steps(c, at, bot) /\ (at \in {"start", "register"} => registered = None)
    BY <1>5, CallerSteps
  <2> QED
    BY <1>4, <2>1, <2>2
<1>6. ASSUME NEW c \in Callers,
             StartSucceeds(c) \/ StartFails(c) \/ PurgeRejected(c) \/ List(c) \/ ForgetFlight(c)
      PROVE  CreatingInv'
  <2>1. UNCHANGED registered /\ (StartSucceeds(c) => caller[c].at = "start")
    BY <1>6 DEF StartSucceeds, StartFails, PurgeRejected, List, ForgetFlight, managerVars, At
  <2>2. \E at, bot : Steps(c, at, bot) /\ (at \in {"start", "register"} => StartSucceeds(c))
    BY <1>6, CreatorSteps
  <2> QED
    BY <1>4, <2>1, <2>2
<1>7. ASSUME NEW c \in Callers, Register(c) PROVE CreatingInv'
  <2>1. Executing(c)
    BY <1>7 DEF Register, At, Executing
  <2>2. \A d \in Callers \ {c} : caller[d].at \notin {"start", "register"}
    BY <2>1 DEF FlightInv, Active, Executing
  <2>3. Steps(c, "list", caller[c].bot)
    BY <1>7, CreatorSteps
  <2> QED
    BY <2>2, <2>3 DEF Steps, CreatingInv
<1>8. ASSUME NEW c \in Callers, Finish(c) PROVE CreatingInv'
  <2>1. UNCHANGED registered
    BY <1>8 DEF Finish
  <2>2. \A d \in Callers : caller'[d].at \in {"start", "register"} =>
            caller[d].at \in {"start", "register"}
    BY <1>8, FinishSteps
  <2> QED
    BY <2>1, <2>2, CreatingKept
<1>9. ASSUME NEW c \in Callers,
             NoBot(c) \/ Respond(c) \/ Unauthorized(c) \/ Unregister(c) \/ StopInstance(c)
             \/ DeleteSession(c) \/ UnregisterBot(c)
      PROVE  CreatingInv'
  <2>1. registered' \in {registered, None}
    BY <1>9 DEF NoBot, Respond, Unauthorized, Unregister, StopInstance, DeleteSession, UnregisterBot,
                managerVars
  <2>2. \E at \in {"reset", "idle", "delete", "stop", "get"} : \E bot : Steps(c, at, bot)
    BY <1>9, HandlerSteps
  <2> QED
    BY <1>4, <2>1, <2>2
<1> QED
  BY <1>2, <1>3, <1>5, <1>6, <1>7, <1>8, <1>9 DEF Next, Handle, GetOrCreate

(* What still has a client loop after a step had one before and is still   *)
(* held; then nothing is orphaned.                                         *)
LEMMA HeldKept ==
  ASSUME NoOrphan, \A i \in Instances : Running(i)' => Running(i) /\ (Held(i) => Held(i)')
  PROVE  NoOrphan'
BY DEF NoOrphan, Held

LEMMA MoveKeepsHeld ==
  ASSUME NoOrphan, NEW c \in Callers, NEW at, NEW bot, Steps(c, at, bot),
         caller[c].at \notin {"start", "register", "stop"}, UNCHANGED <<registered, drop>>,
         \A i \in Instances : Running(i)' => Running(i)
  PROVE  NoOrphan'
<1>1. \A i \in Instances : BeingCreated(i) => BeingCreated(i)'
  BY DEF Steps, BeingCreated
<1>2. \A i \in Instances : BeingStopped(i) => BeingStopped(i)'
  BY DEF Steps, BeingStopped, At
<1> QED
  BY <1>1, <1>2, HeldKept DEF Held

(* A client loop moves on, or ends.                                        *)
LEMMA LoopMoves ==
  ASSUME TypeOK, NEW i \in Instances, NEW at, Moves(i, at), at \in {"connect", "good", "dead", "ended"},
         at # "ended" => Running(i)
  PROVE  /\ \A j \in Instances : Running(j)' => Running(j)
         /\ at = "ended" => ~Running(i)'
BY DEF TypeOK, Moves, Running

LEMMA ClientOrphan ==
  ASSUME TypeOK, NoOrphan, NEW i \in Instances, ClientLoop(i) \/ DropRevokedBot(i)
  PROVE  NoOrphan'
<1>1. UNCHANGED caller
  BY DEF ClientLoop, DropRevokedBot, Authorized, KeyUnregistered, TokenRejected,
         ConnectionFails, DropRemoves, DropStops, DropPurges
<1>2. \A j \in Instances : BeingCreated(j) => BeingCreated(j)'
  BY <1>1 DEF BeingCreated
<1>3. CASE Authorized(i) \/ KeyUnregistered(i) \/ ConnectionFails(i)
  <2>1. Running(i) /\ UNCHANGED <<registered, drop>>
    BY <1>3 DEF Authorized, KeyUnregistered, ConnectionFails, Running, managerVars
  <2>2. \E at \in {"connect", "good", "dead", "ended"} : Moves(i, at)
    BY <1>3 DEF Authorized, KeyUnregistered, ConnectionFails
  <2>3. \A j \in Instances : Running(j)' => Running(j)
    BY <2>1, <2>2, LoopMoves
  <2>4. \A j \in Instances : BeingStopped(j) => BeingStopped(j)'
    BY <1>1, <2>1 DEF BeingStopped, At
  <2> QED
    BY <1>2, <2>1, <2>3, <2>4, HeldKept DEF Held
<1>4. CASE TokenRejected(i) \/ DropStops(i)
  <2>1. Moves(i, "ended") /\ UNCHANGED registered
    BY <1>4 DEF TokenRejected, DropStops, Stop, managerVars
  <2>2. ~Running(i)' /\ \A j \in Instances : Running(j)' => Running(j)
    BY <2>1, LoopMoves
  <2>3. \A j \in Instances \ {i} : drop'[j] = drop[j]
    BY <1>4 DEF TokenRejected, DropStops, TypeOK
  <2>4. \A j \in Instances \ {i} : BeingStopped(j) => BeingStopped(j)'
    BY <1>1, <2>3 DEF BeingStopped, At
  <2> QED
    BY <1>2, <2>1, <2>2, <2>4, HeldKept DEF Held
<1>5. CASE DropRemoves(i)
  <2>1. drop' = [drop EXCEPT ![i] = "stop"] /\ UNCHANGED loop
        /\ registered' = (IF registered = i THEN None ELSE registered)
    BY <1>5 DEF DropRemoves
  <2>2. BeingStopped(i)'
    BY <2>1 DEF BeingStopped, TypeOK
  <2>3. \A j \in Instances \ {i} : BeingStopped(j) => BeingStopped(j)'
    BY <1>1, <2>1 DEF BeingStopped, At, TypeOK
  <2>4. \A j \in Instances : Running(j)' => Running(j)
    BY <2>1 DEF Running
  <2> QED
    BY <1>2, <2>1, <2>2, <2>3, <2>4, HeldKept DEF Held
<1>6. CASE DropPurges(i)
  <2>1. drop[i] = "purge" /\ drop' = [drop EXCEPT ![i] = "done"] /\ UNCHANGED <<loop, registered>>
    BY <1>6 DEF DropPurges, managerVars
  <2>2. \A j \in Instances : BeingStopped(j) => BeingStopped(j)'
    BY <1>1, <2>1 DEF BeingStopped, At, TypeOK
  <2>3. \A j \in Instances : Running(j)' => Running(j)
    BY <2>1 DEF Running
  <2> QED
    BY <1>2, <2>1, <2>2, <2>3, HeldKept DEF Held
<1> QED
  BY <1>3, <1>4, <1>5, <1>6 DEF ClientLoop, DropRevokedBot

LEMMA CallerOrphan ==
  ASSUME TypeOK, FlightInv, CreatingInv, NoOrphan, NEW c \in Callers, Begin(c) \/ Handle(c)
  PROVE  NoOrphan'
<1> USE DEF telegramVars, redisVars, managerVars, instanceVars
<1>1. ASSUME UNCHANGED loop PROVE \A i \in Instances : Running(i)' => Running(i)
  BY <1>1 DEF Running
<1>2. CASE Begin(c) \/ Lookup(c) \/ EnterFlight(c)
  <2>1. UNCHANGED <<loop, registered, drop>> /\ caller[c].at \in {"idle", "get", "flight"}
    BY <1>2 DEF Begin, Lookup, EnterFlight, At
  <2>2. \E at, bot : Steps(c, at, bot)
    BY <1>2, CallerSteps
  <2> QED
    BY <1>1, <2>1, <2>2, MoveKeepsHeld
<1>3. CASE Create(c)
  <2>1. caller[c].at = "check" /\ UNCHANGED <<registered, drop>>
    BY <1>3 DEF Create, At
  <2>2. CASE UNCHANGED loop /\ \E bot : Steps(c, "finish", bot)
    BY <1>1, <2>1, <2>2, MoveKeepsHeld
  <2>3. CASE /\ Steps(c, "start", created + 1) /\ created < MaxInstances
             /\ loop' = [loop EXCEPT ![created + 1] = "connect"]
    <3> PICK n : n = created + 1
      OBVIOUS
    <3>1. \A i \in Instances \ {n} : Running(i)' => Running(i)
      BY <2>3 DEF Running, TypeOK
    <3>2. BeingCreated(n)'
      BY <2>3 DEF Steps, BeingCreated
    <3>3. \A i \in Instances : BeingCreated(i) => BeingCreated(i)'
      BY <2>1, <2>3 DEF Steps, BeingCreated
    <3>4. \A i \in Instances : BeingStopped(i) => BeingStopped(i)'
      BY <2>1, <2>3 DEF Steps, BeingStopped, At
    <3> QED
      BY <2>1, <3>1, <3>2, <3>3, <3>4 DEF NoOrphan
  <2> QED
    BY <1>3, <2>2, <2>3, CallerSteps
<1>4. CASE PurgeRejected(c) \/ List(c) \/ ForgetFlight(c)
  <2>1. UNCHANGED <<loop, registered, drop>> /\ caller[c].at \in {"purge", "list", "forget"}
    BY <1>4 DEF PurgeRejected, List, ForgetFlight, At
  <2>2. \E at, bot : Steps(c, at, bot)
    BY <1>4, CreatorSteps
  <2> QED
    BY <1>1, <2>1, <2>2, MoveKeepsHeld
<1>5. CASE StartSucceeds(c)
  <2>1. UNCHANGED <<loop, registered, drop>> /\ caller[c].at = "start" /\ Steps(c, "register", caller[c].bot)
    BY <1>5, CreatorSteps DEF StartSucceeds, At
  <2>2. \A i \in Instances : BeingCreated(i) => BeingCreated(i)'
    BY <2>1 DEF Steps, BeingCreated
  <2>3. \A i \in Instances : BeingStopped(i) => BeingStopped(i)'
    BY <2>1 DEF Steps, BeingStopped, At
  <2> QED
    BY <1>1, <2>1, <2>2, <2>3, HeldKept DEF Held
<1>6. CASE StartFails(c) \/ StopInstance(c)
  <2>1. PICK i \in Instances : i = caller[c].bot
    <3>1. caller[c].at \in {"start", "stop"}
      BY <1>6 DEF StartFails, StopInstance, At
    <3> QED
      BY <3>1 DEF TypeOK
  <2>2. Moves(i, "ended") /\ UNCHANGED <<registered, drop>>
    BY <1>6, <2>1 DEF StartFails, StopInstance, Stop
  <2>3. ~Running(i)' /\ \A j \in Instances : Running(j)' => Running(j)
    BY <2>2, LoopMoves
  <2>4. \E at, bot : Steps(c, at, bot)
    BY <1>6, CreatorSteps, HandlerSteps
  <2>5. \A j \in Instances \ {i} : BeingCreated(j) => BeingCreated(j)'
    BY <2>1, <2>4 DEF Steps, BeingCreated
  <2>6. \A j \in Instances \ {i} : BeingStopped(j) => BeingStopped(j)'
    BY <2>1, <2>2, <2>4 DEF Steps, BeingStopped, At
  <2> QED
    BY <2>2, <2>3, <2>5, <2>6, HeldKept DEF Held
<1>7. CASE Register(c)
  <2>1. registered' = caller[c].bot /\ caller[c].at = "register" /\ Steps(c, "list", caller[c].bot)
        /\ UNCHANGED <<loop, drop>>
    BY <1>7, CreatorSteps DEF Register, At
  <2>2. registered = None
    BY <2>1 DEF CreatingInv
  <2>3. \A i \in Instances : BeingCreated(i) => BeingCreated(i)' \/ i = registered'
    BY <2>1 DEF Steps, BeingCreated
  <2>4. \A i \in Instances : BeingStopped(i) => BeingStopped(i)'
    BY <2>1 DEF Steps, BeingStopped, At
  <2> QED
    BY <1>1, <2>1, <2>2, <2>3, <2>4, HeldKept DEF Held
<1>8. CASE Finish(c)
  <2>1. UNCHANGED <<loop, registered, drop>> /\ caller[c].at = "finish"
    BY <1>8 DEF Finish, At
  <2>2. \A d \in Callers : caller[d].at \in {"start", "register", "stop"} => caller'[d] = caller[d]
    BY <1>8, <2>1, FinishSteps DEF At
  <2>3. \A i \in Instances : BeingCreated(i) => BeingCreated(i)'
    BY <2>2 DEF BeingCreated
  <2>4. \A i \in Instances : BeingStopped(i) => BeingStopped(i)'
    BY <2>1, <2>2 DEF BeingStopped, At
  <2> QED
    BY <1>1, <2>1, <2>3, <2>4, HeldKept DEF Held
<1>9. CASE NoBot(c) \/ Respond(c) \/ Unauthorized(c) \/ DeleteSession(c) \/ UnregisterBot(c)
  <2>1. UNCHANGED <<loop, registered, drop>> /\ caller[c].at \in {"failed", "use", "delete"}
    BY <1>9 DEF NoBot, Respond, Unauthorized, DeleteSession, UnregisterBot, At
  <2>2. \E at, bot : Steps(c, at, bot)
    BY <1>9, HandlerSteps
  <2> QED
    BY <1>1, <2>1, <2>2, MoveKeepsHeld
<1>10. CASE Unregister(c)
  <2>1. UNCHANGED <<loop, drop>> /\ registered' = None /\ caller[c].at \in {"reset", "use"}
    BY <1>10 DEF Unregister, At
  <2>2. CASE registered = None /\ \E at, bot : Steps(c, at, bot)
    BY <1>1, <2>1, <2>2, MoveKeepsHeld
  <2>3. CASE registered # None /\ Steps(c, "stop", registered)
    <3>1. \A i \in Instances : BeingCreated(i) => BeingCreated(i)'
      BY <2>1, <2>3 DEF Steps, BeingCreated
    <3>2. \A i \in Instances : BeingStopped(i) => BeingStopped(i)'
      BY <2>1, <2>3 DEF Steps, BeingStopped, At
    <3>3. \A i \in Instances : registered = i => BeingStopped(i)'
      BY <2>3 DEF Steps, BeingStopped, At
    <3> QED
      BY <1>1, <2>1, <3>1, <3>2, <3>3, HeldKept DEF Held
  <2> QED
    BY <1>10, <2>2, <2>3, HandlerSteps
<1> QED
  BY <1>2, <1>3, <1>4, <1>5, <1>6, <1>7, <1>8, <1>9, <1>10 DEF Handle, GetOrCreate

LEMMA OrphanStep == TypeOK /\ FlightInv /\ CreatingInv /\ NoOrphan /\ [Next]_vars => NoOrphan'
<1> SUFFICES ASSUME TypeOK, FlightInv, CreatingInv, NoOrphan, [Next]_vars PROVE NoOrphan'
  OBVIOUS
<1>1. ASSUME UNCHANGED <<caller, drop>> PROVE \A i \in Instances :
        (BeingCreated(i) => BeingCreated(i)') /\ (BeingStopped(i) => BeingStopped(i)')
  BY <1>1 DEF BeingCreated, BeingStopped, At
<1>2. CASE DropKeys \/ RevokeToken \/ ShutdownBegins \/ UNCHANGED vars
  <2>1. UNCHANGED <<caller, drop, registered>>
    BY <1>2 DEF DropKeys, RevokeToken, ShutdownBegins, vars, managerVars, instanceVars
  <2>2. \A i \in Instances : Running(i)' => Running(i)
    BY <1>2 DEF DropKeys, RevokeToken, ShutdownBegins, vars, instanceVars, ForgetKeys, Forgets,
                Running, TypeOK
  <2> QED
    BY <1>1, <2>1, <2>2, HeldKept DEF Held
<1>3. CASE StopAll
  <2>1. UNCHANGED <<caller, drop>> /\ registered' = None
        /\ (IF registered = None THEN UNCHANGED loop ELSE Stop(registered))
    BY <1>3 DEF StopAll, StopRegistered
  <2>2. CASE registered = None
    BY <1>1, <2>1, <2>2, HeldKept DEF Held, Running
  <2>3. CASE registered # None
    <3>1. registered \in Instances
      BY <2>3 DEF TypeOK
    <3> PICK r \in Instances : r = registered
      BY <3>1
    <3>2. ~Running(r)' /\ \A j \in Instances : Running(j)' => Running(j)
      BY <2>1, <2>3, LoopMoves DEF Stop
    <3> QED
      BY <1>1, <2>1, <3>2, HeldKept DEF Held
  <2> QED
    BY <2>2, <2>3
<1> QED
  BY <1>2, <1>3, ClientOrphan, CallerOrphan DEF Next

(* No duplicate session is left behind (manager.go:150-260): what has a    *)
(* client loop can be found, or somebody is about to register or stop it.  *)
THEOREM NothingIsOrphaned == Spec => []NoOrphan
<1>1. TypeOK /\ FlightInv /\ CreatingInv /\ NoOrphan /\ [Next]_vars => (CreatingInv /\ NoOrphan)'
  BY CreatingStep, OrphanStep
<1>2. Spec => [](TypeOK /\ FlightInv)
  BY RegistryTypes, FlightInit, FlightStep, PTL DEF Spec
<1> QED
  BY <1>1, <1>2, OrphanInit, PTL DEF Spec

(* One session at a time receives the updates: two instances with a client *)
(* loop are not both registered, and not both being created, so somebody   *)
(* is about to stop one.                                                   *)
THEOREM OneSessionAtATime == Spec => []OneSession
<1>1. TypeOK /\ FlightInv /\ CreatingInv /\ NoOrphan => OneSession
  <2> SUFFICES ASSUME TypeOK, FlightInv, CreatingInv, NoOrphan,
                      NEW i \in Instances, NEW j \in Instances,
                      Running(i), Running(j), i # j
               PROVE  BeingStopped(i) \/ BeingStopped(j)
    BY DEF OneSession
  <2>1. ~(BeingCreated(i) /\ BeingCreated(j))
    BY DEF BeingCreated, FlightInv, Active, Executing
  <2>2. BeingCreated(i) \/ BeingCreated(j) => registered = None
    BY DEF BeingCreated, CreatingInv
  <2> QED
    BY <2>1, <2>2 DEF NoOrphan
<1>2. TypeOK /\ FlightInv /\ CreatingInv /\ [Next]_vars => CreatingInv'
  BY CreatingStep
<1>3. Spec => [](TypeOK /\ FlightInv)
  BY RegistryTypes, FlightInit, FlightStep, PTL DEF Spec
<1> QED
  BY <1>1, <1>2, <1>3, OrphanInit, NothingIsOrphaned, PTL DEF Spec

-----------------------------------------------------------------------------
(* The shutdown: after StopAll, when nothing was restored meanwhile, nobody*)
(* is in GetOrCreate and nothing is registered.                            *)
DownInv == main = "down" /\ "stop" \notin midway =>
             registered = None /\ \A c \in Callers : At(c, "idle")

LEMMA DownInit == Init => DownInv
BY DEF Init, DownInv

LEMMA DownStep == TypeOK /\ DownInv /\ [Next]_vars => DownInv'
<1> SUFFICES ASSUME TypeOK, DownInv, [Next]_vars PROVE DownInv'
  OBVIOUS
<1>1. ASSUME UNCHANGED <<main, caller>>, registered' \in {registered, None}, midway \subseteq midway'
      PROVE  DownInv'
  BY <1>1 DEF DownInv, At
<1>2. CASE DropKeys \/ RevokeToken \/ UNCHANGED vars
  BY <1>1, <1>2 DEF DropKeys, RevokeToken, vars, managerVars
<1>3. CASE ShutdownBegins
  BY <1>3 DEF ShutdownBegins, DownInv
<1>4. CASE StopAll
  BY <1>4 DEF StopAll, StopRegistered, DownInv, At
<1>5. ASSUME NEW i \in Instances, ClientLoop(i) \/ DropRevokedBot(i) PROVE DownInv'
  BY <1>1, <1>5 DEF ClientLoop, DropRevokedBot, Authorized, KeyUnregistered, TokenRejected,
     ConnectionFails, DropRemoves, DropStops, DropPurges, managerVars
<1>6. ASSUME NEW c \in Callers, Begin(c) PROVE DownInv'
  BY <1>6 DEF Begin, DownInv, managerVars
<1>7. ASSUME NEW c \in Callers, Handle(c) PROVE DownInv'
  <2>1. ~At(c, "idle") /\ UNCHANGED <<main, midway>>
    BY <1>7 DEF Handle, GetOrCreate, Lookup, EnterFlight, Create, StartSucceeds, StartFails,
       PurgeRejected, Register, List, Finish, ForgetFlight, NoBot, Respond, Unauthorized, Unregister,
       StopInstance, DeleteSession, UnregisterBot, At, managerVars
  <2> QED
    BY <2>1 DEF DownInv
<1> QED
  BY <1>2, <1>3, <1>4, <1>5, <1>6, <1>7 DEF Next

(* Nothing runs on after StopAll (main.go), but for what LoadAndStartAll   *)
(* restored beside it.                                                     *)
THEOREM NothingRunsAfterShutdown == Spec => []ShutdownStops
<1>1. DownInv /\ NoOrphan => ShutdownStops
  BY DEF DownInv, NoOrphan, ShutdownStops, BeingCreated, At
<1>2. Spec => []DownInv
  BY RegistryTypes, DownInit, DownStep, PTL DEF Spec
<1> QED
  BY <1>1, <1>2, NothingIsOrphaned, PTL

-----------------------------------------------------------------------------
(* Revocation: the instances not created yet have done nothing, and once   *)
(* the token is revoked nothing becomes ready, so nothing is listed again. *)
FreshInv == \A i \in Instances : i > created => loop[i] = "ended" /\ outcome[i] = "none"

HalfCreated(c) ==
  \/ caller[c].at \in {"register", "list"}
  \/ At(c, "start") /\ outcome[caller[c].bot] = "ready"

Rejected == revoked /\ "revoke" \notin midway

RevokedInv ==
  /\ \A i \in Instances : drop[i] # "no" => revoked
  /\ Rejected => session # "good" /\ \A c \in Callers : ~HalfCreated(c)
  /\ Rejected => RevokedIsForgotten

LEMMA RevokedInit == Init => FreshInv /\ RevokedInv
BY DEF Init, FreshInv, RevokedInv, Rejected

LEMMA FreshStep == TypeOK /\ FreshInv /\ [Next]_vars => FreshInv'
<1> SUFFICES ASSUME TypeOK, FreshInv, [Next]_vars PROVE FreshInv'
  OBVIOUS
<1>1. ASSUME NEW i \in Instances, NEW at, Moves(i, at), UNCHANGED created,
             \A j \in Instances \ {i} : outcome'[j] = outcome[j],
             i <= created \/ (at = "ended" /\ UNCHANGED outcome)
      PROVE  FreshInv'
  BY <1>1 DEF FreshInv, Moves, TypeOK
<1>2. CASE DropKeys \/ RevokeToken
  BY <1>2 DEF DropKeys, RevokeToken, ForgetKeys, Forgets, FreshInv, TypeOK
<1>3. CASE ShutdownBegins \/ UNCHANGED vars
  BY <1>3 DEF ShutdownBegins, vars, instanceVars, FreshInv
<1>4. CASE StopAll
  <2>1. CASE registered = None
    BY <1>4, <2>1 DEF StopAll, StopRegistered, FreshInv
  <2>2. CASE registered # None
    <3> PICK r \in Instances : r = registered
      BY <2>2 DEF TypeOK
    <3> QED
      BY <1>1, <1>4, <2>2 DEF StopAll, StopRegistered, Stop
  <2> QED
    BY <2>1, <2>2
<1>5. ASSUME NEW i \in Instances, ClientLoop(i) PROVE FreshInv'
  <2>1. \E at : Moves(i, at)
    BY <1>5 DEF ClientLoop, Authorized, KeyUnregistered, TokenRejected, ConnectionFails
  <2>2. Running(i) /\ UNCHANGED created /\ \A j \in Instances \ {i} : outcome'[j] = outcome[j]
    BY <1>5 DEF ClientLoop, Authorized, KeyUnregistered, TokenRejected, ConnectionFails, Running, TypeOK
  <2>3. i <= created
    BY <2>2 DEF FreshInv, Running, TypeOK
  <2> QED
    BY <1>1, <2>1, <2>2, <2>3
<1>6. ASSUME NEW i \in Instances, DropRevokedBot(i) PROVE FreshInv'
  <2>1. CASE DropStops(i)
    BY <1>1, <2>1 DEF DropStops, Stop
  <2>2. CASE DropRemoves(i) \/ DropPurges(i)
    BY <2>2 DEF DropRemoves, DropPurges, FreshInv
  <2> QED
    BY <1>6, <2>1, <2>2 DEF DropRevokedBot
<1>7. ASSUME NEW c \in Callers, StartFails(c) \/ StopInstance(c) PROVE FreshInv'
  <2> PICK i \in Instances : i = caller[c].bot
    <3>1. caller[c].at \in {"start", "stop"}
      BY <1>7 DEF StartFails, StopInstance, At
    <3> QED
      BY <3>1 DEF TypeOK
  <2>1. Stop(i) /\ UNCHANGED <<created, outcome>>
    BY <1>7 DEF StartFails, StopInstance
  <2> QED
    BY <1>1, <2>1 DEF Stop
<1>8. ASSUME NEW c \in Callers, Create(c) PROVE FreshInv'
  <2>1. \/ UNCHANGED <<created, loop, outcome>>
        \/ /\ UNCHANGED outcome /\ created' = created + 1
           /\ loop' = [loop EXCEPT ![created + 1] = "connect"]
    BY <1>8 DEF Create
  <2> QED
    BY <2>1 DEF FreshInv, TypeOK
<1>9. ASSUME NEW c \in Callers,
             Begin(c) \/ Handle(c), ~Create(c), ~StartFails(c), ~StopInstance(c)
      PROVE  FreshInv'
  <2>1. UNCHANGED <<created, loop, outcome>>
    BY <1>9 DEF Begin, Handle, GetOrCreate, Lookup, EnterFlight, StartSucceeds,
       PurgeRejected, Register, List, Finish, ForgetFlight, NoBot, Respond, Unauthorized, Unregister,
       DeleteSession, UnregisterBot, instanceVars
  <2> QED
    BY <2>1 DEF FreshInv
<1> QED
  BY <1>2, <1>3, <1>4, <1>5, <1>6, <1>7, <1>8, <1>9 DEF Next

(* Telegram, the shutdown and the client loops.                            *)
LEMMA RevokedWorld ==
  ASSUME TypeOK, RevokedInv,
         DropKeys \/ RevokeToken \/ ShutdownBegins \/ StopAll \/ UNCHANGED vars
         \/ \E i \in Instances : ClientLoop(i) \/ DropRevokedBot(i)
  PROVE  RevokedInv'
<1> USE DEF telegramVars, redisVars, managerVars, instanceVars
<1>1. ASSUME UNCHANGED <<revoked, listed, drop, caller, outcome>>, midway \subseteq midway',
             session' \in {session, "none", "dead"}
      PROVE  RevokedInv'
  BY <1>1 DEF RevokedInv, Rejected, RevokedIsForgotten, HalfCreated, At
<1>2. CASE DropKeys \/ ShutdownBegins \/ UNCHANGED vars
  BY <1>1, <1>2 DEF DropKeys, ForgetKeys, Forgets, ShutdownBegins, vars
<1>3. CASE StopAll
  BY <1>1, <1>3 DEF StopAll, StopRegistered
<1>4. CASE RevokeToken
  <2>1. ~revoked /\ session' # "good" /\ UNCHANGED <<listed, drop, caller, outcome>>
    BY <1>4 DEF RevokeToken, ForgetKeys, Forgets
  <2>2. \A i \in Instances : drop[i] = "no"
    BY <2>1 DEF RevokedInv
  <2>3. \/ "revoke" \in midway'
        \/ \A c \in Callers : ~HalfCreated(c)
    BY <1>4 DEF RevokeToken, HalfCreated, At
  <2> QED
    BY <2>1, <2>2, <2>3 DEF RevokedInv, Rejected, RevokedIsForgotten, HalfCreated, At
<1>5. ASSUME NEW i \in Instances, Authorized(i) PROVE RevokedInv'
  <2>1. ~Rejected /\ UNCHANGED <<revoked, midway, drop>>
    BY <1>5 DEF Authorized, RevokedInv, Rejected
  <2> QED
    BY <2>1 DEF RevokedInv, Rejected
<1>6. ASSUME NEW i \in Instances, KeyUnregistered(i) \/ ConnectionFails(i) PROVE RevokedInv'
  BY <1>1, <1>6 DEF KeyUnregistered, ConnectionFails
<1>7. ASSUME NEW i \in Instances, TokenRejected(i) PROVE RevokedInv'
  <2>1. revoked /\ UNCHANGED <<revoked, midway, session, listed, caller>>
    BY <1>7 DEF TokenRejected
  <2>2. \A c \in Callers : HalfCreated(c)' => HalfCreated(c)
    BY <1>7, <2>1 DEF TokenRejected, HalfCreated, At, TypeOK
  <2>3. \A j \in Instances : drop'[j] = "done" => drop[j] = "done"
    BY <1>7 DEF TokenRejected, TypeOK
  <2> QED
    BY <2>1, <2>2, <2>3 DEF RevokedInv, Rejected, RevokedIsForgotten
<1>8. ASSUME NEW i \in Instances, DropRevokedBot(i) PROVE RevokedInv'
  <2>1. revoked /\ UNCHANGED <<revoked, midway, caller, outcome>>
    BY <1>8 DEF DropRevokedBot, DropRemoves, DropStops, DropPurges, RevokedInv
  <2>2. \A c \in Callers : HalfCreated(c)' => HalfCreated(c)
    BY <2>1 DEF HalfCreated, At
  <2>3. session' \in {session, "none"}
    BY <1>8 DEF DropRevokedBot, DropRemoves, DropStops, DropPurges, PurgeToken
  <2>4. \/ ~listed'
        \/ UNCHANGED listed /\ \A j \in Instances : drop'[j] = "done" => drop[j] = "done"
    BY <1>8 DEF DropRevokedBot, DropRemoves, DropStops, DropPurges, PurgeToken, TypeOK
  <2> QED
    BY <2>1, <2>2, <2>3, <2>4 DEF RevokedInv, Rejected, RevokedIsForgotten
<1> QED
  BY <1>2, <1>3, <1>4, <1>5, <1>6, <1>7, <1>8 DEF ClientLoop

(* The callers.                                                            *)
LEMMA RevokedCaller ==
  ASSUME TypeOK, FreshInv, RevokedInv, NEW c \in Callers, Begin(c) \/ Handle(c)
  PROVE  RevokedInv'
<1> USE DEF telegramVars, redisVars, managerVars, instanceVars
<1>1. UNCHANGED <<revoked, drop, outcome>> /\ session' \in {session, "none"} /\ midway \subseteq midway'
  BY DEF Begin, Handle, GetOrCreate, Lookup, EnterFlight, Create, StartSucceeds, StartFails,
     PurgeRejected, Register, List, Finish, ForgetFlight, NoBot, Respond, Unauthorized, Unregister,
     StopInstance, DeleteSession, UnregisterBot, PurgeToken
<1>2. Rejected' => Rejected
  BY <1>1 DEF Rejected
<1>3. SUFFICES ASSUME Rejected
               PROVE  listed' \in {listed, FALSE} /\ \A d \in Callers : ~HalfCreated(d)'
  <2>1. (\A i \in Instances : drop[i] # "no" => revoked)'
    BY <1>1 DEF RevokedInv
  <2>2. Rejected' => session' # "good"
    BY <1>1, <1>2 DEF RevokedInv
  <2>3. ASSUME listed' \in {listed, FALSE} PROVE RevokedIsForgotten => RevokedIsForgotten'
    BY <1>1, <2>3 DEF RevokedIsForgotten
  <2> QED
    BY <1>2, <2>1, <2>2, <2>3 DEF RevokedInv
<1>4. \A d \in Callers : ~HalfCreated(d)
  BY <1>3 DEF RevokedInv
<1>5. ASSUME NEW at, at \notin {"register", "list", "start"}, NEW bot, Steps(c, at, bot)
      PROVE  \A d \in Callers : ~HalfCreated(d)'
  BY <1>1, <1>4, <1>5 DEF Steps, HalfCreated, At
<1>6. ~List(c) /\ ~Register(c) /\ ~StartSucceeds(c)
  BY <1>4 DEF List, Register, StartSucceeds, HalfCreated, At
<1>7. listed' \in {listed, FALSE}
  BY <1>6 DEF Begin, Handle, GetOrCreate, Lookup, EnterFlight, Create, StartFails,
     PurgeRejected, Finish, ForgetFlight, NoBot, Respond, Unauthorized, Unregister,
     StopInstance, DeleteSession, UnregisterBot, PurgeToken
<1>8. \A d \in Callers : ~HalfCreated(d)'
  <2>1. CASE Begin(c) \/ Lookup(c) \/ EnterFlight(c)
    <3>1. \E at \in {"get", "use", "flight", "check", "wait", "failed"} : \E bot : Steps(c, at, bot)
      BY <2>1, CallerSteps
    <3> QED
      BY <1>5, <3>1
  <2>2. CASE Create(c)
    <3>1. CASE \E bot : Steps(c, "finish", bot)
      BY <1>5, <3>1
    <3>2. CASE Steps(c, "start", created + 1) /\ created < MaxInstances
      <4>1. outcome[created + 1] = "none"
        BY <3>2 DEF FreshInv, TypeOK
      <4> QED
        BY <1>1, <1>4, <3>2, <4>1 DEF Steps, HalfCreated, At
    <3> QED
      BY <2>2, <3>1, <3>2, CallerSteps
  <2>3. CASE StartFails(c) \/ PurgeRejected(c) \/ ForgetFlight(c)
    <3>1. \E at \in {"purge", "finish", "failed", "use"} : \E bot : Steps(c, at, bot)
      BY <2>3, CreatorSteps
    <3> QED
      BY <1>5, <3>1
  <2>4. CASE Finish(c)
    <3>1. \A d \in Callers : caller'[d].at \in {"register", "list", "start"} => caller'[d] = caller[d]
      BY <2>4, FinishSteps
    <3> QED
      BY <1>1, <1>4, <3>1 DEF HalfCreated, At
  <2>5. CASE NoBot(c) \/ Respond(c) \/ Unauthorized(c) \/ Unregister(c) \/ StopInstance(c)
             \/ DeleteSession(c) \/ UnregisterBot(c)
    <3>1. \E at \in {"reset", "idle", "delete", "stop", "get"} : \E bot : Steps(c, at, bot)
      BY <2>5, HandlerSteps
    <3> QED
      BY <1>5, <3>1
  <2> QED
    BY <1>6, <2>1, <2>2, <2>3, <2>4, <2>5 DEF Handle, GetOrCreate
<1> QED
  BY <1>7, <1>8

LEMMA RevokedStep == TypeOK /\ FreshInv /\ RevokedInv /\ [Next]_vars => RevokedInv'
BY RevokedWorld, RevokedCaller DEF Next

(* A revoked token is not restored after a restart (manager.go:196), but   *)
(* for the one whose revocation met a bot that was half created.           *)
THEOREM RevokedStaysForgotten == Spec => []RevokedIsForgotten
<1>1. RevokedInv => RevokedIsForgotten
  BY DEF RevokedInv, Rejected, RevokedIsForgotten
<1>2. Spec => [](FreshInv /\ RevokedInv)
  BY RegistryTypes, RevokedInit, FreshStep, RevokedStep, PTL DEF Spec
<1> QED
  BY <1>1, <1>2, PTL
================================================================================
