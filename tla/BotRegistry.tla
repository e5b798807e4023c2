----------------------------- MODULE BotRegistry -----------------------------
(***************************************************************************)
(* The sessions of one bot token: Manager and botFlight (manager.go,       *)
(* flight.go), the client loop of Start and Stop (bot.go), the handlers    *)
(* that reset a bot and try again (api/server.go), and the shutdown of     *)
(* cmd/server/main.go.  Tokens do not share anything but the mutex.        *)
(*                                                                         *)
(* A BotInstance is a number; instances are created one after the other.   *)
(* A session, in Redis or in a client, is an auth key that Telegram still  *)
(* knows ("good"), one it refuses whatever is asked ("dead"), or none.     *)
(* The steps of a handler, of a client loop and of dropRevokedBot          *)
(* interleave.  The cached profile and the webhook go with the session and *)
(* the registration.  Redis works; what a started bot does besides         *)
(* (intake, webhook, watchdog) is in the other modules.                    *)
(***************************************************************************)
EXTENDS Naturals, FiniteSets

CONSTANTS
  Callers,       \* goroutines that call GetOrCreate: requests and restores
  MaxInstances,  \* bound: instances created
  MaxFaults,     \* bound: connections that break or fail, auth keys dropped
  Jobs,          \* what callers do: "send", "close", "restore"
  MayRevoke      \* the token may be revoked

Instances == 1..MaxInstances
None == 0

ASSUME RegistryAssumption ==
  /\ MaxInstances \in Nat /\ MaxFaults \in Nat
  /\ Jobs \subseteq {"send", "close", "restore"} /\ MayRevoke \in BOOLEAN

VARIABLES
  \* Telegram
  revoked,     \* it rejects the token
  faults,      \* connections broken and keys dropped so far
  \* Redis
  listed,      \* the token is in telego:bots; telego:webhooks is purged with it
  session,     \* telego:session of the token
  \* the manager
  registered,  \* m.bots[token]
  flight,      \* m.flight.m[token]: whether it is done, and its result
  main,        \* "serving", "draining" (srv.Shutdown), "down" (after StopAll)
  \* the instances
  created,     \* instances so far
  loop,        \* where the client loop is; connected, it has a good or a dead key
  outcome,     \* b.ready is closed ("ready"), errChan holds "revoked", or neither
  drop,        \* where dropRevokedBot is
  \* the requests
  caller,
  \* history
  midway       \* what came while a bot was being created: "revoke", "stop"

telegramVars == <<revoked, faults>>
redisVars == <<listed, session>>
managerVars == <<registered, flight, main>>
instanceVars == <<created, loop, outcome, drop>>
vars == <<telegramVars, redisVars, managerVars, instanceVars, caller, midway>>

NoFlight == [at |-> "free", value |-> None]
Idle == [at |-> "idle", job |-> "send", bot |-> None, again |-> FALSE]

Init ==
  /\ revoked = FALSE /\ faults = 0
  /\ listed \in BOOLEAN /\ session \in (IF listed THEN {"none", "good"} ELSE {"none"})
  /\ registered = None /\ flight = NoFlight /\ main = "serving"
  /\ created = 0
  /\ loop = [i \in Instances |-> "ended"]
  /\ outcome = [i \in Instances |-> "none"]
  /\ drop = [i \in Instances |-> "no"]
  /\ caller = [c \in Callers |-> Idle] /\ midway = {}

-----------------------------------------------------------------------------
(* Telegram.                                                               *)
At(c, at) == caller[c].at = at
Forgets(k) == IF k = "good" THEN "dead" ELSE k
ForgetKeys ==
  /\ session' = Forgets(session) /\ loop' = [i \in Instances |-> Forgets(loop[i])]

(* It drops the bot's keys: all their sessions become AUTH_KEY_UNREGISTERED*)
DropKeys ==
  /\ faults < MaxFaults
  /\ faults' = faults + 1 /\ ForgetKeys
  /\ UNCHANGED <<revoked, listed, managerVars, created, outcome, drop, caller, midway>>

RevokeToken ==
  /\ MayRevoke /\ ~revoked
  /\ revoked' = TRUE /\ ForgetKeys
  /\ LET halfCreated == \E c \in Callers :
           \/ caller[c].at \in {"register", "list"}
           \/ At(c, "start") /\ outcome[caller[c].bot] = "ready"
     IN midway' = midway \cup (IF halfCreated THEN {"revoke"} ELSE {})
  /\ UNCHANGED <<faults, listed, managerVars, created, outcome, drop, caller>>

-----------------------------------------------------------------------------
(* The client loop of Start.                                               *)
Running(i) == loop[i] \in {"connect", "good", "dead"}
Moves(i, at) == loop' = [loop EXCEPT ![i] = at]

(* The session in Redis is authorised, or the bot logs in with its token   *)
(* and gotd stores the session.  The first time b.ready is closed.         *)
Authorized(i) ==
  /\ loop[i] = "connect"
  /\ session = "good" \/ (session = "none" /\ ~revoked)
  /\ session' = "good" /\ Moves(i, "good")
  /\ outcome' = [outcome EXCEPT ![i] = "ready"]
  /\ UNCHANGED <<telegramVars, listed, managerVars, created, drop, caller, midway>>

(* AUTH_KEY_UNREGISTERED, from the check of the cached session or later:   *)
(* the session is purged and the loop connects again.                      *)
KeyUnregistered(i) ==
  /\ (loop[i] = "connect" /\ session = "dead") \/ loop[i] = "dead"
  /\ session' = "none"
  /\ Moves(i, "connect")
  /\ UNCHANGED <<telegramVars, listed, managerVars, created, outcome, drop, caller, midway>>

(* The token is rejected.  On the first run Start reports it, later        *)
(* onRevoked runs in a goroutine of its own.                               *)
TokenRejected(i) ==
  /\ revoked
  /\ (loop[i] = "connect" /\ session = "none") \/ loop[i] = "dead"
  /\ Moves(i, "ended")
  /\ IF outcome[i] = "none"
     THEN outcome' = [outcome EXCEPT ![i] = "revoked"] /\ UNCHANGED drop
     ELSE drop' = [drop EXCEPT ![i] = "remove"] /\ UNCHANGED outcome
  /\ UNCHANGED <<telegramVars, redisVars, managerVars, created, caller, midway>>

(* Any other error ends the first run; a later one is followed by another  *)
(* attempt, after a delay.                                                 *)
ConnectionFails(i) ==
  /\ Running(i) /\ faults < MaxFaults
  /\ faults' = faults + 1
  /\ Moves(i, IF outcome[i] = "none" THEN "ended" ELSE "connect")
  /\ UNCHANGED <<revoked, redisVars, managerVars, created, outcome, drop, caller, midway>>

(* The context is cancelled and the loop returns, wherever it is.          *)
Stop(i) == Moves(i, "ended")

-----------------------------------------------------------------------------
(* GetOrCreate.                                                            *)
Goto(c, at) == caller' = [caller EXCEPT ![c].at = at]
GotBot(c, i) == caller' = [caller EXCEPT ![c].at = IF i = None THEN "failed" ELSE "use",
                                         ![c].bot = i]

(* A request arrives, or LoadAndStartAll comes to a token Redis lists.     *)
Begin(c) ==
  /\ At(c, "idle")
  /\ \E job \in Jobs :
       /\ IF job = "restore" THEN listed ELSE main = "serving"
       /\ caller' = [caller EXCEPT ![c] = [Idle EXCEPT !.at = "get", !.job = job]]
  /\ midway' = midway \cup (IF main = "down" THEN {"stop"} ELSE {})
  /\ UNCHANGED <<telegramVars, redisVars, managerVars, instanceVars>>

(* The fast path.                                                          *)
Lookup(c) ==
  /\ At(c, "get")
  /\ IF registered # None THEN GotBot(c, registered) ELSE Goto(c, "flight")
  /\ UNCHANGED <<telegramVars, redisVars, managerVars, instanceVars, midway>>

(* Mutant: every caller executes the function.                             *)
EnterFlightAlways(c) ==
  /\ At(c, "flight")
  /\ flight' = [at |-> "running", value |-> None] /\ Goto(c, "check")
  /\ UNCHANGED <<telegramVars, redisVars, registered, main, instanceVars, midway>>

(* botFlight.Do: execute the function, or wait for the one who does.  An   *)
(* entry that is done but not deleted yet answers at once.                 *)
EnterFlight(c) ==
  /\ At(c, "flight")
  /\ \/ flight.at = "free" /\ flight' = [at |-> "running", value |-> None] /\ Goto(c, "check")
     \/ flight.at = "running" /\ Goto(c, "wait") /\ UNCHANGED flight
     \/ flight.at = "done" /\ GotBot(c, flight.value) /\ UNCHANGED flight
  /\ UNCHANGED <<telegramVars, redisVars, registered, main, instanceVars, midway>>

(* Mutant: no second look at the map.                                      *)
CreateUnchecked(c) ==
  /\ At(c, "check") /\ created < MaxInstances
  /\ created' = created + 1 /\ loop' = [loop EXCEPT ![created + 1] = "connect"]
  /\ caller' = [caller EXCEPT ![c].at = "start", ![c].bot = created + 1]
  /\ UNCHANGED <<telegramVars, redisVars, managerVars, outcome, drop, midway>>

(* The second look at the map, then NewBotInstance and Start, or an error  *)
(* at once.                                                                *)
Create(c) ==
  /\ At(c, "check")
  /\ \/ /\ registered # None
        /\ caller' = [caller EXCEPT ![c].at = "finish", ![c].bot = registered]
        /\ UNCHANGED <<created, loop>>
     \/ /\ registered = None /\ created < MaxInstances
        /\ created' = created + 1 /\ loop' = [loop EXCEPT ![created + 1] = "connect"]
        /\ caller' = [caller EXCEPT ![c].at = "start", ![c].bot = created + 1]
     \/ /\ registered = None /\ created = MaxInstances
        /\ caller' = [caller EXCEPT ![c].at = "finish", ![c].bot = None]
        /\ UNCHANGED <<created, loop>>
  /\ UNCHANGED <<telegramVars, redisVars, managerVars, outcome, drop, midway>>

StartSucceeds(c) ==
  /\ At(c, "start") /\ outcome[caller[c].bot] = "ready"
  /\ Goto(c, "register")
  /\ UNCHANGED <<telegramVars, redisVars, managerVars, instanceVars, midway>>

(* Mutant: the error of Start is not returned.                             *)
StartErrorIgnored(c) ==
  /\ At(c, "start") /\ Stop(caller[c].bot)
  /\ caller' = [caller EXCEPT ![c].at = "register", ![c].bot = None]
  /\ UNCHANGED <<telegramVars, redisVars, managerVars, created, outcome, drop, midway>>

(* Mutant: the timeout leaves the client loop alone.                       *)
StartFailsLeaving(c) ==
  /\ At(c, "start")
  /\ caller' = [caller EXCEPT ![c].at = IF outcome[caller[c].bot] = "revoked"
                                        THEN "purge" ELSE "finish",
                              ![c].bot = None]
  /\ UNCHANGED <<telegramVars, redisVars, managerVars, instanceVars, midway>>

(* An error, the context is done, or twenty seconds are over, which may be *)
(* when the bot is ready, or its error is there, as well: Stop.  A token is*)
(* purged only when it is the rejection that Start returns.                *)
StartFails(c) ==
  /\ At(c, "start")
  /\ LET i == caller[c].bot
     IN  /\ Stop(i)
         /\ \E at \in {"finish"} \cup (IF outcome[i] = "revoked" THEN {"purge"} ELSE {}) :
              caller' = [caller EXCEPT ![c].at = at, ![c].bot = None]
  /\ UNCHANGED <<telegramVars, redisVars, managerVars, created, outcome, drop, midway>>

PurgeToken == listed' = FALSE /\ session' = "none"

PurgeRejected(c) ==
  /\ At(c, "purge") /\ PurgeToken /\ Goto(c, "finish")
  /\ UNCHANGED <<telegramVars, managerVars, instanceVars, midway>>

Register(c) ==
  /\ At(c, "register")
  /\ registered' = caller[c].bot /\ Goto(c, "list")
  /\ UNCHANGED <<telegramVars, redisVars, flight, main, instanceVars, midway>>

List(c) ==
  /\ At(c, "list")
  /\ listed' = TRUE /\ Goto(c, "finish")
  /\ UNCHANGED <<telegramVars, session, managerVars, instanceVars, midway>>

(* Mutant: an error returns without waking those who wait.                 *)
FinishQuietly(c) ==
  /\ At(c, "finish")
  /\ flight' = [at |-> "done", value |-> caller[c].bot]
  /\ caller' = [d \in Callers |->
       IF d = c THEN [caller[c] EXCEPT !.at = "forget"]
       ELSE IF At(d, "wait") /\ caller[c].bot # None
       THEN [caller[d] EXCEPT !.at = "use", !.bot = caller[c].bot]
       ELSE caller[d]]
  /\ UNCHANGED <<telegramVars, redisVars, registered, main, instanceVars, midway>>

(* The result is there, and all who wait return with it.                   *)
Finish(c) ==
  /\ At(c, "finish")
  /\ LET i == caller[c].bot
     IN  /\ flight' = [at |-> "done", value |-> i]
         /\ caller' = [d \in Callers |->
              IF d = c THEN [caller[c] EXCEPT !.at = "forget"]
              ELSE IF At(d, "wait")
              THEN [caller[d] EXCEPT !.at = IF i = None THEN "failed" ELSE "use", !.bot = i]
              ELSE caller[d]]
  /\ UNCHANGED <<telegramVars, redisVars, registered, main, instanceVars, midway>>

ForgetFlight(c) ==
  /\ At(c, "forget")
  /\ flight' = NoFlight /\ GotBot(c, caller[c].bot)
  /\ UNCHANGED <<telegramVars, redisVars, registered, main, instanceVars, midway>>

-----------------------------------------------------------------------------
(* The handlers.                                                           *)
Done(c) == caller' = [caller EXCEPT ![c] = Idle]

(* There is no bot.  The first time that is the response; when the request *)
(* was tried already, the error of the first attempt is, and it is a 401.  *)
NoBot(c) ==
  /\ At(c, "failed")
  /\ IF caller[c].again THEN Goto(c, "reset") ELSE Done(c)
  /\ UNCHANGED <<telegramVars, redisVars, managerVars, instanceVars, midway>>

(* A method succeeds, or its error says nothing about the authorisation.   *)
Respond(c) ==
  /\ At(c, "use")
  /\ \/ caller[c].job = "restore"
     \/ caller[c].job = "send" /\ loop[caller[c].bot] # "dead"
  /\ Done(c)
  /\ UNCHANGED <<telegramVars, redisVars, managerVars, instanceVars, midway>>

(* AUTH_KEY_UNREGISTERED: handleSendMessage resets the bot and tries again *)
(* with a fresh one.  The second time, and in other handlers the first     *)
(* time, respondError makes it a 401 and resets the bot.                   *)
Unauthorized(c) ==
  /\ At(c, "use") /\ caller[c].job = "send"
  /\ loop[caller[c].bot] = "dead"
  /\ Goto(c, "reset")
  /\ UNCHANGED <<telegramVars, redisVars, managerVars, instanceVars, midway>>

(* ResetBot and CloseBot: take the instance that is registered out of the  *)
(* map, whichever it is, stop it, then clean up in Redis.                  *)
Unregister(c) ==
  /\ At(c, "reset") \/ (At(c, "use") /\ caller[c].job = "close")
  /\ registered' = None
  /\ IF registered = None /\ caller[c].job = "close" THEN Done(c)
     ELSE caller' = [caller EXCEPT ![c].at = IF registered = None THEN "delete" ELSE "stop",
                                   ![c].bot = registered]
  /\ UNCHANGED <<telegramVars, redisVars, flight, main, instanceVars, midway>>

StopInstance(c) ==
  /\ At(c, "stop")
  /\ Stop(caller[c].bot) /\ Goto(c, "delete")
  /\ UNCHANGED <<telegramVars, redisVars, managerVars, created, outcome, drop, midway>>

DeleteSession(c) ==
  /\ At(c, "delete") /\ caller[c].job = "send"
  /\ session' = "none"
  /\ \/ ~caller[c].again
        /\ caller' = [caller EXCEPT ![c] = [Idle EXCEPT !.at = "get", !.again = TRUE]]
     \/ Done(c)
  /\ UNCHANGED <<telegramVars, listed, managerVars, instanceVars, midway>>

UnregisterBot(c) ==
  /\ At(c, "delete") /\ caller[c].job = "close"
  /\ listed' = FALSE /\ Done(c)
  /\ UNCHANGED <<telegramVars, session, managerVars, instanceVars, midway>>

-----------------------------------------------------------------------------
(* dropRevokedBot.                                                         *)
DropRemoves(i) ==
  /\ drop[i] = "remove"
  /\ registered' = IF registered = i THEN None ELSE registered
  /\ drop' = [drop EXCEPT ![i] = "stop"]
  /\ UNCHANGED <<telegramVars, redisVars, flight, main, created, loop, outcome, caller, midway>>

DropStops(i) ==
  /\ drop[i] = "stop"
  /\ Stop(i) /\ drop' = [drop EXCEPT ![i] = "purge"]
  /\ UNCHANGED <<telegramVars, redisVars, managerVars, created, outcome, caller, midway>>

(* Mutant: the session is purged, the token stays listed.                  *)
DropPurgesSession(i) ==
  /\ drop[i] = "purge"
  /\ session' = "none" /\ drop' = [drop EXCEPT ![i] = "done"]
  /\ UNCHANGED <<telegramVars, listed, managerVars, created, loop, outcome, caller, midway>>

DropPurges(i) ==
  /\ drop[i] = "purge"
  /\ PurgeToken /\ drop' = [drop EXCEPT ![i] = "done"]
  /\ UNCHANGED <<telegramVars, managerVars, created, loop, outcome, caller, midway>>

-----------------------------------------------------------------------------
(* The shutdown.                                                           *)

ShutdownBegins ==
  /\ main = "serving" /\ main' = "draining"
  /\ UNCHANGED <<telegramVars, redisVars, registered, flight, instanceVars, caller, midway>>

(* StopAll holds the lock while it stops everything that is registered.    *)
StopRegistered ==
  /\ main' = "down" /\ registered' = None
  /\ IF registered = None THEN UNCHANGED loop ELSE Stop(registered)
  /\ UNCHANGED <<telegramVars, redisVars, flight, created, outcome, drop, caller>>

(* Mutant: it is called while requests are served.                         *)
StopAllAtOnce == main = "draining" /\ StopRegistered /\ UNCHANGED midway

(* srv.Shutdown has waited for the requests.                               *)
StopAll ==
  /\ main = "draining" /\ \A c \in Callers : At(c, "idle") \/ caller[c].job = "restore"
  /\ StopRegistered
  /\ midway' = midway \cup (IF \A c \in Callers : At(c, "idle") THEN {} ELSE {"stop"})

-----------------------------------------------------------------------------
ClientLoop(i) ==
  \/ Authorized(i) \/ KeyUnregistered(i) \/ TokenRejected(i) \/ ConnectionFails(i)
DropRevokedBot(i) == DropRemoves(i) \/ DropStops(i) \/ DropPurges(i)
GetOrCreate(c) ==
  \/ Lookup(c) \/ EnterFlight(c) \/ Create(c) \/ StartSucceeds(c) \/ StartFails(c)
  \/ PurgeRejected(c) \/ Register(c) \/ List(c) \/ Finish(c) \/ ForgetFlight(c)
Handle(c) ==
  \/ GetOrCreate(c) \/ NoBot(c) \/ Respond(c) \/ Unauthorized(c) \/ Unregister(c)
  \/ StopInstance(c) \/ DeleteSession(c) \/ UnregisterBot(c)

Next ==
  \/ DropKeys \/ RevokeToken \/ ShutdownBegins \/ StopAll
  \/ \E c \in Callers : Begin(c) \/ Handle(c)
  \/ \E i \in Instances : ClientLoop(i) \/ DropRevokedBot(i)

Spec == Init /\ [][Next]_vars

-----------------------------------------------------------------------------
(* Where a caller may be.                                                  *)
Places == {"idle", "get", "flight", "wait", "check", "start", "purge", "register", "list",
           "finish", "forget", "failed", "use", "reset", "stop", "delete"}

(* The types; who starts, registers or stops a bot has one.                *)
TypeOK ==
  /\ revoked \in BOOLEAN /\ faults \in 0..MaxFaults
  /\ listed \in BOOLEAN /\ session \in {"none", "good", "dead"}
  /\ registered \in 0..created
  /\ flight \in [at : {"free", "running", "done"}, value : 0..created]
  /\ main \in {"serving", "draining", "down"} /\ created \in 0..MaxInstances
  /\ loop \in [Instances -> {"connect", "good", "dead", "ended"}]
  /\ outcome \in [Instances -> {"none", "ready", "revoked"}]
  /\ drop \in [Instances -> {"no", "remove", "stop", "purge", "done"}]
  /\ caller \in [Callers -> [at : Places, job : {"send", "close", "restore"},
                             bot : 0..created, again : BOOLEAN]]
  /\ \A c \in Callers :
       caller[c].at \in {"start", "register", "stop"} => caller[c].bot # None
  /\ midway \subseteq {"revoke", "stop"}

(* Somebody is about to call Stop of an instance.                          *)
BeingStopped(i) ==
  \/ \E c \in Callers : At(c, "stop") /\ caller[c].bot = i
  \/ drop[i] = "stop"
BeingCreated(i) ==
  \E c \in Callers : caller[c].at \in {"start", "register"} /\ caller[c].bot = i

(* No duplicate session is left behind: what has a client loop can be      *)
(* found in the map, or somebody holds it who will register or stop it.    *)
NoOrphan ==
  \A i \in Instances : Running(i) => registered = i \/ BeingCreated(i) \/ BeingStopped(i)

(* The same updates are not received by two instances, but for the moment  *)
(* in which the old one is being stopped.                                  *)
OneSession ==
  \A i, j \in Instances :
    Running(i) /\ Running(j) /\ i # j => BeingStopped(i) \/ BeingStopped(j)

(* A revoked token is not restored after a restart: once a running bot was *)
(* rejected and removed, Redis does not list the token, whatever else is   *)
(* under way.  Except: the revocation met a bot that Start had reported    *)
(* ready and GetOrCreate had not listed yet; that one can be listed, and   *)
(* registered, after its purge.                                            *)
RevokedIsForgotten ==
  (\E i \in Instances : drop[i] = "done") /\ "revoke" \notin midway => ~listed

(* "Stop bot sessions ... before stopping workers" (main.go): nothing runs *)
(* on after StopAll.  Except: LoadAndStartAll, for which nobody waits, was *)
(* or is still restoring the bot.                                          *)
ShutdownStops ==
  main = "down" /\ "stop" \notin midway =>
    \A i \in Instances : Running(i) => BeingStopped(i)

(* Nobody waits for ever: who waits in botFlight.Do has somebody who is    *)
(* executing the function for him, and who will return.                    *)
Executing(c) ==
  caller[c].at \in {"check", "start", "purge", "register", "list", "finish"}
WaitersAreServed ==
  \A c \in Callers : At(c, "wait") =>
    flight.at = "running" /\ \E d \in Callers : Executing(d)
=============================================================================
