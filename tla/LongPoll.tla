------------------------------ MODULE LongPoll ------------------------------
(***************************************************************************)
(* getUpdates: an application polls the stream of its bot while update     *)
(* workers append to it.  GetUpdates and processUpdates of bot.go, the     *)
(* signal of updates_pipeline.go, and AckUpdates and ReadUpdates of        *)
(* internal/storage/redis.go.                                              *)
(*                                                                         *)
(* A call goes on in the server when the application has given up on it,   *)
(* so a new call may run beside old ones.  A negative offset is the same   *)
(* as 0.  An entry of the stream is the place of its XADD among all, and   *)
(* log[e] is the update_id in it.  Left out: the check for a webhook and   *)
(* the parameters of the request; bots that do not know their ID yet.      *)
(***************************************************************************)
EXTENDS UpdateStream, Sequences

CONSTANTS
  MaxUpdates,    \* bound: update_ids allocated
  MaxStreamLen,  \* streamMaxLen (10_000 in the code)
  PageSize,      \* entries read at once (100 in the code)
  Limits,        \* limits the application asks for
  Hidden,        \* updates not in allowed_updates, or that cannot be decoded
  Workers,       \* update workers that append to the stream
  Calls,         \* calls of GetUpdates the server works on
  NoCall,
  MaxAbandoned,  \* bound: how often the application gives up, restarts or drops
  RedisFaults,   \* operations of Redis that may fail
  MayDrop        \* a setWebhook or deleteWebhook may drop pending updates

Updates == 1..MaxUpdates

ASSUME PollAssumption ==
  /\ MaxUpdates \in Nat /\ MaxStreamLen \in Nat \ {0} /\ PageSize \in Nat \ {0}
  /\ Limits \subseteq 1..PageSize /\ Hidden \subseteq Updates
  /\ NoCall \notin Calls /\ MaxAbandoned \in Nat /\ MayDrop \in BOOLEAN

VARIABLES
  \* Redis
  nextID,      \* the update_id counter
  log,         \* update_ids of all entries ever appended
  stream,      \* entries in the stream
  \* the update workers
  worker,      \* the update in hand, and whether the batch has persisted one
  unannounced, \* entries no broadcast has followed yet
  \* calls in the server
  call,        \* what each call is doing
  signalled,   \* calls whose newUpdates channel is closed
  \* the application
  current,     \* the call it waits for
  answer,      \* updates of the last response it has not processed, in order
  offset,      \* last update processed, plus one
  seen,        \* updates it has processed
  abandoned,   \* how often it gave up, restarted or dropped updates
  \* updates that went away otherwise
  discarded    \* trimmed, dropped on request, or never appended

workerVars == <<nextID, log, worker, unannounced>>
appVars == <<current, answer, offset, seen, abandoned>>
vars == <<workerVars, stream, call, signalled, appVars, discarded>>

Last(S) == CHOOSE e \in S : \A f \in S : e >= f
IDs(entries) == {log[e] : e \in entries}
Fails(operation) == operation \in RedisFaults

NotRunning == [at |-> "idle", offset |-> 0, limit |-> 0, from |-> 0, done |-> FALSE,
               cursor |-> 0, found |-> {}, acked |-> 0]

Init ==
  /\ nextID = 0 /\ log = <<>> /\ stream = {}
  /\ worker = [w \in Workers |-> [id |-> 0, persisted |-> FALSE]]
  /\ unannounced = {}
  /\ call = [c \in Calls |-> NotRunning] /\ signalled = {}
  /\ current = NoCall /\ answer = <<>> /\ offset = 0 /\ seen = {} /\ abandoned = 0
  /\ discarded = {}

-----------------------------------------------------------------------------
(* The update workers.                                                     *)

Allocate(w) ==
  /\ worker[w].id = 0 /\ nextID < MaxUpdates
  /\ nextID' = nextID + 1
  /\ worker' = [worker EXCEPT ![w].id = nextID']
  /\ UNCHANGED <<log, unannounced, stream, call, signalled, appVars, discarded>>

(* XADD.  When its reply is lost it is tried again, and the update is in   *)
(* the stream twice.                                                       *)
AppendEntry(w) ==
  /\ worker[w].id # 0
  /\ log' = Append(log, worker[w].id)
  /\ stream' \in AppendUpdate(stream, Len(log'), MaxStreamLen)
  /\ discarded' = discarded \cup ({log'[e] : e \in stream} \ {log'[e] : e \in stream'})
  /\ unannounced' = unannounced \cup {Len(log')}
  /\ \/ worker' = [worker EXCEPT ![w] = [id |-> 0, persisted |-> TRUE]]
     \/ Fails("append reply") /\ Len(log) < MaxUpdates /\ UNCHANGED worker
  /\ UNCHANGED <<nextID, call, signalled, appVars>>

(* All attempts failed.                                                    *)
AppendFails(w) ==
  /\ worker[w].id # 0 /\ Fails("append")
  /\ worker' = [worker EXCEPT ![w].id = 0]
  /\ discarded' = discarded \cup ({worker[w].id} \ IDs(stream))
  /\ UNCHANGED <<nextID, log, unannounced, stream, call, signalled, appVars>>

(* The batch is done: broadcastNewUpdates closes the channel that the      *)
(* calls took which read or wait.                                          *)
Broadcast(w) ==
  /\ worker[w].id = 0 /\ worker[w].persisted
  /\ worker' = [worker EXCEPT ![w].persisted = FALSE]
  /\ signalled' = {c \in Calls : call[c].at \in {"read", "filter", "wait"}}
  /\ unannounced' = {}
  /\ UNCHANGED <<nextID, log, stream, call, appVars, discarded>>

(* A panic is recovered, and the batch ends without a broadcast.           *)
BatchPanics(w) ==
  /\ worker[w].id = 0 /\ worker[w].persisted
  /\ worker' = [worker EXCEPT ![w].persisted = FALSE]
  /\ UNCHANGED <<nextID, log, unannounced, stream, call, signalled, appVars, discarded>>

DropPending ==
  /\ MayDrop /\ stream # {} /\ abandoned < MaxAbandoned
  /\ discarded' = discarded \cup IDs(stream)
  /\ stream' = DropPendingUpdates
  /\ abandoned' = abandoned + 1
  /\ UNCHANGED <<workerVars, call, signalled, current, answer, offset, seen>>

-----------------------------------------------------------------------------
(* The application.                                                        *)

(* It asks for what follows the last update it processed, or for anything  *)
(* if it does not remember.                                                *)
CallGetUpdates(c) ==
  /\ current = NoCall /\ answer = <<>> /\ call[c].at = "idle"
  /\ \E limit \in Limits :
       call' = [call EXCEPT ![c] = [NotRunning EXCEPT
         !.at = IF offset > 0 THEN "ack" ELSE "signal",
         !.offset = offset, !.limit = limit, !.acked = Len(log)]]
  /\ current' = c
  /\ UNCHANGED <<workerVars, stream, signalled, answer, offset, seen, abandoned, discarded>>

ProcessUpdate ==
  /\ answer # <<>>
  /\ seen' = seen \cup {Head(answer)} /\ offset' = Head(answer) + 1
  /\ answer' = Tail(answer)
  /\ UNCHANGED <<workerVars, stream, call, signalled, current, abandoned, discarded>>

(* It does not wait any longer for the response, which comes to nothing.   *)
Abandon ==
  /\ current # NoCall /\ abandoned < MaxAbandoned
  /\ current' = NoCall /\ abandoned' = abandoned + 1
  /\ UNCHANGED <<workerVars, stream, call, signalled, answer, offset, seen, discarded>>

(* It starts anew and has forgotten its offset.                            *)
RestartApplication ==
  /\ abandoned < MaxAbandoned
  /\ current' = NoCall /\ answer' = <<>> /\ offset' = 0 /\ abandoned' = abandoned + 1
  /\ UNCHANGED <<workerVars, stream, call, signalled, seen, discarded>>

-----------------------------------------------------------------------------
(* GetUpdates.                                                             *)
Goto(c, at) == [call EXCEPT ![c].at = at]
Answer(c, found) ==
  [call EXCEPT ![c] = [NotRunning EXCEPT !.at = "answer", !.limit = call[c].limit,
                                         !.found = found]]

(* Mutant: a page that is full of acknowledged entries is the last one.    *)
AckReadOnePage(c) ==
  /\ call[c].at = "ack"
  /\ LET page == XRangeN(stream, call[c].from, PageSize)
         old == {e \in page : \A f \in page : f <= e => log[f] < call[c].offset}
     IN  call' = IF old = {} THEN Goto(c, "signal")
                 ELSE [call EXCEPT ![c].at = "delete", ![c].found = old, ![c].done = TRUE]
  /\ UNCHANGED <<workerVars, stream, signalled, appVars, discarded>>

(* Mutant: the updates up to and including the offset are acknowledged.    *)
AckReadTooFar(c) ==
  /\ call[c].at = "ack"
  /\ LET page == XRangeN(stream, call[c].from, PageSize)
         old == {e \in page : \A f \in page : f <= e => log[f] <= call[c].offset}
     IN  call' = IF old = {} THEN Goto(c, "signal")
                 ELSE [call EXCEPT ![c].at = "delete", ![c].found = old,
                                   ![c].done = (old # page \/ Cardinality(page) < PageSize)]
  /\ UNCHANGED <<workerVars, stream, signalled, appVars, discarded>>

(* AckUpdates: read a page from the head of the stream; up to the first    *)
(* entry that is not acknowledged, it will be deleted.  An error only ends *)
(* the acknowledgement.                                                    *)
AckRead(c) ==
  /\ call[c].at = "ack"
  /\ LET page == XRangeN(stream, call[c].from, PageSize)
         old == {e \in page : \A f \in page : f <= e => log[f] < call[c].offset}
     IN  call' = IF old = {} THEN Goto(c, "signal")
                 ELSE [call EXCEPT ![c].at = "delete", ![c].found = old,
                                   ![c].done = (old # page \/ Cardinality(page) < PageSize)]
  /\ UNCHANGED <<workerVars, stream, signalled, appVars, discarded>>

AckDelete(c) ==
  /\ call[c].at = "delete"
  /\ stream' = stream \ call[c].found
  /\ call' = [call EXCEPT ![c].at = IF call[c].done THEN "signal" ELSE "ack",
                          ![c].from = Last(call[c].found), ![c].found = {}]
  /\ UNCHANGED <<workerVars, signalled, appVars, discarded>>

AckFails(c) ==
  /\ call[c].at \in {"ack", "delete"} /\ Fails("ack")
  /\ \/ UNCHANGED stream
     \/ call[c].at = "delete" /\ stream' = stream \ call[c].found
  /\ call' = [call EXCEPT ![c].at = "signal", ![c].found = {}, ![c].acked = 0]
  /\ UNCHANGED <<workerVars, signalled, appVars, discarded>>

(* newUpdatesSignal, before each reading of the stream.                    *)
TakeSignal(c) ==
  /\ call[c].at = "signal"
  /\ signalled' = signalled \ {c}
  /\ call' = [call EXCEPT ![c].at = "read", ![c].from = 0, ![c].acked = 0]
  /\ UNCHANGED <<workerVars, stream, appVars, discarded>>

(* Mutant: reading goes on until there is more than the limit.             *)
ReadPageUnlimited(c) ==
  /\ call[c].at = "read"
  /\ LET scan == call[c].cursor = 0
         page == IF scan THEN ReadUpdatesAfter(stream, call[c].from, PageSize, PageSize)
                 ELSE ReadUpdatesAfter(stream, call[c].cursor, call[c].limit, PageSize)
         found == call[c].found \cup
                    (IF scan THEN {e \in page : log[e] >= call[c].offset} ELSE page)
         more == scan /\ page # {} /\ Cardinality(found) <= call[c].limit
     IN  call' = [call EXCEPT
           ![c].found = found,
           ![c].from = IF more THEN Last(page) ELSE 0,
           ![c].at = IF more THEN "read" ELSE "filter"]
  /\ UNCHANGED <<workerVars, stream, signalled, appVars, discarded>>

(* ReadUpdates: a page of the scan, or ReadUpdatesAfter from the cursor.   *)
ReadPage(c) ==
  /\ call[c].at = "read"
  /\ LET scan == call[c].cursor = 0
         page == IF scan THEN ReadUpdatesAfter(stream, call[c].from, PageSize, PageSize)
                 ELSE ReadUpdatesAfter(stream, call[c].cursor, call[c].limit, PageSize)
         wanted == call[c].found \cup
                     (IF scan THEN {e \in page : log[e] >= call[c].offset} ELSE page)
         found == XRangeN(wanted, 0, call[c].limit)
         more == scan /\ page # {} /\ Cardinality(found) < call[c].limit
     IN  call' = [call EXCEPT
           ![c].found = found,
           ![c].from = IF more THEN Last(page) ELSE 0,
           ![c].at = IF more THEN "read" ELSE "filter"]
  /\ UNCHANGED <<workerVars, stream, signalled, appVars, discarded>>

(* Mutant: the cursor does not move past what was filtered out.            *)
FilterStays(c) ==
  /\ call[c].at = "filter"
  /\ \/ /\ IDs(call[c].found) \ Hidden # {}
        /\ call' = Answer(c, call[c].found)
     \/ /\ IDs(call[c].found) \ Hidden = {} /\ call[c].found # {}
        /\ call' = [call EXCEPT ![c].at = "signal", ![c].found = {}]
     \/ call[c].found = {} /\ call' \in {Goto(c, "wait"), Answer(c, {})}
  /\ UNCHANGED <<workerVars, stream, signalled, appVars, discarded>>

(* Mutant: the channel is taken when the call begins to wait.              *)
FilterTakesSignal(c) ==
  /\ call[c].at = "filter"
  /\ \/ /\ IDs(call[c].found) \ Hidden # {}
        /\ call' = Answer(c, call[c].found) /\ UNCHANGED signalled
     \/ /\ IDs(call[c].found) \ Hidden = {} /\ call[c].found # {}
        /\ call' = [call EXCEPT ![c].at = "signal", ![c].cursor = Last(call[c].found), ![c].found = {}]
        /\ UNCHANGED signalled
     \/ call[c].found = {} /\ call' \in {Goto(c, "wait"), Answer(c, {})}
        /\ signalled' = signalled \ {c}
  /\ UNCHANGED <<workerVars, stream, appVars, discarded>>

(* Mutant: after what was filtered out the call waits for newer entries.   *)
FilterJumps(c) ==
  /\ call[c].at = "filter"
  /\ \/ /\ IDs(call[c].found) \ Hidden # {}
        /\ call' = Answer(c, call[c].found)
     \/ /\ IDs(call[c].found) \ Hidden = {} /\ call[c].found # {}
        /\ call' = [call EXCEPT ![c].at = "signal", ![c].cursor = Len(log), ![c].found = {}]
     \/ call[c].found = {} /\ call' \in {Goto(c, "wait"), Answer(c, {})}
  /\ UNCHANGED <<workerVars, stream, signalled, appVars, discarded>>

(* Answer with what is allowed, read on if there was something but nothing *)
(* allowed, else wait, unless the time is over.                            *)
Filter(c) ==
  /\ call[c].at = "filter"
  /\ \/ /\ IDs(call[c].found) \ Hidden # {}
        /\ call' = Answer(c, call[c].found)
     \/ /\ IDs(call[c].found) \ Hidden = {} /\ call[c].found # {}
        /\ call' = [call EXCEPT ![c].at = "signal", ![c].cursor = Last(call[c].found), ![c].found = {}]
     \/ call[c].found = {} /\ call' \in {Goto(c, "wait"), Answer(c, {})}
  /\ UNCHANGED <<workerVars, stream, signalled, appVars, discarded>>

ReadFails(c) ==
  /\ call[c].at = "read" /\ Fails("read")
  /\ call' = Answer(c, {})
  /\ UNCHANGED <<workerVars, stream, signalled, appVars, discarded>>

(* select: the channel is closed, or the recheck interval is over.         *)
Wake(c) ==
  /\ call[c].at = "wait" /\ c \in signalled
  /\ call' = Goto(c, "signal")
  /\ UNCHANGED <<workerVars, stream, signalled, appVars, discarded>>

Recheck(c) ==
  /\ call[c].at = "wait"
  /\ call' = Goto(c, "signal")
  /\ UNCHANGED <<workerVars, stream, signalled, appVars, discarded>>

(* The timeout of the call is over.                                        *)
Deadline(c) ==
  /\ call[c].at = "wait"
  /\ call' = Answer(c, {})
  /\ UNCHANGED <<workerVars, stream, signalled, appVars, discarded>>

(* The response, in the order of the stream.                               *)
Inorder(entries) ==
  [k \in 1..Cardinality(entries) |->
     log[CHOOSE e \in entries : Cardinality({f \in entries : f <= e}) = k]]

Respond(c) ==
  /\ call[c].at = "answer"
  /\ call' = [call EXCEPT ![c] = NotRunning]
  /\ IF c = current
     THEN /\ answer' = Inorder({e \in call[c].found : log[e] \notin Hidden})
          /\ current' = NoCall
     ELSE UNCHANGED <<answer, current>>
  /\ signalled' = signalled \ {c}
  /\ UNCHANGED <<workerVars, stream, offset, seen, abandoned, discarded>>

-----------------------------------------------------------------------------
UpdateWorker(w) ==
  Allocate(w) \/ AppendEntry(w) \/ AppendFails(w) \/ Broadcast(w) \/ BatchPanics(w)
GetUpdates(c) ==
  \/ AckRead(c) \/ AckDelete(c) \/ AckFails(c) \/ TakeSignal(c) \/ ReadPage(c)
  \/ Filter(c) \/ ReadFails(c) \/ Wake(c) \/ Recheck(c) \/ Deadline(c) \/ Respond(c)

Next ==
  \/ DropPending \/ ProcessUpdate \/ Abandon \/ RestartApplication
  \/ \E w \in Workers : UpdateWorker(w)
  \/ \E c \in Calls : GetUpdates(c) \/ CallGetUpdates(c)

Spec == Init /\ [][Next]_vars

(* Calls proceed, the application keeps polling, and reading the stream    *)
(* does not fail for ever.  Nothing is assumed of the workers: a batch may *)
(* stay without its broadcast.                                             *)
Proceeds(c) ==
  \/ AckRead(c) \/ AckDelete(c) \/ TakeSignal(c) \/ ReadPage(c) \/ Filter(c)
  \/ Recheck(c) \/ Respond(c)

FairSpec ==
  /\ Spec
  /\ \A c \in Calls : WF_vars(Proceeds(c)) /\ SF_vars(Deadline(c))
  /\ WF_vars(\E c \in Calls : CallGetUpdates(c)) /\ WF_vars(ProcessUpdate)
  /\ <>[][\A c \in Calls : ~ReadFails(c)]_vars

-----------------------------------------------------------------------------
TypeOK ==
  /\ nextID \in 0..MaxUpdates /\ log \in Seq(Updates) /\ stream \subseteq DOMAIN log
  /\ worker \in [Workers -> [id : 0..MaxUpdates, persisted : BOOLEAN]]
  /\ unannounced \subseteq DOMAIN log
  /\ signalled \subseteq Calls /\ current \in Calls \cup {NoCall}
  /\ \A c \in Calls :
       /\ call[c].at \in {"idle", "ack", "delete", "signal", "read", "filter", "wait", "answer"}
       /\ call[c].found \subseteq DOMAIN log
       /\ call[c].at \in {"read", "filter", "answer"} => Cardinality(call[c].found) <= call[c].limit
  /\ answer \in Seq(Updates) /\ offset \in 0..MaxUpdates + 1
  /\ seen \subseteq Updates /\ discarded \subseteq Updates /\ abandoned \in 0..MaxAbandoned

(* An update leaves the stream only when the application has processed it, *)
(* if it asks for it, or it was discarded: acknowledging the head of the   *)
(* stream takes away nothing the application has not had.                  *)
AckedWereSeen ==
  IDs(DOMAIN log) \subseteq IDs(stream) \cup seen \cup discarded \cup Hidden

(* AckUpdates removes everything below the offset that was there when the  *)
(* call began, page by page.                                               *)
AckComplete ==
  \A c \in Calls : call[c].at = "signal" =>
    \A e \in stream : e <= call[c].acked => log[e] >= call[c].offset

(* A waiting call has missed nothing: if there is something to read for    *)
(* it, its channel is closed, or the broadcast is still to come.           *)
NoLostWakeup ==
  \A c \in Calls : call[c].at = "wait" /\ c \notin signalled =>
    \A e \in stream : e > call[c].cursor /\ log[e] >= call[c].offset => e \in unannounced

(* What the application asks for reaches it, also behind updates it does   *)
(* not ask for.                                                            *)
EventuallySeen ==
  \A u \in Updates \ Hidden : u \in IDs(stream) ~> u \in seen \cup discarded

(* Polling keeps the same promise as a webhook, with one queue: updates    *)
(* are first processed in the order of their IDs.                          *)
Promise == INSTANCE WebhookPromise WITH
  Backlog <- 0, QueueOf <- [u \in Updates |-> "polling"], Readable <- Updates \ Hidden,
  published <- nextID, delivered <- seen
KeepsPromise == Promise!PromiseSpec
=============================================================================
