--------------------------- MODULE WebhookPromise ---------------------------
(***************************************************************************)
(* What webhook delivery promises the owner of a bot, whatever Redis, the  *)
(* dispatcher, the network, setWebhook calls and restarts do in between:   *)
(* every update counts as delivered the first time an application accepts  *)
(* it; the updates of one queue (one chat) are delivered in the order they *)
(* were published; an update is skipped only if it was discarded.          *)
(***************************************************************************)
EXTENDS Naturals

CONSTANTS
  MaxUpdates,   \* bound: updates published in a behaviour
  Backlog,      \* updates published before the behaviour begins
  QueueOf,      \* the queue (chat) an update belongs to
  Readable      \* updates whose stored payload can be decoded

VARIABLES
  published,    \* updates 1..published were published
  delivered,    \* updates accepted by an application at least once
  discarded     \* updates given up on: too old, trimmed, dropped on request

promiseVars == <<published, delivered, discarded>>

(* The updates that must be settled before u may be delivered.             *)
Before(u) == {v \in Readable : v < u /\ QueueOf[v] = QueueOf[u]}

PromiseInit ==
  /\ published = Backlog
  /\ delivered = {}
  /\ discarded = {}

(* Publishing may push the oldest undelivered updates out of the queue.    *)
Publish(evicted) ==
  /\ published < MaxUpdates
  /\ published' = published + 1
  /\ discarded' = discarded \cup evicted
  /\ UNCHANGED delivered

Deliver(u) ==
  /\ Before(u) \subseteq delivered \cup discarded
  /\ delivered' = delivered \cup {u}
  /\ UNCHANGED <<published, discarded>>

Discard(some) ==
  /\ discarded' = discarded \cup some
  /\ UNCHANGED <<published, delivered>>

PromiseNext ==
  \/ \E evicted \in SUBSET (1..published + 1) : Publish(evicted)
  \/ \E u \in 1..published : Deliver(u)
  \/ \E some \in SUBSET (1..published) : Discard(some)

PromiseSpec == PromiseInit /\ [][PromiseNext]_promiseVars
=============================================================================
