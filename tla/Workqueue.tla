------------------------------ MODULE Workqueue ------------------------------
(***************************************************************************)
(* The rate-limiting work queue of client-go, as the ResourceReconciler    *)
(* uses it (reconcileQ and statusQ).  The queue is code outside of this    *)
(* repository; it is modelled from the calls Add, Get, Done, Forget,       *)
(* AddRateLimited and ShutDown in pkg/operator/resource_reconciler.go.     *)
(*                                                                         *)
(* A queue is a value: every operation maps a queue to a queue.            *)
(*   queue       the keys a worker can get, oldest first                   *)
(*   dirty       the keys that need processing                             *)
(*   processing  the keys handed out by Get and not yet Done               *)
(*   waiting     the keys AddRateLimited holds back until their delay ends *)
(*   down        ShutDown was called                                       *)
(* The delay itself is abstracted: a waiting key may be released at any    *)
(* time, so Forget, which only resets a key's delay, changes nothing here. *)
(***************************************************************************)
EXTENDS Sequences

CONSTANT Keys       \* the namespace/name keys

Queue == [queue : Seq(Keys), dirty : SUBSET Keys, processing : SUBSET Keys,
          waiting : SUBSET Keys, down : BOOLEAN]

EmptyQueue == [queue |-> <<>>, dirty |-> {}, processing |-> {},
               waiting |-> {}, down |-> FALSE]

\* A key already dirty is not added twice; a key being processed is queued
\* again only by Done.
Add(q, k) ==
  IF q.down \/ k \in q.dirty
  THEN q
  ELSE [q EXCEPT !.dirty = @ \cup {k},
                 !.queue = IF k \in q.processing THEN @ ELSE Append(@, k)]

\* Get blocks while the queue is empty; the caller checks q.queue # <<>>.
Get(q) ==
  [q EXCEPT !.queue = Tail(@),
            !.dirty = @ \ {Head(q.queue)},
            !.processing = @ \cup {Head(q.queue)}]

DoneWithoutRequeue(q, k) == [q EXCEPT !.processing = @ \ {k}]   \* mutant

Done(q, k) ==
  [q EXCEPT !.processing = @ \ {k},
            !.queue = IF k \in q.dirty THEN Append(@, k) ELSE @]

AddRateLimited(q, k) ==
  IF q.down THEN q ELSE [q EXCEPT !.waiting = @ \cup {k}]

\* The delay of a rate-limited key has passed.
Release(q, k) == Add([q EXCEPT !.waiting = @ \ {k}], k)

ShutDown(q) == [q EXCEPT !.down = TRUE]

InQueue(q, k) == \E i \in DOMAIN q.queue : q.queue[i] = k

\* k will be handed out to a worker without any further Add.
Pending(q, k) == k \in q.dirty \cup q.waiting
=============================================================================
