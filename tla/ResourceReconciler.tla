------------------------- MODULE ResourceReconciler -------------------------
(***************************************************************************)
(* The reconciliation core every controller of the operator is built on:   *)
(* pkg/operator/resource_reconciler.go with the ReconciliationTracker      *)
(* (pkg/operator/operator.go), the status poller (pkg/operator/status.go)  *)
(* and, as the Syncer, the Prometheus controller                           *)
(* (pkg/prometheus/server/operator.go) with one StatefulSet per object.    *)
(*                                                                         *)
(*   API server --watch--> informer cache --notification--> handler        *)
(*       ^                                                     |           *)
(*       |                                     reconcileQ, statusQ         *)
(*       +--- writes --- Sync worker, UpdateStatus worker <----+           *)
(*                                                                         *)
(* Every arrow is asynchronous.  A key stands for one object in a watched  *)
(* namespace; the operator runs one informer per watched namespace, so     *)
(* each key has its own watch and notification streams.                    *)
(* The StatusForConfigurationResources gate is off here: objects carry no  *)
(* cleanup finalizer and finalizerSyncer.Sync returns immediately.         *)
(***************************************************************************)
EXTENDS Naturals, Sequences, Workqueue

CONSTANTS
  None,             \* "no such object"
  Foreign,          \* the spec somebody else gave to a StatefulSet
  Metas,            \* labels and annotations of an object, as one value
  OwnMetas,         \* those whose controller-id annotation is the operator's
  MaxLag,           \* bound: versions of an object in flight on a watch
  MaxBacklog,       \* bound: versions of a StatefulSet in flight on a watch,
                    \* and notifications waiting for the handlers
  MaxEdits,         \* bound: creations, edits and deletions of objects
  Paused,           \* the values of spec.paused the users choose from
  Faults, MaxFaults,\* what may go wrong: a failing API call ("api"), an update
                    \* rejected as invalid ("invalid"), a failing pod ("pod"), a
                    \* StatefulSet deleted ("lose") or edited ("drift") by
                    \* somebody else; and how often
  Gaps, MaxGaps,    \* which informers may relist after a broken watch ("cr",
                    \* "sset") or resync ("resync"), and how often
  MaxCrashes,       \* bound: restarts of the operator
  MayStop,          \* whether the operator may be asked to stop
  HiddenRecreation  \* whether a broken watch may hide that an object was
                    \* deleted and created again under the same name

ASSUME ConstantsAssumption ==
  /\ OwnMetas \subseteq Metas
  /\ Paused \subseteq BOOLEAN
  /\ Faults \subseteq {"api", "invalid", "pod", "lose", "drift"}
  /\ Gaps \subseteq {"cr", "sset", "resync"}
  /\ {MaxLag, MaxBacklog, MaxEdits, MaxFaults, MaxGaps, MaxCrashes} \subseteq Nat
  /\ {MayStop, HiddenRecreation} \subseteq BOOLEAN

VARIABLES
  cr, sset,             \* API server: the objects and their StatefulSets
  crWatch, ssWatch,     \* versions written, not yet received by the informer
  crCache, ssCache,     \* the informers' caches
  crNotes, ssNotes,     \* notifications not yet given to the handlers
  refresh,              \* objects whose status Run still has to refresh
  reconcileQ, statusQ,  \* the two work queues
  rec, stat,            \* the goroutines serving them
  tracker,              \* ReconciliationTracker.statusByObject
  synced,               \* history: what the last successful Sync had read
  edits, faults, gaps, crashes

apiVars     == <<cr, sset, crWatch, ssWatch>>
cacheVars   == <<crCache, ssCache, crNotes, ssNotes>>
recVars     == <<rec, tracker, synced>>
budgets     == <<edits, faults, gaps, crashes>>
vars == <<apiVars, cacheVars, refresh, reconcileQ, statusQ, recVars, stat, budgets>>
-----------------------------------------------------------------------------
(* Objects.  gen is metadata.generation, which numbers the specs; of a spec *)
(* itself only paused matters.  The spec of a StatefulSet is the generation *)
(* of the object it was made for.  meta is what hasStateChanged *)
(* compares besides the generation: for a StatefulSet, the annotation with *)
(* its input hash.                                                         *)

Status == [avail : {"True", "False"}, rec : {"True", "False", "Unknown"}, obs : Nat]

Object == [uid : Nat, gen : Nat, meta : Metas, paused : BOOLEAN,
           deleting : BOOLEAN, status : Status \cup {None}]

\* What the handlers and Sync look at: everything but the status.
Desire(o) == IF o = None THEN None ELSE [o EXCEPT !.status = None]

Specs  == Nat \cup {Foreign}
Hashes == Nat \X Metas \X (Specs \cup {None})

StatefulSet == [owner : Nat, gen : Nat, spec : Specs, meta : Hashes,
                deleting : BOOLEAN, ready : BOOLEAN]

\* A notification: old = None is an addition, cur = None a deletion; resync
\* marks two versions with the same resourceVersion; tomb a deletion learnt
\* from a relist (cache.DeletedFinalStateUnknown).
Note(T) == [old : T \cup {None}, cur : T \cup {None},
            resync : BOOLEAN, tomb : BOOLEAN]

ASSUME NoneAssumption ==
  /\ None \notin Keys \cup Object \cup StatefulSet \cup Specs
  /\ Foreign \notin Nat

\* createSSetInputHash: the object's generation, labels and annotations, and
\* the spec of the StatefulSet found in the cache.
inputHash(o, existing) ==
  <<o.gen, o.meta, IF existing = None THEN None ELSE existing.spec>>

isManagedByController(o) == o.meta \in OwnMetas

DeletionInProgress(o) == o.deleting

Present(o) == o # None /\ ~DeletionInProgress(o)

hasGenerationChanged(old, cur) == old.gen # cur.gen     \* mutant

hasStateChanged(old, cur) == old.gen # cur.gen \/ old.meta # cur.meta

\* The owner a StatefulSet of k resolves to: it is looked up by name.
resolve(k) == crCache[k]
-----------------------------------------------------------------------------
RecPcs  == {"idle", "apply", "report", "finish", "exited"}
StatPcs == {"idle", "apply", "exited"}

TypeOK ==
  /\ cr \in [Keys -> Object \cup {None}]
  /\ sset \in [Keys -> StatefulSet \cup {None}]
  /\ crWatch \in [Keys -> Seq(Object \cup {None})]
  /\ ssWatch \in [Keys -> Seq(StatefulSet \cup {None})]
  /\ crCache \in [Keys -> Object \cup {None}]
  /\ ssCache \in [Keys -> StatefulSet \cup {None}]
  /\ crNotes \in [Keys -> Seq(Note(Object))]
  /\ ssNotes \in [Keys -> Seq(Note(StatefulSet))]
  /\ refresh \subseteq Keys
  /\ reconcileQ \in Queue
  /\ statusQ \in Queue
  /\ rec \in [pc : RecPcs, key : Keys \cup {None}, obj : Object \cup {None},
              err : BOOLEAN]
  /\ stat \in [pc : StatPcs, key : Keys \cup {None}, gen : Nat,
               avail : {"True", "False"}, rec : {"True", "False", "Unknown"}]
  /\ tracker \in [Keys -> {"none", "ok", "err"}]
  /\ synced \in [Keys -> Object \cup {None}]
  /\ edits \in Nat /\ faults \in Nat /\ gaps \in Nat /\ crashes \in Nat

IdleRec  == [pc |-> "idle", key |-> None, obj |-> None, err |-> FALSE]
IdleStat == [pc |-> "idle", key |-> None, gen |-> 0,
             avail |-> "False", rec |-> "Unknown"]

Init ==
  /\ cr = [k \in Keys |-> None] /\ sset = [k \in Keys |-> None]
  /\ crWatch = [k \in Keys |-> <<>>] /\ ssWatch = [k \in Keys |-> <<>>]
  /\ crCache = [k \in Keys |-> None] /\ ssCache = [k \in Keys |-> None]
  /\ crNotes = [k \in Keys |-> <<>>] /\ ssNotes = [k \in Keys |-> <<>>]
  /\ refresh = {}
  /\ reconcileQ = EmptyQueue /\ statusQ = EmptyQueue
  /\ rec = IdleRec /\ stat = IdleStat
  /\ tracker = [k \in Keys |-> "none"]
  /\ synced = [k \in Keys |-> None]
  /\ edits = 0 /\ faults = 0 /\ gaps = 0 /\ crashes = 0
-----------------------------------------------------------------------------
(* The API server.  Every write is a version its watchers will receive.    *)

PutCR(k, o) ==
  /\ cr' = [cr EXCEPT ![k] = o]
  /\ Len(crWatch[k]) < MaxLag
  /\ crWatch' = [crWatch EXCEPT ![k] = Append(@, o)]

PutSset(k, s) ==
  /\ sset' = [sset EXCEPT ![k] = s]
  /\ Len(ssWatch[k]) < MaxBacklog
  /\ ssWatch' = [ssWatch EXCEPT ![k] = Append(@, s)]

\* A write that changes nothing creates no version.
WriteSset(k, s) ==
  \/ s = sset[k] /\ UNCHANGED <<sset, ssWatch>>
  \/ s # sset[k] /\ PutSset(k, s)

(* The users of the custom resource. *)

Edit == edits < MaxEdits /\ edits' = edits + 1

UserEdit(k, o) ==
  /\ Edit
  /\ PutCR(k, o)
  /\ UNCHANGED <<sset, ssWatch, cacheVars, refresh, reconcileQ, statusQ,
                 recVars, stat, faults, gaps, crashes>>

\* edits serves as the source of fresh uids.
CreateObject(k) ==
  /\ cr[k] = None
  /\ \E m \in Metas, p \in Paused :
       UserEdit(k, [uid |-> edits + 1, gen |-> 1, meta |-> m, paused |-> p,
                    deleting |-> FALSE, status |-> None])

EditSpec(k) ==
  /\ cr[k] # None /\ ~cr[k].deleting
  /\ \E p \in Paused : UserEdit(k, [cr[k] EXCEPT !.gen = @ + 1, !.paused = p])

EditMeta(k) ==
  /\ cr[k] # None /\ ~cr[k].deleting
  /\ \E m \in Metas \ {cr[k].meta} : UserEdit(k, [cr[k] EXCEPT !.meta = m])

\* The object disappears at once, or stays, marked as deleted, until its
\* finalizers are removed.
DeleteObject(k) ==
  /\ cr[k] # None /\ ~cr[k].deleting
  /\ \/ UserEdit(k, None)
     \/ UserEdit(k, [cr[k] EXCEPT !.deleting = TRUE, !.gen = @ + 1])

FinalizeObject(k) ==
  /\ cr[k] # None /\ cr[k].deleting
  /\ PutCR(k, None)
  /\ UNCHANGED <<sset, ssWatch, cacheVars, refresh, reconcileQ, statusQ,
                 recVars, stat, budgets>>

(* The cluster: garbage collection, pods, and StatefulSets lost. *)

SsetEvent(k, s) ==
  /\ PutSset(k, s)
  /\ UNCHANGED <<cr, crWatch, cacheVars, refresh, reconcileQ, statusQ,
                 recVars, stat, edits, gaps, crashes>>

Fault(kind) == kind \in Faults /\ faults < MaxFaults /\ faults' = faults + 1

Garbage(k) ==
  /\ sset[k] # None
  /\ sset[k].deleting \/ \A o \in {cr[k]} \ {None} : o.uid # sset[k].owner

GarbageCollect(k) ==
  /\ Garbage(k)
  /\ SsetEvent(k, None)
  /\ UNCHANGED faults

PodsReady(k) ==
  /\ sset[k] # None /\ ~sset[k].ready
  /\ SsetEvent(k, [sset[k] EXCEPT !.ready = TRUE])
  /\ UNCHANGED faults

PodsFail(k) ==
  /\ sset[k] # None /\ sset[k].ready
  /\ Fault("pod")
  /\ SsetEvent(k, [sset[k] EXCEPT !.ready = FALSE])

\* Somebody deletes the StatefulSet, in the background or the foreground.
LoseSset(k) ==
  /\ sset[k] # None /\ ~sset[k].deleting
  /\ Fault("lose")
  /\ \/ SsetEvent(k, None)
     \/ SsetEvent(k, [sset[k] EXCEPT !.deleting = TRUE, !.gen = @ + 1])

\* Somebody edits the spec of the StatefulSet.
DriftSset(k) ==
  /\ sset[k] # None /\ sset[k].spec # Foreign
  /\ Fault("drift")
  /\ SsetEvent(k, [sset[k] EXCEPT !.spec = Foreign, !.gen = @ + 1])
-----------------------------------------------------------------------------
(* The informers: cache first, notification afterwards. *)

Notify(notes, k, old, cur) ==
  notes' = [notes EXCEPT ![k] = Append(@, [old |-> old, cur |-> cur,
                                           resync |-> FALSE, tomb |-> FALSE])]

ReceiveCR(k) ==
  /\ crWatch[k] # <<>> /\ Len(crNotes[k]) < MaxBacklog
  /\ crWatch' = [crWatch EXCEPT ![k] = Tail(@)]
  /\ crCache' = [crCache EXCEPT ![k] = Head(crWatch[k])]
  /\ Notify(crNotes, k, Desire(crCache[k]), Desire(Head(crWatch[k])))
  /\ UNCHANGED <<cr, sset, ssWatch, ssCache, ssNotes, refresh, reconcileQ,
                 statusQ, recVars, stat, budgets>>

ReceiveSset(k) ==
  /\ ssWatch[k] # <<>> /\ Len(ssNotes[k]) < MaxBacklog
  /\ ssWatch' = [ssWatch EXCEPT ![k] = Tail(@)]
  /\ ssCache' = [ssCache EXCEPT ![k] = Head(ssWatch[k])]
  /\ Notify(ssNotes, k, ssCache[k], Head(ssWatch[k]))
  /\ UNCHANGED <<cr, sset, crWatch, crCache, crNotes, refresh, reconcileQ,
                 statusQ, recVars, stat, budgets>>

\* What a relist that finds cur tells the handlers about a cached old.
RelistNotes(old, cur) ==
  IF old = None /\ cur = None
  THEN <<>>
  ELSE <<[old |-> old, cur |-> cur, resync |-> FALSE, tomb |-> cur = None]>>

Gap(kind) == kind \in Gaps /\ gaps < MaxGaps /\ gaps' = gaps + 1

\* The watch breaks with versions in flight; the informer lists again.
RelistCR(k) ==
  /\ crWatch[k] # <<>>
  /\ Gap("cr")
  /\ (crCache[k] # None /\ cr[k] # None /\ crCache[k].uid # cr[k].uid)
       => HiddenRecreation
  /\ crWatch' = [crWatch EXCEPT ![k] = <<>>]
  /\ crCache' = [crCache EXCEPT ![k] = cr[k]]
  /\ crNotes' = [crNotes EXCEPT ![k] = @ \o RelistNotes(Desire(crCache[k]), Desire(cr[k]))]
  /\ UNCHANGED <<cr, sset, ssWatch, ssCache, ssNotes, refresh, reconcileQ,
                 statusQ, recVars, stat, edits, faults, crashes>>

RelistSset(k) ==
  /\ ssWatch[k] # <<>>
  /\ Gap("sset")
  /\ ssWatch' = [ssWatch EXCEPT ![k] = <<>>]
  /\ ssCache' = [ssCache EXCEPT ![k] = sset[k]]
  /\ ssNotes' = [ssNotes EXCEPT ![k] = @ \o RelistNotes(ssCache[k], sset[k])]
  /\ UNCHANGED <<cr, sset, crWatch, crCache, crNotes, refresh, reconcileQ,
                 statusQ, recVars, stat, edits, faults, crashes>>

ResyncNote(o) == [old |-> o, cur |-> o, resync |-> TRUE, tomb |-> FALSE]

\* resyncPeriod: the informers present their cache again, unchanged.
Resync(k) ==
  /\ Gap("resync")
  /\ \/ /\ crCache[k] # None
        /\ crNotes' = [crNotes EXCEPT ![k] = Append(@, ResyncNote(Desire(crCache[k])))]
        /\ UNCHANGED ssNotes
     \/ /\ ssCache[k] # None
        /\ ssNotes' = [ssNotes EXCEPT ![k] = Append(@, ResyncNote(ssCache[k]))]
        /\ UNCHANGED crNotes
  /\ UNCHANGED <<apiVars, crCache, ssCache, refresh, reconcileQ, statusQ,
                 recVars, stat, edits, faults, crashes>>
-----------------------------------------------------------------------------
(* The event handlers, given a notification n about key k. *)

OnAdd(n) == isManagedByController(n.cur)

OnUpdateOfOwned(n) ==                                   \* mutant
  /\ isManagedByController(n.old)
  /\ ~DeletionInProgress(n.cur)
  /\ hasStateChanged(n.old, n.cur)

OnAnyUpdate(n) ==                                       \* mutant
  isManagedByController(n.cur) /\ ~DeletionInProgress(n.cur)

OnUpdate(n) ==
  /\ isManagedByController(n.cur)
  /\ ~DeletionInProgress(n.cur)
  /\ hasStateChanged(n.old, n.cur)

\* meta.Accessor fails on a tombstone: the handler returns.
OnDelete(n) == ~n.tomb /\ isManagedByController(n.old)

Enqueues(n) ==
  \/ n.old = None /\ OnAdd(n)
  \/ n.old # None /\ n.cur # None /\ OnUpdate(n)
  \/ n.old # None /\ n.cur = None /\ OnDelete(n)

EnqueueForReconciliation(k, o) ==
  /\ reconcileQ' = IF isManagedByController(o) THEN Add(reconcileQ, k) ELSE reconcileQ
  /\ UNCHANGED statusQ

EnqueueForStatus(k, o) ==
  /\ statusQ' = IF isManagedByController(o) THEN Add(statusQ, k) ELSE statusQ
  /\ UNCHANGED reconcileQ

Ignore == UNCHANGED <<reconcileQ, statusQ>>

HandleCR(k) ==
  /\ refresh = {}
  /\ crNotes[k] # <<>>
  /\ crNotes' = [crNotes EXCEPT ![k] = Tail(@)]
  /\ reconcileQ' = IF Enqueues(Head(crNotes[k])) THEN Add(reconcileQ, k) ELSE reconcileQ
  /\ UNCHANGED <<apiVars, crCache, ssCache, ssNotes, refresh, statusQ, recVars,
                 stat, budgets>>

onStatefulSetAdd(k) ==
  \/ resolve(k) = None /\ Ignore
  \/ resolve(k) # None /\ EnqueueForReconciliation(k, resolve(k))

\* mutant: the status is left to the next reconciliation
onStatefulSetUpdateSpecOnly(k, n) ==
  \/ (DeletionInProgress(n.cur) \/ n.resync \/ resolve(k) = None) /\ Ignore
  \/ /\ ~DeletionInProgress(n.cur) /\ ~n.resync /\ resolve(k) # None
     /\ \/ ~hasStateChanged(n.old, n.cur) /\ Ignore
        \/ hasStateChanged(n.old, n.cur) /\ EnqueueForReconciliation(k, resolve(k))

onStatefulSetUpdate(k, n) ==
  \/ (DeletionInProgress(n.cur) \/ n.resync \/ resolve(k) = None) /\ Ignore
  \/ /\ ~DeletionInProgress(n.cur) /\ ~n.resync /\ resolve(k) # None
     /\ \/ ~hasStateChanged(n.old, n.cur) /\ EnqueueForStatus(k, resolve(k))
        \/ hasStateChanged(n.old, n.cur) /\ EnqueueForReconciliation(k, resolve(k))

\* A tombstone is not a *StatefulSet: OnDelete takes it for an object of the
\* custom resource, and meta.Accessor fails.
onStatefulSetDelete(k, n) ==
  \/ (n.tomb \/ resolve(k) = None) /\ Ignore
  \/ ~n.tomb /\ resolve(k) # None /\ EnqueueForReconciliation(k, resolve(k))

HandleSset(k) ==
  /\ refresh = {}
  /\ ssNotes[k] # <<>>
  /\ ssNotes' = [ssNotes EXCEPT ![k] = Tail(@)]
  /\ LET n == Head(ssNotes[k])
     IN \/ n.old = None /\ onStatefulSetAdd(k)
        \/ n.old # None /\ n.cur # None /\ onStatefulSetUpdate(k, n)
        \/ n.old # None /\ n.cur = None /\ onStatefulSetDelete(k, n)
  /\ UNCHANGED <<apiVars, crCache, ssCache, crNotes, refresh, recVars, stat, budgets>>
-----------------------------------------------------------------------------
(* processNextReconcileItem and Sync. *)

\* API calls fail now and then, and at any time once the context is cancelled.
APIFailure ==
  \/ Fault("api")
  \/ reconcileQ.down /\ UNCHANGED faults

\* Get the next key, and sync reads the object; ForgetObject when it is gone or
\* being deleted.
SyncRead ==
  LET k == Head(reconcileQ.queue)
      o == crCache[k]
  IN /\ rec.pc = "idle"
     /\ reconcileQ.queue # <<>>
     /\ reconcileQ' = Get(reconcileQ)
     /\ rec' = [pc |-> IF Present(o) THEN "apply" ELSE "report",
                key |-> k, obj |-> Desire(o), err |-> FALSE]
     /\ tracker' = IF Present(o) THEN tracker ELSE [tracker EXCEPT ![k] = "none"]
     /\ UNCHANGED <<apiVars, cacheVars, refresh, statusQ, synced, stat, budgets>>

SyncReturns(err) ==
  /\ rec' = [rec EXCEPT !.pc = "report", !.err = err]
  /\ UNCHANGED <<cr, crWatch, cacheVars, refresh, reconcileQ, statusQ, tracker,
                 synced, stat, edits, gaps, crashes>>

CreateStatefulSet(k, o) ==
  \/ /\ sset[k] = None
     /\ PutSset(k, [owner |-> o.uid, gen |-> 1, spec |-> o.gen,
                    meta |-> inputHash(o, None), deleting |-> FALSE, ready |-> FALSE])
     /\ SyncReturns(FALSE)
  \/ /\ sset[k] # None                            \* AlreadyExists
     /\ SyncReturns(TRUE) /\ UNCHANGED <<sset, ssWatch>>

UpdateStatefulSet(k, o, hash) ==
  \/ /\ sset[k] # None
     /\ WriteSset(k, [sset[k] EXCEPT !.owner = o.uid, !.spec = o.gen,
                                     !.meta = hash,
                                     !.gen = IF sset[k].spec = o.gen THEN @ ELSE @ + 1])
     /\ SyncReturns(FALSE)
  \/ /\ sset[k] = None                            \* NotFound
     /\ SyncReturns(TRUE) /\ UNCHANGED <<sset, ssWatch>>

\* The API server answers 422: sync deletes the StatefulSet, in the foreground,
\* for the next Sync to create it again.
RejectStatefulSet(k) ==
  /\ Fault("invalid")
  /\ sset[k] # None
  /\ \/ sset[k].deleting /\ UNCHANGED <<sset, ssWatch>>
     \/ ~sset[k].deleting /\ PutSset(k, [sset[k] EXCEPT !.deleting = TRUE, !.gen = @ + 1])
  /\ SyncReturns(FALSE)

SyncApply ==
  LET k == rec.key
      o == rec.obj
      existing == ssCache[k]
      hash == inputHash(o, existing)
  IN /\ rec.pc = "apply"
     /\ \/ /\ o.paused
           /\ SyncReturns(FALSE)
           /\ UNCHANGED <<sset, ssWatch, faults>>
        \/ /\ ~o.paused
           /\ existing = None
           /\ CreateStatefulSet(k, o)
           /\ UNCHANGED faults
        \/ /\ ~o.paused
           /\ existing # None
           /\ DeletionInProgress(existing) \/ existing.meta = hash
           /\ SyncReturns(FALSE)
           /\ UNCHANGED <<sset, ssWatch, faults>>
        \/ /\ ~o.paused
           /\ existing # None
           /\ ~DeletionInProgress(existing) /\ existing.meta # hash
           /\ \/ UpdateStatefulSet(k, o, hash) /\ UNCHANGED faults
              \/ RejectStatefulSet(k)
        \/ /\ APIFailure                          \* any of the API calls
           /\ SyncReturns(TRUE)
           /\ UNCHANGED <<sset, ssWatch>>

\* Sync records what sync returned, whatever it was.
SyncReport ==
  /\ rec.pc = "report"
  /\ rec' = [rec EXCEPT !.pc = "finish"]
  /\ tracker' = [tracker EXCEPT ![rec.key] = IF rec.err THEN "err" ELSE "ok"]
  /\ synced' = IF rec.err THEN synced ELSE [synced EXCEPT ![rec.key] = rec.obj]
  /\ UNCHANGED <<apiVars, cacheVars, refresh, reconcileQ, statusQ, stat, budgets>>

\* mutant: a failure is forgotten like a success
RecFinishForgetful ==
  LET k == rec.key
  IN /\ rec.pc = "finish"
     /\ statusQ' = Add(statusQ, k)
     /\ reconcileQ' = Done(reconcileQ, k)
     /\ rec' = IdleRec
     /\ UNCHANGED <<apiVars, cacheVars, refresh, tracker, synced, stat, budgets>>

RecFinish ==
  LET k == rec.key
  IN /\ rec.pc = "finish"
     /\ statusQ' = Add(statusQ, k)
     /\ reconcileQ' = Done(IF rec.err THEN AddRateLimited(reconcileQ, k) ELSE reconcileQ, k)
     /\ rec' = IdleRec
     /\ UNCHANGED <<apiVars, cacheVars, refresh, tracker, synced, stat, budgets>>

RecExit ==
  /\ rec.pc = "idle"
  /\ reconcileQ.queue = <<>> /\ reconcileQ.down
  /\ rec' = [rec EXCEPT !.pc = "exited"]
  /\ UNCHANGED <<apiVars, cacheVars, refresh, reconcileQ, statusQ, tracker,
                 synced, stat, budgets>>

ReleaseRec(k) ==
  /\ k \in reconcileQ.waiting
  /\ reconcileQ' = Release(reconcileQ, k)
  /\ UNCHANGED <<apiVars, cacheVars, refresh, statusQ, recVars, stat, budgets>>
-----------------------------------------------------------------------------
(* processNextStatusItem and UpdateStatus. *)

StatFinish(err) ==
  /\ stat' = IdleStat
  /\ statusQ' = Done(IF err THEN AddRateLimited(statusQ, stat.key) ELSE statusQ, stat.key)

\* The Available condition of StatusReporter.Process: the StatefulSet comes
\* from the cache, its pods are listed from the API server.
Available(cached, live) ==
  IF /\ cached # None
     /\ DeletionInProgress(cached) \/ (live # None /\ live.ready)
  THEN "True" ELSE "False"

\* The Reconciled condition: GetCondition(key, generation).
RawCondition(k) == tracker[k]                           \* mutant

GetCondition(k) ==
  CASE tracker[k] = "none" -> "Unknown"
    [] tracker[k] = "ok"   -> "True"
    [] tracker[k] = "err"  -> "False"

\* Get the next key; UpdateStatus computes the status, unless there is nothing
\* to report on.
StatRead ==
  LET k == Head(statusQ.queue)
      o == crCache[k]
  IN /\ stat.pc = "idle"
     /\ statusQ.queue # <<>>
     /\ \/ /\ ~Present(o)
           /\ statusQ' = Done(Get(statusQ), k)
           /\ UNCHANGED stat
        \/ /\ Present(o)
           /\ statusQ' = Get(statusQ)
           /\ stat' = [pc |-> "apply", key |-> k, gen |-> o.gen,
                       avail |-> Available(ssCache[k], sset[k]),
                       rec |-> GetCondition(k)]
     /\ UNCHANGED <<apiVars, cacheVars, refresh, reconcileQ, recVars, budgets>>

\* ApplyStatus names the object, not its uid or version.  The conditions carry
\* the current time: every write is a new version.
StatApply ==
  LET k == stat.key
  IN /\ stat.pc = "apply"
     /\ \/ /\ cr[k] # None
           /\ PutCR(k, [cr[k] EXCEPT !.status = [avail |-> stat.avail, rec |-> stat.rec,
                                                 obs |-> stat.gen]])
           /\ StatFinish(FALSE)
           /\ UNCHANGED faults
        \/ /\ cr[k] = None                        \* NotFound
           /\ StatFinish(TRUE)
           /\ UNCHANGED <<cr, crWatch, faults>>
        \/ /\ APIFailure
           /\ StatFinish(TRUE)
           /\ UNCHANGED <<cr, crWatch>>
     /\ UNCHANGED <<sset, ssWatch, cacheVars, refresh, reconcileQ, recVars,
                    edits, gaps, crashes>>

StatExit ==
  /\ stat.pc = "idle"
  /\ statusQ.queue = <<>> /\ statusQ.down
  /\ stat' = [stat EXCEPT !.pc = "exited"]
  /\ UNCHANGED <<apiVars, cacheVars, refresh, reconcileQ, statusQ, recVars, budgets>>

ReleaseStat(k) ==
  /\ k \in statusQ.waiting
  /\ statusQ' = Release(statusQ, k)
  /\ UNCHANGED <<apiVars, cacheVars, refresh, reconcileQ, recVars, stat, budgets>>

\* StatusPoller: objects last reported as not available are refreshed.
StatusPoller(k) ==
  /\ refresh = {}
  /\ crCache[k] # None
  /\ crCache[k].status # None /\ crCache[k].status.avail # "True"
  /\ EnqueueForStatus(k, crCache[k])
  /\ UNCHANGED <<apiVars, cacheVars, refresh, recVars, stat, budgets>>
-----------------------------------------------------------------------------
(* The life of the process. *)

\* Operator.Run, before it adds the handlers.
RefreshStatusFor(k) ==
  /\ k \in refresh
  /\ refresh' = refresh \ {k}
  /\ \/ crCache[k] = None /\ Ignore
     \/ crCache[k] # None /\ EnqueueForStatus(k, crCache[k])
  /\ UNCHANGED <<apiVars, cacheVars, recVars, stat, budgets>>

StopReconcilingOnly ==                                  \* mutant
  /\ MayStop /\ ~reconcileQ.down
  /\ reconcileQ' = ShutDown(reconcileQ)
  /\ UNCHANGED <<apiVars, cacheVars, refresh, statusQ, recVars, stat, budgets>>

\* Stop: both queues shut down, the goroutines are waited for.
Stop ==
  /\ MayStop /\ ~reconcileQ.down
  /\ reconcileQ' = ShutDown(reconcileQ)
  /\ statusQ' = ShutDown(statusQ)
  /\ UNCHANGED <<apiVars, cacheVars, refresh, recVars, stat, budgets>>

\* mutant: the handlers are not told of the objects that exist already
RestartSilently ==
  /\ crashes < MaxCrashes /\ crashes' = crashes + 1
  /\ crWatch' = [k \in Keys |-> <<>>] /\ ssWatch' = [k \in Keys |-> <<>>]
  /\ crCache' = cr /\ ssCache' = sset
  /\ crNotes' = [k \in Keys |-> <<>>]
  /\ ssNotes' = [k \in Keys |-> RelistNotes(None, sset[k])]
  /\ refresh' = {k \in Keys : cr[k] # None}
  /\ reconcileQ' = EmptyQueue /\ statusQ' = EmptyQueue
  /\ rec' = IdleRec /\ stat' = IdleStat
  /\ tracker' = [k \in Keys |-> "none"]
  /\ synced' = [k \in Keys |-> None]
  /\ UNCHANGED <<cr, sset, edits, faults, gaps>>

\* The process dies; the next one lists everything and starts afresh.
Restart ==
  /\ crashes < MaxCrashes /\ crashes' = crashes + 1
  /\ crWatch' = [k \in Keys |-> <<>>] /\ ssWatch' = [k \in Keys |-> <<>>]
  /\ crCache' = cr /\ ssCache' = sset
  /\ crNotes' = [k \in Keys |-> RelistNotes(None, Desire(cr[k]))]
  /\ ssNotes' = [k \in Keys |-> RelistNotes(None, sset[k])]
  /\ refresh' = {k \in Keys : cr[k] # None}
  /\ reconcileQ' = EmptyQueue /\ statusQ' = EmptyQueue
  /\ rec' = IdleRec /\ stat' = IdleStat
  /\ tracker' = [k \in Keys |-> "none"]
  /\ synced' = [k \in Keys |-> None]
  /\ UNCHANGED <<cr, sset, edits, faults, gaps>>
-----------------------------------------------------------------------------
Users(k)     == CreateObject(k) \/ EditSpec(k) \/ EditMeta(k) \/ DeleteObject(k)
                  \/ FinalizeObject(k)
Cluster(k)   == GarbageCollect(k) \/ PodsReady(k) \/ PodsFail(k)
                  \/ LoseSset(k) \/ DriftSset(k)
Informers(k) == ReceiveCR(k) \/ ReceiveSset(k) \/ RelistCR(k) \/ RelistSset(k)
                  \/ Resync(k)
Handlers(k)  == HandleCR(k) \/ HandleSset(k)
Timers(k)    == ReleaseRec(k) \/ ReleaseStat(k) \/ StatusPoller(k)
RecWorker    == SyncRead \/ SyncApply \/ SyncReport \/ RecFinish \/ RecExit
StatWorker   == StatRead \/ StatApply \/ StatExit

Next ==
  \/ \E k \in Keys : Users(k) \/ Cluster(k) \/ Informers(k) \/ Handlers(k)
                       \/ Timers(k) \/ RefreshStatusFor(k)
  \/ RecWorker \/ StatWorker
  \/ Stop \/ Restart

Spec == Init /\ [][Next]_vars

\* The goroutines of the operator run, watches deliver, delays end, the garbage
\* collector and the kubelets do their work.  Users and faults owe nothing.
Fairness ==
  /\ \A k \in Keys :
       /\ WF_vars(ReceiveCR(k)) /\ WF_vars(ReceiveSset(k))
       /\ WF_vars(HandleCR(k)) /\ WF_vars(HandleSset(k))
       /\ WF_vars(ReleaseRec(k)) /\ WF_vars(ReleaseStat(k))
       /\ WF_vars(RefreshStatusFor(k))
       /\ WF_vars(GarbageCollect(k)) /\ WF_vars(PodsReady(k))
  /\ WF_vars(RecWorker) /\ WF_vars(StatWorker)

FairSpec == Spec /\ Fairness
-----------------------------------------------------------------------------
(* Safety *)

Desired(o) == Present(o) /\ isManagedByController(o)

UpToDate(read, o) == read # None /\ read.uid = o.uid /\ ~hasStateChanged(read, o)

Busy(k) == reconcileQ.down \/ Pending(reconcileQ, k)

\* No change of an object is lost between its arrival in the cache and a Sync:
\* either the last successful Sync saw it, or the running Sync sees it (or will
\* be retried), or the key is queued, or a notification not yet handled will
\* queue it.  This is what dirty marks, the order of cache update and
\* notification, and hasStateChanged have to achieve together.
NoLostReconciliation ==
  \A k \in Keys : Desired(crCache[k]) =>
    \/ UpToDate(synced[k], crCache[k])
    \/ Busy(k)
    \/ rec.key = k /\ (rec.err \/ UpToDate(rec.obj, crCache[k]))
    \/ \E i \in DOMAIN crNotes[k] : Enqueues(crNotes[k][i])

\* A failed Sync is never forgotten: while the tracker holds an error for a
\* key, the key is queued, waiting for its delay, or being processed.
FailureIsRetried ==
  \A k \in Keys : tracker[k] = "err" => Busy(k) \/ rec.key = k

\* No key is stranded: a key that was added is in the queue, unless the worker
\* holds it, and then Done will queue it.
NoStrandedKey ==
  \A k \in Keys :
    /\ k \in reconcileQ.dirty => InQueue(reconcileQ, k) \/ rec.key = k
    /\ k \in statusQ.dirty => InQueue(statusQ, k) \/ stat.key = k

\* Nothing in flight, queued or running for k, and nothing the cluster owes.
Quiet(k) ==
  /\ crWatch[k] = <<>> /\ ssWatch[k] = <<>>
  /\ crNotes[k] = <<>> /\ ssNotes[k] = <<>>
  /\ ~Busy(k) /\ ~Pending(statusQ, k) /\ k \notin refresh
  /\ rec.key # k /\ stat.key # k
  /\ ~Garbage(k)

\* Objects whose StatefulSet the operator has to look after.
InCharge(o) == Desired(o) /\ ~o.paused

\* s is the StatefulSet of o as o is now, and the next Sync skips it.
Built(s, o) ==
  /\ s # None /\ s.owner = o.uid /\ s.spec = o.gen
  /\ s.meta = inputHash(o, s)

\* When the operator has nothing left to do for an object, the StatefulSet of
\* the object exists and was built from the object as it is.
QuietConverged ==
  \A k \in Keys : Quiet(k) /\ InCharge(cr[k]) => Built(sset[k], cr[k])

\* When the operator has nothing left to do for an object, the status reports a
\* successful reconciliation of its current generation and whether the pods of
\* the StatefulSet are ready.
QuietStatusAccurate ==
  \A k \in Keys : Quiet(k) /\ InCharge(cr[k]) =>
    /\ sset[k] # None
    /\ cr[k].status = [avail |-> Available(sset[k], sset[k]), rec |-> "True", obs |-> cr[k].gen]

(* Liveness *)

Idle(k) == ~Pending(reconcileQ, k) /\ ~Pending(statusQ, k) /\ rec.key # k /\ stat.key # k

\* Once users and faults pause, the StatefulSet and the status follow the
\* object, and the operator does not feed itself: the queues drain for good,
\* although every status written comes back as an update.  A stopped operator
\* need not.
EventuallyConverged ==
  <>[](reconcileQ.down \/
       \A k \in Keys :
         /\ Idle(k)
         /\ InCharge(cr[k]) =>
              /\ Built(sset[k], cr[k])
              /\ cr[k].status = [avail |-> "True", rec |-> "True", obs |-> cr[k].gen])

\* Stop returns: both goroutines exit after the queues were shut down.
StopReturns ==
  reconcileQ.down ~> (rec.pc = "exited" /\ stat.pc = "exited") \/ ~reconcileQ.down
=============================================================================
