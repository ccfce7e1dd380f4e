------------------------- MODULE NamespaceSelection -------------------------
(***************************************************************************)
(* How the Prometheus controller keeps the monitors and rules an instance  *)
(* selects in its configuration (pkg/prometheus/server/operator.go,        *)
(* pkg/operator/event_handler.go, pkg/prometheus/resource_selector.go).    *)
(*                                                                         *)
(* An instance selects namespaces by label and objects within them.  The   *)
(* namespaces and each kind of object come from informers of their own,    *)
(* which run ahead of and behind each other.  An event of an object queues *)
(* the instances that select its namespace, as the namespace informer      *)
(* shows it at that moment; a relabelled namespace queues the instances    *)
(* whose selection it changes; Sync then reads the caches, one after the   *)
(* other, and writes the rule ConfigMaps and the configuration Secret.     *)
(*                                                                         *)
(* The instances themselves do not change here (ResourceReconciler is      *)
(* about that), and their selectors are well formed: Sync of an instance   *)
(* with a malformed selector fails for as long as it has it.               *)
(***************************************************************************)
EXTENDS Naturals, Sequences, Workqueue

Prometheuses == Keys

CONSTANTS
  None,           \* "no such object"
  Namespaces, Labels,
  Kinds,          \* sequence: the kinds of objects, in the order Sync reads them
  Contents,       \* what an object may contain
  Selectable,     \* the contents whose labels match and that checkFn accepts
  Home,           \* the namespace of each instance
  NilSelector,    \* the kinds for which an instance has no namespace selector
  NamespaceSelector,  \* the labels its selectors match: none for a nil selector
  NamespaceRaces, \* whether the namespace informer may learn of a namespace later
                  \* than the others of its objects, or of its end before they
                  \* and a running Sync are done with it
  MaxBacklog,     \* bound: notifications an informer has not delivered
  MaxChanges,     \* bound: changes of namespaces and objects
  MaxFaults       \* bound: failing writes

KindSet == {Kinds[i] : i \in 1..Len(Kinds)}

ASSUME SelectionAssumption ==
  /\ Selectable \subseteq Contents
  /\ Kinds # <<>>
  /\ Kinds \in Seq({"PrometheusRules", "ServiceMonitors", "PodMonitors", "Probes",
                    "ScrapeConfigs"})
  /\ Home \in [Prometheuses -> Namespaces]
  /\ NilSelector \in [Prometheuses -> SUBSET KindSet]
  /\ NamespaceSelector \in [Prometheuses -> [KindSet -> SUBSET Labels]]
  /\ \A p \in Prometheuses : \A k \in NilSelector[p] : NamespaceSelector[p][k] = {}
  /\ None \notin Keys \cup Labels \cup Contents
  /\ NamespaceRaces \in BOOLEAN
  /\ {MaxBacklog, MaxChanges, MaxFaults} \subseteq Nat

VARIABLES
  ns, mon,            \* API server: the labels of namespaces, the objects
  nsCache, monCache,  \* the informers' caches
  nsNotes, monNotes,  \* updates of namespaces to handle; events of objects to handle
  todo,               \* instances a running handler has still to queue
  reconcileQ,
  sync,               \* the reconciliation goroutine
  config,             \* what the generated objects of an instance contain
  changes, faults

vars == <<ns, mon, nsCache, monCache, nsNotes, monNotes, todo, reconcileQ, sync,
          config, changes, faults>>

\* One per informer: of each kind, of the namespaces and of the instances.
EventHandlers == KindSet \cup {"Namespaces", "Prometheuses"}

Selections == SUBSET (Namespaces \X Contents)

NothingFound == [k \in KindSet |-> {}]

IdleSync == [pc |-> "idle", key |-> None, next |-> 1, namespaces |-> {},
             found |-> NothingFound, err |-> FALSE]

\* The caches are filled; the additions of the instances are to be handled.
Init ==
  /\ ns \in {l \in [Namespaces -> Labels \cup {None}] : \A p \in Prometheuses : l[Home[p]] # None}
  /\ mon = [k \in KindSet |-> [n \in Namespaces |-> None]]
  /\ nsCache = ns /\ monCache = mon
  /\ nsNotes = [n \in Namespaces |-> <<>>]
  /\ monNotes = [k \in KindSet |-> [n \in Namespaces |-> 0]]
  /\ todo = [[h \in EventHandlers |-> {}] EXCEPT !["Prometheuses"] = Prometheuses]
  /\ reconcileQ = EmptyQueue
  /\ sync = IdleSync
  /\ config = [p \in Prometheuses |-> NothingFound]
  /\ changes = 0 /\ faults = 0
-----------------------------------------------------------------------------
(* Users of the cluster.  A namespace goes after its objects have gone.     *)

Change == changes < MaxChanges /\ changes' = changes + 1

PutNamespace(n, l) ==
  /\ Change
  /\ ns[n] # l
  /\ l = None => /\ \A p \in Prometheuses : Home[p] # n
                 /\ \A k \in KindSet : mon[k][n] = None
  /\ ns' = [ns EXCEPT ![n] = l]
  /\ UNCHANGED <<mon, nsCache, monCache, nsNotes, monNotes, todo, reconcileQ, sync,
                 config, faults>>

PutObject(k, n, c) ==
  /\ Change
  /\ ns[n] # None
  /\ mon[k][n] # c
  /\ mon' = [mon EXCEPT ![k][n] = c]
  /\ UNCHANGED <<ns, nsCache, monCache, nsNotes, monNotes, todo, reconcileQ, sync,
                 config, faults>>
-----------------------------------------------------------------------------
(* The informers.  Each catches up with the API server in its own time; the  *)
(* versions it is behind may reach it as one.                                *)

ReceiveNamespace(n) ==
  /\ nsCache[n] # ns[n]
  /\ Len(nsNotes[n]) < MaxBacklog
  /\ ns[n] = None /\ ~NamespaceRaces =>
       /\ n \notin sync.namespaces
       /\ \A k \in KindSet : monCache[k][n] = None /\ monNotes[k][n] = 0
  /\ nsCache' = [nsCache EXCEPT ![n] = ns[n]]
     \* The handler has an UpdateFunc only.
  /\ nsNotes' = IF nsCache[n] = None \/ ns[n] = None
                THEN nsNotes
                ELSE [nsNotes EXCEPT ![n] = Append(@, <<nsCache[n], ns[n]>>)]
  /\ UNCHANGED <<ns, mon, monCache, monNotes, todo, reconcileQ, sync, config, changes, faults>>

ReceiveObject(k, n) ==
  /\ monCache[k][n] # mon[k][n]
  /\ monNotes[k][n] < MaxBacklog
  /\ nsCache[n] = None => NamespaceRaces
  /\ monCache' = [monCache EXCEPT ![k][n] = mon[k][n]]
  /\ monNotes' = [monNotes EXCEPT ![k][n] = @ + 1]
  /\ UNCHANGED <<ns, mon, nsCache, nsNotes, todo, reconcileQ, sync, config, changes, faults>>
-----------------------------------------------------------------------------
(* The event handlers.  Each informer has a goroutine that runs its handler. *)

\* mutant: the namespace of the instance is taken for one it has to select
InstancesSelecting(n, label) ==
  {p \in Prometheuses : \E k \in KindSet : label \in NamespaceSelector[p][k]}

\* The instances enqueueForNamespace queues for n with a label.
InstancesFor(n, label) ==
  {p \in Prometheuses :
     \/ Home[p] = n
     \/ \E k \in KindSet : label \in NamespaceSelector[p][k]}

\* EventHandler.OnAdd, OnUpdate and OnDelete call enqueueForNamespace, which first
\* looks the namespace up.
enqueueForNamespace(k, n) ==
  /\ monNotes[k][n] > 0 /\ todo[k] = {}
  /\ monNotes' = [monNotes EXCEPT ![k][n] = @ - 1]
  /\ \/ nsCache[n] = None /\ UNCHANGED todo         \* namespace does not exist
     \/ nsCache[n] # None /\ todo' = [todo EXCEPT ![k] = InstancesFor(n, nsCache[n])]
  /\ UNCHANGED <<ns, mon, nsCache, monCache, nsNotes, reconcileQ, sync, config, changes, faults>>

\* mutant: a namespace that is not selected any more goes unnoticed
LabelSelectionMatches(old, cur, selector) == old # cur /\ cur \in selector

LabelSelectionHasChanged(old, cur, selector) ==
  old # cur /\ (old \in selector) # (cur \in selector)

\* The selectors handleMonitorNamespaceUpdate looks at.
NamespaceUpdateKinds == {"PodMonitors", "Probes", "PrometheusRules", "ServiceMonitors"}

handleMonitorNamespaceUpdate(n) ==
  LET old == Head(nsNotes[n])[1]
      cur == Head(nsNotes[n])[2]
  IN /\ nsNotes[n] # <<>> /\ todo["Namespaces"] = {}
     /\ nsNotes' = [nsNotes EXCEPT ![n] = Tail(@)]
     /\ todo' = [todo EXCEPT !["Namespaces"] =
          {p \in Prometheuses : \E k \in KindSet \cap NamespaceUpdateKinds :
             LabelSelectionHasChanged(old, cur, NamespaceSelector[p][k])}]
     /\ UNCHANGED <<ns, mon, nsCache, monCache, monNotes, reconcileQ, sync, config,
                    changes, faults>>

\* The handlers' loops over the instances, in any order.
EnqueueForReconciliation(h) ==
  \E p \in todo[h] :
    /\ todo' = [todo EXCEPT ![h] = @ \ {p}]
    /\ reconcileQ' = Add(reconcileQ, p)
    /\ UNCHANGED <<ns, mon, nsCache, monCache, nsNotes, monNotes, sync, config,
                   changes, faults>>
-----------------------------------------------------------------------------
(* processNextReconcileItem and the part of Sync that selects.               *)

SyncUnchanged == UNCHANGED <<ns, mon, nsCache, monCache, nsNotes, monNotes, todo, changes>>

SyncStart ==
  /\ sync.pc = "idle" /\ reconcileQ.queue # <<>>
  /\ reconcileQ' = Get(reconcileQ)
  /\ sync' = [IdleSync EXCEPT !.pc = "namespaces", !.key = Head(reconcileQ.queue)]
  /\ SyncUnchanged /\ UNCHANGED <<config, faults>>

\* The namespaces in which p looks for objects of a kind.
SelectedNamespaces(p, k, labels) ==
  IF k \in NilSelector[p]
  THEN {Home[p]}
  ELSE {n \in Namespaces : labels[n] # None /\ labels[n] \in NamespaceSelector[p][k]}

ListMatchingNamespaces ==
  /\ sync.pc = "namespaces"
  /\ sync' = [sync EXCEPT !.pc = "objects",
                          !.namespaces = SelectedNamespaces(sync.key, Kinds[sync.next], nsCache)]
  /\ SyncUnchanged /\ UNCHANGED <<reconcileQ, config, faults>>

ObjectsIn(namespaces, objects) ==
  {<<n, objects[n]>> : n \in {m \in namespaces : objects[m] \in Selectable}}

\* The rules are written to ConfigMaps before Sync goes on to the other kinds,
\* which all go to the configuration Secret.
selectObjects ==
  LET k == Kinds[sync.next]
  IN /\ sync.pc = "objects"
     /\ sync' = [sync EXCEPT
          !.pc = IF k = "PrometheusRules" \/ sync.next = Len(Kinds) THEN "write" ELSE "namespaces",
          !.next = @ + 1, !.namespaces = {},
          !.found = [@ EXCEPT ![k] = ObjectsIn(sync.namespaces, monCache[k])]]
     /\ SyncUnchanged /\ UNCHANGED <<reconcileQ, config, faults>>

Written == {Kinds[i] : i \in 1..(sync.next - 1)}

Write ==
  /\ sync.pc = "write"
  /\ \/ /\ config' = [config EXCEPT ![sync.key] =
             [k \in KindSet |-> IF k \in Written THEN sync.found[k] ELSE @[k]]]
        /\ sync' = [sync EXCEPT !.pc = IF sync.next > Len(Kinds) THEN "finish" ELSE "namespaces"]
        /\ UNCHANGED faults
     \/ /\ faults < MaxFaults /\ faults' = faults + 1
        /\ sync' = [sync EXCEPT !.pc = "finish", !.err = TRUE]
        /\ UNCHANGED config
  /\ SyncUnchanged /\ UNCHANGED reconcileQ

SyncFinish ==
  LET p == sync.key
  IN /\ sync.pc = "finish"
     /\ reconcileQ' = Done(IF sync.err THEN AddRateLimited(reconcileQ, p) ELSE reconcileQ, p)
     /\ sync' = IdleSync
     /\ SyncUnchanged /\ UNCHANGED <<config, faults>>

ReleaseKey(p) ==
  /\ p \in reconcileQ.waiting
  /\ reconcileQ' = Release(reconcileQ, p)
  /\ SyncUnchanged /\ UNCHANGED <<sync, config, faults>>
-----------------------------------------------------------------------------
Users ==
  \E n \in Namespaces :
    \/ \E l \in Labels \cup {None} : PutNamespace(n, l)
    \/ \E k \in KindSet, c \in Contents \cup {None} : PutObject(k, n, c)

Sync == SyncStart \/ ListMatchingNamespaces \/ selectObjects \/ Write \/ SyncFinish

Next ==
  \/ Users
  \/ \E n \in Namespaces : ReceiveNamespace(n) \/ handleMonitorNamespaceUpdate(n)
  \/ \E k \in KindSet, n \in Namespaces : ReceiveObject(k, n) \/ enqueueForNamespace(k, n)
  \/ \E h \in EventHandlers : EnqueueForReconciliation(h)
  \/ Sync
  \/ \E p \in Prometheuses : ReleaseKey(p)

Spec == Init /\ [][Next]_vars

\* The goroutines of the operator run, watches deliver and delays end.
Fairness ==
  /\ \A n \in Namespaces :
       /\ WF_vars(ReceiveNamespace(n)) /\ WF_vars(handleMonitorNamespaceUpdate(n))
       /\ \A k \in KindSet : WF_vars(ReceiveObject(k, n)) /\ WF_vars(enqueueForNamespace(k, n))
  /\ \A h \in EventHandlers : WF_vars(EnqueueForReconciliation(h))
  /\ WF_vars(Sync)
  /\ \A p \in Prometheuses : WF_vars(ReleaseKey(p))

FairSpec == Spec /\ Fairness
-----------------------------------------------------------------------------
\* What p selects, given the namespaces and objects there are.
Selection(p, k, labels, objects) ==
  ObjectsIn(SelectedNamespaces(p, k, labels), objects[k])

\* No event is waiting for its handler, and no handler has p left to queue.
EventsHandled(p) ==
  /\ \A n \in Namespaces : nsNotes[n] = <<>> /\ \A k \in KindSet : monNotes[k][n] = 0
  /\ \A h \in EventHandlers : p \notin todo[h]

\* No change of a selection is lost: when every event the informers reported was
\* handled and p is neither queued nor being synced, its ConfigMaps and its Secret
\* hold what p selects from the caches, in whatever order the events of namespaces
\* and objects were handled.
SelectionFollowsCaches ==
  \A p \in Prometheuses :
    EventsHandled(p) /\ ~Pending(reconcileQ, p) /\ sync.key # p =>
      \A k \in KindSet : config[p][k] = Selection(p, k, nsCache, monCache)

\* Once the users pause, every instance gets the configuration it selects from
\* the objects and the labels of namespaces as they are.
EventuallySelected ==
  <>[](\A p \in Prometheuses, k \in KindSet : config[p][k] = Selection(p, k, ns, mon))
=============================================================================
