--------------------------- MODULE NamespaceListWatch ---------------------------
(***************************************************************************)
(* How a controller keeps its store of namespaces                          *)
(* (pkg/listwatch/listwatch.go).  With permission to list and watch        *)
(* namespaces it uses a regular watch, filtered by name; without, and with *)
(* a list of namespaces to look at, a lister that polls each of them.      *)
(*                                                                         *)
(* The reflector of client-go asks the lister for its channel again after  *)
(* each event, and each time the lister starts one more goroutine that     *)
(* polls; they share the cache of the lister without a lock.               *)
(***************************************************************************)
EXTENDS Integers, FiniteSets, Sequences

CONSTANTS
  Namespaces,
  NamespaceAll,           \* the empty string
  MaxPollers              \* bound: goroutines that poll

ASSUME NamespacesAssumption == NamespaceAll \notin Namespaces /\ MaxPollers \in Nat \ {0}

VARIABLES
  nsVersion,              \* API server: the resource version of a namespace, 0 without it
  nsLoad,                 \* [left (bound: changes), next (resource version)]
  lister,                 \* the ListerWatcher of the informer: [kind, names]
  pollCache,              \* pblw.cache: [present, version] (0: no object)
  pollCh,                 \* pblw.ch
  pollers,                \* the goroutines of ResultChan
  reflector,              \* off, list, watch or panic
  nsStore                 \* the store of the informer

nsVars == <<nsVersion, nsLoad, lister, pollCache, pollCh, pollers, reflector, nsStore>>
-----------------------------------------------------------------------------
(* Which namespaces.                                                         *)

IsAllNamespaces(names) == names = {NamespaceAll}

IdenticalNamespaces(a, b) == a = b

\* mutant: the denied names are those that are kept
TweakByLabelIn(filter, names) == {ns \in Namespaces : names = {} \/ ns \in names}

\* Both filter by name: every namespace carries its name in a label since 1.22.
TweakByLabel(filter, names) ==
  {ns \in Namespaces : names = {} \/ (filter = "in") = (ns \in names)}

DenyTweak(names) == {ns \in Namespaces : ns \notin names}

NoLister == [kind |-> "none", names |-> {}]

NewNamespaceListWatchFromClient(version, listAllowed, allowed, denied) ==
  LET labelled == version >= 22
  IN CASE IsAllNamespaces(allowed) /\ ~listAllowed -> [kind |-> "error", names |-> {}]
       [] IsAllNamespaces(allowed) /\ listAllowed ->
            [kind |-> "watch",
             names |-> IF labelled THEN TweakByLabel("notin", denied) ELSE DenyTweak(denied)]
       [] ~IsAllNamespaces(allowed) /\ listAllowed /\ labelled ->
            [kind |-> "watch", names |-> TweakByLabel("in", allowed)]
       [] OTHER -> [kind |-> "poll", names |-> allowed]

\* A Get of the empty name is an error, and so is the List.
Listable(l) == l.kind = "poll" => l.names \subseteq Namespaces
-----------------------------------------------------------------------------
(* The lister that polls.                                                    *)

Entry(present, version) == [present |-> present, version |-> version]

NoEvent == [ns |-> NamespaceAll, version |-> 0, deleted |-> FALSE]

Poller(pc) == [pc |-> pc, todo |-> {}, deleted |-> {}, updated |-> {}, event |-> NoEvent]

newPollBasedListerWatcher ==
  /\ pollCache = [ns \in Namespaces |-> Entry(FALSE, 0)]
  /\ pollCh = <<>>
  /\ pollers = [p \in 1..MaxPollers |-> Poller("off")]

\* ResultChan: one more goroutine; it sleeps before its first poll.
ResultChan(ps) ==
  LET off == {p \in 1..MaxPollers : ps[p].pc = "off"}
  IN IF off = {} THEN ps
     ELSE [ps EXCEPT ![CHOOSE p \in off : \A q \in off : p <= q] = Poller("sleep")]

\* List, the Replace of the store, and the first call of ResultChan.
List ==
  /\ reflector = "list" /\ lister.kind = "poll" /\ Listable(lister)
  /\ nsStore' = [ns \in Namespaces |-> IF ns \in lister.names THEN nsVersion[ns] ELSE 0]
  /\ pollCache' = [ns \in Namespaces |->
                     IF ns \in lister.names /\ nsVersion[ns] # 0 THEN Entry(TRUE, nsVersion[ns])
                     ELSE pollCache[ns]]
  /\ reflector' = "watch"
  /\ pollers' = ResultChan(pollers)
  /\ UNCHANGED <<nsVersion, nsLoad, lister, pollCh>>

\* The ticker of a goroutine.
StartPoll(p) ==
  /\ pollers[p].pc = "sleep"
  /\ pollers' = [pollers EXCEPT ![p] = [Poller("get") EXCEPT !.todo = lister.names]]
  /\ UNCHANGED <<nsVersion, nsLoad, lister, pollCache, pollCh, reflector, nsStore>>

\* The loop over the cache: the version of an entry without an object cannot be read.
\* A namespace that cannot be read for another reason is left for the next poll.
GetNamespace(p, ns) ==
  /\ pollers[p].pc = "get" /\ ns \in pollers[p].todo
  /\ LET entry == pollCache[ns]
         found == nsVersion[ns] # 0
         next == [pollers[p] EXCEPT !.todo = @ \ {ns},
                                    !.pc = IF pollers[p].todo = {ns} THEN "emit" ELSE "get"]
     IN IF entry.version = 0
        THEN reflector' = "panic" /\ UNCHANGED pollers
        ELSE /\ pollers' = [pollers EXCEPT ![p] =
                  [next EXCEPT
                    !.deleted = IF ~found /\ entry.present THEN @ \cup {ns} ELSE @,
                    !.updated = IF found /\ nsVersion[ns] # entry.version
                                THEN @ \cup {[ns |-> ns, version |-> nsVersion[ns]]} ELSE @]]
             /\ UNCHANGED reflector
  /\ UNCHANGED <<nsVersion, nsLoad, lister, pollCache, pollCh, nsStore>>

\* The next event of a poll, the deletions first; an update that another goroutine has
\* sent is dropped.
NextEvent(p) ==
  /\ pollers[p].pc = "emit"
  /\ LET me == pollers[p]
         Sent(u) == pollCache[u.ns].present /\ pollCache[u.ns].version = u.version
     IN \/ /\ me.deleted # {}
           /\ \E ns \in me.deleted :
                pollers' = [pollers EXCEPT ![p] = [me EXCEPT
                  !.pc = "send", !.deleted = @ \ {ns},
                  !.event = [ns |-> ns, version |-> pollCache[ns].version, deleted |-> TRUE]]]
        \/ /\ me.deleted = {} /\ me.updated # {}
           /\ \E u \in me.updated :
                pollers' = [pollers EXCEPT ![p] = [me EXCEPT
                  !.pc = IF Sent(u) THEN "emit" ELSE "send", !.updated = @ \ {u},
                  !.event = IF Sent(u) THEN NoEvent
                            ELSE [ns |-> u.ns, version |-> u.version, deleted |-> FALSE]]]
        \/ /\ me.deleted = {} /\ me.updated = {}
           /\ pollers' = [pollers EXCEPT ![p] = Poller("sleep")]
  /\ UNCHANGED <<nsVersion, nsLoad, lister, pollCache, pollCh, reflector, nsStore>>

\* The channel has room for one event.
SendEvent(p) ==
  /\ pollers[p].pc = "send" /\ pollCh = <<>>
  /\ pollCh' = <<pollers[p].event>>
  /\ pollers' = [pollers EXCEPT ![p].pc = "record"]
  /\ UNCHANGED <<nsVersion, nsLoad, lister, pollCache, reflector, nsStore>>

\* A write to the map while another goroutine uses it: the Go runtime may end the
\* process.
RecordEvent(p) ==
  /\ pollers[p].pc = "record"
  /\ LET e == pollers[p].event
     IN pollCache' = [pollCache EXCEPT ![e.ns] =
                        IF e.deleted THEN Entry(FALSE, 0) ELSE Entry(TRUE, e.version)]
  /\ pollers' = [pollers EXCEPT ![p] = [@ EXCEPT !.pc = "emit", !.event = NoEvent]]
  /\ \/ UNCHANGED reflector
     \/ /\ \E q \in (1..MaxPollers) \ {p} : pollers[q].pc \notin {"off", "sleep"}
        /\ reflector' = "panic"
  /\ UNCHANGED <<nsVersion, nsLoad, lister, pollCh, nsStore>>

\* The reflector applies an event and asks for the channel again; an event without an
\* object crashes it.
ReceiveEvent ==
  /\ reflector = "watch" /\ pollCh # <<>>
  /\ LET e == Head(pollCh)
     IN IF e.version = 0
        THEN reflector' = "panic" /\ UNCHANGED <<nsStore, pollers>>
        ELSE /\ nsStore' = [nsStore EXCEPT ![e.ns] = IF e.deleted THEN 0 ELSE e.version]
             /\ pollers' = ResultChan(pollers)
             /\ UNCHANGED reflector
  /\ pollCh' = <<>>
  /\ UNCHANGED <<nsVersion, nsLoad, lister, pollCache>>
-----------------------------------------------------------------------------
(* The regular watch of client-go, and the cluster.                          *)

ListWatch ==
  /\ reflector = "list" /\ lister.kind = "watch"
  /\ nsStore' = [ns \in Namespaces |-> IF ns \in lister.names THEN nsVersion[ns] ELSE 0]
  /\ reflector' = "watch"
  /\ UNCHANGED <<nsVersion, nsLoad, lister, pollCache, pollCh, pollers>>

WatchEvent ==
  /\ reflector = "watch" /\ lister.kind = "watch"
  /\ \E ns \in lister.names :
       /\ nsStore[ns] # nsVersion[ns]
       /\ nsStore' = [nsStore EXCEPT ![ns] = nsVersion[ns]]
  /\ UNCHANGED <<nsVersion, nsLoad, lister, pollCache, pollCh, pollers, reflector>>

\* A namespace is created, changed or deleted.
ChangeNamespace(ns) ==
  /\ nsLoad.left > 0
  /\ \/ /\ nsVersion' = [nsVersion EXCEPT ![ns] = nsLoad.next]
        /\ nsLoad' = [left |-> nsLoad.left - 1, next |-> nsLoad.next + 1]
     \/ /\ nsVersion[ns] # 0 /\ nsVersion' = [nsVersion EXCEPT ![ns] = 0]
        /\ nsLoad' = [nsLoad EXCEPT !.left = @ - 1]
  /\ UNCHANGED <<lister, pollCache, pollCh, pollers, reflector, nsStore>>

PollerStep(p) ==
  /\ reflector = "watch"
  /\ \/ StartPoll(p) \/ NextEvent(p) \/ SendEvent(p) \/ RecordEvent(p)
     \/ \E ns \in Namespaces : GetNamespace(p, ns)

ReflectorStep == List \/ ReceiveEvent \/ ListWatch \/ WatchEvent
-----------------------------------------------------------------------------
\* Gap: the lister that polls does not survive a namespace that does not exist.
MissingNamespace == lister.kind = "poll" /\ \E ns \in lister.names \cap Namespaces : nsVersion[ns] = 0
=============================================================================
