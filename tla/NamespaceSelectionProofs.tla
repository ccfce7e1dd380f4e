---------------------- MODULE NamespaceSelectionProofs ----------------------
(***************************************************************************)
(* No change of what an instance selects is lost: SelectionFollowsCaches   *)
(* for every set of instances, namespaces, labels and kinds, as long as    *)
(* the informers of namespaces and of objects do not race.                 *)
(***************************************************************************)
EXTENDS NamespaceSelection, WorkqueueProofs

NamespaceLabels == Labels \cup {None}

ObjectCaches == [KindSet -> [Namespaces -> Contents \cup {None}]]

SyncStates ==
  [pc : {"idle", "namespaces", "objects", "write", "finish"}, key : Keys \cup {None},
   next : 1..(Len(Kinds) + 1), namespaces : SUBSET Namespaces,
   found : [KindSet -> Selections], err : BOOLEAN]

SelectionTypes ==
  /\ ns \in [Namespaces -> NamespaceLabels] /\ nsCache \in [Namespaces -> NamespaceLabels]
  /\ mon \in ObjectCaches /\ monCache \in ObjectCaches
  /\ nsNotes \in [Namespaces -> Seq(Labels \X Labels)]
  /\ monNotes \in [KindSet -> [Namespaces -> Nat]]
  /\ todo \in [EventHandlers -> SUBSET Keys]
  /\ reconcileQ \in Queue /\ ~reconcileQ.down
  /\ sync \in SyncStates
  /\ config \in [Keys -> [KindSet -> Selections]]

\* Where Sync is: it has a key, a kind to read next, and at its end has written all it found.
SyncProgress ==
  /\ sync.pc = "idle" <=> sync.key = None
  /\ sync.pc \in {"namespaces", "objects"} => sync.next <= Len(Kinds)
  /\ sync.err => sync.pc = "finish"
  /\ sync.pc = "finish" /\ ~sync.err => /\ sync.next = Len(Kinds) + 1
                                        /\ config[sync.key] = sync.found

\* The namespace informer knows of a namespace for as long as objects in it are known.
NamespacesKnown ==
  /\ \A p \in Keys : ns[Home[p]] # None /\ nsCache[Home[p]] # None
  /\ \A n \in Namespaces : nsCache[n] = None =>
       \A k \in KindSet : monCache[k][n] = None /\ monNotes[k][n] = 0

Selects(p, k, n) == n \in SelectedNamespaces(p, k, nsCache)

\* S holds the object of n that p selects from the caches, and no other of n.
Shows(S, p, k, n) ==
  \A c \in Contents :
    <<n, c>> \in S <=> Selects(p, k, n) /\ monCache[k][n] = c /\ c \in Selectable

\* An event that was reported will queue p, or p is queued.
Due(p, k, n) ==
  \/ Pending(reconcileQ, p)
  \/ \E h \in EventHandlers : p \in todo[h]
  \/ monNotes[k][n] > 0 /\ Selects(p, k, n)
  \/ \E i \in DOMAIN nsNotes[n] :
       LabelSelectionHasChanged(nsNotes[n][i][1], nsNotes[n][i][2], NamespaceSelector[p][k])

\* The running Sync of p has what it read of n right, or will read it.
InHand(p, k, n) ==
  \/ sync.err
  \/ /\ k \in Written => Shows(sync.found[k], p, k, n)
     /\ sync.pc = "objects" /\ k = Kinds[sync.next] =>
          \/ n \in sync.namespaces <=> Selects(p, k, n)
          \/ n \notin sync.namespaces /\ monCache[k][n] = None

\* SelectionFollowsCaches made inductive, one namespace at a time.
NothingMissed ==
  \A p \in Keys, k \in KindSet, n \in Namespaces :
    \/ Due(p, k, n)
    \/ IF sync.key = p THEN InHand(p, k, n) ELSE Shows(config[p][k], p, k, n)

SelectionInv == SelectionTypes /\ SyncProgress /\ NamespacesKnown /\ NothingMissed
-----------------------------------------------------------------------------
(* What the proofs assume of the constants beyond SelectionAssumption: no     *)
(* races between informers, and no namespace selector of a kind for which     *)
(* handleMonitorNamespaceUpdate does not look.                                *)
RacesExcluded ==
  /\ ~NamespaceRaces
  /\ \A p \in Keys, k \in KindSet \ NamespaceUpdateKinds : NamespaceSelector[p][k] = {}

\* The kind Sync reads next is one of the kinds.
LEMMA KindRead ==
  ASSUME SelectionTypes, sync.next <= Len(Kinds)
  PROVE  Kinds[sync.next] \in KindSet /\ Len(Kinds) \in Nat
BY SelectionAssumption DEF SelectionTypes, SyncStates, KindSet

LEMMA SelectedTypes ==
  ASSUME NEW p \in Keys, NEW k \in KindSet, NEW labels
  PROVE  SelectedNamespaces(p, k, labels) \subseteq Namespaces
BY SelectionAssumption DEF SelectedNamespaces, Prometheuses

\* The object of n in what ObjectsIn returns is the one of the cache.
LEMMA ObjectsInMember ==
  ASSUME NEW S \in SUBSET Namespaces, NEW o \in [Namespaces -> Contents \cup {None}],
         NEW n \in Namespaces, NEW c \in Contents
  PROVE  /\ ObjectsIn(S, o) \in Selections
         /\ <<n, c>> \in ObjectsIn(S, o) <=> n \in S /\ o[n] = c /\ c \in Selectable
BY SelectionAssumption DEF ObjectsIn, Selections

LEMMA TypesInit == Init => SelectionTypes
<1> SUFFICES ASSUME Init PROVE SelectionTypes
  OBVIOUS
<1>1. NothingFound \in [KindSet -> Selections]
  BY DEF NothingFound, Selections
<1>2. sync \in SyncStates
  BY <1>1, SelectionAssumption DEF Init, IdleSync, SyncStates
<1>3. reconcileQ \in Queue /\ ~reconcileQ.down
  BY EmptyFacts DEF Init, EmptyQueue
<1>4. nsNotes \in [Namespaces -> Seq(Labels \X Labels)]
  BY DEF Init
<1>5. todo \in [EventHandlers -> SUBSET Keys]
  BY DEF Init, EventHandlers, Prometheuses
<1>6. /\ ns \in [Namespaces -> NamespaceLabels] /\ nsCache \in [Namespaces -> NamespaceLabels]
      /\ mon \in ObjectCaches /\ monCache \in ObjectCaches
      /\ monNotes \in [KindSet -> [Namespaces -> Nat]]
      /\ config \in [Keys -> [KindSet -> Selections]]
  BY <1>1 DEF Init, NamespaceLabels, ObjectCaches, Prometheuses
<1> QED
  BY <1>2, <1>3, <1>4, <1>5, <1>6 DEF SelectionTypes

LEMMA TypesNext == SelectionTypes /\ SyncProgress /\ [Next]_vars => SelectionTypes'
<1> SUFFICES ASSUME SelectionTypes, SyncProgress, [Next]_vars
             PROVE  SelectionTypes'
  OBVIOUS
<1> USE DEF SelectionTypes
<1>1. ASSUME NEW n \in Namespaces, NEW l \in Labels \cup {None}, PutNamespace(n, l)
      PROVE  SelectionTypes'
  BY <1>1 DEF PutNamespace, NamespaceLabels
<1>2. ASSUME NEW n \in Namespaces, NEW k \in KindSet, NEW c \in Contents \cup {None},
             PutObject(k, n, c)
      PROVE  SelectionTypes'
  BY <1>2 DEF PutObject, ObjectCaches
<1>3. ASSUME NEW n \in Namespaces, ReceiveNamespace(n)
      PROVE  SelectionTypes'
  <2>1. nsCache' \in [Namespaces -> NamespaceLabels]
    BY <1>3 DEF ReceiveNamespace
  <2>2. nsNotes' \in [Namespaces -> Seq(Labels \X Labels)]
    <3>1. CASE nsCache[n] = None \/ ns[n] = None
      BY <1>3, <3>1 DEF ReceiveNamespace
    <3>2. CASE ~(nsCache[n] = None \/ ns[n] = None)
      <4>1. <<nsCache[n], ns[n]>> \in Labels \X Labels
        BY <3>2 DEF NamespaceLabels
      <4>2. Append(nsNotes[n], <<nsCache[n], ns[n]>>) \in Seq(Labels \X Labels)
        BY <4>1
      <4> QED
        BY <1>3, <3>2, <4>2 DEF ReceiveNamespace
    <3> QED
      BY <3>1, <3>2
  <2> QED
    BY <1>3, <2>1, <2>2 DEF ReceiveNamespace
<1>4. ASSUME NEW n \in Namespaces, handleMonitorNamespaceUpdate(n)
      PROVE  SelectionTypes'
  <2>1. Tail(nsNotes[n]) \in Seq(Labels \X Labels)
    BY <1>4 DEF handleMonitorNamespaceUpdate
  <2>2. nsNotes' \in [Namespaces -> Seq(Labels \X Labels)]
    BY <1>4, <2>1 DEF handleMonitorNamespaceUpdate
  <2>3. todo' \in [EventHandlers -> SUBSET Keys]
    BY <1>4, Zenon DEF handleMonitorNamespaceUpdate, Prometheuses
  <2> QED
    BY <1>4, <2>2, <2>3 DEF handleMonitorNamespaceUpdate
<1>5. ASSUME NEW k \in KindSet, NEW n \in Namespaces, ReceiveObject(k, n)
      PROVE  SelectionTypes'
  BY <1>5 DEF ReceiveObject, ObjectCaches
<1>6. ASSUME NEW k \in KindSet, NEW n \in Namespaces, enqueueForNamespace(k, n)
      PROVE  SelectionTypes'
  <2>1. monNotes' \in [KindSet -> [Namespaces -> Nat]]
    BY <1>6 DEF enqueueForNamespace
  <2>2. todo' \in [EventHandlers -> SUBSET Keys]
    BY <1>6, Zenon DEF enqueueForNamespace, InstancesFor, Prometheuses
  <2> QED
    BY <1>6, <2>1, <2>2 DEF enqueueForNamespace
<1>7. ASSUME NEW h \in EventHandlers, EnqueueForReconciliation(h)
      PROVE  SelectionTypes'
  <2>1. PICK p \in todo[h] : /\ todo' = [todo EXCEPT ![h] = @ \ {p}]
                             /\ reconcileQ' = Add(reconcileQ, p)
    BY <1>7, Zenon DEF EnqueueForReconciliation
  <2>2. p \in Keys
    BY <2>1
  <2>3. reconcileQ' \in Queue /\ ~reconcileQ'.down
    BY <2>1, <2>2, AddFacts
  <2>4. todo' \in [EventHandlers -> SUBSET Keys]
    BY <2>1
  <2> QED
    BY <1>7, <2>3, <2>4 DEF EnqueueForReconciliation
<1>8. CASE Sync
  <2> USE DEF SyncUnchanged
  <2>1. CASE SyncStart
    <3>1. reconcileQ' \in Queue /\ ~reconcileQ'.down /\ Head(reconcileQ.queue) \in Keys
      BY <2>1, GetFacts DEF SyncStart
    <3>2. NothingFound \in [KindSet -> Selections]
      BY DEF NothingFound, Selections
    <3>3. sync' = [pc |-> "namespaces", key |-> Head(reconcileQ.queue), next |-> 1,
                   namespaces |-> {}, found |-> NothingFound, err |-> FALSE]
      BY <2>1, Zenon DEF SyncStart, IdleSync
    <3>4. 1 \in 1..(Len(Kinds) + 1)
      BY SelectionAssumption
    <3>5. sync' \in SyncStates
      BY <3>1, <3>2, <3>3, <3>4 DEF SyncStates
    <3> QED
      BY <2>1, <3>1, <3>5 DEF SyncStart
  <2>2. CASE ListMatchingNamespaces
    <3>1. sync.key \in Keys /\ Kinds[sync.next] \in KindSet
      BY <2>2, KindRead DEF ListMatchingNamespaces, SyncProgress, SyncStates
    <3>2. SelectedNamespaces(sync.key, Kinds[sync.next], nsCache) \in SUBSET Namespaces
      BY <3>1, SelectedTypes
    <3>3. sync' \in SyncStates
      BY <2>2, <3>2, Zenon DEF ListMatchingNamespaces, SyncStates
    <3> QED
      BY <2>2, <3>3 DEF ListMatchingNamespaces
  <2>3. CASE selectObjects
    <3>1. Kinds[sync.next] \in KindSet /\ sync.next <= Len(Kinds)
      BY <2>3, KindRead DEF selectObjects, SyncProgress
    <3>2. ObjectsIn(sync.namespaces, monCache[Kinds[sync.next]]) \in Selections
      BY <3>1, SelectionAssumption DEF ObjectsIn, Selections, ObjectCaches, SyncStates
    <3>3. sync.next + 1 \in 1..(Len(Kinds) + 1)
      BY <3>1, KindRead DEF SyncStates
    <3>4. sync' \in SyncStates
      BY <2>3, <3>1, <3>2, <3>3, Zenon DEF selectObjects, SyncStates
    <3> QED
      BY <2>3, <3>4 DEF selectObjects
  <2>4. CASE Write
    <3>1. sync' \in SyncStates
      BY <2>4, ZenonT(60) DEF Write, SyncStates
    <3> DEFINE row == [k \in KindSet |-> IF k \in Written THEN sync.found[k] ELSE config[sync.key][k]]
    <3>2. config' = config \/ config' = [config EXCEPT ![sync.key] = row]
      BY <2>4, Zenon DEF Write
    <3>3. sync.key \in Keys
      BY <2>4 DEF Write, SyncProgress, SyncStates
    <3>4. row \in [KindSet -> Selections]
      BY <3>3 DEF SyncStates
    <3> HIDE DEF row
    <3>5. config' \in [Keys -> [KindSet -> Selections]]
      BY <3>2, <3>4, Zenon
    <3> QED
      BY <2>4, <3>1, <3>5 DEF Write
  <2>5. CASE SyncFinish
    <3>1. sync.key \in Keys
      BY <2>5 DEF SyncFinish, SyncProgress, SyncStates
    <3>2. reconcileQ' \in Queue /\ ~reconcileQ'.down
      BY <2>5, <3>1, DoneFacts, AddRateLimitedFacts DEF SyncFinish
    <3>3. NothingFound \in [KindSet -> Selections]
      BY DEF NothingFound, Selections
    <3>4. sync' \in SyncStates
      BY <2>5, <3>3, SelectionAssumption DEF SyncFinish, IdleSync, SyncStates
    <3> QED
      BY <2>5, <3>2, <3>4 DEF SyncFinish
  <2> QED
    BY <1>8, <2>1, <2>2, <2>3, <2>4, <2>5 DEF Sync
<1>9. ASSUME NEW p \in Prometheuses, ReleaseKey(p)
      PROVE  SelectionTypes'
  BY <1>9, ReleaseFacts DEF ReleaseKey, SyncUnchanged, Prometheuses
<1>10. CASE UNCHANGED vars
  BY <1>10 DEF vars
<1> QED
  BY <1>1, <1>2, <1>3, <1>4, <1>5, <1>6, <1>7, <1>8, <1>9, <1>10, ZenonT(60) DEF Next, Users

LEMMA ProgressInit == Init => SyncProgress /\ NamespacesKnown
BY SelectionAssumption DEF Init, IdleSync, SyncProgress, NamespacesKnown, Prometheuses

LEMMA ProgressNext == SelectionTypes /\ SyncProgress /\ [Next]_vars => SyncProgress'
<1> SUFFICES ASSUME SelectionTypes, SyncProgress, [Next]_vars
             PROVE  SyncProgress'
  OBVIOUS
<1> USE DEF SyncProgress
<1>1. CASE UNCHANGED <<sync, config>>
  BY <1>1
<1>2. CASE SyncStart
  <2>1. Head(reconcileQ.queue) \in Keys
    BY <1>2, GetFacts DEF SyncStart, SelectionTypes
  <2>2. /\ sync'.pc = "namespaces" /\ sync'.key = Head(reconcileQ.queue)
        /\ sync'.next = 1 /\ sync'.err = FALSE
    BY <1>2 DEF SyncStart, IdleSync
  <2>3. 1 <= Len(Kinds)
    BY SelectionAssumption
  <2> QED
    BY <2>1, <2>2, <2>3, SelectionAssumption
<1>3. CASE ListMatchingNamespaces
  BY <1>3 DEF ListMatchingNamespaces, SelectionTypes, SyncStates
<1>4. CASE selectObjects
  <2>1. sync.next <= Len(Kinds) /\ sync.next \in Nat /\ Len(Kinds) \in Nat
    BY <1>4, KindRead DEF selectObjects, SelectionTypes, SyncStates
  <2>2. /\ sync'.pc \in {"write", "namespaces"} /\ sync'.key = sync.key
        /\ sync'.next = sync.next + 1 /\ sync'.err = sync.err
        /\ sync'.pc = "namespaces" => sync.next # Len(Kinds)
    BY <1>4 DEF selectObjects, SelectionTypes, SyncStates
  <2> QED
    BY <1>4, <2>1, <2>2 DEF selectObjects
<1>5. CASE Write
  <2>1. /\ sync.key \in Keys /\ sync.next \in 1..(Len(Kinds) + 1) /\ Len(Kinds) \in Nat
        /\ sync.pc = "write" /\ ~sync.err
    BY <1>5, SelectionAssumption DEF Write, SelectionTypes, SyncStates
  <2>2. CASE /\ config' = [config EXCEPT ![sync.key] =
                  [k \in KindSet |-> IF k \in Written THEN sync.found[k] ELSE @[k]]]
             /\ sync' = [sync EXCEPT !.pc = IF sync.next > Len(Kinds) THEN "finish" ELSE "namespaces"]
    <3>1. /\ sync'.key = sync.key /\ sync'.next = sync.next /\ sync'.err = sync.err
          /\ sync'.found = sync.found
          /\ sync'.pc = IF sync.next > Len(Kinds) THEN "finish" ELSE "namespaces"
      BY <2>2 DEF SelectionTypes, SyncStates
    <3>2. ASSUME sync.next > Len(Kinds)
          PROVE  config'[sync.key] = sync.found
      <4>1. Written = KindSet
        BY <2>1, <3>2 DEF Written, KindSet
      <4>2. config'[sync.key] = [k \in KindSet |-> sync.found[k]]
        BY <2>1, <2>2, <4>1, Zenon DEF SelectionTypes
      <4>3. sync.found \in [KindSet -> Selections]
        BY DEF SelectionTypes, SyncStates
      <4> QED
        BY <4>2, <4>3
    <3> QED
      BY <2>1, <3>1, <3>2, SelectionAssumption
  <2>3. CASE sync' = [sync EXCEPT !.pc = "finish", !.err = TRUE]
    BY <2>1, <2>3, SelectionAssumption DEF SelectionTypes, SyncStates
  <2> QED
    BY <1>5, <2>2, <2>3 DEF Write
<1>6. CASE SyncFinish
  BY <1>6 DEF SyncFinish, IdleSync
<1> QED
  BY <1>1, <1>2, <1>3, <1>4, <1>5, <1>6, Zenon
  DEF Next, Users, Sync, vars, PutNamespace, PutObject, ReceiveNamespace, ReceiveObject,
      handleMonitorNamespaceUpdate, enqueueForNamespace, EnqueueForReconciliation, ReleaseKey

LEMMA KnownNext ==
  ASSUME SelectionTypes, NamespacesKnown, RacesExcluded, [Next]_vars
  PROVE  NamespacesKnown'
<1> USE DEF NamespacesKnown
<1>1. CASE UNCHANGED <<ns, nsCache, monCache, monNotes>>
  BY <1>1
<1>2. ASSUME NEW n \in Namespaces, NEW l \in Labels \cup {None}, PutNamespace(n, l)
      PROVE  NamespacesKnown'
  BY <1>2, SelectionAssumption DEF PutNamespace, SelectionTypes, Prometheuses
<1>3. ASSUME NEW n \in Namespaces, ReceiveNamespace(n)
      PROVE  NamespacesKnown'
  BY <1>3, SelectionAssumption DEF ReceiveNamespace, RacesExcluded, SelectionTypes, Prometheuses
<1>4. ASSUME NEW k \in KindSet, NEW n \in Namespaces, ReceiveObject(k, n)
      PROVE  NamespacesKnown'
  BY <1>4 DEF ReceiveObject, RacesExcluded, SelectionTypes, ObjectCaches
<1>5. ASSUME NEW k \in KindSet, NEW n \in Namespaces, enqueueForNamespace(k, n)
      PROVE  NamespacesKnown'
  BY <1>5 DEF enqueueForNamespace, SelectionTypes
<1> QED
  BY <1>1, <1>2, <1>3, <1>4, <1>5, Zenon
  DEF Next, Users, Sync, vars, PutObject, handleMonitorNamespaceUpdate,
      EnqueueForReconciliation, ReleaseKey, SyncStart, ListMatchingNamespaces, selectObjects,
      Write, SyncFinish, SyncUnchanged

LEMMA MissedInit == Init => NothingMissed
<1> SUFFICES ASSUME Init, NEW p \in Keys, NEW k \in KindSet, NEW n \in Namespaces
             PROVE  Due(p, k, n)
  BY DEF NothingMissed
<1> QED
  BY Zenon DEF Init, Due, EventHandlers, Prometheuses

\* What p selects from n depends on the label of n alone.
LEMMA SelectsLabel ==
  ASSUME NEW p \in Keys, NEW k \in KindSet, NEW n \in Namespaces
  PROVE  /\ nsCache'[n] = nsCache[n] => (Selects(p, k, n)' <=> Selects(p, k, n))
         /\ Selects(p, k, n) <=>
              IF k \in NilSelector[p] THEN n = Home[p]
              ELSE nsCache[n] # None /\ nsCache[n] \in NamespaceSelector[p][k]
         /\ Selects(p, k, n)' <=>
              IF k \in NilSelector[p] THEN n = Home[p]
              ELSE nsCache'[n] # None /\ nsCache'[n] \in NamespaceSelector[p][k]
BY DEF Selects, SelectedNamespaces

\* An informer delivers a namespace: a note is left unless the selection stays the same.
LEMMA MissedNamespace ==
  ASSUME SelectionTypes, NamespacesKnown, NothingMissed, RacesExcluded,
         NEW m \in Namespaces, ReceiveNamespace(m)
  PROVE  NothingMissed'
<1> SUFFICES ASSUME NEW p \in Keys, NEW k \in KindSet, NEW n \in Namespaces
             PROVE  \/ Due(p, k, n)'
                    \/ IF sync'.key = p THEN InHand(p, k, n)'
                                        ELSE Shows(config[p][k], p, k, n)'
  BY DEF NothingMissed
<1>1. \/ Due(p, k, n)
      \/ IF sync.key = p THEN InHand(p, k, n) ELSE Shows(config[p][k], p, k, n)
  BY DEF NothingMissed
<1>2. UNCHANGED <<monCache, monNotes, todo, reconcileQ, sync, config>> /\ Written' = Written
  BY ZenonT(60) DEF ReceiveNamespace, Written
<1>3. CASE n # m
  <2>1. nsCache'[n] = nsCache[n] /\ nsNotes'[n] = nsNotes[n]
    BY <1>3, ZenonT(60) DEF ReceiveNamespace, SelectionTypes
  <2>2. Selects(p, k, n)' <=> Selects(p, k, n)
    BY <2>1, SelectsLabel
  <2> QED
    BY <1>1, <1>2, <2>1, <2>2, ZenonT(60) DEF Due, InHand, Shows
<1>4. CASE n = m /\ (nsCache[m] = None \/ ns[m] = None)
  <2>1. monCache[k][n] = None /\ monNotes[k][n] = 0 /\ nsNotes'[n] = nsNotes[n]
    BY <1>4 DEF ReceiveNamespace, NamespacesKnown, RacesExcluded
  <2>2. \A S : Shows(S, p, k, n) => \A c \in Contents : <<n, c>> \notin S
    BY <2>1, SelectionAssumption DEF Shows
  <2>3. Shows(config[p][k], p, k, n) => Shows(config[p][k], p, k, n)'
    BY <1>2, <2>1, <2>2, SelectionAssumption DEF Shows
  <2>4. Shows(sync.found[k], p, k, n) => Shows(sync.found[k], p, k, n)'
    BY <1>2, <2>1, <2>2, SelectionAssumption, ZenonT(60) DEF Shows
  <2>5. CASE ns[m] = None
    <3>1. n \notin sync.namespaces
      BY <1>4, <2>5, ZenonT(60) DEF ReceiveNamespace, RacesExcluded
    <3> QED
      BY <1>1, <1>2, <2>1, <2>3, <2>4, <3>1, SMTT(60) DEF Due, InHand
  <2>6. CASE nsCache[m] = None
    <3>1. ~Selects(p, k, n)
      BY <1>4, <2>6, SelectsLabel, SelectionAssumption DEF NamespacesKnown
    <3>2. (n \in sync.namespaces <=> Selects(p, k, n)) => n \notin sync.namespaces
      BY <3>1, ZenonT(60)
    <3> QED
      BY <1>1, <1>2, <2>1, <2>3, <2>4, <3>1, <3>2, ZenonT(60) DEF Due, InHand
  <2> QED
    BY <1>4, <2>5, <2>6
<1>5. CASE n = m /\ nsCache[m] # None /\ ns[m] # None
  <2> DEFINE note == <<nsCache[n], ns[n]>>
  <2>1. nsNotes'[n] = Append(nsNotes[n], note) /\ nsCache'[n] = ns[n] /\ nsCache[n] # ns[n]
    BY <1>5 DEF ReceiveNamespace, SelectionTypes
  <2>2. nsNotes[n] \in Seq(Labels \X Labels) /\ note \in Labels \X Labels
    BY <1>5, ZenonT(60) DEF SelectionTypes, NamespaceLabels
  <2>3. /\ \A i \in DOMAIN nsNotes[n] : i \in DOMAIN nsNotes'[n] /\ nsNotes'[n][i] = nsNotes[n][i]
        /\ Len(nsNotes[n]) + 1 \in DOMAIN nsNotes'[n]
        /\ nsNotes'[n][Len(nsNotes[n]) + 1] = note
    <3> HIDE DEF note
    <3> QED
      BY <2>1, <2>2, SMTT(60)
  <2>4. CASE Selects(p, k, n)' <=> Selects(p, k, n)
    BY <1>1, <1>2, <2>3, <2>4, ZenonT(60) DEF Due, InHand, Shows
  <2>5. CASE ~(Selects(p, k, n)' <=> Selects(p, k, n))
    <3>1. LabelSelectionHasChanged(nsCache[n], ns[n], NamespaceSelector[p][k])
      BY <1>5, <2>1, <2>5, SelectsLabel DEF LabelSelectionHasChanged
    <3>2. note[1] = nsCache[n] /\ note[2] = ns[n]
      OBVIOUS
    <3> QED
      BY <2>3, <3>1, <3>2, ZenonT(60) DEF Due
  <2> QED
    BY <2>4, <2>5, ZenonT(60)
<1> QED
  BY <1>3, <1>4, <1>5

\* An informer delivers an object: a note is left, which counts if p selects the namespace.
LEMMA MissedObject ==
  ASSUME SelectionTypes, NothingMissed, NEW j \in KindSet, NEW m \in Namespaces,
         ReceiveObject(j, m)
  PROVE  NothingMissed'
<1> SUFFICES ASSUME NEW p \in Keys, NEW k \in KindSet, NEW n \in Namespaces
             PROVE  \/ Due(p, k, n)'
                    \/ IF sync'.key = p THEN InHand(p, k, n)'
                                        ELSE Shows(config[p][k], p, k, n)'
  BY ZenonT(60) DEF NothingMissed
<1>1. \/ Due(p, k, n)
      \/ IF sync.key = p THEN InHand(p, k, n) ELSE Shows(config[p][k], p, k, n)
  BY DEF NothingMissed
<1>2. UNCHANGED <<nsCache, nsNotes, todo, reconcileQ, sync, config>> /\ Written' = Written
  BY DEF ReceiveObject, Written
<1>3. Selects(p, k, n)' <=> Selects(p, k, n)
  BY <1>2, SelectsLabel, ZenonT(60)
<1>4. CASE <<k, n>> # <<j, m>>
  <2>1. monCache'[k][n] = monCache[k][n] /\ monNotes'[k][n] = monNotes[k][n]
    BY <1>4, ZenonT(60) DEF ReceiveObject, SelectionTypes, ObjectCaches
  <2> QED
    BY <1>1, <1>2, <1>3, <2>1 DEF Due, InHand, Shows
<1>5. CASE k = j /\ n = m
  <2>1. monNotes'[k][n] > 0
    BY <1>5, SMTT(60) DEF ReceiveObject, SelectionTypes
  <2>2. CASE Selects(p, k, n)
    BY <1>3, <2>1, <2>2, ZenonT(60) DEF Due
  <2>3. CASE ~Selects(p, k, n)
    BY <1>1, <1>2, <1>3, <2>3, SMTT(60) DEF Due, InHand, Shows
  <2> QED
    BY <2>2, <2>3
<1> QED
  BY <1>4, <1>5, ZenonT(60)

\* A handler trades its note for the instances to queue, and these for their place in
\* the queue; a delay that ends does the same.
LEMMA MissedHandler ==
  ASSUME SelectionTypes, NamespacesKnown, NothingMissed, RacesExcluded,
         \/ \E m \in Namespaces : handleMonitorNamespaceUpdate(m)
         \/ \E j \in KindSet, m \in Namespaces : enqueueForNamespace(j, m)
         \/ \E h \in EventHandlers : EnqueueForReconciliation(h)
         \/ \E q \in Prometheuses : ReleaseKey(q)
  PROVE  NothingMissed'
<1> SUFFICES ASSUME NEW p \in Keys, NEW k \in KindSet, NEW n \in Namespaces
             PROVE  \/ Due(p, k, n)'
                    \/ IF sync'.key = p THEN InHand(p, k, n)'
                                        ELSE Shows(config[p][k], p, k, n)'
  BY ZenonT(60) DEF NothingMissed
<1>1. \/ Due(p, k, n)
      \/ IF sync.key = p THEN InHand(p, k, n) ELSE Shows(config[p][k], p, k, n)
  BY DEF NothingMissed
<1>2. UNCHANGED <<nsCache, monCache, sync, config>> /\ Written' = Written
  BY ZenonT(60) DEF handleMonitorNamespaceUpdate, enqueueForNamespace, EnqueueForReconciliation,
               ReleaseKey, SyncUnchanged, Written
<1>3. Selects(p, k, n)' <=> Selects(p, k, n)
  BY <1>2, SelectsLabel, ZenonT(60)
<1>4. SUFFICES ASSUME Due(p, k, n)
               PROVE  Due(p, k, n)'
  BY <1>1, <1>2, <1>3, ZenonT(60) DEF InHand, Shows
<1>5. ASSUME NEW m \in Namespaces, handleMonitorNamespaceUpdate(m)
      PROVE  Due(p, k, n)'
  <2> DEFINE new == {q \in Prometheuses : \E l \in KindSet \cap NamespaceUpdateKinds :
               LabelSelectionHasChanged(Head(nsNotes[m])[1], Head(nsNotes[m])[2],
                                        NamespaceSelector[q][l])}
  <2>1. /\ nsNotes[m] # <<>> /\ todo["Namespaces"] = {}
        /\ nsNotes' = [nsNotes EXCEPT ![m] = Tail(@)]
        /\ todo' = [todo EXCEPT !["Namespaces"] = new]
        /\ UNCHANGED <<monNotes, reconcileQ>>
    BY <1>5, Zenon DEF handleMonitorNamespaceUpdate
  <2>2. "Namespaces" \in EventHandlers
    BY ZenonT(60) DEF EventHandlers
  <2>3. ASSUME NEW i \in DOMAIN nsNotes[n],
               LabelSelectionHasChanged(nsNotes[n][i][1], nsNotes[n][i][2],
                                        NamespaceSelector[p][k])
        PROVE  Due(p, k, n)'
    <3>1. CASE n # m
      <4>1. nsNotes'[n] = nsNotes[n]
        BY <2>1, <3>1, ZenonT(60) DEF SelectionTypes
      <4> QED
        BY <2>3, <4>1, Zenon DEF Due
    <3>2. CASE n = m /\ i = 1
      <4>1. nsNotes[n][1] = Head(nsNotes[m])
        BY <2>1, <3>2 DEF SelectionTypes
      <4>2. k \in NamespaceUpdateKinds
        BY <2>3 DEF RacesExcluded, LabelSelectionHasChanged
      <4>3. p \in new
        BY <2>3, <3>2, <4>1, <4>2, ZenonT(60) DEF Prometheuses
      <4>4. p \in todo'["Namespaces"]
        BY <2>1, <2>2, <4>3, ZenonT(60) DEF SelectionTypes
      <4> QED
        BY <2>2, <4>4 DEF Due
    <3>3. CASE n = m /\ i # 1
      <4>1. nsNotes'[n] = Tail(nsNotes[n]) /\ nsNotes[n] \in Seq(Labels \X Labels)
        BY <2>1, <3>3 DEF SelectionTypes
      <4>2. i \in 1..Len(nsNotes[n]) /\ i # 1 /\ nsNotes[n] # <<>>
        BY <2>1, <3>3, <4>1
      <4> DEFINE s == nsNotes[n]
      <4>3. ASSUME s \in Seq(Labels \X Labels), i \in 1..Len(s), i # 1
            PROVE  i - 1 \in DOMAIN Tail(s) /\ Tail(s)[i - 1] = s[i]
        <5> HIDE DEF s
        <5> QED
          BY <4>3
      <4> QED
        BY <2>3, <4>1, <4>2, <4>3 DEF Due
    <3> QED
      BY <3>1, <3>2, <3>3, SMTT(60)
  <2>4. ASSUME NEW h \in EventHandlers, p \in todo[h]
        PROVE  Due(p, k, n)'
    <3> HIDE DEF new
    <3>1. p \in todo'[h]
      BY <2>1, <2>4, ZenonT(60) DEF SelectionTypes
    <3> QED
      BY <3>1 DEF Due
  <2> QED
    BY <1>3, <1>4, <2>1, <2>3, <2>4, SMTT(60) DEF Due
<1>6. ASSUME NEW j \in KindSet, NEW m \in Namespaces, enqueueForNamespace(j, m)
      PROVE  Due(p, k, n)'
  <2>1. /\ monNotes[j][m] > 0 /\ todo[j] = {} /\ nsCache[m] # None
        /\ monNotes' = [monNotes EXCEPT ![j][m] = @ - 1]
        /\ todo' = [todo EXCEPT ![j] = InstancesFor(m, nsCache[m])]
        /\ UNCHANGED <<nsNotes, reconcileQ>>
    BY <1>6 DEF enqueueForNamespace, NamespacesKnown
  <2>2. j \in EventHandlers
    BY DEF EventHandlers
  <2>3. ASSUME monNotes[k][n] > 0, Selects(p, k, n)
        PROVE  Due(p, k, n)'
    <3>1. CASE <<k, n>> # <<j, m>>
      <4>1. monNotes'[k][n] = monNotes[k][n]
        BY <2>1, <3>1, SMTT(60) DEF SelectionTypes
      <4> QED
        BY <1>3, <2>3, <4>1, Zenon DEF Due
    <3>2. CASE k = j /\ n = m
      <4>1. p \in InstancesFor(m, nsCache[m])
        BY <2>3, <3>2, SelectsLabel, ZenonT(60) DEF InstancesFor, Prometheuses
      <4>2. p \in todo'[j]
        BY <2>1, <2>2, <4>1, ZenonT(60) DEF SelectionTypes
      <4> QED
        BY <2>2, <4>2, ZenonT(60) DEF Due
    <3> QED
      BY <3>1, <3>2, SMTT(60)
  <2>4. ASSUME NEW h \in EventHandlers, p \in todo[h]
        PROVE  Due(p, k, n)'
    <3>1. p \in todo'[h]
      BY <2>1, <2>4, ZenonT(60) DEF SelectionTypes
    <3> QED
      BY <3>1 DEF Due
  <2> QED
    BY <1>4, <2>1, <2>3, <2>4, ZenonT(60) DEF Due
<1>7. ASSUME NEW h \in EventHandlers, EnqueueForReconciliation(h)
      PROVE  Due(p, k, n)'
  <2>1. PICK q \in todo[h] : /\ todo' = [todo EXCEPT ![h] = @ \ {q}]
                             /\ reconcileQ' = Add(reconcileQ, q)
                             /\ UNCHANGED <<nsNotes, monNotes>>
    BY <1>7, ZenonT(60) DEF EnqueueForReconciliation
  <2>2. /\ q \in reconcileQ'.dirty /\ reconcileQ.dirty \subseteq reconcileQ'.dirty
        /\ reconcileQ'.waiting = reconcileQ.waiting
    BY <2>1, AddFacts DEF SelectionTypes
  <2>3. \A g \in EventHandlers : p \in todo[g] => p = q \/ p \in todo'[g]
    BY <2>1, ZenonT(60) DEF SelectionTypes
  <2> QED
    BY <1>3, <1>4, <2>1, <2>2, <2>3 DEF Due, Pending
<1>8. ASSUME NEW q \in Prometheuses, ReleaseKey(q)
      PROVE  Due(p, k, n)'
  <2>1. /\ reconcileQ' = Release(reconcileQ, q) /\ UNCHANGED <<nsNotes, monNotes, todo>>
    BY <1>8, ZenonT(60) DEF ReleaseKey, SyncUnchanged
  <2>2. Pending(reconcileQ, p) => Pending(reconcileQ', p)
    BY <2>1, ReleaseFacts, ZenonT(60) DEF SelectionTypes, Pending, Prometheuses
  <2> QED
    BY <1>3, <1>4, <2>1, <2>2, ZenonT(60) DEF Due
<1> QED
  BY <1>5, <1>6, <1>7, <1>8, ZenonT(60)

\* Sync starts with nothing read, reads the caches as they are, and ends with what it
\* read in place, or with its key waiting.
LEMMA MissedSync ==
  ASSUME SelectionTypes, SyncProgress, NothingMissed, Sync
  PROVE  NothingMissed'
<1> SUFFICES ASSUME NEW p \in Keys, NEW k \in KindSet, NEW n \in Namespaces
             PROVE  \/ Due(p, k, n)'
                    \/ IF sync'.key = p THEN InHand(p, k, n)'
                                        ELSE Shows(config[p][k], p, k, n)'
  BY ZenonT(60) DEF NothingMissed
<1>1. \/ Due(p, k, n)
      \/ IF sync.key = p THEN InHand(p, k, n) ELSE Shows(config[p][k], p, k, n)
  BY DEF NothingMissed
<1>2. UNCHANGED <<nsCache, monCache, nsNotes, monNotes, todo>>
  BY ZenonT(60) DEF Sync, SyncStart, ListMatchingNamespaces, selectObjects, Write, SyncFinish,
               SyncUnchanged
<1>3. /\ Selects(p, k, n)' <=> Selects(p, k, n)
      /\ \A S : Shows(S, p, k, n) <=>
           \A c \in Contents : <<n, c>> \in S <=> Selects(p, k, n)' /\ monCache'[k][n] = c /\ c \in Selectable
  BY <1>2, SelectsLabel, ZenonT(60) DEF Shows
<1>4. /\ Shows(config[p][k], p, k, n) /\ config'[p][k] = config[p][k] => Shows(config[p][k], p, k, n)'
      /\ Shows(sync.found[k], p, k, n) /\ sync'.found[k] = sync.found[k] => Shows(sync.found[k], p, k, n)'
  BY <1>3, ZenonT(60) DEF Shows
<1>5. Due(p, k, n) /\ (Pending(reconcileQ, p) => Pending(reconcileQ', p)) => Due(p, k, n)'
  BY <1>2, <1>3, ZenonT(60) DEF Due
<1>6. CASE SyncStart
  <2>1. /\ Head(reconcileQ.queue) \in Keys
        /\ reconcileQ'.dirty = reconcileQ.dirty \ {Head(reconcileQ.queue)}
        /\ reconcileQ'.waiting = reconcileQ.waiting
    BY <1>6, GetFacts DEF SyncStart, SelectionTypes
  <2>2. /\ sync'.pc = "namespaces" /\ sync'.key = Head(reconcileQ.queue) /\ sync'.next = 1
        /\ config' = config /\ sync.key = None
    BY <1>6, ZenonT(60) DEF SyncStart, IdleSync, SyncProgress
  <2>3. CASE p = Head(reconcileQ.queue)
    <3>1. Written' = {}
      BY <2>2, SMTT(60) DEF Written
    <3> QED
      BY <2>2, <2>3, <3>1 DEF InHand
  <2>4. CASE p # Head(reconcileQ.queue)
    <3>1. Pending(reconcileQ, p) => Pending(reconcileQ', p)
      BY <2>1, <2>4, SMTT(60) DEF Pending
    <3> QED
      BY <1>1, <1>4, <1>5, <2>2, <2>4, <3>1, SelectionAssumption, Zenon
  <2> QED
    BY <2>3, <2>4
<1>7. CASE ListMatchingNamespaces
  <2>1. /\ sync'.pc = "objects" /\ sync'.key = sync.key /\ sync'.next = sync.next
        /\ sync'.found = sync.found /\ sync'.err = sync.err
        /\ sync'.namespaces = SelectedNamespaces(sync.key, Kinds[sync.next], nsCache)
        /\ UNCHANGED <<reconcileQ, config>>
    BY <1>7, SMTT(60) DEF ListMatchingNamespaces, SelectionTypes, SyncStates
  <2>2. Written' = Written
    BY <2>1, ZenonT(60) DEF Written
  <2>3. sync.key = p /\ k = Kinds[sync.next] => (n \in sync'.namespaces <=> Selects(p, k, n)')
    BY <1>3, <2>1, ZenonT(60) DEF Selects
  <2> QED
    BY <1>1, <1>4, <1>5, <2>1, <2>2, <2>3, Zenon DEF InHand
<1>8. CASE selectObjects
  <2> DEFINE j == Kinds[sync.next]
  <2>1. j \in KindSet /\ sync.next <= Len(Kinds) /\ Len(Kinds) \in Nat /\ sync.next \in Nat
    BY <1>8, KindRead DEF selectObjects, SyncProgress, SelectionTypes, SyncStates
  <2>2. /\ sync'.pc # "objects" /\ sync.pc = "objects" /\ sync'.key = sync.key
        /\ sync'.next = sync.next + 1 /\ sync'.err = sync.err
        /\ sync'.found = [sync.found EXCEPT ![j] = ObjectsIn(sync.namespaces, monCache[j])]
        /\ UNCHANGED <<reconcileQ, config>>
    BY <1>8 DEF selectObjects, SelectionTypes, SyncStates
  <2>3. ~sync.err
    BY <2>2, SMTT(60) DEF SyncProgress
  <2>4. CASE Due(p, k, n) \/ sync.key # p
    BY <1>1, <1>4, <1>5, <2>2, <2>4, ZenonT(60)
  <2>5. CASE sync.key = p /\ InHand(p, k, n) /\ k = j
    <3>1. sync.namespaces \in SUBSET Namespaces /\ monCache[j] \in [Namespaces -> Contents \cup {None}]
      BY <2>1, ZenonT(60) DEF SelectionTypes, SyncStates, ObjectCaches
    <3>2. sync'.found[k] = ObjectsIn(sync.namespaces, monCache[k])
      BY <2>1, <2>2, <2>5, ZenonT(60) DEF SelectionTypes, SyncStates
    <3>3. \/ n \in sync.namespaces <=> Selects(p, k, n)
          \/ n \notin sync.namespaces /\ monCache[k][n] = None
      BY <2>2, <2>3, <2>5, ZenonT(60) DEF InHand
    <3>4. ASSUME NEW c \in Contents
          PROVE  <<n, c>> \in sync'.found[k] <=>
                   Selects(p, k, n)' /\ monCache'[k][n] = c /\ c \in Selectable
      <4>1. <<n, c>> \in sync'.found[k] <=>
              n \in sync.namespaces /\ monCache[k][n] = c /\ c \in Selectable
        BY <2>5, <3>1, <3>2, ObjectsInMember
      <4> QED
        BY <1>2, <1>3, <3>3, <4>1, SelectionAssumption, ZenonT(60)
    <3>5. Shows(sync.found[k], p, k, n)'
      BY <3>4, SMTT(60) DEF Shows
    <3> QED
      BY <2>2, <2>5, <3>5 DEF InHand
  <2>6. CASE sync.key = p /\ InHand(p, k, n) /\ k # j
    <3>1. k \in Written' => k \in Written
      BY <2>1, <2>2, <2>6, SMTT(60) DEF Written
    <3>2. sync'.found[k] = sync.found[k]
      BY <2>1, <2>2, <2>6, ZenonT(60) DEF SelectionTypes, SyncStates
    <3> QED
      BY <1>4, <2>2, <2>3, <2>6, <3>1, <3>2, ZenonT(60) DEF InHand
  <2> QED
    BY <1>1, <2>4, <2>5, <2>6
<1>9. CASE Write
  <2>1. sync.pc = "write" /\ ~sync.err /\ UNCHANGED reconcileQ
    BY <1>9 DEF Write, SyncProgress
  <2>2. \A q \in Keys : q # sync.key => config'[q] = config[q]
    BY <1>9 DEF Write, SelectionTypes
  <2>3. sync'.key = sync.key /\ sync'.found = sync.found /\ sync'.next = sync.next
    BY <1>9, ZenonT(60) DEF Write, SelectionTypes, SyncStates
  <2>4. Written' = Written /\ sync'.pc # "objects"
    BY <1>9, <2>3, Zenon DEF Write, Written, SelectionTypes, SyncStates
  <2>5. CASE Due(p, k, n) \/ sync.key # p
    BY <1>1, <1>4, <1>5, <2>1, <2>2, <2>3, <2>5, ZenonT(60)
  <2>6. CASE sync.key = p /\ InHand(p, k, n)
    <3>1. k \in Written => Shows(sync.found[k], p, k, n)
      BY <2>1, <2>6, ZenonT(60) DEF InHand
    <3>2. sync'.found[k] = sync.found[k]
      BY <2>3, ZenonT(60)
    <3>3. k \in Written' => Shows(sync.found[k], p, k, n)'
      <4>1. k \in Written' => k \in Written
        BY <2>4, Zenon
      <4> QED
        BY <1>4, <3>1, <3>2, <4>1, Zenon
    <3>4. InHand(p, k, n)'
      BY <2>4, <3>3, ZenonT(60) DEF InHand
    <3> QED
      BY <2>3, <2>6, <3>4, Zenon
  <2> QED
    BY <1>1, <2>5, <2>6
<1>10. CASE SyncFinish
  <2>1. sync.key \in Keys /\ sync.pc = "finish"
    BY <1>10, ZenonT(60) DEF SyncFinish, SyncProgress, SelectionTypes, SyncStates
  <2>2. /\ Pending(reconcileQ, p) => Pending(reconcileQ', p)
        /\ sync.err => Pending(reconcileQ', sync.key)
    <3> DEFINE q == IF sync.err THEN AddRateLimited(reconcileQ, sync.key) ELSE reconcileQ
    <3>1. reconcileQ' = Done(q, sync.key) /\ reconcileQ \in Queue /\ ~reconcileQ.down
      BY <1>10, ZenonT(60) DEF SyncFinish, SelectionTypes
    <3>2. /\ q \in Queue /\ q.dirty = reconcileQ.dirty /\ reconcileQ.waiting \subseteq q.waiting
          /\ sync.err => sync.key \in q.waiting
      <4>1. CASE sync.err
        BY <2>1, <3>1, <4>1, AddRateLimitedFacts, ZenonT(60)
      <4>2. CASE ~sync.err
        BY <3>1, <4>2, ZenonT(60)
      <4> QED
        BY <4>1, <4>2, ZenonT(60)
    <3> HIDE DEF q
    <3> QED
      BY <2>1, <3>1, <3>2, DoneFacts DEF Pending
  <2>3. sync'.key # p /\ config' = config
    BY <1>10, SelectionAssumption, SMTT(60) DEF SyncFinish, IdleSync
  <2>4. CASE Due(p, k, n) \/ sync.key # p
    BY <1>1, <1>4, <1>5, <2>2, <2>3, <2>4, ZenonT(60)
  <2>5. CASE sync.key = p /\ sync.err
    BY <2>2, <2>5, ZenonT(60) DEF Due
  <2>6. CASE sync.key = p /\ InHand(p, k, n) /\ ~sync.err
    <3>1. sync.next = Len(Kinds) + 1 /\ config[p] = sync.found
      BY <2>1, <2>6, ZenonT(60) DEF SyncProgress
    <3>2. k \in Written
      BY <3>1, SelectionAssumption DEF Written, KindSet
    <3>3. Shows(config[p][k], p, k, n)
      BY <2>6, <3>1, <3>2 DEF InHand
    <3> QED
      BY <1>4, <2>3, <3>3, ZenonT(60)
  <2> QED
    BY <1>1, <2>4, <2>5, <2>6
<1> QED
  BY <1>6, <1>7, <1>8, <1>9, <1>10, ZenonT(60) DEF Sync

LEMMA MissedNext ==
  ASSUME SelectionTypes, SyncProgress, NamespacesKnown, NothingMissed, RacesExcluded,
         [Next]_vars
  PROVE  NothingMissed'
<1>1. CASE Users \/ UNCHANGED vars
  <2>1. UNCHANGED <<nsCache, monCache, nsNotes, monNotes, todo, reconcileQ, sync, config>>
    BY <1>1, ZenonT(60) DEF Users, PutNamespace, PutObject, vars
  <2>2. ASSUME NEW p, NEW k, NEW n PROVE Selects(p, k, n)' <=> Selects(p, k, n)
    BY <2>1 DEF Selects, SelectedNamespaces
  <2>3. ASSUME NEW p, NEW k, NEW n, NEW S PROVE Shows(S, p, k, n)' <=> Shows(S, p, k, n)
    BY <2>1, <2>2 DEF Shows
  <2>4. ASSUME NEW p, NEW k, NEW n PROVE Due(p, k, n)' <=> Due(p, k, n)
    BY <2>1, <2>2, ZenonT(60) DEF Due
  <2>5. ASSUME NEW p, NEW k, NEW n PROVE InHand(p, k, n)' <=> InHand(p, k, n)
    <3>1. Shows(sync.found[k], p, k, n)' <=> Shows(sync.found[k], p, k, n)
      BY <2>1, <2>3
    <3>2. Written' = Written
      BY <2>1 DEF Written
    <3> QED
      BY <2>1, <2>2, <3>1, <3>2 DEF InHand
  <2>6. ASSUME NEW p, NEW k, NEW n
        PROVE  Shows(config[p][k], p, k, n)' <=> Shows(config[p][k], p, k, n)
    BY <2>1, <2>3, ZenonT(60)
  <2> QED
    BY <2>1, <2>4, <2>5, <2>6, Zenon DEF NothingMissed
<1> QED
  BY <1>1, MissedNamespace, MissedObject, MissedHandler, MissedSync, ZenonT(60) DEF Next

\* Seen over all namespaces, NothingMissed is SelectionFollowsCaches.
LEMMA MissedMeaning == SelectionInv => SelectionFollowsCaches
<1> SUFFICES ASSUME SelectionInv, NEW p \in Keys, NEW k \in KindSet,
                    EventsHandled(p), ~Pending(reconcileQ, p), sync.key # p
             PROVE  config[p][k] = Selection(p, k, nsCache, monCache)
  BY ZenonT(60) DEF SelectionFollowsCaches, Prometheuses
<1>1. ASSUME NEW n \in Namespaces
      PROVE  Shows(config[p][k], p, k, n)
  <2>1. nsNotes[n] = <<>> /\ monNotes[k][n] = 0 /\ \A h \in EventHandlers : p \notin todo[h]
    BY ZenonT(60) DEF EventsHandled
  <2>2. DOMAIN nsNotes[n] = {}
    BY <2>1, SMTT(60)
  <2>3. ~(monNotes[k][n] > 0)
    BY <2>1, SMTT(60)
  <2>4. ~Due(p, k, n)
    BY <2>1, <2>2, <2>3, Zenon DEF Due
  <2> QED
    BY <2>4, ZenonT(60) DEF SelectionInv, NothingMissed
<1> DEFINE S == SelectedNamespaces(p, k, nsCache)
           o == monCache[k]
<1>2. S \in SUBSET Namespaces /\ o \in [Namespaces -> Contents \cup {None}]
  BY SelectedTypes DEF SelectionInv, SelectionTypes, ObjectCaches
<1>3. config[p][k] \in Selections
  BY ZenonT(60) DEF SelectionInv, SelectionTypes
<1>4. ObjectsIn(S, o) \in Selections
  BY <1>2, SelectionAssumption DEF ObjectsIn, Selections
<1>5. \A n \in Namespaces, c \in Contents : <<n, c>> \in config[p][k] <=> <<n, c>> \in ObjectsIn(S, o)
  <2> TAKE n \in Namespaces, c \in Contents
  <2>1. <<n, c>> \in config[p][k] <=> n \in S /\ o[n] = c /\ c \in Selectable
    BY <1>1, ZenonT(60) DEF Shows, Selects
  <2> HIDE DEF S, o
  <2> QED
    BY <1>2, <2>1, ObjectsInMember, ZenonT(60)
<1>6. config[p][k] = ObjectsIn(S, o)
  <2> DEFINE A == config[p][k]
             B == ObjectsIn(S, o)
  <2>1. /\ A \in SUBSET (Namespaces \X Contents) /\ B \in SUBSET (Namespaces \X Contents)
        /\ \A n \in Namespaces, c \in Contents : <<n, c>> \in A <=> <<n, c>> \in B
    BY <1>3, <1>4, <1>5 DEF Selections
  <2> HIDE DEF A, B
  <2>2. ASSUME NEW e \in Namespaces \X Contents
        PROVE  e \in A <=> e \in B
    <3>1. PICK n \in Namespaces, c \in Contents : e = <<n, c>>
      OBVIOUS
    <3> QED
      BY <2>1, <3>1
  <2>3. A = B
    BY <2>1, <2>2
  <2> QED
    BY <2>3, ZenonT(60) DEF A, B
<1> QED
  BY <1>6, ZenonT(60) DEF Selection

\* No change of a selection is lost (enqueueForNamespace, handleMonitorNamespaceUpdate,
\* selectObjects): once the reported events are handled and p is neither queued nor in
\* work, what was generated for p is what it selects from the caches, for any instances,
\* namespaces, labels and kinds, while the informers do not race.
THEOREM NothingUnselected ==
  ASSUME RacesExcluded
  PROVE  Spec => []SelectionFollowsCaches
<1>1. Init => SelectionInv
  BY TypesInit, ProgressInit, MissedInit DEF SelectionInv
<1>2. SelectionInv /\ [Next]_vars => SelectionInv'
  BY TypesNext, ProgressNext, KnownNext, MissedNext DEF SelectionInv
<1> QED
  BY <1>1, <1>2, MissedMeaning, PTL DEF Spec
=============================================================================
