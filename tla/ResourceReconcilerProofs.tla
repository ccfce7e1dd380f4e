---------------------- MODULE ResourceReconcilerProofs ----------------------
(***************************************************************************)
(* Type correctness of ResourceReconciler, for every set of keys, labels   *)
(* and annotations and for every bound: first the users, the cluster, the  *)
(* watches and the caches, then the process.                               *)
(***************************************************************************)
EXTENDS ResourceReconciler, WorkqueueProofs

Versions  == Object \cup {None}
SVersions == StatefulSet \cup {None}

-----------------------------------------------------------------------------
(* Types *)

\* The per-key channels (watches and notifications) stay channels.
LEMMA Channels ==
  ASSUME NEW S, NEW f \in [Keys -> Seq(S)], NEW k \in Keys
  PROVE  /\ \A v \in S : [f EXCEPT ![k] = Append(@, v)] \in [Keys -> Seq(S)]
         /\ \A s \in Seq(S) : [f EXCEPT ![k] = @ \o s] \in [Keys -> Seq(S)]
         /\ [f EXCEPT ![k] = <<>>] \in [Keys -> Seq(S)]
         /\ f[k] # <<>> => /\ [f EXCEPT ![k] = Tail(@)] \in [Keys -> Seq(S)]
                           /\ Head(f[k]) \in S
<1>1. \A v \in S : [f EXCEPT ![k] = Append(@, v)] \in [Keys -> Seq(S)]
  OBVIOUS
<1>2. \A s \in Seq(S) : [f EXCEPT ![k] = @ \o s] \in [Keys -> Seq(S)]
  OBVIOUS
<1>3. [f EXCEPT ![k] = <<>>] \in [Keys -> Seq(S)]
  OBVIOUS
<1>4. f[k] # <<>> => /\ [f EXCEPT ![k] = Tail(@)] \in [Keys -> Seq(S)]
                     /\ Head(f[k]) \in S
  OBVIOUS
<1> QED
  BY <1>1, <1>2, <1>3, <1>4

\* Leaving out the status keeps an object an object.
LEMMA DesireType ==
  ASSUME NEW o \in Versions
  PROVE  /\ Desire(o) \in Versions
         /\ Desire(o) = None <=> o = None
         /\ o # None => /\ Desire(o).uid = o.uid
                        /\ Desire(o).gen = o.gen
                        /\ Desire(o).meta = o.meta
                        /\ Desire(o).deleting = o.deleting
<1>1. CASE o = None
  BY <1>1 DEF Versions, Desire
<1>2. CASE o # None
  <2>1. o \in Object
    BY <1>2 DEF Versions
  <2>2. Desire(o) = [o EXCEPT !.status = None]
    BY <1>2 DEF Desire
  <2>3. Desire(o) \in Object
    BY <2>1, <2>2 DEF Object
  <2>4. Desire(o) # None
    BY <2>3, NoneAssumption
  <2> QED
    BY <1>2, <2>1, <2>2, <2>3, <2>4 DEF Versions, Object
<1> QED
  BY <1>1, <1>2

\* Notifications have the type of notifications.
LEMMA NoteType ==
  ASSUME NEW T, NEW old \in T \cup {None}, NEW cur \in T \cup {None}
  PROVE  /\ \A r, t \in BOOLEAN :
              [old |-> old, cur |-> cur, resync |-> r, tomb |-> t] \in Note(T)
         /\ RelistNotes(old, cur) \in Seq(Note(T))
<1>1. \A r, t \in BOOLEAN :
        [old |-> old, cur |-> cur, resync |-> r, tomb |-> t] \in Note(T)
  BY DEF Note
<1>2. CASE old = None /\ cur = None
  BY <1>1, <1>2 DEF RelistNotes
<1>3. CASE ~(old = None /\ cur = None)
  <2>1. (cur = None) \in BOOLEAN
    OBVIOUS
  <2>2. [old |-> old, cur |-> cur, resync |-> FALSE, tomb |-> cur = None] \in Note(T)
    BY <1>1, <2>1, Zenon
  <2> QED
    BY <1>1, <1>3, <2>2 DEF RelistNotes
<1> QED
  BY <1>2, <1>3

\* Init (New and the zero values of the structs) satisfies the types.
LEMMA InitType == Init => TypeOK
<1> SUFFICES ASSUME Init PROVE TypeOK
  OBVIOUS
<1>1. reconcileQ \in Queue /\ statusQ \in Queue
  BY EmptyFacts DEF Init
<1>2. rec \in [pc : RecPcs, key : Keys \cup {None}, obj : Object \cup {None}, err : BOOLEAN]
  BY DEF Init, IdleRec, RecPcs
<1>3. stat \in [pc : StatPcs, key : Keys \cup {None}, gen : Nat,
                avail : {"True", "False"}, rec : {"True", "False", "Unknown"}]
  BY DEF Init, IdleStat, StatPcs
<1>4. /\ crWatch \in [Keys -> Seq(Object \cup {None})]
      /\ ssWatch \in [Keys -> Seq(StatefulSet \cup {None})]
      /\ crNotes \in [Keys -> Seq(Note(Object))]
      /\ ssNotes \in [Keys -> Seq(Note(StatefulSet))]
  BY DEF Init
<1>5. /\ cr \in [Keys -> Object \cup {None}]
      /\ sset \in [Keys -> StatefulSet \cup {None}]
      /\ crCache \in [Keys -> Object \cup {None}]
      /\ ssCache \in [Keys -> StatefulSet \cup {None}]
      /\ tracker \in [Keys -> {"none", "ok", "err"}]
      /\ synced \in [Keys -> Object \cup {None}]
  BY DEF Init
<1>6. refresh \subseteq Keys /\ edits \in Nat /\ faults \in Nat /\ gaps \in Nat
        /\ crashes \in Nat
  BY DEF Init
<1> QED
  BY <1>1, <1>2, <1>3, <1>4, <1>5, <1>6, ZenonT(60) DEF TypeOK

\* Writes to the API server keep the types.
LEMMA PutType ==
  ASSUME TypeOK, NEW k \in Keys
  PROVE  /\ \A o \in Versions : PutCR(k, o) =>
              /\ cr' \in [Keys -> Object \cup {None}]
              /\ crWatch' \in [Keys -> Seq(Object \cup {None})]
         /\ \A s \in SVersions : PutSset(k, s) =>
              /\ sset' \in [Keys -> StatefulSet \cup {None}]
              /\ ssWatch' \in [Keys -> Seq(StatefulSet \cup {None})]
<1>1. ASSUME NEW o \in Versions, PutCR(k, o)
      PROVE  /\ cr' \in [Keys -> Object \cup {None}]
             /\ crWatch' \in [Keys -> Seq(Object \cup {None})]
  <2>1. cr' \in [Keys -> Object \cup {None}]
    BY <1>1 DEF TypeOK, PutCR, Versions
  <2>2. crWatch' \in [Keys -> Seq(Object \cup {None})]
    BY <1>1, Channels, ZenonT(60) DEF TypeOK, PutCR, Versions
  <2> QED
    BY <2>1, <2>2
<1>2. ASSUME NEW s \in SVersions, PutSset(k, s)
      PROVE  /\ sset' \in [Keys -> StatefulSet \cup {None}]
             /\ ssWatch' \in [Keys -> Seq(StatefulSet \cup {None})]
  <2>1. sset' \in [Keys -> StatefulSet \cup {None}]
    BY <1>2 DEF TypeOK, PutSset, SVersions
  <2>2. ssWatch' \in [Keys -> Seq(StatefulSet \cup {None})]
    BY <1>2, Channels, ZenonT(60) DEF TypeOK, PutSset, SVersions
  <2> QED
    BY <2>1, <2>2
<1> QED
  BY <1>1, <1>2

\* Marking as deleted and changing the spec give objects.
LEMMA MarkType ==
  /\ \A o \in Object : [o EXCEPT !.deleting = TRUE, !.gen = @ + 1] \in Object
  /\ \A s \in StatefulSet : [s EXCEPT !.deleting = TRUE, !.gen = @ + 1] \in StatefulSet
  /\ \A s \in StatefulSet : [s EXCEPT !.spec = Foreign, !.gen = @ + 1] \in StatefulSet
<1>1. ASSUME NEW o \in Object, NEW g \in Nat
      PROVE  [o EXCEPT !.deleting = TRUE, !.gen = g] \in Object
  BY Zenon DEF Object
<1>2. ASSUME NEW s \in StatefulSet, NEW g \in Nat
      PROVE  [s EXCEPT !.deleting = TRUE, !.gen = g] \in StatefulSet
  BY Zenon DEF StatefulSet
<1>3. ASSUME NEW s \in StatefulSet, NEW f \in Specs, NEW g \in Nat
      PROVE  [s EXCEPT !.spec = f, !.gen = g] \in StatefulSet
  BY Zenon DEF StatefulSet
<1>4. Foreign \in Specs
  BY DEF Specs
<1>5. \A o \in Object : o.gen + 1 \in Nat
  BY DEF Object
<1>6. \A s \in StatefulSet : s.gen + 1 \in Nat
  BY DEF StatefulSet
<1> QED
  BY <1>1, <1>2, <1>3, <1>4, <1>5, <1>6, Zenon

\* An edit of the spec gives an object with the same uid and deletion mark.
LEMMA SpecType ==
  \A o \in Object, p \in BOOLEAN :
    /\ [o EXCEPT !.gen = @ + 1, !.paused = p] \in Object
    /\ [o EXCEPT !.gen = @ + 1, !.paused = p].uid = o.uid
    /\ [o EXCEPT !.gen = @ + 1, !.paused = p].deleting = o.deleting
<1>1. ASSUME NEW o \in Object, NEW p \in BOOLEAN, NEW g \in Nat
      PROVE  /\ [o EXCEPT !.gen = g, !.paused = p] \in Object
             /\ [o EXCEPT !.gen = g, !.paused = p].uid = o.uid
             /\ [o EXCEPT !.gen = g, !.paused = p].deleting = o.deleting
  BY Zenon DEF Object
<1>2. \A o \in Object : o.gen + 1 \in Nat
  BY DEF Object
<1> QED
  BY <1>1, <1>2, ZenonT(60)

\* The users' actions keep the types.
LEMMA UsersType ==
  ASSUME TypeOK, NEW k \in Keys, Users(k)
  PROVE  TypeOK'
<1>1. ASSUME NEW o \in Versions, UserEdit(k, o)
      PROVE  TypeOK'
  <2>1. /\ cr' \in [Keys -> Object \cup {None}]
        /\ crWatch' \in [Keys -> Seq(Object \cup {None})]
    BY <1>1, PutType DEF UserEdit
  <2>2. edits' \in Nat
    BY <1>1 DEF UserEdit, Edit, TypeOK
  <2>3. UNCHANGED <<sset, ssWatch, crCache, ssCache, crNotes, ssNotes, refresh,
                    reconcileQ, statusQ, rec, tracker, synced, stat, faults, gaps, crashes>>
    BY <1>1 DEF UserEdit, cacheVars, recVars
  <2> QED
    BY <2>1, <2>2, <2>3, Zenon DEF TypeOK
<1>2. CASE CreateObject(k)
  <2>1. PICK m \in Metas, p \in Paused :
          UserEdit(k, [uid |-> edits + 1, gen |-> 1, meta |-> m, paused |-> p,
                       deleting |-> FALSE, status |-> None])
    BY <1>2, Zenon DEF CreateObject
  <2>2. edits + 1 \in Nat
    BY DEF TypeOK
  <2>3. [uid |-> edits + 1, gen |-> 1, meta |-> m, paused |-> p,
         deleting |-> FALSE, status |-> None] \in Versions
    BY <2>2, ConstantsAssumption DEF Versions, Object
  <2> QED
    BY <1>1, <2>1, <2>3
<1>3. ASSUME cr[k] # None
      PROVE  cr[k] \in Object
  BY <1>3 DEF TypeOK
<1>4. CASE EditSpec(k)
  <2>1. PICK p \in Paused : UserEdit(k, [cr[k] EXCEPT !.gen = @ + 1, !.paused = p])
    BY <1>4, Zenon DEF EditSpec
  <2>2. cr[k] \in Object /\ cr[k].gen + 1 \in Nat /\ p \in BOOLEAN
    BY <1>3, <1>4, ConstantsAssumption, SMTT(60) DEF Object, EditSpec
  <2>3. [cr[k] EXCEPT !.gen = @ + 1, !.paused = p] \in Object
    BY <2>2, SpecType, Zenon
  <2> QED
    BY <1>1, <2>1, <2>3 DEF Versions
<1>5. CASE EditMeta(k)
  <2>1. PICK m \in Metas : UserEdit(k, [cr[k] EXCEPT !.meta = m])
    BY <1>5 DEF EditMeta
  <2>2. [cr[k] EXCEPT !.meta = m] \in Object
    BY <1>3, <1>5 DEF Object, EditMeta
  <2> QED
    BY <1>1, <2>1, <2>2 DEF Versions
<1>6. CASE DeleteObject(k)
  <2>1. [cr[k] EXCEPT !.deleting = TRUE, !.gen = @ + 1] \in Object
    BY <1>3, <1>6, MarkType, Zenon DEF DeleteObject
  <2>2. \/ UserEdit(k, None)
        \/ UserEdit(k, [cr[k] EXCEPT !.deleting = TRUE, !.gen = @ + 1])
    BY <1>6 DEF DeleteObject
  <2>3. None \in Versions
    BY DEF Versions
  <2>4. [cr[k] EXCEPT !.deleting = TRUE, !.gen = @ + 1] \in Versions
    BY <2>1 DEF Versions
  <2> QED
    BY <1>1, <2>2, <2>3, <2>4, SMTT(60)
<1>7. CASE FinalizeObject(k)
  <2>1. /\ cr' \in [Keys -> Object \cup {None}]
        /\ crWatch' \in [Keys -> Seq(Object \cup {None})]
    BY <1>7, PutType DEF FinalizeObject, Versions
  <2>2. UNCHANGED <<sset, ssWatch, crCache, ssCache, crNotes, ssNotes, refresh,
                    reconcileQ, statusQ, rec, tracker, synced, stat, edits, faults,
                    gaps, crashes>>
    BY <1>7 DEF FinalizeObject, cacheVars, recVars, budgets
  <2> QED
    BY <2>1, <2>2, Zenon DEF TypeOK
<1> QED
  BY <1>2, <1>4, <1>5, <1>6, <1>7 DEF Users

\* The cluster's actions keep the types.
LEMMA ClusterType ==
  ASSUME TypeOK, NEW k \in Keys, Cluster(k)
  PROVE  TypeOK'
<1>1. ASSUME NEW s \in SVersions, SsetEvent(k, s), faults' \in Nat
      PROVE  TypeOK'
  <2>1. /\ sset' \in [Keys -> StatefulSet \cup {None}]
        /\ ssWatch' \in [Keys -> Seq(StatefulSet \cup {None})]
    BY <1>1, PutType DEF SsetEvent
  <2>2. UNCHANGED <<cr, crWatch, crCache, ssCache, crNotes, ssNotes, refresh,
                    reconcileQ, statusQ, rec, tracker, synced, stat, edits, gaps, crashes>>
    BY <1>1 DEF SsetEvent, cacheVars, recVars
  <2> QED
    BY <1>1, <2>1, <2>2, ZenonT(60) DEF TypeOK
<1>2. faults \in Nat /\ faults + 1 \in Nat /\ None \in SVersions
  BY DEF TypeOK, SVersions
<1>3. ASSUME sset[k] # None
      PROVE  sset[k] \in StatefulSet
  BY <1>3 DEF TypeOK
<1>4. CASE GarbageCollect(k)
  BY <1>1, <1>2, <1>4 DEF GarbageCollect
<1>5. CASE PodsReady(k)
  <2>1. [sset[k] EXCEPT !.ready = TRUE] \in StatefulSet
    BY <1>3, <1>5, Zenon DEF StatefulSet, PodsReady
  <2> QED
    BY <1>1, <1>2, <1>5, <2>1 DEF PodsReady, SVersions
<1>6. CASE PodsFail(k)
  <2>1. [sset[k] EXCEPT !.ready = FALSE] \in StatefulSet
    BY <1>3, <1>6, Zenon DEF StatefulSet, PodsFail
  <2> QED
    BY <1>1, <1>2, <1>6, <2>1 DEF PodsFail, SVersions, Fault
<1>7. CASE LoseSset(k)
  <2>1. [sset[k] EXCEPT !.deleting = TRUE, !.gen = @ + 1] \in StatefulSet
    BY <1>3, <1>7, MarkType, Zenon DEF LoseSset
  <2>2. \/ SsetEvent(k, None)
        \/ SsetEvent(k, [sset[k] EXCEPT !.deleting = TRUE, !.gen = @ + 1])
    BY <1>7 DEF LoseSset
  <2>3. faults' \in Nat
    BY <1>2, <1>7 DEF LoseSset, Fault
  <2>4. [sset[k] EXCEPT !.deleting = TRUE, !.gen = @ + 1] \in SVersions
    BY <2>1 DEF SVersions
  <2> QED
    BY <1>1, <1>2, <2>2, <2>3, <2>4
<1>8. CASE DriftSset(k)
  <2>2. [sset[k] EXCEPT !.spec = Foreign, !.gen = @ + 1] \in StatefulSet
    BY <1>3, <1>8, MarkType, Zenon DEF DriftSset
  <2> QED
    BY <1>1, <1>2, <1>8, <2>2, SMTT(60) DEF DriftSset, SVersions, Fault
<1> QED
  BY <1>4, <1>5, <1>6, <1>7, <1>8 DEF Cluster

\* The informers keep the types.
LEMMA InformersType ==
  ASSUME TypeOK, NEW k \in Keys, Informers(k)
  PROVE  TypeOK'
<1>1. /\ cr[k] \in Versions /\ crCache[k] \in Versions
      /\ sset[k] \in SVersions /\ ssCache[k] \in SVersions
      /\ gaps \in Nat /\ gaps + 1 \in Nat
      /\ crNotes \in [Keys -> Seq(Note(Object))]
      /\ ssNotes \in [Keys -> Seq(Note(StatefulSet))]
      /\ crWatch \in [Keys -> Seq(Object \cup {None})]
      /\ ssWatch \in [Keys -> Seq(StatefulSet \cup {None})]
      /\ crCache \in [Keys -> Object \cup {None}]
      /\ ssCache \in [Keys -> StatefulSet \cup {None}]
  BY SMTT(60) DEF TypeOK, Versions, SVersions
<1>2. CASE ReceiveCR(k)
  <2>1. Head(crWatch[k]) \in Versions /\ crWatch' \in [Keys -> Seq(Object \cup {None})]
    BY <1>1, <1>2, Channels DEF ReceiveCR, Versions
  <2>2. crCache' \in [Keys -> Object \cup {None}]
    BY <1>1, <1>2, <2>1 DEF ReceiveCR, Versions
  <2>3. [old |-> Desire(crCache[k]), cur |-> Desire(Head(crWatch[k])),
         resync |-> FALSE, tomb |-> FALSE] \in Note(Object)
    BY <1>1, <2>1, DesireType, NoteType, Zenon DEF Versions
  <2>4. crNotes' \in [Keys -> Seq(Note(Object))]
    BY <1>1, <1>2, <2>3, Channels DEF ReceiveCR, Notify
  <2>5. UNCHANGED <<cr, sset, ssWatch, ssCache, ssNotes, refresh, reconcileQ, statusQ,
                    rec, tracker, synced, stat, edits, faults, gaps, crashes>>
    BY <1>2 DEF ReceiveCR, recVars, budgets
  <2> QED
    BY <2>1, <2>2, <2>4, <2>5, Zenon DEF TypeOK
<1>3. CASE ReceiveSset(k)
  <2>1. Head(ssWatch[k]) \in SVersions /\ ssWatch' \in [Keys -> Seq(StatefulSet \cup {None})]
    BY <1>1, <1>3, Channels DEF ReceiveSset, SVersions
  <2>2. ssCache' \in [Keys -> StatefulSet \cup {None}]
    BY <1>1, <1>3, <2>1 DEF ReceiveSset, SVersions
  <2>3. [old |-> ssCache[k], cur |-> Head(ssWatch[k]),
         resync |-> FALSE, tomb |-> FALSE] \in Note(StatefulSet)
    BY <1>1, <2>1, NoteType, ZenonT(60) DEF SVersions
  <2>4. ssNotes' \in [Keys -> Seq(Note(StatefulSet))]
    BY <1>1, <1>3, <2>3, Channels DEF ReceiveSset, Notify
  <2>5. UNCHANGED <<cr, sset, crWatch, crCache, crNotes, refresh, reconcileQ, statusQ,
                    rec, tracker, synced, stat, edits, faults, gaps, crashes>>
    BY <1>3 DEF ReceiveSset, recVars, budgets
  <2> QED
    BY <2>1, <2>2, <2>4, <2>5, ZenonT(60) DEF TypeOK
<1>4. CASE RelistCR(k)
  <2>1. crWatch' \in [Keys -> Seq(Object \cup {None})]
    BY <1>1, <1>4, Channels DEF RelistCR
  <2>2. crCache' \in [Keys -> Object \cup {None}] /\ gaps' \in Nat
    BY <1>1, <1>4 DEF RelistCR, Versions, Gap
  <2>3. RelistNotes(Desire(crCache[k]), Desire(cr[k])) \in Seq(Note(Object))
    BY <1>1, DesireType, NoteType, ZenonT(60) DEF Versions
  <2>4. crNotes' \in [Keys -> Seq(Note(Object))]
    BY <1>1, <1>4, <2>3, Channels DEF RelistCR
  <2>5. UNCHANGED <<cr, sset, ssWatch, ssCache, ssNotes, refresh, reconcileQ, statusQ,
                    rec, tracker, synced, stat, edits, faults, crashes>>
    BY <1>4 DEF RelistCR, recVars
  <2> QED
    BY <2>1, <2>2, <2>4, <2>5, ZenonT(60) DEF TypeOK
<1>5. CASE RelistSset(k)
  <2>1. ssWatch' \in [Keys -> Seq(StatefulSet \cup {None})]
    BY <1>1, <1>5, Channels DEF RelistSset
  <2>2. ssCache' \in [Keys -> StatefulSet \cup {None}] /\ gaps' \in Nat
    BY <1>1, <1>5 DEF RelistSset, SVersions, Gap
  <2>3. RelistNotes(ssCache[k], sset[k]) \in Seq(Note(StatefulSet))
    BY <1>1, NoteType, ZenonT(60) DEF SVersions
  <2>4. ssNotes' \in [Keys -> Seq(Note(StatefulSet))]
    BY <1>1, <1>5, <2>3, Channels DEF RelistSset
  <2>5. UNCHANGED <<cr, sset, crWatch, crCache, crNotes, refresh, reconcileQ, statusQ,
                    rec, tracker, synced, stat, edits, faults, crashes>>
    BY <1>5 DEF RelistSset, recVars
  <2> QED
    BY <2>1, <2>2, <2>4, <2>5, ZenonT(60) DEF TypeOK
<1>6. CASE Resync(k)
  <2>1. ResyncNote(Desire(crCache[k])) \in Note(Object) \/ crCache[k] = None
    BY <1>1, DesireType, NoteType, Zenon DEF Versions, ResyncNote
  <2>2. ResyncNote(ssCache[k]) \in Note(StatefulSet)
    BY <1>1, NoteType, ZenonT(60) DEF SVersions, ResyncNote
  <2>3. crNotes' \in [Keys -> Seq(Note(Object))] /\ ssNotes' \in [Keys -> Seq(Note(StatefulSet))]
    <3>1. CASE /\ crCache[k] # None
               /\ crNotes' = [crNotes EXCEPT ![k] = Append(@, ResyncNote(Desire(crCache[k])))]
               /\ UNCHANGED ssNotes
      BY <1>1, <2>1, <3>1, Channels, ZenonT(60)
    <3>2. CASE /\ ssNotes' = [ssNotes EXCEPT ![k] = Append(@, ResyncNote(ssCache[k]))]
               /\ UNCHANGED crNotes
      BY <1>1, <2>2, <3>2, Channels, SMTT(60)
    <3> QED
      BY <1>6, <3>1, <3>2, ZenonT(60) DEF Resync
  <2>5. UNCHANGED <<cr, sset, crWatch, ssWatch, crCache, ssCache, refresh, reconcileQ,
                    statusQ, rec, tracker, synced, stat, edits, faults, crashes>>
    BY <1>6, Zenon DEF Resync, apiVars, recVars
  <2>6. gaps' \in Nat
    BY <1>1, <1>6 DEF Resync, Gap
  <2> QED
    BY <2>3, <2>5, <2>6, Zenon DEF TypeOK
<1> QED
  BY <1>2, <1>3, <1>4, <1>5, <1>6 DEF Informers

-----------------------------------------------------------------------------
(* Types of the process *)

\* Enqueueing, conditionally or not, gives queues.
LEMMA EnqueueType ==
  ASSUME TypeOK, NEW k \in Keys, NEW o
  PROVE  /\ EnqueueForReconciliation(k, o) => reconcileQ' \in Queue /\ statusQ' \in Queue
         /\ EnqueueForStatus(k, o) => reconcileQ' \in Queue /\ statusQ' \in Queue
         /\ Ignore => reconcileQ' \in Queue /\ statusQ' \in Queue
<1>1. reconcileQ \in Queue /\ statusQ \in Queue
  BY DEF TypeOK
<1>2. Add(reconcileQ, k) \in Queue /\ Add(statusQ, k) \in Queue
  BY <1>1, AddFacts
<1> QED
  BY <1>1, <1>2 DEF EnqueueForReconciliation, EnqueueForStatus, Ignore

\* The event handlers keep the types.
LEMMA HandlersType ==
  ASSUME TypeOK, NEW k \in Keys, Handlers(k)
  PROVE  TypeOK'
<1>1. reconcileQ \in Queue /\ statusQ \in Queue
  BY DEF TypeOK
<1>2. CASE HandleCR(k)
  <2>1. Add(reconcileQ, k) \in Queue
    BY <1>1, AddFacts
  <2>2. reconcileQ' \in Queue
    BY <1>1, <1>2, <2>1 DEF HandleCR
  <2>3. crNotes' \in [Keys -> Seq(Note(Object))]
    BY <1>2, Channels DEF HandleCR, TypeOK
  <2>4. UNCHANGED <<cr, sset, crWatch, ssWatch, crCache, ssCache, ssNotes, refresh,
                    statusQ, rec, tracker, synced, stat, edits, faults, gaps, crashes>>
    BY <1>2 DEF HandleCR, apiVars, recVars, budgets
  <2> QED
    BY <2>2, <2>3, <2>4, Zenon DEF TypeOK
<1>3. CASE HandleSset(k)
  <2>1. reconcileQ' \in Queue /\ statusQ' \in Queue
    <3>1. CASE onStatefulSetAdd(k)
      BY <3>1, EnqueueType DEF onStatefulSetAdd
    <3>2. CASE onStatefulSetUpdate(k, Head(ssNotes[k]))
      BY <3>2, EnqueueType DEF onStatefulSetUpdate
    <3>3. CASE onStatefulSetDelete(k, Head(ssNotes[k]))
      BY <3>3, EnqueueType, ZenonT(60) DEF onStatefulSetDelete
    <3> QED
      BY <1>3, <3>1, <3>2, <3>3 DEF HandleSset
  <2>2. ssNotes' \in [Keys -> Seq(Note(StatefulSet))]
    BY <1>3, Channels DEF HandleSset, TypeOK
  <2>3. UNCHANGED <<cr, sset, crWatch, ssWatch, crCache, ssCache, crNotes, refresh,
                    rec, tracker, synced, stat, edits, faults, gaps, crashes>>
    BY <1>3 DEF HandleSset, apiVars, recVars, budgets
  <2> QED
    BY <2>1, <2>2, <2>3, ZenonT(60) DEF TypeOK
<1> QED
  BY <1>2, <1>3 DEF Handlers

\* The delayed and periodic actions, and the refresh at start, keep the types.
LEMMA TimersType ==
  ASSUME TypeOK, NEW k \in Keys, Timers(k) \/ RefreshStatusFor(k)
  PROVE  TypeOK'
<1>1. reconcileQ \in Queue /\ statusQ \in Queue
  BY ZenonT(60) DEF TypeOK
<1>2. reconcileQ' \in Queue /\ statusQ' \in Queue
  <2>1. Release(reconcileQ, k) \in Queue /\ Release(statusQ, k) \in Queue
    BY <1>1, ReleaseFacts, ZenonT(60)
  <2>2. CASE StatusPoller(k) \/ RefreshStatusFor(k)
    BY <2>2, EnqueueType, ZenonT(60) DEF StatusPoller, RefreshStatusFor
  <2> QED
    BY <1>1, <2>1, <2>2 DEF Timers, ReleaseRec, ReleaseStat
<1>3. refresh' \subseteq Keys
  BY ZenonT(60) DEF Timers, ReleaseRec, ReleaseStat, StatusPoller, RefreshStatusFor, TypeOK
<1>4. UNCHANGED <<cr, sset, crWatch, ssWatch, crCache, ssCache, crNotes, ssNotes,
                  rec, tracker, synced, stat, edits, faults, gaps, crashes>>
  BY DEF Timers, ReleaseRec, ReleaseStat, StatusPoller, RefreshStatusFor,
         apiVars, cacheVars, recVars, budgets
<1> QED
  BY <1>2, <1>3, <1>4, ZenonT(60) DEF TypeOK

\* A worker holds a key exactly while it processes one, and sync only goes on
\* with an object.
KeyHeld ==
  /\ rec.key = None <=> rec.pc \in {"idle", "exited"}
  /\ stat.key = None <=> stat.pc \in {"idle", "exited"}
  /\ rec.pc = "apply" => rec.obj # None

\* What SyncRead and SyncReturns make of the worker's state.
LEMMA RecRecords ==
  ASSUME TypeOK
  PROVE  /\ \A p \in RecPcs : [rec EXCEPT !.pc = p]
               \in [pc : RecPcs, key : Keys \cup {None}, obj : Object \cup {None}, err : BOOLEAN]
         /\ \A p \in RecPcs, e \in BOOLEAN : [rec EXCEPT !.pc = p, !.err = e]
               \in [pc : RecPcs, key : Keys \cup {None}, obj : Object \cup {None}, err : BOOLEAN]
         /\ \A p \in RecPcs : /\ [rec EXCEPT !.pc = p].pc = p
                              /\ [rec EXCEPT !.pc = p].key = rec.key
                              /\ [rec EXCEPT !.pc = p].obj = rec.obj
                              /\ [rec EXCEPT !.pc = p].err = rec.err
         /\ \A p \in RecPcs, e \in BOOLEAN :
               /\ [rec EXCEPT !.pc = p, !.err = e].pc = p
               /\ [rec EXCEPT !.pc = p, !.err = e].key = rec.key
               /\ [rec EXCEPT !.pc = p, !.err = e].obj = rec.obj
               /\ [rec EXCEPT !.pc = p, !.err = e].err = e
<1> DEFINE R == [pc : RecPcs, key : Keys \cup {None}, obj : Object \cup {None}, err : BOOLEAN]
<1>1. rec \in R
  BY DEF TypeOK
<1>2. ASSUME NEW p \in RecPcs
      PROVE  /\ [rec EXCEPT !.pc = p] \in R
             /\ [rec EXCEPT !.pc = p].pc = p
             /\ [rec EXCEPT !.pc = p].key = rec.key
             /\ [rec EXCEPT !.pc = p].obj = rec.obj
             /\ [rec EXCEPT !.pc = p].err = rec.err
  BY <1>1
<1>3. ASSUME NEW p \in RecPcs, NEW e \in BOOLEAN
      PROVE  /\ [rec EXCEPT !.pc = p, !.err = e] \in R
             /\ [rec EXCEPT !.pc = p, !.err = e].pc = p
             /\ [rec EXCEPT !.pc = p, !.err = e].key = rec.key
             /\ [rec EXCEPT !.pc = p, !.err = e].obj = rec.obj
             /\ [rec EXCEPT !.pc = p, !.err = e].err = e
  BY <1>1, Zenon
<1> QED
  BY <1>2, <1>3, Zenon

\* The reconciliation goroutine keeps the types.
LEMMA RecWorkerType ==
  ASSUME TypeOK, KeyHeld, RecWorker
  PROVE  TypeOK' /\ KeyHeld'
<1> DEFINE R == [pc : RecPcs, key : Keys \cup {None}, obj : Object \cup {None}, err : BOOLEAN]
<1>1. /\ reconcileQ \in Queue /\ statusQ \in Queue
      /\ rec \in R
      /\ tracker \in [Keys -> {"none", "ok", "err"}]
      /\ synced \in [Keys -> Object \cup {None}]
      /\ crCache \in [Keys -> Object \cup {None}]
      /\ sset \in [Keys -> StatefulSet \cup {None}]
      /\ faults \in Nat /\ faults + 1 \in Nat
  BY SMTT(60) DEF TypeOK
<1>2. rec.pc \in {"apply", "report", "finish"} => rec.key \in Keys
  BY <1>1 DEF KeyHeld
<1>3. None \notin Keys
  BY NoneAssumption
<1>4. CASE SyncRead
  <2> DEFINE k == Head(reconcileQ.queue)
             o == crCache[k]
  <2>1. k \in Keys /\ reconcileQ' \in Queue
    BY <1>1, <1>4, GetFacts DEF SyncRead
  <2>2. o \in Versions /\ Desire(o) \in Versions /\ (o # None => Desire(o) # None)
    BY <1>1, <2>1, DesireType DEF Versions
  <2>3. rec' = [pc |-> IF Present(o) THEN "apply" ELSE "report",
                key |-> k, obj |-> Desire(o), err |-> FALSE]
    BY <1>4 DEF SyncRead
  <2>4. rec' \in R
    BY <2>1, <2>2, <2>3, ZenonT(60) DEF RecPcs, Versions
  <2>5. tracker' \in [Keys -> {"none", "ok", "err"}]
    BY <1>1, <1>4, <2>1, ZenonT(60) DEF SyncRead
  <2>6. UNCHANGED <<cr, sset, crWatch, ssWatch, crCache, ssCache, crNotes, ssNotes,
                    refresh, statusQ, synced, stat, edits, faults, gaps, crashes>>
    BY <1>4 DEF SyncRead, apiVars, cacheVars, budgets
  <2>7. KeyHeld'
    BY <1>3, <2>1, <2>2, <2>3, <2>6, ZenonT(60) DEF KeyHeld, Present
  <2> QED
    BY <2>1, <2>4, <2>5, <2>6, <2>7, ZenonT(60) DEF TypeOK
<1>5. CASE SyncApply
  <2>1. rec.pc = "apply" /\ rec.key \in Keys /\ rec.obj \in Object
    BY <1>1, <1>2, <1>5 DEF SyncApply, KeyHeld
  <2> DEFINE h == inputHash(rec.obj, ssCache[rec.key])
  <2>2. h \in Hashes /\ inputHash(rec.obj, None) \in Hashes
    BY <2>1, ZenonT(60) DEF TypeOK, inputHash, Hashes, Object, StatefulSet
  <2>3. /\ sset' \in [Keys -> StatefulSet \cup {None}]
        /\ ssWatch' \in [Keys -> Seq(StatefulSet \cup {None})]
    <3>1. CASE UNCHANGED <<sset, ssWatch>>
      BY <3>1, ZenonT(60) DEF TypeOK
    <3>2. CASE CreateStatefulSet(rec.key, rec.obj)
      <4>1. rec.obj.gen \in Specs /\ rec.obj.uid \in Nat
        BY <2>1, ZenonT(60) DEF Object, Specs
      <4>2. [owner |-> rec.obj.uid, gen |-> 1, spec |-> rec.obj.gen,
             meta |-> inputHash(rec.obj, None), deleting |-> FALSE,
             ready |-> FALSE] \in SVersions
        BY <2>2, <4>1 DEF StatefulSet, SVersions
      <4> QED
        BY <2>1, <3>1, <3>2, <4>2, PutType, Zenon DEF CreateStatefulSet
    <3>3. CASE UpdateStatefulSet(rec.key, rec.obj, h)
      <4> DEFINE s == sset[rec.key]
                 g == IF s.spec = rec.obj.gen THEN s.gen ELSE s.gen + 1
                 n == [s EXCEPT !.owner = rec.obj.uid, !.spec = rec.obj.gen,
                                !.meta = h, !.gen = g]
      <4>1. CASE s = None
        BY <3>1, <3>3, <4>1 DEF UpdateStatefulSet
      <4>2. CASE s # None
        <5>1. s \in StatefulSet
          BY <1>1, <2>1, <4>2
        <5>2. g \in Nat /\ rec.obj.gen \in Specs /\ rec.obj.uid \in Nat
          BY <2>1, <5>1 DEF StatefulSet, Object, Specs
        <5> HIDE DEF s, g, h
        <5>3. n \in StatefulSet
          BY <2>2, <5>1, <5>2, Zenon DEF StatefulSet
        <5> USE DEF s, g, h
        <5>4. WriteSset(rec.key, n)
          BY <3>3, <4>2, Zenon DEF UpdateStatefulSet
        <5> HIDE DEF n
        <5>5. UNCHANGED <<sset, ssWatch>> \/ PutSset(rec.key, n)
          BY <5>4 DEF WriteSset
        <5> QED
          BY <2>1, <3>1, <5>3, <5>5, PutType DEF SVersions
      <4> QED
        BY <4>1, <4>2
    <3>4. CASE RejectStatefulSet(rec.key)
      <4>1. CASE UNCHANGED <<sset, ssWatch>>
        BY <3>1, <4>1, ZenonT(60)
      <4> DEFINE n == [sset[rec.key] EXCEPT !.deleting = TRUE, !.gen = @ + 1]
      <4>2. CASE sset[rec.key] # None /\ PutSset(rec.key, n)
        <5>1. n \in SVersions
          BY <1>1, <2>1, <4>2, MarkType, Zenon DEF SVersions
        <5> HIDE DEF n
        <5> QED
          BY <2>1, <4>2, <5>1, PutType, SMTT(60)
      <4> QED
        BY <3>4, <4>1, <4>2 DEF RejectStatefulSet
    <3> QED
      BY <1>5, <3>1, <3>2, <3>3, <3>4, Zenon DEF SyncApply
  <2>4. PICK e \in BOOLEAN : SyncReturns(e)
    BY <1>5, Zenon DEF SyncApply, CreateStatefulSet, UpdateStatefulSet,
                RejectStatefulSet
  <2>5. rec' \in R /\ rec'.pc = "report" /\ rec'.key = rec.key
    BY <2>4, RecRecords, ZenonT(60) DEF SyncReturns, RecPcs
  <2>6. faults' \in Nat
    BY <1>1, <1>5, Zenon DEF SyncApply, RejectStatefulSet, APIFailure, Fault
  <2>7. UNCHANGED <<cr, crWatch, crCache, ssCache, crNotes, ssNotes, refresh, reconcileQ,
                    statusQ, tracker, synced, stat, edits, gaps, crashes>>
    BY <2>4 DEF SyncReturns, cacheVars
  <2>8. KeyHeld'
    BY <1>3, <2>1, <2>5, <2>7 DEF KeyHeld
  <2> QED
    BY <2>3, <2>5, <2>6, <2>7, <2>8, ZenonT(60) DEF TypeOK
<1>6. CASE SyncReport
  <2>1. rec' \in R /\ rec'.pc = "finish" /\ rec'.key = rec.key /\ rec.key \in Keys
    BY <1>2, <1>6, RecRecords, Zenon DEF SyncReport, RecPcs
  <2>2. tracker' \in [Keys -> {"none", "ok", "err"}] /\ synced' \in [Keys -> Object \cup {None}]
    BY <1>1, <1>6, <2>1 DEF SyncReport
  <2>3. UNCHANGED <<cr, sset, crWatch, ssWatch, crCache, ssCache, crNotes, ssNotes,
                    refresh, reconcileQ, statusQ, stat, edits, faults, gaps, crashes>>
    BY <1>6, SMTT(60) DEF SyncReport, apiVars, cacheVars, budgets
  <2>4. KeyHeld'
    BY <1>3, <2>1, <2>3, ZenonT(60) DEF KeyHeld
  <2> QED
    BY <2>1, <2>2, <2>3, <2>4, ZenonT(60) DEF TypeOK
<1>7. CASE RecFinish
  <2>1. rec.key \in Keys
    BY <1>2, <1>7 DEF RecFinish
  <2>2. statusQ' \in Queue
    BY <1>1, <1>7, <2>1, AddFacts DEF RecFinish
  <2>3. AddRateLimited(reconcileQ, rec.key) \in Queue
    BY <1>1, <2>1, AddRateLimitedFacts
  <2>4. reconcileQ' \in Queue
    BY <1>1, <1>7, <2>1, <2>3, DoneFacts DEF RecFinish
  <2>5. rec' = IdleRec
    BY <1>7 DEF RecFinish
  <2>6. UNCHANGED <<cr, sset, crWatch, ssWatch, crCache, ssCache, crNotes, ssNotes,
                    refresh, tracker, synced, stat, edits, faults, gaps, crashes>>
    BY <1>7 DEF RecFinish, apiVars, cacheVars, budgets
  <2>7. rec' \in R
    BY <2>5 DEF IdleRec, RecPcs
  <2>8. KeyHeld'
    BY <2>5, <2>6, ZenonT(60) DEF KeyHeld, IdleRec
  <2> QED
    BY <2>2, <2>4, <2>6, <2>7, <2>8, ZenonT(60) DEF TypeOK
<1>8. CASE RecExit
  <2>1. rec' \in R /\ rec'.pc = "exited" /\ rec'.key = rec.key
    BY <1>8, RecRecords, Zenon DEF RecExit, RecPcs
  <2>2. UNCHANGED <<cr, sset, crWatch, ssWatch, crCache, ssCache, crNotes, ssNotes, refresh,
                    reconcileQ, statusQ, tracker, synced, stat, edits, faults, gaps, crashes>>
    BY <1>8 DEF RecExit, apiVars, cacheVars, budgets
  <2>3. KeyHeld'
    BY <1>8, <2>1, <2>2 DEF KeyHeld, RecExit
  <2> QED
    BY <2>1, <2>2, <2>3, ZenonT(60) DEF TypeOK
<1> QED
  BY <1>4, <1>5, <1>6, <1>7, <1>8 DEF RecWorker

\* The status goroutine keeps the types.
LEMMA StatWorkerType ==
  ASSUME TypeOK, KeyHeld, StatWorker
  PROVE  TypeOK' /\ KeyHeld'
<1> DEFINE S == [pc : StatPcs, key : Keys \cup {None}, gen : Nat,
                 avail : {"True", "False"}, rec : {"True", "False", "Unknown"}]
<1>1. /\ statusQ \in Queue /\ stat \in S
      /\ crCache \in [Keys -> Object \cup {None}]
      /\ cr \in [Keys -> Object \cup {None}]
      /\ tracker \in [Keys -> {"none", "ok", "err"}]
      /\ faults \in Nat /\ faults + 1 \in Nat
  BY SMTT(60) DEF TypeOK
<1>2. IdleStat \in S /\ IdleStat.pc = "idle" /\ IdleStat.key = None
  BY DEF IdleStat, StatPcs
<1>3. None \notin Keys
  BY NoneAssumption
<1>4. CASE StatRead
  <2> DEFINE k == Head(statusQ.queue)
             o == crCache[k]
  <2>1. k \in Keys /\ Get(statusQ) \in Queue
    BY <1>1, <1>4, GetFacts, ZenonT(60) DEF StatRead
  <2>2. Done(Get(statusQ), k) \in Queue
    BY <2>1, DoneFacts, ZenonT(60)
  <2>3. statusQ' \in Queue
    BY <1>4, <2>1, <2>2, ZenonT(60) DEF StatRead
  <2>4. UNCHANGED <<cr, sset, crWatch, ssWatch, crCache, ssCache, crNotes, ssNotes, refresh,
                    reconcileQ, rec, tracker, synced, edits, faults, gaps, crashes>>
    BY <1>4, ZenonT(60) DEF StatRead, apiVars, cacheVars, recVars, budgets
  <2>5. CASE UNCHANGED stat
    BY <2>3, <2>4, <2>5, ZenonT(60) DEF TypeOK, KeyHeld
  <2>6. CASE /\ Present(o)
             /\ stat' = [pc |-> "apply", key |-> k, gen |-> o.gen,
                         avail |-> Available(ssCache[k], sset[k]),
                         rec |-> GetCondition(k)]
    <3>1. o.gen \in Nat
      BY <1>1, <2>1, <2>6 DEF Present, Object
    <3>2. Available(ssCache[k], sset[k]) \in {"True", "False"}
      BY DEF Available
    <3>3. GetCondition(k) \in {"True", "False", "Unknown"}
      BY <1>1, <2>1, SMTT(60) DEF GetCondition
    <3>4. stat' \in S /\ stat'.pc = "apply" /\ stat'.key = k
      BY <2>1, <2>6, <3>1, <3>2, <3>3, ZenonT(60) DEF StatPcs
    <3>5. KeyHeld'
      BY <1>3, <2>1, <2>4, <3>4, ZenonT(60) DEF KeyHeld
    <3> QED
      BY <2>3, <2>4, <3>4, <3>5, ZenonT(60) DEF TypeOK
  <2> QED
    BY <1>4, <2>5, <2>6, ZenonT(60) DEF StatRead
<1>5. CASE StatApply
  <2>1. stat.key \in Keys
    BY <1>1, <1>5, ZenonT(60) DEF StatApply, KeyHeld
  <2>2. AddRateLimited(statusQ, stat.key) \in Queue
    BY <1>1, <2>1, AddRateLimitedFacts
  <2>3. PICK e \in BOOLEAN : StatFinish(e)
    BY <1>5, ZenonT(60) DEF StatApply
  <2>4. statusQ' \in Queue /\ stat' = IdleStat
    BY <1>1, <2>1, <2>2, <2>3, DoneFacts DEF StatFinish
  <2>5. cr' \in [Keys -> Object \cup {None}] /\ crWatch' \in [Keys -> Seq(Object \cup {None})]
    <3>1. CASE UNCHANGED <<cr, crWatch>>
      BY <3>1, ZenonT(60) DEF TypeOK
    <3> DEFINE st == [avail |-> stat.avail, rec |-> stat.rec, obs |-> stat.gen]
    <3>2. CASE cr[stat.key] # None /\ PutCR(stat.key, [cr[stat.key] EXCEPT !.status = st])
      <4>1. st \in Status \cup {None}
        BY <1>1 DEF Status
      <4>2. cr[stat.key] \in Object
        BY <1>1, <2>1, <3>2
      <4> HIDE DEF st
      <4>3. [cr[stat.key] EXCEPT !.status = st] \in Versions
        BY <4>1, <4>2 DEF Object, Versions
      <4> QED
        BY <2>1, <3>2, <4>3, PutType
    <3> QED
      BY <1>5, <3>1, <3>2, ZenonT(60) DEF StatApply
  <2>6. faults' \in Nat
    BY <1>1, <1>5, Zenon DEF StatApply, APIFailure, Fault
  <2>7. UNCHANGED <<sset, ssWatch, crCache, ssCache, crNotes, ssNotes, refresh,
                    reconcileQ, rec, tracker, synced, edits, gaps, crashes>>
    BY <1>5, ZenonT(60) DEF StatApply, cacheVars, recVars
  <2>8. KeyHeld'
    BY <1>2, <2>4, <2>7, ZenonT(60) DEF KeyHeld
  <2> QED
    BY <1>2, <2>4, <2>5, <2>6, <2>7, <2>8, Zenon DEF TypeOK
<1>6. CASE StatExit
  <2>1. stat' = [stat EXCEPT !.pc = "exited"] /\ stat.pc = "idle"
    BY <1>6 DEF StatExit
  <2>2. stat' \in S /\ stat'.pc = "exited" /\ stat'.key = stat.key
    BY <1>1, <2>1 DEF StatPcs
  <2>3. UNCHANGED <<cr, sset, crWatch, ssWatch, crCache, ssCache, crNotes, ssNotes, refresh,
                    reconcileQ, statusQ, rec, tracker, synced, edits, faults, gaps, crashes>>
    BY <1>6 DEF StatExit, apiVars, cacheVars, recVars, budgets
  <2>4. KeyHeld'
    BY <2>1, <2>2, <2>3 DEF KeyHeld
  <2> QED
    BY <2>2, <2>3, <2>4, ZenonT(60) DEF TypeOK
<1> QED
  BY <1>4, <1>5, <1>6 DEF StatWorker

\* Stopping and restarting keep the types.
LEMMA LifeType ==
  ASSUME TypeOK, KeyHeld, Stop \/ Restart
  PROVE  TypeOK' /\ KeyHeld'
<1>1. CASE Stop
  <2>1. reconcileQ' \in Queue /\ statusQ' \in Queue
    BY <1>1, ShutDownFacts DEF Stop, TypeOK
  <2>2. UNCHANGED <<cr, sset, crWatch, ssWatch, crCache, ssCache, crNotes, ssNotes, refresh,
                    rec, tracker, synced, stat, edits, faults, gaps, crashes>>
    BY <1>1 DEF Stop, apiVars, cacheVars, recVars, budgets
  <2>3. KeyHeld'
    BY <2>2, SMTT(60) DEF KeyHeld
  <2> QED
    BY <2>1, <2>2, <2>3, ZenonT(60) DEF TypeOK
<1>2. CASE Restart
  <2>1. reconcileQ' \in Queue /\ statusQ' \in Queue
    BY <1>2, EmptyFacts DEF Restart
  <2>2. \A k \in Keys : /\ RelistNotes(None, Desire(cr[k])) \in Seq(Note(Object))
                       /\ RelistNotes(None, sset[k]) \in Seq(Note(StatefulSet))
    BY DesireType, NoteType, ZenonT(60) DEF TypeOK, Versions
  <2>3. crNotes' \in [Keys -> Seq(Note(Object))] /\ ssNotes' \in [Keys -> Seq(Note(StatefulSet))]
    BY <1>2, <2>2, ZenonT(60) DEF Restart
  <2>4. /\ crWatch' \in [Keys -> Seq(Object \cup {None})]
        /\ ssWatch' \in [Keys -> Seq(StatefulSet \cup {None})]
    BY <1>2, SMTT(60) DEF Restart
  <2>5. /\ crCache' \in [Keys -> Object \cup {None}]
        /\ ssCache' \in [Keys -> StatefulSet \cup {None}]
        /\ tracker' \in [Keys -> {"none", "ok", "err"}]
        /\ synced' \in [Keys -> Object \cup {None}]
    BY <1>2, ZenonT(60) DEF Restart, TypeOK
  <2>6. refresh' \subseteq Keys /\ crashes' \in Nat
    BY <1>2, SMTT(60) DEF Restart, TypeOK
  <2>7. rec' = IdleRec /\ stat' = IdleStat /\ UNCHANGED <<cr, sset, edits, faults, gaps>>
    BY <1>2, ZenonT(60) DEF Restart
  <2>8. /\ rec' \in [pc : RecPcs, key : Keys \cup {None}, obj : Object \cup {None}, err : BOOLEAN]
        /\ stat' \in [pc : StatPcs, key : Keys \cup {None}, gen : Nat,
                      avail : {"True", "False"}, rec : {"True", "False", "Unknown"}]
    BY <2>7, ZenonT(60) DEF IdleRec, IdleStat, RecPcs, StatPcs
  <2>9. KeyHeld'
    BY <2>7 DEF KeyHeld, IdleRec, IdleStat
  <2> QED
    BY <2>1, <2>3, <2>4, <2>5, <2>6, <2>7, <2>8, <2>9, ZenonT(60) DEF TypeOK
<1> QED
  BY <1>1, <1>2

\* One step keeps the types.
LEMMA NextType == TypeOK /\ KeyHeld /\ [Next]_vars => TypeOK' /\ KeyHeld'
<1> SUFFICES ASSUME TypeOK, KeyHeld, [Next]_vars
             PROVE  TypeOK' /\ KeyHeld'
  OBVIOUS
<1>1. ASSUME NEW k \in Keys,
             Users(k) \/ Cluster(k) \/ Informers(k) \/ Handlers(k) \/ Timers(k)
               \/ RefreshStatusFor(k)
      PROVE  TypeOK' /\ KeyHeld'
  <2>1. TypeOK'
    BY <1>1, UsersType, ClusterType, InformersType, HandlersType, TimersType, SMTT(60)
  <2>2. UNCHANGED <<rec, stat>>
    BY <1>1, ZenonT(60) DEF Users, CreateObject, EditSpec, EditMeta, DeleteObject, UserEdit,
                FinalizeObject, Cluster, GarbageCollect, PodsReady, PodsFail, LoseSset,
                DriftSset, SsetEvent, Informers, ReceiveCR, ReceiveSset, RelistCR,
                RelistSset, Resync, Handlers, HandleCR, HandleSset, Timers, ReleaseRec,
                ReleaseStat, StatusPoller, RefreshStatusFor, recVars
  <2> QED
    BY <2>1, <2>2 DEF KeyHeld
<1>2. CASE UNCHANGED vars
  BY <1>2, ZenonT(60) DEF vars, apiVars, cacheVars, recVars, budgets, TypeOK, KeyHeld
<1> QED
  BY <1>1, <1>2, RecWorkerType, StatWorkerType, LifeType DEF Next

\* Type correctness: every reachable state of the reconciler has the types of
\* TypeOK, and a worker holds a key exactly while it processes one.
THEOREM TypeCorrect == Spec => [](TypeOK /\ KeyHeld)
<1>1. Init => TypeOK /\ KeyHeld
  BY InitType DEF Init, KeyHeld, IdleRec, IdleStat
<1> QED
  BY <1>1, NextType, PTL DEF Spec
=============================================================================
