-------------------------- MODULE RefinementProofs --------------------------
(***************************************************************************)
(* The ResourceReconciler implements ReconcileLoop, for every set of keys  *)
(* and every bound.                                                        *)
(***************************************************************************)
EXTENDS ReconciliationProofs, ReconcilerRefinement

\* Leaving out the status changes neither whether an object is wanted nor
\* which version it is.
LEMMA DesireFacts ==
  ASSUME NEW c \in Versions, NEW x
  PROVE  /\ Desired(Desire(c)) <=> Desired(c)
         /\ c # None => (UpToDate(x, Desire(c)) <=> UpToDate(x, c))
<1>1. CASE c = None
  BY <1>1, DesireType DEF Desired, Present
<1>2. CASE c # None
  BY <1>2, DesireType, Zenon
    DEF Desired, Present, DeletionInProgress, isManagedByController, UpToDate, hasStateChanged
<1> QED
  BY <1>1, <1>2

\* Add makes no other key dirty, and none at all once the queue is shut down.
LEMMA AddOnly ==
  ASSUME NEW q \in Queue, NEW k \in Keys
  PROVE  /\ Add(q, k).dirty \in {q.dirty, q.dirty \cup {k}}
         /\ q.down => Add(q, k).dirty = q.dirty
<1>1. CASE q.down \/ k \in q.dirty
  BY <1>1 DEF Add
<1>2. CASE ~(q.down \/ k \in q.dirty)
  BY <1>2 DEF Add, Queue
<1> QED
  BY <1>1, <1>2

\* Release does the same with a key that waited.
LEMMA ReleaseOnly ==
  ASSUME NEW q \in Queue, NEW k \in Keys
  PROVE  /\ Release(q, k).dirty \in {q.dirty, q.dirty \cup {k}}
         /\ q.down => Release(q, k).dirty = q.dirty
<1> DEFINE r == [q EXCEPT !.waiting = q.waiting \ {k}]
<1>1. r \in Queue /\ r.dirty = q.dirty /\ r.down = q.down
  BY DEF Queue
<1>2. Release(q, k) = Add(r, k)
  BY DEF Release
<1> HIDE DEF r
<1> QED
  BY <1>1, <1>2, AddOnly

\* AddRateLimited makes no other key wait.
LEMMA AddRateLimitedOnly ==
  ASSUME NEW q \in Queue, NEW k \in Keys
  PROVE  AddRateLimited(q, k).waiting \in {q.waiting, q.waiting \cup {k}}
BY DEF AddRateLimited, Queue

\* What is owed, with the notifications of LostInv.
LEMMA OwedIs == Owed = {k \in Keys : Pending(reconcileQ, k) \/ SomeEnqueues(crNotes[k])}
BY DEF Owed, SomeEnqueues

\* A step that changes nothing but what is owed is a step of the loop.
LEMMA OwedStep ==
  ASSUME UNCHANGED <<crCache, rec, synced>>, reconcileQ'.down = reconcileQ.down,
         \/ Owed' = Owed
         \/ \E k \in Keys : Owed' = Owed \cup {k}
         \/ reconcileQ.down /\ Owed' \subseteq Owed
  PROVE  Loop!Next \/ UNCHANGED Loop!vars
<1>1. UNCHANGED <<Current, Job>>
  BY DEF Current, Job
<1>2. CASE Owed' = Owed
  BY <1>1, <1>2 DEF Loop!vars
<1>3. CASE \E k \in Keys : Owed' = Owed \cup {k}
  BY <1>1, <1>3 DEF Loop!Next, Loop!Notify
<1>4. CASE reconcileQ.down /\ Owed' \subseteq Owed
  BY <1>1, <1>4 DEF Loop!Next, Loop!Drop
<1> QED
  BY <1>2, <1>3, <1>4

-----------------------------------------------------------------------------
(* A queued key is dirty *)

\* The queue holds each key once, and only dirty keys that no worker holds.
Strict(q) ==
  /\ \A i \in DOMAIN q.queue : q.queue[i] \in q.dirty /\ q.queue[i] \notin q.processing
  /\ \A i, j \in DOMAIN q.queue : q.queue[i] = q.queue[j] => i = j

\* Appending a key that is not in the queue keeps its elements distinct.
LEMMA DistinctAppend ==
  ASSUME NEW s \in Seq(Keys), NEW k \in Keys, \A i \in DOMAIN s : s[i] # k,
         \A i, j \in DOMAIN s : s[i] = s[j] => i = j
  PROVE  /\ \A i \in DOMAIN Append(s, k) :
              Append(s, k)[i] = k \/ (i \in DOMAIN s /\ Append(s, k)[i] = s[i])
         /\ \A i, j \in DOMAIN Append(s, k) : Append(s, k)[i] = Append(s, k)[j] => i = j
<1>1. \A i \in DOMAIN Append(s, k) :
        \/ i = Len(s) + 1 /\ Append(s, k)[i] = k
        \/ i \in DOMAIN s /\ Append(s, k)[i] = s[i]
  OBVIOUS
<1> QED
  BY <1>1, Zenon

\* Add queues a key only if it is not dirty.
LEMMA StrictAdd ==
  ASSUME NEW q \in Queue, NEW k \in Keys, Strict(q)
  PROVE  Strict(Add(q, k))
<1>1. CASE q.down \/ k \in q.dirty
  BY <1>1 DEF Add
<1>2. CASE ~(q.down \/ k \in q.dirty) /\ k \in q.processing
  <2>1. Add(q, k) = [q EXCEPT !.dirty = q.dirty \cup {k}, !.queue = q.queue]
    BY <1>2 DEF Add
  <2>2. /\ Add(q, k).queue = q.queue /\ Add(q, k).processing = q.processing
        /\ Add(q, k).dirty = q.dirty \cup {k}
    BY <2>1 DEF Queue
  <2> QED
    BY <2>2 DEF Strict
<1>3. CASE ~(q.down \/ k \in q.dirty) /\ k \notin q.processing
  <2>1. Add(q, k) = [q EXCEPT !.dirty = q.dirty \cup {k}, !.queue = Append(q.queue, k)]
    BY <1>3 DEF Add
  <2>2. /\ Add(q, k).queue = Append(q.queue, k) /\ Add(q, k).processing = q.processing
        /\ Add(q, k).dirty = q.dirty \cup {k}
    BY <2>1 DEF Queue
  <2>3. q.queue \in Seq(Keys) /\ \A i \in DOMAIN q.queue : q.queue[i] # k
    BY <1>3 DEF Strict, Queue
  <2>4. /\ \A i \in DOMAIN Append(q.queue, k) :
              \/ Append(q.queue, k)[i] = k
              \/ i \in DOMAIN q.queue /\ Append(q.queue, k)[i] = q.queue[i]
        /\ \A i, j \in DOMAIN Append(q.queue, k) :
              Append(q.queue, k)[i] = Append(q.queue, k)[j] => i = j
    BY <2>3, DistinctAppend DEF Strict
  <2> QED
    BY <1>3, <2>2, <2>4 DEF Strict
<1> QED
  BY <1>1, <1>2, <1>3

\* Get takes the only occurrence of the key it hands out.
LEMMA StrictGet ==
  ASSUME NEW q \in Queue, q.queue # <<>>, Strict(q)
  PROVE  Strict(Get(q)) /\ Head(q.queue) \in q.dirty
<1>1. q.queue \in Seq(Keys) /\ Get(q).queue = Tail(q.queue)
  BY DEF Get, Queue
<1>2. /\ \A i \in DOMAIN Tail(q.queue) : i + 1 \in DOMAIN q.queue /\ i + 1 # 1
                                         /\ Tail(q.queue)[i] = q.queue[i + 1]
      /\ \A i, j \in DOMAIN Tail(q.queue) : i + 1 = j + 1 => i = j
      /\ 1 \in DOMAIN q.queue /\ Head(q.queue) = q.queue[1]
  BY <1>1
<1>3. \A i \in DOMAIN Tail(q.queue) :
        Tail(q.queue)[i] \in q.dirty \ {Head(q.queue)}
        /\ Tail(q.queue)[i] \notin q.processing \cup {Head(q.queue)}
  BY <1>2, Zenon DEF Strict
<1>4. ASSUME NEW i \in DOMAIN Tail(q.queue), NEW j \in DOMAIN Tail(q.queue),
             Tail(q.queue)[i] = Tail(q.queue)[j]
      PROVE  i = j
  <2>1. q.queue[i + 1] = q.queue[j + 1]
    BY <1>2, <1>4
  <2>2. i + 1 = j + 1
    BY <1>2, <2>1 DEF Strict
  <2> QED
    BY <1>2, <2>2
<1> QED
  BY <1>1, <1>2, <1>3, <1>4, GetFacts DEF Strict

\* Done queues a key that a worker held, and that was therefore not queued.
LEMMA StrictDone ==
  ASSUME NEW q \in Queue, NEW k \in q.processing, Strict(q)
  PROVE  Strict(Done(q, k))
<1>1. k \in Keys /\ q.queue \in Seq(Keys) /\ \A i \in DOMAIN q.queue : q.queue[i] # k
  BY DEF Queue, Strict
<1>2. CASE k \in q.dirty
  <2>1. Done(q, k) = [q EXCEPT !.processing = q.processing \ {k},
                               !.queue = Append(q.queue, k)]
    BY <1>2 DEF Done
  <2>2. Done(q, k).queue = Append(q.queue, k)
    BY <2>1 DEF Queue
  <2>3. Done(q, k).processing = q.processing \ {k} /\ Done(q, k).dirty = q.dirty
    BY <1>1, DoneFacts
  <2>4. /\ \A i \in DOMAIN Append(q.queue, k) :
              \/ Append(q.queue, k)[i] = k
              \/ i \in DOMAIN q.queue /\ Append(q.queue, k)[i] = q.queue[i]
        /\ \A i, j \in DOMAIN Append(q.queue, k) :
              Append(q.queue, k)[i] = Append(q.queue, k)[j] => i = j
    BY <1>1, DistinctAppend DEF Strict
  <2> QED
    BY <1>1, <1>2, <2>2, <2>3, <2>4, Zenon DEF Strict
<1>3. CASE k \notin q.dirty
  <2>1. Done(q, k) = [q EXCEPT !.processing = q.processing \ {k}, !.queue = q.queue]
    BY <1>3 DEF Done
  <2>2. Done(q, k).queue = q.queue
    BY <2>1 DEF Queue
  <2> QED
    BY <1>1, <2>2, DoneFacts, ZenonT(60) DEF Strict
<1> QED
  BY <1>2, <1>3

\* Delaying and shutting down leave the queue alone; Release adds.
LEMMA StrictOthers ==
  ASSUME NEW q \in Queue, NEW k \in Keys, Strict(q)
  PROVE  /\ Strict(AddRateLimited(q, k))
         /\ Strict(Release(q, k))
         /\ Strict(ShutDown(q))
         /\ ShutDown(q).dirty = q.dirty /\ ShutDown(q).waiting = q.waiting
<1> DEFINE r == [q EXCEPT !.waiting = q.waiting \ {k}]
<1>1. r \in Queue /\ Strict(r)
  BY DEF Queue, Strict
<1>2. Release(q, k) = Add(r, k)
  BY DEF Release
<1>3. Strict(AddRateLimited(q, k))
  <2>1. CASE q.down
    BY <2>1 DEF AddRateLimited
  <2>2. CASE ~q.down
    <3>1. AddRateLimited(q, k) = [q EXCEPT !.waiting = q.waiting \cup {k}]
      BY <2>2 DEF AddRateLimited
    <3> QED
      BY <3>1 DEF Strict, Queue
  <2> QED
    BY <2>1, <2>2
<1>4. /\ Strict(ShutDown(q))
      /\ ShutDown(q).dirty = q.dirty /\ ShutDown(q).waiting = q.waiting
  BY DEF ShutDown, Strict, Queue
<1> HIDE DEF r
<1> QED
  BY <1>1, <1>2, <1>3, <1>4, StrictAdd

\* The reconcile queue is strict, and its worker holds the key it works on.
StrictInv == Strict(reconcileQ) /\ (rec.key \in Keys => rec.key \in reconcileQ.processing)

\* A step that is neither a worker's nor a restart adds, releases or shuts down.
LEMMA BackgroundQueue ==
  ASSUME Background
  PROVE  \/ reconcileQ' = reconcileQ
         \/ \E k \in Keys : reconcileQ' = Add(reconcileQ, k)
         \/ \E k \in Keys : k \in reconcileQ.waiting /\ reconcileQ' = Release(reconcileQ, k)
         \/ reconcileQ' = ShutDown(reconcileQ)
<1>1. ASSUME NEW k \in Keys, HandleCR(k) \/ HandleSset(k)
      PROVE  reconcileQ' = reconcileQ \/ reconcileQ' = Add(reconcileQ, k)
  <2>1. CASE HandleCR(k)
    BY <2>1 DEF HandleCR
  <2>2. CASE HandleSset(k)
    BY <2>2, ZenonT(60) DEF HandleSset, onStatefulSetAdd, onStatefulSetUpdate, onStatefulSetDelete,
                 Ignore, EnqueueForReconciliation, EnqueueForStatus
  <2> QED
    BY <1>1, <2>1, <2>2
<1>2. ASSUME NEW k \in Keys, Users(k) \/ Cluster(k) \/ Informers(k) \/ RefreshStatusFor(k)
      PROVE  reconcileQ' = reconcileQ
  BY <1>2, ZenonT(60) DEF Users, CreateObject, EditSpec, EditMeta, DeleteObject, UserEdit,
              FinalizeObject, Cluster, GarbageCollect, PodsReady, PodsFail, LoseSset,
              DriftSset, SsetEvent, Informers, ReceiveCR, ReceiveSset, RelistCR, RelistSset,
              Resync, RefreshStatusFor, Ignore, EnqueueForStatus
<1>3. ASSUME NEW k \in Keys, Timers(k)
      PROVE  \/ reconcileQ' = reconcileQ
             \/ k \in reconcileQ.waiting /\ reconcileQ' = Release(reconcileQ, k)
  BY <1>3 DEF Timers, ReleaseRec, ReleaseStat, StatusPoller, EnqueueForStatus
<1>4. CASE Stop \/ UNCHANGED vars
  BY <1>4 DEF Stop, vars
<1> QED
  BY <1>1, <1>2, <1>3, <1>4 DEF Background, Handlers

\* Every step keeps the reconcile queue strict.
LEMMA StrictNext == TypeOK /\ KeyHeld /\ StrictInv /\ [Next]_vars => StrictInv'
<1> SUFFICES ASSUME TypeOK, KeyHeld, StrictInv, [Next]_vars
             PROVE  StrictInv'
  OBVIOUS
<1>1. reconcileQ \in Queue /\ None \notin Keys
  BY NoneAssumption DEF TypeOK
<1>2. CASE Background
  <2>1. UNCHANGED rec /\ reconcileQ'.processing = reconcileQ.processing
    BY <1>2, BackgroundKeeps DEF Keeps
  <2>2. Strict(reconcileQ')
    <3>1. CASE reconcileQ' = ShutDown(reconcileQ)
      BY <1>1, <3>1, Zenon DEF ShutDown, Strict, StrictInv, Queue
    <3>2. CASE reconcileQ' # ShutDown(reconcileQ)
      BY <1>1, <1>2, <3>2, BackgroundQueue, StrictAdd, StrictOthers, ZenonT(60) DEF StrictInv
    <3> QED
      BY <3>1, <3>2
  <2> QED
    BY <2>1, <2>2 DEF StrictInv
<1>3. CASE SyncRead
  <2>1. reconcileQ' = Get(reconcileQ) /\ reconcileQ.queue # <<>> /\ rec'.key = Head(reconcileQ.queue)
    BY <1>3 DEF SyncRead
  <2> QED
    BY <1>1, <2>1, StrictGet, GetFacts DEF StrictInv
<1>4. CASE SyncApply \/ SyncReport \/ RecExit
  <2>1. UNCHANGED reconcileQ /\ rec'.key = rec.key
    <3>1. CASE SyncApply
      <4>1. PICK e \in BOOLEAN : SyncReturns(e)
        BY <3>1, Zenon DEF SyncApply, CreateStatefulSet, UpdateStatefulSet, RejectStatefulSet
      <4> QED
        BY <4>1, RecRecords, ZenonT(60) DEF SyncReturns, RecPcs
    <3>2. CASE SyncReport \/ RecExit
      BY <3>2, RecRecords, ZenonT(60) DEF SyncReport, RecExit, RecPcs
    <3> QED
      BY <1>4, <3>1, <3>2
  <2> QED
    BY <2>1 DEF StrictInv
<1>5. CASE RecFinish
  <2> DEFINE q == IF rec.err THEN AddRateLimited(reconcileQ, rec.key) ELSE reconcileQ
  <2>1. rec.key \in Keys /\ rec.key \in reconcileQ.processing
    BY <1>5 DEF RecFinish, KeyHeld, TypeOK, StrictInv
  <2>2. q \in Queue /\ q.processing = reconcileQ.processing /\ Strict(q)
    BY <1>1, <2>1, AddRateLimitedFacts, StrictOthers DEF StrictInv
  <2>3. reconcileQ' = Done(q, rec.key) /\ rec' = IdleRec
    BY <1>5 DEF RecFinish
  <2> HIDE DEF q
  <2> QED
    BY <1>1, <2>1, <2>2, <2>3, StrictDone DEF StrictInv, IdleRec
<1>6. CASE StatWorker
  BY <1>6, ZenonT(60) DEF StatWorker, StatRead, StatApply, StatExit, recVars, StrictInv
<1>7. CASE Restart
  BY <1>1, <1>7 DEF Restart, StrictInv, Strict, EmptyQueue, IdleRec
<1> QED
  BY <1>2, <1>3, <1>4, <1>5, <1>6, <1>7, Steps DEF RecWorker

-----------------------------------------------------------------------------
(* Every step is a step of the loop *)

\* Handling a notification that queues nothing leaves those that do.
LEMMA TailEnqueues ==
  ASSUME NEW s \in Seq(Note(Object)), s # <<>>
  PROVE  SomeEnqueues(Tail(s)) => SomeEnqueues(s)
<1>1. \A i \in DOMAIN Tail(s) : i + 1 \in DOMAIN s /\ Tail(s)[i] = s[i + 1]
  OBVIOUS
<1> QED
  BY <1>1 DEF SomeEnqueues

\* A step that leaves the notifications, and adds to the queue or releases a key.
LEMMA QueueStep ==
  ASSUME TypeOK, UNCHANGED <<crCache, crNotes, rec, synced>>,
         \/ reconcileQ' = reconcileQ
         \/ \E k \in Keys : reconcileQ' = Add(reconcileQ, k)
         \/ \E k \in Keys : k \in reconcileQ.waiting /\ reconcileQ' = Release(reconcileQ, k)
  PROVE  Loop!Next \/ UNCHANGED Loop!vars
<1>1. reconcileQ \in Queue
  BY DEF TypeOK
<1>2. CASE reconcileQ' = reconcileQ
  <2>1. Owed' = Owed /\ reconcileQ'.down = reconcileQ.down
    BY <1>2 DEF Owed
  <2> QED
    BY <2>1, OwedStep
<1>3. ASSUME NEW k \in Keys, reconcileQ' = Add(reconcileQ, k)
      PROVE  Loop!Next \/ UNCHANGED Loop!vars
  <2>1. /\ reconcileQ'.down = reconcileQ.down /\ reconcileQ'.waiting = reconcileQ.waiting
        /\ reconcileQ'.dirty \in {reconcileQ.dirty, reconcileQ.dirty \cup {k}}
    BY <1>1, <1>3, AddFacts, AddOnly
  <2>2. Owed' = Owed \/ Owed' = Owed \cup {k}
    <3>1. CASE reconcileQ'.dirty = reconcileQ.dirty
      BY <2>1, <3>1 DEF Owed, Pending
    <3>2. CASE reconcileQ'.dirty = reconcileQ.dirty \cup {k}
      BY <2>1, <3>2, Zenon DEF Owed, Pending
    <3> QED
      BY <2>1, <3>1, <3>2
  <2> QED
    BY <2>1, <2>2, OwedStep
<1>4. ASSUME NEW k \in Keys, k \in reconcileQ.waiting, reconcileQ' = Release(reconcileQ, k)
      PROVE  Loop!Next \/ UNCHANGED Loop!vars
  <2>1. /\ reconcileQ'.down = reconcileQ.down /\ reconcileQ'.waiting = reconcileQ.waiting \ {k}
        /\ reconcileQ'.dirty \in {reconcileQ.dirty, reconcileQ.dirty \cup {k}}
        /\ reconcileQ.down => reconcileQ'.dirty = reconcileQ.dirty
        /\ reconcileQ.down \/ k \in reconcileQ'.dirty
    BY <1>1, <1>4, ReleaseFacts, ReleaseOnly, ZenonT(60)
  <2>2. CASE reconcileQ.down
    <3>1. Owed' \subseteq Owed
      BY <2>1, <2>2 DEF Owed, Pending
    <3> QED
      BY <2>1, <2>2, <3>1, OwedStep, ZenonT(60)
  <2>3. CASE ~reconcileQ.down
    <3>1. \A j \in Keys : Pending(reconcileQ', j) <=> Pending(reconcileQ, j)
      BY <1>4, <2>1, <2>3 DEF Pending
    <3>2. Owed' = Owed
      BY <3>1, Zenon DEF Owed
    <3> QED
      BY <2>1, <3>2, OwedStep, ZenonT(60)
  <2> QED
    BY <2>2, <2>3, ZenonT(60)
<1> QED
  BY <1>2, <1>3, <1>4, ZenonT(60)

\* HandleCR turns a notification into a dirty mark: the key stays owed, unless
\* the queue is shut down.
LEMMA HandleStep ==
  ASSUME TypeOK, NEW k \in Keys, HandleCR(k)
  PROVE  Loop!Next \/ UNCHANGED Loop!vars
<1>1. /\ crNotes[k] # <<>> /\ crNotes'[k] = Tail(crNotes[k])
      /\ \A j \in Keys \ {k} : crNotes'[j] = crNotes[j]
      /\ UNCHANGED <<crCache, rec, synced>>
      /\ reconcileQ' = IF Enqueues(Head(crNotes[k])) THEN Add(reconcileQ, k) ELSE reconcileQ
  BY ZenonT(60) DEF HandleCR, TypeOK, recVars
<1>2. /\ reconcileQ \in Queue /\ crNotes[k] \in Seq(Note(Object))
      /\ Head(crNotes[k]) \in Note(Object) /\ <<>> \in Seq(Note(Object))
  BY <1>1 DEF TypeOK
<1>3. SomeEnqueues(crNotes'[k]) => SomeEnqueues(crNotes[k])
  BY <1>1, <1>2, TailEnqueues
<1>4. CASE ~Enqueues(Head(crNotes[k]))
  <2>1. SomeEnqueues(crNotes[k]) => SomeEnqueues(crNotes'[k])
    BY <1>1, <1>2, <1>4, NotesFacts
  <2>2. \A j \in Keys : SomeEnqueues(crNotes'[j]) <=> SomeEnqueues(crNotes[j])
    BY <1>1, <1>3, <2>1, ZenonT(60)
  <2>3. reconcileQ' = reconcileQ /\ reconcileQ'.down = reconcileQ.down
    BY <1>1, <1>4
  <2>4. Owed' = Owed
    BY <2>2, <2>3, Zenon DEF Owed, SomeEnqueues
  <2> QED
    BY <1>1, <2>3, <2>4, OwedStep, ZenonT(60)
<1>5. CASE Enqueues(Head(crNotes[k]))
  <2>1. SomeEnqueues(crNotes[k])
    <3>1. 1 \in DOMAIN crNotes[k] /\ Head(crNotes[k]) = crNotes[k][1]
      BY <1>1, <1>2
    <3> QED
      BY <1>5, <3>1, ZenonT(60) DEF SomeEnqueues
  <2>2. /\ reconcileQ'.down = reconcileQ.down /\ reconcileQ'.waiting = reconcileQ.waiting
        /\ reconcileQ'.dirty \in {reconcileQ.dirty, reconcileQ.dirty \cup {k}}
        /\ reconcileQ.down => reconcileQ'.dirty = reconcileQ.dirty
        /\ reconcileQ.down \/ k \in reconcileQ'.dirty
    BY <1>1, <1>2, <1>5, AddFacts, AddOnly, ZenonT(60)
  <2>3. CASE reconcileQ.down
    <3>1. \A j \in Keys : Pending(reconcileQ', j) => Pending(reconcileQ, j)
      BY <2>2, <2>3 DEF Pending
    <3>2. \A j \in Keys : SomeEnqueues(crNotes'[j]) => SomeEnqueues(crNotes[j])
      BY <1>1, <1>3
    <3>3. Owed' \subseteq Owed
      BY <3>1, <3>2, Zenon DEF Owed, SomeEnqueues
    <3> QED
      BY <1>1, <2>2, <2>3, <3>3, OwedStep, ZenonT(60)
  <2>4. CASE ~reconcileQ.down
    <3>1. \A j \in Keys : (Pending(reconcileQ', j) \/ SomeEnqueues(crNotes'[j]))
                            <=> (Pending(reconcileQ, j) \/ SomeEnqueues(crNotes[j]))
      BY <1>1, <1>3, <2>1, <2>2, <2>4 DEF Pending
    <3>2. Owed' = Owed
      BY <3>1, Zenon DEF Owed, SomeEnqueues
    <3> QED
      BY <1>1, <2>2, <3>2, OwedStep, ZenonT(60)
  <2> QED
    BY <2>3, <2>4
<1> QED
  BY <1>4, <1>5

\* A new version in the cache is observed: it is owed, or it is a version that
\* OnAdd and OnUpdate may ignore.
LEMMA ObserveStep ==
  ASSUME HiddenRecreation = FALSE, TypeOK, WatchInv, NEW k \in Keys,
         ReceiveCR(k) \/ RelistCR(k)
  PROVE  Loop!Observe(k)
<1> DEFINE c == crCache[k]
           d == crCache'[k]
<1>1. UNCHANGED <<rec, synced, reconcileQ>>
  BY ZenonT(60) DEF ReceiveCR, RelistCR, recVars
<1>2. /\ c \in Versions /\ d \in Versions /\ Follows(c, d)
      /\ SomeEnqueues(crNotes[k]) => SomeEnqueues(crNotes'[k])
      /\ \A j \in Keys \ {k} : crCache'[j] = crCache[j] /\ crNotes'[j] = crNotes[j]
  <2>1. c \in Versions
    BY DEF TypeOK, Versions
  <2> QED
    BY <2>1, NewVersion, Zenon
<1>3. PICK n : /\ n.old = Desire(c) /\ n.cur = Desire(d)
               /\ Desired(d) /\ Enqueues(n) => SomeEnqueues(crNotes'[k])
  BY NewVersion, Zenon
<1>4. /\ Current[k] = Desire(c) /\ Current'[k] = Desire(d)
      /\ \A j \in Keys \ {k} : Current'[j] = Current[j]
  BY <1>2 DEF Current
<1>5. Owed' = Owed \/ Owed' = Owed \cup {k}
  <2>1. \A j \in Keys \ {k} : SomeEnqueues(crNotes'[j]) <=> SomeEnqueues(crNotes[j])
    BY <1>2
  <2>2. CASE SomeEnqueues(crNotes'[k]) <=> SomeEnqueues(crNotes[k])
    BY <1>1, <2>1, <2>2, Zenon DEF Owed, SomeEnqueues
  <2>3. CASE SomeEnqueues(crNotes'[k])
    <3>1. \A j \in Keys : (Pending(reconcileQ', j) \/ SomeEnqueues(crNotes'[j]))
                            <=> (Pending(reconcileQ, j) \/ SomeEnqueues(crNotes[j]) \/ j = k)
      BY <1>1, <2>1, <2>3
    <3> QED
      BY <3>1, Zenon DEF Owed, SomeEnqueues
  <2> QED
    BY <1>2, <2>2, <2>3
<1>6. SomeEnqueues(crNotes'[k]) => k \in Owed'
  BY Zenon DEF Owed, SomeEnqueues
<1>7. ASSUME Desired(Desire(d)), ~SomeEnqueues(crNotes'[k])
      PROVE  Desired(Desire(c)) /\ SameVersion(Desire(c), Desire(d))
  <2>1. Desired(d)
    BY <1>2, <1>7, DesireFacts, ZenonT(60)
  <2>2. ~Enqueues(n)
    BY <1>3, <1>7, <2>1
  <2>3. Desired(c) /\ (UpToDate(Desire(c), c) => UpToDate(Desire(c), d))
    BY <1>2, <1>3, <2>1, <2>2, IgnoredVersion, Zenon
  <2>4. c # None /\ d # None
    BY <2>1, <2>3 DEF Desired, Present
  <2>5. UpToDate(Desire(c), c)
    BY <1>2, <2>4, DesireType, ZenonT(60) DEF UpToDate, hasStateChanged
  <2>6. Desire(c) # None /\ Desire(d) # None
    BY <1>2, <2>4, DesireType, ZenonT(60)
  <2>7. UpToDate(Desire(c), Desire(d)) /\ Desired(Desire(c))
    BY <1>2, <2>3, <2>4, <2>5, DesireFacts, ZenonT(60)
  <2> QED
    BY <2>6, <2>7, ZenonT(60) DEF SameVersion
<1>8. UNCHANGED <<Job, synced, reconcileQ.down>>
  BY <1>1 DEF Job
<1> HIDE DEF c, d
<1> QED
  BY <1>4, <1>5, <1>6, <1>7, <1>8 DEF Loop!Observe

\* The informers' steps.
LEMMA InformersStep ==
  ASSUME HiddenRecreation = FALSE, TypeOK, WatchInv, NEW k \in Keys, Informers(k)
  PROVE  Loop!Next \/ UNCHANGED Loop!vars
<1>1. CASE ReceiveCR(k) \/ RelistCR(k)
  BY <1>1, ObserveStep, ZenonT(60) DEF Loop!Next
<1>2. CASE ReceiveSset(k) \/ RelistSset(k)
  <2>1. UNCHANGED <<crCache, crNotes, rec, synced, reconcileQ>>
    BY <1>2, ZenonT(60) DEF ReceiveSset, RelistSset, recVars
  <2> QED
    BY <2>1, QueueStep
<1>3. CASE Resync(k)
  <2>1. UNCHANGED <<crCache, rec, synced, reconcileQ>>
    BY <1>3, SMTT(60) DEF Resync, recVars
  <2>2. CASE UNCHANGED crNotes
    BY <2>1, <2>2, QueueStep
  <2>3. CASE crNotes' = [crNotes EXCEPT ![k] = Append(@, ResyncNote(Desire(crCache[k])))]
    <3> DEFINE n == ResyncNote(Desire(crCache[k]))
    <3>1. n \in Note(Object) /\ crNotes[k] \in Seq(Note(Object))
      <4>1. crCache[k] \in Versions /\ crNotes[k] \in Seq(Note(Object))
        BY DEF TypeOK, Versions
      <4> QED
        BY <4>1, DesireType, NoteType, ZenonT(60) DEF Versions, ResyncNote
    <3>2. /\ crNotes'[k] = Append(crNotes[k], n)
          /\ \A j \in Keys \ {k} : crNotes'[j] = crNotes[j]
      BY <2>3 DEF TypeOK
    <3>3. SomeEnqueues(crNotes[k]) => SomeEnqueues(crNotes'[k])
      BY <3>1, <3>2, NotesFacts, Zenon
    <3>4. Owed' = Owed \/ Owed' = Owed \cup {k}
      <4>1. CASE SomeEnqueues(crNotes'[k]) <=> SomeEnqueues(crNotes[k])
        <5>1. \A j \in Keys : SomeEnqueues(crNotes'[j]) <=> SomeEnqueues(crNotes[j])
          BY <3>2, <4>1, ZenonT(60)
        <5> QED
          BY <2>1, <5>1, Zenon DEF Owed, SomeEnqueues
      <4>2. CASE SomeEnqueues(crNotes'[k])
        <5>1. \A j \in Keys : (Pending(reconcileQ', j) \/ SomeEnqueues(crNotes'[j]))
                                <=> (Pending(reconcileQ, j) \/ SomeEnqueues(crNotes[j]) \/ j = k)
          BY <2>1, <3>2, <4>2, ZenonT(60)
        <5> QED
          BY <5>1, Zenon DEF Owed, SomeEnqueues
      <4> QED
        BY <3>3, <4>1, <4>2
    <3>5. reconcileQ'.down = reconcileQ.down
      BY <2>1
    <3> QED
      BY <2>1, <3>4, <3>5, OwedStep
  <2> QED
    BY <1>3, <2>2, <2>3 DEF Resync
<1> QED
  BY <1>1, <1>2, <1>3 DEF Informers

\* The steps of the reconcile worker.
LEMMA WorkerStep ==
  ASSUME TypeOK, KeyHeld, StrictInv, RecWorker
  PROVE  Loop!Next \/ UNCHANGED Loop!vars
<1>1. /\ reconcileQ \in Queue /\ None \notin Keys /\ rec.err \in BOOLEAN
      /\ rec.key \in Keys \cup {None} /\ synced \in [Keys -> Versions]
  BY NoneAssumption DEF TypeOK, Versions
<1>2. Loop!NoJob = [key |-> None, obj |-> None] /\ Loop!NoJob.key = None
  BY DEF Loop!NoJob
<1>3. CASE SyncRead
  <2> DEFINE k == Head(reconcileQ.queue)
  <2>1. /\ reconcileQ.queue # <<>> /\ reconcileQ' = Get(reconcileQ)
        /\ rec'.key = k /\ rec'.obj = Desire(crCache[k]) /\ rec'.pc # "finish"
        /\ UNCHANGED <<crCache, crNotes, synced>> /\ rec.key = None
    BY <1>3, ZenonT(60) DEF SyncRead, cacheVars, KeyHeld
  <2>2. /\ k \in Keys /\ k \in reconcileQ.dirty
        /\ reconcileQ'.down = reconcileQ.down /\ reconcileQ'.waiting = reconcileQ.waiting
        /\ reconcileQ'.dirty = reconcileQ.dirty \ {k}
    BY <1>1, <2>1, GetFacts, StrictGet, ZenonT(60) DEF StrictInv
  <2> HIDE DEF k
  <2>3. Job = Loop!NoJob /\ Job' = [key |-> k, obj |-> Desire(crCache[k])]
    BY <1>1, <1>2, <2>1, <2>2, ZenonT(60) DEF Job
  <2>4. k \in Owed
    BY <2>2 DEF Owed, Pending
  <2>5. Owed' = Owed \/ Owed' = Owed \ {k}
    <3>1. CASE k \in reconcileQ.waiting \/ SomeEnqueues(crNotes[k])
      <4>1. \A j \in Keys : (Pending(reconcileQ', j) \/ SomeEnqueues(crNotes'[j]))
                              <=> (Pending(reconcileQ, j) \/ SomeEnqueues(crNotes[j]))
        BY <2>1, <2>2, <3>1 DEF Pending
      <4> QED
        BY <4>1, Zenon DEF Owed, SomeEnqueues
    <3>2. CASE ~(k \in reconcileQ.waiting \/ SomeEnqueues(crNotes[k]))
      <4>1. \A j \in Keys : (Pending(reconcileQ', j) \/ SomeEnqueues(crNotes'[j]))
                              <=> ((Pending(reconcileQ, j) \/ SomeEnqueues(crNotes[j])) /\ j # k)
        BY <2>1, <2>2, <3>2, ZenonT(60) DEF Pending
      <4> QED
        BY <4>1, Zenon DEF Owed, SomeEnqueues
    <3> QED
      BY <3>1, <3>2
  <2>6. Current' = Current /\ Current[k] = Desire(crCache[k])
    BY <2>1, <2>2, ZenonT(60) DEF Current
  <2>7. Loop!Begin(k)
    BY <2>1, <2>2, <2>3, <2>4, <2>5, <2>6, ZenonT(60) DEF Loop!Begin
  <2> QED
    BY <2>2, <2>7, ZenonT(60) DEF Loop!Next
<1>4. CASE SyncApply
  <2>1. PICK e \in BOOLEAN : SyncReturns(e)
    BY <1>4, Zenon DEF SyncApply, CreateStatefulSet, UpdateStatefulSet, RejectStatefulSet
  <2>2. rec'.key = rec.key /\ rec'.obj = rec.obj /\ rec'.pc = "report" /\ rec.pc = "apply"
    BY <1>4, <2>1, RecRecords, ZenonT(60) DEF SyncReturns, RecPcs, SyncApply
  <2>3. UNCHANGED <<crCache, crNotes, synced, reconcileQ>>
    BY <2>1 DEF SyncReturns, cacheVars
  <2>4. Job' = Job
    BY <2>2, ZenonT(60) DEF Job
  <2>5. Current' = Current /\ Owed' = Owed
    BY <2>3 DEF Current, Owed
  <2> QED
    BY <2>3, <2>4, <2>5 DEF Loop!vars
<1>5. CASE SyncReport
  <2>1. /\ rec'.key = rec.key /\ rec'.obj = rec.obj /\ rec'.pc = "finish"
        /\ rec'.err = rec.err /\ rec.pc = "report" /\ rec.key \in Keys
    BY <1>5, RecRecords, ZenonT(60) DEF SyncReport, RecPcs, KeyHeld, TypeOK
  <2>2. /\ UNCHANGED <<crCache, crNotes, reconcileQ>>
        /\ synced' = IF rec.err THEN synced ELSE [synced EXCEPT ![rec.key] = rec.obj]
    BY <1>5, ZenonT(60) DEF SyncReport, cacheVars
  <2>3. Current' = Current /\ Owed' = Owed
    BY <2>2, ZenonT(60) DEF Current, Owed
  <2>4. Job = [key |-> rec.key, obj |-> rec.obj] /\ Job.key = rec.key /\ Job.obj = rec.obj
    BY <1>1, <2>1 DEF Job
  <2>5. CASE rec.err
    <3>1. Job' = Job
      BY <1>1, <2>1, <2>4, <2>5 DEF Job
    <3> QED
      BY <2>2, <2>3, <2>5, <3>1, ZenonT(60) DEF Loop!vars
  <2>6. CASE ~rec.err
    <3>1. Job' = Loop!NoJob /\ Job # Loop!NoJob
      BY <1>1, <1>2, <2>1, <2>4, <2>6, ZenonT(60) DEF Job
    <3>2. Loop!Succeed
      BY <2>2, <2>3, <2>4, <2>6, <3>1 DEF Loop!Succeed
    <3> QED
      BY <3>2, ZenonT(60) DEF Loop!Next
  <2> QED
    BY <2>5, <2>6
<1>6. CASE RecFinish
  <2>1. /\ rec.pc = "finish" /\ rec.key \in Keys /\ rec' = IdleRec
        /\ UNCHANGED <<crCache, crNotes, synced>>
    BY <1>6, ZenonT(60) DEF RecFinish, KeyHeld, TypeOK, cacheVars
  <2>2. Job' = Loop!NoJob /\ Current' = Current
    BY <1>2, <2>1 DEF Job, Current, IdleRec
  <2>3. CASE ~rec.err
    <3>1. reconcileQ' = Done(reconcileQ, rec.key)
      BY <1>6, <2>3, ZenonT(60) DEF RecFinish
    <3>2. /\ reconcileQ'.dirty = reconcileQ.dirty /\ reconcileQ'.waiting = reconcileQ.waiting
          /\ reconcileQ'.down = reconcileQ.down
      BY <1>1, <2>1, <3>1, DoneFacts, ZenonT(60)
    <3>3. Owed' = Owed
      BY <2>1, <3>2, ZenonT(60) DEF Owed, Pending
    <3>4. Job = Loop!NoJob
      BY <1>2, <2>1, <2>3 DEF Job
    <3> QED
      BY <2>1, <2>2, <3>2, <3>3, <3>4, ZenonT(60) DEF Loop!vars
  <2>4. CASE rec.err
    <3> DEFINE q == AddRateLimited(reconcileQ, rec.key)
    <3>1. /\ q \in Queue /\ q.dirty = reconcileQ.dirty /\ q.down = reconcileQ.down
          /\ q.waiting \in {reconcileQ.waiting, reconcileQ.waiting \cup {rec.key}}
          /\ reconcileQ.down \/ rec.key \in q.waiting
      BY <1>1, <2>1, AddRateLimitedFacts, AddRateLimitedOnly, ZenonT(60)
    <3>2. reconcileQ' = Done(q, rec.key)
      BY <1>6, <2>4, ZenonT(60) DEF RecFinish
    <3> HIDE DEF q
    <3>3. /\ reconcileQ'.dirty = reconcileQ.dirty /\ reconcileQ'.down = reconcileQ.down
          /\ reconcileQ'.waiting = q.waiting
      BY <2>1, <3>1, <3>2, DoneFacts, ZenonT(60)
    <3>4. Owed' = Owed \/ Owed' = Owed \cup {rec.key}
      <4>1. CASE q.waiting = reconcileQ.waiting
        BY <2>1, <3>3, <4>1 DEF Owed, Pending
      <4>2. CASE q.waiting = reconcileQ.waiting \cup {rec.key}
        BY <2>1, <3>3, <4>2, Zenon DEF Owed, Pending
      <4> QED
        BY <3>1, <4>1, <4>2, ZenonT(60)
    <3>5. reconcileQ.down \/ rec.key \in Owed'
      BY <2>1, <3>1, <3>3, ZenonT(60) DEF Owed, Pending
    <3>6. Job = [key |-> rec.key, obj |-> rec.obj] /\ Job.key = rec.key
      BY <1>1, <2>1, <2>4, ZenonT(60) DEF Job
    <3>7. Job # Loop!NoJob
      BY <1>1, <1>2, <2>1, <3>6, ZenonT(60)
    <3>8. Loop!Fail
      BY <2>1, <2>2, <3>3, <3>4, <3>5, <3>6, <3>7, ZenonT(60) DEF Loop!Fail
    <3> QED
      BY <3>8, ZenonT(60) DEF Loop!Next
  <2> QED
    BY <2>3, <2>4, ZenonT(60)
<1>7. CASE RecExit
  <2>1. rec'.key = None /\ rec.key = None /\ UNCHANGED <<crCache, crNotes, synced, reconcileQ>>
    BY <1>7, RecRecords, Zenon DEF RecExit, RecPcs, KeyHeld, cacheVars
  <2>2. Job' = Job /\ Current' = Current /\ Owed' = Owed
    BY <2>1 DEF Job, Current, Owed
  <2> QED
    BY <2>1, <2>2 DEF Loop!vars
<1> QED
  BY <1>3, <1>4, <1>5, <1>6, <1>7 DEF RecWorker

\* A new process: every wanted object is announced, nothing else is known.
LEMMA RestartStep ==
  ASSUME TypeOK, Restart
  PROVE  Loop!Restart
<1>1. /\ crCache' = cr /\ rec' = IdleRec /\ reconcileQ' = EmptyQueue
      /\ synced' = [k \in Keys |-> None]
  BY ZenonT(60) DEF Restart
<1>2. Job' = Loop!NoJob /\ ~reconcileQ'.down
  BY <1>1 DEF Job, IdleRec, Loop!NoJob, EmptyQueue
<1>3. Owed' \subseteq Keys
  BY DEF Owed
<1>4. ASSUME NEW k \in Keys, Desired(Current'[k])
      PROVE  k \in Owed'
  <2>1. cr[k] \in Versions /\ Current'[k] = Desire(cr[k])
    BY <1>1, ZenonT(60) DEF TypeOK, Versions, Current
  <2>2. Desired(cr[k])
    BY <1>4, <2>1, DesireFacts, ZenonT(60)
  <2>3. SomeEnqueues(crNotes'[k])
    BY <2>2, RestartNotifies
  <2> QED
    BY <2>3, Zenon DEF Owed, SomeEnqueues
<1> QED
  BY <1>1, <1>2, <1>3, <1>4 DEF Loop!Restart

\* Every step of the reconciler is a step of the loop, or invisible to it.
LEMMA StepRefines ==
  ASSUME HiddenRecreation = FALSE, TypeOK, KeyHeld, WatchInv, StrictInv, [Next]_vars
  PROVE  Loop!Next \/ UNCHANGED Loop!vars
<1>1. CASE \E k \in Keys : Informers(k)
  BY <1>1, InformersStep, ZenonT(60)
<1>2. CASE \E k \in Keys : HandleCR(k)
  BY <1>2, HandleStep
<1>3. ASSUME NEW k \in Keys,
             Users(k) \/ Cluster(k) \/ HandleSset(k) \/ Timers(k) \/ RefreshStatusFor(k)
      PROVE  Loop!Next \/ UNCHANGED Loop!vars
  <2>1. UNCHANGED <<rec, synced, crCache, crNotes>>
    BY <1>3, Zenon DEF Users, CreateObject, EditSpec, EditMeta, DeleteObject, UserEdit,
                FinalizeObject, Cluster, GarbageCollect, PodsReady, PodsFail, LoseSset,
                DriftSset, SsetEvent, HandleSset, Timers, ReleaseRec, ReleaseStat,
                StatusPoller, RefreshStatusFor, cacheVars, recVars
  <2>2. \/ reconcileQ' = reconcileQ
        \/ \E j \in Keys : reconcileQ' = Add(reconcileQ, j)
        \/ \E j \in Keys : j \in reconcileQ.waiting /\ reconcileQ' = Release(reconcileQ, j)
        \/ reconcileQ' = ShutDown(reconcileQ)
    BY <1>3, BackgroundQueue DEF Background, Handlers
  <2>3. reconcileQ'.down = reconcileQ.down
    <3>1. reconcileQ \in Queue
      BY ZenonT(60) DEF TypeOK
    <3>2. CASE HandleSset(k)
      <4>1. reconcileQ' = reconcileQ \/ reconcileQ' = Add(reconcileQ, k)
        BY <3>2, ZenonT(60) DEF HandleSset, onStatefulSetAdd, onStatefulSetUpdate,
                     onStatefulSetDelete, Ignore, EnqueueForReconciliation, EnqueueForStatus
      <4> QED
        BY <3>1, <4>1, AddFacts
    <3>3. CASE Timers(k)
      <4>1. reconcileQ' = reconcileQ \/ reconcileQ' = Release(reconcileQ, k)
        BY <3>3 DEF Timers, ReleaseRec, ReleaseStat, StatusPoller, EnqueueForStatus
      <4> QED
        BY <3>1, <4>1, ReleaseFacts, ZenonT(60)
    <3>4. CASE Users(k) \/ Cluster(k) \/ RefreshStatusFor(k)
      BY <3>4, ZenonT(60) DEF Users, CreateObject, EditSpec, EditMeta, DeleteObject, UserEdit,
              FinalizeObject, Cluster, GarbageCollect, PodsReady, PodsFail, LoseSset,
              DriftSset, SsetEvent, RefreshStatusFor, Ignore, EnqueueForStatus
    <3> QED
      BY <1>3, <3>2, <3>3, <3>4, ZenonT(60)
  <2>4. CASE reconcileQ' = ShutDown(reconcileQ)
    <3>1. reconcileQ \in Queue
      BY DEF TypeOK
    <3>2. Owed' = Owed
      BY <2>1, <2>4, <3>1, StrictOthers, ZenonT(60) DEF StrictInv, Owed, Pending
    <3> QED
      BY <2>1, <2>3, <3>2, OwedStep, ZenonT(60)
  <2> QED
    BY <2>1, <2>2, <2>4, QueueStep
<1>4. CASE Stop
  <2>1. UNCHANGED <<rec, synced, crCache, crNotes>> /\ reconcileQ' = ShutDown(reconcileQ)
    BY <1>4, ZenonT(60) DEF Stop, cacheVars, recVars
  <2>2. /\ reconcileQ'.down /\ reconcileQ'.dirty = reconcileQ.dirty
        /\ reconcileQ'.waiting = reconcileQ.waiting
    BY <2>1, ZenonT(60) DEF TypeOK, ShutDown, Queue
  <2>3. Current' = Current /\ Job' = Job /\ Owed' = Owed
    BY <2>1, <2>2, ZenonT(60) DEF Current, Job, Owed, Pending
  <2>4. Loop!Stop
    BY <2>1, <2>2, <2>3, ZenonT(60) DEF Loop!Stop
  <2> QED
    BY <2>4 DEF Loop!Next
<1>5. CASE UNCHANGED vars \/ StatWorker
  <2>1. UNCHANGED <<rec, synced, crCache, crNotes, reconcileQ>>
    BY <1>5, ZenonT(60) DEF vars, StatWorker, StatRead, StatApply, StatExit, cacheVars, recVars
  <2> QED
    BY <2>1, QueueStep
<1>6. CASE RecWorker
  BY <1>6, WorkerStep
<1>7. CASE Restart
  BY <1>7, RestartStep DEF Loop!Next
<1> QED
  BY <1>1, <1>2, <1>3, <1>4, <1>5, <1>6, <1>7, Steps, ZenonT(60) DEF Background, Handlers

\* The ResourceReconciler implements ReconcileLoop, as long as no broken watch
\* hides that an object was deleted and created again: its queues, watches,
\* notifications, retries and restarts are level-triggered reconciliation.
THEOREM Refines ==
  ASSUME HiddenRecreation = FALSE
  PROVE  Spec => ImplementsSafeLoop
<1>1. Init => Loop!Init /\ WatchInv /\ StrictInv
  <2> SUFFICES ASSUME Init PROVE Loop!Init /\ WatchInv /\ StrictInv
    OBVIOUS
  <2>1. WatchInv
    <3>1. ASSUME NEW k \in Keys
          PROVE  cr[k] = None /\ crCache[k] = None /\ crWatch[k] = <<>> /\ edits = 0
      BY DEF Init
    <3>2. Leads(None, <<>>, None, 0)
      BY DEF Leads, Earlier
    <3> QED
      BY <3>1, <3>2, Zenon DEF WatchInv
  <2>2. StrictInv
    BY NoneAssumption DEF Init, StrictInv, Strict, EmptyQueue, IdleRec
  <2>3. \A k \in Keys : ~Desired(Current[k])
    BY ZenonT(60) DEF Init, Current, Desire, Desired, Present
  <2>4. Owed = {}
    BY DEF Init, Owed, Pending, EmptyQueue
  <2>5. Job = Loop!NoJob /\ ~reconcileQ.down /\ synced = [k \in Keys |-> None]
    BY DEF Init, Job, IdleRec, EmptyQueue, Loop!NoJob
  <2> QED
    BY <2>1, <2>2, <2>3, <2>4, <2>5, ZenonT(60) DEF Loop!Init
<1>2. TypeOK /\ KeyHeld /\ WatchInv /\ StrictInv /\ [Next]_vars => [Loop!Next]_(Loop!vars)
  BY StepRefines, ZenonT(60)
<1> QED
  BY <1>1, <1>2, TypeCorrect, WatchNext, StrictNext, PTL DEF Spec, ImplementsSafeLoop, Loop!Safe
=============================================================================
