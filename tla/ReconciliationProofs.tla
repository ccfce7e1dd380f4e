------------------------ MODULE ReconciliationProofs ------------------------
(***************************************************************************)
(* The work queues of the ResourceReconciler and what feeds them, for      *)
(* every set of keys and every bound: no key is stranded, no failed Sync   *)
(* is forgotten, and no change of an object that reached the cache is      *)
(* lost.  The watch of the custom resources leads from the cache to the    *)
(* API server; the handlers turn what it delivers into queued keys.        *)
(***************************************************************************)
EXTENDS ResourceReconcilerProofs

-----------------------------------------------------------------------------
(* Keys that are queued stay queued *)

\* r still owes every key that q owes, and hands out no further one.
Keeps(q, r) ==
  /\ r.processing = q.processing
  /\ Sound(q) => Sound(r)
  /\ q.down => r.down
  /\ \A k \in Keys : Pending(q, k) => Pending(r, k) \/ r.down

\* Adding, delaying, releasing and shutting down lose no key.
LEMMA KeepsFacts ==
  ASSUME NEW q \in Queue, NEW k \in Keys
  PROVE  /\ Keeps(q, q)
         /\ Keeps(q, Add(q, k))
         /\ Keeps(q, Release(q, k))
         /\ Keeps(q, ShutDown(q))
         /\ Keeps(q, AddRateLimited(q, k))
<1>1. Keeps(q, q)
  BY DEF Keeps
<1>2. Keeps(q, Add(q, k))
  BY AddFacts DEF Keeps, Pending
<1>3. Keeps(q, Release(q, k))
  BY ReleaseFacts DEF Keeps, Pending
<1>4. Keeps(q, ShutDown(q))
  BY ShutDownFacts DEF Keeps
<1>5. Keeps(q, AddRateLimited(q, k))
  BY AddRateLimitedFacts DEF Keeps, Pending
<1> QED
  BY <1>1, <1>2, <1>3, <1>4, <1>5

\* A step that is neither a worker's nor a restart.
Background ==
  \/ \E k \in Keys : Users(k) \/ Cluster(k) \/ Informers(k) \/ Handlers(k)
                       \/ Timers(k) \/ RefreshStatusFor(k)
  \/ Stop
  \/ UNCHANGED vars

\* Such a step loses no queued key and leaves the workers and the tracker alone.
LEMMA BackgroundKeeps ==
  ASSUME TypeOK, Background
  PROVE  /\ Keeps(reconcileQ, reconcileQ')
         /\ Keeps(statusQ, statusQ')
         /\ UNCHANGED <<rec, tracker, synced, stat>>
<1>1. reconcileQ \in Queue /\ statusQ \in Queue
  BY DEF TypeOK
<1>2. ASSUME UNCHANGED <<reconcileQ, statusQ>>
      PROVE  Keeps(reconcileQ, reconcileQ') /\ Keeps(statusQ, statusQ')
  BY <1>2 DEF Keeps
<1>3. ASSUME NEW k \in Keys, NEW o,
             EnqueueForReconciliation(k, o) \/ EnqueueForStatus(k, o) \/ Ignore
      PROVE  Keeps(reconcileQ, reconcileQ') /\ Keeps(statusQ, statusQ')
  <2>1. /\ Keeps(reconcileQ, reconcileQ) /\ Keeps(reconcileQ, Add(reconcileQ, k))
        /\ Keeps(statusQ, statusQ) /\ Keeps(statusQ, Add(statusQ, k))
    BY <1>1, KeepsFacts, SMTT(60)
  <2> QED
    BY <1>2, <1>3, <2>1 DEF EnqueueForReconciliation, EnqueueForStatus, Ignore
<1>4. CASE \E k \in Keys : Users(k)
  BY <1>2, <1>4, Zenon DEF Users, CreateObject, EditSpec, EditMeta, DeleteObject, UserEdit,
                    FinalizeObject, recVars
<1>5. CASE \E k \in Keys : Cluster(k)
  BY <1>2, <1>5 DEF Cluster, GarbageCollect, PodsReady, PodsFail, LoseSset, DriftSset,
                    SsetEvent, recVars
<1>6. CASE \E k \in Keys : Informers(k)
  BY <1>2, <1>6, Zenon
    DEF Informers, ReceiveCR, ReceiveSset, RelistCR, RelistSset, Resync, recVars
<1>7. ASSUME NEW k \in Keys, HandleCR(k)
      PROVE  /\ Keeps(reconcileQ, reconcileQ') /\ Keeps(statusQ, statusQ')
             /\ UNCHANGED <<rec, tracker, synced, stat>>
  <2>1. Keeps(reconcileQ, reconcileQ')
    BY <1>1, <1>7, KeepsFacts DEF HandleCR
  <2>2. UNCHANGED <<statusQ, rec, tracker, synced, stat>>
    BY <1>7 DEF HandleCR, recVars
  <2> QED
    BY <1>1, <1>7, <2>1, <2>2, KeepsFacts
<1>8. ASSUME NEW k \in Keys, HandleSset(k)
      PROVE  /\ Keeps(reconcileQ, reconcileQ') /\ Keeps(statusQ, statusQ')
             /\ UNCHANGED <<rec, tracker, synced, stat>>
  <2>1. Ignore \/ \E o : EnqueueForReconciliation(k, o) \/ EnqueueForStatus(k, o)
    BY <1>8 DEF HandleSset, onStatefulSetAdd, onStatefulSetUpdate, onStatefulSetDelete
  <2>2. UNCHANGED <<rec, tracker, synced, stat>>
    BY <1>8 DEF HandleSset, recVars
  <2> QED
    BY <1>3, <1>8, <2>1, <2>2
<1>9. ASSUME NEW k \in Keys, Timers(k) \/ RefreshStatusFor(k)
      PROVE  /\ Keeps(reconcileQ, reconcileQ') /\ Keeps(statusQ, statusQ')
             /\ UNCHANGED <<rec, tracker, synced, stat>>
  <2>1. CASE ReleaseRec(k) \/ ReleaseStat(k)
    BY <1>1, <1>9, <2>1, KeepsFacts DEF ReleaseRec, ReleaseStat, recVars
  <2>2. CASE StatusPoller(k) \/ RefreshStatusFor(k)
    <3>1. Ignore \/ \E o : EnqueueForStatus(k, o)
      BY <2>2 DEF StatusPoller, RefreshStatusFor
    <3>2. UNCHANGED <<rec, tracker, synced, stat>>
      BY <2>2 DEF StatusPoller, RefreshStatusFor, recVars
    <3> QED
      BY <1>3, <1>9, <3>1, <3>2
  <2> QED
    BY <1>9, <2>1, <2>2 DEF Timers
<1>10. CASE Stop
  <2>1. Keeps(reconcileQ, ShutDown(reconcileQ)) /\ Keeps(statusQ, ShutDown(statusQ))
    BY <1>1, ShutDownFacts DEF Keeps
  <2> QED
    BY <1>10, <2>1 DEF Stop, recVars
<1>11. CASE UNCHANGED vars
  BY <1>2, <1>11 DEF vars, recVars
<1> QED
  BY <1>4, <1>5, <1>6, <1>7, <1>8, <1>9, <1>10, <1>11 DEF Background, Handlers

\* The steps of Next, sorted.
LEMMA Steps == [Next]_vars => Background \/ RecWorker \/ StatWorker \/ Restart
BY DEF Next, Background

-----------------------------------------------------------------------------
(* No key is stranded *)

\* The queues are sound and only the workers hold keys.
QueueInv ==
  /\ Sound(reconcileQ) /\ reconcileQ.processing \subseteq {rec.key}
  /\ Sound(statusQ) /\ statusQ.processing \subseteq {stat.key}

\* Every step keeps the queues sound.
LEMMA QueueNext == TypeOK /\ KeyHeld /\ QueueInv /\ [Next]_vars => QueueInv'
<1> SUFFICES ASSUME TypeOK, KeyHeld, QueueInv, [Next]_vars
             PROVE  QueueInv'
  OBVIOUS
<1>1. reconcileQ \in Queue /\ statusQ \in Queue
  BY DEF TypeOK
<1>2. /\ reconcileQ.processing \subseteq Keys /\ statusQ.processing \subseteq Keys
      /\ None \notin Keys
  BY <1>1, NoneAssumption DEF Queue
<1>3. CASE Background
  BY <1>3, BackgroundKeeps DEF Keeps, QueueInv
<1>4. CASE SyncRead
  <2>1. rec.key = None
    BY <1>4 DEF SyncRead, KeyHeld
  <2>2. reconcileQ.processing = {}
    BY <1>2, <2>1 DEF QueueInv
  <2>3. reconcileQ' = Get(reconcileQ) /\ rec'.key = Head(reconcileQ.queue)
    BY <1>4 DEF SyncRead
  <2>4. Sound(reconcileQ') /\ reconcileQ'.processing \subseteq {rec'.key}
    BY <1>1, <1>4, <2>2, <2>3, GetFacts DEF SyncRead, QueueInv
  <2>5. UNCHANGED <<statusQ, stat>>
    BY <1>4 DEF SyncRead
  <2> QED
    BY <2>4, <2>5 DEF QueueInv
<1>5. CASE SyncApply
  <2>1. PICK e \in BOOLEAN : SyncReturns(e)
    BY <1>5, Zenon DEF SyncApply, CreateStatefulSet, UpdateStatefulSet,
                RejectStatefulSet
  <2>2. rec'.key = rec.key
    BY <2>1, RecRecords, ZenonT(60) DEF SyncReturns, RecPcs
  <2> QED
    BY <2>1, <2>2 DEF SyncReturns, QueueInv
<1>6. CASE SyncReport \/ RecExit
  <2>1. rec'.key = rec.key
    BY <1>6, RecRecords, ZenonT(60) DEF SyncReport, RecExit, RecPcs
  <2> QED
    BY <1>6, <2>1 DEF SyncReport, RecExit, QueueInv
<1>7. CASE RecFinish
  <2> DEFINE q == IF rec.err THEN AddRateLimited(reconcileQ, rec.key) ELSE reconcileQ
  <2>1. rec.key \in Keys
    BY <1>7 DEF RecFinish, KeyHeld, TypeOK
  <2>2. q \in Queue /\ Keeps(reconcileQ, q)
    BY <1>1, <2>1, AddRateLimitedFacts, KeepsFacts
  <2> HIDE DEF q
  <2>3. Sound(Done(q, rec.key)) /\ Done(q, rec.key).processing = {}
    BY <2>1, <2>2, DoneFacts DEF Keeps, QueueInv
  <2>4. reconcileQ' = Done(q, rec.key)
    BY <1>7 DEF RecFinish, q
  <2>5. Keeps(statusQ, statusQ') /\ UNCHANGED stat
    BY <1>1, <1>7, <2>1, KeepsFacts DEF RecFinish
  <2> QED
    BY <2>3, <2>4, <2>5 DEF Keeps, QueueInv
<1>8. CASE StatRead
  <2>1. stat.key = None
    BY <1>8 DEF StatRead, KeyHeld
  <2>2. statusQ.processing = {}
    BY <1>2, <2>1, ZenonT(60) DEF QueueInv
  <2> DEFINE k == Head(statusQ.queue)
  <2>3. /\ Get(statusQ) \in Queue /\ k \in Keys
        /\ Sound(Get(statusQ)) /\ Get(statusQ).processing = {k}
    BY <1>1, <1>8, <2>2, GetFacts DEF StatRead, QueueInv
  <2>4. Sound(Done(Get(statusQ), k)) /\ Done(Get(statusQ), k).processing = {}
    BY <2>3, DoneFacts, ZenonT(60)
  <2>5. \/ statusQ' = Done(Get(statusQ), k)
        \/ statusQ' = Get(statusQ) /\ stat'.key = k
    BY <1>8 DEF StatRead
  <2>6. UNCHANGED <<reconcileQ, rec>>
    BY <1>8 DEF StatRead, recVars
  <2> HIDE DEF k
  <2> QED
    BY <2>3, <2>4, <2>5, <2>6 DEF QueueInv
<1>9. CASE StatApply
  <2>1. PICK e \in BOOLEAN : StatFinish(e)
    BY <1>9, Zenon DEF StatApply
  <2> DEFINE q == IF e THEN AddRateLimited(statusQ, stat.key) ELSE statusQ
  <2>2. stat.key \in Keys
    BY <1>9 DEF StatApply, KeyHeld, TypeOK
  <2>3. q \in Queue /\ Keeps(statusQ, q)
    BY <1>1, <2>2, AddRateLimitedFacts, KeepsFacts
  <2> HIDE DEF q
  <2>4. Sound(Done(q, stat.key)) /\ Done(q, stat.key).processing = {}
    BY <2>2, <2>3, DoneFacts DEF Keeps, QueueInv
  <2>5. statusQ' = Done(q, stat.key)
    BY <2>1 DEF StatFinish, q
  <2>6. UNCHANGED <<reconcileQ, rec>>
    BY <1>9 DEF StatApply, recVars
  <2> QED
    BY <2>4, <2>5, <2>6 DEF QueueInv
<1>10. CASE StatExit
  <2>1. stat'.key = stat.key
    BY <1>10 DEF StatExit, TypeOK
  <2> QED
    BY <1>10, <2>1 DEF StatExit, recVars, QueueInv
<1>11. CASE Restart
  BY <1>11, EmptyFacts DEF Restart, QueueInv
<1> QED
  BY <1>3, <1>4, <1>5, <1>6, <1>7, <1>8, <1>9, <1>10, <1>11, Steps DEF RecWorker, StatWorker

\* No key is stranded: a key added to a queue while the worker processes it is
\* queued again by Done, and none is lost in between.
THEOREM NeverStranded == Spec => []NoStrandedKey
<1>1. Init => QueueInv
  BY EmptyFacts DEF Init, QueueInv
<1>2. QueueInv => NoStrandedKey
  BY DEF QueueInv, Sound, NoStrandedKey
<1> QED
  BY <1>1, <1>2, QueueNext, TypeCorrect, PTL DEF Spec

-----------------------------------------------------------------------------
(* No failure is forgotten *)

\* An error in the tracker is one the worker still has to hand to the queue, or
\* one the queue has.
FailureInv ==
  /\ FailureIsRetried
  /\ rec.pc = "finish" => (tracker[rec.key] = "err" <=> rec.err)

\* A queued key stays queued until the worker takes it, or the process dies.
LEMMA BusyStays ==
  ASSUME TypeOK, KeyHeld, [Next]_vars, NEW k \in Keys, Busy(k)
  PROVE  Busy(k)' \/ Restart \/ (SyncRead /\ rec'.key = k)
<1>1. reconcileQ \in Queue
  BY DEF TypeOK
<1>2. CASE Background
  BY <1>2, BackgroundKeeps, ZenonT(60) DEF Keeps, Busy
<1>3. CASE SyncRead
  BY <1>1, <1>3, GetFacts DEF SyncRead, Busy, Pending
<1>4. CASE SyncApply
  BY <1>4 DEF SyncApply, CreateStatefulSet, UpdateStatefulSet,
                RejectStatefulSet, SyncReturns, Busy
<1>5. CASE SyncReport \/ RecExit \/ StatWorker
  BY <1>5, ZenonT(60) DEF SyncReport, RecExit, StatWorker, StatRead, StatApply, StatExit, Busy
<1>6. CASE RecFinish
  <2> DEFINE q == IF rec.err THEN AddRateLimited(reconcileQ, rec.key) ELSE reconcileQ
  <2>1. rec.key \in Keys
    BY <1>6, ZenonT(60) DEF RecFinish, KeyHeld, TypeOK
  <2>2. q \in Queue /\ Keeps(reconcileQ, q)
    BY <1>1, <2>1, AddRateLimitedFacts, KeepsFacts
  <2> HIDE DEF q
  <2>3. reconcileQ' = Done(q, rec.key)
    BY <1>6 DEF RecFinish, q
  <2> QED
    BY <2>1, <2>2, <2>3, DoneFacts DEF Keeps, Busy, Pending
<1> QED
  BY <1>2, <1>3, <1>4, <1>5, <1>6, Steps DEF RecWorker

\* RecFinish leaves a key whose Sync failed in the rate-limited queue.
LEMMA FailureQueued ==
  ASSUME TypeOK, RecFinish, rec.err, NEW k \in Keys, rec.key = k
  PROVE  Busy(k)'
<1>1. reconcileQ \in Queue
  BY DEF TypeOK
<1>2. reconcileQ' = Done(AddRateLimited(reconcileQ, k), k)
  BY DEF RecFinish
<1>3. reconcileQ'.down \/ k \in reconcileQ'.waiting
  BY <1>1, <1>2, AddRateLimitedFacts, DoneFacts
<1> QED
  BY <1>3 DEF Busy, Pending

\* Every step keeps the failures.
LEMMA FailureNext ==
  TypeOK /\ KeyHeld /\ FailureInv /\ [Next]_vars => FailureInv'
<1> SUFFICES ASSUME TypeOK, KeyHeld, FailureInv, [Next]_vars
             PROVE  FailureInv'
  OBVIOUS
<1>1. /\ tracker \in [Keys -> {"none", "ok", "err"}] /\ rec.err \in BOOLEAN
      /\ None \notin Keys
  BY NoneAssumption DEF TypeOK
<1>2. ASSUME UNCHANGED <<rec, tracker>>, ~Restart
      PROVE  FailureInv'
  BY <1>2, BusyStays DEF FailureInv, FailureIsRetried
<1>3. CASE Background /\ ~Restart
  BY <1>2, <1>3, BackgroundKeeps
<1>4. CASE Restart
  <2>1. \A k \in Keys : tracker'[k] # "err"
    BY <1>4, ZenonT(60) DEF Restart
  <2>2. rec'.pc # "finish"
    BY <1>4 DEF Restart, IdleRec
  <2> QED
    BY <2>1, <2>2 DEF FailureInv, FailureIsRetried
<1>5. CASE StatWorker /\ ~Restart
  BY <1>2, <1>5, ZenonT(60) DEF StatWorker, StatRead, StatApply, StatExit, recVars
<1>6. CASE SyncRead /\ ~Restart
  <2>1. \A k \in Keys : tracker'[k] = "err" => tracker[k] = "err"
    BY <1>1, <1>6, Zenon DEF SyncRead
  <2>2. rec.key = None /\ rec'.pc # "finish"
    BY <1>6, ZenonT(60) DEF SyncRead, KeyHeld
  <2>3. ASSUME NEW k \in Keys, tracker'[k] = "err"
        PROVE  Busy(k)' \/ rec'.key = k
    BY <1>1, <1>6, <2>1, <2>2, <2>3, BusyStays DEF FailureInv, FailureIsRetried
  <2> QED
    BY <2>2, <2>3, SMTT(60) DEF FailureInv, FailureIsRetried
<1>7. CASE SyncApply /\ ~Restart
  <2>1. PICK e \in BOOLEAN : SyncReturns(e)
    BY <1>7, Zenon DEF SyncApply, CreateStatefulSet, UpdateStatefulSet,
                RejectStatefulSet
  <2>2. rec'.key = rec.key /\ rec'.pc = "report" /\ UNCHANGED tracker
    BY <2>1, RecRecords, ZenonT(60) DEF SyncReturns, RecPcs
  <2> QED
    BY <1>7, <2>2, BusyStays DEF FailureInv, FailureIsRetried
<1>8. CASE SyncReport /\ ~Restart
  <2>1. rec'.key = rec.key /\ rec'.err = rec.err /\ rec.key \in Keys
    BY <1>8, RecRecords, Zenon DEF SyncReport, RecPcs, KeyHeld, TypeOK
  <2>2. /\ tracker'[rec.key] = IF rec.err THEN "err" ELSE "ok"
        /\ \A k \in Keys \ {rec.key} : tracker'[k] = tracker[k]
    BY <1>1, <1>8, <2>1 DEF SyncReport
  <2> QED
    BY <1>1, <1>8, <2>1, <2>2, BusyStays DEF FailureInv, FailureIsRetried
<1>9. CASE RecFinish /\ ~Restart
  <2>1. rec'.pc # "finish" /\ UNCHANGED tracker /\ rec.pc = "finish"
    BY <1>9 DEF RecFinish, IdleRec
  <2>2. ASSUME NEW k \in Keys, tracker[k] = "err"
        PROVE  Busy(k)' \/ rec'.key = k
    <3>1. CASE rec.key = k
      BY <1>9, <2>1, <2>2, <3>1, FailureQueued DEF FailureInv
    <3>2. CASE rec.key # k
      BY <1>9, <2>2, <3>2, BusyStays DEF FailureInv, FailureIsRetried
    <3> QED
      BY <3>1, <3>2
  <2> QED
    BY <2>1, <2>2 DEF FailureInv, FailureIsRetried
<1>10. CASE RecExit /\ ~Restart
  <2>1. rec'.key = rec.key /\ rec'.pc = "exited" /\ UNCHANGED tracker
    BY <1>10, RecRecords, ZenonT(60) DEF RecExit, RecPcs
  <2> QED
    BY <1>10, <2>1, BusyStays, SMTT(60) DEF FailureInv, FailureIsRetried
<1> QED
  BY <1>3, <1>4, <1>5, <1>6, <1>7, <1>8, <1>9, <1>10, Steps DEF RecWorker

\* A failed Sync is never forgotten: the error SetStatus recorded is retried
\* through AddRateLimited until a later Sync replaces it.
THEOREM NeverForgotten == Spec => []FailureIsRetried
<1>1. Init => FailureInv
  BY DEF Init, FailureInv, FailureIsRetried, IdleRec
<1>2. FailureInv => FailureIsRetried
  BY DEF FailureInv
<1> QED
  BY <1>1, <1>2, FailureNext, TypeCorrect, PTL DEF Spec

-----------------------------------------------------------------------------
(* What a watch delivers *)

\* p may be the version after o: the same object, and a deletion is not undone.
Follows(o, p) == o # None /\ p # None => o.uid = p.uid /\ (o.deleting => p.deleting)

\* v is the object o at an earlier time, or an object that is gone.
Earlier(v, o, n) ==
  v # None => /\ v.uid <= n
              /\ o # None /\ v.uid = o.uid /\ v.deleting => o.deleting

\* The watch w leads from the cached version c to the current version o, and no
\* uid is above n.
Leads(c, w, o, n) ==
  /\ w = <<>> => c = o
  /\ w # <<>> => Follows(c, w[1]) /\ w[Len(w)] = o
  /\ \A i \in 1..Len(w) : i < Len(w) => Follows(w[i], w[i + 1])
  /\ Earlier(c, o, n)
  /\ \A i \in 1..Len(w) : Earlier(w[i], o, n)

\* A write appends a version.
LEMMA LeadsAppend ==
  ASSUME NEW c \in Versions, NEW o \in Versions, NEW p \in Versions,
         NEW w \in Seq(Versions), NEW n \in Nat, NEW m \in Nat,
         Leads(c, w, o, n), n <= m, Follows(o, p),
         p # None => p.uid <= m /\ (o = None => p.uid > n)
  PROVE  Leads(c, Append(w, p), p, m)
<1> DEFINE u == Append(w, p)
<1>1. /\ u \in Seq(Versions) /\ Len(u) = Len(w) + 1 /\ u[Len(u)] = p /\ u # <<>>
      /\ Len(w) \in Nat
      /\ \A i \in 1..Len(w) : u[i] = w[i]
  OBVIOUS
<1>2. ASSUME NEW v \in Versions, Earlier(v, o, n)
      PROVE  Earlier(v, p, m)
  <2>1. CASE v = None
    BY <2>1 DEF Earlier
  <2>2. CASE v # None
    <3>1. v.uid \in Nat
      BY <2>2 DEF Versions, Object
    <3>2. p # None => p.uid \in Nat
      BY DEF Versions, Object
    <3> QED
      BY <1>2, <2>2, <3>1, <3>2 DEF Earlier, Follows
  <2> QED
    BY <2>1, <2>2
<1>3. Earlier(c, p, m)
  BY <1>2 DEF Leads
<1>4. Earlier(p, p, m)
  BY DEF Earlier
<1>5. \A i \in 1..Len(w) : w[i] \in Versions
  OBVIOUS
<1>6. \A i \in 1..Len(w) : Earlier(w[i], p, m)
  BY <1>2, <1>5 DEF Leads
<1> HIDE DEF u
<1>7. \A i \in 1..Len(u) : Earlier(u[i], p, m)
  BY <1>1, <1>4, <1>6
<1>8. Follows(c, u[1])
  <2>1. CASE w = <<>>
    BY <1>1, <2>1 DEF Leads
  <2>2. CASE w # <<>>
    <3>1. 1 \in 1..Len(w)
      BY <2>2
    <3> QED
      BY <1>1, <2>2, <3>1 DEF Leads
  <2> QED
    BY <2>1, <2>2
<1>9. ASSUME NEW i \in 1..Len(u), i < Len(u)
      PROVE  Follows(u[i], u[i + 1])
  <2>1. i \in 1..Len(w) /\ w # <<>>
    BY <1>1, <1>9
  <2>2. CASE i = Len(w)
    BY <1>1, <2>1, <2>2 DEF Leads
  <2>3. CASE i < Len(w)
    <3>1. i + 1 \in 1..Len(w)
      BY <1>1, <2>1, <2>3
    <3> QED
      BY <1>1, <2>1, <2>3, <3>1 DEF Leads
  <2> QED
    BY <1>1, <2>1, <2>2, <2>3
<1>10. Leads(c, u, p, m)
  BY <1>1, <1>3, <1>7, <1>8, <1>9 DEF Leads
<1> QED
  BY <1>10 DEF u

\* Receiving a version moves it from the watch to the cache.
LEMMA LeadsTail ==
  ASSUME NEW c \in Versions, NEW o \in Versions, NEW w \in Seq(Versions), NEW n \in Nat,
         Leads(c, w, o, n), w # <<>>
  PROVE  Leads(Head(w), Tail(w), o, n) /\ Follows(c, Head(w))
<1> DEFINE u == Tail(w)
<1>1. /\ u \in Seq(Versions) /\ Len(w) \in Nat /\ Len(w) >= 1
      /\ Len(u) = Len(w) - 1 /\ Head(w) = w[1]
      /\ \A i \in 1..Len(u) : u[i] = w[i + 1]
      /\ u = <<>> <=> Len(w) = 1
  <2>1. u \in Seq(Versions) /\ Len(w) \in Nat /\ Len(w) >= 1 /\ Head(w) = w[1]
    OBVIOUS
  <2>2. Len(u) = Len(w) - 1
    OBVIOUS
  <2>3. \A i \in 1..Len(u) : u[i] = w[i + 1]
    OBVIOUS
  <2> HIDE DEF u
  <2>4. u = <<>> <=> Len(u) = 0
    BY <2>1
  <2>5. u = <<>> <=> Len(w) = 1
    BY <2>1, <2>2, <2>4
  <2> QED
    BY <2>1, <2>2, <2>3, <2>5
<1> HIDE DEF u
<1>2. \A i \in 1..Len(u) : i + 1 \in 1..Len(w)
  BY <1>1
<1>3. \A i \in 1..Len(u) : Earlier(u[i], o, n)
  BY <1>1, <1>2, ZenonT(60) DEF Leads
<1>4. 1 \in 1..Len(w)
  BY <1>1
<1>5. Earlier(Head(w), o, n)
  BY <1>1, <1>4 DEF Leads
<1>6. u = <<>> => Head(w) = o
  BY <1>1, Zenon DEF Leads
<1>7. u # <<>> => Follows(Head(w), u[1]) /\ u[Len(u)] = o
  <2> SUFFICES ASSUME u # <<>>
               PROVE  Follows(Head(w), u[1]) /\ u[Len(u)] = o
    OBVIOUS
  <2>1. 1 < Len(w) /\ 1 \in 1..Len(u) /\ Len(u) \in 1..Len(u) /\ Len(u) + 1 = Len(w)
    BY <1>1
  <2>2. Follows(w[1], w[1 + 1]) /\ w[Len(w)] = o
    BY <1>4, <2>1 DEF Leads
  <2> QED
    BY <1>1, <2>1, <2>2
<1>8. ASSUME NEW i \in 1..Len(u), i < Len(u)
      PROVE  Follows(u[i], u[i + 1])
  <2>1. i + 1 \in 1..Len(w) /\ i + 1 < Len(w) /\ i + 1 \in 1..Len(u)
    BY <1>1, <1>8
  <2>2. Follows(w[i + 1], w[(i + 1) + 1])
    BY <2>1 DEF Leads
  <2> QED
    BY <1>1, <1>8, <2>1, <2>2, ZenonT(60)
<1>9. Follows(c, Head(w))
  BY <1>1 DEF Leads
<1>10. Leads(Head(w), u, o, n)
  BY <1>3, <1>5, <1>6, <1>7, <1>8 DEF Leads
<1> QED
  BY <1>9, <1>10 DEF u

\* A relist, or a restart, takes the current version.
LEMMA LeadsRelist ==
  ASSUME NEW c \in Versions, NEW o \in Versions, NEW w \in Seq(Versions), NEW n \in Nat,
         Leads(c, w, o, n)
  PROVE  Leads(o, <<>>, o, n)
<1>1. Earlier(o, o, n)
  <2>1. CASE w = <<>>
    BY <2>1 DEF Leads
  <2>2. CASE w # <<>>
    <3>1. Len(w) \in 1..Len(w)
      BY <2>2
    <3> QED
      BY <2>2, <3>1 DEF Leads
  <2> QED
    BY <2>1, <2>2
<1> QED
  BY <1>1 DEF Leads

\* More uids may be in use later.
LEMMA LeadsLater ==
  ASSUME NEW c \in Versions, NEW o \in Versions, NEW w \in Seq(Versions),
         NEW n \in Nat, NEW m \in Nat, n <= m, Leads(c, w, o, n)
  PROVE  Leads(c, w, o, m)
<1>1. ASSUME NEW v \in Versions, Earlier(v, o, n)
      PROVE  Earlier(v, o, m)
  <2>1. v # None => v.uid \in Nat
    BY DEF Versions, Object
  <2> QED
    BY <1>1, <2>1 DEF Earlier
<1>2. \A i \in 1..Len(w) : w[i] \in Versions
  OBVIOUS
<1> QED
  BY <1>1, <1>2 DEF Leads

\* Every watch leads from the cache to the API server.
WatchInv == \A k \in Keys : Leads(crCache[k], crWatch[k], cr[k], edits)

\* A write that makes a successor of the current version keeps WatchInv.
LEMMA PutLeads ==
  ASSUME TypeOK, WatchInv, NEW k \in Keys, NEW o \in Versions, PutCR(k, o),
         UNCHANGED crCache, edits' \in Nat, edits <= edits', Follows(cr[k], o),
         o # None => o.uid <= edits' /\ (cr[k] = None => o.uid > edits)
  PROVE  WatchInv'
<1>1. \A j \in Keys : /\ crCache[j] \in Versions /\ cr[j] \in Versions
                       /\ crWatch[j] \in Seq(Versions)
  BY ZenonT(60) DEF TypeOK, Versions
<1>2. edits \in Nat
  BY DEF TypeOK
<1>3. /\ cr'[k] = o /\ crWatch'[k] = Append(crWatch[k], o)
      /\ \A j \in Keys \ {k} : cr'[j] = cr[j] /\ crWatch'[j] = crWatch[j]
  BY DEF PutCR, TypeOK
<1>4. Leads(crCache'[k], crWatch'[k], cr'[k], edits')
  BY <1>1, <1>2, <1>3, LeadsAppend DEF WatchInv
<1>5. ASSUME NEW j \in Keys \ {k}
      PROVE  Leads(crCache'[j], crWatch'[j], cr'[j], edits')
  BY <1>1, <1>2, <1>3, LeadsLater DEF WatchInv
<1> QED
  BY <1>4, <1>5, ZenonT(60) DEF WatchInv

\* Every step keeps the watches leading to the current versions.
LEMMA WatchNext ==
  TypeOK /\ KeyHeld /\ WatchInv /\ [Next]_vars => WatchInv'
<1> SUFFICES ASSUME TypeOK, KeyHeld, WatchInv, [Next]_vars
             PROVE  WatchInv'
  OBVIOUS
<1>1. \A k \in Keys : /\ crCache[k] \in Versions /\ cr[k] \in Versions
                       /\ crWatch[k] \in Seq(Versions)
  BY ZenonT(60) DEF TypeOK, Versions
<1>2. edits \in Nat /\ edits + 1 \in Nat
  BY DEF TypeOK
<1>3. ASSUME UNCHANGED <<cr, crWatch, crCache, edits>>
      PROVE  WatchInv'
  BY <1>3 DEF WatchInv
<1>4. \A k \in Keys : Leads(cr[k], <<>>, cr[k], edits)
  BY <1>1, <1>2, LeadsRelist DEF WatchInv
<1>5. ASSUME NEW k \in Keys, cr[k] # None
      PROVE  cr[k].uid <= edits /\ cr[k] \in Object /\ cr[k].uid \in Nat
  <2>1. cr[k].uid <= edits
    BY <1>4, <1>5 DEF Leads, Earlier
  <2>2. cr[k] \in Object
    BY <1>1, <1>5, ZenonT(60) DEF Versions
  <2> QED
    BY <2>1, <2>2, ZenonT(60) DEF Object
<1>6. ASSUME NEW k \in Keys, NEW o \in Versions, PutCR(k, o), UNCHANGED crCache,
             edits' = edits \/ edits' = edits + 1,
             \/ o = None
             \/ cr[k] # None /\ o.uid = cr[k].uid /\ (cr[k].deleting => o.deleting)
             \/ cr[k] = None /\ o.uid = edits + 1 /\ edits' = edits + 1
      PROVE  WatchInv'
  <2>1. edits' \in Nat /\ edits <= edits'
    BY <1>2, <1>6
  <2>2. Follows(cr[k], o)
    BY <1>6 DEF Follows
  <2>3. o # None => o.uid <= edits' /\ (cr[k] = None => o.uid > edits)
    BY <1>2, <1>5, <1>6, SMTT(60)
  <2> QED
    BY <1>6, <2>1, <2>2, <2>3, PutLeads, ZenonT(60)
<1>7. ASSUME NEW k \in Keys, NEW o \in Versions, UserEdit(k, o),
             \/ o = None
             \/ cr[k] # None /\ o.uid = cr[k].uid /\ (cr[k].deleting => o.deleting)
             \/ cr[k] = None /\ o.uid = edits + 1
      PROVE  WatchInv'
  <2>1. PutCR(k, o) /\ UNCHANGED crCache /\ edits' = edits + 1
    BY <1>7 DEF UserEdit, Edit, cacheVars
  <2> QED
    BY <1>6, <1>7, <2>1, ZenonT(60)
<1>8. None \in Versions
  BY DEF Versions
<1>9. ASSUME NEW k \in Keys, Users(k)
      PROVE  WatchInv'
  <2>1. CASE CreateObject(k)
    <3>1. PICK m \in Metas, p \in Paused :
            UserEdit(k, [uid |-> edits + 1, gen |-> 1, meta |-> m, paused |-> p,
                         deleting |-> FALSE, status |-> None])
      BY <2>1, ZenonT(60) DEF CreateObject
    <3>2. [uid |-> edits + 1, gen |-> 1, meta |-> m, paused |-> p,
           deleting |-> FALSE, status |-> None] \in Versions
      BY <1>2, ConstantsAssumption DEF Versions, Object
    <3> QED
      BY <1>7, <2>1, <3>1, <3>2 DEF CreateObject
  <2>2. CASE EditSpec(k)
    <3>1. PICK p \in Paused : UserEdit(k, [cr[k] EXCEPT !.gen = @ + 1, !.paused = p])
      BY <2>2, Zenon DEF EditSpec
    <3>2. cr[k] # None /\ cr[k] \in Object /\ p \in BOOLEAN
      BY <1>5, <2>2, ConstantsAssumption, SMTT(60) DEF EditSpec
    <3> DEFINE d == [cr[k] EXCEPT !.gen = @ + 1, !.paused = p]
    <3>3. d \in Versions /\ d.uid = cr[k].uid /\ d.deleting = cr[k].deleting
      BY <3>2, SpecType, Zenon DEF Versions
    <3> HIDE DEF d
    <3> QED
      BY <1>7, <3>1, <3>2, <3>3, Zenon DEF d
  <2>3. CASE EditMeta(k)
    <3>1. PICK m \in Metas : UserEdit(k, [cr[k] EXCEPT !.meta = m])
      BY <2>3 DEF EditMeta
    <3>2. /\ [cr[k] EXCEPT !.meta = m] \in Object
          /\ [cr[k] EXCEPT !.meta = m].uid = cr[k].uid
          /\ [cr[k] EXCEPT !.meta = m].deleting = cr[k].deleting
      BY <1>5, <2>3, ZenonT(60) DEF Object, EditMeta
    <3> QED
      BY <1>7, <2>3, <3>1, <3>2, Zenon DEF EditMeta, Versions
  <2>4. CASE DeleteObject(k)
    <3> DEFINE d == [cr[k] EXCEPT !.deleting = TRUE, !.gen = @ + 1]
    <3>1. cr[k] # None /\ cr[k] \in Object
      BY <1>5, <2>4 DEF DeleteObject
    <3>2. d \in Versions /\ d.uid = cr[k].uid /\ d.deleting
      BY <3>1, MarkType, Zenon DEF Versions, Object
    <3>3. UserEdit(k, None) \/ UserEdit(k, d)
      BY <2>4 DEF DeleteObject
    <3> HIDE DEF d
    <3> QED
      BY <1>7, <1>8, <3>1, <3>2, <3>3
  <2>5. CASE FinalizeObject(k)
    <3>1. PutCR(k, None) /\ UNCHANGED <<crCache, edits>>
      BY <2>5 DEF FinalizeObject, cacheVars, budgets
    <3> QED
      BY <1>6, <1>8, <3>1
  <2> QED
    BY <1>9, <2>1, <2>2, <2>3, <2>4, <2>5, ZenonT(60) DEF Users
<1>10. ASSUME NEW k \in Keys, Cluster(k) \/ Handlers(k) \/ Timers(k) \/ RefreshStatusFor(k)
       PROVE  WatchInv'
  <2>1. UNCHANGED <<cr, crWatch, crCache, edits>>
    BY <1>10 DEF Cluster, GarbageCollect, PodsReady, PodsFail, LoseSset, DriftSset,
                 SsetEvent, Handlers, HandleCR, HandleSset, Timers, ReleaseRec, ReleaseStat,
                 StatusPoller, RefreshStatusFor, apiVars, cacheVars, budgets
  <2> QED
    BY <1>3, <2>1, ZenonT(60)
<1>11. ASSUME NEW k \in Keys, Informers(k)
       PROVE  WatchInv'
  <2>1. CASE ReceiveSset(k) \/ RelistSset(k) \/ Resync(k)
    <3>1. UNCHANGED <<cr, crWatch, crCache, edits>>
      BY <2>1, ZenonT(60) DEF ReceiveSset, RelistSset, Resync, apiVars, budgets
    <3> QED
      BY <1>3, <3>1
  <2>2. CASE ReceiveCR(k)
    <3>1. /\ crCache'[k] = Head(crWatch[k]) /\ crWatch'[k] = Tail(crWatch[k])
          /\ \A j \in Keys \ {k} : crCache'[j] = crCache[j] /\ crWatch'[j] = crWatch[j]
          /\ crWatch[k] # <<>>
      BY <2>2 DEF ReceiveCR, TypeOK
    <3>2. UNCHANGED <<cr, edits>>
      BY <2>2, ZenonT(60) DEF ReceiveCR, budgets
    <3>3. Leads(Head(crWatch[k]), Tail(crWatch[k]), cr[k], edits)
      BY <1>1, <1>2, <3>1, LeadsTail, ZenonT(60) DEF WatchInv
    <3> QED
      BY <3>1, <3>2, <3>3, ZenonT(60) DEF WatchInv
  <2>3. CASE RelistCR(k)
    <3>1. /\ crCache'[k] = cr[k] /\ crWatch'[k] = <<>>
          /\ \A j \in Keys \ {k} : crCache'[j] = crCache[j] /\ crWatch'[j] = crWatch[j]
      BY <2>3, SMTT(60) DEF RelistCR, TypeOK
    <3>2. UNCHANGED <<cr, edits>>
      BY <2>3, Zenon DEF RelistCR
    <3> QED
      BY <1>4, <3>1, <3>2, ZenonT(60) DEF WatchInv
  <2> QED
    BY <1>11, <2>1, <2>2, <2>3, SMTT(60) DEF Informers
<1>12. CASE RecWorker
  <2>1. UNCHANGED <<cr, crWatch, crCache, edits>>
    BY <1>12 DEF RecWorker, SyncRead, SyncApply, CreateStatefulSet, UpdateStatefulSet,
                 RejectStatefulSet, SyncReturns, SyncReport, RecFinish, RecExit, apiVars,
                 cacheVars, budgets
  <2> QED
    BY <1>3, <2>1, ZenonT(60)
<1>13. CASE StatWorker
  <2>1. CASE StatRead \/ StatExit
    <3>1. UNCHANGED <<cr, crWatch, crCache, edits>>
      BY <2>1 DEF StatRead, StatExit, apiVars, cacheVars, budgets
    <3> QED
      BY <1>3, <3>1
  <2>2. CASE StatApply
    <3> DEFINE k == stat.key
               o == [cr[k] EXCEPT !.status = [avail |-> stat.avail, rec |-> stat.rec,
                                              obs |-> stat.gen]]
    <3>1. k \in Keys /\ UNCHANGED <<crCache, edits>>
      BY <2>2 DEF StatApply, KeyHeld, TypeOK, cacheVars
    <3>2. CASE UNCHANGED <<cr, crWatch>>
      BY <1>3, <3>1, <3>2, ZenonT(60)
    <3>3. CASE cr[k] # None /\ PutCR(k, o)
      <4> DEFINE st == [avail |-> stat.avail, rec |-> stat.rec, obs |-> stat.gen]
      <4>1. st \in Status \cup {None}
        BY DEF Status, TypeOK
      <4>2. cr[k] \in Object
        BY <1>5, <3>1, <3>3
      <4> HIDE DEF st
      <4>3. /\ [cr[k] EXCEPT !.status = st] \in Versions
            /\ [cr[k] EXCEPT !.status = st].uid = cr[k].uid
            /\ [cr[k] EXCEPT !.status = st].deleting = cr[k].deleting
        BY <4>1, <4>2 DEF Object, Versions
      <4>4. o \in Versions /\ o.uid = cr[k].uid /\ o.deleting = cr[k].deleting
        BY <4>3, ZenonT(60) DEF st
      <4> HIDE DEF o, k
      <4> QED
        BY <1>6, <3>1, <3>3, <4>4, ZenonT(60)
    <3> QED
      BY <2>2, <3>2, <3>3, Zenon DEF StatApply
  <2> QED
    BY <1>13, <2>1, <2>2 DEF StatWorker
<1>14. CASE Stop \/ UNCHANGED vars
  <2>1. UNCHANGED <<cr, crWatch, crCache, edits>>
    BY <1>14, ZenonT(60) DEF Stop, vars, apiVars, cacheVars, budgets
  <2> QED
    BY <1>3, <2>1
<1>15. CASE Restart
  <2>1. /\ UNCHANGED <<cr, edits>> /\ crCache' = cr
        /\ \A k \in Keys : crWatch'[k] = <<>>
    BY <1>15 DEF Restart
  <2> QED
    BY <1>4, <2>1, ZenonT(60) DEF WatchInv
<1> QED
  BY <1>9, <1>10, <1>11, <1>12, <1>13, <1>14, <1>15, ZenonT(60) DEF Next

-----------------------------------------------------------------------------
(* No change is lost *)

\* One of the notifications will queue the key.
SomeEnqueues(notes) == \E i \in DOMAIN notes : Enqueues(notes[i])

\* Handling one notification and adding others.
LEMMA NotesFacts ==
  ASSUME NEW s \in Seq(Note(Object)), NEW t \in Seq(Note(Object)), NEW n \in Note(Object)
  PROVE  /\ SomeEnqueues(s) => SomeEnqueues(Append(s, n)) /\ SomeEnqueues(s \o t)
         /\ Enqueues(n) => SomeEnqueues(Append(s, n))
         /\ SomeEnqueues(t) => SomeEnqueues(s \o t)
         /\ s # <<>> /\ SomeEnqueues(s) /\ ~Enqueues(Head(s)) => SomeEnqueues(Tail(s))
<1>1. /\ \A i \in DOMAIN s : i \in DOMAIN Append(s, n) /\ Append(s, n)[i] = s[i]
      /\ Len(s) + 1 \in DOMAIN Append(s, n) /\ Append(s, n)[Len(s) + 1] = n
  BY SMTT(60)
<1>2. \A i \in DOMAIN s : i \in DOMAIN (s \o t) /\ (s \o t)[i] = s[i]
  BY SMTT(60)
<1>3. \A i \in DOMAIN t : Len(s) + i \in DOMAIN (s \o t) /\ (s \o t)[Len(s) + i] = t[i]
  OBVIOUS
<1>4. ASSUME s # <<>>
      PROVE  /\ \A i \in DOMAIN s : i # 1 => i - 1 \in DOMAIN Tail(s) /\ Tail(s)[i - 1] = s[i]
             /\ Head(s) = s[1]
  BY <1>4
<1>5. SomeEnqueues(s) => SomeEnqueues(Append(s, n))
  BY <1>1 DEF SomeEnqueues
<1>6. SomeEnqueues(s) => SomeEnqueues(s \o t)
  BY <1>2 DEF SomeEnqueues
<1>7. Enqueues(n) => SomeEnqueues(Append(s, n))
  BY <1>1 DEF SomeEnqueues
<1>8. SomeEnqueues(t) => SomeEnqueues(s \o t)
  BY <1>3, Zenon DEF SomeEnqueues
<1>9. ASSUME s # <<>>, SomeEnqueues(s), ~Enqueues(Head(s))
      PROVE  SomeEnqueues(Tail(s))
  <2>1. PICK i \in DOMAIN s : Enqueues(s[i])
    BY <1>9 DEF SomeEnqueues
  <2>2. i # 1
    BY <1>4, <1>9, <2>1, ZenonT(60)
  <2> QED
    BY <1>4, <1>9, <2>1, <2>2, Zenon DEF SomeEnqueues
<1> QED
  BY <1>5, <1>6, <1>7, <1>8, <1>9, ZenonT(60)

\* OnAdd and OnUpdate ignore a new version of a wanted object only if it is the
\* same object, was wanted before and has the same generation, labels and
\* annotations: whatever was up to date stays so.
LEMMA IgnoredVersion ==
  ASSUME NEW c \in Versions, NEW d \in Versions, NEW n, NEW x, Follows(c, d), Desired(d),
         n.old = Desire(c), n.cur = Desire(d), ~Enqueues(n)
  PROVE  Desired(c) /\ (UpToDate(x, c) => UpToDate(x, d))
<1>1. d # None /\ d \in Object
  BY ZenonT(60) DEF Desired, Present, Versions
<1>2. /\ n.cur # None /\ n.cur.gen = d.gen /\ n.cur.meta = d.meta
      /\ n.cur.deleting = d.deleting
  BY <1>1, DesireType, ZenonT(60)
<1>3. isManagedByController(n.cur) /\ ~DeletionInProgress(n.cur)
  BY <1>2, ZenonT(60) DEF Desired, Present, isManagedByController, DeletionInProgress
<1>4. c # None
  <2>1. n.old # None
    BY <1>3, ZenonT(60) DEF Enqueues, OnAdd
  <2> QED
    BY <2>1, DesireType, ZenonT(60)
<1>5. n.old # None /\ n.old.gen = c.gen /\ n.old.meta = c.meta
  BY <1>4, DesireType, ZenonT(60)
<1>6. c.gen = d.gen /\ c.meta = d.meta
  BY <1>2, <1>3, <1>5, ZenonT(60) DEF Enqueues, OnUpdate, hasStateChanged
<1>7. c.uid = d.uid /\ ~c.deleting
  BY <1>1, <1>4, ZenonT(60) DEF Follows, Desired, Present, DeletionInProgress
<1> QED
  BY <1>1, <1>4, <1>6, <1>7, ZenonT(60) DEF Desired, Present, DeletionInProgress, isManagedByController,
                                UpToDate, hasStateChanged

\* A new version in the cache of k follows the one before, and the handlers are
\* told of both, unless a relist hides that an object was replaced.
LEMMA NewVersion ==
  ASSUME HiddenRecreation = FALSE, TypeOK, WatchInv, NEW k \in Keys,
         ReceiveCR(k) \/ RelistCR(k)
  PROVE  /\ crCache'[k] \in Versions /\ Follows(crCache[k], crCache'[k])
         /\ SomeEnqueues(crNotes[k]) => SomeEnqueues(crNotes'[k])
         /\ \E n : /\ n.old = Desire(crCache[k]) /\ n.cur = Desire(crCache'[k])
                   /\ Desired(crCache'[k]) /\ Enqueues(n) => SomeEnqueues(crNotes'[k])
         /\ \A j \in Keys \ {k} : crCache'[j] = crCache[j] /\ crNotes'[j] = crNotes[j]
<1>1. /\ crCache[k] \in Versions /\ cr[k] \in Versions /\ crWatch[k] \in Seq(Versions)
      /\ crNotes[k] \in Seq(Note(Object)) /\ edits \in Nat
  BY ZenonT(60) DEF TypeOK, Versions
<1>2. CASE ReceiveCR(k)
  <2> DEFINE n == [old |-> Desire(crCache[k]), cur |-> Desire(Head(crWatch[k])),
                   resync |-> FALSE, tomb |-> FALSE]
  <2>1. /\ crWatch[k] # <<>> /\ crCache'[k] = Head(crWatch[k])
        /\ crNotes'[k] = Append(crNotes[k], n)
        /\ \A j \in Keys \ {k} : crCache'[j] = crCache[j] /\ crNotes'[j] = crNotes[j]
    BY <1>2, ZenonT(60) DEF ReceiveCR, Notify, TypeOK
  <2>2. Head(crWatch[k]) \in Versions
    BY <1>1, <2>1, SMTT(60)
  <2>3. n \in Note(Object)
    BY <1>1, <2>2, DesireType, NoteType, ZenonT(60) DEF Versions
  <2>4. Follows(crCache[k], Head(crWatch[k]))
    BY <1>1, <2>1, LeadsTail, ZenonT(60) DEF WatchInv
  <2>5. n.old = Desire(crCache[k]) /\ n.cur = Desire(crCache'[k])
    BY <2>1, SMTT(60)
  <2> HIDE DEF n
  <2>6. /\ SomeEnqueues(crNotes[k]) => SomeEnqueues(crNotes'[k])
        /\ Enqueues(n) => SomeEnqueues(crNotes'[k])
    BY <1>1, <2>1, <2>3, NotesFacts, ZenonT(60)
  <2> QED
    BY <2>1, <2>2, <2>4, <2>5, <2>6, ZenonT(60)
<1>3. CASE RelistCR(k)
  <2> DEFINE n == [old |-> Desire(crCache[k]), cur |-> Desire(cr[k]),
                   resync |-> FALSE, tomb |-> Desire(cr[k]) = None]
             t == RelistNotes(Desire(crCache[k]), Desire(cr[k]))
  <2>1. /\ crCache'[k] = cr[k] /\ crNotes'[k] = crNotes[k] \o t
        /\ \A j \in Keys \ {k} : crCache'[j] = crCache[j] /\ crNotes'[j] = crNotes[j]
    BY <1>3, ZenonT(60) DEF RelistCR, TypeOK
  <2>2. Follows(crCache[k], cr[k])
    <3>1. crCache[k] # None /\ cr[k] # None => crCache[k].uid = cr[k].uid
      BY <1>3, ZenonT(60) DEF RelistCR
    <3>2. Earlier(crCache[k], cr[k], edits)
      BY ZenonT(60) DEF WatchInv, Leads
    <3> QED
      BY <3>1, <3>2, ZenonT(60) DEF Follows, Earlier
  <2>3. Desire(crCache[k]) \in Versions /\ Desire(cr[k]) \in Versions
    BY <1>1, DesireType
  <2>4. t \in Seq(Note(Object))
    BY <2>3, NoteType, ZenonT(60) DEF Versions
  <2>5. n.old = Desire(crCache[k]) /\ n.cur = Desire(crCache'[k])
    BY <2>1
  <2>6. n \in Note(Object)
    <3>1. (Desire(cr[k]) = None) \in BOOLEAN
      OBVIOUS
    <3> QED
      BY <2>3, <3>1, NoteType, Zenon DEF Versions
  <2>7. Desired(cr[k]) => t = <<n>>
    <3>1. Desired(cr[k]) => Desire(cr[k]) # None
      BY <1>1, DesireType DEF Desired, Present
    <3> QED
      BY <3>1, ZenonT(60) DEF RelistNotes
  <2> HIDE DEF n, t
  <2>8. Desired(cr[k]) /\ Enqueues(n) => SomeEnqueues(t)
    <3> SUFFICES ASSUME Desired(cr[k]), Enqueues(n)
                 PROVE  SomeEnqueues(t)
      OBVIOUS
    <3>1. 1 \in DOMAIN t /\ t[1] = n
      BY <2>7, SMTT(60)
    <3> QED
      BY <3>1 DEF SomeEnqueues
  <2>9. SomeEnqueues(crNotes[k]) \/ SomeEnqueues(t) => SomeEnqueues(crNotes'[k])
    BY <1>1, <2>1, <2>4, <2>6, NotesFacts
  <2> QED
    BY <1>1, <2>1, <2>2, <2>5, <2>8, <2>9, ZenonT(60)
<1> QED
  BY <1>2, <1>3

\* What vouches for the cached version of k: the running Sync, or else the last
\* successful one.
Covered(k) ==
  IF rec.key = k THEN rec.err \/ UpToDate(rec.obj, crCache[k])
                 ELSE UpToDate(synced[k], crCache[k])

\* NoLostReconciliation, made inductive.
LostInv ==
  /\ \A k \in Keys :
       Desired(crCache[k]) => Covered(k) \/ Busy(k) \/ SomeEnqueues(crNotes[k])
  /\ rec.pc = "apply" => ~rec.err
  /\ rec.pc = "finish" /\ ~rec.err => synced[rec.key] = rec.obj

\* The informers keep LostInv, unless a relist hides that an object was replaced.
LEMMA LostInformers ==
  ASSUME HiddenRecreation = FALSE, TypeOK, WatchInv, LostInv, NEW k \in Keys, Informers(k)
  PROVE  LostInv'
<1>1. /\ crCache[k] \in Versions /\ cr[k] \in Versions /\ crWatch[k] \in Seq(Versions)
      /\ crNotes[k] \in Seq(Note(Object)) /\ edits \in Nat
  BY ZenonT(60) DEF TypeOK, Versions
<1>2. UNCHANGED <<rec, synced, reconcileQ>>
  BY ZenonT(60) DEF Informers, ReceiveCR, ReceiveSset, RelistCR, RelistSset, Resync, recVars
<1>3. ASSUME crCache'[k] \in Versions, Follows(crCache[k], crCache'[k]),
             SomeEnqueues(crNotes[k]) => SomeEnqueues(crNotes'[k]),
             NEW n, n.old = Desire(crCache[k]), n.cur = Desire(crCache'[k]),
             Desired(crCache'[k]) /\ Enqueues(n) => SomeEnqueues(crNotes'[k]),
             \A j \in Keys \ {k} : crCache'[j] = crCache[j] /\ crNotes'[j] = crNotes[j]
      PROVE  LostInv'
  <2>1. ASSUME Desired(crCache'[k]), ~SomeEnqueues(crNotes'[k])
        PROVE  Covered(k)' \/ Busy(k)'
    <3>1. /\ Desired(crCache[k])
          /\ \A x : UpToDate(x, crCache[k]) => UpToDate(x, crCache'[k])
      BY <1>1, <1>3, <2>1, IgnoredVersion, ZenonT(60)
    <3>2. Covered(k) \/ Busy(k)
      BY <1>3, <2>1, <3>1 DEF LostInv
    <3> QED
      BY <1>2, <3>1, <3>2, ZenonT(60) DEF Covered, Busy
  <2>2. ASSUME NEW j \in Keys \ {k}, Desired(crCache'[j])
        PROVE  Covered(j)' \/ Busy(j)' \/ SomeEnqueues(crNotes'[j])
    BY <1>2, <1>3, <2>2, ZenonT(60) DEF LostInv, Covered, Busy
  <2> QED
    BY <1>2, <2>1, <2>2, ZenonT(60) DEF LostInv
<1>4. CASE ReceiveSset(k) \/ RelistSset(k)
  <2>1. UNCHANGED <<crCache, crNotes>>
    BY <1>4, ZenonT(60) DEF ReceiveSset, RelistSset
  <2> QED
    BY <1>2, <2>1, ZenonT(60) DEF LostInv, Covered, Busy
<1>5. CASE Resync(k)
  <2>1. UNCHANGED crCache
    BY <1>5, ZenonT(60) DEF Resync
  <2>2. \A j \in Keys : SomeEnqueues(crNotes[j]) => SomeEnqueues(crNotes'[j])
    <3>1. CASE UNCHANGED crNotes
      BY <3>1, SMTT(60)
    <3>2. CASE crNotes' = [crNotes EXCEPT ![k] = Append(@, ResyncNote(Desire(crCache[k])))]
      <4>1. ResyncNote(Desire(crCache[k])) \in Note(Object)
        BY <1>1, DesireType, NoteType, ZenonT(60) DEF Versions, ResyncNote
      <4>2. /\ crNotes'[k] = Append(crNotes[k], ResyncNote(Desire(crCache[k])))
            /\ \A j \in Keys \ {k} : crNotes'[j] = crNotes[j]
        BY <3>2 DEF TypeOK
      <4> QED
        BY <1>1, <4>1, <4>2, NotesFacts, Zenon
    <3> QED
      BY <1>5, <3>1, <3>2 DEF Resync
  <2> QED
    BY <1>2, <2>1, <2>2, ZenonT(60) DEF LostInv, Covered, Busy
<1>6. CASE ReceiveCR(k) \/ RelistCR(k)
  <2>1. PICK n : /\ n.old = Desire(crCache[k]) /\ n.cur = Desire(crCache'[k])
                 /\ Desired(crCache'[k]) /\ Enqueues(n) => SomeEnqueues(crNotes'[k])
    BY <1>6, NewVersion, Zenon
  <2> QED
    BY <1>3, <1>6, <2>1, NewVersion, ZenonT(60)
<1> QED
  BY <1>4, <1>5, <1>6, ZenonT(60) DEF Informers

\* A process that starts is told of every object that is wanted.
LEMMA RestartNotifies ==
  ASSUME TypeOK, Restart, NEW k \in Keys, Desired(cr[k])
  PROVE  SomeEnqueues(crNotes'[k])
<1> DEFINE n == [old |-> None, cur |-> Desire(cr[k]), resync |-> FALSE,
                 tomb |-> Desire(cr[k]) = None]
<1>1. /\ cr[k] \in Versions /\ cr[k] # None
  BY SMTT(60) DEF TypeOK, Versions, Desired, Present
<1>2. Desire(cr[k]) # None /\ isManagedByController(Desire(cr[k]))
  BY <1>1, DesireType, SMTT(60) DEF Desired, isManagedByController
<1>3. crNotes'[k] = <<n>>
  BY <1>2, ZenonT(60) DEF Restart, RelistNotes
<1>4. Enqueues(n)
  BY <1>2 DEF Enqueues, OnAdd
<1> HIDE DEF n
<1>5. 1 \in DOMAIN <<n>> /\ <<n>>[1] = n
  OBVIOUS
<1> QED
  BY <1>3, <1>4, <1>5, ZenonT(60) DEF SomeEnqueues

\* Every step keeps LostInv.
LEMMA LostNext ==
  ASSUME HiddenRecreation = FALSE
  PROVE  TypeOK /\ KeyHeld /\ WatchInv /\ LostInv /\ [Next]_vars => LostInv'
<1> SUFFICES ASSUME TypeOK, KeyHeld, WatchInv, LostInv, [Next]_vars
             PROVE  LostInv'
  BY ZenonT(60)
<1>1. /\ \A k \in Keys : crCache[k] \in Versions /\ crNotes[k] \in Seq(Note(Object))
      /\ reconcileQ \in Queue /\ rec.err \in BOOLEAN /\ None \notin Keys
  BY NoneAssumption, SMTT(60) DEF TypeOK, Versions
<1>2. ASSUME UNCHANGED <<rec, synced, crCache, crNotes>>, ~Restart, ~SyncRead
      PROVE  LostInv'
  BY <1>2, BusyStays, ZenonT(60) DEF LostInv, Covered
<1>3. CASE SyncRead
  <2> DEFINE k == Head(reconcileQ.queue)
  <2>1. /\ k \in Keys /\ rec'.key = k /\ rec'.obj = Desire(crCache[k]) /\ ~rec'.err
        /\ rec'.pc # "finish"
    BY <1>1, <1>3, GetFacts, Zenon DEF SyncRead
  <2>2. rec'.pc = "apply" => ~rec'.err
    BY <2>1, SMTT(60)
  <2>3. Desired(crCache[k]) => UpToDate(Desire(crCache[k]), crCache[k])
    BY <1>1, <2>1, DesireType, ZenonT(60) DEF Desired, Present, UpToDate, hasStateChanged
  <2>4. UNCHANGED <<synced, crCache, crNotes>> /\ rec.key = None
    BY <1>3, ZenonT(60) DEF SyncRead, cacheVars, KeyHeld
  <2>5. reconcileQ' = Get(reconcileQ) /\ reconcileQ.queue # <<>>
    BY <1>3, ZenonT(60) DEF SyncRead
  <2> HIDE DEF k
  <2>6. ASSUME NEW j \in Keys, j # k, Busy(j)
        PROVE  Busy(j)'
    <3>1. Head(reconcileQ.queue) = k
      BY DEF k
    <3> QED
      BY <1>1, <2>5, <2>6, <3>1, GetFacts DEF Busy, Pending
  <2>7. ASSUME NEW j \in Keys, Desired(crCache[j])
        PROVE  Covered(j)' \/ Busy(j)' \/ SomeEnqueues(crNotes[j])
    <3>1. CASE j = k
      BY <2>1, <2>3, <2>4, <2>7, <3>1, SMTT(60) DEF Covered
    <3>2. CASE j # k
      BY <1>1, <2>1, <2>4, <2>6, <2>7, <3>2, ZenonT(60) DEF Covered, LostInv
    <3> QED
      BY <3>1, <3>2, ZenonT(60)
  <2> QED
    BY <2>1, <2>4, <2>7, SMTT(60) DEF LostInv
<1>4. CASE Restart
  <2>1. /\ crCache' = cr /\ rec' = IdleRec
        /\ \A k \in Keys : crNotes'[k] = RelistNotes(None, Desire(cr[k]))
    BY <1>4, ZenonT(60) DEF Restart
  <2>2. \A k \in Keys : Desired(cr[k]) => SomeEnqueues(crNotes'[k])
    BY <1>4, RestartNotifies
  <2> QED
    BY <2>1, <2>2, SMTT(60) DEF LostInv, IdleRec
<1>5. CASE ~SyncRead /\ ~Restart /\ Background
  <2>1. CASE \E k \in Keys : Informers(k)
    BY <2>1, LostInformers, ZenonT(60)
  <2>2. ASSUME NEW k \in Keys, HandleCR(k)
        PROVE  LostInv'
    <3>1. UNCHANGED <<rec, synced, crCache>>
      BY <2>2, ZenonT(60) DEF HandleCR, recVars
    <3>2. /\ crNotes[k] # <<>> /\ crNotes'[k] = Tail(crNotes[k])
          /\ \A j \in Keys \ {k} : crNotes'[j] = crNotes[j]
          /\ Enqueues(Head(crNotes[k])) => reconcileQ' = Add(reconcileQ, k)
      BY <2>2, ZenonT(60) DEF HandleCR, TypeOK
    <3>3. Enqueues(Head(crNotes[k])) => Busy(k)'
      <4>1. Add(reconcileQ, k).down \/ k \in Add(reconcileQ, k).dirty
        BY <1>1, AddFacts, ZenonT(60)
      <4> QED
        BY <3>2, <4>1, ZenonT(60) DEF Busy, Pending
    <3>4. SomeEnqueues(crNotes[k]) /\ ~Enqueues(Head(crNotes[k])) => SomeEnqueues(crNotes'[k])
      <4>1. Head(crNotes[k]) \in Note(Object) /\ <<>> \in Seq(Note(Object))
        BY <1>1, <3>2
      <4> QED
        BY <1>1, <3>2, <4>1, NotesFacts, ZenonT(60)
    <3>5. \A j \in Keys : Busy(j) => Busy(j)'
      BY <1>5, BusyStays, ZenonT(60)
    <3>6. ASSUME NEW j \in Keys, Desired(crCache[j])
          PROVE  Covered(j)' \/ Busy(j)' \/ SomeEnqueues(crNotes'[j])
      BY <3>1, <3>2, <3>3, <3>4, <3>5, <3>6, ZenonT(60) DEF LostInv, Covered
    <3> QED
      BY <3>1, <3>6 DEF LostInv
  <2>3. ASSUME NEW k \in Keys,
               Users(k) \/ Cluster(k) \/ HandleSset(k) \/ Timers(k) \/ RefreshStatusFor(k)
        PROVE  LostInv'
    <3>1. UNCHANGED <<rec, synced, crCache, crNotes>>
      BY <2>3, Zenon DEF Users, CreateObject, EditSpec, EditMeta, DeleteObject, UserEdit,
                  FinalizeObject, Cluster, GarbageCollect, PodsReady, PodsFail, LoseSset,
                  DriftSset, SsetEvent, HandleSset, Timers, ReleaseRec, ReleaseStat,
                  StatusPoller, RefreshStatusFor, cacheVars, recVars
    <3> QED
      BY <1>2, <1>5, <3>1, SMTT(60)
  <2>4. CASE Stop \/ UNCHANGED vars
    <3>1. UNCHANGED <<rec, synced, crCache, crNotes>>
      BY <2>4 DEF Stop, vars, cacheVars, recVars
    <3> QED
      BY <1>2, <1>5, <3>1, ZenonT(60)
  <2> QED
    BY <1>5, <2>1, <2>2, <2>3, <2>4 DEF Background, Handlers
<1>6. CASE ~SyncRead /\ ~Restart /\ StatWorker
  <2>1. UNCHANGED <<rec, synced, crCache, crNotes>>
    BY <1>6, ZenonT(60) DEF StatWorker, StatRead, StatApply, StatExit, cacheVars, recVars
  <2> QED
    BY <1>2, <1>6, <2>1
<1>7. CASE ~SyncRead /\ ~Restart /\ SyncApply
  <2>1. PICK e \in BOOLEAN : SyncReturns(e)
    BY <1>7, Zenon DEF SyncApply, CreateStatefulSet, UpdateStatefulSet,
                RejectStatefulSet
  <2>2. rec'.key = rec.key /\ rec'.obj = rec.obj /\ rec'.pc = "report"
    BY <2>1, RecRecords, ZenonT(60) DEF SyncReturns, RecPcs
  <2>3. ~rec.err
    BY <1>7, Zenon DEF SyncApply, LostInv
  <2>4. UNCHANGED <<synced, crCache, crNotes>>
    BY <2>1 DEF SyncReturns, cacheVars
  <2>5. \A j \in Keys : Busy(j) => Busy(j)'
    BY <1>7, BusyStays, SMTT(60)
  <2> QED
    BY <2>2, <2>3, <2>4, <2>5 DEF LostInv, Covered
<1>8. CASE ~SyncRead /\ ~Restart /\ SyncReport
  <2>1. /\ rec'.key = rec.key /\ rec'.obj = rec.obj /\ rec'.pc = "finish"
        /\ rec'.err = rec.err /\ rec.key \in Keys
    BY <1>8, RecRecords, ZenonT(60) DEF SyncReport, RecPcs, KeyHeld, TypeOK
  <2>2. /\ ~rec.err => synced'[rec.key] = rec.obj
        /\ \A j \in Keys \ {rec.key} : synced'[j] = synced[j]
    BY <1>8, <2>1 DEF SyncReport, TypeOK
  <2>3. UNCHANGED <<crCache, crNotes>>
    BY <1>8 DEF SyncReport, cacheVars
  <2>4. \A j \in Keys : Busy(j) => Busy(j)'
    BY <1>8, BusyStays, ZenonT(60)
  <2>5. ASSUME NEW j \in Keys, Desired(crCache[j])
        PROVE  Covered(j)' \/ Busy(j)' \/ SomeEnqueues(crNotes[j])
    BY <2>1, <2>2, <2>3, <2>4, <2>5, ZenonT(60) DEF LostInv, Covered
  <2> QED
    BY <2>1, <2>2, <2>3, <2>5, SMTT(60) DEF LostInv
<1>9. CASE ~SyncRead /\ ~Restart /\ RecFinish
  <2>1. rec' = IdleRec /\ rec.pc = "finish" /\ UNCHANGED <<synced, crCache, crNotes>>
    BY <1>9, ZenonT(60) DEF RecFinish, cacheVars
  <2>2. \A j \in Keys : Busy(j) => Busy(j)'
    BY <1>9, BusyStays
  <2>3. ASSUME NEW j \in Keys, Desired(crCache[j])
        PROVE  Covered(j)' \/ Busy(j)' \/ SomeEnqueues(crNotes[j])
    <3>1. rec'.key # j
      BY <1>1, <2>1, ZenonT(60) DEF IdleRec
    <3>2. CASE rec.key = j /\ rec.err
      BY <1>9, <3>2, FailureQueued, ZenonT(60)
    <3>3. CASE rec.key = j /\ ~rec.err
      BY <2>1, <2>2, <2>3, <3>1, <3>3, ZenonT(60) DEF LostInv, Covered
    <3>4. CASE rec.key # j
      BY <2>1, <2>2, <2>3, <3>1, <3>4, ZenonT(60) DEF LostInv, Covered
    <3> QED
      BY <3>2, <3>3, <3>4, ZenonT(60)
  <2> QED
    BY <2>1, <2>3, ZenonT(60) DEF LostInv, IdleRec
<1>10. CASE ~SyncRead /\ ~Restart /\ RecExit
  <2>1. rec'.key = rec.key /\ rec'.pc = "exited" /\ rec.key = None
    BY <1>10, RecRecords, Zenon DEF RecExit, RecPcs, KeyHeld
  <2>2. UNCHANGED <<synced, crCache, crNotes>>
    BY <1>10 DEF RecExit, cacheVars
  <2>3. \A j \in Keys : Busy(j) => Busy(j)'
    BY <1>10, BusyStays
  <2> QED
    BY <1>1, <2>1, <2>2, <2>3, SMTT(60) DEF LostInv, Covered
<1> QED
  BY <1>3, <1>4, <1>5, <1>6, <1>7, <1>8, <1>9, <1>10, Steps DEF RecWorker

\* No change of an object that reached the informer's cache is lost before a
\* Sync has seen it, as long as no broken watch hides that an object was deleted
\* and created again: hasStateChanged compares generations, labels and
\* annotations, and these may be those of the object before.
THEOREM NeverLost ==
  ASSUME HiddenRecreation = FALSE
  PROVE  Spec => []NoLostReconciliation
<1>1. Init => WatchInv /\ LostInv
  BY SMTT(60) DEF Init, WatchInv, Leads, Earlier, LostInv, Desired, Present, IdleRec
<1>2. LostInv => NoLostReconciliation
  BY Zenon DEF LostInv, NoLostReconciliation, Covered, SomeEnqueues
<1>3. TypeOK /\ KeyHeld /\ WatchInv /\ LostInv /\ [Next]_vars => LostInv'
  BY LostNext, Zenon
<1> QED
  BY <1>1, <1>2, <1>3, WatchNext, TypeCorrect, PTL DEF Spec
=============================================================================
