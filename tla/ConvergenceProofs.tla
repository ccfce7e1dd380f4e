------------------------- MODULE ConvergenceProofs --------------------------
(***************************************************************************)
(* When the ResourceReconciler has nothing left to do for an object, its   *)
(* StatefulSet was built from the object as it is and its status tells so, *)
(* for every set of keys and every bound.                                  *)
(***************************************************************************)
EXTENDS ReconciliationProofs

-----------------------------------------------------------------------------
(* What the informer of the StatefulSets will tell *)

\* A watch that delivers b after a makes the handlers queue the owner.
Telling(a, b) ==
  \/ a = None /\ b # None
  \/ a # None /\ b = None
  \/ a # None /\ b # None /\ ~b.deleting /\ hasStateChanged(a, b)

\* To a Sync, b is what a is, or b is on its way out.
Alike(a, b) ==
  \/ a = None /\ b = None
  \/ /\ a # None /\ b # None
     /\ b.deleting \/ (~a.deleting /\ a.meta = b.meta /\ a.spec = b.spec)

\* Some step of the chain of versions v, from the i-th on, queues the owner.
TellingFrom(v, i) == \E j \in 1..Len(v) : i <= j /\ j < Len(v) /\ Telling(v[j], v[j + 1])

\* The chain v ends in s; a version after which it tells nothing is like s.
Tells(v, s) ==
  /\ Len(v) > 0 /\ v[Len(v)] = s
  /\ \A i \in 1..Len(v) : TellingFrom(v, i) \/ Alike(v[i], s)

\* What is like a version like s is like s.
LEMMA AlikeFacts ==
  ASSUME NEW a, NEW b, NEW c, Alike(a, b), Alike(b, c)
  PROVE  Alike(a, c)
BY DEF Alike

\* A write the chain tells of, or need not tell of, appends a version.
LEMMA TellsAppend ==
  ASSUME NEW v \in Seq(SVersions), NEW s \in SVersions, NEW t \in SVersions,
         Tells(v, s), Telling(s, t) \/ Alike(s, t)
  PROVE  /\ Tells(Append(v, t), t)
         /\ TellingFrom(v, 1) \/ Telling(s, t) => TellingFrom(Append(v, t), 1)
<1> DEFINE u == Append(v, t)
<1>1. /\ Len(u) = Len(v) + 1 /\ u[Len(u)] = t /\ Len(v) \in Nat /\ Len(v) > 0
      /\ \A i \in 1..Len(v) : u[i] = v[i]
  BY DEF Tells
<1> HIDE DEF u
<1>2. ASSUME NEW i \in 1..Len(v), TellingFrom(v, i)
      PROVE  TellingFrom(u, i)
  <2>1. PICK j \in 1..Len(v) : i <= j /\ j < Len(v) /\ Telling(v[j], v[j + 1])
    BY <1>2 DEF TellingFrom
  <2>2. j \in 1..Len(u) /\ j + 1 \in 1..Len(v) /\ j < Len(u)
    BY <1>1, <2>1
  <2> QED
    BY <1>1, <2>1, <2>2 DEF TellingFrom
<1>3. ASSUME NEW i \in 1..Len(v), Telling(s, t)
      PROVE  TellingFrom(u, i)
  <2>1. Len(v) \in 1..Len(u) /\ i <= Len(v) /\ Len(v) < Len(u) /\ Len(v) \in 1..Len(v)
    BY <1>1
  <2>2. u[Len(v)] = s /\ u[Len(v) + 1] = t
    BY <1>1, <2>1 DEF Tells
  <2> QED
    BY <1>3, <2>1, <2>2 DEF TellingFrom
<1>4. ASSUME NEW i \in 1..Len(u)
      PROVE  TellingFrom(u, i) \/ Alike(u[i], t)
  <2>1. CASE i = Len(u)
    <3>1. Alike(t, t)
      BY DEF Alike
    <3> QED
      BY <1>1, <2>1, <3>1
  <2>2. CASE i # Len(u)
    <3>1. i \in 1..Len(v) /\ u[i] = v[i]
      BY <1>1, <2>2
    <3>2. TellingFrom(v, i) \/ Alike(v[i], s)
      BY <3>1 DEF Tells
    <3>3. Alike(v[i], s) /\ Alike(s, t) => Alike(v[i], t)
      BY AlikeFacts, Zenon
    <3> QED
      BY <1>2, <1>3, <3>1, <3>2, <3>3
  <2> QED
    BY <2>1, <2>2
<1>5. 1 \in 1..Len(v)
  BY <1>1
<1>6. Tells(u, t)
  BY <1>1, <1>4 DEF Tells
<1> QED
  BY <1>2, <1>3, <1>5, <1>6 DEF u

\* Receiving a version takes the first one off the chain.
LEMMA TellsTail ==
  ASSUME NEW v \in Seq(SVersions), NEW s \in SVersions, Tells(v, s), Len(v) > 1
  PROVE  /\ Tells(Tail(v), s)
         /\ TellingFrom(v, 1) => Telling(v[1], v[2]) \/ TellingFrom(Tail(v), 1)
<1> DEFINE u == Tail(v)
<1>1. /\ Len(v) \in Nat /\ Len(u) = Len(v) - 1
      /\ \A i \in 1..Len(u) : u[i] = v[i + 1]
  OBVIOUS
<1> HIDE DEF u
<1>2. ASSUME NEW i \in 1..Len(u), NEW j \in 1..Len(v), i + 1 <= j, j < Len(v),
             Telling(v[j], v[j + 1])
      PROVE  TellingFrom(u, i)
  <2>1. /\ j - 1 \in 1..Len(u) /\ i <= j - 1 /\ j - 1 < Len(u)
        /\ (j - 1) + 1 \in 1..Len(u) /\ (j - 1) + 1 = j
    BY <1>1, <1>2
  <2>2. u[j - 1] = v[j] /\ u[(j - 1) + 1] = v[j + 1]
    BY <1>1, <2>1
  <2> QED
    BY <1>2, <2>1, <2>2 DEF TellingFrom
<1>3. ASSUME NEW i \in 1..Len(u)
      PROVE  TellingFrom(u, i) \/ Alike(u[i], s)
  <2>1. i + 1 \in 1..Len(v) /\ u[i] = v[i + 1]
    BY <1>1
  <2>2. CASE TellingFrom(v, i + 1)
    BY <1>2, <2>2 DEF TellingFrom
  <2>3. CASE Alike(v[i + 1], s)
    BY <2>1, <2>3
  <2> QED
    BY <2>1, <2>2, <2>3 DEF Tells
<1>4. u[Len(u)] = s /\ Len(u) > 0
  <2>1. Len(u) \in 1..Len(u) /\ Len(u) + 1 = Len(v)
    BY <1>1
  <2> QED
    BY <1>1, <2>1 DEF Tells
<1>5. ASSUME TellingFrom(v, 1)
      PROVE  Telling(v[1], v[2]) \/ TellingFrom(u, 1)
  <2>1. PICK j \in 1..Len(v) : 1 <= j /\ j < Len(v) /\ Telling(v[j], v[j + 1])
    BY <1>5 DEF TellingFrom
  <2>2. CASE j = 1
    BY <2>1, <2>2
  <2>3. CASE j # 1
    <3>1. 1 \in 1..Len(u) /\ 1 + 1 <= j
      BY <1>1, <2>3
    <3> QED
      BY <1>2, <2>1, <3>1
  <2> QED
    BY <2>2, <2>3
<1>6. Tells(u, s)
  BY <1>3, <1>4 DEF Tells
<1> QED
  BY <1>5, <1>6 DEF u

\* After a restart the cache is current, and there is nothing to tell.
LEMMA TellsNow ==
  ASSUME NEW s \in SVersions
  PROVE  Tells(<<s>>, s) /\ ~TellingFrom(<<s>>, 1)
<1>1. Alike(s, s)
  BY DEF Alike
<1>2. Len(<<s>>) = 1 /\ <<s>>[1] = s
  OBVIOUS
<1> QED
  BY <1>1, <1>2 DEF Tells, TellingFrom

\* The cached version of a StatefulSet and those on the way.
Chain(k) == <<ssCache[k]>> \o ssWatch[k]

LEMMA ChainFacts ==
  ASSUME NEW c \in SVersions, NEW w \in Seq(SVersions), NEW t \in SVersions
  PROVE  /\ <<c>> \o w \in Seq(SVersions)
         /\ <<c>> \o Append(w, t) = Append(<<c>> \o w, t)
         /\ <<c>> \o <<>> = <<c>>
         /\ w # <<>> => /\ <<Head(w)>> \o Tail(w) = Tail(<<c>> \o w)
                        /\ Len(<<c>> \o w) > 1 /\ Head(w) \in SVersions
                        /\ (<<c>> \o w)[1] = c /\ (<<c>> \o w)[2] = Head(w)
         /\ (<<c>> \o w)[1] = c /\ Len(<<c>> \o w) > 0
<1>1. <<c>> \o w \in Seq(SVersions) /\ (<<c>> \o w)[1] = c /\ Len(<<c>> \o w) > 0
  OBVIOUS
<1>2. <<c>> \o Append(w, t) = Append(<<c>> \o w, t)
  OBVIOUS
<1>3. <<c>> \o <<>> = <<c>>
  OBVIOUS
<1>4. ASSUME w # <<>>
      PROVE  /\ <<Head(w)>> \o Tail(w) = Tail(<<c>> \o w)
             /\ Len(<<c>> \o w) > 1 /\ Head(w) \in SVersions
             /\ (<<c>> \o w)[1] = c /\ (<<c>> \o w)[2] = Head(w)
  <2>1. <<Head(w)>> \o Tail(w) = w
    BY <1>4
  <2>2. Tail(<<c>> \o w) = w
    OBVIOUS
  <2>3. Len(<<c>> \o w) > 1 /\ Head(w) \in SVersions
    BY <1>4
  <2>4. (<<c>> \o w)[2] = Head(w)
    BY <1>4
  <2> QED
    BY <1>1, <2>1, <2>2, <2>3, <2>4
<1> QED
  BY <1>1, <1>2, <1>3, <1>4, Zenon

-----------------------------------------------------------------------------
(* Nothing that matters about a StatefulSet stays untold *)

\* Every chain tells what matters about the current version, whose input hash
\* was computed for its spec.
ChainInv ==
  \A k \in Keys :
    /\ Tells(Chain(k), sset[k])
    /\ sset[k] # None => sset[k].spec = sset[k].meta[1]

\* b may be written over a.
Succeeds(a, b) ==
  /\ Telling(a, b) \/ Alike(a, b)
  /\ b # None => b.spec = b.meta[1]

\* The informer will make the handlers queue k, now or once the StatefulSet that
\* is being deleted is gone.
Coming(k) == TellingFrom(Chain(k), 1) \/ (sset[k] # None /\ sset[k].deleting)

\* Types of what is used below.
LEMMA SsetTypes ==
  ASSUME TypeOK, NEW k \in Keys
  PROVE  /\ ssCache[k] \in SVersions /\ sset[k] \in SVersions
         /\ ssWatch[k] \in Seq(SVersions) /\ Chain(k) \in Seq(SVersions)
         /\ None \in SVersions
<1>1. /\ ssCache[k] \in SVersions /\ sset[k] \in SVersions
      /\ ssWatch[k] \in Seq(SVersions) /\ None \in SVersions
  BY ZenonT(60) DEF TypeOK, SVersions
<1> QED
  BY <1>1, ChainFacts, Zenon DEF Chain

\* A write appends to one chain.
LEMMA PutTells ==
  ASSUME TypeOK, ChainInv, NEW k \in Keys, NEW s \in SVersions, PutSset(k, s),
         Succeeds(sset[k], s), UNCHANGED ssCache
  PROVE  /\ ChainInv'
         /\ \A j \in Keys : Coming(j) => Coming(j)'
         /\ Telling(sset[k], s) => Coming(k)'
<1>1. \A j \in Keys : /\ ssCache[j] \in SVersions /\ sset[j] \in SVersions
                       /\ ssWatch[j] \in Seq(SVersions) /\ Chain(j) \in Seq(SVersions)
  BY SsetTypes
<1>2. /\ sset'[k] = s /\ ssWatch'[k] = Append(ssWatch[k], s)
      /\ \A j \in Keys \ {k} : sset'[j] = sset[j] /\ ssWatch'[j] = ssWatch[j]
  BY DEF PutSset, TypeOK
<1>3. Chain(k)' = Append(Chain(k), s)
  BY <1>1, <1>2, ChainFacts DEF Chain
<1>4. \A j \in Keys \ {k} : Chain(j)' = Chain(j)
  BY <1>2 DEF Chain
<1>5. /\ Tells(Append(Chain(k), s), s)
      /\ TellingFrom(Chain(k), 1) \/ Telling(sset[k], s) => TellingFrom(Append(Chain(k), s), 1)
  <2>1. Tells(Chain(k), sset[k]) /\ (Telling(sset[k], s) \/ Alike(sset[k], s))
    BY DEF ChainInv, Succeeds
  <2> HIDE DEF Chain
  <2> QED
    BY <1>1, <2>1, TellsAppend
<1>6. Tells(Chain(k)', sset'[k]) /\ (sset'[k] # None => sset'[k].spec = sset'[k].meta[1])
  BY <1>2, <1>3, <1>5, Zenon DEF Succeeds
<1>7. ASSUME NEW j \in Keys \ {k}
      PROVE  Tells(Chain(j)', sset'[j]) /\ (sset'[j] # None => sset'[j].spec = sset'[j].meta[1])
  <2>1. Tells(Chain(j), sset[j]) /\ (sset[j] # None => sset[j].spec = sset[j].meta[1])
    BY Zenon DEF ChainInv
  <2> QED
    BY <1>2, <1>4, <2>1, Zenon
<1>8. ChainInv'
  BY <1>6, <1>7, Zenon DEF ChainInv
<1>9. Telling(sset[k], s) => Coming(k)'
  BY <1>3, <1>5, Zenon DEF Coming
<1>10. Coming(k) => Coming(k)'
  <2>1. CASE TellingFrom(Chain(k), 1) \/ Telling(sset[k], s)
    BY <1>3, <1>5, <2>1, Zenon DEF Coming
  <2>2. CASE Alike(sset[k], s) /\ sset[k] # None /\ sset[k].deleting
    BY <1>2, <2>2, Zenon DEF Coming, Alike
  <2> QED
    BY <2>1, <2>2, Zenon DEF Coming, Succeeds
<1>11. ASSUME NEW j \in Keys \ {k}, Coming(j)
       PROVE  Coming(j)'
  BY <1>2, <1>4, <1>11, Zenon DEF Coming
<1> QED
  BY <1>8, <1>9, <1>10, <1>11, Zenon

\* A change of readiness and a deletion mark, field by field.
LEMMA ReadyFields ==
  ASSUME NEW s \in StatefulSet, NEW r \in BOOLEAN
  PROVE  /\ [s EXCEPT !.ready = r] \in StatefulSet
         /\ [s EXCEPT !.ready = r].deleting = s.deleting
         /\ [s EXCEPT !.ready = r].meta = s.meta
         /\ [s EXCEPT !.ready = r].spec = s.spec
BY Zenon DEF StatefulSet

LEMMA MarkFields ==
  ASSUME NEW s \in StatefulSet
  PROVE  /\ [s EXCEPT !.deleting = TRUE, !.gen = @ + 1] \in StatefulSet
         /\ [s EXCEPT !.deleting = TRUE, !.gen = @ + 1].deleting
         /\ [s EXCEPT !.deleting = TRUE, !.gen = @ + 1].meta = s.meta
         /\ [s EXCEPT !.deleting = TRUE, !.gen = @ + 1].spec = s.spec
<1>1. ASSUME NEW d \in BOOLEAN, NEW g \in Nat
      PROVE  /\ [s EXCEPT !.deleting = d, !.gen = g] \in StatefulSet
             /\ [s EXCEPT !.deleting = d, !.gen = g].deleting = d
             /\ [s EXCEPT !.deleting = d, !.gen = g].meta = s.meta
             /\ [s EXCEPT !.deleting = d, !.gen = g].spec = s.spec
  BY Zenon DEF StatefulSet
<1>2. s.gen + 1 \in Nat /\ TRUE \in BOOLEAN
  BY DEF StatefulSet
<1> QED
  BY <1>1, <1>2, Zenon

\* The cluster writes what its chain tells of, unless somebody edits the spec.
LEMMA ClusterWrites ==
  ASSUME "drift" \notin Faults, TypeOK, ChainInv, NEW k \in Keys, Cluster(k)
  PROVE  \E s \in SVersions : PutSset(k, s) /\ Succeeds(sset[k], s) /\ UNCHANGED ssCache
<1>1. sset[k] # None => /\ sset[k] \in StatefulSet
                        /\ sset[k].gen + 1 \in Nat
                        /\ sset[k].spec = sset[k].meta[1]
  BY DEF TypeOK, ChainInv, StatefulSet
<1>2. ASSUME NEW s \in SVersions, SsetEvent(k, s), Succeeds(sset[k], s)
      PROVE  \E t \in SVersions : PutSset(k, t) /\ Succeeds(sset[k], t) /\ UNCHANGED ssCache
  BY <1>2, Zenon DEF SsetEvent, cacheVars
<1>3. ASSUME sset[k] # None
      PROVE  None \in SVersions /\ Succeeds(sset[k], None)
  BY <1>3 DEF Succeeds, Telling, SVersions
<1>4. ASSUME sset[k] # None, NEW r \in BOOLEAN
      PROVE  [sset[k] EXCEPT !.ready = r] \in SVersions
               /\ Succeeds(sset[k], [sset[k] EXCEPT !.ready = r])
  <2> DEFINE n == [sset[k] EXCEPT !.ready = r]
  <2>1. /\ n \in StatefulSet /\ n.deleting = sset[k].deleting
        /\ n.meta = sset[k].meta /\ n.spec = sset[k].spec
    BY <1>1, <1>4, ReadyFields, Zenon
  <2> HIDE DEF n
  <2>2. n # None
    BY <2>1, NoneAssumption
  <2>3. n \in SVersions /\ Succeeds(sset[k], n)
    BY <1>1, <1>4, <2>1, <2>2, Zenon DEF SVersions, Succeeds, Alike
  <2> QED
    BY <2>3 DEF n
<1>5. ASSUME sset[k] # None
      PROVE  [sset[k] EXCEPT !.deleting = TRUE, !.gen = @ + 1] \in SVersions
               /\ Succeeds(sset[k], [sset[k] EXCEPT !.deleting = TRUE, !.gen = @ + 1])
  <2> DEFINE n == [sset[k] EXCEPT !.deleting = TRUE, !.gen = @ + 1]
  <2>1. /\ n \in StatefulSet /\ n.deleting
        /\ n.meta = sset[k].meta /\ n.spec = sset[k].spec
    BY <1>1, <1>5, MarkFields, Zenon
  <2> HIDE DEF n
  <2>2. n # None
    BY <2>1, NoneAssumption
  <2>3. n \in SVersions /\ Succeeds(sset[k], n)
    BY <1>1, <1>5, <2>1, <2>2, Zenon DEF SVersions, Succeeds, Alike
  <2> QED
    BY <2>3, Zenon DEF n
<1>6. CASE GarbageCollect(k)
  BY <1>2, <1>3, <1>6, Zenon DEF GarbageCollect, Garbage
<1>7. CASE PodsReady(k) \/ PodsFail(k)
  <2>1. sset[k] # None /\ \E r \in BOOLEAN : SsetEvent(k, [sset[k] EXCEPT !.ready = r])
    BY <1>7, Zenon DEF PodsReady, PodsFail
  <2>2. PICK r \in BOOLEAN : SsetEvent(k, [sset[k] EXCEPT !.ready = r])
    BY <2>1, Zenon
  <2> QED
    BY <1>2, <1>4, <2>1, <2>2, Zenon
<1>8. CASE LoseSset(k)
  <2>1. /\ sset[k] # None
        /\ \/ SsetEvent(k, None)
           \/ SsetEvent(k, [sset[k] EXCEPT !.deleting = TRUE, !.gen = @ + 1])
    BY <1>8, Zenon DEF LoseSset
  <2> QED
    BY <1>2, <1>3, <1>5, <2>1, Zenon
<1>9. ~DriftSset(k)
  BY Zenon DEF DriftSset, Fault
<1> QED
  BY <1>6, <1>7, <1>8, <1>9, Zenon DEF Cluster

\* What Sync leaves behind when it returns without an error for an object that
\* is not paused: the cached StatefulSet is the wanted one, or news of it is on
\* the way.
SyncedBy(k, o) ==
  Coming(k) \/ (ssCache[k] # None /\ ssCache[k].meta = inputHash(o, ssCache[k]))

\* A version in the cache that is being deleted, or differs from the current
\* one, is not the last the handlers hear of.
LEMMA StaleTold ==
  ASSUME TypeOK, ChainInv, NEW k \in Keys, ssCache[k] # None,
         \/ ssCache[k].deleting
         \/ sset[k] # None /\ sset[k].meta # ssCache[k].meta
  PROVE  Coming(k)
<1>1. Tells(Chain(k), sset[k])
  BY Zenon DEF ChainInv
<1>2. 1 \in 1..Len(Chain(k)) /\ Chain(k)[1] = ssCache[k]
  <2>1. ssCache[k] \in SVersions /\ ssWatch[k] \in Seq(SVersions)
    BY SsetTypes
  <2> QED
    BY <2>1, ChainFacts DEF Chain
<1>3. TellingFrom(Chain(k), 1) \/ Alike(ssCache[k], sset[k])
  BY <1>1, <1>2, Zenon DEF Tells
<1> QED
  BY <1>3, Zenon DEF Alike, Coming

\* A Sync writes what the chain tells of, and leaves the object settled, unless
\* it fails or the object is paused.
LEMMA SyncWrites ==
  ASSUME TypeOK, KeyHeld, ChainInv, SyncApply
  PROVE  /\ ChainInv'
         /\ \A j \in Keys : Coming(j) => Coming(j)'
         /\ \/ rec'.err
            \/ rec.obj.paused
            \/ SyncedBy(rec.key, rec.obj)'
<1>1. PICK k \in Keys, o \in Object : k = rec.key /\ o = rec.obj
  BY DEF SyncApply, KeyHeld, TypeOK
<1> DEFINE h == inputHash(o, ssCache[k])
           Goal == /\ ChainInv'
                   /\ \A j \in Keys : Coming(j) => Coming(j)'
                   /\ rec'.err \/ o.paused \/ SyncedBy(k, o)'
<1>0. UNCHANGED ssCache /\ rec'.key = k /\ rec'.obj = o
  <2>1. PICK e \in BOOLEAN : SyncReturns(e)
    BY Zenon DEF SyncApply, CreateStatefulSet, UpdateStatefulSet, RejectStatefulSet
  <2>2. rec'.key = rec.key /\ rec'.obj = rec.obj
    BY <2>1, RecRecords, ZenonT(60) DEF SyncReturns, RecPcs
  <2>3. UNCHANGED ssCache
    BY <2>1 DEF SyncReturns, cacheVars
  <2> QED
    BY <1>1, <2>2, <2>3
<1>2. ASSUME NEW e \in BOOLEAN, SyncReturns(e)
      PROVE  rec'.err = e
  BY <1>2, RecRecords, ZenonT(60) DEF SyncReturns, RecPcs
<1>3. /\ ssCache[k] \in SVersions /\ sset[k] \in SVersions
      /\ h \in Hashes /\ inputHash(o, None) \in Hashes
      /\ o.uid \in Nat /\ o.gen \in Nat /\ o.gen \in Specs
      /\ h[1] = o.gen /\ inputHash(o, None)[1] = o.gen
  <2>1. ssCache[k] \in SVersions /\ sset[k] \in SVersions
    BY SsetTypes
  <2>2. o.uid \in Nat /\ o.gen \in Nat /\ o.gen \in Specs /\ o.meta \in Metas
    BY DEF Object, Specs
  <2>3. ssCache[k] # None => ssCache[k].spec \in Specs
    BY <2>1 DEF SVersions, StatefulSet
  <2> QED
    BY <2>1, <2>2, <2>3 DEF inputHash, Hashes
<1>4. ASSUME UNCHANGED <<sset, ssWatch>>
      PROVE  ChainInv' /\ \A j \in Keys : Coming(j) <=> Coming(j)'
  <2>1. \A j \in Keys : Chain(j)' = Chain(j)
    BY <1>0, <1>4 DEF Chain
  <2> QED
    BY <1>4, <2>1, Zenon DEF ChainInv, Coming
<1>5. ASSUME UNCHANGED <<sset, ssWatch>>, rec'.err \/ o.paused
      PROVE  Goal
  BY <1>4, <1>5, Zenon
<1>6. ASSUME NEW s \in SVersions, PutSset(k, s), Succeeds(sset[k], s),
             Telling(sset[k], s) \/ Coming(k) \/ (s # None /\ s.deleting)
      PROVE  Goal
  <2>1. /\ ChainInv' /\ \A j \in Keys : Coming(j) => Coming(j)'
        /\ Telling(sset[k], s) => Coming(k)'
    BY <1>0, <1>6, PutTells
  <2>2. s # None /\ s.deleting => Coming(k)'
    <3>1. sset'[k] = s
      BY <1>1, <1>6 DEF PutSset, TypeOK
    <3> QED
      BY <3>1, Zenon DEF Coming
  <2>3. Coming(k)'
    BY <1>1, <1>6, <2>1, <2>2, Zenon
  <2>4. SyncedBy(k, o)'
    BY <2>3, Zenon DEF SyncedBy
  <2> QED
    BY <2>1, <2>4, Zenon
<1>7. ASSUME UNCHANGED <<sset, ssWatch>>, Coming(k) \/ (ssCache[k] # None /\ ssCache[k].meta = h)
      PROVE  Goal
  <2>1. Coming(k) => Coming(k)'
    BY <1>1, <1>4, <1>7, Zenon
  <2>2. SyncedBy(k, o)'
    BY <1>0, <1>7, <2>1, Zenon DEF SyncedBy
  <2> QED
    BY <1>4, <1>7, <2>2, Zenon
<1> SUFFICES Goal
  BY <1>0, <1>1, Zenon
<1> HIDE DEF Goal, h
<1>8. CASE o.paused /\ UNCHANGED <<sset, ssWatch>>
  BY <1>5, <1>8, Zenon
<1>9. CASE CreateStatefulSet(k, o)
  <2>1. CASE SyncReturns(TRUE) /\ UNCHANGED <<sset, ssWatch>>
    <3>1. rec'.err
      BY <1>2, <2>1, Zenon
    <3> QED
      BY <1>5, <2>1, <3>1, Zenon
  <2> DEFINE n == [owner |-> o.uid, gen |-> 1, spec |-> o.gen,
                   meta |-> inputHash(o, None), deleting |-> FALSE, ready |-> FALSE]
  <2>2. CASE sset[k] = None /\ PutSset(k, n)
    <3>1. n \in StatefulSet /\ n.spec = n.meta[1]
      BY <1>3 DEF StatefulSet
    <3> HIDE DEF n
    <3>2. n # None /\ n \in SVersions
      BY <3>1, NoneAssumption DEF SVersions
    <3>3. Telling(sset[k], n) /\ Succeeds(sset[k], n)
      BY <2>2, <3>1, <3>2, Zenon DEF Telling, Succeeds
    <3> QED
      BY <1>6, <2>2, <3>2, <3>3, Zenon
  <2> QED
    BY <1>9, <2>1, <2>2, Zenon DEF CreateStatefulSet
<1>10. CASE /\ ssCache[k] # None /\ (DeletionInProgress(ssCache[k]) \/ ssCache[k].meta = h)
            /\ UNCHANGED <<sset, ssWatch>>
  <2>1. CASE ssCache[k].meta = h
    BY <1>7, <1>10, <2>1, Zenon
  <2>2. CASE ssCache[k].deleting
    <3>1. Coming(k)
      BY <1>1, <1>10, <2>2, StaleTold, Zenon
    <3> QED
      BY <1>7, <1>10, <3>1, Zenon
  <2> QED
    BY <1>10, <2>1, <2>2, Zenon DEF DeletionInProgress
<1>11. CASE ssCache[k] # None /\ ssCache[k].meta # h /\ UpdateStatefulSet(k, o, h)
  <2>1. CASE SyncReturns(TRUE) /\ UNCHANGED <<sset, ssWatch>>
    <3>1. rec'.err
      BY <1>2, <2>1, Zenon
    <3> QED
      BY <1>5, <2>1, <3>1, Zenon
  <2> DEFINE s == sset[k]
             g == IF s.spec = o.gen THEN s.gen ELSE s.gen + 1
             n == [s EXCEPT !.owner = o.uid, !.spec = o.gen, !.meta = h, !.gen = g]
  <2>2. CASE s # None /\ WriteSset(k, n)
    <3>1. s \in StatefulSet /\ s.gen \in Nat /\ g \in Nat
      BY <1>3, <2>2 DEF SVersions, StatefulSet
    <3>2. s.spec # o.gen => g # s.gen
      BY <3>1
    <3> HIDE DEF s, g
    <3>3. n \in StatefulSet /\ n.deleting = s.deleting /\ n.meta = h /\ n.spec = o.gen /\ n.gen = g
      BY <1>3, <3>1, ZenonT(60) DEF StatefulSet
    <3>4. s.meta = h => Coming(k)
      <4>1. s = sset[k]
        BY DEF s
      <4> QED
        BY <1>1, <1>11, <2>2, <4>1, StaleTold, Zenon
    <3> HIDE DEF n
    <3>5. n # None /\ n \in SVersions
      BY <3>3, NoneAssumption DEF SVersions
    <3>6. CASE n = s
      <4>1. UNCHANGED <<sset, ssWatch>>
        BY <2>2, <3>6, Zenon DEF WriteSset, s
      <4> QED
        BY <1>7, <3>3, <3>4, <3>6, <4>1, Zenon
    <3>7. CASE n # s
      <4>1. PutSset(k, n)
        BY <2>2, <3>7, Zenon DEF WriteSset, s
      <4>2. n.spec = n.meta[1]
        BY <1>3, <3>3
      <4>3. CASE s.deleting
        <5>1. Succeeds(s, n)
          BY <2>2, <3>3, <3>5, <4>2, <4>3, Zenon DEF Succeeds, Alike
        <5> QED
          BY <1>6, <3>3, <3>5, <4>1, <4>3, <5>1, Zenon DEF s
      <4>4. CASE ~s.deleting /\ (s.meta # h \/ s.spec # o.gen)
        <5>1. hasStateChanged(s, n)
          BY <3>2, <3>3, <4>4, Zenon DEF hasStateChanged
        <5>2. Telling(s, n)
          BY <2>2, <3>3, <3>5, <4>4, <5>1, Zenon DEF Telling
        <5>3. Succeeds(s, n)
          BY <4>2, <5>2, Zenon DEF Succeeds
        <5> QED
          BY <1>6, <3>5, <4>1, <5>2, <5>3, Zenon DEF s
      <4>5. CASE ~s.deleting /\ s.meta = h /\ s.spec = o.gen
        <5>1. Succeeds(s, n)
          BY <2>2, <3>3, <3>5, <4>2, <4>5, Zenon DEF Succeeds, Alike
        <5> QED
          BY <1>6, <3>4, <3>5, <4>1, <4>5, <5>1, Zenon DEF s
      <4> QED
        BY <4>3, <4>4, <4>5, Zenon
    <3> QED
      BY <3>6, <3>7, Zenon
  <2> QED
    BY <1>11, <2>1, <2>2, Zenon DEF UpdateStatefulSet
<1>12. CASE RejectStatefulSet(k)
  <2> DEFINE n == [sset[k] EXCEPT !.deleting = TRUE, !.gen = @ + 1]
  <2>1. CASE sset[k] # None /\ sset[k].deleting /\ UNCHANGED <<sset, ssWatch>>
    <3>1. Coming(k)
      BY <2>1, Zenon DEF Coming
    <3> QED
      BY <1>7, <2>1, <3>1, Zenon
  <2>2. CASE sset[k] # None /\ PutSset(k, n)
    <3>1. sset[k] \in StatefulSet /\ sset[k].spec = sset[k].meta[1]
      BY <1>1, <1>3, <2>2 DEF SVersions, ChainInv
    <3>2. n \in StatefulSet /\ n.deleting /\ n.meta = sset[k].meta /\ n.spec = sset[k].spec
      BY <3>1, MarkFields, Zenon
    <3> HIDE DEF n
    <3>3. n # None /\ n \in SVersions
      BY <3>2, NoneAssumption DEF SVersions
    <3>4. Succeeds(sset[k], n)
      BY <2>2, <3>1, <3>2, <3>3, Zenon DEF Succeeds, Alike
    <3> QED
      BY <1>6, <2>2, <3>2, <3>3, <3>4, Zenon
  <2> QED
    BY <1>12, <2>1, <2>2, Zenon DEF RejectStatefulSet
<1>13. CASE SyncReturns(TRUE) /\ UNCHANGED <<sset, ssWatch>>
  <2>1. rec'.err
    BY <1>2, <1>13, Zenon
  <2> QED
    BY <1>5, <1>13, <2>1, Zenon
<1>14. \/ o.paused /\ UNCHANGED <<sset, ssWatch>>
       \/ CreateStatefulSet(k, o)
       \/ /\ ssCache[k] # None /\ (DeletionInProgress(ssCache[k]) \/ ssCache[k].meta = h)
          /\ UNCHANGED <<sset, ssWatch>>
       \/ ssCache[k] # None /\ ssCache[k].meta # h /\ UpdateStatefulSet(k, o, h)
       \/ RejectStatefulSet(k)
       \/ SyncReturns(TRUE) /\ UNCHANGED <<sset, ssWatch>>
  BY <1>1, Zenon DEF SyncApply, h
<1> QED
  BY <1>8, <1>9, <1>10, <1>11, <1>12, <1>13, <1>14, ZenonT(60)

\* The cases in which the code lets the StatefulSet of a settled object go: an
\* edit of its spec made twice, a deletion learnt from a relist, an object
\* replaced during a broken watch.
NoBlindSpots == "drift" \notin Faults /\ "sset" \notin Gaps /\ HiddenRecreation = FALSE

\* Receiving a version of a StatefulSet.
LEMMA ReceiveTells ==
  ASSUME TypeOK, ChainInv, NEW k \in Keys, ReceiveSset(k)
  PROVE  /\ ChainInv'
         /\ Coming(k) => Telling(ssCache[k], ssCache'[k]) \/ Coming(k)'
         /\ \A j \in Keys \ {k} : ssCache'[j] = ssCache[j] /\ (Coming(j) => Coming(j)')
         /\ ssCache'[k] \in SVersions
<1>1. \A j \in Keys : /\ ssCache[j] \in SVersions /\ sset[j] \in SVersions
                       /\ ssWatch[j] \in Seq(SVersions) /\ Chain(j) \in Seq(SVersions)
  BY SsetTypes
<1>2. /\ ssWatch[k] # <<>> /\ UNCHANGED sset
      /\ ssCache'[k] = Head(ssWatch[k]) /\ ssWatch'[k] = Tail(ssWatch[k])
      /\ \A j \in Keys \ {k} : ssCache'[j] = ssCache[j] /\ ssWatch'[j] = ssWatch[j]
  BY DEF ReceiveSset, TypeOK
<1>3. /\ Chain(k)' = Tail(Chain(k)) /\ Len(Chain(k)) > 1
      /\ Chain(k)[1] = ssCache[k] /\ Chain(k)[2] = ssCache'[k] /\ ssCache'[k] \in SVersions
  <2>1. PICK c \in SVersions, w \in Seq(SVersions) : c = ssCache[k] /\ w = ssWatch[k]
    BY <1>1, ZenonT(60)
  <2>2. /\ <<Head(w)>> \o Tail(w) = Tail(<<c>> \o w)
        /\ Len(<<c>> \o w) > 1 /\ Head(w) \in SVersions
        /\ (<<c>> \o w)[1] = c /\ (<<c>> \o w)[2] = Head(w)
    BY <1>2, <2>1, ChainFacts, ZenonT(60)
  <2>3. Chain(k) = <<c>> \o w /\ Chain(k)' = <<Head(w)>> \o Tail(w)
    BY <1>2, <2>1, Zenon DEF Chain
  <2> QED
    BY <1>2, <2>1, <2>2, <2>3, Zenon
<1>4. \A j \in Keys \ {k} : Chain(j)' = Chain(j)
  BY <1>2 DEF Chain
<1>5. /\ Tells(Tail(Chain(k)), sset[k])
      /\ TellingFrom(Chain(k), 1) =>
           Telling(ssCache[k], ssCache'[k]) \/ TellingFrom(Tail(Chain(k)), 1)
  <2>1. Tells(Chain(k), sset[k])
    BY Zenon DEF ChainInv
  <2> QED
    BY <1>1, <1>3, <2>1, TellsTail
<1>6. ChainInv'
  <2>1. ASSUME NEW j \in Keys
        PROVE  Tells(Chain(j)', sset'[j]) /\ (sset'[j] # None => sset'[j].spec = sset'[j].meta[1])
    <3>1. Tells(Chain(j), sset[j]) /\ (sset[j] # None => sset[j].spec = sset[j].meta[1])
      BY Zenon DEF ChainInv
    <3>2. CASE j = k
      BY <1>2, <1>3, <1>5, <3>1, <3>2, Zenon
    <3>3. CASE j # k
      <4>1. Chain(j)' = Chain(j)
        BY <1>4, <3>3
      <4> QED
        BY <1>2, <3>1, <4>1, Zenon
    <3> QED
      BY <3>2, <3>3
  <2> QED
    BY <2>1, Zenon DEF ChainInv
<1>7. Coming(k) => Telling(ssCache[k], ssCache'[k]) \/ Coming(k)'
  BY <1>2, <1>3, <1>5, Zenon DEF Coming
<1>8. \A j \in Keys \ {k} : Coming(j) => Coming(j)'
  BY <1>2, <1>4, Zenon DEF Coming
<1> QED
  BY <1>2, <1>3, <1>6, <1>7, <1>8, Zenon

\* Every step keeps ChainInv; only a restart and the delivery of a version
\* change the cache, and no other step makes news disappear.
LEMMA ChainNext ==
  ASSUME NoBlindSpots, TypeOK, KeyHeld, ChainInv, [Next]_vars
  PROVE  /\ ChainInv'
         /\ \/ Restart
            \/ \E k \in Keys : ReceiveSset(k)
            \/ UNCHANGED ssCache /\ \A j \in Keys : Coming(j) => Coming(j)'
<1> DEFINE Kept == UNCHANGED ssCache /\ \A j \in Keys : Coming(j) => Coming(j)'
<1>1. ASSUME UNCHANGED <<sset, ssWatch, ssCache>>
      PROVE  ChainInv' /\ Kept
  <2>1. \A j \in Keys : Chain(j)' = Chain(j)
    BY <1>1 DEF Chain
  <2> QED
    BY <1>1, <2>1, Zenon DEF ChainInv, Coming
<1>2. CASE \E k \in Keys : Users(k) \/ Handlers(k) \/ Timers(k) \/ RefreshStatusFor(k)
  <2>1. UNCHANGED <<sset, ssWatch, ssCache>>
    BY <1>2, ZenonT(60) DEF Users, CreateObject, EditSpec, EditMeta, DeleteObject, UserEdit,
           FinalizeObject, Handlers, HandleCR, HandleSset, Timers, ReleaseRec, ReleaseStat,
           StatusPoller, RefreshStatusFor, apiVars, cacheVars
  <2> QED
    BY <1>1, <2>1, Zenon
<1>3. ASSUME NEW k \in Keys, Cluster(k)
      PROVE  ChainInv' /\ Kept
  <2>1. PICK s \in SVersions : PutSset(k, s) /\ Succeeds(sset[k], s) /\ UNCHANGED ssCache
    BY <1>3, ClusterWrites, Zenon DEF NoBlindSpots
  <2> QED
    BY <2>1, PutTells, Zenon
<1>4. ASSUME NEW k \in Keys, Informers(k)
      PROVE  ChainInv' /\ (ReceiveSset(k) \/ Kept)
  <2>1. CASE ReceiveSset(k)
    BY <2>1, ReceiveTells, Zenon
  <2>2. CASE ReceiveCR(k) \/ RelistCR(k) \/ Resync(k)
    <3>1. UNCHANGED <<sset, ssWatch, ssCache>>
      BY <2>2, Zenon DEF ReceiveCR, RelistCR, Resync, apiVars
    <3> QED
      BY <1>1, <3>1, Zenon
  <2>3. ~RelistSset(k)
    BY Zenon DEF RelistSset, Gap, NoBlindSpots
  <2> QED
    BY <1>4, <2>1, <2>2, <2>3, Zenon DEF Informers
<1>5. CASE SyncApply
  <2>1. UNCHANGED ssCache
    BY <1>5, Zenon DEF SyncApply, CreateStatefulSet, UpdateStatefulSet, RejectStatefulSet,
                       SyncReturns, cacheVars
  <2> QED
    BY <1>5, <2>1, SyncWrites, Zenon
<1>6. CASE SyncRead \/ SyncReport \/ RecFinish \/ RecExit \/ StatWorker \/ Stop \/ UNCHANGED vars
  <2>1. UNCHANGED <<sset, ssWatch, ssCache>>
    BY <1>6, ZenonT(60) DEF SyncRead, SyncReport, RecFinish, RecExit, StatWorker, StatRead,
           StatApply, StatExit, Stop, vars, apiVars, cacheVars
  <2> QED
    BY <1>1, <2>1, Zenon
<1>7. CASE Restart
  <2>1. /\ UNCHANGED sset /\ ssCache' = sset /\ \A j \in Keys : ssWatch'[j] = <<>>
    BY <1>7 DEF Restart
  <2>2. ASSUME NEW j \in Keys
        PROVE  Tells(Chain(j)', sset'[j]) /\ (sset'[j] # None => sset'[j].spec = sset'[j].meta[1])
    <3>1. sset[j] \in SVersions /\ <<>> \in Seq(SVersions)
      BY SsetTypes
    <3>2. Chain(j)' = <<sset[j]>>
      BY <2>1, <3>1, ChainFacts, Zenon DEF Chain
    <3>3. sset[j] # None => sset[j].spec = sset[j].meta[1]
      BY Zenon DEF ChainInv
    <3> QED
      BY <2>1, <3>1, <3>2, <3>3, TellsNow, Zenon
  <2>3. ChainInv'
    BY <2>2, Zenon DEF ChainInv
  <2> QED
    BY <1>7, <2>3, Zenon
<1> QED
  BY <1>2, <1>3, <1>4, <1>5, <1>6, <1>7, Zenon DEF Next, RecWorker

-----------------------------------------------------------------------------
(* A generation names one spec *)

\* Versions of one object with the same generation have the same spec, of which
\* paused is modelled.
Agree(x, y) ==
  x # None /\ y # None /\ x.uid = y.uid /\ x.gen = y.gen => x.paused = y.paused

\* x is an object used before, or an earlier version of o.
Past(x, o, n) ==
  x # None => x.uid <= n /\ (o # None /\ x.uid = o.uid => x.gen <= o.gen)

\* The versions in S are versions of the past of o, and agree.
Consistent(S, o, n) ==
  /\ o \in S
  /\ \A x \in S : Past(x, o, n)
  /\ \A x, y \in S : Agree(x, y)

\* The same version, but for what Sync does not look at.
Same(x, y) ==
  \/ x = None /\ y = None
  \/ x # None /\ y # None /\ x.uid = y.uid /\ x.gen = y.gen /\ x.paused = y.paused

\* Forgetting and copying versions.
LEMMA ConsistentSub ==
  ASSUME NEW S, NEW T, NEW o, NEW n, Consistent(S, o, n), o \in T,
         \A x \in T : \E y \in S : Same(x, y)
  PROVE  Consistent(T, o, n)
<1>1. ASSUME NEW x \in T
      PROVE  Past(x, o, n)
  <2>1. PICK y \in S : Same(x, y)
    BY Zenon
  <2>2. Past(y, o, n)
    BY Zenon DEF Consistent
  <2> QED
    BY <2>1, <2>2, Zenon DEF Past, Same
<1>2. ASSUME NEW x \in T, NEW y \in T
      PROVE  Agree(x, y)
  <2>1. PICK u \in S, v \in S : Same(x, u) /\ Same(y, v)
    BY Zenon
  <2>2. Agree(u, v)
    BY Zenon DEF Consistent
  <2> QED
    BY <2>1, <2>2, Zenon DEF Agree, Same
<1> QED
  BY <1>1, <1>2, Zenon DEF Consistent

\* p may be written over o, when uids up to n have been used and uids up to m
\* will have been: it is a later version of the same object, or a new object.
NextVersion(o, p, n, m) ==
  \/ p = None
  \/ /\ o # None /\ p # None /\ p.uid = o.uid
     /\ \/ p.gen = o.gen /\ p.paused = o.paused
        \/ p.gen = o.gen + 1
  \/ o = None /\ p # None /\ p.uid = n + 1 /\ m = n + 1

\* Writing a version.
LEMMA ConsistentPut ==
  ASSUME NEW S \in SUBSET Versions, NEW o \in Versions, NEW p \in Versions,
         NEW T \in SUBSET (S \cup {p}), NEW n \in Nat, NEW m \in Nat, n <= m,
         Consistent(S, o, n), NextVersion(o, p, n, m), p \in T
  PROVE  Consistent(T, p, m)
<1>1. \A x \in Versions : x # None => x.uid \in Nat /\ x.gen \in Nat
  BY DEF Versions, Object
<1>2. ASSUME NEW x \in S
      PROVE  Past(x, p, m) /\ Agree(x, p) /\ Agree(p, x)
  <2>1. Past(x, o, n) /\ Agree(x, o) /\ x \in Versions
    BY DEF Consistent
  <2>2. CASE x = None \/ p = None
    <3>1. x # None => x.uid <= m
      BY <1>1, <2>1 DEF Past
    <3> QED
      BY <2>2, <3>1 DEF Past, Agree
  <2>3. CASE x # None /\ p # None
    <3>1. x.uid \in Nat /\ x.gen \in Nat /\ p.uid \in Nat /\ p.gen \in Nat
      BY <1>1, <2>1, <2>3
    <3>2. CASE o = None
      BY <2>1, <2>3, <3>1, <3>2 DEF NextVersion, Past, Agree
    <3>3. CASE o # None
      <4>1. o.uid \in Nat /\ o.gen \in Nat
        BY <1>1, <3>3
      <4> QED
        BY <2>1, <2>3, <3>1, <3>3, <4>1 DEF NextVersion, Past, Agree
    <3> QED
      BY <3>2, <3>3
  <2> QED
    BY <2>2, <2>3
<1>3. Past(p, p, m) /\ Agree(p, p)
  <2>1. CASE p = None
    BY <2>1 DEF Past, Agree
  <2>2. CASE p # None
    <3>1. p.uid \in Nat /\ p.gen \in Nat
      BY <1>1, <2>2
    <3>2. Past(o, o, n)
      BY DEF Consistent
    <3>3. CASE o = None
      BY <2>2, <3>1, <3>3 DEF NextVersion, Past, Agree
    <3>4. CASE o # None
      <4>1. o.uid \in Nat
        BY <1>1, <3>4
      <4> QED
        BY <2>2, <3>1, <3>2, <3>4, <4>1 DEF NextVersion, Past, Agree
    <3> QED
      BY <3>3, <3>4
  <2> QED
    BY <2>1, <2>2
<1>4. \A x \in T : x \in S \/ x = p
  OBVIOUS
<1> QED
  BY <1>2, <1>3, <1>4, Zenon DEF Consistent

\* More uids may be in use later.
LEMMA ConsistentLater ==
  ASSUME NEW S \in SUBSET Versions, NEW o \in Versions, NEW n \in Nat, NEW m \in Nat, n <= m,
         Consistent(S, o, n)
  PROVE  Consistent(S, o, m)
<1>1. ASSUME NEW x \in S
      PROVE  Past(x, o, m)
  <2>1. Past(x, o, n) /\ (x # None => x.uid \in Nat)
    BY DEF Consistent, Versions, Object
  <2> QED
    BY <2>1 DEF Past
<1> QED
  BY <1>1, Zenon DEF Consistent

\* The versions of k in use: cached, current, on the way, or being synced.
InUse(k) ==
  {x \in Versions : \/ x = crCache[k] \/ x = cr[k]
                    \/ \E i \in 1..Len(crWatch[k]) : x = crWatch[k][i]
                    \/ rec.key = k /\ x = rec.obj}

VersionInv == \A k \in Keys : Consistent(InUse(k), cr[k], edits)

\* What the proofs below need of the types.
LEMMA ObjectTypes ==
  ASSUME TypeOK, NEW k \in Keys
  PROVE  /\ crCache[k] \in Versions /\ cr[k] \in Versions /\ crWatch[k] \in Seq(Versions)
         /\ \A i \in 1..Len(crWatch[k]) : crWatch[k][i] \in Versions
         /\ rec.obj \in Versions /\ edits \in Nat
<1>1. /\ crCache[k] \in Versions /\ cr[k] \in Versions /\ crWatch[k] \in Seq(Versions)
      /\ rec.obj \in Versions /\ edits \in Nat
  BY ZenonT(60) DEF TypeOK, Versions
<1>2. \A i \in 1..Len(crWatch[k]) : crWatch[k][i] \in Versions
  BY <1>1
<1> QED
  BY <1>1, <1>2

\* An edit of the object, field by field.
LEMMA EditFields ==
  ASSUME NEW o \in Object, NEW p \in BOOLEAN, NEW m \in Metas, NEW st \in Status \cup {None}
  PROVE  /\ [o EXCEPT !.gen = @ + 1, !.paused = p] \in Object
         /\ [o EXCEPT !.gen = @ + 1, !.paused = p].uid = o.uid
         /\ [o EXCEPT !.gen = @ + 1, !.paused = p].gen = o.gen + 1
         /\ [o EXCEPT !.meta = m] \in Object
         /\ [o EXCEPT !.meta = m].uid = o.uid
         /\ [o EXCEPT !.meta = m].gen = o.gen
         /\ [o EXCEPT !.meta = m].paused = o.paused
         /\ [o EXCEPT !.status = st] \in Object
         /\ [o EXCEPT !.status = st].uid = o.uid
         /\ [o EXCEPT !.status = st].gen = o.gen
         /\ [o EXCEPT !.status = st].paused = o.paused
         /\ [o EXCEPT !.deleting = TRUE, !.gen = @ + 1] \in Object
         /\ [o EXCEPT !.deleting = TRUE, !.gen = @ + 1].uid = o.uid
         /\ [o EXCEPT !.deleting = TRUE, !.gen = @ + 1].gen = o.gen + 1
<1>1. ASSUME NEW g \in Nat
      PROVE  /\ [o EXCEPT !.gen = g, !.paused = p] \in Object
             /\ [o EXCEPT !.gen = g, !.paused = p].uid = o.uid
             /\ [o EXCEPT !.gen = g, !.paused = p].gen = g
  BY Zenon DEF Object
<1>2. ASSUME NEW d \in BOOLEAN, NEW g \in Nat
      PROVE  /\ [o EXCEPT !.deleting = d, !.gen = g] \in Object
             /\ [o EXCEPT !.deleting = d, !.gen = g].uid = o.uid
             /\ [o EXCEPT !.deleting = d, !.gen = g].gen = g
  BY Zenon DEF Object
<1>3. /\ [o EXCEPT !.meta = m] \in Object
      /\ [o EXCEPT !.meta = m].uid = o.uid
      /\ [o EXCEPT !.meta = m].gen = o.gen
      /\ [o EXCEPT !.meta = m].paused = o.paused
  BY Zenon DEF Object
<1>4. /\ [o EXCEPT !.status = st] \in Object
      /\ [o EXCEPT !.status = st].uid = o.uid
      /\ [o EXCEPT !.status = st].gen = o.gen
      /\ [o EXCEPT !.status = st].paused = o.paused
  BY Zenon DEF Object
<1>5. o.gen + 1 \in Nat /\ TRUE \in BOOLEAN
  BY DEF Object
<1>6. /\ [o EXCEPT !.gen = @ + 1, !.paused = p] \in Object
      /\ [o EXCEPT !.gen = @ + 1, !.paused = p].uid = o.uid
      /\ [o EXCEPT !.gen = @ + 1, !.paused = p].gen = o.gen + 1
  BY <1>1, <1>5, Zenon
<1>7. /\ [o EXCEPT !.deleting = TRUE, !.gen = @ + 1] \in Object
      /\ [o EXCEPT !.deleting = TRUE, !.gen = @ + 1].uid = o.uid
      /\ [o EXCEPT !.deleting = TRUE, !.gen = @ + 1].gen = o.gen + 1
  BY <1>2, <1>5, Zenon
<1> QED
  BY <1>3, <1>4, <1>6, <1>7, Zenon

\* The users and the status goroutine write next versions.
ObjectWrite(k, o) ==
  /\ PutCR(k, o) /\ UNCHANGED <<crCache, rec>>
  /\ edits' \in Nat /\ edits <= edits' /\ NextVersion(cr[k], o, edits, edits')

LEMMA UserWrites ==
  ASSUME TypeOK, NEW k \in Keys, Users(k)
  PROVE  \E o \in Versions : ObjectWrite(k, o)
<1>1. edits \in Nat /\ edits + 1 \in Nat /\ None \in Versions /\ edits <= edits + 1
  BY DEF TypeOK, Versions
<1>2. cr[k] # None => cr[k] \in Object
  BY DEF TypeOK
<1>3. ASSUME NEW o \in Versions, UserEdit(k, o), NextVersion(cr[k], o, edits, edits + 1)
      PROVE  \E p \in Versions : ObjectWrite(k, p)
  <2>1. /\ PutCR(k, o) /\ UNCHANGED <<crCache, rec>> /\ edits' = edits + 1
    BY <1>3, Zenon DEF UserEdit, Edit, cacheVars, recVars
  <2> QED
    BY <1>1, <1>3, <2>1, Zenon DEF ObjectWrite
<1>4. CASE CreateObject(k)
  <2>1. PICK m \in Metas, p \in Paused :
          UserEdit(k, [uid |-> edits + 1, gen |-> 1, meta |-> m, paused |-> p,
                       deleting |-> FALSE, status |-> None])
    BY <1>4, ZenonT(60) DEF CreateObject
  <2> DEFINE o == [uid |-> edits + 1, gen |-> 1, meta |-> m, paused |-> p,
                   deleting |-> FALSE, status |-> None]
  <2>2. o \in Object /\ o.uid = edits + 1
    BY <1>1, ConstantsAssumption DEF Object
  <2> HIDE DEF o
  <2>3. o # None /\ o \in Versions
    BY <2>2, NoneAssumption DEF Versions
  <2>4. NextVersion(cr[k], o, edits, edits + 1)
    BY <1>4, <2>2, <2>3, Zenon DEF NextVersion, CreateObject
  <2> QED
    BY <1>3, <2>1, <2>3, <2>4, Zenon DEF o
<1>5. ASSUME NEW o \in Object, cr[k] # None, UserEdit(k, o), o.uid = cr[k].uid,
             \/ o.gen = cr[k].gen /\ o.paused = cr[k].paused
             \/ o.gen = cr[k].gen + 1
      PROVE  \E p \in Versions : ObjectWrite(k, p)
  <2>1. o # None /\ o \in Versions
    BY NoneAssumption DEF Versions
  <2> QED
    BY <1>3, <1>5, <2>1, Zenon DEF NextVersion
<1>6. CASE EditSpec(k)
  <2>1. PICK p \in Paused : UserEdit(k, [cr[k] EXCEPT !.gen = @ + 1, !.paused = p])
    BY <1>6, Zenon DEF EditSpec
  <2>2. cr[k] # None /\ cr[k] \in Object /\ p \in BOOLEAN
    BY <1>2, <1>6, ConstantsAssumption DEF EditSpec
  <2> DEFINE d == [cr[k] EXCEPT !.gen = @ + 1, !.paused = p]
  <2>3. d \in Object /\ d.uid = cr[k].uid /\ d.gen = cr[k].gen + 1
    <3>1. cr[k].meta \in Metas /\ None \in Status \cup {None}
      BY <2>2 DEF Object
    <3> QED
      BY <2>2, <3>1, EditFields, Zenon
  <2> HIDE DEF d
  <2> QED
    BY <1>5, <2>1, <2>2, <2>3, Zenon DEF d
<1>7. CASE EditMeta(k)
  <2>1. PICK m \in Metas : UserEdit(k, [cr[k] EXCEPT !.meta = m])
    BY <1>7, Zenon DEF EditMeta
  <2>2. cr[k] # None /\ cr[k] \in Object
    BY <1>2, <1>7 DEF EditMeta
  <2> DEFINE d == [cr[k] EXCEPT !.meta = m]
  <2>3. d \in Object /\ d.uid = cr[k].uid /\ d.gen = cr[k].gen /\ d.paused = cr[k].paused
    BY <2>2, Zenon DEF Object
  <2> HIDE DEF d
  <2> QED
    BY <1>5, <2>1, <2>2, <2>3, Zenon DEF d
<1>8. CASE DeleteObject(k)
  <2> DEFINE d == [cr[k] EXCEPT !.deleting = TRUE, !.gen = @ + 1]
  <2>1. cr[k] # None /\ cr[k] \in Object
    BY <1>2, <1>8 DEF DeleteObject
  <2>2. d \in Object /\ d.uid = cr[k].uid /\ d.gen = cr[k].gen + 1
    <3>1. cr[k].meta \in Metas /\ None \in Status \cup {None} /\ TRUE \in BOOLEAN
      BY <2>1 DEF Object
    <3> QED
      BY <2>1, <3>1, EditFields, Zenon
  <2>3. UserEdit(k, None) \/ UserEdit(k, d)
    BY <1>8, Zenon DEF DeleteObject
  <2> HIDE DEF d
  <2>4. NextVersion(cr[k], None, edits, edits + 1)
    BY DEF NextVersion
  <2> QED
    BY <1>1, <1>3, <1>5, <2>1, <2>2, <2>3, <2>4, ZenonT(60)
<1>9. CASE FinalizeObject(k)
  <2>1. PutCR(k, None) /\ UNCHANGED <<crCache, rec, edits>>
    BY <1>9, Zenon DEF FinalizeObject, cacheVars, budgets, recVars
  <2>2. NextVersion(cr[k], None, edits, edits')
    BY DEF NextVersion
  <2>3. edits' \in Nat /\ edits <= edits'
    BY <1>1, <2>1
  <2> QED
    BY <1>1, <2>1, <2>2, <2>3, Zenon DEF ObjectWrite
<1> QED
  BY <1>4, <1>6, <1>7, <1>8, <1>9, ZenonT(60) DEF Users

LEMMA StatusWrites ==
  ASSUME TypeOK, KeyHeld, StatWorker
  PROVE  \/ UNCHANGED <<cr, crWatch, crCache, rec, edits>>
         \/ \E k \in Keys : \E o \in Versions : ObjectWrite(k, o)
<1>1. CASE StatRead \/ StatExit
  BY <1>1, Zenon DEF StatRead, StatExit, apiVars, cacheVars, budgets, recVars
<1>2. CASE StatApply
  <2>1. PICK k \in Keys : k = stat.key
    BY <1>2 DEF StatApply, KeyHeld, TypeOK
  <2>2. UNCHANGED <<crCache, rec, edits>>
    BY <1>2, Zenon DEF StatApply, cacheVars, recVars
  <2> DEFINE st == [avail |-> stat.avail, rec |-> stat.rec, obs |-> stat.gen]
             o == [cr[k] EXCEPT !.status = st]
  <2>3. CASE UNCHANGED <<cr, crWatch>>
    BY <2>2, <2>3, Zenon
  <2>4. CASE cr[k] # None /\ PutCR(k, o)
    <3>1. st \in Status \cup {None}
      BY DEF Status, TypeOK
    <3>2. cr[k] \in Object
      BY <2>4 DEF TypeOK
    <3> HIDE DEF st
    <3>3. o \in Object /\ o.uid = cr[k].uid /\ o.gen = cr[k].gen /\ o.paused = cr[k].paused
      BY <3>1, <3>2, Zenon DEF Object
    <3> HIDE DEF o
    <3>4. o # None /\ o \in Versions
      BY <3>3, NoneAssumption DEF Versions
    <3>5. edits' \in Nat /\ edits <= edits'
      BY <2>2 DEF TypeOK
    <3>6. NextVersion(cr[k], o, edits, edits')
      BY <2>4, <3>3, <3>4, Zenon DEF NextVersion
    <3> QED
      BY <2>2, <2>4, <3>4, <3>5, <3>6, ZenonT(60) DEF ObjectWrite
  <2> QED
    BY <1>2, <2>1, <2>3, <2>4, ZenonT(60) DEF StatApply
<1> QED
  BY <1>1, <1>2, Zenon DEF StatWorker

\* Every step keeps VersionInv.
LEMMA VersionNext ==
  ASSUME TypeOK, KeyHeld, VersionInv, [Next]_vars
  PROVE  VersionInv'
<1>1. \A k \in Keys : /\ crCache[k] \in Versions /\ cr[k] \in Versions
                       /\ crWatch[k] \in Seq(Versions)
                       /\ \A i \in 1..Len(crWatch[k]) : crWatch[k][i] \in Versions
                       /\ rec.obj \in Versions /\ edits \in Nat
  BY ObjectTypes
<1>2. \A k \in Keys : InUse(k) \in SUBSET Versions /\ Consistent(InUse(k), cr[k], edits)
  BY Zenon DEF InUse, VersionInv
<1>3. ASSUME UNCHANGED <<cr, edits>>,
             \A k \in Keys : \A x \in InUse(k)' : \E y \in InUse(k) : Same(x, y)
      PROVE  VersionInv'
  <2>1. ASSUME NEW k \in Keys
        PROVE  Consistent(InUse(k)', cr[k], edits)
    <3>1. cr[k] \in InUse(k)'
      BY <1>1, <1>3, Zenon DEF InUse
    <3> QED
      BY <1>2, <1>3, <3>1, ConsistentSub, Zenon
  <2> QED
    BY <1>3, <2>1, Zenon DEF VersionInv
<1>4. \A x : Same(x, x)
  BY DEF Same
<1>5. ASSUME UNCHANGED <<cr, crWatch, crCache, edits>>,
             \A k \in Keys : rec'.key = k => rec.key = k /\ rec'.obj = rec.obj
      PROVE  VersionInv'
  <2>1. \A k \in Keys : \A x \in InUse(k)' : x \in InUse(k)
    BY <1>5, Zenon DEF InUse
  <2> QED
    BY <1>3, <1>4, <1>5, <2>1, Zenon
<1>6. ASSUME NEW k \in Keys, NEW o \in Versions, ObjectWrite(k, o)
      PROVE  VersionInv'
  <2>1. /\ cr'[k] = o /\ crWatch'[k] = Append(crWatch[k], o)
        /\ \A j \in Keys \ {k} : cr'[j] = cr[j] /\ crWatch'[j] = crWatch[j]
        /\ UNCHANGED <<crCache, rec>>
    BY <1>6 DEF ObjectWrite, PutCR, TypeOK
  <2>2. edits' \in Nat /\ edits <= edits' /\ NextVersion(cr[k], o, edits, edits')
    BY <1>6 DEF ObjectWrite
  <2>3. \A x \in InUse(k)' : x \in InUse(k) \/ x = o
    <3>1. \A i \in 1..Len(Append(crWatch[k], o)) :
            \/ Append(crWatch[k], o)[i] = o
            \/ \E j \in 1..Len(crWatch[k]) : Append(crWatch[k], o)[i] = crWatch[k][j]
      BY <1>1
    <3>2. ASSUME NEW x \in InUse(k)', \E i \in 1..Len(crWatch'[k]) : x = crWatch'[k][i]
          PROVE  x \in InUse(k) \/ x = o
      <4>1. PICK i \in 1..Len(Append(crWatch[k], o)) : x = Append(crWatch[k], o)[i]
        BY <2>1, <3>2, Zenon
      <4>2. x \in Versions
        BY <3>2, Zenon DEF InUse
      <4> QED
        BY <3>1, <4>1, <4>2, Zenon DEF InUse
    <3> QED
      BY <2>1, <3>2, ZenonT(60) DEF InUse
  <2>4. o \in InUse(k)'
    BY <2>1, Zenon DEF InUse
  <2>5. Consistent(InUse(k)', o, edits')
    <3>a. PICK S \in SUBSET Versions : S = InUse(k)
      BY <1>2, ZenonT(60)
    <3>b. PICK n \in Nat : n = edits
      BY DEF TypeOK
    <3>c. PICK c \in Versions : c = cr[k]
      BY <1>1, Zenon
    <3>1. S = InUse(k) /\ n = edits /\ c = cr[k]
      BY <3>a, <3>b, <3>c
    <3>d. PICK T : T = InUse(k)'
      OBVIOUS
    <3>e. PICK m \in Nat : m = edits'
      BY <2>2, Zenon
    <3>2. T = InUse(k)' /\ m = edits'
      BY <3>d, <3>e
    <3>3. T \in SUBSET (S \cup {o}) /\ o \in T
      BY <2>3, <2>4, <3>1, <3>2, Zenon
    <3>4. Consistent(S, c, n) /\ NextVersion(c, o, n, m) /\ n <= m
      BY <1>2, <2>2, <3>1, <3>2, ZenonT(60)
    <3>5. Consistent(T, o, m)
      BY <3>3, <3>4, ConsistentPut
    <3> QED
      BY <3>2, <3>5, Zenon
  <2>6. ASSUME NEW j \in Keys, j # k
        PROVE  Consistent(InUse(j)', cr'[j], edits')
    <3>1. InUse(j)' = InUse(j) /\ cr'[j] = cr[j]
      BY <2>1, <2>6, Zenon DEF InUse
    <3>2. Consistent(InUse(j), cr[j], edits')
      <4>1. PICK S \in SUBSET Versions : S = InUse(j)
        BY <1>2, Zenon
      <4>2. PICK c \in Versions : c = cr[j]
        BY <1>1, ZenonT(60)
      <4>3. PICK n \in Nat : n = edits
        BY DEF TypeOK
      <4>4. PICK m \in Nat : m = edits'
        BY <2>2, Zenon
      <4>5. Consistent(S, c, n) /\ n <= m
        BY <1>2, <2>2, <4>1, <4>2, <4>3, <4>4, ZenonT(60)
      <4>6. Consistent(S, c, m)
        BY <4>5, ConsistentLater
      <4> QED
        BY <4>1, <4>2, <4>4, <4>6, Zenon
    <3> QED
      BY <3>1, <3>2, Zenon
  <2>7. ASSUME NEW j \in Keys
        PROVE  Consistent(InUse(j)', cr'[j], edits')
    BY <2>1, <2>5, <2>6, Zenon
  <2> QED
    BY <2>7, ZenonT(60) DEF VersionInv
<1>7. CASE \E k \in Keys : Users(k)
  BY <1>6, <1>7, UserWrites, Zenon
<1>8. CASE StatWorker
  <2>1. CASE UNCHANGED <<cr, crWatch, crCache, rec, edits>>
    BY <1>5, <2>1, Zenon
  <2> QED
    BY <1>6, <1>8, <2>1, StatusWrites, Zenon
<1>9. CASE \E k \in Keys : Cluster(k) \/ Handlers(k) \/ Timers(k) \/ RefreshStatusFor(k)
  <2>1. UNCHANGED <<cr, crWatch, crCache, edits, rec>>
    BY <1>9, ZenonT(60) DEF Cluster, GarbageCollect, PodsReady, PodsFail, LoseSset, DriftSset,
                 SsetEvent, Handlers, HandleCR, HandleSset, Timers, ReleaseRec, ReleaseStat,
                 StatusPoller, RefreshStatusFor, apiVars, cacheVars, budgets, recVars
  <2> QED
    BY <1>5, <2>1, Zenon
<1>10. ASSUME NEW k \in Keys, Informers(k)
       PROVE  VersionInv'
  <2>1. UNCHANGED <<cr, edits, rec>>
    BY <1>10, Zenon DEF Informers, ReceiveCR, ReceiveSset, RelistCR, RelistSset, Resync, apiVars,
                        budgets, recVars
  <2>2. CASE ReceiveSset(k) \/ RelistSset(k) \/ Resync(k)
    <3>1. UNCHANGED <<cr, crWatch, crCache, edits, rec>>
      BY <2>1, <2>2, Zenon DEF ReceiveSset, RelistSset, Resync, apiVars, budgets
    <3> QED
      BY <1>5, <3>1, Zenon
  <2>3. ASSUME \A x \in InUse(k)' : x \in InUse(k),
               \A j \in Keys \ {k} : crCache'[j] = crCache[j] /\ crWatch'[j] = crWatch[j]
        PROVE  VersionInv'
    <3>1. ASSUME NEW j \in Keys, NEW x \in InUse(j)'
          PROVE  x \in InUse(j)
      <4>1. CASE j = k
        BY <2>3, <4>1, Zenon
      <4>2. CASE j # k
        BY <2>1, <2>3, <4>2, Zenon DEF InUse
      <4> QED
        BY <4>1, <4>2, Zenon
    <3> QED
      BY <1>3, <1>4, <2>1, <3>1, Zenon
  <2>4. CASE ReceiveCR(k)
    <3>1. /\ crCache'[k] = Head(crWatch[k]) /\ crWatch'[k] = Tail(crWatch[k])
          /\ \A j \in Keys \ {k} : crCache'[j] = crCache[j] /\ crWatch'[j] = crWatch[j]
          /\ crWatch[k] # <<>>
      BY <2>4 DEF ReceiveCR, TypeOK
    <3>2. /\ \E j \in 1..Len(crWatch[k]) : Head(crWatch[k]) = crWatch[k][j]
          /\ \A i \in 1..Len(Tail(crWatch[k])) :
               \E j \in 1..Len(crWatch[k]) : Tail(crWatch[k])[i] = crWatch[k][j]
      <4>1. PICK w \in Seq(Versions) : w = crWatch[k]
        BY <1>1, Zenon
      <4>2. w # <<>>
        BY <3>1, <4>1
      <4>3. Head(w) = w[1] /\ 1 \in 1..Len(w)
        BY <4>2
      <4>4. \A i \in 1..Len(Tail(w)) : Tail(w)[i] = w[i + 1] /\ i + 1 \in 1..Len(w)
        BY <4>2
      <4> QED
        BY <4>1, <4>3, <4>4, Zenon
    <3>4. ASSUME NEW x \in InUse(k)', \E i \in 1..Len(crWatch'[k]) : x = crWatch'[k][i]
          PROVE  x \in InUse(k)
      <4>1. PICK i \in 1..Len(Tail(crWatch[k])) : x = Tail(crWatch[k])[i]
        BY <3>1, <3>4, Zenon
      <4>2. x \in Versions
        BY <3>4, Zenon DEF InUse
      <4> QED
        BY <3>2, <4>1, <4>2, Zenon DEF InUse
    <3>3. \A x \in InUse(k)' : x \in InUse(k)
      BY <2>1, <3>1, <3>2, <3>4, ZenonT(60) DEF InUse
    <3> QED
      BY <2>3, <3>1, <3>3, ZenonT(60)
  <2>5. CASE RelistCR(k)
    <3>1. /\ crCache'[k] = cr[k] /\ crWatch'[k] = <<>>
          /\ \A j \in Keys \ {k} : crCache'[j] = crCache[j] /\ crWatch'[j] = crWatch[j]
      BY <2>5, SMTT(60) DEF RelistCR, TypeOK
    <3>2. 1..Len(<<>>) = {}
      OBVIOUS
    <3>3. \A x \in InUse(k)' : x \in InUse(k)
      BY <2>1, <3>1, <3>2, Zenon DEF InUse
    <3> QED
      BY <2>3, <3>1, <3>3, ZenonT(60)
  <2> QED
    BY <1>10, <2>2, <2>4, <2>5, Zenon DEF Informers
<1>11. CASE SyncRead
  <2> DEFINE k == Head(reconcileQ.queue)
  <2>1. /\ k \in Keys /\ rec'.key = k /\ rec'.obj = Desire(crCache[k])
    BY <1>11, GetFacts, ZenonT(60) DEF SyncRead, TypeOK
  <2>2. UNCHANGED <<cr, crWatch, crCache, edits>>
    BY <1>11, Zenon DEF SyncRead, apiVars, cacheVars, budgets
  <2> HIDE DEF k
  <2>3. Same(Desire(crCache[k]), crCache[k]) /\ crCache[k] \in InUse(k)
    <3>1. crCache[k] \in Versions
      BY <1>1, <2>1
    <3>2. Desire(crCache[k]) = None <=> crCache[k] = None
      BY <3>1, DesireType
    <3>3. crCache[k] # None => /\ Desire(crCache[k]).uid = crCache[k].uid
                               /\ Desire(crCache[k]).gen = crCache[k].gen
                               /\ Desire(crCache[k]).paused = crCache[k].paused
      BY <3>1 DEF Desire, Versions, Object
    <3>4. crCache[k] \in InUse(k)
      BY <3>1, Zenon DEF InUse
    <3> QED
      BY <3>2, <3>3, <3>4, ZenonT(60) DEF Same
  <2>4. ASSUME NEW j \in Keys, NEW x \in InUse(j)'
        PROVE  \E y \in InUse(j) : Same(x, y)
    <3>1. CASE x = crCache[j] \/ x = cr[j] \/ \E i \in 1..Len(crWatch[j]) : x = crWatch[j][i]
      <4>1. x \in InUse(j)
        BY <2>4, <3>1, Zenon DEF InUse
      <4> QED
        BY <1>4, <4>1, Zenon
    <3>2. CASE rec'.key = j /\ x = rec'.obj
      BY <2>1, <2>3, <3>2, Zenon
    <3> QED
      BY <2>2, <2>4, <3>1, <3>2, Zenon DEF InUse
  <2> QED
    BY <1>3, <2>2, <2>4, ZenonT(60)
<1>12. CASE SyncApply \/ SyncReport \/ RecExit
  <2>1. rec'.key = rec.key /\ rec'.obj = rec.obj
    <3>1. CASE SyncApply
      <4>1. PICK e \in BOOLEAN : SyncReturns(e)
        BY <3>1, Zenon DEF SyncApply, CreateStatefulSet, UpdateStatefulSet, RejectStatefulSet
      <4> QED
        BY <4>1, RecRecords, ZenonT(60) DEF SyncReturns, RecPcs
    <3>2. CASE SyncReport \/ RecExit
      BY <3>2, RecRecords, ZenonT(60) DEF SyncReport, RecExit, RecPcs
    <3> QED
      BY <1>12, <3>1, <3>2, Zenon
  <2>2. UNCHANGED <<cr, crWatch, crCache, edits>>
    BY <1>12, Zenon DEF SyncApply, CreateStatefulSet, UpdateStatefulSet, RejectStatefulSet,
                 SyncReturns, SyncReport, RecExit, apiVars, cacheVars, budgets
  <2> QED
    BY <1>5, <2>1, <2>2, Zenon
<1>13. CASE RecFinish
  <2>1. UNCHANGED <<cr, crWatch, crCache, edits>> /\ rec' = IdleRec
    BY <1>13, Zenon DEF RecFinish, apiVars, cacheVars, budgets
  <2>2. rec'.key = None /\ None \notin Keys
    BY <2>1, NoneAssumption DEF IdleRec
  <2> QED
    BY <1>5, <2>1, <2>2, Zenon
<1>14. CASE Stop \/ UNCHANGED vars
  <2>1. UNCHANGED <<cr, crWatch, crCache, edits, rec>>
    BY <1>14, Zenon DEF Stop, vars, apiVars, cacheVars, budgets, recVars
  <2> QED
    BY <1>5, <2>1, Zenon
<1>15. CASE Restart
  <2>1. /\ UNCHANGED <<cr, edits>> /\ crCache' = cr /\ rec' = IdleRec
        /\ \A k \in Keys : crWatch'[k] = <<>>
    BY <1>15, ZenonT(60) DEF Restart
  <2>2. rec'.key = None /\ None \notin Keys /\ 1..Len(<<>>) = {}
    BY <2>1, NoneAssumption DEF IdleRec
  <2>3. ASSUME NEW k \in Keys, NEW x \in InUse(k)'
        PROVE  x \in InUse(k)
    BY <2>1, <2>2, Zenon DEF InUse
  <2> QED
    BY <1>3, <1>4, <2>1, <2>3, ZenonT(60)
<1> QED
  BY <1>7, <1>8, <1>9, <1>10, <1>11, <1>12, <1>13, <1>14, <1>15, ZenonT(60) DEF Next, RecWorker

-----------------------------------------------------------------------------
(* A settled object stays settled, or its key is queued again *)

\* A chain that tells nothing, of a StatefulSet that stays, starts with what
\* the StatefulSet is.
LEMMA Untold ==
  ASSUME NEW c \in SVersions, NEW w \in Seq(SVersions), NEW s, Tells(<<c>> \o w, s)
  PROVE  \/ TellingFrom(<<c>> \o w, 1)
         \/ s # None /\ s.deleting
         \/ c = None /\ s = None
         \/ c # None /\ s # None /\ c.meta = s.meta /\ c.spec = s.spec
<1>1. 1 \in 1..Len(<<c>> \o w) /\ (<<c>> \o w)[1] = c
  OBVIOUS
<1>2. TellingFrom(<<c>> \o w, 1) \/ Alike(c, s)
  BY <1>1, Zenon DEF Tells
<1> QED
  BY <1>2, Zenon DEF Alike

\* The notification makes the handlers queue the owner.
Triggers(n) ==
  \/ n.old = None
  \/ /\ n.old # None /\ n.cur # None /\ ~n.resync
     /\ ~DeletionInProgress(n.cur) /\ hasStateChanged(n.old, n.cur)
  \/ n.old # None /\ n.cur = None /\ ~n.tomb

SomeTriggers(notes) == \E i \in DOMAIN notes : Triggers(notes[i])

\* Handling one notification and adding another.
LEMMA TriggerFacts ==
  ASSUME NEW s \in Seq(Note(StatefulSet)), NEW n \in Note(StatefulSet)
  PROVE  /\ SomeTriggers(s) \/ Triggers(n) => SomeTriggers(Append(s, n))
         /\ s # <<>> /\ SomeTriggers(s) /\ ~Triggers(Head(s)) => SomeTriggers(Tail(s))
<1>1. /\ \A i \in DOMAIN s : i \in DOMAIN Append(s, n) /\ Append(s, n)[i] = s[i]
      /\ Len(s) + 1 \in DOMAIN Append(s, n) /\ Append(s, n)[Len(s) + 1] = n
  BY SMTT(60)
<1>2. ASSUME s # <<>>
      PROVE  /\ \A i \in DOMAIN s : i # 1 => i - 1 \in DOMAIN Tail(s) /\ Tail(s)[i - 1] = s[i]
             /\ Head(s) = s[1]
  BY <1>2
<1>3. SomeTriggers(s) \/ Triggers(n) => SomeTriggers(Append(s, n))
  BY <1>1, Zenon DEF SomeTriggers
<1>4. ASSUME s # <<>>, SomeTriggers(s), ~Triggers(Head(s))
      PROVE  SomeTriggers(Tail(s))
  <2>1. PICK i \in DOMAIN s : Triggers(s[i])
    BY <1>4, Zenon DEF SomeTriggers
  <2>2. i # 1
    BY <1>2, <1>4, <2>1, Zenon
  <2> QED
    BY <1>2, <1>4, <2>1, <2>2, Zenon DEF SomeTriggers
<1> QED
  BY <1>3, <1>4, Zenon

\* The cached StatefulSet is the one the cached object asks for.
Settled(k) == ssCache[k] # None /\ ssCache[k].meta = inputHash(crCache[k], ssCache[k])

\* What will still make Sync look at k, and what makes that unnecessary.
Owed(k) ==
  \/ Busy(k) \/ SomeEnqueues(crNotes[k])
  \/ SomeTriggers(ssNotes[k]) \/ Coming(k)
  \/ rec.key = k /\ rec.err
  \/ rec.key = k /\ rec.pc = "apply" /\ UpToDate(rec.obj, crCache[k])
  \/ Settled(k)

\* QuietConverged, made inductive.
SettledInv == \A k \in Keys : InCharge(crCache[k]) => Owed(k)

\* The handlers of the StatefulSets.
LEMMA TriggersQueue ==
  ASSUME TypeOK, NEW k \in Keys, HandleSset(k), InCharge(crCache[k])
  PROVE  Triggers(Head(ssNotes[k])) => Busy(k)'
<1>1. reconcileQ \in Queue
  BY DEF TypeOK
<1>2. resolve(k) # None /\ isManagedByController(resolve(k))
  BY Zenon DEF InCharge, Desired, Present, resolve
<1>3. Triggers(Head(ssNotes[k])) => EnqueueForReconciliation(k, resolve(k))
  BY <1>2, Zenon DEF HandleSset, Triggers, onStatefulSetAdd, onStatefulSetUpdate,
                     onStatefulSetDelete
<1>4. EnqueueForReconciliation(k, resolve(k)) => reconcileQ' = Add(reconcileQ, k)
  BY <1>2, ZenonT(60) DEF EnqueueForReconciliation
<1>5. Add(reconcileQ, k).down \/ k \in Add(reconcileQ, k).dirty
  BY <1>1, AddFacts
<1>6. reconcileQ' = Add(reconcileQ, k) => Busy(k)'
  BY <1>5, Zenon DEF Busy, Pending
<1> QED
  BY <1>3, <1>4, <1>6, ZenonT(60)

\* The delivery of a version of a StatefulSet: it queues the owner, more is to
\* come, or the version is like the one before.
LEMMA ReceiveSettles ==
  ASSUME TypeOK, ChainInv, NEW k \in Keys, ReceiveSset(k), InCharge(crCache[k]), Owed(k)
  PROVE  Owed(k)'
<1>1. /\ ssCache[k] \in SVersions /\ ssWatch[k] \in Seq(SVersions)
      /\ ssNotes[k] \in Seq(Note(StatefulSet)) /\ Tells(Chain(k), sset[k])
  BY SsetTypes, ZenonT(60) DEF TypeOK, ChainInv
<1>2. /\ ChainInv' /\ ssCache'[k] \in SVersions
      /\ Coming(k) => Telling(ssCache[k], ssCache'[k]) \/ Coming(k)'
  BY ReceiveTells, Zenon
<1>3. UNCHANGED <<rec, reconcileQ, crCache, crNotes, sset>>
  BY ZenonT(60) DEF ReceiveSset, recVars
<1> DEFINE n == [old |-> ssCache[k], cur |-> ssCache'[k], resync |-> FALSE, tomb |-> FALSE]
<1>4. /\ ssNotes'[k] = Append(ssNotes[k], n) /\ ssWatch[k] # <<>>
      /\ ssWatch'[k] = Tail(ssWatch[k])
  BY SMTT(60) DEF ReceiveSset, Notify, TypeOK
<1>5. n \in Note(StatefulSet)
  BY <1>1, <1>2, Zenon DEF Note, SVersions
<1>6. Telling(ssCache[k], ssCache'[k]) => Triggers(n)
  BY Zenon DEF Telling, Triggers, DeletionInProgress
<1> HIDE DEF n
<1>7. SomeTriggers(ssNotes[k]) \/ Triggers(n) => SomeTriggers(ssNotes[k])'
  BY <1>1, <1>4, <1>5, TriggerFacts, ZenonT(60)
<1>8. ASSUME Settled(k), ~Telling(ssCache[k], ssCache'[k]), ~Coming(k)'
      PROVE  Settled(k)'
  <2>1. ~Coming(k)
    BY <1>2, <1>8, ZenonT(60)
  <2>2. ssWatch'[k] \in Seq(SVersions)
    BY <1>1, <1>4
  <2>3. Tells(Chain(k)', sset'[k])
    BY <1>2, Zenon DEF ChainInv
  <2>4. \/ ssCache[k] = None /\ sset[k] = None
        \/ /\ ssCache[k] # None /\ sset[k] # None
           /\ ssCache[k].meta = sset[k].meta /\ ssCache[k].spec = sset[k].spec
    <3>1. PICK c \in SVersions : c = ssCache[k]
      BY <1>1, Zenon
    <3>2. PICK w \in Seq(SVersions) : w = ssWatch[k]
      BY <1>1, Zenon
    <3>3. Tells(<<c>> \o w, sset[k]) /\ ~TellingFrom(<<c>> \o w, 1)
            /\ ~(sset[k] # None /\ sset[k].deleting)
      BY <1>1, <2>1, <3>1, <3>2, Zenon DEF Coming, Chain
    <3> QED
      BY <3>1, <3>3, Untold, ZenonT(60)
  <2>5. \/ ssCache'[k] = None /\ sset[k] = None
        \/ /\ ssCache'[k] # None /\ sset[k] # None
           /\ ssCache'[k].meta = sset[k].meta /\ ssCache'[k].spec = sset[k].spec
    <3>1. PICK c \in SVersions : c = ssCache'[k]
      BY <1>2, Zenon
    <3>2. PICK w \in Seq(SVersions) : w = ssWatch'[k]
      BY <2>2, Zenon
    <3>3. Tells(<<c>> \o w, sset[k]) /\ ~TellingFrom(<<c>> \o w, 1)
            /\ ~(sset[k] # None /\ sset[k].deleting)
      BY <1>3, <1>8, <2>3, <3>1, <3>2, Zenon DEF Coming, Chain
    <3> QED
      BY <3>1, <3>3, Untold, ZenonT(60)
  <2> QED
    BY <1>3, <1>8, <2>4, <2>5, Zenon DEF Settled, inputHash
<1>9. Busy(k) => Busy(k)'
  BY <1>3, Zenon DEF Busy
<1> QED
  BY <1>2, <1>3, <1>6, <1>7, <1>8, <1>9, ZenonT(60) DEF Owed

\* A version of an object that queues nothing is like the one before.
LEMMA NewVersionAlike ==
  ASSUME NoBlindSpots, TypeOK, WatchInv, VersionInv, NEW k \in Keys,
         ReceiveCR(k) \/ RelistCR(k), InCharge(crCache'[k])
  PROVE  \/ SomeEnqueues(crNotes[k])'
         \/ /\ InCharge(crCache[k])
            /\ crCache'[k].uid = crCache[k].uid /\ crCache'[k].gen = crCache[k].gen
            /\ crCache'[k].meta = crCache[k].meta
            /\ \A x : UpToDate(x, crCache[k]) => UpToDate(x, crCache'[k])
<1>1. /\ crCache[k] \in Versions /\ cr[k] \in Versions /\ crWatch[k] \in Seq(Versions)
  BY ObjectTypes, Zenon
<1>2. Desired(crCache'[k]) /\ ~crCache'[k].paused /\ HiddenRecreation = FALSE
  BY Zenon DEF InCharge, NoBlindSpots
<1>3. /\ crCache'[k] \in Versions /\ Follows(crCache[k], crCache'[k])
      /\ \E n : /\ n.old = Desire(crCache[k]) /\ n.cur = Desire(crCache'[k])
                /\ Desired(crCache'[k]) /\ Enqueues(n) => SomeEnqueues(crNotes[k])'
  BY <1>2, NewVersion, Zenon
<1>4. PICK n : /\ n.old = Desire(crCache[k]) /\ n.cur = Desire(crCache'[k])
               /\ Desired(crCache'[k]) /\ Enqueues(n) => SomeEnqueues(crNotes[k])'
  BY <1>3, Zenon
<1>5. PICK d \in Versions : d = crCache'[k]
  BY <1>3, Zenon
<1>6. PICK c \in Versions : c = crCache[k]
  BY <1>1, Zenon
<1>7. CASE Enqueues(n)
  BY <1>2, <1>4, <1>7, Zenon
<1>8. CASE ~Enqueues(n)
  <2>1. Desired(c) /\ \A x : UpToDate(x, c) => UpToDate(x, d)
    BY <1>2, <1>3, <1>4, <1>5, <1>6, <1>8, IgnoredVersion, ZenonT(60)
  <2>2. /\ c # None /\ d # None /\ c.uid = d.uid /\ c.gen = d.gen /\ c.meta = d.meta
    <3>1. c # None /\ d # None
      BY <1>2, <1>5, <2>1, Zenon DEF Desired, Present
    <3>2. UpToDate(c, c)
      BY <3>1, Zenon DEF UpToDate, hasStateChanged
    <3>3. UpToDate(c, d)
      BY <2>1, <3>2, Zenon
    <3> QED
      BY <3>1, <3>3, Zenon DEF UpToDate, hasStateChanged
  <2>3. c \in InUse(k) /\ d \in InUse(k)
    <3>1. CASE d = cr[k]
      BY <1>6, <3>1, Zenon DEF InUse
    <3>2. CASE \E i \in 1..Len(crWatch[k]) : d = crWatch[k][i]
      BY <1>6, <3>2, ZenonT(60) DEF InUse
    <3>3. RelistCR(k) => d = cr[k]
      BY <1>5 DEF RelistCR, TypeOK
    <3>4. ASSUME ReceiveCR(k)
          PROVE  \E i \in 1..Len(crWatch[k]) : d = crWatch[k][i]
      <4>1. d = Head(crWatch[k]) /\ crWatch[k] # <<>>
        BY <1>5, <3>4, ZenonT(60) DEF ReceiveCR, TypeOK
      <4>2. PICK w \in Seq(Versions) : w = crWatch[k]
        BY <1>1, Zenon
      <4>3. w # <<>>
        BY <4>1, <4>2, Zenon
      <4>4. Head(w) = w[1] /\ 1 \in 1..Len(w)
        BY <4>3, SMTT(60)
      <4> QED
        BY <4>1, <4>2, <4>4, ZenonT(60)
    <3> QED
      BY <3>1, <3>2, <3>3, <3>4, Zenon
  <2>4. Agree(c, d)
    BY <2>3, Zenon DEF VersionInv, Consistent
  <2>5. InCharge(c)
    BY <1>2, <1>5, <2>1, <2>2, <2>4, ZenonT(60) DEF Agree, InCharge
  <2> QED
    BY <1>5, <1>6, <2>1, <2>2, <2>5, ZenonT(60)
<1> QED
  BY <1>7, <1>8, ZenonT(60)

\* A version of an object OnUpdate ignores asks for the same StatefulSet.
LEMMA NewVersionOwed ==
  ASSUME NoBlindSpots, TypeOK, WatchInv, VersionInv, NEW k \in Keys,
         ReceiveCR(k) \/ RelistCR(k), InCharge(crCache'[k]),
         InCharge(crCache[k]) => Owed(k)
  PROVE  Owed(k)'
<1>1. UNCHANGED <<rec, reconcileQ, ssCache, ssNotes, sset, ssWatch>>
  BY ZenonT(60) DEF ReceiveCR, RelistCR, recVars
<1>2. SomeEnqueues(crNotes[k]) => SomeEnqueues(crNotes[k])'
  BY NewVersion, Zenon DEF NoBlindSpots
<1>3. CASE SomeEnqueues(crNotes[k])'
  BY <1>3, Zenon DEF Owed
<1>4. CASE /\ InCharge(crCache[k])
           /\ crCache'[k].uid = crCache[k].uid /\ crCache'[k].gen = crCache[k].gen
           /\ crCache'[k].meta = crCache[k].meta
           /\ \A x : UpToDate(x, crCache[k]) => UpToDate(x, crCache'[k])
  <2>1. Settled(k) => Settled(k)'
    BY <1>1, <1>4, Zenon DEF Settled, inputHash
  <2>2. Busy(k) => Busy(k)'
    BY <1>1, Zenon DEF Busy
  <2>3. Coming(k) => Coming(k)'
    BY <1>1, Zenon DEF Coming, Chain
  <2>4. UpToDate(rec.obj, crCache[k]) => UpToDate(rec'.obj, crCache'[k])
    BY <1>1, <1>4, Zenon
  <2> QED
    BY <1>1, <1>2, <1>4, <2>1, <2>2, <2>3, <2>4, ZenonT(60) DEF Owed
<1> QED
  BY <1>3, <1>4, NewVersionAlike, ZenonT(60)

\* A Sync that read the object as it is leaves it settled.
LEMMA SyncSettles ==
  ASSUME NoBlindSpots, TypeOK, KeyHeld, ChainInv, VersionInv, LostInv, SyncApply, [Next]_vars,
         NEW j \in Keys, InCharge(crCache[j]), Owed(j), Busy(j) => Busy(j)'
  PROVE  Owed(j)'
<1>1. PICK e \in BOOLEAN : SyncReturns(e)
  BY Zenon DEF SyncApply, CreateStatefulSet, UpdateStatefulSet, RejectStatefulSet
<1>2. rec'.key = rec.key /\ rec'.obj = rec.obj
  BY <1>1, RecRecords, ZenonT(60) DEF SyncReturns, RecPcs
<1>3. UNCHANGED <<crCache, ssCache, crNotes, ssNotes>> /\ ~rec.err
  BY <1>1, Zenon DEF SyncReturns, cacheVars, SyncApply, LostInv
<1>4. /\ Coming(j) => Coming(j)'
      /\ rec'.err \/ rec.obj.paused \/ SyncedBy(rec.key, rec.obj)'
  BY SyncWrites, Zenon
<1>5. Settled(j) => Settled(j)'
  BY <1>3, Zenon DEF Settled
<1>6. ASSUME rec.key = j, UpToDate(rec.obj, crCache[j])
      PROVE  Owed(j)'
  <2>1. PICK o \in Versions : o = rec.obj
    BY DEF TypeOK, Versions
  <2>2. PICK c \in Versions : c = crCache[j]
    BY ObjectTypes, Zenon
  <2>3. /\ o # None /\ c # None /\ o.uid = c.uid /\ o.gen = c.gen /\ o.meta = c.meta
    BY <1>6, <2>1, <2>2, Zenon DEF UpToDate, hasStateChanged, InCharge, Desired, Present
  <2>4. Agree(o, c)
    <3>1. o \in InUse(j) /\ c \in InUse(j)
      BY <1>6, <2>1, <2>2, Zenon DEF InUse
    <3> QED
      BY <3>1, Zenon DEF VersionInv, Consistent
  <2>5. ~o.paused
    BY <2>2, <2>3, <2>4, Zenon DEF Agree, InCharge
  <2>6. rec'.err \/ SyncedBy(j, o)'
    BY <1>2, <1>4, <1>6, <2>1, <2>5, Zenon
  <2>7. SyncedBy(j, o)' => Coming(j)' \/ Settled(j)'
    BY <1>3, <2>2, <2>3, Zenon DEF SyncedBy, Settled, inputHash
  <2> QED
    BY <1>2, <1>6, <2>6, <2>7, ZenonT(60) DEF Owed
<1> QED
  BY <1>2, <1>3, <1>4, <1>5, <1>6, Zenon DEF Owed

\* Every step keeps SettledInv.
LEMMA SettledNext ==
  ASSUME NoBlindSpots, TypeOK, KeyHeld, WatchInv, ChainInv, VersionInv, LostInv, SettledInv,
         [Next]_vars
  PROVE  SettledInv'
<1>1. /\ \A k \in Keys : /\ crCache[k] \in Versions
                         /\ crNotes[k] \in Seq(Note(Object))
                         /\ ssNotes[k] \in Seq(Note(StatefulSet))
      /\ reconcileQ \in Queue /\ None \notin Keys
  BY NoneAssumption, SMTT(60) DEF TypeOK, Versions
<1>2. CASE Restart
  <2>1. crCache' = cr
    BY <1>2, Zenon DEF Restart
  <2>2. \A k \in Keys : Desired(cr[k]) => SomeEnqueues(crNotes[k])'
    BY <1>2, RestartNotifies
  <2> QED
    BY <2>1, <2>2, Zenon DEF SettledInv, InCharge, Owed
<1>3. ASSUME NEW k \in Keys, ReceiveSset(k)
      PROVE  SettledInv'
  <2>1. UNCHANGED <<rec, reconcileQ, crCache, crNotes>>
    BY <1>3, Zenon DEF ReceiveSset, recVars
  <2>2. \A j \in Keys \ {k} : /\ ssCache'[j] = ssCache[j] /\ ssNotes'[j] = ssNotes[j]
                              /\ Coming(j) => Coming(j)'
    <3>1. \A j \in Keys \ {k} : ssNotes'[j] = ssNotes[j]
      BY <1>3 DEF ReceiveSset, Notify, TypeOK
    <3> QED
      BY <1>3, <3>1, ReceiveTells, ZenonT(60)
  <2>3. ASSUME NEW j \in Keys, InCharge(crCache[j])
        PROVE  Owed(j)'
    <3>1. Owed(j)
      BY <2>3, Zenon DEF SettledInv
    <3>2. CASE j = k
      BY <1>3, <2>3, <3>1, <3>2, ReceiveSettles, ZenonT(60)
    <3>3. CASE j # k
      BY <2>1, <2>2, <3>1, <3>3, Zenon DEF Owed, Busy, Settled
    <3> QED
      BY <3>2, <3>3, Zenon
  <2> QED
    BY <2>1, <2>3, Zenon DEF SettledInv
<1>4. ASSUME ~Restart, \A k \in Keys : ~ReceiveSset(k)
      PROVE  UNCHANGED ssCache /\ \A j \in Keys : Coming(j) => Coming(j)'
  BY <1>4, ChainNext, Zenon
<1>5. ASSUME ~Restart, ~SyncRead
      PROVE  \A j \in Keys : Busy(j) => Busy(j)'
  BY <1>5, BusyStays, Zenon
<1>6. CASE ~Restart /\ (\A k \in Keys : ~ReceiveSset(k)) /\ SyncRead
  <2>1. PICK k \in Keys : k = Head(reconcileQ.queue)
    BY <1>1, <1>6, GetFacts, ZenonT(60) DEF SyncRead
  <2>2. /\ rec'.key = k /\ rec'.obj = Desire(crCache[k])
        /\ Present(crCache[k]) => rec'.pc = "apply"
    BY <1>6, <2>1, ZenonT(60) DEF SyncRead
  <2>3. /\ UNCHANGED <<crCache, crNotes, ssNotes>> /\ rec.key = None
        /\ reconcileQ' = Get(reconcileQ) /\ reconcileQ.queue # <<>>
    BY <1>6, ZenonT(60) DEF SyncRead, cacheVars, KeyHeld
  <2>4. ASSUME NEW j \in Keys, j # k, Busy(j)
        PROVE  Busy(j)'
    BY <1>1, <2>1, <2>3, <2>4, GetFacts, ZenonT(60) DEF Busy, Pending
  <2>5. ASSUME NEW j \in Keys, InCharge(crCache[j])
        PROVE  Owed(j)'
    <3>1. CASE j = k
      <4>1. Desired(crCache[k]) /\ Present(crCache[k])
        BY <2>5, <3>1, Zenon DEF InCharge, Desired
      <4>2. UpToDate(Desire(crCache[k]), crCache[k])
        BY <1>1, <4>1, DesireType, ZenonT(60) DEF Present, UpToDate, hasStateChanged
      <4> QED
        BY <2>2, <2>3, <3>1, <4>1, <4>2, ZenonT(60) DEF Owed
    <3>2. CASE j # k
      <4>1. Owed(j)
        BY <2>5, Zenon DEF SettledInv
      <4>2. rec.key # j
        BY <1>1, <2>3, Zenon
      <4> QED
        BY <1>4, <1>6, <2>3, <2>4, <3>2, <4>1, <4>2, ZenonT(60) DEF Owed, Settled
    <3> QED
      BY <3>1, <3>2, Zenon
  <2> QED
    BY <2>3, <2>5, Zenon DEF SettledInv
<1> DEFINE Plain == ~Restart /\ ~SyncRead /\ \A k \in Keys : ~ReceiveSset(k)
<1>7. ASSUME Plain
      PROVE  /\ UNCHANGED ssCache
             /\ \A j \in Keys : (Coming(j) => Coming(j)') /\ (Busy(j) => Busy(j)')
  BY <1>4, <1>5, <1>7, ZenonT(60)
<1>8. ASSUME Plain, UNCHANGED crCache,
             \A j \in Keys : /\ SomeEnqueues(crNotes[j]) => SomeEnqueues(crNotes[j])' \/ Busy(j)'
                             /\ InCharge(crCache[j]) /\ SomeTriggers(ssNotes[j])
                                  => SomeTriggers(ssNotes[j])' \/ Busy(j)'
                             /\ rec.key = j /\ rec.err => (rec'.key = j /\ rec'.err) \/ Busy(j)'
                             /\ rec.key = j /\ rec.pc = "apply" => rec' = rec
      PROVE  SettledInv'
  <2>1. ASSUME NEW j \in Keys, InCharge(crCache[j])
        PROVE  Owed(j)'
    <3>1. Owed(j)
      BY <2>1, Zenon DEF SettledInv
    <3>2. Settled(j) => Settled(j)'
      BY <1>7, <1>8, Zenon DEF Settled
    <3>3. (Coming(j) => Coming(j)') /\ (Busy(j) => Busy(j)')
      BY <1>7, <1>8, Zenon
    <3>4. rec.key = j /\ rec.pc = "apply" /\ UpToDate(rec.obj, crCache[j]) => Owed(j)'
      BY <1>8, Zenon DEF Owed
    <3> QED
      BY <1>8, <2>1, <3>1, <3>2, <3>3, <3>4, ZenonT(60) DEF Owed
  <2> QED
    BY <1>8, <2>1, Zenon DEF SettledInv
<1>9. ASSUME Plain, UNCHANGED <<crCache, crNotes, ssNotes, rec>>
      PROVE  SettledInv'
  BY <1>8, <1>9, Zenon
<1> HIDE DEF Plain
<1>10. CASE Plain /\ \E k \in Keys : Users(k) \/ Cluster(k) \/ Timers(k) \/ RefreshStatusFor(k)
  <2>1. UNCHANGED <<crCache, crNotes, ssNotes, rec>>
    BY <1>10, ZenonT(60) DEF Users, CreateObject, EditSpec, EditMeta, DeleteObject, UserEdit,
                FinalizeObject, Cluster, GarbageCollect, PodsReady, PodsFail, LoseSset,
                DriftSset, SsetEvent, Timers, ReleaseRec, ReleaseStat,
                StatusPoller, RefreshStatusFor, cacheVars, recVars
  <2> QED
    BY <1>9, <1>10, <2>1, ZenonT(60)
<1>11. CASE Plain /\ (StatWorker \/ Stop \/ UNCHANGED vars)
  <2>1. UNCHANGED <<crCache, crNotes, ssNotes, rec>>
    BY <1>11, ZenonT(60) DEF StatWorker, StatRead, StatApply, StatExit, Stop, vars, cacheVars,
                recVars
  <2> QED
    BY <1>9, <1>11, <2>1, Zenon
<1>12. ASSUME Plain, NEW k \in Keys, HandleCR(k)
       PROVE  SettledInv'
  <2>1. UNCHANGED <<rec, crCache, ssNotes>>
    BY <1>12, ZenonT(60) DEF HandleCR, recVars
  <2>2. /\ crNotes[k] # <<>> /\ crNotes'[k] = Tail(crNotes[k])
        /\ \A j \in Keys \ {k} : crNotes'[j] = crNotes[j]
        /\ Enqueues(Head(crNotes[k])) => reconcileQ' = Add(reconcileQ, k)
    BY <1>12, ZenonT(60) DEF HandleCR, TypeOK
  <2>3. Enqueues(Head(crNotes[k])) => Busy(k)'
    <3>1. Add(reconcileQ, k).down \/ k \in Add(reconcileQ, k).dirty
      BY <1>1, AddFacts, SMTT(60)
    <3> QED
      BY <2>2, <3>1, ZenonT(60) DEF Busy, Pending
  <2>4. SomeEnqueues(crNotes[k]) /\ ~Enqueues(Head(crNotes[k])) => SomeEnqueues(crNotes[k])'
    <3>1. Head(crNotes[k]) \in Note(Object) /\ <<>> \in Seq(Note(Object))
      BY <1>1, <2>2
    <3> QED
      BY <1>1, <2>2, <3>1, NotesFacts, ZenonT(60)
  <2>5. \A j \in Keys : SomeEnqueues(crNotes[j]) => SomeEnqueues(crNotes[j])' \/ Busy(j)'
    BY <2>2, <2>3, <2>4, Zenon
  <2> QED
    BY <1>8, <1>12, <2>1, <2>5, ZenonT(60)
<1>13. ASSUME Plain, NEW k \in Keys, HandleSset(k)
       PROVE  SettledInv'
  <2>1. UNCHANGED <<rec, crCache, crNotes>>
    BY <1>13, ZenonT(60) DEF HandleSset, recVars
  <2>2. /\ ssNotes[k] # <<>> /\ ssNotes'[k] = Tail(ssNotes[k])
        /\ \A j \in Keys \ {k} : ssNotes'[j] = ssNotes[j]
    BY <1>13, ZenonT(60) DEF HandleSset, TypeOK
  <2>3. InCharge(crCache[k]) /\ Triggers(Head(ssNotes[k])) => Busy(k)'
    BY <1>13, TriggersQueue, Zenon
  <2>4. SomeTriggers(ssNotes[k]) /\ ~Triggers(Head(ssNotes[k])) => SomeTriggers(ssNotes[k])'
    <3>1. Head(ssNotes[k]) \in Note(StatefulSet)
      BY <1>1, <2>2
    <3> QED
      BY <1>1, <2>2, <3>1, TriggerFacts, ZenonT(60)
  <2>5. \A j \in Keys : InCharge(crCache[j]) /\ SomeTriggers(ssNotes[j])
                          => SomeTriggers(ssNotes[j])' \/ Busy(j)'
    BY <2>2, <2>3, <2>4, ZenonT(60)
  <2> QED
    BY <1>8, <1>13, <2>1, <2>5, ZenonT(60)
<1>14. ASSUME Plain, NEW k \in Keys, Resync(k)
       PROVE  SettledInv'
  <2>1. UNCHANGED <<rec, crCache>>
    BY <1>14, Zenon DEF Resync, recVars
  <2>2. \/ /\ crNotes' = [crNotes EXCEPT ![k] = Append(@, ResyncNote(Desire(crCache[k])))]
           /\ UNCHANGED ssNotes
        \/ /\ ssCache[k] # None
           /\ ssNotes' = [ssNotes EXCEPT ![k] = Append(@, ResyncNote(ssCache[k]))]
           /\ UNCHANGED crNotes
    BY <1>14, Zenon DEF Resync
  <2>3. CASE /\ crNotes' = [crNotes EXCEPT ![k] = Append(@, ResyncNote(Desire(crCache[k])))]
             /\ UNCHANGED ssNotes
    <3>1. ResyncNote(Desire(crCache[k])) \in Note(Object)
      BY <1>1, DesireType, NoteType, ZenonT(60) DEF Versions, ResyncNote
    <3>2. /\ crNotes'[k] = Append(crNotes[k], ResyncNote(Desire(crCache[k])))
          /\ \A j \in Keys \ {k} : crNotes'[j] = crNotes[j]
      BY <2>3 DEF TypeOK
    <3>3. \A j \in Keys : SomeEnqueues(crNotes[j]) => SomeEnqueues(crNotes[j])'
      BY <1>1, <3>1, <3>2, NotesFacts, ZenonT(60)
    <3> QED
      BY <1>8, <1>14, <2>1, <2>3, <3>3, ZenonT(60)
  <2>4. CASE /\ ssCache[k] # None
             /\ ssNotes' = [ssNotes EXCEPT ![k] = Append(@, ResyncNote(ssCache[k]))]
             /\ UNCHANGED crNotes
    <3>1. ResyncNote(ssCache[k]) \in Note(StatefulSet)
      <4>1. ssCache[k] \in SVersions
        BY SsetTypes, ZenonT(60)
      <4> QED
        BY <4>1, ZenonT(60) DEF Note, SVersions, ResyncNote
    <3>2. /\ ssNotes'[k] = Append(ssNotes[k], ResyncNote(ssCache[k]))
          /\ \A j \in Keys \ {k} : ssNotes'[j] = ssNotes[j]
      BY <2>4 DEF TypeOK
    <3>3. \A j \in Keys : SomeTriggers(ssNotes[j]) => SomeTriggers(ssNotes[j])'
      BY <1>1, <3>1, <3>2, TriggerFacts, ZenonT(60)
    <3> QED
      BY <1>8, <1>14, <2>1, <2>4, <3>3, ZenonT(60)
  <2> QED
    BY <2>2, <2>3, <2>4, ZenonT(60)
<1>15. ASSUME Plain, NEW k \in Keys, ReceiveCR(k) \/ RelistCR(k)
       PROVE  SettledInv'
  <2>1. UNCHANGED <<rec, reconcileQ, ssNotes>>
    BY <1>15, Zenon DEF ReceiveCR, RelistCR, recVars
  <2>2. \A j \in Keys \ {k} : crCache'[j] = crCache[j] /\ crNotes'[j] = crNotes[j]
    BY <1>15, NewVersion, ZenonT(60) DEF NoBlindSpots
  <2>3. ASSUME NEW j \in Keys, InCharge(crCache'[j])
        PROVE  Owed(j)'
    <3>1. InCharge(crCache[j]) => Owed(j)
      BY Zenon DEF SettledInv
    <3>2. CASE j = k
      BY <1>15, <2>3, <3>1, <3>2, NewVersionOwed, ZenonT(60)
    <3>3. CASE j # k
      BY <1>7, <1>15, <2>1, <2>2, <2>3, <3>1, <3>3, ZenonT(60) DEF Owed, Settled
    <3> QED
      BY <3>2, <3>3, Zenon
  <2> QED
    BY <2>3, Zenon DEF SettledInv
<1>16. CASE Plain /\ SyncApply
  <2>1. UNCHANGED crCache
    BY <1>16, Zenon DEF SyncApply, CreateStatefulSet, UpdateStatefulSet, RejectStatefulSet,
                        SyncReturns, cacheVars
  <2>2. ASSUME NEW j \in Keys, InCharge(crCache[j])
        PROVE  Owed(j)'
    <3>1. Owed(j) /\ (Busy(j) => Busy(j)')
      BY <1>7, <1>16, <2>2, ZenonT(60) DEF SettledInv
    <3> QED
      BY <1>16, <2>2, <3>1, SyncSettles, ZenonT(60)
  <2> QED
    BY <2>1, <2>2, Zenon DEF SettledInv
<1>17. CASE Plain /\ SyncReport
  <2>1. /\ rec'.key = rec.key /\ rec'.err = rec.err /\ rec.pc # "apply"
    BY <1>17, RecRecords, ZenonT(60) DEF SyncReport, RecPcs
  <2>2. UNCHANGED <<crCache, crNotes, ssNotes>>
    BY <1>17, Zenon DEF SyncReport, cacheVars
  <2> QED
    BY <1>8, <1>17, <2>1, <2>2, ZenonT(60)
<1>18. CASE Plain /\ RecFinish
  <2>1. rec.pc # "apply" /\ UNCHANGED <<crCache, crNotes, ssNotes>>
    BY <1>18, SMTT(60) DEF RecFinish, cacheVars
  <2>2. \A j \in Keys : rec.key = j /\ rec.err => Busy(j)'
    BY <1>18, FailureQueued, Zenon
  <2> QED
    BY <1>8, <1>18, <2>1, <2>2, ZenonT(60)
<1>19. CASE Plain /\ RecExit
  <2>1. rec.key = None /\ UNCHANGED <<crCache, crNotes, ssNotes>>
    BY <1>19, Zenon DEF RecExit, KeyHeld, cacheVars
  <2> QED
    BY <1>1, <1>8, <1>19, <2>1, ZenonT(60)
<1>20. \A k \in Keys : ~RelistSset(k)
  BY Zenon DEF RelistSset, Gap, NoBlindSpots
<1>21. Plain \/ Restart \/ SyncRead \/ \E k \in Keys : ReceiveSset(k)
  BY Zenon DEF Plain
<1>22. CASE Plain
  BY <1>10, <1>11, <1>12, <1>13, <1>14, <1>15, <1>16, <1>17, <1>18, <1>19, <1>20, <1>22, ZenonT(60)
     DEF Next, RecWorker, Informers, Handlers, Plain
<1> QED
  BY <1>2, <1>3, <1>6, <1>21, <1>22, ZenonT(60)

\* Nothing exists at the beginning.
LEMMA ConvergenceInit ==
  ASSUME Init
  PROVE  WatchInv /\ LostInv /\ ChainInv /\ VersionInv /\ SettledInv
<1>1. WatchInv /\ LostInv
  BY SMTT(60) DEF Init, WatchInv, Leads, Earlier, LostInv, Desired, Present, IdleRec
<1>2. ASSUME NEW k \in Keys
      PROVE  /\ Tells(Chain(k), sset[k]) /\ sset[k] = None
             /\ Consistent(InUse(k), cr[k], edits) /\ ~InCharge(crCache[k])
  <2>1. /\ ssCache[k] = None /\ ssWatch[k] = <<>> /\ sset[k] = None
        /\ crCache[k] = None /\ cr[k] = None /\ crWatch[k] = <<>> /\ rec.obj = None
    BY DEF Init, IdleRec
  <2>2. None \in SVersions /\ <<>> \in Seq(SVersions)
    BY DEF SVersions
  <2>3. Chain(k) = <<None>>
    BY <2>1, <2>2, ChainFacts DEF Chain
  <2>4. Tells(Chain(k), sset[k])
    BY <2>1, <2>2, <2>3, TellsNow, ZenonT(60)
  <2>5. 1..Len(<<>>) = {} /\ None \in Versions
    BY DEF Versions
  <2>6. InUse(k) = {None}
    BY <2>1, <2>5, Zenon DEF InUse
  <2>7. Consistent(InUse(k), cr[k], edits)
    BY <2>1, <2>6, Zenon DEF Consistent, Past, Agree
  <2> QED
    BY <2>1, <2>4, <2>7, ZenonT(60) DEF InCharge, Desired, Present
<1> QED
  BY <1>1, <1>2, Zenon DEF ChainInv, VersionInv, SettledInv

\* Without versions in flight, the cache is up to date.
LEMMA QuietCache ==
  ASSUME TypeOK, ChainInv, NEW k \in Keys, ssWatch[k] = <<>>
  PROVE  Chain(k) = <<ssCache[k]>> /\ ssCache[k] \in SVersions /\ ssCache[k] = sset[k]
<1>1. ssCache[k] \in SVersions /\ <<>> \in Seq(SVersions)
  BY SsetTypes, ZenonT(60)
<1>2. Chain(k) = <<ssCache[k]>>
  BY <1>1, ChainFacts, ZenonT(60) DEF Chain
<1>3. Tells(<<ssCache[k]>>, sset[k])
  BY <1>2, Zenon DEF ChainInv
<1>4. ssCache[k] = sset[k]
  BY <1>3 DEF Tells
<1> QED
  BY <1>1, <1>2, <1>4, Zenon

\* When the operator has nothing left to do for an object it looks after, the
\* StatefulSet of the object exists and was built from the object as it is,
\* outside the cases NoBlindSpots names.
THEOREM QuietMeansConverged ==
  ASSUME NoBlindSpots
  PROVE  Spec => []QuietConverged
<1> DEFINE Inv == WatchInv /\ LostInv /\ ChainInv /\ VersionInv /\ SettledInv
<1>1. HiddenRecreation = FALSE
  BY DEF NoBlindSpots
<1>2. Init => Inv
  BY ConvergenceInit, Zenon
<1>3. TypeOK /\ KeyHeld /\ Inv /\ [Next]_vars => Inv'
  BY <1>1, WatchNext, LostNext, ChainNext, VersionNext, SettledNext, ZenonT(60)
<1>4. TypeOK /\ Inv => QuietConverged
  <2> SUFFICES ASSUME TypeOK, Inv, NEW k \in Keys, Quiet(k), InCharge(cr[k])
               PROVE  Built(sset[k], cr[k])
    BY ZenonT(60) DEF QuietConverged
  <2>1. crCache[k] = cr[k]
    BY ZenonT(60) DEF WatchInv, Leads, Quiet
  <2>2. ssCache[k] \in SVersions /\ Chain(k) = <<ssCache[k]>>
    BY QuietCache, ZenonT(60) DEF Quiet
  <2>3. ssCache[k] = sset[k]
    BY QuietCache, ZenonT(60) DEF Quiet
  <2>4. ~Coming(k)
    BY <2>2, TellsNow, Zenon DEF Coming, Quiet, Garbage
  <2>5. Settled(k)
    <3>1. Owed(k)
      BY <2>1, ZenonT(60) DEF SettledInv
    <3>2. ~SomeEnqueues(crNotes[k]) /\ ~SomeTriggers(ssNotes[k])
      BY DEF Quiet, SomeEnqueues, SomeTriggers
    <3> QED
      BY <2>4, <3>1, <3>2, Zenon DEF Owed, Quiet
  <2>6. sset[k] # None /\ sset[k].meta = inputHash(cr[k], sset[k])
    BY <2>1, <2>3, <2>5, Zenon DEF Settled
  <2>7. sset[k].spec = cr[k].gen
    <3>1. sset[k].spec = sset[k].meta[1]
      BY <2>6, ZenonT(60) DEF ChainInv
    <3>2. inputHash(cr[k], sset[k])[1] = cr[k].gen
      BY DEF inputHash
    <3> QED
      BY <2>6, <3>1, <3>2, Zenon
  <2>8. sset[k].owner = cr[k].uid
    <3>1. cr[k] # None
      BY Zenon DEF InCharge, Desired, Present
    <3> QED
      BY <2>6, <3>1, Zenon DEF Quiet, Garbage
  <2> QED
    BY <2>6, <2>7, <2>8, ZenonT(60) DEF Built
<1> HIDE DEF Inv
<1> QED
  BY <1>2, <1>3, <1>4, TypeCorrect, PTL DEF Spec

-----------------------------------------------------------------------------
(* The status *)

\* The notification makes the handlers queue the owner for one of the workers.
Speaks(n) ==
  \/ n.old = None
  \/ n.old # None /\ n.cur # None /\ ~n.resync /\ ~DeletionInProgress(n.cur)
  \/ n.old # None /\ n.cur = None /\ ~n.tomb

SomeSpeaks(notes) == \E i \in DOMAIN notes : Speaks(notes[i])

\* Handling one notification and adding another.
LEMMA SpeakFacts ==
  ASSUME NEW s \in Seq(Note(StatefulSet)), NEW n \in Note(StatefulSet)
  PROVE  /\ SomeSpeaks(s) \/ Speaks(n) => SomeSpeaks(Append(s, n))
         /\ s # <<>> /\ SomeSpeaks(s) /\ ~Speaks(Head(s)) => SomeSpeaks(Tail(s))
<1>1. /\ \A i \in DOMAIN s : i \in DOMAIN Append(s, n) /\ Append(s, n)[i] = s[i]
      /\ Len(s) + 1 \in DOMAIN Append(s, n) /\ Append(s, n)[Len(s) + 1] = n
  BY SMTT(60)
<1>2. ASSUME s # <<>>
      PROVE  /\ \A i \in DOMAIN s : i # 1 => i - 1 \in DOMAIN Tail(s) /\ Tail(s)[i - 1] = s[i]
             /\ Head(s) = s[1]
  BY <1>2
<1>3. SomeSpeaks(s) \/ Speaks(n) => SomeSpeaks(Append(s, n))
  BY <1>1, Zenon DEF SomeSpeaks
<1>4. ASSUME s # <<>>, SomeSpeaks(s), ~Speaks(Head(s))
      PROVE  SomeSpeaks(Tail(s))
  <2>1. PICK i \in DOMAIN s : Speaks(s[i])
    BY <1>4, Zenon DEF SomeSpeaks
  <2>2. i # 1
    BY <1>2, <1>4, <2>1, Zenon
  <2> QED
    BY <1>2, <1>4, <2>1, <2>2, Zenon DEF SomeSpeaks
<1> QED
  BY <1>3, <1>4, Zenon

\* A Sync of k is to come, or to end: it queues k for its status.
SyncDue(k) == Busy(k) \/ rec.key = k \/ SomeEnqueues(crNotes[k])

\* News of the StatefulSet is to come.
News(k) == SomeSpeaks(ssNotes[k]) \/ ssWatch[k] # <<>> \/ (sset[k] # None /\ sset[k].deleting)

\* k is queued for its status.
StatusDue(k) == statusQ.down \/ Pending(statusQ, k)

\* The cached object is not the one that exists.
Gone(k) == cr[k] = None \/ cr[k].uid # crCache[k].uid

\* What UpdateStatus finds to report on k, and what it has reported or is about
\* to report.
Reading(k) == [avail |-> Available(ssCache[k], sset[k]), rec |-> GetCondition(k),
               obs |-> crCache[k].gen]

Reported(k) ==
  IF stat.key = k THEN [avail |-> stat.avail, rec |-> stat.rec, obs |-> stat.gen] = Reading(k)
                  ELSE cr[k] # None /\ cr[k].status = Reading(k)

StatusOwed(k) == SyncDue(k) \/ News(k) \/ StatusDue(k) \/ Gone(k) \/ Reported(k)

\* QuietStatusAccurate, made inductive.
StatusInv == \A k \in Keys : InCharge(crCache[k]) => StatusOwed(k)

\* The tracker knows of every Sync that returned, and the queues go down together.
TrackerInv ==
  /\ statusQ.down => reconcileQ.down
  /\ \A k \in Keys : synced[k] # None => tracker[k] # "none" \/ rec.key = k
  /\ rec.pc = "finish" => tracker[rec.key] # "none"

\* What a step may change of the queue of the statuses.
LEMMA StatusQueue ==
  ASSUME TypeOK, KeyHeld, [Next]_vars, ~Restart, ~Stop
  PROVE  statusQ'.down = statusQ.down /\ reconcileQ'.down = reconcileQ.down
<1>1. reconcileQ \in Queue /\ statusQ \in Queue
  BY ZenonT(60) DEF TypeOK
<1>2. \A k \in Keys : /\ Add(reconcileQ, k).down = reconcileQ.down
                      /\ Add(statusQ, k).down = statusQ.down
                      /\ Release(reconcileQ, k).down = reconcileQ.down
                      /\ Release(statusQ, k).down = statusQ.down
  BY <1>1, AddFacts, ReleaseFacts, Zenon
<1>3. ASSUME UNCHANGED <<reconcileQ, statusQ>>
      PROVE  statusQ'.down = statusQ.down /\ reconcileQ'.down = reconcileQ.down
  BY <1>3, Zenon
<1>4. ASSUME NEW k \in Keys, NEW o,
             EnqueueForReconciliation(k, o) \/ EnqueueForStatus(k, o) \/ Ignore
      PROVE  statusQ'.down = statusQ.down /\ reconcileQ'.down = reconcileQ.down
  <2>1. /\ reconcileQ' = reconcileQ \/ reconcileQ' = Add(reconcileQ, k)
        /\ statusQ' = statusQ \/ statusQ' = Add(statusQ, k)
    BY <1>4, ZenonT(60) DEF EnqueueForReconciliation, EnqueueForStatus, Ignore
  <2>2. reconcileQ'.down = reconcileQ.down
    BY <1>2, <2>1, Zenon
  <2>3. statusQ'.down = statusQ.down
    BY <1>2, <2>1
  <2> QED
    BY <2>2, <2>3, Zenon
<1>5. ASSUME NEW k \in Keys, Users(k) \/ Cluster(k) \/ Informers(k)
      PROVE  UNCHANGED <<reconcileQ, statusQ>>
  BY <1>5, ZenonT(60)
     DEF Users, CreateObject, EditSpec, EditMeta, DeleteObject, UserEdit, FinalizeObject,
         Cluster, GarbageCollect, PodsReady, PodsFail, LoseSset, DriftSset, SsetEvent,
         Informers, ReceiveCR, ReceiveSset, RelistCR, RelistSset, Resync
<1>6. ASSUME NEW k \in Keys, HandleSset(k) \/ StatusPoller(k) \/ RefreshStatusFor(k)
      PROVE  \E o : EnqueueForReconciliation(k, o) \/ EnqueueForStatus(k, o) \/ Ignore
  BY <1>6, ZenonT(60) DEF HandleSset, onStatefulSetAdd, onStatefulSetUpdate,
                          onStatefulSetDelete, StatusPoller, RefreshStatusFor
<1>7. ASSUME NEW k \in Keys, HandleCR(k) \/ ReleaseRec(k) \/ ReleaseStat(k)
      PROVE  statusQ'.down = statusQ.down /\ reconcileQ'.down = reconcileQ.down
  <2>1. /\ \/ reconcileQ' = reconcileQ \/ reconcileQ' = Add(reconcileQ, k)
           \/ reconcileQ' = Release(reconcileQ, k)
        /\ statusQ' = statusQ \/ statusQ' = Release(statusQ, k)
    BY <1>7, ZenonT(60) DEF HandleCR, ReleaseRec, ReleaseStat
  <2>2. reconcileQ'.down = reconcileQ.down
    BY <1>2, <2>1, Zenon
  <2>3. statusQ'.down = statusQ.down
    BY <1>2, <2>1
  <2> QED
    BY <2>2, <2>3, Zenon
<1>8. CASE SyncRead
  BY <1>1, <1>8, GetFacts, ZenonT(60) DEF SyncRead
<1>9. CASE SyncApply
  BY <1>9, ZenonT(60) DEF SyncApply, CreateStatefulSet, UpdateStatefulSet, RejectStatefulSet,
                          SyncReturns
<1>10. CASE SyncReport \/ RecExit \/ StatExit
  BY <1>10, ZenonT(60) DEF SyncReport, RecExit, StatExit
<1>11. CASE RecFinish
  <2>1. PICK k \in Keys : k = rec.key
    BY <1>11, ZenonT(60) DEF RecFinish, KeyHeld, TypeOK
  <2>2. /\ statusQ' = Add(statusQ, k)
        /\ reconcileQ' = Done(reconcileQ, k)
             \/ reconcileQ' = Done(AddRateLimited(reconcileQ, k), k)
    BY <1>11, <2>1, ZenonT(60) DEF RecFinish
  <2>3. /\ AddRateLimited(reconcileQ, k) \in Queue
        /\ AddRateLimited(reconcileQ, k).down = reconcileQ.down
    BY <1>1, AddRateLimitedFacts, Zenon
  <2>4. Done(reconcileQ, k).down = reconcileQ.down
    BY <1>1, DoneFacts, Zenon
  <2>5. Done(AddRateLimited(reconcileQ, k), k).down = reconcileQ.down
    BY <2>3, DoneFacts, Zenon
  <2>6. reconcileQ'.down = reconcileQ.down
    BY <2>2, <2>4, <2>5, Zenon
  <2>7. statusQ'.down = statusQ.down
    BY <1>2, <2>2, Zenon
  <2> QED
    BY <2>6, <2>7, Zenon
<1>12. CASE StatRead
  <2>1. UNCHANGED reconcileQ /\ statusQ.queue # <<>>
    BY <1>12, ZenonT(60) DEF StatRead
  <2>2. PICK k \in Keys : k = Head(statusQ.queue)
    BY <1>1, <2>1, GetFacts, ZenonT(60)
  <2>3. statusQ' = Get(statusQ) \/ statusQ' = Done(Get(statusQ), k)
    BY <1>12, <2>2, ZenonT(60) DEF StatRead
  <2>4. Get(statusQ) \in Queue /\ Get(statusQ).down = statusQ.down
    BY <1>1, <2>1, GetFacts, ZenonT(60)
  <2> QED
    BY <2>1, <2>3, <2>4, DoneFacts, ZenonT(60)
<1>13. CASE StatApply
  <2>1. PICK k \in Keys : k = stat.key
    BY <1>13, ZenonT(60) DEF StatApply, KeyHeld, TypeOK
  <2>2. /\ UNCHANGED reconcileQ
        /\ statusQ' = Done(statusQ, k) \/ statusQ' = Done(AddRateLimited(statusQ, k), k)
    BY <1>13, <2>1, ZenonT(60) DEF StatApply, StatFinish
  <2>3. /\ AddRateLimited(statusQ, k) \in Queue
        /\ AddRateLimited(statusQ, k).down = statusQ.down
    BY <1>1, AddRateLimitedFacts, Zenon
  <2>4. /\ Done(statusQ, k).down = statusQ.down
        /\ Done(AddRateLimited(statusQ, k), k).down = AddRateLimited(statusQ, k).down
    BY <1>1, <2>3, DoneFacts, ZenonT(60)
  <2>5. statusQ'.down = statusQ.down
    BY <2>2, <2>3, <2>4, ZenonT(60)
  <2> QED
    BY <2>2, <2>5, Zenon
<1>14. CASE UNCHANGED vars
  BY <1>3, <1>14, ZenonT(60) DEF vars
<1> QED
  BY <1>3, <1>4, <1>5, <1>6, <1>7, <1>8, <1>9, <1>10, <1>11, <1>12, <1>13, <1>14, ZenonT(60)
     DEF Next, Handlers, Timers, RecWorker, StatWorker

\* Every step keeps TrackerInv.
LEMMA TrackerNext ==
  ASSUME TypeOK, KeyHeld, TrackerInv, [Next]_vars
  PROVE  TrackerInv'
<1>1. /\ tracker \in [Keys -> {"none", "ok", "err"}] /\ synced \in [Keys -> Object \cup {None}]
      /\ reconcileQ \in Queue /\ None \notin Keys
  BY NoneAssumption, SMTT(60) DEF TypeOK
<1>2. CASE Restart
  <2>1. /\ statusQ' = EmptyQueue /\ rec'.pc # "finish"
        /\ \A k \in Keys : synced'[k] = None
    BY <1>2, ZenonT(60) DEF Restart, IdleRec
  <2>2. EmptyQueue.down = FALSE
    BY Zenon DEF EmptyQueue
  <2> QED
    BY <2>1, <2>2, Zenon DEF TrackerInv
<1>3. statusQ'.down /\ ~Restart => reconcileQ'.down
  <2>1. Stop => reconcileQ'.down
    BY <1>1, ShutDownFacts, Zenon DEF Stop
  <2>2. ~Stop /\ ~Restart => statusQ'.down = statusQ.down /\ reconcileQ'.down = reconcileQ.down
    BY StatusQueue, Zenon
  <2> QED
    BY <2>1, <2>2, Zenon DEF TrackerInv
<1>4. ASSUME ~Restart, UNCHANGED <<rec, tracker, synced>>
      PROVE  TrackerInv'
  BY <1>3, <1>4, Zenon DEF TrackerInv
<1>5. CASE Background /\ ~Restart
  BY <1>4, <1>5, BackgroundKeeps, Zenon
<1>6. CASE StatWorker /\ ~Restart
  BY <1>4, <1>6, ZenonT(60) DEF StatWorker, StatRead, StatApply, StatExit, recVars
<1>7. CASE SyncRead /\ ~Restart
  <2>1. /\ rec'.pc # "finish" /\ rec.key = None /\ UNCHANGED synced
        /\ rec'.key = Head(reconcileQ.queue)
        /\ \/ UNCHANGED tracker
           \/ tracker' = [tracker EXCEPT ![rec'.key] = "none"]
    BY <1>7, ZenonT(60) DEF SyncRead, KeyHeld
  <2>2. \A k \in Keys : rec'.key # k => tracker'[k] = tracker[k]
    BY <1>1, <2>1, ZenonT(60)
  <2>3. ASSUME NEW k \in Keys, synced'[k] # None
        PROVE  tracker'[k] # "none" \/ rec'.key = k
    BY <1>1, <2>1, <2>2, <2>3, Zenon DEF TrackerInv
  <2> QED
    BY <1>3, <1>7, <2>1, <2>3, Zenon DEF TrackerInv
<1>8. CASE SyncApply /\ ~Restart
  <2>1. PICK e \in BOOLEAN : SyncReturns(e)
    BY <1>8, Zenon DEF SyncApply, CreateStatefulSet, UpdateStatefulSet, RejectStatefulSet
  <2>2. rec'.key = rec.key /\ rec'.pc # "finish" /\ UNCHANGED <<tracker, synced>>
    BY <2>1, RecRecords, ZenonT(60) DEF SyncReturns, RecPcs
  <2> QED
    BY <1>3, <1>8, <2>2, Zenon DEF TrackerInv
<1>9. CASE SyncReport /\ ~Restart
  <2>1. PICK r \in Keys : r = rec.key
    BY <1>9, ZenonT(60) DEF SyncReport, KeyHeld, TypeOK
  <2>2. rec'.key = r
    BY <1>9, <2>1, RecRecords, ZenonT(60) DEF SyncReport, RecPcs
  <2>3. /\ tracker'[r] = "err" \/ tracker'[r] = "ok"
        /\ \A k \in Keys : k # r => tracker'[k] = tracker[k] /\ synced'[k] = synced[k]
    <3>1. \/ tracker' = [tracker EXCEPT ![r] = "err"]
          \/ tracker' = [tracker EXCEPT ![r] = "ok"]
      BY <1>9, <2>1, ZenonT(60) DEF SyncReport
    <3>2. synced' = synced \/ synced' = [synced EXCEPT ![r] = rec.obj]
      BY <1>9, <2>1, ZenonT(60) DEF SyncReport
    <3>3. \A k \in Keys : k # r => tracker'[k] = tracker[k]
      BY <1>1, <3>1, ZenonT(60)
    <3>4. \A k \in Keys : k # r => synced'[k] = synced[k]
      BY <1>1, <3>2, ZenonT(60)
    <3>5. tracker'[r] = "err" \/ tracker'[r] = "ok"
      BY <1>1, <3>1, ZenonT(60)
    <3> QED
      BY <3>3, <3>4, <3>5, Zenon
  <2>4. tracker'[r] # "none"
    BY <2>3
  <2>5. ASSUME NEW k \in Keys, synced'[k] # None
        PROVE  tracker'[k] # "none" \/ rec'.key = k
    BY <2>1, <2>2, <2>3, <2>5, Zenon DEF TrackerInv
  <2> QED
    BY <1>3, <1>9, <2>2, <2>4, <2>5, Zenon DEF TrackerInv
<1>10. CASE RecFinish /\ ~Restart
  <2>1. /\ rec.pc = "finish" /\ rec' = IdleRec /\ UNCHANGED <<tracker, synced>>
    BY <1>10, ZenonT(60) DEF RecFinish
  <2>2. rec'.pc # "finish"
    BY <2>1 DEF IdleRec
  <2>3. ASSUME NEW k \in Keys, synced'[k] # None
        PROVE  tracker'[k] # "none"
    BY <2>1, <2>3, Zenon DEF TrackerInv
  <2> QED
    BY <1>3, <1>10, <2>2, <2>3, Zenon DEF TrackerInv
<1>11. CASE RecExit /\ ~Restart
  <2>1. rec'.key = rec.key /\ rec'.pc # "finish" /\ UNCHANGED <<tracker, synced>>
    BY <1>11, RecRecords, ZenonT(60) DEF RecExit, RecPcs
  <2> QED
    BY <1>3, <1>11, <2>1, Zenon DEF TrackerInv
<1> QED
  BY <1>2, <1>5, <1>6, <1>7, <1>8, <1>9, <1>10, <1>11, Steps, ZenonT(60) DEF RecWorker

\* A key queued for its status stays queued until UpdateStatus reads it.
LEMMA StatusDueStays ==
  ASSUME TypeOK, KeyHeld, [Next]_vars, ~Restart, NEW k \in Keys, StatusDue(k)
  PROVE  StatusDue(k)' \/ (StatRead /\ Head(statusQ.queue) = k)
<1>1. statusQ \in Queue
  BY ZenonT(60) DEF TypeOK
<1>2. CASE Background
  BY <1>2, BackgroundKeeps, ZenonT(60) DEF Keeps, StatusDue
<1>3. ASSUME UNCHANGED statusQ
      PROVE  StatusDue(k)'
  BY <1>3, Zenon DEF StatusDue
<1>4. CASE SyncRead \/ SyncReport \/ RecExit \/ StatExit
  BY <1>3, <1>4, ZenonT(60) DEF SyncRead, SyncReport, RecExit, StatExit
<1>5. CASE SyncApply
  BY <1>3, <1>5, ZenonT(60) DEF SyncApply, CreateStatefulSet, UpdateStatefulSet,
                                RejectStatefulSet, SyncReturns
<1>6. CASE RecFinish
  <2>1. PICK r \in Keys : r = rec.key
    BY <1>6, ZenonT(60) DEF RecFinish, KeyHeld, TypeOK
  <2>2. statusQ' = Add(statusQ, r)
    BY <1>6, <2>1, ZenonT(60) DEF RecFinish
  <2> QED
    BY <1>1, <2>2, AddFacts DEF StatusDue, Pending
<1>7. CASE StatRead
  <2>1. statusQ.queue # <<>>
    BY <1>7, Zenon DEF StatRead
  <2>2. PICK h \in Keys : h = Head(statusQ.queue)
    BY <1>1, <2>1, GetFacts, ZenonT(60)
  <2>3. statusQ' = Get(statusQ) \/ statusQ' = Done(Get(statusQ), h)
    BY <1>7, <2>2, ZenonT(60) DEF StatRead
  <2>4. /\ Get(statusQ) \in Queue /\ Get(statusQ).down = statusQ.down
        /\ Get(statusQ).waiting = statusQ.waiting /\ Get(statusQ).dirty = statusQ.dirty \ {h}
    BY <1>1, <2>1, <2>2, GetFacts, ZenonT(60)
  <2>5. /\ statusQ'.down = statusQ.down
        /\ statusQ'.waiting = statusQ.waiting /\ statusQ'.dirty = statusQ.dirty \ {h}
    BY <2>3, <2>4, DoneFacts
  <2> QED
    BY <1>7, <2>2, <2>5 DEF StatusDue, Pending
<1>8. CASE StatApply
  <2>1. PICK s \in Keys : s = stat.key
    BY <1>8, ZenonT(60) DEF StatApply, KeyHeld, TypeOK
  <2>2. statusQ' = Done(statusQ, s) \/ statusQ' = Done(AddRateLimited(statusQ, s), s)
    BY <1>8, <2>1, ZenonT(60) DEF StatApply, StatFinish
  <2>3. /\ AddRateLimited(statusQ, s) \in Queue
        /\ AddRateLimited(statusQ, s).down = statusQ.down
        /\ AddRateLimited(statusQ, s).dirty = statusQ.dirty
        /\ statusQ.waiting \subseteq AddRateLimited(statusQ, s).waiting
    BY <1>1, AddRateLimitedFacts, Zenon
  <2>4. /\ statusQ'.down = statusQ.down /\ statusQ'.dirty = statusQ.dirty
        /\ statusQ.waiting \subseteq statusQ'.waiting
    BY <1>1, <2>2, <2>3, DoneFacts
  <2> QED
    BY <2>4 DEF StatusDue, Pending
<1> QED
  BY <1>2, <1>4, <1>5, <1>6, <1>7, <1>8, Steps, ZenonT(60) DEF RecWorker, StatWorker

\* A Sync to come does come, and when it ends k is queued for its status.
LEMMA SyncDueStays ==
  ASSUME NoBlindSpots, TypeOK, KeyHeld, WatchInv, [Next]_vars, ~Restart, NEW k \in Keys, SyncDue(k)
  PROVE  SyncDue(k)' \/ StatusDue(k)'
<1>1. /\ statusQ \in Queue /\ reconcileQ \in Queue /\ crNotes \in [Keys -> Seq(Note(Object))]
      /\ crCache[k] \in Versions /\ None \notin Keys
  BY NoneAssumption, ZenonT(60) DEF TypeOK, Versions
<1>2. Busy(k) => SyncDue(k)'
  BY BusyStays, Zenon DEF SyncDue
<1>3. ASSUME rec.key = k
      PROVE  rec'.key = k \/ StatusDue(k)'
  <2>1. CASE Background
    BY <1>3, <2>1, BackgroundKeeps, Zenon
  <2>2. CASE StatWorker
    BY <1>3, <2>2, ZenonT(60) DEF StatWorker, StatRead, StatApply, StatExit, recVars
  <2>3. ~SyncRead /\ ~RecExit
    BY <1>1, <1>3, ZenonT(60) DEF SyncRead, RecExit, KeyHeld
  <2>4. CASE SyncApply
    <3>1. PICK e \in BOOLEAN : SyncReturns(e)
      BY <2>4, Zenon DEF SyncApply, CreateStatefulSet, UpdateStatefulSet, RejectStatefulSet
    <3> QED
      BY <1>3, <3>1, RecRecords, ZenonT(60) DEF SyncReturns, RecPcs
  <2>5. CASE SyncReport
    BY <1>3, <2>5, RecRecords, ZenonT(60) DEF SyncReport, RecPcs
  <2>6. CASE RecFinish
    <3>1. statusQ' = Add(statusQ, k)
      BY <1>3, <2>6, ZenonT(60) DEF RecFinish
    <3>2. Add(statusQ, k).down = statusQ.down /\ (statusQ.down \/ k \in Add(statusQ, k).dirty)
      BY <1>1, AddFacts, Zenon
    <3> QED
      BY <3>1, <3>2 DEF StatusDue, Pending
  <2> QED
    BY <2>1, <2>2, <2>3, <2>4, <2>5, <2>6, Steps, ZenonT(60) DEF RecWorker
<1>4. ASSUME SomeEnqueues(crNotes[k])
      PROVE  SomeEnqueues(crNotes[k])' \/ Busy(k)'
  <2>1. ASSUME crNotes'[k] = crNotes[k]
        PROVE  SomeEnqueues(crNotes[k])'
    BY <1>4, <2>1, Zenon
  <2>2. CASE \E j \in Keys : Users(j) \/ Cluster(j) \/ ReceiveSset(j) \/ RelistSset(j)
                               \/ HandleSset(j) \/ Timers(j) \/ RefreshStatusFor(j)
    BY <2>1, <2>2, ZenonT(60)
       DEF Users, CreateObject, EditSpec, EditMeta, DeleteObject, UserEdit, FinalizeObject,
           Cluster, GarbageCollect, PodsReady, PodsFail, LoseSset, DriftSset, SsetEvent,
           ReceiveSset, RelistSset, HandleSset, Timers, ReleaseRec, ReleaseStat, StatusPoller,
           RefreshStatusFor, cacheVars
  <2>3. CASE SyncRead \/ SyncReport \/ RecFinish \/ RecExit \/ StatWorker \/ Stop \/ UNCHANGED vars
    BY <2>1, <2>3, ZenonT(60) DEF SyncRead, SyncReport, RecFinish, RecExit, StatWorker,
             StatRead, StatApply, StatExit, Stop, vars, cacheVars
  <2>4. CASE SyncApply
    BY <2>1, <2>4, ZenonT(60) DEF SyncApply, CreateStatefulSet, UpdateStatefulSet,
             RejectStatefulSet, SyncReturns, cacheVars
  <2>5. ASSUME NEW j \in Keys, ReceiveCR(j) \/ RelistCR(j)
        PROVE  SomeEnqueues(crNotes[k])'
    BY <1>4, <2>1, <2>5, NewVersion, ZenonT(60) DEF NoBlindSpots
  <2>6. ASSUME NEW j \in Keys, Resync(j)
        PROVE  SomeEnqueues(crNotes[k])'
    <3>1. CASE crNotes' = [crNotes EXCEPT ![j] = Append(@, ResyncNote(Desire(crCache[j])))]
      <4>1. CASE j # k
        BY <1>1, <2>1, <3>1, <4>1, ZenonT(60)
      <4>2. CASE j = k
        <5>1. ResyncNote(Desire(crCache[k])) \in Note(Object)
          BY <1>1, DesireType, NoteType, ZenonT(60) DEF Versions, ResyncNote
        <5>2. crNotes'[k] = Append(crNotes[k], ResyncNote(Desire(crCache[k])))
          BY <1>1, <3>1, <4>2, ZenonT(60)
        <5> QED
          BY <1>1, <1>4, <5>1, <5>2, NotesFacts, ZenonT(60)
      <4> QED
        BY <4>1, <4>2, Zenon
    <3> QED
      BY <2>1, <2>6, <3>1, ZenonT(60) DEF Resync
  <2>7. ASSUME NEW j \in Keys, HandleCR(j)
        PROVE  SomeEnqueues(crNotes[k])' \/ Busy(k)'
    <3>1. CASE j # k
      <4>1. crNotes' = [crNotes EXCEPT ![j] = Tail(@)]
        BY <2>7, Zenon DEF HandleCR
      <4> QED
        BY <1>1, <2>1, <3>1, <4>1, ZenonT(60)
    <3>2. CASE j = k
      <4>1. /\ crNotes[k] # <<>> /\ crNotes'[k] = Tail(crNotes[k])
            /\ Enqueues(Head(crNotes[k])) => reconcileQ' = Add(reconcileQ, k)
        BY <1>1, <2>7, <3>2, ZenonT(60) DEF HandleCR
      <4>2. Enqueues(Head(crNotes[k])) => Busy(k)'
        <5>1. Add(reconcileQ, k).down \/ k \in Add(reconcileQ, k).dirty
          BY <1>1, AddFacts, ZenonT(60)
        <5> QED
          BY <4>1, <5>1, ZenonT(60) DEF Busy, Pending
      <4>3. Head(crNotes[k]) \in Note(Object) /\ <<>> \in Seq(Note(Object))
        BY <1>1, <4>1
      <4> QED
        BY <1>1, <1>4, <4>1, <4>2, <4>3, NotesFacts, ZenonT(60)
    <3> QED
      BY <3>1, <3>2, Zenon
  <2> QED
    BY <2>2, <2>3, <2>4, <2>5, <2>6, <2>7, ZenonT(60) DEF Next, Informers, Handlers, RecWorker
<1> QED
  BY <1>2, <1>3, <1>4, Zenon DEF SyncDue

\* The handlers of the StatefulSets queue the owner for one of the workers.
LEMMA SpeaksQueue ==
  ASSUME TypeOK, NEW k \in Keys, HandleSset(k), InCharge(crCache[k]), Speaks(Head(ssNotes[k]))
  PROVE  Busy(k)' \/ StatusDue(k)'
<1>1. reconcileQ \in Queue /\ statusQ \in Queue
  BY ZenonT(60) DEF TypeOK
<1>2. resolve(k) # None /\ isManagedByController(resolve(k))
  BY Zenon DEF InCharge, Desired, Present, resolve
<1>3. EnqueueForReconciliation(k, resolve(k)) \/ EnqueueForStatus(k, resolve(k))
  BY <1>2, ZenonT(60) DEF HandleSset, Speaks, onStatefulSetAdd, onStatefulSetUpdate,
                          onStatefulSetDelete
<1>4. reconcileQ' = Add(reconcileQ, k) \/ statusQ' = Add(statusQ, k)
  BY <1>2, <1>3, ZenonT(60) DEF EnqueueForReconciliation, EnqueueForStatus
<1>5. /\ Add(reconcileQ, k).down \/ k \in Add(reconcileQ, k).dirty
      /\ Add(statusQ, k).down \/ k \in Add(statusQ, k).dirty
  BY <1>1, AddFacts, ZenonT(60)
<1>6. reconcileQ' = Add(reconcileQ, k) => Busy(k)'
  BY <1>5, Zenon DEF Busy, Pending
<1>7. statusQ' = Add(statusQ, k) => StatusDue(k)'
  BY <1>5, Zenon DEF StatusDue, Pending
<1> QED
  BY <1>4, <1>6, <1>7, Zenon

LEMMA AppendNotEmpty ==
  ASSUME NEW T, NEW w \in Seq(T), NEW v \in T
  PROVE  Append(w, v) # <<>>
<1>1. Len(Append(w, v)) = Len(w) + 1 /\ Len(w) \in Nat
  OBVIOUS
<1>2. Len(<<>>) = 0
  OBVIOUS
<1> QED
  BY <1>1, <1>2

\* What changes the StatefulSet leaves a version in its watch.
LEMMA SsetFrame ==
  ASSUME NoBlindSpots, TypeOK, KeyHeld, [Next]_vars, ~Restart, NEW k \in Keys, ~ReceiveSset(k)
  PROVE  /\ ssCache'[k] = ssCache[k]
         /\ ssWatch[k] # <<>> => ssWatch'[k] # <<>>
         /\ sset'[k] = sset[k] \/ ssWatch'[k] # <<>>
<1>1. /\ sset \in [Keys -> SVersions] /\ ssWatch \in [Keys -> Seq(SVersions)]
      /\ ssCache \in [Keys -> SVersions]
  BY ZenonT(60) DEF TypeOK, SVersions
<1>2. sset' \in [Keys -> SVersions]
  <2>1. TypeOK'
    BY NextType, Zenon
  <2> QED
    BY <2>1, ZenonT(60) DEF TypeOK, SVersions
<1> DEFINE Kept == /\ ssWatch[k] # <<>> => ssWatch'[k] # <<>>
                   /\ sset'[k] = sset[k] \/ ssWatch'[k] # <<>>
<1>3. ASSUME UNCHANGED <<sset, ssWatch>>
      PROVE  Kept
  BY <1>3, Zenon
<1>4. ASSUME NEW j \in Keys, NEW s, PutSset(j, s)
      PROVE  Kept
  <2>1. CASE j = k
    <3>1. /\ sset'[k] = s /\ ssWatch'[k] = Append(ssWatch[k], s)
      BY <1>1, <1>4, <2>1, ZenonT(60) DEF PutSset
    <3>2. s \in SVersions /\ ssWatch[k] \in Seq(SVersions)
      BY <1>1, <1>2, <3>1, Zenon
    <3>3. Append(ssWatch[k], s) # <<>>
      <4>1. PICK w \in Seq(SVersions) : w = ssWatch[k]
        BY <3>2, Zenon
      <4>2. PICK v \in SVersions : v = s
        BY <3>2, Zenon
      <4>3. Append(w, v) # <<>>
        BY AppendNotEmpty, Zenon
      <4> QED
        BY <4>1, <4>2, <4>3, Zenon
    <3> QED
      BY <3>1, <3>3, Zenon
  <2>2. CASE j # k
    <3>1. sset'[k] = sset[k] /\ ssWatch'[k] = ssWatch[k]
      BY <1>1, <1>4, <2>2, ZenonT(60) DEF PutSset
    <3> QED
      BY <3>1, Zenon
  <2> QED
    BY <2>1, <2>2, Zenon
<1> HIDE DEF Kept
<1>5. ASSUME UNCHANGED ssCache, Kept
      PROVE  ssCache'[k] = ssCache[k] /\ Kept
  BY <1>5, Zenon
<1>6. CASE \E j \in Keys : Users(j) \/ Handlers(j) \/ Timers(j) \/ RefreshStatusFor(j)
                             \/ ReceiveCR(j) \/ RelistCR(j) \/ Resync(j)
  BY <1>3, <1>5, <1>6, ZenonT(60)
     DEF Users, CreateObject, EditSpec, EditMeta, DeleteObject, UserEdit, FinalizeObject,
         Handlers, HandleCR, HandleSset, Timers, ReleaseRec, ReleaseStat, StatusPoller,
         RefreshStatusFor, ReceiveCR, RelistCR, Resync, apiVars, cacheVars
<1>7. ASSUME NEW j \in Keys, Cluster(j)
      PROVE  ssCache'[k] = ssCache[k] /\ Kept
  <2>1. \E s : SsetEvent(j, s)
    BY <1>7, ZenonT(60) DEF Cluster, GarbageCollect, PodsReady, PodsFail, LoseSset, DriftSset
  <2> QED
    BY <1>4, <1>5, <2>1, ZenonT(60) DEF SsetEvent, cacheVars
<1>8. CASE SyncApply
  <2>1. PICK r \in Keys : r = rec.key
    BY <1>8, ZenonT(60) DEF SyncApply, KeyHeld, TypeOK
  <2>2. UNCHANGED ssCache
    BY <1>8, ZenonT(60) DEF SyncApply, CreateStatefulSet, UpdateStatefulSet,
                            RejectStatefulSet, SyncReturns, cacheVars
  <2>3. UNCHANGED <<sset, ssWatch>> \/ \E s : PutSset(r, s)
    BY <1>8, <2>1, ZenonT(60) DEF SyncApply, CreateStatefulSet, UpdateStatefulSet,
                                  RejectStatefulSet, WriteSset
  <2>4. CASE UNCHANGED <<sset, ssWatch>>
    BY <1>3, <1>5, <2>2, <2>4, Zenon
  <2>5. CASE \E s : PutSset(r, s)
    <3>1. PICK s : PutSset(r, s)
      BY <2>5, Zenon
    <3>2. Kept
      BY <1>4, <3>1, ZenonT(60)
    <3> QED
      BY <1>5, <2>2, <3>2, Zenon DEF Kept
  <2> QED
    BY <2>3, <2>4, <2>5, Zenon
<1>9. CASE SyncRead \/ SyncReport \/ RecFinish \/ RecExit \/ StatWorker \/ Stop \/ UNCHANGED vars
  BY <1>3, <1>5, <1>9, ZenonT(60)
     DEF SyncRead, SyncReport, RecFinish, RecExit, StatWorker, StatRead, StatApply, StatExit,
         Stop, vars, apiVars, cacheVars
<1>10. ASSUME NEW j \in Keys, ReceiveSset(j)
       PROVE  ssCache'[k] = ssCache[k] /\ Kept
  <2>1. j # k
    BY <1>10, Zenon
  <2>2. /\ ssWatch' = [ssWatch EXCEPT ![j] = Tail(@)] /\ UNCHANGED sset
        /\ ssCache' = [ssCache EXCEPT ![j] = Head(ssWatch[j])]
    BY <1>10, ZenonT(60) DEF ReceiveSset
  <2>3. ssCache'[k] = ssCache[k] /\ ssWatch'[k] = ssWatch[k]
    BY <1>1, <2>1, <2>2, ZenonT(60)
  <2> QED
    BY <2>2, <2>3, Zenon DEF Kept
<1>11. \A j \in Keys : ~RelistSset(j)
  BY Zenon DEF RelistSset, Gap, NoBlindSpots
<1> QED
  BY <1>6, <1>7, <1>8, <1>9, <1>10, <1>11, ZenonT(60) DEF Next, Informers, RecWorker, Kept

\* The delivery of a version of the StatefulSet is news, unless the version is
\* being deleted; then more is to come.
LEMMA ReceiveSpeaks ==
  ASSUME TypeOK, ChainInv, NEW k \in Keys, ReceiveSset(k)
  PROVE  News(k)'
<1>1. /\ ssCache[k] \in SVersions /\ ssWatch[k] \in Seq(SVersions)
      /\ ssNotes[k] \in Seq(Note(StatefulSet))
  BY SsetTypes, ZenonT(60) DEF TypeOK
<1>2. ChainInv' /\ ssCache'[k] \in SVersions
  BY ReceiveTells, Zenon
<1> DEFINE n == [old |-> ssCache[k], cur |-> ssCache'[k], resync |-> FALSE, tomb |-> FALSE]
<1>3. /\ ssNotes'[k] = Append(ssNotes[k], n)
  BY SMTT(60) DEF ReceiveSset, Notify, TypeOK
<1>4. n \in Note(StatefulSet)
  BY <1>1, <1>2, Zenon DEF Note, SVersions
<1>5. Speaks(n) \/ (ssCache'[k] # None /\ ssCache'[k].deleting)
  BY Zenon DEF Speaks, DeletionInProgress
<1> HIDE DEF n
<1>6. Speaks(n) => SomeSpeaks(ssNotes'[k])
  BY <1>1, <1>3, <1>4, SpeakFacts, ZenonT(60)
<1>7. ASSUME ssWatch'[k] = <<>>
      PROVE  ssCache'[k] = sset'[k]
  <2>1. <<>> \in Seq(SVersions)
    OBVIOUS
  <2>2. Chain(k)' = <<ssCache'[k]>>
    BY <1>2, <1>7, <2>1, ChainFacts, ZenonT(60) DEF Chain
  <2>3. Tells(<<ssCache'[k]>>, sset'[k])
    BY <1>2, <2>2, Zenon DEF ChainInv
  <2> QED
    BY <2>3 DEF Tells
<1> QED
  BY <1>5, <1>6, <1>7, Zenon DEF News

\* News stays until a handler turns it into work.
LEMMA NewsStays ==
  ASSUME NoBlindSpots, TypeOK, KeyHeld, ChainInv, [Next]_vars, ~Restart, NEW k \in Keys,
         InCharge(crCache[k]), News(k)
  PROVE  News(k)' \/ Busy(k)' \/ StatusDue(k)'
<1>1. CASE ReceiveSset(k)
  BY <1>1, ReceiveSpeaks, Zenon
<1>2. CASE ~ReceiveSset(k)
  <2>1. /\ ssWatch[k] # <<>> => ssWatch'[k] # <<>>
        /\ sset'[k] = sset[k] \/ ssWatch'[k] # <<>>
    BY <1>2, SsetFrame, Zenon
  <2>2. ASSUME SomeSpeaks(ssNotes[k])
        PROVE  SomeSpeaks(ssNotes[k])' \/ Busy(k)' \/ StatusDue(k)'
    <3>1. ssNotes \in [Keys -> Seq(Note(StatefulSet))] /\ ssCache[k] \in SVersions
      BY SsetTypes, ZenonT(60) DEF TypeOK
    <3>2. ASSUME ssNotes'[k] = ssNotes[k]
          PROVE  SomeSpeaks(ssNotes[k])'
      BY <2>2, <3>2, Zenon
    <3>3. CASE \E j \in Keys : Users(j) \/ Cluster(j) \/ ReceiveCR(j) \/ RelistCR(j)
                                 \/ HandleCR(j) \/ Timers(j) \/ RefreshStatusFor(j)
      BY <3>2, <3>3, ZenonT(60)
         DEF Users, CreateObject, EditSpec, EditMeta, DeleteObject, UserEdit, FinalizeObject,
             Cluster, GarbageCollect, PodsReady, PodsFail, LoseSset, DriftSset, SsetEvent,
             ReceiveCR, RelistCR, HandleCR, Timers, ReleaseRec, ReleaseStat, StatusPoller,
             RefreshStatusFor, cacheVars
    <3>4. CASE SyncRead \/ SyncReport \/ RecFinish \/ RecExit \/ StatWorker \/ Stop
                 \/ UNCHANGED vars
      BY <3>2, <3>4, ZenonT(60) DEF SyncRead, SyncReport, RecFinish, RecExit, StatWorker,
               StatRead, StatApply, StatExit, Stop, vars, cacheVars
    <3>5. CASE SyncApply
      BY <3>2, <3>5, ZenonT(60) DEF SyncApply, CreateStatefulSet, UpdateStatefulSet,
               RejectStatefulSet, SyncReturns, cacheVars
    <3>6. ASSUME NEW j \in Keys, ReceiveSset(j)
          PROVE  SomeSpeaks(ssNotes[k])'
      <4>1. j # k
        BY <1>2, <3>6, Zenon
      <4>2. PICK n : ssNotes' = [ssNotes EXCEPT ![j] = Append(@, n)]
        BY <3>6, Zenon DEF ReceiveSset, Notify
      <4> QED
        BY <3>1, <3>2, <4>1, <4>2, ZenonT(60)
    <3>7. ASSUME NEW j \in Keys, Resync(j)
          PROVE  SomeSpeaks(ssNotes[k])'
      <4>1. CASE ssNotes' = [ssNotes EXCEPT ![j] = Append(@, ResyncNote(ssCache[j]))]
                   /\ ssCache[j] # None
        <5>1. CASE j # k
          BY <3>1, <3>2, <4>1, <5>1, ZenonT(60)
        <5>2. CASE j = k
          <6>1. ResyncNote(ssCache[k]) \in Note(StatefulSet)
            BY <3>1, ZenonT(60) DEF Note, SVersions, ResyncNote
          <6>2. ssNotes'[k] = Append(ssNotes[k], ResyncNote(ssCache[k]))
            BY <3>1, <4>1, <5>2, ZenonT(60)
          <6> QED
            BY <2>2, <3>1, <6>1, <6>2, SpeakFacts, ZenonT(60)
        <5> QED
          BY <5>1, <5>2, Zenon
      <4> QED
        BY <3>2, <3>7, <4>1, ZenonT(60) DEF Resync
    <3>8. ASSUME NEW j \in Keys, HandleSset(j)
          PROVE  SomeSpeaks(ssNotes[k])' \/ Busy(k)' \/ StatusDue(k)'
      <4>1. ssNotes[j] # <<>> /\ ssNotes' = [ssNotes EXCEPT ![j] = Tail(@)]
        BY <3>8, Zenon DEF HandleSset
      <4>2. CASE j # k
        BY <3>1, <3>2, <4>1, <4>2, ZenonT(60)
      <4>3. CASE j = k
        <5>1. ssNotes'[k] = Tail(ssNotes[k])
          BY <3>1, <4>1, <4>3, ZenonT(60)
        <5>2. Speaks(Head(ssNotes[k])) => Busy(k)' \/ StatusDue(k)'
          BY <3>8, <4>3, SpeaksQueue, ZenonT(60)
        <5>3. Head(ssNotes[k]) \in Note(StatefulSet)
          BY <3>1, <4>1, <4>3
        <5> QED
          BY <2>2, <3>1, <4>1, <4>3, <5>1, <5>2, <5>3, SpeakFacts, ZenonT(60)
      <4> QED
        BY <4>2, <4>3, Zenon
    <3>9. \A j \in Keys : ~RelistSset(j)
      BY Zenon DEF RelistSset, Gap, NoBlindSpots
    <3> QED
      BY <3>3, <3>4, <3>5, <3>6, <3>7, <3>8, <3>9, ZenonT(60) DEF Next, Informers, Handlers, RecWorker
  <2> QED
    BY <2>1, <2>2, ZenonT(60) DEF News
<1> QED
  BY <1>1, <1>2, Zenon

\* The objects change by the users and by the status goroutine alone.
LEMMA ObjectFrame ==
  ASSUME TypeOK, KeyHeld, WatchInv, [Next]_vars, ~Restart, NEW k \in Keys
  PROVE  \/ cr'[k] = cr[k]
         \/ cr'[k] = None
         \/ cr[k] = None /\ cr'[k] # None /\ (crCache[k] # None => cr'[k].uid # crCache[k].uid)
         \/ cr[k] # None /\ cr'[k] # None /\ cr'[k].uid = cr[k].uid /\ cr'[k].status = cr[k].status
         \/ StatApply /\ stat.key = k /\ cr[k] # None /\ cr'[k] # None /\ cr'[k].uid = cr[k].uid
<1>1. /\ cr \in [Keys -> Versions] /\ crCache[k] \in Versions /\ edits \in Nat /\ edits + 1 \in Nat
  BY SMTT(60) DEF TypeOK, Versions
<1>2. ASSUME NEW j \in Keys, j # k, NEW o, PutCR(j, o)
      PROVE  cr'[k] = cr[k]
  BY <1>1, <1>2, ZenonT(60) DEF PutCR
<1>3. ASSUME NEW o, PutCR(k, o)
      PROVE  cr'[k] = o
  BY <1>1, <1>3, ZenonT(60) DEF PutCR
<1>4. ASSUME NEW j \in Keys, j # k, Users(j)
      PROVE  cr'[k] = cr[k]
  <2>1. \E o : PutCR(j, o)
    BY <1>4, ZenonT(60) DEF Users, CreateObject, EditSpec, EditMeta, DeleteObject, UserEdit,
                            FinalizeObject
  <2> QED
    BY <1>2, <1>4, <2>1, ZenonT(60)
<1>5. CASE CreateObject(k)
  <2>1. PICK m \in Metas, p \in Paused :
          PutCR(k, [uid |-> edits + 1, gen |-> 1, meta |-> m, paused |-> p,
                    deleting |-> FALSE, status |-> None])
    BY <1>5, ZenonT(60) DEF CreateObject, UserEdit
  <2>2. cr[k] = None
    BY <1>5, Zenon DEF CreateObject
  <2>3. cr'[k].uid = edits + 1
    <3> DEFINE o == [uid |-> edits + 1, gen |-> 1, meta |-> m, paused |-> p,
                     deleting |-> FALSE, status |-> None]
    <3>1. o.uid = edits + 1
      OBVIOUS
    <3>2. PutCR(k, o)
      BY <2>1, Zenon
    <3> HIDE DEF o
    <3> QED
      BY <1>3, <3>1, <3>2, Zenon
  <2>4. crCache[k] # None => crCache[k].uid \in Nat /\ crCache[k].uid <= edits
    <3>1. crCache[k] # None => crCache[k].uid <= edits
      BY Zenon DEF WatchInv, Leads, Earlier
    <3>2. crCache[k] # None => crCache[k].uid \in Nat
      BY <1>1, ZenonT(60) DEF Versions, Object
    <3> QED
      BY <3>1, <3>2, Zenon
  <2>5. crCache[k] # None => crCache[k].uid # edits + 1
    BY <1>1, <2>4
  <2> QED
    BY <2>2, <2>3, <2>5, Zenon
<1>6. CASE EditSpec(k) \/ EditMeta(k) \/ DeleteObject(k) \/ FinalizeObject(k)
  <2>1. cr[k] # None /\ cr[k] \in Object
    BY <1>1, <1>6, ZenonT(60) DEF EditSpec, EditMeta, DeleteObject, FinalizeObject, Versions
  <2>2. PICK o \in Object : o = cr[k]
    BY <2>1, Zenon
  <2>3. \/ cr'[k] = None
        \/ \E p : cr'[k] = [o EXCEPT !.gen = @ + 1, !.paused = p]
        \/ \E m : cr'[k] = [o EXCEPT !.meta = m]
        \/ cr'[k] = [o EXCEPT !.deleting = TRUE, !.gen = @ + 1]
    BY <1>3, <1>6, <2>2, ZenonT(60) DEF EditSpec, EditMeta, DeleteObject, FinalizeObject, UserEdit
  <2>4. \A p : /\ [o EXCEPT !.gen = @ + 1, !.paused = p].uid = o.uid
               /\ [o EXCEPT !.gen = @ + 1, !.paused = p].status = o.status
    BY ZenonT(60) DEF Object
  <2>5. \A m : [o EXCEPT !.meta = m].uid = o.uid /\ [o EXCEPT !.meta = m].status = o.status
    BY ZenonT(60) DEF Object
  <2>6. /\ [o EXCEPT !.deleting = TRUE, !.gen = @ + 1].uid = o.uid
        /\ [o EXCEPT !.deleting = TRUE, !.gen = @ + 1].status = o.status
    BY ZenonT(60) DEF Object
  <2>7. cr'[k] = None \/ (cr'[k].uid = o.uid /\ cr'[k].status = o.status)
    <3>1. CASE \E p : cr'[k] = [o EXCEPT !.gen = @ + 1, !.paused = p]
      BY <2>4, <3>1, ZenonT(60)
    <3>2. CASE \E m : cr'[k] = [o EXCEPT !.meta = m]
      BY <2>5, <3>2, ZenonT(60)
    <3>3. CASE cr'[k] = [o EXCEPT !.deleting = TRUE, !.gen = @ + 1]
      BY <2>6, <3>3, ZenonT(60)
    <3> QED
      BY <2>3, <3>1, <3>2, <3>3, Zenon
  <2> QED
    BY <2>1, <2>2, <2>7, ZenonT(60)
<1>7. CASE StatApply
  <2>1. PICK s \in Keys : s = stat.key
    BY <1>7, ZenonT(60) DEF StatApply, KeyHeld, TypeOK
  <2>2. CASE UNCHANGED cr
    BY <2>2, Zenon
  <2>3. CASE cr[s] # None /\ \E st : PutCR(s, [cr[s] EXCEPT !.status = st])
    <3>1. CASE s # k
      BY <1>2, <2>3, <3>1, ZenonT(60)
    <3>2. CASE s = k
      <4>1. PICK o \in Object : o = cr[k]
        BY <1>1, <2>3, <3>2, ZenonT(60) DEF Versions
      <4>2. PICK st : cr'[k] = [o EXCEPT !.status = st]
        BY <1>3, <2>3, <3>2, <4>1, ZenonT(60)
      <4>3. [o EXCEPT !.status = st].uid = o.uid
        BY ZenonT(60) DEF Object
      <4> QED
        BY <1>7, <2>1, <2>3, <3>2, <4>1, <4>2, <4>3, ZenonT(60)
    <3> QED
      BY <3>1, <3>2, Zenon
  <2> QED
    BY <1>7, <2>1, <2>2, <2>3, ZenonT(60) DEF StatApply
<1>8. CASE UNCHANGED cr
  BY <1>8, Zenon
<1>9. CASE \E j \in Keys : Cluster(j) \/ Informers(j) \/ Handlers(j) \/ Timers(j)
                             \/ RefreshStatusFor(j)
  BY <1>8, <1>9, ZenonT(60)
     DEF Cluster, GarbageCollect, PodsReady, PodsFail, LoseSset, DriftSset, SsetEvent, Informers,
         ReceiveCR, RelistCR, ReceiveSset, RelistSset, Resync, Handlers, HandleCR, HandleSset,
         Timers, ReleaseRec, ReleaseStat, StatusPoller, RefreshStatusFor, apiVars
<1>10. CASE SyncRead \/ SyncReport \/ RecFinish \/ RecExit \/ StatRead \/ StatExit \/ Stop
              \/ UNCHANGED vars
  BY <1>8, <1>10, ZenonT(60)
     DEF SyncRead, SyncReport, RecFinish, RecExit, StatRead, StatExit, Stop, vars, apiVars
<1>11. CASE SyncApply
  BY <1>8, <1>11, ZenonT(60) DEF SyncApply, CreateStatefulSet, UpdateStatefulSet,
                                 RejectStatefulSet, SyncReturns
<1> QED
  BY <1>4, <1>5, <1>6, <1>7, <1>9, <1>10, <1>11, ZenonT(60)
     DEF Next, Users, RecWorker, StatWorker

\* The tracker speaks of k only while its worker holds k.
LEMMA TrackerFrame ==
  ASSUME TypeOK, KeyHeld, [Next]_vars, ~Restart, NEW k \in Keys
  PROVE  tracker'[k] = tracker[k] \/ rec'.key = k
<1>1. tracker \in [Keys -> {"none", "ok", "err"}]
  BY ZenonT(60) DEF TypeOK
<1>2. CASE Background
  BY <1>2, BackgroundKeeps, Zenon
<1>3. CASE StatWorker
  BY <1>3, ZenonT(60) DEF StatWorker, StatRead, StatApply, StatExit, recVars
<1>4. CASE SyncRead
  <2>1. /\ rec'.key = Head(reconcileQ.queue)
        /\ UNCHANGED tracker \/ tracker' = [tracker EXCEPT ![rec'.key] = "none"]
    BY <1>4, ZenonT(60) DEF SyncRead
  <2> QED
    BY <1>1, <2>1, ZenonT(60)
<1>5. CASE SyncApply
  BY <1>5, ZenonT(60) DEF SyncApply, CreateStatefulSet, UpdateStatefulSet, RejectStatefulSet,
                          SyncReturns
<1>6. CASE SyncReport
  <2>1. rec'.key = rec.key
    BY <1>6, RecRecords, ZenonT(60) DEF SyncReport, RecPcs
  <2>2. \E x : tracker' = [tracker EXCEPT ![rec.key] = x]
    BY <1>6, ZenonT(60) DEF SyncReport
  <2> QED
    BY <1>1, <2>1, <2>2, ZenonT(60)
<1>7. CASE RecFinish \/ RecExit
  BY <1>7, ZenonT(60) DEF RecFinish, RecExit
<1> QED
  BY <1>2, <1>3, <1>4, <1>5, <1>6, <1>7, Steps, ZenonT(60) DEF RecWorker

\* UpdateStatus takes down what there is to report on the key it reads.
LEMMA StatReports ==
  ASSUME StatRead, NEW k \in Keys, Head(statusQ.queue) = k, InCharge(crCache[k])
  PROVE  Reported(k)'
<1>1. Present(crCache[k])
  BY Zenon DEF InCharge, Desired
<1>2. stat' = [pc |-> "apply", key |-> k, gen |-> crCache[k].gen,
               avail |-> Available(ssCache[k], sset[k]), rec |-> GetCondition(k)]
  BY <1>1, ZenonT(60) DEF StatRead
<1>3. stat'.key = k /\ [avail |-> stat'.avail, rec |-> stat'.rec, obs |-> stat'.gen] = Reading(k)
  BY <1>2, ZenonT(60) DEF Reading
<1>4. Reading(k)' = Reading(k)
  <2>1. UNCHANGED <<sset, ssCache, crCache, tracker>>
    BY ZenonT(60) DEF StatRead, apiVars, cacheVars, recVars
  <2> QED
    BY <2>1, Zenon DEF Reading, GetCondition
<1> QED
  BY <1>3, <1>4, Zenon DEF Reported

\* ApplyStatus writes what UpdateStatus read, or is tried again.
LEMMA ApplyReports ==
  ASSUME TypeOK, KeyHeld, StatApply, NEW k \in Keys, stat.key = k, Reported(k), Reading(k)' = Reading(k)
  PROVE  StatusDue(k)' \/ Reported(k)'
<1>1. statusQ \in Queue /\ cr \in [Keys -> Versions] /\ None \notin Keys
  BY NoneAssumption, ZenonT(60) DEF TypeOK, Versions
<1> DEFINE st == [avail |-> stat.avail, rec |-> stat.rec, obs |-> stat.gen]
<1>2. CASE StatFinish(TRUE)
  <2>1. statusQ' = Done(AddRateLimited(statusQ, k), k)
    BY <1>2, ZenonT(60) DEF StatFinish
  <2>2. /\ AddRateLimited(statusQ, k) \in Queue
        /\ AddRateLimited(statusQ, k).down \/ k \in AddRateLimited(statusQ, k).waiting
    BY <1>1, AddRateLimitedFacts, ZenonT(60)
  <2>3. /\ Done(AddRateLimited(statusQ, k), k).down = AddRateLimited(statusQ, k).down
        /\ Done(AddRateLimited(statusQ, k), k).waiting = AddRateLimited(statusQ, k).waiting
    BY <2>2, DoneFacts, ZenonT(60)
  <2>4. statusQ'.down \/ k \in statusQ'.waiting
    BY <2>1, <2>2, <2>3, ZenonT(60)
  <2> QED
    BY <2>4 DEF StatusDue, Pending
<1>3. CASE cr[k] # None /\ PutCR(k, [cr[k] EXCEPT !.status = st]) /\ StatFinish(FALSE)
  <2>1. stat' = IdleStat /\ IdleStat.key = None
    BY <1>3, ZenonT(60) DEF StatFinish, IdleStat
  <2>2. PICK o \in Object : o = cr[k]
    BY <1>1, <1>3, ZenonT(60) DEF Versions
  <2>3. cr'[k] = [o EXCEPT !.status = st]
    BY <1>1, <1>3, <2>2, ZenonT(60) DEF PutCR
  <2>4. st \in Status
    BY ZenonT(60) DEF TypeOK, Status
  <2>5. st = Reading(k)
    BY Zenon DEF Reported
  <2> HIDE DEF st
  <2>6. [o EXCEPT !.status = st].status = st /\ [o EXCEPT !.status = st] \in Object
    BY <2>4, ZenonT(60) DEF Object
  <2>7. cr'[k] # None
    BY <2>3, <2>6, NoneAssumption, Zenon
  <2>8. stat'.key # k
    BY <1>1, <2>1, Zenon
  <2> QED
    BY <2>3, <2>5, <2>6, <2>7, <2>8, Zenon DEF Reported
<1> QED
  BY <1>2, <1>3, ZenonT(60) DEF StatApply

\* What was reported stays true until something that will be reported happens.
LEMMA ReportedStays ==
  ASSUME NoBlindSpots, TypeOK, KeyHeld, WatchInv, ChainInv, [Next]_vars, ~Restart, NEW k \in Keys,
         crCache'[k] = crCache[k], InCharge(crCache[k]), Reported(k)
  PROVE  StatusOwed(k)'
<1>1. None \notin Keys /\ crCache[k] # None
  BY NoneAssumption, Zenon DEF InCharge, Desired, Present
<1>2. ReceiveSset(k) => StatusOwed(k)'
  BY ReceiveSpeaks, Zenon DEF StatusOwed
<1>3. ~ReceiveSset(k) => ssCache'[k] = ssCache[k] /\ (sset'[k] = sset[k] \/ News(k)')
  BY SsetFrame, Zenon DEF News
<1>4. tracker'[k] = tracker[k] \/ SyncDue(k)'
  BY TrackerFrame, Zenon DEF SyncDue
<1>5. SUFFICES ASSUME ssCache'[k] = ssCache[k], sset'[k] = sset[k], tracker'[k] = tracker[k]
               PROVE  StatusOwed(k)'
  BY <1>2, <1>3, <1>4, Zenon DEF StatusOwed
<1>6. Reading(k)' = Reading(k)
  BY <1>5, ZenonT(60) DEF Reading, GetCondition
<1>7. \/ cr'[k] = cr[k]
      \/ Gone(k)'
      \/ cr[k] # None /\ cr'[k] # None /\ cr'[k].status = cr[k].status
      \/ StatApply /\ stat.key = k
  BY <1>1, ObjectFrame, ZenonT(60) DEF Gone
<1>8. ASSUME stat'.key # k, stat.key # k
      PROVE  StatusOwed(k)'
  BY <1>6, <1>7, <1>8, ZenonT(60) DEF Reported, StatusOwed
<1>9. CASE StatApply
  <2>1. stat'.key # k
    <3>1. stat' = IdleStat
      BY <1>9, ZenonT(60) DEF StatApply, StatFinish
    <3>2. stat'.key = None
      BY <3>1 DEF IdleStat
    <3> QED
      BY <1>1, <3>2, Zenon
  <2> QED
    BY <1>6, <1>8, <1>9, <2>1, ApplyReports, ZenonT(60) DEF StatusOwed
<1>10. CASE StatRead
  <2>1. stat.key # k
    BY <1>1, <1>10, ZenonT(60) DEF StatRead, KeyHeld
  <2>2. stat' = stat \/ stat'.key = Head(statusQ.queue)
    <3>1. \/ stat' = stat
          \/ \E g, a, r : stat' = [pc |-> "apply", key |-> Head(statusQ.queue), gen |-> g,
                                  avail |-> a, rec |-> r]
      BY <1>10, ZenonT(60) DEF StatRead
    <3> QED
      BY <3>1
  <2>3. Head(statusQ.queue) # k => stat'.key # k
    BY <2>1, <2>2, ZenonT(60)
  <2> QED
    BY <1>8, <1>10, <2>1, <2>3, StatReports, ZenonT(60) DEF StatusOwed
<1>11. CASE StatExit
  <2>1. stat.key # k
    BY <1>1, <1>11, ZenonT(60) DEF StatExit, KeyHeld
  <2>2. stat'.key = stat.key
    BY <1>11, ZenonT(60) DEF StatExit, TypeOK
  <2> QED
    BY <1>8, <2>1, <2>2, Zenon
<1>12. CASE UNCHANGED stat /\ ~StatApply
  BY <1>6, <1>7, <1>12, ZenonT(60) DEF Reported, StatusOwed
<1>13. ~StatWorker => UNCHANGED stat
  <2>1. Background => UNCHANGED stat
    BY BackgroundKeeps, Zenon
  <2>2. RecWorker => UNCHANGED stat
    BY ZenonT(60) DEF RecWorker, SyncRead, SyncApply, CreateStatefulSet, UpdateStatefulSet,
             RejectStatefulSet, SyncReturns, SyncReport, RecFinish, RecExit
  <2> QED
    BY <2>1, <2>2, Steps, Zenon
<1> QED
  BY <1>9, <1>10, <1>11, <1>12, <1>13, Zenon DEF StatWorker

\* Every step keeps StatusInv.
LEMMA StatusNext ==
  ASSUME NoBlindSpots, TypeOK, KeyHeld, WatchInv, ChainInv, VersionInv, StatusInv, [Next]_vars
  PROVE  StatusInv'
<1>1. CASE Restart
  <2>1. crCache' = cr
    BY <1>1, Zenon DEF Restart
  <2>2. \A k \in Keys : Desired(cr[k]) => SomeEnqueues(crNotes[k])'
    BY <1>1, RestartNotifies, Zenon
  <2> QED
    BY <2>1, <2>2, Zenon DEF StatusInv, InCharge, StatusOwed, SyncDue
<1>2. ASSUME ~Restart, NEW k \in Keys, InCharge(crCache'[k]), ReceiveCR(k) \/ RelistCR(k)
      PROVE  StatusOwed(k)'
  <2>1. UNCHANGED <<cr, rec, reconcileQ, statusQ, stat, tracker, ssCache, ssNotes, sset, ssWatch>>
    BY <1>2, ZenonT(60) DEF ReceiveCR, RelistCR, recVars
  <2>2. SomeEnqueues(crNotes[k]) => SomeEnqueues(crNotes[k])'
    BY <1>2, NewVersion, Zenon DEF NoBlindSpots
  <2>3. CASE SomeEnqueues(crNotes[k])'
    BY <2>3, Zenon DEF StatusOwed, SyncDue
  <2>4. CASE /\ InCharge(crCache[k])
             /\ crCache'[k].uid = crCache[k].uid /\ crCache'[k].gen = crCache[k].gen
    <3>1. StatusOwed(k)
      BY <2>4, Zenon DEF StatusInv
    <3>2. (SyncDue(k) => SyncDue(k)') /\ (News(k) => News(k)')
      BY <2>1, <2>2, ZenonT(60) DEF SyncDue, News, Busy
    <3>3. StatusDue(k) => StatusDue(k)'
      BY <2>1, Zenon DEF StatusDue
    <3>4. Gone(k) => Gone(k)'
      BY <2>1, <2>4, Zenon DEF Gone
    <3>5. Reading(k)' = Reading(k)
      BY <2>1, <2>4, ZenonT(60) DEF Reading, GetCondition
    <3>6. Reported(k) => Reported(k)'
      BY <2>1, <3>5, ZenonT(60) DEF Reported
    <3> QED
      BY <3>1, <3>2, <3>3, <3>4, <3>6, Zenon DEF StatusOwed
  <2> QED
    BY <1>2, <2>3, <2>4, NewVersionAlike, ZenonT(60)
<1>3. ASSUME ~Restart, NEW k \in Keys, ~ReceiveCR(k), ~RelistCR(k)
      PROVE  crCache'[k] = crCache[k]
  <2>1. crCache \in [Keys -> Versions]
    BY ZenonT(60) DEF TypeOK, Versions
  <2>2. CASE UNCHANGED crCache
    BY <2>2, Zenon
  <2>3. CASE \E j \in Keys : Users(j) \/ Cluster(j) \/ ReceiveSset(j) \/ RelistSset(j) \/ Resync(j)
                               \/ Handlers(j) \/ Timers(j) \/ RefreshStatusFor(j)
    BY <2>2, <2>3, ZenonT(60)
       DEF Users, CreateObject, EditSpec, EditMeta, DeleteObject, UserEdit, FinalizeObject,
           Cluster, GarbageCollect, PodsReady, PodsFail, LoseSset, DriftSset, SsetEvent,
           ReceiveSset, RelistSset, Resync, Handlers, HandleCR, HandleSset, Timers, ReleaseRec,
           ReleaseStat, StatusPoller, RefreshStatusFor, cacheVars
  <2>4. CASE SyncRead \/ SyncReport \/ RecFinish \/ RecExit \/ StatWorker \/ Stop \/ UNCHANGED vars
    BY <2>2, <2>4, ZenonT(60) DEF SyncRead, SyncReport, RecFinish, RecExit, StatWorker,
             StatRead, StatApply, StatExit, Stop, vars, cacheVars
  <2>5. CASE SyncApply
    BY <2>2, <2>5, ZenonT(60) DEF SyncApply, CreateStatefulSet, UpdateStatefulSet,
             RejectStatefulSet, SyncReturns, cacheVars
  <2>6. ASSUME NEW j \in Keys, ReceiveCR(j) \/ RelistCR(j)
        PROVE  crCache'[k] = crCache[k]
    <3>1. j # k /\ \E o : crCache' = [crCache EXCEPT ![j] = o]
      BY <1>3, <2>6, ZenonT(60) DEF ReceiveCR, RelistCR
    <3> QED
      BY <2>1, <3>1, ZenonT(60)
  <2> QED
    BY <1>3, <2>3, <2>4, <2>5, <2>6, ZenonT(60) DEF Next, Informers, RecWorker
<1>4. ASSUME ~Restart, NEW k \in Keys, InCharge(crCache'[k]), ~ReceiveCR(k), ~RelistCR(k)
      PROVE  StatusOwed(k)'
  <2>1. crCache'[k] = crCache[k] /\ InCharge(crCache[k]) /\ crCache[k] # None
    BY <1>3, <1>4, Zenon DEF InCharge, Desired, Present
  <2>2. StatusOwed(k)
    BY <2>1, Zenon DEF StatusInv
  <2>3. CASE SyncDue(k)
    BY <1>4, <2>3, SyncDueStays, ZenonT(60) DEF StatusOwed
  <2>4. CASE News(k)
    BY <1>4, <2>1, <2>4, NewsStays, ZenonT(60) DEF StatusOwed, SyncDue
  <2>5. CASE StatusDue(k)
    BY <1>4, <2>1, <2>5, StatusDueStays, StatReports, ZenonT(60) DEF StatusOwed
  <2>6. CASE Gone(k)
    BY <1>4, <2>1, <2>6, ObjectFrame, ZenonT(60) DEF StatusOwed, Gone
  <2>7. CASE Reported(k)
    BY <1>4, <2>1, <2>7, ReportedStays, ZenonT(60)
  <2> QED
    BY <2>2, <2>3, <2>4, <2>5, <2>6, <2>7, Zenon DEF StatusOwed
<1> QED
  BY <1>1, <1>2, <1>4, ZenonT(60) DEF StatusInv

\* When the operator has nothing left to do for an object it looks after, the
\* status reports a successful reconciliation of its current generation and
\* whether the pods of its StatefulSet are ready, outside the cases NoBlindSpots
\* names.
THEOREM QuietMeansReported ==
  ASSUME NoBlindSpots
  PROVE  Spec => []QuietStatusAccurate
<1> DEFINE Inv == /\ WatchInv /\ LostInv /\ ChainInv /\ VersionInv
                  /\ FailureInv /\ TrackerInv /\ StatusInv
<1>1. HiddenRecreation = FALSE
  BY DEF NoBlindSpots
<1>2. Init => Inv
  <2>1. Init => WatchInv /\ LostInv /\ ChainInv /\ VersionInv
    BY ConvergenceInit, Zenon
  <2>2. Init => FailureInv
    BY DEF Init, FailureInv, FailureIsRetried, IdleRec
  <2>3. Init => TrackerInv
    BY SMTT(60) DEF Init, TrackerInv, IdleRec, EmptyQueue
  <2>4. Init => StatusInv
    BY ZenonT(60) DEF Init, StatusInv, InCharge, Desired, Present
  <2> QED
    BY <2>1, <2>2, <2>3, <2>4, Zenon
<1>3. TypeOK /\ KeyHeld /\ Inv /\ [Next]_vars => Inv'
  BY <1>1, WatchNext, LostNext, ChainNext, VersionNext, FailureNext, TrackerNext, StatusNext,
     ZenonT(60)
<1>4. TypeOK /\ Inv /\ QuietConverged => QuietStatusAccurate
  <2> SUFFICES ASSUME TypeOK, Inv, QuietConverged, NEW k \in Keys, Quiet(k), InCharge(cr[k])
               PROVE  /\ sset[k] # None
                      /\ cr[k].status = [avail |-> Available(sset[k], sset[k]), rec |-> "True",
                                         obs |-> cr[k].gen]
    BY ZenonT(60) DEF QuietStatusAccurate
  <2>1. crCache[k] = cr[k] /\ cr[k] # None
    BY ZenonT(60) DEF WatchInv, Leads, Quiet, InCharge, Desired, Present
  <2>2. ssCache[k] = sset[k]
    BY QuietCache, ZenonT(60) DEF Quiet
  <2>3. sset[k] # None
    BY Zenon DEF QuietConverged, Built
  <2>4. ~SomeEnqueues(crNotes[k]) /\ ~SomeSpeaks(ssNotes[k])
    BY DEF Quiet, SomeEnqueues, SomeSpeaks
  <2>5. ~SyncDue(k) /\ ~News(k) /\ ~Gone(k)
    <3>1. ~(sset[k] # None /\ sset[k].deleting)
      BY Zenon DEF Quiet, Garbage
    <3> QED
      BY <2>1, <2>4, <3>1, ZenonT(60) DEF Quiet, SyncDue, News, Gone
  <2>6. ~StatusDue(k)
    BY Zenon DEF Quiet, StatusDue, TrackerInv, Busy
  <2>7. Reported(k) /\ stat.key # k
    BY <2>1, <2>5, <2>6, ZenonT(60) DEF StatusInv, StatusOwed, Quiet
  <2>8. cr[k].status = Reading(k)
    BY <2>7, Zenon DEF Reported
  <2>9. tracker[k] = "ok"
    <3>1. tracker[k] \in {"none", "ok", "err"}
      BY ZenonT(60) DEF TypeOK
    <3>2. tracker[k] # "err"
      BY Zenon DEF FailureInv, FailureIsRetried, Quiet
    <3>3. tracker[k] # "none"
      <4>1. Covered(k)
        BY <2>1, <2>4, ZenonT(60) DEF LostInv, InCharge, Quiet
      <4>2. synced[k] # None
        BY <4>1, ZenonT(60) DEF Covered, UpToDate, Quiet
      <4> QED
        BY <4>2, Zenon DEF TrackerInv, Quiet
    <3> QED
      BY <3>1, <3>2, <3>3
  <2>10. GetCondition(k) = "True"
    BY <2>9 DEF GetCondition
  <2> QED
    BY <2>1, <2>2, <2>3, <2>8, <2>10, Zenon DEF Reading
<1> HIDE DEF Inv
<1> QED
  BY <1>2, <1>3, <1>4, TypeCorrect, QuietMeansConverged, PTL DEF Spec
=============================================================================
