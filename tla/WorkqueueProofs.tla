--------------------------- MODULE WorkqueueProofs ---------------------------
(***************************************************************************)
(* What the operations of a work queue preserve, for every queue and key.  *)
(***************************************************************************)
EXTENDS Workqueue, Integers, TLAPS

\* Every dirty key is in the queue, or held by a worker whose Done queues it.
Sound(q) == \A k \in q.dirty : InQueue(q, k) \/ k \in q.processing

\* Appending to a sequence keeps its elements and adds one.
LEMMA InAppend ==
  ASSUME NEW s \in Seq(Keys), NEW k \in Keys, NEW j \in Keys
  PROVE  /\ Append(s, k) \in Seq(Keys)
         /\ \E i \in DOMAIN Append(s, k) : Append(s, k)[i] = k
         /\ (\E i \in DOMAIN s : s[i] = j)
              => \E i \in DOMAIN Append(s, k) : Append(s, k)[i] = j
<1>1. Append(s, k) \in Seq(Keys) /\ Append(s, k)[Len(s) + 1] = k
  OBVIOUS
<1>2. Len(s) + 1 \in DOMAIN Append(s, k)
  OBVIOUS
<1>3. \A i \in DOMAIN s : i \in DOMAIN Append(s, k) /\ Append(s, k)[i] = s[i]
  OBVIOUS
<1> QED
  BY <1>1, <1>2, <1>3

\* The elements of a sequence other than its head are in its tail.
LEMMA InTail ==
  ASSUME NEW s \in Seq(Keys), s # <<>>, NEW j \in Keys, j # Head(s),
         \E i \in DOMAIN s : s[i] = j
  PROVE  \E i \in DOMAIN Tail(s) : Tail(s)[i] = j
<1>1. PICK i \in DOMAIN s : s[i] = j
  OBVIOUS
<1>2. i \in 1..Len(s) /\ i # 1
  BY <1>1
<1>3. i - 1 \in DOMAIN Tail(s) /\ Tail(s)[i - 1] = s[i]
  BY <1>2
<1> QED
  BY <1>1, <1>3

\* Add (client-go): the key is pending unless the queue is shut down, and no
\* other key is disturbed.
LEMMA AddFacts ==
  ASSUME NEW q \in Queue, NEW k \in Keys
  PROVE  /\ Add(q, k) \in Queue
         /\ Add(q, k).down = q.down
         /\ Add(q, k).waiting = q.waiting
         /\ Add(q, k).processing = q.processing
         /\ q.dirty \subseteq Add(q, k).dirty
         /\ q.down \/ k \in Add(q, k).dirty
         /\ Sound(q) => Sound(Add(q, k))
<1>1. CASE q.down \/ k \in q.dirty
  BY <1>1 DEF Add
<1>2. CASE ~(q.down \/ k \in q.dirty) /\ k \in q.processing
  <2>1. Add(q, k) = [q EXCEPT !.dirty = q.dirty \cup {k}, !.queue = q.queue]
    BY <1>2 DEF Add
  <2>2. Add(q, k) \in Queue
    BY <2>1, ZenonT(60) DEF Queue
  <2>3. /\ Add(q, k).down = q.down
        /\ Add(q, k).waiting = q.waiting
        /\ Add(q, k).processing = q.processing
        /\ Add(q, k).dirty = q.dirty \cup {k}
        /\ Add(q, k).queue = q.queue
    BY <2>1 DEF Queue
  <2>4. Sound(q) => Sound(Add(q, k))
    BY <2>3, <1>2 DEF Sound, InQueue
  <2> QED
    BY <2>2, <2>3, <2>4
<1>3. CASE ~(q.down \/ k \in q.dirty) /\ k \notin q.processing
  <2>1. Add(q, k) = [q EXCEPT !.dirty = q.dirty \cup {k}, !.queue = Append(q.queue, k)]
    BY <1>3 DEF Add
  <2>2. Append(q.queue, k) \in Seq(Keys)
    BY DEF Queue
  <2>3. Add(q, k) \in Queue
    BY <2>1, <2>2, ZenonT(60) DEF Queue
  <2>4. /\ Add(q, k).down = q.down
        /\ Add(q, k).waiting = q.waiting
        /\ Add(q, k).processing = q.processing
        /\ Add(q, k).dirty = q.dirty \cup {k}
        /\ Add(q, k).queue = Append(q.queue, k)
    BY <2>1 DEF Queue
  <2>5. q.dirty \subseteq Keys /\ q.queue \in Seq(Keys)
    BY DEF Queue
  <2>6. ASSUME NEW j \in Keys, InQueue(q, j)
        PROVE  InQueue(Add(q, k), j)
    <3>1. PICK i \in DOMAIN q.queue : q.queue[i] = j
      BY <2>6 DEF InQueue
    <3>2. i \in DOMAIN Append(q.queue, k) /\ Append(q.queue, k)[i] = j
      BY <2>5, <3>1, InAppend
    <3> QED
      BY <2>4, <3>2 DEF InQueue
  <2>7. InQueue(Add(q, k), k)
    BY <2>4, <2>5, InAppend DEF InQueue
  <2>8. Sound(q) => Sound(Add(q, k))
    BY <2>4, <2>5, <2>6, <2>7 DEF Sound
  <2> QED
    BY <2>3, <2>4, <2>8
<1> QED
  BY <1>1, <1>2, <1>3

\* Get: only the key handed out loses its dirty mark, and it is processing.
LEMMA GetFacts ==
  ASSUME NEW q \in Queue, q.queue # <<>>
  PROVE  /\ Get(q) \in Queue
         /\ Head(q.queue) \in Keys
         /\ Get(q).down = q.down
         /\ Get(q).waiting = q.waiting
         /\ Get(q).processing = q.processing \cup {Head(q.queue)}
         /\ Get(q).dirty = q.dirty \ {Head(q.queue)}
         /\ Sound(q) => Sound(Get(q))
<1>1. q.queue \in Seq(Keys) /\ q.dirty \subseteq Keys
  BY DEF Queue
<1>2. Head(q.queue) \in Keys /\ Tail(q.queue) \in Seq(Keys)
  BY <1>1
<1>3. /\ Get(q).down = q.down
      /\ Get(q).waiting = q.waiting
      /\ Get(q).processing = q.processing \cup {Head(q.queue)}
      /\ Get(q).dirty = q.dirty \ {Head(q.queue)}
      /\ Get(q).queue = Tail(q.queue)
  BY DEF Get, Queue
<1>4. Get(q) \in Queue
  BY <1>2, Zenon DEF Get, Queue
<1>5. \A j \in Keys : InQueue(q, j) /\ j # Head(q.queue) => InQueue(Get(q), j)
  BY <1>1, <1>3, InTail DEF InQueue
<1>6. Sound(q) => Sound(Get(q))
  BY <1>1, <1>3, <1>5 DEF Sound
<1> QED
  BY <1>2, <1>3, <1>4, <1>6

\* Done: no dirty mark is lost, and a dirty key goes back to the queue.
LEMMA DoneFacts ==
  ASSUME NEW q \in Queue, NEW k \in Keys
  PROVE  /\ Done(q, k) \in Queue
         /\ Done(q, k).down = q.down
         /\ Done(q, k).waiting = q.waiting
         /\ Done(q, k).processing = q.processing \ {k}
         /\ Done(q, k).dirty = q.dirty
         /\ Sound(q) => Sound(Done(q, k))
<1>1. q.queue \in Seq(Keys) /\ q.dirty \subseteq Keys
  BY DEF Queue
<1>2. CASE k \in q.dirty
  <2>1. Done(q, k) = [q EXCEPT !.processing = q.processing \ {k},
                               !.queue = Append(q.queue, k)]
    BY <1>2 DEF Done
  <2>2. Append(q.queue, k) \in Seq(Keys)
    BY <1>1
  <2>3. Done(q, k) \in Queue
    BY <2>1, <2>2, Zenon DEF Queue
  <2>4. /\ Done(q, k).down = q.down
        /\ Done(q, k).waiting = q.waiting
        /\ Done(q, k).processing = q.processing \ {k}
        /\ Done(q, k).dirty = q.dirty
        /\ Done(q, k).queue = Append(q.queue, k)
    BY <2>1 DEF Queue
  <2>5. ASSUME NEW j \in Keys, InQueue(q, j) \/ j = k
        PROVE  InQueue(Done(q, k), j)
    <3>1. CASE j = k
      BY <1>1, <2>4, <3>1, InAppend DEF InQueue
    <3>2. CASE InQueue(q, j)
      <4>1. PICK i \in DOMAIN q.queue : q.queue[i] = j
        BY <3>2 DEF InQueue
      <4>2. i \in DOMAIN Append(q.queue, k) /\ Append(q.queue, k)[i] = j
        BY <1>1, <4>1, InAppend
      <4> QED
        BY <2>4, <4>2 DEF InQueue
    <3> QED
      BY <2>5, <3>1, <3>2
  <2>6. Sound(q) => Sound(Done(q, k))
    BY <1>1, <2>4, <2>5 DEF Sound
  <2> QED
    BY <2>3, <2>4, <2>6
<1>3. CASE k \notin q.dirty
  <2>1. Done(q, k) = [q EXCEPT !.processing = q.processing \ {k}, !.queue = q.queue]
    BY <1>3 DEF Done
  <2>2. Done(q, k) \in Queue
    BY <2>1, Zenon DEF Queue
  <2>3. /\ Done(q, k).down = q.down
        /\ Done(q, k).waiting = q.waiting
        /\ Done(q, k).processing = q.processing \ {k}
        /\ Done(q, k).dirty = q.dirty
        /\ Done(q, k).queue = q.queue
    BY <2>1 DEF Queue
  <2>4. Sound(q) => Sound(Done(q, k))
    BY <1>3, <2>3 DEF Sound, InQueue
  <2> QED
    BY <2>2, <2>3, <2>4
<1> QED
  BY <1>2, <1>3

\* AddRateLimited: the key waits, unless the queue is shut down.
LEMMA AddRateLimitedFacts ==
  ASSUME NEW q \in Queue, NEW k \in Keys
  PROVE  /\ AddRateLimited(q, k) \in Queue
         /\ AddRateLimited(q, k).down = q.down
         /\ q.waiting \subseteq AddRateLimited(q, k).waiting
         /\ q.down \/ k \in AddRateLimited(q, k).waiting
         /\ AddRateLimited(q, k).processing = q.processing
         /\ AddRateLimited(q, k).dirty = q.dirty
         /\ Sound(q) => Sound(AddRateLimited(q, k))
<1>1. CASE q.down
  BY <1>1, Zenon DEF AddRateLimited
<1>2. CASE ~q.down
  <2>1. AddRateLimited(q, k) = [q EXCEPT !.waiting = q.waiting \cup {k}]
    BY <1>2 DEF AddRateLimited
  <2> QED
    BY <2>1 DEF Queue, Sound, InQueue
<1> QED
  BY <1>1, <1>2

\* Release: the key moves from waiting to dirty, unless the queue is shut down.
LEMMA ReleaseFacts ==
  ASSUME NEW q \in Queue, NEW k \in Keys
  PROVE  /\ Release(q, k) \in Queue
         /\ Release(q, k).down = q.down
         /\ Release(q, k).waiting = q.waiting \ {k}
         /\ Release(q, k).processing = q.processing
         /\ q.dirty \subseteq Release(q, k).dirty
         /\ q.down \/ k \in Release(q, k).dirty
         /\ Sound(q) => Sound(Release(q, k))
<1> DEFINE r == [q EXCEPT !.waiting = q.waiting \ {k}]
<1>1. /\ r \in Queue
      /\ r.down = q.down
      /\ r.waiting = q.waiting \ {k}
      /\ r.processing = q.processing
      /\ r.dirty = q.dirty
      /\ r.queue = q.queue
  BY DEF Queue
<1>2. Sound(q) => Sound(r)
  BY <1>1 DEF Sound, InQueue
<1>3. Release(q, k) = Add(r, k)
  BY DEF Release
<1> HIDE DEF r
<1> QED
  BY <1>1, <1>2, <1>3, AddFacts

\* ShutDown changes nothing but the flag; a new queue is empty.
LEMMA ShutDownFacts ==
  ASSUME NEW q \in Queue
  PROVE  /\ ShutDown(q) \in Queue
         /\ ShutDown(q).down
         /\ ShutDown(q).processing = q.processing
         /\ Sound(q) => Sound(ShutDown(q))
BY Zenon DEF ShutDown, Queue, Sound, InQueue

\* A new queue holds nothing.
LEMMA EmptyFacts ==
  EmptyQueue \in Queue /\ Sound(EmptyQueue) /\ EmptyQueue.processing = {}
BY DEF EmptyQueue, Queue, Sound
=============================================================================
