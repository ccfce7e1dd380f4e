---------------------------- MODULE ReconcileLoop ----------------------------
(***************************************************************************)
(* What the ResourceReconciler promises to a controller, without queues,   *)
(* watches and notifications: level-triggered reconciliation.              *)
(*                                                                         *)
(*   current  the objects as the operator knows them                       *)
(*   owed     the keys that are to be reconciled (again)                   *)
(*   job      the one reconciliation that runs, and the object it works on *)
(*   done     the object the last successful reconciliation worked on      *)
(*   stopped  the operator was asked to stop: from then on it owes nothing *)
(*                                                                         *)
(* A change of an object and the debt to reconcile it are one step here;   *)
(* a reconciliation works on the object as it is when it starts; a change  *)
(* that arrives meanwhile, or a failure, leaves the key owed.              *)
(***************************************************************************)
EXTENDS TLAPS

CONSTANTS Keys, None,
          Wanted(_),      \* an object the operator is to reconcile
          Same(_, _)      \* two versions that need no new reconciliation

VARIABLES current, owed, job, done, stopped
vars == <<current, owed, job, done, stopped>>

NoJob == [key |-> None, obj |-> None]

Init ==
  /\ \A k \in Keys : ~Wanted(current[k])
  /\ owed = {} /\ job = NoJob /\ ~stopped
  /\ done = [k \in Keys |-> None]

\* The object of k becomes another one, or is seen for the first time.  A new
\* version that is wanted and not the same as the old one is owed.
Observe(k) ==
  /\ \A j \in Keys \ {k} : current'[j] = current[j]
  /\ owed' \in {owed, owed \cup {k}}
  /\ Wanted(current'[k]) =>
       k \in owed' \/ (Wanted(current[k]) /\ Same(current[k], current'[k]))
  /\ UNCHANGED <<job, done, stopped>>

\* Something else makes a reconciliation of k necessary.
Notify(k) ==
  /\ owed' = owed \cup {k}
  /\ UNCHANGED <<current, job, done, stopped>>

\* The debt may remain: more than one change may have caused it.
Begin(k) ==
  /\ job = NoJob /\ k \in owed
  /\ job' = [key |-> k, obj |-> current[k]]
  /\ owed' \in {owed, owed \ {k}}
  /\ UNCHANGED <<current, done, stopped>>

Succeed ==
  /\ job # NoJob
  /\ done' = [done EXCEPT ![job.key] = job.obj]
  /\ job' = NoJob
  /\ UNCHANGED <<current, owed, stopped>>

Fail ==
  /\ job # NoJob
  /\ job' = NoJob
  /\ stopped \/ job.key \in owed'
  /\ owed' \in {owed, owed \cup {job.key}}
  /\ UNCHANGED <<current, done, stopped>>

Stop ==
  /\ stopped' /\ UNCHANGED <<current, owed, job, done>>

\* Debts are dropped once the operator stops.
Drop ==
  /\ stopped /\ owed' \subseteq owed
  /\ UNCHANGED <<current, job, done, stopped>>

\* A new process knows of no reconciliation: every wanted object is owed.
Restart ==
  /\ \A k \in Keys : Wanted(current'[k]) => k \in owed'
  /\ owed' \subseteq Keys
  /\ job' = NoJob /\ done' = [k \in Keys |-> None] /\ ~stopped'

Next ==
  \/ \E k \in Keys : Observe(k) \/ Notify(k) \/ Begin(k)
  \/ Succeed \/ Fail \/ Stop \/ Drop \/ Restart

\* A key that is owed is reconciled, unless the operator stops.
Responsive == \A k \in Keys : []<>(stopped \/ k \notin owed \/ job.key = k)

Safe == Init /\ [][Next]_vars
Spec == Safe /\ Responsive

(* What a controller may rely on: an object that is wanted was reconciled  *)
(* as it is, or is being reconciled as it is, or will be.                  *)
NothingLost ==
  \A k \in Keys : Wanted(current[k]) =>
    \/ stopped
    \/ k \in owed
    \/ job.key = k /\ Same(job.obj, current[k])
    \/ Same(done[k], current[k])

\* NothingLost, made inductive: while a job runs for k, what it works on counts,
\* since its success replaces what was done before.
LoopInv ==
  /\ job = NoJob \/ job.key \in Keys
  /\ DOMAIN done = Keys
  /\ \A k \in Keys : Wanted(current[k]) =>
       \/ stopped
       \/ k \in owed
       \/ IF job.key = k THEN Same(job.obj, current[k]) ELSE Same(done[k], current[k])

(* Level-triggered reconciliation loses no change, whatever the objects,   *)
(* as long as being the same is transitive: a change that arrives while a  *)
(* reconciliation runs, a failure, or a success on an outdated object never *)
(* leaves a wanted object neither reconciled nor owed.                      *)
THEOREM LoopLosesNothing ==
  ASSUME None \notin Keys,
         \A a : Wanted(a) => Same(a, a),
         \A a, b, c : Same(a, b) /\ Same(b, c) => Same(a, c)
  PROVE  Safe => []NothingLost
<1>1. Init => LoopInv
  BY DEF Init, LoopInv
<1>2. LoopInv /\ [Next]_vars => LoopInv'
  <2> SUFFICES ASSUME LoopInv, [Next]_vars
               PROVE  LoopInv'
    OBVIOUS
  <2>1. NoJob.key = None
    BY DEF NoJob
  <2>2. ASSUME NEW k \in Keys, Observe(k)
        PROVE  LoopInv'
    BY <2>2 DEF LoopInv, Observe
  <2>3. ASSUME NEW k \in Keys, Notify(k)
        PROVE  LoopInv'
    BY <2>3 DEF LoopInv, Notify
  <2>4. ASSUME NEW k \in Keys, Begin(k)
        PROVE  LoopInv'
    <3>1. job.key = None /\ job'.key = k /\ job'.obj = current[k]
      BY <2>1, <2>4 DEF Begin
    <3>2. \A j \in Keys \ {k} : j \in owed => j \in owed'
      BY <2>4 DEF Begin
    <3> QED
      BY <2>4, <3>1, <3>2 DEF LoopInv, Begin
  <2>5. CASE Succeed
    <3>1. job.key \in Keys /\ job'.key = None /\ UNCHANGED <<current, owed, stopped>>
      BY <2>1, <2>5 DEF Succeed, LoopInv
    <3>2. /\ DOMAIN done' = Keys /\ done'[job.key] = job.obj
          /\ \A k \in Keys \ {job.key} : done'[k] = done[k]
      BY <2>5, <3>1 DEF Succeed, LoopInv
    <3> QED
      BY <2>5, <3>1, <3>2 DEF LoopInv, Succeed
  <2>6. CASE Fail
    <3>1. /\ job.key \in Keys /\ job'.key = None
          /\ UNCHANGED <<current, done, stopped>>
          /\ stopped \/ job.key \in owed'
          /\ \A k \in owed : k \in owed'
      BY <2>1, <2>6 DEF Fail, LoopInv
    <3> QED
      BY <2>6, <3>1 DEF LoopInv, Fail
  <2>7. CASE Stop \/ Drop
    BY <2>7 DEF LoopInv, Stop, Drop
  <2>8. CASE Restart
    BY <2>8 DEF LoopInv, Restart
  <2>9. CASE UNCHANGED vars
    BY <2>9 DEF LoopInv, vars
  <2> QED
    BY <2>2, <2>3, <2>4, <2>5, <2>6, <2>7, <2>8, <2>9 DEF Next
<1>3. LoopInv => NothingLost
  BY DEF LoopInv, NothingLost
<1> QED
  BY <1>1, <1>2, <1>3, PTL DEF Safe
=============================================================================
