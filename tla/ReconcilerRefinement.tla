------------------------- MODULE ReconcilerRefinement -------------------------
(***************************************************************************)
(* The ResourceReconciler implements ReconcileLoop.  A key is owed when    *)
(* the work queue will hand it out, or when a notification that was not    *)
(* handled yet will add it; the job ends for the abstract loop when Sync   *)
(* reports success, and after a failure when the key waits for its retry.  *)
(***************************************************************************)
EXTENDS ResourceReconciler

Current == [k \in Keys |-> Desire(crCache[k])]

Owed == {k \in Keys : \/ Pending(reconcileQ, k)
                      \/ \E i \in DOMAIN crNotes[k] : Enqueues(crNotes[k][i])}

Job == IF rec.key = None \/ (rec.pc = "finish" /\ ~rec.err)
       THEN [key |-> None, obj |-> None]
       ELSE [key |-> rec.key, obj |-> rec.obj]

SameVersion(read, o) == read # None /\ o # None /\ UpToDate(read, o)

Loop == INSTANCE ReconcileLoop
          WITH Wanted <- Desired, Same <- SameVersion,
               current <- Current, owed <- Owed, job <- Job, done <- synced,
               stopped <- reconcileQ.down

(* The reconciler is a level-triggered loop: every step of its queues,     *)
(* watches and workers is a step of ReconcileLoop or invisible to it, and  *)
(* every key that is owed is reconciled.                                   *)
ImplementsLoop == Loop!Spec

(* The safety half of it: every step of the queues, watches and workers is *)
(* a step of ReconcileLoop or invisible to it.                             *)
ImplementsSafeLoop == Loop!Safe
=============================================================================
