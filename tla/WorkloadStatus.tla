----------------------------- MODULE WorkloadStatus -----------------------------
(***************************************************************************)
(* The status of an object: UpdateStatus of the four controllers reads the *)
(* StatefulSets of the object from the informer's cache and their pods     *)
(* from the API server, one StatefulSet after the other, and writes what   *)
(* it counted.  It runs when a StatefulSet changes and, for objects that   *)
(* are not available, when the poller of pkg/operator/status.go says so.   *)
(*                                                                         *)
(* A Prometheus or a PrometheusAgent has a StatefulSet for every shard,    *)
(* an Alertmanager or a ThanosRuler has one.  The pods of a shard are a    *)
(* sequence: "new", "old" (ready, of an older revision) or "down" (updated *)
(* and not ready).  An agent that runs as a DaemonSet is not followed: its *)
(* status looks for StatefulSets and is False.                             *)
(***************************************************************************)
EXTENDS Integers, Sequences, FiniteSets, SequencesExt

CONSTANTS MaxShards, MaxPods   \* bounds: shards, and pods of a shard

VARIABLES
  workload,               \* [controller, replicas, shards, scale, left (bound: changes), faults]
  reported,               \* status of the object at the API server
  statusSync              \* the worker: [queued, pc, seen]

statusVars == <<workload, reported, statusSync>>

\* blip: the pods changed more than once since the StatefulSet's status was written.
Shard(phase, pods, counted) ==
  [phase |-> phase, pods |-> pods, counted |-> counted, changes |-> 0, blip |-> FALSE]

NoStatus == [available |-> "Unknown", replicas |-> 0, updated |-> 0, ready |-> 0, scale |-> FALSE]

IdleStatus(queued) == [queued |-> queued, pc |-> "idle", seen |-> <<>>]

ShardIds == DOMAIN workload.shards

\* A new process finds the object in its first list, if there is one.
NewStatus == IdleStatus(ShardIds # {})
-----------------------------------------------------------------------------
(* What the reporter counts.                                                 *)

Ready(p) == p \in {"new", "old"}

IsUpdated(p) == p \in {"new", "down"}

ReadyPods(pods) == Len(SelectSeq(pods, Ready))
UpdatedPods(pods) == Len(SelectSeq(pods, IsUpdated))

\* NewStatefulSetReporter: the pods it owns, none when there is no StatefulSet.
NewStatefulSetReporter(s) ==
  [phase |-> s.phase, pods |-> IF s.phase = "missing" THEN <<>> ELSE s.pods]

\* The condition after one more shard: the test that should keep it False is made on
\* a variable that is never set.
AvailableAfter(available, r, replicas) ==
  CASE r.phase = "missing" -> "False"
    [] r.phase = "deleting" -> available
    [] r.phase = "there" /\ ReadyPods(r.pods) >= replicas -> available
    [] r.phase = "there" /\ ReadyPods(r.pods) < replicas ->
         IF ReadyPods(r.pods) = 0 THEN "False" ELSE "Degraded"

Total(Count(_), seen) == FoldLeft(LAMBDA n, r : n + Count(r.pods), 0, seen)

\* Process: shards whose StatefulSet is being deleted are not counted.
Process(seen, replicas) ==
  LET counted == SelectSeq(seen, LAMBDA r : r.phase = "there")
  IN [available |-> FoldLeft(LAMBDA a, r : AvailableAfter(a, r, replicas), "True", seen),
      replicas |-> Total(Len, counted), updated |-> Total(UpdatedPods, counted),
      ready |-> Total(ReadyPods, counted)]

\* Update of the reporter of one StatefulSet.
Update(r, replicas) ==
  [available |-> CASE r.phase = "missing" -> "False"
                   [] r.phase # "missing" /\ ReadyPods(r.pods) >= replicas -> "True"
                   [] OTHER -> IF ReadyPods(r.pods) = 0 THEN "False" ELSE "Degraded",
   replicas |-> Len(r.pods), updated |-> UpdatedPods(r.pods), ready |-> ReadyPods(r.pods)]
-----------------------------------------------------------------------------
(* UpdateStatus: the shards are read one by one, then the status is written. *)

\* Alertmanager and ThanosRuler: nothing to report while the StatefulSet goes.
Leaves == statusSync.seen[1].phase = "deleting"

Sharded == workload.controller \in {"prometheus", "agent"}

StartStatus ==
  /\ statusSync.queued /\ statusSync.pc = "idle"
  /\ statusSync' = [IdleStatus(FALSE) EXCEPT !.pc = "read"]
  /\ UNCHANGED <<workload, reported>>

Fails == workload.faults > 0 /\ workload' = [workload EXCEPT !.faults = @ - 1]

\* An error: the key comes back.
Retry == statusSync' = IdleStatus(TRUE)

ReadShard ==
  /\ statusSync.pc = "read"
  /\ \/ /\ LET r == NewStatefulSetReporter(workload.shards[Len(statusSync.seen) + 1])
               seen == Append(statusSync.seen, r)
           IN statusSync' = [statusSync EXCEPT !.seen = seen,
                               !.pc = IF Len(seen) = Len(workload.shards) THEN "apply" ELSE "read"]
        /\ UNCHANGED workload
     \/ Fails /\ Retry
  /\ UNCHANGED reported

WithScale(status, scale) ==
  [available |-> status.available, replicas |-> status.replicas, updated |-> status.updated,
   ready |-> status.ready, scale |-> scale]

\* The fields that the operator owns: what an apply leaves out is removed.
ApplyConfigurationFromPrometheus(status, scale) == WithScale(status, scale)
ApplyConfigurationFromAlertmanager(status, scale) == WithScale(status, scale)
applyConfigurationFromThanosRuler(status) == WithScale(status, FALSE)

Done == statusSync' = IdleStatus(statusSync.queued)

\* ApplyStatus with the fields of the scale subresource, which an older CRD does not
\* have; after an error of any kind, ApplyStatus without them.
ApplyTwice(From(_)) ==
  \/ reported' = From(workload.scale) /\ Done /\ UNCHANGED workload
  \/ Fails /\ reported' = From(FALSE) /\ Done
  \/ Fails /\ Retry /\ UNCHANGED reported

prometheusUpdateStatus ==
  ApplyTwice(LAMBDA scale : ApplyConfigurationFromPrometheus(Process(statusSync.seen, workload.replicas), scale))

agentUpdateStatus ==
  ApplyTwice(LAMBDA scale : ApplyConfigurationFromPrometheus(Process(statusSync.seen, workload.replicas), scale))

alertmanagerUpdateStatus ==
  \/ Leaves /\ Done /\ UNCHANGED <<workload, reported>>
  \/ /\ ~Leaves
     /\ ApplyTwice(LAMBDA scale : ApplyConfigurationFromAlertmanager(
                                   Update(statusSync.seen[1], workload.replicas), scale))

\* ThanosRuler has no scale subresource and tries once.
thanosUpdateStatus ==
  \/ Leaves /\ Done /\ UNCHANGED <<workload, reported>>
  \/ /\ ~Leaves
     /\ reported' = applyConfigurationFromThanosRuler(Update(statusSync.seen[1], workload.replicas))
     /\ Done /\ UNCHANGED workload
  \/ ~Leaves /\ Fails /\ Retry /\ UNCHANGED reported

ApplyStatus ==
  /\ statusSync.pc = "apply"
  /\ \/ workload.controller = "prometheus" /\ prometheusUpdateStatus
     \/ workload.controller = "agent" /\ agentUpdateStatus
     \/ workload.controller = "alertmanager" /\ alertmanagerUpdateStatus
     \/ workload.controller = "thanos" /\ thanosUpdateStatus

RefreshStatusFor ==
  /\ ~statusSync.queued
  /\ statusSync' = [statusSync EXCEPT !.queued = TRUE]
  /\ UNCHANGED <<workload, reported>>

\* mutant: only objects whose condition is False are refreshed
StatusPollerOfFalse == reported.available = "False" /\ RefreshStatusFor

\* Objects that have the condition, and not True.
StatusPoller == reported.available \in {"False", "Degraded"} /\ RefreshStatusFor

StatusStep == StartStatus \/ ReadShard \/ ApplyStatus \/ StatusPoller
-----------------------------------------------------------------------------
(* The cluster.                                                              *)

Change == workload.left > 0

Edited(s, shard) == [workload EXCEPT !.shards[s] = shard, !.left = @ - 1]

\* A pod fails or is replaced, and a pod that was not ready is.
ChangePod(s, i) ==
  LET shard == workload.shards[s]
  IN /\ Change /\ shard.phase = "there" /\ i <= Len(shard.pods)
     /\ workload' = Edited(s, [shard EXCEPT !.pods[i] = IF Ready(@) THEN "down" ELSE "new",
                                            !.changes = 1,
                                            !.blip = @ \/ shard.changes = 1])
     /\ UNCHANGED <<reported, statusSync>>

\* The controller of StatefulSets counts pods; if its status changes, the informer sees
\* the StatefulSet change (onStatefulSetUpdate).
CountPods(s) ==
  LET shard == workload.shards[s]
      counts == <<ReadyPods(shard.pods), UpdatedPods(shard.pods)>>
  IN /\ shard.phase = "there" /\ (shard.changes = 1 \/ shard.counted # counts)
     /\ workload' = [workload EXCEPT !.shards[s] = [shard EXCEPT !.counted = counts, !.changes = 0]]
     /\ statusSync' = [statusSync EXCEPT !.queued = @ \/ shard.counted # counts]
     /\ UNCHANGED reported

\* A StatefulSet is deleted, goes, and is created again by the reconciliation, which
\* ends with a status update (onStatefulSetDelete, onStatefulSetAdd).
CycleStatefulSet(s) ==
  LET shard == workload.shards[s]
      none == <<0, 0>>
  IN \/ /\ Change /\ shard.phase = "there"
        /\ workload' = Edited(s, [shard EXCEPT !.phase = "deleting"])
        /\ UNCHANGED <<reported, statusSync>>
     \/ /\ shard.phase = "deleting"
        /\ workload' = [workload EXCEPT !.shards[s] = Shard("missing", <<>>, none)]
        /\ statusSync' = [statusSync EXCEPT !.queued = TRUE]
        /\ UNCHANGED reported
     \/ /\ shard.phase = "missing"
        /\ workload' = [workload EXCEPT !.shards[s] =
             Shard("there", [i \in 1..workload.replicas |-> "new"], none)]
        /\ statusSync' = [statusSync EXCEPT !.queued = TRUE]
        /\ UNCHANGED reported

PodsStep ==
  \E s \in ShardIds :
    \/ \E i \in 1..MaxPods : ChangePod(s, i)
    \/ CountPods(s) \/ CycleStatefulSet(s)
-----------------------------------------------------------------------------
(* What the status should say.                                               *)

There == {s \in ShardIds : workload.shards[s].phase = "there"}

AllReady == There = ShardIds /\ \A s \in ShardIds : ReadyPods(workload.shards[s].pods) >= workload.replicas

SomeShardDown ==
  \E s \in ShardIds : s \notin There \/ ReadyPods(workload.shards[s].pods) = 0

\* Gap (Process): a shard that is degraded hides one before it that is down.
MayHide == Sharded

\* Gap (StatusPoller): a status that was True while a pod was ready for a moment that the controller
\* of StatefulSets did not see is not refreshed.
Blip == \E s \in ShardIds : workload.shards[s].blip

StatusCurrent ==
  /\ (reported.available = "True") = AllReady
  /\ reported.available = "False" => SomeShardDown
  /\ reported.available = "Degraded" => MayHide \/ ~SomeShardDown
  /\ reported.ready = FoldSet(LAMBDA s, n : n + ReadyPods(workload.shards[s].pods), 0, There)
=============================================================================
