--------------------------- MODULE ControllerSync ---------------------------
(***************************************************************************)
(* One sync() after another of one Prometheus, PrometheusAgent,            *)
(* Alertmanager or ThanosRuler object: the API calls a controller makes to *)
(* materialise it, in the order of the code, each call a step of its own.  *)
(* Between two calls users edit the object, its inputs and what was        *)
(* created, informers deliver late, calls fail and the operator restarts.  *)
(*                                                                         *)
(* The queue is the one of Workqueue and ResourceReconciler, seen from one *)
(* key: queued says whether the key is to be processed (again).  Events of *)
(* Secrets, ConfigMaps and rules carry no data that sync reads from a      *)
(* cache, so they set queued at once; the object and its workloads are     *)
(* read from caches that lag behind the API (seen and cached).             *)
(***************************************************************************)
EXTENDS Sharding, FiniteSets, Functions

CONSTANTS Setups,     \* the controllers and gates an instance starts from
          MaxShards,  \* shards a spec may ask for
          RuleFiles,  \* sequence of rule files, in the order of their names
          AssetFiles, \* sequence of TLS assets, in the order of their names
          MaxEdits,   \* bound: changes made by users
          MaxFaults,  \* bound: failed API calls and restarts of the operator
          MaxFinalizers, \* bound: finalizers on the object
          MaxDrifts   \* bound: edits of a StatefulSet by someone else

ASSUME SyncAssumption ==
    /\ MaxShards \in Nat \ {0}
    /\ MaxEdits \in Nat /\ MaxFaults \in Nat /\ MaxDrifts \in Nat
    /\ MaxFinalizers \in Nat \ {0}

\* Only a Prometheus server may leave its configuration to the user and has a
\* retention policy for its shards.
ASSUME SetupsAssumption ==
    \A s \in Setups :
      /\ s.kind \in {"prometheus", "agent", "alertmanager", "thanos"}
      /\ s.kind # "prometheus" => s.managed /\ ~s.retention

VARIABLES setup,    \* [kind, status, retention, managed, edits]
          object,   \* the object in the API
          seen,     \* the object in the informer's cache
          inputs,   \* [rules, assets]: what is selected and referenced
          maps,     \* rule ConfigMaps by number
          secrets,  \* TLS asset Secrets by number
          named,    \* the other generated Secrets and the Service
          sets,     \* workloads in the API, by name
          cached,   \* workloads in the informer's cache
          stale,    \* workloads with a change not delivered yet
          work,     \* the sync in progress
          queued,   \* the key waits in the queue
          logged,   \* workloads whose deletion failed and was only logged
          used      \* [edits, faults, drifts] so far

vars == <<setup, object, seen, inputs, maps, secrets, named, sets, cached,
          stale, work, queued, logged, used>>

----------------------------------------------------------------------------
(* Names and records. *)

Kind == setup.kind
Cleanup == "monitoring.coreos.com/status-cleanup"

\* StatefulSets are named by their shard; the last name is the DaemonSet's.
DaemonSet == MaxShards
Workloads == 0..MaxShards

NoSpec == [body |-> 0, imm |-> 0, maps |-> {}, tls |-> 0]
Absent == [there |-> FALSE, spec |-> NoSpec, hash |-> <<>>, deleting |-> FALSE]
NoObject == [present |-> FALSE, deleting |-> FALSE, gen |-> 0, body |-> 0,
             imm |-> 0, shards |-> 1, paused |-> FALSE, retain |-> FALSE,
             daemon |-> FALSE, finalizers |-> <<>>]
Idle == [step |-> "idle", p |-> NoObject, rules |-> {}, names |-> {},
         assets |-> {}, todo |-> {}, i |-> 0]

Selected(files, ids) == SelectSeq(files, LAMBDA f : f.id \in ids)
RuleMaps(ids) == MakeRulesConfigMaps(Selected(RuleFiles, ids))
AssetShards(ids) == Shard(Selected(AssetFiles, ids))
Ids(files) == {f.id : f \in files}

\* f with the value v at x.
Put(f, x, v) == [y \in DOMAIN f \cup {x} |-> IF y = x THEN v ELSE f[y]]

----------------------------------------------------------------------------
(* What a sync computes. *)

(* shardsNumber: less than one shard counts as one. *)
ShardsNumber(p) == IF p.shards <= 1 THEN 1 ELSE p.shards

(* ExpectedStatefulSetShardNames; the other controllers have one set. *)
Expected(p) ==
    IF Kind \in {"prometheus", "agent"} THEN 0..(ShardsNumber(p) - 1) ELSE {0}

\* The policy compared with Delete.
MutShouldRetain(p) == setup.retention /\ ~p.retain

(* shouldRetain: the gate of the operator and the policy of the object.    *)
(* (With the gate, an object without a policy is dereferenced as nil, and  *)
(* the operator panics; objects here have one.)                            *)
ShouldRetain(p) ==
    CASE Kind = "prometheus" -> setup.retention /\ p.retain
      [] OTHER -> FALSE

(* makeStatefulSet and makeDaemonSet, as far as sync sees them: the pod    *)
(* follows the spec and mounts the rule ConfigMaps and the TLS Secrets.    *)
MakeWorkload(p, names, tls) ==
    [body |-> p.body, imm |-> p.imm, maps |-> names, tls |-> tls]

(* createSSetInputHash: hashstructure has no collisions here.  The spec of *)
(* the existing StatefulSet is an input: every change of the spec needs a  *)
(* second update that only stores the new hash.                            *)
CreateSSetInputHash(p, names, tls, existing) == <<p.gen, names, tls, existing>>

(* createSSetInputHash of the agent, which has no rules. *)
AgentInputHash(p, tls, existing) == CreateSSetInputHash(p, {}, tls, existing)

\* The number of TLS Secrets forgotten by the hash.
MutAlertmanagerInputHash(p, tls, existing) == <<p.gen, existing>>

(* createSSetInputHash of Alertmanager: the number of TLS Secrets is the   *)
(* hash of all of them.                                                    *)
AlertmanagerInputHash(p, tls, existing) == CreateSSetInputHash(p, {}, tls, existing)

(* createSSetInputHash of ThanosRuler. *)
ThanosInputHash(p, names, tls, existing) ==
    CreateSSetInputHash(p, names, tls, existing)

(* The calls of a sync in order.  A rule ConfigMap step that changes them  *)
(* continues with delete and create, tls with clean.                       *)
Pipeline(p) ==
    CASE Kind = "prometheus" ->
           <<"storage", "list", "config", "tls", "web", "extra", "service",
             "sets", "excess">>
      [] Kind = "agent" /\ p.daemon -> <<"config", "tls", "web", "daemonset">>
      [] Kind = "agent" /\ ~p.daemon ->
           <<"config", "tls", "web", "storage", "service", "sets", "excess">>
      [] Kind = "alertmanager" ->
           <<"storage", "config", "tls", "web", "extra", "service", "sets">>
      [] Kind = "thanos" ->
           <<"storage", "list", "config", "tls", "web", "service", "sets">>

After(p, step) ==
    LET steps == Pipeline(p)
        i == CHOOSE j \in DOMAIN steps : steps[j] = step
    IN  IF i = Len(steps) THEN "idle" ELSE steps[i + 1]

\* The sync goes on with step, or is over.
Goto(w, step) ==
    IF step = "idle" THEN Idle ELSE [w EXCEPT !.step = step, !.i = 0, !.todo = {}]

Continue(w) == Goto(w, After(w.p, w.step))

\* sync returns an error: the key is added again, rate limited.
Return == work' = Idle /\ queued' = TRUE
----------------------------------------------------------------------------
(* Start of a sync: what is decided before the first call. *)

(* The object comes from the cache; GetObjectFromKey copies it. *)
SyncPrometheus(p) == "finalizer"

(* agent: deletion in progress, paused. *)
SyncAgent(p) == IF p.deleting \/ p.paused THEN "idle" ELSE Pipeline(p)[1]

SyncAlertmanager(p) == IF p.deleting \/ p.paused THEN "idle" ELSE Pipeline(p)[1]

SyncThanosRuler(p) == IF p.deleting \/ p.paused THEN "idle" ELSE Pipeline(p)[1]

FirstStep(p) ==
    CASE ~p.present -> "idle"
      [] p.present /\ Kind = "prometheus" -> SyncPrometheus(p)
      [] p.present /\ Kind = "agent" -> SyncAgent(p)
      [] p.present /\ Kind = "alertmanager" -> SyncAlertmanager(p)
      [] p.present /\ Kind = "thanos" -> SyncThanosRuler(p)

Start ==
    /\ work.step = "idle" /\ queued
    /\ queued' = FALSE
    /\ work' = Goto([Idle EXCEPT !.p = seen], FirstStep(seen))
    /\ UNCHANGED <<setup, object, seen, inputs, maps, secrets, named, sets,
                   cached, logged, used>>

----------------------------------------------------------------------------
(* The finalizer of a Prometheus object. *)

(* FinalizerAddPatch: what the patch does to the finalizers in the API,    *)
(* chosen from the ones in the cache: the whole list is replaced when the  *)
(* cache has none.  "refused" stands for an error of the API server, which *)
(* takes no new finalizer on an object that is being deleted.  A cache     *)
(* that lags lets the finalizer be appended again and again: MaxFinalizers *)
(* bounds the list.                                                        *)
FinalizerAddPatch(old, now) ==
    IF \/ now.deleting \/ Len(now.finalizers) >= MaxFinalizers
       \/ old # <<>> /\ now.finalizers = <<>>
    THEN "refused"
    ELSE IF old = <<>> THEN "replace" ELSE "append"

(* FinalizerDeletePatch: the finalizer is removed by its position in the   *)
(* cached list, whatever stands there in the API.                          *)
FinalizerDeletePatch(old, now) ==
    LET i == CHOOSE j \in DOMAIN old : old[j] = Cleanup
    IN  IF i \in DOMAIN now THEN RemoveAt(now, i) ELSE now

WithFinalizers(o, finalizers) ==
    IF o.deleting /\ finalizers = <<>> THEN NoObject
    ELSE [o EXCEPT !.finalizers = finalizers]

(* FinalizerSyncer.Sync, and what sync does with its result: an error and  *)
(* a change both bring the key back into the queue.                        *)
SyncFinalizer ==
    LET p == work.p
        has == Cleanup \in Range(p.finalizers)
        changes == setup.status /\ (has <=> p.deleting)
    IN
    /\ work.step = "finalizer"
    /\ \/ /\ changes /\ ~p.deleting /\ object.present
          /\ object' = CASE FinalizerAddPatch(p.finalizers, object) = "replace" ->
                              [object EXCEPT !.finalizers = <<Cleanup>>]
                         [] FinalizerAddPatch(p.finalizers, object) = "append" ->
                              [object EXCEPT !.finalizers = Append(@, Cleanup)]
                         [] OTHER -> object
          /\ Return
       \/ /\ changes /\ p.deleting /\ object.present
          /\ object' = WithFinalizers(object,
                          FinalizerDeletePatch(p.finalizers, object.finalizers))
          /\ Return
       \/ changes /\ ~object.present /\ Return /\ UNCHANGED object
       \/ /\ ~changes
          /\ work' = Goto(work, IF p.deleting THEN "idle" ELSE "storage")
          /\ UNCHANGED <<object, queued>>
    /\ UNCHANGED <<setup, seen, inputs, maps, secrets, named, sets, cached,
                   logged, used>>

----------------------------------------------------------------------------
(* Storage class and rule ConfigMaps. *)

(* CheckStorageClass reads the class; only its failure matters.  Prometheus *)
(* is the one controller that looks at paused after this call.              *)
CheckStorageClass ==
    /\ work.step = "storage"
    /\ work' = IF Kind = "prometheus" /\ work.p.paused THEN Idle
               ELSE Continue(work)
    /\ UNCHANGED <<setup, object, seen, inputs, maps, secrets, named, sets,
                   cached, queued, logged, used>>

\* A ConfigMap that is missing, or half of them, passes for unchanged rules.
MutCompareRules(w, new) ==
    LET equal == UNION {Ids(maps[i]) : i \in DOMAIN maps} \subseteq w.rules
    IN  IF equal /\ DOMAIN maps # {} THEN Continue([w EXCEPT !.names = DOMAIN maps])
        ELSE IF DOMAIN maps = {}
        THEN [w EXCEPT !.names = new, !.step = "create", !.todo = new]
        ELSE [w EXCEPT !.names = new, !.step = "delete", !.todo = DOMAIN maps]

(* The selected rules compared with those of the ConfigMaps the API lists: *)
(* equal ones are kept as they are, otherwise all are deleted and created  *)
(* anew.                                                                   *)
CompareRules(w, new) ==
    LET equal == UNION {Ids(maps[i]) : i \in DOMAIN maps} = w.rules
    IN  IF equal /\ DOMAIN maps # {} THEN Continue([w EXCEPT !.names = DOMAIN maps])
        ELSE IF DOMAIN maps = {}
        THEN [w EXCEPT !.names = new, !.step = "create", !.todo = new]
        ELSE [w EXCEPT !.names = new, !.step = "delete", !.todo = DOMAIN maps]

(* createOrUpdateRuleConfigMaps of the server: select the rules, list the  *)
(* ConfigMaps.                                                             *)
ListRules ==
    /\ work.step = "list" /\ Kind = "prometheus"
    /\ work' = CompareRules([work EXCEPT !.rules = inputs.rules],
                            0..(Len(RuleMaps(inputs.rules)) - 1))
    /\ UNCHANGED <<setup, object, seen, inputs, maps, secrets, named, sets,
                   cached, queued, logged, used>>

(* createOrUpdateRuleConfigMaps of ThanosRuler. *)
ListThanosRules ==
    /\ work.step = "list" /\ Kind = "thanos"
    /\ work' = CompareRules([work EXCEPT !.rules = inputs.rules],
                            0..(Len(RuleMaps(inputs.rules)) - 1))
    /\ UNCHANGED <<setup, object, seen, inputs, maps, secrets, named, sets,
                   cached, queued, logged, used>>

(* The loop that deletes the listed ConfigMaps: one that is gone is an     *)
(* error, the rest waits for the next sync.                                *)
DeleteRuleMap ==
    /\ work.step = "delete"
    /\ LET i == Min(work.todo)
           left == work.todo \ {i}
       IN IF i \in DOMAIN maps
          THEN /\ maps' = Restrict(maps, DOMAIN maps \ {i})
               /\ work' = IF left # {} THEN [work EXCEPT !.todo = left]
                          ELSE [work EXCEPT !.step = "create", !.todo = work.names]
               /\ queued' = TRUE
          ELSE Return /\ UNCHANGED maps
    /\ UNCHANGED <<setup, object, seen, inputs, secrets, named, sets, cached,
                   logged, used>>

(* The loop that creates the new ConfigMaps, from the rules selected       *)
(* before; one that exists already is an error.                            *)
CreateRuleMap ==
    /\ work.step = "create"
    /\ LET i == Min(work.todo)
           left == work.todo \ {i}
       IN IF i \notin DOMAIN maps
          THEN /\ maps' = Put(maps, i, RuleMaps(work.rules)[i + 1])
               /\ work' = IF left # {} THEN [work EXCEPT !.todo = left]
                          ELSE Goto(work, After(work.p, "list"))
               /\ queued' = TRUE
          ELSE Return /\ UNCHANGED maps
    /\ UNCHANGED <<setup, object, seen, inputs, secrets, named, sets, cached,
                   logged, used>>

----------------------------------------------------------------------------
(* Generated Secrets and the governing Service. *)

\* A write, and an event, also when nothing changes.
MutCreateOrUpdateSecret(name, content) ==
    /\ named' = Put(named, name, content)
    /\ queued' = TRUE

(* CreateOrUpdateSecret: no write, and no event, when nothing changes. *)
CreateOrUpdateSecret(name, content) ==
    /\ named' = Put(named, name, content)
    /\ queued' = (queued \/ named' # named)

\* What the generated configuration depends on here: the one of a Prometheus
\* server also names the rule ConfigMaps.
Configuration(p, names) ==
    [body |-> p.body, maps |-> IF Kind = "prometheus" THEN names ELSE {}]
Empty == [body |-> 0, maps |-> {}]

\* A generated configuration; the assets referenced by what is selected are
\* collected on the way.
WriteGenerated ==
    /\ CreateOrUpdateSecret("config", Configuration(work.p, work.names))
    /\ work' = Continue([work EXCEPT !.assets = inputs.assets])

(* createOrUpdateConfigurationSecret: without selectors a Prometheus       *)
(* configuration belongs to the user: it is created empty, never updated.  *)
WriteConfiguration ==
    /\ work.step = "config" /\ Kind = "prometheus"
    /\ IF setup.managed THEN WriteGenerated
       ELSE /\ IF "config" \in DOMAIN named THEN UNCHANGED <<named, queued>>
               ELSE CreateOrUpdateSecret("config", Empty)
            /\ work' = Continue(work)
    /\ UNCHANGED <<setup, object, seen, inputs, maps, secrets, sets, cached,
                   logged, used>>

(* createOrUpdateConfigurationSecret of the agent. *)
WriteAgentConfiguration ==
    /\ work.step = "config" /\ Kind = "agent"
    /\ WriteGenerated
    /\ UNCHANGED <<setup, object, seen, inputs, maps, secrets, sets, cached,
                   logged, used>>

(* provisionAlertmanagerConfiguration. *)
ProvisionAlertmanagerConfiguration ==
    /\ work.step = "config" /\ Kind = "alertmanager"
    /\ WriteGenerated
    /\ UNCHANGED <<setup, object, seen, inputs, maps, secrets, sets, cached,
                   logged, used>>

(* createOrUpdateRulerConfigSecret. *)
WriteRulerConfiguration ==
    /\ work.step = "config" /\ Kind = "thanos"
    /\ WriteGenerated
    /\ UNCHANGED <<setup, object, seen, inputs, maps, secrets, sets, cached,
                   logged, used>>

(* createOrUpdateWebConfigSecret of each controller. *)
WriteWebConfig ==
    /\ work.step = "web"
    /\ CreateOrUpdateSecret("web", [body |-> work.p.body, maps |-> {}])
    /\ work' = Continue(work)
    /\ UNCHANGED <<setup, object, seen, inputs, maps, secrets, sets, cached,
                   logged, used>>

(* createOrUpdateThanosConfigSecret of the server, and                     *)
(* createOrUpdateClusterTLSConfigSecret of Alertmanager.                   *)
WriteExtraSecret ==
    /\ work.step = "extra"
    /\ CreateOrUpdateSecret("extra", [body |-> work.p.body, maps |-> {}])
    /\ work' = Continue(work)
    /\ UNCHANGED <<setup, object, seen, inputs, maps, secrets, sets, cached,
                   logged, used>>

(* CreateOrUpdateService with the default governing Service (a custom one  *)
(* is only read).  No controller watches Services.                         *)
WriteService ==
    /\ work.step = "service"
    /\ named' = Put(named, "service", Empty)
    /\ work' = Continue(work)
    /\ UNCHANGED <<setup, object, seen, inputs, maps, secrets, sets, cached,
                   queued, logged, used>>

(* updateSecrets: the Secrets of the shards, one after the other. *)
WriteTLSSecret ==
    /\ work.step = "tls"
    /\ LET shards == AssetShards(work.assets)
           i == work.i
       IN /\ secrets' = Put(secrets, i, shards[i + 1])
          /\ work' = [work EXCEPT !.i = i + 1,
                                  !.step = IF i + 1 = Len(shards) THEN "clean"
                                           ELSE "tls"]
    /\ queued' = (queued \/ secrets' # secrets)
    /\ UNCHANGED <<setup, object, seen, inputs, maps, named, sets, cached,
                   logged, used>>

(* cleanupExcessSecretShards: delete from the first number not used        *)
(* upwards, until the API has no Secret of that number.                    *)
CleanTLSSecret ==
    /\ work.step = "clean"
    /\ IF work.i \in DOMAIN secrets
       THEN /\ secrets' = Restrict(secrets, DOMAIN secrets \ {work.i})
            /\ work' = [work EXCEPT !.i = @ + 1]
            /\ queued' = TRUE
       ELSE /\ work' = Goto(work, After(work.p, "tls"))
            /\ UNCHANGED <<secrets, queued>>
    /\ UNCHANGED <<setup, object, seen, inputs, maps, named, sets, cached,
                   logged, used>>

----------------------------------------------------------------------------
(* StatefulSets and the DaemonSet. *)

TLSCount(w) == Len(AssetShards(w.assets))
Built(w, hash) == [there |-> TRUE, deleting |-> FALSE, hash |-> hash,
                   spec |-> MakeWorkload(w.p, w.names, TLSCount(w))]

\* The next shard, or what comes after the last one.
NextShard(w) ==
    IF w.i + 1 \in Expected(w.p) THEN [w EXCEPT !.i = @ + 1]
    ELSE LET n == Goto(w, After(w.p, "sets")) IN
         IF n.step # "excess" THEN n
         ELSE LET excess == {k \in Workloads \ {DaemonSet} :
                               /\ cached[k].there /\ ~cached[k].deleting
                               /\ k \notin Expected(w.p) /\ ~ShouldRetain(w.p)}
              IN  IF excess = {} THEN Idle ELSE [n EXCEPT !.todo = excess]

(* Create: the API refuses a name that exists. *)
CreateWorkload(n, new, next) ==
    IF sets[n].there THEN Return /\ UNCHANGED sets
    ELSE sets' = [sets EXCEPT ![n] = new] /\ work' = next /\ UNCHANGED queued

(* UpdateStatefulSet and UpdateDaemonSet, and the deletion in the          *)
(* foreground when the API answers that the update is impossible.          *)
UpdateWorkload(n, new, next) ==
    \/ ~sets[n].there /\ Return /\ UNCHANGED sets
    \/ /\ sets[n].there
       /\ sets' = IF sets[n].spec.imm # new.spec.imm
                  THEN [sets EXCEPT ![n].deleting = TRUE]
                  ELSE [sets EXCEPT ![n].spec = new.spec, ![n].hash = new.hash]
       /\ work' = next
       /\ UNCHANGED queued

(* Deletion in progress in the cache: wait until it is gone. *)
Skipped(w) == cached[w.i].there /\ cached[w.i].deleting

\* One turn of the loop over the shards.
SyncStatefulSet(hash) ==
    LET w == work
        c == cached[w.i]
    IN
    /\ \/ Skipped(w) /\ work' = NextShard(w) /\ UNCHANGED <<sets, queued>>
       \/ ~c.there /\ CreateWorkload(w.i, Built(w, hash), NextShard(w))
       \/ /\ c.there /\ ~Skipped(w) /\ hash = c.hash
          /\ work' = NextShard(w) /\ UNCHANGED <<sets, queued>>
       \/ /\ c.there /\ ~Skipped(w) /\ hash # c.hash
          /\ UpdateWorkload(w.i, Built(w, hash), NextShard(w))
    /\ UNCHANGED <<setup, object, seen, inputs, maps, secrets, named, cached,
                   logged, used>>

(* The loop of the server. *)
SyncShard ==
    /\ work.step = "sets" /\ Kind = "prometheus"
    /\ SyncStatefulSet(CreateSSetInputHash(work.p, work.names, TLSCount(work),
                                           cached[work.i].spec))

(* The loop of syncStatefulSet of the agent. *)
SyncAgentShard ==
    /\ work.step = "sets" /\ Kind = "agent"
    /\ SyncStatefulSet(AgentInputHash(work.p, TLSCount(work), cached[work.i].spec))

(* The end of sync of Alertmanager. *)
SyncAlertmanagerSet ==
    LET w == work
        c == cached[0]
        hash == AlertmanagerInputHash(w.p, TLSCount(w), c.spec)
    IN
    /\ w.step = "sets" /\ Kind = "alertmanager"
    /\ \/ Skipped(w) /\ work' = Idle /\ UNCHANGED <<sets, queued>>
       \/ /\ ~Skipped(w) /\ hash = c.hash
          /\ work' = Idle /\ UNCHANGED <<sets, queued>>
       \/ /\ hash # c.hash /\ ~c.there
          /\ CreateWorkload(0, Built(w, hash), Idle)
       \/ /\ ~Skipped(w) /\ hash # c.hash /\ c.there
          /\ UpdateWorkload(0, Built(w, hash), Idle)
    /\ UNCHANGED <<setup, object, seen, inputs, maps, secrets, named, cached,
                   logged, used>>

(* The end of sync of ThanosRuler: created without a hash, which the next  *)
(* sync adds.                                                              *)
SyncThanosSet ==
    LET w == work
        c == cached[0]
        hash == ThanosInputHash(w.p, w.names, TLSCount(w), c.spec)
    IN
    /\ w.step = "sets" /\ Kind = "thanos"
    /\ \/ ~c.there /\ CreateWorkload(0, Built(w, <<>>), Idle)
       \/ Skipped(w) /\ work' = Idle /\ UNCHANGED <<sets, queued>>
       \/ /\ c.there /\ ~Skipped(w) /\ hash = c.hash
          /\ work' = Idle /\ UNCHANGED <<sets, queued>>
       \/ /\ c.there /\ ~Skipped(w) /\ hash # c.hash
          /\ UpdateWorkload(0, Built(w, hash), Idle)
    /\ UNCHANGED <<setup, object, seen, inputs, maps, secrets, named, cached,
                   logged, used>>

(* syncDaemonSet: no hash, and no look at a deletion in progress. *)
SyncDaemonSet ==
    /\ work.step = "daemonset"
    /\ IF cached[DaemonSet].there
       THEN UpdateWorkload(DaemonSet, Built(work, <<>>), Idle)
       ELSE CreateWorkload(DaemonSet, Built(work, <<>>), Idle)
    /\ UNCHANGED <<setup, object, seen, inputs, maps, secrets, named, cached,
                   logged, used>>

(* The clean-up of the shards no longer expected, in the order in which    *)
(* the cache lists them, which is any.  An error, here that the            *)
(* StatefulSet is gone, is logged and forgotten.                           *)
DeleteExcess ==
    /\ work.step = "excess"
    /\ \E n \in work.todo :
         /\ sets' = IF sets[n].there THEN [sets EXCEPT ![n].deleting = TRUE]
                    ELSE sets
         /\ work' = IF work.todo = {n} THEN Idle ELSE [work EXCEPT !.todo = @ \ {n}]
         /\ logged' = logged \ {n}
    /\ UNCHANGED <<setup, object, seen, inputs, maps, secrets, named, cached,
                   queued, used>>

(* Failures of API calls: sync returns the error of every call but those   *)
(* of the clean-up of excess shards.  A call whose answer is lost is a     *)
(* failure of the next one.                                                *)
CallFails ==
    /\ work.step # "idle" /\ used.faults < MaxFaults
    /\ used' = [used EXCEPT !.faults = @ + 1]
    /\ IF work.step = "excess"
       THEN \E n \in work.todo :
              /\ logged' = logged \cup {n}
              /\ work' = IF work.todo = {n} THEN Idle
                         ELSE [work EXCEPT !.todo = @ \ {n}]
              /\ UNCHANGED queued
       ELSE Return /\ UNCHANGED logged
    /\ UNCHANGED <<setup, object, seen, inputs, maps, secrets, named, sets,
                   cached>>

(* The operator restarts: its caches are listed anew and every object is   *)
(* added to the queue.                                                     *)
Restart ==
    /\ used.faults < MaxFaults
    /\ used' = [used EXCEPT !.faults = @ + 1]
    /\ work' = Idle /\ seen' = object /\ cached' = sets /\ stale' = {}
    /\ queued' = object.present
    /\ UNCHANGED <<setup, object, inputs, maps, secrets, named, sets, logged>>

----------------------------------------------------------------------------
(* Informers and the garbage collector. *)

(* OnAdd, OnUpdate and OnDelete for the object. *)
ObserveObject ==
    /\ seen # object
    /\ seen' = object
    /\ queued' = \/ queued
                 \/ seen.present # object.present
                 \/ /\ ~(object.deleting /\ Cleanup \notin Range(object.finalizers))
                    /\ seen.gen # object.gen
    /\ UNCHANGED <<setup, object, inputs, maps, secrets, named, sets, cached,
                   work, logged, used>>

(* The same for a workload: the owner is resolved through the cache, an    *)
(* update of a workload that is being deleted is ignored.                  *)
ObserveWorkload(n) ==
    /\ n \in stale
    /\ stale' = stale \ {n}
    /\ cached' = [cached EXCEPT ![n] = sets[n]]
    /\ queued' = \/ queued
                 \/ /\ seen.present
                    /\ ~(cached[n].there /\ sets[n].there /\ sets[n].deleting)
    /\ UNCHANGED <<setup, object, seen, inputs, maps, secrets, named, sets,
                   work, logged, used>>

\* A deletion in the foreground ends when the pods are gone.
FinishDeletion(n) ==
    /\ sets[n].there /\ sets[n].deleting
    /\ sets' = [sets EXCEPT ![n] = Absent]
    /\ logged' = logged \ {n}
    /\ UNCHANGED <<setup, object, seen, inputs, maps, secrets, named, cached,
                   work, queued, used>>

\* Dependents of a deleted object are collected through their owner references.
CollectDependents ==
    /\ ~object.present
    /\ \/ DOMAIN maps # {} \/ DOMAIN secrets # {} \/ DOMAIN named # {}
       \/ \E n \in Workloads : sets[n].there
    /\ maps' = <<>> /\ secrets' = <<>> /\ named' = <<>>
    /\ sets' = [n \in Workloads |-> Absent]
    /\ logged' = {}
    /\ UNCHANGED <<setup, object, seen, inputs, cached, work, queued, used>>

----------------------------------------------------------------------------
(* Users and other controllers. *)

Foreign == 3 \* a pod template the operator did not write

MayEdit(what) ==
    /\ what \in setup.edits
    /\ used.edits < MaxEdits
    /\ used' = [used EXCEPT !.edits = @ + 1,
                            !.drifts = IF what = "drift" THEN @ + 1 ELSE @]

\* A change of the spec; the API server refuses shards of a DaemonSet and
\* increments the generation.
ChangeSpec(what, new) ==
    /\ object.present /\ new # object
    /\ new.daemon => new.shards <= 1
    /\ MayEdit(what)
    /\ object' = [new EXCEPT !.gen = @ + 1]
    /\ UNCHANGED <<setup, seen, inputs, maps, secrets, named, sets, cached,
                   work, queued, logged>>

EditSpec ==
    \/ ChangeSpec("body", [object EXCEPT !.body = 3 - @])
    \/ ChangeSpec("imm", [object EXCEPT !.imm = 3 - @])
    \/ \E n \in 0..MaxShards : ChangeSpec("shards", [object EXCEPT !.shards = n])
    \/ ChangeSpec("paused", [object EXCEPT !.paused = ~@])
    \/ ChangeSpec("retain", [object EXCEPT !.retain = ~@])
    \/ ChangeSpec("daemon", [object EXCEPT !.daemon = ~@])

\* Rules are selected anew, references to TLS assets change: both are events.
EditInputs ==
    /\ object.present
    /\ \/ \E r \in SUBSET Ids(Range(RuleFiles)) :
            /\ r # inputs.rules /\ MayEdit("rules")
            /\ inputs' = [inputs EXCEPT !.rules = r]
       \/ \E a \in SUBSET Ids(Range(AssetFiles)) :
            /\ a # inputs.assets /\ MayEdit("assets")
            /\ inputs' = [inputs EXCEPT !.assets = a]
    /\ queued' = (queued \/ seen.present)
    /\ UNCHANGED <<setup, object, seen, maps, secrets, named, sets, cached,
                   work, logged>>

\* Someone removes or changes what the operator made.
Meddle ==
    /\ object.present
    /\ \/ /\ MayEdit("wipe")
          /\ \/ \E i \in DOMAIN maps : /\ maps' = Restrict(maps, DOMAIN maps \ {i})
                                       /\ UNCHANGED <<secrets, named, sets>>
             \/ \E i \in DOMAIN secrets :
                  /\ secrets' = Restrict(secrets, DOMAIN secrets \ {i})
                  /\ UNCHANGED <<maps, named, sets>>
             \/ \E s \in DOMAIN named \ {"service"} :
                  /\ named' = Restrict(named, DOMAIN named \ {s})
                  /\ UNCHANGED <<maps, secrets, sets>>
             \/ \E n \in Workloads : /\ sets[n].there
                                     /\ sets' = [sets EXCEPT ![n] = Absent]
                                     /\ UNCHANGED <<maps, secrets, named>>
       \/ /\ MayEdit("drift") /\ used.drifts < MaxDrifts
          /\ \E n \in Workloads :
               /\ sets[n].there /\ ~sets[n].deleting
               /\ sets' = [sets EXCEPT ![n].spec.body = Foreign]
          /\ UNCHANGED <<maps, secrets, named>>
       \/ /\ MayEdit("config")
          /\ named' = Put(named, "config", [body |-> Foreign, maps |-> {}])
          /\ UNCHANGED <<maps, secrets, sets>>
    /\ queued' = (queued \/ (seen.present /\ sets' = sets))
    /\ UNCHANGED <<setup, object, seen, inputs, cached, work, logged>>

\* The object is deleted; finalizers keep it until they are removed.
DeleteObject ==
    /\ object.present /\ ~object.deleting /\ MayEdit("delete")
    /\ object' = IF object.finalizers = <<>> THEN NoObject
                 ELSE [object EXCEPT !.deleting = TRUE, !.gen = @ + 1]
    /\ UNCHANGED <<setup, seen, inputs, maps, secrets, named, sets, cached,
                   work, queued, logged>>

\* Another controller adds its own finalizer, or removes it again.
EditFinalizers ==
    /\ object.present /\ MayEdit("finalizer")
    /\ object' = IF "other" \in Range(object.finalizers)
                 THEN WithFinalizers(object, SelectSeq(object.finalizers,
                                                LAMBDA f : f # "other"))
                 ELSE [object EXCEPT !.finalizers = Append(@, "other")]
    /\ object.deleting => "other" \in Range(object.finalizers)
    /\ UNCHANGED <<setup, seen, inputs, maps, secrets, named, sets, cached,
                   work, queued, logged>>

----------------------------------------------------------------------------
(* The specification. *)

Init ==
    /\ setup \in Setups
    /\ object = [NoObject EXCEPT !.present = TRUE, !.gen = 1, !.body = 1,
                                 !.imm = 1, !.shards = setup.shards,
                                 !.finalizers = setup.finalizers]
    /\ seen = NoObject
    /\ inputs = [rules |-> Ids(Range(RuleFiles)), assets |-> Ids(Range(AssetFiles))]
    /\ maps = <<>> /\ secrets = <<>> /\ named = <<>>
    /\ sets = [n \in Workloads |-> Absent]
    /\ cached = sets /\ stale = {}
    /\ work = Idle /\ queued = FALSE /\ logged = {}
    /\ used = [edits |-> 0, faults |-> 0, drifts |-> 0]

\* Changes of workloads are events that the informer has to deliver.
Noted(A) ==
    A /\ stale' = stale \cup {n \in Workloads : sets'[n] # sets[n]}

SyncStep ==
    \/ SyncFinalizer \/ CheckStorageClass \/ ListRules \/ ListThanosRules
    \/ DeleteRuleMap \/ CreateRuleMap \/ WriteConfiguration \/ WriteAgentConfiguration
    \/ ProvisionAlertmanagerConfiguration \/ WriteRulerConfiguration
    \/ WriteTLSSecret \/ CleanTLSSecret \/ WriteWebConfig \/ WriteExtraSecret
    \/ WriteService \/ SyncShard \/ SyncAgentShard \/ SyncAlertmanagerSet
    \/ SyncThanosSet \/ SyncDaemonSet \/ DeleteExcess

Edit == EditSpec \/ EditInputs \/ Meddle \/ DeleteObject \/ EditFinalizers

Next ==
    \/ Noted(Start) \/ Noted(SyncStep) \/ Noted(CallFails) \/ Noted(Edit)
    \/ Noted(ObserveObject) \/ Noted(CollectDependents)
    \/ \E n \in Workloads : Noted(FinishDeletion(n)) \/ ObserveWorkload(n)
    \/ Restart

(* The worker takes what is queued and goes on with what it started, the   *)
(* informers deliver, the garbage collector of the cluster works.  Nothing *)
(* makes users edit, calls fail or the operator stop.                      *)
Fairness ==
    /\ WF_vars(Noted(Start)) /\ WF_vars(Noted(SyncStep))
    /\ WF_vars(Noted(ObserveObject))
    /\ \A n \in Workloads : /\ WF_vars(ObserveWorkload(n))
                            /\ WF_vars(Noted(FinishDeletion(n)))

Spec == Init /\ [][Next]_vars /\ Fairness

----------------------------------------------------------------------------
(* Properties. *)

\* No event is on its way, nothing is queued, running or being deleted.
Quiet ==
    /\ ~queued /\ work.step = "idle" /\ seen = object /\ stale = {}
    /\ \A n \in Workloads : ~sets[n].deleting

\* The object is there to be reconciled.
Active == object.present /\ ~object.deleting /\ ~object.paused

Runs(p) == IF Kind = "agent" /\ p.daemon THEN {DaemonSet} ELSE Expected(p)

(* When sync has nothing left to do, what runs is what the spec asks for:  *)
(* the rule ConfigMaps hold exactly the selected rules, the configuration  *)
(* names them, every TLS asset is in a Secret, each expected workload has  *)
(* the pod of the current spec and inputs, and StatefulSets of shards no   *)
(* longer asked for are gone, unless they are retained or their deletion   *)
(* failed and was logged.  (A workload of the other mode of an agent       *)
(* stays: the code deletes neither kind when the mode changes.)            *)
QuietConverged ==
    Quiet /\ Active =>
      /\ Kind \in {"prometheus", "thanos"} =>
           UNION {Ids(maps[i]) : i \in DOMAIN maps} = inputs.rules
      /\ setup.managed =>
           /\ named["config"] = Configuration(object, DOMAIN maps)
           /\ UNION {Ids(secrets[i]) : i \in 0..(Len(AssetShards(inputs.assets)) - 1)}
                = inputs.assets
      /\ \A n \in Runs(object) :
           /\ sets[n].there
           /\ sets[n].spec.body = object.body /\ sets[n].spec.imm = object.imm
           /\ sets[n].spec.maps = DOMAIN maps
           /\ setup.managed => sets[n].spec.tls = Len(AssetShards(inputs.assets))
      /\ ~object.daemon =>
           \A n \in Workloads \ (Runs(object) \cup {DaemonSet}) :
             sets[n].there => \/ setup.retention /\ object.retain
                              \/ n \in logged

(* When sync has nothing left to do, every ConfigMap and Secret mounted by *)
(* an expected workload exists: a pod can be started again.  (A retained   *)
(* shard is not updated and may mount ConfigMaps and Secrets that are      *)
(* gone.)                                                                  *)
MountsExist ==
    Quiet /\ Active =>
      \A n \in Runs(object) :
        /\ sets[n].spec.maps \subseteq DOMAIN maps
        /\ 0..(sets[n].spec.tls - 1) \subseteq DOMAIN secrets
        /\ {"config", "web"} \subseteq DOMAIN named

(* What a step of the operator may never do: delete a workload that is     *)
(* neither superfluous, by the spec the sync started from, nor impossible  *)
(* to update; overwrite the configuration of a user who manages it; write  *)
(* anything in a sync of a paused object.                                  *)
NothingUnasked ==
    [][work' # work =>
         /\ \A n \in Workloads :
              ~sets[n].deleting /\ sets'[n].deleting =>
                \/ /\ n \notin Expected(work.p)
                   /\ ~(setup.retention /\ work.p.retain)
                \/ sets[n].spec.imm # work.p.imm
         /\ ~setup.managed /\ "config" \in DOMAIN named =>
              named'["config"] = named["config"]
         /\ work.p.paused =>
              UNCHANGED <<maps, secrets, named, sets>>]_vars

(* Syncs come to an end: no update, event or deletion keeps the key in the *)
(* queue forever.                                                          *)
EventuallyQuiet == <>[]Quiet

(* An object that is deleted is released: its finalizer is removed.        *)
FinalizerReleased ==
    (object.deleting /\ Cleanup \in Range(object.finalizers))
       ~> Cleanup \notin Range(object.finalizers)

(* Every sync gets there: the queue comes to rest and deleted objects are  *)
(* released, whatever failed in between.                                   *)
EventuallySettled == EventuallyQuiet /\ FinalizerReleased
=============================================================================
