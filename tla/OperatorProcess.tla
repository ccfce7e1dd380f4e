---------------------------- MODULE OperatorProcess ----------------------------
(***************************************************************************)
(* The operator process (cmd/operator/main.go): the checks it makes before *)
(* it starts, the controllers it starts and their wait for caches, its web *)
(* server, its end on a signal or on the first error, and its restarts.    *)
(*                                                                         *)
(* The module composes the process with three parts that are followed step *)
(* by step, the kubelet controller, the store of namespaces and the status *)
(* of an object, and with what the other controllers watch.                *)
(*                                                                         *)
(* A deployment gives what does not change: the flags, the API server's    *)
(* version, the CRDs that are installed, the permissions (pairs of a       *)
(* resource and a namespace, or NamespaceAll), and the instances.          *)
(***************************************************************************)
EXTENDS KubeletController, ControllerWatches, WorkloadStatus

CONSTANTS
  Groups,                 \* of deployments
  DeploymentsOf(_)

VARIABLES
  deploy,                 \* the deployment
  proc,                   \* the process
  delivered               \* the last event of an object, and who was enqueued for it

operatorVars == <<kubeletVars, nsVars, statusVars, deploy, proc, delivered>>

AllControllers == Controllers \cup {"kubelet"}

Starting == {"flags", "connect", "options", "prometheus", "agent", "alertmanager", "thanos",
             "kubelet", "server"}

NoOptions == [scrapeConfig |-> FALSE, daemonSet |-> FALSE, storageClass |-> FALSE, events |-> FALSE]

NoEventYet == [kind |-> None, ns |-> NamespaceAll, flipped |-> {}, enqueued |-> {}]

NewProcess == [pc |-> "flags", opts |-> NoOptions, ctrl |-> [c \in AllControllers |-> "none"],
               cancelled |-> FALSE, term |-> FALSE, conn |-> FALSE, err |-> FALSE]

config == Finalize(deploy.flags)

To(pc) == [proc EXCEPT !.pc = pc]

\* return 1
Exit == [NewProcess EXCEPT !.pc = "exited", !.err = TRUE]

\* A call of the API server fails, within the bound.
ApiError == deploy.faults > 0 /\ deploy' = [deploy EXCEPT !.faults = @ - 1] /\ proc' = Exit

\* What a process leaves behind when it ends.
Ended ==
  /\ kubelet' = None /\ ksync' = IdleSync
  /\ lister' = NoLister /\ reflector' = "off" /\ pollCh' = <<>>
  /\ pollCache' = [ns \in Namespaces |-> Entry(FALSE, 0)]
  /\ pollers' = [p \in 1..MaxPollers |-> Poller("off")]
  /\ nsStore' = [ns \in Namespaces |-> 0]
  /\ statusSync' = NewStatus

parts == <<kubelet, ksync, lister, reflector, pollCh, pollCache, pollers, nsStore, statusSync>>
cluster == <<nodes, service, endpoints, slices, kload, nsVersion, nsLoad, workload, reported>>
-----------------------------------------------------------------------------
(* The checks.                                                               *)

Granted(resource, ns) == {<<resource, ns>>, <<resource, NamespaceAll>>} \cap deploy.grants # {}

\* IsAllowed: every verb on every resource in every namespace, no namespace meaning all.
IsAllowed(resources, namespaces) ==
  \A r \in resources, ns \in (IF namespaces = {} THEN {NamespaceAll} ELSE namespaces) :
    Granted(r, ns)

\* IsAPIGroupVersionResourceSupported
Installed(kind) == kind \in deploy.crds

checkPrerequisites(kind, resources, namespaces) ==
  Installed(kind) /\ IsAllowed(resources, namespaces)

InstanceKind(c) ==
  CASE c = "prometheus" -> "Prometheus"
    [] c = "agent" -> "PrometheusAgent"
    [] c = "alertmanager" -> "Alertmanager"
    [] c = "thanos" -> "ThanosRuler"

\* The resource and its status.
Supported(c) ==
  checkPrerequisites(InstanceKind(c), {InstanceKind(c), "status"},
                     config[NamespaceLists(c).instances])

\* UpdateFeatureGates, the lists that exclude each other, and Finalize.
ParseFlags ==
  /\ proc.pc = "flags"
  /\ proc' = IF deploy.gates = "unknown" \/ (deploy.flags.allow # {} /\ deploy.flags.deny # {})
             THEN Exit ELSE To("connect")
  /\ UNCHANGED deploy

\* The client, and the version of the API server.
Connect ==
  /\ proc.pc = "connect"
  /\ \/ proc' = To("options") /\ UNCHANGED deploy
     \/ ApiError

\* What is left out when the operator may not use it.
CheckOptions ==
  /\ proc.pc = "options"
  /\ \/ /\ proc' = [To("prometheus") EXCEPT !.opts =
             [scrapeConfig |-> checkPrerequisites("ScrapeConfig", {"ScrapeConfig"}, config.allow),
              daemonSet |-> deploy.gates = "daemonset",
              storageClass |-> IsAllowed({"storageclasses"}, {}),
              events |-> IsAllowed({"events"}, {})]]
        /\ UNCHANGED deploy
     \/ ApiError

NamespaceLister(list) ==
  NewNamespaceListWatchFromClient(deploy.version, IsAllowed({"namespaces"}, {}),
                                  config[list], config.deny)

\* The namespace informers that New creates: the second only if the lists differ.
NamespaceListers(c) ==
  LET l == NamespaceLists(c)
  IN {NamespaceLister(l.objects)} \cup
     (IF IdenticalNamespaces(config[l.objects], config[l.instances]) THEN {}
      ELSE {NamespaceLister(l.instances)})

\* One controller: its prerequisites, and New if they are met.
StartController(c, next) ==
  CASE ~Supported(c) -> To(next)
    [] Supported(c) /\ \E l \in NamespaceListers(c) : l.kind = "error" -> Exit
    [] OTHER -> [To(next) EXCEPT !.ctrl[c] = "new"]

NewPrometheus ==
  /\ proc.pc = "prometheus"
  /\ \/ proc' = StartController("prometheus", "agent") /\ UNCHANGED deploy
     \/ ApiError

\* The DaemonSet mode needs its permissions, with or without the agent's CRD.
DaemonSetsAllowed == proc.opts.daemonSet => IsAllowed({"DaemonSet"}, config.prometheus)

NewPrometheusAgent ==
  /\ proc.pc = "agent"
  /\ \/ /\ proc' = IF DaemonSetsAllowed THEN StartController("agent", "alertmanager") ELSE Exit
        /\ UNCHANGED deploy
     \/ ApiError

NewAlertmanager ==
  /\ proc.pc = "alertmanager"
  /\ \/ proc' = StartController("alertmanager", "thanos") /\ UNCHANGED deploy
     \/ ApiError

NewThanosRuler ==
  /\ proc.pc = "thanos"
  /\ \/ proc' = StartController("thanos", "kubelet") /\ UNCHANGED deploy
     \/ ApiError

\* What the kubelet controller manages: slices only with the permissions for them.
KubeletSettings ==
  NewKubelet(deploy.kubelet.endpoints,
             deploy.kubelet.slices /\ IsAllowed({"endpointslices"}, {deploy.kubelet.ns}),
             deploy.kubelet.priority)

NewKubeletController ==
  /\ proc.pc = "kubelet"
  /\ \/ /\ proc' = CASE deploy.kubelet.object = "none" -> To("server")
                     [] deploy.kubelet.object = "malformed" -> Exit
                     [] KubeletSettings = None -> Exit
                     [] OTHER -> [To("server") EXCEPT !.ctrl["kubelet"] = "new"]
        /\ UNCHANGED deploy
     \/ ApiError

\* Convert: no TLS, TLS, or an error.  The flags may name the certificate and its key,
\* one of them or none.
Convert(tls) ==
  CASE ~tls.enabled -> "plain"
    [] tls.enabled /\ tls.files = {} -> IF tls.clientCA THEN "error" ELSE "plain"
    [] tls.enabled /\ tls.files # {} ->
         IF tls.version \in {12, 13} /\ tls.ciphers THEN "tls" ELSE "error"

\* NewServer: it listens, and reads the certificates.
ServerStarts ==
  /\ deploy.web.port
  /\ Convert(deploy.web) # "error"
  /\ Convert(deploy.web) = "tls" /\ deploy.web.files = {"cert", "key"} => deploy.web.readable

Launched == [c \in AllControllers |-> IF proc.ctrl[c] = "new" THEN "syncing" ELSE "none"]

\* No controller at all is an error; otherwise the web server and the controllers start.
Launch ==
  /\ proc.pc = "server"
  /\ \/ /\ (\A c \in AllControllers : proc.ctrl[c] = "none") \/ ~ServerStarts
        /\ proc' = Exit
        /\ UNCHANGED <<kubelet, lister, reflector>>
     \/ /\ \E c \in AllControllers : proc.ctrl[c] # "none"
        /\ ServerStarts
        /\ proc' = [To("serving") EXCEPT !.ctrl = Launched]
        /\ kubelet' = IF proc.ctrl["kubelet"] = "new" THEN KubeletSettings ELSE None
        /\ lister' = IF deploy.followed /\ proc.ctrl["prometheus"] = "new"
                     THEN NamespaceLister("allow") ELSE NoLister
        /\ reflector' = IF lister'.kind = "none" THEN "off" ELSE "list"
  /\ UNCHANGED <<ksync, pollCh, pollCache, pollers, nsStore, statusSync, deploy, delivered>>
  /\ UNCHANGED cluster

StartStep ==
  \/ /\ \/ ParseFlags \/ Connect \/ CheckOptions
        \/ NewPrometheus \/ NewPrometheusAgent \/ NewAlertmanager \/ NewThanosRuler
        \/ NewKubeletController
     /\ UNCHANGED delivered /\ UNCHANGED parts /\ UNCHANGED cluster
  \/ Launch
-----------------------------------------------------------------------------
(* Run of a controller.                                                      *)

\* An informer fills its cache if it can list its resource in its namespaces.
Synced(i) == (i.kind \in deploy.builtin \/ Installed(i.kind)) /\ IsAllowed({i.kind}, config[i.list])

\* So does the lister that polls, in each namespace of its list.
ListerSynced(l) ==
  l.kind = "poll" => Listable(l) /\ \A ns \in l.names : Granted("namespace", ns)

prometheusCachesSync == \A i \in Informers("prometheus", proc.opts) : Synced(i)
agentCachesSync == \A i \in Informers("agent", proc.opts) : Synced(i)
alertmanagerCachesSync == \A i \in Informers("alertmanager", proc.opts) : Synced(i)
thanosCachesSync == \A i \in Informers("thanos", proc.opts) : Synced(i)

CachesSync(c) ==
  /\ CASE c = "prometheus" -> prometheusCachesSync
       [] c = "agent" -> agentCachesSync
       [] c = "alertmanager" -> alertmanagerCachesSync
       [] c = "thanos" -> thanosCachesSync
  /\ \A l \in NamespaceListers(c) : ListerSynced(l)

\* Run: waitForCacheSync, then the handlers.
SyncCaches(c) ==
  /\ proc.ctrl[c] = "syncing"
  /\ c = "kubelet" \/ (c # "kubelet" /\ CachesSync(c))
  /\ c = "prometheus" /\ lister.kind # "none" => reflector = "watch"
  /\ proc' = [proc EXCEPT !.ctrl[c] = "ready"]
  /\ UNCHANGED <<deploy, delivered>> /\ UNCHANGED parts /\ UNCHANGED cluster

\* mutant: a controller whose caches do not fill waits on
FailSyncNever(c) ==
  /\ proc.ctrl[c] = "syncing" /\ c # "kubelet" /\ proc.cancelled
  /\ proc' = [proc EXCEPT !.ctrl[c] = "done", !.err = TRUE]
  /\ UNCHANGED <<deploy, delivered>> /\ UNCHANGED parts /\ UNCHANGED cluster

\* WaitForNamedCacheSync gives up after ten minutes, or with the context: Run returns
\* an error, which cancels the context of all.
FailSync(c) ==
  /\ proc.ctrl[c] = "syncing" /\ c # "kubelet"
  /\ proc.cancelled \/ ~CachesSync(c)
  /\ proc' = [proc EXCEPT !.ctrl[c] = "done", !.cancelled = TRUE, !.err = TRUE]
  /\ UNCHANGED <<deploy, delivered>> /\ UNCHANGED parts /\ UNCHANGED cluster

\* Run returns when the context is cancelled; what the kubelet controller still asks
\* of the API server fails.
StopController(c) ==
  /\ proc.cancelled /\ proc.ctrl[c] = "ready"
  /\ proc' = [proc EXCEPT !.ctrl[c] = "done"]
  /\ kubelet' = IF c = "kubelet" THEN None ELSE kubelet
  /\ ksync' = IF c = "kubelet" THEN IdleSync ELSE ksync
  /\ UNCHANGED <<lister, reflector, pollCh, pollCache, pollers, nsStore, statusSync, deploy, delivered>>
  /\ UNCHANGED cluster
-----------------------------------------------------------------------------
(* The end of the process.                                                   *)

\* Before the process asks for signals, one ends it at once.
Signal ==
  /\ deploy.signals > 0 /\ deploy' = [deploy EXCEPT !.signals = @ - 1]
  /\ \/ proc.pc \in Starting /\ proc' = Exit
     \/ proc.pc = "serving" /\ proc' = [proc EXCEPT !.term = TRUE]
  /\ UNCHANGED delivered /\ UNCHANGED parts /\ UNCHANGED cluster

StopServing ==
  /\ proc.pc = "serving" /\ (proc.term \/ proc.cancelled)
  /\ proc' = To("shutdown")
  /\ UNCHANGED <<deploy, delivered>> /\ UNCHANGED parts /\ UNCHANGED cluster

\* A request to the web server begins or ends.
Request ==
  /\ \/ /\ proc.pc = "serving" /\ ~proc.conn /\ deploy.requests > 0
        /\ deploy' = [deploy EXCEPT !.requests = @ - 1]
        /\ proc' = [proc EXCEPT !.conn = TRUE]
     \/ proc.conn /\ proc' = [proc EXCEPT !.conn = FALSE] /\ UNCHANGED deploy
  /\ UNCHANGED delivered /\ UNCHANGED parts /\ UNCHANGED cluster

\* Shutdown waits for the requests unless the context is cancelled; then it is.
Shutdown ==
  /\ proc.pc = "shutdown" /\ (~proc.conn \/ proc.cancelled)
  /\ proc' = [To("wait") EXCEPT !.cancelled = TRUE]
  /\ UNCHANGED <<deploy, delivered>> /\ UNCHANGED parts /\ UNCHANGED cluster

WaitAndExit ==
  /\ proc.pc = "wait" /\ \A c \in AllControllers : proc.ctrl[c] \in {"none", "done"}
  /\ proc' = [NewProcess EXCEPT !.pc = "exited", !.err = proc.err]
  /\ Ended
  /\ UNCHANGED <<deploy, delivered>> /\ UNCHANGED cluster

\* A panic in any goroutine ends the process; the others may run a little longer.
Crash ==
  /\ ksync.pc = "panic" \/ reflector = "panic"
  /\ proc' = Exit
  /\ Ended
  /\ UNCHANGED <<deploy, delivered>> /\ UNCHANGED cluster

Restart ==
  /\ proc.pc = "exited"
  /\ proc' = NewProcess
  /\ delivered' = NoEventYet
  /\ UNCHANGED deploy /\ UNCHANGED parts /\ UNCHANGED cluster
-----------------------------------------------------------------------------
(* Events.                                                                   *)

Running(p) == proc.ctrl[p.controller] = "ready"

\* An object changes.
ObjectEvent(kind, ns) ==
  /\ proc.pc = "serving" /\ deploy.instances # {} /\ \A p \in deploy.instances : Running(p)
  /\ delivered' = [kind |-> kind, ns |-> ns, flipped |-> {},
                   enqueued |-> {p \in deploy.instances :
                                   Enqueues(config, proc.opts, p, kind, ns)}]
  /\ UNCHANGED <<deploy, proc>> /\ UNCHANGED parts /\ UNCHANGED cluster

\* The labels of a namespace change: instances select it for a kind, or do no more.
NamespaceEvent(ns, flipped) ==
  /\ proc.pc = "serving" /\ deploy.instances # {} /\ \A p \in deploy.instances : Running(p)
  /\ delivered' = [kind |-> "Namespace", ns |-> ns, flipped |-> flipped,
                   enqueued |-> {p \in deploy.instances : UpdateEnqueues(config, p, ns, flipped)}]
  /\ UNCHANGED <<deploy, proc>> /\ UNCHANGED parts /\ UNCHANGED cluster

WatchedKinds == {"ServiceMonitor", "PodMonitor", "Probe", "PrometheusRule", "ScrapeConfig",
                 "AlertmanagerConfig", "Secret", "ConfigMap", "StatefulSet"}

FlippedKinds == {{"ServiceMonitor"}, {"PrometheusRule"}, {"ScrapeConfig"}, {"AlertmanagerConfig"},
                 {"PodMonitor", "Probe"}}

EventStep ==
  \/ \E kind \in WatchedKinds, ns \in Namespaces : ObjectEvent(kind, ns)
  \/ \E ns \in Namespaces, flipped \in FlippedKinds : NamespaceEvent(ns, flipped)

process == <<deploy, proc, delivered>>

KubeletRuns == /\ proc.ctrl["kubelet"] = "ready" /\ KubeletStep
               /\ UNCHANGED <<nsVars, statusVars, process>>

PollerRuns(p) == proc.pc \in {"serving", "shutdown", "wait"} /\ PollerStep(p)
                 /\ UNCHANGED <<kubeletVars, statusVars, process>>

ReflectorRuns == ReflectorStep /\ UNCHANGED <<kubeletVars, statusVars, process>>

ClusterChanges == ClusterStep /\ UNCHANGED <<nsVars, statusVars, process>>

NamespacesChange ==
  /\ \E ns \in Namespaces : ChangeNamespace(ns)
  /\ UNCHANGED <<kubeletVars, statusVars, process>>

StatusRuns == /\ proc.ctrl[workload.controller] = "ready" /\ StatusStep
              /\ UNCHANGED <<kubeletVars, nsVars, process>>

PodsChange == PodsStep /\ UNCHANGED <<kubeletVars, nsVars, process>>

ProcessStep ==
  \/ StartStep \/ StopServing \/ Shutdown \/ WaitAndExit \/ Restart
  \/ \E c \in AllControllers : SyncCaches(c) \/ FailSync(c) \/ StopController(c)

Init ==
  /\ \E g \in Groups : \E d \in DeploymentsOf(g) :
       /\ deploy = d.deploy
       /\ nodes = d.nodes /\ endpoints = d.endpoints /\ slices = d.slices /\ kload = d.kload
       /\ nsVersion = d.nsVersion /\ nsLoad = d.nsLoad /\ workload = d.workload
  /\ service = [uid |-> None, next |-> 1]
  /\ kubelet = None /\ ksync = IdleSync
  /\ lister = NoLister /\ reflector = "off"
  /\ newPollBasedListerWatcher
  /\ nsStore = [ns \in Namespaces |-> 0]
  /\ reported = NoStatus /\ statusSync = NewStatus
  /\ proc = NewProcess /\ delivered = NoEventYet

Next ==
  \/ ProcessStep \/ Crash \/ Signal \/ Request \/ EventStep
  \/ KubeletRuns \/ ClusterChanges
  \/ (\E p \in 1..MaxPollers : PollerRuns(p)) \/ ReflectorRuns \/ NamespacesChange
  \/ StatusRuns \/ PodsChange

\* Goroutines run, calls of the API server return, requests end and the container is
\* restarted; nobody has to change a node or a namespace, or to send a signal.
Fairness ==
  /\ WF_operatorVars(StartStep) /\ WF_operatorVars(Restart) /\ WF_operatorVars(Crash)
  /\ WF_operatorVars(StopServing) /\ WF_operatorVars(Shutdown) /\ WF_operatorVars(WaitAndExit)
  /\ \A c \in AllControllers : /\ WF_operatorVars(SyncCaches(c)) /\ WF_operatorVars(FailSync(c))
                               /\ WF_operatorVars(StopController(c))
  /\ WF_operatorVars(Request)
  /\ WF_operatorVars(KubeletRuns)
  /\ WF_operatorVars(CollectGarbage /\ UNCHANGED <<nsVars, statusVars, process>>)
  /\ WF_operatorVars(MirrorStep /\ UNCHANGED <<nsVars, statusVars, process>>)
  /\ WF_operatorVars(ReflectorRuns)
  /\ \A p \in 1..MaxPollers : WF_operatorVars(PollerRuns(p))
  /\ WF_operatorVars(StatusRuns)
  /\ \A s \in 1..MaxShards :
       WF_operatorVars(/\ s \in ShardIds
                       /\ CountPods(s) \/ (workload.shards[s].phase # "there" /\ CycleStatefulSet(s))
                       /\ UNCHANGED <<kubeletVars, nsVars, process>>)

Spec == Init /\ [][Next]_operatorVars /\ Fairness
-----------------------------------------------------------------------------
(* Properties.                                                               *)

\* No node address is in two of the EndpointSlices the operator writes, whatever calls
\* fail and whenever the process ends and starts again between two writes
\* (syncEndpointSlice).
AddressesOnce ==
  \A ip \in IPv4 \cup IPv6 :
    Cardinality({pl \in Places(ip) : slices[pl[1]].owner # Mirror}) <= 1

\* Once nodes and Service stay as they are and calls succeed, the objects the kubelet
\* controller manages hold each node's address once, for a node whose state is known if
\* there is one, through all restarts.  Left out: a mirrored Endpoints object that the
\* controller does not manage, which keeps its slices.
AddressesPublished ==
  <>[](proc.ctrl["kubelet"] = "ready" =>
         /\ kubelet.manageEndpoints => EndpointsCurrent
         /\ kubelet.manageEndpointSlice /\ ~Mirrored => SlicesCurrent)

\* The kubelet controller serves each node's address, never twice and in the end once.
AddressesServed == []AddressesOnce /\ AddressesPublished

\* Once the pods stay as they are, the status says whether all are ready, and False or
\* Degraded only when it is so, with the number of those that are ready, whatever calls
\* fail and however often the process restarts (Process, Update, StatusPoller).  Left
\* out: True, after a moment of readiness that the StatefulSet's status did not show.
StatusSettles ==
  <>[](proc.ctrl[workload.controller] = "ready" /\ ShardIds # {}
         => StatusCurrent \/ (Blip /\ reported.available = "True"))

InList(allowed, denied, ns) ==
  IF allowed = {NamespaceAll} THEN ns \notin denied ELSE ns \in allowed

SeveralPollers == lister.kind = "poll" /\ \E p \in 2..MaxPollers : pollers[p].pc # "off"

\* Once namespaces stay as they are, the store of namespaces holds those of the flags
\* (NewNamespaceListWatchFromClient).  Left out: the lister that polls when a namespace
\* does not exist, which ends the process, and when more than one goroutine polls.
NamespacesFollowed ==
  <>[](reflector = "watch" /\ ~MissingNamespace /\ ~SeveralPollers =>
         \A ns \in Namespaces :
           nsStore[ns] = IF InList(config.allow, config.deny, ns) THEN nsVersion[ns] ELSE 0)

\* A change of an object that the reconciliation of an instance reads enqueues the
\* instance, and so does a change of the namespaces it selects, whatever lists of
\* namespaces the operator is given (addHandlers, enqueueForNamespace).  Left out: the
\* gaps ControllerWatches names and namespaces that only ScrapeConfigs are selected in.
EventsReachReaders ==
  \A p \in deploy.instances :
    delivered.kind # None /\ Cached(config, p) /\ ~Malformed(p) /\ ~MixedList(config) =>
      IF delivered.kind = "Namespace"
      THEN /\ delivered.ns \in Store(config, NamespaceLists(p.controller).objects)
           /\ delivered.flipped \cap (ToSet(SelectedKinds(p.controller)) \ {"ScrapeConfig"}) # {}
           => p \in delivered.enqueued
      ELSE /\ ReadsObject(config, p, delivered.kind, delivered.ns)
           /\ ~UnwatchedSecret(config, p, delivered.kind, delivered.ns)
           /\ ~NoConfigMaps(p, delivered.kind) /\ ~Unsupported(proc.opts, delivered.kind)
           => p \in delivered.enqueued

\* A process that serves has all its controllers ready in the end, or exits: none waits
\* for ever, or runs on without the others, when a resource cannot be listed
\* (WaitForNamedCacheSync, the error group of run).
AllReadyOrExit ==
  proc.pc = "serving" ~>
    (proc.pc = "exited" \/ \A c \in AllControllers : proc.ctrl[c] \in {"none", "ready"})

\* A process that got a signal exits (Shutdown, cancel and Wait of run).
StopsOnSignal == proc.term ~> proc.pc = "exited"

\* A process either serves with all its controllers or ends, and ends when it is told to.
ServesOrExits == AllReadyOrExit /\ StopsOnSignal

\* The operator keeps running, with the namespaces of its flags there or not
\* (testPrometheusInstanceNamespacesNamespaceNotFound).
StaysUp == <>[](proc.pc # "exited")
=============================================================================
