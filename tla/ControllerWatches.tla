--------------------------- MODULE ControllerWatches ---------------------------
(***************************************************************************)
(* What each controller watches and which of its objects an event          *)
(* enqueues: the informers that New creates, in the namespaces of the      *)
(* operator's flags; the handlers that Run adds to them; and the two ways  *)
(* from an event to the work queue, enqueueForNamespace and the handler of *)
(* namespace updates.                                                      *)
(*                                                                         *)
(* An object of a controller (an instance) is a record [controller, ns,    *)
(* select]; select[kind] is the set of namespaces it selects objects of    *)
(* that kind in, Own when the selector is not set, or Bad when it is       *)
(* malformed.                                                              *)
(***************************************************************************)
EXTENDS NamespaceListWatch

CONSTANTS Own, Bad

Controllers == {"prometheus", "agent", "alertmanager", "thanos"}
-----------------------------------------------------------------------------
(* The namespaces of the flags.                                              *)

\* Finalize: an empty list is the list of all namespaces, or that of --namespaces.
Finalize(flags) ==
  LET allow == IF flags.allow = {} THEN {NamespaceAll} ELSE flags.allow
      OrAllow(list) == IF list = {} THEN allow ELSE list
  IN [allow |-> allow, deny |-> flags.deny,
      prometheus |-> OrAllow(flags.prometheus), alertmanager |-> OrAllow(flags.alertmanager),
      alertmanagerConfig |-> OrAllow(flags.alertmanagerConfig), thanos |-> OrAllow(flags.thanos)]

\* newInformerOptions: the namespaces of the informers of a resource and what they
\* leave out; the denied namespaces count with the list of all namespaces only.
newInformerOptions(allowed, denied) ==
  [namespaces |-> allowed, denied |-> IF IsAllNamespaces(allowed) THEN denied ELSE {}]

\* ForResource: one informer for each namespace of the list, in each of which an
\* informer for all namespaces sees everything.
Sees(allowed, denied, ns) ==
  LET o == newInformerOptions(allowed, denied)
  IN ns \notin o.denied /\ o.namespaces \cap {ns, NamespaceAll} # {}
-----------------------------------------------------------------------------
(* The informers of a controller: for each kind, the list of their           *)
(* namespaces.                                                               *)

\* The kinds of objects an instance selects, in the order enqueueForNamespace asks.
prometheusKinds == <<"ServiceMonitor", "PodMonitor", "Probe", "PrometheusRule", "ScrapeConfig">>
agentKinds == <<"ServiceMonitor", "PodMonitor", "Probe", "ScrapeConfig">>
alertmanagerKinds == <<"AlertmanagerConfig">>
thanosKinds == <<"PrometheusRule">>

SelectedKinds(c) ==
  CASE c = "prometheus" -> prometheusKinds
    [] c = "agent" -> agentKinds
    [] c = "alertmanager" -> alertmanagerKinds
    [] c = "thanos" -> thanosKinds

Informer(kind, list) == [kind |-> kind, list |-> list]

\* The ConfigMaps are those the operator made.
prometheusWorkload ==
  {Informer("ConfigMap", "prometheus"), Informer("Secret", "prometheus"),
   Informer("StatefulSet", "prometheus")}

prometheusMonitors(opts) ==
  {Informer("ServiceMonitor", "allow"), Informer("PodMonitor", "allow"), Informer("Probe", "allow")}
    \cup (IF opts.scrapeConfig THEN {Informer("ScrapeConfig", "allow")} ELSE {})
    \cup {Informer("PrometheusRule", "allow")}

prometheusInformers(opts) ==
  {Informer("Prometheus", "prometheus")} \cup prometheusMonitors(opts) \cup prometheusWorkload

agentMonitors(opts) ==
  {Informer("ServiceMonitor", "allow"), Informer("PodMonitor", "allow"), Informer("Probe", "allow")}
    \cup (IF opts.scrapeConfig THEN {Informer("ScrapeConfig", "allow")} ELSE {})

agentWorkload(opts) ==
  {Informer("ConfigMap", "prometheus"), Informer("Secret", "prometheus"),
   Informer("StatefulSet", "prometheus")}
    \cup (IF opts.daemonSet THEN {Informer("DaemonSet", "prometheus")} ELSE {})

agentInformers(opts) ==
  {Informer("PrometheusAgent", "prometheus")} \cup agentMonitors(opts) \cup agentWorkload(opts)

alertmanagerInformers ==
  {Informer("Alertmanager", "alertmanager"), Informer("AlertmanagerConfig", "alertmanagerConfig"),
   Informer("Secret", "alertmanagerConfig"), Informer("StatefulSet", "alertmanager")}

thanosInformers ==
  {Informer("ConfigMap", "thanos"), Informer("ThanosRuler", "thanos"),
   Informer("PrometheusRule", "allow"), Informer("StatefulSet", "thanos")}

Informers(c, opts) ==
  CASE c = "prometheus" -> prometheusInformers(opts)
    [] c = "agent" -> agentInformers(opts)
    [] c = "alertmanager" -> alertmanagerInformers
    [] c = "thanos" -> thanosInformers

\* The namespace informers: that of the selected objects, whose updates are handled,
\* and that of the instances, the same one when their lists are.
prometheusNamespaces == [objects |-> "allow", instances |-> "prometheus"]
agentNamespaces == [objects |-> "allow", instances |-> "prometheus"]
alertmanagerNamespaces == [objects |-> "alertmanagerConfig", instances |-> "alertmanager"]
thanosNamespaces == [objects |-> "allow", instances |-> "thanos"]

NamespaceLists(c) ==
  CASE c = "prometheus" -> prometheusNamespaces
    [] c = "agent" -> agentNamespaces
    [] c = "alertmanager" -> alertmanagerNamespaces
    [] c = "thanos" -> thanosNamespaces
-----------------------------------------------------------------------------
(* addHandlers: "rr" hands the event to the resource reconciler, which finds *)
(* the instance from the object; otherwise enqueueForNamespace looks the     *)
(* namespace of the object up in a store.                                    *)

prometheusHandlers(kind) ==
  CASE kind \in {"Prometheus", "StatefulSet"} -> "rr"
    [] kind \in {"ConfigMap", "Secret"} -> "instances"
    [] OTHER -> "objects"

\* mutant: Secrets are looked up among the namespaces of the selected objects
agentHandlersOfMonitors(kind) ==
  IF kind \in {"PrometheusAgent", "StatefulSet", "DaemonSet"} THEN "rr" ELSE "objects"

agentHandlers(kind) ==
  CASE kind \in {"PrometheusAgent", "StatefulSet", "DaemonSet"} -> "rr"
    [] kind \in {"ConfigMap", "Secret"} -> "instances"
    [] OTHER -> "objects"

alertmanagerHandlers(kind) ==
  IF kind \in {"Alertmanager", "StatefulSet"} THEN "rr" ELSE "objects"

thanosHandlers(kind) ==
  CASE kind \in {"ThanosRuler", "StatefulSet"} -> "rr"
    [] kind = "ConfigMap" -> "instances"
    [] OTHER -> "objects"

Handler(c, kind) ==
  CASE c = "prometheus" -> prometheusHandlers(kind)
    [] c = "agent" -> agentHandlers(kind)
    [] c = "alertmanager" -> alertmanagerHandlers(kind)
    [] c = "thanos" -> thanosHandlers(kind)

\* The namespaces in the store of a namespace informer.
Store(config, list) ==
  IF IsAllNamespaces(config[list]) THEN DenyTweak(config.deny)
  ELSE config[list] \cap Namespaces

\* LabelSelectorAsSelector: one that is not set matches nothing.
Matches(selected, ns) == selected \notin {Own, Bad} /\ ns \in selected

\* The selectors are asked in order; a malformed one ends the search.
Selecting(p, kinds, ns) ==
  \E i \in 1..Len(kinds) :
    /\ Matches(p.select[kinds[i]], ns)
    /\ \A j \in 1..(i - 1) : p.select[kinds[j]] # Bad

prometheusEnqueueForNamespace(p, store, ns) ==
  ns \in store /\ (p.ns = ns \/ Selecting(p, prometheusKinds, ns))

agentEnqueueForNamespace(p, store, ns) ==
  ns \in store /\ (p.ns = ns \/ Selecting(p, agentKinds, ns))

alertmanagerEnqueueForNamespace(p, store, ns) ==
  ns \in store /\ (p.ns = ns \/ Selecting(p, alertmanagerKinds, ns))

thanosEnqueueForNamespace(p, store, ns) ==
  ns \in store /\ (p.ns = ns \/ Selecting(p, thanosKinds, ns))

enqueueForNamespace(p, store, ns) ==
  CASE p.controller = "prometheus" -> prometheusEnqueueForNamespace(p, store, ns)
    [] p.controller = "agent" -> agentEnqueueForNamespace(p, store, ns)
    [] p.controller = "alertmanager" -> alertmanagerEnqueueForNamespace(p, store, ns)
    [] p.controller = "thanos" -> thanosEnqueueForNamespace(p, store, ns)

\* The instances a controller knows of.
Cached(config, p) == Sees(config[NamespaceLists(p.controller).instances], config.deny, p.ns)

\* An event of an object of a kind in a namespace enqueues the instance.
Enqueues(config, opts, p, kind, ns) ==
  \E i \in Informers(p.controller, opts) :
    /\ Cached(config, p)
    /\ i.kind = kind /\ Sees(config[i.list], config.deny, ns)
    /\ LET h == Handler(p.controller, kind)
       IN IF h = "rr" THEN p.ns = ns
          ELSE enqueueForNamespace(p, Store(config, NamespaceLists(p.controller)[h]), ns)

\* handleNamespaceUpdate: the kinds whose selection of a namespace is looked at.
prometheusNamespaceUpdate == {"ServiceMonitor", "PodMonitor", "Probe", "PrometheusRule"}
agentNamespaceUpdate == {"ServiceMonitor", "PodMonitor", "Probe"}
alertmanagerNamespaceUpdate == {"AlertmanagerConfig"}
thanosNamespaceUpdate == {"PrometheusRule"}

NamespaceUpdateKinds(c) ==
  CASE c = "prometheus" -> prometheusNamespaceUpdate
    [] c = "agent" -> agentNamespaceUpdate
    [] c = "alertmanager" -> alertmanagerNamespaceUpdate
    [] c = "thanos" -> thanosNamespaceUpdate

\* A change of the labels of a namespace flips the selection of some kinds; a malformed
\* selector that is asked first ends the search (the order of the Go map is not fixed).
UpdateEnqueues(config, p, ns, flipped) ==
  LET looked == NamespaceUpdateKinds(p.controller)
  IN /\ Cached(config, p)
     /\ ns \in Store(config, NamespaceLists(p.controller).objects)
     /\ flipped \cap looked # {}
     /\ \A k \in looked : p.select[k] # Bad
-----------------------------------------------------------------------------
(* What an instance reads when it is reconciled.                             *)

\* The namespaces it selects objects of a kind in.
Selected(config, p, kind) ==
  LET s == p.select[kind]
      lists == NamespaceLists(p.controller)
  IN CASE s = Own -> {p.ns} \cap {ns \in Namespaces : Sees(config[lists.objects], config.deny, ns)}
       [] s = Bad -> {}
       [] OTHER -> s \cap Store(config, lists.objects)

ReadsObject(config, p, kind, ns) ==
  \/ /\ kind \in {SelectedKinds(p.controller)[i] : i \in 1..Len(SelectedKinds(p.controller))}
     /\ ns \in Selected(config, p, kind)
  \/ kind \in {"StatefulSet", "ConfigMap"} /\ ns = p.ns
  \/ /\ kind = "Secret"
     /\ \/ ns = p.ns
        \/ \E i \in 1..Len(SelectedKinds(p.controller)) :
             ns \in Selected(config, p, SelectedKinds(p.controller)[i])

Malformed(p) ==
  \E i \in 1..Len(SelectedKinds(p.controller)) : p.select[SelectedKinds(p.controller)[i]] = Bad

\* Gap: Secrets are watched in one list of namespaces and read in two, and those of a
\* ThanosRuler are not watched.
UnwatchedSecret(config, p, kind, ns) ==
  /\ kind = "Secret"
  /\ \/ p.controller = "thanos"
     \/ p.controller \in {"prometheus", "agent"} /\ ~Sees(config.prometheus, config.deny, ns)
     \/ p.controller = "alertmanager" /\ ~Sees(config.alertmanagerConfig, config.deny, ns)

\* Gap: the operator's own ConfigMaps of an Alertmanager: it has none.
NoConfigMaps(p, kind) == p.controller = "alertmanager" /\ kind = "ConfigMap"

\* Gap: an informer without the CRD or the permission is not created.
Unsupported(opts, kind) == kind = "ScrapeConfig" /\ ~opts.scrapeConfig

\* Gap: a list that holds the empty name along with others (a trailing comma of the
\* flag) watches objects everywhere and namespaces by name.
MixedList(config) ==
  \E l \in {"allow", "prometheus", "alertmanager", "alertmanagerConfig", "thanos"} :
    NamespaceAll \in config[l] /\ ~IsAllNamespaces(config[l])
=============================================================================
