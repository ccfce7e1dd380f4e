-------------------------- MODULE MCOperatorProcess --------------------------
(***************************************************************************)
(* Small deployments of the operator.  Each group makes one part move: the *)
(* start and the end of the process, the kubelet controller, the store of  *)
(* namespaces, or the events of objects.                                   *)
(***************************************************************************)
EXTENDS OperatorProcess, TLC

mcNodeNames == <<"n1", "n2", "n3">>

Node(internal, external, known) == [internal |-> internal, external |-> external, known |-> known]

mcNodeStates ==
  {Node("ip1", None, TRUE), Node("ip1", None, FALSE), Node("ip2", "v6", TRUE), Node("ip3", "bad", TRUE)}

Monitors == {"ServiceMonitor", "PodMonitor", "Probe", "PrometheusRule", "ScrapeConfig",
             "AlertmanagerConfig"}
Builtin == {"ConfigMap", "Secret", "StatefulSet", "DaemonSet"}
Instances == {"Prometheus", "PrometheusAgent", "Alertmanager", "ThanosRuler"}

Resources == Monitors \cup Builtin \cup Instances \cup
             {"status", "namespaces", "namespace", "events", "storageclasses", "endpointslices"}

Everything == Resources \X {NamespaceAll}

NoFlags == [allow |-> {}, deny |-> {}, prometheus |-> {}, alertmanager |-> {},
            alertmanagerConfig |-> {}, thanos |-> {}]

NoKubelet == [object |-> "none", endpoints |-> FALSE, slices |-> FALSE, priority |-> "internal",
              ns |-> "a"]

Plain == [port |-> TRUE, enabled |-> FALSE, files |-> {}, clientCA |-> FALSE, version |-> 13,
          ciphers |-> TRUE, readable |-> TRUE]

Default ==
  [flags |-> NoFlags, gates |-> "none", version |-> 22, crds |-> {}, builtin |-> Builtin,
   grants |-> Everything, kubelet |-> NoKubelet, web |-> Plain, instances |-> {},
   followed |-> FALSE, faults |-> 0, signals |-> 0, requests |-> 0]

NoWorkload == [controller |-> "prometheus", replicas |-> 0, shards |-> <<>>, scale |-> TRUE,
               left |-> 0, faults |-> 0]

Scenario(d) ==
  [deploy |-> d, nodes |-> [n \in NodeSet |-> None], endpoints |-> None,
   slices |-> [n \in SliceNames |-> None], kload |-> [nodes |-> 0, faults |-> 0, services |-> 0],
   nsVersion |-> [ns \in Namespaces |-> 1], nsLoad |-> [left |-> 0, next |-> 2],
   workload |-> NoWorkload]
-----------------------------------------------------------------------------
(* The start and the end.                                                    *)

Start == [Default EXCEPT !.crds = {"Prometheus", "PrometheusAgent"} \cup Monitors, !.faults = 1,
                         !.signals = 1, !.requests = 1]

Slices == [object |-> "ok", endpoints |-> FALSE, slices |-> TRUE, priority |-> "internal", ns |-> "a"]

TLS == [Plain EXCEPT !.enabled = TRUE, !.files = {"cert", "key"}]

Starts ==
  {Start, [Start EXCEPT !.crds = Instances \cup Monitors, !.faults = 0],
   [Start EXCEPT !.gates = "unknown"], [Start EXCEPT !.gates = "daemonset"],
   [Start EXCEPT !.gates = "daemonset", !.grants = @ \ {<<"DaemonSet", NamespaceAll>>}],
   [Start EXCEPT !.flags.allow = {"a"}, !.flags.deny = {"b"}],
   [Start EXCEPT !.flags.allow = {"a"}, !.flags.prometheus = {"b"}, !.version = 16],
   [Start EXCEPT !.flags.allow = {NamespaceAll, "a"}, !.version = 16],
   [Start EXCEPT !.flags.allow = {"a"},
                 !.grants = (Resources \ {"namespaces"}) \X {"a"}],
   [Start EXCEPT !.flags.allow = {"a", "b"},
                 !.grants = (Resources \X {"a"}) \cup {<<"Prometheus", "b">>, <<"status", "b">>}]}
  \cup {[Start EXCEPT !.crds = @ \ {k}] :
          k \in {"Prometheus", "PrometheusAgent", "ServiceMonitor", "ScrapeConfig"}}
  \cup {[Start EXCEPT !.grants = @ \ {<<r, NamespaceAll>>}] :
          r \in {"Prometheus", "status", "namespaces", "Secret", "PrometheusRule", "ScrapeConfig"}}
  \cup {[Start EXCEPT !.crds = {"Alertmanager", "ThanosRuler"} \cup k] :
          k \in {{}, {"AlertmanagerConfig"}, {"PrometheusRule"}, Monitors}}
  \cup {[Start EXCEPT !.crds = {}, !.kubelet = k] :
          k \in {NoKubelet, [NoKubelet EXCEPT !.object = "malformed"],
                 [NoKubelet EXCEPT !.object = "ok"], Slices}}
  \cup {[Start EXCEPT !.crds = {"Prometheus"}, !.kubelet = Slices,
                      !.grants = @ \ {<<"endpointslices", NamespaceAll>>}]}
  \cup {[Start EXCEPT !.crds = {"ThanosRuler", "PrometheusRule"}, !.web = w] :
          w \in {[Plain EXCEPT !.port = FALSE], TLS, [TLS EXCEPT !.files = {}],
                 [TLS EXCEPT !.files = {}, !.clientCA = TRUE], [TLS EXCEPT !.files = {"key"}],
                 [TLS EXCEPT !.version = 11], [TLS EXCEPT !.ciphers = FALSE],
                 [TLS EXCEPT !.readable = FALSE]}}
-----------------------------------------------------------------------------
(* The kubelet controller.                                                   *)

ThreeNodes == [n \in NodeSet |-> CASE n = "n1" -> Node("ip1", None, TRUE)
                                   [] n = "n2" -> Node("ip2", "v6", TRUE)
                                   [] n = "n3" -> Node("ip3", "bad", TRUE)]

KubeletOf(endpts, slcs, priority) ==
  [object |-> "ok", endpoints |-> endpts, slices |-> slcs, priority |-> priority, ns |-> "a"]

WithKubelet(k, load, signals) ==
  [Scenario([Default EXCEPT !.kubelet = k, !.signals = signals]) EXCEPT
     !.nodes = ThreeNodes, !.kload = load]

\* What a run with the mirroring controller left.
WasMirrored(s) ==
  [s EXCEPT
     !.endpoints = [addresses |-> <<[ip |-> "ip2", node |-> "n1", ipv4 |-> TRUE]>>,
                    skipMirror |-> FALSE],
     !.slices[1] = [owner |-> Mirror, ipv4 |-> TRUE,
                    endpoints |-> <<[ip |-> "ip2", node |-> "n1"]>>]]

Load(n, f, s) == [nodes |-> n, faults |-> f, services |-> s]

Kubelets ==
  {WithKubelet(KubeletOf(TRUE, FALSE, "external"), Load(1, 1, 0), 0),
   WithKubelet(KubeletOf(FALSE, TRUE, "internal"), Load(2, 0, 0), 0),
   WithKubelet(KubeletOf(FALSE, TRUE, "external"), Load(0, 1, 0), 1),
   WithKubelet(KubeletOf(TRUE, TRUE, "internal"), Load(0, 1, 1), 0),
   WasMirrored(WithKubelet(KubeletOf(TRUE, TRUE, "internal"), Load(1, 1, 0), 0)),
   WasMirrored(WithKubelet(KubeletOf(TRUE, FALSE, "internal"), Load(1, 0, 1), 0))}
-----------------------------------------------------------------------------
(* The store of namespaces.                                                  *)

Following(allow, deny, version, watch, names, changes) ==
  [Scenario([Default EXCEPT !.crds = {"Prometheus"} \cup Monitors, !.followed = TRUE,
                            !.flags.allow = allow, !.flags.deny = deny, !.version = version,
                            !.grants = IF watch THEN @ ELSE @ \ {<<"namespaces", NamespaceAll>>}])
   EXCEPT !.nsVersion = [ns \in Namespaces |-> IF ns \in names THEN 1 ELSE 0],
          !.nsLoad = [left |-> changes, next |-> 2]]

Stores ==
  {Following({}, {}, 22, TRUE, {"a"}, 2), Following({}, {"b"}, 22, TRUE, {"a", "b"}, 2),
   Following({}, {"b"}, 16, TRUE, {"a"}, 2), Following({"a"}, {}, 22, TRUE, {"a"}, 2),
   Following({"a"}, {}, 16, TRUE, {"a", "b"}, 2), Following({"a", "b"}, {}, 22, FALSE, {"a", "b"}, 2),
   Following({"a"}, {}, 22, FALSE, {"b"}, 1)}
-----------------------------------------------------------------------------
(* Events of objects.                                                        *)

Flags ==
  {NoFlags, [NoFlags EXCEPT !.allow = {"a"}], [NoFlags EXCEPT !.deny = {"b"}],
   [NoFlags EXCEPT !.allow = {NamespaceAll, "a"}],
   [NoFlags EXCEPT !.allow = {"a"}, !.prometheus = {"b"}, !.thanos = {"a", "b"},
                   !.alertmanager = {"b"}],
   [NoFlags EXCEPT !.deny = {"a"}, !.prometheus = {"a"}, !.thanos = {"b"},
                   !.alertmanagerConfig = {"b"}]}

Selections ==
  {[k \in Monitors |-> Own], [k \in Monitors |-> {"a", "b"}],
   [k \in Monitors |-> IF k \in {"PrometheusRule", "ScrapeConfig", "AlertmanagerConfig"}
                       THEN {"b"} ELSE Own],
   [k \in Monitors |-> IF k = "PodMonitor" THEN Bad ELSE {"a"}]}

Events ==
  {[Default EXCEPT !.crds = {InstanceKind(c)} \cup (Monitors \ (IF s = {"a"} THEN {"ScrapeConfig"} ELSE {})),
                   !.flags = f,
                   !.instances = {[controller |-> c, ns |-> ns, select |-> sel] : ns \in s}] :
     c \in Controllers, f \in Flags, sel \in Selections, s \in {{"a"}, {"a", "b"}}}
-----------------------------------------------------------------------------
(* The status of an object.                                                  *)

Up(pods) == Shard("there", pods, <<ReadyPods(pods), UpdatedPods(pods)>>)

Down == Shard("missing", <<>>, <<0, 0>>)

Reporting(c, replicas, shards, scale, changes, faults, signals) ==
  [Scenario([Default EXCEPT !.crds = {InstanceKind(c)} \cup Monitors, !.signals = signals]) EXCEPT
     !.workload = [controller |-> c, replicas |-> replicas, shards |-> shards, scale |-> scale,
                   left |-> changes, faults |-> faults]]

Statuses ==
  {Reporting("prometheus", 2, <<Up(<<"new", "new">>), Up(<<"new", "old">>)>>, TRUE, 2, 1, 0),
   Reporting("agent", 1, <<Down, Up(<<"down">>)>>, FALSE, 1, 1, 0),
   Reporting("alertmanager", 2, <<Up(<<"old", "down">>)>>, TRUE, 2, 1, 0),
   Reporting("thanos", 1, <<Down>>, TRUE, 1, 1, 1)}
-----------------------------------------------------------------------------
mcDeploymentsOf(g) ==
  CASE g = "start" -> {Scenario(d) : d \in Starts}
    [] g = "kubelet" -> Kubelets
    [] g = "namespaces" -> Stores
    [] g = "events" -> {Scenario(d) : d \in Events}
    [] g = "status" -> Statuses
    [] g = "missing" -> {Following({"a", "b"}, {}, 16, TRUE, {"a"}, 0)}
=============================================================================
