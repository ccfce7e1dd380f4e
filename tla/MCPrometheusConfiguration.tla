--------------------- MODULE MCPrometheusConfiguration ---------------------
(***************************************************************************)
(* Inputs for PrometheusConfiguration, in groups that each vary the        *)
(* settings of one concern and leave the others at a default.              *)
(***************************************************************************)
EXTENDS PrometheusConfiguration

\* "a.b" and "a-b" are both sanitized to "a_b"; "v.1" as a regular expression matches "vx1".
MCKeys == {"a.b", "a-b", "c"}
MCSanitizedKey == [k \in MCKeys |-> IF k = "c" THEN "c" ELSE "a_b"]
MCValues == {"v.1", "vx1", "a1", "a2", "a3", "prober", "mon", "other", "x", "m1", "job",
             "web", "Running", "Failed", "Succeeded"}
MCMatching == [v \in MCValues \cup {""} |-> IF v = "v.1" THEN {"v.1", "vx1"} ELSE {v}]
MCHashOf == [v \in MCValues \cup {"", "true", "0", "1", "2"} |->
               CASE v = "a1" -> 4 [] v = "a2" -> 5 [] v = "a3" -> 6 [] v = "" -> 1 [] OTHER -> 3]

MCLabelNames ==
  {"dropped", "__address__", "__tmp_hash", "__tmp_disable_sharding", "__param_target", "job",
   "__tmp_prometheus_job_name", "namespace", "team", "instance", "endpoint",
   "__meta_kubernetes_namespace", "__meta_kubernetes_pod_phase", "__meta_port",
   "__meta_kubernetes_service_name", "__tmp_ingress_address", "a_b", "c"}

MCObjects == [MCKeys -> {"v.1", "vx1", "x", "", "absent"}]

MCBases ==
  {[n \in MCLabelNames |->
      CASE n = "__address__" -> addr [] n = "__tmp_hash" -> hash
        [] n = "__tmp_disable_sharding" -> disable [] n = "__meta_kubernetes_pod_phase" -> podPhase
        [] n = "__meta_port" -> "web" [] n = "__meta_kubernetes_namespace" -> "mon"
        [] n = "team" -> "x" [] OTHER -> ""] :
     addr \in {"a1", "a2", "a3"}, hash \in {"", "a2"}, disable \in {"", "true"},
     podPhase \in {"Running", "Failed"}}

MCBefore(m, n) == m.order < n.order

-----------------------------------------------------------------------------
(* Defaults.                                                               *)

NoSelector == [labels |-> << >>, exprs |-> << >>]

P0 == [v |-> 3050, ns |-> "mon", name |-> "mon/p", agent |-> FALSE, daemonSet |-> FALSE,
       shards |-> 1, slices |-> FALSE, classes |-> {}, enforcedLabel |-> "", excluded |-> {},
       podTargetLabels |-> << >>, ignoreNs |-> FALSE, overrideLabels |-> FALSE,
       overrideTimestamps |-> FALSE, key |-> "sample", limit |-> 0, enforced |-> 0,
       body |-> << >>, enforcedBody |-> << >>, interval |-> 2, timeout |-> 0, denyFS |-> FALSE,
       api |-> {}, remoteWrite |-> {}, remoteRead |-> {}, alertmanagers |-> {}, tracing |-> {},
       headers |-> {}, opts |-> {}, prometheusLabel |-> "prometheus",
       replicaLabel |-> "prometheus_replica", externalLabels |-> [n \in {} |-> ""]]

M0 == [kind |-> "PodMonitor", name |-> "m1", ns |-> "mon", order |-> 1, class |-> "",
       uses |-> {}, broken |-> {}, opts |-> {}, sections |-> {}, selector |-> NoSelector,
       mechanism |-> "relabel", port |-> "", filterRunning |-> TRUE, targetLabels |-> << >>,
       relabelings |-> << >>, metricRelabelings |-> << >>, targets |-> {"static"},
       jobName |-> "", interval |-> 0, timeout |-> 0, limit |-> 0, body |-> << >>,
       namespaces |-> {}, honorLabels |-> FALSE, honorTimestamps |-> "unset"]

Endpoint0 == [name |-> "endpoint", uses |-> {}, broken |-> {}, opts |-> {}]

UpTo2(S) == {T \in SUBSET S : Cardinality(T) <= 2}
Broken(uses) == {{}} \cup {{u} : u \in uses}

Class(name, default, auth, tls) ==
  [NoClass EXCEPT !.name = name, !.default = default, !.auth = auth, !.tls = tls,
                  !.relabelings = <<SetLabel(Label("team"), "mon")>>]

-----------------------------------------------------------------------------
(* Groups.                                                                 *)

Tokens(kind) == IF kind = "ScrapeConfig" THEN {} ELSE {"bearerToken"}
AuthOptions(kind) ==
  {{}, {"authType"}, {"tlsFiles"}}
  \cup (IF kind = "ServiceMonitor" THEN {{"bearerTokenFile"}} ELSE {})
  \cup (IF kind \in {"PodMonitor", "Probe"} THEN {{"tokenWithoutKey"}} ELSE {})

\* Credentials of monitors, with and without their Secrets.
AuthInputs ==
  UNION {{<<[P0 EXCEPT !.v = v, !.denyFS = deny],
            {[M0 EXCEPT !.kind = k, !.uses = u, !.broken = b, !.opts = o]}>> :
             o \in AuthOptions(k), b \in Broken(u), v \in {2200, 3050}, deny \in BOOLEAN} :
           <<k, u>> \in {<<kk, uu>> \in Kinds \X UpTo2(HTTPClient \cup {"bearerToken"}) :
                          uu \subseteq HTTPClient \cup Tokens(kk)}}

\* Scrape classes and the API server, from monitors of both namespaces.
ClassInputs ==
  {<<[P0 EXCEPT !.v = v, !.classes = {Class("c1", d, auth, tls), Class("c2", d2, "none", "files")},
                !.agent = TRUE],
     {[M0 EXCEPT !.kind = k, !.uses = u, !.ns = ns, !.class = c]}>> :
     v \in {2200, 3050}, d \in BOOLEAN, d2 \in BOOLEAN, auth \in {"none", "secret", "file"},
     tls \in {"none", "secret", "files"}, k \in Kinds,
     u \in {{}, {"authorization"}, {"tls"}, {"basicAuth"}}, ns \in {"mon", "other"},
     c \in {"", "c1", "absent"}}

APIInputs ==
  {<<[P0 EXCEPT !.v = v, !.agent = agent, !.daemonSet = agent /\ ds, !.slices = TRUE,
                !.api = {[Endpoint0 EXCEPT !.name = "api", !.uses = u, !.broken = b, !.opts = o]},
                !.alertmanagers = {[Endpoint0 EXCEPT !.name = "am"]}],
     {[M0 EXCEPT !.kind = k, !.ns = ns, !.mechanism = mech, !.targets = {"ingress"},
                 !.opts = IF k = "Probe" THEN {"nhcb"} ELSE {"attachMetadata", "followRedirects"}]}>> :
     v \in {2200, 3050}, agent \in BOOLEAN, ds \in BOOLEAN,
     u \in {{}, {"basicAuth"}, {"authorization"}, {"tls", "proxy"}, {"basicAuth", "authorization"}},
     b \in {{}, {"basicAuth"}}, o \in {{}, {"authType"}}, k \in {"PodMonitor", "ServiceMonitor", "Probe"},
     ns \in {"mon", "other"}, mech \in {"relabel", "role"}}

\* What the checks of monitors refuse.
CheckInputs ==
  {<<[P0 EXCEPT !.v = v, !.interval = pi, !.timeout = pt],
     {[M0 EXCEPT !.kind = k, !.timeout = t, !.interval = i, !.opts = o, !.mechanism = mech,
                 !.targets = targets]}>> :
     v \in {2160, 3050}, pi \in {1, 2}, pt \in {0, 2}, k \in Kinds, t \in 0..3, i \in {0, 1, 3},
     o \in {{}, {"badSelector"}, {"badURL"}, {"badProxy"}, {"scrapeProtocols", "bucketLimit"}},
     mech \in {"relabel", "role"}, targets \in {{}, {"static"}}}

\* No setting, all that go together, and what a check or a version singles out.
OptionsOf(d) ==
  LET all == SDTypes[d].options
  IN {{}} \cup
     CASE d = "azure" -> {all \ {"sdk"}, all \ {"managedIdentity"}, all \ {"sdk", "managedIdentity"},
                          {"tenantID", "clientID"}}
       [] d = "dns" -> {{"typeMX", "port"}, {"typeNS"}, {"typeSRV"}, all \ {"typeSRV", "typeNS", "typeMX"}}
       [] d = "consul" -> {all, {"pathPrefix"}, {"namespace"}, {"filter"}}
       [] d = "openstack" -> {all, {"loadBalancer"}}
       [] d = "kubernetes" -> {all \ {"apiServer"}, all \ {"ownNamespace"}, {"apiServer", "ownNamespace"},
                               {"badSelector"}}
       [] d = "docker" -> {all, {"matchFirstNetwork"}, {"badURL"}}
       [] d = "static" -> {{"badLabel"}, all}
       [] OTHER -> {all, {"badURL"}}

Section0(d) == [disc |-> d, uses |-> {}, broken |-> {}, opts |-> {}, role |-> "pod", selectors |-> {}]

\* Sections of ScrapeConfigs.
SectionInputs ==
  UNION {{<<[P0 EXCEPT !.v = v],
            {[M0 EXCEPT !.kind = "ScrapeConfig",
                        !.sections = {[Section0(d) EXCEPT !.uses = u, !.broken = b, !.opts = o]}]}>> :
             v \in {2390, 2410, 3050}, b \in Broken(u), o \in OptionsOf(d)} :
           <<d, u>> \in UNION {{<<dd, uu \cup SDTypes[dd].required>> : uu \in UpTo2(SDTypes[dd].assets)} :
                                 dd \in DOMAIN SDTypes}}
  \cup {<<P0, {[M0 EXCEPT !.kind = "ScrapeConfig",
                   !.sections = {[Section0("kubernetes") EXCEPT !.role = r, !.selectors = sel]}]}>> :
          r \in {"pod", "endpoints", "node"}, sel \in SUBSET {"pod", "service", "node"}}

\* Limits of a job, of the global section and enforced ones.
LimitInputs ==
  {<<[P0 EXCEPT !.v = v, !.key = key, !.limit = l, !.enforced = e],
     {[M0 EXCEPT !.kind = k, !.limit = u]}>> :
     v \in {2200, 2300, 2460, 3050}, key \in DOMAIN LimitSince, l \in {0, 1, 3}, e \in 0..2,
     k \in {"PodMonitor", "Probe"}, u \in 0..3}
  \cup {<<[P0 EXCEPT !.v = v, !.body = l, !.enforcedBody = e], {[M0 EXCEPT !.kind = k, !.body = u]}>> :
          v \in {2270, 2300, 3050}, l \in {<< >>, <<1>>, <<3>>}, e \in {<< >>, <<2>>},
          k \in Kinds, u \in {<< >>, <<0>>, <<1>>, <<3>>}}

\* Rules of users and classes that try to set, copy or drop what later rules rely on.
UserRules ==
  {<< >>, <<SetLabel(Label("namespace"), "x")>>, <<LabelDrop(Label("namespace"))>>,
   <<SetLabel(Label("__tmp_hash"), "a3")>>, <<SetLabel(Label("__tmp_disable_sharding"), "true")>>,
   <<SetLabel(Label("__address__"), "a1"), CopyLabel(Label("team"), Label("namespace"))>>,
   <<HashMod(Label("__address__"), Label("__tmp_hash"), 2)>>,
   <<HashMod(Label("__address__"), Label("__tmp_hash"), 0)>>, <<SetLabel(Label(""), "x")>>,
   <<Keep(<<Label("team")>>, {<<"x">>})>>}

RuleInputs ==
  {<<[P0 EXCEPT !.shards = n, !.enforcedLabel = l, !.agent = ds, !.daemonSet = ds,
                !.classes = {Class("c1", class, "none", "none")}, !.ignoreNs = ignore,
                !.overrideLabels = ignore, !.overrideTimestamps = ignore,
                !.excluded = {[kind |-> "Probe", ns |-> "mon", name |-> excl]}],
     {[M0 EXCEPT !.kind = k, !.relabelings = rules, !.metricRelabelings = rules, !.port = "web",
                 !.jobName = "job", !.targets = {"ingress"}, !.namespaces = {"other"},
                 !.honorLabels = TRUE, !.honorTimestamps = "true", !.targetLabels = <<"c">>]}>> :
     n \in 1..3, l \in {"", "namespace", "team"}, ds \in BOOLEAN, class \in BOOLEAN,
     ignore \in BOOLEAN, excl \in {"", "m2"}, k \in Kinds, rules \in UserRules}

\* Selectors, among them ones with keys and values that rules cannot tell apart.
SelectorInputs ==
  {<<P0, {[M0 EXCEPT !.kind = k, !.selector = [labels |-> ls, exprs |-> es]]}>> :
     k \in {"ServiceMonitor"},
     ls \in {<< >>, <<<<"a.b", "v.1">>>>, <<<<"c", "">>>>, <<<<"c", "vx1">>>>,
             <<<<"a.b", "vx1">>, <<"c", "x">>>>},
     es \in {<< >>} \cup {<<[op |-> op, key |-> key, values |-> vs]>> :
              op \in {"In", "NotIn"}, key \in MCKeys, vs \in {{"vx1"}, {"v.1", "x"}, {"", "vx1"}}}
           \cup {<<[op |-> op, key |-> key, values |-> {}],
                   [op |-> "NotIn", key |-> "c", values |-> {"vx1"}]>> :
              op \in {"Exists", "DoesNotExist"}, key \in MCKeys}}

\* The sections of the Prometheus object.
EndpointUses == UpTo2(HTTPClient \cup {"sigv4"})
EndpointInputs ==
  UNION {{<<[P0 EXCEPT !.v = v, !.remoteWrite = IF which = "write" THEN {e} ELSE {},
                       !.remoteRead = IF which = "read" THEN {e} ELSE {},
                       !.alertmanagers = IF which = "am" THEN {e} ELSE {},
                       !.tracing = IF which = "tracing" THEN {e} ELSE {}], {M0}>> :
             which \in {"write", "read", "am", "tracing"}, v \in {2200, 3050},
             e \in {[Endpoint0 EXCEPT !.uses = u, !.broken = b, !.opts = o] :
                     b \in Broken(u), o \in {{}, {"bearerTokenFile", "headers"}}}} :
           u \in EndpointUses}
  \cup {<<[P0 EXCEPT !.v = v, !.agent = agent, !.remoteWrite =
              {[Endpoint0 EXCEPT !.opts = {"azureAD", "minShards", "maxRetries"} \cup o,
                                 !.uses = IF "oauth" \in o THEN {"azureAD"} ELSE {}]}], {M0}>> :
          v \in {2100, 2460, 3050}, agent \in BOOLEAN, o \in SUBSET {"managedIdentity", "oauth", "sdk"}}
  \cup {<<[P0 EXCEPT !.v = v, !.opts = o, !.shards = n, !.agent = agent], {M0}>> :
          v \in {1080, 2540, 3030, 3050}, n \in 1..2, agent \in BOOLEAN,
          o \in {{"otlp"}, {"otlp", "noUTF8Escaping", "legacyNames"}, {"otlp", "noTranslation"},
                 {"badScrapeConfigs"}, {"badRelabelConfigs"}, {"badAlertConfigs"}}}

\* Names of external labels; several resources and headers of tracing.
OrderInputs ==
  {<<[P0 EXCEPT !.prometheusLabel = a, !.replicaLabel = b, !.headers = h, !.agent = agent,
                !.externalLabels = [n \in ext |-> "x"]],
     {[M0 EXCEPT !.kind = k1], [M0 EXCEPT !.kind = k2, !.name = "m2", !.order = 2]}>> :
     a \in {"", "prometheus", "r"}, b \in {"", "prometheus_replica", "r"}, h \in {{}, {"h1"}, {"h1", "h2"}},
     agent \in BOOLEAN, ext \in {{}, {"r", "prometheus_replica", "e"}}, k1 \in Kinds, k2 \in Kinds}

MCInputsOf(g) ==
  CASE g = "auth" -> AuthInputs      [] g = "class" -> ClassInputs
    [] g = "api" -> APIInputs        [] g = "check" -> CheckInputs
    [] g = "section" -> SectionInputs [] g = "limit" -> LimitInputs
    [] g = "rule" -> RuleInputs      [] g = "selector" -> SelectorInputs
    [] g = "endpoint" -> EndpointInputs [] g = "order" -> OrderInputs

=============================================================================
