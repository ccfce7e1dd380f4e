---------------------- MODULE PrometheusConfiguration ----------------------
(***************************************************************************)
(* How the operator makes the configuration of a Prometheus server or      *)
(* agent: createOrUpdateConfigurationSecret of the two operators, the      *)
(* checks of pkg/prometheus/resource_selector.go, the asset store and the  *)
(* generator of pkg/prometheus/promcfg.go.                                 *)
(*                                                                         *)
(* A reconciliation selects the monitors, refuses the ones whose check     *)
(* fails, loads into the store what the accepted ones and the Prometheus   *)
(* object refer to, and generates one configuration for all of them.  The  *)
(* generator is meant to fail for no accepted resource: an error, a panic  *)
(* or a job that Prometheus refuses to load stops the update of every job. *)
(*                                                                         *)
(* An endpoint (of a monitor, of remote write...) is a record like a       *)
(* section of PrometheusDiscovery: uses, broken and opts.  An asset is a   *)
(* tuple: the namespace it is looked up in, its owner, the part of the     *)
(* owner ("" or the kind of a section) and the setting that refers to it.  *)
(* An optional number is a sequence of at most one number.                 *)
(***************************************************************************)
EXTENDS PrometheusDiscovery, PrometheusRelabeling

CONSTANTS
  Groups,      \* names of the groups of inputs
  InputsOf(_), \* the inputs of a group: pairs of a Prometheus and a set of resources
  Before(_, _), \* the order of the keys of resources
  LabelNames,  \* names of labels other than those of the objects' metadata
  Objects,     \* labels of Kubernetes objects: from Keys to a value, "" or "absent"
  Bases        \* the other labels of discovered targets: from LabelNames to values

VARIABLES
  prom,        \* the Prometheus or PrometheusAgent object
  resources,   \* the monitors, probes and scrape configs that its selectors match
  phase,       \* "select", "load", "generate", then "written", "failed" or "panicked"
  accepted,    \* the resources whose check succeeded
  store,       \* the assets that were loaded
  config       \* the content of the configuration Secret, << >> before the first

vars == <<prom, resources, phase, accepted, store, config>>

Kinds == {"ServiceMonitor", "PodMonitor", "Probe", "ScrapeConfig"}

Assets(ns, owner, settings) == {<<ns, owner, "", s>> : s \in settings}
SectionAssets(m, loads) == {<<m.ns, m.name, l[1], l[2]>> : l \in loads}

-----------------------------------------------------------------------------
(* Scrape classes.                                                         *)

NoClass == [name |-> "", default |-> FALSE, auth |-> "none", tls |-> "none",
            broken |-> FALSE, relabelings |-> << >>, metricRelabelings |-> << >>, opts |-> {}]

GetScrapeClassConfig(p) ==
  /\ \A c \in p.classes : /\ ~c.broken
                          /\ ValidateRelabelConfigs(p.v, c.relabelings)
                          /\ ValidateRelabelConfigs(p.v, c.metricRelabelings)
  /\ \A c, d \in p.classes : c.default /\ d.default => c = d

NewConfigGenerator(p) == p.v >= 2000 /\ p.v < 4000 /\ GetScrapeClassConfig(p)

GetScrapeClassOrDefault(p, name) ==
  LET Named == {c \in p.classes : c.name = name}
      Default == {c \in p.classes : c.default}
  IN CASE Named # {}   -> CHOOSE c \in Named : TRUE
       [] Default # {} -> CHOOSE c \in Default : TRUE
       [] OTHER        -> NoClass

ClassOf(p, m) == GetScrapeClassOrDefault(p, m.class)

\* The authorization of a job and who owns its credentials.
MergeAuthorizationWithScrapeClass(c, m) ==
  LET ofClass == IF c.auth = "secret" THEN {c.name} ELSE {}
  IN CASE "authorization" \in m.uses -> [set |-> TRUE, owner |-> {m.name}]
       [] "authType" \in m.opts      -> [set |-> TRUE, owner |-> ofClass]
       [] OTHER                      -> [set |-> c.auth # "none", owner |-> ofClass]

\* The files of the class complete the settings of the monitor, its references do not.
MergeTLSConfigWithScrapeClass(c, m) ==
  CASE "tls" \in m.uses      -> [set |-> TRUE, owner |-> {m.name}]
    [] "tlsFiles" \in m.opts -> [set |-> TRUE, owner |-> {}]
    [] OTHER -> [set |-> c.tls # "none", owner |-> IF c.tls = "secret" THEN {c.name} ELSE {}]

MergeAttachMetadataWithScrapeClass(c, m) == "attachMetadata" \in m.opts \cup c.opts
MergeFallbackScrapeProtocolWithScrapeClass(c, m) == "fallbackProtocol" \in m.opts \cup c.opts

-----------------------------------------------------------------------------
(* Checks.                                                                 *)

CompareScrapeTimeoutToScrapeInterval(timeout, interval) == timeout <= interval

\* Mutant: the interval of the endpoint is not looked at.
MutValidateScrapeIntervalAndTimeout(p, m) ==
  m.timeout # 0 => CompareScrapeTimeoutToScrapeInterval(m.timeout, p.interval)

ValidateScrapeIntervalAndTimeout(p, m) ==
  m.timeout # 0 =>
    CompareScrapeTimeoutToScrapeInterval(m.timeout, IF m.interval = 0 THEN p.interval ELSE m.interval)

ValidateScrapeClass(p, m) == m.class # "" => \E c \in p.classes : c.name = m.class

ValidateMonitorSelectorMechanism(p, m) == m.mechanism = "role" => p.v >= 2170

TestForArbitraryFSAccess(m) == m.opts \cap {"bearerTokenFile", "tlsFiles"} = {}

ValidateMonitorRelabelConfigs(p, m) ==
  ValidateRelabelConfigs(p.v, m.relabelings) /\ ValidateRelabelConfigs(p.v, m.metricRelabelings)

ValidateTargets(m) == m.targets # {}
ValidateProberURL(m) == "badURL" \notin m.opts

\* What the check of an endpoint loads.  A token whose key is empty is loaded by the
\* check of a ServiceMonitor only.
LoadedBy(m) ==
  m.uses \cap (HTTPClient
    \cup IF m.kind = "ServiceMonitor" \/ "tokenWithoutKey" \notin m.opts
         THEN {"bearerToken"} ELSE {})

Loadable(m) == LoadedBy(m) \cap m.broken = {} /\ "badProxy" \notin m.opts

CheckServiceMonitor(p, m) ==
  /\ "badSelector" \notin m.opts
  /\ ValidateMonitorSelectorMechanism(p, m)
  /\ p.denyFS => TestForArbitraryFSAccess(m)
  /\ Loadable(m)
  /\ ValidateScrapeIntervalAndTimeout(p, m)
  /\ ValidateMonitorRelabelConfigs(p, m)
  /\ ValidateScrapeClass(p, m)

CheckPodMonitor(p, m) ==
  /\ "badSelector" \notin m.opts
  /\ ValidateMonitorSelectorMechanism(p, m)
  /\ Loadable(m)
  /\ ValidateScrapeIntervalAndTimeout(p, m)
  /\ ValidateMonitorRelabelConfigs(p, m)
  /\ ValidateScrapeClass(p, m)

CheckProbe(p, m) ==
  /\ ValidateScrapeClass(p, m)
  /\ ValidateTargets(m)
  /\ Loadable(m)
  /\ ValidateScrapeIntervalAndTimeout(p, m)
  /\ ValidateMonitorRelabelConfigs(p, m)
  /\ ValidateProberURL(m)

CheckScrapeConfig(p, m) ==
  /\ ValidateScrapeClass(p, m)
  /\ ValidateMonitorRelabelConfigs(p, m)
  /\ Loadable(m)
  /\ ValidateScrapeIntervalAndTimeout(p, m)
  /\ \A checked \in SectionChecks(m.sections, p.v) : checked.ok

Check(p, m) ==
  CASE m.kind = "ServiceMonitor" -> CheckServiceMonitor(p, m)
    [] m.kind = "PodMonitor"     -> CheckPodMonitor(p, m)
    [] m.kind = "Probe"          -> CheckProbe(p, m)
    [] m.kind = "ScrapeConfig"   -> CheckScrapeConfig(p, m)

\* What a check that succeeds has put into the store.  (A check that fails may leave
\* some of it there; nothing of a refused resource is read.)
Loads(p, m) ==
  Assets(m.ns, m.name, LoadedBy(m))
  \cup SectionAssets(m, UNION {checked.loads : checked \in SectionChecks(m.sections, p.v)})

SelectObjects(p, R) == {m \in R : Check(p, m)}

-----------------------------------------------------------------------------
(* The endpoints of the Prometheus object: what is refused, what is loaded. *)

Methods == {"basicAuth", "oauth2", "authorization", "sigv4", "azureAD"}

ValidateRemoteWriteSpec(e) ==
  /\ Cardinality((e.uses \cup e.opts) \cap Methods) <= 1
  /\ "azureAD" \in e.uses \cup e.opts =>
       Cardinality(e.opts \cap {"managedIdentity", "oauth", "sdk"}) = 1
  /\ "badClientID" \notin e.opts /\ "badProxy" \notin e.opts

AddRemoteWritesToStore(p) ==
  [ok |-> \A e \in p.remoteWrite : ValidateRemoteWriteSpec(e) /\ e.uses \cap e.broken = {},
   loads |-> UNION {Assets(p.ns, e.name, e.uses) : e \in p.remoteWrite}]

AddRemoteReadsToStore(p) ==
  [ok |-> \A e \in p.remoteRead : e.uses \cap e.broken = {} /\ "badProxy" \notin e.opts,
   loads |-> UNION {Assets(p.ns, e.name, e.uses) : e \in p.remoteRead}]

AddAPIServerConfigToStore(p) ==
  [ok |-> \A e \in p.api : e.uses \cap e.broken = {},
   loads |-> UNION {Assets(p.ns, e.name, e.uses) : e \in p.api}]

ValidateAlertmanagerEndpoints(p, e) ==
  /\ Cardinality((e.uses \cup e.opts)
                 \cap {"bearerTokenFile", "basicAuth", "authorization", "sigv4"}) <= 1
  /\ "badRelabeling" \notin e.opts

AddAlertmanagerEndpointsToStore(p) ==
  [ok |-> \A e \in p.alertmanagers : ValidateAlertmanagerEndpoints(p, e) /\ e.uses \cap e.broken = {},
   loads |-> UNION {Assets(p.ns, e.name, e.uses) : e \in p.alertmanagers}]

\* The credentials of a class are not loaded.
AddScrapeClassesToStore(p) ==
  [ok |-> TRUE,
   loads |-> UNION {Assets(p.ns, c.name, {"tls"}) : c \in {c \in p.classes : c.tls = "secret"}}]

AddAllToStore(p) ==
  {AddRemoteWritesToStore(p), AddAPIServerConfigToStore(p), AddScrapeClassesToStore(p)}
  \cup (IF p.agent THEN {} ELSE {AddRemoteReadsToStore(p), AddAlertmanagerEndpointsToStore(p)})

-----------------------------------------------------------------------------
(* Generation.  An item of the configuration has the settings it emits, the *)
(* assets that are looked up for it, and how its generation ends.          *)

CG(p) == [v |-> p.v, ok |-> TRUE]

Item(emit, read) ==
  [emit |-> emit, sections |-> {}, read |-> read, err |-> FALSE, panic |-> FALSE]

JoinItems(items) ==
  [emit |-> UNION {i.emit : i \in items}, sections |-> UNION {i.sections : i \in items},
   read |-> UNION {i.read : i \in items},
   err |-> \E i \in items : i.err, panic |-> \E i \in items : i.panic]

\* The options that the version knows, each from some version on.
Emitted(cg, opts, since) ==
  UNION {AppendMapItem(WithMinimumVersion(cg, since[o]), o) : o \in opts \cap DOMAIN since}

\* The safe variant appends nothing before 2.26, and this one takes its first element.
AddAuthorizationToYaml(cg, ns, auth) ==
  LET known == WithMinimumVersion(cg, 2260)
  IN [Item(IF auth.set THEN AppendMapItem(known, "authorization") ELSE {},
           UNION {Assets(ns, o, {"authorization"}) : o \in auth.owner})
      EXCEPT !.panic = auth.set /\ ~known.ok]

AddTLStoYaml(cg, ns, tls) ==
  Item(IF tls.set THEN AppendMapItem(cg, "tls") ELSE {},
       UNION {Assets(ns, o, {"tls"}) : o \in tls.owner})

OwnAuthorization(e) ==
  [set |-> "authorization" \in e.uses \/ "authType" \in e.opts,
   owner |-> IF "authorization" \in e.uses THEN {e.name} ELSE {}]

OwnTLS(e) == [set |-> "tls" \in e.uses \/ "tlsFiles" \in e.opts,
              owner |-> IF "tls" \in e.uses THEN {e.name} ELSE {}]

StoredFor(st, ns, owner, part) ==
  {a[4] : a \in {a \in st : a[1] = ns /\ a[2] = owner /\ a[3] = part}}

\* The settings of a client other than its authorization and TLS.
AddClientToYaml(cg, e, ns, st, settings) ==
  LET own == StoredFor(st, ns, e.name, "")
      emitted == AddToYaml(cg, e, own, settings)
                 \cup (e.uses \cap own \cap {"bearerToken"})
                 \cup (e.opts \cap {"bearerTokenFile"})
  IN Item(emitted, Assets(ns, e.name, e.uses \cap (emitted \cup {"bearerToken"})))

\* An endpoint of the Prometheus object, read with the namespace ns.
GenerateEndpoint(cg, e, ns, st, settings) ==
  JoinItems({AddClientToYaml(cg, e, ns, st, settings),
             AddAuthorizationToYaml(cg, ns, OwnAuthorization(e)),
             AddTLStoYaml(cg, ns, OwnTLS(e))})

-----------------------------------------------------------------------------
(* Discovery in Kubernetes.                                                *)

EndpointRoleFlavor(p) == IF p.v >= 2210 /\ p.slices THEN "endpointslice" ELSE "endpoints"

\* No namespace stands for all of them.
GetNamespacesFromNamespaceSelector(p, m) ==
  CASE p.ignoreNs            -> {m.ns}
    [] "any" \in m.namespaces -> {}
    [] m.namespaces = {}     -> {m.ns}
    [] OTHER                 -> m.namespaces

GenerateRoleSelectorConfig(p, m) ==
  IF m.kind = "PodMonitor" THEN <<"pod">> ELSE <<EndpointRoleFlavor(p), "service">>

\* The roles of the selectors of the section, those of the DaemonSet mode first.
SelectorRoles(p, m) ==
  When(p.daemonSet, <<"pod">>) \o When(m.mechanism = "role", GenerateRoleSelectorConfig(p, m))

\* An invalid selector panics here: the check must have refused it.
WithK8SRoleSelectorConfig(m) ==
  [Item({}, {}) EXCEPT !.panic = m.mechanism = "role" /\ "badSelector" \in m.opts]

\* The settings of the API server are those of the Prometheus object; they are looked up
\* in the namespace of the monitor.
GenerateK8SSDConfig(p, ns, st, attachMetadata) ==
  LET items == {GenerateEndpoint(CG(p), e, ns, st, {"basicAuth", "proxy"}) : e \in p.api}
               \cup {Item(attachMetadata, {})}
  IN [JoinItems(items) EXCEPT !.emit = {}, !.sections = {<<"kubernetes", UNION {i.emit : i \in items}>>}]

\* Metadata of nodes can be attached from some version on, which depends on the role.
AttachMetadata(p, m, since) ==
  IF MergeAttachMetadataWithScrapeClass(ClassOf(p, m), m)
  THEN AppendMapItem(WithMinimumVersion(CG(p), since), "attachMetadata") ELSE {}

-----------------------------------------------------------------------------
(* Limits.                                                                 *)

LimitSince ==
  [sample |-> 0, target |-> 2210, label |-> 2270, labelNameLength |-> 2270,
   labelValueLength |-> 2270, keepDropped |-> 2470]

GlobalSince(key) == IF key = "keepDropped" THEN 2470 ELSE 2450

\* 0 stands for no limit.
GetLimit(p, user, enforced) ==
  CASE enforced = 0 -> user
    [] enforced # 0 /\ user = 0 -> IF p.v >= 2450 THEN 0 ELSE enforced
    [] OTHER -> IF enforced > user THEN user ELSE enforced

AddLimitsToYAML(p, m) ==
  IF WithMinimumVersion(CG(p), LimitSince[p.key]).ok THEN GetLimit(p, m.limit, p.enforced) ELSE 0

AppendGlobalLimits(p) ==
  CASE p.limit > 0 -> IF p.enforced > 0 /\ p.limit > p.enforced THEN p.enforced ELSE p.limit
    [] OTHER       -> p.enforced

AppendScrapeLimits(p) ==
  [limit |-> IF p.v >= GlobalSince(p.key) THEN AppendGlobalLimits(p) ELSE 0,
   body |-> CASE p.v < 2450  -> << >>
              [] p.body # << >> -> p.body
              [] OTHER       -> p.enforcedBody]

GetLowerByteSize(body, enforced) ==
  CASE enforced = << >> -> body
    [] body = << >>     -> enforced
    [] OTHER            -> IF body[1] > enforced[1] THEN enforced ELSE body

\* Probes and ScrapeConfigs have no limit of their own.
BodySizeLimit(p, m) ==
  CASE p.v < 2280 -> << >>
    [] m.kind \in {"ServiceMonitor", "PodMonitor"} -> GetLowerByteSize(m.body, p.enforcedBody)
    [] OTHER -> p.enforcedBody

\* Prometheus: a job without a limit has the global one.
Inherited(own, global) == IF own # 0 THEN own ELSE global
AtMostOne(optional) == IF optional = << >> THEN 0 ELSE optional[1]

EffectiveLimit(p, m) == Inherited(AddLimitsToYAML(p, m), AppendScrapeLimits(p).limit)
EffectiveBodySize(p, m) ==
  Inherited(AtMostOne(BodySizeLimit(p, m)), AtMostOne(AppendScrapeLimits(p).body))

-----------------------------------------------------------------------------
(* Jobs.                                                                   *)

JobOptions ==
  [followRedirects |-> 2260, enableHTTP2 |-> 2350,
   trackTimestampsStaleness |-> 2480, scrapeProtocols |-> 2490, fallbackProtocol |-> 3000,
   bucketLimit |-> 2450, minBucketFactor |-> 2500, classicHistograms |-> 2450, nhcb |-> 3000]

\* honor_labels and honor_timestamps; what is not emitted has Prometheus' default.
AddHonorLabels(p, honor) == honor /\ ~p.overrideLabels

AddHonorTimestamps(p, honor) ==
  CASE honor = "unset" /\ ~p.overrideTimestamps -> TRUE
    [] p.v < 2090 -> TRUE
    [] OTHER -> honor = "true" /\ ~p.overrideTimestamps

HonorTimestamps(p, m) ==
  CASE m.kind = "Probe" -> AddHonorTimestamps(p, "true")
    [] m.kind = "ScrapeConfig" /\ m.honorTimestamps = "unset" -> TRUE
    [] OTHER -> AddHonorTimestamps(p, m.honorTimestamps)

\* Mutant: the proxy is forgotten.
MutJobClient(p, m, st, options) ==
  JoinItems({AddClientToYaml(CG(p), m, m.ns, st, {"basicAuth", "oauth2"}),
             AddAuthorizationToYaml(CG(p), m.ns, MergeAuthorizationWithScrapeClass(ClassOf(p, m), m)),
             AddTLStoYaml(CG(p), m.ns, MergeTLSConfigWithScrapeClass(ClassOf(p, m), m)),
             Item(Emitted(CG(p), m.opts \cap options, JobOptions), {})})

\* What the four kinds of jobs have in common.
JobClient(p, m, st, options) ==
  LET c == ClassOf(p, m)
      merged == m.opts \cup (IF MergeFallbackScrapeProtocolWithScrapeClass(c, m)
                             THEN {"fallbackProtocol"} ELSE {})
  IN JoinItems({AddClientToYaml(CG(p), m, m.ns, st, {"basicAuth", "oauth2", "proxy"}),
                AddAuthorizationToYaml(CG(p), m.ns, MergeAuthorizationWithScrapeClass(c, m)),
                AddTLStoYaml(CG(p), m.ns, MergeTLSConfigWithScrapeClass(c, m)),
                Item(Emitted(CG(p), merged \cap options, JobOptions), {})})

MonitorOptions == DOMAIN JobOptions

GeneratePodMonitorConfig(p, m, st) ==
  JoinItems({JobClient(p, m, st, MonitorOptions),
             GenerateK8SSDConfig(p, m.ns, st, AttachMetadata(p, m, 2350)),
             WithK8SRoleSelectorConfig(m)})

GenerateServiceMonitorConfig(p, m, st) ==
  JoinItems({JobClient(p, m, st, MonitorOptions),
             GenerateK8SSDConfig(p, m.ns, st, AttachMetadata(p, m, 2370)),
             WithK8SRoleSelectorConfig(m)})

GenerateProbeConfig(p, m, st) ==
  LET job == JobClient(p, m, st,
               MonitorOptions \ {"followRedirects", "enableHTTP2", "trackTimestampsStaleness"})
  IN IF "static" \in m.targets THEN job
     ELSE JoinItems({job, GenerateK8SSDConfig(p, m.ns, st, {})})

GenerateScrapeConfig(p, m, st) ==
  LET section(s) == LET y == SDConfig(CG(p), s, StoredFor(st, m.ns, m.name, s.disc))
                    IN [emit |-> {}, sections |-> {<<s.disc, y.emit>>},
                        read |-> SectionAssets(m, {<<s.disc, o>> : o \in y.read}),
                        err |-> y.err, panic |-> FALSE]
  IN JoinItems({JobClient(p, m, st, MonitorOptions \ {"followRedirects"})}
               \cup {section(s) : s \in m.sections})

Generate(p, m, st) ==
  CASE m.kind = "ServiceMonitor" -> GenerateServiceMonitorConfig(p, m, st)
    [] m.kind = "PodMonitor"     -> GeneratePodMonitorConfig(p, m, st)
    [] m.kind = "Probe"          -> GenerateProbeConfig(p, m, st)
    [] m.kind = "ScrapeConfig"   -> GenerateScrapeConfig(p, m, st)

-----------------------------------------------------------------------------
(* The sections of the Prometheus object.                                  *)

RemoteWriteOptions ==
  [headers |-> 2150, name |-> 2150, messageVersion |-> 2540, sendExemplars |-> 2270,
   sendNativeHistograms |-> 2400, followRedirects |-> 2260, enableHTTP2 |-> 2350,
   minShards |-> 2060, retryOnRateLimit |-> 2260, sampleAgeLimit |-> 2500,
   metadata |-> 2230, roundRobinDNS |-> 3010]

\* An identity that the version does not know leaves the section of Azure without any.
AzureAD(cg, e) ==
  IF "azureAD" \notin e.uses \cup e.opts THEN {}
  ELSE AppendMapItem(WithMinimumVersion(cg, 2450), "azureAD")
       \cup Emitted(WithMinimumVersion(cg, 2450), e.opts,
                    [managedIdentity |-> 0, oauth |-> 2480, sdk |-> 2520])

GenerateRemoteWriteConfig(p, e, st) ==
  LET cg == CG(p)
  IN JoinItems({GenerateEndpoint(cg, e, p.ns, st, {"basicAuth", "oauth2", "proxy"}),
                Item(AddSigv4ToYaml(WithMinimumVersion(cg, 2260), e),
                     Assets(p.ns, e.name, e.uses \cap {"sigv4"})),
                Item(AzureAD(cg, e), Assets(p.ns, e.name, e.uses \cap {"azureAD"})),
                Item(Emitted(cg, e.opts, RemoteWriteOptions), {}),
                Item(IF "maxRetries" \in e.opts
                     THEN AppendMapItem(WithMaximumVersion(cg, 2110), "maxRetries") ELSE {}, {})})

GenerateRemoteReadConfig(p, e, st) ==
  JoinItems({GenerateEndpoint(CG(p), e, p.ns, st, {"basicAuth", "oauth2", "proxy"}),
             Item(Emitted(CG(p), e.opts, [headers |-> 2260, name |-> 2150, followRedirects |-> 2260,
                                          filterExternalLabels |-> 2340]), {})})

\* The safe variant adds the authorization, so nothing panics for the endpoint itself.
GenerateAlertmanagerConfig(p, e, st) ==
  LET cg == CG(p)
      emitted == AddToYaml(cg, e, StoredFor(st, p.ns, e.name, ""), {"authorization", "proxy"})
                 \cup AddBasicAuthToYaml(WithMinimumVersion(cg, 2260), e)
                 \cup AddSigv4ToYaml(WithMinimumVersion(cg, 2480), e)
                 \cup (e.opts \cap {"bearerTokenFile"})
  IN JoinItems({Item(emitted, Assets(p.ns, e.name, e.uses \cap emitted)),
                AddTLStoYaml(cg, p.ns, OwnTLS(e)),
                GenerateK8SSDConfig(p, p.ns, st, {}),
                Item(Emitted(cg, e.opts, [enableHTTP2 |-> 2350, alertRelabelings |-> 2510,
                                          apiVersion2 |-> 2110]), {})})

\* The API server is looked at only for an endpoint, not for additional configurations.
AppendAlertingConfig(p, st) ==
  LET items == {GenerateAlertmanagerConfig(p, e, st) : e \in p.alertmanagers}
  IN [JoinItems(items) EXCEPT !.err = "badAlertConfigs" \in p.opts]

AppendOTLPConfig(p) ==
  LET err == \/ p.v < 2550
             \/ {"noUTF8Escaping", "legacyNames"} \subseteq p.opts
             \/ "noTranslation" \in p.opts /\ p.v < 3040
  IN [Item({}, {}) EXCEPT !.err = "otlp" \in p.opts /\ err]

\* The Secrets of the section are in no store: neither operator loads them.
AppendTracingConfig(p) == JoinItems({AddTLStoYaml(CG(p), p.ns, OwnTLS(e)) : e \in p.tracing})

\* An additional configuration is taken apart only to add the sharding rules.
GenerateAdditionalScrapeConfigs(p) ==
  [Item({}, {}) EXCEPT
     !.err = \/ "badScrapeConfigs" \in p.opts
             \/ /\ "badRelabelConfigs" \in p.opts
                /\ ~p.daemonSet /\ p.shards # 1]

BuildExternalLabels(p, pod) ==
  LET reserved == (IF p.prometheusLabel # "" THEN {p.prometheusLabel} ELSE {})
                  \cup (IF p.replicaLabel # "" THEN {p.replicaLabel} ELSE {})
      names == reserved \cup DOMAIN p.externalLabels
  IN [n \in names |-> CASE n = p.replicaLabel /\ n # ""    -> pod
                        [] n = p.prometheusLabel /\ n # "" -> p.name
                        [] OTHER                           -> p.externalLabels[n]]

\* The labels of an alert when it is sent: the one of the replica is dropped.
AlertLabels(p, pod) ==
  LET labels == BuildExternalLabels(p, pod)
  IN [n \in DOMAIN labels \ (IF p.replicaLabel # "" THEN {p.replicaLabel} ELSE {}) |-> labels[n]]

-----------------------------------------------------------------------------
(* The whole configuration.                                                *)

\* The jobs of one kind come in the order of the keys of their resources.
SortedKeys(R) == SetToSortSeq(R, Before)

Jobs(p, R) ==
  LET kinds == CASE ~p.agent                -> <<"ServiceMonitor", "PodMonitor", "Probe", "ScrapeConfig">>
                 [] p.agent /\ ~p.daemonSet -> <<"PodMonitor", "ServiceMonitor", "Probe", "ScrapeConfig">>
                 [] p.agent /\ p.daemonSet  -> <<"PodMonitor">>
  IN FlattenSeq([i \in DOMAIN kinds |-> SortedKeys({m \in R : m.kind = kinds[i]})])

\* The headers of tracing come in the order in which Go iterates over a map.
HeaderOrders(p) == SetToSeqs(p.headers)

\* The steps of the generation after the jobs, in their order.
AppendServerSections(p, st) ==
  <<GenerateAdditionalScrapeConfigs(p), AppendAlertingConfig(p, st),
    JoinItems({GenerateRemoteWriteConfig(p, e, st) : e \in p.remoteWrite}),
    JoinItems({GenerateRemoteReadConfig(p, e, st) : e \in p.remoteRead}),
    AppendOTLPConfig(p), AppendTracingConfig(p)>>

AppendAgentSections(p, st) ==
  <<JoinItems({GenerateRemoteWriteConfig(p, e, st) : e \in p.remoteWrite}),
    AppendOTLPConfig(p), AppendTracingConfig(p)>>

\* Items of the configuration, in the order in which they are generated.
GenerateServerConfiguration(p, jobs, st) ==
  [i \in DOMAIN jobs |-> Generate(p, jobs[i], st)] \o AppendServerSections(p, st)

\* An agent has its additional configurations between the jobs.
GenerateAgentConfiguration(p, jobs, st) ==
  LET Item1(i) == Generate(p, jobs[i], st)
      n == Cardinality({i \in DOMAIN jobs : jobs[i].kind = "PodMonitor"})
  IN [i \in 1..n |-> Item1(i)] \o <<GenerateAdditionalScrapeConfigs(p)>>
     \o [i \in 1..(Len(jobs) - n) |-> Item1(n + i)] \o AppendAgentSections(p, st)

Items(p, jobs, st) ==
  IF p.agent THEN GenerateAgentConfiguration(p, jobs, st)
  ELSE GenerateServerConfiguration(p, jobs, st)

\* The first item that does not end well decides.
Outcome(p, items) ==
  LET bad == SelectInSeq(items, LAMBDA i : i.err \/ i.panic)
  IN CASE p.timeout # 0 /\ ~CompareScrapeTimeoutToScrapeInterval(p.timeout, p.interval) -> "failed"
       [] bad = 0 -> "written"
       [] OTHER   -> IF items[bad].panic THEN "panicked" ELSE "failed"

-----------------------------------------------------------------------------
(* A reconciliation.                                                       *)

Init ==
  /\ \E g \in Groups : \E input \in InputsOf(g) : prom = input[1] /\ resources = input[2]
  /\ phase = "select" /\ accepted = {} /\ store = {} /\ config = << >>

\* The generator is made before the resources are looked at.
SelectResources ==
  /\ phase = "select"
  /\ IF NewConfigGenerator(prom)
     THEN /\ accepted' = SelectObjects(prom, resources)
          /\ store' = UNION {Loads(prom, m) : m \in accepted'}
          /\ phase' = "load"
     ELSE /\ phase' = "failed"
          /\ UNCHANGED <<accepted, store>>
  /\ UNCHANGED <<prom, resources, config>>

AddAssets ==
  /\ phase = "load"
  /\ IF \A added \in AddAllToStore(prom) : added.ok
     THEN /\ store' = store \cup UNION {added.loads : added \in AddAllToStore(prom)}
          /\ phase' = "generate"
     ELSE phase' = "failed" /\ UNCHANGED store
  /\ UNCHANGED <<prom, resources, accepted, config>>

GenerateConfiguration ==
  /\ phase = "generate"
  /\ \E headers \in HeaderOrders(prom) :
       LET jobs == Jobs(prom, accepted)
           items == Items(prom, jobs, store)
       IN /\ phase' = Outcome(prom, items)
          /\ config' = IF phase' = "written"
                       THEN <<[jobs |-> [i \in DOMAIN jobs |-> jobs[i].name],
                               items |-> items, headers |-> headers]>>
                       ELSE config
  /\ UNCHANGED <<prom, resources, accepted, store>>

\* The next reconciliation starts with an empty store.
Resync ==
  /\ phase \in {"written", "failed", "panicked"}
  /\ phase' = "select" /\ accepted' = {} /\ store' = {}
  /\ UNCHANGED <<prom, resources, config>>

Next == SelectResources \/ AddAssets \/ GenerateConfiguration \/ Resync

Spec == Init /\ [][Next]_vars

-----------------------------------------------------------------------------
(* What Prometheus makes of the configuration (external).                  *)

Credentials == {"basicAuth", "authorization", "oauth2", "bearerToken", "bearerTokenFile"}

\* A job has at most one kind of credentials and no role twice among its selectors.
JobLoads(p, m, item) ==
  /\ Cardinality(item.emit \cap Credentials) <= 1
  /\ \A s \in item.sections : Cardinality(s[2] \cap Credentials) <= 1
  /\ m.kind \in {"ServiceMonitor", "PodMonitor"} => IsInjective(SelectorRoles(p, m))
  /\ m.timeout # 0 => m.timeout <= (IF m.interval = 0 THEN p.interval ELSE m.interval)

\* The target that Prometheus discovers for an object with the given labels.
Target(labels, base) ==
  LET Set(name) == {k \in Keys : SanitizedKey[k] = name /\ labels[k] # "absent"}
  IN [l \in {Label(n) : n \in LabelNames} \cup {Meta(k) : k \in Keys} \cup {Present(k) : k \in Keys} |->
        CASE l[1] = "label"                       -> base[l[2]]
          [] l[1] = "meta" /\ Set(l[2]) # {}      -> labels[CHOOSE k \in Set(l[2]) : TRUE]
          [] l[1] = "present" /\ Set(l[2]) # {}   -> "true"
          [] OTHER                                -> ""]

Unlabelled == [k \in Keys |-> "absent"]

-----------------------------------------------------------------------------
(* Properties.                                                             *)

\* The resources that have jobs: an agent in DaemonSet mode has those of PodMonitors only.
WithJobs == {m \in accepted : prom.agent /\ prom.daemonSet => m.kind = "PodMonitor"}

Loaded == phase = "generate"

\* Known gaps between the checks and the generator: what the check of a resource accepts
\* although its job cannot be generated or loaded.
OldAuthorization(p, m) == p.v < 2260 /\ MergeAuthorizationWithScrapeClass(ClassOf(p, m), m).set

SeveralCredentials(p, m) ==
  \/ \E s \in m.sections : Cardinality(s.uses \cap Credentials) > 1
  \/ LET auth == MergeAuthorizationWithScrapeClass(ClassOf(p, m), m).set
     IN Cardinality(((m.uses \cup m.opts) \cap Credentials)
                    \cup (IF auth THEN {"authorization"} ELSE {})) > 1

UnloadedAzureSecret(m) ==
  \E s \in m.sections : /\ s.disc = "azure" /\ "clientSecret" \in s.uses
                        /\ s.opts \cap {"sdk", "managedIdentity"} # {}

RoleSelectedTwice(p, m) == p.daemonSet /\ m.mechanism = "role"

\* What the administrator of the Prometheus object can get wrong for every job.
APIServerSound(p) ==
  \A e \in p.api : /\ OwnAuthorization(e).set => p.v >= 2260 /\ e.uses \cap Credentials \subseteq {"authorization"}
                   /\ Cardinality(e.uses \cap Credentials) <= 1

Gap(p, m) == \/ OldAuthorization(p, m) \/ SeveralCredentials(p, m)
             \/ UnloadedAzureSecret(m) \/ RoleSelectedTwice(p, m)

\* Property.  The job of every resource whose check succeeded is generated without an
\* error or a panic and can be loaded by Prometheus: its intervals fit, it has one kind of
\* credentials, its selectors have different roles.  The four gaps are the only exceptions.
AcceptedLoads ==
  Loaded /\ APIServerSound(prom) =>
    \A m \in WithJobs :
      LET item == Generate(prom, m, store)
      IN Gap(prom, m) \/ (~item.err /\ ~item.panic /\ JobLoads(prom, m, item))

\* Property.  Every asset that a generated job refers to was loaded before, under the
\* namespace and the name that the generator uses.  Not so for: the credentials of a
\* scrape class; its TLS assets and those of the API server for a monitor of another
\* namespace; the TLS assets of an OpenStack section; a client Secret that Azure does not
\* use; a token reference without key; the TLS assets of tracing.
AssetsProvided ==
  Loaded =>
    LET ofClass(a) == \E c \in prom.classes : c.name = a[2]
        excused(a) == \/ ofClass(a) /\ (a[4] = "authorization" \/ a[1] # prom.ns)
                      \/ (\E e \in prom.api : e.name = a[2]) /\ a[1] # prom.ns
                      \/ <<a[3], a[4]>> \in {<<"openstack", "tls">>, <<"azure", "clientSecret">>}
                      \/ \E m \in accepted : /\ a[1] = m.ns /\ a[2] = m.name /\ a[4] = "bearerToken"
                                             /\ "tokenWithoutKey" \in m.opts
        sections == IF prom.agent THEN AppendAgentSections(prom, store)
                    ELSE AppendServerSections(prom, store)
    IN /\ \A m \in WithJobs : \A a \in Generate(prom, m, store).read \ store : excused(a)
       /\ \A i \in DOMAIN sections : \A a \in sections[i].read \ store :
            \E e \in prom.tracing : a[2] = e.name

\* Settings that are accepted and never written, whatever the version is.
LostSettings ==
  {<<"consul", "oauth2">>, <<"ionos", "oauth2">>} \cup {<<"azure", u>> : u \in HTTPClient \cup HTTPOptions}

\* Property.  With a version that knows all settings, every setting of an accepted resource
\* is in its job, and every setting of its sections in theirs, except for the lost ones,
\* one access key without the other, and a token reference without key.
SettingsHonoured ==
  Loaded /\ prom.v >= 3050 =>
    \A m \in WithJobs :
      LET item == Generate(prom, m, store)
      IN /\ m.uses \ item.emit \subseteq (IF "tokenWithoutKey" \in m.opts THEN {"bearerToken"} ELSE {})
         /\ m.opts \cap DOMAIN JobOptions \subseteq item.emit
         /\ \A s \in m.sections : \E y \in item.sections :
              /\ y[1] = s.disc
              /\ \A u \in (s.uses \cup (s.opts \cap SDTypes[s.disc].options)) \ y[2] :
                   \/ <<s.disc, u>> \in LostSettings
                   \/ u \in {"accessKey", "secretKey"} /\ AccessKeys(s) = {}

\* Property.  No job exceeds an enforced limit, and none is without limit when one is
\* enforced, whatever the job and the global section say and whichever of the two the
\* version reads.  A body size of "0" is taken for a lower one and is excepted.
EnforcedLimits ==
  Loaded =>
    \A m \in WithJobs :
      /\ prom.enforced > 0 /\ prom.v >= LimitSince[prom.key] =>
           EffectiveLimit(prom, m) \in 1..prom.enforced
      /\ prom.enforcedBody # << >> /\ prom.v >= 2280 /\ m.body # <<0>> =>
           EffectiveBodySize(prom, m) \in 1..prom.enforcedBody[1]

\* Property.  The administrator's settings contain a monitor in its namespace: with
\* ignoreNamespaceSelectors it discovers there only; with an enforced namespace label all
\* its targets and samples carry its namespace, whatever its own rules and those of its
\* class do; its labels and timestamps give way to the overrides.  The targets (not the
\* samples) of a ScrapeConfig without relabelings are excepted.
NamespaceContained ==
  Loaded =>
    \A m \in WithJobs :
      LET c == ClassOf(prom, m)
          Carries(t) == Kept(t) => t[Label(prom.enforcedLabel)] = m.ns
      IN /\ prom.ignoreNs => GetNamespacesFromNamespaceSelector(prom, m) = {m.ns}
         /\ ~IsExcluded(prom, m) =>
              \A base \in Bases :
                /\ Carries(Relabeled(Target(Unlabelled, base), MetricRelabelings(prom, c, m)))
                /\ \/ m.kind = "ScrapeConfig" /\ m.relabelings = << >>
                   \/ Carries(Relabeled(Target(Unlabelled, base), Relabelings(prom, c, m, 0)))
         /\ prom.overrideLabels => ~AddHonorLabels(prom, m.honorLabels)
         /\ prom.overrideTimestamps /\ prom.v >= 2090 /\ m.kind # "ScrapeConfig" =>
              ~HonorTimestamps(prom, m)

\* Property.  Every target that the rules of a job keep is scraped by exactly one shard, or
\* by all of them when sharding is disabled for it; a target that they drop by none.
\* Excepted: rules of a ScrapeConfig that hash themselves, and the DaemonSet mode.
OneShard ==
  Loaded /\ ~prom.daemonSet /\ prom.shards > 1 =>
    \A m \in {m \in WithJobs : ~HasHashMod(m.relabelings)}, base \in Bases :
      LET c == ClassOf(prom, m)
          rules(shard) == Relabelings(prom, c, m, shard)
          target == Target(Unlabelled, base)
          on == {shard \in 0..(prom.shards - 1) : Kept(Relabeled(target, rules(shard)))}
          end == Relabeled(target, SubSeq(rules(0), 1, Len(rules(0)) - 3))
      IN CASE ~Kept(end) -> on = {}
           [] Kept(end) /\ end[Label("__tmp_disable_sharding")] # "" -> on = 0..(prom.shards - 1)
           [] OTHER -> Cardinality(on) = 1

\* No other label of the object is sanitized to a key of the selector, and no value of the
\* selector, read as a regular expression, matches another value of the object.
Unambiguous(sel, labels) ==
  LET pairs == {<<sel.labels[i][1], {sel.labels[i][2]}>> : i \in DOMAIN sel.labels}
               \cup {<<sel.exprs[i].key, sel.exprs[i].values>> : i \in DOMAIN sel.exprs}
  IN \A pair \in pairs :
       /\ \A k \in Keys \ {pair[1]} :
            SanitizedKey[k] = SanitizedKey[pair[1]] => labels[k] = "absent"
       /\ \A v \in pair[2] : labels[pair[1]] \in Matching[v] => labels[pair[1]] = v

\* Property.  The rules that stand for the selector of a monitor keep exactly the targets
\* of the objects that the selector matches, as a role selector would, for objects whose
\* labels are not ambiguous.
SelectorsAgree ==
  Loaded =>
    \A m \in WithJobs, labels \in Objects :
      m.kind # "ScrapeConfig" /\ Unambiguous(m.selector, labels) =>
        (Kept(Relabeled(Target(labels, [n \in LabelNames |-> ""]), SelectorRelabelings(m.selector)))
           <=> MatchesSelector(m.selector, labels))

\* Property.  Alerts of two replicas have the same labels, whatever the external labels are
\* named, so that Alertmanager can tell they are the same.
AlertsDeduplicate == AlertLabels(prom, "pod-0") = AlertLabels(prom, "pod-1")

\* Property.  What the administrator enforces holds for every job, whatever the monitors,
\* the scrape classes and the global section say (getLimit, AddLimitsToYAML,
\* enforceNamespaceLabel, ignoreNamespaceSelectors, AddHonorLabels).
EnforcementHolds == EnforcedLimits /\ NamespaceContained

\* Property.  Shards and replicas do not repeat each other's work: a target is scraped by
\* one shard, and the alerts of two replicas are the same alert
\* (appendShardingRelabeling, buildExternalLabels, the alert relabelings).
ScrapedAndAlertedOnce == OneShard /\ AlertsDeduplicate
=============================================================================
