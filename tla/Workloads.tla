----------------------------- MODULE Workloads -----------------------------
(***************************************************************************)
(* The StatefulSets, DaemonSets and governing Services that the operator   *)
(* builds for Prometheus, PrometheusAgent, Alertmanager and ThanosRuler.   *)
(*                                                                         *)
(* One record stands for the four kinds of custom resources.  Its field    *)
(* opts is the set of the simple settings that are set; op is the          *)
(* configuration of the operator (its labels, the probes of the reloader). *)
(* What a setting is set to is left out unless a path, a name or a scheme  *)
(* depends on it.                                                          *)
(***************************************************************************)
EXTENDS PodParts

CONSTANTS
  Kinds,          \* the kinds of workloads: Prometheus, Agent, DaemonSet, Alertmanager, ThanosRuler
  Default(_),     \* the resource of a kind without settings
  Groups,         \* names of groups of resources
  InputsOf(_)     \* the resources of a group

VARIABLES spec, built

vars == <<spec, built>>

Etc(s, dir) == <<"etc", IF s.kind = "Alertmanager" THEN "alertmanager"
                        ELSE IF s.kind = "ThanosRuler" THEN "thanos" ELSE "prometheus", dir>>

Cond(b, seq) == IF b THEN seq ELSE << >>

\* The operator's labels win over the given ones.
MergeLabels(labels, other) == labels @@ other

-----------------------------------------------------------------------------
(* Storage.  The setting is [kind, name]: name is the one of the volume    *)
(* claim template, which may be set whatever the kind of the storage is.   *)

PrefixedName(s) == <<s.kind, s.name>>

VolumeName(s) == PrefixedName(s) \o <<"db">>

VolumeClaimName(s) == IF s.storage.name # "" THEN <<s.storage.name>> ELSE VolumeName(s)

StorageVolumes(s) ==
  Cond(s.storage.kind \in {"none", "emptyDir", "ephemeral"},
       <<Volume(VolumeName(s), s.storage.kind, "pod")>>)

StorageClaims(s) ==
  IF s.storage.kind = "claim"
  THEN {IF s.storage.name = "" THEN VolumeName(s) ELSE <<s.storage.name>>} ELSE {}

\* The volumes and mounts of the Secrets or ConfigMaps that are listed in the resource.
Listed(kind, names, dir) ==
  [volumes |-> [i \in DOMAIN names |-> Volume(DNS1123Label(kind, names[i]), kind, names[i])],
   mounts |-> [i \in DOMAIN names |-> Mount(DNS1123Label(kind, names[i]), Append(dir, names[i]))]]

ListedParts(s) == Join(Listed("secret", s.secrets, Etc(s, "secrets")),
                       Listed("configmap", s.configMaps, Etc(s, "configmaps")))

\* The rule ConfigMaps.
RuleParts(s) ==
  [volumes |-> [i \in DOMAIN s.rules |-> Volume(<<s.rules[i]>>, "configmap", s.rules[i])],
   mounts |-> [i \in DOMAIN s.rules |-> Mount(<<s.rules[i]>>, Append(Etc(s, "rules"), s.rules[i]))]]

-----------------------------------------------------------------------------
(* Prometheus and PrometheusAgent: arguments.                              *)

ConfigOut(s) == Append(Etc(s, "config_out"), "prometheus.env.yaml")
StorageDir == <<"prometheus">>
LogDir == <<"var", "log", "prometheus">>

CommonFlags ==
  <<<<"pageTitle", "web.page-title", 2060, Forever>>,
    <<"maxConnections", "web.max-connections", 0, Forever>>,
    <<"remoteWriteReceiver", "web.enable-remote-write-receiver", 2330, Forever>>,
    <<"messageVersions", "web.remote-write-receiver.accepted-protobuf-messages", 2540, Forever>>,
    <<"remoteWrite2", "enable-feature", 2540, Forever>>,
    <<"otlp", "web.enable-otlp-receiver", 3000, Forever>>,
    <<"otlp", "enable-feature", 2470, 3000>>,
    <<"enableFeatures", "enable-feature", 2250, Forever>>,
    <<"externalURL", "web.external-url", 0, Forever>>>>

LogFlags == <<<<"logLevel", "log.level", 0, Forever>>, <<"logFormat", "log.format", 2060, Forever>>>>

\* The settings that count: some are part of others.
CommonOptions(p) ==
  p.opts \ ((IF p.web THEN {} ELSE {"pageTitle", "maxConnections"})
            \cup (IF "remoteWriteReceiver" \in p.opts THEN {} ELSE {"messageVersions"}))

BuildCommonPrometheusArgs(p) ==
  <<Argument("config.file", ConfigOut(p))>>
  \o Cond(p.v < 3000, <<Argument("web.console.templates", <<"image">>),
                        Argument("web.console.libraries", <<"image">>)>>)
  \o Cond(~p.signal, <<Argument("web.enable-lifecycle", << >>)>>)
  \o FlagsOf(CommonFlags, CommonOptions(p), p.v)
  \o <<Argument("web.route-prefix", << >>)>>
  \o FlagsOf(LogFlags, p.opts, p.v)
  \o Cond(p.listenLocal, <<Argument("web.listen-address", <<"local">>)>>)

RetentionArgs(p) ==
  IF p.v < 2070 THEN <<Argument("storage.tsdb.retention", << >>)>>
  ELSE Cond("retention" \in p.opts \/ "retentionSize" \notin p.opts,
            <<Argument("storage.tsdb.retention.time", << >>)>>)

ServerFlags ==
  <<<<"retentionSize", "storage.tsdb.retention.size", 2070, Forever>>,
    <<"adminAPI", "web.enable-admin-api", 0, Forever>>,
    <<"forOutageTolerance", "rules.alert.for-outage-tolerance", 2040, Forever>>,
    <<"forGracePeriod", "rules.alert.for-grace-period", 2040, Forever>>,
    <<"resendDelay", "rules.alert.resend-delay", 2040, Forever>>,
    <<"lookbackDelta", "query.lookback-delta", 0, Forever>>,
    <<"maxSamples", "query.max-samples", 2050, Forever>>,
    <<"maxConcurrency", "query.max-concurrency", 0, Forever>>,
    <<"queryTimeout", "query.timeout", 0, Forever>>,
    <<"overlappingBlocks", "storage.tsdb.allow-overlapping-blocks", 2110, 2390>>,
    <<"walCompression", "storage.tsdb.wal-compression", 2110, Forever>>,
    <<"noWALCompression", "no-storage.tsdb.wal-compression", 2110, Forever>>>>

BuildServerArgs(p) ==
  BuildCommonPrometheusArgs(p) \o RetentionArgs(p)
  \o <<Argument("storage.tsdb.path", StorageDir)>>
  \o FlagsOf(ServerFlags, p.opts, p.v)

AgentFlags ==
  <<<<"walCompression", "storage.agent.wal-compression", 0, Forever>>,
    <<"noWALCompression", "no-storage.agent.wal-compression", 0, Forever>>>>

BuildAgentArgs(p) ==
  BuildCommonPrometheusArgs(p)
  \o (IF p.v < 3000 THEN <<Argument("enable-feature", <<"agent">>)>> ELSE <<Argument("agent", << >>)>>)
  \o <<Argument("storage.agent.path", StorageDir)>>
  \o FlagsOf(AgentFlags, p.opts, p.v)

CompactionDisabledForSecret(p) ==
  "disableCompaction" \in p.opts \/ \E t \in p.thanos : t.objstore = "secret"

\* Compaction has to be off when the sidecar uploads the blocks.
CompactionDisabled(p) ==
  "disableCompaction" \in p.opts \/ \E t \in p.thanos : t.objstore # "none"

CompactionArgs(p) ==
  Cond(CompactionDisabled(p),
       <<Argument("storage.tsdb.max-block-duration", <<"block">>),
         Argument("storage.tsdb.min-block-duration", <<"block">>)>>
       \o Cond("outOfOrderWindow" \in p.opts /\ p.v >= 2550,
               <<Argument("storage.tsdb.allow-overlapping-compaction", << >>)>>))

-----------------------------------------------------------------------------
(* Prometheus and PrometheusAgent: volumes, probes, labels.                *)

\* A log file is not set, a name without directory, or a path.
UsesDefaultFileVolume(file) == file = "name"

LogFilePath(file) == IF UsesDefaultFileVolume(file) THEN LogDir ELSE <<"user">>

LogParts == [volumes |-> <<Volume(<<"log-file">>, "emptyDir", "pod")>>,
             mounts |-> <<Mount(<<"log-file">>, LogDir)>>]

BuildCommonVolumes(p, statefulSet) ==
  LET own == [volumes |-> <<Volume(<<"config">>, "secret", "config"),
                            Volume(<<"tls-assets">>, "projected", "tls-assets"),
                            Volume(<<"config-out">>, "emptyDir", "pod")>>,
              mounts |-> <<Mount(<<"config-out">>, Etc(p, "config_out")),
                           Mount(<<"tls-assets">>, Etc(p, "certs"))>>
                         \o Cond(statefulSet, <<Mount(VolumeClaimName(p), StorageDir)>>)
                         \o p.mounts]
  IN Join(Join(own, ListedParts(p)),
          IF UsesDefaultFileVolume(p.scrapeLog) THEN LogParts ELSE NoMounts)

AppendServerVolumesTwice(p) ==
  Join(RuleParts(p), IF UsesDefaultFileVolume(p.queryLog) THEN LogParts ELSE NoMounts)

\* The query log has a volume only without a scrape failure log, wherever that one is.
AppendServerVolumes(p) ==
  Join(RuleParts(p),
       IF UsesDefaultFileVolume(p.queryLog) /\ p.scrapeLog = "none" THEN LogParts ELSE NoMounts)

PrometheusURIScheme(p) == IF p.web /\ p.tls # {} THEN "https" ELSE "http"

BuildProbeHandler(p) ==
  IF p.listenLocal THEN [scheme |-> "http", via |-> "exec", port |-> 9090]
  ELSE [scheme |-> IF p.web /\ p.tls # {} THEN "https" ELSE "http", via |-> "get", port |-> 9090]

\* The period and the failure threshold of the startup probe for a maximal duration in
\* seconds, 0 when it is not set.
StartupProbe(seconds) ==
  IF seconds < 60 THEN <<15, 60>>
  ELSE LET threshold == (seconds + 59) \div 60
       IN <<(seconds + threshold - 1) \div threshold, threshold>>

BuildProbes(p) == {BuildProbeHandler(p)}

MakeContainerPorts(p) == IF p.listenLocal THEN {} ELSE {[name |-> "web", port |-> 9090]}

CreateConfigReloaderVolumeMounts(p) ==
  <<Mount(<<"config">>, Etc(p, "config")), Mount(<<"config-out">>, Etc(p, "config_out"))>>

BuildWebconfig(p) == WebMountParameters(Etc(p, "web_config"), "web-config", IF p.web THEN p.tls ELSE {})

BuildPodMetadata(p) == p.podLabels @@ ("app.kubernetes.io/version" :> "version")

SelectorLabels(p) ==
  ("app.kubernetes.io/managed-by" :> "prometheus-operator") @@
  ("app.kubernetes.io/name" :> p.kind) @@ ("app.kubernetes.io/instance" :> p.name)

ShardLabel == "operator.prometheus.io/shard"

PodLabelsAllSelected(p, selector) ==
  [selector |-> MergeLabels(p.op.labels, selector @@ BuildPodMetadata(p)),
   labels |-> MergeLabels(p.op.labels, selector @@ BuildPodMetadata(p))]

\* The selector and the labels of the pods.
PodLabels(p, selector) ==
  [selector |-> MergeLabels(p.op.labels, selector),
   labels |-> MergeLabels(p.op.labels, selector @@ BuildPodMetadata(p))]

\* A constraint is [additional, selector].  Adding labels to a selector without matchLabels
\* writes to a nil map.
TopologySpreadPanics(p) ==
  \E c \in p.constraints : c.additional # "none" /\ c.selector = "expressions"

MakeK8sTopologySpreadConstraint(p, selector) ==
  {[own |-> c.selector = "labels",
    labels |-> CASE c.additional = "none"       -> {}
                 [] c.additional = "OnResource" -> DOMAIN selector \ {ShardLabel}
                 [] OTHER                       -> DOMAIN selector] : c \in p.constraints}

ReloaderOf(p, init, mounts, watched, web) ==
  [Reloader0 EXCEPT
     !.init = init, !.mounts = mounts, !.watched = watched, !.web = web, !.opts = p.opts,
     !.config = Append(Etc(p, "config"), "prometheus.yaml.gz"), !.envsubst = ConfigOut(p),
     !.probes = p.op.probes, !.node = p.kind = "DaemonSet"]

BuildConfigReloader(p, init, mounts, watched, web) ==
  LET o == ReloaderOf(p, init, mounts, watched, web)
  IN CASE init     -> CreateConfigReloader("init-config-reloader", o)
       [] p.signal -> CreateConfigReloader("config-reloader",
                        [o EXCEPT !.signal = TRUE, !.url = <<PrometheusURIScheme(p), "runtimeinfo">>])
       [] OTHER    -> CreateConfigReloader("config-reloader",
                        [o EXCEPT !.listenLocal = p.listenLocal, !.url = <<PrometheusURIScheme(p), "reload">>])

ShareProcessNamespace(p) == p.signal

-----------------------------------------------------------------------------
(* Results.  A workload has its volumes, the names of its volume claim     *)
(* templates, its containers, selector and labels.                         *)

Failed(outcome) == [outcome |-> outcome]

NameLabel == "operator.prometheus.io/name"
ModeLabel == "operator.prometheus.io/mode"

Mode(s) == IF s.kind = "Prometheus" THEN "server" ELSE "agent"

\* The labels that a workload of Prometheus has and the others do not.
OwnLabels(s) ==
  CASE s.kind \in {"Prometheus", "Agent"} ->
         (ShardLabel :> s.shard) @@ (NameLabel :> s.name) @@ (ModeLabel :> Mode(s))
    [] s.kind = "DaemonSet" -> (NameLabel :> s.name) @@ (ModeLabel :> Mode(s))
    [] OTHER -> << >>

\* The annotation with the hash comes first, except that a DaemonSet has none, and the labels
\* of the operator last.
Metadata(s) ==
  LET hashed == IF s.kind = "DaemonSet" THEN UpdateObject ELSE WithInputHashAnnotation("hash", UpdateObject)
      annotated == WithAnnotations(s.op.annotations, WithAnnotations(s.annotations, hashed))
      labelled == WithLabels(s.op.labels, WithLabels(OwnLabels(s), WithLabels(s.labels, annotated)))
  IN WithoutKubectlAnnotations(WithManagingOwner(s.name, labelled))

Workload(s, parts, containers, init, labels, web) ==
  [outcome |-> "ok", meta |-> Metadata(s), startup |-> <<0, 0>>, volumes |-> parts.volumes, claims |-> {}, main |-> containers[1].name,
   containers |-> containers, init |-> init, selector |-> labels.selector,
   labels |-> labels.labels, web |-> web, constraints |-> {}, shareProcesses |-> FALSE,
   dns |-> IF "dnsPolicy" \in s.opts THEN "user"
           ELSE IF "hostNetwork" \in s.opts THEN "hostNetwork" ELSE "default"]

\* What the web configuration Secret of a resource contains.
WebContents(s) ==
  WebConfigContents(Etc(s, "web_config"), IF s.web THEN s.tls ELSE {}, IF s.web THEN s.opts ELSE {})

-----------------------------------------------------------------------------
(* The Thanos sidecar.                                                     *)

SidecarFlags ==
  <<<<"grpcTLSCert", "grpc-server-tls-cert", 0, Forever>>, <<"grpcTLSKey", "grpc-server-tls-key", 0, Forever>>,
    <<"grpcTLSCA", "grpc-server-tls-client-ca", 0, Forever>>,
    <<"tracingFile", "tracing.config-file", 0, Forever>>, <<"tracing", "tracing.config", 0, Forever>>,
    <<"logLevel", "log.level", 0, Forever>>, <<"logFormat", "log.format", 0, Forever>>,
    <<"minTime", "min-time", 0, Forever>>, <<"readyTimeout", "prometheus.ready_timeout", 0, Forever>>,
    <<"getConfigTimeout", "prometheus.get_config_timeout", 290, Forever>>,
    <<"getConfigInterval", "prometheus.get_config_interval", 290, Forever>>>>

\* A file takes precedence over a Secret; the levels of Prometheus are the default.
SidecarOptions(p, t) ==
  (t.opts \cup (p.opts \cap {"logLevel", "logFormat"}))
  \ (IF "tracingFile" \in t.opts THEN {"tracing"} ELSE {})

SidecarObjectStorage(p, t) ==
  CASE t.objstore = "none"   -> [args |-> << >>, mounts |-> << >>]
    [] t.objstore = "file"   -> [args |-> <<Argument("objstore.config-file", <<"user">>), Argument("tsdb.path", StorageDir)>>,
                                 mounts |-> <<Mount(VolumeClaimName(p), StorageDir)>>]
    [] t.objstore = "secret" -> [args |-> <<Argument("objstore.config", <<"env">>), Argument("tsdb.path", StorageDir)>>,
                                 mounts |-> <<Mount(VolumeClaimName(p), StorageDir)>>]

ThanosConfigDir(p) == <<"etc", "thanos", "config">>

SidecarHTTPClient(p, t) ==
  IF t.v < 240 THEN [args |-> << >>, parts |-> NoMounts]
  ELSE [args |-> <<Argument("prometheus.http-client-file", Append(ThanosConfigDir(p), "http-client.yaml"))>>,
        parts |-> [volumes |-> <<Volume(<<"thanos-http-client-file">>, "secret", "http-client")>>,
                   mounts |-> <<Mount(<<"thanos-http-client-file">>, ThanosConfigDir(p))>>]]

CreateThanosContainer(p, t) ==
  LET storage == SidecarObjectStorage(p, t)
      client == SidecarHTTPClient(p, t)
      args == BuildArgs(<<Argument("prometheus.url", << >>), Argument("grpc-address", << >>),
                          Argument("http-address", << >>)>>
                        \o storage.args \o FlagsOf(SidecarFlags, SidecarOptions(p, t), t.v) \o client.args,
                        t.extra)
  IN [err |-> args.err \/ BuildImagePath(t.image).err, volumes |-> client.parts.volumes,
      container |-> [Container("thanos-sidecar", args.args, t.mounts \o storage.mounts \o client.parts.mounts)
                       EXCEPT !.calls = {<<PrometheusURIScheme(p), "sidecar">>},
                              !.ports = {[name |-> "http", port |-> 10902], [name |-> "grpc", port |-> 10901]}]]

-----------------------------------------------------------------------------
(* StatefulSets of Prometheus.                                             *)

PrometheusWebUnmounted(p) ==
  LET w == BuildWebconfig(p)
  IN IF p.v < 2240 THEN [args |-> << >>, parts |-> NoMounts, reloader |-> NoMounts, file |-> << >>]
     ELSE [args |-> <<w.arg>>, parts |-> w.parts, reloader |-> NoMounts, file |-> w.arg.value]

\* The web configuration is mounted from 2.24 on, and in the reloader only with a web
\* setting.
PrometheusWeb(p) ==
  LET w == BuildWebconfig(p)
  IN IF p.v < 2240 THEN [args |-> << >>, parts |-> NoMounts, reloader |-> NoMounts, file |-> << >>]
     ELSE [args |-> <<w.arg>>, parts |-> w.parts,
           reloader |-> IF p.web THEN w.parts ELSE NoMounts,
           file |-> IF p.web THEN w.arg.value ELSE << >>]

\* The files that the configuration of the server names.
ConfigurationFiles(p) ==
  {f \in {LogFilePath(p.queryLog), LogFilePath(p.scrapeLog)} : f # <<"user">>}
  \cup {Append(Etc(p, "rules"), p.rules[i]) : i \in DOMAIN p.rules}

PrometheusContainer(p, args, mounts) ==
  [Container("prometheus", args, mounts) EXCEPT
     !.image = BuildImagePath(p.image).image,
     !.ports = MakeContainerPorts(p), !.probes = BuildProbes(p), !.files = ConfigurationFiles(p),
     !.env = IF "goGC" \in p.opts /\ p.v < 2530 THEN {"GOGC"} ELSE {}]

ServerMakeStatefulSetSpec(p) ==
  LET web == PrometheusWeb(p)
      parts == Join(Join(BuildCommonVolumes(p, TRUE), AppendServerVolumes(p)), web.parts)
      labels == PodLabels(p, (ShardLabel :> p.shard) @@ SelectorLabels(p))
      sidecars == SetToSeq({CreateThanosContainer(p, t) : t \in p.thanos})
      mounts == CreateConfigReloaderVolumeMounts(p) \o web.reloader.mounts \o RuleParts(p).mounts
      watched == [i \in DOMAIN p.rules |-> Append(Etc(p, "rules"), p.rules[i])]
      args == BuildArgs(BuildServerArgs(p) \o web.args \o CompactionArgs(p), p.extra)
      containers == <<PrometheusContainer(p, args.args, parts.mounts),
                      BuildConfigReloader(p, FALSE, mounts, watched, web.file)>>
                    \o [i \in DOMAIN sidecars |-> sidecars[i].container]
      all == [parts EXCEPT !.volumes = @ \o FlattenSeq([i \in DOMAIN sidecars |-> sidecars[i].volumes])]
  IN CASE BuildImagePath(p.image).err \/ ~NewWebConfig(IF p.web /\ p.v >= 2240 THEN p.tls ELSE {})
            \/ args.err \/ (\E i \in DOMAIN sidecars : sidecars[i].err) -> Failed("error")
       [] TopologySpreadPanics(p) -> Failed("panic")
       [] OTHER ->
            [Workload(p, all, MergePatchContainers(containers, p.containers),
                      MergePatchContainers(<<BuildConfigReloader(p, TRUE, mounts, watched, << >>)>>, p.inits),
                      labels, WebContents(p))
               EXCEPT !.startup = StartupProbe(p.startup),
                      !.constraints = MakeK8sTopologySpreadConstraint(p, labels.selector),
                      !.shareProcesses = ShareProcessNamespace(p)]

\* The storage and the volumes of the user come last.
WithStorage(s, w) ==
  IF w.outcome # "ok" THEN w
  ELSE [w EXCEPT !.volumes = @ \o StorageVolumes(s) \o s.volumes, !.claims = StorageClaims(s)]

ServerMakeStatefulSet(p) == WithStorage(p, ServerMakeStatefulSetSpec(p))

-----------------------------------------------------------------------------
(* StatefulSets and DaemonSets of PrometheusAgent.                         *)

AgentSpec(p, web, parts, labels) ==
  LET mounts == CreateConfigReloaderVolumeMounts(p) \o web.reloader.mounts
      args == BuildArgs(BuildAgentArgs(p) \o web.args, p.extra)
      containers == <<PrometheusContainer(p, args.args, parts.mounts),
                      BuildConfigReloader(p, FALSE, mounts, << >>, web.file)>>
  IN CASE BuildImagePath(p.image).err \/ ~NewWebConfig(IF p.web /\ web.args # << >> THEN p.tls ELSE {})
            \/ args.err -> Failed("error")
       [] TopologySpreadPanics(p) -> Failed("panic")
       [] OTHER ->
            [Workload(p, parts, MergePatchContainers(containers, p.containers),
                      MergePatchContainers(<<BuildConfigReloader(p, TRUE, mounts, << >>, << >>)>>, p.inits),
                      labels, WebContents(p))
               EXCEPT !.startup = StartupProbe(p.startup),
                      !.constraints = MakeK8sTopologySpreadConstraint(p, labels.selector),
                      !.shareProcesses = ShareProcessNamespace(p)]

AgentMakeStatefulSetSpec(p) ==
  LET web == PrometheusWeb(p)
  IN AgentSpec(p, web, Join(BuildCommonVolumes(p, TRUE), web.parts),
               PodLabels(p, (ShardLabel :> p.shard) @@ SelectorLabels(p)))

AgentMakeStatefulSet(p) == WithStorage(p, AgentMakeStatefulSetSpec(p))

\* The web configuration is mounted in both containers whatever the version is.
MakeDaemonSetSpec(p) ==
  LET w == BuildWebconfig(p)
      web == [args |-> <<w.arg>>, parts |-> w.parts, reloader |-> w.parts, file |-> w.arg.value]
  IN AgentSpec(p, web, Join(BuildCommonVolumes(p, FALSE), web.parts), PodLabels(p, SelectorLabels(p)))

\* A DaemonSet has neither storage nor the volumes of the user.
MakeDaemonSet(p) == MakeDaemonSetSpec(p)

-----------------------------------------------------------------------------
(* StatefulSets of Alertmanager.                                           *)

AlertmanagerFlags ==
  <<<<"externalURL", "web.external-url", 0, Forever>>,
    <<"enableFeatures", "enable-feature", 270, Forever>>,
    <<"routePrefix", "web.route-prefix", 0, Forever>>,
    <<"getConcurrency", "web.get-concurrency", 170, Forever>>, <<"timeout", "web.timeout", 170, Forever>>,
    <<"maxSilences", "silences.max-silences", 280, Forever>>,
    <<"maxPerSilenceBytes", "silences.max-per-silence-bytes", 280, Forever>>,
    <<"logLevel", "log.level", 0, Forever>>, <<"logFormat", "log.format", 160, Forever>>,
    <<"advertiseAddress", "cluster.advertise-address", 0, Forever>>,
    <<"gossipInterval", "cluster.gossip-interval", 0, Forever>>,
    <<"pushpullInterval", "cluster.pushpull-interval", 0, Forever>>,
    <<"peerTimeout", "cluster.peer-timeout", 0, Forever>>,
    <<"clusterLabel", "cluster.label", 260, Forever>>>>

\* The route prefix and the cluster label have defaults.
AlertmanagerOptions(a) ==
  (a.opts \cup {"routePrefix", "clusterLabel"}) \ (IF a.web THEN {} ELSE {"getConcurrency", "timeout"})

\* A single replica turns the cluster mode off, with an argument whose name ends in "=".
ClusterListenAddress(a) ==
  IF a.replicas = 1 /\ "forceClusterMode" \notin a.opts
  THEN Argument("cluster.listen-address=", << >>)
  ELSE Argument("cluster.listen-address", <<"pod">>)

\* All replicas are peers, and so are the additional ones.
ClusterPeers(a) ==
  [i \in 1..a.replicas |-> Argument("cluster.peer", <<"replica", ToString(i - 1)>>)]
  \o Cond("additionalPeers" \in a.opts, <<Argument("cluster.peer", <<"user">>)>>)

AlertmanagerArgs(a) ==
  <<Argument("config.file", Append(Etc(a, "config_out"), "alertmanager.env.yaml")),
    Argument("storage.path", <<"alertmanager">>), Argument("data.retention", << >>),
    ClusterListenAddress(a),
    Argument("web.listen-address", IF a.listenLocal THEN <<"local">> ELSE <<"any">>)>>
  \o FlagsOf(AlertmanagerFlags, AlertmanagerOptions(a), a.v)
  \o ClusterPeers(a)
  \o <<Argument("cluster.reconnect-timeout", << >>)>>

IsHTTPSAnyVersion(s, since) == s.web /\ s.tls # {}

IsHTTPS(s, since) == s.web /\ s.tls # {} /\ s.v >= since

AlertmanagerProbes(a) ==
  IF a.listenLocal THEN {}
  ELSE {[scheme |-> IF IsHTTPS(a, 220) THEN "https" ELSE "http", via |-> "get", port |-> 9093]}

AlertmanagerVolumes(a) ==
  [volumes |-> <<Volume(<<"config-volume">>, "secret", "generated"),
                 Volume(<<"tls-assets">>, "projected", "tls-assets"),
                 Volume(<<"config-out">>, "emptyDir", "pod")>>,
   mounts |-> <<Mount(<<"config-volume">>, Etc(a, "config")), Mount(<<"config-out">>, Etc(a, "config_out")),
                Mount(<<"tls-assets">>, Etc(a, "certs")), Mount(VolumeClaimName(a), <<"alertmanager">>)>>]

\* The templates are a sequence of keys.
TemplateParts(a) ==
  IF a.templates = << >> THEN NoMounts
  ELSE [volumes |-> <<Volume(<<"notification-templates">>, "projected", "templates")>>,
        mounts |-> <<Mount(<<"notification-templates">>, Etc(a, "templates"))>>]

\* The directories that the reloader watches besides the configuration are mounted in it.
WatchedParts(a) == Join(TemplateParts(a), ListedParts(a))

AlertmanagerWeb(a) ==
  LET w == WebMountParameters(Etc(a, "web_config"), "web-config", IF a.web THEN a.tls ELSE {})
  IN IF a.v < 220 THEN [args |-> << >>, parts |-> NoMounts, file |-> << >>]
     ELSE [args |-> <<w.arg>>, parts |-> w.parts, file |-> w.arg.value]

AlertmanagerClusterTLS(a) ==
  IF a.v < 240 THEN [args |-> << >>, parts |-> NoMounts]
  ELSE ClusterTLSMountParameters(Etc(a, "cluster_tls_config"), "cluster-tls", a.cluster)

AlertmanagerReloader(a, init, mounts, web) ==
  [Reloader0 EXCEPT
     !.init = init, !.mounts = mounts, !.opts = a.opts, !.probes = a.op.probes,
     !.listenLocal = ~init /\ a.listenLocal, !.web = IF init THEN << >> ELSE web,
     !.url = IF init THEN << >> ELSE <<IF IsHTTPS(a, 220) THEN "https" ELSE "http", "reload">>,
     !.watched = <<Etc(a, "config")>> \o [i \in DOMAIN WatchedParts(a).mounts |-> WatchedParts(a).mounts[i].path],
     !.config = Append(Etc(a, "config"), "alertmanager.yaml.gz"),
     !.envsubst = Append(Etc(a, "config_out"), "alertmanager.env.yaml")]

AlertmanagerLabels(a) == PodLabels(a, SelectorLabels(a))

AlertmanagerFiles(a) ==
  {Append(Etc(a, "templates"), a.templates[i]) : i \in DOMAIN a.templates}
  \cup (IF a.v < 240 THEN {} ELSE ClusterTLSContents(Etc(a, "cluster_tls_config"), a.cluster))

AlertmanagerPorts(a) ==
  {[name |-> "mesh-tcp", port |-> 9094], [name |-> "mesh-udp", port |-> 9094]}
  \cup (IF a.listenLocal THEN {} ELSE {[name |-> "web", port |-> 9093]})

AlertmanagerMakeStatefulSetSpec(a) ==
  LET web == AlertmanagerWeb(a)
      tls == AlertmanagerClusterTLS(a)
      own == [Join(AlertmanagerVolumes(a), WatchedParts(a)) EXCEPT !.mounts = @ \o a.mounts]
      parts == Join(Join(own, web.parts), tls.parts)
      args == BuildArgs(AlertmanagerArgs(a) \o web.args \o tls.args, a.extra)
      mounts == <<Mount(<<"config-volume">>, Etc(a, "config")), Mount(<<"config-out">>, Etc(a, "config_out"))>>
                \o WatchedParts(a).mounts \o web.parts.mounts
      main == [Container("alertmanager", args.args, parts.mounts) EXCEPT
                 !.image = BuildImagePath(a.image).image, !.probes = AlertmanagerProbes(a),
                 !.ports = AlertmanagerPorts(a), !.files = AlertmanagerFiles(a), !.env = {"POD_IP"}]
      containers == <<main, CreateConfigReloader("config-reloader", AlertmanagerReloader(a, FALSE, mounts, web.file))>>
      inits == <<CreateConfigReloader("init-config-reloader", AlertmanagerReloader(a, TRUE, mounts, web.file))>>
  IN IF \/ BuildImagePath(a.image).err \/ args.err
        \/ a.v >= 220 /\ ~NewWebConfig(IF a.web THEN a.tls ELSE {})
        \/ a.v >= 240 /\ ~NewClusterTLS(a.cluster)
     THEN Failed("error")
     ELSE Workload(a, parts, MergePatchContainers(containers, a.containers),
                   MergePatchContainers(inits, a.inits), AlertmanagerLabels(a), WebContents(a))

\* Replicas default to one and are not negative.
AlertmanagerMakeStatefulSet(a) ==
  LET b == [a EXCEPT !.replicas = IF @ < 0 THEN 0 ELSE @]
  IN WithStorage(b, AlertmanagerMakeStatefulSetSpec(b))

-----------------------------------------------------------------------------
(* StatefulSets of ThanosRuler.                                            *)

RulerFlags ==
  <<<<"ruleQueryOffset", "rule-query-offset", 380, Forever>>,
    <<"concurrentEvaluation", "rule-concurrent-evaluation", 370, Forever>>,
    <<"outageTolerance", "for-outage-tolerance", 300, Forever>>,
    <<"labels", "label", 0, Forever>>, <<"dropLabels", "alert.label-drop", 0, Forever>>,
    <<"logLevel", "log.level", 0, Forever>>, <<"logFormat", "log.format", 0, Forever>>>>

RulerLateFlags ==
  <<<<"grpcTLSCert", "grpc-server-tls-cert", 0, Forever>>, <<"grpcTLSKey", "grpc-server-tls-key", 0, Forever>>,
    <<"grpcTLSCA", "grpc-server-tls-client-ca", 0, Forever>>,
    <<"externalPrefix", "web.external-prefix", 0, Forever>>, <<"routePrefix", "web.route-prefix", 0, Forever>>,
    <<"alertQueryURL", "alert.query-url", 0, Forever>>>>

MountSecretKey(s, volume, secret) ==
  [parts |-> [volumes |-> <<Volume(<<volume>>, "secret", secret)>>,
              mounts |-> <<Mount(<<volume>>, Append(Etc(s, "config"), volume))>>],
   path |-> Append(Append(Etc(s, "config"), volume), "key")]

\* A setting of the ruler that is a file of the user, a key of a Secret, or a list of
\* plain arguments.
RulerInput(tr, from, flag, plain, volume) ==
  LET m == MountSecretKey(tr, volume, volume)
  IN CASE from = "file"   -> [args |-> <<Argument(flag, <<"user">>)>>, parts |-> NoMounts]
       [] from = "secret" -> [args |-> <<Argument(flag, m.path)>>, parts |-> m.parts]
       [] from = "plain"  -> [args |-> <<Argument(plain, << >>)>>, parts |-> NoMounts]
       [] OTHER           -> [args |-> << >>, parts |-> NoMounts]

RulerInputs(tr) ==
  <<RulerInput(tr, tr.query, "query.config-file", "query", "query-config"),
    RulerInput(tr, tr.alertmanagers, "alertmanagers.config-file", "alertmanagers.url", "alertmanager-config"),
    RulerInput(tr, tr.objstore, "objstore.config-file", "", "objstorage-config"),
    RulerInput(tr, tr.tracing, "tracing.config-file", "", "tracing-config"),
    RulerInput(tr, tr.relabel, "alert.relabel-config-file", "", "alertrelabel-config")>>

\* The remote write configuration is mounted in any case.
RulerRemoteWrite(tr) ==
  LET m == MountSecretKey(tr, "remote-write-config", "config")
  IN [args |-> Cond(tr.v >= 240 /\ "remoteWrite" \in tr.opts, <<Argument("remote-write.config-file", m.path)>>),
      parts |-> m.parts]

RulerArgs(tr) ==
  <<Argument("data-dir", <<"thanos", "data">>), Argument("eval-interval", << >>),
    Argument("tsdb.retention", << >>), Argument("label", <<"replica">>), Argument("alert.label-drop", <<"replica">>)>>
  \o Cond(tr.listenLocal, <<Argument("http-address", <<"local">>)>>)
  \o FlagsOf(RulerFlags, tr.opts, tr.v)
  \o <<Argument("rule-file", <<"pattern">>)>>
  \o RulerRemoteWrite(tr).args
  \o FlattenSeq([i \in DOMAIN RulerInputs(tr) |-> RulerInputs(tr)[i].args])
  \o FlagsOf(RulerLateFlags, tr.opts, tr.v)

\* With rule ConfigMaps the ruler has a reloader, and the web configuration: its argument
\* is added after the arguments of the user were checked.
RulerWeb(tr) ==
  LET w == WebMountParameters(Etc(tr, "web_config"), "web-config", IF tr.web THEN tr.tls ELSE {})
  IN IF tr.rules = << >> \/ tr.v < 210 THEN [args |-> << >>, parts |-> NoMounts, file |-> << >>]
     ELSE [args |-> <<Argument("http.config", w.arg.value)>>, parts |-> w.parts, file |-> w.arg.value]

RulerReloader(tr) ==
  [Reloader0 EXCEPT
     !.web = RulerWeb(tr).file, !.listenLocal = tr.listenLocal, !.opts = tr.opts, !.probes = tr.op.probes,
     !.url = <<IF IsHTTPS(tr, 210) THEN "https" ELSE "http", "reload">>,
     !.watched = [i \in DOMAIN tr.rules |-> Append(Etc(tr, "rules"), tr.rules[i])],
     !.mounts = RuleParts(tr).mounts \o RulerWeb(tr).parts.mounts]

\* The labels of the user are part of the selector.
RulerLabels(tr) ==
  LET labels == SelectorLabels(tr) @@ MergeLabels(tr.op.labels, tr.podLabels)
  IN [selector |-> labels, labels |-> labels]

RulerParts(tr) ==
  LET inputs == RulerInputs(tr)
      mounted == FoldSeq(LAMBDA i, acc : Join(acc, i.parts), RulerRemoteWrite(tr).parts, inputs)
      tls == [volumes |-> <<Volume(<<"tls-assets">>, "projected", "tls-assets")>>,
              mounts |-> <<Mount(<<"tls-assets">>, Etc(tr, "certs"))>>]
      storage == [volumes |-> << >>, mounts |-> <<Mount(VolumeClaimName(tr), <<"thanos", "data">>)>>]
  IN [Join(Join(Join(Join(mounted, tls), RulerWeb(tr).parts), storage), RuleParts(tr))
        EXCEPT !.mounts = @ \o tr.mounts]

RulerMakeStatefulSetSpec(tr) ==
  LET web == RulerWeb(tr)
      args == BuildArgs(RulerArgs(tr), tr.extra)
      main == [Container("thanos-ruler", args.args \o web.args, RulerParts(tr).mounts) EXCEPT
                 !.image = BuildImagePath(tr.image).image, !.env = {"POD_NAME"},
                 !.files = {Append(Etc(tr, "rules"), tr.rules[i]) : i \in DOMAIN tr.rules},
                 !.ports = {[name |-> "grpc", port |-> 10901]}
                           \cup (IF tr.listenLocal THEN {} ELSE {[name |-> "web", port |-> 10902]})]
      containers == <<main>> \o Cond(tr.rules # << >>, <<CreateConfigReloader("config-reloader", RulerReloader(tr))>>)
  IN IF \/ tr.query = "none" \/ BuildImagePath(tr.image).err \/ args.err
        \/ web.args # << >> /\ ~NewWebConfig(IF tr.web THEN tr.tls ELSE {})
     THEN Failed("error")
     ELSE Workload(tr, RulerParts(tr), MergePatchContainers(containers, tr.containers), tr.inits,
                   RulerLabels(tr), WebContents(tr))

RulerMakeStatefulSet(tr) == WithStorage(tr, RulerMakeStatefulSetSpec(tr))

-----------------------------------------------------------------------------
(* Governing Services: the labels that a Service selects, and the names or *)
(* numbers of its target ports.                                            *)

Service(s, app, targets) ==
  [selector |-> "app.kubernetes.io/name" :> app, targets |-> targets,
   meta |-> WithOwner(s.name, WithLabels(s.op.labels, WithAnnotations(s.op.annotations, UpdateObject)))]

BuildStatefulSetService(p) == Service(p, p.kind, {[name |-> "web", port |-> 9090]})

AlertmanagerMakeStatefulSetService(a) ==
  Service(a, a.kind, {[name |-> "web", port |-> 9093], [name |-> "mesh-tcp", port |-> 9094],
                   [name |-> "mesh-udp", port |-> 9094]})

RulerMakeStatefulSetService(tr) ==
  Service(tr, tr.kind, {[name |-> "web", port |-> 10902], [name |-> "grpc", port |-> 10901]})

\* A custom governing Service is not created, it has to select the pods.
EnsureCustomGoverningService(selector, labels) ==
  \A l \in DOMAIN selector : l \in DOMAIN labels /\ labels[l] = selector[l]

-----------------------------------------------------------------------------
(* The state machine: a resource is created without settings and edited.   *)

Build(s) ==
  CASE s.kind = "Prometheus"   -> ServerMakeStatefulSet(s)
    [] s.kind = "Agent"        -> AgentMakeStatefulSet(s)
    [] s.kind = "DaemonSet"    -> MakeDaemonSet(s)
    [] s.kind = "Alertmanager" -> AlertmanagerMakeStatefulSet(s)
    [] s.kind = "ThanosRuler"  -> RulerMakeStatefulSet(s)

ServiceFor(s) ==
  CASE s.kind = "Alertmanager" -> AlertmanagerMakeStatefulSetService(s)
    [] s.kind = "ThanosRuler"  -> RulerMakeStatefulSetService(s)
    [] OTHER                   -> BuildStatefulSetService(s)

Init == \E k \in Kinds : spec = Default(k) /\ built = Build(spec)

\* Settings are added to a resource without any.
Edit(g) ==
  /\ spec = Default(spec.kind)
  /\ \E s \in InputsOf(g) : s.kind = spec.kind /\ spec' = s /\ built' = Build(s)

\* All settings are removed.
Clear ==
  /\ spec # Default(spec.kind)
  /\ spec' = Default(spec.kind)
  /\ built' = Build(spec')

Next == Clear \/ \E g \in Groups : Edit(g)

Spec == Init /\ [][Next]_vars

-----------------------------------------------------------------------------
(* Properties.  Each one says which settings the code does not handle.     *)

Built == built.outcome = "ok"

AllContainers == Range(built.containers) \cup Range(built.init)

Main == built.containers[1]

Named(n) == {c \in Range(built.containers) : c.name = n}

VolumeNames == {built.volumes[i].name : i \in DOMAIN built.volumes} \cup built.claims

Distinct(seq, f(_)) == \A i, j \in DOMAIN seq : f(seq[i]) = f(seq[j]) => i = j

\* The name of a claim template is used for the mount although no claim is made.
NameWithoutClaim(s) == s.storage.kind # "claim" /\ s.storage.name # ""

\* DaemonSets have the mounts of the user and not the volumes.
MountsWithoutVolumes(s) == s.kind = "DaemonSet" /\ s.mounts # << >>

\* Different names in a list become the same label.
SameLabel(s) ==
  ~Distinct(s.secrets, LAMBDA n : Sanitized[n]) \/ ~Distinct(s.configMaps, LAMBDA n : Sanitized[n])

\* The key is a file of the user, and the volume of the key names no Secret.
KeyFileGiven(s) ==
  (s.web /\ \E t \in s.tls : t.keyFile) \/ \E c \in s.cluster : c.server.keyFile

\* A container is added twice when two patches name it.
PatchedTwice(s) == ~Distinct(s.containers, LAMBDA c : c.name) \/ ~Distinct(s.inits, LAMBDA c : c.name)

\* The API server accepts a pod only if the names of its containers and volumes are
\* distinct, every mount names a volume and no two mounts of a container have the same path.
\* The builders collect these lists in a dozen functions.
PodWellFormed ==
  Built => /\ PatchedTwice(spec) \/ (Distinct(built.containers, LAMBDA c : c.name)
                                     /\ Distinct(built.init, LAMBDA c : c.name))
           /\ SameLabel(spec) \/ Distinct(built.volumes, LAMBDA v : v.name)
           /\ KeyFileGiven(spec) \/ \A i \in DOMAIN built.volumes : built.volumes[i].object # ""
           /\ \A c \in AllContainers :
                /\ Distinct(c.mounts, LAMBDA m : m.path)
                /\ NameWithoutClaim(spec) \/ MountsWithoutVolumes(spec)
                   \/ \A i \in DOMAIN c.mounts : c.mounts[i].name \in VolumeNames

Roots == {"etc", "prometheus", "alertmanager", "thanos", "var"}

PathArguments(c) ==
  {c.args[i].value : i \in {j \in DOMAIN c.args : c.args[j].value # << >> /\ Head(c.args[j].value) \in Roots}}

\* The files of the web configuration, in the containers that read it.
WebFiles(c) ==
  IF \E i \in DOMAIN c.args : c.args[i].name \in {"web.config.file", "http.config", "web-config-file"}
  THEN built.web.files ELSE {}

Under(path, c) == \E i \in DOMAIN c.mounts : IsPrefix(c.mounts[i].path, path)

\* The query log of the server has no volume when the scrape failure log is a path.
LogWithoutVolume(s) == s.queryLog = "name" /\ s.scrapeLog = "path"

\* The agent of a DaemonSet writes to the volume that its image declares.
ImageVolume(s) == IF s.kind = "DaemonSet" THEN {StorageDir} ELSE {}

\* The root file system of the containers is read-only and the files of Secrets, ConfigMaps
\* and other containers are only seen through mounts: every file or directory that the
\* arguments, the generated configuration or the web configuration name is under a mount of
\* the container that uses it.
FilesReachable ==
  Built => \A c \in AllContainers :
             \A f \in PathArguments(c) \cup WebFiles(c) \cup c.files \cup c.watches \cup c.writes :
               Under(f, c) \/ f \in ImageVolume(spec) \/ (LogWithoutVolume(spec) /\ f = LogDir)

Repeatable == {"enable-feature", "cluster.peer", "label", "alert.label-drop", "query",
               "alertmanagers.url", "watched-dir"}

FlagOf(arg) == IF arg.name = "cluster.listen-address=" THEN "cluster.listen-address" ELSE arg.name

\* The check of the additional arguments does not see the argument that turns the cluster
\* mode off, nor the one that is added after it.
UncheckedFlags == {"cluster.listen-address", "http.config"}

\* The servers refuse a flag that is given twice, or together with its negation: an
\* additional argument of the user that the operator also sets is rejected when the
\* workload is built.
ArgumentsOnce ==
  Built => \A c \in AllContainers : \A i, j \in DOMAIN c.args :
             LET f == FlagOf(c.args[i])
                 g == FlagOf(c.args[j])
             IN i < j /\ f \notin Repeatable \cup UncheckedFlags
                => f # g /\ ~(f \in DOMAIN Negation /\ Negation[f] = g)

ServesTLS(c) ==
  built.web.tls
  /\ \E i \in DOMAIN c.args : c.args[i].name \in {"web.config.file", "http.config", "web-config-file"}

Scheme(c) == IF ServesTLS(c) THEN "https" ELSE "http"

\* Settings of TLS that the version does not support, and the command of the probe of a
\* server that listens on the loopback address, which is always for plain HTTP.
OldTLS(s) == s.kind = "Prometheus" /\ s.v < 2240 /\ s.web /\ s.tls # {}

LocalTLS(s) == s.listenLocal /\ s.web /\ s.tls # {}

\* A probe, the reload request of the config-reloader and the requests of the Thanos sidecar
\* use the scheme that the server serves, which depends on the web configuration and its
\* version, and a probe by the kubelet goes to a port that is open on the pod's address.
\* The reloader serves TLS with the server's web configuration and its probes do not.
SchemesAgree ==
  Built => /\ OldTLS(spec) \/ \A c \in Range(built.containers) : \A call \in c.calls : call[1] = Scheme(Main)
           /\ \A c \in Range(built.containers) : \A p \in c.probes :
                /\ p.via = "get" => \E port \in c.ports : port.port = p.port
                /\ \/ OldTLS(spec) \/ LocalTLS(spec) \/ (c # Main /\ ServesTLS(c))
                   \/ p.scheme = Scheme(c)

VolumeAt(c, path) == {c.mounts[i].name : i \in {j \in DOMAIN c.mounts : IsPrefix(c.mounts[j].path, path)}}

\* The variables of the generated configuration of Prometheus.
Variables(s) ==
  CASE s.kind = "DaemonSet"              -> {"POD_NAME", "NODE_NAME"}
    [] s.kind \in {"Prometheus", "Agent"} -> {"POD_NAME", "SHARD"}
    [] OTHER                              -> {}

\* The directories whose changes have to reload the server.
Reloaded(s) ==
  {Append(Etc(s, "rules"), s.rules[i]) : i \in DOMAIN s.rules}
  \cup (IF s.kind = "Alertmanager" THEN {m.path : m \in Range(WatchedParts(s).mounts)} ELSE {})

\* The config-reloader writes the configuration where the server reads it, through the same
\* volume; so does its init container, without which the first start has no configuration.
\* It watches all directories whose contents the server reloads, through the same volumes,
\* and has the environment that the configuration refers to.
ReloaderFeedsServer ==
  Built /\ spec.containers = << >> /\ spec.inits = << >> =>
    /\ \A r \in Named("config-reloader") :
         /\ Reloaded(spec) \subseteq r.watches
         /\ \A d \in r.watches : VolumeAt(r, d) = VolumeAt(Main, d) \/ VolumeAt(Main, d) = {}
         /\ r.calls # {}
    /\ spec.kind # "ThanosRuler" =>
         \A r \in Named("config-reloader") \cup Range(built.init) :
           /\ \E i \in DOMAIN Main.args : Main.args[i].name = "config.file" /\ r.writes = {Main.args[i].value}
           /\ \A f \in r.writes : VolumeAt(r, f) = VolumeAt(Main, f) /\ VolumeAt(r, f) # {}
           /\ Variables(spec) \subseteq r.env

\* A sidecar that uploads blocks reads the directory in which the server writes them, through
\* the same volume, and the server must not compact blocks that are being uploaded.
UploadsSafe ==
  Built => \A c \in Named("thanos-sidecar") : \A i \in DOMAIN c.args :
             c.args[i].name \in {"objstore.config", "objstore.config-file"} =>
               /\ VolumeAt(c, StorageDir) = VolumeAt(Main, StorageDir)
               /\ \E j, k \in DOMAIN Main.args :
                    /\ Main.args[j].name = "storage.tsdb.min-block-duration"
                    /\ Main.args[k].name = "storage.tsdb.max-block-duration"
                    /\ Main.args[j].value = Main.args[k].value

\* The pods of a workload have the labels that it and its governing Service select, and a
\* port for each port of the Service.  The labels of the operator may replace the name of
\* the application; a server that listens on the loopback address has no port.
SelectorsMatch ==
  Built => /\ EnsureCustomGoverningService(built.selector, built.labels)
           /\ \/ "app.kubernetes.io/name" \in DOMAIN spec.op.labels
              \/ EnsureCustomGoverningService(ServiceFor(spec).selector, built.labels)
           /\ \A t \in ServiceFor(spec).targets :
                t \in Main.ports \/ (spec.listenLocal /\ t.name = "web")

\* The selector of a StatefulSet or a DaemonSet is immutable: an edit of the resource that
\* changes it has the workload deleted and created again.  No edit of the resource does,
\* except the one of the pod labels of a ThanosRuler.
SelectorStable ==
  [][ built.outcome = "ok" /\ built'.outcome = "ok" /\ spec'.op = spec.op /\ spec'.shard = spec.shard
      /\ ~(spec.kind = "ThanosRuler" /\ spec'.podLabels # spec.podLabels)
      => built'.selector = built.selector ]_vars

\* The controllers find a workload by the labels of its mode and name and by its owner, and
\* skip its update when the annotation has the hash of the inputs: nothing that the user or
\* the operator sets on the resource hides them, except labels of the operator with the same
\* names and an annotation with the name of the hash.  The annotation by which kubectl
\* prunes objects does not get to the workload.
MetadataKept ==
  Built => LET m == built.meta
           IN /\ \A l \in DOMAIN OwnLabels(spec) \ DOMAIN spec.op.labels : m.labels[l] = OwnLabels(spec)[l]
              /\ m.owners = <<[name |-> spec.name, controller |-> TRUE]>>
              /\ \/ spec.kind = "DaemonSet"
                 \/ InputHashAnnotation \in DOMAIN spec.annotations \cup DOMAIN spec.op.annotations
                 \/ m.annotations[InputHashAnnotation] = "hash"
              /\ KubectlAnnotation \notin DOMAIN m.annotations

\* The startup probe gives the server at least the time that the resource asks for, and less
\* than one second per try more, although the threshold and the period are rounded separately.
StartupTimeHonoured ==
  Built /\ spec.startup >= 60 =>
    LET total == built.startup[1] * built.startup[2]
    IN built.startup # <<0, 0>> => /\ spec.startup <= total
                                   /\ total < spec.startup + built.startup[2]
                                   /\ built.startup[1] \in 1..60

\* The API server accepts the pods and their servers start: names, volumes and mounts are
\* sound, no flag is given twice, and the startup probe waits as long as it was asked to.
PodsStart == PodWellFormed /\ ArgumentsOnce /\ StartupTimeHonoured

\* The containers of a pod exchange files through the same volumes: the reloader feeds the
\* server, the server feeds the sidecar that uploads.
ContainersShareFiles == ReloaderFeedsServer /\ UploadsSafe

\* Workloads, Services and controllers find their pods, and no edit makes them lose the
\* pods that run: selectors, labels, owners and the hash are as the others expect them.
PodsFound == []SelectorsMatch /\ []MetadataKept /\ SelectorStable
=============================================================================
