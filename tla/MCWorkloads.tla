---------------------------- MODULE MCWorkloads ----------------------------
(***************************************************************************)
(* Inputs for Workloads, in groups that each vary the settings of one      *)
(* concern and leave the others at a default.                              *)
(***************************************************************************)
EXTENDS Workloads

\* "a.b" and "a-b" become the same label and have different hashes.
MCNames == {"a.b", "a-b", "c", ""}
MCSanitized == [n \in MCNames |-> IF n \in {"a.b", "a-b"} THEN "a-b" ELSE n]
MCHashOf == [n \in MCNames |-> n]

MCNegation ==
  [f \in {"web.enable-lifecycle", "no-web.enable-lifecycle",
          "storage.tsdb.wal-compression", "no-storage.tsdb.wal-compression",
          "storage.agent.wal-compression", "no-storage.agent.wal-compression"} |->
     CASE f = "web.enable-lifecycle"             -> "no-web.enable-lifecycle"
       [] f = "no-web.enable-lifecycle"          -> "web.enable-lifecycle"
       [] f = "storage.tsdb.wal-compression"     -> "no-storage.tsdb.wal-compression"
       [] f = "no-storage.tsdb.wal-compression"  -> "storage.tsdb.wal-compression"
       [] f = "storage.agent.wal-compression"    -> "no-storage.agent.wal-compression"
       [] f = "no-storage.agent.wal-compression" -> "storage.agent.wal-compression"]

MCKinds == {"Prometheus", "Agent", "DaemonSet", "Alertmanager", "ThanosRuler"}

PrometheusKinds == {"Prometheus", "Agent", "DaemonSet"}

NoLabels == [l \in {} |-> ""]

Image0 == [spec |-> FALSE, baseBroken |-> FALSE, tagged |-> FALSE, sha |-> "", tag |-> ""]

MCDefault(k) ==
  [kind |-> k, name |-> "c", image |-> Image0, web |-> FALSE, tls |-> {}, opts |-> {},
   v |-> CASE k = "Alertmanager" -> 280 [] k = "ThanosRuler" -> 380 [] OTHER -> 3050,
   extra |-> << >>, listenLocal |-> FALSE, signal |-> FALSE, storage |-> [kind |-> "none", name |-> ""],
   secrets |-> << >>, configMaps |-> << >>, volumes |-> << >>, mounts |-> << >>,
   queryLog |-> "none", scrapeLog |-> "none", thanos |-> {}, startup |-> 0,
   rules |-> IF k \in {"Prometheus", "ThanosRuler"} THEN <<"r0">> ELSE << >>,
   shard |-> "0", podLabels |-> NoLabels, constraints |-> {}, containers |-> << >>, inits |-> << >>,
   replicas |-> 1, cluster |-> {}, templates |-> << >>, labels |-> NoLabels, annotations |-> NoLabels,
   op |-> [labels |-> NoLabels, annotations |-> NoLabels, probes |-> FALSE],
   query |-> "plain", alertmanagers |-> "none", objstore |-> "none", tracing |-> "none", relabel |-> "none"]

Versions(k) ==
  CASE k = "Prometheus"   -> {2030, 2230, 2240, 2390, 2550, 3050}
    [] k = "Alertmanager" -> {150, 210, 220, 240, 280}
    [] k = "ThanosRuler"  -> {200, 210, 240, 380}
    [] OTHER              -> {2320, 3050}

Upto2(S) == {T \in SUBSET S : Cardinality(T) <= 2}

-----------------------------------------------------------------------------

Secret(n) == [kind |-> "secret", name |-> n]
ConfigMap(n) == [kind |-> "configmap", name |-> n]
Both == [kind |-> "both", name |-> "c"]

TLSSettings ==
  [key : {"", "c"}, keyFile : BOOLEAN, certFile : BOOLEAN, caFile : BOOLEAN,
   cert : {NoRef, Secret("c"), ConfigMap("a.b"), Both}, ca : {NoRef, ConfigMap("a-b")}]

SomeTLS == [key |-> "c", keyFile |-> FALSE, certFile |-> FALSE, caFile |-> FALSE,
            cert |-> ConfigMap("a.b"), ca |-> Secret("c")]

TLSInputs == {[MCDefault(k) EXCEPT !.web = TRUE, !.tls = {t}] : k \in MCKinds, t \in TLSSettings}

Sidecar0 == [v |-> 380, objstore |-> "none", opts |-> {}, extra |-> << >>, mounts |-> << >>, image |-> Image0]

WebInputs ==
  UNION {{[MCDefault(k) EXCEPT !.v = v, !.web = web, !.tls = tls, !.listenLocal = local,
             !.signal = signal, !.op.probes = probes, !.thanos = thanos] :
            v \in Versions(k), web \in BOOLEAN, tls \in {{}, {SomeTLS}}, local \in BOOLEAN,
            signal \in IF k \in PrometheusKinds THEN BOOLEAN ELSE {FALSE}, probes \in BOOLEAN,
            thanos \in IF k = "Prometheus" THEN {{}, {Sidecar0}} ELSE {{}}} : k \in MCKinds}

-----------------------------------------------------------------------------

Settings(k) ==
  CASE k = "Prometheus" ->
         {"remoteWriteReceiver", "messageVersions", "remoteWrite2", "otlp", "enableFeatures",
          "retention", "retentionSize", "adminAPI", "maxSamples", "overlappingBlocks",
          "walCompression", "disableCompaction", "outOfOrderWindow", "logFormat", "goGC"}
    [] k = "Alertmanager" ->
         {"externalURL", "enableFeatures", "getConcurrency", "timeout", "maxSilences", "logFormat",
          "advertiseAddress", "additionalPeers", "forceClusterMode"}
    [] k = "ThanosRuler" ->
         {"ruleQueryOffset", "concurrentEvaluation", "labels", "dropLabels", "remoteWrite",
          "grpcTLSCert", "routePrefix", "alertQueryURL"}
    [] OTHER -> {"remoteWriteReceiver", "otlp", "enableFeatures", "walCompression", "noWALCompression"}

ExtraArguments(k) ==
  {<< >>} \cup {<<Argument(f, <<"user">>)>> : f \in
    CASE k = "Prometheus"   -> {"web.enable-lifecycle", "no-web.enable-lifecycle", "storage.tsdb.path",
                                "no-storage.tsdb.wal-compression", "web.config.file",
                                "storage.tsdb.min-block-duration", "other"}
      [] k = "Alertmanager" -> {"cluster.listen-address", "cluster.peer", "web.timeout", "other"}
      [] k = "ThanosRuler"  -> {"http.config", "label", "http-address", "rule-file", "other"}
      [] OTHER              -> {"agent", "storage.agent.wal-compression", "other"}}

FlagInputs ==
  UNION {{[MCDefault(k) EXCEPT !.v = v, !.opts = opts, !.extra = extra, !.web = TRUE] :
            v \in Versions(k), opts \in Upto2(Settings(k)) \ {{"walCompression", "noWALCompression"}},
            extra \in ExtraArguments(k)} : k \in MCKinds}

-----------------------------------------------------------------------------

Data == Volume(<<"data">>, "emptyDir", "pod")
DataMount == Mount(<<"data">>, <<"data">>)

StorageInputs ==
  UNION {{[MCDefault(k) EXCEPT !.storage = [kind |-> storage, name |-> name],
             !.secrets = secrets, !.configMaps = maps, !.volumes = vols, !.rules = rules,
             !.mounts = IF vols = << >> THEN << >> ELSE <<DataMount>>] :
            storage \in {"none", "emptyDir", "ephemeral", "claim"}, name \in {"", "c"},
            secrets \in {<< >>, <<"c">>, <<"a.b", "c">>, <<"a.b", "a-b">>}, maps \in {<< >>, <<"c", "a-b">>},
            vols \in {<< >>, <<Data>>},
            rules \in IF k \in {"Prometheus", "ThanosRuler"} THEN {<<"r0">>, <<"r0", "r1">>} ELSE {<< >>}} :
         k \in MCKinds}

LogInputs ==
  {[MCDefault(k) EXCEPT !.queryLog = IF k = "Prometheus" THEN query ELSE "none", !.scrapeLog = scrape] :
     k \in PrometheusKinds, query \in {"none", "name", "path"}, scrape \in {"none", "name", "path"}}

SidecarInputs ==
  {[MCDefault("Prometheus") EXCEPT !.thanos = {s}, !.storage = storage, !.opts = opts, !.v = v] :
     s \in [v : {230, 380}, objstore : {"none", "file", "secret"}, opts : {{}, {"tracing", "tracingFile", "logLevel"}},
            extra : {<< >>, <<Argument("tsdb.path", <<"user">>)>>, <<Argument("other", <<"user">>)>>},
            mounts : {<< >>}, image : {Image0, [Image0 EXCEPT !.baseBroken = TRUE]}],
     storage \in {[kind |-> "none", name |-> ""], [kind |-> "claim", name |-> ""], [kind |-> "claim", name |-> "c"]},
     opts \in {{}, {"disableCompaction"}, {"outOfOrderWindow"}}, v \in {2390, 2550}}

-----------------------------------------------------------------------------

App == "app.kubernetes.io/name"

LabelInputs ==
  UNION {{[MCDefault(k) EXCEPT !.podLabels = pod, !.op.labels = op, !.shard = shard,
             !.constraints = constraints, !.listenLocal = local, !.replicas = replicas] :
            pod \in {NoLabels, "team" :> "x", App :> "mine", ShardLabel :> "7"},
            op \in {NoLabels, "team" :> "y", App :> "ours"}, shard \in {"0", "1"}, local \in BOOLEAN,
            replicas \in IF k = "Alertmanager" THEN {-1, 0, 1, 3} ELSE {1},
            constraints \in
              IF k \in PrometheusKinds
              THEN {{}} \cup {{c} : c \in [additional : {"none", "OnResource", "OnShard"},
                                           selector : {"nil", "labels", "expressions"}]}
              ELSE {{}}} : k \in MCKinds}

MetadataInputs ==
  {[MCDefault(k) EXCEPT !.labels = labels, !.annotations = annotations, !.op.labels = op, !.op.annotations = notes] :
     k \in MCKinds, labels \in {NoLabels, NameLabel :> "mine", ModeLabel :> "mine", "managed-by" :> "me"},
     annotations \in {NoLabels, KubectlAnnotation :> "x", InputHashAnnotation :> "x"},
     op \in {NoLabels, NameLabel :> "ours", "team" :> "x"}, notes \in {NoLabels, KubectlAnnotation :> "y"}}

Patch(n) == [Container(n, << >>, <<DataMount>>) EXCEPT !.image = <<"user">>]

PatchInputs ==
  {[MCDefault(k) EXCEPT !.containers = cs, !.inits = is, !.volumes = <<Data>>, !.image = image] :
     k \in MCKinds \ {"DaemonSet"},
     cs \in {<< >>, <<Patch("config-reloader")>>, <<Patch("extra")>>, <<Patch("extra"), Patch("config-reloader")>>,
             <<Patch("extra"), Patch("extra")>>},
     is \in {<< >>, <<Patch("init-config-reloader")>>, <<Patch("extra")>>},
     image \in [spec : BOOLEAN, baseBroken : BOOLEAN, tagged : BOOLEAN, sha : {"", "s"}, tag : {"", "t"}]}

StartupInputs ==
  {[MCDefault(k) EXCEPT !.startup = n] : k \in PrometheusKinds, n \in 0..200 \cup {899, 900, 901, 3599, 3600, 3601}}

ClientTLS == [key : {"", "c"}, cert : {NoRef, Secret("c")}, ca : {NoRef, ConfigMap("c"), Both}]

ClusterInputs ==
  {[MCDefault("Alertmanager") EXCEPT !.v = v, !.replicas = n, !.opts = opts, !.templates = templates,
      !.secrets = secrets, !.web = web, !.tls = {SomeTLS},
      !.cluster = {[server |-> server, client |-> client @@ [keyFile |-> FALSE, certFile |-> FALSE, caFile |-> FALSE]]}] :
     v \in {220, 240, 280}, n \in {1, 3}, opts \in {{}, {"forceClusterMode"}}, web \in BOOLEAN,
     templates \in {<< >>, <<"t1", "t2", "t1">>}, secrets \in {<< >>, <<"c">>},
     server \in {SomeTLS, [SomeTLS EXCEPT !.key = "", !.keyFile = TRUE], [SomeTLS EXCEPT !.cert = NoRef]},
     client \in ClientTLS}

RulerInputSettings ==
  {[MCDefault("ThanosRuler") EXCEPT !.v = v, !.query = query, !.alertmanagers = ams, !.objstore = store,
      !.tracing = tracing, !.relabel = relabel, !.opts = opts] :
     v \in {200, 210, 240}, query \in {"none", "plain", "secret"}, ams \in {"none", "plain", "secret"},
     store \in {"none", "file", "secret"}, tracing \in {"none", "file", "secret"},
     relabel \in {"none", "file", "secret"}, opts \in {{}, {"remoteWrite"}}}

MCInputsOf(g) ==
  CASE g = "tls"     -> TLSInputs
    [] g = "web"     -> WebInputs
    [] g = "flags"   -> FlagInputs
    [] g = "storage" -> StorageInputs
    [] g = "logs"    -> LogInputs
    [] g = "sidecar" -> SidecarInputs
    [] g = "labels"  -> LabelInputs
    [] g = "patch"   -> PatchInputs
    [] g = "startup" -> StartupInputs
    [] g = "cluster" -> ClusterInputs
    [] g = "meta"    -> MetadataInputs
    [] g = "ruler"   -> RulerInputSettings

=============================================================================
