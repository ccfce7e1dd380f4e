------------------------------ MODULE PodParts ------------------------------
(***************************************************************************)
(* The parts that the builders of StatefulSets and DaemonSets share:       *)
(* names of volumes, arguments, images, the patching of containers, the    *)
(* web configuration and its TLS credentials, the cluster TLS              *)
(* configuration of Alertmanager and the config-reloader container.        *)
(*                                                                         *)
(* A path and the name of a volume are sequences of strings.  A reference  *)
(* to a key of a Secret or a ConfigMap is [kind, name]; the key itself is  *)
(* always "key".  A TLS setting is a set with at most one record.          *)
(* Versions are numbers: 2.24.0 is 2240 and 0.22.0 is 220.                 *)
(***************************************************************************)
EXTENDS Integers, Sequences, FiniteSets, TLC, SequencesExt

CONSTANTS
  Sanitized,   \* [name -> the DNS-1123 label it becomes, cut at 63 characters]
  HashOf,      \* [name -> the hash of the name, cut at 8 characters]
  Negation     \* [flag -> the flag with the prefix "no-" added or removed]

-----------------------------------------------------------------------------
(* Volumes, mounts, arguments.                                             *)

Volume(name, kind, object) == [name |-> name, kind |-> kind, object |-> object]
Mount(name, path) == [name |-> name, path |-> path]
Argument(name, value) == [name |-> name, value |-> value]

\* A name made with DNS1123Label is not unique: different names may have the same label.
DNS1123Label(prefix, name) == <<prefix, Sanitized[name]>>

UniqueDNS1123Label(prefix, name) == prefix \o <<Sanitized[name], HashOf[name]>>

\* The names of additional arguments that the operator manages, negated or not.
Intersection(args, additional) ==
  {a \in additional : a \in args \/ (a \in DOMAIN Negation /\ Negation[a] \in args)}

ExtractArgKeys(args) == {args[i].name : i \in DOMAIN args}

BuildArgs(args, additional) ==
  LET clash == Intersection(ExtractArgKeys(args), ExtractArgKeys(additional))
  IN [err |-> clash # {}, args |-> IF clash # {} THEN << >> ELSE args \o additional]

\* The arguments of a table of <<setting, flag, first version, first version without it>>
\* for the settings that are set.
FlagsOf(table, opts, v) ==
  LET rows == SelectSeq(table, LAMBDA r : r[1] \in opts /\ r[3] <= v /\ v < r[4])
  IN [i \in DOMAIN rows |-> Argument(rows[i][2], <<rows[i][1]>>)]

Forever == 99999

-----------------------------------------------------------------------------
(* Images and containers.                                                  *)

\* An image specification is [spec, tagged, sha, tag, version]: whether the image is given,
\* whether the base image has a tag or a digest, and the other fields ("" when not set).
BuildImagePath(i) ==
  CASE i.spec       -> [err |-> FALSE, image |-> <<"spec">>]
    [] i.baseBroken -> [err |-> TRUE, image |-> << >>]
    [] i.tagged     -> [err |-> FALSE, image |-> <<"base">>]
    [] i.sha # ""   -> [err |-> FALSE, image |-> <<"base", i.sha>>]
    [] i.tag # ""   -> [err |-> FALSE, image |-> <<"base", i.tag>>]
    [] OTHER        -> [err |-> FALSE, image |-> <<"base", "version">>]

\* A strategic merge patch replaces the arguments of a container and merges its mounts by
\* path (external).
StrategicMergePatch(c, patch) ==
  LET paths == {patch.mounts[i].path : i \in DOMAIN patch.mounts}
  IN [c EXCEPT !.args = IF patch.args = << >> THEN @ ELSE patch.args,
               !.mounts = SelectSeq(@, LAMBDA m : m.path \notin paths) \o patch.mounts]

\* The last patch of a container counts; a patch without container is a container of its
\* own, once for every patch with that name.
MergePatchContainers(base, patches) ==
  LET names(s) == {s[i].name : i \in DOMAIN s}
      byName(n) == patches[CHOOSE i \in DOMAIN patches :
                             /\ patches[i].name = n
                             /\ \A j \in DOMAIN patches : patches[j].name = n => j <= i]
      own == SelectSeq(patches, LAMBDA p : p.name \notin names(base))
  IN [i \in DOMAIN base |-> IF base[i].name \in names(patches)
                            THEN StrategicMergePatch(base[i], byName(base[i].name))
                            ELSE base[i]]
     \o [i \in DOMAIN own |-> byName(own[i].name)]

Container(name, args, mounts) ==
  [name |-> name, args |-> args, mounts |-> mounts, image |-> <<"base">>, env |-> {},
   ports |-> {}, probes |-> {}, calls |-> {}, watches |-> {}, files |-> {}, writes |-> {}]

-----------------------------------------------------------------------------
(* Metadata of the objects that the operator creates.                      *)

InputHashAnnotation == "prometheus-operator-input-hash"

KubectlAnnotation == "kubectl.kubernetes.io/last-applied-configuration"

\* The given labels win over those of the object, and so do annotations.
WithLabels(given, o) == [o EXCEPT !.labels = given @@ @]

WithAnnotations(given, o) == [o EXCEPT !.annotations = given @@ @]

WithInputHashAnnotation(hash, o) == [o EXCEPT !.annotations = (InputHashAnnotation :> hash) @@ @]

WithoutKubectlAnnotations(o) ==
  [o EXCEPT !.annotations = [a \in DOMAIN @ \ {KubectlAnnotation} |-> @[a]]]

WithManagingOwner(owner, o) == [o EXCEPT !.owners = Append(@, [name |-> owner, controller |-> TRUE])]

WithOwner(owner, o) == [o EXCEPT !.owners = Append(@, [name |-> owner, controller |-> FALSE])]

\* What UpdateObject starts from.
UpdateObject == [labels |-> "managed-by" :> "prometheus-operator", annotations |-> << >>, owners |-> << >>]

-----------------------------------------------------------------------------
(* TLS credentials of servers.                                             *)

NoRef == [kind |-> "none", name |-> ""]

\* Whether a reference is to a Secret and to a ConfigMap at once.
ValidSelector(ref) == ref.kind # "both"

\* WebTLSConfig: key is the name of a Secret or "", the files are given by the user.
ValidWebTLS(t) ==
  /\ t.ca # NoRef => ~t.caFile /\ ValidSelector(t.ca)
  /\ t.cert # NoRef => ~t.certFile /\ ValidSelector(t.cert)
  /\ ~(t.keyFile /\ t.key # "")
  /\ t.keyFile \/ t.key # ""
  /\ t.certFile \/ t.cert # NoRef

\* SafeTLSConfig: the files are never set.
ValidSafeTLS(t) ==
  /\ ValidSelector(t.ca) /\ ValidSelector(t.cert)
  /\ t.cert # NoRef <=> t.key # ""

TLSPathForSelector(dir, ref, type) == dir \o <<ref.kind, ref.name, type>>

GetKeyMountPath(dir, t) == TLSPathForSelector(dir, [kind |-> "secret", name |-> t.key], "key")

GetCertMountPath(dir, t) ==
  IF t.cert = NoRef THEN << >> ELSE TLSPathForSelector(dir, t.cert, "cert")

GetCAMountPath(dir, t) ==
  IF t.ca = NoRef THEN << >> ELSE TLSPathForSelector(dir, t.ca, "ca")

MountParamsForSecret(prefix, name, path) ==
  LET vol == UniqueDNS1123Label(prefix, name)
  IN [volumes |-> <<Volume(vol, "secret", name)>>, mounts |-> <<Mount(vol, path)>>]

MountParamsForConfigMap(prefix, name, path) ==
  LET vol == UniqueDNS1123Label(prefix, name)
  IN [volumes |-> <<Volume(vol, "configmap", name)>>, mounts |-> <<Mount(vol, path)>>]

NoMounts == [volumes |-> << >>, mounts |-> << >>]

MountParams(use, ref, path) ==
  CASE ref.kind = "secret"    -> MountParamsForSecret(Append(use, "secret"), ref.name, path)
    [] ref.kind = "configmap" -> MountParamsForConfigMap(Append(use, "configmap"), ref.name, path)
    [] OTHER                  -> NoMounts

Join(a, b) == [volumes |-> a.volumes \o b.volumes, mounts |-> a.mounts \o b.mounts]

\* The key is mounted whether or not a Secret is named.
TLSMountParameters(use, dir, t) ==
  Join(MountParamsForSecret(use \o <<"secret", "key">>, t.key, GetKeyMountPath(dir, t)),
       Join(MountParams(Append(use, "cert"), t.cert, GetCertMountPath(dir, t)),
            MountParams(Append(use, "ca"), t.ca, GetCAMountPath(dir, t))))

\* The files of the operator that a configuration with these settings names; a file that
\* the user gives comes first.
TLSFiles(dir, t) ==
  {f \in {IF t.certFile THEN << >> ELSE GetCertMountPath(dir, t),
          IF t.keyFile THEN << >> ELSE GetKeyMountPath(dir, t),
          IF t.caFile THEN << >> ELSE GetCAMountPath(dir, t)} : f # << >>}

-----------------------------------------------------------------------------
(* Web configuration.                                                      *)

WebConfigFile == "web-config.yaml"

NewWebConfig(tls) == \A t \in tls : ValidWebTLS(t)

\* What the web configuration Secret contains: whether it serves TLS, the files it names
\* and the HTTP settings.
AddTLSServerConfigToYaml(dir, tls) == UNION {TLSFiles(dir, t) : t \in tls}

HTTPSettings == {"http2", "contentSecurityPolicy", "strictTransportSecurity",
                 "xContentTypeOptions", "xFrameOptions", "xXSSProtection"}

AddHTTPServerConfigToYaml(opts) == opts \cap HTTPSettings

WebConfigContents(dir, tls, opts) ==
  [tls |-> tls # {}, files |-> AddTLSServerConfigToYaml(dir, tls),
   http |-> AddHTTPServerConfigToYaml(opts)]

WebMountParameters(dir, secret, tls) ==
  LET file == Append(dir, WebConfigFile)
      config == [volumes |-> <<Volume(<<"web-config">>, "secret", secret)>>,
                 mounts |-> <<Mount(<<"web-config">>, file)>>]
      t == CHOOSE t \in tls : TRUE
  IN [arg |-> Argument("web.config.file", file),
      parts |-> IF tls = {} THEN config ELSE Join(config, TLSMountParameters(<<"web-config-tls">>, dir, t))]

-----------------------------------------------------------------------------
(* Cluster TLS configuration of Alertmanager.                              *)

ClusterTLSFile == "cluster-tls-config.yaml"

\* A cluster TLS setting is a set with at most one [server, client].
NewClusterTLS(cluster) ==
  \A c \in cluster : ValidWebTLS(c.server) /\ ValidSafeTLS(c.client) /\ c.client.cert # NoRef

AddServerTLSConfigToYaml(dir, c) == TLSFiles(Append(dir, "server_tls"), c.server)

AddClientTLSConfigToYaml(dir, c) ==
  LET d == Append(dir, "client_tls")
  IN {f \in {GetKeyMountPath(d, c.client), GetCertMountPath(d, c.client), GetCAMountPath(d, c.client)} :
        f # << >>}

ClusterTLSContents(dir, cluster) ==
  UNION {AddServerTLSConfigToYaml(dir, c) \cup AddClientTLSConfigToYaml(dir, c) : c \in cluster}

\* The configuration is mounted in any case, the argument is there with the setting only.
ClusterTLSMountParameters(dir, secret, cluster) ==
  LET file == Append(dir, ClusterTLSFile)
      config == [volumes |-> <<Volume(<<"cluster-tls-config">>, "secret", secret)>>,
                 mounts |-> <<Mount(<<"cluster-tls-config">>, file)>>]
      c == CHOOSE c \in cluster : TRUE
  IN IF cluster = {}
     THEN [args |-> << >>, parts |-> config]
     ELSE [args |-> <<Argument("cluster.tls-config", file)>>,
           parts |-> Join(config,
                          Join(TLSMountParameters(<<"cluster-tls-server-config">>, Append(dir, "server_tls"), c.server),
                               TLSMountParameters(<<"cluster-tls-client-config">>, Append(dir, "client_tls"), c.client)))]

-----------------------------------------------------------------------------
(* The config-reloader container.                                          *)

\* What the options of a config-reloader set when none is given.
Reloader0 ==
  [init |-> FALSE, listenLocal |-> FALSE, web |-> << >>, signal |-> FALSE, url |-> << >>,
   config |-> << >>, envsubst |-> << >>, watched |-> << >>, mounts |-> << >>,
   probes |-> FALSE, node |-> FALSE, opts |-> {}]

\* The probes of the reloader always use plain HTTP on its port.
AddProbes(o) ==
  {[scheme |-> "http", via |-> IF o.listenLocal THEN "exec" ELSE "get", port |-> 8080]}

ReloaderFlags == <<<<"logLevel", "log-level", 0, Forever>>, <<"logFormat", "log-format", 0, Forever>>>>

Given(name, path) == IF path = << >> THEN << >> ELSE <<Argument(name, path)>>

ReloaderArgs(o) ==
  (IF o.init THEN <<Argument("watch-interval", <<"0">>)>> ELSE << >>)
  \o <<Argument("listen-address", IF o.listenLocal THEN <<"local">> ELSE <<"any">>)>>
  \o Given("web-config-file", o.web)
  \o (IF o.signal THEN <<Argument("reload-method", <<"signal">>)>> \o Given("runtimeinfo-url", o.url)
      ELSE Given("reload-url", o.url))
  \o Given("config-file", o.config)
  \o Given("config-envsubst-file", o.envsubst)
  \o [i \in DOMAIN o.watched |-> Argument("watched-dir", o.watched[i])]
  \o FlagsOf(ReloaderFlags, o.opts, 0)

\* An init container without listen-local has a port of its own.
ReloaderPorts(o) ==
  IF o.listenLocal THEN {} ELSE {[name |-> "reloader-web", port |-> IF o.init THEN 8081 ELSE 8080]}

CreateConfigReloader(name, o) ==
  [Container(name, ReloaderArgs(o), o.mounts) EXCEPT
     !.ports = ReloaderPorts(o),
     !.env = {"POD_NAME", IF o.node THEN "NODE_NAME" ELSE "SHARD"},
     !.calls = IF o.url = << >> THEN {} ELSE {o.url},
     !.watches = Range(o.watched),
     !.files = {f \in {o.config, o.web} : f # << >>},
     !.writes = {f \in {o.envsubst} : f # << >>},
     !.probes = IF o.probes /\ ~o.init THEN AddProbes(o) ELSE {}]

=============================================================================
