------------------------ MODULE PrometheusDiscovery ------------------------
(***************************************************************************)
(* The service discovery sections of a ScrapeConfig.                       *)
(*                                                                         *)
(* A section is looked at twice.  Its check (the validate...SDConfigs of   *)
(* pkg/prometheus/resource_selector.go) refuses invalid sections and loads *)
(* the Secrets and ConfigMaps it refers to into the asset store; the       *)
(* generator (generateScrapeConfig of promcfg.go) then reads the assets    *)
(* from that store only, and appends the fields that the version of        *)
(* Prometheus knows.                                                       *)
(*                                                                         *)
(* A section is a record: disc is its kind, uses the settings of it that   *)
(* refer to Secrets, broken those of them that loading refuses (an absent  *)
(* Secret or key, a setting that fails its own Validate), opts its other   *)
(* settings.  Versions are numbers: 2.26.0 is 2260, 2.54.1 is 2541.        *)
(***************************************************************************)
EXTENDS Integers, FiniteSets

HTTPClient == {"basicAuth", "authorization", "oauth2", "tls", "proxy"}
HTTPOptions == {"followRedirects", "enableHTTP2"}

-----------------------------------------------------------------------------
(* The types of the API: the settings of a kind that refer to Secrets,     *)
(* those of them that it always has, and its other optional settings.      *)

SDType(assets, options) == [assets |-> assets, required |-> {}, options |-> options]

StaticConfigType == SDType({}, {"labels"})

FileSDConfigType == SDType({}, {"refreshInterval"})

HTTPSDConfigType == SDType(HTTPClient, HTTPOptions \cup {"refreshInterval"})

KubernetesSDConfigType ==
  SDType(HTTPClient, HTTPOptions \cup {"apiServer", "namespaces", "ownNamespace", "attachMetadata"})

ConsulSDConfigType ==
  SDType(HTTPClient \cup {"token"},
    HTTPOptions \cup {"pathPrefix", "datacenter", "namespace", "partition", "scheme", "services", "tags",
                      "tagSeparator", "nodeMeta", "filter", "allowStale", "refreshInterval"})

DNSSDConfigType == SDType({}, {"refreshInterval", "typeSRV", "typeA", "typeNS", "typeMX", "port"})

EC2SDConfigType ==
  SDType({"accessKey", "secretKey", "tls", "proxy"},
    HTTPOptions \cup {"region", "roleARN", "port", "refreshInterval", "filters"})

AzureSDConfigType ==
  SDType(HTTPClient \cup {"clientSecret"},
    HTTPOptions \cup {"environment", "sdk", "managedIdentity", "tenantID", "clientID", "resourceGroup",
                      "refreshInterval", "port"})

GCESDConfigType == SDType({}, {"filter", "refreshInterval", "port", "tagSeparator"})

OpenStackSDConfigType ==
  SDType({"password", "applicationCredentialSecret", "tls"},
    {"identityEndpoint", "username", "userID", "domainName", "domainID", "projectName", "projectID",
     "applicationCredentialName", "applicationCredentialID", "allTenants", "refreshInterval", "port",
     "availability"})

DigitalOceanSDConfigType ==
  SDType(HTTPClient \ {"basicAuth"}, HTTPOptions \cup {"port", "refreshInterval"})

KumaSDConfigType ==
  SDType(HTTPClient, HTTPOptions \cup {"clientID", "refreshInterval", "fetchTimeout"})

EurekaSDConfigType == SDType(HTTPClient, HTTPOptions \cup {"refreshInterval"})

DockerSDConfigType ==
  SDType(HTTPClient, HTTPOptions \cup {"port", "hostNetworkingHost", "matchFirstNetwork", "filters",
                                       "refreshInterval"})

HetznerSDConfigType ==
  SDType(HTTPClient, HTTPOptions \cup {"port", "refreshInterval", "labelSelector"})

NomadSDConfigType ==
  SDType(HTTPClient, HTTPOptions \cup {"allowStale", "namespace", "refreshInterval", "region", "tagSeparator"})

OVHCloudSDConfigType ==
  [SDType({"applicationSecret", "consumerKey"}, {"endpoint", "refreshInterval"}) EXCEPT
     !.required = {"applicationSecret", "consumerKey"}]

DockerSwarmSDConfigType ==
  SDType(HTTPClient, HTTPOptions \cup {"port", "filters", "refreshInterval"})

LinodeSDConfigType ==
  SDType(HTTPClient \ {"basicAuth"}, HTTPOptions \cup {"region", "port", "tagSeparator", "refreshInterval"})

PuppetDBSDConfigType ==
  SDType(HTTPClient, HTTPOptions \cup {"includeParameters", "refreshInterval", "port"})

LightSailSDConfigType ==
  SDType(HTTPClient \cup {"accessKey", "secretKey"},
    HTTPOptions \cup {"region", "roleARN", "endpoint", "refreshInterval", "port"})

ScalewaySDConfigType ==
  [SDType({"secretKey", "proxy", "tls"},
     HTTPOptions \cup {"port", "apiURL", "zone", "nameFilter", "tagsFilter", "refreshInterval"}) EXCEPT
     !.required = {"secretKey"}]

IonosSDConfigType ==
  [SDType(HTTPClient \ {"basicAuth"}, HTTPOptions \cup {"port", "refreshInterval"}) EXCEPT
     !.required = {"authorization"}]

SDTypes ==
  [static |-> StaticConfigType, file |-> FileSDConfigType, http |-> HTTPSDConfigType,
   kubernetes |-> KubernetesSDConfigType, consul |-> ConsulSDConfigType, dns |-> DNSSDConfigType,
   ec2 |-> EC2SDConfigType, azure |-> AzureSDConfigType, gce |-> GCESDConfigType,
   openstack |-> OpenStackSDConfigType, digitalocean |-> DigitalOceanSDConfigType,
   kuma |-> KumaSDConfigType, eureka |-> EurekaSDConfigType, docker |-> DockerSDConfigType,
   linode |-> LinodeSDConfigType, hetzner |-> HetznerSDConfigType, nomad |-> NomadSDConfigType,
   dockerswarm |-> DockerSwarmSDConfigType, puppetdb |-> PuppetDBSDConfigType,
   lightsail |-> LightSailSDConfigType, ovhcloud |-> OVHCloudSDConfigType,
   scaleway |-> ScalewaySDConfigType, ionos |-> IonosSDConfigType]

-----------------------------------------------------------------------------
(* The ConfigGenerator.  ok is false when it ignores what it is given.     *)

WithMinimumVersion(cg, version) == [cg EXCEPT !.ok = @ /\ cg.v >= version]
WithMaximumVersion(cg, version) == [cg EXCEPT !.ok = @ /\ cg.v < version]

AppendMapItem(cg, key) == IF cg.ok THEN {key} ELSE {}

\* The values default to "" when the asset is not in the store.
AddBasicAuthToYaml(cg, c) ==
  IF "basicAuth" \in c.uses THEN AppendMapItem(cg, "basicAuth") ELSE {}

AddSafeAuthorizationToYaml(cg, c) ==
  IF "authorization" \in c.uses
  THEN AppendMapItem(WithMinimumVersion(cg, 2260), "authorization") ELSE {}

\* Nothing is added when the asset is not in the store.
AddOAuth2ToYaml(cg, c, st) ==
  IF "oauth2" \in c.uses \cap st
  THEN AppendMapItem(WithMinimumVersion(cg, 2270), "oauth2") ELSE {}

\* The path of the file is derived from the reference alone.
AddSafeTLStoYaml(cg, c) ==
  IF "tls" \notin c.uses THEN {}
  ELSE AppendMapItem(cg, "tls")
       \cup (IF "tlsMinVersion" \in c.opts
             THEN AppendMapItem(WithMinimumVersion(cg, 2350), "tlsMinVersion") ELSE {})
       \cup (IF "tlsMaxVersion" \in c.opts
             THEN AppendMapItem(WithMinimumVersion(cg, 2410), "tlsMaxVersion") ELSE {})

\* The Secrets of a proxy are those of its connect headers.
AddProxyConfigToYaml(cg, c) ==
  (IF "proxyURL" \in c.opts THEN AppendMapItem(cg, "proxyURL") ELSE {})
  \cup (IF "proxy" \in c.uses
        THEN AppendMapItem(WithMinimumVersion(cg, 2430), "proxy") ELSE {})

AddSigv4ToYaml(cg, c) == IF "sigv4" \in c.uses THEN AppendMapItem(cg, "sigv4") ELSE {}

AddToYaml(cg, c, st, settings) ==
  UNION {CASE s = "basicAuth"     -> AddBasicAuthToYaml(cg, c)
           [] s = "authorization" -> AddSafeAuthorizationToYaml(cg, c)
           [] s = "oauth2"        -> AddOAuth2ToYaml(cg, c, st)
           [] s = "tls"           -> AddSafeTLStoYaml(cg, c)
           [] s = "proxy"         -> AddProxyConfigToYaml(cg, c) : s \in settings}

AddFiltersToYaml(cg, c) ==
  IF "filters" \in c.opts THEN AppendMapItem(cg, "filters") ELSE {}

\* What a section yields: the fields that are emitted, the assets that are looked up in
\* the store, and whether an asset that has no default is missing there.
Section(c, st, emitted, must) ==
  [emit |-> emitted \cup (c.uses \cap must),
   read |-> (emitted \cap c.uses) \cup (c.uses \cap must),
   err |-> ~(c.uses \cap must \subseteq st)]

\* Settings that are appended whatever the version is.
Plain(c, settings) == c.opts \cap settings

-----------------------------------------------------------------------------
(* Checks.                                                                 *)

\* The own conditions of every section hold, and the settings it loads can be loaded.
Checked(S, Loads(_), Own(_)) ==
  [ok |-> \A c \in S : Own(c) /\ c.uses \cap Loads(c) \cap c.broken = {},
   loads |-> UNION {{<<c.disc, u>> : u \in c.uses \cap Loads(c)} : c \in S}]

Always(c) == TRUE
LoadsHTTPClient(c) == HTTPClient

\* A version that is too old is refused whether or not there is such a section.
Since(supported, checked) == [checked EXCEPT !.ok = @ /\ supported]

AllowedSelectors(role) ==
  IF role \in {"endpoints", "endpointslice"} THEN {"pod", "service", role} ELSE {role}

ValidateKubernetesSDConfigs(S) ==
  LET Own(c) == /\ ~({"apiServer", "ownNamespace"} \subseteq c.opts)
                /\ c.selectors \subseteq AllowedSelectors(c.role)
                /\ "badSelector" \notin c.opts
  IN Checked(S, LoadsHTTPClient, Own)

ValidateConsulSDConfigs(S, v) ==
  LET Own(c) == /\ "pathPrefix" \in c.opts => v >= 2450
                /\ "namespace" \in c.opts => v >= 2280
                /\ "filter" \in c.opts => v >= 3000
      Loads(c) == {"basicAuth", "authorization", "tls", "token", "proxy"}
  IN Checked(S, Loads, Own)

\* Mutant: the TLS assets are not loaded.
MutValidateHTTPSDConfigs(S, v) ==
  LET Own(c) == "badURL" \notin c.opts
      Loads(c) == HTTPClient \ {"tls"}
  IN Since(v >= 2280, Checked(S, Loads, Own))

ValidateHTTPSDConfigs(S, v) ==
  LET Own(c) == "badURL" \notin c.opts
  IN Since(v >= 2280, Checked(S, LoadsHTTPClient, Own))

ValidateDNSSDConfigs(S) ==
  LET Own(c) == c.opts \cap {"typeNS", "typeMX", "typeA"} # {} => "port" \in c.opts
      Loads(c) == {}
  IN Checked(S, Loads, Own)

ValidateEC2SDConfigs(S) ==
  LET Loads(c) == {"accessKey", "secretKey", "tls", "proxy"}
  IN Checked(S, Loads, Always)

\* Nothing is loaded for the methods that need no client Secret.
ValidateAzureSDConfigs(S, v) ==
  LET WithoutSecret(c) == c.opts \cap {"sdk", "managedIdentity"} # {}
      Own(c) == /\ "sdk" \in c.opts => v >= 2520
                /\ "resourceGroup" \in c.opts => v >= 2350
                /\ \/ WithoutSecret(c)
                   \/ {"tenantID", "clientID"} \subseteq c.opts /\ "clientSecret" \in c.uses
      Loads(c) == IF WithoutSecret(c) THEN {} ELSE HTTPClient \cup {"clientSecret"}
  IN Checked(S, Loads, Own)

ValidateOpenStackSDConfigs(S, v) ==
  LET Own(c) == "loadBalancer" \in c.opts => v >= 3020
      Loads(c) == {"password", "applicationCredentialSecret"}
  IN Checked(S, Loads, Own)

ValidateDigitalOceanSDConfigs(S, v) ==
  LET Loads(c) == HTTPClient \ {"basicAuth"}
  IN Since(v >= 2200, Checked(S, Loads, Always))

ValidateDockerSDConfigs(S) ==
  LET Own(c) == "badURL" \notin c.opts
  IN Checked(S, LoadsHTTPClient, Own)

ValidateLinodeSDConfigs(S, v) ==
  LET Loads(c) == HTTPClient \ {"basicAuth"}
  IN Since(v >= 2280, Checked(S, Loads, Always))

ValidateKumaSDConfigs(S) ==
  LET Own(c) == "badURL" \notin c.opts
  IN Checked(S, LoadsHTTPClient, Own)

ValidateEurekaSDConfigs(S) == Checked(S, LoadsHTTPClient, Always)
ValidateHetznerSDConfigs(S) == Checked(S, LoadsHTTPClient, Always)
ValidateNomadSDConfigs(S) == Checked(S, LoadsHTTPClient, Always)

ValidateDockerSwarmSDConfigs(S, v) ==
  LET Own(c) == "badURL" \notin c.opts
  IN Since(v >= 2200, Checked(S, LoadsHTTPClient, Own))

ValidatePuppetDBSDConfigs(S, v) ==
  LET Own(c) == "badURL" \notin c.opts
  IN Since(v >= 2310, Checked(S, LoadsHTTPClient, Own))

ValidateLightSailSDConfigs(S, v) ==
  LET Loads(c) == HTTPClient \cup {"accessKey", "secretKey"}
  IN Since(v >= 2270, Checked(S, Loads, Always))

ValidateOVHCloudSDConfigs(S, v) ==
  LET Loads(c) == {"applicationSecret", "consumerKey"}
  IN Since(v >= 2400, Checked(S, Loads, Always))

ValidateScalewaySDConfigs(S, v) ==
  LET Loads(c) == {"secretKey", "proxy", "tls"}
  IN Since(v >= 2260, Checked(S, Loads, Always))

ValidateStaticConfig(S) ==
  LET Own(c) == "badLabel" \notin c.opts
      Loads(c) == {}
  IN Checked(S, Loads, Own)

ValidateIonosSDConfigs(S, v) ==
  LET Loads(c) == HTTPClient \ {"basicAuth"}
  IN Since(v >= 2360, Checked(S, Loads, Always))

\* The checks of a ScrapeConfig, one for every kind of section.
SectionChecks(S, v) ==
  LET Of(d) == {c \in S : c.disc = d}
  IN {ValidateStaticConfig(Of("static")), ValidateHTTPSDConfigs(Of("http"), v),
      ValidateKubernetesSDConfigs(Of("kubernetes")), ValidateConsulSDConfigs(Of("consul"), v),
      ValidateDNSSDConfigs(Of("dns")), ValidateEC2SDConfigs(Of("ec2")),
      ValidateAzureSDConfigs(Of("azure"), v), ValidateOpenStackSDConfigs(Of("openstack"), v),
      ValidateDigitalOceanSDConfigs(Of("digitalocean"), v), ValidateKumaSDConfigs(Of("kuma")),
      ValidateEurekaSDConfigs(Of("eureka")), ValidateDockerSDConfigs(Of("docker")),
      ValidateLinodeSDConfigs(Of("linode"), v), ValidateHetznerSDConfigs(Of("hetzner")),
      ValidateNomadSDConfigs(Of("nomad")), ValidateDockerSwarmSDConfigs(Of("dockerswarm"), v),
      ValidatePuppetDBSDConfigs(Of("puppetdb"), v), ValidateLightSailSDConfigs(Of("lightsail"), v),
      ValidateOVHCloudSDConfigs(Of("ovhcloud"), v), ValidateScalewaySDConfigs(Of("scaleway"), v),
      ValidateIonosSDConfigs(Of("ionos"), v)}

-----------------------------------------------------------------------------
(* Generation.  st is the part of the asset store for the namespace.       *)

StaticConfig(c, st) == Section(c, st, Plain(c, {"labels"}), {})
FileSDConfig(c, st) == Section(c, st, Plain(c, {"refreshInterval"}), {})

HTTPSDConfig(cg, c, st) ==
  Section(c, st, AddToYaml(cg, c, st, HTTPClient) \cup Plain(c, HTTPOptions \cup {"refreshInterval"}), {})

\* The role and the metadata of nodes depend on the version, the latter on the role too.
KubernetesSDConfig(cg, c, st) ==
  LET role == IF c.role = "endpointslice" THEN WithMinimumVersion(cg, 2210) ELSE cg
      metadata == CASE c.role = "pod" -> AppendMapItem(WithMinimumVersion(cg, 2350), "attachMetadata")
                    [] c.role \in {"endpoints", "endpointslice"} ->
                         AppendMapItem(WithMinimumVersion(cg, 2370), "attachMetadata")
                    [] OTHER -> {}
  IN Section(c, st,
       AppendMapItem(role, "role") \cup AddToYaml(cg, c, st, HTTPClient)
       \cup Plain(c, HTTPOptions \cup {"apiServer", "namespaces", "ownNamespace"})
       \cup (IF c.selectors # {} THEN AppendMapItem(WithMinimumVersion(cg, 2170), "selectors") ELSE {})
       \cup (IF "attachMetadata" \in c.opts THEN metadata ELSE {}), {})

ConsulSDConfig(cg, c, st) ==
  Section(c, st,
    AddToYaml(cg, c, st, HTTPClient)
    \cup Plain(c, HTTPOptions \cup {"pathPrefix", "datacenter", "namespace", "partition", "scheme", "services",
                                    "tags", "tagSeparator", "nodeMeta", "filter", "allowStale",
                                    "refreshInterval"}), {"token"})

DNSSDConfig(cg, c, st) ==
  Section(c, st,
    Plain(c, {"refreshInterval", "port", "typeSRV", "typeA"})
    \cup (IF "typeNS" \in c.opts THEN AppendMapItem(WithMinimumVersion(cg, 2490), "typeNS") ELSE {})
    \cup (IF "typeMX" \in c.opts THEN AppendMapItem(WithMinimumVersion(cg, 2380), "typeMX") ELSE {}), {})

\* One key without the other is ignored.
AccessKeys(c) ==
  IF {"accessKey", "secretKey"} \subseteq c.uses THEN {"accessKey", "secretKey"} ELSE {}

EC2SDConfig(cg, c, st) ==
  LET client == WithMinimumVersion(cg, 2410)
  IN Section(c, st,
       Plain(c, {"region", "roleARN", "port", "refreshInterval"})
       \cup AddProxyConfigToYaml(cg, c) \cup AddFiltersToYaml(WithMinimumVersion(cg, 2030), c)
       \cup UNION {AppendMapItem(client, o) : o \in Plain(c, HTTPOptions)}
       \cup AddSafeTLStoYaml(client, c), AccessKeys(c))

\* The settings of the HTTP client that the check loads are not emitted.
AzureSDConfig(c, st) ==
  Section(c, st, Plain(c, {"environment", "sdk", "managedIdentity", "tenantID", "clientID", "resourceGroup",
                           "refreshInterval", "port"}), {"clientSecret"})

GCESDConfig(c, st) == Section(c, st, Plain(c, {"filter", "refreshInterval", "port", "tagSeparator"}), {})

OpenStackSDConfig(cg, c, st) ==
  Section(c, st,
    AddSafeTLStoYaml(cg, c)
    \cup Plain(c, {"identityEndpoint", "username", "userID", "domainName", "domainID", "projectName",
                   "projectID", "applicationCredentialName", "applicationCredentialID", "allTenants",
                   "refreshInterval", "port", "availability"}), {"password", "applicationCredentialSecret"})

DigitalOceanSDConfig(cg, c, st) ==
  Section(c, st, AddToYaml(cg, c, st, HTTPClient \ {"basicAuth"})
                 \cup Plain(c, HTTPOptions \cup {"port", "refreshInterval"}), {})

KumaSDConfig(cg, c, st) ==
  Section(c, st, AddToYaml(cg, c, st, HTTPClient)
                 \cup Plain(c, HTTPOptions \cup {"clientID", "refreshInterval", "fetchTimeout"}), {})

EurekaSDConfig(cg, c, st) ==
  Section(c, st, AddToYaml(cg, c, st, HTTPClient)
                 \cup Plain(c, HTTPOptions \cup {"refreshInterval"}), {})

DockerSDConfig(cg, c, st) ==
  Section(c, st,
    AddToYaml(cg, c, st, HTTPClient) \cup AddFiltersToYaml(cg, c)
    \cup Plain(c, HTTPOptions \cup {"port", "hostNetworkingHost", "refreshInterval"})
    \cup (IF "matchFirstNetwork" \in c.opts
          THEN AppendMapItem(WithMinimumVersion(cg, 2541), "matchFirstNetwork") ELSE {}), {})

LinodeSDConfig(cg, c, st) ==
  Section(c, st, AddToYaml(cg, c, st, HTTPClient \ {"basicAuth"})
                 \cup Plain(c, HTTPOptions \cup {"region", "port", "tagSeparator", "refreshInterval"}), {})

HetznerSDConfig(cg, c, st) ==
  Section(c, st,
    AddToYaml(cg, c, st, HTTPClient) \cup Plain(c, HTTPOptions \cup {"port", "refreshInterval"})
    \cup (IF "labelSelector" \in c.opts
          THEN AppendMapItem(WithMinimumVersion(cg, 3050), "labelSelector") ELSE {}), {})

NomadSDConfig(cg, c, st) ==
  Section(c, st, AddToYaml(cg, c, st, HTTPClient)
                 \cup Plain(c, HTTPOptions \cup {"allowStale", "namespace", "refreshInterval", "region",
                                                 "tagSeparator"}), {})

DockerSwarmSDConfig(cg, c, st) ==
  Section(c, st,
    AddToYaml(cg, c, st, HTTPClient) \cup AddFiltersToYaml(cg, c)
    \cup Plain(c, HTTPOptions \cup {"port", "refreshInterval"}), {})

PuppetDBSDConfig(cg, c, st) ==
  Section(c, st, AddToYaml(cg, c, st, HTTPClient)
                 \cup Plain(c, HTTPOptions \cup {"includeParameters", "refreshInterval", "port"}), {})

LightSailSDConfig(cg, c, st) ==
  Section(c, st, AddToYaml(cg, c, st, HTTPClient)
                 \cup Plain(c, HTTPOptions \cup {"region", "roleARN", "endpoint", "refreshInterval", "port"}),
          AccessKeys(c))

\* A missing asset becomes the empty string.
OVHCloudSDConfig(c, st) ==
  Section(c, st, (c.uses \cap {"applicationSecret", "consumerKey"})
                 \cup Plain(c, {"endpoint", "refreshInterval"}), {})

ScalewaySDConfig(cg, c, st) ==
  Section(c, st, (c.uses \cap {"secretKey"}) \cup AddToYaml(cg, c, st, {"proxy", "tls"})
                 \cup Plain(c, HTTPOptions \cup {"port", "apiURL", "zone", "nameFilter", "tagsFilter",
                                                 "refreshInterval"}), {})

\* OAuth2 is checked and not emitted.
IonosSDConfig(cg, c, st) ==
  Section(c, st, AddToYaml(cg, c, st, {"authorization", "proxy", "tls"})
                 \cup Plain(c, HTTPOptions \cup {"port", "refreshInterval"}), {})

SDConfig(cg, c, st) ==
  CASE c.disc = "static"       -> StaticConfig(c, st)
    [] c.disc = "file"         -> FileSDConfig(c, st)
    [] c.disc = "http"         -> HTTPSDConfig(cg, c, st)
    [] c.disc = "kubernetes"   -> KubernetesSDConfig(cg, c, st)
    [] c.disc = "consul"       -> ConsulSDConfig(cg, c, st)
    [] c.disc = "dns"          -> DNSSDConfig(cg, c, st)
    [] c.disc = "ec2"          -> EC2SDConfig(cg, c, st)
    [] c.disc = "azure"        -> AzureSDConfig(c, st)
    [] c.disc = "gce"          -> GCESDConfig(c, st)
    [] c.disc = "openstack"    -> OpenStackSDConfig(cg, c, st)
    [] c.disc = "digitalocean" -> DigitalOceanSDConfig(cg, c, st)
    [] c.disc = "kuma"         -> KumaSDConfig(cg, c, st)
    [] c.disc = "eureka"       -> EurekaSDConfig(cg, c, st)
    [] c.disc = "docker"       -> DockerSDConfig(cg, c, st)
    [] c.disc = "linode"       -> LinodeSDConfig(cg, c, st)
    [] c.disc = "hetzner"      -> HetznerSDConfig(cg, c, st)
    [] c.disc = "nomad"        -> NomadSDConfig(cg, c, st)
    [] c.disc = "dockerswarm"  -> DockerSwarmSDConfig(cg, c, st)
    [] c.disc = "puppetdb"     -> PuppetDBSDConfig(cg, c, st)
    [] c.disc = "lightsail"    -> LightSailSDConfig(cg, c, st)
    [] c.disc = "ovhcloud"     -> OVHCloudSDConfig(c, st)
    [] c.disc = "scaleway"     -> ScalewaySDConfig(cg, c, st)
    [] c.disc = "ionos"        -> IonosSDConfig(cg, c, st)

=============================================================================
