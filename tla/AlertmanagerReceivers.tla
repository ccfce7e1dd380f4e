------------------------ MODULE AlertmanagerReceivers ------------------------
(***************************************************************************)
(* The life of one integration of an AlertmanagerConfig receiver: the      *)
(* semantic validation (pkg/alertmanager/validation/v1alpha1), the check   *)
(* against the Alertmanager version and the referenced Secrets             *)
(* (pkg/alertmanager/operator.go with pkg/assets), the conversion to the   *)
(* configuration of Alertmanager and its sanitization                      *)
(* (pkg/alertmanager/amcfg.go), and the conversions between the two API    *)
(* versions (pkg/apis/monitoring/v1beta1).                                 *)
(*                                                                         *)
(* An integration is a record: its kind, the plain fields it sets (opts),  *)
(* what each of its Secret key selectors leads to (sec) and its HTTP       *)
(* client configuration (http).  Fields that no stage looks at and that    *)
(* are copied as they are (templates, titles, colours) are left out.  The  *)
(* version of Alertmanager is the minor number n of 0.n.                   *)
(***************************************************************************)
EXTENDS Integers, FiniteSets

\* What a selector leads to.  "unset": there is no selector; "unnamed": it names
\* no Secret; "missing": the Secret or the key does not exist; the others are
\* the content of the key.
Resolved(content) == content \notin {"missing", "unnamed"}
NonEmpty(content) == content \in {"text", "url"}

\* The selectors of each kind of integration.
Selectors ==
  [ pagerduty |-> {"routingKey", "serviceKey"}, opsgenie |-> {"apiKey"},
    discord |-> {"apiURL"}, slack |-> {"apiURL"}, webhook |-> {"urlSecret"},
    wechat |-> {"apiSecret"}, webex |-> {}, email |-> {"authPassword", "authSecret"},
    victorops |-> {"apiKey"}, pushover |-> {"userKey", "token"},
    sns |-> {"accessKey", "secretKey"}, telegram |-> {"botToken"},
    msteams |-> {"webhookURL"}, msteamsv2 |-> {"webhookURL"},
    jira |-> {}, rocketchat |-> {"token"} ]

\* The plain fields of each kind.  "badX" stands for a malformed X; a name that
\* ends in File is a field of the raw configuration, except the three files that the
\* resources of pushover and telegram have too.
Options ==
  [ pagerduty |-> {"badURL", "source", "routingKeyFile", "serviceKeyFile"},
    opsgenie |-> {"badURL", "badResponder", "teamsResponder", "actions", "entity",
                  "updateAlerts", "apiKeyFile"},
    discord |-> {"content", "username", "avatarURL"},
    slack |-> {"badAction", "apiURLFile"},
    webhook |-> {"url", "badURL", "timeout", "urlFile"},
    wechat |-> {"badURL"}, webex |-> {"badURL"},
    email |-> {"to", "smarthost", "badSmarthost", "from", "duplicateHeader",
               "authPasswordFile"},
    victorops |-> {"badURL", "reservedField", "routingKey", "apiKeyFile"},
    pushover |-> {"userKeyFile", "tokenFile", "sound", "ttl", "device", "badDuration"},
    sns |-> {"topicARN", "targetARN", "phoneNumber"},
    telegram |-> {"botTokenFile", "chatID", "messageThreadID", "disableNotifications"},
    msteams |-> {"summary"}, msteamsv2 |-> {"webhookURLFile"},
    jira |-> {"project", "issueType"}, rocketchat |-> {"tokenFile"} ]

NoHTTP == [auths |-> {}, cred |-> "text", bad |-> {}, tls |-> "none", proxy |-> {},
           follow |-> FALSE]

-----------------------------------------------------------------------------
(* HTTP client configuration: auths are the authentication methods it sets,*)
(* whose selectors (and those of proxyConnectHeader) all lead to cred; bad *)
(* tells an authorization of type basic and an incomplete oauth2.  The     *)
(* proxy fields are proxyUrl, the older proxyURL that takes precedence     *)
(* over it, noProxy, fromEnv and header.                                   *)

TLSValid(tls) == tls \notin {"certWithoutKey", "minAboveMax"}

AuthorizationValid(h) == "authType" \notin h.bad /\ h.cred # "unset"

ProxyConflict(url, p) ==
  \/ "header" \in p /\ "fromEnv" \notin p /\ ~url
  \/ "fromEnv" \in p /\ (url \/ "noProxy" \in p)
  \/ "noProxy" \in p /\ ~url

\* HTTPConfig.Validate.  The older proxyURL takes no part in it.
HTTPValidate(h) ==
  /\ h.auths \cap {"basicAuth", "oauth2"} # {} => "bearerToken" \notin h.auths
  /\ "authorization" \in h.auths => h.auths = {"authorization"} /\ AuthorizationValid(h)
  /\ "oauth2" \in h.auths => "basicAuth" \notin h.auths /\ "oauth2" \notin h.bad
  /\ TLSValid(h.tls)
  /\ ~ProxyConflict("proxyUrl" \in h.proxy, h.proxy)

\* checkHTTPConfig
HTTPCheckVersion(h, v) ==
  /\ h.auths \cap {"authorization", "oauth2"} # {} => v >= 22
  /\ h.proxy \cap {"noProxy", "fromEnv", "header"} # {} => v >= 25

\* AddSafeTLSConfig: the material must exist and parse; an empty CA passes.
TLSStored(tls) == TLSValid(tls) /\ tls \notin {"missing", "malformed"}

\* configureHTTPConfigInStore: fetches what the configuration refers to.  The
\* credentials of an authorization are not fetched when they name no Secret.
HTTPStore(h) ==
  /\ "bearerToken" \in h.auths => Resolved(h.cred)
  /\ "authorization" \in h.auths /\ h.cred # "unset" =>
       AuthorizationValid(h) /\ (h.cred = "unnamed" \/ Resolved(h.cred))
  /\ "basicAuth" \in h.auths => Resolved(h.cred)
  /\ TLSStored(h.tls)
  /\ "header" \in h.proxy => Resolved(h.cred)
  /\ "oauth2" \in h.auths => "oauth2" \notin h.bad /\ Resolved(h.cred)

\* convertHTTPConfig: "panic" stands for the dereference of the nil credentials.
HTTPConvertOutcome(h) ==
  CASE h.cred = "unset" /\ "authorization" \in h.auths -> "panic"
    [] ~Resolved(h.cred) /\ (h.auths # {} \/ "header" \in h.proxy) -> "error"
    [] OTHER -> "ok"

HTTPConverted(h) ==
  [h EXCEPT !.auths = IF h.cred = "empty" THEN @ \cap {"oauth2"} ELSE @,
            !.proxy = IF "proxyURL" \in @ THEN (@ \ {"proxyURL"}) \cup {"proxyUrl"} ELSE @]

\* tlsConfig.sanitize and proxyConfig.sanitize
TLSSanitizeOK(tls, v) == v >= 25 => tls # "minAboveMax"
TLSSanitized(tls, v) == IF tls \in {"minVersion", "minAboveMax"} /\ v < 25 THEN "plain" ELSE tls

ProxySanitizeOK(p, v) == v >= 26 => ~ProxyConflict("proxyUrl" \in p, p)
ProxySanitized(p, v) == IF v >= 26 THEN p ELSE p \cap {"proxyUrl"}

\* httpClientConfig.sanitize, of a converted configuration
HTTPSanitizeOK(h, v) ==
  /\ h.auths \cap {"authorization", "oauth2"} # {} => v >= 22
  /\ TLSSanitizeOK(h.tls, v) /\ ProxySanitizeOK(h.proxy, v)

HTTPSanitized(h, v) ==
  [h EXCEPT !.follow = @ /\ v >= 22,
            !.tls = TLSSanitized(@, v), !.proxy = ProxySanitized(@, v)]

-----------------------------------------------------------------------------
(* Validation, irrespective of the version.  There is no validation of     *)
(* msteamsv2, and that of email does not look at its TLS settings.         *)

Sets(c, f) == c.sec[f] # "unset"

ValidatePagerDutyConfig(c) ==
  /\ "badURL" \notin c.opts /\ HTTPValidate(c.http)
  /\ Sets(c, "routingKey") \/ Sets(c, "serviceKey")

ValidateOpsGenieConfig(c) ==
  c.opts \cap {"badResponder", "badURL"} = {} /\ HTTPValidate(c.http)

ValidateDiscordConfig(c) == HTTPValidate(c.http)

ValidateSlackConfig(c) == "badAction" \notin c.opts /\ HTTPValidate(c.http)

ValidateWebhookConfig(c) ==
  /\ "url" \in c.opts \/ Sets(c, "urlSecret")
  /\ "badURL" \notin c.opts /\ HTTPValidate(c.http)

ValidateWechatConfig(c) == "badURL" \notin c.opts /\ HTTPValidate(c.http)

ValidateEmailConfig(c) ==
  "to" \in c.opts /\ c.opts \cap {"badSmarthost", "duplicateHeader"} = {}

ValidateVictorOpsConfig(c) ==
  /\ "reservedField" \notin c.opts /\ "routingKey" \in c.opts
  /\ "badURL" \notin c.opts /\ HTTPValidate(c.http)

ValidatePushoverConfig(c) ==
  /\ Sets(c, "userKey") \/ "userKeyFile" \in c.opts
  /\ Sets(c, "token") \/ "tokenFile" \in c.opts
  /\ HTTPValidate(c.http)

\* Two chained comparisons: three targets pass as one does.
ValidateSnsConfig(c) ==
  /\ (("targetARN" \notin c.opts) # ("topicARN" \notin c.opts)) = ("phoneNumber" \notin c.opts)
  /\ HTTPValidate(c.http)

ValidateTelegramConfig(c) ==
  /\ Sets(c, "botToken") \/ "botTokenFile" \in c.opts
  /\ "chatID" \in c.opts /\ HTTPValidate(c.http)

ValidateWebexConfig(c) == "badURL" \notin c.opts /\ HTTPValidate(c.http)

ValidateMSTeamsConfig(c) == HTTPValidate(c.http)

\* validateReceivers, of one integration
ValidateIntegration(c) ==
  CASE c.kind = "pagerduty" -> ValidatePagerDutyConfig(c)
    [] c.kind = "opsgenie"  -> ValidateOpsGenieConfig(c)
    [] c.kind = "discord"   -> ValidateDiscordConfig(c)
    [] c.kind = "slack"     -> ValidateSlackConfig(c)
    [] c.kind = "webhook"   -> ValidateWebhookConfig(c)
    [] c.kind = "wechat"    -> ValidateWechatConfig(c)
    [] c.kind = "email"     -> ValidateEmailConfig(c)
    [] c.kind = "victorops" -> ValidateVictorOpsConfig(c)
    [] c.kind = "pushover"  -> ValidatePushoverConfig(c)
    [] c.kind = "sns"       -> ValidateSnsConfig(c)
    [] c.kind = "telegram"  -> ValidateTelegramConfig(c)
    [] c.kind = "webex"     -> ValidateWebexConfig(c)
    [] c.kind = "msteams"   -> ValidateMSTeamsConfig(c)
    [] OTHER                -> TRUE

-----------------------------------------------------------------------------
(* The check against a version and the Secrets.  The store keeps what a    *)
(* check reads for the conversion.                                         *)

\* The selectors the check fetches: that of msteams fetches none.
CheckReads(kind) == IF kind = "msteams" THEN {} ELSE Selectors[kind]

CheckHTTP(c, v) == HTTPCheckVersion(c.http, v) /\ HTTPStore(c.http)
Fetch(c, f) == Resolved(c.sec[f])
FetchURL(c, f) == c.sec[f] \in {"unset", "url"}

CheckPagerDutyConfig(c, v) ==
  CheckHTTP(c, v) /\ Fetch(c, "routingKey") /\ Fetch(c, "serviceKey")

CheckOpsGenieConfig(c, v) ==
  CheckHTTP(c, v) /\ Fetch(c, "apiKey") /\ ("teamsResponder" \in c.opts => v >= 24)

CheckDiscordConfig(c, v) == v >= 25 /\ CheckHTTP(c, v) /\ c.sec["apiURL"] = "url"

CheckSlackConfig(c, v) == CheckHTTP(c, v) /\ FetchURL(c, "apiURL")

CheckWebhookConfig(c, v) == CheckHTTP(c, v) /\ FetchURL(c, "urlSecret")

CheckWechatConfig(c, v) == CheckHTTP(c, v) /\ Fetch(c, "apiSecret")

CheckWebexConfig(c, v) == v >= 25 /\ CheckHTTP(c, v)

CheckEmailConfig(c) ==
  Fetch(c, "authPassword") /\ Fetch(c, "authSecret") /\ TLSStored(c.http.tls)

CheckVictorOpsConfig(c, v) == CheckHTTP(c, v) /\ Fetch(c, "apiKey")

CheckPushoverConfig(c, v) ==
  /\ CheckHTTP(c, v) /\ "badDuration" \notin c.opts
  /\ NonEmpty(c.sec["userKey"]) /\ NonEmpty(c.sec["token"])

\* With AddSigV4: both keys or none.
CheckSnsConfig(c, v) ==
  /\ CheckHTTP(c, v) /\ Fetch(c, "accessKey") /\ Fetch(c, "secretKey")
  /\ Sets(c, "accessKey") <=> Sets(c, "secretKey")

\* Mutant: the version of Alertmanager is not compared.
CheckTelegramAnyVersion(c, v) == CheckHTTP(c, v) /\ Fetch(c, "botToken")

CheckTelegramConfig(c, v) == v >= 24 /\ CheckHTTP(c, v) /\ Fetch(c, "botToken")

CheckMSTeamsConfig(c, v) == v >= 26 /\ CheckHTTP(c, v)

CheckMSTeamsV2Config(c, v) == v >= 28 /\ CheckHTTP(c, v) /\ Fetch(c, "webhookURL")

\* checkReceivers, of one integration
CheckIntegration(c, v) ==
  CASE c.kind = "pagerduty" -> CheckPagerDutyConfig(c, v)
    [] c.kind = "opsgenie"  -> CheckOpsGenieConfig(c, v)
    [] c.kind = "discord"   -> CheckDiscordConfig(c, v)
    [] c.kind = "slack"     -> CheckSlackConfig(c, v)
    [] c.kind = "webhook"   -> CheckWebhookConfig(c, v)
    [] c.kind = "wechat"    -> CheckWechatConfig(c, v)
    [] c.kind = "webex"     -> CheckWebexConfig(c, v)
    [] c.kind = "email"     -> CheckEmailConfig(c)
    [] c.kind = "victorops" -> CheckVictorOpsConfig(c, v)
    [] c.kind = "pushover"  -> CheckPushoverConfig(c, v)
    [] c.kind = "sns"       -> CheckSnsConfig(c, v)
    [] c.kind = "telegram"  -> CheckTelegramConfig(c, v)
    [] c.kind = "msteams"   -> CheckMSTeamsConfig(c, v)
    [] c.kind = "msteamsv2" -> CheckMSTeamsV2Config(c, v)

-----------------------------------------------------------------------------
(* Conversion: its outcome and the integration of the configuration.       *)

ErrorFor(c) == [outcome |-> "error", out |-> c]

\* What every conversion ends with: the fields it copies and the HTTP client.
Copy(c, opts) ==
  [outcome |-> HTTPConvertOutcome(c.http),
   out |-> [c EXCEPT !.opts = opts, !.http = HTTPConverted(@)]]

\* urlSecret takes precedence over url.
ConvertWebhookConfig(c) ==
  IF ~FetchURL(c, "urlSecret") THEN ErrorFor(c)
  ELSE Copy(c, c.opts \ IF Sets(c, "urlSecret") THEN {"url"} ELSE {})

ConvertDiscordConfig(c) ==
  IF c.sec["apiURL"] # "url" THEN ErrorFor(c) ELSE Copy(c, c.opts)

ConvertSlackConfig(c) == IF ~FetchURL(c, "apiURL") THEN ErrorFor(c) ELSE Copy(c, c.opts)

ConvertPagerdutyConfig(c) ==
  IF ~(Fetch(c, "routingKey") /\ Fetch(c, "serviceKey")) THEN ErrorFor(c) ELSE Copy(c, c.opts)

ConvertOpsgenieConfig(c) == IF ~Fetch(c, "apiKey") THEN ErrorFor(c) ELSE Copy(c, c.opts)

ConvertWeChatConfig(c) == IF ~Fetch(c, "apiSecret") THEN ErrorFor(c) ELSE Copy(c, c.opts)

ConvertWebexConfig(c) == Copy(c, c.opts)

\* smtp is what an email integration falls back to: "smtp" when the global section of
\* the configuration under construction sets the smarthost and the sender, "none" when
\* it does not, "nil" when there is no configuration yet, which is then dereferenced.
ConvertEmailConfig(c, smtp) ==
  CASE ~{"smarthost", "from"} \subseteq c.opts /\ smtp = "nil" -> [outcome |-> "panic", out |-> c]
    [] ~{"smarthost", "from"} \subseteq c.opts /\ smtp = "none" -> ErrorFor(c)
    [] ~(Fetch(c, "authPassword") /\ Fetch(c, "authSecret")) -> ErrorFor(c)
    [] OTHER -> [outcome |-> "ok", out |-> c]

ConvertVictorOpsConfig(c) ==
  IF ~Fetch(c, "apiKey") \/ "reservedField" \in c.opts THEN ErrorFor(c) ELSE Copy(c, c.opts)

ConvertPushoverConfig(c) ==
  IF ~(NonEmpty(c.sec["userKey"]) /\ NonEmpty(c.sec["token"])) \/ "badDuration" \in c.opts
  THEN ErrorFor(c) ELSE Copy(c, c.opts \ {"sound", "userKeyFile", "tokenFile"})

ConvertTelegramConfig(c) ==
  IF c.sec["botToken"] \in {"missing", "unnamed", "empty"} THEN ErrorFor(c)
  ELSE Copy(c, c.opts \ {"botTokenFile", "disableNotifications"})

ConvertSnsConfig(c) ==
  IF Sets(c, "accessKey") /\ Sets(c, "secretKey") /\ ~(Fetch(c, "accessKey") /\ Fetch(c, "secretKey"))
  THEN ErrorFor(c) ELSE Copy(c, c.opts)

ConvertMSTeamsConfig(c) == IF ~Fetch(c, "webhookURL") THEN ErrorFor(c) ELSE Copy(c, c.opts)

ConvertMSTeamsV2Config(c) == IF ~Fetch(c, "webhookURL") THEN ErrorFor(c) ELSE Copy(c, c.opts)

\* convertReceiver, of one integration
Convert(c, smtp) ==
  CASE c.kind = "pagerduty" -> ConvertPagerdutyConfig(c)
    [] c.kind = "discord"   -> ConvertDiscordConfig(c)
    [] c.kind = "slack"     -> ConvertSlackConfig(c)
    [] c.kind = "webhook"   -> ConvertWebhookConfig(c)
    [] c.kind = "opsgenie"  -> ConvertOpsgenieConfig(c)
    [] c.kind = "wechat"    -> ConvertWeChatConfig(c)
    [] c.kind = "email"     -> ConvertEmailConfig(c, smtp)
    [] c.kind = "victorops" -> ConvertVictorOpsConfig(c)
    [] c.kind = "pushover"  -> ConvertPushoverConfig(c)
    [] c.kind = "sns"       -> ConvertSnsConfig(c)
    [] c.kind = "telegram"  -> ConvertTelegramConfig(c)
    [] c.kind = "webex"     -> ConvertWebexConfig(c)
    [] c.kind = "msteams"   -> ConvertMSTeamsConfig(c)
    [] c.kind = "msteamsv2" -> ConvertMSTeamsV2Config(c)

-----------------------------------------------------------------------------
(* Sanitization of a converted or raw integration, for a version: whether  *)
(* it succeeds, and the integration without the fields it drops.           *)

\* The fields a version knows: since gives the first version of the newer ones.
Known(opts, since, v) == {f \in opts : f \in DOMAIN since => v >= since[f]}

\* A file is dropped where the value itself is given.
Inlined(c, inline) == {f \in DOMAIN inline : NonEmpty(c.sec[inline[f]])}

Keep(c, v, ok, opts) ==
  [ok |-> ok /\ HTTPSanitizeOK(c.http, v),
   out |-> [c EXCEPT !.opts = opts, !.http = HTTPSanitized(@, v)]]

SanitizeEmailConfig(c, v) ==
  [ok |-> TRUE,
   out |-> [c EXCEPT !.opts = Known(@, [authPasswordFile |-> 25], v)
                              \ Inlined(c, [authPasswordFile |-> "authPassword"])]]

SanitizeOpsgenieConfig(c, v) ==
  Keep(c, v, "teamsResponder" \in c.opts => v >= 24,
       Known(c.opts, [actions |-> 24, entity |-> 24, updateAlerts |-> 24, apiKeyFile |-> 24], v)
         \ Inlined(c, [apiKeyFile |-> "apiKey"]))

SanitizePagerdutyConfig(c, v) ==
  Keep(c, v, TRUE,
       Known(c.opts, [source |-> 25, routingKeyFile |-> 25, serviceKeyFile |-> 25], v)
         \ Inlined(c, [routingKeyFile |-> "routingKey", serviceKeyFile |-> "serviceKey"]))

SanitizePushoverConfig(c, v) ==
  LET known == Known(c.opts, [userKeyFile |-> 26, tokenFile |-> 26, ttl |-> 27, device |-> 26], v)
  IN Keep(c, v, /\ NonEmpty(c.sec["userKey"]) \/ "userKeyFile" \in known
                /\ NonEmpty(c.sec["token"]) \/ "tokenFile" \in known,
          known \ Inlined(c, [userKeyFile |-> "userKey", tokenFile |-> "token"]))

SanitizeSlackConfig(c, v) ==
  Keep(c, v, TRUE, Known(c.opts, [apiURLFile |-> 22], v) \ Inlined(c, [apiURLFile |-> "apiURL"]))

SanitizeVictorOpsConfig(c, v) ==
  Keep(c, v, TRUE, Known(c.opts, [apiKeyFile |-> 25], v) \ Inlined(c, [apiKeyFile |-> "apiKey"]))

SanitizeWebhookConfig(c, v) ==
  Keep(c, v, TRUE,
       Known(c.opts, [urlFile |-> 26, timeout |-> 28], v)
         \ IF "url" \in c.opts THEN {"urlFile"} ELSE Inlined(c, [urlFile |-> "urlSecret"]))

SanitizeMSTeamsConfig(c, v) ==
  Keep(c, v, v >= 26 /\ NonEmpty(c.sec["webhookURL"]), Known(c.opts, [summary |-> 27], v))

SanitizeMSTeamsV2Config(c, v) ==
  Keep(c, v, v >= 28 /\ (NonEmpty(c.sec["webhookURL"]) # ("webhookURLFile" \in c.opts)), c.opts)

SanitizeWeChatConfig(c, v) == Keep(c, v, TRUE, c.opts)

SanitizeSnsConfig(c, v) == Keep(c, v, TRUE, c.opts)

SanitizeTelegramConfig(c, v) ==
  LET known == Known(c.opts, [botTokenFile |-> 26, messageThreadID |-> 26], v)
  IN Keep(c, v, /\ v >= 24 /\ "chatID" \in c.opts
                /\ NonEmpty(c.sec["botToken"]) \/ "botTokenFile" \in known,
          known \ Inlined(c, [botTokenFile |-> "botToken"]))

SanitizeDiscordConfig(c, v) ==
  Keep(c, v, v >= 25, Known(c.opts, [content |-> 28, username |-> 28, avatarURL |-> 28], v))

\* The room is a mandatory field of the resource.
SanitizeWebexConfig(c, v) == Keep(c, v, v >= 25, c.opts)

SanitizeJiraConfig(c, v) ==
  Keep(c, v, v >= 28 /\ {"project", "issueType"} \subseteq c.opts, c.opts)

SanitizeRocketChatConfig(c, v) ==
  Keep(c, v, v >= 28 /\ ~(Sets(c, "token") /\ "tokenFile" \in c.opts), c.opts)

\* receiver.sanitize, of one integration
Sanitize(c, v) ==
  CASE c.kind = "email"      -> SanitizeEmailConfig(c, v)
    [] c.kind = "opsgenie"   -> SanitizeOpsgenieConfig(c, v)
    [] c.kind = "pagerduty"  -> SanitizePagerdutyConfig(c, v)
    [] c.kind = "pushover"   -> SanitizePushoverConfig(c, v)
    [] c.kind = "slack"      -> SanitizeSlackConfig(c, v)
    [] c.kind = "victorops"  -> SanitizeVictorOpsConfig(c, v)
    [] c.kind = "webhook"    -> SanitizeWebhookConfig(c, v)
    [] c.kind = "wechat"     -> SanitizeWeChatConfig(c, v)
    [] c.kind = "sns"        -> SanitizeSnsConfig(c, v)
    [] c.kind = "telegram"   -> SanitizeTelegramConfig(c, v)
    [] c.kind = "discord"    -> SanitizeDiscordConfig(c, v)
    [] c.kind = "webex"      -> SanitizeWebexConfig(c, v)
    [] c.kind = "msteams"    -> SanitizeMSTeamsConfig(c, v)
    [] c.kind = "msteamsv2"  -> SanitizeMSTeamsV2Config(c, v)
    [] c.kind = "jira"       -> SanitizeJiraConfig(c, v)
    [] c.kind = "rocketchat" -> SanitizeRocketChatConfig(c, v)

-----------------------------------------------------------------------------
(* Conversion to v1beta1 and back to v1alpha1, the version the operator    *)
(* reads.  The fields that v1beta1 does not have, or that the conversions  *)
(* do not copy, are lost.                                                  *)

\* Mutant: the timeout of a webhook is not copied either.
ConvertFromWithoutTimeout(c) ==
  [c EXCEPT !.opts = @ \ {"updateAlerts", "ttl", "timeout"}]

ConvertFromV1alpha1(c) ==
  [c EXCEPT !.opts = @ \ CASE c.kind = "opsgenie" -> {"updateAlerts"}
                           [] c.kind = "pushover" -> {"ttl"}
                           [] OTHER -> {}]

ConvertToV1alpha1(c) ==
  [c EXCEPT !.opts = @ \ CASE c.kind = "pushover" -> {"ttl"} [] OTHER -> {}]

=============================================================================
