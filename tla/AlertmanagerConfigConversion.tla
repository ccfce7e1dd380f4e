------------------- MODULE AlertmanagerConfigConversion -------------------
(***************************************************************************)
(* The conversion webhook of AlertmanagerConfig: from the stored v1alpha1  *)
(* to v1beta1 (src/pkg/apis/monitoring/v1beta1/conversion_from.go) and     *)
(* back (conversion_to.go).  One operator per function of the source; a    *)
(* field that a function does not name is lost.  The lists of fields are   *)
(* those of the struct literals, so that the four places where a field has *)
(* to be named (two structs and two functions) are independent here too.   *)
(***************************************************************************)
EXTENDS ApiTypes

A == INSTANCE AlertmanagerConfigV1alpha1
B == INSTANCE AlertmanagerConfigV1beta1

---------------------------------------------------------------------------
\* v1alpha1 to v1beta1

convertMatchersFrom(in) ==
    Each(in, LAMBDA m :
        Copy(m, {"name", "value"})
        @@ ("matchType" :> CASE Set(m, "matchType") -> m["matchType"]
                             [] Set(m, "regex") -> "=~"
                             [] OTHER -> "="))

convertTimeIntervalsFrom(in) ==
    Each(in, LAMBDA ti :
        Copy(ti, {"weekdays", "months", "years"})
        @@ ViaEach(ti, {"times"}, LAMBDA tr : Copy(tr, {"startTime", "endTime"}))
        @@ ViaEach(ti, {"daysOfMonth"}, LAMBDA dm : Copy(dm, {"start", "end"})))

convertKeyValuesFrom(in) ==
    Each(in, LAMBDA kv : Copy(kv, {"key", "value"}))

convertSecretKeySelectorFrom(in) ==
    Copy(in, {"name", "key"})

convertOpsGenieConfigRespondersFrom(in) ==
    Each(in, LAMBDA r : Copy(r, {"id", "name", "username", "type"}))

convertPagerDutyImageConfigsFrom(in) ==
    Each(in, LAMBDA i : Copy(i, {"src", "href", "alt"}))

convertPagerDutyLinkConfigsFrom(in) ==
    Each(in, LAMBDA l : Copy(l, {"href", "alt"}))

convertSlackFieldsFrom(in) ==
    Each(in, LAMBDA f : Copy(f, {"title", "value", "short"}))

convertSlackActionsFrom(in) ==
    Each(in, LAMBDA a :
        Copy(a, {"type", "text", "url", "style", "name", "value"})
        @@ Via(a, {"confirm"}, LAMBDA c :
               Copy(c, {"text", "title", "okText", "dismissText"})))

convertHTTPConfigFrom(in) ==
    Copy(in, {"authorization", "basicAuth", "oauth2", "tlsConfig",
              "proxyURL", "proxyConfig", "followRedirects"})
    @@ Via(in, {"bearerTokenSecret"}, convertSecretKeySelectorFrom)

convertOpsGenieConfigFrom(in) ==
    Copy(in, {"sendResolved", "apiURL", "message", "description", "source",
              "tags", "note", "priority", "entity", "actions"})
    @@ Via(in, {"apiKey"}, convertSecretKeySelectorFrom)
    @@ Via(in, {"details"}, convertKeyValuesFrom)
    @@ Via(in, {"responders"}, convertOpsGenieConfigRespondersFrom)
    @@ Via(in, {"httpConfig"}, convertHTTPConfigFrom)

convertPagerDutyConfigFrom(in) ==
    Copy(in, {"sendResolved", "url", "client", "clientURL", "description",
              "severity", "class", "group", "component", "source"})
    @@ Via(in, {"routingKey", "serviceKey"}, convertSecretKeySelectorFrom)
    @@ Via(in, {"details"}, convertKeyValuesFrom)
    @@ Via(in, {"pagerDutyImageConfigs"}, convertPagerDutyImageConfigsFrom)
    @@ Via(in, {"pagerDutyLinkConfigs"}, convertPagerDutyLinkConfigsFrom)
    @@ Via(in, {"httpConfig"}, convertHTTPConfigFrom)

convertDiscordConfigFrom(in) ==
    Copy(in, {"apiURL", "title", "message", "sendResolved", "content",
              "username", "avatarURL"})
    @@ Via(in, {"httpConfig"}, convertHTTPConfigFrom)

convertSlackConfigFrom(in) ==
    Copy(in, {"sendResolved", "channel", "username", "color", "title",
              "titleLink", "pretext", "text", "shortFields", "footer",
              "fallback", "callbackId", "iconEmoji", "iconURL",
              "imageURL", "thumbURL", "linkNames", "mrkdwnIn"})
    @@ Via(in, {"apiURL"}, convertSecretKeySelectorFrom)
    @@ Via(in, {"fields"}, convertSlackFieldsFrom)
    @@ Via(in, {"actions"}, convertSlackActionsFrom)
    @@ Via(in, {"httpConfig"}, convertHTTPConfigFrom)

convertWebexConfigFrom(in) ==
    Copy(in, {"apiURL", "message", "roomID", "sendResolved"})
    @@ Via(in, {"httpConfig"}, convertHTTPConfigFrom)

convertWebhookConfigFrom(in) ==
    Copy(in, {"sendResolved", "url", "maxAlerts", "timeout"})
    @@ Via(in, {"urlSecret"}, convertSecretKeySelectorFrom)
    @@ Via(in, {"httpConfig"}, convertHTTPConfigFrom)

convertWeChatConfigFrom(in) ==
    Copy(in, {"sendResolved", "apiURL", "corpID", "agentID", "toUser",
              "toParty", "toTag", "message", "messageType"})
    @@ Via(in, {"apiSecret"}, convertSecretKeySelectorFrom)
    @@ Via(in, {"httpConfig"}, convertHTTPConfigFrom)

convertEmailConfigFrom(in) ==
    Copy(in, {"sendResolved", "to", "from", "hello", "smarthost",
              "authUsername", "authIdentity", "html", "text",
              "requireTLS", "tlsConfig"})
    @@ Via(in, {"authPassword", "authSecret"}, convertSecretKeySelectorFrom)
    @@ Via(in, {"headers"}, convertKeyValuesFrom)

convertVictorOpsConfigFrom(in) ==
    Copy(in, {"sendResolved", "apiUrl", "routingKey", "messageType",
              "entityDisplayName", "stateMessage", "monitoringTool"})
    @@ Via(in, {"apiKey"}, convertSecretKeySelectorFrom)
    @@ Via(in, {"customFields"}, convertKeyValuesFrom)
    @@ Via(in, {"httpConfig"}, convertHTTPConfigFrom)

\* Mutant: the sound of the notification is forgotten.
convertPushoverWithoutSound(in) ==
    Copy(in, {"sendResolved", "userKeyFile", "tokenFile", "title",
              "message", "url", "urlTitle", "device",
              "priority", "retry", "expire", "html"})
    @@ Via(in, {"userKey", "token"}, convertSecretKeySelectorFrom)
    @@ Via(in, {"httpConfig"}, convertHTTPConfigFrom)

convertPushoverConfigFrom(in) ==
    Copy(in, {"sendResolved", "userKeyFile", "tokenFile", "title",
              "message", "url", "urlTitle", "device", "sound",
              "priority", "retry", "expire", "html"})
    @@ Via(in, {"userKey", "token"}, convertSecretKeySelectorFrom)
    @@ Via(in, {"httpConfig"}, convertHTTPConfigFrom)

convertSNSConfigFrom(in) ==
    Copy(in, {"sendResolved", "apiURL", "sigv4", "topicARN", "subject",
              "phoneNumber", "targetARN", "message", "attributes"})
    @@ Via(in, {"httpConfig"}, convertHTTPConfigFrom)

convertTelegramConfigFrom(in) ==
    Copy(in, {"sendResolved", "apiURL", "botTokenFile", "chatID",
              "messageThreadID", "message", "disableNotifications",
              "parseMode"})
    @@ Via(in, {"botToken"}, convertSecretKeySelectorFrom)
    @@ Via(in, {"httpConfig"}, convertHTTPConfigFrom)

convertMSTeamsConfigFrom(in) ==
    Copy(in, {"sendResolved", "webhookUrl", "title", "summary", "text"})
    @@ Via(in, {"httpConfig"}, convertHTTPConfigFrom)

convertMSTeamsV2ConfigFrom(in) ==
    Copy(in, {"sendResolved", "webhookURL", "title", "text"})
    @@ Via(in, {"httpConfig"}, convertHTTPConfigFrom)

RECURSIVE convertRouteFrom(_)

convertRouteFrom(in) ==
    Copy(in, {"receiver", "continue", "groupBy", "groupWait",
              "groupInterval", "repeatInterval", "muteTimeIntervals",
              "activeTimeIntervals"})
    @@ Via(in, {"matchers"}, convertMatchersFrom)
    @@ ViaEach(in, {"routes"}, convertRouteFrom)

RECURSIVE RouteConvertsFrom(_)

\* convertRouteFrom returns no error.
RouteConvertsFrom(in) ==
    /\ A!ChildRoutesDecode(in)
    /\ Set(in, "routes") =>
          \A i \in DOMAIN in["routes"] : RouteConvertsFrom(in["routes"][i])

convertReceiverFrom(in) ==
    Copy(in, {"name"})
    @@ ViaEach(in, {"opsgenieConfigs"}, convertOpsGenieConfigFrom)
    @@ ViaEach(in, {"pagerdutyConfigs"}, convertPagerDutyConfigFrom)
    @@ ViaEach(in, {"discordConfigs"}, convertDiscordConfigFrom)
    @@ ViaEach(in, {"slackConfigs"}, convertSlackConfigFrom)
    @@ ViaEach(in, {"webexConfigs"}, convertWebexConfigFrom)
    @@ ViaEach(in, {"webhookConfigs"}, convertWebhookConfigFrom)
    @@ ViaEach(in, {"wechatConfigs"}, convertWeChatConfigFrom)
    @@ ViaEach(in, {"emailConfigs"}, convertEmailConfigFrom)
    @@ ViaEach(in, {"victoropsConfigs"}, convertVictorOpsConfigFrom)
    @@ ViaEach(in, {"pushoverConfigs"}, convertPushoverConfigFrom)
    @@ ViaEach(in, {"snsConfigs"}, convertSNSConfigFrom)
    @@ ViaEach(in, {"telegramConfigs"}, convertTelegramConfigFrom)
    @@ ViaEach(in, {"msteamsConfigs"}, convertMSTeamsConfigFrom)
    @@ ViaEach(in, {"msteamsv2Configs"}, convertMSTeamsV2ConfigFrom)

convertInhibitRuleFrom(in) ==
    Via(in, {"targetMatch", "sourceMatch"}, convertMatchersFrom)
    @@ Copy(in, {"equal"})

convertNamedIntervalFrom(in) ==
    Copy(in, {"name"})
    @@ Via(in, {"timeIntervals"}, convertTimeIntervalsFrom)

ConvertFrom(in) ==
    ViaEach(in, {"receivers"}, convertReceiverFrom)
    @@ ViaEach(in, {"inhibitRules"}, convertInhibitRuleFrom)
    @@ (IF Set(in, "muteTimeIntervals")
        THEN "timeIntervals" :> Each(in["muteTimeIntervals"], convertNamedIntervalFrom)
        ELSE << >>)
    @@ Via(in, {"route"}, convertRouteFrom)

ConvertsFrom(in) == Set(in, "route") => RouteConvertsFrom(in["route"])

---------------------------------------------------------------------------
\* v1beta1 to v1alpha1

convertMatchersTo(in) ==
    Each(in, LAMBDA m : Copy(m, {"name", "value", "matchType"}))

convertTimeIntervalsTo(in) ==
    Each(in, LAMBDA ti :
        Copy(ti, {"weekdays", "months", "years"})
        @@ ViaEach(ti, {"times"}, LAMBDA tr : Copy(tr, {"startTime", "endTime"}))
        @@ ViaEach(ti, {"daysOfMonth"}, LAMBDA dm : Copy(dm, {"start", "end"})))

convertKeyValuesTo(in) ==
    Each(in, LAMBDA kv : Copy(kv, {"key", "value"}))

convertSecretKeySelectorTo(in) ==
    Copy(in, {"name", "key"})

convertOpsGenieConfigRespondersTo(in) ==
    Each(in, LAMBDA r : Copy(r, {"id", "name", "username", "type"}))

convertPagerDutyImageConfigsTo(in) ==
    Each(in, LAMBDA i : Copy(i, {"src", "href", "alt"}))

convertPagerDutyLinkConfigsTo(in) ==
    Each(in, LAMBDA l : Copy(l, {"href", "alt"}))

convertSlackFieldsTo(in) ==
    Each(in, LAMBDA f : Copy(f, {"title", "value", "short"}))

convertSlackActionsTo(in) ==
    Each(in, LAMBDA a :
        Copy(a, {"type", "text", "url", "style", "name", "value"})
        @@ Via(a, {"confirm"}, LAMBDA c :
               Copy(c, {"text", "title", "okText", "dismissText"})))

convertHTTPConfigTo(in) ==
    Copy(in, {"authorization", "basicAuth", "oauth2", "tlsConfig",
              "proxyURL", "proxyConfig", "followRedirects"})
    @@ Via(in, {"bearerTokenSecret"}, convertSecretKeySelectorTo)

convertOpsGenieConfigTo(in) ==
    Copy(in, {"sendResolved", "apiURL", "message", "description", "source",
              "tags", "note", "priority", "entity", "actions"})
    @@ Via(in, {"apiKey"}, convertSecretKeySelectorTo)
    @@ Via(in, {"details"}, convertKeyValuesTo)
    @@ Via(in, {"responders"}, convertOpsGenieConfigRespondersTo)
    @@ Via(in, {"httpConfig"}, convertHTTPConfigTo)

convertPagerDutyConfigTo(in) ==
    Copy(in, {"sendResolved", "url", "client", "clientURL", "description",
              "severity", "class", "group", "component", "source"})
    @@ Via(in, {"routingKey", "serviceKey"}, convertSecretKeySelectorTo)
    @@ Via(in, {"details"}, convertKeyValuesTo)
    @@ Via(in, {"pagerDutyImageConfigs"}, convertPagerDutyImageConfigsTo)
    @@ Via(in, {"pagerDutyLinkConfigs"}, convertPagerDutyLinkConfigsTo)
    @@ Via(in, {"httpConfig"}, convertHTTPConfigTo)

convertDiscordConfigTo(in) ==
    Copy(in, {"apiURL", "title", "message", "sendResolved", "content",
              "username", "avatarURL"})
    @@ Via(in, {"httpConfig"}, convertHTTPConfigTo)

convertSlackConfigTo(in) ==
    Copy(in, {"sendResolved", "channel", "username", "color", "title",
              "titleLink", "pretext", "text", "shortFields", "footer",
              "fallback", "callbackId", "iconEmoji", "iconURL",
              "imageURL", "thumbURL", "linkNames", "mrkdwnIn"})
    @@ Via(in, {"apiURL"}, convertSecretKeySelectorTo)
    @@ Via(in, {"fields"}, convertSlackFieldsTo)
    @@ Via(in, {"actions"}, convertSlackActionsTo)
    @@ Via(in, {"httpConfig"}, convertHTTPConfigTo)

convertWebexConfigTo(in) ==
    Copy(in, {"apiURL", "message", "roomID", "sendResolved"})
    @@ Via(in, {"httpConfig"}, convertHTTPConfigTo)

convertWebhookConfigTo(in) ==
    Copy(in, {"sendResolved", "url", "maxAlerts", "timeout"})
    @@ Via(in, {"urlSecret"}, convertSecretKeySelectorTo)
    @@ Via(in, {"httpConfig"}, convertHTTPConfigTo)

convertWeChatConfigTo(in) ==
    Copy(in, {"sendResolved", "apiURL", "corpID", "agentID", "toUser",
              "toParty", "toTag", "message", "messageType"})
    @@ Via(in, {"apiSecret"}, convertSecretKeySelectorTo)
    @@ Via(in, {"httpConfig"}, convertHTTPConfigTo)

convertEmailConfigTo(in) ==
    Copy(in, {"sendResolved", "to", "from", "hello", "smarthost",
              "authUsername", "authIdentity", "html", "text",
              "requireTLS", "tlsConfig"})
    @@ Via(in, {"authPassword", "authSecret"}, convertSecretKeySelectorTo)
    @@ Via(in, {"headers"}, convertKeyValuesTo)

convertVictorOpsConfigTo(in) ==
    Copy(in, {"sendResolved", "apiUrl", "routingKey", "messageType",
              "entityDisplayName", "stateMessage", "monitoringTool"})
    @@ Via(in, {"apiKey"}, convertSecretKeySelectorTo)
    @@ Via(in, {"customFields"}, convertKeyValuesTo)
    @@ Via(in, {"httpConfig"}, convertHTTPConfigTo)

convertPushoverConfigTo(in) ==
    Copy(in, {"sendResolved", "userKeyFile", "tokenFile", "title",
              "message", "url", "urlTitle", "device", "sound",
              "priority", "retry", "expire", "html"})
    @@ Via(in, {"userKey", "token"}, convertSecretKeySelectorTo)
    @@ Via(in, {"httpConfig"}, convertHTTPConfigTo)

convertSNSConfigTo(in) ==
    Copy(in, {"sendResolved", "apiURL", "sigv4", "topicARN", "subject",
              "phoneNumber", "targetARN", "message", "attributes"})
    @@ Via(in, {"httpConfig"}, convertHTTPConfigTo)

convertTelegramConfigTo(in) ==
    Copy(in, {"sendResolved", "apiURL", "botTokenFile", "chatID",
              "messageThreadID", "message", "disableNotifications",
              "parseMode"})
    @@ Via(in, {"botToken"}, convertSecretKeySelectorTo)
    @@ Via(in, {"httpConfig"}, convertHTTPConfigTo)

convertMSTeamsConfigTo(in) ==
    Copy(in, {"sendResolved", "webhookUrl", "title", "text", "summary"})
    @@ Via(in, {"httpConfig"}, convertHTTPConfigTo)

convertMSTeamsV2ConfigTo(in) ==
    Copy(in, {"sendResolved", "webhookURL", "title", "text"})
    @@ Via(in, {"httpConfig"}, convertHTTPConfigTo)

RECURSIVE convertRouteTo(_)

convertRouteTo(in) ==
    Copy(in, {"receiver", "continue", "groupBy", "groupWait",
              "groupInterval", "repeatInterval", "muteTimeIntervals",
              "activeTimeIntervals"})
    @@ Via(in, {"matchers"}, convertMatchersTo)
    @@ ViaEach(in, {"routes"}, convertRouteTo)

RECURSIVE RouteConvertsTo(_)

\* convertRouteTo returns no error.
RouteConvertsTo(in) ==
    /\ B!ChildRoutesDecode(in)
    /\ Set(in, "routes") =>
          \A i \in DOMAIN in["routes"] : RouteConvertsTo(in["routes"][i])

convertReceiverTo(in) ==
    Copy(in, {"name"})
    @@ ViaEach(in, {"opsgenieConfigs"}, convertOpsGenieConfigTo)
    @@ ViaEach(in, {"pagerdutyConfigs"}, convertPagerDutyConfigTo)
    @@ ViaEach(in, {"discordConfigs"}, convertDiscordConfigTo)
    @@ ViaEach(in, {"slackConfigs"}, convertSlackConfigTo)
    @@ ViaEach(in, {"webexConfigs"}, convertWebexConfigTo)
    @@ ViaEach(in, {"webhookConfigs"}, convertWebhookConfigTo)
    @@ ViaEach(in, {"wechatConfigs"}, convertWeChatConfigTo)
    @@ ViaEach(in, {"emailConfigs"}, convertEmailConfigTo)
    @@ ViaEach(in, {"victoropsConfigs"}, convertVictorOpsConfigTo)
    @@ ViaEach(in, {"pushoverConfigs"}, convertPushoverConfigTo)
    @@ ViaEach(in, {"snsConfigs"}, convertSNSConfigTo)
    @@ ViaEach(in, {"telegramConfigs"}, convertTelegramConfigTo)
    @@ ViaEach(in, {"msteamsConfigs"}, convertMSTeamsConfigTo)
    @@ ViaEach(in, {"msteamsv2Configs"}, convertMSTeamsV2ConfigTo)

convertInhibitRuleTo(in) ==
    Via(in, {"targetMatch", "sourceMatch"}, convertMatchersTo)
    @@ Copy(in, {"equal"})

convertNamedIntervalTo(in) ==
    Copy(in, {"name"})
    @@ Via(in, {"timeIntervals"}, convertTimeIntervalsTo)

ConvertTo(in) ==
    ViaEach(in, {"receivers"}, convertReceiverTo)
    @@ ViaEach(in, {"inhibitRules"}, convertInhibitRuleTo)
    @@ (IF Set(in, "timeIntervals")
        THEN "muteTimeIntervals" :> Each(in["timeIntervals"], convertNamedIntervalTo)
        ELSE << >>)
    @@ Via(in, {"route"}, convertRouteTo)

ConvertsTo(in) == Set(in, "route") => RouteConvertsTo(in["route"])

===========================================================================
