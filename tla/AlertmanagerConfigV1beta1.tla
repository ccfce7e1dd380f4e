-------------------- MODULE AlertmanagerConfigV1beta1 ---------------------
(***************************************************************************)
(* The structs of the v1beta1 AlertmanagerConfig, which is served next to  *)
(* v1alpha1 and converted on every read and write                          *)
(* (src/pkg/apis/monitoring/v1beta1/alertmanager_config_types.go).  Most   *)
(* selectors of Secrets are of a type of its own that requires a name and  *)
(* a key; Discord and the Microsoft Teams integrations kept those of       *)
(* core/v1.                                                                *)
(***************************************************************************)
EXTENDS ApiTypes

AlertmanagerConfigSpec ==
    One("Route", {"route"})
    @@ Many("Receiver", {"receivers"})
    @@ Many("InhibitRule", {"inhibitRules"})
    @@ Many("TimeInterval", {"timeIntervals"})

Route ==
    Text({"receiver", "groupBy", "groupWait", "groupInterval",
          "repeatInterval", "continue", "muteTimeIntervals",
          "activeTimeIntervals"})
    @@ Many("Matcher", {"matchers"})
    @@ Raw({"routes"})

Receiver ==
    NonEmpty({"name"})
    @@ Many("OpsGenieConfig", {"opsgenieConfigs"})
    @@ Many("PagerDutyConfig", {"pagerdutyConfigs"})
    @@ Many("DiscordConfig", {"discordConfigs"})
    @@ Many("SlackConfig", {"slackConfigs"})
    @@ Many("WebhookConfig", {"webhookConfigs"})
    @@ Many("WeChatConfig", {"wechatConfigs"})
    @@ Many("EmailConfig", {"emailConfigs"})
    @@ Many("VictorOpsConfig", {"victoropsConfigs"})
    @@ Many("PushoverConfig", {"pushoverConfigs"})
    @@ Many("SNSConfig", {"snsConfigs"})
    @@ Many("TelegramConfig", {"telegramConfigs"})
    @@ Many("WebexConfig", {"webexConfigs"})
    @@ Many("MSTeamsConfig", {"msteamsConfigs"})
    @@ Many("MSTeamsV2Config", {"msteamsv2Configs"})

PagerDutyConfig ==
    Text({"sendResolved", "url", "client", "clientURL", "description",
          "severity", "class", "group", "component", "source"})
    @@ One("SecretKeySelector", {"routingKey", "serviceKey"})
    @@ Many("KeyValue", {"details"})
    @@ Many("PagerDutyImageConfig", {"pagerDutyImageConfigs"})
    @@ Many("PagerDutyLinkConfig", {"pagerDutyLinkConfigs"})
    @@ One("HTTPConfig", {"httpConfig"})

PagerDutyImageConfig ==
    Text({"src", "href", "alt"})

PagerDutyLinkConfig ==
    Text({"href", "alt"})

DiscordConfig ==
    Text({"sendResolved", "title", "message", "content", "username",
          "avatarURL"})
    @@ One("CoreSelector", {"apiURL"})
    @@ One("HTTPConfig", {"httpConfig"})

SlackConfig ==
    Text({"sendResolved", "channel", "username", "color", "title",
          "titleLink", "pretext", "text", "shortFields", "footer",
          "fallback", "callbackId", "iconEmoji", "iconURL", "imageURL",
          "thumbURL", "linkNames", "mrkdwnIn"})
    @@ One("SecretKeySelector", {"apiURL"})
    @@ Many("SlackField", {"fields"})
    @@ Many("SlackAction", {"actions"})
    @@ One("HTTPConfig", {"httpConfig"})

SlackAction ==
    NonEmpty({"type", "text"})
    @@ Text({"url", "style", "name", "value"})
    @@ One("SlackConfirmationField", {"confirm"})

SlackConfirmationField ==
    NonEmpty({"text"})
    @@ Text({"title", "okText", "dismissText"})

SlackField ==
    NonEmpty({"title", "value"})
    @@ Text({"short"})

WebhookConfig ==
    Text({"sendResolved", "url", "maxAlerts", "timeout"})
    @@ One("SecretKeySelector", {"urlSecret"})
    @@ One("HTTPConfig", {"httpConfig"})

OpsGenieConfig ==
    Text({"sendResolved", "apiURL", "message", "description", "source",
          "tags", "note", "priority", "entity", "actions"})
    @@ One("SecretKeySelector", {"apiKey"})
    @@ Many("KeyValue", {"details"})
    @@ Many("OpsGenieConfigResponder", {"responders"})
    @@ One("HTTPConfig", {"httpConfig"})

OpsGenieConfigResponder ==
    Text({"id", "name", "username"})
    @@ Enum({"team", "teams", "user", "escalation", "schedule"}, {"type"})

HTTPConfig ==
    Text({"authorization", "basicAuth", "oauth2", "tlsConfig", "proxyURL",
          "proxyConfig", "followRedirects"})
    @@ One("SecretKeySelector", {"bearerTokenSecret"})

WebexConfig ==
    Text({"sendResolved", "apiURL", "message"})
    @@ One("HTTPConfig", {"httpConfig"})
    @@ NonEmpty({"roomID"})

WeChatConfig ==
    Text({"sendResolved", "apiURL", "corpID", "agentID", "toUser",
          "toParty", "toTag", "message", "messageType"})
    @@ One("SecretKeySelector", {"apiSecret"})
    @@ One("HTTPConfig", {"httpConfig"})

EmailConfig ==
    Text({"sendResolved", "to", "from", "hello", "smarthost",
          "authUsername", "authIdentity", "html", "text", "requireTLS",
          "tlsConfig"})
    @@ One("SecretKeySelector", {"authPassword", "authSecret"})
    @@ Many("KeyValue", {"headers"})

VictorOpsConfig ==
    Text({"sendResolved", "apiUrl", "routingKey", "messageType",
          "entityDisplayName", "stateMessage", "monitoringTool"})
    @@ One("SecretKeySelector", {"apiKey"})
    @@ Many("KeyValue", {"customFields"})
    @@ One("HTTPConfig", {"httpConfig"})

PushoverConfig ==
    Text({"sendResolved", "userKeyFile", "tokenFile", "title", "message",
          "url", "urlTitle", "ttl", "device", "sound", "priority",
          "retry", "expire", "html"})
    @@ One("SecretKeySelector", {"userKey", "token"})
    @@ One("HTTPConfig", {"httpConfig"})

SNSConfig ==
    Text({"sendResolved", "apiURL", "sigv4", "topicARN", "subject",
          "phoneNumber", "targetARN", "message", "attributes"})
    @@ One("HTTPConfig", {"httpConfig"})

TelegramConfig ==
    Text({"sendResolved", "apiURL", "botTokenFile", "chatID",
          "messageThreadID", "message", "disableNotifications",
          "parseMode"})
    @@ One("SecretKeySelector", {"botToken"})
    @@ One("HTTPConfig", {"httpConfig"})

MSTeamsConfig ==
    Text({"sendResolved", "title", "summary", "text"})
    @@ One("CoreSelector", {"webhookUrl"})
    @@ One("HTTPConfig", {"httpConfig"})

MSTeamsV2Config ==
    Text({"sendResolved", "title", "text"})
    @@ One("CoreSelector", {"webhookURL"})
    @@ One("HTTPConfig", {"httpConfig"})

InhibitRule ==
    Many("Matcher", {"targetMatch", "sourceMatch"})
    @@ Text({"equal"})

KeyValue ==
    NonEmpty({"key"})
    @@ Text({"value"})

Matcher ==
    NonEmpty({"name"})
    @@ Text({"value"})
    @@ Enum({"=", "!=", "=~", "!~"}, {"matchType"})

SecretKeySelector ==
    NonEmpty({"name", "key"})

TimeInterval ==
    Text({"name"})
    @@ Many("TimePeriod", {"timeIntervals"})

TimePeriod ==
    Many("TimeRange", {"times"})
    @@ Text({"weekdays", "months", "years"})
    @@ Many("DayOfMonthRange", {"daysOfMonth"})

TimeRange ==
    Text({"startTime", "endTime"})

DayOfMonthRange ==
    Text({"start", "end"})

\* v1.SecretKeySelector of core/v1.
CoreSelector ==
    Text({"name", "key", "optional"})

---------------------------------------------------------------------------

Structs ==
    [AlertmanagerConfigSpec |-> AlertmanagerConfigSpec,
     Route |-> Route,
     Receiver |-> Receiver,
     PagerDutyConfig |-> PagerDutyConfig,
     PagerDutyImageConfig |-> PagerDutyImageConfig,
     PagerDutyLinkConfig |-> PagerDutyLinkConfig,
     DiscordConfig |-> DiscordConfig,
     SlackConfig |-> SlackConfig,
     SlackAction |-> SlackAction,
     SlackConfirmationField |-> SlackConfirmationField,
     SlackField |-> SlackField,
     WebhookConfig |-> WebhookConfig,
     OpsGenieConfig |-> OpsGenieConfig,
     OpsGenieConfigResponder |-> OpsGenieConfigResponder,
     HTTPConfig |-> HTTPConfig,
     WebexConfig |-> WebexConfig,
     WeChatConfig |-> WeChatConfig,
     EmailConfig |-> EmailConfig,
     VictorOpsConfig |-> VictorOpsConfig,
     PushoverConfig |-> PushoverConfig,
     SNSConfig |-> SNSConfig,
     TelegramConfig |-> TelegramConfig,
     MSTeamsConfig |-> MSTeamsConfig,
     MSTeamsV2Config |-> MSTeamsV2Config,
     InhibitRule |-> InhibitRule,
     KeyValue |-> KeyValue,
     Matcher |-> Matcher,
     SecretKeySelector |-> SecretKeySelector,
     TimeInterval |-> TimeInterval,
     TimePeriod |-> TimePeriod,
     TimeRange |-> TimeRange,
     DayOfMonthRange |-> DayOfMonthRange,
     CoreSelector |-> CoreSelector]

(***************************************************************************)
(* Route.ChildRoutes: the child routes are raw JSON and only decoded here, *)
(* each with all of its fields known to this version.                      *)
(***************************************************************************)
ChildRoutesDecode(route) ==
    Set(route, "routes") =>
        \A i \in DOMAIN route["routes"] :
           Decodes(Structs, "Route", route["routes"][i])
===========================================================================
