-------------------- MODULE AlertmanagerConfigV1alpha1 --------------------
(***************************************************************************)
(* The structs of the v1alpha1 AlertmanagerConfig, which is the version    *)
(* that is stored and the one that the Alertmanager controller reads       *)
(* (src/pkg/apis/monitoring/v1alpha1/alertmanager_config_types.go).        *)
(* Selectors of Secrets are those of core/v1, in which only the key is     *)
(* required and which have a field of their own to make them optional.     *)
(***************************************************************************)
EXTENDS ApiTypes

AlertmanagerConfigSpec ==
    One("Route", {"route"})
    @@ Many("Receiver", {"receivers"})
    @@ Many("InhibitRule", {"inhibitRules"})
    @@ Many("MuteTimeInterval", {"muteTimeIntervals"})

Route ==
    Text({"receiver", "groupBy", "groupWait", "groupInterval",
          "repeatInterval", "continue", "muteTimeIntervals",
          "activeTimeIntervals"})
    @@ Many("Matcher", {"matchers"})
    @@ Raw({"routes"})

Receiver ==
    NonEmpty({"name"})
    @@ Many("OpsGenieConfig", {"opsgenieConfigs"})
    @@ Many("PagerDutyConfig", {"pagerdutyConfigs"})
    @@ Many("DiscordConfig", {"discordConfigs"})
    @@ Many("SlackConfig", {"slackConfigs"})
    @@ Many("WebhookConfig", {"webhookConfigs"})
    @@ Many("WeChatConfig", {"wechatConfigs"})
    @@ Many("EmailConfig", {"emailConfigs"})
    @@ Many("VictorOpsConfig", {"victoropsConfigs"})
    @@ Many("PushoverConfig", {"pushoverConfigs"})
    @@ Many("SNSConfig", {"snsConfigs"})
    @@ Many("TelegramConfig", {"telegramConfigs"})
    @@ Many("WebexConfig", {"webexConfigs"})
    @@ Many("MSTeamsConfig", {"msteamsConfigs"})
    @@ Many("MSTeamsV2Config", {"msteamsv2Configs"})

PagerDutyConfig ==
    Text({"sendResolved", "url", "client", "clientURL", "description",
          "severity", "class", "group", "component", "source"})
    @@ One("CoreSelector", {"routingKey", "serviceKey"})
    @@ Many("KeyValue", {"details"})
    @@ Many("PagerDutyImageConfig", {"pagerDutyImageConfigs"})
    @@ Many("PagerDutyLinkConfig", {"pagerDutyLinkConfigs"})
    @@ One("HTTPConfig", {"httpConfig"})

PagerDutyImageConfig ==
    Text({"src", "href", "alt"})

PagerDutyLinkConfig ==
    Text({"href", "alt"})

DiscordConfig ==
    Text({"sendResolved", "title", "message", "content", "username",
          "avatarURL"})
    @@ One("CoreSelector", {"apiURL"})
    @@ One("HTTPConfig", {"httpConfig"})

SlackConfig ==
    Text({"sendResolved", "channel", "username", "color", "title",
          "titleLink", "pretext", "text", "shortFields", "footer",
          "fallback", "callbackId", "iconEmoji", "iconURL", "imageURL",
          "thumbURL", "linkNames", "mrkdwnIn"})
    @@ One("CoreSelector", {"apiURL"})
    @@ Many("SlackField", {"fields"})
    @@ Many("SlackAction", {"actions"})
    @@ One("HTTPConfig", {"httpConfig"})

SlackAction ==
    NonEmpty({"type", "text"})
    @@ Text({"url", "style", "name", "value"})
    @@ One("SlackConfirmationField", {"confirm"})

SlackConfirmationField ==
    NonEmpty({"text"})
    @@ Text({"title", "okText", "dismissText"})

SlackField ==
    NonEmpty({"title", "value"})
    @@ Text({"short"})

WebhookConfig ==
    Text({"sendResolved", "url", "maxAlerts", "timeout"})
    @@ One("CoreSelector", {"urlSecret"})
    @@ One("HTTPConfig", {"httpConfig"})

OpsGenieConfig ==
    Text({"sendResolved", "apiURL", "message", "description", "source",
          "tags", "note", "priority", "updateAlerts", "entity",
          "actions"})
    @@ One("CoreSelector", {"apiKey"})
    @@ Many("KeyValue", {"details"})
    @@ Many("OpsGenieConfigResponder", {"responders"})
    @@ One("HTTPConfig", {"httpConfig"})

OpsGenieConfigResponder ==
    Text({"id", "name", "username"})
    @@ NonEmpty({"type"})

HTTPConfig ==
    Text({"authorization", "basicAuth", "oauth2", "tlsConfig", "proxyURL",
          "proxyConfig", "followRedirects"})
    @@ One("CoreSelector", {"bearerTokenSecret"})

WebexConfig ==
    Text({"sendResolved", "apiURL", "message"})
    @@ One("HTTPConfig", {"httpConfig"})
    @@ NonEmpty({"roomID"})

WeChatConfig ==
    Text({"sendResolved", "apiURL", "corpID", "agentID", "toUser",
          "toParty", "toTag", "message", "messageType"})
    @@ One("CoreSelector", {"apiSecret"})
    @@ One("HTTPConfig", {"httpConfig"})

EmailConfig ==
    Text({"sendResolved", "to", "from", "hello", "smarthost",
          "authUsername", "authIdentity", "html", "text", "requireTLS",
          "tlsConfig"})
    @@ One("CoreSelector", {"authPassword", "authSecret"})
    @@ Many("KeyValue", {"headers"})

VictorOpsConfig ==
    Text({"sendResolved", "apiUrl", "routingKey", "messageType",
          "entityDisplayName", "stateMessage", "monitoringTool"})
    @@ One("CoreSelector", {"apiKey"})
    @@ Many("KeyValue", {"customFields"})
    @@ One("HTTPConfig", {"httpConfig"})

PushoverConfig ==
    Text({"sendResolved", "userKeyFile", "tokenFile", "title", "message",
          "url", "urlTitle", "ttl", "device", "sound", "priority",
          "retry", "expire", "html"})
    @@ One("CoreSelector", {"userKey", "token"})
    @@ One("HTTPConfig", {"httpConfig"})

SNSConfig ==
    Text({"sendResolved", "apiURL", "sigv4", "topicARN", "subject",
          "phoneNumber", "targetARN", "message", "attributes"})
    @@ One("HTTPConfig", {"httpConfig"})

TelegramConfig ==
    Text({"sendResolved", "apiURL", "botTokenFile", "chatID",
          "messageThreadID", "message", "disableNotifications",
          "parseMode"})
    @@ One("CoreSelector", {"botToken"})
    @@ One("HTTPConfig", {"httpConfig"})

MSTeamsConfig ==
    Text({"sendResolved", "title", "summary", "text"})
    @@ One("CoreSelector", {"webhookUrl"})
    @@ One("HTTPConfig", {"httpConfig"})

MSTeamsV2Config ==
    Text({"sendResolved", "title", "text"})
    @@ One("CoreSelector", {"webhookURL"})
    @@ One("HTTPConfig", {"httpConfig"})

InhibitRule ==
    Many("Matcher", {"targetMatch", "sourceMatch"})
    @@ Text({"equal"})

KeyValue ==
    NonEmpty({"key"})
    @@ Text({"value"})

Matcher ==
    NonEmpty({"name"})
    @@ Text({"value", "regex"})
    @@ Enum({"=", "!=", "=~", "!~"}, {"matchType"})

MuteTimeInterval ==
    Text({"name"})
    @@ Many("TimeInterval", {"timeIntervals"})

TimeInterval ==
    Many("TimeRange", {"times"})
    @@ Text({"weekdays", "months", "years"})
    @@ Many("DayOfMonthRange", {"daysOfMonth"})

TimeRange ==
    Text({"startTime", "endTime"})

DayOfMonthRange ==
    Text({"start", "end"})

\* v1.SecretKeySelector of core/v1.
CoreSelector ==
    Text({"name", "key", "optional"})

---------------------------------------------------------------------------

Structs ==
    [AlertmanagerConfigSpec |-> AlertmanagerConfigSpec,
     Route |-> Route,
     Receiver |-> Receiver,
     PagerDutyConfig |-> PagerDutyConfig,
     PagerDutyImageConfig |-> PagerDutyImageConfig,
     PagerDutyLinkConfig |-> PagerDutyLinkConfig,
     DiscordConfig |-> DiscordConfig,
     SlackConfig |-> SlackConfig,
     SlackAction |-> SlackAction,
     SlackConfirmationField |-> SlackConfirmationField,
     SlackField |-> SlackField,
     WebhookConfig |-> WebhookConfig,
     OpsGenieConfig |-> OpsGenieConfig,
     OpsGenieConfigResponder |-> OpsGenieConfigResponder,
     HTTPConfig |-> HTTPConfig,
     WebexConfig |-> WebexConfig,
     WeChatConfig |-> WeChatConfig,
     EmailConfig |-> EmailConfig,
     VictorOpsConfig |-> VictorOpsConfig,
     PushoverConfig |-> PushoverConfig,
     SNSConfig |-> SNSConfig,
     TelegramConfig |-> TelegramConfig,
     MSTeamsConfig |-> MSTeamsConfig,
     MSTeamsV2Config |-> MSTeamsV2Config,
     InhibitRule |-> InhibitRule,
     KeyValue |-> KeyValue,
     Matcher |-> Matcher,
     MuteTimeInterval |-> MuteTimeInterval,
     TimeInterval |-> TimeInterval,
     TimeRange |-> TimeRange,
     DayOfMonthRange |-> DayOfMonthRange,
     CoreSelector |-> CoreSelector]

(***************************************************************************)
(* Route.ChildRoutes: the child routes are raw JSON and only decoded here, *)
(* each with all of its fields known to this version.                      *)
(***************************************************************************)
ChildRoutesDecode(route) ==
    Set(route, "routes") =>
        \A i \in DOMAIN route["routes"] :
           Decodes(Structs, "Route", route["routes"][i])
===========================================================================
