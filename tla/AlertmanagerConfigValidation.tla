------------------- MODULE AlertmanagerConfigValidation -------------------
(***************************************************************************)
(* What the validating webhook checks of an AlertmanagerConfig beyond the  *)
(* schema (src/pkg/alertmanager/validation/v1beta1/validation.go and the   *)
(* Validate methods of src/pkg/apis/monitoring/v1beta1).  The v1alpha1     *)
(* packages hold the same functions on the v1alpha1 structs; what differs, *)
(* the name of the list of time intervals and the structs that the child   *)
(* routes are decoded into, is a parameter.                                *)
(*                                                                         *)
(* The text of a field is BadText when it does not parse as what the field *)
(* should be (a URL, a duration, a credential); parsed ranges are pairs of *)
(* numbers, NotParsed stands for an element that is no number, day or      *)
(* month.                                                                  *)
(***************************************************************************)
EXTENDS ApiTypes, Integers

CONSTANTS BadText, NotParsed

BadField(c, f) == Set(c, f) /\ c[f] = BadText

---------------------------------------------------------------------------
(* src/pkg/apis/monitoring/v1beta1/validation.go                           *)

HTTPConfigValid(hc) ==
    /\ Set(hc, "bearerTokenSecret") =>
          {"basicAuth", "oauth2", "authorization"} \cap DOMAIN hc = {}
    /\ Set(hc, "authorization") =>
          /\ {"basicAuth", "oauth2"} \cap DOMAIN hc = {}
          /\ ~BadField(hc, "authorization")
    /\ Set(hc, "oauth2") => ~Set(hc, "basicAuth") /\ ~BadField(hc, "oauth2")
    /\ ~BadField(hc, "tlsConfig")
    /\ ~BadField(hc, "proxyConfig")

\* The method is called on the field of the integration, nil included.
ClientValid(c) == Set(c, "httpConfig") => HTTPConfigValid(c["httpConfig"])

TimeRangeValid(tr) ==
    /\ Set(tr, "startTime") /\ Set(tr, "endTime")
    /\ NotParsed \notin {tr["startTime"], tr["endTime"]}
    /\ tr["startTime"] < tr["endTime"]

WeekdayRangeValid(wr) ==
    /\ NotParsed \notin {wr[1], wr[2]}
    /\ wr[1] <= wr[2] /\ wr[1] \in 0..6 /\ wr[2] \in 0..6

YearRangeValid(yr) == NotParsed \notin {yr[1], yr[2]} /\ yr[1] <= yr[2]

MonthInt(m) == IF m \in 1..12 THEN m ELSE NotParsed

MonthRangeValid(mr) ==
    /\ NotParsed \notin {MonthInt(mr[1]), MonthInt(mr[2])}
    /\ mr[1] <= mr[2]

\* Days are counted in a month of 28 when one is given from the end.
DayOfMonthRangeValid(r) ==
    LET start == IF Set(r, "start") THEN r["start"] ELSE 0
        end == IF Set(r, "end") THEN r["end"] ELSE 0
        Day(d) == IF d < 0 THEN 28 + d ELSE d
    IN  /\ {start, end} \subseteq (-31..31) \ {0}
        /\ ~(start < 0 /\ end > 0)
        /\ Day(start) <= Day(end)

TimePeriodValid(ti) ==
    LET All(f, Valid(_)) == Set(ti, f) => \A i \in DOMAIN ti[f] : Valid(ti[f][i])
    IN  /\ All("times", TimeRangeValid)
        /\ All("weekdays", WeekdayRangeValid)
        /\ All("daysOfMonth", DayOfMonthRangeValid)
        /\ All("months", MonthRangeValid)
        /\ All("years", YearRangeValid)

TimeIntervalValid(ti) ==
    /\ Set(ti, "name")
    /\ Set(ti, "timeIntervals") =>
          \A i \in DOMAIN ti["timeIntervals"] :
             TimePeriodValid(ti["timeIntervals"][i])

---------------------------------------------------------------------------
(* The Validate methods next to the structs                                *)

SlackConfirmationFieldValid(scf) == Set(scf, "text")

SlackActionValid(sa) ==
    /\ Set(sa, "type") /\ Set(sa, "text")
    /\ Set(sa, "url") \/ Set(sa, "name")
    /\ Set(sa, "confirm") => SlackConfirmationFieldValid(sa["confirm"])

SlackFieldValid(sf) == Set(sf, "title") /\ Set(sf, "value")

SlackConfigValid(sc) ==
    /\ Set(sc, "actions") =>
          \A i \in DOMAIN sc["actions"] : SlackActionValid(sc["actions"][i])
    /\ Set(sc, "fields") =>
          \A i \in DOMAIN sc["fields"] : SlackFieldValid(sc["fields"][i])

(***************************************************************************)
(* The type is compared in lower case ("Team" passes), and a template only *)
(* has to parse.                                                           *)
(***************************************************************************)
OpsGenieConfigResponderValid(r) ==
    /\ {"id", "name", "username"} \cap DOMAIN r # {}
    /\ Set(r, "type") /\ ~BadField(r, "type")

OpsGenieConfigValid(o) ==
    Set(o, "responders") =>
        \A i \in DOMAIN o["responders"] :
           OpsGenieConfigResponderValid(o["responders"][i])

\* A matcher without a type is not looked at, not even at its name.
MatcherValid(m) ==
    Set(m, "matchType") => ~BadField(m, "matchType") /\ ~BadField(m, "name")

---------------------------------------------------------------------------
(* src/pkg/alertmanager/validation/v1beta1/validation.go                   *)

validatePagerDutyConfig(c) ==
    /\ ~BadField(c, "url")
    /\ Set(c, "routingKey") \/ Set(c, "serviceKey")
    /\ ClientValid(c)

validateOpsGenieConfig(c) ==
    OpsGenieConfigValid(c) /\ ~BadField(c, "apiURL") /\ ClientValid(c)

validateSlackConfig(c) == SlackConfigValid(c) /\ ClientValid(c)

validateWebhookConfig(c) ==
    /\ Set(c, "url") \/ Set(c, "urlSecret")
    /\ ~BadField(c, "url")
    /\ ClientValid(c)

validateWechatConfig(c) == ~BadField(c, "apiURL") /\ ClientValid(c)

\* Header names are compared in lower case; here they are in lower case.
validateEmailConfig(c) ==
    /\ Set(c, "to")
    /\ ~BadField(c, "smarthost")
    /\ Set(c, "headers") =>
          \A i, j \in DOMAIN c["headers"] :
             c["headers"][i]["key"] = c["headers"][j]["key"] => i = j

\* A custom field whose key is BadText has one of the reserved names.
validateVictorOpsConfig(c) ==
    /\ Set(c, "customFields") =>
          \A i \in DOMAIN c["customFields"] : ~BadField(c["customFields"][i], "key")
    /\ Set(c, "routingKey")
    /\ ~BadField(c, "apiUrl")
    /\ ClientValid(c)

validatePushoverConfig(c) ==
    /\ Set(c, "userKey") \/ Set(c, "userKeyFile")
    /\ Set(c, "token") \/ Set(c, "tokenFile")
    /\ ClientValid(c)

\* a != b != c of the source: one of the three, or all of them.
validateSnsConfig(c) ==
    LET Empty(f) == ~Set(c, f)
    IN  /\ ~((Empty("targetARN") # Empty("topicARN")) # Empty("phoneNumber"))
        /\ ClientValid(c)

validateTelegramConfig(c) ==
    /\ Set(c, "botToken") \/ Set(c, "botTokenFile")
    /\ Set(c, "chatID")
    /\ ClientValid(c)

validateWebexConfig(c) == ~BadField(c, "apiURL") /\ ClientValid(c)

validateDiscordConfig(c) == ClientValid(c)

validateMSTeamsConfig(c) == ClientValid(c)

\* MSTeamsV2 configurations are not validated.
validateReceiver(r) ==
    LET All(f, Valid(_)) == Set(r, f) => \A i \in DOMAIN r[f] : Valid(r[f][i])
    IN  /\ All("pagerdutyConfigs", validatePagerDutyConfig)
        /\ All("opsgenieConfigs", validateOpsGenieConfig)
        /\ All("slackConfigs", validateSlackConfig)
        /\ All("webhookConfigs", validateWebhookConfig)
        /\ All("wechatConfigs", validateWechatConfig)
        /\ All("emailConfigs", validateEmailConfig)
        /\ All("victoropsConfigs", validateVictorOpsConfig)
        /\ All("pushoverConfigs", validatePushoverConfig)
        /\ All("snsConfigs", validateSnsConfig)
        /\ All("telegramConfigs", validateTelegramConfig)
        /\ All("discordConfigs", validateDiscordConfig)
        /\ All("webexConfigs", validateWebexConfig)
        /\ All("msteamsConfigs", validateMSTeamsConfig)

NamesOf(list) == {list[i]["name"] : i \in DOMAIN list}

validateReceivers(receivers) ==
    /\ \A i, j \in DOMAIN receivers :
          receivers[i]["name"] = receivers[j]["name"] => i = j
    /\ \A i \in DOMAIN receivers : validateReceiver(receivers[i])

validateTimeIntervals(intervals) ==
    \A i \in DOMAIN intervals : TimeIntervalValid(intervals[i])

RECURSIVE validateRoute(_, _, _, _, _)

validateRoute(r, receivers, intervals, structs, topLevel) ==
    /\ IF Set(r, "receiver") THEN r["receiver"] \in receivers ELSE ~topLevel
    /\ Set(r, "groupBy") =>
          /\ \A i, j \in DOMAIN r["groupBy"] :
                r["groupBy"][i] = r["groupBy"][j] => i = j
          /\ (\E i \in DOMAIN r["groupBy"] : r["groupBy"][i] = "...") =>
                Len(r["groupBy"]) = 1
    /\ \A f \in {"muteTimeIntervals", "activeTimeIntervals"} :
          Set(r, f) => \A i \in DOMAIN r[f] : r[f][i] \in intervals
    /\ \A f \in {"groupInterval", "groupWait", "repeatInterval"} : ~BadField(r, f)
    /\ Set(r, "matchers") =>
          \A i \in DOMAIN r["matchers"] : MatcherValid(r["matchers"][i])
    /\ Set(r, "routes") =>
          \A i \in DOMAIN r["routes"] :
             /\ Decodes(structs, "Route", r["routes"][i])
             /\ validateRoute(r["routes"][i], receivers, intervals, structs, FALSE)

(***************************************************************************)
(* ValidateAlertmanagerConfig.  Inhibition rules are not looked at.        *)
(***************************************************************************)
ValidateAlertmanagerConfig(spec, intervalsField, structs) ==
    LET receivers == IF Set(spec, "receivers") THEN spec["receivers"] ELSE << >>
        intervals == IF Set(spec, intervalsField)
                     THEN spec[intervalsField] ELSE << >>
    IN  /\ validateReceivers(receivers)
        /\ validateTimeIntervals(intervals)
        /\ Set(spec, "route") =>
              validateRoute(spec["route"], NamesOf(receivers),
                            NamesOf(intervals), structs, TRUE)
===========================================================================
