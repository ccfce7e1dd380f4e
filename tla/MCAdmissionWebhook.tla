------------------------ MODULE MCAdmissionWebhook ------------------------
(***************************************************************************)
(* Requests for the webhook server.  For every integration, in both        *)
(* versions: one field set at a time next to those that the integration    *)
(* needs, with every variant of the value of the field, and all fields set *)
(* together.  Routes, matchers, inhibition rules and time intervals with   *)
(* one detail each.  Rules with one detail at a time.                      *)
(***************************************************************************)
EXTENDS AdmissionWebhook

MCBadText == "bad"
MCNotParsed == 99

RECURSIVE Full(_, _)

\* All fields of a struct, of all structs in it.
Full(structs, s) ==
    [f \in DOMAIN structs[s] |->
        LET field == structs[s][f]
        IN  CASE field.kind = "one" -> Full(structs, field.struct)
              [] field.kind = "many" -> <<Full(structs, field.struct)>>
              [] field.kind = "enum" -> CHOOSE v \in field.values : TRUE
              [] OTHER -> IF s = "OpsGenieConfigResponder" /\ f = "type"
                          THEN "team" ELSE "set"]

NeededIn(s) ==
    CASE s = "PagerDutyConfig" -> {"routingKey"}
      [] s = "WebhookConfig" -> {"url"}
      [] s = "EmailConfig" -> {"to"}
      [] s = "VictorOpsConfig" -> {"routingKey"}
      [] s = "PushoverConfig" -> {"userKey", "token"}
      [] s = "SNSConfig" -> {"topicARN"}
      [] s = "TelegramConfig" -> {"botToken", "chatID"}
      [] s = "WebexConfig" -> {"roomID"}
      [] s = "DiscordConfig" -> {"apiURL"}
      [] s = "MSTeamsConfig" -> {"webhookUrl"}
      [] s = "SlackAction" -> {"type", "text", "name"}
      [] s = "SlackConfirmationField" -> {"text"}
      [] s = "SlackField" -> {"title", "value"}
      [] s = "OpsGenieConfigResponder" -> {"type", "id"}
      [] s = "KeyValue" -> {"key"}
      [] OTHER -> {}

Base(structs, s) == Copy(Full(structs, s), NeededIn(s))

\* The fields whose text is checked.
Checked == {"url", "apiURL", "apiUrl", "smarthost", "authorization", "oauth2",
            "tlsConfig", "proxyConfig", "key", "type"}

RECURSIVE Variants(_, _)

\* The values of a struct with one field next to those it needs.
Variants(structs, s) ==
    {Base(structs, s), Full(structs, s)} \cup
    UNION {{(f :> v) @@ Base(structs, s) :
               v \in LET field == structs[s][f]
                     IN  CASE field.kind = "one" -> Variants(structs, field.struct)
                           [] field.kind = "many" ->
                                {<<v>> : v \in Variants(structs, field.struct)}
                           [] field.kind = "enum" -> field.values
                           [] OTHER -> {Full(structs, s)[f]}
                                       \cup (IF f \in Checked THEN {"bad"} ELSE {})
                                       \cup (IF s = "OpsGenieConfigResponder" /\ f = "type"
                                             THEN {"Team"} ELSE {})} :
             f \in DOMAIN structs[s]}

StructsOf(v) == IF v = "v1alpha1" THEN A!Structs ELSE B!Structs

WithReceiver(list, c) ==
    [receivers |-> <<[name |-> "r"] @@ (list :> <<c>>)>>, route |-> [receiver |-> "r"]]

Integrations == {f \in DOMAIN A!Receiver : A!Receiver[f].kind = "many"}

OneReceiver == <<[name |-> "r"]>>
TwoReceivers == <<[name |-> "r"], [name |-> "r"]>>

MatchersOf(v) ==
    {[name |-> "a", value |-> "x"], [name |-> "bad", value |-> "x"],
     [name |-> "a", value |-> "x", matchType |-> "!="],
     [name |-> "bad", matchType |-> "="], [name |-> "a", matchType |-> "bad"]}
    \cup IF v = "v1beta1" THEN {}
         ELSE {[name |-> "a", value |-> "x", regex |-> "set"],
               [name |-> "a", value |-> "x", regex |-> "set", matchType |-> "="]}

ChildRoutes(v) ==
    {[receiver |-> "r"], [receiver |-> "s"], [continue |-> "set"],
     [unknown |-> "set"], [matchers |-> <<[name |-> "a", regex |-> "set"]>>],
     [matchers |-> <<[name |-> "a"]>>, receiver |-> "r",
      routes |-> <<[groupWait |-> "set"]>>],
     [routes |-> <<[unknown |-> "set"]>>]}
    \cup {[matchers |-> <<m>>] : m \in MatchersOf(v)}

RouteDetails(v) ==
    {f :> "set" : f \in {"groupWait", "groupInterval", "repeatInterval", "continue"}}
    \cup {f :> "bad" : f \in {"groupWait", "groupInterval", "repeatInterval"}}
    \cup {"groupBy" :> g : g \in {<<"a">>, <<"a", "a">>, <<"...">>, <<"...", "a">>}}
    \cup {f :> <<"t">> : f \in {"muteTimeIntervals", "activeTimeIntervals"}}
    \cup {"matchers" :> <<m>> : m \in MatchersOf(v)}
    \cup {"routes" :> <<c>> : c \in ChildRoutes(v)}

Routed(v) ==
    {[receivers |-> OneReceiver, route |-> d @@ [receiver |-> "r"]] :
        d \in RouteDetails(v)}
    \cup {[route |-> [continue |-> "set"]], [receivers |-> TwoReceivers]}
    \cup {[receivers |-> OneReceiver,
           inhibitRules |-> <<[targetMatch |-> <<m>>, sourceMatch |-> <<m>>,
                               equal |-> <<"a">>]>>] : m \in MatchersOf(v)}

Periods ==
    {[weekdays |-> <<r>>] : r \in {<<0, 6>>, <<5, 1>>, <<99, 1>>, <<7, 7>>}}
    \cup {[months |-> <<r>>] : r \in {<<1, 12>>, <<3, 2>>, <<0, 1>>}}
    \cup {[years |-> <<r>>] : r \in {<<2020, 2021>>, <<2021, 2020>>}}
    \cup {[daysOfMonth |-> <<d>>] :
             d \in {[start |-> 1, end |-> 31], [start |-> -1, end |-> 3], [end |-> 3],
                    [start |-> 28, end |-> -1]}}
    \cup {[times |-> <<t>>] :
             t \in {[startTime |-> 0, endTime |-> 1440], [startTime |-> 99, endTime |-> 100],
                    [startTime |-> 60, endTime |-> 60], [endTime |-> 60]}}

Timed(v) ==
    LET field == IF v = "v1alpha1" THEN "muteTimeIntervals" ELSE "timeIntervals"
    IN  {[receivers |-> OneReceiver, route |-> [receiver |-> "r", muteTimeIntervals |-> <<"t">>]]
            @@ (field :> <<[name |-> "t", timeIntervals |-> <<p>>]>>) : p \in Periods}
        \cup {field :> <<[timeIntervals |-> << >>]>>}

---------------------------------------------------------------------------

Expr(parses, selectors) == [parses |-> parses, selectors |-> selectors]

Rule0 == [kind |-> "alert", expr |-> Expr(TRUE, {"any"}), for |-> "unset",
          keepFiringFor |-> FALSE, labels |-> << >>, annotations |-> << >>]

Group0 == [interval |-> "unset", queryOffset |-> "unset", limit |-> FALSE,
           labels |-> FALSE, partialResponseStrategy |-> "", rules |-> <<Rule0>>]

Values == {"x", "number", "nested", "quoted"}

RuleVariants ==
    {[Rule0 EXCEPT !.kind = k] : k \in {"alert", "record", "both", "none"}}
    \cup {[Rule0 EXCEPT !.expr = Expr(p, s)] :
             p \in BOOLEAN, s \in {{}, {"any"}, {"ns", "other"}}}
    \cup {[Rule0 EXCEPT !.for = d, !.kind = k] : d \in Durations, k \in {"alert", "record"}}
    \cup {[Rule0 EXCEPT !.keepFiringFor = TRUE, !.kind = k] : k \in {"alert", "record"}}
    \cup {[Rule0 EXCEPT !.labels = (k :> v)] : k \in {"a", "a/b", "tenant"}, v \in Values}
    \cup {[Rule0 EXCEPT !.annotations = (k :> v)] : k \in {"a", "a/b"}, v \in Values}

GroupVariants ==
    {[Group0 EXCEPT !.interval = i, !.queryOffset = q] : i \in Durations, q \in Durations}
    \cup {[Group0 EXCEPT !.limit = l, !.labels = b, !.partialResponseStrategy = p] :
             l \in BOOLEAN, b \in BOOLEAN, p \in {"", "warn"}}
    \cup {[Group0 EXCEPT !.rules = <<Rule0, r>>] : r \in RuleVariants}

RuleObjects ==
    {[namespace |-> "ns", name |-> "o", text |-> 1, groups |-> <<g>>] : g \in GroupVariants}
    \cup {[namespace |-> "ns", name |-> "excluded", text |-> 1,
           groups |-> <<Group0, g>>] : g \in GroupVariants}
    \cup {[namespace |-> "ns", name |-> "o", text |-> n,
           groups |-> <<[Group0 EXCEPT !.partialResponseStrategy = "warn"]>>] : n \in 2..5}

MCSelectors ==
    {[labeler |-> [enforced |-> e, excluded |-> {"excluded"}], format |-> v[1], version |-> v[2]] :
        e \in BOOLEAN,
        v \in {<<"Prometheus", 230>>, <<"Prometheus", 252>>, <<"Prometheus", 300>>,
               <<"Thanos", 23>>, <<"Thanos", 36>>}}

MCGroups == Integrations \cup {"routed", "timed", "rules"}

MCRequestsOf(g) ==
    CASE g = "rules" -> {[kind |-> "rule", obj |-> o] : o \in RuleObjects}
      [] g = "routed" -> UNION {{[kind |-> v, obj |-> o] : o \in Routed(v)} :
                                   v \in {"v1alpha1", "v1beta1"}}
      [] g = "timed" -> UNION {{[kind |-> v, obj |-> o] : o \in Timed(v)} :
                                   v \in {"v1alpha1", "v1beta1"}}
      [] OTHER -> UNION {{[kind |-> v, obj |-> WithReceiver(g, c)] :
                             c \in Variants(StructsOf(v), A!Receiver[g].struct)} :
                            v \in {"v1alpha1", "v1beta1"}}
===========================================================================
