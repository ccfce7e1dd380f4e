-------------------- MODULE MCAlertmanagerConfiguration ---------------------
(***************************************************************************)
(* The inputs of AlertmanagerConfiguration: objects with one integration   *)
(* of every kind, objects with every HTTP client configuration, pairs of   *)
(* objects with routes, inhibition rules and time intervals, base          *)
(* configurations, and ranges of days.                                     *)
(***************************************************************************)
EXTENDS AlertmanagerConfiguration

MCOrder == <<"am/a", "team/b">>

\* Alerts have a namespace, or none (""), and a label.
MCAlerts == [namespace : {"am", "team", ""}, l : {"x", "y"}]

Versions == {21, 22, 24, 25, 26, 27, 28}

-----------------------------------------------------------------------------
Route(receiver, matchers, routes) ==
  [receiver |-> receiver, matchers |-> matchers, continue |-> FALSE, mute |-> {},
   active |-> {}, bad |-> {}, routes |-> routes]

Object(key, receivers) ==
  [ns |-> IF key = "am/a" THEN "am" ELSE "team", name |-> IF key = "am/a" THEN "a" ELSE "b",
   receivers |-> receivers, route |-> Route("r", <<>>, <<>>), intervals |-> <<>>,
   inhibit |-> <<>>]

Receiver(name, integrations) == [name |-> name, integrations |-> integrations]

RawBase(config) == [from |-> "secret", content |-> "config", config |-> config]

ObjectBase(object, global) ==
  [from |-> "object", exists |-> TRUE, object |-> object, global |-> global]

AM(version, base) ==
  [version |-> version, strategy |-> "OnNamespace", ns |-> "am", selector |-> TRUE,
   base |-> base]

SMTPConfig == [DefaultConfig EXCEPT !.smtp = "smtp"]

Global(http) ==
  [smtp |-> "smtp", smtpTLS |-> FALSE, cred |-> "unset", badURL |-> FALSE, sections |-> {},
   http |-> http]

Base == [Object("am/a", <<Receiver("r", <<>>)>>) EXCEPT !.name = "base"]

One(c) == [k \in {"am/a"} |-> Object("am/a", <<Receiver("r", <<c>>)>>)]

-----------------------------------------------------------------------------
(* One integration of every kind, with every content of its selectors.     *)

CRDKinds == DOMAIN Selectors \ {"jira", "rocketchat"}

CRDOptions(kind) ==
  Options[kind] \ {"routingKeyFile", "serviceKeyFile", "apiKeyFile", "apiURLFile", "urlFile",
                   "authPasswordFile", "webhookURLFile"}

Contents(kind) ==
  {"missing", "empty", "text"}
  \cup IF kind \in {"discord", "msteams"} THEN {} ELSE {"unset"}     \* mandatory
  \cup IF kind \in {"discord", "slack", "webhook"} THEN {"url"} ELSE {}

IntegrationsOf(kind) ==
  {[kind |-> kind, opts |-> opts, sec |-> sec, http |-> NoHTTP] :
     opts \in SUBSET CRDOptions(kind), sec \in [Selectors[kind] -> Contents(kind)]}

\* The versions around the ones where the fields of a kind appear.
VersionsOf(kind) == IF kind \in {"email", "sns", "wechat", "slack"} THEN {21, 28} ELSE Versions

BasesOf(kind) ==
  IF kind # "email" THEN {RawBase(DefaultConfig)}
  ELSE {RawBase(DefaultConfig), RawBase(SMTPConfig), ObjectBase(Base, NoGlobal),
        ObjectBase(Base, Global(NoHTTP))}

KindInputs(k) ==
  {[am |-> AM(v, b), objects |-> One(c)] :
     c \in IntegrationsOf(k), v \in VersionsOf(k), b \in BasesOf(k)}

-----------------------------------------------------------------------------
(* Every HTTP client configuration.                                        *)

HTTPConfigs ==
  {[NoHTTP EXCEPT !.auths = a, !.cred = c, !.bad = b] :
     a \in SUBSET {"basicAuth", "bearerToken", "authorization", "oauth2"},
     c \in {"unnamed", "missing", "empty", "text"}, b \in SUBSET {"authType", "oauth2"}}
  \cup {[NoHTTP EXCEPT !.auths = {"authorization"}, !.cred = "unset"]}
  \cup {[NoHTTP EXCEPT !.tls = t, !.follow = TRUE] :
          t \in {"ca", "emptyCA", "certWithoutKey", "minAboveMax", "minVersion", "plain",
                 "missing", "malformed"}}
  \cup {[NoHTTP EXCEPT !.proxy = p, !.cred = c] :
          p \in SUBSET {"proxyUrl", "proxyURL", "noProxy", "fromEnv", "header"},
          c \in {"missing", "text"}}

WithHTTP(h) ==
  {[kind |-> "webhook", opts |-> {"url"}, sec |-> [urlSecret |-> "unset"], http |-> h],
   [kind |-> "msteamsv2", opts |-> {}, sec |-> [webhookURL |-> "text"], http |-> h]}

HTTPInputs ==
  {[am |-> AM(v, RawBase(DefaultConfig)), objects |-> One(c)] :
     c \in UNION {WithHTTP(h) : h \in HTTPConfigs}, v \in {21, 22, 25, 28}}

-----------------------------------------------------------------------------
(* Pairs of objects.                                                       *)

M(name, type, vals) == [name |-> name, type |-> type, regex |-> FALSE, vals |-> vals]
Old(name, regex, vals) == [name |-> name, type |-> "", regex |-> regex, vals |-> vals]

Matchers ==
  {<<>>, <<Old("l", FALSE, {"x"})>>, <<M("l", "!=", {"x"})>>, <<M("l", "=~", {"x", "y"})>>,
   <<Old("namespace", FALSE, {"team"})>>, <<Old("namespace", TRUE, {"am", "team"})>>,
   <<Old("l", FALSE, {"x"}), Old("l", FALSE, {"y"})>>}

Children ==
  {<<>>, <<Route("s", <<Old("l", FALSE, {"x"})>>, <<>>)>>,
   <<[Route("s", <<>>, <<>>) EXCEPT !.continue = TRUE], Route("", <<Old("l", FALSE, {"y"})>>, <<>>)>>,
   <<Route("s", <<Old("l", FALSE, {"x"})>>, <<>>), Route("t", <<>>, <<>>)>>}

TwoReceivers == <<Receiver("r", <<>>), Receiver("s", <<>>)>>

Routes == {Route("r", m, c) : m \in Matchers, c \in Children} \cup {NoRoute}

\* The object of the other namespace has one of a few fixed routes.
OtherRoutes ==
  {NoRoute, Route("r", <<>>, <<>>), Route("s", <<Old("l", FALSE, {"y"})>>, <<>>)}

BaseRoute ==
  [DefaultConfig.route EXCEPT !.routes =
     <<[DefaultConfig.route EXCEPT !.conds =
          {[name |-> "l", vals |-> {"y"}, v2 |-> FALSE, type |-> "="]}]>>]

Bases ==
  {RawBase(DefaultConfig), RawBase([DefaultConfig EXCEPT !.route = BaseRoute]),
   ObjectBase([Base EXCEPT !.route = Route("r", <<>>, <<Route("r", <<M("l", "=", {"x"})>>, <<>>)>>)],
              NoGlobal)}

Strategies == {"None", "OnNamespace", "OnNamespaceExceptForAlertmanagerNamespace"}

Pair(ra, rb, inhibit) ==
  [k \in {"am/a", "team/b"} |->
     [Object(k, TwoReceivers) EXCEPT !.route = IF k = "am/a" THEN ra ELSE rb,
                                     !.inhibit = IF k = "am/a" THEN <<>> ELSE inhibit]]

RouteInputs ==
  {[am |-> [AM(v, b) EXCEPT !.strategy = s], objects |-> Pair(ra, rb, <<>>)] :
     ra \in Routes, rb \in OtherRoutes, b \in Bases, s \in Strategies, v \in {21, 22}}

InhibitInputs ==
  {[am |-> [AM(v, RawBase(DefaultConfig)) EXCEPT !.strategy = s],
    objects |-> Pair(NoRoute, NoRoute, <<[source |-> x, target |-> y]>>)] :
     x \in Matchers, y \in Matchers, s \in Strategies, v \in {21, 22}}

-----------------------------------------------------------------------------
(* Time intervals.                                                         *)

Interval(name, ranges) == [name |-> name, periods |-> IF ranges = {} THEN <<>> ELSE <<ranges>>]

Weekend == Interval("w", {[unit |-> "weekdays", start |-> 0, end |-> 6]})

Ranges ==
  {[unit |-> u, start |-> s, end |-> e] :
     u \in {"times", "weekdays", "months", "years"}, s \in {-1, 0, 1, 6, 7}, e \in {0, 1, 6, 7, 12, 13}}
  \cup {[unit |-> "daysOfMonth", start |-> s, end |-> e] : s \in -32 .. 32, e \in {-32, -31, -29,
         -28, -27, -15, -2, -1, 0, 1, 2, 15, 27, 28, 29, 31, 32}}

Intervals ==
  {<<>>, <<Weekend>>, <<Interval("w", {})>>, <<Weekend, Weekend>>, <<Weekend, Interval("x", {})>>}
  \cup {<<Interval("w", {r})>> : r \in Ranges}

IntervalInputs ==
  {[am |-> AM(v, RawBase(DefaultConfig)),
    objects |-> [k \in {"am/a"} |-> [Object(k, TwoReceivers) EXCEPT
       !.intervals = t, !.route.mute = m, !.route.active = a]]] :
     t \in Intervals, v \in {21, 23, 24}, m \in {{}, {"w"}}, a \in {{}, {"w"}}}

RawIntervalInputs ==
  {[am |-> AM(v, RawBase([DefaultConfig EXCEPT !.muteIntervals = i, !.timeIntervals = t,
                            !.route.routes = <<[DefaultConfig.route EXCEPT !.mute = m, !.active = a]>>])),
    objects |-> [k \in {} |-> 0]] :
     i \in {<<<<"m">>>>}, t \in {<<<<"t">>>>}, m \in SUBSET {<<"m">>, <<"t">>},
     a \in SUBSET {<<"m">>, <<"t">>}, v \in {21, 22, 23, 24}}

-----------------------------------------------------------------------------
(* Base configurations: raw receivers, global sections, missing Secrets.   *)

RawIntegrations ==
  UNION {{[kind |-> k, opts |-> o, sec |-> s, http |-> NoHTTP] :
            o \in SUBSET Options[k], s \in [Selectors[k] -> {"unset", "text"}]} :
            k \in {"pagerduty", "slack", "webhook", "victorops", "jira", "rocketchat",
                   "msteamsv2", "telegram"}}

\* Alertmanager's own validation refuses a value next to the file that holds it, and
\* integrations without what they need.
RawInputs ==
  {[am |-> AM(v, RawBase([DefaultConfig EXCEPT !.receivers = Append(@, Receiver(<<"x">>, <<c>>))])),
    objects |-> [k \in {} |-> 0]] :
     c \in {c \in RawIntegrations : /\ "badURL" \notin c.opts
                                    /\ Sanitize(c, 28).ok
                                    /\ Sanitize(c, 28).out.opts = c.opts},
     v \in Versions}

GlobalInputs ==
  {[am |-> AM(v, ObjectBase([Base EXCEPT !.receivers = <<Receiver("r", r)>>], g)),
    objects |-> [k \in {} |-> 0]] :
     v \in {21, 22, 24, 25, 28},
     r \in {<<>>, <<[kind |-> "email", opts |-> {"to"}, sec |-> [authPassword |-> "unset",
                     authSecret |-> "unset"], http |-> [NoHTTP EXCEPT !.tls = "ca"]]>>},
     g \in {NoGlobal} \cup
          {[Global(h) EXCEPT !.sections = k, !.cred = c, !.badURL = b, !.smtp = s, !.smtpTLS = b] :
             h \in {NoHTTP, [NoHTTP EXCEPT !.tls = "ca"], [NoHTTP EXCEPT !.auths = {"authorization"}],
                    [NoHTTP EXCEPT !.auths = {"authorization"}, !.cred = "unset"]},
             k \in {{}, {"telegram"}, {"webex", "jira"}}, c \in {"unset", "text", "missing"},
             b \in BOOLEAN, s \in {"smtp", "none"}}}

OtherInputs ==
  {[am |-> [AM(v, b) EXCEPT !.selector = s], objects |-> Pair(NoRoute, Route("r", <<>>, <<>>), <<>>)] :
     v \in {14, 28}, s \in BOOLEAN,
     b \in {[from |-> "secret", content |-> c, config |-> None] : c \in {"missing", "noKey", "empty"}}
          \cup {[from |-> "secret", content |-> "broken", config |-> DefaultConfig],
                [from |-> "object", exists |-> FALSE], ObjectBase(Base, NoGlobal),
                ObjectBase([Base EXCEPT !.route = NoRoute], NoGlobal),
                ObjectBase([Base EXCEPT !.route.continue = TRUE], NoGlobal),
                ObjectBase([Base EXCEPT !.route.bad = {"groupBy"}], NoGlobal)}}

-----------------------------------------------------------------------------
MCGroups ==
  CRDKinds \cup {"http", "routes", "inhibit", "intervals", "rawIntervals", "raw", "global", "other"}

MCInputsOf(g) ==
  CASE g = "http" -> HTTPInputs [] g = "routes" -> RouteInputs [] g = "inhibit" -> InhibitInputs
    [] g = "intervals" -> IntervalInputs [] g = "rawIntervals" -> RawIntervalInputs
    [] g = "raw" -> RawInputs [] g = "global" -> GlobalInputs [] g = "other" -> OtherInputs
    [] OTHER -> KindInputs(g)

=============================================================================
