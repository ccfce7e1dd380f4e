---------------------- MODULE AlertmanagerConfiguration ----------------------
(***************************************************************************)
(* provisionAlertmanagerConfiguration (pkg/alertmanager/operator.go) and   *)
(* the ConfigBuilder (pkg/alertmanager/amcfg.go): the operator selects     *)
(* AlertmanagerConfig objects, rejects the invalid ones, builds a base     *)
(* configuration from a Secret or from a global AlertmanagerConfig, grafts *)
(* the selected objects onto it and writes the result to a Secret.         *)
(*                                                                         *)
(* Between two steps the Secrets that the objects refer to may be deleted; *)
(* between two syncs an object may be deleted, or read and written back by *)
(* a client of the v1beta1 API, which goes through both conversions.       *)
(*                                                                         *)
(* An alert is a function from label names to values.  A matcher holds the *)
(* set of values its pattern covers.  Names that the operator prefixes     *)
(* with namespace and name are tuples <<namespace, object, name>>, those of *)
(* a raw configuration <<name>>, and <<>> is the empty name.               *)
(***************************************************************************)
EXTENDS AlertmanagerReceivers, Sequences, SequencesExt

CONSTANTS Groups, InputsOf(_),   \* the pairs [am, objects] a sync may start from, in groups
          Order,         \* the keys of objects, in the order of <namespace>/<name>
          Alerts,        \* the alerts that routing and inhibition are compared on
          None

VARIABLES am,            \* spec of the Alertmanager, with the base it refers to
          objects,       \* AlertmanagerConfig objects that the selectors match, by key
          gone,          \* "before" or "during" this sync the Secrets were deleted, or "no"
          phase, selected, cfg,
          assets,        \* TLS material in the asset store
          generated,     \* configuration in the generated Secret
          touched        \* the change that was made to the objects or their Secrets

vars == <<am, objects, gone, phase, selected, cfg, assets, generated, touched>>

NoRoute == [receiver |-> ""]
NoGlobal == [smtp |-> "nil"]

-----------------------------------------------------------------------------
(* Validation and check of an AlertmanagerConfig.                          *)

\* A day counted from the end of the month is placed in a month of 28 days.
DayOfMonthRangeValid(r) ==
  LET Day(d) == IF d < 0 THEN 28 + d ELSE d
  IN /\ {r.start, r.end} \subseteq (-31 .. 31) \ {0}
     /\ ~(r.start < 0 /\ r.end > 0)
     /\ Day(r.start) <= Day(r.end)

TimeRangeValid(r) == r.start < r.end /\ {r.start, r.end} \subseteq 0 .. 1440
WeekdayRangeValid(r) == r.start <= r.end /\ {r.start, r.end} \subseteq 0 .. 6
MonthRangeValid(r) == r.start <= r.end /\ {r.start, r.end} \subseteq 1 .. 12
YearRangeValid(r) == r.start <= r.end

\* MuteTimeInterval.Validate
RangeValid(r) ==
  CASE r.unit = "daysOfMonth" -> DayOfMonthRangeValid(r)
    [] r.unit = "times"       -> TimeRangeValid(r)
    [] r.unit = "weekdays"    -> WeekdayRangeValid(r)
    [] r.unit = "months"      -> MonthRangeValid(r)
    [] r.unit = "years"       -> YearRangeValid(r)

IntervalValid(t) ==
  t.name # "" /\ \A i \in DOMAIN t.periods : \A r \in t.periods[i] : RangeValid(r)

RECURSIVE ValidateRoute(_, _, _, _)
ValidateRoute(r, receivers, intervals, top) ==
  /\ IF r.receiver = "" THEN ~top ELSE r.receiver \in receivers
  /\ r.bad = {}                 \* groupBy, durations, JSON of the children
  /\ r.mute \cup r.active \subseteq intervals
  /\ \A i \in DOMAIN r.routes : ValidateRoute(r.routes[i], receivers, intervals, FALSE)

Integrations(o) ==
  FlattenSeq([i \in DOMAIN o.receivers |-> o.receivers[i].integrations])

ValidateAlertmanagerConfig(o) ==
  LET names == {o.receivers[i].name : i \in DOMAIN o.receivers}
  IN /\ Cardinality(names) = Len(o.receivers)
     /\ \A c \in ToSet(Integrations(o)) : ValidateIntegration(c)
     /\ \A i \in DOMAIN o.intervals : IntervalValid(o.intervals[i])
     /\ \/ o.route = NoRoute
        \/ ValidateRoute(o.route, names,
                         {o.intervals[i].name : i \in DOMAIN o.intervals}, TRUE)

IsV2Matcher(matchers) == \E i \in DOMAIN matchers : matchers[i].type # ""

RECURSIVE CheckRoute(_, _)
CheckRoute(r, v) ==
  /\ v < 22 => ~IsV2Matcher(r.matchers)
  /\ \A i \in DOMAIN r.routes : CheckRoute(r.routes[i], v)

CheckInhibitRules(o, v) ==
  v < 22 => \A i \in DOMAIN o.inhibit : ~IsV2Matcher(o.inhibit[i].source \o o.inhibit[i].target)

CheckAlertmanagerConfigResource(o, v) ==
  /\ ValidateAlertmanagerConfig(o)
  /\ \A c \in ToSet(Integrations(o)) : CheckIntegration(c, v)
  /\ o.route = NoRoute \/ CheckRoute(o.route, v)
  /\ CheckInhibitRules(o, v)

-----------------------------------------------------------------------------
(* Conversion to the configuration of Alertmanager.  A condition of a      *)
(* converted route tells whether it is written in the syntax of 0.22 (v2).  *)

MakeNamespacedString(name, o) == IF name = "" THEN <<>> ELSE <<o.ns, o.name, name>>

\* Matchers without a type go to the maps match and match_re before 0.22: of two
\* with the same name the last one stays.
ConvertMatchers(ms, v) ==
  LET Cond(m, v2) ==
        [name |-> m.name, vals |-> m.vals, v2 |-> v2,
         type |-> IF m.type # "" THEN m.type ELSE IF m.regex THEN "=~" ELSE "="]
      Old(i) == ms[i].type = "" /\ v < 22
      Overwritten(i) ==
        \E j \in DOMAIN ms : /\ j > i /\ Old(j)
                             /\ ms[j].name = ms[i].name /\ ms[j].regex = ms[i].regex
  IN {Cond(ms[i], ~Old(i)) : i \in {i \in DOMAIN ms : ~(Old(i) /\ Overwritten(i))}}

RECURSIVE ConvertRoute(_, _, _)
ConvertRoute(r, o, v) ==
  [receiver |-> MakeNamespacedString(r.receiver, o), continue |-> r.continue,
   conds |-> ConvertMatchers(r.matchers, v),
   mute |-> {MakeNamespacedString(t, o) : t \in r.mute},
   active |-> {MakeNamespacedString(t, o) : t \in r.active},
   routes |-> [i \in DOMAIN r.routes |-> ConvertRoute(r.routes[i], o, v)]]

ConvertInhibitRule(rule, v) ==
  [source |-> ConvertMatchers(rule.source, v), target |-> ConvertMatchers(rule.target, v)]

\* convertMuteTimeInterval sets the name inside the loop over the periods.
ConvertMuteTimeInterval(t, o) ==
  IF t.periods = <<>> THEN <<>> ELSE MakeNamespacedString(t.name, o)

\* An integration, some of whose selectors lead to deleted Secrets.
Without(c, fields) ==
  [c EXCEPT !.sec = [f \in DOMAIN @ |-> IF f \in fields /\ @[f] # "unset" THEN "missing"
                                        ELSE @[f]]]
WithoutSecrets(c) ==
  [Without(c, Selectors[c.kind]) EXCEPT
     !.http.cred = IF @ \in {"unset", "unnamed"} THEN @ ELSE "missing",
     !.http.tls = IF @ \in {"ca", "emptyCA"} THEN "missing" ELSE @]

\* The object as the check finds it, and the integrations as the conversion does: the
\* asset store keeps what the check read.
Fetched(o, missing) ==
  IF ~missing THEN o
  ELSE [o EXCEPT !.receivers = [i \in DOMAIN @ |-> [@[i] EXCEPT
          !.integrations = [j \in DOMAIN @ |-> WithoutSecrets(@[j])]]]]
AtConversion(c) ==
  IF gone = "during" THEN Without(c, Selectors[c.kind] \ CheckReads(c.kind)) ELSE c

\* The outcome of convertReceiver for the receivers: the first one that is not ok.
ReceiversOutcome(o, smtp) ==
  LET all == Integrations(o)
      failed == SelectSeq([i \in DOMAIN all |-> Convert(AtConversion(all[i]), smtp).outcome],
                          LAMBDA x : x # "ok")
  IN IF failed = <<>> THEN "ok" ELSE failed[1]

ConvertReceivers(o, smtp) ==
  [i \in DOMAIN o.receivers |->
     [name |-> MakeNamespacedString(o.receivers[i].name, o),
      integrations |-> [j \in DOMAIN o.receivers[i].integrations |->
                          Convert(AtConversion(o.receivers[i].integrations[j]), smtp).out]]]

ConvertIntervals(o) ==
  [i \in DOMAIN o.intervals |-> ConvertMuteTimeInterval(o.intervals[i], o)]

\* The sections of the global configuration: SMTP, and those of the integrations.  The
\* Secrets that they refer to are read here, the TLS material is not stored.
GlobalSecretsRead(g) == Resolved(g.cred) /\ (gone # "no" => g.cred = "unset")

GlobalSectionsOK(g, v) ==
  /\ GlobalSecretsRead(g) /\ ~g.badURL
  /\ "telegram" \in g.sections => v >= 24
  /\ "webex" \in g.sections => v >= 25
  /\ g.sections \cap {"jira", "rocketchat"} # {} => v >= 28

\* convertGlobalConfig
GlobalOutcome(g, v) ==
  LET http == [g.http EXCEPT !.cred = IF gone # "no" /\ @ # "unset" THEN "missing" ELSE @]
  IN CASE g = NoGlobal -> "ok"
       [] ~GlobalSecretsRead(g) -> "error"
       [] HTTPConvertOutcome(http) # "ok" -> HTTPConvertOutcome(http)
       [] ~GlobalSectionsOK(g, v) -> "error"
       [] OTHER -> "ok"

-----------------------------------------------------------------------------
(* The conversions between v1alpha1 and v1beta1 (pkg/apis/monitoring).      *)

\* convertMatchersFrom, then convertMatchersTo
ConvertMatcher(m) ==
  [m EXCEPT !.type = IF @ # "" THEN @ ELSE IF m.regex THEN "=~" ELSE "=", !.regex = FALSE]
ConvertMatchersTo(ms) == [i \in DOMAIN ms |-> ConvertMatcher(ms[i])]

RECURSIVE ConvertRouteTo(_)
ConvertRouteTo(r) ==
  [r EXCEPT !.matchers = ConvertMatchersTo(@),
            !.routes = [i \in DOMAIN @ |-> ConvertRouteTo(@[i])]]

\* AlertmanagerConfig.ConvertFrom, then ConvertTo
ThroughV1beta1(o) ==
  [o EXCEPT
     !.receivers = [i \in DOMAIN @ |-> [@[i] EXCEPT !.integrations =
        [j \in DOMAIN @ |-> ConvertToV1alpha1(ConvertFromV1alpha1(@[j]))]]],
     !.inhibit = [i \in DOMAIN @ |-> [source |-> ConvertMatchersTo(@[i].source),
                                      target |-> ConvertMatchersTo(@[i].target)]],
     !.route = IF @ = NoRoute THEN @ ELSE ConvertRouteTo(@)]

-----------------------------------------------------------------------------
(* The enforcers.                                                          *)

Enforces(o) ==
  CASE am.strategy = "None" -> FALSE
    [] am.strategy = "OnNamespaceExceptForAlertmanagerNamespace" -> o.ns # am.ns
    [] OTHER -> TRUE

NamespaceMatcher(o) ==
  [name |-> "namespace", vals |-> {o.ns}, v2 |-> am.version >= 22, type |-> "="]

\* Mutant: the route of an object ends the walk over its siblings.
ProcessRouteWithoutContinue(o, r) ==
  [r EXCEPT !.conds = IF Enforces(o) THEN @ \cup {NamespaceMatcher(o)} ELSE @]

ProcessRoute(o, r) ==
  LET conds == {c \in r.conds : am.version >= 22 \/ c.name # "namespace" \/ c.type # "="}
  IN [r EXCEPT !.continue = TRUE,
               !.conds = IF Enforces(o) THEN conds \cup {NamespaceMatcher(o)} ELSE @]

\* Mutant: the namespace is only enforced on the alerts that are muted.
ProcessTargetOnly(o, rule) ==
  IF Enforces(o) THEN [rule EXCEPT !.target = @ \cup {NamespaceMatcher(o)}] ELSE rule

ProcessInhibitRule(o, rule) ==
  LET Enforced(conds) == {c \in conds : c.v2 \/ c.name # "namespace"} \cup {NamespaceMatcher(o)}
  IN IF Enforces(o) THEN [source |-> Enforced(rule.source), target |-> Enforced(rule.target)]
                    ELSE rule

-----------------------------------------------------------------------------
(* Sanitization of a whole configuration.                                  *)

V2(conds) == \E c \in conds : c.v2

RECURSIVE RouteSanitizeOK(_, _)
RouteSanitizeOK(r, v) ==
  /\ v < 22 => ~V2(r.conds)
  /\ \A i \in DOMAIN r.routes : RouteSanitizeOK(r.routes[i], v)

RECURSIVE RouteSanitized(_, _)
RouteSanitized(r, v) ==
  [r EXCEPT !.mute = IF v >= 22 THEN @ ELSE {}, !.active = IF v >= 24 THEN @ ELSE {},
            !.routes = [i \in DOMAIN @ |-> RouteSanitized(@[i], v)]]

ConfigSanitizeOK(x, v) ==
  /\ HTTPSanitizeOK(x.http, v)
  /\ \A i \in DOMAIN x.receivers :
       \A j \in DOMAIN x.receivers[i].integrations : Sanitize(x.receivers[i].integrations[j], v).ok
  /\ v < 22 => \A i \in DOMAIN x.inhibit : ~V2(x.inhibit[i].source \cup x.inhibit[i].target)
  /\ RouteSanitizeOK(x.route, v)

\* muteIntervals are the mute_time_intervals, timeIntervals the time_intervals that
\* only a raw configuration has.
ConfigSanitized(x, v) ==
  [x EXCEPT
     !.http = HTTPSanitized(@, v),
     !.smtpTLS = @ /\ v >= 28,
     !.receivers = [i \in DOMAIN @ |-> [@[i] EXCEPT
        !.integrations = [j \in DOMAIN @ |-> Sanitize(@[j], v).out]]],
     !.muteIntervals = IF v >= 22 THEN @ ELSE <<>>,
     !.timeIntervals = IF v >= 24 THEN @ ELSE <<>>,
     !.route = RouteSanitized(@, v)]

\* checkAlertmanagerConfigRootRoute
RootRouteOK(r) ==
  r.receiver # <<>> /\ ~r.continue /\ r.conds = {} /\ r.mute = {} /\ r.active = {}

-----------------------------------------------------------------------------
(* provisionAlertmanagerConfiguration.                                     *)

DefaultConfig ==
  [route |-> [receiver |-> <<"null">>, continue |-> FALSE, conds |-> {}, mute |-> {},
              active |-> {}, routes |-> <<>>],
   receivers |-> <<[name |-> <<"null">>, integrations |-> <<>>]>>, inhibit |-> <<>>,
   muteIntervals |-> <<>>, timeIntervals |-> <<>>, smtp |-> "none", smtpTLS |-> FALSE,
   http |-> NoHTTP]

\* loadConfigurationFromSecret
LoadConfigurationFromSecret(base) ==
  IF base.content \in {"missing", "noKey", "empty"} THEN DefaultConfig ELSE base.config

\* The TLS material that an object refers to.  Checking a rejected object may
\* leave material in the store too, which nothing refers to.
Material(o) == {<<o.ns, c.http.tls>> : c \in {c \in ToSet(Integrations(o)) : c.http.tls = "ca"}}

Fail(outcome) ==
  /\ phase' = IF outcome = "panic" THEN "crashed" ELSE "blocked"
  /\ UNCHANGED <<selected, cfg, assets>>

Found(i) == Fetched(objects[i], gone = "before")

SelectConfigs ==
  /\ phase = "select"
  /\ \/ am.version < 15 /\ Fail("error")
     \/ /\ am.version >= 15 /\ ~am.selector /\ am.base.from = "secret"
        /\ cfg' = LoadConfigurationFromSecret(am.base)       \* written as it is
        /\ phase' = "write" /\ selected' = {} /\ assets' = {}
     \/ /\ am.version >= 15 /\ (am.selector \/ am.base.from = "object")
        /\ selected' = {i \in DOMAIN objects :
                          am.selector /\ CheckAlertmanagerConfigResource(Found(i), am.version)}
        /\ assets' = UNION {Material(objects[i]) : i \in selected'}
        /\ phase' = "base" /\ UNCHANGED cfg
  /\ UNCHANGED <<am, objects, gone, generated, touched>>

\* initializeFromAlertmanagerConfig, without the namespace enforcement
BaseFromObject(o, g) ==
  LET x == [DefaultConfig EXCEPT
              !.route = ConvertRoute(o.route, o, am.version),
              !.receivers = ConvertReceivers(o, g.smtp),
              !.inhibit = [i \in DOMAIN o.inhibit |-> ConvertInhibitRule(o.inhibit[i], am.version)],
              !.muteIntervals = ConvertIntervals(o),
              !.smtp = IF g = NoGlobal THEN "none" ELSE g.smtp,
              !.smtpTLS = g # NoGlobal /\ g.smtpTLS,
              !.http = IF g = NoGlobal THEN NoHTTP ELSE HTTPConverted(g.http)]
      outcomes == SelectSeq(<<GlobalOutcome(g, am.version), ReceiversOutcome(o, g.smtp)>>,
                            LAMBDA y : y # "ok")
  IN CASE ~CheckAlertmanagerConfigResource(o, am.version) -> Fail("error")
       [] outcomes # <<>> -> Fail(outcomes[1])
       [] o.route = NoRoute -> Fail("error")
       [] ~ConfigSanitizeOK(x, am.version) \/ ~RootRouteOK(RouteSanitized(x.route, am.version)) ->
            Fail("error")
       [] OTHER -> /\ cfg' = ConfigSanitized(x, am.version)
                   /\ assets' = assets \cup Material(o)
                   /\ phase' = "add" /\ UNCHANGED selected

\* Loading a raw configuration runs the validation of Alertmanager itself.
InitializeBase ==
  /\ phase = "base"
  /\ LET base == am.base
     IN \/ base.from = "object" /\ ~base.exists /\ Fail("error")
        \/ /\ base.from = "object" /\ base.exists
           /\ BaseFromObject(Fetched(base.object, gone # "no"), base.global)
        \/ base.from = "secret" /\ base.content = "broken" /\ Fail("error")
        \/ /\ base.from = "secret" /\ base.content # "broken"
           /\ cfg' = LoadConfigurationFromSecret(base)
           /\ phase' = "add" /\ UNCHANGED <<selected, assets>>
  /\ UNCHANGED <<am, objects, gone, generated, touched>>

\* AddAlertmanagerConfigs.  An object without a route only adds inhibition rules.
AddConfigs ==
  LET all == SelectSeq(Order, LAMBDA i : i \in selected)
      chosen == [n \in DOMAIN all |-> Found(all[n])]
      routed == SelectSeq(chosen, LAMBDA o : o.route # NoRoute)
      outcomes == SelectSeq([n \in DOMAIN routed |-> ReceiversOutcome(routed[n], cfg.smtp)],
                            LAMBDA y : y # "ok")
      Rules(o) == [i \in DOMAIN o.inhibit |->
                     ProcessInhibitRule(o, ConvertInhibitRule(o.inhibit[i], am.version))]
      Each(f(_), s) == [n \in DOMAIN s |-> f(s[n])]
      Receivers(o) == ConvertReceivers(o, cfg.smtp)
      SubRoute(o) == ProcessRoute(o, ConvertRoute(o.route, o, am.version))
      x == [cfg EXCEPT
              !.inhibit = @ \o FlattenSeq(Each(Rules, chosen)),
              !.receivers = @ \o FlattenSeq(Each(Receivers, routed)),
              !.muteIntervals = @ \o FlattenSeq(Each(ConvertIntervals, routed)),
              !.route.routes = Each(SubRoute, routed) \o @]
  IN /\ phase = "add"
     /\ CASE outcomes # <<>> -> Fail(outcomes[1])
          [] ~ConfigSanitizeOK(x, am.version) -> Fail("error")
          [] OTHER -> /\ cfg' = ConfigSanitized(x, am.version)
                      /\ phase' = "write" /\ UNCHANGED <<selected, assets>>
     /\ UNCHANGED <<am, objects, gone, generated, touched>>

\* createOrUpdateGeneratedConfigSecret, which may fail
WriteSecret ==
  /\ phase = "write"
  /\ \/ phase' = "done" /\ generated' = cfg
     \/ phase' = "failed" /\ UNCHANGED generated
  /\ UNCHANGED <<am, objects, gone, selected, cfg, assets, touched>>

\* The next sync: after an error the key is requeued, after a panic the operator restarts.
Resync ==
  /\ phase \in {"done", "failed", "blocked", "crashed"}
  /\ phase' = "select" /\ selected' = {} /\ cfg' = None /\ assets' = {}
  /\ gone' = IF gone = "no" THEN "no" ELSE "before"
  /\ UNCHANGED <<am, objects, generated, touched>>

-----------------------------------------------------------------------------
(* The environment makes one change.                                       *)

DeleteSecrets ==
  /\ touched = "no" /\ touched' = "deleted"
  /\ gone' = IF phase = "select" THEN "before" ELSE "during"
  /\ UNCHANGED <<am, objects, phase, selected, cfg, assets, generated>>

DeleteObject(i) ==
  /\ touched = "no" /\ touched' = "deleted" /\ phase = "select"
  /\ objects' = [k \in DOMAIN objects \ {i} |-> objects[k]]
  /\ UNCHANGED <<am, gone, phase, selected, cfg, assets, generated>>

\* What the conversions to v1beta1 and back lose: two fields, and, before 0.22, the
\* matchers without a type, which is then filled in and no longer accepted.
RECURSIVE HasOldMatcher(_)
HasOldMatcher(r) ==
  \/ \E i \in DOMAIN r.matchers : r.matchers[i].type = ""
  \/ \E i \in DOMAIN r.routes : HasOldMatcher(r.routes[i])
Lossy(o) ==
  \/ \E c \in ToSet(Integrations(o)) :
       \/ c.kind = "pushover" /\ "ttl" \in c.opts /\ am.version >= 27
       \/ c.kind = "opsgenie" /\ "updateAlerts" \in c.opts /\ am.version >= 24
  \/ am.version < 22 /\ o.route # NoRoute /\ HasOldMatcher(o.route)
  \/ am.version < 22 /\ \E i \in DOMAIN o.inhibit : o.inhibit[i].source \o o.inhibit[i].target # <<>>

\* A client of v1beta1 reads an object and writes it back.
StoreThroughV1beta1(i) ==
  /\ touched = "no" /\ phase = "select"
  /\ touched' = IF Lossy(objects[i]) THEN "lossy" ELSE "v1beta1"
  /\ objects' = [objects EXCEPT ![i] = ThroughV1beta1(@)]
  /\ UNCHANGED <<am, gone, phase, selected, cfg, assets, generated>>

-----------------------------------------------------------------------------
Init ==
  /\ \E g \in Groups : \E input \in InputsOf(g) : am = input.am /\ objects = input.objects
  /\ gone = "no" /\ touched = "no" /\ phase = "select" /\ selected = {} /\ assets = {}
  /\ cfg = None /\ generated = None

Next ==
  \/ SelectConfigs \/ InitializeBase \/ AddConfigs \/ WriteSecret \/ Resync
  \/ DeleteSecrets
  \/ \E i \in DOMAIN objects : DeleteObject(i) \/ StoreThroughV1beta1(i)

Spec == Init /\ [][Next]_vars

-----------------------------------------------------------------------------
(* How Alertmanager reads the configuration (external).                    *)

Holds(c, a) == (a[c.name] \in c.vals) <=> (c.type \in {"", "=", "=~"})

\* dispatch.Route.Match: the receivers notified of an alert, with the intervals that
\* apply.  A matching child without continue ends the walk over its siblings.
RECURSIVE Notified(_, _, _)
Notified(r, parent, a) ==
  LET receiver == IF r.receiver = <<>> THEN parent ELSE r.receiver
      children == [i \in DOMAIN r.routes |-> Notified(r.routes[i], receiver, a)]
      Ends(i) == children[i] # {} /\ ~r.routes[i].continue
      all == UNION {children[i] : i \in {i \in DOMAIN children : \A j \in 1 .. (i-1) : ~Ends(j)}}
  IN CASE \E c \in r.conds : ~Holds(c, a) -> {}
       [] all # {} -> all
       [] OTHER -> {[receiver |-> receiver, mute |-> r.mute, active |-> r.active]}

Inhibits(rule, source, target) ==
  (\A c \in rule.source : Holds(c, source)) /\ (\A c \in rule.target : Holds(c, target))

\* The days of a month of a given length that a range covers.
DaysCovered(r, length) ==
  LET Day(d) == IF d < 0 THEN length + d + 1 ELSE d
  IN {d \in 1 .. length : Day(r.start) <= d /\ d <= Day(r.end)}

RECURSIVE AllRoutes(_)
AllRoutes(r) == {r} \cup UNION {AllRoutes(r.routes[i]) : i \in DOMAIN r.routes}

\* config.Load: names are unique, and what the routes refer to is defined.
Loads(x) ==
  LET receivers == {x.receivers[i].name : i \in DOMAIN x.receivers}
      all == x.muteIntervals \o x.timeIntervals
  IN /\ Cardinality(receivers) = Len(x.receivers)
     /\ <<>> \notin ToSet(all) /\ IsInjective(all)
     /\ RootRouteOK(x.route)
     /\ \A r \in AllRoutes(x.route) : /\ r.receiver \in receivers \cup {<<>>}
                                       /\ r.mute \cup r.active \subseteq ToSet(all)

-----------------------------------------------------------------------------
(* Properties.                                                             *)

Managed == am.selector \/ am.base.from = "object"
Routed == {i \in selected : objects[i].route # NoRoute}

\* Before 0.22 the maps of the old syntax keep one matcher per label, and the
\* enforced namespace overwrites the matcher an object has on it.
Overwrites(ms, names) ==
  \/ \E i, j \in DOMAIN ms : i # j /\ ms[i].name = ms[j].name
  \/ \E i \in DOMAIN ms : ms[i].name \in names
RECURSIVE RouteOverwrites(_, _)
RouteOverwrites(r, names) ==
  \/ Overwrites(r.matchers, names)
  \/ \E i \in DOMAIN r.routes : RouteOverwrites(r.routes[i], {})
OldSyntaxLoses(o) ==
  /\ am.version < 22
  /\ LET names == IF Enforces(o) THEN {"namespace"} ELSE {}
     IN \/ o.route # NoRoute /\ RouteOverwrites(o.route, names)
        \/ \E i \in DOMAIN o.inhibit : \/ Overwrites(o.inhibit[i].source, names)
                                       \/ Overwrites(o.inhibit[i].target, names)

\* What the routes of an object ask for by themselves, in the terms of the resource.
RECURSIVE Asked(_, _, _, _)
Asked(r, parent, o, a) ==
  LET receiver == IF r.receiver = "" THEN parent ELSE r.receiver
      Below(i) == Asked(r.routes[i], receiver, o, a)
      Reached(i) == \A j \in 1 .. (i-1) : Below(j) = {} \/ r.routes[j].continue
      all == UNION {Below(i) : i \in {i \in DOMAIN r.routes : Reached(i)}}
      Prefixed(names) == {<<o.ns, o.name, t>> : t \in names}
  IN IF \E i \in DOMAIN r.matchers : ~Holds(r.matchers[i], a) THEN {}
     ELSE IF all # {} THEN all
     ELSE {[receiver |-> <<o.ns, o.name, receiver>>,
            mute |-> Prefixed(IF am.version >= 22 THEN r.mute ELSE {}),
            active |-> Prefixed(IF am.version >= 24 THEN r.active ELSE {})]}

Concerns(o, a) == Enforces(o) => a["namespace"] = o.ns

\* The objects do not interfere with each other: an alert reaches the receivers that
\* every selected object asks for by itself, for the alerts it may concern, and those
\* of the routes of the base configuration; the root receiver is left for the alerts
\* nobody asked for (continueToNextRoute, the enforcers, AddAlertmanagerConfigs).
RoutingComposes ==
  phase = "write" /\ Managed /\ (\A i \in selected : ~OldSyntaxLoses(objects[i])) =>
    \A a \in Alerts :
      LET own == UNION {Asked(objects[i].route, "", objects[i], a) :
                          i \in {i \in Routed : Concerns(objects[i], a)}}
          root == cfg.route
          rest == SubSeq(root.routes, Cardinality(Routed) + 1, Len(root.routes))
          base == Notified([root EXCEPT !.routes = rest], <<>>, a)
          default == Notified([root EXCEPT !.routes = <<>>], <<>>, a)
          matched == \E i \in DOMAIN rest : Notified(rest[i], root.receiver, a) # {}
      IN Notified(root, <<>>, a) =
           own \cup IF matched THEN base ELSE IF own = {} THEN default ELSE {}

\* The inhibition rules of an object mute what they say, and, when the namespace is
\* enforced, only alerts of its namespace and only because of alerts of its namespace
\* (processInhibitRule).
InhibitionStaysInNamespace ==
  phase = "write" /\ Managed /\ (\A i \in selected : ~OldSyntaxLoses(objects[i])) =>
    LET Count(i) == Len(objects[i].inhibit)
        own == FlattenSeq([n \in DOMAIN Order |->
                  IF Order[n] \in selected THEN [k \in 1 .. Count(Order[n]) |-> <<Order[n], k>>]
                                           ELSE <<>>])
        first == Len(cfg.inhibit) - Len(own)
    IN \A n \in DOMAIN own : \A source, target \in Alerts :
         LET o == objects[own[n][1]]
             rule == o.inhibit[own[n][2]]
         IN Inhibits(cfg.inhibit[first + n], source, target) <=>
              /\ Concerns(o, source) /\ Concerns(o, target)
              /\ \A i \in DOMAIN rule.source : Holds(rule.source[i], source)
              /\ \A i \in DOMAIN rule.target : Holds(rule.target[i], target)

\* What an object may define so that the configuration is refused by Alertmanager: a
\* time interval without periods loses its name, and nobody compares the names.
BadIntervals(o) ==
  LET names == [i \in DOMAIN o.intervals |-> o.intervals[i].name]
  IN (\E i \in DOMAIN o.intervals : o.intervals[i].periods = <<>>) \/ ~IsInjective(names)

\* Alertmanager accepts every generated configuration whose objects have no such
\* interval and whose raw part mutes no route, in 0.22 or 0.23, with one of the
\* time_intervals, which are removed.
GeneratedLoads ==
  phase = "write" /\ Managed =>
    (Loads(cfg) <=>
       \/ am.version < 22
       \/ /\ \A i \in Routed : ~BadIntervals(objects[i])
          /\ am.base.from = "object" => ~BadIntervals(am.base.object)
          /\ am.base.from = "secret" /\ am.version < 24 =>
               \A r \in AllRoutes(LoadConfigurationFromSecret(am.base).route) :
                 r.mute \cap ToSet(LoadConfigurationFromSecret(am.base).timeIntervals) = {})

\* The integrations that pass the check but that the conversion or the sanitization
\* fails on: the whole configuration is then no longer updated.
Gap(c, smtp) ==
  \/ c.kind = "telegram" /\ ~NonEmpty(c.sec["botToken"])
  \/ /\ c.kind \in {"msteams", "msteamsv2"}
     /\ ~NonEmpty(c.sec["webhookURL"]) \/ (c.kind = "msteams" /\ gone # "no")
  \/ c.kind = "email" /\ ~{"smarthost", "from"} \subseteq c.opts /\ smtp # "smtp"
  \/ "authorization" \in c.http.auths /\ c.http.cred \in {"unset", "unnamed"}
  \/ /\ am.version >= 26
     /\ ProxyConflict(c.http.proxy \cap {"proxyUrl", "proxyURL"} # {}, c.http.proxy)

\* An object that the check accepts never stops the configuration of the others from
\* being generated, except through one of the gaps between the check and the
\* conversion; and each of them does stop it.
BlockedOnlyByGaps ==
  LET gaps == {i \in Routed : \E c \in ToSet(Integrations(objects[i])) : Gap(c, cfg.smtp)}
  IN /\ phase = "write" /\ Managed /\ gone # "during" => gaps = {}
     /\ phase \in {"blocked", "crashed"} /\ cfg # None =>
          gaps # {} \/ ~ConfigSanitizeOK(cfg, am.version)

\* The TLS files that the receivers refer to are in the asset store, unless the CA is
\* empty; those of the global section never are (convertGlobalConfig).
TLSFilesProvided ==
  phase = "write" /\ am.base.from = "object" =>
    \A n \in DOMAIN cfg.receivers : \A c \in ToSet(cfg.receivers[n].integrations) :
      c.http.tls = "ca" => <<cfg.receivers[n].name[1], "ca">> \in assets

\* Reading an object and writing it back in the other API version changes nothing in
\* the generated configuration beyond the losses above, whatever the syncs in between.
GeneratedStable ==
  [][generated # None /\ generated' # generated => touched \in {"deleted", "lossy"}]_vars

\* A range of days that is accepted covers some day of a long month; one that is
\* refused for its order covers no day of some month, or ends, counted from the end of
\* the month, on the first day of it in a month of 28 days (DayOfMonthRange.Validate
\* counts these days from 0).
DayRanges ==
  phase = "base" =>
    \A i \in DOMAIN objects : \A t \in ToSet(objects[i].intervals) :
      \A r \in UNION ToSet(t.periods) :
        r.unit = "daysOfMonth" =>
          /\ i \in selected => DaysCovered(r, 31) # {}
          /\ /\ i \notin selected /\ {r.start, r.end} \subseteq (-31 .. 31) \ {0}
             /\ ~(r.start < 0 /\ r.end > 0)
             => \/ \E length \in 28 .. 31 : DaysCovered(r, length) = {}
                \/ r.start > 0 /\ r.end < 0 /\ r.start = 29 + r.end

\* What the checks accept ends in a configuration that Alertmanager loads and finds the
\* files of: nothing but the named gaps keeps it from being generated
\* (checkAlertmanagerConfigResource, AddAlertmanagerConfigs, sanitize).
AcceptedLoads == GeneratedLoads /\ BlockedOnlyByGaps /\ TLSFilesProvided /\ DayRanges
=============================================================================
