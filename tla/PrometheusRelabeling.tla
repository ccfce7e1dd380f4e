----------------------- MODULE PrometheusRelabeling ------------------------
(***************************************************************************)
(* The relabeling rules that the generator writes into a scrape job, and   *)
(* what Prometheus does with them.                                         *)
(*                                                                         *)
(* The rules of a job filter the discovered targets by the selector of the *)
(* monitor, copy metadata into labels, apply the rules of the scrape class *)
(* and of the user, force the namespace label and distribute the targets   *)
(* over the shards.  All of them run in one sequence on the labels of a    *)
(* target, so an early rule can undo what a later one relies on.           *)
(*                                                                         *)
(* A target is a function from label names to values, "" when unset.  A    *)
(* label name is a pair: <<"label", n>> for the label n, <<"meta", k>> and *)
(* <<"present", k>> for the metadata of the object's label k, where k is   *)
(* sanitized.  A rule holds its source labels, the value tuples its        *)
(* regular expression matches, its target and its replacement.             *)
(***************************************************************************)
EXTENDS Integers, Sequences, SequencesExt

CONSTANTS
  Keys,          \* keys of Kubernetes labels
  Values,        \* non-empty label values
  SanitizedKey,  \* what sanitizeLabelName makes of a key
  Matching,      \* the values that a value, read as a regular expression, matches
  HashOf         \* the hash of a value

Digits == <<"0", "1", "2">>

AllValues == Values \cup {"", "true"} \cup {Digits[i] : i \in DOMAIN Digits}

Label(n) == <<"label", n>>
Meta(k) == <<"meta", SanitizedKey[k]>>
Present(k) == <<"present", SanitizedKey[k]>>

Dropped == Label("dropped")

-----------------------------------------------------------------------------
(* Rules and their effect in Prometheus.                                   *)

Rule(action, source, match, target, replacement) ==
  [action |-> action, source |-> source, match |-> match,
   target |-> target, replacement |-> replacement, modulus |-> 0]

Any1 == {<<v>> : v \in AllValues}
NonEmpty1 == {<<v>> : v \in AllValues \ {""}}

SetLabel(target, value) == Rule("replace", << >>, {<< >>}, target, value)
CopyLabel(source, target) == Rule("replace", <<source>>, Any1, target, "$1")
CopyNonEmpty(source, target) == Rule("replace", <<source>>, NonEmpty1, target, "$1")
Keep(source, match) == Rule("keep", source, match, Dropped, "")
Drop(source, match) == Rule("drop", source, match, Dropped, "")
LabelDrop(target) == Rule("labeldrop", << >>, {}, target, "")
HashMod(source, target, modulus) ==
  [Rule("hashmod", <<source>>, {}, target, "") EXCEPT !.modulus = modulus]

\* One rule on the labels of one target.  A target that is dropped stays dropped.
Relabel(t, r) ==
  LET read == [i \in DOMAIN r.source |-> t[r.source[i]]]
      hit == read \in r.match
      value == IF r.replacement = "$1" THEN read[1] ELSE r.replacement
  IN CASE t[Dropped] # ""          -> t
       [] r.action = "replace"     -> IF hit THEN [t EXCEPT ![r.target] = value] ELSE t
       [] r.action = "keep"        -> IF hit THEN t ELSE [t EXCEPT ![Dropped] = "true"]
       [] r.action = "drop"        -> IF hit THEN [t EXCEPT ![Dropped] = "true"] ELSE t
       [] r.action = "labeldrop"   -> [t EXCEPT ![r.target] = ""]
       [] r.action = "hashmod"     ->
            [t EXCEPT ![r.target] = Digits[(HashOf[read[1]] % r.modulus) + 1]]
       [] OTHER                    -> t

Relabeled(t, rules) == FoldLeft(Relabel, t, rules)

Kept(t) == t[Dropped] = ""

-----------------------------------------------------------------------------
(* LabelConfigValidator.validate                                           *)

\* The actions of a version, and the fields that an action needs and allows.
ValidRelabelConfig(v, r) ==
  /\ r.action \in {"lowercase", "uppercase"} => v >= 2360
  /\ r.action \in {"keepequal", "dropequal"} => v >= 2410
  /\ r.action = "hashmod" => r.modulus # 0
  /\ r.action \in {"replace", "hashmod", "lowercase", "uppercase", "keepequal", "dropequal"}
       => r.target # Label("")
  /\ r.action \in {"labeldrop", "labelkeep"} => r.source = << >> /\ r.replacement = ""

ValidateRelabelConfigs(v, rules) ==
  \A i \in DOMAIN rules : ValidRelabelConfig(v, rules[i])

-----------------------------------------------------------------------------
(* The enforced namespace label (pkg/namespacelabeler).                    *)

\* p.excluded holds the object references: kind, namespace and name ("" is any name).
IsExcluded(p, m) ==
  \/ p.enforcedLabel = ""
  \/ \E ref \in p.excluded : /\ ref.kind = m.kind /\ ref.ns = m.ns
                             /\ ref.name \in {"", m.name}

\* Mutant: the user's rules come last.
MutGetRelabelingConfigs(p, m, rules) ==
  IF IsExcluded(p, m) THEN rules
  ELSE <<SetLabel(Label(p.enforcedLabel), m.ns)>> \o rules

GetRelabelingConfigs(p, m, rules) ==
  IF IsExcluded(p, m) THEN rules
  ELSE Append(rules, SetLabel(Label(p.enforcedLabel), m.ns))

-----------------------------------------------------------------------------
(* Selectors.  A selector has a set of <<key, value>> pairs to match, and a *)
(* sequence of expressions.                                                *)

Regex(values) == UNION {Matching[v] : v \in values}
MatchPresent(values) == {<<v, "true">> : v \in Regex(values)}

\* Mutant: an unset label is taken for an empty one.
MutExpressionRelabeling(e) ==
  CASE e.op = "In"           -> Keep(<<Meta(e.key), Present(e.key)>>, MatchPresent(e.values))
    [] e.op = "NotIn"        -> Drop(<<Meta(e.key)>>, {<<v>> : v \in Regex(e.values)})
    [] e.op = "Exists"       -> Keep(<<Present(e.key)>>, {<<"true">>})
    [] e.op = "DoesNotExist" -> Drop(<<Present(e.key)>>, {<<"true">>})

ExpressionRelabeling(e) ==
  CASE e.op = "In"           -> Keep(<<Meta(e.key), Present(e.key)>>, MatchPresent(e.values))
    [] e.op = "NotIn"        -> Drop(<<Meta(e.key), Present(e.key)>>, MatchPresent(e.values))
    [] e.op = "Exists"       -> Keep(<<Present(e.key)>>, {<<"true">>})
    [] e.op = "DoesNotExist" -> Drop(<<Present(e.key)>>, {<<"true">>})

SelectorRelabelings(sel) ==
  [i \in 1..Len(sel.labels) |->
     Keep(<<Meta(sel.labels[i][1]), Present(sel.labels[i][1])>>,
          MatchPresent({sel.labels[i][2]}))]
  \o [i \in 1..Len(sel.exprs) |-> ExpressionRelabeling(sel.exprs[i])]

\* What the API server does with the selector of a role: "absent" is an unset label.
MatchesExpression(e, labels) ==
  CASE e.op = "In"           -> labels[e.key] \in e.values
    [] e.op = "NotIn"        -> labels[e.key] \notin e.values
    [] e.op = "Exists"       -> labels[e.key] # "absent"
    [] e.op = "DoesNotExist" -> labels[e.key] = "absent"

MatchesSelector(sel, labels) ==
  /\ \A i \in DOMAIN sel.labels : labels[sel.labels[i][1]] = sel.labels[i][2]
  /\ \A i \in DOMAIN sel.exprs : MatchesExpression(sel.exprs[i], labels)

-----------------------------------------------------------------------------
(* Sharding.                                                               *)

\* Mutant: a target for which sharding is disabled is kept by its own shard only.
MutAppendShardingRelabelingWithLabel(p, rules, label, shard) ==
  rules \o
  << Rule("replace", <<label, Label("__tmp_hash")>>, {<<v, "">> : v \in AllValues \ {""}},
          Label("__tmp_hash"), "$1"),
     HashMod(Label("__tmp_hash"), Label("__tmp_hash"), p.shards),
     Keep(<<Label("__tmp_hash")>>, {<<Digits[shard + 1]>>}) >>

AppendShardingRelabelingWithLabel(p, rules, label, shard) ==
  rules \o
  << Rule("replace", <<label, Label("__tmp_hash")>>, {<<v, "">> : v \in AllValues \ {""}},
          Label("__tmp_hash"), "$1"),
     HashMod(Label("__tmp_hash"), Label("__tmp_hash"), p.shards),
     Keep(<<Label("__tmp_hash"), Label("__tmp_disable_sharding")>>,
          {<<Digits[shard + 1], "">>} \cup {<<a, b>> : a, b \in AllValues \ {""}}) >>

AppendShardingRelabelingWithAddress(p, rules, shard) ==
  AppendShardingRelabelingWithLabel(p, rules, Label("__address__"), shard)

AppendShardingRelabelingForProbes(p, rules, shard) ==
  AppendShardingRelabelingWithLabel(p, rules, Label("__param_target"), shard)

HasHashMod(rules) == \E i \in DOMAIN rules : rules[i].action = "hashmod"

AppendShardingRelabelingWithAddressIfMissing(p, rules, shard) ==
  IF HasHashMod(rules) THEN rules ELSE AppendShardingRelabelingWithAddress(p, rules, shard)

-----------------------------------------------------------------------------
(* The rules of a job for one shard.  p is the Prometheus, c the scrape    *)
(* class, m the monitor.                                                   *)

InitRelabelings == <<CopyLabel(Label("job"), Label("__tmp_prometheus_job_name"))>>

GenerateRunningFilter ==
  Drop(<<Label("__meta_kubernetes_pod_phase")>>, {<<"Failed">>, <<"Succeeded">>})

When(condition, rules) == IF condition THEN rules ELSE << >>

PortFilter(m) ==
  When(m.port # "", <<Keep(<<Label("__meta_port")>>, {<<m.port>>})>>)

TargetLabels(keys) ==
  [i \in DOMAIN keys |-> CopyNonEmpty(Meta(keys[i]), Label(SanitizedKey[keys[i]]))]

PodMonitorRelabelings(p, c, m, shard) ==
  LET rules ==
        InitRelabelings
        \o When(m.filterRunning, <<GenerateRunningFilter>>)
        \o When(m.mechanism = "relabel", SelectorRelabelings(m.selector))
        \o PortFilter(m)
        \o <<CopyLabel(Label("__meta_kubernetes_namespace"), Label("namespace"))>>
        \o TargetLabels(m.targetLabels \o p.podTargetLabels)
        \o <<SetLabel(Label("job"), m.name)>>
        \o When(m.port # "", <<SetLabel(Label("endpoint"), m.port)>>)
        \o c.relabelings
        \o GetRelabelingConfigs(p, m, m.relabelings)
  IN IF p.daemonSet THEN rules ELSE AppendShardingRelabelingWithAddress(p, rules, shard)

ServiceMonitorRelabelings(p, c, m, shard) ==
  AppendShardingRelabelingWithAddress(p,
    InitRelabelings
    \o When(m.mechanism = "relabel", SelectorRelabelings(m.selector))
    \o PortFilter(m)
    \o <<CopyLabel(Label("__meta_kubernetes_namespace"), Label("namespace"))>>
    \o When(m.filterRunning, <<GenerateRunningFilter>>)
    \o TargetLabels(m.targetLabels \o p.podTargetLabels)
    \o <<CopyLabel(Label("__meta_kubernetes_service_name"), Label("job"))>>
    \o When(m.port # "", <<SetLabel(Label("endpoint"), m.port)>>)
    \o c.relabelings
    \o GetRelabelingConfigs(p, m, m.relabelings), shard)

\* The target becomes a parameter, and the prober the address.
ProberRelabelings ==
  <<CopyLabel(Label("__param_target"), Label("instance")),
    SetLabel(Label("__address__"), "prober")>>

ProbeStaticRelabelings(p, c, m) ==
  <<CopyLabel(Label("__address__"), Label("__param_target"))>>
  \o ProberRelabelings
  \o c.relabelings
  \o GetRelabelingConfigs(p, m, m.relabelings)

ProbeIngressRelabelings(p, c, m) ==
  SelectorRelabelings(m.selector)
  \o <<CopyNonEmpty(Label("__address__"), Label("__param_target")),
       CopyLabel(Label("__meta_kubernetes_namespace"), Label("namespace")),
       CopyLabel(Label("__address__"), Label("__tmp_ingress_address"))>>
  \o ProberRelabelings
  \o c.relabelings
  \o GetRelabelingConfigs(p, m, m.relabelings)

ProbeRelabelings(p, c, m, shard) ==
  AppendShardingRelabelingForProbes(p,
    InitRelabelings
    \o When(m.jobName # "", <<SetLabel(Label("job"), m.jobName)>>)
    \o (IF "static" \in m.targets
        THEN ProbeStaticRelabelings(p, c, m) ELSE ProbeIngressRelabelings(p, c, m)), shard)

\* The namespace label is forced only if the ScrapeConfig has rules of its own.
ScrapeConfigRelabelings(p, c, m, shard) ==
  LET rules == InitRelabelings
               \o c.relabelings
               \o When(m.jobName # "", <<SetLabel(Label("job"), m.jobName)>>)
               \o When(m.relabelings # << >>, GetRelabelingConfigs(p, m, m.relabelings))
  IN IF p.shards = 1 THEN rules ELSE AppendShardingRelabelingWithAddressIfMissing(p, rules, shard)

Relabelings(p, c, m, shard) ==
  CASE m.kind = "PodMonitor"     -> PodMonitorRelabelings(p, c, m, shard)
    [] m.kind = "ServiceMonitor" -> ServiceMonitorRelabelings(p, c, m, shard)
    [] m.kind = "Probe"          -> ProbeRelabelings(p, c, m, shard)
    [] m.kind = "ScrapeConfig"   -> ScrapeConfigRelabelings(p, c, m, shard)

\* The rules for the samples of a job.
MetricRelabelings(p, c, m) ==
  c.metricRelabelings \o GetRelabelingConfigs(p, m, m.metricRelabelings)

=============================================================================
