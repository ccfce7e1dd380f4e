-------------------------- MODULE PrometheusRules --------------------------
(***************************************************************************)
(* PrometheusRule objects: the patches of the mutating webhook             *)
(* (src/pkg/admission/jsonpatch.go), the validation that the webhook and   *)
(* the controllers share, the enforcement of the namespace label           *)
(* (src/pkg/namespacelabeler/labeler.go) and the rule files that the       *)
(* controllers generate (src/pkg/operator/rules.go).                       *)
(*                                                                         *)
(* An object is a record of its namespace, its name, the length of its     *)
(* text and its groups.  An expression is a record that says whether it    *)
(* parses and what its vector selectors require of the enforced label:     *)
(* "any" (no matcher), the object's namespace or another one.              *)
(***************************************************************************)
EXTENDS Integers, Sequences, FiniteSets, FiniteSetsExt, SequencesExt, Functions, TLC

CONSTANTS MaxConfigMapDataSize, \* limit on the text of one object
          NamespaceLabel        \* the label that is enforced

\* Versions are major * 100 + minor.
Unsupported == 10000

Durations == {"unset", "empty", "set"}

PositionsOf(obj) ==
    {<<g, r>> \in (1..Len(obj.groups))
                  \X (1..Max({Len(obj.groups[i].rules) : i \in DOMAIN obj.groups}
                             \cup {1})) :
        r <= Len(obj.groups[g].rules)}

RuleAt(obj, p) == obj.groups[p[1]].rules[p[2]]

MapRules(obj, Op(_)) ==
    [obj EXCEPT !.groups =
        [g \in DOMAIN @ |->
            [@[g] EXCEPT !.rules = [r \in DOMAIN @ |-> Op(@[r])]]]]

MapGroups(obj, Op(_)) ==
    [obj EXCEPT !.groups = [g \in DOMAIN @ |-> Op(@[g])]]

---------------------------------------------------------------------------
(* The mutating webhook                                                    *)

(***************************************************************************)
(* A value of a label or annotation in the request: a string, or JSON that *)
(* is none.  A nested value may hold a quote, which ends the string of the *)
(* patch that is put together as text.                                     *)
(***************************************************************************)
IsString(value) == value \notin {"number", "nested", "quoted"}

\* fmt's %v.
Formatted(value) ==
    CASE value = "number" -> "1" [] value = "nested" -> "map[a:b]"
      [] OTHER -> value

patchIfNotString(p, typ, key, value) ==
    IF IsString(value) THEN {}
    ELSE {[path |-> <<p, typ, key>>, value |-> value]}

generatePatchesForNonStringLabelsAnnotations(obj) ==
    UNION {patchIfNotString(p, typ, key, RuleAt(obj, p)[typ][key]) :
             <<p, typ, key>> \in
                {<<p, typ, key>> \in PositionsOf(obj)
                     \X {"labels", "annotations"}
                     \X UNION {DOMAIN RuleAt(obj, q).labels
                               \cup DOMAIN RuleAt(obj, q).annotations :
                                  q \in PositionsOf(obj)} :
                   key \in DOMAIN RuleAt(obj, p)[typ]}}

(***************************************************************************)
(* The API server applies the patches (external): the path of a key with a *)
(* slash does not exist, and a patch that is not JSON fails the request.   *)
(***************************************************************************)
PatchesApply(patches) ==
    \A p \in patches : p.value # "quoted" /\ p.path[3] # "a/b"

Stringified(rule) ==
    [rule EXCEPT !.labels = [k \in DOMAIN @ |-> Formatted(@[k])],
                 !.annotations = [k \in DOMAIN @ |-> Formatted(@[k])]]

mutatePrometheusRules(obj) == MapRules(obj, Stringified)

\* The schema of the CRD (external): labels and annotations are strings.
ConformsRule(obj) ==
    \A p \in PositionsOf(obj) :
       \A typ \in {"labels", "annotations"} :
          \A k \in DOMAIN RuleAt(obj, p)[typ] : IsString(RuleAt(obj, p)[typ][k])

---------------------------------------------------------------------------
(* Validation                                                              *)

\* The length of the YAML text, in units.
TextSize(obj) ==
    obj.text + FoldFunction(LAMBDA g, n : n + IF g.partialResponseStrategy = "" THEN 0 ELSE 1,
                            0, obj.groups)

(***************************************************************************)
(* rulefmt.Parse, the validator of the Prometheus version that the         *)
(* operator is built with (external): it knows all fields of a group but   *)
(* partial_response_strategy, and refuses empty durations.                 *)
(***************************************************************************)
RuleParses(rule) ==
    /\ rule.kind \in {"alert", "record"}
    /\ rule.expr.parses
    /\ rule.for # "empty"
    /\ rule.kind = "record" =>
          rule.for = "unset" /\ ~rule.keepFiringFor /\ DOMAIN rule.annotations = {}
    /\ "a/b" \notin DOMAIN rule.labels \cup DOMAIN rule.annotations

GroupParses(group) ==
    /\ group.interval # "empty" /\ group.queryOffset # "empty"
    /\ \A r \in DOMAIN group.rules : RuleParses(group.rules[r])

Parses(obj) ==
    \A g \in DOMAIN obj.groups :
       /\ obj.groups[g].partialResponseStrategy = ""
       /\ GroupParses(obj.groups[g])

\* What ValidateRule changes in place before it validates.
Prepared(obj) ==
    LET EmptyFor(rule) ==
            [rule EXCEPT !.for = IF @ = "empty" THEN "unset" ELSE @]
    IN  MapRules(MapGroups(obj, LAMBDA g :
                    [g EXCEPT !.partialResponseStrategy = "",
                              !.interval = IF @ = "empty" THEN "unset" ELSE @]),
                 EmptyFor)

ValidateRule(obj) ==
    /\ TextSize(Prepared(obj)) <= MaxConfigMapDataSize
    /\ Parses(Prepared(obj))

---------------------------------------------------------------------------
(* The rule files of a Prometheus or ThanosRuler                           *)

\* The expressions of the object with every selector bound to its namespace.
EnforcedExpr(expr, ns) ==
    [expr EXCEPT !.selectors = IF @ = {} THEN {} ELSE {ns}]

(***************************************************************************)
(* Labeler.EnforceNamespaceLabel fails at the first expression that does   *)
(* not parse.  Every label it adds makes the text longer.                  *)
(***************************************************************************)
EnforceFails(obj, labeler) ==
    /\ labeler.enforced /\ obj.name \notin labeler.excluded
    /\ \E p \in PositionsOf(obj) : ~RuleAt(obj, p).expr.parses

\* Mutant: an expression that needs no label of its own keeps its matchers.
EnforceLabelOnly(obj, labeler) ==
    IF ~labeler.enforced \/ obj.name \in labeler.excluded
    THEN obj
    ELSE [MapRules(obj, LAMBDA rule :
              [rule EXCEPT !.labels = (NamespaceLabel :> obj.namespace) @@ @])
          EXCEPT !.text = @ + Cardinality(PositionsOf(obj))]

EnforceNamespaceLabel(obj, labeler) ==
    IF ~labeler.enforced \/ obj.name \in labeler.excluded
    THEN obj
    ELSE [MapRules(obj, LAMBDA rule :
              [rule EXCEPT !.labels = (NamespaceLabel :> obj.namespace) @@ @,
                           !.expr = EnforcedExpr(@, obj.namespace)])
          EXCEPT !.text = @ + Cardinality(PositionsOf(obj))]

\* The first version of each component that supports a field.
MinVersions(format) ==
    IF format = "Prometheus"
    THEN [keepFiringFor |-> 242, limit |-> 231, queryOffset |-> 253, labels |-> 300]
    ELSE [keepFiringFor |-> 34, limit |-> 24, queryOffset |-> Unsupported,
          labels |-> Unsupported]

\* Mutant: the versions of Prometheus are used for Thanos too.
SanitizeAsPrometheus(obj, format, version) ==
    LET min == MinVersions("Prometheus")
    IN  MapRules(MapGroups(obj, LAMBDA g :
                    [g EXCEPT !.limit = @ /\ version >= min.limit,
                              !.queryOffset = IF version < min.queryOffset THEN "unset" ELSE @,
                              !.partialResponseStrategy = IF format = "Prometheus" THEN "" ELSE @,
                              !.labels = @ /\ version >= 24]),
                 LAMBDA rule :
                    [rule EXCEPT !.keepFiringFor = @ /\ version >= min.keepFiringFor])

sanitizePrometheusRulesSpec(obj, format, version) ==
    LET min == MinVersions(format)
    IN  MapRules(MapGroups(obj, LAMBDA g :
                    [g EXCEPT !.limit = @ /\ version >= min.limit,
                              !.queryOffset = IF version < min.queryOffset THEN "unset" ELSE @,
                              !.partialResponseStrategy = IF format = "Prometheus" THEN "" ELSE @,
                              !.labels = @ /\ version >= min.labels]),
                 LAMBDA rule :
                    [rule EXCEPT !.keepFiringFor = @ /\ version >= min.keepFiringFor])

(***************************************************************************)
(* generateRulesConfiguration: the content is rendered before ValidateRule *)
(* removes the empty durations, so the content still has them.             *)
(***************************************************************************)
generateRulesConfiguration(obj, format, version) ==
    LET sanitized == sanitizePrometheusRulesSpec(obj, format, version)
    IN  [ok |-> ValidateRule(sanitized), content |-> sanitized]

(***************************************************************************)
(* PrometheusRuleSelector.Select over the objects in the selected          *)
(* namespaces.  An object whose label cannot be enforced is left out       *)
(* without being counted as rejected.                                      *)
(***************************************************************************)
SelectRules(objs, labeler, format, version) ==
    LET labelled == {o \in objs : ~EnforceFails(o, labeler)}
        Generated(o) == generateRulesConfiguration(
                            EnforceNamespaceLabel(o, labeler), format, version)
    IN  [files |-> {[of |-> o, content |-> Generated(o).content] :
                       o \in {o \in labelled : Generated(o).ok}},
         rejected |-> Cardinality({o \in labelled : ~Generated(o).ok})]

(***************************************************************************)
(* The component of a version loads a rule file (external): it decodes     *)
(* strictly, so a field that the version does not know is an error, as is  *)
(* an empty duration.                                                      *)
(***************************************************************************)
FileLoads(content, format, version) ==
    LET min == MinVersions(format)
    IN  /\ \A g \in DOMAIN content.groups :
              /\ GroupParses(content.groups[g])
              /\ content.groups[g].limit => version >= min.limit
              /\ content.groups[g].queryOffset # "unset" => version >= min.queryOffset
              /\ content.groups[g].labels => version >= min.labels
              /\ content.groups[g].partialResponseStrategy # "" => format = "Thanos"
        /\ \A p \in PositionsOf(content) :
              RuleAt(content, p).keepFiringFor => version >= min.keepFiringFor
===========================================================================
