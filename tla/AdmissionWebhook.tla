------------------------- MODULE AdmissionWebhook -------------------------
(***************************************************************************)
(* The webhook server (src/pkg/admission/admission.go) between the API     *)
(* server and the objects that it stores.  A request to write a            *)
(* PrometheusRule is patched, checked against the schema and validated; a  *)
(* request to write an AlertmanagerConfig is checked in the version of the *)
(* request and converted to v1alpha1, the version that is stored.  Clients *)
(* read the object back in either version and write it back unchanged, as  *)
(* a controller or kubectl edit does; the rule controllers select what is  *)
(* stored.                                                                 *)
(*                                                                         *)
(* The mutating and the validating webhooks are registered in the cluster  *)
(* or not (hooks); the webhook of the conversion is always there, without  *)
(* it v1beta1 is not served.                                               *)
(* Requests that the webhook server cannot decode or that are for another  *)
(* resource are answered with an error and change nothing; they are not    *)
(* modelled.                                                               *)
(***************************************************************************)
EXTENDS AlertmanagerConfigConversion, AlertmanagerConfigValidation, PrometheusRules

CONSTANTS Groups,        \* the requests of users come in groups ...
          RequestsOf(_), \* ... of [kind, obj]
          Selectors,     \* the rule selectors: [labeler, format, version]
          MaxRewrites    \* bound on the times a client writes an object back

VARIABLES
    hooks,     \* registered webhooks
    request,   \* the request that the API server works on
    stored,    \* the stored object
    admitted,  \* it passed the validating webhook
    held,      \* what a client has read
    rewrites,  \* number of rewrites so far
    selected   \* the latest selection of a rule controller

vars == <<hooks, request, stored, admitted, held, rewrites, selected>>

Hooks == {"mutate", "validate"}

Idle == [stage |-> "idle", kind |-> "none", obj |-> << >>, origin |-> "user"]

Nothing == [kind |-> "none", obj |-> << >>]

NotSelected == [by |-> {}, files |-> {}, rejected |-> 0]

Init ==
    /\ hooks \in SUBSET Hooks
    /\ request = Idle
    /\ stored = Nothing
    /\ admitted = FALSE
    /\ held = Nothing
    /\ rewrites = 0
    /\ selected = NotSelected

Reject == /\ request' = [request EXCEPT !.stage = "rejected"]
          /\ UNCHANGED <<hooks, stored, admitted, held, rewrites, selected>>

Proceed(stage, obj) ==
    /\ request' = [request EXCEPT !.stage = stage, !.obj = obj]
    /\ UNCHANGED <<hooks, stored, admitted, held, rewrites, selected>>

\* A user writes an object.
Submit ==
    /\ request.stage = "idle" /\ stored.kind = "none" /\ rewrites = 0
    /\ \E g \in Groups : \E r \in RequestsOf(g) :
          request' = [stage |-> "received", kind |-> r.kind, obj |-> r.obj,
                      origin |-> "user"]
    /\ UNCHANGED <<hooks, stored, admitted, held, rewrites, selected>>

\* The mutating webhook, which is only called for PrometheusRules.
ServeMutate ==
    /\ request.stage = "received" /\ request.kind = "rule"
    /\ IF "mutate" \notin hooks
       THEN Proceed("mutated", request.obj)
       ELSE IF PatchesApply(generatePatchesForNonStringLabelsAnnotations(request.obj))
            THEN Proceed("mutated", mutatePrometheusRules(request.obj))
            ELSE Reject

\* The API server checks the schema of the version of the request.
CheckSchema ==
    LET conforms ==
            CASE request.kind = "rule" -> ConformsRule(request.obj)
              [] request.kind = "v1alpha1" ->
                   Conforms(A!Structs, "AlertmanagerConfigSpec", request.obj)
              [] OTHER -> Conforms(B!Structs, "AlertmanagerConfigSpec", request.obj)
    IN  /\ \/ request.stage = "mutated"
           \/ request.stage = "received" /\ request.kind # "rule"
        /\ IF conforms THEN Proceed("conforms", request.obj) ELSE Reject

\* validatePrometheusRules.
ServeValidateRules ==
    /\ request.stage = "conforms" /\ request.kind = "rule"
    /\ IF "validate" \in hooks /\ ~ValidateRule(request.obj)
       THEN Reject ELSE Proceed("allowed", request.obj)

\* Mutant: objects in the new version are not validated.
ConfigValidOldOnly(kind, obj) ==
    kind = "v1beta1" \/ ValidateAlertmanagerConfig(obj, "muteTimeIntervals", A!Structs)

\* The switch on the version of the request in validateAlertmanagerConfig.
ConfigValid(kind, obj) ==
    IF kind = "v1alpha1"
    THEN ValidateAlertmanagerConfig(obj, "muteTimeIntervals", A!Structs)
    ELSE ValidateAlertmanagerConfig(obj, "timeIntervals", B!Structs)

ServeValidateConfig ==
    /\ request.stage = "conforms" /\ request.kind \in {"v1alpha1", "v1beta1"}
    /\ IF "validate" \in hooks /\ ~ConfigValid(request.kind, request.obj)
       THEN Reject ELSE Proceed("allowed", request.obj)

(***************************************************************************)
(* The object is stored, by way of serveConvert if the request is not in   *)
(* the version that is stored.  A conversion that fails fails the request. *)
(***************************************************************************)
Store ==
    /\ request.stage = "allowed"
    /\ IF request.kind = "v1beta1" /\ ~ConvertsTo(request.obj)
       THEN Reject
       ELSE /\ stored' = [kind |-> IF request.kind = "rule" THEN "rule" ELSE "config",
                          obj |-> IF request.kind = "v1beta1"
                                  THEN ConvertTo(request.obj) ELSE request.obj]
            /\ admitted' = ("validate" \in hooks)
            /\ request' = [request EXCEPT !.stage = "stored"]
            /\ UNCHANGED <<hooks, held, rewrites, selected>>

\* A client reads the object; a conversion that fails fails the read.
Read(version) ==
    /\ request.stage \in {"idle", "stored"} /\ stored.kind = "config"
    /\ held.kind = "none"
    /\ version = "v1beta1" => ConvertsFrom(stored.obj)
    /\ held' = [kind |-> version,
                obj |-> IF version = "v1beta1" THEN ConvertFrom(stored.obj)
                        ELSE stored.obj]
    /\ UNCHANGED <<hooks, request, stored, admitted, rewrites, selected>>

\* The client writes what it read.
WriteBack ==
    /\ held.kind # "none" /\ rewrites < MaxRewrites
    /\ request.stage \in {"idle", "stored"}
    /\ request' = [stage |-> "received", kind |-> held.kind, obj |-> held.obj,
                   origin |-> "rewrite"]
    /\ held' = Nothing
    /\ rewrites' = rewrites + 1
    /\ UNCHANGED <<hooks, stored, admitted, selected>>

\* A rule controller selects.
Select(s) ==
    /\ request.stage = "stored" /\ stored.kind = "rule"
    /\ selected' = [by |-> {s}]
                   @@ SelectRules({stored.obj}, s.labeler, s.format, s.version)
    /\ UNCHANGED <<hooks, request, stored, admitted, held, rewrites>>

\* The user is told of the rejection, or deletes the object.
Finish ==
    /\ \/ request.stage \in {"rejected", "stored"}
       \/ request.stage = "idle" /\ stored.kind # "none"
    /\ request' = Idle
    /\ stored' = IF request.stage = "rejected" /\ request.origin = "rewrite"
                 THEN stored ELSE Nothing
    /\ admitted' = (stored'.kind # "none" /\ admitted)
    /\ held' = Nothing
    /\ selected' = NotSelected
    /\ rewrites' = IF stored'.kind = "none" THEN 0 ELSE rewrites
    /\ UNCHANGED hooks

Next ==
    \/ Submit \/ ServeMutate \/ CheckSchema \/ ServeValidateRules
    \/ ServeValidateConfig \/ Store \/ WriteBack \/ Finish
    \/ \E v \in {"v1alpha1", "v1beta1"} : Read(v)
    \/ \E s \in Selectors : Select(s)

Spec == Init /\ [][Next]_vars

---------------------------------------------------------------------------
(* AlertmanagerConfigs in two versions                                     *)

\* The conversions name this field in neither direction.
Forgotten == {<<"PushoverConfig", "ttl">>}

\* The only field that is called differently in the other version.
Counterpart(struct, f) ==
    CASE struct = "AlertmanagerConfigSpec" /\ f = "muteTimeIntervals" -> "timeIntervals"
      [] struct = "AlertmanagerConfigSpec" /\ f = "timeIntervals" -> "muteTimeIntervals"
      [] OTHER -> f

RECURSIVE Common(_, _, _, _, _)

(***************************************************************************)
(* What the other version of the API can hold of a value: at every depth   *)
(* the fields that the struct of the other version has too, and matchers   *)
(* with a type.                                                            *)
(***************************************************************************)
Common(own, other, s, t, value) ==
    LET Kept(f) ==
            LET field == own[s][f]
                theirs == other[t][Counterpart(s, f)]
            IN  CASE field.kind = "one" ->
                       Common(own, other, field.struct, theirs.struct, value[f])
                  [] field.kind = "many" ->
                       Each(value[f], LAMBDA v :
                               Common(own, other, field.struct, theirs.struct, v))
                  [] field.kind = "raw" ->
                       Each(value[f], LAMBDA v : Common(own, other, s, t, v))
                  [] OTHER -> value[f]
        Typed == CASE Set(value, "matchType") -> value["matchType"]
                   [] Set(value, "regex") -> "=~"
                   [] OTHER -> "="
    IN  IF s = "Matcher"
        THEN Copy(value, {"name", "value"}) @@ ("matchType" :> Typed)
        ELSE [f \in {f \in DOMAIN value : /\ Set(other[t], Counterpart(s, f))
                                         /\ <<s, f>> \notin Forgotten} |-> Kept(f)]

Spec0 == "AlertmanagerConfigSpec"

(***************************************************************************)
(* A client that reads an AlertmanagerConfig as v1beta1 and writes it back *)
(* as it is loses nothing that v1beta1 can hold, the forgotten field       *)
(* excepted, and only gives types to matchers; a v1alpha1 client changes   *)
(* nothing (ConvertFrom, ConvertTo).                                       *)
(***************************************************************************)
RewriteKeeps ==
    [][ (request.origin = "rewrite" /\ request.stage = "allowed"
            /\ request'.stage = "stored") =>
          stored'.obj = IF request.kind = "v1alpha1" THEN stored.obj
                        ELSE Common(A!Structs, B!Structs, Spec0, Spec0, stored.obj)
      ]_vars

(***************************************************************************)
(* A v1beta1 client reads what it wrote: the stored v1alpha1 object holds  *)
(* all of the v1beta1 object, the forgotten field excepted (ConvertTo).    *)
(***************************************************************************)
WrittenIsRead ==
    (request.stage = "stored" /\ request.kind = "v1beta1") =>
        /\ ConvertsFrom(stored.obj)
        /\ ConvertFrom(stored.obj)
              = Common(B!Structs, A!Structs, Spec0, Spec0, request.obj)

RECURSIVE SomeValue(_, _, _, _)

\* A value of the struct, at any depth, satisfies P.
SomeValue(structs, s, value, P) ==
    \/ P = "nameless" /\ s = "CoreSelector" /\ ~(Set(value, "name") /\ Set(value, "key"))
    \/ P = "responder" /\ s = "OpsGenieConfigResponder"
          /\ value["type"] \notin {"team", "teams", "user", "escalation", "schedule"}
    \/ P = "blank" /\ s = "Matcher" /\ ~Set(value, "matchType") /\ BadField(value, "name")
    \/ \E f \in DOMAIN value :
          LET field == structs[s][f]
          IN  CASE field.kind = "one" -> SomeValue(structs, field.struct, value[f], P)
                [] field.kind = "many" ->
                     \E i \in DOMAIN value[f] :
                        SomeValue(structs, field.struct, value[f][i], P)
                [] field.kind = "raw" ->
                     \E i \in DOMAIN value[f] : SomeValue(structs, s, value[f][i], P)
                [] OTHER -> FALSE

(***************************************************************************)
(* The stored objects that v1beta1 refuses: a selector without the name or *)
(* the key of a Secret, a type of a responder in upper case or as a        *)
(* template, and an untyped matcher on a blank label, which a conversion   *)
(* gives the type that makes it invalid.                                   *)
(***************************************************************************)
StricterInV1beta1(obj) ==
    \E P \in {"nameless", "responder", "blank"} : SomeValue(A!Structs, Spec0, obj, P)

(***************************************************************************)
(* What a client reads it may write back: a request that writes an object  *)
(* as it was read is not rejected, in either version, but for the objects  *)
(* that v1beta1 is stricter about (ConvertFrom, the schemas and the two    *)
(* validations).                                                           *)
(***************************************************************************)
RewriteAccepted ==
    (request.origin = "rewrite" /\ request.stage = "rejected") =>
        request.kind = "v1beta1" /\ StricterInV1beta1(stored.obj)

---------------------------------------------------------------------------
(* What the webhooks admit and the controllers take                        *)

\* The text of an admitted object that the enforced label makes too long.
TooLongOnceLabelled(obj, labeler) ==
    TextSize(EnforceNamespaceLabel(obj, labeler)) > MaxConfigMapDataSize

(***************************************************************************)
(* What the validating webhooks admit, the controllers accept: an          *)
(* AlertmanagerConfig, in whatever version it was written, is valid in     *)
(* v1alpha1 and can be read in both versions, and a PrometheusRule is in   *)
(* the rule files of every selector, unless the enforced label makes it    *)
(* too long (validateAlertmanagerConfig, validatePrometheusRules, Select). *)
(***************************************************************************)
AdmittedAccepted ==
    admitted =>
        /\ stored.kind = "config" =>
              /\ Conforms(A!Structs, Spec0, stored.obj)
              /\ ConfigValid("v1alpha1", stored.obj)
              /\ ConvertsFrom(stored.obj)
        /\ stored.kind = "rule" =>
              \A s \in selected.by :
                 \/ \E file \in selected.files : file.of = stored.obj
                 \/ TooLongOnceLabelled(stored.obj, s.labeler)

HasEmptyDuration(content) ==
    \/ \E g \in DOMAIN content.groups : content.groups[g].interval = "empty"
    \/ \E p \in PositionsOf(content) : RuleAt(content, p).for = "empty"

(***************************************************************************)
(* The rule files load in the version that the selector is for, whether a  *)
(* webhook looked at the objects or not, unless an empty duration is in    *)
(* them (generateRulesConfiguration, sanitizePrometheusRulesSpec).         *)
(***************************************************************************)
RuleFilesLoad ==
    \A s \in selected.by :
       \A file \in selected.files :
          \/ FileLoads(file.content, s.format, s.version)
          \/ HasEmptyDuration(file.content)

(***************************************************************************)
(* Under an enforced namespace label no rule of an object that is not      *)
(* excluded reads or writes series of another namespace                    *)
(* (EnforceNamespaceLabel).                                                *)
(***************************************************************************)
NamespaceEnforced ==
    \A s \in selected.by :
       \A file \in selected.files :
          (s.labeler.enforced /\ file.of.name \notin s.labeler.excluded) =>
              \A p \in PositionsOf(file.content) :
                 /\ RuleAt(file.content, p).labels[NamespaceLabel] = file.of.namespace
                 /\ RuleAt(file.content, p).expr.selectors \subseteq {file.of.namespace}

(***************************************************************************)
(* Clients of the two versions can work on the same object: each reads     *)
(* what it wrote, may write what it reads, and changes nothing by doing so *)
(* (ConvertTo, ConvertFrom).                                               *)
(***************************************************************************)
VersionsAgree == [](WrittenIsRead /\ RewriteAccepted) /\ RewriteKeeps
===========================================================================
