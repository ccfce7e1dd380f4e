----------------------------- MODULE ApiTypes -----------------------------
(***************************************************************************)
(* How the Go types of the API are written in this project, and what the   *)
(* API server makes of them.                                               *)
(*                                                                         *)
(* A struct is the function from the JSON names of its fields to what the  *)
(* field holds.  A value of the struct is the function from the fields     *)
(* that are set (not the zero value) to their values, so that an omitted   *)
(* field is simply not in the domain.  Strings, numbers, flags and the     *)
(* structs that both versions of an object share are all "text": they are  *)
(* copied and never looked into by a conversion.                           *)
(***************************************************************************)
EXTENDS Naturals, Sequences, TLC

Text(names) == [n \in names |-> [kind |-> "text"]]

\* +kubebuilder:validation:MinLength=1 on a field that is not optional.
NonEmpty(names) == [n \in names |-> [kind |-> "nonEmpty"]]

\* +kubebuilder:validation:Enum; the field itself may be absent.
Enum(values, names) == [n \in names |-> [kind |-> "enum", values |-> values]]

\* A pointer to, or a value of, another struct.
One(struct, names) == [n \in names |-> [kind |-> "one", struct |-> struct]]

\* A list of another struct.
Many(struct, names) == [n \in names |-> [kind |-> "many", struct |-> struct]]

\* Raw JSON, which the schema does not describe.
Raw(names) == [n \in names |-> [kind |-> "raw"]]

---------------------------------------------------------------------------

RECURSIVE Conforms(_, _, _)

(***************************************************************************)
(* The API server accepts a value of a struct: only fields of the struct   *)
(* are set, the required ones are, and the enumerations are respected.     *)
(***************************************************************************)
Conforms(structs, struct, value) ==
    LET fields == structs[struct]
    IN  /\ DOMAIN value \subseteq DOMAIN fields
        /\ \A f \in DOMAIN fields :
              fields[f].kind = "nonEmpty" => f \in DOMAIN value
        /\ \A f \in DOMAIN value :
              CASE fields[f].kind = "enum" -> value[f] \in fields[f].values
                [] fields[f].kind = "one" ->
                     Conforms(structs, fields[f].struct, value[f])
                [] fields[f].kind = "many" ->
                     \A i \in DOMAIN value[f] :
                        Conforms(structs, fields[f].struct, value[f][i])
                [] OTHER -> TRUE

RECURSIVE Decodes(_, _, _)

(***************************************************************************)
(* json.Decoder with DisallowUnknownFields decodes a value into a struct:  *)
(* every field is known, at every depth; nothing is required.              *)
(***************************************************************************)
Decodes(structs, struct, value) ==
    LET fields == structs[struct]
    IN  /\ DOMAIN value \subseteq DOMAIN fields
        /\ \A f \in DOMAIN value :
              CASE fields[f].kind = "one" ->
                     Decodes(structs, fields[f].struct, value[f])
                [] fields[f].kind = "many" ->
                     \A i \in DOMAIN value[f] :
                        Decodes(structs, fields[f].struct, value[f][i])
                [] OTHER -> TRUE

---------------------------------------------------------------------------

\* The fields of a struct literal that are assigned as they are ...
Copy(in, names) == [n \in names \cap DOMAIN in |-> in[n]]

\* ... and those that go through a function.
Via(in, names, Op(_)) == [n \in names \cap DOMAIN in |-> Op(in[n])]

\* A loop that converts a list element by element.
Each(in, Op(_)) == [i \in DOMAIN in |-> Op(in[i])]

ViaEach(in, names, Op(_)) == Via(in, names, LAMBDA l : Each(l, Op))

Set(value, f) == f \in DOMAIN value
===========================================================================
