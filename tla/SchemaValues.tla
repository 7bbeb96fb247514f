---------------------------- MODULE SchemaValues ----------------------------
(***************************************************************************)
(* The JSON values a schema stands for: no code of the program, but what   *)
(* its reports are about.                                                  *)
(***************************************************************************)
EXTENDS ContractSchema

CONSTANT Admitted(_, _, _)  \* Admits, of inner schemas

(* Values.  A known name is one that some version may declare.  A program  *)
(* writes a known name only if the schema it was written for declares it,  *)
(* and does not look at known names which that schema does not declare.    *)
(* additionalProperties governs the names that are not known.  oneOf is    *)
(* read as anyOf: the comparison does not ask whether branches overlap.    *)

TypesOf(kind) ==
    CASE kind = "number" -> {"integer", "number"}
      [] kind = "cycleRef" -> {"opaque"}
      [] OTHER -> {kind}

AdmitsFields(s, fields, tolerant) ==
    /\ \A n \in DOMAIN s.props : s.props[n].required => n \in DOMAIN fields
    /\ \A n \in DOMAIN fields :
          IF n \in DOMAIN s.props THEN Admitted(s.props[n].schema, fields[n], tolerant)
          ELSE IF n \in KnownNames THEN tolerant
          ELSE \/ s.additional \in {AnyValue, Unknown}
               \/ s.additional.policy = "schema" /\ Admitted(s.additional.schema, fields[n], tolerant)

Admits(s, v, tolerant) ==
    \/ v.type = "null" /\ s.nullable
    \/ s.kind \in Composed /\ \E i \in DOMAIN s.branches : Admitted(s.branches[i], v, tolerant)
    \/ s.kind = "unknown" /\ v.type # "null"
    \/ /\ v.type \in TypesOf(s.kind)
       /\ s.enum = {} \/ v.text \in s.enum
       /\ s.kind = "cycleRef" => v.text = s.target
       /\ v.type = "object" => AdmitsFields(s, v.fields, tolerant)
       /\ v.type = "array" => s.items = None \/ \A e \in v.elements : Admitted(s.items, e, tolerant)

Writes(s, v) == Admits(s, v, FALSE)
Reads(s, v) == Admits(s, v, TRUE)
=============================================================================
