--------------------------- MODULE SchemaPromises ---------------------------
(***************************************************************************)
(* What the reports of diff_schema are to promise, stated in the values    *)
(* that programs send each other: a value written by one side must be read *)
(* by the other.                                                           *)
(***************************************************************************)
EXTENDS SchemaTree, SchemaValues, SchemaDiff

CONSTANTS
    Values,      \* the JSON values that are sent
    KeyApart(_)  \* the structural key of a schema, targets of cycle references apart

(* Values are of JSON types, or references to what a schema has cut, and   *)
(* so is what is inside them.                                              *)
ValuesAssumption ==
    \A v \in Values :
       /\ v.type \notin Composed \cup {"unknown"}
       /\ v.type = "object" => \A n \in DOMAIN v.fields : v.fields[n] \in Values
       /\ v.type = "array" => v.elements \subseteq Values
ASSUME ValuesAssumption

(* What is computed of inner schemas is what is computed of schemas: with  *)
(* Depth, this says what each of the parameters is on Schemas.             *)
RecursionAssumption ==
    /\ \A s \in Schemas : KeyOf(s) # None /\ KeyOf(s) = KeyFrom(MapInner(s, KeyOf))
    /\ \A s \in Schemas : KeyApart(s) # None /\ KeyApart(s) = KeyFrom([MapInner(s, KeyApart) EXCEPT !.target = None])
    /\ \A u \in Usages, old, new \in Schemas : DiffOf(u, old, new) = DiffSchema(u, old, new)
    /\ \A s \in Schemas, v \in Values, tolerant \in BOOLEAN : Admitted(s, v, tolerant) <=> Admits(s, v, tolerant)
ASSUME RecursionAssumption

(* Requests are written for the old schema, responses for the new one.     *)
Safe(where, old, new) ==
    \A v \in Values :
       IF where = "request" THEN Writes(old, v) => Reads(new, v)
       ELSE Writes(new, v) => Reads(old, v)

(* What the comparison is known not to see: a list of values that appears  *)
(* where there was none, or disappears, counts as values added or removed; *)
(* and cycle references are equal.                                         *)
EnumGap(where, old, new) ==
    LET free == IF where = "request" THEN old ELSE new
        listed == IF where = "request" THEN new ELSE old IN
    \E s \in Nested(free), t \in Nested(listed) :
       s.kind = t.kind /\ s.enum = {} /\ t.enum # {}

CycleGap(old, new) ==
    \E s \in Nested(old), t \in Nested(new) :
       s.kind = "cycleRef" /\ t.kind = "cycleRef" /\ s.target # t.target

KnownGap(where, old, new) == EnumGap(where, old, new) \/ CycleGap(old, new)
=============================================================================
