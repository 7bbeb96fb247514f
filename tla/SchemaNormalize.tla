--------------------------- MODULE SchemaNormalize ---------------------------
(***************************************************************************)
(* normalize_schema of src/openapi/mod.rs: the schemas of an OpenAPI       *)
(* document, references followed, become the schemas of a contract.  allOf *)
(* is merged away; its members are folded in the order of their hashes,    *)
(* which is any order here, so a document has a set of outcomes.           *)
(***************************************************************************)
EXTENDS SchemaKeys, FiniteSets

(* A schema as a document states it.  type "none" is a schema without a    *)
(* type; required may name properties that are not in props; additional is *)
(* None where the document does not say.  "cycle" is a reference that the  *)
(* resolver cuts, "missing" one to nothing.                                *)
Doc(type) ==
    [type |-> type, nullable |-> FALSE, format |-> None, enum |-> {}, props |-> NoProps,
     required |-> {}, items |-> None, additional |-> None, members |-> <<>>, target |-> None]

-----------------------------------------------------------------------------
(* intersect_schema.  Every part may be an error, and one is enough.       *)

IntersectKinds(left, right) ==
    IF left = "unknown" THEN right
    ELSE IF right = "unknown" \/ left = right THEN left
    ELSE "error"

(* intersect_enums: an empty list is no constraint.                        *)
IntersectEnums(left, right) ==
    IF left = {} THEN right ELSE IF right = {} THEN left ELSE left \cap right

EnumsClash(left, right) == left # {} /\ right # {} /\ left \cap right = {}

FormatsClash(left, right) == left # None /\ right # None /\ left # right

EitherOf(left, right) == IF left = None THEN right ELSE left

RECURSIVE Intersect(_, _)

IntersectItems(left, right) ==
    IF left # None /\ right # None THEN Intersect(left, right) ELSE EitherOf(left, right)

(* A faulty form: a policy is narrowed by the first side only.             *)
IntersectAdditionalFirst(left, right) ==
    IF left \in {Unknown, AnyValue} THEN right
    ELSE IF left = Forbidden \/ right.policy # "schema" THEN left
    ELSE ValuesOf(Intersect(left.schema, right.schema))

(* intersect_additional_properties.                                        *)
IntersectAdditional(left, right) ==
    IF left = Unknown THEN right
    ELSE IF right = Unknown THEN left
    ELSE IF Forbidden \in {left, right} THEN Forbidden
    ELSE IF left = AnyValue THEN right
    ELSE IF right = AnyValue THEN left
    ELSE ValuesOf(Intersect(left.schema, right.schema))

IntersectProps(left, right) ==
    [n \in DOMAIN left \cup DOMAIN right |->
        IF n \notin DOMAIN right THEN left[n]
        ELSE IF n \notin DOMAIN left THEN right[n]
        ELSE Property(left[n].required \/ right[n].required,
                      Intersect(left[n].schema, right[n].schema))]

(* A side without a kind takes what the other one says of keys and         *)
(* branches; two sides with kinds may have no branches.                    *)
Intersect(left, right) ==
    LET leftOpen == left.kind = "unknown"
        rightOpen == right.kind = "unknown"
        oneOpen == leftOpen # rightOpen
        known == IF leftOpen THEN right ELSE left
        merged ==
          [kind |-> IntersectKinds(left.kind, right.kind),
           nullable |-> left.nullable /\ right.nullable,
           format |-> EitherOf(left.format, right.format),
           enum |-> IntersectEnums(left.enum, right.enum),
           props |-> IntersectProps(left.props, right.props),
           items |-> IntersectItems(left.items, right.items),
           additional |-> IF oneOpen THEN known.additional
                          ELSE IntersectAdditional(left.additional, right.additional),
           branches |-> IF oneOpen THEN known.branches ELSE <<>>,
           target |-> left.target] IN
    IF \/ IsError(left) \/ IsError(right)
       \/ IntersectKinds(left.kind, right.kind) = "error"
       \/ FormatsClash(left.format, right.format)
       \/ EnumsClash(left.enum, right.enum)
       \/ ~oneOpen /\ (left.branches # <<>> \/ right.branches # <<>>)
       \/ \E s \in Inner(merged) : IsError(s)
    THEN Error
    ELSE merged

(* merge_all_of: the last one, intersected with the others from the first. *)
MergeAllOf(members) ==
    IF members = <<>> THEN UnknownSchema
    ELSE FoldLeft(Intersect, Last(members), Front(members))

Merges(members) ==
    LET distinct == ByKey(ToSet(members)) IN
    {MergeAllOf([i \in DOMAIN distinct |-> distinct[order[i]]]) :
        order \in Permutations(DOMAIN distinct)}

-----------------------------------------------------------------------------
(* One choice from each of a function's sets.                              *)
OneOfEach(sets) ==
    {f \in [DOMAIN sets -> UNION {sets[x] : x \in DOMAIN sets}] :
        \A x \in DOMAIN sets : f[x] \in sets[x]}

(* A schema with given inner ones: an error if one of those is.            *)
Assemble(schema) == IF \E s \in Inner(schema) : IsError(s) THEN Error ELSE schema

Failed(schemas) == \E i \in DOMAIN schemas : IsError(schemas[i])

(* allOf narrows nullability once more, by its own.                        *)
NarrowNullable(schema, nullable) ==
    IF IsError(schema) THEN schema ELSE [schema EXCEPT !.nullable = @ /\ nullable]

RECURSIVE Normalize(_)
Normalize(doc) ==
    LET start == [Plain(doc.type) EXCEPT !.nullable = doc.nullable]
        members == OneOfEach([i \in DOMAIN doc.members |-> Normalize(doc.members[i])])
        Required(n) == n \in doc.required
        additionals == IF doc.additional \in {None, AnyValue} THEN {AnyValue}
                       ELSE IF doc.additional = Forbidden THEN {Forbidden}
                       ELSE {ValuesOf(s) : s \in Normalize(doc.additional.schema)} IN
    CASE doc.type = "object" ->
           {Assemble([start EXCEPT !.additional = a,
                                   !.props = [n \in DOMAIN p |-> Property(Required(n), p[n])]]) :
              a \in additionals,
              p \in OneOfEach([n \in DOMAIN doc.props |-> Normalize(doc.props[n])])}
      [] doc.type = "array" ->
           {Assemble([start EXCEPT !.items = s]) :
              s \in IF doc.items = None THEN {None} ELSE Normalize(doc.items)}
      [] doc.type \in Composed ->
           {IF Failed(m) THEN Error ELSE [start EXCEPT !.branches = ByKey(ToSet(m))] :
              m \in members}
      [] doc.type = "allOf" ->
           UNION {{NarrowNullable(s, doc.nullable) :
                     s \in IF Failed(m) THEN {Error} ELSE Merges(m)} : m \in members}
      [] doc.type \in {"string", "integer", "number", "boolean"} ->
           {[start EXCEPT !.enum = doc.enum,
                          !.format = IF doc.type = "boolean" THEN None ELSE doc.format]}
      [] doc.type = "cycle" -> {[Plain("cycleRef") EXCEPT !.target = doc.target]}
      [] doc.type = "none" -> {[start EXCEPT !.kind = "unknown"]}
      [] doc.type = "missing" -> {Error}
=============================================================================
