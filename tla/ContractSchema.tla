--------------------------- MODULE ContractSchema ---------------------------
(***************************************************************************)
(* Schema of src/contract/mod.rs: the schemas contracts are made of.  What *)
(* is computed of a schema from the same of its inner schemas is here and  *)
(* in SchemaDiff and SchemaValues one level at a time; SchemaKeys and      *)
(* SchemaRecursion close the recursion.                                    *)
(***************************************************************************)
EXTENDS Naturals, SequencesExt, ContractTerms, TLC

CONSTANTS
    AllNames,  \* the property names, a sequence in the order of a BTreeMap
    KeyOf(_)   \* structural_key of a schema

KnownNames == ToSet(AllNames)

Kinds == {"object", "array", "oneOf", "allOf", "anyOf", "string", "integer",
          "number", "boolean", "unknown", "cycleRef"}

Composed == {"oneOf", "anyOf"}

NoProps == [n \in {} |-> None]

(* AdditionalProperties.                                                   *)
Unknown == [policy |-> "unknown", schema |-> None]
Forbidden == [policy |-> "forbidden", schema |-> None]
AnyValue == [policy |-> "any", schema |-> None]
ValuesOf(schema) == [policy |-> "schema", schema |-> schema]

(* A schema of a kind with nothing else said about it.                     *)
Plain(kind) ==
    [kind |-> kind, nullable |-> FALSE, format |-> None, enum |-> {}, props |-> NoProps,
     items |-> None, additional |-> Forbidden, branches |-> <<>>, target |-> None]

UnknownSchema == Plain("unknown")

Property(required, schema) == [required |-> required, schema |-> schema]

(* An input error, where a schema was asked for.                           *)
Error == [kind |-> "error"]

IsError(schema) == schema.kind = "error"

(* f, and what g says besides: @@ of TLC, for the provers.                 *)
Merged(f, g) == [x \in DOMAIN f \cup DOMAIN g |-> IF x \in DOMAIN f THEN f[x] ELSE g[x]]

(* The schemas directly inside a schema.                                   *)
Inner(s) ==
    {s.props[n].schema : n \in DOMAIN s.props} \cup ToSet(s.branches)
      \cup ({s.items, s.additional.schema} \ {None})

(* A schema with f applied to every one directly inside, and branches.     *)
WithInner(s, f(_), branches) ==
    [kind |-> s.kind, nullable |-> s.nullable, format |-> s.format, enum |-> s.enum,
     props |-> [n \in DOMAIN s.props |-> Property(s.props[n].required, f(s.props[n].schema))],
     items |-> IF s.items = None THEN None ELSE f(s.items),
     additional |-> IF s.additional.schema = None THEN s.additional ELSE ValuesOf(f(s.additional.schema)),
     branches |-> branches, target |-> s.target]

MapInner(s, f(_)) == WithInner(s, f, [i \in DOMAIN s.branches |-> f(s.branches[i])])

(* sort_by_key and dedup_by: schemas in the order of their structural      *)
(* keys, one of each.  It is an order of hashes: no matter which, but      *)
(* always the same.                                                        *)
ByKey(schemas) ==
    LET keys == SetToSeq({KeyOf(s) : s \in schemas}) IN
    [i \in DOMAIN keys |-> CHOOSE s \in schemas : KeyOf(s) = keys[i]]

(* The key of a path parameter: its placeholder, by number.                *)
Slot(i) == [in |-> "path", name |-> "{" \o ToString(i - 1) \o "}"]

(* Structural identity, of a schema whose inner schemas are keys already:  *)
(* branches are a set, and an additional-properties policy nobody knows is *)
(* written as forbidden.  A hash is modelled by what it is a hash of.      *)
KeyFrom(inner) ==
    [kind |-> inner.kind, nullable |-> inner.nullable, format |-> inner.format, enum |-> inner.enum,
     props |-> inner.props, items |-> inner.items,
     additional |-> IF inner.additional = Unknown THEN Forbidden ELSE inner.additional,
     branches |-> ToSet(inner.branches), target |-> inner.target]
=============================================================================
