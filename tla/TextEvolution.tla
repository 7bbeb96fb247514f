---------------------------- MODULE TextEvolution ----------------------------
(***************************************************************************)
(* SchemaEvolution with versions that are texts of OpenAPI documents: what *)
(* a text says itself is what its schema says.                             *)
(***************************************************************************)
EXTENDS SchemaEvolution, OpenApiText

(* A text that is refused is an error, like one that contradicts itself.   *)
Outcomes(text) == IF Read(text) = None THEN {Error} ELSE Normalize(Read(text))

-----------------------------------------------------------------------------
(* What a text says itself, 3.0 or 3.1.  allOf is every member, and        *)
(* narrows nullability; a schema without a type admits no null.            *)
TypesIn(t) == WordsOf(EntryOf(t, "type")) \cup ({EntryOf(t, "type").word} \ {""})

RECURSIVE TextReads(_, _, _, _)
TextReadsFields(t, fields, components, seen) ==
    LET props == EntryOf(t, "properties").entries
        rest == EntryOf(t, "additionalProperties") IN
    /\ WordsOf(EntryOf(t, "required")) \subseteq DOMAIN fields
    /\ \A n \in DOMAIN fields :
          IF n \in DOMAIN props THEN TextReads(props[n], fields[n], components, seen)
          ELSE n \in KnownNames \/ rest.word = "true" \/ rest = Empty \/ TextReads(rest, fields[n], components, seen)

TextReads(t, v, components, seen) ==
    LET Inside(u, w) == TextReads(u, w, components, seen)
        Members(key) == ToSet(EntryOf(t, key).elements)
        target == EntryOf(t, "$ref").word
        nullable == EntryOf(t, "nullable").word = "true" \/ "null" \in TypesIn(t) IN
    CASE t.kind = "truth" -> t.word = "true" /\ v.type # "null"
      [] Has(t, "$ref") ->
           IF target \in seen THEN v.type = "opaque" /\ v.text = target
           ELSE TextReads(components[target], v, components, seen \cup {target})
      [] Has(t, "allOf") -> (\A u \in Members("allOf") : Inside(u, v)) /\ (v.type = "null" => nullable)
      [] v.type = "null" /\ nullable -> TRUE
      [] Has(t, "oneOf") \/ Has(t, "anyOf") -> \E u \in Members("oneOf") \cup Members("anyOf") : Inside(u, v)
      [] OTHER ->
           /\ IF TypesIn(t) = {} THEN v.type # "null" ELSE v.type \in UNION {TypesOf(k) : k \in TypesIn(t)}
           /\ Has(t, "enum") => v.text \in WordsOf(EntryOf(t, "enum"))
           /\ v.type = "object" => TextReadsFields(t, v.fields, components, seen)
           /\ v.type = "array" => \A e \in v.elements : Has(t, "items") => Inside(t.entries["items"], e)
           /\ Has(t, "not") => ~Inside(t.entries["not"], v)

Meaning(text) ==
    LET t == text.tree IN
    {v \in Values : TextReads(TheSchema(t), v, EntryOf(t, "$defs").entries @@ Components(t), {})}

RECURSIVE TreesIn(_)
TreesIn(t) ==
    {t} \cup UNION {TreesIn(t.entries[k]) : k \in DOMAIN t.entries} \cup UNION {TreesIn(u) : u \in ToSet(t.elements)}

(* What is known to be lost on the way: required names that are not in the *)
(* properties next to them, properties next to no type, all types but the  *)
(* first, what is not the first of prefixItems, "not", a reference in      *)
(* allOf, and in YAML every property whose name is that of metadata.       *)
TextGap(text) ==
    \E t \in TreesIn(text.tree) :
       LET props == DOMAIN EntryOf(t, "properties").entries
           types == TypesIn(t) IN
       \/ ~(WordsOf(EntryOf(t, "required")) \subseteq props)
       \/ (props # {} /\ "object" \notin types)
       \/ Cardinality(types \ {"null"}) > 1 \/ types = {"null"}
       \/ {"prefixItems", "not"} \cap DOMAIN t.entries # {}
       \/ Truth("false") \in ToSet(t.elements) \/ \E k \in {"items", "schema"} : EntryOf(t, k) = Truth("false")
       \/ \E n \in props : EntryOf(t, "properties").entries[n] = Truth("false")
       \/ \E u \in ToSet(EntryOf(t, "allOf").elements) : Has(u, "$ref")
       \/ (~text.json /\ props \cap Tolerated # {})

(* But for the gaps named above, a text admits exactly the values that the *)
(* schema in the contract admits, in YAML and JSON, 3.0 and 3.1, through   *)
(* references, allOf, enums and policies (load_contract_text and           *)
(* normalize_schema, src/openapi/mod.rs:46, 1697).                         *)
NormalFormKeepsMeaning ==
    IsError(current) \/ TextGap(version) \/ Meaning(version) = {v \in Values : Reads(current, v)}

(* docs/change-rules.md:102: "Request field type changed." is breaking,     *)
(* and the phase-3 design, line 63: "no silent data loss."  When verify    *)
(* says nothing, the text that was locked and the published one mean the   *)
(* same.                                                                   *)
SilentIfSameText == report = {} => Meaning(source) = Meaning(version)

(* docs/superpowers/specs/2026-07-26-apiwatch-phase-2-trustworthy-         *)
(* comparison-design.md:237: allOf members may come in any order, here     *)
(* that of hashes: same schema or same error, but for the target of a      *)
(* cycle reference, which only one side of an intersection keeps.          *)
AllOfOrderFree ==
    Cardinality({IF IsError(s) THEN s ELSE SameTargets(s) : s \in Outcomes(version)}) = 1
=============================================================================
