----------------------------- MODULE OpenApiText -----------------------------
(***************************************************************************)
(* From the text of an OpenAPI document to its schemas: load_contract_text *)
(* of src/openapi/mod.rs.  YAML is rid of what the normaliser does not     *)
(* consume, and rewritten from 3.1 to 3.0, before openapiv3 reads it; JSON *)
(* is read as it is.  A text is a tree of mappings, lists, words and       *)
(* truth values; its one operation has one schema, which stands directly   *)
(* under "responses" here.                                                 *)
(***************************************************************************)
EXTENDS SchemaNormalize, TLC

CONSTANTS
    Extensions, \* the keys that begin with x-
    Rooted      \* the paths that begin with a slash

(* serde_yml::Value.                                                       *)
Tree(kind) == [kind |-> kind, entries |-> [k \in {} |-> None], elements |-> <<>>, word |-> ""]
Mapping(entries) == [Tree("mapping") EXCEPT !.entries = entries]
List(elements) == [Tree("list") EXCEPT !.elements = elements]
Word(word) == [Tree("word") EXCEPT !.word = word]
Truth(word) == [Tree("truth") EXCEPT !.word = word]
Empty == Tree("mapping")

Has(t, key) == key \in DOMAIN t.entries
EntryOf(t, key) == IF Has(t, key) THEN t.entries[key] ELSE Empty
Put(t, key, value) == [t EXCEPT !.entries = (key :> value) @@ @]
Drop(t, keys) == [t EXCEPT !.entries = [k \in DOMAIN @ \ keys |-> t.entries[k]]]

MapTrees(t, f(_)) ==
    [t EXCEPT !.entries = [k \in DOMAIN @ |-> f(t.entries[k])],
              !.elements = [i \in DOMAIN @ |-> f(t.elements[i])]]

-----------------------------------------------------------------------------
(* tolerant_openapi_yaml.                                                  *)

Tolerated == {"tags", "externalDocs", "examples", "callbacks"} \cup Extensions

(* strip_deep, strip_deep_by_prefix: whatever the mapping is for.          *)
RECURSIVE StripDeep(_)
StripDeep(t) == MapTrees(Drop(t, Tolerated), StripDeep)

HttpMethods == {"get", "put", "post", "delete", "options", "head", "patch", "trace"}

(* An operation without responses goes, and a path that had nothing else.  *)
StripBrokenOperations(t) ==
    LET Broken(item) == {m \in DOMAIN item.entries \cap HttpMethods : ~Has(item.entries[m], "responses")}
        items == EntryOf(t, "paths").entries
        kept == [p \in DOMAIN items |-> Drop(items[p], Broken(items[p]))] IN
    IF ~Has(t, "paths") THEN t
    ELSE Put(t, "paths", Mapping([p \in {q \in DOMAIN kept : kept[q] # Empty} |-> kept[p]]))

-----------------------------------------------------------------------------
(* normalize_openapi31_to_30.                                              *)

IsOpenApi31(t) == EntryOf(t, "openapi").word = "3.1"

(* Entries of one mapping go into another and win.                         *)
MoveDefs(t) ==
    LET components == EntryOf(t, "components")
        schemas == EntryOf(components, "schemas")
        moved == Mapping(t.entries["$defs"].entries @@ schemas.entries) IN
    IF ~Has(t, "$defs") THEN t
    ELSE Put(Drop(t, {"$defs"}), "components", Put(components, "schemas", moved))

MoveWebhooks(t) ==
    LET hooks == [h \in DOMAIN t.entries["webhooks"].entries |->
                    Put(t.entries["webhooks"].entries[h], "x-webhook", Truth("true"))] IN
    IF ~Has(t, "webhooks") THEN t
    ELSE Put(Drop(t, {"webhooks"}), "paths", Mapping(hooks @@ EntryOf(t, "paths").entries))

(* A faulty form: null goes, but is not remembered.                        *)
ConvertTypeListForgetting(t) ==
    LET types == SelectSeq(EntryOf(t, "type").elements, LAMBDA w : w.word # "null") IN
    IF types = EntryOf(t, "type").elements \/ types = <<>> THEN t ELSE Put(t, "type", Head(types))

(* convert_type_array: of several types next to null the first stays.      *)
ConvertTypeList(t) ==
    LET listed == EntryOf(t, "type").elements
        types == SelectSeq(listed, LAMBDA w : w.word # "null") IN
    IF types = listed THEN t
    ELSE Put(IF types = <<>> THEN Drop(t, {"type"}) ELSE Put(t, "type", Head(types)),
             "nullable", Truth("true"))

ConvertPrefixItems(t) ==
    LET prefix == EntryOf(t, "prefixItems").elements
        rest == Drop(t, {"prefixItems"}) IN
    IF prefix # <<>> /\ ~Has(t, "items") THEN Put(rest, "items", Head(prefix)) ELSE rest

BoolToSchema(t) ==
    IF t.kind # "truth" THEN t
    ELSE IF t.word = "true" THEN Empty ELSE Put(Empty, "not", Empty)

ConvertBoolSchemas(t) ==
    LET Converted(k, u) ==
          IF k \in {"schema", "items", "not", "contains", "if", "then", "else"} THEN BoolToSchema(u)
          ELSE IF k \in {"oneOf", "allOf", "anyOf"} \/ (k = "properties" /\ u.kind = "mapping")
               THEN MapTrees(u, BoolToSchema)
          ELSE u IN
    [t EXCEPT !.entries = [k \in DOMAIN @ |-> Converted(k, t.entries[k])]]

RECURSIVE TransformSchema(_)
TransformSchema(t) ==
    MapTrees(Drop(ConvertBoolSchemas(ConvertPrefixItems(ConvertTypeList(t))), {"$defs"}), TransformSchema)

To30(t) == TransformSchema(MoveWebhooks(MoveDefs(Put(t, "openapi", Word("3.0.3")))))

Cleaned(text) ==
    IF text.json THEN text.tree
    ELSE StripBrokenOperations(StripDeep(IF IsOpenApi31(text.tree) THEN To30(text.tree) ELSE text.tree))

-----------------------------------------------------------------------------
(* openapiv3, as far as the normaliser relies on it.                       *)

SchemasIn(t) ==
    {EntryOf(t, "properties").entries[n] : n \in DOMAIN EntryOf(t, "properties").entries}
      \cup UNION {ToSet(EntryOf(t, k).elements) : k \in {"oneOf", "allOf", "anyOf"}}
      \cup {t.entries[k] : k \in {"items", "not", "additionalProperties"} \cap DOMAIN t.entries}

(* A schema that is no mapping, or whose type is no word, is refused with  *)
(* the document around it.                                                 *)
RECURSIVE SchemaParses(_)
SchemaParses(t) ==
    /\ t.kind = "mapping"
    /\ Has(t, "type") => t.entries["type"].kind = "word"
    /\ \A u \in SchemasIn(t) : (u = EntryOf(t, "additionalProperties") /\ u.kind = "truth") \/ SchemaParses(u)

Components(t) == EntryOf(EntryOf(t, "components"), "schemas").entries

Parses(t) ==
    /\ \A n \in DOMAIN Components(t) : SchemaParses(Components(t)[n])
    /\ \A p \in DOMAIN EntryOf(t, "paths").entries :
          LET item == t.entries["paths"].entries[p] IN
          \A m \in DOMAIN item.entries \cap HttpMethods :
             Has(item.entries[m], "responses") /\ SchemaParses(EntryOf(item.entries[m].entries["responses"], "schema"))

WordsOf(t) == {w.word : w \in ToSet(t.elements)}

(* A reference becomes what it refers to, a cycle reference where that is  *)
(* being read already, and an error where nothing has the name.            *)
RECURSIVE Parsed(_, _, _)
Parsed(t, components, seen) ==
    LET Inside(u) == Parsed(u, components, seen)
        Says(key) == EntryOf(t, key).word
        props == EntryOf(t, "properties").entries
        rest == EntryOf(t, "additionalProperties")
        start == [Doc("none") EXCEPT !.nullable = Says("nullable") = "true"]
        composed == {"oneOf", "allOf", "anyOf"} \cap DOMAIN t.entries IN
    CASE Has(t, "$ref") ->
           IF Says("$ref") \in seen THEN [Doc("cycle") EXCEPT !.target = Says("$ref")]
           ELSE IF Says("$ref") \notin DOMAIN components THEN Doc("missing")
           ELSE Parsed(components[Says("$ref")], components, seen \cup {Says("$ref")})
      [] Says("type") = "object" ->
           [start EXCEPT
              !.type = "object",
              !.props = [n \in DOMAIN props |-> Inside(props[n])],
              !.required = WordsOf(EntryOf(t, "required")),
              !.additional = IF ~Has(t, "additionalProperties") THEN None
                             ELSE IF rest.kind = "truth" THEN IF rest.word = "true" THEN AnyValue ELSE Forbidden
                             ELSE ValuesOf(Inside(rest))]
      [] Says("type") = "array" ->
           [start EXCEPT !.type = "array",
                         !.items = IF Has(t, "items") THEN Inside(t.entries["items"]) ELSE None]
      [] Says("type") \in {"string", "integer", "number", "boolean"} ->
           [start EXCEPT !.type = Says("type"),
                         !.format = IF Has(t, "format") THEN Says("format") ELSE None,
                         !.enum = WordsOf(EntryOf(t, "enum"))]
      [] Says("type") = "" /\ composed # {} ->
           LET kind == CHOOSE k \in composed : TRUE
               members == t.entries[kind].elements IN
           [start EXCEPT !.type = kind, !.members = [i \in DOMAIN members |-> Inside(members[i])]]
      [] OTHER -> start

-----------------------------------------------------------------------------
TheSchema(t) == t.entries["paths"].entries["/items"].entries["get"].entries["responses"].entries["schema"]

(* load_contract_text, and the schema of the operation: None where the     *)
(* text is refused.  A path that begins with x- is no path.                *)
Read(text) ==
    LET tree == Cleaned(text)
        PathsOf(t) == DOMAIN EntryOf(t, "paths").entries \ Extensions IN
    IF PathsOf(text.tree) \subseteq Rooted /\ Parses(tree) /\ PathsOf(tree) \subseteq Rooted
    THEN Parsed(TheSchema(tree), Components(tree), {})
    ELSE None
=============================================================================
