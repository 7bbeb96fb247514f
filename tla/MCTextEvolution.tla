--------------------------- MODULE MCTextEvolution ----------------------------
(***************************************************************************)
(* Versions of small documents for TLC, and JSON values that tell them     *)
(* apart.  The names "p" and "q" are declared by some versions, "x" by     *)
(* none.                                                                   *)
(***************************************************************************)
EXTENDS TextEvolution

MCNames == <<"p", "q", "tags">>
MCExtensions == {"x-id", "x-webhook"}
MCRooted == {"/items", "/hook"}

(* Values.                                                                 *)
Value(type, word) == [type |-> type, text |-> word, fields |-> NoProps, elements |-> {}]
NullV == Value("null", "null")
A == Value("string", "a")
B == Value("string", "b")
One == Value("integer", "1")
Half == Value("number", "0.5")
ObjectV(fields) == [Value("object", "") EXCEPT !.fields = fields]
ArrayV(elements) == [Value("array", "") EXCEPT !.elements = elements]

Scalars == {NullV, A, B, One, Half, Value("boolean", "true"), Value("opaque", "A"), Value("opaque", "B")}
FlatObjects ==
    {ObjectV(f) : f \in UNION {[S -> {A, One}] : S \in SUBSET {"p", "q", "x"}}}
DeepObjects ==
    {ObjectV([n \in {"p"} |-> v]) :
        v \in {NullV, B, Value("opaque", "A"), ObjectV([n \in {"q"} |-> A]), ObjectV([n \in {"q"} |-> One]),
               ObjectV([n \in {"x"} |-> A]), ObjectV(NoProps), ArrayV({A}), ArrayV({One})}}
Arrays == {ArrayV({}), ArrayV({A}), ArrayV({One}), ArrayV({A, One}), ArrayV({ObjectV(NoProps)}),
           ArrayV({ObjectV([n \in {"p"} |-> A])})}
Tagged == {ObjectV([n \in {"tags"} |-> v]) : v \in {A, One}}
MCValues == Scalars \cup FlatObjects \cup DeepObjects \cup Arrays \cup Tagged

(* Documents.                                                              *)
Str == Doc("string")
Whole == Doc("integer")
Num == Doc("number")
Listed(values) == [Str EXCEPT !.enum = values]
Null(d) == [d EXCEPT !.nullable = TRUE]
Formatted(d, format) == [d EXCEPT !.format = format]
Obj(props, required) == [Doc("object") EXCEPT !.props = props, !.required = required]
P(d) == [n \in {"p"} |-> d]
Q(d) == [n \in {"q"} |-> d]
PQ(d, e) == [n \in {"p", "q"} |-> IF n = "p" THEN d ELSE e]
Keys(d, policy) == [d EXCEPT !.additional = policy]
Arr(d) == [Doc("array") EXCEPT !.items = d]
Of(type, members) == [Doc(type) EXCEPT !.members = members]
Cycle(target) == [Doc("cycle") EXCEPT !.target = target]
Metadata == Doc("none")

ScalarFamily ==
    {Str, Null(Str), Listed({"a"}), Listed({"b"}), Listed({"a", "b"}), Formatted(Str, "date"), Whole, Num,
     Null(Num), [Whole EXCEPT !.enum = {"1"}], Doc("boolean"), Metadata}

FieldFamily ==
    {Obj(NoProps, {})} \cup {Obj(P(d), r) : d \in {Str, Whole}, r \in SUBSET {"p"}}
      \cup {Obj(PQ(d, Str), r) : d \in {Str, Whole}, r \in SUBSET {"p", "q"}}
      \cup {Obj(Q(d), {}) : d \in {Str, Whole}}

KeyFamily ==
    {Keys(d, policy) :
        d \in {Obj(NoProps, {}), Obj(P(Str), {}), Obj(P(Str), {"p"})},
        policy \in {None, Forbidden, ValuesOf(Str), ValuesOf(Whole), ValuesOf(Null(Str))}}

DeepFamily ==
    {Arr(None), Arr(Str), Arr(Null(Str)), Arr(Whole), Arr(Obj(NoProps, {})), Arr(Obj(P(Str), {"p"})),
     Obj(P(Obj(Q(Str), {})), {}), Obj(P(Obj(Q(Str), {"q"})), {}), Obj(P(Obj(Q(Whole), {})), {"p"}),
     Obj(P(Obj(NoProps, {})), {}), Obj(P(Keys(Obj(NoProps, {}), Forbidden)), {}), Obj(P(Arr(Str)), {}),
     Obj(P(Arr(None)), {}), Obj(P(Null(Str)), {})}

UnionFamily ==
    {Of("oneOf", <<Str, Whole>>), Of("oneOf", <<Whole, Str>>), Of("oneOf", <<Str, Str>>), Of("oneOf", <<Whole>>),
     Of("oneOf", <<Str, Num>>), Null(Of("oneOf", <<Str, Whole>>)), Of("anyOf", <<Str, Whole>>), Str,
     Of("oneOf", <<Obj(P(Str), {"p"}), Str>>), Of("oneOf", <<Obj(P(Str), {}), Str>>),
     Of("oneOf", <<Obj(P(Whole), {"p"}), Str>>), Of("oneOf", <<Obj(P(Str), {}), Obj(P(Whole), {}), Str>>),
     Of("oneOf", <<Obj(P(Obj(Q(Str), {})), {}), Str>>), Of("oneOf", <<Obj(PQ(Str, Str), {}), Str>>),
     Of("anyOf", <<Of("oneOf", <<Str, Whole>>), Obj(P(Str), {})>>),
     Of("anyOf", <<Of("oneOf", <<Str>>), Obj(P(Str), {"p"})>>)}

MergeFamily ==
    {Obj(PQ(Str, Str), {"p"}), Of("allOf", <<Obj(P(Str), {"p"}), Obj(Q(Str), {})>>),
     Of("allOf", <<Obj(P(Str), {}), Obj(P(Null(Str)), {"p"}), Metadata>>),
     Of("allOf", <<Keys(Obj(P(Str), {}), Forbidden), Keys(Obj(Q(Whole), {}), ValuesOf(Str))>>),
     Of("allOf", <<Keys(Obj(P(Listed({"a"})), {}), ValuesOf(Listed({"a", "b"}))),
                   Keys(Obj(P(Str), {}), ValuesOf(Listed({"b"})))>>),
     Of("allOf", <<Listed({"a", "b"}), Listed({"b"}), Str>>), Of("allOf", <<Listed({"a"}), Listed({"b"}), Str>>),
     Null(Of("allOf", <<Null(Formatted(Str, "date")), Null(Str)>>)), Of("allOf", <<Null(Str), Null(Metadata)>>),
     Of("allOf", <<Formatted(Str, "date"), Formatted(Str, "byte"), Metadata>>),
     Of("allOf", <<Arr(Str), Arr(None), Arr(Listed({"a"}))>>), Of("allOf", <<Str, Whole, Metadata>>),
     Of("allOf", <<Of("oneOf", <<Str, Whole>>), Metadata>>),
     Of("allOf", <<Of("oneOf", <<Str, Whole>>), Of("oneOf", <<Str>>)>>),
     Of("allOf", <<Obj(P(Str), {}), Obj(P(Whole), {})>>), Of("allOf", <<Cycle("A"), Metadata>>),
     Obj(P(Cycle("A")), {}), Obj(P(Cycle("B")), {}), Arr(Of("allOf", <<Obj(P(Str), {}), Obj(P(Str), {"p"})>>)),
     Of("allOf", <<Obj(P(Str), {}), [Metadata EXCEPT !.props = Q(Str), !.required = {"q"}]>>)}

(* A member that only says what is required.                               *)
RequiredOnly == {Obj(P(Str), {}), Of("allOf", <<Obj(P(Str), {}), Obj(NoProps, {"p"})>>)}

(* Texts.                                                                  *)
Words(set) == List([i \in DOMAIN SetToSeq(set) |-> Word(SetToSeq(set)[i])])

Maybe(key, holds, tree) == IF holds THEN key :> tree ELSE Empty.entries

RECURSIVE Spelled(_)
Spelled(d) ==
    LET members == List([i \in DOMAIN d.members |-> Spelled(d.members[i])])
        rest == IF d.additional = Forbidden THEN Truth("false") ELSE Spelled(d.additional.schema) IN
    IF d.type = "cycle" THEN Mapping("$ref" :> Word(d.target))
    ELSE Mapping(
           Maybe("nullable", d.nullable, Truth("true")) @@ Maybe("format", d.format # None, Word(d.format))
             @@ Maybe("enum", d.enum # {}, Words(d.enum)) @@ Maybe("required", d.required # {}, Words(d.required))
             @@ Maybe("properties", DOMAIN d.props # {}, Mapping([n \in DOMAIN d.props |-> Spelled(d.props[n])]))
             @@ Maybe("items", d.items # None, Spelled(d.items))
             @@ Maybe("additionalProperties", d.additional # None, rest)
             @@ Maybe(d.type, d.type \in {"oneOf", "anyOf", "allOf"}, members)
             @@ Maybe("type", d.type \notin {"oneOf", "anyOf", "allOf", "none"}, Word(d.type)))

Getting(schema) == Mapping("get" :> Mapping("responses" :> Mapping("schema" :> schema)))
Document(openapi, schema) ==
    Mapping(("openapi" :> Word(openapi)) @@ ("paths" :> Mapping("/items" :> Getting(schema))))
Refers(name) == Mapping("$ref" :> Word(name))
Cycles == Mapping("schemas" :> Mapping(("A" :> Refers("A")) @@ ("B" :> Refers("B"))))
Yaml(tree) == [json |-> FALSE, tree |-> tree]
Json(tree) == [json |-> TRUE, tree |-> tree]
Texts(docs) == {Yaml(Put(Document("3.0", Spelled(d)), "components", Cycles)) : d \in docs}

Typed(words) == Mapping("type" :> List([i \in DOMAIN words |-> Word(words[i])]))
Object(props) == Mapping(("type" :> Word("object")) @@ ("properties" :> Mapping(props)))
Array(entries) == Mapping(("type" :> Word("array")) @@ entries)
Anything == Truth("true")
Nothing == Truth("false")

Types31 ==
    {Object("p" :> t) :
        t \in {Spelled(Null(Str)), Spelled(Str), Typed(<<"string", "null">>), Typed(<<"null", "string">>),
               Typed(<<"string", "integer", "null">>), Typed(<<"null">>), Typed(<<"string">>), Anything, Nothing}}
Places31 ==
    {Array("items" :> Anything), Array("items" :> Typed(<<"string", "null">>)), Spelled(Arr(Null(Str))),
     Array("prefixItems" :> List(<<Typed(<<"string", "null">>), Anything>>)),
     Array(("prefixItems" :> List(<<Spelled(Whole)>>)) @@ ("items" :> Spelled(Str))),
     Mapping("oneOf" :> List(<<Anything, Typed(<<"integer", "null">>)>>)),
     Mapping("allOf" :> List(<<Anything, Spelled(Str)>>)), Mapping("allOf" :> List(<<Nothing, Spelled(Str)>>)),
     Object(("p" :> Anything) @@ ("$defs" :> Spelled(Str))), Anything, Nothing,
     Object(("p" :> Spelled(Str)) @@ ("x-id" :> Spelled(Str)))}
Tags == {Object(n :> Spelled(d)) : n \in {"p", "tags"}, d \in {Str, Whole}}

Defined(key, schema) ==
    LET d == Document("3.1", Refers("D")) IN
    IF key = "$defs" THEN Put(d, "$defs", Mapping("D" :> schema))
    ELSE Put(d, "components", Mapping("schemas" :> Mapping("D" :> schema)))
Hooked(name) == Put(Document("3.1", Spelled(Str)), "webhooks", Mapping(name :> Getting(Spelled(Whole))))
Partial ==
    LET d == Document("3.0", Spelled(Str)) IN
    Put(d, "paths", Put(d.entries["paths"], "/hook", Mapping("get" :> Mapping("tags" :> Word("a")))))

Nullables == {Object("p" :> Spelled(Null(Str))), Object("p" :> Typed(<<"string", "null">>))}
TypeTexts == {Yaml(Document("3.1", t)) : t \in Types31} \cup {Json(Document(v, t)) : v \in {"3.0", "3.1"}, t \in Nullables}
PlaceTexts == {Yaml(Document("3.1", t)) : t \in Places31}
TagTexts == {Yaml(Document("3.0", t)) : t \in Tags} \cup {Json(Document("3.0", t)) : t \in Tags}
MovedTexts ==
    {Yaml(d) : d \in {Defined("$defs", Spelled(Str)), Defined("components", Spelled(Whole)), Hooked("/hook"),
                     Hooked("hook"), Partial, Document("3.0", Refers("D"))}} \cup {Json(Partial)}

MCFamilies ==
    {Texts(docs) : docs \in {ScalarFamily, FieldFamily, KeyFamily, DeepFamily, UnionFamily, MergeFamily, RequiredOnly}}
      \cup {TypeTexts, PlaceTexts, TagTexts, MovedTexts}
TagFamilies == {{Yaml(Document("3.0", Object("tags" :> Spelled(d)))) : d \in {Str, Whole}}}

(* Schemas: what the texts are loaded to, and what is inside.              *)
SchemasOf(families) ==
    UNION {AllInside(s) : s \in UNION {Outcomes(text) : text \in UNION families} \ {Error}}
MCSchemas == SchemasOf(MCFamilies)
TagSchemas == SchemasOf(TagFamilies)

RECURSIVE MCDepth(_)
MCDepth(s) == IF Inner(s) = {} THEN 0 ELSE 1 + Max({MCDepth(t) : t \in Inner(s)})
MCKeyApart(s) == StructuralKey(SameTargets(s))

Closed == INSTANCE SchemaRecursion
MCDifferences(u, old, new) == LET changes == Closed!Differences(u, old, new) IN changes
MCAccepts(s, v, tolerant) == LET accepted == Closed!Accepts(s, v, tolerant) IN accepted
=============================================================================
