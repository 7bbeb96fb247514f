-------------------------- MODULE MCDeclaredVerify ---------------------------
(***************************************************************************)
(* Small OpenAPI documents for TLC, grouped by what they vary, and the     *)
(* requests and values that tell them apart.                               *)
(***************************************************************************)
EXTENDS DeclaredVerify, SchemaNormalize

MCNames == <<"p", "q">>

Nothing == <<>>

(* Schemas and values.                                                     *)
Str == Doc("string")
Whole == Doc("integer")
Num == Doc("number")
Null(d) == [d EXCEPT !.nullable = TRUE]
Listed(texts) == [Str EXCEPT !.enum = texts]
Obj(props, required) == [Doc("object") EXCEPT !.props = props, !.required = required]
P(d) == [n \in {"p"} |-> d]
PQ(d, e) == [n \in {"p", "q"} |-> IF n = "p" THEN d ELSE e]
Dict(d) == [Doc("object") EXCEPT !.additional = ValuesOf(d)]
Arr(d) == [Doc("array") EXCEPT !.items = d]
OneOf(members) == [Doc("oneOf") EXCEPT !.members = members]
Cycle(target) == [Doc("cycle") EXCEPT !.target = target]

Value(type, text) == [type |-> type, text |-> text, fields |-> NoProps, elements |-> {}]
A == Value("string", "a")
One == Value("integer", "1")
Fields(f) == [Value("object", "") EXCEPT !.fields = f]
Back == Value("opaque", "A")
MCValues ==
    {A, Value("string", "b"), One, Value("null", "null"), Back, Fields(NoProps), Fields(P(A)), Fields(P(One)),
     Fields(P(Back)), Fields(PQ(A, A))}

(* Documents.                                                              *)
Path(shape, names) == [shape |-> shape, names |-> names]
Items == Path("/items", <<>>)
ItemBy(name) == Path("/items/{0}", <<name>>)

Content1(type, spelling, schema) == <<[type |-> type, spelling |-> spelling, schema |-> schema]>>
Json(schema) == Content1("json", "", schema)
Answer(content) == [content |-> content]

Plainest == [security |-> None, servers |-> <<>>, parameters |-> <<>>, body |-> None,
             responses |-> "200" :> Answer(Json(Str))]
Item(operations) == [servers |-> <<>>, parameters |-> <<>>, operations |-> operations]
Of(paths) == [servers |-> <<>>, security |-> <<>>, schemes |-> Nothing, parameters |-> Nothing,
              bodies |-> Nothing, responses |-> Nothing, paths |-> paths]
Get(operation) == "GET" :> operation
Post(operation) == "POST" :> operation
Single(operation) == Of(Items :> Item(Get(operation)))
SinglePost(operation) == Of(Items :> Item(Post(operation)))
Base == Single(Plainest)

(* Authentication.                                                         *)
Name(word, spelling) == [word |-> word, spelling |-> spelling]
Key == [type |-> "apiKey", name |-> Name("X-Key", "")]
Bearer(spelling) == [type |-> "http", name |-> Name("bearer", spelling)]
Schemes == ("key" :> Key) @@ ("token" :> Bearer("")) @@ ("other" :> Bearer("UP")) @@ ("alias" :> Ref("token"))
Swapped == ("key" :> Bearer("")) @@ ("token" :> Key)
SelfRef == ("token" :> Ref("token"))
Need(name, scopes) == [name |-> name, scopes |-> scopes]
Secured(security, schemes) == [Base EXCEPT !.security = security, !.schemes = schemes]
AuthDocs ==
    {Secured(s, Schemes) :
        s \in {<<>>, <<<<Need("key", {})>>>>, <<<<Need("token", {})>>>>, <<<<Need("token", {"r"})>>>>,
               <<<<Need("token", {"r", "w"})>>>>, <<<<Need("alias", {"r"})>>>>,
               <<<<Need("key", {}), Need("token", {"r"})>>>>, <<<<Need("key", {})>>, <<Need("token", {"r"})>>>>,
               <<<<>>, <<Need("token", {"r"})>>>>, <<<<Need("ghost", {"r"})>>>>,
               <<<<Need("ghost", {"r"})>>, <<Need("ghost", {})>>>>,
               <<<<Need("token", {"r"}), Need("other", {"w"})>>>>}}
      \cup {Secured(<<<<Need("key", {}), Need("token", {"r"})>>>>, Swapped),
            Secured(<<<<Need("key", {})>>>>, Swapped), Secured(<<<<Need("token", {"r"})>>>>, SelfRef),
            [Single([Plainest EXCEPT !.security = <<<<Need("key", {})>>>>]) EXCEPT !.schemes = Schemes]}
AuthSpellings ==
    {Secured(<<<<Need("token", {"r"}), Need("key", {})>>>>, Schemes),
     Secured(<<<<Need("key", {}), Need("other", {"r"})>>>>, Schemes),
     Secured(<<<<Need("key", {"r"}), Need("token", {})>>>>, Swapped),
     [Single([Plainest EXCEPT !.security = <<<<Need("alias", {"r"}), Need("key", {})>>>>]) EXCEPT !.schemes = Schemes]}

(* Servers.                                                                *)
Server(site, labels, rest) == [site |-> site, vars |-> labels, rest |-> rest]
SiteA == Server("https://a", "", "")
SiteB == Server("https://b", "", "")
ServerDocs ==
    {[Base EXCEPT !.servers = s] : s \in {<<>>, <<SiteA>>, <<SiteA, SiteB>>, <<Server("https://{}", "{eu}", "")>>, <<Server("https://{}", "{us}", "")>>}}
      \cup {[Of(Items :> [Item(Get(Plainest)) EXCEPT !.servers = <<SiteB>>]) EXCEPT !.servers = <<SiteA>>],
            Of(Items :> [Item(Get([Plainest EXCEPT !.servers = <<SiteA>>])) EXCEPT !.servers = <<SiteB>>])}
ServerSpellings ==
    {[Base EXCEPT !.servers = <<SiteA, SiteB>>], [Base EXCEPT !.servers = <<SiteB, Server("https://a", "", "#x")>>],
     [Single([Plainest EXCEPT !.servers = <<SiteB, SiteA>>]) EXCEPT !.servers = <<SiteA>>]}

(* Parameters.                                                             *)
Param(in, name, required, schema) == [in |-> in, name |-> name, required |-> required, schema |-> schema]
Id(word, schema) == Param("path", Name(word, ""), FALSE, schema)
Q(required, schema) == Param("query", Name("q", ""), required, schema)
Trace(spelling) == Param("header", Name("trace", spelling), TRUE, Str)
With(name, atPath, atOperation) ==
    Of(ItemBy(name) :> [Item(Get([Plainest EXCEPT !.parameters = atOperation])) EXCEPT !.parameters = atPath])
ParamDocs ==
    {With("id", <<>>, <<>>), With("id", <<Id("id", Str)>>, <<>>), With("id", <<>>, <<Id("id", Whole)>>),
     With("key", <<Id("key", Num)>>, <<>>), With("key", <<Id("id", Str)>>, <<>>), With("id", <<>>, <<Q(FALSE, Whole)>>),
     With("id", <<>>, <<Q(TRUE, Whole)>>), With("id", <<>>, <<Q(FALSE, Num)>>), With("id", <<>>, <<Q(FALSE, None)>>),
     With("id", <<Q(TRUE, Str)>>, <<Q(FALSE, Whole)>>), With("id", <<>>, <<Q(FALSE, Str), Q(TRUE, Str)>>),
     With("id", <<>>, <<Param("query", Name("q", "UP"), FALSE, Whole)>>), With("id", <<>>, <<Ref("none")>>),
     [With("id", <<>>, <<Ref("id")>>) EXCEPT !.parameters = "id" :> Ref("id")],
     [With("id", <<Id("id", Str)>>, <<Ref("key")>>) EXCEPT !.parameters = ("key" :> Ref("id")) @@ ("id" :> Ref("id"))],
     [With("id", <<>>, <<Ref("key")>>) EXCEPT !.parameters = ("key" :> Ref("by")) @@ ("by" :> Ref("key"))],
     With("id", <<Trace("")>>, <<>>), [Of(Path("/items/{0}", <<"id", "id">>) :> Item(Get(Plainest))) EXCEPT !.servers = <<>>]}
ParamSpellings ==
    {With("id", <<Trace("UP"), Id("id", Str)>>, <<Q(FALSE, Whole)>>),
     With("key", <<Q(TRUE, Str)>>, <<Q(FALSE, Whole), Id("key", Str), Trace("")>>),
     [With("by", <<>>, <<Ref("q"), Trace("")>>) EXCEPT
        !.parameters = ("q" :> Ref("r")) @@ ("r" :> Q(FALSE, Whole))]}

(* Bodies and responses.                                                   *)
Sent(required, content) == [required |-> required, content |-> content]
BodyDocs ==
    {SinglePost([Plainest EXCEPT !.body = b]) :
        b \in {None, Sent(FALSE, Json(Str)), Sent(TRUE, Json(Str)), Sent(TRUE, Json(Whole)), Sent(TRUE, Json(Num)),
               Sent(TRUE, Json(Listed({"a"}))), Sent(TRUE, Json(Listed({"a", "b"}))),
               Sent(FALSE, Json(Str) \o Content1("xml", "", Str)), Sent(TRUE, Json(Str) \o Content1("json", "UP", Num)),
               Sent(TRUE, Json(Obj(P(Str), {"p"}))), Sent(TRUE, Json(Obj(P(Str), {}))), Sent(FALSE, <<>>)}}
      \cup {[SinglePost([Plainest EXCEPT !.body = Ref("a")]) EXCEPT !.bodies = ("a" :> Ref("b")) @@ ("b" :> b)] :
               b \in {Ref("a"), Ref("b"), Ref("c"), Sent(TRUE, Json(Str))}}
ResponseDocs ==
    {Single([Plainest EXCEPT !.responses = r]) :
        r \in {Nothing, "200" :> Answer(<<>>), "200" :> Answer(Json(Str)), "200" :> Answer(Content1("xml", "", Str)),
               "200" :> Answer(Json(Str) \o Content1("xml", "", Str)), "200" :> Answer(Json(Num)),
               ("200" :> Answer(Json(Str))) @@ ("404" :> Answer(Json(Whole))),
               ("201" :> Answer(Json(Str))) @@ ("default" :> Answer(Json(Str))),
               ("201" :> Answer(Json(Str))) @@ ("default" :> Answer(Json(Num))),
               "200" :> Answer(Json(Obj(P(Str), {"p"}))), "200" :> Answer(Json(Obj(P(Null(Str)), {}))),
               "200" :> Answer(Json(Obj(PQ(Str, Str), {"p", "q"})))}}
      \cup {[Single([Plainest EXCEPT !.responses = "200" :> Ref("a")]) EXCEPT !.responses = t] :
               t \in {"a" :> Answer(Json(Str)), "b" :> Answer(Json(Str)), "a" :> Ref("a")}}

(* Paths.                                                                  *)
PathDocs ==
    {Base, Of(Items :> Item(Get(Plainest) @@ Post(Plainest))), Of(ItemBy("id") :> Item(Get(Plainest))),
     Of((Items :> Item(Get(Plainest))) @@ (ItemBy("id") :> Item(Post(Plainest)))),
     Of((ItemBy("id") :> Item(Get(Plainest))) @@ (ItemBy("key") :> Item(Get(Plainest)))),
     Of((ItemBy("id") :> Item(Get(Plainest))) @@ (ItemBy("key") :> Item(Post(Plainest)))),
     Of((Items :> Item(Get(Plainest))) @@ (Path("/things", <<>>) :> Ref(Items))),
     Of(Items :> Ref(Items)), Of(Nothing)}
Select(method, path) == [method |-> method, path |-> path]
MCSelections ==
    {<<>>, <<Select("GET", Items)>>, <<Select("GET", Items), Select("POST", Items)>>,
     <<Select("GET", Items), Select("GET", Items)>>, <<Select("GET", ItemBy("any"))>>}

(* Schemas in the table.                                                   *)
TableDocs ==
    {Single([Plainest EXCEPT !.responses = "200" :> Answer(Json(s))]) :
        s \in {Obj(PQ(Str, Obj(P(Str), {})), {"p"}), Arr(Obj(P(Null(Str)), {})), OneOf(<<Str, Arr(Whole)>>),
               OneOf(<<Obj(P(Str), {}), Str>>), Dict(Dict(Str)), Obj(P(Cycle("A")), {}), Obj(P(Cycle("B")), {}), Dict(Cycle("A"))}}

(* Configuration.                                                          *)
Rules(ignore, severity, failOn) ==
    [parses |-> TRUE, rules |-> [ignore |-> ignore, severity |-> severity, failOn |-> failOn]]
Broken == [parses |-> FALSE]
GetItems == [method |-> "GET", shape |-> "/items"]
PostItems == [method |-> "POST", shape |-> "/items"]
IgnoreGone == [words |-> {"removed"}, ops |-> {GetItems}]
Override(words, severity) == [words |-> words, severity |-> severity]
Limits(breaking, warning) == [breaking |-> breaking, warning |-> warning]
Lenient == Rules({IgnoreGone}, <<>>, None)
MCConfigs ==
    {<<None, None>>, <<Broken, Lenient>>, <<None, Lenient>>, <<Lenient, Broken>>,
     <<Rules({}, <<Override({"removed"}, "breaking"), Override({"response"}, "non-breaking")>>, None), None>>,
     <<Rules({}, <<Override({"type"}, "nonbreaking")>>, Limits(0, None)), Lenient>>,
     <<Rules({IgnoreGone}, <<Override({"404"}, "breaking")>>, Limits(1, 0)), None>>,
     <<None, Rules({}, <<>>, Limits(None, 1))>>}
ConfigDocs ==
    {Of(Items :> Item(Get(Plainest) @@ Post(Plainest))), Base,
     Single([Plainest EXCEPT !.responses = ("404" :> Answer(Json(Whole)))]),
     Single([Plainest EXCEPT !.responses = ("200" :> Answer(Json(Whole))) @@ ("404" :> Answer(<<>>)) @@ ("500" :> Answer(<<>>))])}

NoConfigs == {<<None, None>>}
Case(docs, respellings) ==
    [docs |-> docs, selections |-> {<<>>}, configs |-> NoConfigs, versions |-> {2, 3, 4}, edits |-> FALSE,
     respellings |-> respellings]
MCCases ==
    {Case(docs, FALSE) : docs \in {AuthDocs, ServerDocs, ParamDocs, BodyDocs, ResponseDocs, TableDocs}}
      \cup {Case(docs, TRUE) : docs \in {AuthSpellings, ServerSpellings, ParamSpellings}}
      \cup {[Case(PathDocs, FALSE) EXCEPT !.selections = MCSelections],
            [Case(TableDocs, FALSE) EXCEPT !.edits = TRUE, !.versions = {4}],
            [Case(ConfigDocs, FALSE) EXCEPT !.configs = MCConfigs, !.versions = {4}]}

(* Requests.                                                               *)
BearerId == [scheme |-> "http", name |-> "bearer"]
KeyId == [scheme |-> "apiKey", name |-> "X-Key"]
GhostId == [scheme |-> "unknown", name |-> "ghost"]
Root == [site |-> "/", vars |-> ""]
Ask == [op |-> GetItems, server |-> Root, creds |-> Nothing, params |-> Nothing, body |-> None]
OneItem == [Ask EXCEPT !.op = [method |-> "GET", shape |-> "/items/{0}"]]
IdKey == [in |-> "path", name |-> "{0}"]
QueryKey == [in |-> "query", name |-> "q"]
TraceKey == [in |-> "header", name |-> "trace"]
MCRequests ==
    {[Ask EXCEPT !.creds = c] :
        c \in {Nothing, KeyId :> {}, BearerId :> {}, BearerId :> {"r"}, BearerId :> {"r", "w"}, GhostId :> {"r"},
               (KeyId :> {}) @@ (BearerId :> {"r"})}}
      \cup {[Ask EXCEPT !.server = s] : s \in {CanonicalServer(SiteA), CanonicalServer(SiteB)}}
      \cup {[OneItem EXCEPT !.params = p] :
               p \in {IdKey :> v : v \in {A, One}}
                 \cup {(IdKey :> A) @@ (QueryKey :> v) : v \in {A, One}}
                 \cup {(IdKey :> A) @@ (TraceKey :> A)}}
      \cup {[Ask EXCEPT !.op = PostItems, !.body = b] :
               b \in {None} \cup {[type |-> t, value |-> v] : t \in {"json", "xml"},
                                                            v \in {A, Value("string", "b"), One, Fields(NoProps), Fields(P(A))}}}

(* Schemas: what the documents are built of, what is inside, and the same  *)
(* with nullability turned around.                                         *)
MCSchemaOf(d) == LET schema == CHOOSE s \in Normalize(d) : TRUE IN schema

Contracts == {Build(d) : d \in UNION {c.docs : c \in MCCases}} \ {None}
Built == UNION {AllInside(s) : s \in UNION {Roots(contract) : contract \in Contracts}}
MCSchemas == Built \cup {[s EXCEPT !.nullable = ~@] : s \in Built}

RECURSIVE MCDepth(_)
MCDepth(s) == IF Inner(s) = {} THEN 0 ELSE 1 + Max({MCDepth(t) : t \in Inner(s)})

(* With these in the places of IdOf and IdOfV3 they recur through NodeOf   *)
(* and NodeOfV3.                                                           *)
MCIdOf(s) == LET node == NodeOf(s) IN HashOf(node)
MCIdOfV3(s) == LET node == NodeOfV3(s) IN HashOf(node)

RECURSIVE MCNestedV3(_)
MCNestedV3(s) == {s} \cup UNION {MCNestedV3(t) : t \in InnerV3(s)}

RECURSIVE MCUnpoliced(_)
MCUnpoliced(s) == [MapInner(s, MCUnpoliced) EXCEPT !.additional = Unknown]

MCKeyApart(s) == StructuralKey(SameTargets(s))

Closed == INSTANCE SchemaRecursion
MCDifferences(u, old, new) == LET changes == Closed!Differences(u, old, new) IN changes
MCAccepts(s, v, tolerant) == LET accepted == Closed!Accepts(s, v, tolerant) IN accepted
=============================================================================
