--------------------------- MODULE ContractBuilder ---------------------------
(***************************************************************************)
(* normalize of src/openapi/mod.rs: the contract of an OpenAPI document.   *)
(* A document has servers, security, the components schemes, parameters,   *)
(* bodies and responses, and paths.  What a document may spell in several  *)
(* ways is a record of what counts and of the spelling:                    *)
(*   a path        [shape, names]: names of its placeholders, in order     *)
(*   a server      [site, vars, rest]: rest is dropped                     *)
(*   a media type  [type, spelling], a name [word, spelling]               *)
(* A value that cannot be computed is an input error, told by a predicate  *)
(* of the same name with Valid in front.                                   *)
(***************************************************************************)
EXTENDS ContractSchema, FiniteSets, TLC

CONSTANT SchemaOf(_)  \* normalize_schema of a document's schema (SchemaNormalize)

ValidSchema(d) == ~IsError(SchemaOf(d))

Methods == {"GET", "POST"}

(* A reference, within the components of its kind.                         *)
Ref(name) == [ref |-> name]

IsRef(x) == "ref" \in DOMAIN x

(* Where x leads: no name is visited again, so references end at a value,  *)
(* at one that is missing or at one that was visited.                      *)
End(x, table) ==
    LET Step(s) == IF IsRef(s.at) /\ s.at.ref \in DOMAIN table \ s.visiting
                   THEN [at |-> table[s.at.ref], visiting |-> s.visiting \cup {s.at.ref}]
                   ELSE s
        after[n \in 0..Cardinality(DOMAIN table)] ==
            IF n = 0 THEN [at |-> x, visiting |-> {}] ELSE Step(after[n - 1]) IN
    after[Cardinality(DOMAIN table)].at

(* What x refers to, None if it ends at a reference.                       *)
Follow(x, table) == LET end == End(x, table) IN IF IsRef(end) THEN None ELSE end

ResolvePathItem(doc, path) == Follow(doc.paths[path], doc.paths)
ResolveScheme(doc, name) == Follow(doc.schemes[name], doc.schemes)

(* A circle of parameters, bodies or responses is no error: it is cut at   *)
(* the name it comes back to, whose schema is a reference to itself.       *)
CycleTarget(kind, name) == "#/cycles/components/" \o kind \o "/" \o name

CycleTo(kind, name) == [Plain("cycleRef") EXCEPT !.target = CycleTarget(kind, name)]

-----------------------------------------------------------------------------
(* Authentication.                                                         *)

(* auth_scheme_kind.                                                       *)
AuthKind(scheme) ==
    IF scheme.type = "http" /\ scheme.name.word \in {"bearer", "basic"} THEN scheme.name.word
    ELSE scheme.type

(* auth_scheme_identity: only the name of an API key keeps its spelling;   *)
(* the flows of oauth2 are a set of canonical endpoints.                   *)
AuthIdentity(scheme) ==
    [scheme |-> scheme.type,
     name |-> IF scheme.type = "apiKey" THEN scheme.name.word \o scheme.name.spelling
              ELSE scheme.name.word]

ValidSchemes(doc) == \A n \in DOMAIN doc.schemes : ResolveScheme(doc, n) # None

IdentityOf(doc, name) ==
    IF name \in DOMAIN doc.schemes THEN AuthIdentity(ResolveScheme(doc, name)) ELSE UnknownIdentity

(* Requirements are a sequence of alternatives, each a sequence of         *)
(* [name, scopes]: their places, and the order of the loop over them.      *)
Places(requirements) == UNION {{<<i, j>> : j \in DOMAIN requirements[i]} : i \in DOMAIN requirements}

Asked(requirements, p) == requirements[p[1]][p[2]]

Earlier(p, q) == p[1] < q[1] \/ (p[1] = q[1] /\ p[2] < q[2])

(* All but those of a known identity that was asked for before.            *)
Kept(doc, requirements) ==
    LET Who(p) == IdentityOf(doc, Asked(requirements, p).name) IN
    {p \in Places(requirements) :
        IsKnown(Who(p)) => \A q \in Places(requirements) : Earlier(q, p) => Who(q) # Who(p)}

(* The last of a name takes the place of the ones before.                  *)
LastOf(doc, requirements, name) ==
    LET named == {p \in Kept(doc, requirements) : Asked(requirements, p).name = name} IN
    CHOOSE p \in named : \A q \in named : ~Earlier(p, q)

Requirement(doc, r) ==
    [kind |-> IF r.name \in DOMAIN doc.schemes THEN AuthKind(ResolveScheme(doc, r.name)) ELSE "unknown",
     identity |-> IdentityOf(doc, r.name), scopes |-> r.scopes]

(* normalize_auth_requirements.  The alternatives go into one map, of the  *)
(* requirements by their names; none at all where one of them asks for     *)
(* nothing.                                                                *)
NormalizeAuth(doc, requirements) ==
    IF <<>> \in ToSet(requirements) THEN <<>>
    ELSE [name \in {Asked(requirements, p).name : p \in Kept(doc, requirements)} |->
            Requirement(doc, Asked(requirements, LastOf(doc, requirements, name)))]

-----------------------------------------------------------------------------
(* Servers: those of the operation, else of the path, else of the          *)
(* document, else "/".                                                     *)
CanonicalServer(server) == [site |-> server.site, vars |-> server.vars]

EffectiveServers(doc, item, operation) ==
    LET source == IF operation.servers # <<>> THEN operation.servers
                  ELSE IF item.servers # <<>> THEN item.servers
                  ELSE doc.servers IN
    IF source = <<>> THEN {[site |-> "/", vars |-> ""]}
    ELSE {CanonicalServer(s) : s \in ToSet(source)}

-----------------------------------------------------------------------------
(* Parameters.                                                             *)

(* A faulty form: a header goes by its name as it is spelled.              *)
ParameterKeySpelled(p) == [in |-> p.in, name |-> p.name.word \o p.name.spelling]

(* Without regard to case in a header; a path's are named later.           *)
ParameterKey(p) ==
    [in |-> p.in,
     name |-> IF p.in = "header" THEN p.name.word ELSE p.name.word \o p.name.spelling]

Parameter(p) ==
    [name |-> p.name.word \o p.name.spelling, required |-> p.required \/ p.in = "path",
     schema |-> IF p.schema = None THEN UnknownSchema ELSE SchemaOf(p.schema)]

(* resolve_parameter: the key, and the parameter.                          *)
ResolveKey(doc, p) ==
    LET found == End(p, doc.parameters) IN
    IF IsRef(found)
    THEN [in |-> "path", name |-> CycleTarget("parameters", found.ref)]
    ELSE ParameterKey(found)

ResolveParameter(doc, p) ==
    LET found == End(p, doc.parameters) IN
    IF IsRef(found)
    THEN [name |-> found.ref, required |-> FALSE, schema |-> CycleTo("parameters", found.ref)]
    ELSE Parameter(found)

ValidParameter(doc, p) ==
    LET found == End(p, doc.parameters) IN
    IF IsRef(found) THEN found.ref \in DOMAIN doc.parameters
    ELSE found.schema # None => ValidSchema(found.schema)

(* The parameters of one level: no key twice.                              *)
ValidLevel(doc, level) ==
    /\ \A i \in DOMAIN level : ValidParameter(doc, level[i])
    /\ \A i, j \in DOMAIN level :
          ResolveKey(doc, level[i]) = ResolveKey(doc, level[j]) => i = j

Level(doc, level) ==
    LET Declared(k) == CHOOSE p \in ToSet(level) : ResolveKey(doc, p) = k IN
    [k \in {ResolveKey(doc, p) : p \in ToSet(level)} |-> ResolveParameter(doc, Declared(k))]

(* normalize_parameters: an operation's take the place of its path's.      *)
Parameters(doc, item, operation) ==
    Merged(Level(doc, operation.parameters), Level(doc, item.parameters))

(* canonicalize_path_parameters: path parameters go by the number of their *)
(* placeholder, one by each; a placeholder without one is a string.        *)
ValidBindings(params, names) ==
    LET paths == {k \in DOMAIN params : k.in = "path"} IN
    /\ \A k \in paths : params[k].name \in ToSet(names)
    /\ \A k, l \in paths : params[k].name = params[l].name => k = l

BindPathParameters(params, names) ==
    LET declared(i) == {k \in DOMAIN params : k.in = "path" /\ params[k].name = names[i]} IN
    Merged([k \in {key \in DOMAIN params : key.in # "path"} |-> params[k]],
           [k \in {Slot(i) : i \in DOMAIN names} |->
              LET i == CHOOSE slot \in DOMAIN names : Slot(slot) = k IN
              IF declared(i) = {} THEN [name |-> names[i], required |-> TRUE, schema |-> Plain("string")]
              ELSE params[CHOOSE key \in declared(i) : TRUE]])

-----------------------------------------------------------------------------
(* Bodies and responses: of two spellings of a media type the last counts. *)
ValidContent(content) == \A i \in DOMAIN content : ValidSchema(content[i].schema)

Content(content) ==
    [t \in {m.type : m \in ToSet(content)} |->
        SchemaOf(content[SelectLastInSeq(content, LAMBDA m : m.type = t)].schema)]

(* resolve_request_body and resolve_response.                              *)
ValidResolved(x, table) ==
    LET found == End(x, table) IN
    IF IsRef(found) THEN found.ref \in DOMAIN table ELSE ValidContent(found.content)

ResolvedContent(x, table, kind) ==
    LET found == End(x, table) IN
    IF IsRef(found) THEN [t \in {"json"} |-> CycleTo(kind, found.ref)]
    ELSE Content(found.content)

ValidBody(doc, body) == body # None => ValidResolved(body, doc.bodies)

RequestBody(doc, body) ==
    IF body = None THEN None
    ELSE [required |-> LET found == End(body, doc.bodies) IN ~IsRef(found) /\ found.required,
          content |-> ResolvedContent(body, doc.bodies, "requestBodies")]

(* The statuses that are read: a document may have a default response, but *)
(* no contract keeps it.                                                   *)
Statuses(operation) == DOMAIN operation.responses \ {"default"}

ValidResponses(doc, operation) ==
    \A s \in Statuses(operation) : ValidResolved(operation.responses[s], doc.responses)

Responses(doc, operation) ==
    [s \in Statuses(operation) |-> ResolvedContent(operation.responses[s], doc.responses, "responses")]

-----------------------------------------------------------------------------
(* insert_operation.                                                       *)
Security(doc, operation) ==
    IF operation.security = None THEN doc.security ELSE operation.security

ValidOperation(doc, path, item, operation) ==
    /\ ValidLevel(doc, item.parameters) /\ ValidLevel(doc, operation.parameters)
    /\ IsInjective(path.names)
    /\ LET params == Parameters(doc, item, operation) IN ValidBindings(params, path.names)
    /\ ValidBody(doc, operation.body) /\ ValidResponses(doc, operation)

Operation(doc, path, item, operation) ==
    [path |-> path,
     auth |-> NormalizeAuth(doc, Security(doc, operation)),
     servers |-> EffectiveServers(doc, item, operation),
     params |-> BindPathParameters(Parameters(doc, item, operation), path.names),
     body |-> RequestBody(doc, operation.body),
     responses |-> Responses(doc, operation)]

(* The operations of a document as its paths spell them.                   *)
Spelled(doc) ==
    {s \in (DOMAIN doc.paths) \X Methods : s[2] \in DOMAIN ResolvePathItem(doc, s[1]).operations}

Identity(spelled) == [method |-> spelled[2], shape |-> spelled[1].shape]

(* Paths that differ in the names of placeholders only are one path, and   *)
(* may not share a method.                                                 *)
ValidDocument(doc) ==
    /\ ValidSchemes(doc)
    /\ \A path \in DOMAIN doc.paths : ResolvePathItem(doc, path) # None
    /\ \A s \in Spelled(doc) :
          LET item == ResolvePathItem(doc, s[1]) IN
          ValidOperation(doc, s[1], item, item.operations[s[2]])
    /\ \A s, t \in Spelled(doc) : Identity(s) = Identity(t) => s = t

(* The contract, or None for an input error.                               *)
Build(doc) ==
    IF ~ValidDocument(doc) THEN None
    ELSE [op \in {Identity(s) : s \in Spelled(doc)} |->
            LET s == CHOOSE spelled \in Spelled(doc) : Identity(spelled) = op
                item == ResolvePathItem(doc, s[1]) IN
            Operation(doc, s[1], item, item.operations[s[2]])]
=============================================================================
