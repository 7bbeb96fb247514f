---------------------------- MODULE LegacyTable ------------------------------
(***************************************************************************)
(* Declared contracts in a lock of version 3 (src/lockfile/v3), which      *)
(* older releases wrote and verify still reads.  Identities of schemes,    *)
(* servers, the requiredness of bodies, policies and cycles are not        *)
(* stored; items and branches are properties with names of their own.      *)
(***************************************************************************)
EXTENDS SchemaTable, TLC

CONSTANTS
    IdOfV3(_),   \* the hash of a schema in version 3
    NestedV3(_)  \* a schema and what is stored of its inside, at any depth

(* "oneOf[0]", "oneOf[1]"...                                               *)
BranchName(kind, i) == kind \o "[" \o ToString(i - 1) \o "]"

(* intern_schema of version 3; the fields it does not store have no value. *)
NodeOfV3(s) ==
    LET branchNames == {BranchName(s.kind, i) : i \in DOMAIN s.branches}
        ofProps == [n \in DOMAIN s.props |-> Property(s.props[n].required, IdOfV3(s.props[n].schema))]
        ofItems == IF s.items = None THEN NoProps ELSE [n \in {"items"} |-> Property(TRUE, IdOfV3(s.items))]
        ofBranches ==
          [n \in branchNames |->
             Property(TRUE, IdOfV3(s.branches[CHOOSE i \in DOMAIN s.branches : BranchName(s.kind, i) = n]))] IN
    [kind |-> IF s.kind = "cycleRef" THEN "unknown" ELSE s.kind,
     nullable |-> s.nullable, format |-> s.format, enum |-> s.enum,
     props |-> Merged(Merged(ofBranches, ofItems), ofProps),
     items |-> None, additional |-> Forbidden, branches |-> {}, target |-> None]

(* The values of a dictionary are not stored.                              *)
InnerV3(s) == {s.props[n].schema : n \in DOMAIN s.props} \cup ToSet(s.branches) \cup ({s.items} \ {None})

LegacyAssumption ==
    /\ \A s \in Schemas : IdOfV3(s) = HashOf(NodeOfV3(s))
    /\ \A s \in Schemas : NestedV3(s) = {s} \cup UNION {NestedV3(t) : t \in InnerV3(s)}
    /\ \A s \in Schemas : \A i, j \in DOMAIN s.branches : BranchName(s.kind, i) = BranchName(s.kind, j) => i = j
ASSUME LegacyAssumption

(* Without what version 3 has no room for; path parameters go by name.     *)
StoredV3(operation) ==
    LET Key(k) == IF k.in = "path" THEN [in |-> "path", name |-> operation.params[k].name] ELSE k
        Stored(k) == CHOOSE key \in DOMAIN operation.params : Key(key) = k IN
    [path |-> operation.path,
     auth |-> [n \in DOMAIN operation.auth |-> [operation.auth[n] EXCEPT !.identity = None]],
     servers |-> None,
     params |-> [k \in {Key(key) : key \in DOMAIN operation.params} |->
                   LET p == operation.params[Stored(k)] IN
                   [name |-> k.name, required |-> p.required, schema |-> p.schema]],
     body |-> IF operation.body = None THEN None ELSE [operation.body EXCEPT !.required = None],
     responses |-> operation.responses]

(* build_declared of version 3: operations go by the path as it is spelled.*)
BuildV3(contract, scope) ==
    LET spelled(op) == [method |-> op.method, path |-> contract[op].path]
        stored == [key \in {spelled(op) : op \in DOMAIN contract} |->
                     StoredV3(contract[[method |-> key.method, shape |-> key.path.shape]])]
        operations == [key \in DOMAIN stored |-> MapSchemas(stored[key], IdOfV3)]
        schemas == [id \in {IdOfV3(s) : s \in UNION {NestedV3(root) : root \in Roots(stored)}} |-> id.hash] IN
    [version |-> 3, scope |-> scope, operations |-> operations, schemas |-> schemas,
     digest |-> Digest(scope, operations, schemas)]

-----------------------------------------------------------------------------
(* expand_schema of version 3, of one node.                                *)
ExpandNodeV3(node, expand) ==
    LET names == DOMAIN node.props
        Given(n) == expand[node.props[n].schema]
        ofBranches == IF node.kind \in Composed
                      THEN {n \in names : \E i \in 1..Cardinality(names) : BranchName(node.kind, i) = n} ELSE {}
        ofItems == IF node.kind = "array" THEN {"items"} \cap names ELSE {} IN
    [kind |-> node.kind, nullable |-> node.nullable, format |-> node.format, enum |-> node.enum,
     props |-> [n \in names \ (ofBranches \cup ofItems) |-> Property(node.props[n].required, Given(n))],
     items |-> IF ofItems = {} THEN None ELSE Given("items"),
     additional |-> Unknown, branches |-> ByKey({Given(n) : n \in ofBranches}), target |-> None]

ExpandedV3(schemas) ==
    LET expand[id \in DOMAIN schemas] == ExpandNodeV3(schemas[id], expand) IN expand

(* A faulty form: placeholders are counted from one.                       *)
SlotOfFromOne(names, name) ==
    [in |-> "path", name |-> "{" \o ToString(SelectInSeq(names, LAMBDA n : n = name)) \o "}"]

(* canonicalize_parameter_key.                                             *)
SlotOf(names, name) ==
    [in |-> "path",
     name |-> "{" \o ToString(SelectInSeq(names, LAMBDA n : n = name) - 1) \o "}"]

(* expand_contract of version 3.                                           *)
ExpandOperationV3(operation, expand) ==
    LET Key(k) == IF k.in = "path" THEN SlotOf(operation.path.names, k.name) ELSE k
        Stored(k) == CHOOSE key \in DOMAIN operation.params : Key(key) = k
        expanded == MapSchemas(operation, LAMBDA id : expand[id]) IN
    [expanded EXCEPT !.params = [k \in {Key(key) : key \in DOMAIN operation.params} |-> @[Stored(k)]]]

ExpandV3(entry) ==
    LET expand == ExpandedV3(entry.schemas) IN
    [op \in {[method |-> key.method, shape |-> key.path.shape] : key \in DOMAIN entry.operations} |->
        LET key == CHOOSE k \in DOMAIN entry.operations : k.method = op.method /\ k.path.shape = op.shape IN
        ExpandOperationV3(entry.operations[key], expand)]

(* validate_declared of version 3: its nodes refer by properties only.     *)
ValidV3(entry) ==
    LET stored == {[method |-> key.method, shape |-> key.path.shape] : key \in DOMAIN entry.operations} IN
    /\ entry.scope # {} => entry.scope = stored
    /\ ValidTable(entry)
    /\ entry.digest = Digest(entry.scope, entry.operations, entry.schemas)
=============================================================================
