---------------------------- MODULE SchemaTable ------------------------------
(***************************************************************************)
(* Declared contracts in a lock of version 4 (src/lockfile/v4): schemas    *)
(* are nodes of a table, each under its hash, and refer to each other by   *)
(* hash.  A hash is modelled as a record of what was hashed, so two have   *)
(* the same value exactly when their contents have.  An entry is           *)
(* [version, scope, operations, schemas, digest].                          *)
(***************************************************************************)
EXTENDS SchemaTree, FiniteSets

CONSTANT IdOf(_)  \* the hash of a schema, that of its node

(* schema_id.                                                              *)
HashOf(node) == [hash |-> node]

(* Nodes are schemas whose inner schemas are hashes; branches are a set.   *)
NodeOf(s) == WithInner(s, IdOf, {IdOf(branch) : branch \in ToSet(s.branches)})

HashesAssumption == \A s \in Schemas : IdOf(s) # None /\ IdOf(s) = HashOf(NodeOf(s))
ASSUME HashesAssumption

(* The hashes a node refers to.                                            *)
References(node) ==
    {node.props[n].schema : n \in DOMAIN node.props} \cup node.branches
      \cup ({node.items, node.additional.schema} \ {None})

(* What intern_schema refuses.                                             *)
Internable(s) ==
    \A t \in Nested(s) : t.additional # Unknown /\ (t.branches # <<>> => t.kind \in Composed)

-----------------------------------------------------------------------------
(* f on every schema of an operation, given its place.                     *)
MapContent(content, f(_)) == [t \in DOMAIN content |-> f(content[t])]

MapSchemas(operation, f(_)) ==
    [path |-> operation.path, auth |-> operation.auth, servers |-> operation.servers,
     params |-> [k \in DOMAIN operation.params |->
                   [name |-> operation.params[k].name, required |-> operation.params[k].required,
                    schema |-> f(operation.params[k].schema)]],
     body |-> IF operation.body = None THEN None
              ELSE [required |-> operation.body.required, content |-> MapContent(operation.body.content, f)],
     responses |-> [s \in DOMAIN operation.responses |-> MapContent(operation.responses[s], f)]]

RangeOf(f) == {f[x] : x \in DOMAIN f}

(* Every schema, or hash, an operation mentions.                           *)
RootsOf(operation) ==
    {operation.params[k].schema : k \in DOMAIN operation.params}
      \cup (IF operation.body = None THEN {} ELSE RangeOf(operation.body.content))
      \cup UNION {RangeOf(operation.responses[s]) : s \in DOMAIN operation.responses}

Roots(operations) == UNION {RootsOf(operations[op]) : op \in DOMAIN operations}

(* What intern_contract asks of a contract: everything is known.           *)
Complete(contract) ==
    /\ \A op \in DOMAIN contract :
          /\ contract[op].servers # None
          /\ \A n \in DOMAIN contract[op].auth : contract[op].auth[n].identity # None
          /\ contract[op].body # None => contract[op].body.required # None
    /\ \A s \in Roots(contract) : Internable(s)

(* A faulty form: inner schemas are not interned.                          *)
InternedRoots(roots) == roots

(* The schemas that intern_schema puts into the table for some of them.    *)
Interned(roots) == UNION {Nested(s) : s \in roots}

Digest(scope, operations, schemas) ==
    [scope |-> scope, operations |-> operations, schemas |-> schemas]

(* intern_contract and build_declared.                                     *)
BuildV4(contract, scope) ==
    LET operations == [op \in DOMAIN contract |-> MapSchemas(contract[op], IdOf)]
        schemas == [id \in {IdOf(s) : s \in Interned(Roots(contract))} |-> id.hash] IN
    [version |-> 4, scope |-> scope, operations |-> operations, schemas |-> schemas,
     digest |-> Digest(scope, operations, schemas)]

-----------------------------------------------------------------------------
(* Hashes that hold those the operations mention, and what theirs refer to.*)
Reach(entry, ids) ==
    /\ Roots(entry.operations) \subseteq ids
    /\ \A id \in ids : References(entry.schemas[id]) \subseteq ids

(* A faulty form: nodes nobody refers to are let be.                       *)
ValidTableOrphans(entry) ==
    /\ Reach(entry, DOMAIN entry.schemas)
    /\ \A id \in DOMAIN entry.schemas : HashOf(entry.schemas[id]) = id

(* validate_schema_table: no node is missing, every node is reached, and   *)
(* is what its hash is of.  No cycle can be: a hash is not a part of its   *)
(* own content.                                                            *)
ValidTable(entry) ==
    LET stored == DOMAIN entry.schemas IN
    /\ Reach(entry, stored)
    /\ \A ids \in SUBSET stored : Reach(entry, ids) => ids = stored
    /\ \A id \in stored : HashOf(entry.schemas[id]) = id

(* validate_contract_semantics and validate_scope_contract.                *)
UniqueIdentities(auth) ==
    \A m, n \in DOMAIN auth : auth[m].identity = auth[n].identity /\ IsKnown(auth[m].identity) => m = n

ValidSemantics(entry) ==
    /\ entry.scope # {} => entry.scope = DOMAIN entry.operations
    /\ \A op \in DOMAIN entry.operations :
          LET operation == entry.operations[op] IN
          /\ operation.path.shape = op.shape
          /\ UniqueIdentities(operation.auth)
          /\ {k \in DOMAIN operation.params : k.in = "path"} = {Slot(i) : i \in DOMAIN operation.path.names}
          /\ \A i \in DOMAIN operation.path.names : operation.params[Slot(i)].name = operation.path.names[i]
    /\ \A id \in DOMAIN entry.schemas :
          LET node == entry.schemas[id] IN
          /\ node.items # None => node.kind = "array"
          /\ node.branches # {} => node.kind \in Composed

(* validate_declared.                                                      *)
ValidDeclared(entry) ==
    /\ ValidSemantics(entry)
    /\ ValidTable(entry)
    /\ entry.digest = Digest(entry.scope, entry.operations, entry.schemas)

-----------------------------------------------------------------------------
(* A faulty form: the values of a dictionary are left out.                 *)
ExpandNodeClosed(node, expand) ==
    WithInner([node EXCEPT !.additional = Forbidden], LAMBDA id : expand[id],
              ByKey({expand[id] : id \in node.branches}))

(* expand_schema, of one node, given what its references expand to.        *)
ExpandNode(node, expand) ==
    WithInner(node, LAMBDA id : expand[id], ByKey({expand[id] : id \in node.branches}))

(* expand_schema, of every node of a table.                                *)
Expanded(schemas) ==
    LET expand[id \in DOMAIN schemas] == ExpandNode(schemas[id], expand) IN expand

(* expand_contract.                                                        *)
ExpandV4(entry) ==
    LET expand == Expanded(entry.schemas) IN
    [op \in DOMAIN entry.operations |-> MapSchemas(entry.operations[op], LAMBDA id : expand[id])]
=============================================================================
