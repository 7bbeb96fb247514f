---------------------------- MODULE DeclaredVerify ---------------------------
(***************************************************************************)
(* lock and verify of a declared API, from the document to the exit code   *)
(* (src/main.rs): a document is published, locked in the format of some    *)
(* release, published again, the lock edited by hand, the configuration    *)
(* changed, and verify run.                                                *)
(***************************************************************************)
EXTENDS ContractBuilder, ContractDiff, LegacyTable, VerifyPolicy, SchemaPromises

CONSTANTS
    Cases,         \* records [docs, selections, configs, versions, edits]
    Requests,      \* requests a client may send
    Unpoliced(_)   \* a schema whose policies of additional properties are not known, at any depth

Hashes == {IdOf(s) : s \in Schemas} \cup {IdOfV3(s) : s \in Schemas}

Lax == {Unpoliced(s) : s \in Schemas}

BodyIsSome(body) ==
    body # None =>
       \A content \in [DOMAIN body.content -> Schemas \cup Hashes \cup Lax], required \in {body.required, None} :
          [required |-> required, content |-> content] # None

(* A node with its nullability turned around.                              *)
Flipped(node) == [node EXCEPT !.nullable = ~@]

(* What an operation asks for, in the words of its document.               *)
Alternatives(d, op) ==
    LET s == CHOOSE spelled \in Spelled(d) : Identity(spelled) = op IN
    Security(d, ResolvePathItem(d, s[1]).operations[op.method])

IsSequence(s) == s \in Seq(ToSet(s))

(* What is built of documents is of the schemas there are, and so is what  *)
(* edits make of their hashes; a body, of whatever schemas or hashes, is   *)
(* not no body; nothing is left open that a document says; placeholders    *)
(* have an order; and a scheme that is declared has an identity.           *)
OperationTold(o) ==
    /\ BodyIsSome(o.body) /\ o.servers # None
    /\ \A k \in DOMAIN o.params : o.params[k].required \in BOOLEAN
    /\ o.body # None => o.body.required \in BOOLEAN \ {None}

SchemesKnown(d) == \A name \in DOMAIN d.schemes : IsKnown(IdentityOf(d, name))

Alternating(asked) == IsSequence(asked) /\ \A a \in ToSet(asked) : IsSequence(a)

DocsAssumption(docs) ==
    \A d \in docs : Build(d) # None =>
       /\ Roots(Build(d)) \subseteq Schemas
       /\ \A op \in DOMAIN Build(d) : /\ OperationTold(Build(d)[op]) /\ Alternating(Alternatives(d, op))
                                      /\ IsSequence(Build(d)[op].path.names)
       /\ SchemesKnown(d)

CasesAssumption ==
    \A c \in Cases :
       /\ c.versions \subseteq {2, 3, 4}
       /\ \A selectors \in c.selections : IsSequence(selectors)
       /\ DocsAssumption(c.docs)
ASSUME CasesAssumption

EditsAssumption ==
    \A s \in Schemas : HashOf(Flipped(IdOf(s).hash)) \in {IdOf(t) : t \in Schemas}
ASSUME EditsAssumption

RequestsAssumption ==
    \A r \in Requests :
       /\ \A k \in DOMAIN r.params : r.params[k] \in Values
       /\ r.body # None => r.body.value \in Values
ASSUME RequestsAssumption

(* What version 3 gives back is compared as any schema is.                 *)
UnpolicedAssumption ==
    /\ None \notin Lax
    /\ \A s \in Schemas : Unpoliced(s) = [MapInner(s, Unpoliced) EXCEPT !.additional = Unknown]
    /\ \A u \in Usages, old, new \in Schemas :
          DiffOf(u, Unpoliced(old), new) = DiffSchema(u, Unpoliced(old), new)
ASSUME UnpolicedAssumption

VARIABLES
    case,       \* what may be published, selected, configured and edited
    doc,        \* the published document
    files,      \* the configuration files, nearest first
    lock,       \* the lock's entry, None before lock
    lockedDoc,  \* the document the entry was made of
    edited,     \* the entry is no longer as lock wrote it
    verdict     \* None, or [loaded, report, exit]

vars == <<case, doc, files, lock, lockedDoc, edited, verdict>>

Init ==
    /\ case \in Cases
    /\ doc \in case.docs
    /\ files \in case.configs
    /\ lock = None /\ lockedDoc = None /\ edited = FALSE
    /\ verdict = None

Publish(d) ==
    /\ doc' = d /\ verdict' = None
    /\ UNCHANGED <<case, files, lock, lockedDoc, edited>>

Configure(f) ==
    /\ lock # None
    /\ files' = f /\ verdict' = None
    /\ UNCHANGED <<case, doc, lock, lockedDoc, edited>>

(* lock, by this release or, in an older format, by an older one: version  *)
(* 2 knows routes and no scope.                                            *)
Entry(contract, selectors, version) ==
    CASE version = 4 -> BuildV4(contract, ScopeOf(selectors))
      [] version = 3 -> BuildV3(contract, ScopeOf(selectors))
      [] version = 2 -> [version |-> 2,
                         routes |-> {[method |-> op.method, path |-> contract[op].path] :
                                       op \in DOMAIN contract}]

Lock(selectors, version) ==
    LET contract == Build(doc)
        scoped == ScopeContract(contract, selectors) IN
    /\ contract # None /\ scoped # None
    /\ version = 2 => selectors = <<>>
    /\ version = 4 => Complete(scoped) /\ ValidSemantics(BuildV4(scoped, ScopeOf(selectors)))
    /\ lock' = Entry(scoped, selectors, version)
    /\ lockedDoc' = doc /\ edited' = FALSE
    /\ verdict' = None
    /\ UNCHANGED <<case, doc, files>>

(* Operations that mention one hash only.                                  *)
Mentioning(operations, id) == [op \in DOMAIN operations |-> MapSchemas(operations[op], LAMBDA old : id)]

(* An edit of an entry of version 4, its digest computed again or not.     *)
Edits(entry) ==
    {[entry EXCEPT !.schemas[id] = node] : id \in DOMAIN entry.schemas, node \in RangeOf(entry.schemas)}
      \cup {[entry EXCEPT !.schemas = [other \in DOMAIN @ \ {id} |-> @[other]]] : id \in DOMAIN entry.schemas}
      \cup {[entry EXCEPT !.schemas = Merged(@, [id \in {HashOf(node)} |-> node])] :
               node \in {Flipped(n) : n \in RangeOf(entry.schemas)}}
      \cup {[entry EXCEPT !.operations = Mentioning(@, id)] : id \in DOMAIN entry.schemas}
      \cup {[entry EXCEPT !.scope = DOMAIN entry.operations]}

Resigned(entry) ==
    [entry EXCEPT !.digest = Digest(entry.scope, entry.operations, entry.schemas)]

Edit(entry) ==
    /\ lock' = entry /\ entry # lock
    /\ edited' = TRUE /\ verdict' = None
    /\ UNCHANGED <<case, doc, files, lockedDoc>>

(* compare_verify_target: a lock of routes says nothing but routes.        *)
DiffRoutes(routes, current) ==
    LET locked == {SelectedBy(r) : r \in routes} IN
    {Endpoint(op, "removed", "breaking") : op \in locked \ DOMAIN current}
      \cup {Endpoint(op, "added outside route-only lock", "warning") : op \in DOMAIN current \ locked}

(* select_verify_target: the entry, or FALSE where the lock is refused.    *)
Loads(entry) ==
    CASE entry.version = 4 -> ValidDeclared(entry)
      [] entry.version = 3 -> ValidV3(entry)
      [] OTHER -> TRUE

Report(entry, current) ==
    CASE entry.version = 4 -> DiffContracts(ExpandV4(entry), ScopeCurrent(current, entry.scope))
      [] entry.version = 3 -> DiffContracts(ExpandV3(entry), ScopeCurrent(current, entry.scope))
      [] OTHER -> DiffRoutes(entry.routes, current)

Refused == [loaded |-> FALSE, report |-> {}, exit |-> 2]

Judged(report, rules) ==
    [loaded |-> TRUE, report |-> report, exit |-> ExitCode(ApplyConfig(report, rules), rules.failOn)]

Verify ==
    /\ lock # None /\ verdict = None
    /\ verdict' = IF ~Loads(lock) \/ Build(doc) = None THEN Refused
                  ELSE Judged(Report(lock, Build(doc)), EffectiveRules(files))
    /\ UNCHANGED <<case, doc, files, lock, lockedDoc, edited>>

Next ==
    \/ \E d \in case.docs : Publish(d)
    \/ \E f \in case.configs : Configure(f)
    \/ \E selectors \in case.selections, version \in case.versions : lock = None /\ Lock(selectors, version)
    \/ /\ case.edits /\ lock # None /\ ~edited /\ lock.version = 4
       /\ \E entry \in Edits(lock) : Edit(entry) \/ Edit(Resigned(entry))
    \/ Verify

Spec == Init /\ [][Next]_vars

-----------------------------------------------------------------------------
(* What a document says of requests.  A request is [op, server, creds,     *)
(* params, body], creds a function from identities to scopes.              *)

(* A scheme nobody declared is known by its name.                          *)
Credential(d, name) ==
    IF name \in DOMAIN d.schemes THEN IdentityOf(d, name) ELSE [scheme |-> "unknown", name |-> name]

(* Any of the alternatives will do, and each asks for all it names.        *)
Authorized(d, r) ==
    LET alternatives == Alternatives(d, r.op)
        Met(a) == \A i \in DOMAIN a :
                     LET c == Credential(d, a[i].name) IN
                     c \in DOMAIN r.creds /\ a[i].scopes \subseteq r.creds[c] IN
    alternatives = <<>> \/ \E a \in ToSet(alternatives) : Met(a)

(* tolerant: as a server reads, not as a client writes.                    *)
Takes(d, r, tolerant) ==
    LET o == Build(d)[r.op] IN
    /\ r.server \in o.servers
    /\ Authorized(d, r)
    /\ DOMAIN r.params \subseteq DOMAIN o.params
    /\ \A k \in DOMAIN o.params :
          IF k \in DOMAIN r.params THEN Admitted(o.params[k].schema, r.params[k], tolerant)
          ELSE ~o.params[k].required
    /\ IF r.body = None THEN o.body = None \/ ~o.body.required
       ELSE /\ o.body # None /\ r.body.type \in DOMAIN o.body.content
            /\ Admitted(o.body.content[r.body.type], r.body.value, tolerant)

Serves(d, r) == r.op \in DOMAIN Build(d) /\ Takes(d, r, TRUE)
Sends(d, r) == r.op \in DOMAIN Build(d) /\ Takes(d, r, FALSE)

(* Responses of a status that clients know are of media types and schemas  *)
(* they know.                                                              *)
ResponsesKnown(old, new) ==
    \A s \in DOMAIN old \cap DOMAIN new : \A t \in DOMAIN new[s] :
       /\ t \in DOMAIN old[s]
       /\ Safe("response", old[s][t], new[s][t]) \/ KnownGap("response", old[s][t], new[s][t])

(* The comparison cannot see this: alternatives are one map in a contract, *)
(* so one that is gone counts as a requirement less; of two requirements   *)
(* of one identity in an alternative the second is dropped; and one of a   *)
(* name nobody declared takes the place of those before it.                *)
Hidden(d, asked) ==
    LET Who(p) == Credential(d, Asked(asked, p).name) IN
    \E p, q \in Places(asked) :
       p # q /\ Who(p) = Who(q) /\ (p[1] = q[1] \/ Asked(asked, p).name \notin DOMAIN d.schemes)

AuthGap(op) == Len(Alternatives(lockedDoc, op)) > 1 \/ Hidden(doc, Alternatives(doc, op))

(* Nor what it cannot see of the schemas of a request.                     *)
RequestGap(old, new) ==
    \/ \E k \in DOMAIN old.params \cap DOMAIN new.params :
          KnownGap("request", old.params[k].schema, new.params[k].schema)
    \/ /\ None \notin {old.body, new.body}
       /\ \E t \in DOMAIN old.body.content \cap DOMAIN new.body.content :
             KnownGap("request", old.body.content[t], new.body.content[t])

-----------------------------------------------------------------------------
(* Properties.                                                             *)

Verified == verdict # None /\ verdict.loaded
FullyVerified == Verified /\ ~edited /\ lock.version = 4

LockedOps == IF lock.scope = {} THEN DOMAIN Build(lockedDoc) ELSE lock.scope

(* If nothing is breaking, a request that the locked document allows is    *)
(* served by the published one, and its responses of the statuses that     *)
(* both list are understood: servers, authentication, parameters, bodies   *)
(* and responses together, through references and levels (diff_contracts,  *)
(* src/diff/mod.rs:22), but for the gaps named above.  Nothing is said of  *)
(* a default response, which is in no contract (src/openapi/mod.rs:645).   *)
PassedServesOldClients ==
    (FullyVerified /\ ~HasBreaking(verdict.report)) =>
       /\ \A r \in Requests :
             (r.op \in LockedOps /\ Sends(lockedDoc, r)) =>
                Serves(doc, r) \/ AuthGap(r.op) \/ RequestGap(Build(lockedDoc)[r.op], Build(doc)[r.op])
       /\ \A op \in LockedOps :
             ResponsesKnown(Build(lockedDoc)[op].responses, Build(doc)[op].responses)

(* What counts of an operation: names of schemes of known identity and the *)
(* spelling of paths do not, and of schemas their keys do.                 *)
AuthEssence(auth) ==
    {LET named == ~IsKnown(auth[n].identity) IN
     [kind |-> IF named THEN auth[n].kind ELSE "", identity |-> auth[n].identity, scopes |-> auth[n].scopes,
      name |-> IF named THEN n ELSE ""] : n \in DOMAIN auth}

Essence(operation, key(_)) ==
    [auth |-> AuthEssence(operation.auth), servers |-> operation.servers,
     params |-> [k \in DOMAIN operation.params |->
                   [required |-> operation.params[k].required, key |-> key(operation.params[k].schema)]],
     bodies |-> {[required |-> body.required, content |-> MapContent(body.content, key)] :
                   body \in {operation.body} \ {None}},
     responses |-> [s \in DOMAIN operation.responses |-> MapContent(operation.responses[s], key)]]

EssenceOf(contract, key(_)) == [op \in DOMAIN contract |-> Essence(contract[op], key)]

(* verify is silent exactly when the contracts of the operations of the    *)
(* lock's scope are what they were, targets of cycle references apart:     *)
(* nothing that a contract keeps of an operation escapes the comparison,   *)
(* and nothing else disturbs it (src/diff/mod.rs:115: requirements go      *)
(* together by identity before name).  A default response is not kept.     *)
SilentMeansSame ==
    FullyVerified =>
       LET old == ScopeCurrent(Build(lockedDoc), lock.scope)
           new == ScopeCurrent(Build(doc), lock.scope) IN
       /\ verdict.report = {} => EssenceOf(old, KeyApart) = EssenceOf(new, KeyApart)
       /\ EssenceOf(old, KeyOf) = EssenceOf(new, KeyOf) => verdict.report = {}

(* verify reports what diff would report of the two documents: going       *)
(* through the lock and back loses and adds nothing (intern_contract and   *)
(* expand_contract, src/lockfile/v4/schema.rs:17, 266).                    *)
LockLosesNothing ==
    FullyVerified =>
       verdict.report = DiffContracts(ScopeCurrent(Build(lockedDoc), lock.scope),
                                      ScopeCurrent(Build(doc), lock.scope))

(* Documents that say the same in other words, of a case marked so, verify *)
(* against each other's locks without a change: other names of schemes and *)
(* of the placeholders of paths, references, levels and orders, but no     *)
(* other names of server variables (insert_operation,                      *)
(* src/openapi/mod.rs:592).                                                *)
RespellingsAreSilent ==
    (FullyVerified /\ case.respellings) => verdict.report = {}

(* A lock that is accepted, edited by hand and signed again or not, is the *)
(* lock of the contract it stands for (validate_declared,                  *)
(* src/lockfile/v4/mod.rs:265).                                            *)
AcceptedIsCanonical ==
    (Verified /\ lock.version = 4) => BuildV4(ExpandV4(lock), lock.scope) = lock

(* What lock wrote is never refused, whichever release wrote it            *)
(* (validate_schema_table, src/lockfile/v4/schema.rs:421).                 *)
WrittenLocksLoad ==
    (verdict # None /\ ~verdict.loaded) => edited \/ Build(doc) = None

(* What version 3 stores as ordinary properties it does not always give    *)
(* back: composed schemas and cycles.                                      *)
LegacyGap ==
    \E s \in Roots(Build(lockedDoc)) \cup Roots(Build(doc)) :
       \E t \in Nested(s) : t.kind \in Composed \cup {"cycleRef"}

(* An old lock knows less, but what it reports a new lock of the same      *)
(* document reports too, names of schemes apart: an old lock never fails a *)
(* build over a document that has not changed (src/lockfile/v3/schema.rs,  *)
(* src/lockfile/mod.rs:715).                                               *)
OldLocksInventNothing ==
    (Verified /\ ~edited /\ lock.version < 4) =>
       LET full == DiffContracts(Build(lockedDoc), Build(doc)) IN
       CASE lock.version = 3 ->
              LegacyGap \/ {c \in verdict.report : c.at[1] # "auth" \/ doc = lockedDoc} \subseteq full
         [] lock.version = 2 -> {c.op : c \in verdict.report} \subseteq {c.op : c \in full}

(* A verify that exits 0 over breaking changes does so by rules of the     *)
(* nearest configuration file and no other: each of them is named by a     *)
(* rule, or within the limit (src/config.rs:124, src/main.rs:660).         *)
PassIsExplained == Verified => Explained(verdict.report, files, verdict.exit)
=============================================================================
