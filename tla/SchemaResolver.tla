--------------------------- MODULE SchemaResolver ---------------------------
(***************************************************************************)
(* SchemaResolver of src/openapi/mod.rs: the expansion of the component    *)
(* schemas of an OpenAPI document into trees without references.           *)
(*                                                                         *)
(* resolve() recurses along the references.  The components it is inside   *)
(* of are kept in `visiting`; a reference to one of them becomes a cycle   *)
(* reference.  Finished components are cached, and every schema built or   *)
(* copied from the cache is charged to a budget.  An external file gets a  *)
(* resolver of its own, with copies of the caches and the same budget.     *)
(*                                                                         *)
(* The recursion is an explicit stack here, one action per call or return. *)
(* A component is either an alias (its body is one reference) or one node  *)
(* with the references it holds, in order, as in an object, an array or a  *)
(* leaf; inline schemas below a node are part of it.  That oneOf and anyOf *)
(* drop equal branches, and that allOf merges its members, is left out.    *)
(***************************************************************************)
EXTENDS Integers, FiniteSets, SequencesExt

CONSTANTS
    Names,         \* component names, ordered as the BTreeMap orders them
    Files,         \* files that hold components
    Main,          \* the file of the document itself
    Here,          \* the file part of a reference "#/components/schemas/..."
    Documents,     \* the documents to load
    Budget,        \* MAX_SCHEMA_EXPANSIONS
    MaxOperations  \* bound: schemas the operations refer to

(* A reference, and the key of a component in caches and in visiting: a    *)
(* bare name for the components of the resolver's own file, path and name  *)
(* for those of another.                                                   *)
Ref == [file : Files \cup {Here}, name : Names]

Body == [alias : BOOLEAN, refs : Seq(Ref)]

ASSUME ResolverAssumption ==
    /\ Names \subseteq Nat
    /\ Main \in Files /\ Here \notin Files
    /\ Budget \in Nat /\ MaxOperations \in Nat

ASSUME DocumentAssumption ==
    \A d \in Documents : \A f \in Files :
       /\ DOMAIN d[f] \subseteq Names
       /\ \A n \in DOMAIN d[f] :
             d[f][n] \in Body /\ (d[f][n].alias => Len(d[f][n].refs) = 1)

VARIABLES
    doc,     \* the document being loaded
    phase,   \* "scan", "operations" or "failed"
    todo,    \* component names pre_scan_schema_budget has not reached yet
    stack,   \* calls of resolve in progress
    caches,  \* normalized_schema_cache of each resolver, the document's first
    count,   \* expansion_count, shared by all resolvers
    results  \* what the operations' references became

vars == <<doc, phase, todo, stack, caches, count, results>>

-----------------------------------------------------------------------------
(* An expanded schema maps each of its paths, the positions taken from the *)
(* root, to what stands there: a component or a cycle reference.           *)

Leaf(kind, at) == [p \in {<<>>} |-> [kind |-> kind, at |-> at]]
Cycle(key) == Leaf("cycle", key)
NoSchema == [p \in {} |-> Cycle(p)]

(* The schema with another one below its root, at position i.              *)
Graft(tree, i, kid) ==
    [p \in DOMAIN tree \cup {<<i>> \o q : q \in DOMAIN kid} |->
        IF p \in DOMAIN tree THEN tree[p] ELSE kid[Tail(p)]]

IsCycle(tree) == tree[<<>>].kind = "cycle"

(* schema_node_count.                                                      *)
Size(tree) == Cardinality(DOMAIN tree)

(* The file of the component that a reference met in a file stands for.    *)
FileOf(file, ref) == IF ref.file = Here THEN file ELSE ref.file

(* A call in progress: the component, its file, the resolver it uses, the  *)
(* references it holds, the one it has come to, and the schema so far: an  *)
(* alias has no node of its own.                                           *)
Call(key, file, level, body) ==
    [key |-> key, file |-> file, level |-> level, alias |-> body.alias,
     refs |-> body.refs, next |-> 1,
     tree |-> IF body.alias THEN NoSchema
              ELSE Leaf("node", [file |-> file, name |-> key.name])]

(* The caller of the recursion: it wants one reference, and is not itself  *)
(* in visiting.                                                            *)
RootCall(ref) == Call(ref, Main, 1, [alias |-> TRUE, refs |-> <<ref>>])

Top == Last(stack)
Cache == caches[Top.level]
Visiting == {stack[i].key : i \in 2..Len(stack)}

(* The caller, with one more reference resolved.                           *)
Resolved(call, tree) ==
    [call EXCEPT !.next = @ + 1,
                 !.tree = IF call.alias THEN tree ELSE Graft(@, call.next, tree)]

Done(call) == call.next > Len(call.refs)

Store(cache, key, tree) ==
    [k \in DOMAIN cache \cup {key} |-> IF k = key THEN tree ELSE cache[k]]

PreScanThreshold == (Budget * 2) \div 3

-----------------------------------------------------------------------------
Init ==
    /\ doc \in Documents
    /\ phase = "scan"
    /\ todo = DOMAIN doc[Main]
    /\ stack = <<>>
    /\ caches = << [key \in {} |-> Cycle(key)] >>
    /\ count = 0
    /\ results = <<>>

(* pre_scan_schema_budget: every component of the document, by name.       *)
ScanNext ==
    /\ phase = "scan" /\ stack = <<>>
    /\ \E n \in todo :
          /\ \A m \in todo : n <= m
          /\ stack' = <<RootCall([file |-> Here, name |-> n])>>
          /\ todo' = todo \ {n}
    /\ UNCHANGED <<doc, phase, caches, count, results>>

ScanEnd ==
    /\ phase = "scan" /\ stack = <<>> /\ todo = {}
    /\ phase' = IF count > PreScanThreshold THEN "failed" ELSE "operations"
    /\ UNCHANGED <<doc, todo, stack, caches, count, results>>

(* A reference of an operation, starting with an empty visiting set.       *)
OperationSchema(ref) ==
    /\ phase = "operations" /\ stack = <<>>
    /\ Len(results) < MaxOperations
    /\ stack' = <<RootCall(ref)>>
    /\ UNCHANGED <<doc, phase, todo, caches, count, results>>

(* Faulty forms: an error ends the call that met it only; the pre-scan     *)
(* drops every error.                                                      *)
AbortOneCall(total) ==
    /\ count' = total
    /\ stack' = Front(stack)
    /\ caches' = <<caches[1]>>
    /\ phase' = IF phase = "scan" /\ total <= PreScanThreshold THEN phase ELSE "failed"
    /\ UNCHANGED <<doc, todo, results>>

AbortDropped(total) ==
    /\ count' = total
    /\ stack' = <<>>
    /\ caches' = <<caches[1]>>
    /\ phase' = IF phase = "scan" THEN phase ELSE "failed"
    /\ UNCHANGED <<doc, todo, results>>

(* An error returns through every call.  The pre-scan drops it unless the  *)
(* count is over its threshold; an operation does not.                     *)
Abort(total) ==
    /\ count' = total
    /\ stack' = <<>>
    /\ caches' = <<caches[1]>>
    /\ phase' = IF phase = "scan" /\ total <= PreScanThreshold THEN phase ELSE "failed"
    /\ UNCHANGED <<doc, todo, results>>

(* The next reference of the call at the top.                              *)
AtReference == stack # <<>> /\ ~Done(Top)
NextRef == Top.refs[Top.next]

(* It becomes a schema.                                                    *)
Take(tree) == stack' = ReplaceAt(stack, Len(stack), Resolved(Top, tree))

(* ... to a component that is being resolved.                              *)
CutCycle ==
    /\ AtReference
    /\ NextRef \in Visiting
    /\ Take(Cycle(NextRef))
    /\ UNCHANGED <<doc, phase, todo, caches, count, results>>

(* A faulty form: a hit is charged one node.                               *)
CacheHitFlat ==
    /\ AtReference
    /\ NextRef \notin Visiting /\ NextRef \in DOMAIN Cache
    /\ LET total == count + 1 IN
       IF total > Budget
       THEN Abort(total)
       ELSE /\ count' = total
            /\ Take(Cache[NextRef])
            /\ UNCHANGED <<doc, phase, todo, caches, results>>

(* ... to a cached component, charged by its size.                         *)
CacheHit ==
    /\ AtReference
    /\ NextRef \notin Visiting /\ NextRef \in DOMAIN Cache
    /\ LET total == count + Size(Cache[NextRef]) IN
       IF total > Budget
       THEN Abort(total)
       ELSE /\ count' = total
            /\ Take(Cache[NextRef])
            /\ UNCHANGED <<doc, phase, todo, caches, results>>

(* ... to a component that is neither, in this file.                       *)
NextFile == FileOf(Top.file, NextRef)
Fresh == NextRef \notin Visiting /\ NextRef \notin DOMAIN Cache
Defined == NextRef.name \in DOMAIN doc[NextFile]

(* ... and does not exist.                                                 *)
Missing ==
    /\ AtReference
    /\ Fresh /\ ~Defined
    /\ Abort(count)

(* A call for the component; one of another file gets a new resolver.      *)
Push(body) ==
    IF NextRef.file = Here
    THEN /\ stack' = Append(stack, Call(NextRef, NextFile, Top.level, body))
         /\ UNCHANGED caches
    ELSE /\ stack' = Append(stack, Call(NextRef, NextFile, Top.level + 1, body))
         /\ caches' = Append(caches, Cache)

(* A faulty form: no set of visited components.                            *)
EnterUnvisited ==
    /\ AtReference
    /\ Defined
    /\ LET body == doc[NextFile][NextRef.name]
           total == IF body.alias THEN count ELSE count + 1 IN
       IF total > Budget
       THEN Abort(total)
       ELSE /\ count' = total
            /\ Push(body)
            /\ UNCHANGED <<doc, phase, todo, results>>

(* A faulty form: an alias of the same file is followed on the spot.       *)
EnterChasing ==
    /\ AtReference
    /\ Fresh /\ Defined
    /\ LET body == doc[NextFile][NextRef.name]
           total == IF body.alias THEN count ELSE count + 1 IN
       IF total > Budget
       THEN Abort(total)
       ELSE /\ count' = total
            /\ IF body.alias /\ NextRef.file = Here
               THEN /\ stack' = [stack EXCEPT ![Len(stack)].refs[Top.next] = body.refs[1]]
                    /\ UNCHANGED caches
               ELSE Push(body)
            /\ UNCHANGED <<doc, phase, todo, results>>

(* ... and exists: a call.  normalize_schema charges its node first, an    *)
(* alias has none.                                                         *)
Enter ==
    /\ AtReference
    /\ Fresh /\ Defined
    /\ LET body == doc[NextFile][NextRef.name]
           total == IF body.alias THEN count ELSE count + 1 IN
       IF total > Budget
       THEN Abort(total)
       ELSE /\ count' = total
            /\ Push(body)
            /\ UNCHANGED <<doc, phase, todo, results>>

(* A faulty form: a bare cycle reference is cached as well.                *)
ReturnCachesCuts ==
    LET depth == Len(stack)
        callers == Front(stack)
        caller == stack[depth - 1] IN
    /\ depth > 1
    /\ Done(Top)
    /\ stack' = ReplaceAt(callers, depth - 1, Resolved(caller, Top.tree))
    /\ caches' = ReplaceAt(SubSeq(caches, 1, caller.level), caller.level,
                           Store(caches[caller.level], Top.key, Top.tree))
    /\ UNCHANGED <<doc, phase, todo, count, results>>

(* The call at the top returns.  Its schema is cached in the resolver of   *)
(* the caller unless it is a bare cycle reference.                         *)
Return ==
    LET depth == Len(stack)
        callers == Front(stack)
        caller == stack[depth - 1] IN
    /\ depth > 1
    /\ Done(Top)
    /\ stack' = ReplaceAt(callers, depth - 1, Resolved(caller, Top.tree))
    /\ LET kept == SubSeq(caches, 1, caller.level) IN
       caches' = IF IsCycle(Top.tree)
                 THEN kept
                 ELSE ReplaceAt(kept, caller.level, Store(kept[caller.level], Top.key, Top.tree))
    /\ UNCHANGED <<doc, phase, todo, count, results>>

(* The root reference is resolved.                                         *)
RootReturn ==
    /\ Len(stack) = 1
    /\ Done(Top)
    /\ stack' = <<>>
    /\ results' = IF phase = "scan" THEN results
                  ELSE Append(results, [ref |-> Top.key, tree |-> Top.tree])
    /\ UNCHANGED <<doc, phase, todo, caches, count>>

Step == CutCycle \/ CacheHit \/ Missing \/ Enter \/ Return \/ RootReturn

Next ==
    \/ ScanNext \/ ScanEnd \/ Step
    \/ \E ref \in Ref : OperationSchema(ref)

(* The loader is one thread that runs until it is done: once a resolution  *)
(* has begun, its steps are taken.                                         *)
Spec == Init /\ [][Next]_vars /\ WF_vars(ScanNext \/ ScanEnd \/ Step)

-----------------------------------------------------------------------------
(* Properties.                                                             *)

(* The types, and: an error leaves nothing in progress, and the top of the *)
(* stack is a call of the last resolver made.                              *)
TypeOK ==
    /\ doc \in Documents
    /\ phase \in {"scan", "operations", "failed"}
    /\ todo \subseteq Names
    /\ count \in Nat
    /\ \A i \in 1..Len(caches) : DOMAIN caches[i] \subseteq Ref
    /\ \A i \in 1..Len(stack) :
          /\ stack[i].key \in Ref
          /\ stack[i].file \in Files
          /\ stack[i].refs \in Seq(Ref)
          /\ stack[i].next \in 1..Len(stack[i].refs) + 1
    /\ Len(caches) = IF stack = <<>> THEN 1 ELSE Top.level
    /\ phase = "failed" => stack = <<>>

(* visiting cuts every recursion.  A key in it is not entered again; a     *)
(* component has two keys, its bare name for the references of its own     *)
(* file (src/openapi/mod.rs:1217) and path and name for those of another   *)
(* (1307), so one that another file refers back to may be entered while it *)
(* is being resolved, but never a third time, through any mix of aliases,  *)
(* caches and files: the recursion is no deeper than twice the number of   *)
(* components.                                                             *)
KeysDistinct ==
    \A i, j \in 2..Len(stack) : i # j => stack[i].key # stack[j].key

Entered(i) == [file |-> stack[i].file, name |-> stack[i].key.name]

CallsDistinct ==
    /\ KeysDistinct
    /\ \A i, j, k \in 2..Len(stack) :
          i < j /\ j < k => ~(Entered(i) = Entered(j) /\ Entered(j) = Entered(k))

(* The budget holds (MAX_SCHEMA_EXPANSIONS, src/openapi/mod.rs:1059):      *)
(* unless loading has failed, whatever was built or copied was within it,  *)
(* in the pre-scan, which drops errors, and in the operations, across the  *)
(* resolvers of all files.                                                 *)
WithinBudget == phase # "failed" => count <= Budget

(* Every resolution ends, with a schema or an error, whatever cycles the   *)
(* document has (resolve, src/openapi/mod.rs:1209).                        *)
ResolutionEnds == stack # <<>> ~> stack = <<>>
=============================================================================
