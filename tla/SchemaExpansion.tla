--------------------------- MODULE SchemaExpansion ---------------------------
(***************************************************************************)
(* What the schemas SchemaResolver gives must be: statements that compare  *)
(* them with the graph of the references in a document d.                  *)
(***************************************************************************)
EXTENDS SchemaResolver

(* The components, by where they are and what they are called there.       *)
Component(file, ref) == [file |-> FileOf(file, ref), name |-> ref.name]
Components(d) == {c \in [file : Files, name : Names] : c.name \in DOMAIN d[c.file]}
BodyOf(d, c) == d[c.file][c.name]

(* From each component to those it refers to.                              *)
RefersTo(d, c, t) ==
    \E i \in DOMAIN BodyOf(d, c).refs : t = Component(c.file, BodyOf(d, c).refs[i])
References(d) == {e \in Components(d) \X Components(d) : RefersTo(d, e[1], e[2])}
AliasReferences(d) == {e \in References(d) : BodyOf(d, e[1]).alias}

(* What lies along such edges from c, c included: every set of components  *)
(* that has c and is closed under them has it.                             *)
Closed(cs, edges) == \A e \in edges : e[1] \in cs => e[2] \in cs
From(d, edges, c) ==
    {t \in Components(d) :
        \A cs \in SUBSET Components(d) : c \in cs /\ Closed(cs, edges) => t \in cs}

Reachable(d, c) == From(d, References(d), c)
Chain(d, c) == From(d, AliasReferences(d), c)
OnCycle(d, c) == \E e \in References(d) : e[1] = c /\ c \in Reachable(d, e[2])

(* A label is what ref stands for in file: the node that the aliases lead  *)
(* to, or one of the references on the way, to a component that refers     *)
(* back to itself.                                                         *)
StandsFor(d, label, file, ref) ==
    LET c == Component(file, ref) IN
    /\ c \in Components(d)
    /\ \/ /\ label.kind = "node"
          /\ label.at \in Chain(d, c)
          /\ ~BodyOf(d, label.at).alias
       \/ /\ label.kind = "cycle"
          /\ \/ label.at = ref /\ OnCycle(d, c)
             \/ \E a \in Chain(d, c) :
                   /\ BodyOf(d, a).alias
                   /\ label.at = BodyOf(d, a).refs[1]
                   /\ OnCycle(d, Component(a.file, label.at))

(* The references below a label.                                           *)
Below(d, label) == IF label.kind = "node" THEN BodyOf(d, label.at).refs ELSE <<>>

(* tree is what ref stands for in file, cut at components that refer back  *)
(* to themselves: so is its root, every reference of a node has its place  *)
(* below it, and there is nothing else.                                    *)
Unfolds(d, tree, file, ref) ==
    /\ <<>> \in DOMAIN tree
    /\ StandsFor(d, tree[<<>>], file, ref)
    /\ \A p \in DOMAIN tree : \A i \in DOMAIN Below(d, tree[p]) :
          /\ Append(p, i) \in DOMAIN tree
          /\ StandsFor(d, tree[Append(p, i)], tree[p].at.file, Below(d, tree[p])[i])
    /\ \A p \in DOMAIN tree \ {<<>>} :
          \E q \in DOMAIN tree : \E i \in DOMAIN Below(d, tree[q]) : p = Append(q, i)

(* No file's components refer by a bare name to one that another file has  *)
(* as well.  The caches and visiting know the components of a resolver's   *)
(* own file by their bare names only.                                      *)
NamesApart ==
    \A d \in Documents : \A c \in Components(d) :
       \A i \in DOMAIN BodyOf(d, c).refs :
          LET ref == BodyOf(d, c).refs[i] IN
          ref.file = Here => \A f \in Files \ {c.file} : ref.name \notin DOMAIN d[f]

(* Whatever was cached, and whatever the stack was when it was, an         *)
(* operation's reference becomes an unfolding of the component it names    *)
(* (SchemaResolver::resolve, src/openapi/mod.rs:1209), and never a bare    *)
(* cycle reference, unless nothing but aliases of each other are there:    *)
(* what was cut at a component on the stack is not kept (line 1250).       *)
ResultsUnfold ==
    \A i \in DOMAIN results :
       LET tree == results[i].tree
           ref == results[i].ref IN
       /\ Unfolds(doc, tree, Main, ref)
       /\ IsCycle(tree) => \A c \in Reachable(doc, Component(Main, ref)) : BodyOf(doc, c).alias

(* The nodes of a schema, and those of the schemas of a list of calls or   *)
(* of results.                                                             *)
NodePaths(tree) == {p \in DOMAIN tree : tree[p].kind = "node"}
NodesOf(list) == UNION {{i} \X NodePaths(list[i].tree) : i \in DOMAIN list}

(* The budget is charged for every node that is materialised, copies from  *)
(* the cache included (src/openapi/mod.rs:1059): what was handed out is    *)
(* covered by the count, cycle references excepted.                        *)
CountCoversNodes == Cardinality(NodesOf(results)) <= count

Shown(tree) == {tree[p].at : p \in NodePaths(tree)}

(* docs/superpowers/specs/2026-08-02-phase-3-real-world-compatibility-     *)
(* design.md:27: if the target of a cycle changes, "a diff is reported at  *)
(* the original (non-cycle) location": so each component an operation      *)
(* reaches is shown by some operation's schema, or no change of it is      *)
(* seen.                                                                   *)
EveryComponentShown ==
    \A i \in DOMAIN results :
       \A c \in Reachable(doc, Component(Main, results[i].ref)) :
          ~BodyOf(doc, c).alias =>
             \E j \in DOMAIN results : c \in Shown(results[j].tree)

=============================================================================
