--------------------------- MODULE DeclaredProofs ----------------------------
(***************************************************************************)
(* What goes through a lock comes back as it was, what lock wrote is never *)
(* refused, a verify that passes keeps the clients of the locked document, *)
(* a silent one means that nothing has changed, and what is reported of an *)
(* old lock is reported of a new one, for schemas and documents of every   *)
(* size.                                                                   *)
(***************************************************************************)
EXTENDS DeclaredVerify, ComparisonProofs

-----------------------------------------------------------------------------
(* Hashes.                                                                 *)

Ids == {IdOf(s) : s \in Schemas}

(* The parts of a schema's node.                                           *)
PropsNode(s) == [n \in DOMAIN s.props |-> Property(s.props[n].required, IdOf(s.props[n].schema))]
ItemsNode(s) == IF s.items = None THEN None ELSE IdOf(s.items)
AdditionalNode(s) == IF s.additional.schema = None THEN s.additional ELSE ValuesOf(IdOf(s.additional.schema))
BranchesNode(s) == {IdOf(branch) : branch \in ToSet(s.branches)}

LEMMA NodeIs ==
  ASSUME NEW s \in Schemas
  PROVE  /\ IdOf(s) # None
         /\ IdOf(s) = HashOf(IdOf(s).hash)
         /\ IdOf(s).hash = [kind |-> s.kind, nullable |-> s.nullable, format |-> s.format, enum |-> s.enum,
                            props |-> PropsNode(s), items |-> ItemsNode(s), additional |-> AdditionalNode(s),
                            branches |-> BranchesNode(s), target |-> s.target]
  <1>1. IdOf(s) # None /\ IdOf(s) = HashOf(NodeOf(s))
    BY HashesAssumption DEF HashesAssumption
  <1>2. NodeOf(s) = [kind |-> s.kind, nullable |-> s.nullable, format |-> s.format, enum |-> s.enum,
                           props |-> PropsNode(s), items |-> ItemsNode(s), additional |-> AdditionalNode(s),
                           branches |-> BranchesNode(s), target |-> s.target]
    BY DEF NodeOf, WithInner, PropsNode, ItemsNode, AdditionalNode, BranchesNode
  <1> DEFINE node == NodeOf(s)
  <1> HIDE DEF node
  <1>3. IdOf(s) = HashOf(node)
    BY <1>1 DEF node
  <1>4. IdOf(s).hash = node
    BY <1>3 DEF HashOf
  <1> QED BY <1>1, <1>2, <1>3, <1>4 DEF node

LEMMA NodeParts ==
  ASSUME NEW s \in Schemas
  PROVE  LET node == IdOf(s).hash IN
         /\ node.kind = s.kind /\ node.nullable = s.nullable /\ node.format = s.format
         /\ node.enum = s.enum /\ node.target = s.target
         /\ node.props = PropsNode(s) /\ node.items = ItemsNode(s)
         /\ node.additional = AdditionalNode(s) /\ node.branches = BranchesNode(s)
  <1> DEFINE node == IdOf(s).hash
  <1>1. node = [kind |-> s.kind, nullable |-> s.nullable, format |-> s.format, enum |-> s.enum,
                props |-> PropsNode(s), items |-> ItemsNode(s), additional |-> AdditionalNode(s),
                branches |-> BranchesNode(s), target |-> s.target]
    BY NodeIs
  <1> HIDE DEF node
  <1>2. /\ node.kind = s.kind /\ node.nullable = s.nullable /\ node.format = s.format
        /\ node.enum = s.enum /\ node.target = s.target
        /\ node.props = PropsNode(s) /\ node.items = ItemsNode(s)
        /\ node.additional = AdditionalNode(s) /\ node.branches = BranchesNode(s)
    BY <1>1
  <1> QED BY <1>2 DEF node

(* Two schemas of one hash are one.                                        *)
LEMMA IdsApart ==
  ASSUME NEW s \in Schemas, NEW t \in Schemas, IdOf(s) = IdOf(t)
  PROVE  s = t
  <1> DEFINE Twins(a, b) == IdOf(a) = IdOf(b) /\ a # b
             Bad == {a \in Schemas : \E b \in Schemas : Twins(a, b)}
  <1> SUFFICES ASSUME Bad # {} PROVE FALSE
    OBVIOUS
  <1>1. PICK a \in Bad : \A c \in Inner(a) : c \notin Bad
    BY Shallowest
  <1>2. PICK b \in Schemas : Twins(a, b)
    OBVIOUS
  <1>3. \A c \in Inner(a), e \in Schemas : c \in Schemas /\ (IdOf(c) = IdOf(e) => c = e)
    BY <1>1, SchemasAssumption DEF SchemasAssumption
  <1>4. Inner(b) \subseteq Schemas
    BY SchemasAssumption DEF SchemasAssumption
  <1>5. /\ WellFormed(a) /\ WellFormed(b)
    BY SchemasAssumption DEF SchemasAssumption
  <1>6. /\ a.kind = b.kind /\ a.nullable = b.nullable /\ a.format = b.format /\ a.enum = b.enum /\ a.target = b.target
        /\ PropsNode(a) = PropsNode(b) /\ ItemsNode(a) = ItemsNode(b)
        /\ AdditionalNode(a) = AdditionalNode(b) /\ BranchesNode(a) = BranchesNode(b)
    BY <1>1, <1>2, NodeParts
  <1>7. a.props = b.props
    <2>1. DOMAIN a.props = DOMAIN b.props
      BY <1>6 DEF PropsNode
    <2>2. ASSUME NEW n \in DOMAIN a.props
          PROVE  a.props[n].required = b.props[n].required /\ a.props[n].schema = b.props[n].schema
      <3>1. /\ a.props[n].required = b.props[n].required
            /\ IdOf(a.props[n].schema) = IdOf(b.props[n].schema)
        BY <1>6, <2>1 DEF Property, PropsNode
      <3>2. a.props[n].schema \in Inner(a) /\ b.props[n].schema \in Schemas
        BY <1>4, <2>1 DEF Inner
      <3> QED BY <1>3, <3>1, <3>2
    <2>3. /\ a.props = [n \in DOMAIN a.props |-> Property(a.props[n].required, a.props[n].schema)]
          /\ b.props = [n \in DOMAIN b.props |-> Property(b.props[n].required, b.props[n].schema)]
      BY <1>5 DEF WellFormed, PropsKnown
    <2> QED BY <2>1, <2>2, <2>3
  <1>8. a.items = b.items
    <2>1. a.items # None => a.items \in Inner(a) /\ a.items \in Schemas
      BY <1>3 DEF Inner
    <2>2. b.items # None => b.items \in Schemas
      BY <1>4 DEF Inner
    <2>3. (a.items = None) <=> (b.items = None)
      BY <1>6, <2>1, <2>2, NodeIs DEF ItemsNode
    <2> QED BY <1>3, <1>6, <2>1, <2>2, <2>3 DEF ItemsNode
  <1>9. a.additional = b.additional
    <2>1. a.additional.schema # None => a.additional.schema \in Inner(a) /\ a.additional.schema \in Schemas
      BY <1>3 DEF Inner
    <2>2. b.additional.schema # None => b.additional.schema \in Schemas
      BY <1>4 DEF Inner
    <2>3. (a.additional.schema = None) <=> (b.additional.schema = None)
      <3>1. a.additional.schema = None \/ IdOf(a.additional.schema) # None
        BY <2>1, NodeIs
      <3>2. b.additional.schema = None \/ IdOf(b.additional.schema) # None
        BY <2>2, NodeIs
      <3>3. AdditionalNode(a).schema = None <=> a.additional.schema = None
        BY <3>1 DEF AdditionalNode, ValuesOf
      <3>4. AdditionalNode(b).schema = None <=> b.additional.schema = None
        BY <3>2 DEF AdditionalNode, ValuesOf
      <3> QED BY <1>6, <3>3, <3>4
    <2>4. CASE a.additional.schema = None
      BY <1>6, <2>3, <2>4 DEF AdditionalNode
    <2>5. CASE a.additional.schema # None
      <3>1. IdOf(a.additional.schema) = IdOf(b.additional.schema)
        BY <1>6, <2>3, <2>5 DEF ValuesOf, AdditionalNode
      <3>2. a.additional.schema = b.additional.schema
        BY <1>3, <2>1, <2>2, <2>3, <2>5, <3>1
      <3>3. a.additional = ValuesOf(a.additional.schema) /\ b.additional = ValuesOf(b.additional.schema)
        BY <1>5, <2>3, <2>5 DEF WellFormed, AdditionalKnown, Forbidden, AnyValue
      <3> QED BY <3>2, <3>3
    <2> QED BY <2>4, <2>5
  <1>10. ToSet(a.branches) = ToSet(b.branches)
    <2>1. ToSet(a.branches) \subseteq Inner(a) /\ ToSet(b.branches) \subseteq Schemas
      BY <1>4 DEF Inner
    <2>2. ASSUME NEW c \in ToSet(a.branches) PROVE c \in ToSet(b.branches)
      <3>1. PICK e \in ToSet(b.branches) : IdOf(c) = IdOf(e)
        BY <1>6 DEF BranchesNode
      <3> QED BY <1>3, <2>1, <3>1
    <2>3. ASSUME NEW e \in ToSet(b.branches) PROVE e \in ToSet(a.branches)
      <3>1. PICK c \in ToSet(a.branches) : IdOf(c) = IdOf(e)
        BY <1>6 DEF BranchesNode
      <3> QED BY <1>3, <2>1, <3>1
    <2> QED BY <2>2, <2>3
  <1>11. a.branches = b.branches
    BY <1>5, <1>10 DEF WellFormed
  <1>12. a = b
    BY <1>5, <1>6, <1>7, <1>8, <1>9, <1>11 DEF WellFormed, SchemaFields
  <1> QED BY <1>2, <1>12

(* What a schema's node refers to.                                         *)
LEMMA ReferencesAre ==
  ASSUME NEW s \in Schemas
  PROVE  References(IdOf(s).hash) = {IdOf(t) : t \in Inner(s)}
  <1> DEFINE node == IdOf(s).hash
  <1>1. /\ node.props = PropsNode(s) /\ node.items = ItemsNode(s)
        /\ node.additional = AdditionalNode(s) /\ node.branches = BranchesNode(s)
    BY NodeParts
  <1>2. \A t \in Inner(s) : IdOf(t) # None
    BY NodeIs, SchemasAssumption DEF SchemasAssumption
  <1> HIDE DEF node
  <1>3. {node.props[n].schema : n \in DOMAIN node.props} = {IdOf(s.props[n].schema) : n \in DOMAIN s.props}
    BY <1>1 DEF PropsNode, Property
  <1>4. node.branches = {IdOf(b) : b \in ToSet(s.branches)}
    BY <1>1 DEF BranchesNode
  <1>5. s.items # None => s.items \in Inner(s)
    BY DEF Inner
  <1>6. {node.items} \ {None} = {IdOf(t) : t \in {s.items} \ {None}}
    BY <1>1, <1>2, <1>5 DEF ItemsNode
  <1>7. s.additional.schema # None => s.additional.schema \in Inner(s)
    BY DEF Inner
  <1>8. node.additional.schema = IF s.additional.schema = None THEN None ELSE IdOf(s.additional.schema)
    BY <1>1 DEF AdditionalNode, ValuesOf
  <1>9. {node.additional.schema} \ {None} = {IdOf(t) : t \in {s.additional.schema} \ {None}}
    BY <1>2, <1>7, <1>8
  <1>10. {node.items, node.additional.schema} \ {None}
           = {IdOf(t) : t \in {s.items, s.additional.schema} \ {None}}
    BY <1>6, <1>9
  <1>11. References(node) = {IdOf(t) : t \in Inner(s)}
    <2>1. References(node)
            = ({node.props[n].schema : n \in DOMAIN node.props} \cup node.branches)
                \cup ({node.items, node.additional.schema} \ {None})
      BY DEF References
    <2> DEFINE P == {s.props[n].schema : n \in DOMAIN s.props}
               B == ToSet(s.branches)
               R == {s.items, s.additional.schema} \ {None}
    <2>2. Inner(s) = (P \cup B) \cup R
      BY DEF Inner
    <2>3. {IdOf(s.props[n].schema) : n \in DOMAIN s.props} = {IdOf(t) : t \in P}
      OBVIOUS
    <2>4. References(node) = ({IdOf(t) : t \in P} \cup {IdOf(t) : t \in B}) \cup {IdOf(t) : t \in R}
      BY <1>3, <1>4, <1>10, <2>1, <2>3
    <2> HIDE DEF P, B, R
    <2> QED BY <2>2, <2>4
  <1> QED BY <1>11 DEF node

-----------------------------------------------------------------------------
(* A node is expanded to the schema whose hash it is under.                *)

LEMMA OneNodeBack ==
  ASSUME NEW s \in Schemas, NEW Back, \A t \in Inner(s) : Back[IdOf(t)] = t
  PROVE  ExpandNode(IdOf(s).hash, Back) = s
  <1> DEFINE node == IdOf(s).hash
             branches == ByKey({Back[id] : id \in node.branches})
  <1>1. /\ node.kind = s.kind /\ node.nullable = s.nullable /\ node.format = s.format
        /\ node.enum = s.enum /\ node.target = s.target
        /\ node.props = PropsNode(s) /\ node.items = ItemsNode(s)
        /\ node.additional = AdditionalNode(s) /\ node.branches = BranchesNode(s)
    BY NodeParts
  <1>2. WellFormed(s)
    BY SchemasAssumption DEF SchemasAssumption
  <1>3. \A t \in Inner(s) : IdOf(t) # None
    BY NodeIs, SchemasAssumption DEF SchemasAssumption
  <1> HIDE DEF node
  <1>4. branches = s.branches
    <2>1. {Back[id] : id \in node.branches} = ToSet(s.branches)
      BY <1>1 DEF BranchesNode, Inner
    <2> QED BY <1>2, <2>1 DEF WellFormed
  <1>5. [n \in DOMAIN node.props |-> Property(node.props[n].required, Back[node.props[n].schema])] = s.props
    <2>1. \A n \in DOMAIN s.props : Back[IdOf(s.props[n].schema)] = s.props[n].schema
      BY DEF Inner
    <2>2. s.props = [n \in DOMAIN s.props |-> Property(s.props[n].required, s.props[n].schema)]
      BY <1>2 DEF WellFormed, PropsKnown
    <2>3. DOMAIN node.props = DOMAIN s.props
      BY <1>1 DEF PropsNode
    <2>4. \A n \in DOMAIN s.props : /\ node.props[n].required = s.props[n].required
                                    /\ Back[node.props[n].schema] = s.props[n].schema
      BY <1>1, <2>1 DEF PropsNode, Property
    <2>5. [n \in DOMAIN node.props |-> Property(node.props[n].required, Back[node.props[n].schema])]
            = [n \in DOMAIN s.props |-> Property(s.props[n].required, s.props[n].schema)]
      BY <2>3, <2>4
    <2> QED BY <2>2, <2>5
  <1>6. (IF node.items = None THEN None ELSE Back[node.items]) = s.items
    <2>1. s.items # None => s.items \in Inner(s)
      BY DEF Inner
    <2> QED BY <1>1, <1>3, <2>1 DEF ItemsNode
  <1>7. (IF node.additional.schema = None THEN node.additional ELSE ValuesOf(Back[node.additional.schema]))
           = s.additional
    <2>1. s.additional.schema # None => s.additional.schema \in Inner(s)
      BY DEF Inner
    <2>2. node.additional.schema = IF s.additional.schema = None THEN None ELSE IdOf(s.additional.schema)
      BY <1>1 DEF AdditionalNode, ValuesOf
    <2>3. s.additional.schema # None => s.additional = ValuesOf(s.additional.schema)
      BY <1>2 DEF WellFormed, AdditionalKnown, Forbidden, AnyValue
    <2>4. CASE s.additional.schema = None
      BY <1>1, <2>2, <2>4 DEF AdditionalNode
    <2>5. CASE s.additional.schema # None
      BY <1>3, <2>1, <2>2, <2>3, <2>5
    <2> QED BY <2>4, <2>5
  <1>8. ExpandNode(node, Back)
          = [kind |-> node.kind, nullable |-> node.nullable, format |-> node.format, enum |-> node.enum,
             props |-> [n \in DOMAIN node.props |-> Property(node.props[n].required, Back[node.props[n].schema])],
             items |-> IF node.items = None THEN None ELSE Back[node.items],
             additional |-> IF node.additional.schema = None THEN node.additional
                            ELSE ValuesOf(Back[node.additional.schema]),
             branches |-> branches, target |-> node.target]
    BY DEF ExpandNode, WithInner
  <1>9. ExpandNode(node, Back)
          = [kind |-> s.kind, nullable |-> s.nullable, format |-> s.format, enum |-> s.enum, props |-> s.props,
             items |-> s.items, additional |-> s.additional, branches |-> s.branches, target |-> s.target]
    <2> HIDE DEF branches
    <2> QED BY <1>1, <1>4, <1>5, <1>6, <1>7, <1>8
  <1>10. ExpandNode(node, Back) = s
    BY <1>2, <1>9 DEF WellFormed, SchemaFields
  <1> QED BY <1>10 DEF node

(* Nodes that are all there, each under its hash.                          *)
Closed(nodes) ==
  /\ DOMAIN nodes \subseteq Ids
  /\ \A id \in DOMAIN nodes : nodes[id] = id.hash /\ References(nodes[id]) \subseteq DOMAIN nodes

(* By induction over the table: there is one function that expands every   *)
(* node, and it gives the schemas back.                                    *)
LEMMA ExpandsBack ==
  ASSUME NEW nodes, Closed(nodes)
  PROVE  /\ DOMAIN Expanded(nodes) = DOMAIN nodes
         /\ \A s \in Schemas : IdOf(s) \in DOMAIN nodes => Expanded(nodes)[IdOf(s)] = s
  <1> DEFINE D == DOMAIN nodes
             Expands(f) == f = [id \in D |-> ExpandNode(nodes[id], f)]
             Back == [id \in D |-> CHOOSE s \in Schemas : IdOf(s) = id]
  <1>1. \A id \in D : Back[id] \in Schemas /\ IdOf(Back[id]) = id
    BY DEF Closed, Ids
  <1>2. \A s \in Schemas : IdOf(s) \in D => Back[IdOf(s)] = s
    BY <1>1, IdsApart
  <1>3. ASSUME NEW s \in Schemas, IdOf(s) \in D PROVE \A t \in Inner(s) : t \in Schemas /\ IdOf(t) \in D
    <2>1. References(IdOf(s).hash) \subseteq D
      BY <1>3 DEF Closed
    <2>2. Inner(s) \subseteq Schemas
      BY SchemasAssumption DEF SchemasAssumption
    <2> QED BY <2>1, <2>2, ReferencesAre
  <1>4. ASSUME NEW f, NEW s \in Schemas, IdOf(s) \in D, \A t \in Inner(s) : f[IdOf(t)] = t
        PROVE  ExpandNode(nodes[IdOf(s)], f) = s
    <2>1. nodes[IdOf(s)] = IdOf(s).hash
      BY <1>4 DEF Closed
    <2>2. ExpandNode(IdOf(s).hash, f) = s
      BY <1>4, OneNodeBack
    <2> QED BY <2>1, <2>2
  <1>5. Expands(Back)
    <2>1. ASSUME NEW id \in D PROVE ExpandNode(nodes[id], Back) = Back[id]
      <3>1. Back[id] \in Schemas /\ IdOf(Back[id]) = id
        BY <1>1
      <3>2. \A t \in Inner(Back[id]) : Back[IdOf(t)] = t
        BY <1>2, <1>3, <3>1
      <3> HIDE DEF Back
      <3>3. ExpandNode(nodes[IdOf(Back[id])], Back) = Back[id]
        BY <1>4, <3>1, <3>2
      <3> QED BY <3>1, <3>3
    <2>2. Back = [id \in D |-> Back[id]]
      OBVIOUS
    <2> HIDE DEF Back
    <2> QED BY <2>1, <2>2
  <1>6. Expands(Expanded(nodes))
    <2>1. Expanded(nodes) = CHOOSE f : Expands(f)
      BY DEF Expanded
    <2> HIDE DEF Expands, Back
    <2> QED BY <1>5, <2>1
  <1> DEFINE Lost == {s \in Schemas : IdOf(s) \in D /\ Expanded(nodes)[IdOf(s)] # s}
  <1>7. Lost = {}
    <2> SUFFICES ASSUME Lost # {} PROVE FALSE
      OBVIOUS
    <2>1. PICK s \in Lost : \A t \in Inner(s) : t \notin Lost
      BY Shallowest
    <2>2. \A t \in Inner(s) : Expanded(nodes)[IdOf(t)] = t
      BY <1>3, <2>1
    <2>3. Expanded(nodes)[IdOf(s)] = ExpandNode(nodes[IdOf(s)], Expanded(nodes))
      BY <1>6
    <2> QED BY <1>4, <2>1, <2>2, <2>3
  <1>8. DOMAIN Expanded(nodes) = D
    BY <1>6
  <1> QED BY <1>7, <1>8

-----------------------------------------------------------------------------
(* The table of what is inside some schemas is valid.  What is inside, at  *)
(* one level and at any, and the hashes are functions here, since version  *)
(* 3 has ones of its own.                                                  *)

NestedIs(inside, nested) ==
  \A s \in Schemas : inside[s] \subseteq Inner(s) /\ nested[s] = {s} \cup UNION {nested[t] : t \in inside[s]}

LEMMA NestedInside ==
  ASSUME NEW inside, NEW nested, NestedIs(inside, nested), NEW s \in Schemas
  PROVE  nested[s] \subseteq Schemas /\ \A t \in nested[s] : inside[t] \subseteq nested[s]
  <1> DEFINE Good(x) == nested[x] \subseteq Schemas /\ \A t \in nested[x] : inside[t] \subseteq nested[x]
             Bad == {x \in Schemas : ~Good(x)}
  <1> SUFFICES ASSUME Bad # {} PROVE FALSE
    OBVIOUS
  <1>1. PICK x \in Bad : \A t \in Inner(x) : t \notin Bad
    BY Shallowest
  <1>2. \A t \in inside[x] : t \in Schemas /\ Good(t) /\ t \in nested[t]
    <2>1. \A t \in inside[x] : t \in Schemas /\ t \notin Bad
      BY <1>1, SchemasAssumption DEF SchemasAssumption, NestedIs
    <2>2. \A t \in Schemas : t \in nested[t]
      BY DEF NestedIs
    <2> QED BY <2>1, <2>2
  <1>3. nested[x] = {x} \cup UNION {nested[t] : t \in inside[x]}
    BY DEF NestedIs
  <1>4. nested[x] \subseteq Schemas
    BY <1>2, <1>3
  <1>5. ASSUME NEW t \in nested[x] PROVE inside[t] \subseteq nested[x]
    <2>1. CASE t = x
      BY <1>2, <1>3, <2>1
    <2>2. CASE t # x
      <3>1. PICK y \in inside[x] : t \in nested[y]
        BY <1>3, <2>2
      <3>2. inside[t] \subseteq nested[y]
        BY <1>2, <3>1
      <3> QED BY <1>3, <3>2
    <2> QED BY <2>1, <2>2
  <1> QED BY <1>4, <1>5

(* A set that holds a schema and what is inside its members holds all that *)
(* is inside the schema.                                                   *)
LEMMA NestedLeast ==
  ASSUME NEW inside, NEW nested, NestedIs(inside, nested), NEW C \in SUBSET Schemas,
         \A t \in C : inside[t] \subseteq C, NEW s \in C
  PROVE  nested[s] \subseteq C
  <1> DEFINE Bad == {x \in C : ~(nested[x] \subseteq C)}
  <1> SUFFICES ASSUME Bad # {} PROVE FALSE
    OBVIOUS
  <1>1. PICK x \in Bad : \A t \in Inner(x) : t \notin Bad
    BY Shallowest
  <1>2. \A t \in inside[x] : nested[t] \subseteq C
    BY <1>1 DEF NestedIs
  <1>3. nested[x] = {x} \cup UNION {nested[t] : t \in inside[x]}
    BY DEF NestedIs
  <1> QED BY <1>2, <1>3

Image(f, S) == {f[x] : x \in S}

HashesRefer(ids, inside) ==
  \A s \in Schemas : ids[s] = HashOf(ids[s].hash) /\ References(ids[s].hash) = Image(ids, inside[s])

TableOf(ids, nested, roots) == [id \in {ids[s] : s \in UNION {nested[r] : r \in roots}} |-> id.hash]

LEMMA TableIsValid ==
  ASSUME NEW entry, NEW roots \in SUBSET Schemas, NEW ids, NEW inside, NEW nested,
         NestedIs(inside, nested), HashesRefer(ids, inside),
         Roots(entry.operations) = Image(ids, roots),
         entry.schemas = TableOf(ids, nested, roots)
  PROVE  ValidTable(entry)
  <1> USE DEF Image, HashesRefer
  <1> DEFINE all == UNION {nested[r] : r \in roots}
             stored == {ids[s] : s \in all}
  <1>1. all \subseteq Schemas /\ roots \subseteq all
    <2>1. \A r \in roots : nested[r] \subseteq Schemas /\ r \in nested[r]
      BY NestedInside DEF NestedIs
    <2> QED BY <2>1
  <1>2. \A s \in all : inside[s] \subseteq all
    BY NestedInside
  <1>3. DOMAIN entry.schemas = stored /\ \A id \in stored : entry.schemas[id] = id.hash
    BY DEF TableOf
  <1>4. \A s \in all : References(entry.schemas[ids[s]]) = {ids[t] : t \in inside[s]}
    BY <1>1, <1>3
  <1> HIDE DEF all
  <1>5. Reach(entry, stored)
    <2>1. Roots(entry.operations) \subseteq stored
      BY <1>1
    <2>2. ASSUME NEW id \in stored PROVE References(entry.schemas[id]) \subseteq stored
      <3>1. PICK s \in all : id = ids[s]
        OBVIOUS
      <3>2. References(entry.schemas[ids[s]]) = {ids[t] : t \in inside[s]}
        BY <1>4
      <3>3. {ids[t] : t \in inside[s]} \subseteq stored
        BY <1>2
      <3> HIDE DEF stored
      <3> QED BY <3>1, <3>2, <3>3
    <2> QED BY <2>1, <2>2 DEF Reach
  <1>6. ASSUME NEW some \in SUBSET stored, Reach(entry, some) PROVE some = stored
    <2> DEFINE C == {s \in all : ids[s] \in some}
    <2>1. C \in SUBSET Schemas /\ roots \subseteq C
      BY <1>1, <1>6 DEF Reach
    <2>2. ASSUME NEW t \in C PROVE inside[t] \subseteq C
      <3>1. References(entry.schemas[ids[t]]) \subseteq some
        BY <1>6 DEF Reach
      <3> QED BY <1>2, <1>4, <3>1
    <2>3. \A r \in roots : nested[r] \subseteq C
      <3> HIDE DEF C
      <3> QED BY <2>1, <2>2, NestedLeast
    <2>4. all \subseteq C
      BY <2>3 DEF all
    <2> QED BY <2>4
  <1>7. \A id \in stored : HashOf(entry.schemas[id]) = id
    BY <1>1, <1>3
  <1> QED BY <1>3, <1>5, <1>6, <1>7 DEF ValidTable

-----------------------------------------------------------------------------
(* Operations: of one shape, and of schemas or hashes that are known.      *)

BodyForm(body, known) ==
  body # None =>
     /\ body = [required |-> body.required, content |-> body.content]
     /\ body.content \in [DOMAIN body.content -> known]
     /\ BodyIsSome(body)

ParamsForm(params, known) ==
  /\ params = [k \in DOMAIN params |->
                 [name |-> params[k].name, required |-> params[k].required, schema |-> params[k].schema]]
  /\ \A k \in DOMAIN params : params[k].schema \in known

ResponsesForm(responses, known) ==
  /\ responses = [s \in DOMAIN responses |-> responses[s]]
  /\ \A s \in DOMAIN responses : responses[s] \in [DOMAIN responses[s] -> known]

OperationForm(o, known) ==
  /\ o = [path |-> o.path, auth |-> o.auth, servers |-> o.servers, params |-> o.params, body |-> o.body,
          responses |-> o.responses]
  /\ ParamsForm(o.params, known) /\ BodyForm(o.body, known) /\ ResponsesForm(o.responses, known)

(* MapSchemas of a function, part by part.                                 *)
Renamed(o, f) == MapSchemas(o, LAMBDA x : f[x])

RenamedParams(params, f) ==
  [k \in DOMAIN params |->
     [name |-> params[k].name, required |-> params[k].required, schema |-> f[params[k].schema]]]
RenamedContent(content, f) == [t \in DOMAIN content |-> f[content[t]]]
RenamedBody(body, f) ==
  IF body = None THEN None ELSE [required |-> body.required, content |-> RenamedContent(body.content, f)]
RenamedResponses(responses, f) == [s \in DOMAIN responses |-> RenamedContent(responses[s], f)]

LEMMA RenamedIs ==
  ASSUME NEW o, NEW f
  PROVE  Renamed(o, f) = [path |-> o.path, auth |-> o.auth, servers |-> o.servers,
                          params |-> RenamedParams(o.params, f), body |-> RenamedBody(o.body, f),
                          responses |-> RenamedResponses(o.responses, f)]
  BY DEF Renamed, MapSchemas, MapContent, RenamedParams, RenamedContent, RenamedBody, RenamedResponses

Known == Schemas \cup Hashes

LEMMA RenamedForm ==
  ASSUME NEW o, NEW from \in SUBSET Known, NEW to \in SUBSET Known, OperationForm(o, from), NEW f,
         \A x \in from : f[x] \in to
  PROVE  OperationForm(Renamed(o, f), to)
  <1> DEFINE r == Renamed(o, f)
  <1>1. /\ r = [path |-> o.path, auth |-> o.auth, servers |-> o.servers,
                params |-> RenamedParams(o.params, f), body |-> RenamedBody(o.body, f),
                responses |-> RenamedResponses(o.responses, f)]
    BY RenamedIs
  <1> HIDE DEF r
  <1>2. /\ r.params = RenamedParams(o.params, f) /\ r.body = RenamedBody(o.body, f)
        /\ r.responses = RenamedResponses(o.responses, f)
        /\ r = [path |-> r.path, auth |-> r.auth, servers |-> r.servers, params |-> r.params, body |-> r.body,
                responses |-> r.responses]
    BY <1>1
  <1>3. ParamsForm(r.params, to)
    BY <1>2 DEF OperationForm, ParamsForm, RenamedParams
  <1>4. BodyForm(r.body, to)
    <2> SUFFICES ASSUME o.body # None PROVE BodyForm(RenamedBody(o.body, f), to)
      BY <1>2 DEF BodyForm, RenamedBody
    <2> DEFINE content == RenamedContent(o.body.content, f)
    <2>1. content \in [DOMAIN o.body.content -> to] /\ DOMAIN content = DOMAIN o.body.content
      BY DEF OperationForm, BodyForm, RenamedContent
    <2>2. BodyIsSome(o.body)
      BY DEF OperationForm, BodyForm
    <2> HIDE DEF content
    <2> DEFINE body == [required |-> o.body.required, content |-> content]
    <2>3. RenamedBody(o.body, f) = body
      BY DEF RenamedBody, content
    <2>4. body.required = o.body.required /\ body.content = content
      OBVIOUS
    <2>5. BodyIsSome(body)
      BY <2>1, <2>2 DEF BodyIsSome
    <2> HIDE DEF body
    <2>6. body = [required |-> body.required, content |-> body.content]
      BY DEF body
    <2> QED BY <2>1, <2>3, <2>4, <2>5, <2>6 DEF BodyForm
  <1>5. ResponsesForm(r.responses, to)
    BY <1>2 DEF OperationForm, ResponsesForm, RenamedResponses, RenamedContent
  <1> QED BY <1>2, <1>3, <1>4, <1>5 DEF OperationForm, r

LEMMA RenamedRange ==
  ASSUME NEW content, NEW f
  PROVE  RangeOf(RenamedContent(content, f)) = {f[x] : x \in RangeOf(content)}
  <1>1. DOMAIN RenamedContent(content, f) = DOMAIN content
    BY DEF RenamedContent
  <1>2. \A t \in DOMAIN content : RenamedContent(content, f)[t] = f[content[t]]
    BY DEF RenamedContent
  <1> QED BY <1>1, <1>2 DEF RangeOf

LEMMA RenamedRoots ==
  ASSUME NEW o, NEW known \in SUBSET Known, OperationForm(o, known), NEW f, \A x \in known : f[x] \in Known
  PROVE  RootsOf(o) \subseteq known /\ RootsOf(Renamed(o, f)) = {f[x] : x \in RootsOf(o)}
  <1> DEFINE r == Renamed(o, f)
             ofParams(p) == {p[k].schema : k \in DOMAIN p}
             ofBody(b) == IF b = None THEN {} ELSE RangeOf(b.content)
             ofResponses(s) == UNION {RangeOf(s[x]) : x \in DOMAIN s}
  <1>1. /\ r.params = RenamedParams(o.params, f) /\ r.body = RenamedBody(o.body, f)
        /\ r.responses = RenamedResponses(o.responses, f)
    BY RenamedIs
  <1>2. /\ RootsOf(o) = (ofParams(o.params) \cup ofBody(o.body)) \cup ofResponses(o.responses)
        /\ RootsOf(r) = (ofParams(r.params) \cup ofBody(r.body)) \cup ofResponses(r.responses)
    BY DEF RootsOf
  <1> HIDE DEF r
  <1>3. ofParams(o.params) \subseteq known /\ ofParams(r.params) = {f[x] : x \in ofParams(o.params)}
    BY <1>1 DEF OperationForm, ParamsForm, RenamedParams
  <1>4. ofBody(o.body) \subseteq known /\ ofBody(r.body) = {f[x] : x \in ofBody(o.body)}
    <2>1. CASE o.body = None
      BY <1>1, <2>1 DEF RenamedBody
    <2>2. CASE o.body # None
      <3> DEFINE content == RenamedContent(o.body.content, f)
      <3>1. o.body.content \in [DOMAIN o.body.content -> known] /\ BodyIsSome(o.body)
        BY <2>2 DEF OperationForm, BodyForm
      <3>2. content \in [DOMAIN o.body.content -> Known]
        BY <3>1 DEF RenamedContent
      <3>3. [required |-> o.body.required, content |-> content] # None
        BY <2>2, <3>1, <3>2 DEF BodyIsSome, Known
      <3>4. r.body = [required |-> o.body.required, content |-> content]
        BY <1>1, <2>2 DEF RenamedBody
      <3>5. ofBody(o.body) = RangeOf(o.body.content) /\ ofBody(r.body) = RangeOf(content)
        BY <2>2, <3>3, <3>4
      <3>6. RangeOf(o.body.content) \subseteq known
        BY <3>1 DEF RangeOf
      <3>7. RangeOf(content) = {f[x] : x \in RangeOf(o.body.content)}
        BY RenamedRange
      <3> HIDE DEF ofBody, content
      <3> QED BY <3>5, <3>6, <3>7
    <2> QED BY <2>1, <2>2
  <1>5. ofResponses(o.responses) \subseteq known /\ ofResponses(r.responses) = {f[x] : x \in ofResponses(o.responses)}
    <2> DEFINE q == o.responses
    <2>1. r.responses = [s \in DOMAIN q |-> RenamedContent(q[s], f)]
      BY <1>1 DEF RenamedResponses
    <2>2. \A s \in DOMAIN q : q[s] \in [DOMAIN q[s] -> known]
      BY DEF OperationForm, ResponsesForm
    <2>3. \A s \in DOMAIN q : RangeOf(r.responses[s]) = {f[x] : x \in RangeOf(q[s])}
      BY <2>1, RenamedRange
    <2>4. \A s \in DOMAIN q : RangeOf(q[s]) \subseteq known
      BY <2>2 DEF RangeOf
    <2>5. DOMAIN r.responses = DOMAIN q
      BY <2>1
    <2> HIDE DEF q
    <2>6. ofResponses(q) \subseteq known
      BY <2>4
    <2>7. ASSUME NEW y \in ofResponses(r.responses) PROVE y \in {f[x] : x \in ofResponses(q)}
      <3>1. PICK s \in DOMAIN q : y \in RangeOf(r.responses[s])
        BY <2>5
      <3>2. PICK x \in RangeOf(q[s]) : y = f[x]
        BY <2>3, <3>1
      <3> QED BY <3>2
    <2>8. ASSUME NEW x \in ofResponses(q) PROVE f[x] \in ofResponses(r.responses)
      <3>1. PICK s \in DOMAIN q : x \in RangeOf(q[s])
        OBVIOUS
      <3>2. f[x] \in RangeOf(r.responses[s])
        BY <2>3, <3>1
      <3> QED BY <2>5, <3>1, <3>2
    <2>9. ofResponses(q) \subseteq known /\ ofResponses(r.responses) = {f[x] : x \in ofResponses(q)}
      BY <2>6, <2>7, <2>8
    <2> QED BY <2>9 DEF q
  <1> HIDE DEF ofParams, ofBody, ofResponses
  <1>6. RootsOf(o) \subseteq known /\ RootsOf(r) = {f[x] : x \in RootsOf(o)}
    BY <1>2, <1>3, <1>4, <1>5
  <1> QED BY <1>6 DEF r

LEMMA RenamedBack ==
  ASSUME NEW o, NEW known \in SUBSET Known, OperationForm(o, known), NEW f, NEW g,
         \A x \in known : f[x] \in Known,
         \A x \in RootsOf(o) : g[f[x]] = x
  PROVE  Renamed(Renamed(o, f), g) = o
  <1>1. Renamed(Renamed(o, f), g)
          = [path |-> o.path, auth |-> o.auth, servers |-> o.servers,
             params |-> RenamedParams(RenamedParams(o.params, f), g),
             body |-> RenamedBody(RenamedBody(o.body, f), g),
             responses |-> RenamedResponses(RenamedResponses(o.responses, f), g)]
    BY RenamedIs
  <1>2. RenamedParams(RenamedParams(o.params, f), g) = o.params
    <2>1. \A k \in DOMAIN o.params : g[f[o.params[k].schema]] = o.params[k].schema
      BY DEF RootsOf
    <2> QED BY <2>1 DEF OperationForm, ParamsForm, RenamedParams
  <1>3. RenamedBody(RenamedBody(o.body, f), g) = o.body
    <2>1. CASE o.body = None
      BY <2>1 DEF RenamedBody
    <2>2. CASE o.body # None
      <3> DEFINE content == RenamedContent(o.body.content, f)
      <3>1. o.body.content \in [DOMAIN o.body.content -> known] /\ BodyIsSome(o.body)
        BY <2>2 DEF OperationForm, BodyForm
      <3>2. content \in [DOMAIN o.body.content -> Known]
        BY <3>1 DEF RenamedContent
      <3>3. [required |-> o.body.required, content |-> content] # None
        BY <2>2, <3>1, <3>2 DEF BodyIsSome, Known
      <3>4. RenamedContent(content, g) = o.body.content
        <4>1. \A t \in DOMAIN o.body.content : g[f[o.body.content[t]]] = o.body.content[t]
          BY <2>2 DEF RootsOf, RangeOf
        <4> QED BY <3>1, <4>1 DEF RenamedContent
      <3> HIDE DEF content
      <3>5. RenamedBody(o.body, f) = [required |-> o.body.required, content |-> content]
        BY <2>2 DEF RenamedBody, content
      <3>6. RenamedBody(RenamedBody(o.body, f), g) = [required |-> o.body.required, content |-> o.body.content]
        BY <3>3, <3>4, <3>5 DEF RenamedBody
      <3> QED BY <2>2, <3>6 DEF OperationForm, BodyForm
    <2> QED BY <2>1, <2>2
  <1>4. RenamedResponses(RenamedResponses(o.responses, f), g) = o.responses
    <2> DEFINE q == o.responses
    <2>1. \A s \in DOMAIN q : \A t \in DOMAIN q[s] : g[f[q[s][t]]] = q[s][t]
      BY DEF RootsOf, RangeOf
    <2>2. q = [s \in DOMAIN q |-> q[s]] /\ \A s \in DOMAIN q : q[s] \in [DOMAIN q[s] -> known]
      BY DEF OperationForm, ResponsesForm
    <2> HIDE DEF q
    <2>3. \A s \in DOMAIN q : RenamedContent(RenamedContent(q[s], f), g) = q[s]
      BY <2>1, <2>2 DEF RenamedContent
    <2>4. RenamedResponses(RenamedResponses(q, f), g) = q
      BY <2>2, <2>3 DEF RenamedResponses
    <2> QED BY <2>4 DEF q
  <1>5. o = [path |-> o.path, auth |-> o.auth, servers |-> o.servers, params |-> o.params, body |-> o.body,
             responses |-> o.responses]
    BY DEF OperationForm
  <1> QED BY <1>1, <1>2, <1>3, <1>4, <1>5

-----------------------------------------------------------------------------
(* Contracts and entries.                                                  *)

IdsOf == [s \in Schemas |-> IdOf(s)]
InnerOf == [s \in Schemas |-> Inner(s)]
NestedOf == [s \in Schemas |-> Nested(s)]

LEMMA NestedSchemas == NestedIs(InnerOf, NestedOf)
  BY SchemasAssumption DEF SchemasAssumption, NestedIs, InnerOf, NestedOf

LEMMA SchemasHashed ==
  ASSUME NEW o, OperationForm(o, Schemas)
  PROVE  MapSchemas(o, IdOf) = Renamed(o, IdsOf)
  <1>1. [k \in DOMAIN o.params |->
           [name |-> o.params[k].name, required |-> o.params[k].required, schema |-> IdOf(o.params[k].schema)]]
          = RenamedParams(o.params, IdsOf)
    BY DEF OperationForm, ParamsForm, RenamedParams, IdsOf
  <1>2. ASSUME NEW content, content \in [DOMAIN content -> Schemas]
        PROVE  [t \in DOMAIN content |-> IdOf(content[t])] = RenamedContent(content, IdsOf)
    BY <1>2 DEF RenamedContent, IdsOf
  <1>3. (IF o.body = None THEN None
         ELSE [required |-> o.body.required, content |-> [t \in DOMAIN o.body.content |-> IdOf(o.body.content[t])]])
          = RenamedBody(o.body, IdsOf)
    BY <1>2 DEF OperationForm, BodyForm, RenamedBody
  <1>4. [s \in DOMAIN o.responses |-> [t \in DOMAIN o.responses[s] |-> IdOf(o.responses[s][t])]]
          = RenamedResponses(o.responses, IdsOf)
    BY <1>2 DEF OperationForm, ResponsesForm, RenamedResponses
  <1>5. MapSchemas(o, IdOf)
          = [path |-> o.path, auth |-> o.auth, servers |-> o.servers,
             params |-> [k \in DOMAIN o.params |->
                           [name |-> o.params[k].name, required |-> o.params[k].required,
                            schema |-> IdOf(o.params[k].schema)]],
             body |-> IF o.body = None THEN None
                      ELSE [required |-> o.body.required,
                            content |-> [t \in DOMAIN o.body.content |-> IdOf(o.body.content[t])]],
             responses |-> [s \in DOMAIN o.responses |->
                              [t \in DOMAIN o.responses[s] |-> IdOf(o.responses[s][t])]]]
    BY DEF MapSchemas, MapContent
  <1> QED BY <1>1, <1>3, <1>4, <1>5, RenamedIs

ContractForm(c, known) ==
  /\ c = [op \in DOMAIN c |-> c[op]]
  /\ \A op \in DOMAIN c : OperationForm(c[op], known)

EntryForm(e) ==
  /\ e = [version |-> 4, scope |-> e.scope, operations |-> e.operations, schemas |-> e.schemas,
          digest |-> e.digest]
  /\ ContractForm(e.operations, Ids)
  /\ e.schemas = [id \in DOMAIN e.schemas |-> e.schemas[id]]
  /\ DOMAIN e.schemas \subseteq Ids

RenamedAll(c, f) == [op \in DOMAIN c |-> Renamed(c[op], f)]

LEMMA RenamedContract ==
  ASSUME NEW c, NEW from \in SUBSET Known, NEW to \in SUBSET Known, ContractForm(c, from), NEW f,
         \A x \in from : f[x] \in to
  PROVE  /\ ContractForm(RenamedAll(c, f), to)
         /\ Roots(c) \subseteq from
         /\ Roots(RenamedAll(c, f)) = Image(f, Roots(c))
         /\ \A g : (\A x \in Roots(c) : g[f[x]] = x) => RenamedAll(RenamedAll(c, f), g) = c
  <1> DEFINE r == RenamedAll(c, f)
  <1>1. DOMAIN r = DOMAIN c /\ r = [op \in DOMAIN r |-> r[op]] /\ \A op \in DOMAIN c : r[op] = Renamed(c[op], f)
    BY DEF RenamedAll
  <1> HIDE DEF r
  <1>2. \A op \in DOMAIN c : OperationForm(c[op], from)
    BY DEF ContractForm
  <1>3. \A op \in DOMAIN c : OperationForm(r[op], to)
    BY <1>1, <1>2, RenamedForm
  <1>4. ASSUME NEW op \in DOMAIN c
        PROVE  RootsOf(c[op]) \subseteq from /\ RootsOf(r[op]) = {f[x] : x \in RootsOf(c[op])}
    <2>1. \A x \in from : f[x] \in Known
      OBVIOUS
    <2> QED BY <1>1, <1>2, <2>1, RenamedRoots
  <1>5. Roots(c) \subseteq from
    BY <1>4 DEF Roots
  <1>6. ASSUME NEW y \in Roots(r) PROVE y \in {f[x] : x \in Roots(c)}
    <2>1. PICK op \in DOMAIN c : y \in RootsOf(r[op])
      BY <1>1 DEF Roots
    <2>2. PICK x \in RootsOf(c[op]) : y = f[x]
      BY <1>4, <2>1
    <2>3. x \in Roots(c)
      BY <2>2 DEF Roots
    <2> QED BY <2>2, <2>3
  <1>7. ASSUME NEW x \in Roots(c) PROVE f[x] \in Roots(r)
    <2>1. PICK op \in DOMAIN c : x \in RootsOf(c[op])
      BY DEF Roots
    <2>2. f[x] \in RootsOf(r[op])
      BY <1>4, <2>1
    <2> QED BY <1>1, <2>2 DEF Roots
  <1>8. ASSUME NEW g, \A x \in Roots(c) : g[f[x]] = x PROVE RenamedAll(r, g) = c
    <2>1. ASSUME NEW op \in DOMAIN c PROVE Renamed(r[op], g) = c[op]
      <3>1. \A x \in RootsOf(c[op]) : g[f[x]] = x
        BY <1>8 DEF Roots
      <3>2. \A x \in from : f[x] \in Known
        OBVIOUS
      <3>3. Renamed(Renamed(c[op], f), g) = c[op]
        BY <1>2, <3>1, <3>2, RenamedBack
      <3> QED BY <1>1, <3>3
    <2> QED BY <1>1, <2>1 DEF RenamedAll, ContractForm
  <1>9. Roots(r) = Image(f, Roots(c))
    BY <1>6, <1>7 DEF Image
  <1>10. ContractForm(r, to)
    BY <1>1, <1>3 DEF ContractForm
  <1> QED BY <1>5, <1>8, <1>9, <1>10 DEF r

(* What lock writes of a contract, in version 4.                           *)
LEMMA BuiltEntry ==
  ASSUME NEW c, ContractForm(c, Schemas), NEW scope
  PROVE  LET e == BuildV4(c, scope) IN
         /\ e.version = 4 /\ e.scope = scope
         /\ e.operations = RenamedAll(c, IdsOf)
         /\ e.schemas = TableOf(IdsOf, NestedOf, Roots(c))
         /\ e.digest = Digest(e.scope, e.operations, e.schemas)
         /\ EntryForm(e)
  <1> DEFINE e == BuildV4(c, scope)
             operations == [op \in DOMAIN c |-> MapSchemas(c[op], IdOf)]
             schemas == [id \in {IdOf(s) : s \in Interned(Roots(c))} |-> id.hash]
  <1>1. e = [version |-> 4, scope |-> scope, operations |-> operations, schemas |-> schemas,
             digest |-> Digest(scope, operations, schemas)]
    BY DEF BuildV4
  <1>2. operations = RenamedAll(c, IdsOf)
    <2>1. \A op \in DOMAIN c : MapSchemas(c[op], IdOf) = Renamed(c[op], IdsOf)
      BY SchemasHashed DEF ContractForm
    <2> QED BY <2>1 DEF RenamedAll
  <1>3. \A s \in Schemas : IdsOf[s] \in Ids /\ IdsOf[s] = IdOf(s) /\ NestedOf[s] = Nested(s)
    BY DEF Ids, IdsOf, NestedOf
  <1>4. Ids \in SUBSET Known /\ Schemas \in SUBSET Known
    BY DEF Ids, Known, Hashes
  <1>5. ContractForm(operations, Ids) /\ Roots(c) \subseteq Schemas
    <2>1. \A x \in Schemas : IdsOf[x] \in Ids
      BY <1>3
    <2>2. ContractForm(RenamedAll(c, IdsOf), Ids) /\ Roots(c) \subseteq Schemas
      BY <1>4, <2>1, RenamedContract
    <2> HIDE DEF operations
    <2> QED BY <1>2, <2>2
  <1> DEFINE all == UNION {NestedOf[r] : r \in Roots(c)}
  <1>6. Interned(Roots(c)) = all
    BY <1>3, <1>5 DEF Interned
  <1>7. all \subseteq Schemas
    BY <1>5, NestedInside, NestedSchemas
  <1> HIDE DEF all
  <1>8. {IdOf(s) : s \in Interned(Roots(c))} = {IdsOf[s] : s \in all}
    BY <1>3, <1>6, <1>7
  <1>9. schemas = [id \in {IdsOf[s] : s \in all} |-> id.hash] /\ {IdsOf[s] : s \in all} \subseteq Ids
    BY <1>3, <1>7, <1>8
  <1> HIDE DEF e, operations, schemas
  <1>10. e.version = 4 /\ e.scope = scope /\ e.operations = operations /\ e.schemas = schemas
          /\ e.digest = Digest(e.scope, e.operations, e.schemas)
    BY <1>1
  <1>11. e = [version |-> 4, scope |-> e.scope, operations |-> e.operations, schemas |-> e.schemas,
              digest |-> e.digest]
    BY <1>1
  <1>12. EntryForm(e)
    BY <1>5, <1>9, <1>10, <1>11 DEF EntryForm
  <1>13. e.schemas = TableOf(IdsOf, NestedOf, Roots(c))
    BY <1>9, <1>10 DEF TableOf, all
  <1> QED BY <1>2, <1>10, <1>12, <1>13 DEF e

LEMMA IdsRefer == HashesRefer(IdsOf, InnerOf)
  <1> SUFFICES ASSUME NEW s \in Schemas
               PROVE  IdsOf[s] = HashOf(IdsOf[s].hash) /\ References(IdsOf[s].hash) = Image(IdsOf, InnerOf[s])
    BY DEF HashesRefer
  <1>1. IdsOf[s] = IdOf(s) /\ InnerOf[s] = Inner(s) /\ \A t \in Inner(s) : IdsOf[t] = IdOf(t)
    BY SchemasAssumption DEF SchemasAssumption, IdsOf, InnerOf
  <1>2. Image(IdsOf, InnerOf[s]) = {IdOf(t) : t \in Inner(s)}
    BY <1>1 DEF Image
  <1>3. IdOf(s) = HashOf(IdOf(s).hash) /\ References(IdOf(s).hash) = {IdOf(t) : t \in Inner(s)}
    BY NodeIs, ReferencesAre
  <1> QED BY <1>1, <1>2, <1>3

(* Its table is valid, and it is expanded to the contract.                 *)
LEMMA BuiltIsValid ==
  ASSUME NEW c, ContractForm(c, Schemas), NEW scope
  PROVE  ValidTable(BuildV4(c, scope))
  <1> DEFINE e == BuildV4(c, scope)
  <1>1. /\ e.operations = RenamedAll(c, IdsOf)
        /\ e.schemas = TableOf(IdsOf, NestedOf, Roots(c))
    BY BuiltEntry
  <1>2. Roots(c) \in SUBSET Schemas /\ Roots(e.operations) = Image(IdsOf, Roots(c))
    <2>1. \A x \in Schemas : IdsOf[x] \in Ids
      BY DEF Ids, IdsOf
    <2>2. Ids \in SUBSET Known /\ Schemas \in SUBSET Known
      BY DEF Ids, Known, Hashes
    <2> HIDE DEF e
    <2> QED BY <1>1, <2>1, <2>2, RenamedContract
  <1> HIDE DEF e
  <1>3. ValidTable(e)
    BY <1>1, <1>2, TableIsValid, NestedSchemas, IdsRefer
  <1> QED BY <1>3 DEF e

LEMMA TableIsClosed ==
  ASSUME NEW e, ValidTable(e), DOMAIN e.schemas \subseteq Ids
  PROVE  Closed(e.schemas)
  <1>1. ASSUME NEW id \in DOMAIN e.schemas
        PROVE  e.schemas[id] = id.hash /\ References(e.schemas[id]) \subseteq DOMAIN e.schemas
    <2>1. HashOf(e.schemas[id]) = id /\ Reach(e, DOMAIN e.schemas)
      BY DEF ValidTable
    <2> QED BY <2>1 DEF HashOf, Reach
  <1> QED BY <1>1 DEF Closed

LEMMA EntryExpanded ==
  ASSUME NEW e, EntryForm(e), ValidTable(e)
  PROVE  /\ Closed(e.schemas)
         /\ ExpandV4(e) = RenamedAll(e.operations, Expanded(e.schemas))
         /\ Roots(e.operations) \subseteq DOMAIN e.schemas
  <1>1. Closed(e.schemas)
    BY TableIsClosed DEF EntryForm
  <1>2. ExpandV4(e) = RenamedAll(e.operations, Expanded(e.schemas))
    BY DEF ExpandV4, RenamedAll, Renamed
  <1>3. Roots(e.operations) \subseteq DOMAIN e.schemas
    BY DEF ValidTable, Reach
  <1> QED BY <1>1, <1>2, <1>3

LEMMA RoundTrip ==
  ASSUME NEW c, ContractForm(c, Schemas), NEW scope
  PROVE  ExpandV4(BuildV4(c, scope)) = c
  <1> DEFINE e == BuildV4(c, scope)
             expand == Expanded(e.schemas)
  <1>1. e.operations = RenamedAll(c, IdsOf) /\ EntryForm(e) /\ ValidTable(e)
    BY BuiltEntry, BuiltIsValid
  <1> HIDE DEF e
  <1>2. /\ ExpandV4(e) = RenamedAll(e.operations, expand) /\ Closed(e.schemas)
        /\ Roots(e.operations) \subseteq DOMAIN e.schemas
    BY <1>1, EntryExpanded
  <1>3. \A x \in Schemas : IdsOf[x] \in Ids /\ IdsOf[x] = IdOf(x)
    BY DEF Ids, IdsOf
  <1>4. Ids \in SUBSET Known /\ Schemas \in SUBSET Known
    BY DEF Ids, Known, Hashes
  <1>5. /\ Roots(c) \subseteq Schemas /\ Roots(e.operations) = Image(IdsOf, Roots(c))
        /\ \A g : (\A x \in Roots(c) : g[IdsOf[x]] = x) => RenamedAll(RenamedAll(c, IdsOf), g) = c
    BY <1>1, <1>3, <1>4, RenamedContract
  <1>6. \A x \in Roots(c) : expand[IdsOf[x]] = x
    BY <1>2, <1>3, <1>5, ExpandsBack DEF Image
  <1> HIDE DEF expand
  <1>7. ExpandV4(e) = c
    BY <1>1, <1>2, <1>5, <1>6
  <1> QED BY <1>7 DEF e

(* An entry that is accepted is what lock writes of its expansion.         *)
LEMMA AcceptedIsBuilt ==
  ASSUME NEW e, EntryForm(e), ValidDeclared(e)
  PROVE  /\ ContractForm(ExpandV4(e), Schemas)
         /\ BuildV4(ExpandV4(e), e.scope) = e
  <1> DEFINE D == DOMAIN e.schemas
             expand == Expanded(e.schemas)
             c == ExpandV4(e)
             b == BuildV4(c, e.scope)
  <1>1. ValidTable(e) /\ e.digest = Digest(e.scope, e.operations, e.schemas)
    BY DEF ValidDeclared
  <1>2. c = RenamedAll(e.operations, expand) /\ Closed(e.schemas) /\ Roots(e.operations) \subseteq D
    BY <1>1, EntryExpanded
  <1>3. D \subseteq Ids
    BY DEF EntryForm
  <1>4. \A id \in D : expand[id] \in Schemas /\ IdOf(expand[id]) = id
    BY <1>2, <1>3, ExpandsBack DEF Ids
  <1> HIDE DEF expand, c
  <1>5. ContractForm(e.operations, D)
    <2>1. ASSUME NEW op \in DOMAIN e.operations PROVE OperationForm(e.operations[op], D)
      <3> DEFINE o == e.operations[op]
      <3>1. OperationForm(o, Ids) /\ RootsOf(o) \subseteq D
        BY <1>2 DEF EntryForm, ContractForm, Roots
      <3> HIDE DEF o
      <3>2. ParamsForm(o.params, D)
        BY <3>1 DEF OperationForm, ParamsForm, RootsOf
      <3>3. BodyForm(o.body, D)
        BY <3>1 DEF OperationForm, BodyForm, RootsOf, RangeOf
      <3>4. ResponsesForm(o.responses, D)
        <4>1. ASSUME NEW s \in DOMAIN o.responses PROVE o.responses[s] \in [DOMAIN o.responses[s] -> D]
          <5>1. RangeOf(o.responses[s]) \subseteq D
            BY <3>1 DEF RootsOf
          <5>2. o.responses[s] \in [DOMAIN o.responses[s] -> Ids]
            BY <3>1 DEF OperationForm, ResponsesForm
          <5> QED BY <5>1, <5>2 DEF RangeOf
        <4> QED BY <3>1, <4>1 DEF OperationForm, ResponsesForm
      <3> QED BY <3>1, <3>2, <3>3, <3>4 DEF OperationForm, o
    <2> QED BY <2>1 DEF EntryForm, ContractForm
  <1>6. D \in SUBSET Known /\ Schemas \in SUBSET Known
    BY <1>3 DEF Ids, Known, Hashes
  <1>7. /\ ContractForm(c, Schemas) /\ Roots(c) = Image(expand, Roots(e.operations))
        /\ \A g : (\A x \in Roots(e.operations) : g[expand[x]] = x) => RenamedAll(c, g) = e.operations
    BY <1>2, <1>4, <1>5, <1>6, RenamedContract
  <1>8. /\ b.version = 4 /\ b.scope = e.scope /\ b.operations = RenamedAll(c, IdsOf)
        /\ b.digest = Digest(b.scope, b.operations, b.schemas)
        /\ b.schemas = TableOf(IdsOf, NestedOf, Roots(c))
        /\ EntryForm(b)
    <2>1. ContractForm(c, Schemas)
      BY <1>7
    <2> HIDE DEF b
    <2>2. /\ b.version = 4 /\ b.scope = e.scope
          /\ b.operations = RenamedAll(c, IdsOf)
          /\ b.schemas = TableOf(IdsOf, NestedOf, Roots(c))
          /\ b.digest = Digest(b.scope, b.operations, b.schemas)
          /\ EntryForm(b)
      BY <2>1, BuiltEntry DEF b
    <2> QED BY <2>2
  <1>9. ValidTable(b)
    BY <1>7, BuiltIsValid
  <1> HIDE DEF b
  <1>10. b.operations = e.operations
    <2>1. \A x \in Roots(e.operations) : IdsOf[expand[x]] = x
      BY <1>2, <1>4 DEF IdsOf
    <2> QED BY <1>7, <1>8, <2>1
  (* Both tables hold what the operations mention and what that refers to, *)
  (* and neither holds more.                                               *)
  <1> DEFINE B == DOMAIN b.schemas
  <1>11. B \subseteq D
    <2> DEFINE C == {s \in Schemas : IdOf(s) \in D}
    <2>1. C \in SUBSET Schemas /\ Roots(c) \subseteq C
      BY <1>2, <1>4, <1>7 DEF Image
    <2>2. \A t \in C : InnerOf[t] \subseteq C
      <3>1. ASSUME NEW t \in C PROVE Inner(t) \subseteq C
        <4>1. References(IdOf(t).hash) \subseteq D
          BY <1>2 DEF Closed
        <4>2. Inner(t) \subseteq Schemas
          BY SchemasAssumption DEF SchemasAssumption
        <4> QED BY <4>1, <4>2, ReferencesAre
      <3> QED BY <3>1 DEF InnerOf
    <2> HIDE DEF C
    <2>3. \A r \in Roots(c) : NestedOf[r] \subseteq C
      BY <2>1, <2>2, NestedLeast, NestedSchemas
    <2>4. UNION {NestedOf[r] : r \in Roots(c)} \subseteq C
      BY <2>3
    <2>5. \A s \in C : IdsOf[s] \in D
      BY DEF C, IdsOf
    <2> QED BY <1>8, <2>4, <2>5 DEF TableOf
  <1>12. Reach(e, B)
    <2>1. Reach(b, B)
      BY <1>9 DEF ValidTable
    <2>2. \A id \in B : b.schemas[id] = id.hash
      BY <1>9, TableIsClosed, <1>8 DEF EntryForm, Closed
    <2>3. \A id \in B : e.schemas[id] = id.hash
      BY <1>2, <1>11 DEF Closed
    <2> QED BY <1>10, <2>1, <2>2, <2>3 DEF Reach
  <1>13. B = D
    BY <1>1, <1>11, <1>12 DEF ValidTable
  <1>14. b.schemas = e.schemas
    <2>1. \A id \in B : b.schemas[id] = id.hash
      BY <1>9, TableIsClosed, <1>8 DEF EntryForm, Closed
    <2>2. \A id \in D : e.schemas[id] = id.hash
      BY <1>2 DEF Closed
    <2> QED BY <1>8, <1>13, <2>1, <2>2 DEF EntryForm
  <1>15. b = e
    BY <1>1, <1>8, <1>10, <1>14 DEF EntryForm
  <1> QED BY <1>7, <1>15 DEF b, c

-----------------------------------------------------------------------------
(* Version 3: what lock wrote is valid.                                    *)

IdsV3Of == [s \in Schemas |-> IdOfV3(s)]
InnerV3Of == [s \in Schemas |-> InnerV3(s)]
NestedV3Of == [s \in Schemas |-> NestedV3(s)]

LEMMA NestedSchemasV3 == NestedIs(InnerV3Of, NestedV3Of)
  <1> SUFFICES ASSUME NEW s \in Schemas
               PROVE  /\ InnerV3(s) \subseteq Inner(s)
                      /\ NestedV3(s) = {s} \cup UNION {NestedV3Of[t] : t \in InnerV3(s)}
    BY DEF NestedIs, InnerV3Of, NestedV3Of
  <1>1. InnerV3(s) \subseteq Inner(s)
    BY DEF InnerV3, Inner
  <1>2. Inner(s) \subseteq Schemas
    BY SchemasAssumption DEF SchemasAssumption
  <1>3. {NestedV3(t) : t \in InnerV3(s)} = {NestedV3Of[t] : t \in InnerV3(s)}
    BY <1>1, <1>2 DEF NestedV3Of
  <1> QED BY <1>1, <1>3, LegacyAssumption DEF LegacyAssumption

(* Properties, items and branches have names of their own.                 *)
LEMMA ReferencesV3 ==
  ASSUME NEW s \in Schemas
  PROVE  IdOfV3(s) = HashOf(IdOfV3(s).hash) /\ References(IdOfV3(s).hash) = {IdOfV3(t) : t \in InnerV3(s)}
  <1> DEFINE node == NodeOfV3(s)
             ofProps == [n \in DOMAIN s.props |-> Property(s.props[n].required, IdOfV3(s.props[n].schema))]
             ofItems == IF s.items = None THEN NoProps ELSE [n \in {"items"} |-> Property(TRUE, IdOfV3(s.items))]
             names == {BranchName(s.kind, i) : i \in DOMAIN s.branches}
             At3(n) == CHOOSE i \in DOMAIN s.branches : BranchName(s.kind, i) = n
             ofBranches == [n \in names |-> Property(TRUE, IdOfV3(s.branches[At3(n)]))]
             props == Merged(Merged(ofBranches, ofItems), ofProps)
             used(f) == {f[n].schema : n \in DOMAIN f}
  <1>1. IdOfV3(s) = HashOf(node)
    BY LegacyAssumption DEF LegacyAssumption
  <1>2. /\ node.props = props /\ node.items = None /\ node.additional = Forbidden /\ node.branches = {}
    BY DEF NodeOfV3
  <1>3. WellFormed(s)
    BY SchemasAssumption DEF SchemasAssumption
  <1> HIDE DEF node
  <1>4. References(node) = used(props)
    <2>1. References(node) = used(node.props) \cup node.branches \cup ({node.items, node.additional.schema} \ {None})
      BY DEF References
    <2>2. node.additional.schema = None
      BY <1>2 DEF Forbidden
    <2> HIDE DEF props, used
    <2> QED BY <1>2, <2>1, <2>2
  <1>5. used(ofProps) = {IdOfV3(t) : t \in {s.props[n].schema : n \in DOMAIN s.props}}
    <2>1. \A n \in DOMAIN s.props : ofProps[n].schema = IdOfV3(s.props[n].schema)
      BY DEF Property
    <2>2. DOMAIN ofProps = DOMAIN s.props
      OBVIOUS
    <2> HIDE DEF ofProps
    <2> QED BY <2>1, <2>2
  <1>6. used(ofItems) = {IdOfV3(t) : t \in {s.items} \ {None}}
    BY DEF Property, NoProps
  <1>7. used(ofBranches) = {IdOfV3(t) : t \in ToSet(s.branches)}
    <2>1. \A i \in DOMAIN s.branches : At3(BranchName(s.kind, i)) = i
      BY LegacyAssumption DEF LegacyAssumption
    <2>2. DOMAIN ofBranches = names
      OBVIOUS
    <2>3. \A i \in DOMAIN s.branches : ofBranches[BranchName(s.kind, i)].schema = IdOfV3(s.branches[i])
      BY <2>1 DEF Property
    <2> HIDE DEF At3, ofBranches
    <2>4. ASSUME NEW x \in used(ofBranches) PROVE x \in {IdOfV3(t) : t \in ToSet(s.branches)}
      <3>1. PICK n \in names : x = ofBranches[n].schema
        BY <2>2
      <3>2. PICK i \in DOMAIN s.branches : n = BranchName(s.kind, i)
        OBVIOUS
      <3> QED BY <2>3, <3>1, <3>2 DEF ToSet
    <2>5. ASSUME NEW t \in ToSet(s.branches) PROVE IdOfV3(t) \in used(ofBranches)
      <3>1. PICK i \in DOMAIN s.branches : t = s.branches[i]
        BY DEF ToSet
      <3> QED BY <2>2, <2>3, <3>1
    <2> QED BY <2>4, <2>5
  <1>8. used(props) = (used(ofProps) \cup used(ofBranches)) \cup used(ofItems)
    <2>1. /\ DOMAIN ofBranches \cap DOMAIN ofItems = {}
          /\ DOMAIN ofBranches \cap DOMAIN ofProps = {}
          /\ DOMAIN ofItems \cap DOMAIN ofProps = {}
      <3>1. s.branches = <<>> \/ (s.props = NoProps /\ s.items = None)
        BY <1>3 DEF WellFormed, BranchesOnly
      <3>2. s.items = None \/ s.props = NoProps
        BY <1>3 DEF WellFormed
      <3>3. s.branches = <<>> => names = {}
        OBVIOUS
      <3>4. s.props = NoProps => DOMAIN ofProps = {}
        BY DEF NoProps
      <3>5. s.items = None => DOMAIN ofItems = {}
        BY DEF NoProps
      <3>6. DOMAIN ofBranches = names
        OBVIOUS
      <3> HIDE DEF names, ofProps, ofItems, ofBranches
      <3> QED BY <3>1, <3>2, <3>3, <3>4, <3>5, <3>6
    <2> HIDE DEF ofBranches, ofItems, ofProps
    <2> DEFINE first == Merged(ofBranches, ofItems)
    <2>2. used(first) = used(ofBranches) \cup used(ofItems) /\ DOMAIN first = DOMAIN ofBranches \cup DOMAIN ofItems
      <3>1. DOMAIN first = DOMAIN ofBranches \cup DOMAIN ofItems
        BY DEF Merged
      <3>2. \A n \in DOMAIN ofBranches : first[n] = ofBranches[n]
        BY DEF Merged
      <3>3. \A n \in DOMAIN ofItems : first[n] = ofItems[n]
        BY <2>1 DEF Merged
      <3> HIDE DEF first
      <3> QED BY <3>1, <3>2, <3>3
    <2> HIDE DEF first
    <2>3. used(Merged(first, ofProps)) = used(first) \cup used(ofProps)
      <3> DEFINE all == Merged(first, ofProps)
      <3>1. DOMAIN all = DOMAIN first \cup DOMAIN ofProps
        BY DEF Merged
      <3>2. \A n \in DOMAIN first : all[n] = first[n]
        BY DEF Merged
      <3>3. \A n \in DOMAIN ofProps : all[n] = ofProps[n]
        BY <2>1, <2>2 DEF Merged
      <3> HIDE DEF all
      <3>4. used(all) = used(first) \cup used(ofProps)
        BY <3>1, <3>2, <3>3
      <3> QED BY <3>4 DEF all
    <2>4. props = Merged(first, ofProps)
      BY DEF first
    <2> HIDE DEF used, props
    <2> QED BY <2>2, <2>3, <2>4
  <1> DEFINE P == {s.props[n].schema : n \in DOMAIN s.props}
             B == ToSet(s.branches)
             R == {s.items} \ {None}
  <1>9. InnerV3(s) = (P \cup B) \cup R
    BY DEF InnerV3
  <1> HIDE DEF used, props, ofProps, ofItems, ofBranches, P, B, R
  <1>10. References(node) = {IdOfV3(t) : t \in InnerV3(s)}
    <2>1. References(node) = ({IdOfV3(t) : t \in P} \cup {IdOfV3(t) : t \in B}) \cup {IdOfV3(t) : t \in R}
      BY <1>4, <1>5, <1>6, <1>7, <1>8 DEF P, B, R
    <2> QED BY <1>9, <2>1
  <1>11. IdOfV3(s).hash = node
    BY <1>1 DEF HashOf
  <1> QED BY <1>1, <1>10, <1>11

LEMMA IdsReferV3 == HashesRefer(IdsV3Of, InnerV3Of)
  <1> SUFFICES ASSUME NEW s \in Schemas
               PROVE  /\ IdsV3Of[s] = HashOf(IdsV3Of[s].hash)
                      /\ References(IdsV3Of[s].hash) = Image(IdsV3Of, InnerV3Of[s])
    BY DEF HashesRefer
  <1>1. InnerV3(s) \subseteq Schemas
    BY SchemasAssumption DEF SchemasAssumption, InnerV3, Inner
  <1>2. IdsV3Of[s] = IdOfV3(s) /\ InnerV3Of[s] = InnerV3(s) /\ \A t \in InnerV3(s) : IdsV3Of[t] = IdOfV3(t)
    BY <1>1 DEF IdsV3Of, InnerV3Of
  <1>3. Image(IdsV3Of, InnerV3Of[s]) = {IdOfV3(t) : t \in InnerV3(s)}
    BY <1>2 DEF Image
  <1>4. IdOfV3(s) = HashOf(IdOfV3(s).hash) /\ References(IdOfV3(s).hash) = {IdOfV3(t) : t \in InnerV3(s)}
    BY ReferencesV3
  <1> QED BY <1>2, <1>3, <1>4

LEMMA SchemasHashedV3 ==
  ASSUME NEW o, OperationForm(o, Schemas)
  PROVE  MapSchemas(o, IdOfV3) = Renamed(o, IdsV3Of)
  <1>1. [k \in DOMAIN o.params |->
           [name |-> o.params[k].name, required |-> o.params[k].required, schema |-> IdOfV3(o.params[k].schema)]]
          = RenamedParams(o.params, IdsV3Of)
    BY DEF OperationForm, ParamsForm, RenamedParams, IdsV3Of
  <1>2. ASSUME NEW content, content \in [DOMAIN content -> Schemas]
        PROVE  [t \in DOMAIN content |-> IdOfV3(content[t])] = RenamedContent(content, IdsV3Of)
    BY <1>2 DEF RenamedContent, IdsV3Of
  <1>3. (IF o.body = None THEN None
         ELSE [required |-> o.body.required,
               content |-> [t \in DOMAIN o.body.content |-> IdOfV3(o.body.content[t])]])
          = RenamedBody(o.body, IdsV3Of)
    BY <1>2 DEF OperationForm, BodyForm, RenamedBody
  <1>4. [s \in DOMAIN o.responses |-> [t \in DOMAIN o.responses[s] |-> IdOfV3(o.responses[s][t])]]
          = RenamedResponses(o.responses, IdsV3Of)
    BY <1>2 DEF OperationForm, ResponsesForm, RenamedResponses
  <1>5. MapSchemas(o, IdOfV3)
          = [path |-> o.path, auth |-> o.auth, servers |-> o.servers,
             params |-> [k \in DOMAIN o.params |->
                           [name |-> o.params[k].name, required |-> o.params[k].required,
                            schema |-> IdOfV3(o.params[k].schema)]],
             body |-> IF o.body = None THEN None
                      ELSE [required |-> o.body.required,
                            content |-> [t \in DOMAIN o.body.content |-> IdOfV3(o.body.content[t])]],
             responses |-> [s \in DOMAIN o.responses |->
                              [t \in DOMAIN o.responses[s] |-> IdOfV3(o.responses[s][t])]]]
    BY DEF MapSchemas, MapContent
  <1> QED BY <1>1, <1>3, <1>4, <1>5, RenamedIs

LEMMA StoredForm ==
  ASSUME NEW o, OperationForm(o, Schemas)
  PROVE  OperationForm(StoredV3(o), Schemas)
  <1> DEFINE Key(k) == IF k.in = "path" THEN [in |-> "path", name |-> o.params[k].name] ELSE k
             Stored(k) == CHOOSE key \in DOMAIN o.params : Key(key) = k
             params == [k \in {Key(key) : key \in DOMAIN o.params} |->
                          [name |-> k.name, required |-> o.params[Stored(k)].required,
                           schema |-> o.params[Stored(k)].schema]]
             body == IF o.body = None THEN None ELSE [o.body EXCEPT !.required = None]
             r == StoredV3(o)
  <1>1. r = [path |-> o.path, auth |-> [n \in DOMAIN o.auth |-> [o.auth[n] EXCEPT !.identity = None]],
             servers |-> None, params |-> params, body |-> body, responses |-> o.responses]
    BY DEF StoredV3
  <1>2. ParamsForm(params, Schemas)
    <2>1. \A k \in DOMAIN params : Stored(k) \in DOMAIN o.params
      OBVIOUS
    <2> HIDE DEF Stored, Key
    <2>2. \A k \in DOMAIN params :
             params[k] = [name |-> params[k].name, required |-> params[k].required, schema |-> params[k].schema]
      OBVIOUS
    <2>3. \A k \in DOMAIN params : params[k].schema \in Schemas
      BY <2>1 DEF OperationForm, ParamsForm
    <2>4. params = [k \in DOMAIN params |-> params[k]]
      OBVIOUS
    <2> HIDE DEF params
    <2> QED BY <2>2, <2>3, <2>4 DEF ParamsForm
  <1>3. BodyForm(body, Schemas)
    <2> SUFFICES ASSUME o.body # None PROVE BodyForm(body, Schemas)
      BY DEF BodyForm
    <2>1. /\ o.body = [required |-> o.body.required, content |-> o.body.content]
          /\ o.body.content \in [DOMAIN o.body.content -> Schemas]
          /\ BodyIsSome(o.body)
      BY DEF OperationForm, BodyForm
    <2>2. body = [required |-> None, content |-> o.body.content]
      BY <2>1
    <2> HIDE DEF body
    <2>3. body.required = None /\ body.content = o.body.content
      BY <2>2
    <2>4. BodyIsSome(body)
      BY <2>1, <2>3 DEF BodyIsSome
    <2> QED BY <2>1, <2>2, <2>3, <2>4 DEF BodyForm
  <1> HIDE DEF params, body, r
  <1>4. /\ r.params = params /\ r.body = body /\ r.responses = o.responses
        /\ r = [path |-> r.path, auth |-> r.auth, servers |-> r.servers, params |-> r.params, body |-> r.body,
                responses |-> r.responses]
    BY <1>1
  <1>5. OperationForm(r, Schemas)
    BY <1>2, <1>3, <1>4 DEF OperationForm
  <1> QED BY <1>5 DEF r

(* Operations go by their method and by the shape of their path.           *)
KeysForm(c) ==
  \A op \in DOMAIN c : op = [method |-> op.method, shape |-> op.shape] /\ c[op].path.shape = op.shape

(* What of a contract version 3 has room for, by the paths as spelled.     *)
SpelledBy(c, op) == [method |-> op.method, path |-> c[op].path]
OpOf(key) == [method |-> key.method, shape |-> key.path.shape]
StoredAll(c) == [key \in {SpelledBy(c, op) : op \in DOMAIN c} |-> StoredV3(c[OpOf(key)])]

LEMMA StoredOps ==
  ASSUME NEW c, ContractForm(c, Schemas), KeysForm(c)
  PROVE  /\ ContractForm(StoredAll(c), Schemas)
         /\ DOMAIN StoredAll(c) = {SpelledBy(c, op) : op \in DOMAIN c}
         /\ \A op \in DOMAIN c : OpOf(SpelledBy(c, op)) = op /\ StoredAll(c)[SpelledBy(c, op)] = StoredV3(c[op])
         /\ {OpOf(key) : key \in DOMAIN StoredAll(c)} = DOMAIN c
  <1> DEFINE stored == StoredAll(c)
  <1>1. \A op \in DOMAIN c : OpOf(SpelledBy(c, op)) = op
    BY DEF KeysForm, OpOf, SpelledBy
  <1>2. DOMAIN stored = {SpelledBy(c, op) : op \in DOMAIN c}
    BY DEF StoredAll
  <1>3. \A op \in DOMAIN c : stored[SpelledBy(c, op)] = StoredV3(c[op])
    BY <1>1 DEF StoredAll
  <1>4. stored = [key \in DOMAIN stored |-> stored[key]]
    BY DEF StoredAll
  <1> HIDE DEF stored
  <1>5. \A key \in DOMAIN stored : OperationForm(stored[key], Schemas)
    BY <1>2, <1>3, StoredForm DEF ContractForm
  <1>6. {OpOf(key) : key \in DOMAIN stored} = DOMAIN c
    BY <1>1, <1>2
  <1>7. ContractForm(stored, Schemas)
    BY <1>4, <1>5 DEF ContractForm
  <1> QED BY <1>1, <1>2, <1>3, <1>6, <1>7 DEF stored

(* An entry of what is stored.                                             *)
EntryV3(e, stored, scope) ==
  /\ e.version = 3 /\ e.scope = scope /\ e.digest = Digest(e.scope, e.operations, e.schemas)
  /\ e.operations = RenamedAll(stored, IdsV3Of)
  /\ e.operations = [key \in DOMAIN stored |-> MapSchemas(stored[key], IdOfV3)]
  /\ Roots(stored) \in SUBSET Schemas
  /\ Roots(e.operations) = Image(IdsV3Of, Roots(stored))
  /\ e.schemas = TableOf(IdsV3Of, NestedV3Of, Roots(stored))

LEMMA BuiltV3Entry ==
  ASSUME NEW c, ContractForm(c, Schemas), KeysForm(c), NEW scope
  PROVE  EntryV3(BuildV3(c, scope), StoredAll(c), scope)
  <1> DEFINE stored == StoredAll(c)
             operations == [key \in DOMAIN stored |-> MapSchemas(stored[key], IdOfV3)]
             schemas == [id \in {IdOfV3(s) : s \in UNION {NestedV3(root) : root \in Roots(stored)}} |-> id.hash]
             e == BuildV3(c, scope)
  <1>1. e = [version |-> 3, scope |-> scope, operations |-> operations, schemas |-> schemas,
             digest |-> Digest(scope, operations, schemas)]
    BY DEF BuildV3, StoredAll, SpelledBy, OpOf
  <1>2. ContractForm(stored, Schemas)
    BY StoredOps
  <1> HIDE DEF stored
  <1>3. operations = RenamedAll(stored, IdsV3Of)
    <2>1. \A key \in DOMAIN stored : MapSchemas(stored[key], IdOfV3) = Renamed(stored[key], IdsV3Of)
      BY <1>2, SchemasHashedV3 DEF ContractForm
    <2> QED BY <2>1 DEF RenamedAll
  <1>4. Hashes \in SUBSET Known /\ Schemas \in SUBSET Known /\ \A s \in Schemas : IdsV3Of[s] \in Hashes
    BY DEF Known, Hashes, IdsV3Of
  <1>5. Roots(stored) \in SUBSET Schemas /\ Roots(RenamedAll(stored, IdsV3Of)) = Image(IdsV3Of, Roots(stored))
    BY <1>2, <1>4, RenamedContract
  <1> DEFINE all == UNION {NestedV3Of[r] : r \in Roots(stored)}
  <1>6. schemas = TableOf(IdsV3Of, NestedV3Of, Roots(stored))
    <2>1. UNION {NestedV3(root) : root \in Roots(stored)} = all
      BY <1>5 DEF NestedV3Of
    <2>2. all \subseteq Schemas
      BY <1>5, NestedInside, NestedSchemasV3
    <2> HIDE DEF all
    <2>3. {IdOfV3(s) : s \in all} = {IdsV3Of[s] : s \in all}
      BY <2>2 DEF IdsV3Of
    <2>4. schemas = [id \in {IdsV3Of[s] : s \in all} |-> id.hash]
      BY <2>1, <2>3
    <2> HIDE DEF schemas
    <2> QED BY <2>4 DEF TableOf, all
  <1> HIDE DEF schemas, e
  <1>7. operations = [key \in DOMAIN stored |-> MapSchemas(stored[key], IdOfV3)]
    OBVIOUS
  <1> HIDE DEF operations
  <1>8. /\ e.version = 3 /\ e.scope = scope /\ e.operations = operations /\ e.schemas = schemas
        /\ e.digest = Digest(e.scope, e.operations, e.schemas)
    BY <1>1
  <1>9. EntryV3(e, stored, scope)
    BY <1>3, <1>5, <1>6, <1>7, <1>8 DEF EntryV3
  <1> QED BY <1>9 DEF e, stored

LEMMA BuiltV3IsValid ==
  ASSUME NEW c, ContractForm(c, Schemas), KeysForm(c), NEW scope, scope # {} => scope = DOMAIN c
  PROVE  BuildV3(c, scope).version = 3 /\ ValidV3(BuildV3(c, scope))
  <1> DEFINE e == BuildV3(c, scope)
  <1>1. EntryV3(e, StoredAll(c), scope)
    BY BuiltV3Entry
  <1> HIDE DEF e
  <1> USE DEF EntryV3
  <1>2. ValidTable(e)
    BY <1>1, TableIsValid, NestedSchemasV3, IdsReferV3
  <1>3. DOMAIN e.operations = DOMAIN StoredAll(c)
    BY <1>1 DEF RenamedAll
  <1>4. {[method |-> key.method, shape |-> key.path.shape] : key \in DOMAIN e.operations} = DOMAIN c
    BY <1>3, StoredOps DEF OpOf
  <1>5. ValidV3(e)
    BY <1>1, <1>2, <1>4 DEF ValidV3
  <1> QED BY <1>1, <1>5 DEF e

-----------------------------------------------------------------------------
(* What is built of a document, and what of it is locked.                  *)

LEMMA ContentIsFunction ==
  ASSUME NEW x, NEW table, NEW kind
  PROVE  ResolvedContent(x, table, kind)
           = [t \in DOMAIN ResolvedContent(x, table, kind) |-> ResolvedContent(x, table, kind)[t]]
  <1>1. CASE IsRef(End(x, table))
    BY <1>1 DEF ResolvedContent
  <1>2. CASE ~IsRef(End(x, table))
    BY <1>2 DEF ResolvedContent, Content
  <1> QED BY <1>1, <1>2

LEMMA BuildForm ==
  ASSUME NEW docs, DocsAssumption(docs), NEW d \in docs, Build(d) # None
  PROVE  ContractForm(Build(d), Schemas) /\ KeysForm(Build(d))
  <1> DEFINE c == Build(d)
             all == {Identity(s) : s \in Spelled(d)}
             By(op) == CHOOSE spelled \in Spelled(d) : Identity(spelled) = op
             item(op) == ResolvePathItem(d, By(op)[1])
             operation(op) == item(op).operations[By(op)[2]]
  <1>1. c = [op \in all |-> Operation(d, By(op)[1], item(op), operation(op))]
    BY DEF Build
  <1>2. Roots(c) \subseteq Schemas /\ \A op \in DOMAIN c : BodyIsSome(c[op].body)
    BY DEF DocsAssumption, OperationTold
  <1>3. ASSUME NEW op \in all
        PROVE  OperationForm(c[op], Schemas) /\ op = [method |-> op.method, shape |-> op.shape]
                 /\ c[op].path.shape = op.shape
    <2> DEFINE path == By(op)[1]
               params == BindPathParameters(Parameters(d, item(op), operation(op)), path.names)
               body == RequestBody(d, operation(op).body)
               responses == Responses(d, operation(op))
    <2>1. By(op) \in Spelled(d) /\ Identity(By(op)) = op
      <3> HIDE DEF By
      <3>1. \E s \in Spelled(d) : Identity(s) = op
        OBVIOUS
      <3> QED BY <3>1 DEF By
    <2> HIDE DEF By
    <2>2. op = [method |-> By(op)[2], shape |-> path.shape]
      BY <2>1 DEF Identity
    <2>3. c[op] = [path |-> path, auth |-> NormalizeAuth(d, Security(d, operation(op))),
                   servers |-> EffectiveServers(d, item(op), operation(op)), params |-> params, body |-> body,
                   responses |-> responses]
      BY <1>1 DEF Operation
    <2>4. RootsOf(c[op]) \subseteq Schemas /\ BodyIsSome(c[op].body)
      BY <1>1, <1>2 DEF Roots
    <2> HIDE DEF c, path, item, operation
    <2>5. params = [k \in DOMAIN params |->
                      [name |-> params[k].name, required |-> params[k].required, schema |-> params[k].schema]]
      <3> DEFINE given == Parameters(d, item(op), operation(op))
                 names == path.names
                 IsParam(p) == p = [name |-> p.name, required |-> p.required, schema |-> p.schema]
      <3>1. \A p : IsParam(Parameter(p))
        BY DEF Parameter
      <3>2. \A level : \A k \in DOMAIN Level(d, level) : IsParam(Level(d, level)[k])
        <4>1. ASSUME NEW p PROVE IsParam(ResolveParameter(d, p))
          <5> DEFINE found == End(p, d.parameters)
          <5>1. CASE IsRef(found)
            BY <5>1 DEF ResolveParameter
          <5>2. CASE ~IsRef(found)
            <6>1. ResolveParameter(d, p) = Parameter(found)
              BY <5>2 DEF ResolveParameter
            <6> HIDE DEF IsParam, found
            <6> QED BY <3>1, <6>1
          <5> QED BY <5>1, <5>2
        <4> HIDE DEF IsParam
        <4> QED BY <4>1 DEF Level
      <3>3. \A k \in DOMAIN given : IsParam(given[k])
        <4> HIDE DEF IsParam
        <4> QED BY <3>2 DEF Parameters, Merged
      <3> HIDE DEF given
      <3> DEFINE declared(i) == {k \in DOMAIN given : k.in = "path" /\ given[k].name = names[i]}
                 others == [k \in {key \in DOMAIN given : key.in # "path"} |-> given[k]]
                 SlotBy(k) == CHOOSE slot \in DOMAIN names : Slot(slot) = k
                 Bound(i) == IF declared(i) = {} THEN [name |-> names[i], required |-> TRUE, schema |-> Plain("string")]
                             ELSE given[CHOOSE key \in declared(i) : TRUE]
                 slots == [k \in {Slot(i) : i \in DOMAIN names} |-> Bound(SlotBy(k))]
      <3>4. params = Merged(others, slots)
        BY DEF BindPathParameters, given
      <3>5. \A i : IsParam(Bound(i))
        <4> SUFFICES ASSUME NEW i PROVE IsParam(Bound(i))
          OBVIOUS
        <4>1. CASE declared(i) = {}
          BY <4>1
        <4>2. CASE declared(i) # {}
          <5>1. (CHOOSE key \in declared(i) : TRUE) \in DOMAIN given
            BY <4>2
          <5>2. Bound(i) = given[CHOOSE key \in declared(i) : TRUE]
            BY <4>2
          <5> HIDE DEF IsParam, Bound
          <5> QED BY <3>3, <5>1, <5>2
        <4> QED BY <4>1, <4>2
      <3> HIDE DEF Bound, SlotBy, IsParam
      <3>6. \A k \in DOMAIN params : IsParam(params[k])
        <4>1. \A k \in DOMAIN others : IsParam(others[k])
          BY <3>3
        <4>2. \A k \in DOMAIN slots : IsParam(slots[k])
          BY <3>5
        <4> HIDE DEF others, slots, params
        <4> QED BY <3>4, <4>1, <4>2 DEF Merged
      <3>7. params = [k \in DOMAIN params |-> params[k]]
        <4> HIDE DEF others, slots, params
        <4> QED BY <3>4 DEF Merged
      <3> HIDE DEF params
      <3> QED BY <3>6, <3>7 DEF IsParam
    <2>6. body # None => /\ body = [required |-> body.required, content |-> body.content]
                         /\ body.content = [t \in DOMAIN body.content |-> body.content[t]]
      <3> SUFFICES ASSUME body # None
                   PROVE  /\ body = [required |-> body.required, content |-> body.content]
                          /\ body.content = [t \in DOMAIN body.content |-> body.content[t]]
        OBVIOUS
      <3> DEFINE given == operation(op).body
                 content == ResolvedContent(given, d.bodies, "requestBodies")
      <3>1. body = [required |-> ~IsRef(End(given, d.bodies)) /\ End(given, d.bodies).required,
                    content |-> content]
        BY DEF RequestBody
      <3>2. content = [t \in DOMAIN content |-> content[t]]
        BY ContentIsFunction
      <3> HIDE DEF body, given, content
      <3> QED BY <3>1, <3>2
    <2>7. /\ responses = [s \in DOMAIN responses |-> responses[s]]
          /\ \A s \in DOMAIN responses : responses[s] = [t \in DOMAIN responses[s] |-> responses[s][t]]
      <3>1. \A s \in DOMAIN responses :
               responses[s] = ResolvedContent(operation(op).responses[s], d.responses, "responses")
        BY DEF Responses
      <3>2. responses = [s \in DOMAIN responses |-> responses[s]]
        BY DEF Responses
      <3> HIDE DEF responses
      <3> QED BY <3>1, <3>2, ContentIsFunction
    <2> HIDE DEF params, body, responses
    <2> DEFINE o == c[op]
    <2>8. o.path = path /\ o.params = params /\ o.body = body /\ o.responses = responses
          /\ o = [path |-> o.path, auth |-> o.auth, servers |-> o.servers, params |-> o.params, body |-> o.body,
                  responses |-> o.responses]
      BY <2>3
    <2>9. RootsOf(o) \subseteq Schemas /\ BodyIsSome(o.body)
      BY <2>4
    <2> HIDE DEF o
    <2>10. ParamsForm(o.params, Schemas)
      BY <2>5, <2>8, <2>9 DEF ParamsForm, RootsOf
    <2>11. BodyForm(o.body, Schemas)
      BY <2>6, <2>8, <2>9 DEF BodyForm, RootsOf, RangeOf
    <2>12. ResponsesForm(o.responses, Schemas)
      <3>1. ASSUME NEW s \in DOMAIN o.responses PROVE o.responses[s] \in [DOMAIN o.responses[s] -> Schemas]
        <4>1. RangeOf(o.responses[s]) \subseteq Schemas
          BY <2>9 DEF RootsOf
        <4>2. o.responses[s] = [t \in DOMAIN o.responses[s] |-> o.responses[s][t]]
          BY <2>7, <2>8
        <4> QED BY <4>1, <4>2 DEF RangeOf
      <3> QED BY <2>7, <2>8, <3>1 DEF ResponsesForm
    <2>13. OperationForm(o, Schemas)
      BY <2>8, <2>10, <2>11, <2>12 DEF OperationForm
    <2>14. op = [method |-> op.method, shape |-> op.shape] /\ path.shape = op.shape
      BY <2>2
    <2> QED BY <2>8, <2>13, <2>14 DEF o
  <1>4. DOMAIN c = all /\ c = [op \in DOMAIN c |-> c[op]]
    BY <1>1
  <1> HIDE DEF c, all
  <1>5. ContractForm(c, Schemas) /\ KeysForm(c)
    BY <1>3, <1>4 DEF ContractForm, KeysForm
  <1> QED BY <1>5 DEF c

LEMMA ScopedForm ==
  ASSUME NEW c, ContractForm(c, Schemas), KeysForm(c), NEW selectors, selectors \in Seq(ToSet(selectors)),
         ScopeContract(c, selectors) # None
  PROVE  LET scoped == ScopeContract(c, selectors) IN
         /\ ContractForm(scoped, Schemas) /\ KeysForm(scoped)
         /\ ScopeOf(selectors) # {} => ScopeOf(selectors) = DOMAIN scoped
         /\ scoped = ScopeCurrent(c, ScopeOf(selectors))
  <1> DEFINE scope == ScopeOf(selectors)
  <1>1. CASE selectors = <<>>
    <2>1. scope = {}
      BY <1>1 DEF ScopeOf, ToSet
    <2>2. ScopeContract(c, selectors) = c
      BY <1>1 DEF ScopeContract
    <2> QED BY <2>1, <2>2 DEF ScopeCurrent
  <1>2. CASE selectors # <<>>
    <2>1. scope # {}
      <3>1. 1 \in DOMAIN selectors
        BY <1>2
      <3> QED BY <3>1 DEF ScopeOf, ToSet
    <2>2. scope \subseteq DOMAIN c /\ ScopeContract(c, selectors) = [op \in scope |-> c[op]]
      BY <1>2 DEF ScopeContract
    <2>3. DOMAIN c \cap scope = scope
      BY <2>2
    <2> HIDE DEF scope
    <2>4. ScopeCurrent(c, scope) = [op \in scope |-> c[op]]
      BY <2>1, <2>3 DEF ScopeCurrent
    <2>5. ContractForm([op \in scope |-> c[op]], Schemas) /\ KeysForm([op \in scope |-> c[op]])
      BY <2>2 DEF ContractForm, KeysForm
    <2> QED BY <2>1, <2>2, <2>4, <2>5 DEF scope
  <1> QED BY <1>1, <1>2


-----------------------------------------------------------------------------
(* Editing an entry by hand leaves it an entry, of hashes there are.       *)

(* Every hash of operations made the same one.                             *)
LEMMA OperationsRenamed ==
  ASSUME NEW operations, ContractForm(operations, Ids), NEW id \in Ids
  PROVE  ContractForm(Mentioning(operations, id), Ids)
  <1> DEFINE f == [x \in Ids |-> id]
             renamed == Mentioning(operations, id)
  <1>1. ASSUME NEW op \in DOMAIN operations
        PROVE  MapSchemas(operations[op], LAMBDA old : id) = Renamed(operations[op], f)
    <2> DEFINE o == operations[op]
    <2>1. OperationForm(o, Ids)
      BY DEF ContractForm
    <2> HIDE DEF o, f
    <2>2. \A x \in Ids : f[x] = id
      BY DEF f
    <2>3. [k \in DOMAIN o.params |-> [name |-> o.params[k].name, required |-> o.params[k].required, schema |-> id]]
            = RenamedParams(o.params, f)
      BY <2>1, <2>2 DEF OperationForm, ParamsForm, RenamedParams
    <2>4. \A content : content \in [DOMAIN content -> Ids]
            => [t \in DOMAIN content |-> id] = RenamedContent(content, f)
      BY <2>2 DEF RenamedContent
    <2>5. (IF o.body = None THEN None
           ELSE [required |-> o.body.required, content |-> [t \in DOMAIN o.body.content |-> id]])
            = RenamedBody(o.body, f)
      <3> HIDE DEF RenamedContent
      <3> QED BY <2>1, <2>4 DEF OperationForm, BodyForm, RenamedBody
    <2>6. [s \in DOMAIN o.responses |-> [t \in DOMAIN o.responses[s] |-> id]] = RenamedResponses(o.responses, f)
      BY <2>1, <2>4 DEF OperationForm, ResponsesForm, RenamedResponses
    <2>7. MapSchemas(o, LAMBDA old : id)
            = [path |-> o.path, auth |-> o.auth, servers |-> o.servers,
               params |-> [k \in DOMAIN o.params |->
                             [name |-> o.params[k].name, required |-> o.params[k].required, schema |-> id]],
               body |-> IF o.body = None THEN None
                        ELSE [required |-> o.body.required, content |-> [t \in DOMAIN o.body.content |-> id]],
               responses |-> [s \in DOMAIN o.responses |-> [t \in DOMAIN o.responses[s] |-> id]]]
      BY DEF MapSchemas, MapContent
    <2>8. MapSchemas(o, LAMBDA old : id) = Renamed(o, f)
      BY <2>3, <2>5, <2>6, <2>7, RenamedIs
    <2> QED BY <2>8 DEF o
  <1>2. renamed = RenamedAll(operations, f)
    <2> HIDE DEF f
    <2> QED BY <1>1 DEF RenamedAll, Mentioning
  <1>3. \A x \in Ids : f[x] \in Ids
    OBVIOUS
  <1>4. Ids \in SUBSET Known
    BY DEF Ids, Known, Hashes
  <1> HIDE DEF f, renamed
  <1>5. ContractForm(renamed, Ids)
    BY <1>2, <1>3, <1>4, RenamedContract
  <1> QED BY <1>5 DEF renamed

LEMMA EditsForm ==
  ASSUME NEW c, ContractForm(c, Schemas), NEW scope, NEW entry \in Edits(BuildV4(c, scope))
  PROVE  EntryForm(entry) /\ EntryForm(Resigned(entry))
  <1> DEFINE e == BuildV4(c, scope)
             form(operations, schemas, other) ==
               [version |-> 4, scope |-> other, operations |-> operations, schemas |-> schemas, digest |-> e.digest]
  <1>1. EntryForm(e) /\ Closed(e.schemas)
    BY BuiltEntry, BuiltIsValid, TableIsClosed DEF EntryForm
  <1>2. entry \in Edits(e)
    OBVIOUS
  <1> HIDE DEF e
  <1>3. /\ e = [version |-> 4, scope |-> e.scope, operations |-> e.operations, schemas |-> e.schemas,
                digest |-> e.digest]
        /\ ContractForm(e.operations, Ids)
        /\ e.schemas = [id \in DOMAIN e.schemas |-> e.schemas[id]]
        /\ DOMAIN e.schemas \subseteq Ids
    BY <1>1 DEF EntryForm
  <1> DEFINE IsSchemas(s) == s = [id \in DOMAIN s |-> s[id]] /\ DOMAIN s \subseteq Ids
  <1>4. \E operations, schemas, other :
           /\ ContractForm(operations, Ids) /\ IsSchemas(schemas)
           /\ entry = form(operations, schemas, other)
    <2>1. CASE \E id \in DOMAIN e.schemas, node \in RangeOf(e.schemas) :
                  entry = [e EXCEPT !.schemas[id] = node]
      <3>1. PICK id \in DOMAIN e.schemas, node \in RangeOf(e.schemas) : entry = [e EXCEPT !.schemas[id] = node]
        BY <2>1
      <3> DEFINE schemas == [e.schemas EXCEPT ![id] = node]
      <3>2. IsSchemas(schemas)
        BY <1>3
      <3>3. entry = form(e.operations, schemas, e.scope)
        BY <1>3, <3>1
      <3> QED BY <1>3, <3>2, <3>3
    <2>2. CASE \E id \in DOMAIN e.schemas :
                  entry = [e EXCEPT !.schemas = [other \in DOMAIN @ \ {id} |-> @[other]]]
      <3>1. PICK id \in DOMAIN e.schemas : entry = [e EXCEPT !.schemas = [other \in DOMAIN @ \ {id} |-> @[other]]]
        BY <2>2
      <3> DEFINE schemas == [other \in DOMAIN e.schemas \ {id} |-> e.schemas[other]]
      <3>2. IsSchemas(schemas)
        BY <1>3
      <3>3. entry = form(e.operations, schemas, e.scope)
        BY <1>3, <3>1
      <3> QED BY <1>3, <3>2, <3>3
    <2>3. CASE \E node \in {Flipped(n) : n \in RangeOf(e.schemas)} :
                  entry = [e EXCEPT !.schemas = Merged(@, [id \in {HashOf(node)} |-> node])]
      <3>1. PICK node \in {Flipped(n) : n \in RangeOf(e.schemas)} :
                  entry = [e EXCEPT !.schemas = Merged(@, [id \in {HashOf(node)} |-> node])]
        BY <2>3
      <3>2. PICK id \in DOMAIN e.schemas : node = Flipped(e.schemas[id])
        BY DEF RangeOf
      <3>3. PICK s \in Schemas : id = IdOf(s)
        BY <1>3 DEF Ids
      <3>4. HashOf(node) \in Ids
        BY <1>1, <3>2, <3>3, EditsAssumption DEF EditsAssumption, Closed, Ids
      <3> DEFINE schemas == Merged(e.schemas, [x \in {HashOf(node)} |-> node])
      <3>5. IsSchemas(schemas)
        BY <1>3, <3>4 DEF Merged
      <3>6. entry = form(e.operations, schemas, e.scope)
        BY <1>3, <3>1
      <3> QED BY <1>3, <3>5, <3>6
    <2>4. CASE \E id \in DOMAIN e.schemas : entry = [e EXCEPT !.operations = Mentioning(@, id)]
      <3>1. PICK id \in DOMAIN e.schemas : entry = [e EXCEPT !.operations = Mentioning(@, id)]
        BY <2>4
      <3> DEFINE operations == Mentioning(e.operations, id)
      <3>2. ContractForm(operations, Ids)
        BY <1>3, OperationsRenamed
      <3>3. entry = form(operations, e.schemas, e.scope)
        BY <1>3, <3>1
      <3> QED BY <1>3, <3>2, <3>3
    <2>5. CASE entry = [e EXCEPT !.scope = DOMAIN e.operations]
      <3>1. entry = form(e.operations, e.schemas, DOMAIN e.operations)
        BY <1>3, <2>5
      <3> QED BY <1>3, <3>1
    <2> DEFINE Replaced == {[e EXCEPT !.schemas[id] = node] : id \in DOMAIN e.schemas, node \in RangeOf(e.schemas)}
               Removed == {[e EXCEPT !.schemas = [other \in DOMAIN @ \ {id} |-> @[other]]] : id \in DOMAIN e.schemas}
               Added == {[e EXCEPT !.schemas = Merged(@, [id \in {HashOf(node)} |-> node])] :
                           node \in {Flipped(n) : n \in RangeOf(e.schemas)}}
               Mentioned == {[e EXCEPT !.operations = Mentioning(@, id)] : id \in DOMAIN e.schemas}
               Scoped == [e EXCEPT !.scope = DOMAIN e.operations]
    <2>6. entry \in Replaced \/ entry \in Removed \/ entry \in Added \/ entry \in Mentioned \/ entry = Scoped
      <3>1. Edits(e) = Replaced \cup Removed \cup Added \cup Mentioned \cup {Scoped}
        BY DEF Edits
      <3> HIDE DEF Replaced, Removed, Added, Mentioned, Scoped
      <3> QED BY <1>2, <3>1
    <2>7. CASE entry \in Replaced
      BY <2>1, <2>7
    <2>8. CASE entry \in Removed
      BY <2>2, <2>8
    <2>9. CASE entry \in Added
      BY <2>3, <2>9
    <2>10. CASE entry \in Mentioned
      BY <2>4, <2>10
    <2>11. CASE entry = Scoped
      BY <2>5, <2>11
    <2> HIDE DEF Replaced, Removed, Added, Mentioned, Scoped, IsSchemas, form
    <2> QED BY <2>6, <2>7, <2>8, <2>9, <2>10, <2>11
  <1>5. PICK operations, schemas, other :
           /\ ContractForm(operations, Ids) /\ IsSchemas(schemas)
           /\ entry = form(operations, schemas, other)
    BY <1>4
  <1>6. EntryForm(entry)
    BY <1>5 DEF EntryForm
  <1>7. Resigned(entry) = [version |-> 4, scope |-> other, operations |-> operations, schemas |-> schemas,
                           digest |-> Digest(other, operations, schemas)]
    BY <1>5 DEF Resigned
  <1>8. EntryForm(Resigned(entry))
    BY <1>5, <1>7 DEF EntryForm
  <1> QED BY <1>6, <1>8


-----------------------------------------------------------------------------
(* The specification.  An entry nobody edited is what lock wrote of the    *)
(* locked document; any entry of version 4 is one of hashes there are; and *)
(* a verdict is that of the lock, the document and the files as they are.  *)

WrittenLock(entry, d) ==
  \E selectors \in case.selections, version \in {2, 3, 4} :
     LET scoped == ScopeContract(Build(d), selectors) IN
     /\ scoped # None
     /\ entry = Entry(scoped, selectors, version)
     /\ version = 2 => selectors = <<>>
     /\ version = 4 => ValidSemantics(entry)

LockOK ==
  /\ lockedDoc \in case.docs /\ Build(lockedDoc) # None
  /\ edited \in BOOLEAN
  /\ ~edited => WrittenLock(lock, lockedDoc)
  /\ lock.version = 4 => EntryForm(lock)
  /\ edited => lock.version = 4

Outcome == IF ~Loads(lock) \/ Build(doc) = None THEN Refused
           ELSE Judged(Report(lock, Build(doc)), EffectiveRules(files))

VerifyInv ==
  /\ case \in Cases /\ doc \in case.docs
  /\ lock # None => LockOK
  /\ verdict # None => lock # None /\ verdict = Outcome

(* What a written lock is, by its version.                                 *)
LEMMA WrittenLocks ==
  ASSUME NEW c \in Cases, NEW d \in c.docs, Build(d) # None, NEW selectors \in c.selections,
         ScopeContract(Build(d), selectors) # None, NEW version \in {2, 3, 4}
  PROVE  LET scoped == ScopeContract(Build(d), selectors)
             scope  == ScopeOf(selectors)
             entry  == Entry(scoped, selectors, version) IN
         /\ ContractForm(scoped, Schemas) /\ scoped = ScopeCurrent(Build(d), scope)
         /\ scope # {} => scope = DOMAIN scoped
         /\ entry.version = version
         /\ version = 4 => entry = BuildV4(scoped, scope)
         /\ version = 3 => ValidV3(entry)
  <1> DEFINE scoped == ScopeContract(Build(d), selectors)
             scope  == ScopeOf(selectors)
             entry  == Entry(scoped, selectors, version)
  <1>1. DocsAssumption(c.docs) /\ selectors \in Seq(ToSet(selectors))
    BY CasesAssumption DEF CasesAssumption, IsSequence
  <1>2. ContractForm(Build(d), Schemas) /\ KeysForm(Build(d))
    BY <1>1, BuildForm
  <1>3. /\ ContractForm(scoped, Schemas) /\ KeysForm(scoped)
        /\ scope # {} => scope = DOMAIN scoped
        /\ scoped = ScopeCurrent(Build(d), scope)
    BY <1>1, <1>2, ScopedForm
  <1> HIDE DEF scoped
  <1>4. CASE version = 4
    <2>1. entry = BuildV4(scoped, scope)
      BY <1>4 DEF Entry
    <2>2. BuildV4(scoped, scope).version = 4
      BY <1>3, BuiltEntry
    <2> QED BY <1>3, <1>4, <2>1, <2>2 DEF scoped
  <1>5. CASE version = 3
    <2>1. entry = BuildV3(scoped, scope)
      BY <1>5 DEF Entry
    <2> HIDE DEF entry, scope
    <2>2. entry.version = 3 /\ ValidV3(entry)
      BY <1>3, <2>1, BuiltV3IsValid
    <2> QED BY <1>3, <1>5, <2>2 DEF scoped, scope, entry
  <1>6. CASE version = 2
    <2>1. entry.version = 2
      BY <1>6 DEF Entry
    <2> QED BY <1>3, <1>6, <2>1 DEF scoped
  <1> QED BY <1>4, <1>5, <1>6

(* Whatever is published, locked, configured and edited, an entry nobody   *)
(* edited is what lock wrote of the locked document, and a verdict is of   *)
(* what is there (src/main.rs:149, 503).                                   *)
THEOREM InvHolds == Spec => []VerifyInv
  <1>1. Init => VerifyInv
    BY DEF Init, VerifyInv
  <1>2. VerifyInv /\ [Next]_vars => VerifyInv'
    <2> SUFFICES ASSUME VerifyInv, [Next]_vars PROVE VerifyInv'
      OBVIOUS
    <2> USE DEF VerifyInv
    <2>1. CASE \E d \in case.docs : Publish(d)
      BY <2>1 DEF Publish, LockOK, WrittenLock
    <2>2. CASE \E f \in case.configs : Configure(f)
      BY <2>2 DEF Configure, LockOK, WrittenLock
    <2>3. CASE \E selectors \in case.selections, version \in case.versions : lock = None /\ Lock(selectors, version)
      <3>1. PICK selectors \in case.selections, version \in case.versions : Lock(selectors, version)
        BY <2>3
      <3>2. /\ Build(doc) # None /\ ScopeContract(Build(doc), selectors) # None
            /\ lock' = Entry(ScopeContract(Build(doc), selectors), selectors, version)
            /\ version = 2 => selectors = <<>>
            /\ version = 4 => ValidSemantics(BuildV4(ScopeContract(Build(doc), selectors), ScopeOf(selectors)))
            /\ lockedDoc' = doc /\ edited' = FALSE /\ verdict' = None /\ case' = case /\ doc' = doc
        BY <3>1 DEF Lock
      <3>3. version \in {2, 3, 4} /\ doc \in case.docs
        BY CasesAssumption DEF CasesAssumption
      <3> DEFINE scoped == ScopeContract(Build(doc), selectors)
                 entry == Entry(scoped, selectors, version)
      <3>4. /\ ContractForm(scoped, Schemas) /\ entry.version = version
            /\ version = 4 => entry = BuildV4(scoped, ScopeOf(selectors))
        BY <3>2, <3>3, WrittenLocks
      <3>5. entry.version = 4 => EntryForm(entry)
        BY <3>4, BuiltEntry
      <3>6. WrittenLock(entry, doc)
        BY <3>2, <3>3, <3>4 DEF WrittenLock
      <3> HIDE DEF scoped, entry
      <3>7. lock' = entry
        BY <3>2 DEF scoped, entry
      <3>8. WrittenLock(lock, doc)'
        BY <3>2, <3>6, <3>7 DEF WrittenLock
      <3>9. WrittenLock(lock, lockedDoc)'
        BY <3>2, <3>8 DEF WrittenLock
      <3>10. LockOK'
        BY <3>2, <3>3, <3>5, <3>7, <3>9 DEF LockOK
      <3> QED BY <3>2, <3>3, <3>10
    <2>4. CASE /\ case.edits /\ lock # None /\ ~edited /\ lock.version = 4
               /\ \E entry \in Edits(lock) : Edit(entry) \/ Edit(Resigned(entry))
      <3>1. PICK entry \in Edits(lock) : Edit(entry) \/ Edit(Resigned(entry))
        BY <2>4
      <3>2. LockOK /\ WrittenLock(lock, lockedDoc)
        BY <2>4 DEF LockOK
      <3>3. PICK selectors \in case.selections, version \in {2, 3, 4} :
               /\ ScopeContract(Build(lockedDoc), selectors) # None
               /\ lock = Entry(ScopeContract(Build(lockedDoc), selectors), selectors, version)
        BY <3>2 DEF WrittenLock
      <3> DEFINE scoped == ScopeContract(Build(lockedDoc), selectors)
      <3>4. /\ ContractForm(scoped, Schemas) /\ lock.version = version
            /\ version = 4 => lock = BuildV4(scoped, ScopeOf(selectors))
        BY <3>2, <3>3, WrittenLocks DEF LockOK
      <3> HIDE DEF scoped
      <3>5. lock = BuildV4(scoped, ScopeOf(selectors))
        BY <2>4, <3>4
      <3>6. EntryForm(entry) /\ EntryForm(Resigned(entry))
        BY <3>1, <3>4, <3>5, EditsForm
      <3>7. /\ EntryForm(lock') /\ edited' = TRUE /\ verdict' = None
            /\ case' = case /\ doc' = doc /\ lockedDoc' = lockedDoc
        BY <3>1, <3>6 DEF Edit
      <3>8. lock'.version = 4
        BY <3>7 DEF EntryForm
      <3>9. LockOK'
        BY <3>2, <3>7, <3>8 DEF LockOK
      <3> QED BY <3>7, <3>9
    <2>5. CASE Verify
      BY <2>5 DEF Verify, LockOK, WrittenLock, Outcome
    <2>6. CASE UNCHANGED vars
      BY <2>6 DEF vars, LockOK, WrittenLock, Outcome
    <2> QED BY <2>1, <2>2, <2>3, <2>4, <2>5, <2>6 DEF Next
  <1> QED BY <1>1, <1>2, PTL DEF Spec


(* Whatever the documents and however deep their schemas, verify reports   *)
(* of a lock of version 4 what a comparison of the two documents reports   *)
(* (intern_contract and expand_contract, src/lockfile/v4/schema.rs:17,     *)
(* 266).                                                                   *)
THEOREM LocksLoseNothing == Spec => []LockLosesNothing
  <1>1. VerifyInv => LockLosesNothing
    <2> SUFFICES ASSUME VerifyInv, FullyVerified
                 PROVE  verdict.report = DiffContracts(ScopeCurrent(Build(lockedDoc), lock.scope),
                                                       ScopeCurrent(Build(doc), lock.scope))
      BY DEF LockLosesNothing
    <2>1. /\ LockOK /\ verdict = Outcome /\ verdict.loaded /\ WrittenLock(lock, lockedDoc) /\ lock.version = 4
          /\ case \in Cases
      BY DEF VerifyInv, FullyVerified, Verified, LockOK
    <2>2. PICK selectors \in case.selections, version \in {2, 3, 4} :
             /\ ScopeContract(Build(lockedDoc), selectors) # None
             /\ lock = Entry(ScopeContract(Build(lockedDoc), selectors), selectors, version)
      BY <2>1 DEF WrittenLock
    <2> DEFINE scoped == ScopeContract(Build(lockedDoc), selectors)
               scope == ScopeOf(selectors)
    <2>3. /\ ContractForm(scoped, Schemas) /\ scoped = ScopeCurrent(Build(lockedDoc), scope)
          /\ lock.version = version
          /\ version = 4 => lock = BuildV4(scoped, scope)
      BY <2>1, <2>2, WrittenLocks DEF LockOK
    <2> HIDE DEF scoped, scope
    <2>4. lock = BuildV4(scoped, scope)
      BY <2>1, <2>3
    <2>5. ExpandV4(lock) = scoped /\ lock.scope = scope
      BY <2>3, <2>4, RoundTrip, BuiltEntry
    <2>6. verdict.report = Report(lock, Build(doc))
      BY <2>1 DEF Outcome, Refused, Judged
    <2>7. Report(lock, Build(doc)) = DiffContracts(ExpandV4(lock), ScopeCurrent(Build(doc), lock.scope))
      BY <2>1 DEF Report
    <2> QED BY <2>3, <2>5, <2>6, <2>7
  <1> QED BY <1>1, InvHolds, PTL

(* Whatever was edited and signed again, an accepted lock is the one lock  *)
(* writes of what it stands for (validate_declared,                        *)
(* src/lockfile/v4/mod.rs:265).                                            *)
THEOREM AcceptedLocksAreCanonical == Spec => []AcceptedIsCanonical
  <1>1. VerifyInv => AcceptedIsCanonical
    <2> SUFFICES ASSUME VerifyInv, Verified, lock.version = 4
                 PROVE  BuildV4(ExpandV4(lock), lock.scope) = lock
      BY DEF AcceptedIsCanonical
    <2>1. EntryForm(lock) /\ verdict = Outcome /\ verdict.loaded
      BY DEF VerifyInv, Verified, LockOK
    <2>2. Loads(lock)
      BY <2>1 DEF Outcome, Refused
    <2>3. ValidDeclared(lock)
      BY <2>2 DEF Loads
    <2> QED BY <2>1, <2>3, AcceptedIsBuilt
  <1> QED BY <1>1, InvHolds, PTL

(* What lock wrote of any document, in any format and for any selection,   *)
(* passes every check on loading (validate_schema_table,                   *)
(* src/lockfile/v4/schema.rs:421).                                         *)
THEOREM WrittenLocksAreLoaded == Spec => []WrittenLocksLoad
  <1>1. VerifyInv => WrittenLocksLoad
    <2> SUFFICES ASSUME VerifyInv, verdict # None, ~verdict.loaded, ~edited, Build(doc) # None
                 PROVE  FALSE
      BY DEF WrittenLocksLoad
    <2>1. LockOK /\ verdict = Outcome /\ WrittenLock(lock, lockedDoc) /\ case \in Cases
      BY DEF VerifyInv, LockOK
    <2>2. ~Loads(lock)
      BY <2>1 DEF Outcome, Judged
    <2>3. PICK selectors \in case.selections, version \in {2, 3, 4} :
             /\ ScopeContract(Build(lockedDoc), selectors) # None
             /\ lock = Entry(ScopeContract(Build(lockedDoc), selectors), selectors, version)
             /\ version = 4 => ValidSemantics(lock)
      BY <2>1 DEF WrittenLock
    <2> DEFINE scoped == ScopeContract(Build(lockedDoc), selectors)
               scope == ScopeOf(selectors)
    <2>4. /\ ContractForm(scoped, Schemas) /\ lock.version = version
          /\ version = 4 => lock = BuildV4(scoped, scope)
          /\ version = 3 => ValidV3(lock)
      BY <2>1, <2>3, WrittenLocks DEF LockOK
    <2> HIDE DEF scoped, scope
    <2>5. CASE version = 4
      <3>1. lock = BuildV4(scoped, scope) /\ ValidSemantics(lock)
        BY <2>3, <2>4, <2>5
      <3>2. ValidTable(lock) /\ lock.digest = Digest(lock.scope, lock.operations, lock.schemas)
        BY <2>4, <3>1, BuiltIsValid, BuiltEntry
      <3> QED BY <2>2, <2>4, <2>5, <3>1, <3>2 DEF Loads, ValidDeclared
    <2>6. CASE version = 3
      BY <2>2, <2>4, <2>6 DEF Loads
    <2>7. CASE version = 2
      BY <2>2, <2>4, <2>7 DEF Loads
    <2> QED BY <2>5, <2>6, <2>7
  <1> QED BY <1>1, InvHolds, PTL

-----------------------------------------------------------------------------
(* Requirements and their places.                                          *)

LEMMA PlacesAre ==
  ASSUME NEW a, Alternating(a)
  PROVE  /\ \A p \in Places(a) : /\ p = <<p[1], p[2]>> /\ p[1] \in DOMAIN a /\ p[2] \in DOMAIN a[p[1]]
                                 /\ p[1] \in Nat \ {0} /\ p[2] \in Nat \ {0}
                                 /\ p[1] <= Len(a) /\ Len(a) \in Nat
                                 /\ p[2] <= Len(a[p[1]]) /\ Len(a[p[1]]) \in Nat
         /\ \A i \in DOMAIN a : \A j \in DOMAIN a[i] : <<i, j>> \in Places(a)
  <1>1. DOMAIN a = 1..Len(a) /\ Len(a) \in Nat
    BY DEF Alternating, IsSequence
  <1>2. ASSUME NEW i \in DOMAIN a PROVE DOMAIN a[i] = 1..Len(a[i]) /\ Len(a[i]) \in Nat
    <2>1. a[i] \in ToSet(a)
      BY DEF ToSet
    <2> QED BY <2>1 DEF Alternating, IsSequence
  <1>3. ASSUME NEW p \in Places(a)
        PROVE  p = <<p[1], p[2]>> /\ p[1] \in DOMAIN a /\ p[2] \in DOMAIN a[p[1]]
    BY DEF Places
  <1>4. \A i \in DOMAIN a : \A j \in DOMAIN a[i] : <<i, j>> \in Places(a)
    BY DEF Places
  <1> QED BY <1>1, <1>2, <1>3, <1>4

LEMMA EarlierOrLater ==
  ASSUME NEW a, Alternating(a), NEW p \in Places(a), NEW q \in Places(a), p # q
  PROVE  Earlier(p, q) \/ Earlier(q, p)
  <1>1. p = <<p[1], p[2]>> /\ q = <<q[1], q[2]>>
    BY PlacesAre
  <1>2. p[1] # q[1] \/ p[2] # q[2]
    BY <1>1
  <1>3. p[1] \in Nat /\ p[2] \in Nat /\ q[1] \in Nat /\ q[2] \in Nat
    BY PlacesAre
  <1> QED BY <1>2, <1>3 DEF Earlier

(* Of some places, one is the last.                                        *)
LEMMA LastPlace ==
  ASSUME NEW a, Alternating(a), NEW S \in SUBSET Places(a), S # {}
  PROVE  \E p \in S : \A q \in S : ~Earlier(p, q)
  <1> DEFINE rows == {p[1] : p \in S}
  <1>1. rows \in SUBSET (1..Len(a)) /\ rows # {} /\ Len(a) \in Nat
    BY PlacesAre
  <1>2. PICK i \in rows : \A j \in rows : j <= i
    BY <1>1, LargestNumber
  <1> DEFINE columns == {p[2] : p \in {q \in S : q[1] = i}}
  <1>3. columns \in SUBSET (1..Len(a[i])) /\ columns # {} /\ Len(a[i]) \in Nat
    BY PlacesAre
  <1>4. PICK k \in columns : \A j \in columns : j <= k
    BY <1>3, LargestNumber
  <1>5. PICK p \in S : p[1] = i /\ p[2] = k
    BY <1>4
  <1>6. ASSUME NEW q \in S PROVE ~Earlier(p, q)
    <2>1. q[1] <= i /\ (q[1] = i => q[2] <= k)
      BY <1>2, <1>4
    <2>2. q[1] \in Nat /\ q[2] \in Nat /\ i \in Nat /\ k \in Nat
      BY <1>5, PlacesAre
    <2> QED BY <1>5, <2>1, <2>2 DEF Earlier
  <1> QED BY <1>6

(* What goes into the map of requirements.                                 *)
LEMMA LastOfIs ==
  ASSUME NEW d, NEW a, Alternating(a), NEW name \in {Asked(a, p).name : p \in Kept(d, a)}
  PROVE  LET p == LastOf(d, a, name) IN
         /\ p \in Kept(d, a) /\ Asked(a, p).name = name
         /\ \A q \in Kept(d, a) : Asked(a, q).name = name => ~Earlier(p, q)
  <1> DEFINE named == {p \in Kept(d, a) : Asked(a, p).name = name}
  <1>1. named # {}
    OBVIOUS
  <1>2. named \in SUBSET Places(a)
    BY DEF Kept
  <1>3. \E p \in named : \A q \in named : ~Earlier(p, q)
    <2> HIDE DEF named
    <2> QED BY <1>1, <1>2, LastPlace
  <1>4. LastOf(d, a, name) = CHOOSE p \in named : \A q \in named : ~Earlier(p, q)
    BY DEF LastOf
  <1>5. LastOf(d, a, name) \in named /\ \A q \in named : ~Earlier(LastOf(d, a, name), q)
    <2> HIDE DEF named
    <2> QED BY <1>3, <1>4
  <1> QED BY <1>5

LEMMA AuthIs ==
  ASSUME NEW d, NEW a, Alternating(a), NEW name \in DOMAIN NormalizeAuth(d, a)
  PROVE  /\ <<>> \notin ToSet(a)
         /\ name \in {Asked(a, p).name : p \in Kept(d, a)}
         /\ NormalizeAuth(d, a)[name] = Requirement(d, Asked(a, LastOf(d, a, name)))
  BY DEF NormalizeAuth

LEMMA KeptAreApart ==
  ASSUME NEW d, NEW a, Alternating(a), NEW p \in Kept(d, a), NEW q \in Kept(d, a),
         IsKnown(IdentityOf(d, Asked(a, p).name)),
         IdentityOf(d, Asked(a, p).name) = IdentityOf(d, Asked(a, q).name)
  PROVE  p = q
  <1>1. p \in Places(a) /\ q \in Places(a)
    BY DEF Kept
  <1>2. ~Earlier(q, p) /\ ~Earlier(p, q)
    BY <1>1 DEF Kept
  <1> QED BY <1>1, <1>2, EarlierOrLater

(* Of a known identity a contract has one requirement                      *)
(* (src/openapi/mod.rs:935).                                               *)
LEMMA AuthDistinct ==
  ASSUME NEW d, NEW a, Alternating(a)
  PROVE  IdentitiesDistinct(NormalizeAuth(d, a))
  <1> DEFINE auth == NormalizeAuth(d, a)
  <1>1. ASSUME NEW n \in DOMAIN auth
        PROVE  LET p == LastOf(d, a, n) IN
               /\ p \in Kept(d, a) /\ Asked(a, p).name = n
               /\ auth[n].identity = IdentityOf(d, n)
    BY AuthIs, LastOfIs DEF Requirement
  <1> HIDE DEF auth
  <1>2. ASSUME NEW n \in DOMAIN auth, NEW m \in DOMAIN auth, IsKnown(auth[n].identity),
               auth[n].identity = auth[m].identity
        PROVE  n = m
    <2> DEFINE p == LastOf(d, a, n)
               q == LastOf(d, a, m)
    <2>1. p \in Kept(d, a) /\ Asked(a, p).name = n /\ auth[n].identity = IdentityOf(d, n)
      BY <1>1
    <2>2. q \in Kept(d, a) /\ Asked(a, q).name = m /\ auth[m].identity = IdentityOf(d, m)
      BY <1>1
    <2>3. p = q
      BY <1>2, <2>1, <2>2, KeptAreApart
    <2> QED BY <2>1, <2>2, <2>3
  <1> QED BY <1>2 DEF IdentitiesDistinct, auth

(* Nothing hidden: what the first alternative asks for is in the map.      *)
LEMMA FirstIsAsked ==
  ASSUME NEW d, SchemesKnown(d), NEW a, Alternating(a), ~Hidden(d, a), <<>> \notin ToSet(a),
         NEW p \in Places(a), p[1] = 1
  PROVE  LET r == Asked(a, p) IN
         /\ r.name \in DOMAIN NormalizeAuth(d, a)
         /\ NormalizeAuth(d, a)[r.name] = Requirement(d, r)
  <1> DEFINE r == Asked(a, p)
             Who(q) == IdentityOf(d, Asked(a, q).name)
  <1>1. ASSUME NEW q \in Places(a), q # p, Credential(d, Asked(a, q).name) = Credential(d, r.name)
        PROVE  p[1] # q[1] /\ r.name \in DOMAIN d.schemes
    BY <1>1 DEF Hidden
  <1>2. ASSUME NEW q \in Places(a), IsKnown(Who(p)), Who(q) = Who(p)
        PROVE  Credential(d, Asked(a, q).name) = Credential(d, r.name)
    BY <1>2 DEF Credential, IdentityOf, IsKnown
  <1>3. p \in Kept(d, a)
    <2> SUFFICES ASSUME IsKnown(Who(p)), NEW q \in Places(a), Earlier(q, p), Who(q) = Who(p)
                 PROVE  FALSE
      BY DEF Kept
    <2>1. q[1] \in Nat \ {0} /\ q[2] \in Nat /\ p[2] \in Nat
      BY PlacesAre
    <2>2. q[1] = p[1] /\ q # p
      BY <2>1 DEF Earlier
    <2> QED BY <1>1, <1>2, <2>2
  <1>4. r.name \in {Asked(a, q).name : q \in Kept(d, a)}
    BY <1>3
  <1> DEFINE l == LastOf(d, a, r.name)
  <1>5. l \in Kept(d, a) /\ Asked(a, l).name = r.name
    BY <1>4, LastOfIs
  <1>6. l = p
    <2>1. CASE IsKnown(Who(p))
      BY <1>3, <1>5, <2>1, KeptAreApart
    <2>2. CASE ~IsKnown(Who(p))
      <3>1. r.name \notin DOMAIN d.schemes
        BY <2>2 DEF SchemesKnown
      <3>2. l \in Places(a)
        BY <1>5 DEF Kept
      <3> QED BY <1>1, <1>5, <3>1, <3>2
    <2> QED BY <2>1, <2>2
  <1>7. NormalizeAuth(d, a) = [name \in {Asked(a, q).name : q \in Kept(d, a)} |->
                                 Requirement(d, Asked(a, LastOf(d, a, name)))]
    BY DEF NormalizeAuth
  <1> HIDE DEF l
  <1>8. NormalizeAuth(d, a)[r.name] = Requirement(d, Asked(a, l))
    BY <1>4, <1>7 DEF l
  <1> QED BY <1>4, <1>6, <1>7, <1>8

(* Who met the old alternative meets the first of the new ones, if the     *)
(* comparison found that enough.                                           *)
Met(d, alternative, creds) ==
  \A i \in DOMAIN alternative :
     LET c == Credential(d, alternative[i].name) IN
     c \in DOMAIN creds /\ alternative[i].scopes \subseteq creds[c]

Satisfied(d, asked, creds) == asked = <<>> \/ \E a \in ToSet(asked) : Met(d, a, creds)

LEMMA StillMet ==
  ASSUME NEW d, NEW e, SchemesKnown(d), SchemesKnown(e), NEW old, NEW new, Alternating(old), Alternating(new),
         Len(old) <= 1, ~Hidden(e, new), AuthSuffices(NormalizeAuth(d, old), NormalizeAuth(e, new)),
         NEW creds, Satisfied(d, old, creds)
  PROVE  Satisfied(e, new, creds)
  <1>1. CASE new = <<>>
    BY <1>1 DEF Satisfied
  <1>2. CASE <<>> \in ToSet(new)
    <2>1. Met(e, <<>>, creds)
      BY DEF Met
    <2> QED BY <1>2, <2>1 DEF Satisfied
  <1>3. CASE new # <<>> /\ <<>> \notin ToSet(new)
    <2>1. 1 \in DOMAIN new /\ new[1] \in ToSet(new)
      BY <1>3 DEF Alternating, IsSequence, ToSet
    <2> SUFFICES ASSUME NEW j \in DOMAIN new[1]
                 PROVE  LET c == Credential(e, new[1][j].name) IN
                        c \in DOMAIN creds /\ new[1][j].scopes \subseteq creds[c]
      BY <2>1 DEF Satisfied, Met
    <2> DEFINE p == <<1, j>>
               r == new[1][j]
    <2>2. p \in Places(new) /\ p[1] = 1 /\ Asked(new, p) = r
      BY <2>1, PlacesAre DEF Asked
    <2>3. r.name \in DOMAIN NormalizeAuth(e, new) /\ NormalizeAuth(e, new)[r.name] = Requirement(e, r)
      BY <1>3, <2>2, FirstIsAsked
    <2> HIDE DEF p, r
    <2>4. PICK o \in DOMAIN NormalizeAuth(d, old) :
             /\ SameScheme(o, NormalizeAuth(d, old)[o], r.name, Requirement(e, r))
             /\ Requirement(e, r).scopes \subseteq NormalizeAuth(d, old)[o].scopes
      BY <2>3 DEF AuthSuffices
    <2> DEFINE l == LastOf(d, old, o)
               q == Asked(old, l)
    <2>5. NormalizeAuth(d, old)[o] = Requirement(d, q) /\ l \in Kept(d, old) /\ q.name = o
      BY AuthIs, LastOfIs
    <2>6. l \in Places(old) /\ q = old[l[1]][l[2]]
      BY <2>5 DEF Kept, Asked
    <2> HIDE DEF l, q
    <2>7. l[1] = 1 /\ l[1] \in DOMAIN old /\ l[2] \in DOMAIN old[1]
      BY <2>6, PlacesAre
    <2>8. Met(d, old[1], creds)
      <3>1. PICK a \in ToSet(old) : Met(d, a, creds)
        BY <2>7 DEF Satisfied
      <3>2. DOMAIN old = 1..Len(old) /\ Len(old) \in Nat
        BY DEF Alternating, IsSequence
      <3>3. a = old[1]
        BY <3>2 DEF ToSet
      <3> QED BY <3>1, <3>3
    <2>9. Credential(d, q.name) \in DOMAIN creds /\ q.scopes \subseteq creds[Credential(d, q.name)]
      BY <2>6, <2>7, <2>8 DEF Met
    <2>10. Credential(d, q.name) = Credential(e, r.name)
      <3>1. \/ IsKnown(IdentityOf(d, q.name)) /\ IdentityOf(d, q.name) = IdentityOf(e, r.name)
            \/ /\ q.name = r.name
               /\ None \in {IdentityOf(d, q.name), IdentityOf(e, r.name)} \/ IdentityOf(d, q.name) = IdentityOf(e, r.name)
        BY <2>4, <2>5 DEF SameScheme, Requirement
      <3>2. UnknownIdentity # None
        BY UnknownAssumption DEF UnknownAssumption
      <3> QED BY <3>1, <3>2 DEF Credential, SchemesKnown, IdentityOf, IsKnown
    <2>11. r.scopes \subseteq q.scopes
      BY <2>4, <2>5 DEF Requirement
    <2> QED BY <2>9, <2>10, <2>11 DEF r
  <1> QED BY <1>1, <1>2, <1>3

-----------------------------------------------------------------------------
(* From a report without a breaking change to what clients send and read.  *)

LEMMA BuiltOperation ==
  ASSUME NEW docs, DocsAssumption(docs), NEW d \in docs, Build(d) # None, NEW op \in DOMAIN Build(d)
  PROVE  /\ Build(d)[op].auth = NormalizeAuth(d, Alternatives(d, op))
         /\ OperationTold(Build(d)[op]) /\ OperationForm(Build(d)[op], Schemas)
         /\ Alternating(Alternatives(d, op)) /\ SchemesKnown(d)
  <1> DEFINE By == CHOOSE spelled \in Spelled(d) : Identity(spelled) = op
             item == ResolvePathItem(d, By[1])
  <1>1. op \in {Identity(s) : s \in Spelled(d)}
    BY DEF Build
  <1>2. By \in Spelled(d) /\ Identity(By) = op
    <2>1. \E s \in Spelled(d) : Identity(s) = op
      BY <1>1
    <2> QED BY <2>1
  <1>3. Build(d)[op] = Operation(d, By[1], item, item.operations[By[2]])
    BY <1>1 DEF Build
  <1>4. Alternatives(d, op) = Security(d, ResolvePathItem(d, By[1]).operations[op.method])
    BY DEF Alternatives
  <1> HIDE DEF By
  <1>5. op.method = By[2]
    BY <1>2 DEF Identity
  <1>6. Build(d)[op].auth = NormalizeAuth(d, Alternatives(d, op))
    BY <1>3, <1>4, <1>5 DEF Operation
  <1>7. ContractForm(Build(d), Schemas)
    BY BuildForm
  <1> QED BY <1>6, <1>7 DEF DocsAssumption, ContractForm

(* Without a breaking change and without a gap, schemas are safe.          *)
LEMMA UnbrokenIsSafe ==
  ASSUME NEW use \in Usages, NEW place, NEW old \in Schemas, NEW new \in Schemas,
         Unbroken(use, place, old, new), ~KnownGap(use, old, new)
  PROVE  Safe(use, old, new)
  <1>1. ~HasBreaking(DiffOf(use, old, new))
    <2> SUFFICES ASSUME NEW c \in DiffOf(use, old, new), c.severity = "breaking" PROVE FALSE
      BY DEF HasBreaking
    <2>1. Change(place \o c.at, c.what, c.severity) \in SchemaChanges(use, place, old, new)
      BY DEF SchemaChanges, DiffUnder, Under
    <2> QED BY <2>1, SeverityOf DEF Unbroken, HasBreaking
  <1>2. Quiet(use, old, new)
    BY <1>1, RecursionAssumption DEF RecursionAssumption, Quiet
  <1> QED BY <1>2, NothingBreakingFits, FitsIsSafe

LEMMA SafeAdmitted ==
  ASSUME NEW old \in Schemas, NEW new \in Schemas, Safe("request", old, new), NEW v \in Values,
         Admitted(old, v, FALSE)
  PROVE  Admitted(new, v, TRUE)
  BY AdmittedIs DEF Safe, Writes, Reads

(* Parameters and body of a request.                                       *)
LEMMA RequestTaken ==
  ASSUME NEW o, NEW n, OperationForm(o, Schemas), OperationForm(n, Schemas), OperationTold(o), OperationTold(n),
         OperationKept(o, n), ~RequestGap(o, n), NEW r \in Requests,
         DOMAIN r.params \subseteq DOMAIN o.params,
         \A k \in DOMAIN o.params :
            IF k \in DOMAIN r.params THEN Admitted(o.params[k].schema, r.params[k], FALSE)
            ELSE ~o.params[k].required,
         IF r.body = None THEN o.body = None \/ ~o.body.required
         ELSE /\ o.body # None /\ r.body.type \in DOMAIN o.body.content
              /\ Admitted(o.body.content[r.body.type], r.body.value, FALSE)
  PROVE  /\ DOMAIN r.params \subseteq DOMAIN n.params
         /\ \A k \in DOMAIN n.params :
               IF k \in DOMAIN r.params THEN Admitted(n.params[k].schema, r.params[k], TRUE)
               ELSE ~n.params[k].required
         /\ IF r.body = None THEN n.body = None \/ ~n.body.required
            ELSE /\ n.body # None /\ r.body.type \in DOMAIN n.body.content
                 /\ Admitted(n.body.content[r.body.type], r.body.value, TRUE)
  <1>1. ParametersTaken(o.params, n.params) /\ BodyTaken(o.body, n.body)
    BY DEF OperationKept
  <1>2. DOMAIN r.params \subseteq DOMAIN n.params
    BY <1>1 DEF ParametersTaken
  <1>3. ASSUME NEW k \in DOMAIN n.params, k \in DOMAIN r.params
        PROVE  Admitted(n.params[k].schema, r.params[k], TRUE)
    <2>1. k \in DOMAIN o.params /\ Admitted(o.params[k].schema, r.params[k], FALSE)
      BY <1>3
    <2>2. o.params[k].schema \in Schemas /\ n.params[k].schema \in Schemas
      BY <1>3, <2>1 DEF OperationForm, ParamsForm
    <2>3. Unbroken("request", <<k.in, k.name>>, o.params[k].schema, n.params[k].schema)
      BY <1>1, <2>1 DEF ParametersTaken
    <2>4. ~KnownGap("request", o.params[k].schema, n.params[k].schema)
      BY <1>3, <2>1 DEF RequestGap
    <2>5. Safe("request", o.params[k].schema, n.params[k].schema)
      BY <2>2, <2>3, <2>4, UnbrokenIsSafe DEF Usages
    <2>6. r.params[k] \in Values
      BY <1>3, RequestsAssumption DEF RequestsAssumption
    <2> QED BY <2>1, <2>2, <2>5, <2>6, SafeAdmitted
  <1>4. ASSUME NEW k \in DOMAIN n.params, k \notin DOMAIN r.params
        PROVE  ~n.params[k].required
    <2> SUFFICES ASSUME n.params[k].required PROVE FALSE
      OBVIOUS
    <2>1. n.params[k].required = TRUE
      BY DEF OperationTold
    <2>2. k \in DOMAIN o.params /\ o.params[k].required = TRUE
      BY <1>1, <2>1 DEF ParametersTaken
    <2> QED BY <1>4, <2>2
  <1>5. CASE r.body = None
    <2> SUFFICES ASSUME n.body # None, n.body.required PROVE FALSE
      BY <1>2, <1>3, <1>4, <1>5
    <2>1. n.body.required = TRUE /\ n.body.required # None
      BY DEF OperationTold
    <2>2. o.body # None
      BY <1>1, <2>1 DEF BodyTaken
    <2>3. o.body.required # None
      BY <2>2 DEF OperationTold
    <2>4. o.body.required = TRUE
      BY <1>1, <2>1, <2>2, <2>3 DEF BodyTaken
    <2> QED BY <1>5, <2>2, <2>4
  <1>6. CASE r.body # None
    <2> DEFINE t == r.body.type
    <2>1. o.body # None /\ t \in DOMAIN o.body.content /\ Admitted(o.body.content[t], r.body.value, FALSE)
      BY <1>6
    <2>2. n.body # None /\ ContentFits("request", <<"request">>, o.body.content, n.body.content)
      BY <1>1, <2>1 DEF BodyTaken
    <2>3. t \in DOMAIN n.body.content
          /\ Unbroken("request", Append(<<"request">>, t), o.body.content[t], n.body.content[t])
      BY <2>1, <2>2 DEF ContentFits
    <2>4. o.body.content[t] \in Schemas /\ n.body.content[t] \in Schemas
      BY <2>1, <2>2, <2>3 DEF OperationForm, BodyForm
    <2>5. ~KnownGap("request", o.body.content[t], n.body.content[t])
      BY <2>1, <2>2, <2>3 DEF RequestGap
    <2>6. Safe("request", o.body.content[t], n.body.content[t])
      BY <2>3, <2>4, <2>5, UnbrokenIsSafe DEF Usages
    <2>7. r.body.value \in Values
      BY <1>6, RequestsAssumption DEF RequestsAssumption
    <2>8. Admitted(n.body.content[t], r.body.value, TRUE)
      BY <2>1, <2>4, <2>6, <2>7, SafeAdmitted
    <2> QED BY <1>2, <1>3, <1>4, <1>6, <2>2, <2>3, <2>8
  <1> QED BY <1>5, <1>6

LEMMA ResponsesRead ==
  ASSUME NEW o, NEW n, OperationForm(o, Schemas), OperationForm(n, Schemas), OperationKept(o, n)
  PROVE  ResponsesKnown(o.responses, n.responses)
  <1> DEFINE old == o.responses
             new == n.responses
  <1> SUFFICES ASSUME NEW s \in DOMAIN old \cap DOMAIN new, NEW t \in DOMAIN new[s]
               PROVE  /\ t \in DOMAIN old[s]
                      /\ Safe("response", old[s][t], new[s][t]) \/ KnownGap("response", old[s][t], new[s][t])
    BY DEF ResponsesKnown
  <1>1. ContentFits("response", <<"response", s>>, old[s], new[s])
    BY DEF OperationKept, ResponsesUnderstood
  <1>2. t \in DOMAIN old[s] /\ Unbroken("response", Append(<<"response", s>>, t), old[s][t], new[s][t])
    BY <1>1 DEF ContentFits
  <1>3. old[s] \in [DOMAIN old[s] -> Schemas] /\ new[s] \in [DOMAIN new[s] -> Schemas]
    BY DEF OperationForm, ResponsesForm
  <1>4. old[s][t] \in Schemas /\ new[s][t] \in Schemas
    BY <1>2, <1>3
  <1> QED BY <1>2, <1>4, UnbrokenIsSafe DEF Usages

(* Whatever a client sends by the old document, the new one serves.        *)
LEMMA OldClientServed ==
  ASSUME NEW docs, DocsAssumption(docs), NEW d \in docs, NEW e \in docs, Build(d) # None, Build(e) # None,
         NEW r \in Requests, r.op \in DOMAIN Build(d), r.op \in DOMAIN Build(e),
         OperationKept(Build(d)[r.op], Build(e)[r.op]), Takes(d, r, FALSE),
         Len(Alternatives(d, r.op)) <= 1, ~Hidden(e, Alternatives(e, r.op)),
         ~RequestGap(Build(d)[r.op], Build(e)[r.op])
  PROVE  Takes(e, r, TRUE)
  <1> DEFINE o == Build(d)[r.op]
             n == Build(e)[r.op]
  <1>1. /\ o.auth = NormalizeAuth(d, Alternatives(d, r.op)) /\ OperationTold(o) /\ OperationForm(o, Schemas)
        /\ Alternating(Alternatives(d, r.op)) /\ SchemesKnown(d)
    BY BuiltOperation
  <1>2. /\ n.auth = NormalizeAuth(e, Alternatives(e, r.op)) /\ OperationTold(n) /\ OperationForm(n, Schemas)
        /\ Alternating(Alternatives(e, r.op)) /\ SchemesKnown(e)
    BY BuiltOperation
  <1>3. AuthSuffices(o.auth, n.auth) /\ ServersStay(o.servers, n.servers)
    BY DEF OperationKept
  <1>4. /\ r.server \in o.servers /\ Authorized(d, r)
        /\ DOMAIN r.params \subseteq DOMAIN o.params
        /\ \A k \in DOMAIN o.params :
              IF k \in DOMAIN r.params THEN Admitted(o.params[k].schema, r.params[k], FALSE)
              ELSE ~o.params[k].required
        /\ IF r.body = None THEN o.body = None \/ ~o.body.required
           ELSE /\ o.body # None /\ r.body.type \in DOMAIN o.body.content
                /\ Admitted(o.body.content[r.body.type], r.body.value, FALSE)
    BY DEF Takes
  <1> HIDE DEF o, n
  <1>5. r.server \in n.servers
    BY <1>1, <1>2, <1>3, <1>4 DEF ServersStay, OperationTold
  <1>6. Satisfied(d, Alternatives(d, r.op), r.creds)
    BY <1>4 DEF Authorized, Satisfied, Met
  <1>7. Satisfied(e, Alternatives(e, r.op), r.creds)
    BY <1>1, <1>2, <1>3, <1>6, StillMet
  <1>8. Authorized(e, r)
    BY <1>7 DEF Authorized, Satisfied, Met
  <1>9. OperationKept(o, n) /\ ~RequestGap(o, n)
    BY DEF o, n
  <1>10. /\ DOMAIN r.params \subseteq DOMAIN n.params
         /\ \A k \in DOMAIN n.params :
               IF k \in DOMAIN r.params THEN Admitted(n.params[k].schema, r.params[k], TRUE)
               ELSE ~n.params[k].required
         /\ IF r.body = None THEN n.body = None \/ ~n.body.required
            ELSE /\ n.body # None /\ r.body.type \in DOMAIN n.body.content
                 /\ Admitted(n.body.content[r.body.type], r.body.value, TRUE)
    BY <1>1, <1>2, <1>4, <1>9, RequestTaken
  <1> QED BY <1>5, <1>8, <1>10 DEF Takes, n

(* What a verdict on an untouched lock of version 4 is about.              *)
LEMMA FullVerdict ==
  ASSUME VerifyInv, LockLosesNothing, FullyVerified
  PROVE  /\ DocsAssumption(case.docs) /\ lockedDoc \in case.docs /\ doc \in case.docs
         /\ Build(lockedDoc) # None /\ Build(doc) # None
         /\ LockedOps = DOMAIN ScopeCurrent(Build(lockedDoc), lock.scope)
         /\ verdict.report = DiffContracts(ScopeCurrent(Build(lockedDoc), lock.scope),
                                           ScopeCurrent(Build(doc), lock.scope))
  <1>1. /\ LockOK /\ verdict = Outcome /\ verdict.loaded /\ WrittenLock(lock, lockedDoc) /\ lock.version = 4
        /\ case \in Cases /\ doc \in case.docs
    BY DEF VerifyInv, FullyVerified, Verified, LockOK
  <1>2. DocsAssumption(case.docs) /\ lockedDoc \in case.docs /\ Build(lockedDoc) # None
    BY <1>1, CasesAssumption DEF CasesAssumption, LockOK
  <1>3. Build(doc) # None
    BY <1>1 DEF Outcome, Refused
  <1>4. PICK selectors \in case.selections, version \in {2, 3, 4} :
           /\ ScopeContract(Build(lockedDoc), selectors) # None
           /\ lock = Entry(ScopeContract(Build(lockedDoc), selectors), selectors, version)
    BY <1>1 DEF WrittenLock
  <1> DEFINE scoped == ScopeContract(Build(lockedDoc), selectors)
             scope == ScopeOf(selectors)
  <1>5. /\ ContractForm(scoped, Schemas) /\ scoped = ScopeCurrent(Build(lockedDoc), scope)
        /\ scope # {} => scope = DOMAIN scoped
        /\ lock.version = version
        /\ version = 4 => lock = BuildV4(scoped, scope)
    BY <1>1, <1>2, <1>4, WrittenLocks
  <1> HIDE DEF scoped, scope
  <1>6. lock.scope = scope
    BY <1>1, <1>5, BuiltEntry
  <1>7. LockedOps = DOMAIN scoped
    BY <1>5, <1>6 DEF LockedOps, ScopeCurrent
  <1>8. verdict.report = DiffContracts(ScopeCurrent(Build(lockedDoc), lock.scope),
                                       ScopeCurrent(Build(doc), lock.scope))
    BY DEF LockLosesNothing
  <1> QED BY <1>1, <1>2, <1>3, <1>5, <1>6, <1>7, <1>8

(* Whatever the documents: after a verify without a breaking change the    *)
(* published one serves every request that the locked one allows, and      *)
(* answers it with a status that both list in media types and schemas that *)
(* are known, but for the named gaps (diff_contracts, src/diff/mod.rs:20). *)
THEOREM OldClientsAreServed == Spec => []PassedServesOldClients
  <1>1. VerifyInv /\ LockLosesNothing => PassedServesOldClients
    <2> SUFFICES ASSUME VerifyInv, LockLosesNothing, FullyVerified, ~HasBreaking(verdict.report)
                 PROVE  /\ \A r \in Requests :
                              (r.op \in LockedOps /\ Sends(lockedDoc, r)) =>
                                 \/ Serves(doc, r)
                                 \/ AuthGap(r.op)
                                 \/ RequestGap(Build(lockedDoc)[r.op], Build(doc)[r.op])
                        /\ \A op \in LockedOps :
                              ResponsesKnown(Build(lockedDoc)[op].responses, Build(doc)[op].responses)
      BY DEF PassedServesOldClients
    <2> DEFINE old == ScopeCurrent(Build(lockedDoc), lock.scope)
               new == ScopeCurrent(Build(doc), lock.scope)
    <2>1. /\ DocsAssumption(case.docs) /\ lockedDoc \in case.docs /\ doc \in case.docs
          /\ Build(lockedDoc) # None /\ Build(doc) # None
          /\ LockedOps = DOMAIN old /\ verdict.report = DiffContracts(old, new)
      BY FullVerdict
    <2>2. /\ \A op \in DOMAIN old : op \in DOMAIN Build(lockedDoc) /\ old[op] = Build(lockedDoc)[op]
          /\ \A op \in DOMAIN new : op \in DOMAIN Build(doc) /\ new[op] = Build(doc)[op]
      BY DEF ScopeCurrent
    <2> HIDE DEF old, new
    <2>3. ContractKept(old, new)
      BY <2>1, NothingBreakingKeepsClients
    <2>4. ASSUME NEW op \in LockedOps
          PROVE  /\ op \in DOMAIN Build(lockedDoc) /\ op \in DOMAIN Build(doc)
                 /\ OperationKept(Build(lockedDoc)[op], Build(doc)[op])
      <3>1. op \in DOMAIN old /\ op \in DOMAIN new /\ OperationKept(old[op], new[op])
        BY <2>1, <2>3 DEF ContractKept
      <3> QED BY <2>2, <3>1
    <2>5. ASSUME NEW r \in Requests, r.op \in LockedOps, Sends(lockedDoc, r), ~AuthGap(r.op),
                 ~RequestGap(Build(lockedDoc)[r.op], Build(doc)[r.op])
          PROVE  Serves(doc, r)
      <3>1. Takes(lockedDoc, r, FALSE)
        BY <2>5 DEF Sends
      <3>2. Len(Alternatives(lockedDoc, r.op)) <= 1 /\ ~Hidden(doc, Alternatives(doc, r.op))
        <4>1. Alternating(Alternatives(lockedDoc, r.op))
          BY <2>1, <2>4, <2>5, BuiltOperation
        <4>2. Len(Alternatives(lockedDoc, r.op)) \in Nat
          BY <4>1 DEF Alternating, IsSequence
        <4> QED BY <2>5, <4>2 DEF AuthGap
      <3>3. Takes(doc, r, TRUE)
        BY <2>1, <2>4, <2>5, <3>1, <3>2, OldClientServed
      <3> QED BY <2>4, <2>5, <3>3 DEF Serves
    <2>6. ASSUME NEW op \in LockedOps
          PROVE  ResponsesKnown(Build(lockedDoc)[op].responses, Build(doc)[op].responses)
      BY <2>1, <2>4, BuiltOperation, ResponsesRead
    <2> QED BY <2>5, <2>6
  <1> QED BY <1>1, InvHolds, LocksLoseNothing, PTL

-----------------------------------------------------------------------------
(* Silence, and what counts of an operation.                               *)

EssenceAt(auth, n) ==
  LET named == ~IsKnown(auth[n].identity) IN
  [kind |-> IF named THEN auth[n].kind ELSE "", identity |-> auth[n].identity, scopes |-> auth[n].scopes,
   name |-> IF named THEN n ELSE ""]

LEMMA EssencesAre ==
  ASSUME NEW auth
  PROVE  AuthEssence(auth) = {EssenceAt(auth, n) : n \in DOMAIN auth}
  BY DEF AuthEssence, EssenceAt

LEMMA EqualEssences ==
  ASSUME NEW old, NEW o, NEW new, NEW n, EssenceAt(old, o) = EssenceAt(new, n)
  PROVE  /\ old[o].identity = new[n].identity /\ old[o].scopes = new[n].scopes
         /\ ~IsKnown(new[n].identity) => o = n /\ old[o].kind = new[n].kind
  <1>1. /\ EssenceAt(old, o).identity = old[o].identity /\ EssenceAt(new, n).identity = new[n].identity
        /\ EssenceAt(old, o).scopes = old[o].scopes /\ EssenceAt(new, n).scopes = new[n].scopes
    BY DEF EssenceAt
  <1>2. /\ ~IsKnown(old[o].identity) => EssenceAt(old, o).kind = old[o].kind /\ EssenceAt(old, o).name = o
        /\ ~IsKnown(new[n].identity) => EssenceAt(new, n).kind = new[n].kind /\ EssenceAt(new, n).name = n
    BY DEF EssenceAt
  <1> QED BY <1>1, <1>2

IdentitiesGiven(auth) == \A n \in DOMAIN auth : auth[n].identity # None

LEMMA SchemeEssence ==
  ASSUME NEW old, NEW new, IdentitiesGiven(old), IdentitiesGiven(new), NEW o \in DOMAIN old, NEW n \in DOMAIN new,
         SameScheme(o, old[o], n, new[n]), new[n].scopes = old[o].scopes
  PROVE  EssenceAt(old, o) = EssenceAt(new, n)
  BY DEF SameScheme, EssenceAt, IdentitiesGiven

LEMMA AuthEssenceSame ==
  ASSUME NEW old, NEW new, IdentitiesGiven(old), IdentitiesGiven(new), AuthSame(old, new)
  PROVE  AuthEssence(old) = AuthEssence(new)
  <1>1. \A n \in DOMAIN new : \E o \in DOMAIN old : EssenceAt(old, o) = EssenceAt(new, n)
    BY SchemeEssence DEF AuthSame
  <1>2. \A o \in DOMAIN old : \E n \in DOMAIN new : EssenceAt(old, o) = EssenceAt(new, n)
    BY SchemeEssence DEF AuthSame
  <1>3. /\ AuthEssence(old) = {EssenceAt(old, n) : n \in DOMAIN old}
        /\ AuthEssence(new) = {EssenceAt(new, n) : n \in DOMAIN new}
    BY EssencesAre
  <1> QED BY <1>1, <1>2, <1>3

(* Equal schemas for equal places of parameters and content.               *)
LEMMA SilentKeys ==
  ASSUME NEW use \in Usages, NEW place, NEW old \in Schemas, NEW new \in Schemas, Silent(use, place, old, new)
  PROVE  KeyApart(old) = KeyApart(new)
  <1>1. DiffOf(use, old, new) = {}
    <2> SUFFICES ASSUME NEW c \in DiffOf(use, old, new) PROVE FALSE
      OBVIOUS
    <2>1. Change(place \o c.at, c.what, c.severity) \in SchemaChanges(use, place, old, new)
      BY DEF SchemaChanges, DiffUnder, Under
    <2> QED BY <2>1 DEF Silent
  <1>2. DiffSchema(use, old, new) = {}
    BY <1>1, RecursionAssumption DEF RecursionAssumption
  <1> QED BY <1>2, SilentKeysAreSame

LEMMA KeysSilent ==
  ASSUME NEW use \in Usages, NEW place, NEW old \in Schemas, NEW new \in Schemas, KeyOf(old) = KeyOf(new)
  PROVE  SchemaChanges(use, place, old, new) = {}
  <1>1. DiffSchema(use, old, new) = {}
    BY SameKeysAreSilent
  <1>2. DiffOf(use, old, new) = {}
    BY <1>1, RecursionAssumption DEF RecursionAssumption
  <1> QED BY <1>2 DEF SchemaChanges, DiffUnder, Under

KeysApart(content) == [t \in DOMAIN content |-> KeyApart(content[t])]

LEMMA ContentKeys ==
  ASSUME NEW use \in Usages, NEW place, NEW old, NEW new, \A t \in DOMAIN old : old[t] \in Schemas,
         \A t \in DOMAIN new : new[t] \in Schemas, ContentSame(use, place, old, new)
  PROVE  KeysApart(old) = KeysApart(new)
  <1>1. DOMAIN old = DOMAIN new
    BY DEF ContentSame
  <1>2. ASSUME NEW t \in DOMAIN old PROVE KeyApart(old[t]) = KeyApart(new[t])
    BY <1>1, SilentKeys DEF ContentSame
  <1> QED BY <1>1, <1>2 DEF KeysApart

(* The parts of an essence.                                                *)
ParamsEssence(params) ==
  [k \in DOMAIN params |-> [required |-> params[k].required, key |-> KeyApart(params[k].schema)]]
BodiesEssence(body) ==
  {[required |-> b.required, content |-> KeysApart(b.content)] : b \in {body} \ {None}}
ResponsesEssence(responses) == [s \in DOMAIN responses |-> KeysApart(responses[s])]

LEMMA EssenceParts ==
  ASSUME NEW o
  PROVE  Essence(o, KeyApart) =
           [auth |-> AuthEssence(o.auth), servers |-> o.servers, params |-> ParamsEssence(o.params),
            bodies |-> BodiesEssence(o.body), responses |-> ResponsesEssence(o.responses)]
  BY DEF Essence, MapContent, ParamsEssence, BodiesEssence, ResponsesEssence, KeysApart

LEMMA SameOperationEssence ==
  ASSUME NEW o, NEW n, OperationForm(o, Schemas), OperationForm(n, Schemas), OperationTold(o), OperationTold(n),
         IdentitiesGiven(o.auth), IdentitiesGiven(n.auth), OperationSame(o, n)
  PROVE  Essence(o, KeyApart) = Essence(n, KeyApart)
  <1>1. AuthEssence(o.auth) = AuthEssence(n.auth)
    BY AuthEssenceSame DEF OperationSame
  <1>2. o.servers = n.servers
    BY DEF OperationSame, ServersSame, OperationTold
  <1>3. ParamsEssence(o.params) = ParamsEssence(n.params)
    <2>1. DOMAIN o.params = DOMAIN n.params
      BY DEF OperationSame, ParametersSame
    <2>2. ASSUME NEW k \in DOMAIN o.params
          PROVE  o.params[k].required = n.params[k].required
                 /\ KeyApart(o.params[k].schema) = KeyApart(n.params[k].schema)
      <3>1. o.params[k].required = n.params[k].required
            /\ Silent("request", <<k.in, k.name>>, o.params[k].schema, n.params[k].schema)
        BY DEF OperationSame, ParametersSame
      <3>2. o.params[k].schema \in Schemas /\ n.params[k].schema \in Schemas
        BY <2>1 DEF OperationForm, ParamsForm
      <3> QED BY <3>1, <3>2, SilentKeys DEF Usages
    <2> QED BY <2>1, <2>2 DEF ParamsEssence
  <1>4. ResponsesEssence(o.responses) = ResponsesEssence(n.responses)
    <2>1. DOMAIN o.responses = DOMAIN n.responses
      BY DEF OperationSame, ResponsesSame
    <2>2. ASSUME NEW s \in DOMAIN o.responses
          PROVE  KeysApart(o.responses[s]) = KeysApart(n.responses[s])
      <3>1. ContentSame("response", <<"response", s>>, o.responses[s], n.responses[s])
        BY DEF OperationSame, ResponsesSame
      <3>2. /\ o.responses[s] \in [DOMAIN o.responses[s] -> Schemas]
            /\ n.responses[s] \in [DOMAIN n.responses[s] -> Schemas]
        BY <2>1 DEF OperationForm, ResponsesForm
      <3> QED BY <3>1, <3>2, ContentKeys DEF Usages
    <2> QED BY <2>1, <2>2 DEF ResponsesEssence
  <1>5. BodiesEssence(o.body) = BodiesEssence(n.body)
    <2>1. BodySame(o.body, n.body)
      BY DEF OperationSame
    <2>2. CASE o.body = None
      <3>1. n.body = None
        BY <2>1, <2>2 DEF BodySame
      <3> QED BY <2>2, <3>1 DEF BodiesEssence
    <2>3. CASE o.body # None
      <3>1. n.body # None /\ None \notin {o.body.required, n.body.required}
        BY <2>1, <2>3 DEF BodySame, OperationTold
      <3>2. o.body.required = n.body.required
            /\ ContentSame("request", <<"request">>, o.body.content, n.body.content)
        BY <2>1, <2>3, <3>1 DEF BodySame
      <3>3. /\ o.body.content \in [DOMAIN o.body.content -> Schemas]
            /\ n.body.content \in [DOMAIN n.body.content -> Schemas]
        BY <2>3, <3>1 DEF OperationForm, BodyForm
      <3>4. KeysApart(o.body.content) = KeysApart(n.body.content)
        BY <3>2, <3>3, ContentKeys DEF Usages
      <3> QED BY <2>3, <3>1, <3>2, <3>4 DEF BodiesEssence
    <2> QED BY <2>2, <2>3
  <1> QED BY <1>1, <1>2, <1>3, <1>4, <1>5, EssenceParts

-----------------------------------------------------------------------------
(* And the other way round: of equal essence, of equal report.             *)

LEMMA SameAuthSilent ==
  ASSUME NEW old, NEW new, IdentitiesDistinct(old), IdentitiesDistinct(new), AuthEssence(old) = AuthEssence(new)
  PROVE  DiffAuth(old, new) = {}
  <1> DEFINE byIdentity == {p \in (DOMAIN old) \X (DOMAIN new) :
                              IsKnown(old[p[1]].identity) /\ old[p[1]].identity = new[p[2]].identity}
             oldLeft == DOMAIN old \ {p[1] : p \in byIdentity}
             newLeft == DOMAIN new \ {p[2] : p \in byIdentity}
             byName == oldLeft \cap newLeft
  <1>1. DiffAuth(old, new) =
          (UNION {DiffScopes(p[2], old[p[1]], new[p[2]]) : p \in byIdentity})
            \cup (UNION {DiffScheme(n, old[n], new[n]) \cup DiffScopes(n, old[n], new[n]) : n \in byName})
            \cup {Change(<<"auth", n>>, "removed", "nonBreaking") : n \in oldLeft \ byName}
            \cup {Change(<<"auth", n>>, "added", "breaking") : n \in newLeft \ byName}
    BY DEF DiffAuth
  <1>2. /\ \A o \in DOMAIN old : \E n \in DOMAIN new : EssenceAt(old, o) = EssenceAt(new, n)
        /\ \A n \in DOMAIN new : \E o \in DOMAIN old : EssenceAt(old, o) = EssenceAt(new, n)
    <2>1. {EssenceAt(old, n) : n \in DOMAIN old} = {EssenceAt(new, n) : n \in DOMAIN new}
      BY EssencesAre
    <2> QED BY <2>1
  <1>3. ASSUME NEW p \in byIdentity PROVE DiffScopes(p[2], old[p[1]], new[p[2]]) = {}
    <2>1. /\ p[1] \in DOMAIN old /\ p[2] \in DOMAIN new
          /\ IsKnown(old[p[1]].identity) /\ old[p[1]].identity = new[p[2]].identity
      OBVIOUS
    <2>2. PICK n \in DOMAIN new : EssenceAt(old, p[1]) = EssenceAt(new, n)
      BY <1>2, <2>1
    <2>3. old[p[1]].identity = new[n].identity /\ old[p[1]].scopes = new[n].scopes
      BY <2>2, EqualEssences
    <2>4. n = p[2]
      BY <2>1, <2>3 DEF IdentitiesDistinct
    <2> QED BY <2>3, <2>4 DEF DiffScopes
  <1>4. \A o \in DOMAIN old : o \in oldLeft => ~IsKnown(old[o].identity)
    <2> SUFFICES ASSUME NEW o \in DOMAIN old, IsKnown(old[o].identity) PROVE o \notin oldLeft
      OBVIOUS
    <2>1. PICK n \in DOMAIN new : EssenceAt(old, o) = EssenceAt(new, n)
      BY <1>2
    <2>2. <<o, n>> \in byIdentity
      BY <2>1, EqualEssences
    <2> QED BY <2>2
  <1>5. \A n \in DOMAIN new : n \in newLeft => ~IsKnown(new[n].identity)
    <2> SUFFICES ASSUME NEW n \in DOMAIN new, IsKnown(new[n].identity) PROVE n \notin newLeft
      OBVIOUS
    <2>1. PICK o \in DOMAIN old : EssenceAt(old, o) = EssenceAt(new, n)
      BY <1>2
    <2>2. <<o, n>> \in byIdentity
      BY <2>1, EqualEssences
    <2> QED BY <2>2
  <1>6. ASSUME NEW o \in DOMAIN old, ~IsKnown(old[o].identity)
        PROVE  o \in DOMAIN new /\ ~IsKnown(new[o].identity) /\ EssenceAt(old, o) = EssenceAt(new, o)
    <2>1. PICK n \in DOMAIN new : EssenceAt(old, o) = EssenceAt(new, n)
      BY <1>2
    <2>2. old[o].identity = new[n].identity /\ o = n
      BY <1>6, <2>1, EqualEssences
    <2> QED BY <1>6, <2>1, <2>2
  <1>7. ASSUME NEW n \in DOMAIN new, ~IsKnown(new[n].identity)
        PROVE  n \in DOMAIN old /\ ~IsKnown(old[n].identity)
    <2>1. PICK o \in DOMAIN old : EssenceAt(old, o) = EssenceAt(new, n)
      BY <1>2
    <2> QED BY <1>7, <2>1, EqualEssences
  <1>8. oldLeft = newLeft
    <2>1. \A o : o \in oldLeft => o \in newLeft
      BY <1>4, <1>6
    <2>2. \A n : n \in newLeft => n \in oldLeft
      BY <1>5, <1>7
    <2> HIDE DEF oldLeft, newLeft
    <2> QED BY <2>1, <2>2
  <1>9. ASSUME NEW n \in byName
        PROVE  DiffScheme(n, old[n], new[n]) = {} /\ DiffScopes(n, old[n], new[n]) = {}
    <2>1. n \in DOMAIN old /\ n \in DOMAIN new /\ n \in oldLeft
      OBVIOUS
    <2> HIDE DEF byName, oldLeft
    <2>2. ~IsKnown(old[n].identity) /\ EssenceAt(old, n) = EssenceAt(new, n)
      BY <1>4, <1>6, <2>1
    <2>3. old[n].identity = new[n].identity /\ old[n].scopes = new[n].scopes /\ old[n].kind = new[n].kind
      BY <2>2, EqualEssences
    <2> QED BY <2>3 DEF DiffScheme, DiffScopes
  <1>10. oldLeft \ byName = {} /\ newLeft \ byName = {}
    <2> HIDE DEF oldLeft, newLeft
    <2> QED BY <1>8
  <1> HIDE DEF byIdentity, oldLeft, newLeft, byName
  <1>11. (UNION {DiffScopes(p[2], old[p[1]], new[p[2]]) : p \in byIdentity}) = {}
    BY <1>3
  <1>12. (UNION {DiffScheme(n, old[n], new[n]) \cup DiffScopes(n, old[n], new[n]) : n \in byName}) = {}
    BY <1>9
  <1> QED BY <1>1, <1>10, <1>11, <1>12

KeysOf(content) == [t \in DOMAIN content |-> KeyOf(content[t])]

LEMMA SameContentSilent ==
  ASSUME NEW use \in Usages, NEW place, NEW old, NEW new, \A t \in DOMAIN old : old[t] \in Schemas,
         \A t \in DOMAIN new : new[t] \in Schemas, KeysOf(old) = KeysOf(new)
  PROVE  DiffContent(use, place, old, new) = {}
  <1>1. DOMAIN KeysOf(old) = DOMAIN old /\ DOMAIN KeysOf(new) = DOMAIN new
    BY DEF KeysOf
  <1>2. DOMAIN old = DOMAIN new
    BY <1>1
  <1>3. ASSUME NEW t \in DOMAIN old PROVE SchemaChanges(use, Append(place, t), old[t], new[t]) = {}
    <2>1. KeysOf(old)[t] = KeyOf(old[t]) /\ KeysOf(new)[t] = KeyOf(new[t])
      BY <1>2 DEF KeysOf
    <2>2. KeyOf(old[t]) = KeyOf(new[t])
      BY <2>1
    <2> QED BY <1>2, <2>2, KeysSilent
  <1> QED BY <1>2, <1>3 DEF DiffContent

ParamsKeys(params) ==
  [k \in DOMAIN params |-> [required |-> params[k].required, key |-> KeyOf(params[k].schema)]]
BodiesKeys(body) ==
  {[required |-> b.required, content |-> KeysOf(b.content)] : b \in {body} \ {None}}
ResponsesKeys(responses) == [s \in DOMAIN responses |-> KeysOf(responses[s])]

LEMMA KeysParts ==
  ASSUME NEW o
  PROVE  Essence(o, KeyOf) =
           [auth |-> AuthEssence(o.auth), servers |-> o.servers, params |-> ParamsKeys(o.params),
            bodies |-> BodiesKeys(o.body), responses |-> ResponsesKeys(o.responses)]
  BY DEF Essence, MapContent, ParamsKeys, BodiesKeys, ResponsesKeys, KeysOf

LEMMA SameEssenceSilent ==
  ASSUME NEW o, NEW n, OperationForm(o, Schemas), OperationForm(n, Schemas),
         IdentitiesDistinct(o.auth), IdentitiesDistinct(n.auth), Essence(o, KeyOf) = Essence(n, KeyOf)
  PROVE  DiffOperation(o, n) = {}
  <1>1. /\ AuthEssence(o.auth) = AuthEssence(n.auth) /\ o.servers = n.servers
        /\ ParamsKeys(o.params) = ParamsKeys(n.params) /\ BodiesKeys(o.body) = BodiesKeys(n.body)
        /\ ResponsesKeys(o.responses) = ResponsesKeys(n.responses)
    <2>1. /\ Essence(o, KeyOf).auth = AuthEssence(o.auth) /\ Essence(o, KeyOf).servers = o.servers
          /\ Essence(o, KeyOf).params = ParamsKeys(o.params) /\ Essence(o, KeyOf).bodies = BodiesKeys(o.body)
          /\ Essence(o, KeyOf).responses = ResponsesKeys(o.responses)
      BY KeysParts
    <2>2. /\ Essence(n, KeyOf).auth = AuthEssence(n.auth) /\ Essence(n, KeyOf).servers = n.servers
          /\ Essence(n, KeyOf).params = ParamsKeys(n.params) /\ Essence(n, KeyOf).bodies = BodiesKeys(n.body)
          /\ Essence(n, KeyOf).responses = ResponsesKeys(n.responses)
      BY KeysParts
    <2> QED BY <2>1, <2>2
  <1>2. DiffAuth(o.auth, n.auth) = {}
    BY <1>1, SameAuthSilent
  <1>3. DiffServers(o.servers, n.servers) = {}
    BY <1>1 DEF DiffServers
  <1>4. DiffParameters(o.params, n.params) = {}
    <2>1. DOMAIN ParamsKeys(o.params) = DOMAIN o.params /\ DOMAIN ParamsKeys(n.params) = DOMAIN n.params
      BY DEF ParamsKeys
    <2>2. DOMAIN o.params = DOMAIN n.params
      BY <1>1, <2>1
    <2>3. ASSUME NEW k \in DOMAIN o.params
          PROVE  /\ DiffRequired("request", <<k.in, k.name>>, o.params[k].required, n.params[k].required) = {}
                 /\ SchemaChanges("request", <<k.in, k.name>>, o.params[k].schema, n.params[k].schema) = {}
      <3>1. /\ ParamsKeys(o.params)[k] = [required |-> o.params[k].required, key |-> KeyOf(o.params[k].schema)]
            /\ ParamsKeys(n.params)[k] = [required |-> n.params[k].required, key |-> KeyOf(n.params[k].schema)]
        BY <2>2 DEF ParamsKeys
      <3>2. o.params[k].required = n.params[k].required /\ KeyOf(o.params[k].schema) = KeyOf(n.params[k].schema)
        BY <1>1, <3>1
      <3>3. o.params[k].schema \in Schemas /\ n.params[k].schema \in Schemas
        BY <2>2 DEF OperationForm, ParamsForm
      <3>4. SchemaChanges("request", <<k.in, k.name>>, o.params[k].schema, n.params[k].schema) = {}
        BY <3>2, <3>3, KeysSilent DEF Usages
      <3> QED BY <3>2, <3>4 DEF DiffRequired
    <2> QED BY <2>2, <2>3 DEF DiffParameters
  <1>5. DiffResponses(o.responses, n.responses) = {}
    <2>1. /\ DOMAIN ResponsesKeys(o.responses) = DOMAIN o.responses
          /\ DOMAIN ResponsesKeys(n.responses) = DOMAIN n.responses
      BY DEF ResponsesKeys
    <2>2. DOMAIN o.responses = DOMAIN n.responses
      BY <1>1, <2>1
    <2>3. ASSUME NEW s \in DOMAIN o.responses
          PROVE  DiffContent("response", <<"response", s>>, o.responses[s], n.responses[s]) = {}
      <3>1. /\ ResponsesKeys(o.responses)[s] = KeysOf(o.responses[s])
            /\ ResponsesKeys(n.responses)[s] = KeysOf(n.responses[s])
        BY <2>2 DEF ResponsesKeys
      <3>2. KeysOf(o.responses[s]) = KeysOf(n.responses[s])
        BY <1>1, <3>1
      <3>3. /\ o.responses[s] \in [DOMAIN o.responses[s] -> Schemas]
            /\ n.responses[s] \in [DOMAIN n.responses[s] -> Schemas]
        BY <2>2 DEF OperationForm, ResponsesForm
      <3> QED BY <3>2, <3>3, SameContentSilent DEF Usages
    <2> QED BY <2>2, <2>3 DEF DiffResponses
  <1>6. DiffBodies(o.body, n.body) = {}
    <2> DEFINE Said(b) == [required |-> b.required, content |-> KeysOf(b.content)]
    <2>1. o.body = None <=> n.body = None
      <3>1. \A body : BodiesKeys(body) = {} <=> body = None
        <4> SUFFICES ASSUME NEW body, body # None PROVE BodiesKeys(body) # {}
          BY DEF BodiesKeys
        <4>1. Said(body) \in BodiesKeys(body)
          BY DEF BodiesKeys
        <4> QED BY <4>1
      <3> QED BY <1>1, <3>1
    <2> HIDE DEF Said
    <2>2. CASE o.body = None
      BY <2>1, <2>2 DEF DiffBodies
    <2>3. CASE o.body # None
      <3>1. BodiesKeys(o.body) = {Said(o.body)} /\ BodiesKeys(n.body) = {Said(n.body)}
        BY <2>1, <2>3 DEF BodiesKeys, Said
      <3>2. Said(o.body) = Said(n.body)
        BY <1>1, <3>1
      <3>3. o.body.required = n.body.required /\ KeysOf(o.body.content) = KeysOf(n.body.content)
        BY <3>2 DEF Said
      <3>4. /\ o.body.content \in [DOMAIN o.body.content -> Schemas]
            /\ n.body.content \in [DOMAIN n.body.content -> Schemas]
        BY <2>1, <2>3 DEF OperationForm, BodyForm
      <3>5. DiffContent("request", <<"request">>, o.body.content, n.body.content) = {}
        BY <3>3, <3>4, SameContentSilent DEF Usages
      <3> QED BY <2>1, <2>3, <3>3, <3>5 DEF DiffBodies, DiffRequired
    <2> QED BY <2>2, <2>3
  <1> QED BY <1>2, <1>3, <1>4, <1>5, <1>6 DEF DiffOperation

LEMMA BuiltIdentities ==
  ASSUME NEW docs, DocsAssumption(docs), NEW d \in docs, Build(d) # None, NEW op \in DOMAIN Build(d)
  PROVE  IdentitiesGiven(Build(d)[op].auth) /\ IdentitiesDistinct(Build(d)[op].auth)
  <1> DEFINE a == Alternatives(d, op)
  <1>1. Build(d)[op].auth = NormalizeAuth(d, a) /\ Alternating(a) /\ SchemesKnown(d)
    BY BuiltOperation
  <1> HIDE DEF a
  <1>2. \A name : IdentityOf(d, name) # None
    BY <1>1, UnknownAssumption DEF UnknownAssumption, SchemesKnown, IdentityOf, IsKnown
  <1>3. IdentitiesGiven(NormalizeAuth(d, a))
    BY <1>1, <1>2, AuthIs, LastOfIs DEF IdentitiesGiven, Requirement
  <1> QED BY <1>1, <1>3, AuthDistinct

(* Whatever the documents: where verify is silent the contract of every    *)
(* operation in scope has the authentication, servers, parameters, bodies  *)
(* and responses it had (a default response is in none), targets of cycle  *)
(* references apart, and verify is silent where it has them, targets       *)
(* included (diff_contracts, src/diff/mod.rs:20).                          *)
THEOREM SilentContractsAreSame == Spec => []SilentMeansSame
  <1>1. VerifyInv /\ LockLosesNothing => SilentMeansSame
    <2> DEFINE old == ScopeCurrent(Build(lockedDoc), lock.scope)
               new == ScopeCurrent(Build(doc), lock.scope)
    <2> SUFFICES ASSUME VerifyInv, LockLosesNothing, FullyVerified
                 PROVE  /\ verdict.report = {} => EssenceOf(old, KeyApart) = EssenceOf(new, KeyApart)
                        /\ EssenceOf(old, KeyOf) = EssenceOf(new, KeyOf) => verdict.report = {}
      BY DEF SilentMeansSame
    <2>1. /\ DocsAssumption(case.docs) /\ lockedDoc \in case.docs /\ doc \in case.docs
          /\ Build(lockedDoc) # None /\ Build(doc) # None
          /\ verdict.report = DiffContracts(old, new)
      BY FullVerdict
    <2>2. /\ \A op \in DOMAIN old : op \in DOMAIN Build(lockedDoc) /\ old[op] = Build(lockedDoc)[op]
          /\ \A op \in DOMAIN new : op \in DOMAIN Build(doc) /\ new[op] = Build(doc)[op]
      BY DEF ScopeCurrent
    <2> HIDE DEF old, new
    <2>3. ASSUME NEW op \in DOMAIN old
          PROVE  /\ OperationTold(old[op]) /\ OperationForm(old[op], Schemas)
                 /\ IdentitiesGiven(old[op].auth) /\ IdentitiesDistinct(old[op].auth)
      BY <2>1, <2>2, BuiltOperation, BuiltIdentities
    <2>4. ASSUME NEW op \in DOMAIN new
          PROVE  /\ OperationTold(new[op]) /\ OperationForm(new[op], Schemas)
                 /\ IdentitiesGiven(new[op].auth) /\ IdentitiesDistinct(new[op].auth)
      BY <2>1, <2>2, BuiltOperation, BuiltIdentities
    <2>5. ASSUME verdict.report = {} PROVE EssenceOf(old, KeyApart) = EssenceOf(new, KeyApart)
      <3>1. ContractSame(old, new)
        BY <2>1, <2>5, SilenceMeansSame
      <3>2. DOMAIN old = DOMAIN new
        BY <3>1 DEF ContractSame
      <3>3. ASSUME NEW op \in DOMAIN old PROVE Essence(old[op], KeyApart) = Essence(new[op], KeyApart)
        BY <2>3, <2>4, <3>1, <3>2, SameOperationEssence DEF ContractSame
      <3> QED BY <3>2, <3>3 DEF EssenceOf
    <2>6. ASSUME EssenceOf(old, KeyOf) = EssenceOf(new, KeyOf) PROVE verdict.report = {}
      <3>1. DOMAIN EssenceOf(old, KeyOf) = DOMAIN old /\ DOMAIN EssenceOf(new, KeyOf) = DOMAIN new
        BY DEF EssenceOf
      <3>2. DOMAIN old = DOMAIN new
        BY <2>6, <3>1
      <3>3. ASSUME NEW op \in DOMAIN old PROVE DiffOperation(old[op], new[op]) = {}
        <4>1. /\ EssenceOf(old, KeyOf)[op] = Essence(old[op], KeyOf)
              /\ EssenceOf(new, KeyOf)[op] = Essence(new[op], KeyOf)
          BY <3>2 DEF EssenceOf
        <4>2. Essence(old[op], KeyOf) = Essence(new[op], KeyOf)
          BY <2>6, <4>1
        <4> QED BY <2>3, <2>4, <3>2, <4>2, SameEssenceSilent
      <3>4. DiffContracts(old, new) = {}
        BY <3>2, <3>3 DEF DiffContracts
      <3> QED BY <2>1, <3>4
    <2> QED BY <2>5, <2>6
  <1> QED BY <1>1, InvHolds, LocksLoseNothing, PTL

-----------------------------------------------------------------------------
(* Schemas that version 3 gives back, but for policies: nothing composed   *)
(* and no cycle inside, at any depth.                                      *)

Gapless == {s \in Schemas : \A t \in Nested(s) : t.kind \notin Composed \cup {"cycleRef"}}

LEMMA GaplessInside ==
  ASSUME NEW s \in Gapless
  PROVE  /\ s \in Schemas /\ s.kind \notin Composed /\ s.kind # "cycleRef" /\ s.branches = <<>>
         /\ Inner(s) \subseteq Gapless
  <1>1. s \in Schemas /\ WellFormed(s) /\ Inner(s) \subseteq Schemas
        /\ Nested(s) = {s} \cup UNION {Nested(t) : t \in Inner(s)}
    BY SchemasAssumption DEF SchemasAssumption, Gapless
  <1>2. s.kind \notin Composed /\ s.kind # "cycleRef"
    BY <1>1 DEF Gapless
  <1>3. Inner(s) \subseteq Gapless
    BY <1>1 DEF Gapless
  <1>4. s.branches = <<>>
    BY <1>1, <1>2 DEF WellFormed
  <1> QED BY <1>1, <1>2, <1>3, <1>4

(* Without branches, the order of none of them.                            *)
LEMMA NoneByKey ==
  ASSUME NEW s \in Schemas, s.branches = <<>>
  PROVE  ByKey({}) = <<>>
  <1>1. s.branches = ByKey(ToSet(s.branches))
    BY SchemasAssumption DEF SchemasAssumption, WellFormed
  <1>2. ToSet(s.branches) = {}
    BY DEF ToSet
  <1> QED BY <1>1, <1>2

(* The properties of a node of version 3.                                  *)
PropsV3(s) ==
  IF s.items # None THEN [n \in {"items"} |-> Property(TRUE, IdOfV3(s.items))]
  ELSE [n \in DOMAIN s.props |-> Property(s.props[n].required, IdOfV3(s.props[n].schema))]

LEMMA NodeV3Parts ==
  ASSUME NEW s \in Gapless
  PROVE  LET node == IdOfV3(s).hash IN
         /\ node.kind = s.kind /\ node.nullable = s.nullable /\ node.format = s.format /\ node.enum = s.enum
         /\ node.props = PropsV3(s)
  <1> DEFINE ofProps == [n \in DOMAIN s.props |-> Property(s.props[n].required, IdOfV3(s.props[n].schema))]
             ofItems == IF s.items = None THEN NoProps ELSE [n \in {"items"} |-> Property(TRUE, IdOfV3(s.items))]
             names == {BranchName(s.kind, i) : i \in DOMAIN s.branches}
             ofBranches ==
               [n \in names |->
                  Property(TRUE, IdOfV3(s.branches[CHOOSE i \in DOMAIN s.branches : BranchName(s.kind, i) = n]))]
             node == NodeOfV3(s)
  <1>1. s \in Schemas /\ s.branches = <<>> /\ s.kind # "cycleRef"
    BY GaplessInside
  <1>2. IdOfV3(s) = HashOf(node)
    BY <1>1, LegacyAssumption DEF LegacyAssumption
  <1>3. /\ node.kind = s.kind /\ node.nullable = s.nullable /\ node.format = s.format /\ node.enum = s.enum
        /\ node.props = Merged(Merged(ofBranches, ofItems), ofProps)
    BY <1>1 DEF NodeOfV3
  <1>4. names = {} /\ DOMAIN ofBranches = names
    BY <1>1
  <1>5. s.items # None => s.props = NoProps
    BY <1>1, SchemasAssumption DEF SchemasAssumption, WellFormed
  <1>6. /\ DOMAIN ofProps = DOMAIN s.props
        /\ s.items = None => DOMAIN ofItems = {}
        /\ s.items # None => DOMAIN ofItems = {"items"} /\ DOMAIN s.props = {}
    BY <1>5 DEF NoProps
  <1>7. ofProps = [n \in DOMAIN ofProps |-> ofProps[n]] /\ ofItems = [n \in DOMAIN ofItems |-> ofItems[n]]
    BY DEF NoProps
  <1>8. PropsV3(s) = IF s.items # None THEN ofItems ELSE ofProps
    BY DEF PropsV3
  <1> HIDE DEF names, ofBranches, ofItems, ofProps, node
  <1>9. Merged(ofBranches, ofItems) = ofItems
    BY <1>4, <1>7 DEF Merged
  <1>10. Merged(ofItems, ofProps) = PropsV3(s)
    <2>1. CASE s.items = None
      BY <1>6, <1>7, <1>8, <2>1 DEF Merged
    <2>2. CASE s.items # None
      BY <1>6, <1>7, <1>8, <2>2 DEF Merged
    <2> QED BY <2>1, <2>2
  <1> QED BY <1>2, <1>3, <1>9, <1>10 DEF HashOf

LEMMA UnpolicedParts ==
  ASSUME NEW s \in Gapless
  PROVE  Unpoliced(s)
           = [kind |-> s.kind, nullable |-> s.nullable, format |-> s.format, enum |-> s.enum,
              props |-> [n \in DOMAIN s.props |-> Property(s.props[n].required, Unpoliced(s.props[n].schema))],
              items |-> IF s.items = None THEN None ELSE Unpoliced(s.items),
              additional |-> Unknown, branches |-> <<>>, target |-> None]
  <1>1. s \in Schemas /\ s.branches = <<>> /\ s.target = None
    BY GaplessInside, SchemasAssumption DEF SchemasAssumption, WellFormed
  <1>2. [i \in DOMAIN s.branches |-> Unpoliced(s.branches[i])] = <<>>
    BY <1>1
  <1> DEFINE props == [n \in DOMAIN s.props |-> Property(s.props[n].required, Unpoliced(s.props[n].schema))]
             items == IF s.items = None THEN None ELSE Unpoliced(s.items)
             values == IF s.additional.schema = None THEN s.additional ELSE ValuesOf(Unpoliced(s.additional.schema))
             branches == [i \in DOMAIN s.branches |-> Unpoliced(s.branches[i])]
             inside == MapInner(s, Unpoliced)
  <1>3. inside = [kind |-> s.kind, nullable |-> s.nullable, format |-> s.format, enum |-> s.enum, props |-> props,
                  items |-> items, additional |-> values, branches |-> branches, target |-> s.target]
    BY DEF MapInner, WithInner
  <1>4. Unpoliced(s) = [inside EXCEPT !.additional = Unknown]
    BY <1>1, UnpolicedAssumption DEF UnpolicedAssumption
  <1> HIDE DEF props, items, values, branches, inside
  <1>5. [inside EXCEPT !.additional = Unknown]
          = [kind |-> s.kind, nullable |-> s.nullable, format |-> s.format, enum |-> s.enum, props |-> props,
             items |-> items, additional |-> Unknown, branches |-> branches, target |-> s.target]
    BY <1>3
  <1> QED BY <1>1, <1>2, <1>4, <1>5 DEF props, items, branches

(* What of a schema version 3 stores.                                      *)
StoredInside(s) == {s.props[n].schema : n \in DOMAIN s.props} \cup ({s.items} \ {None})

LEMMA OneNodeBackV3 ==
  ASSUME NEW s \in Gapless, NEW f, \A t \in StoredInside(s) : f[IdOfV3(t)] = Unpoliced(t)
  PROVE  ExpandNodeV3(IdOfV3(s).hash, f) = Unpoliced(s)
  <1> DEFINE node == IdOfV3(s).hash
             names == DOMAIN node.props
             Given(n) == f[node.props[n].schema]
             ofBranches == IF node.kind \in Composed
                           THEN {n \in names : \E i \in 1..Cardinality(names) : BranchName(node.kind, i) = n} ELSE {}
             ofItems == IF node.kind = "array" THEN {"items"} \cap names ELSE {}
             props == [n \in names \ (ofBranches \cup ofItems) |-> Property(node.props[n].required, Given(n))]
             items == IF ofItems = {} THEN None ELSE Given("items")
  <1>1. /\ node.kind = s.kind /\ node.nullable = s.nullable /\ node.format = s.format /\ node.enum = s.enum
        /\ node.props = PropsV3(s)
    BY NodeV3Parts
  <1>2. /\ s \in Schemas /\ s.branches = <<>> /\ s.kind \notin Composed
        /\ s.items # None => s.kind = "array"
        /\ s.kind = "array" => s.props = NoProps
    BY GaplessInside, SchemasAssumption DEF SchemasAssumption, WellFormed
  <1>3. ExpandNodeV3(node, f)
          = [kind |-> node.kind, nullable |-> node.nullable, format |-> node.format, enum |-> node.enum,
             props |-> props, items |-> items, additional |-> Unknown,
             branches |-> ByKey({Given(n) : n \in ofBranches}), target |-> None]
    BY DEF ExpandNodeV3
  <1> HIDE DEF node
  <1>4. ofBranches = {}
    BY <1>1, <1>2
  <1>5. ByKey({Given(n) : n \in ofBranches}) = <<>>
    <2>1. {Given(n) : n \in ofBranches} = {}
      BY <1>4
    <2>2. ByKey({}) = <<>>
      BY <1>2, NoneByKey
    <2> HIDE DEF Given, ofBranches
    <2> QED BY <2>1, <2>2
  <1>6. /\ props = [n \in DOMAIN s.props |-> Property(s.props[n].required, Unpoliced(s.props[n].schema))]
        /\ items = IF s.items = None THEN None ELSE Unpoliced(s.items)
    <2>1. CASE s.items = None
      <3>1. /\ names = DOMAIN s.props
            /\ \A n \in names : /\ node.props[n].required = s.props[n].required
                               /\ node.props[n].schema = IdOfV3(s.props[n].schema)
        BY <1>1, <2>1 DEF PropsV3, Property
      <3>2. \A n \in names : Given(n) = Unpoliced(s.props[n].schema)
        BY <3>1 DEF StoredInside
      <3>3. ofItems = {}
        BY <1>1, <1>2, <3>1 DEF NoProps
      <3> HIDE DEF Given, ofItems, ofBranches, names
      <3>4. props = [n \in names |-> Property(node.props[n].required, Given(n))]
        BY <1>4, <3>3
      <3>5. props = [n \in DOMAIN s.props |-> Property(s.props[n].required, Unpoliced(s.props[n].schema))]
        BY <3>1, <3>2, <3>4
      <3> QED BY <2>1, <3>3, <3>5
    <2>2. CASE s.items # None
      <3>1. names = {"items"} /\ node.props["items"].schema = IdOfV3(s.items)
        BY <1>1, <2>2 DEF PropsV3, Property
      <3>2. Given("items") = Unpoliced(s.items)
        BY <2>2, <3>1 DEF StoredInside
      <3>3. ofItems = {"items"}
        BY <1>1, <1>2, <2>2, <3>1
      <3>4. DOMAIN s.props = {}
        BY <1>2, <2>2 DEF NoProps
      <3> HIDE DEF Given, ofItems, ofBranches, names
      <3>5. names \ (ofBranches \cup ofItems) = {}
        BY <3>1, <3>3
      <3>6. props = [n \in DOMAIN s.props |-> Property(s.props[n].required, Unpoliced(s.props[n].schema))]
        BY <3>4, <3>5
      <3> QED BY <2>2, <3>2, <3>3, <3>6
    <2> QED BY <2>1, <2>2
  <1> HIDE DEF Given, ofItems, ofBranches, names, props, items
  <1>7. ExpandNodeV3(node, f) = Unpoliced(s)
    BY <1>1, <1>3, <1>5, <1>6, UnpolicedParts
  <1> QED BY <1>7 DEF node

(* Schemas of one hash are given back as one.                              *)
LEMMA SameIdV3 ==
  ASSUME NEW s \in Gapless, NEW t \in Gapless, IdOfV3(s) = IdOfV3(t)
  PROVE  Unpoliced(s) = Unpoliced(t)
  <1> DEFINE Bad == {u \in Schemas : u \in Gapless /\ \E w \in Gapless : IdOfV3(u) = IdOfV3(w) /\ Unpoliced(u) # Unpoliced(w)}
  <1> SUFFICES ASSUME Bad # {} PROVE FALSE
    BY DEF Gapless
  <1>1. PICK u \in Bad : \A x \in Inner(u) : x \notin Bad
    BY Shallowest
  <1>2. PICK w \in Gapless : IdOfV3(u) = IdOfV3(w) /\ Unpoliced(u) # Unpoliced(w)
    BY <1>1
  <1>3. /\ u \in Gapless /\ Inner(u) \subseteq Gapless /\ Inner(w) \subseteq Gapless
        /\ Gapless \subseteq Schemas /\ None \notin Schemas
    BY <1>1, <1>2, GaplessInside, SchemasAssumption DEF SchemasAssumption, Gapless
  <1>4. \A x \in Inner(u), y \in Gapless : IdOfV3(x) = IdOfV3(y) => Unpoliced(x) = Unpoliced(y)
    BY <1>1, <1>3
  <1> HIDE DEF Bad
  <1>5. /\ u.kind = w.kind /\ u.nullable = w.nullable /\ u.format = w.format /\ u.enum = w.enum
        /\ PropsV3(u) = PropsV3(w)
    BY <1>2, <1>3, NodeV3Parts
  <1>6. /\ \A x \in Schemas : x.items # None => x.kind = "array"
        /\ \A x \in Schemas : x.kind = "array" => x.props = NoProps
    BY SchemasAssumption DEF SchemasAssumption, WellFormed
  <1>7. u.items = None <=> w.items = None
    <2>1. \A x \in Gapless : x.items # None => DOMAIN PropsV3(x) = {"items"}
      BY DEF PropsV3
    <2>2. \A x \in Gapless : x.items = None /\ x.kind = "array" => DOMAIN PropsV3(x) = {}
      BY <1>3, <1>6 DEF PropsV3, NoProps
    <2> QED BY <1>2, <1>3, <1>5, <1>6, <2>1, <2>2
  <1>8. /\ DOMAIN u.props = DOMAIN w.props
        /\ \A n \in DOMAIN u.props : /\ u.props[n].required = w.props[n].required
                                     /\ IdOfV3(u.props[n].schema) = IdOfV3(w.props[n].schema)
    <2>1. CASE u.items # None
      <3>1. u.props = NoProps /\ w.props = NoProps
        BY <1>2, <1>3, <1>5, <1>6, <1>7, <2>1
      <3> QED BY <3>1 DEF NoProps
    <2>2. CASE u.items = None
      <3>1. \A x \in {u, w} : /\ DOMAIN PropsV3(x) = DOMAIN x.props
                             /\ \A n \in DOMAIN x.props : /\ PropsV3(x)[n].required = x.props[n].required
                                                          /\ PropsV3(x)[n].schema = IdOfV3(x.props[n].schema)
        BY <1>7, <2>2 DEF PropsV3, Property
      <3> QED BY <1>5, <3>1
    <2> QED BY <2>1, <2>2
  <1>9. u.items # None => IdOfV3(u.items) = IdOfV3(w.items)
    <2>1. \A x \in {u, w} : x.items # None => PropsV3(x)["items"].schema = IdOfV3(x.items)
      BY DEF PropsV3, Property
    <2> QED BY <1>5, <1>7, <2>1
  <1>10. \A n \in DOMAIN u.props : Unpoliced(u.props[n].schema) = Unpoliced(w.props[n].schema)
    BY <1>3, <1>4, <1>8 DEF Inner
  <1>11. u.items # None => Unpoliced(u.items) = Unpoliced(w.items)
    BY <1>3, <1>4, <1>7, <1>9 DEF Inner
  <1>12. [n \in DOMAIN u.props |-> Property(u.props[n].required, Unpoliced(u.props[n].schema))]
           = [n \in DOMAIN w.props |-> Property(w.props[n].required, Unpoliced(w.props[n].schema))]
    BY <1>8, <1>10
  <1>13. (IF u.items = None THEN None ELSE Unpoliced(u.items)) = (IF w.items = None THEN None ELSE Unpoliced(w.items))
    BY <1>7, <1>11
  <1>14. Unpoliced(u) = Unpoliced(w)
    BY <1>3, <1>5, <1>12, <1>13, UnpolicedParts
  <1> QED BY <1>2, <1>14

(* Nodes of such schemas that are all there, each under its hash.          *)
ClosedV3(nodes) ==
  /\ DOMAIN nodes \subseteq {IdOfV3(s) : s \in Gapless}
  /\ \A id \in DOMAIN nodes : nodes[id] = id.hash
  /\ \A s \in Gapless : IdOfV3(s) \in DOMAIN nodes => \A t \in StoredInside(s) : IdOfV3(t) \in DOMAIN nodes

(* By induction over the table, as for version 4.                          *)
LEMMA ExpandsBackV3 ==
  ASSUME NEW nodes, ClosedV3(nodes)
  PROVE  \A s \in Gapless : IdOfV3(s) \in DOMAIN nodes => ExpandedV3(nodes)[IdOfV3(s)] = Unpoliced(s)
  <1> DEFINE D == DOMAIN nodes
             Expands(f) == f = [id \in D |-> ExpandNodeV3(nodes[id], f)]
             SourceOf(id) == CHOOSE s \in Gapless : IdOfV3(s) = id
             Back == [id \in D |-> Unpoliced(SourceOf(id))]
  <1>1. \A id \in D : SourceOf(id) \in Gapless /\ IdOfV3(SourceOf(id)) = id
    BY DEF ClosedV3
  <1>2. \A s \in Gapless : IdOfV3(s) \in D => Back[IdOfV3(s)] = Unpoliced(s)
    <2> SUFFICES ASSUME NEW s \in Gapless, IdOfV3(s) \in D PROVE Unpoliced(SourceOf(IdOfV3(s))) = Unpoliced(s)
      OBVIOUS
    <2>1. SourceOf(IdOfV3(s)) \in Gapless /\ IdOfV3(SourceOf(IdOfV3(s))) = IdOfV3(s)
      BY <1>1
    <2> HIDE DEF SourceOf
    <2> QED BY <2>1, SameIdV3
  <1>3. ASSUME NEW s \in Gapless, IdOfV3(s) \in D
        PROVE  \A t \in StoredInside(s) : t \in Gapless /\ IdOfV3(t) \in D /\ t \in Inner(s)
    <2>1. StoredInside(s) \subseteq Inner(s)
      BY DEF StoredInside, Inner
    <2> QED BY <1>3, <2>1, GaplessInside DEF ClosedV3
  <1>4. ASSUME NEW f, NEW s \in Gapless, IdOfV3(s) \in D, \A t \in StoredInside(s) : f[IdOfV3(t)] = Unpoliced(t)
        PROVE  ExpandNodeV3(nodes[IdOfV3(s)], f) = Unpoliced(s)
    <2>1. nodes[IdOfV3(s)] = IdOfV3(s).hash
      BY <1>4 DEF ClosedV3
    <2>2. ExpandNodeV3(IdOfV3(s).hash, f) = Unpoliced(s)
      BY <1>4, OneNodeBackV3
    <2> QED BY <2>1, <2>2
  <1>5. Expands(Back)
    <2>1. ASSUME NEW id \in D PROVE ExpandNodeV3(nodes[id], Back) = Back[id]
      <3>1. SourceOf(id) \in Gapless /\ IdOfV3(SourceOf(id)) = id /\ Back[id] = Unpoliced(SourceOf(id))
        BY <1>1
      <3> HIDE DEF SourceOf
      <3>2. \A t \in StoredInside(SourceOf(id)) : Back[IdOfV3(t)] = Unpoliced(t)
        BY <1>2, <1>3, <3>1
      <3> HIDE DEF Back
      <3>3. ExpandNodeV3(nodes[IdOfV3(SourceOf(id))], Back) = Unpoliced(SourceOf(id))
        BY <1>4, <3>1, <3>2
      <3> QED BY <3>1, <3>3
    <2>2. Back = [id \in D |-> Back[id]]
      OBVIOUS
    <2> HIDE DEF Back
    <2> QED BY <2>1, <2>2
  <1>6. Expands(ExpandedV3(nodes))
    <2>1. ExpandedV3(nodes) = CHOOSE f : Expands(f)
      BY DEF ExpandedV3
    <2> HIDE DEF Expands, Back
    <2> QED BY <1>5, <2>1
  <1> DEFINE Lost == {s \in Schemas : s \in Gapless /\ IdOfV3(s) \in D /\ ExpandedV3(nodes)[IdOfV3(s)] # Unpoliced(s)}
  <1>7. Lost = {}
    <2> SUFFICES ASSUME Lost # {} PROVE FALSE
      OBVIOUS
    <2>1. PICK s \in Lost : \A t \in Inner(s) : t \notin Lost
      BY Shallowest
    <2>2. \A t \in StoredInside(s) : ExpandedV3(nodes)[IdOfV3(t)] = Unpoliced(t)
      BY <1>3, <2>1 DEF Gapless
    <2>3. ExpandedV3(nodes)[IdOfV3(s)] = ExpandNodeV3(nodes[IdOfV3(s)], ExpandedV3(nodes))
      BY <1>6, <2>1
    <2> QED BY <1>4, <2>1, <2>2, <2>3
  <1> QED BY <1>7 DEF Gapless

(* The table of schemas of this kind, and of what is inside them, holds    *)
(* nothing else.                                                           *)
LEMMA TableV3IsClosed ==
  ASSUME NEW roots \in SUBSET Gapless
  PROVE  /\ ClosedV3(TableOf(IdsV3Of, NestedV3Of, roots))
         /\ \A s \in roots : IdOfV3(s) \in DOMAIN TableOf(IdsV3Of, NestedV3Of, roots)
  <1> DEFINE all == UNION {NestedV3Of[r] : r \in roots}
             nodes == TableOf(IdsV3Of, NestedV3Of, roots)
  <1>1. Gapless \in SUBSET Schemas /\ \A s \in Schemas : InnerV3Of[s] = InnerV3(s) /\ InnerV3(s) \subseteq Inner(s)
    BY DEF Gapless, InnerV3Of, InnerV3, Inner
  <1>2. \A t \in Gapless : InnerV3Of[t] \subseteq Gapless
    BY <1>1, GaplessInside
  <1>3. \A r \in roots : NestedV3Of[r] \subseteq Gapless /\ r \in NestedV3Of[r]
    <2> SUFFICES ASSUME NEW r \in roots PROVE NestedV3Of[r] \subseteq Gapless /\ r \in NestedV3Of[r]
      OBVIOUS
    <2>1. NestedV3Of[r] \subseteq Gapless
      BY <1>1, <1>2, NestedLeast, NestedSchemasV3
    <2> QED BY <1>1, <2>1, NestedSchemasV3 DEF NestedIs
  <1>4. \A t \in all : InnerV3Of[t] \subseteq all
    BY <1>1, NestedInside, NestedSchemasV3
  <1>5. all \subseteq Gapless /\ roots \subseteq all
    BY <1>3
  <1> HIDE DEF all
  <1>6. nodes = [id \in {IdsV3Of[s] : s \in all} |-> id.hash]
    BY DEF TableOf, all
  <1>7. DOMAIN nodes = {IdOfV3(s) : s \in all} /\ \A id \in DOMAIN nodes : nodes[id] = id.hash
    <2>1. {IdsV3Of[s] : s \in all} = {IdOfV3(s) : s \in all}
      BY <1>1, <1>5 DEF IdsV3Of
    <2> QED BY <1>6, <2>1
  <1> HIDE DEF nodes
  <1>8. ASSUME NEW s \in Gapless, IdOfV3(s) \in DOMAIN nodes, NEW t \in StoredInside(s)
        PROVE  IdOfV3(t) \in DOMAIN nodes
    <2>1. PICK u \in all : IdOfV3(u) = IdOfV3(s)
      BY <1>7, <1>8
    <2>2. u \in Schemas /\ s \in Schemas
      BY <1>1, <1>5
    <2>3. {IdOfV3(x) : x \in InnerV3(u)} = {IdOfV3(x) : x \in InnerV3(s)}
      BY <2>1, <2>2, ReferencesV3
    <2>4. t \in InnerV3(s)
      BY <1>8 DEF StoredInside, InnerV3
    <2>5. PICK x \in InnerV3(u) : IdOfV3(x) = IdOfV3(t)
      BY <2>3, <2>4
    <2>6. x \in all
      BY <1>1, <1>4, <2>2, <2>5
    <2> QED BY <1>7, <2>5, <2>6
  <1>9. ClosedV3(nodes)
    BY <1>5, <1>7, <1>8 DEF ClosedV3
  <1> QED BY <1>5, <1>7, <1>9 DEF nodes

-----------------------------------------------------------------------------
(* Operations: path parameters go by the number of their placeholder, in   *)
(* version 3 by its name, which tells the number.                          *)

PlacesForm(o) ==
  /\ IsSequence(o.path.names) /\ IsInjective(o.path.names)
  /\ \A k \in DOMAIN o.params :
        k.in = "path" => \E i \in DOMAIN o.path.names : k = Slot(i) /\ o.params[k].name = o.path.names[i]

LEMMA SlotOfName ==
  ASSUME NEW names, IsSequence(names), IsInjective(names), NEW i \in DOMAIN names
  PROVE  SlotOf(names, names[i]) = Slot(i)
  <1> DEFINE I == {j \in 1..Len(names) : names[j] = names[i]}
  <1>1. DOMAIN names = 1..Len(names) /\ Len(names) \in Nat
    <2>1. names \in Seq(ToSet(names))
      BY DEF IsSequence
    <2> HIDE DEF IsSequence
    <2> QED BY <2>1
  <1>2. I = {i}
    BY <1>1 DEF IsInjective
  <1>3. i \in Nat
    BY <1>1
  <1>4. Min({i}) = i
    BY <1>3 DEF Min
  <1>5. SelectInSeq(names, LAMBDA n : n = names[i]) = IF I # {} THEN Min(I) ELSE 0
    BY DEF SelectInSeq
  <1> HIDE DEF I
  <1>6. SelectInSeq(names, LAMBDA n : n = names[i]) = i
    BY <1>2, <1>4, <1>5
  <1> QED BY <1>6 DEF SlotOf, Slot

LEMMA BuiltPlaces ==
  ASSUME NEW docs, DocsAssumption(docs), NEW d \in docs, Build(d) # None, NEW op \in DOMAIN Build(d)
  PROVE  PlacesForm(Build(d)[op])
  <1> DEFINE By == CHOOSE spelled \in Spelled(d) : Identity(spelled) = op
             item == ResolvePathItem(d, By[1])
             operation == item.operations[By[2]]
             given == Parameters(d, item, operation)
             o == Build(d)[op]
  <1>1. op \in {Identity(s) : s \in Spelled(d)}
    BY DEF Build
  <1>2. By \in Spelled(d)
    <2>1. \E s \in Spelled(d) : Identity(s) = op
      BY <1>1
    <2> QED BY <2>1
  <1>3. o = Operation(d, By[1], item, operation)
    BY <1>1 DEF Build
  <1>4. IsInjective(By[1].names)
    <2>1. ValidDocument(d)
      BY DEF Build
    <2> HIDE DEF By
    <2> QED BY <1>2, <2>1 DEF ValidDocument, ValidOperation
  <1>5. IsSequence(o.path.names)
    BY DEF DocsAssumption
  <1> HIDE DEF By, item, operation, given, o
  <1> DEFINE names == By[1].names
             declared(i) == {k \in DOMAIN given : k.in = "path" /\ given[k].name = names[i]}
             others == [k \in {key \in DOMAIN given : key.in # "path"} |-> given[k]]
             SlotBy(k) == CHOOSE slot \in DOMAIN names : Slot(slot) = k
             Bound(i) == IF declared(i) = {} THEN [name |-> names[i], required |-> TRUE, schema |-> Plain("string")]
                         ELSE given[CHOOSE key \in declared(i) : TRUE]
             slots == [k \in {Slot(i) : i \in DOMAIN names} |-> Bound(SlotBy(k))]
  <1>6. o.path.names = names /\ o.params = BindPathParameters(given, names)
    BY <1>3 DEF Operation, given
  <1>7. BindPathParameters(given, names) = Merged(others, slots)
    BY DEF BindPathParameters
  <1>8. \A i : Bound(i).name = names[i]
    <2> SUFFICES ASSUME NEW i PROVE Bound(i).name = names[i]
      OBVIOUS
    <2>1. CASE declared(i) = {}
      BY <2>1
    <2>2. CASE declared(i) # {}
      <3>1. (CHOOSE key \in declared(i) : TRUE) \in declared(i)
        BY <2>2
      <3> QED BY <2>2, <3>1
    <2> QED BY <2>1, <2>2
  <1>9. \A k \in DOMAIN slots : SlotBy(k) \in DOMAIN names /\ Slot(SlotBy(k)) = k /\ slots[k] = Bound(SlotBy(k))
    <2> SUFFICES ASSUME NEW k \in DOMAIN slots PROVE SlotBy(k) \in DOMAIN names /\ Slot(SlotBy(k)) = k
      OBVIOUS
    <2>1. \E i \in DOMAIN names : Slot(i) = k
      OBVIOUS
    <2> QED BY <2>1
  <1>10. DOMAIN others = {key \in DOMAIN given : key.in # "path"}
    OBVIOUS
  <1> HIDE DEF Bound, SlotBy, others, slots, names
  <1>11. ASSUME NEW k \in DOMAIN o.params, k.in = "path"
         PROVE  \E i \in DOMAIN names : k = Slot(i) /\ o.params[k].name = names[i]
    <2>1. k \in DOMAIN slots /\ o.params[k] = slots[k]
      BY <1>6, <1>7, <1>10, <1>11 DEF Merged
    <2> QED BY <1>8, <1>9, <2>1
  <1>12. PlacesForm(o)
    BY <1>4, <1>5, <1>6, <1>11 DEF PlacesForm, names
  <1> QED BY <1>12 DEF o

(* What comes back of an operation, names of parameters apart.             *)
BackV3(o, r) ==
  /\ r.auth = [n \in DOMAIN o.auth |-> [o.auth[n] EXCEPT !.identity = None]]
  /\ r.servers = None
  /\ DOMAIN r.params = DOMAIN o.params
  /\ \A k \in DOMAIN o.params : /\ r.params[k].required = o.params[k].required
                                /\ r.params[k].schema = Unpoliced(o.params[k].schema)
  /\ o.body = None => r.body = None
  /\ o.body # None => /\ r.body # None /\ r.body.required = None
                      /\ DOMAIN r.body.content = DOMAIN o.body.content
                      /\ \A t \in DOMAIN o.body.content : r.body.content[t] = Unpoliced(o.body.content[t])
  /\ DOMAIN r.responses = DOMAIN o.responses
  /\ \A s \in DOMAIN o.responses :
        /\ DOMAIN r.responses[s] = DOMAIN o.responses[s]
        /\ \A t \in DOMAIN o.responses[s] : r.responses[s][t] = Unpoliced(o.responses[s][t])

LEMMA ParamsBackV3 ==
  ASSUME NEW o, PlacesForm(o), NEW expand,
         \A k \in DOMAIN o.params : expand[IdOfV3(o.params[k].schema)] = Unpoliced(o.params[k].schema)
  PROVE  LET stored == MapSchemas(StoredV3(o), IdOfV3)
             params == ExpandOperationV3(stored, expand).params IN
         /\ DOMAIN params = DOMAIN o.params
         /\ \A k \in DOMAIN o.params : /\ params[k].required = o.params[k].required
                                       /\ params[k].schema = Unpoliced(o.params[k].schema)
  <1> DEFINE names == o.path.names
             D == DOMAIN o.params
             Key(k) == IF k.in = "path" THEN [in |-> "path", name |-> o.params[k].name] ELSE k
             Stored(k) == CHOOSE key \in D : Key(key) = k
             Back(k) == IF k.in = "path" THEN SlotOf(names, k.name) ELSE k
             first == [k \in {Key(key) : key \in D} |->
                         [name |-> k.name, required |-> o.params[Stored(k)].required,
                          schema |-> o.params[Stored(k)].schema]]
             second == [k \in DOMAIN first |->
                          [name |-> first[k].name, required |-> first[k].required, schema |-> IdOfV3(first[k].schema)]]
             third == [k \in DOMAIN second |->
                         [name |-> second[k].name, required |-> second[k].required, schema |-> expand[second[k].schema]]]
             SourceOf(k) == CHOOSE key \in DOMAIN second : Back(key) = k
             last == [k \in {Back(key) : key \in DOMAIN second} |-> third[SourceOf(k)]]
             stored == MapSchemas(StoredV3(o), IdOfV3)
  <1>1. ASSUME NEW k \in D PROVE Back(Key(k)) = k
    <2>1. CASE k.in = "path"
      <3>1. PICK i \in DOMAIN names : k = Slot(i) /\ o.params[k].name = names[i]
        BY <2>1 DEF PlacesForm
      <3>2. Key(k).in = "path" /\ Key(k).name = names[i]
        BY <2>1, <3>1
      <3>3. SlotOf(names, names[i]) = k
        BY <3>1, SlotOfName DEF PlacesForm
      <3> HIDE DEF Key
      <3> QED BY <3>2, <3>3
    <2>2. CASE k.in # "path"
      BY <2>2
    <2> QED BY <2>1, <2>2
  <1>2. stored.params = second /\ stored.path = o.path
    <2>1. StoredV3(o).params = first /\ StoredV3(o).path = o.path
      BY DEF StoredV3
    <2> HIDE DEF first
    <2> QED BY <2>1 DEF MapSchemas
  <1>3. ExpandOperationV3(stored, expand).params = last
    <2> DEFINE expanded == MapSchemas(stored, LAMBDA id : expand[id])
    <2>1. expanded.params = third
      <3> HIDE DEF second, stored
      <3> QED BY <1>2 DEF MapSchemas
    <2>2. expanded = [path |-> expanded.path, auth |-> expanded.auth, servers |-> expanded.servers,
                      params |-> expanded.params, body |-> expanded.body, responses |-> expanded.responses]
      BY DEF MapSchemas
    <2> HIDE DEF expanded
    <2>3. ExpandOperationV3(stored, expand)
            = [expanded EXCEPT !.params = [k \in {Back(key) : key \in DOMAIN stored.params} |->
                                              @[CHOOSE key \in DOMAIN stored.params : Back(key) = k]]]
      <3>1. names = stored.path.names
        BY <1>2
      <3> HIDE DEF stored, names
      <3> QED BY <3>1 DEF ExpandOperationV3, expanded
    <2> HIDE DEF third, second, stored, Back
    <2>4. ExpandOperationV3(stored, expand)
            = [expanded EXCEPT !.params = [k \in {Back(key) : key \in DOMAIN second} |-> expanded.params[SourceOf(k)]]]
      BY <1>2, <2>3
    <2>5. ExpandOperationV3(stored, expand).params
            = [k \in {Back(key) : key \in DOMAIN second} |-> expanded.params[SourceOf(k)]]
      <3> DEFINE given == [k \in {Back(key) : key \in DOMAIN second} |-> expanded.params[SourceOf(k)]]
      <3> HIDE DEF given
      <3>1. [expanded EXCEPT !.params = given].params = given
        BY <2>2
      <3> QED BY <2>4, <3>1 DEF given
    <2> QED BY <2>1, <2>5
  <1> HIDE DEF stored, Back
  <1>4. \A k \in D : Stored(Key(k)) = k
    <2> SUFFICES ASSUME NEW k \in D PROVE Stored(Key(k)) = k
      OBVIOUS
    <2>1. Stored(Key(k)) \in D /\ Key(Stored(Key(k))) = Key(k)
      <3> HIDE DEF Key
      <3> QED OBVIOUS
    <2> HIDE DEF Key, Stored
    <2> QED BY <1>1, <2>1
  <1>5. /\ DOMAIN second = {Key(k) : k \in D} /\ DOMAIN third = DOMAIN second
        /\ \A k \in DOMAIN third : /\ third[k].required = o.params[Stored(k)].required
                                   /\ third[k].schema = expand[IdOfV3(o.params[Stored(k)].schema)]
    <2> HIDE DEF Key, Stored
    <2> QED OBVIOUS
  <1> HIDE DEF Key, Stored, first, second, third
  <1>6. {Back(key) : key \in DOMAIN second} = D
    BY <1>1, <1>5
  <1>7. \A k \in D : SourceOf(k) = Key(k)
    <2> SUFFICES ASSUME NEW k \in D PROVE SourceOf(k) = Key(k)
      OBVIOUS
    <2>1. Key(k) \in DOMAIN second /\ Back(Key(k)) = k
      BY <1>1, <1>5
    <2>2. SourceOf(k) \in DOMAIN second /\ Back(SourceOf(k)) = k
      BY <2>1
    <2> HIDE DEF SourceOf
    <2>3. PICK j \in D : SourceOf(k) = Key(j)
      BY <1>5, <2>2
    <2>4. j = k
      BY <1>1, <2>2, <2>3
    <2> QED BY <2>3, <2>4
  <1>8. DOMAIN last = D /\ \A k \in D : last[k] = third[Key(k)]
    <2> HIDE DEF SourceOf
    <2> QED BY <1>6, <1>7
  <1> HIDE DEF last
  <1>9. \A k \in D : /\ last[k].required = o.params[k].required
                     /\ last[k].schema = Unpoliced(o.params[k].schema)
    <2> SUFFICES ASSUME NEW k \in D
                 PROVE last[k].required = o.params[k].required /\ last[k].schema = Unpoliced(o.params[k].schema)
      OBVIOUS
    <2>1. Key(k) \in DOMAIN third
      BY <1>5
    <2> QED BY <1>4, <1>5, <1>8, <2>1
  <1> QED BY <1>3, <1>8, <1>9 DEF stored

LEMMA OperationBackV3 ==
  ASSUME NEW o, OperationForm(o, Schemas), PlacesForm(o), NEW expand,
         \A s \in RootsOf(o) : expand[IdOfV3(s)] = Unpoliced(s)
  PROVE  BackV3(o, ExpandOperationV3(MapSchemas(StoredV3(o), IdOfV3), expand))
  <1> DEFINE stored == StoredV3(o)
             hashed == MapSchemas(stored, IdOfV3)
             expanded == MapSchemas(hashed, LAMBDA id : expand[id])
             r == ExpandOperationV3(hashed, expand)
             ContentIs(given, content) ==
               /\ DOMAIN given = DOMAIN content
               /\ \A t \in DOMAIN content : given[t] = Unpoliced(content[t])
  <1>1. /\ DOMAIN r.params = DOMAIN o.params
        /\ \A k \in DOMAIN o.params : /\ r.params[k].required = o.params[k].required
                                      /\ r.params[k].schema = Unpoliced(o.params[k].schema)
    <2>1. \A k \in DOMAIN o.params : o.params[k].schema \in RootsOf(o)
      BY DEF RootsOf
    <2> QED BY <2>1, ParamsBackV3
  <1>2. /\ stored.auth = [n \in DOMAIN o.auth |-> [o.auth[n] EXCEPT !.identity = None]]
        /\ stored.servers = None /\ stored.responses = o.responses
        /\ stored.body = IF o.body = None THEN None ELSE [o.body EXCEPT !.required = None]
    BY DEF StoredV3
  <1> HIDE DEF stored
  <1>3. /\ hashed.auth = stored.auth /\ hashed.servers = None
        /\ hashed.responses = [s \in DOMAIN stored.responses |-> MapContent(stored.responses[s], IdOfV3)]
        /\ hashed.body = IF stored.body = None THEN None
                         ELSE [required |-> stored.body.required, content |-> MapContent(stored.body.content, IdOfV3)]
    BY <1>2 DEF MapSchemas
  <1> HIDE DEF hashed
  <1>4. /\ expanded.auth = stored.auth /\ expanded.servers = None
        /\ expanded.responses = [s \in DOMAIN hashed.responses |-> RenamedContent(hashed.responses[s], expand)]
        /\ expanded.body = IF hashed.body = None THEN None
                           ELSE [required |-> hashed.body.required,
                                 content |-> RenamedContent(hashed.body.content, expand)]
        /\ expanded = [path |-> expanded.path, auth |-> expanded.auth, servers |-> expanded.servers,
                       params |-> expanded.params, body |-> expanded.body, responses |-> expanded.responses]
    BY <1>3 DEF MapSchemas, MapContent, RenamedContent
  <1>5. /\ r.auth = expanded.auth /\ r.servers = expanded.servers
        /\ r.responses = expanded.responses /\ r.body = expanded.body
    <2>1. \E params : r = [expanded EXCEPT !.params = params]
      BY DEF ExpandOperationV3
    <2> HIDE DEF expanded, r
    <2> QED BY <1>4, <2>1
  <1> HIDE DEF expanded, r
  <1>6. ASSUME NEW content, RangeOf(content) \subseteq RootsOf(o)
        PROVE  ContentIs(RenamedContent(MapContent(content, IdOfV3), expand), content)
    <2>1. \A t \in DOMAIN content : expand[IdOfV3(content[t])] = Unpoliced(content[t])
      BY <1>6 DEF RangeOf
    <2> QED BY <2>1 DEF RenamedContent, MapContent
  <1>7. ASSUME NEW s \in DOMAIN o.responses PROVE ContentIs(r.responses[s], o.responses[s])
    <2>1. RangeOf(o.responses[s]) \subseteq RootsOf(o)
      BY DEF RootsOf
    <2>2. r.responses[s] = RenamedContent(MapContent(o.responses[s], IdOfV3), expand)
      BY <1>2, <1>3, <1>4, <1>5
    <2> HIDE DEF ContentIs
    <2> QED BY <1>6, <2>1, <2>2
  <1>8. DOMAIN r.responses = DOMAIN o.responses
    BY <1>2, <1>3, <1>4, <1>5
  <1>9. o.body = None => r.body = None
    BY <1>2, <1>3, <1>4, <1>5
  <1>10. ASSUME o.body # None
         PROVE  r.body # None /\ r.body.required = None /\ ContentIs(r.body.content, o.body.content)
    <2> DEFINE content == o.body.content
               ids == MapContent(content, IdOfV3)
               back == RenamedContent(ids, expand)
    <2>1. /\ o.body = [required |-> o.body.required, content |-> content]
          /\ content \in [DOMAIN content -> Schemas] /\ BodyIsSome(o.body)
      BY <1>10 DEF OperationForm, BodyForm
    <2>2. stored.body = [required |-> None, content |-> content]
      BY <1>2, <1>10, <2>1
    <2>3. RangeOf(content) \subseteq RootsOf(o)
      BY <1>10 DEF RootsOf
    <2>4. ContentIs(back, content)
      <3> HIDE DEF ContentIs, content
      <3> QED BY <1>6, <2>3
    <2>5. ids \in [DOMAIN content -> Hashes]
      <3>1. \A t \in DOMAIN content : content[t] \in Schemas
        BY <2>1
      <3>2. \A s \in Schemas : IdOfV3(s) \in Hashes
        BY DEF Hashes
      <3> HIDE DEF content
      <3> QED BY <3>1, <3>2 DEF MapContent
    <2> HIDE DEF content, ids, back
    <2>6. stored.body # None /\ stored.body.required = None /\ stored.body.content = content
      <3>1. [required |-> None, content |-> content] # None
        BY <1>10, <2>1 DEF BodyIsSome, content
      <3> QED BY <2>2, <3>1
    <2>7. hashed.body = [required |-> None, content |-> ids]
      BY <1>3, <2>6 DEF ids
    <2>8. hashed.body # None /\ hashed.body.required = None /\ hashed.body.content = ids
      <3>1. ids \in [DOMAIN content -> Schemas \cup Hashes]
        BY <2>5
      <3>2. [required |-> None, content |-> ids] # None
        BY <1>10, <2>1, <3>1 DEF BodyIsSome, content
      <3> QED BY <2>7, <3>2
    <2>9. r.body = [required |-> None, content |-> back]
      BY <1>4, <1>5, <2>8 DEF back
    <2>10. back \in [DOMAIN content -> Schemas \cup Hashes \cup Lax]
      <3>1. DOMAIN back = DOMAIN content /\ back = [t \in DOMAIN back |-> back[t]]
        BY <2>5 DEF back, RenamedContent
      <3>2. \A t \in DOMAIN content : content[t] \in Schemas /\ back[t] = Unpoliced(content[t])
        BY <2>1, <2>4 DEF back, ids, content
      <3> QED BY <3>1, <3>2 DEF Lax
    <2>11. [required |-> None, content |-> back] # None
      BY <1>10, <2>1, <2>10 DEF BodyIsSome, content
    <2>12. ContentIs(back, content)
      BY <2>4 DEF back, ids, content
    <2> HIDE DEF ContentIs
    <2>13. r.body # None /\ r.body.required = None /\ r.body.content = back
      BY <2>9, <2>11
    <2> QED BY <2>12, <2>13 DEF content
  <1>11. /\ r.auth = [n \in DOMAIN o.auth |-> [o.auth[n] EXCEPT !.identity = None]]
         /\ r.servers = None
    BY <1>2, <1>4, <1>5
  <1>12. BackV3(o, r)
    BY <1>1, <1>7, <1>8, <1>9, <1>10, <1>11 DEF BackV3
  <1> QED BY <1>12 DEF r, hashed, stored

(* What version 3 stores of an operation is of its schemas, and of all of  *)
(* them: no two parameters go by one name.                                 *)
LEMMA StoredRoots ==
  ASSUME NEW o, OperationForm(o, Schemas), PlacesForm(o)
  PROVE  RootsOf(StoredV3(o)) = RootsOf(o)
  <1> DEFINE D == DOMAIN o.params
             Key(k) == IF k.in = "path" THEN [in |-> "path", name |-> o.params[k].name] ELSE k
             Stored(k) == CHOOSE key \in D : Key(key) = k
             params == [k \in {Key(key) : key \in D} |->
                          [name |-> k.name, required |-> o.params[Stored(k)].required,
                           schema |-> o.params[Stored(k)].schema]]
             r == StoredV3(o)
  <1>1. /\ r.params = params /\ r.responses = o.responses
        /\ r.body = IF o.body = None THEN None ELSE [o.body EXCEPT !.required = None]
    BY DEF StoredV3
  <1>2. \A j, k \in D : Key(j) = Key(k) => j = k
    <2> SUFFICES ASSUME NEW j \in D, NEW k \in D, Key(j) = Key(k) PROVE j = k
      OBVIOUS
    <2>1. CASE j.in = "path"
      <3>1. k.in = "path" /\ o.params[j].name = o.params[k].name
        BY <2>1
      <3>2. PICK i \in DOMAIN o.path.names : j = Slot(i) /\ o.params[j].name = o.path.names[i]
        BY <2>1 DEF PlacesForm
      <3>3. PICK l \in DOMAIN o.path.names : k = Slot(l) /\ o.params[k].name = o.path.names[l]
        BY <3>1 DEF PlacesForm
      <3>4. i = l
        BY <3>1, <3>2, <3>3 DEF PlacesForm, IsInjective
      <3> QED BY <3>2, <3>3, <3>4
    <2>2. CASE j.in # "path"
      BY <2>2
    <2> QED BY <2>1, <2>2
  <1>3. \A k \in D : Stored(Key(k)) = k
    <2> SUFFICES ASSUME NEW k \in D PROVE Stored(Key(k)) = k
      OBVIOUS
    <2>1. Stored(Key(k)) \in D /\ Key(Stored(Key(k))) = Key(k)
      <3> HIDE DEF Key
      <3> QED OBVIOUS
    <2> HIDE DEF Key, Stored
    <2> QED BY <1>2, <2>1
  <1> HIDE DEF Key, Stored
  <1>4. DOMAIN params = {Key(k) : k \in D} /\ \A k \in D : params[Key(k)].schema = o.params[k].schema
    BY <1>3
  <1>5. {params[k].schema : k \in DOMAIN params} = {o.params[k].schema : k \in D}
    <2> HIDE DEF params, D
    <2> QED BY <1>4
  <1>6. ASSUME o.body # None
        PROVE  r.body # None /\ r.body.content = o.body.content
    <2> DEFINE content == o.body.content
    <2>1. /\ o.body = [required |-> o.body.required, content |-> content]
          /\ content \in [DOMAIN content -> Schemas] /\ BodyIsSome(o.body)
      BY <1>6 DEF OperationForm, BodyForm
    <2>2. r.body = [required |-> None, content |-> content]
      BY <1>1, <1>6, <2>1
    <2>3. [required |-> None, content |-> content] # None
      <3>1. content \in [DOMAIN content -> Schemas \cup Hashes \cup Lax]
        BY <2>1
      <3> HIDE DEF content
      <3> QED BY <1>6, <2>1, <3>1 DEF BodyIsSome, content
    <2> QED BY <2>2, <2>3
  <1>7. o.body = None => r.body = None
    BY <1>1
  <1> HIDE DEF params, r, D
  <1>8. RootsOf(r) = RootsOf(o)
    <2>1. {r.params[k].schema : k \in DOMAIN r.params} = {o.params[k].schema : k \in DOMAIN o.params}
      BY <1>1, <1>5 DEF D
    <2>2. (IF r.body = None THEN {} ELSE RangeOf(r.body.content)) = (IF o.body = None THEN {} ELSE RangeOf(o.body.content))
      BY <1>6, <1>7
    <2> QED BY <1>1, <2>1, <2>2 DEF RootsOf
  <1> QED BY <1>8 DEF r

LEMMA ContractBackV3 ==
  ASSUME NEW c, ContractForm(c, Schemas), KeysForm(c), NEW scope, Roots(c) \subseteq Gapless,
         \A op \in DOMAIN c : PlacesForm(c[op])
  PROVE  /\ DOMAIN ExpandV3(BuildV3(c, scope)) = DOMAIN c
         /\ \A op \in DOMAIN c : BackV3(c[op], ExpandV3(BuildV3(c, scope))[op])
  <1> DEFINE e == BuildV3(c, scope)
             stored == StoredAll(c)
             expand == ExpandedV3(e.schemas)
             Of(op) == CHOOSE k \in DOMAIN e.operations : k.method = op.method /\ k.path.shape = op.shape
  <1>1. EntryV3(e, stored, scope)
    BY BuiltV3Entry
  <1>2. ExpandV3(e) = [op \in {OpOf(key) : key \in DOMAIN e.operations} |->
                         ExpandOperationV3(e.operations[Of(op)], expand)]
    BY DEF ExpandV3, OpOf
  <1> HIDE DEF e
  <1>3. /\ e.schemas = TableOf(IdsV3Of, NestedV3Of, Roots(stored))
        /\ DOMAIN e.operations = DOMAIN stored
        /\ \A key \in DOMAIN stored : e.operations[key] = MapSchemas(stored[key], IdOfV3)
    BY <1>1 DEF EntryV3
  <1>4. /\ DOMAIN stored = {SpelledBy(c, op) : op \in DOMAIN c}
        /\ \A op \in DOMAIN c : OpOf(SpelledBy(c, op)) = op /\ stored[SpelledBy(c, op)] = StoredV3(c[op])
        /\ {OpOf(key) : key \in DOMAIN stored} = DOMAIN c
    BY StoredOps
  <1> HIDE DEF stored, expand
  <1>5. ASSUME NEW op \in DOMAIN c PROVE RootsOf(stored[SpelledBy(c, op)]) = RootsOf(c[op])
    <2>1. OperationForm(c[op], Schemas)
      BY DEF ContractForm
    <2> QED BY <1>4, <2>1, StoredRoots
  <1>6. Roots(stored) \in SUBSET Gapless
    <2>1. \A key \in DOMAIN stored : RootsOf(stored[key]) \subseteq Roots(c)
      BY <1>4, <1>5 DEF Roots
    <2>2. Roots(stored) \subseteq Roots(c)
      BY <2>1 DEF Roots
    <2> QED BY <2>2
  <1>7. \A s \in Gapless : IdOfV3(s) \in DOMAIN e.schemas => expand[IdOfV3(s)] = Unpoliced(s)
    <2>1. ClosedV3(e.schemas)
      BY <1>3, <1>6, TableV3IsClosed
    <2> QED BY <2>1, ExpandsBackV3 DEF expand
  <1>8. \A s \in Roots(stored) : expand[IdOfV3(s)] = Unpoliced(s)
    BY <1>3, <1>6, <1>7, TableV3IsClosed
  <1>9. ASSUME NEW op \in DOMAIN c
        PROVE  Of(op) = SpelledBy(c, op)
    <2> DEFINE found == Of(op)
    <2>1. SpelledBy(c, op) \in DOMAIN e.operations /\ OpOf(SpelledBy(c, op)) = op
      BY <1>3, <1>4
    <2>2. op = [method |-> op.method, shape |-> op.shape]
      BY DEF KeysForm
    <2>3. \A k : k.method = op.method /\ k.path.shape = op.shape <=> OpOf(k) = op
      BY <2>2 DEF OpOf
    <2>4. found \in DOMAIN e.operations /\ OpOf(found) = op
      BY <2>1, <2>3
    <2> HIDE DEF found
    <2>5. PICK other \in DOMAIN c : found = SpelledBy(c, other)
      BY <1>3, <1>4, <2>4
    <2>6. other = op
      BY <1>4, <2>4, <2>5
    <2> QED BY <2>5, <2>6 DEF found
  <1>10. DOMAIN ExpandV3(e) = DOMAIN c
    BY <1>2, <1>3, <1>4
  <1>11. ASSUME NEW op \in DOMAIN c PROVE BackV3(c[op], ExpandV3(e)[op])
    <2>1. ExpandV3(e)[op] = ExpandOperationV3(MapSchemas(StoredV3(c[op]), IdOfV3), expand)
      <3>1. ExpandV3(e)[op] = ExpandOperationV3(e.operations[Of(op)], expand)
        BY <1>2, <1>3, <1>4
      <3> HIDE DEF Of
      <3>2. e.operations[SpelledBy(c, op)] = MapSchemas(StoredV3(c[op]), IdOfV3)
        BY <1>3, <1>4
      <3> QED BY <1>9, <3>1, <3>2
    <2>2. \A s \in RootsOf(c[op]) : expand[IdOfV3(s)] = Unpoliced(s)
      <3>1. RootsOf(stored[SpelledBy(c, op)]) \subseteq Roots(stored)
        BY <1>4 DEF Roots
      <3> QED BY <1>5, <1>8, <3>1
    <2>3. OperationForm(c[op], Schemas)
      BY DEF ContractForm
    <2> QED BY <2>1, <2>2, <2>3, OperationBackV3
  <1> QED BY <1>10, <1>11 DEF e

-----------------------------------------------------------------------------
(* A comparison that does not know the policies of the old schema says     *)
(* nothing that one that knows them would not.                             *)
LEMMA UnpolicedReportsLess ==
  ASSUME NEW use \in Usages, NEW s \in Gapless, NEW t \in Schemas
  PROVE  DiffOf(use, Unpoliced(s), t) \subseteq DiffOf(use, s, t)
  <1> DEFINE Less(x, y) == DiffOf(use, Unpoliced(x), y) \subseteq DiffOf(use, x, y)
             Bad == {x \in Schemas : x \in Gapless /\ \E y \in Schemas : ~Less(x, y)}
  <1> SUFFICES ASSUME Bad # {} PROVE FALSE
    BY DEF Gapless
  <1>1. PICK x \in Bad : \A i \in Inner(x) : i \notin Bad
    BY Shallowest
  <1>2. PICK y \in Schemas : ~Less(x, y)
    BY <1>1
  <1>3. /\ x \in Schemas /\ x \in Gapless /\ Inner(x) \subseteq Gapless /\ Gapless \subseteq Schemas
        /\ x.kind \notin Composed
    BY <1>1, GaplessInside DEF Gapless
  <1>4. \A i \in Inner(x), z \in Schemas : Less(i, z)
    BY <1>1, <1>3
  <1>5. ASSUME NEW i \in Inner(x), NEW z \in Schemas, NEW place
        PROVE  DiffUnder(place, use, Unpoliced(i), z) \subseteq DiffUnder(place, use, i, z)
    <2>1. DiffOf(use, Unpoliced(i), z) \subseteq DiffOf(use, i, z)
      BY <1>4
    <2> QED BY <2>1 DEF DiffUnder, Under
  <1> DEFINE p == Unpoliced(x)
  <1>6. /\ p.kind = x.kind /\ p.nullable = x.nullable /\ p.format = x.format /\ p.enum = x.enum
        /\ p.props = [n \in DOMAIN x.props |-> Property(x.props[n].required, Unpoliced(x.props[n].schema))]
        /\ p.items = IF x.items = None THEN None ELSE Unpoliced(x.items)
        /\ p.additional = Unknown
    BY <1>3, UnpolicedParts
  <1>7. DiffOf(use, p, y) = DiffSchema(use, p, y) /\ DiffOf(use, x, y) = DiffSchema(use, x, y)
    BY <1>2, <1>3, UnpolicedAssumption, RecursionAssumption DEF UnpolicedAssumption, RecursionAssumption
  <1>8. ~(DiffSchema(use, p, y) \subseteq DiffSchema(use, x, y))
    BY <1>2, <1>7
  <1> HIDE DEF p, Bad, Less
  <1>9. /\ DiffKind(p, y) = DiffKind(x, y) /\ DiffNullable(use, p, y) = DiffNullable(use, x, y)
        /\ DiffFormat(p, y) = DiffFormat(x, y) /\ DiffEnum(use, p, y) = DiffEnum(use, x, y)
    BY <1>6 DEF DiffKind, DiffNullable, DiffFormat, DiffEnum
  <1>10. DiffProps(use, p, y) \subseteq DiffProps(use, x, y)
    <2>1. DOMAIN p.props = DOMAIN x.props
      BY <1>6
    <2>2. ASSUME NEW n \in DOMAIN x.props \cap DOMAIN y.props
          PROVE  DiffProperty(n, use, p.props[n], y.props[n]) \subseteq DiffProperty(n, use, x.props[n], y.props[n])
      <3>1. p.props[n].required = x.props[n].required /\ p.props[n].schema = Unpoliced(x.props[n].schema)
        BY <1>6 DEF Property
      <3>2. x.props[n].schema \in Inner(x) /\ y.props[n].schema \in Schemas
        BY <1>2, <1>3, PropertyInside
      <3>3. DiffUnder(<<n>>, use, p.props[n].schema, y.props[n].schema)
              \subseteq DiffUnder(<<n>>, use, x.props[n].schema, y.props[n].schema)
        BY <1>5, <3>1, <3>2
      <3> QED BY <3>1, <3>3 DEF DiffProperty
    <2> QED BY <2>1, <2>2 DEF DiffProps
  <1>11. DiffItems(use, p, y) \subseteq DiffItems(use, x, y)
    <2>1. CASE x.items = None
      BY <1>6, <2>1 DEF DiffItems
    <2>2. CASE x.items # None /\ p.items # None
      <3>1. CASE y.items = None
        BY <2>2, <3>1 DEF DiffItems
      <3>2. CASE y.items # None
        <4>1. x.items \in Inner(x) /\ y.items \in Schemas
          BY <1>2, <1>3, <2>2, <3>2, ItemsInside
        <4>2. DiffUnder(<<"items">>, use, p.items, y.items) \subseteq DiffUnder(<<"items">>, use, x.items, y.items)
          BY <1>5, <1>6, <2>2, <4>1
        <4> QED BY <2>2, <3>2, <4>2 DEF DiffItems
      <3> QED BY <3>1, <3>2
    <2>3. CASE x.items # None /\ p.items = None
      <3>1. Unpoliced(x.items) = None
        BY <1>6, <2>3
      <3>2. x.items \in Schemas
        BY <1>3, <2>3, ItemsInside
      <3> QED BY <3>1, <3>2, UnpolicedAssumption DEF UnpolicedAssumption, Lax
    <2> QED BY <2>1, <2>2, <2>3
  <1>12. DiffAdditional(use, p, y) = {}
    BY <1>6, Policies DEF DiffAdditional
  <1>13. DiffSchema(use, p, y) \subseteq DiffSchema(use, x, y)
    BY <1>3, <1>6, <1>9, <1>10, <1>11, <1>12 DEF DiffSchema
  <1> QED BY <1>8, <1>13

LEMMA UnpolicedChanges ==
  ASSUME NEW usage \in Usages, NEW s \in Gapless, NEW t \in Schemas, NEW at
  PROVE  SchemaChanges(usage, at, Unpoliced(s), t) \subseteq SchemaChanges(usage, at, s, t)
  <1>1. DiffOf(usage, Unpoliced(s), t) \subseteq DiffOf(usage, s, t)
    BY UnpolicedReportsLess
  <1> QED BY <1>1 DEF SchemaChanges, DiffUnder, Under

LEMMA UnpolicedContent ==
  ASSUME NEW usage \in Usages, NEW place, NEW old, NEW given, NEW new,
         DOMAIN given = DOMAIN old,
         \A t \in DOMAIN old : old[t] \in Gapless /\ given[t] = Unpoliced(old[t]),
         \A t \in DOMAIN new : new[t] \in Schemas
  PROVE  DiffContent(usage, place, given, new) \subseteq DiffContent(usage, place, old, new)
  <1>1. ASSUME NEW t \in DOMAIN old \cap DOMAIN new
        PROVE  SchemaChanges(usage, Append(place, t), given[t], new[t])
                 \subseteq SchemaChanges(usage, Append(place, t), old[t], new[t])
    BY UnpolicedChanges
  <1> QED BY <1>1 DEF DiffContent

(* What comes back is compared as what went in, requirements of            *)
(* authentication apart.                                                   *)
LEMMA BackReportsLess ==
  ASSUME NEW o, NEW n, NEW r, OperationForm(n, Schemas), RootsOf(o) \subseteq Gapless, BackV3(o, r)
  PROVE  DiffOperation(r, n) \subseteq DiffAuth(r.auth, n.auth) \cup DiffOperation(o, n)
  <1>1. /\ \A k \in DOMAIN n.params : n.params[k].schema \in Schemas
        /\ \A s \in DOMAIN n.responses : \A t \in DOMAIN n.responses[s] : n.responses[s][t] \in Schemas
        /\ n.body # None => \A t \in DOMAIN n.body.content : n.body.content[t] \in Schemas
    BY DEF OperationForm, ParamsForm, ResponsesForm, BodyForm
  <1>2. /\ \A k \in DOMAIN o.params : o.params[k].schema \in Gapless
        /\ \A s \in DOMAIN o.responses : \A t \in DOMAIN o.responses[s] : o.responses[s][t] \in Gapless
        /\ o.body # None => \A t \in DOMAIN o.body.content : o.body.content[t] \in Gapless
    BY DEF RootsOf, RangeOf
  <1>3. "request" \in Usages /\ "response" \in Usages
    BY DEF Usages
  <1>4. DiffServers(r.servers, n.servers) = {}
    BY DEF BackV3, DiffServers
  <1>5. DiffParameters(r.params, n.params) \subseteq DiffParameters(o.params, n.params)
    <2>1. DOMAIN r.params = DOMAIN o.params
      BY DEF BackV3
    <2> DEFINE Place(k) == <<k.in, k.name>>
               Within(old, k) == DiffRequired("request", Place(k), old[k].required, n.params[k].required)
                                   \cup SchemaChanges("request", Place(k), old[k].schema, n.params[k].schema)
               Outside(old) == {Change(Place(k), "removed", "breaking") : k \in DOMAIN old \ DOMAIN n.params}
                                 \cup {FieldAdded("request", Place(k), n.params[k].required) :
                                         k \in DOMAIN n.params \ DOMAIN old}
    <2>2. ASSUME NEW k \in DOMAIN o.params \cap DOMAIN n.params
          PROVE  Within(r.params, k) \subseteq Within(o.params, k)
      <3>1. r.params[k].required = o.params[k].required /\ r.params[k].schema = Unpoliced(o.params[k].schema)
        BY DEF BackV3
      <3>2. SchemaChanges("request", Place(k), r.params[k].schema, n.params[k].schema)
              \subseteq SchemaChanges("request", Place(k), o.params[k].schema, n.params[k].schema)
        BY <1>1, <1>2, <1>3, <3>1, UnpolicedChanges
      <3> QED BY <3>1, <3>2
    <2>3. \A old : DiffParameters(old, n.params)
                     = Outside(old) \cup UNION {Within(old, k) : k \in DOMAIN old \cap DOMAIN n.params}
      BY DEF DiffParameters
    <2>4. Outside(r.params) = Outside(o.params)
      BY <2>1
    <2> HIDE DEF Within, Outside
    <2>5. UNION {Within(r.params, k) : k \in DOMAIN r.params \cap DOMAIN n.params}
            \subseteq UNION {Within(o.params, k) : k \in DOMAIN o.params \cap DOMAIN n.params}
      BY <2>1, <2>2
    <2> QED BY <2>3, <2>4, <2>5
  <1>6. DiffResponses(r.responses, n.responses) \subseteq DiffResponses(o.responses, n.responses)
    <2>1. DOMAIN r.responses = DOMAIN o.responses
      BY DEF BackV3
    <2>2. ASSUME NEW s \in DOMAIN o.responses \cap DOMAIN n.responses, NEW place
          PROVE  DiffContent("response", place, r.responses[s], n.responses[s])
                   \subseteq DiffContent("response", place, o.responses[s], n.responses[s])
      <3>1. /\ DOMAIN r.responses[s] = DOMAIN o.responses[s]
            /\ \A t \in DOMAIN o.responses[s] : r.responses[s][t] = Unpoliced(o.responses[s][t])
        BY DEF BackV3
      <3> QED BY <1>1, <1>2, <1>3, <3>1, UnpolicedContent
    <2> QED BY <2>1, <2>2 DEF DiffResponses
  <1>7. DiffBodies(r.body, n.body) \subseteq DiffBodies(o.body, n.body)
    <2>1. CASE o.body = None
      BY <2>1 DEF BackV3, DiffBodies
    <2>2. CASE o.body # None /\ n.body = None
      BY <2>2 DEF BackV3, DiffBodies
    <2>3. CASE o.body # None /\ n.body # None
      <3>1. /\ r.body # None /\ r.body.required = None
            /\ DOMAIN r.body.content = DOMAIN o.body.content
            /\ \A t \in DOMAIN o.body.content : r.body.content[t] = Unpoliced(o.body.content[t])
        BY <2>3 DEF BackV3
      <3>2. DiffContent("request", <<"request">>, r.body.content, n.body.content)
              \subseteq DiffContent("request", <<"request">>, o.body.content, n.body.content)
        BY <1>1, <1>2, <1>3, <2>3, <3>1, UnpolicedContent
      <3> QED BY <2>3, <3>1, <3>2 DEF DiffBodies
    <2> QED BY <2>1, <2>2, <2>3
  <1> QED BY <1>4, <1>5, <1>6, <1>7 DEF DiffOperation

(* Changes of requirements are told by their place; and there are none if  *)
(* nothing was lost but identities.                                        *)
LEMMA AuthPlaces ==
  ASSUME NEW old, NEW new, NEW c \in DiffAuth(old, new)
  PROVE  c.at[1] = "auth"
  BY DEF DiffAuth, DiffScopes, DiffScheme, Change

LEMMA AnonymousAuthSilent ==
  ASSUME NEW auth, \A n \in DOMAIN auth : DOMAIN auth[n] = {"kind", "identity", "scopes"}
  PROVE  DiffAuth([n \in DOMAIN auth |-> [auth[n] EXCEPT !.identity = None]], auth) = {}
  <1> DEFINE old == [n \in DOMAIN auth |-> [auth[n] EXCEPT !.identity = None]]
  <1>1. DOMAIN old = DOMAIN auth
    OBVIOUS
  <1>2. ASSUME NEW n \in DOMAIN auth
        PROVE  old[n].kind = auth[n].kind /\ old[n].identity = None /\ old[n].scopes = auth[n].scopes
    OBVIOUS
  <1> HIDE DEF old
  <1>3. \A n \in DOMAIN auth : DiffScheme(n, old[n], auth[n]) = {} /\ DiffScopes(n, old[n], auth[n]) = {}
    BY <1>2 DEF DiffScheme, DiffScopes
  <1>4. \A n \in DOMAIN auth : ~IsKnown(old[n].identity)
    BY <1>2 DEF IsKnown
  <1>5. DiffAuth(old, auth) = {}
    <2> DEFINE byIdentity == {p \in (DOMAIN old) \X (DOMAIN auth) :
                                IsKnown(old[p[1]].identity) /\ old[p[1]].identity = auth[p[2]].identity}
               oldLeft == DOMAIN old \ {p[1] : p \in byIdentity}
               newLeft == DOMAIN auth \ {p[2] : p \in byIdentity}
               byName == oldLeft \cap newLeft
    <2>1. byIdentity = {}
      BY <1>1, <1>4
    <2>2. DiffAuth(old, auth)
            = (UNION {DiffScopes(p[2], old[p[1]], auth[p[2]]) : p \in byIdentity})
                \cup (UNION {DiffScheme(n, old[n], auth[n]) \cup DiffScopes(n, old[n], auth[n]) : n \in byName})
                \cup {Change(<<"auth", n>>, "removed", "nonBreaking") : n \in oldLeft \ byName}
                \cup {Change(<<"auth", n>>, "added", "breaking") : n \in newLeft \ byName}
      BY DEF DiffAuth
    <2> HIDE DEF byIdentity
    <2>3. oldLeft = DOMAIN auth /\ newLeft = DOMAIN auth
      BY <1>1, <2>1
    <2> HIDE DEF oldLeft, newLeft
    <2>4. UNION {DiffScopes(p[2], old[p[1]], auth[p[2]]) : p \in byIdentity} = {}
      BY <2>1
    <2>5. UNION {DiffScheme(n, old[n], auth[n]) \cup DiffScopes(n, old[n], auth[n]) : n \in byName} = {}
      BY <1>3, <2>3
    <2>6. oldLeft \ byName = {} /\ newLeft \ byName = {}
      BY <2>3
    <2> HIDE DEF byName
    <2> QED BY <2>2, <2>4, <2>5, <2>6
  <1> QED BY <1>5 DEF old

LEMMA BuiltRequirements ==
  ASSUME NEW docs, DocsAssumption(docs), NEW d \in docs, Build(d) # None, NEW op \in DOMAIN Build(d),
         NEW n \in DOMAIN Build(d)[op].auth
  PROVE  DOMAIN Build(d)[op].auth[n] = {"kind", "identity", "scopes"}
  <1> DEFINE a == Alternatives(d, op)
  <1>1. Build(d)[op].auth = NormalizeAuth(d, a) /\ Alternating(a)
    BY BuiltOperation
  <1> HIDE DEF a
  <1>2. Build(d)[op].auth[n] = Requirement(d, Asked(a, LastOf(d, a, n)))
    BY <1>1, AuthIs
  <1> QED BY <1>2 DEF Requirement

LEMMA InScope ==
  ASSUME NEW c, NEW scope
  PROVE  /\ \A op \in DOMAIN ScopeCurrent(c, scope) : op \in DOMAIN c /\ ScopeCurrent(c, scope)[op] = c[op]
         /\ \A op \in DOMAIN c : scope = {} \/ op \in scope => op \in DOMAIN ScopeCurrent(c, scope)
         /\ scope # {} => DOMAIN ScopeCurrent(c, scope) \subseteq scope
  BY DEF ScopeCurrent

(* Operation by operation, and of the endpoints.                           *)
LEMMA LegacyReportsLess ==
  ASSUME NEW docs, DocsAssumption(docs), NEW locked \in docs, Build(locked) # None,
         NEW d \in docs, Build(d) # None, Roots(Build(locked)) \subseteq Gapless,
         NEW scope, NEW scoped, scoped = ScopeCurrent(Build(locked), scope), scope # {} => scope = DOMAIN scoped,
         NEW c \in DiffContracts(ExpandV3(BuildV3(scoped, scope)), ScopeCurrent(Build(d), scope)),
         c.at[1] # "auth" \/ d = locked
  PROVE  c \in DiffContracts(Build(locked), Build(d))
  <1> DEFINE old == Build(locked)
             new == Build(d)
             back == ExpandV3(BuildV3(scoped, scope))
             now == ScopeCurrent(Build(d), scope)
  <1>1. ContractForm(old, Schemas) /\ KeysForm(old) /\ ContractForm(new, Schemas)
    BY BuildForm
  <1>2. \A op \in DOMAIN scoped : op \in DOMAIN old /\ scoped[op] = old[op]
    BY InScope
  <1>3. \A op \in DOMAIN now : op \in DOMAIN new /\ now[op] = new[op]
    BY InScope
  <1>4. DOMAIN back = DOMAIN scoped /\ \A op \in DOMAIN scoped : BackV3(scoped[op], back[op])
    <2>1. ContractForm(scoped, Schemas) /\ KeysForm(scoped)
      <3>1. scoped = [op \in DOMAIN scoped |-> scoped[op]]
        BY <1>1 DEF ScopeCurrent, ContractForm
      <3> QED BY <1>1, <1>2, <3>1 DEF ContractForm, KeysForm
    <2>2. Roots(scoped) \subseteq Gapless
      BY <1>2 DEF Roots
    <2>3. \A op \in DOMAIN scoped : PlacesForm(scoped[op])
      BY <1>2, BuiltPlaces
    <2> QED BY <2>1, <2>2, <2>3, ContractBackV3
  <1> HIDE DEF old, new, back, now
  <1>5. ASSUME NEW op \in DOMAIN back \cap DOMAIN now, NEW e \in DiffOperation(back[op], now[op]),
               e.at[1] # "auth" \/ d = locked
        PROVE  e \in DiffOperation(old[op], new[op])
    <2>1. BackV3(old[op], back[op]) /\ now[op] = new[op] /\ op \in DOMAIN new /\ op \in DOMAIN old
      BY <1>2, <1>3, <1>4
    <2>2. RootsOf(old[op]) \subseteq Gapless /\ OperationForm(new[op], Schemas)
      BY <1>1, <2>1 DEF Roots, ContractForm, old
    <2>3. e \in DiffAuth(back[op].auth, new[op].auth) \cup DiffOperation(old[op], new[op])
      BY <2>1, <2>2, BackReportsLess
    <2>4. ASSUME e \in DiffAuth(back[op].auth, new[op].auth) PROVE FALSE
      <3>1. e.at[1] = "auth"
        BY <2>4, AuthPlaces
      <3>2. new = old
        BY <1>5, <3>1 DEF old, new
      <3>3. back[op].auth = [n \in DOMAIN old[op].auth |-> [old[op].auth[n] EXCEPT !.identity = None]]
        BY <2>1 DEF BackV3
      <3>4. \A n \in DOMAIN old[op].auth : DOMAIN old[op].auth[n] = {"kind", "identity", "scopes"}
        BY <2>1, BuiltRequirements DEF old
      <3>5. DiffAuth(back[op].auth, old[op].auth) = {}
        BY <3>3, <3>4, AnonymousAuthSilent
      <3> QED BY <2>4, <3>2, <3>5
    <2> QED BY <2>3, <2>4
  <1>6. c \in DiffContracts(back, now)
    BY DEF back, now
  <1>7. CASE \E op \in DOMAIN back \ DOMAIN now : c = Endpoint(op, "removed", "breaking")
    <2>1. PICK op \in DOMAIN back \ DOMAIN now : c = Endpoint(op, "removed", "breaking")
      BY <1>7
    <2>2. op \in DOMAIN scoped /\ op \in DOMAIN old
      BY <1>2, <1>4
    <2>3. op \notin DOMAIN new
      BY <2>1, <2>2, InScope DEF now, new
    <2>4. c \in DiffContracts(old, new)
      BY <2>1, <2>2, <2>3 DEF DiffContracts
    <2> QED BY <2>4 DEF old, new
  <1>8. CASE \E op \in DOMAIN now \ DOMAIN back : c = Endpoint(op, "added", "nonBreaking")
    <2>1. PICK op \in DOMAIN now \ DOMAIN back : c = Endpoint(op, "added", "nonBreaking")
      BY <1>8
    <2>2. op \in DOMAIN new /\ op \notin DOMAIN scoped
      BY <1>3, <1>4, <2>1
    <2>3. scope = {}
      BY <2>1, <2>2, InScope DEF now
    <2>4. op \notin DOMAIN old
      BY <2>2, <2>3, InScope DEF old
    <2>5. c \in DiffContracts(old, new)
      BY <2>1, <2>2, <2>4 DEF DiffContracts
    <2> QED BY <2>5 DEF old, new
  <1>9. CASE \E op \in DOMAIN back \cap DOMAIN now : \E e \in DiffOperation(back[op], now[op]) : c = At(op, e)
    <2>0. PICK op \in DOMAIN back \cap DOMAIN now : \E e \in DiffOperation(back[op], now[op]) : c = At(op, e)
      BY <1>9
    <2>1. PICK e \in DiffOperation(back[op], now[op]) : c = At(op, e)
      BY <2>0
    <2>2. e.at = c.at
      BY <2>1 DEF At
    <2>3. e \in DiffOperation(old[op], new[op])
      BY <1>5, <2>1, <2>2
    <2>4. op \in DOMAIN old \cap DOMAIN new
      BY <1>2, <1>3, <1>4
    <2>5. c \in DiffContracts(old, new)
      BY <2>1, <2>3, <2>4 DEF DiffContracts
    <2> QED BY <2>5 DEF old, new
  <1> QED BY <1>6, <1>7, <1>8, <1>9 DEF DiffContracts

(* Whatever the documents: of schemas that version 3 gives back, a lock of *)
(* version 3 reports nothing that a comparison of the two documents would  *)
(* not, names of schemes apart, and nothing at all of a document that has  *)
(* not changed; and a lock of version 2 no operation that would not be     *)
(* reported (src/lockfile/v3/schema.rs, src/lockfile/mod.rs:715).          *)
THEOREM OldLocksAreQuiet == Spec => []OldLocksInventNothing
  <1>1. VerifyInv => OldLocksInventNothing
    <2> DEFINE old == Build(lockedDoc)
               new == Build(doc)
               full == DiffContracts(old, new)
    <2> SUFFICES ASSUME VerifyInv, Verified, ~edited, lock.version < 4
                 PROVE  CASE lock.version = 3 ->
                               LegacyGap \/ {c \in verdict.report : c.at[1] # "auth" \/ doc = lockedDoc} \subseteq full
                          [] lock.version = 2 -> {c.op : c \in verdict.report} \subseteq {c.op : c \in full}
      BY DEF OldLocksInventNothing
    <2>1. /\ LockOK /\ verdict = Outcome /\ verdict.loaded /\ WrittenLock(lock, lockedDoc)
          /\ case \in Cases /\ doc \in case.docs
      BY DEF VerifyInv, Verified, LockOK
    <2>2. /\ DocsAssumption(case.docs) /\ lockedDoc \in case.docs /\ old # None
          /\ new # None /\ verdict.report = Report(lock, new)
      <3>1. DocsAssumption(case.docs) /\ lockedDoc \in case.docs /\ old # None
        BY <2>1, CasesAssumption DEF CasesAssumption, LockOK
      <3>2. new # None /\ verdict.report = Report(lock, new)
        BY <2>1 DEF Outcome, Refused, Judged
      <3> QED BY <3>1, <3>2
    <2>3. PICK selectors \in case.selections, version \in {2, 3, 4} :
             /\ ScopeContract(old, selectors) # None
             /\ lock = Entry(ScopeContract(old, selectors), selectors, version)
             /\ version = 2 => selectors = <<>>
      BY <2>1 DEF WrittenLock
    <2> DEFINE scoped == ScopeContract(old, selectors)
               scope == ScopeOf(selectors)
    <2>4. /\ lock = Entry(scoped, selectors, version)
          /\ ContractForm(scoped, Schemas) /\ scoped = ScopeCurrent(old, scope)
          /\ scope # {} => scope = DOMAIN scoped
          /\ lock.version = version
      BY <2>1, <2>2, <2>3, WrittenLocks
    <2>5. ASSUME lock.version = 3, ~LegacyGap, NEW c \in verdict.report, c.at[1] # "auth" \/ doc = lockedDoc
          PROVE  c \in full
      <3>1. Roots(old) \subseteq Gapless
        <4>1. Roots(old) \subseteq Schemas
          BY <2>2 DEF DocsAssumption
        <4> QED BY <2>5, <4>1 DEF LegacyGap, Gapless
      <3>2. lock = BuildV3(scoped, scope)
        BY <2>4, <2>5 DEF Entry
      <3> HIDE DEF scoped, scope, old, new
      <3>3. lock.scope = scope
        BY <3>2 DEF BuildV3
      <3>4. Report(lock, new) = DiffContracts(ExpandV3(lock), ScopeCurrent(new, lock.scope))
        BY <2>5 DEF Report
      <3>5. c \in DiffContracts(ExpandV3(BuildV3(scoped, scope)), ScopeCurrent(new, scope))
        BY <2>2, <2>5, <3>2, <3>3, <3>4
      <3> QED BY <2>1, <2>2, <2>4, <2>5, <3>1, <3>5, LegacyReportsLess DEF old, new
    <2>6. ASSUME lock.version = 2, NEW c \in verdict.report
          PROVE  \E e \in full : e.op = c.op
      <3>1. scoped = old
        BY <2>3, <2>4, <2>6 DEF ScopeContract
      <3>2. lock.routes = {[method |-> op.method, path |-> old[op].path] : op \in DOMAIN old}
        BY <2>4, <2>6, <3>1 DEF Entry
      <3>3. \A op \in DOMAIN old : op = [method |-> op.method, shape |-> old[op].path.shape]
        BY <2>2, BuildForm DEF KeysForm
      <3> HIDE DEF scoped, scope, old, new
      <3> DEFINE route(op) == [method |-> op.method, path |-> old[op].path]
      <3>4. {SelectedBy(r) : r \in lock.routes} = DOMAIN old
        <4>1. \A op \in DOMAIN old : SelectedBy(route(op)) = op
          BY <3>3 DEF SelectedBy
        <4> HIDE DEF route
        <4>2. lock.routes = {route(op) : op \in DOMAIN old}
          BY <3>2 DEF route
        <4> QED BY <4>1, <4>2
      <3>5. Report(lock, new) = DiffRoutes(lock.routes, new)
        BY <2>6 DEF Report
      <3>6. \/ \E op \in DOMAIN old \ DOMAIN new : c = Endpoint(op, "removed", "breaking")
            \/ \E op \in DOMAIN new \ DOMAIN old : c = Endpoint(op, "added outside route-only lock", "warning")
        BY <2>2, <2>6, <3>4, <3>5 DEF DiffRoutes
      <3>7. \A op, what, severity : Endpoint(op, what, severity).op = op
        BY DEF Endpoint, At
      <3>8. CASE \E op \in DOMAIN old \ DOMAIN new : c = Endpoint(op, "removed", "breaking")
        BY <3>7, <3>8 DEF DiffContracts
      <3>9. CASE \E op \in DOMAIN new \ DOMAIN old : c = Endpoint(op, "added outside route-only lock", "warning")
        <4>1. PICK op \in DOMAIN new \ DOMAIN old : c = Endpoint(op, "added outside route-only lock", "warning")
          BY <3>9
        <4>2. Endpoint(op, "added", "nonBreaking") \in full
          BY <4>1 DEF DiffContracts
        <4>3. Endpoint(op, "added", "nonBreaking").op = c.op
          BY <4>1 DEF Endpoint, At
        <4> HIDE DEF full
        <4> QED BY <4>2, <4>3
      <3> QED BY <3>6, <3>8, <3>9
    <2> HIDE DEF full
    <2>7. lock.version \in {2, 3}
      BY <2>4
    <2>8. CASE lock.version = 3
      BY <2>5, <2>8
    <2>9. CASE lock.version = 2
      BY <2>6, <2>9
    <2> QED BY <2>7, <2>8, <2>9
  <1> QED BY <1>1, InvHolds, PTL
=============================================================================
