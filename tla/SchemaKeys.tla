----------------------------- MODULE SchemaKeys ------------------------------
(***************************************************************************)
(* The two keys of src/contract/mod.rs that branches of a composed schema  *)
(* are compared by.                                                        *)
(***************************************************************************)
EXTENDS ContractSchema

NamesOf(s) == SelectSeq(AllNames, LAMBDA n : n \in DOMAIN s.props)

RECURSIVE AllInside(_)
AllInside(s) == {s} \cup UNION {AllInside(t) : t \in Inner(s)}

RECURSIVE StructuralKey(_)
StructuralKey(s) == KeyFrom(MapInner(s, StructuralKey))

(* A schema whose cycle references refer to nothing.                       *)
RECURSIVE SameTargets(_)
SameTargets(s) == [MapInner(s, SameTargets) EXCEPT !.target = None]

(* Shape: the schema's own kind, then the names inside it, in one flat     *)
(* sequence, as the code encodes them: nesting leaves no trace.            *)
RECURSIVE Topology(_)
Topology(s) ==
    LET OfProps == [i \in DOMAIN NamesOf(s) |->
                      <<NamesOf(s)[i]>> \o Topology(s.props[NamesOf(s)[i]].schema)]
        OfItems == IF s.items = None THEN <<>> ELSE <<"items">> \o Topology(s.items)
        OfBranches == [i \in DOMAIN s.branches |-> Topology(s.branches[i])] IN
    FlattenSeq(OfProps) \o OfItems \o FlattenSeq(OfBranches)

ShapeKey(s) == <<s.kind, Topology(s)>>
=============================================================================
