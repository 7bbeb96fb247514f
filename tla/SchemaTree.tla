------------------------------ MODULE SchemaTree ------------------------------
(***************************************************************************)
(* The schemas there are, as normalising gives them (SchemaNormalize):     *)
(* everything a schema says is said of its kind, and branches are in the   *)
(* order of their keys.                                                    *)
(***************************************************************************)
EXTENDS ContractSchema

CONSTANTS
    Schemas,    \* the schemas there are
    Depth(_),   \* how deep a schema is
    Nested(_)   \* a schema and all that are inside it, at any depth

SchemaFields(s) ==
    s = [kind |-> s.kind, nullable |-> s.nullable, format |-> s.format, enum |-> s.enum, props |-> s.props,
         items |-> s.items, additional |-> s.additional, branches |-> s.branches, target |-> s.target]

PropsKnown(s) ==
    /\ DOMAIN s.props \subseteq KnownNames
    /\ s.props = [n \in DOMAIN s.props |-> Property(s.props[n].required, s.props[n].schema)]
    /\ \A n \in DOMAIN s.props : s.props[n].required \in BOOLEAN

AdditionalKnown(s) ==
    \/ s.additional \in {Forbidden, AnyValue}
    \/ s.additional = ValuesOf(s.additional.schema) /\ s.additional.schema # None

BranchesOnly(s) ==
    /\ s.props = NoProps /\ s.items = None /\ s.additional = Forbidden

WellFormed(s) ==
    /\ SchemaFields(s)
    /\ s.kind \in Kinds /\ s.nullable \in BOOLEAN
    /\ PropsKnown(s) /\ AdditionalKnown(s)
    /\ s.items # None => s.kind = "array"
    /\ s.kind = "array" => s.props = NoProps
    /\ s.kind # "cycleRef" => s.target = None
    /\ IF s.kind \in Composed THEN BranchesOnly(s) ELSE s.branches = <<>>
    /\ s.branches = ByKey(ToSet(s.branches))

SchemasAssumption ==
    /\ None \notin Schemas
    /\ \A s \in Schemas : WellFormed(s)
    /\ \A s \in Schemas : Inner(s) \subseteq Schemas
    /\ \A s \in Schemas : Depth(s) \in Nat /\ \A t \in Inner(s) : Depth(t) < Depth(s)
    /\ \A s \in Schemas : Nested(s) = {s} \cup UNION {Nested(t) : t \in Inner(s)}
ASSUME SchemasAssumption
=============================================================================
