----------------------------- MODULE SchemaDiff ------------------------------
(***************************************************************************)
(* diff_schema of src/diff/mod.rs: what has changed between two schemas    *)
(* of a request or a response, and how serious it is.  The report is a     *)
(* set: a change is told from another one by its place, counted from the   *)
(* schemas compared, and what it says.  The report of inner schemas is a   *)
(* parameter, and so are the keys of branches: SchemaRecursion puts        *)
(* DiffSchema itself and the keys of SchemaKeys in their places.           *)
(***************************************************************************)
EXTENDS ContractSchema, TLC

CONSTANTS
    DiffOf(_, _, _),  \* the report of two inner schemas, given the usage
    ShapeOf(_)        \* its shape key

(* A report of inner schemas, as one of the schemas they are in.           *)
Under(place, report) == {Change(place \o c.at, c.what, c.severity) : c \in report}

DiffUnder(place, usage, old, new) == Under(place, DiffOf(usage, old, new))

(* Cycle references are equal whatever they refer to (eq_kind).            *)
DiffKind(old, new) ==
    IF old.kind = new.kind THEN {} ELSE {Change(<<>>, "type", "breaking")}

DiffNullable(usage, old, new) ==
    IF old.nullable = new.nullable THEN {}
    ELSE {Change(<<>>, "nullable", IF new.nullable THEN Widened(usage) ELSE Narrowed(usage))}

DiffFormat(old, new) ==
    IF old.format = new.format THEN {} ELSE {Change(<<>>, "format", "warning")}

DiffEnum(usage, old, new) ==
    {Change(<<value>>, "valueAdded", Widened(usage)) : value \in new.enum \ old.enum}
      \cup {Change(<<value>>, "valueRemoved", Narrowed(usage)) : value \in old.enum \ new.enum}

FieldRemoved(name) == Change(<<name>>, "removed", "breaking")

(* A property that both sides have.                                        *)
DiffProperty(name, usage, old, new) ==
    DiffRequired(usage, <<name>>, old.required, new.required)
      \cup DiffUnder(<<name>>, usage, old.schema, new.schema)

(* A faulty form: an optional field of a request may go.                   *)
DiffPropsForgiving(usage, old, new) ==
    LET Gone == DOMAIN old.props \ DOMAIN new.props
        Missed == {n \in Gone : usage = "response" \/ old.props[n].required}
        Fresh == DOMAIN new.props \ DOMAIN old.props
        Common == DOMAIN old.props \cap DOMAIN new.props IN
    {FieldRemoved(n) : n \in Missed}
      \cup {Change(<<n>>, "removed", "nonBreaking") : n \in Gone \ Missed}
      \cup {FieldAdded(usage, <<n>>, new.props[n].required) : n \in Fresh}
      \cup UNION {DiffProperty(n, usage, old.props[n], new.props[n]) : n \in Common}

DiffProps(usage, old, new) ==
    LET Gone == DOMAIN old.props \ DOMAIN new.props
        Fresh == DOMAIN new.props \ DOMAIN old.props
        Common == DOMAIN old.props \cap DOMAIN new.props IN
    {FieldRemoved(n) : n \in Gone}
      \cup {FieldAdded(usage, <<n>>, new.props[n].required) : n \in Fresh}
      \cup UNION {DiffProperty(n, usage, old.props[n], new.props[n]) : n \in Common}

DiffItems(usage, old, new) ==
    LET place == <<"items">> IN
    IF old.items = None
    THEN IF new.items = None THEN {} ELSE {FieldAdded(usage, place, TRUE)}
    ELSE IF new.items = None THEN {Change(place, "removed", Widened(usage))}
    ELSE DiffUnder(place, usage, old.items, new.items)

(* diff_additional_properties: nothing is said of a policy that is not     *)
(* known.  The faulty form forgets a pair.                                 *)
NarrowerPoliciesTwo == {<<"any", "forbidden">>, <<"schema", "forbidden">>}
NarrowerPolicies == {<<"any", "forbidden">>, <<"any", "schema">>, <<"schema", "forbidden">>}

DiffAdditional(usage, old, new) ==
    LET place == <<"additionalProperties">>
        policies == <<old.additional.policy, new.additional.policy>> IN
    IF "unknown" \in {policies[1], policies[2]} THEN {}
    ELSE IF policies = <<"schema", "schema">>
    THEN DiffUnder(place, usage, old.additional.schema, new.additional.schema)
    ELSE IF policies[1] = policies[2] THEN {}
    ELSE {Change(place, "policy",
                 IF policies \in NarrowerPolicies THEN Narrowed(usage) ELSE Widened(usage))}

(* A branch is told by its position, in the list of the new schema if it   *)
(* is there.                                                               *)
BranchPlace(new, i) == <<new.kind, ToString(i)>>

(* A faulty form: branches of one shape are taken for one.                 *)
UnmatchedShapes(s, other) ==
    {i \in DOMAIN s.branches : \A j \in DOMAIN other.branches : ShapeOf(s.branches[i]) # ShapeOf(other.branches[j])}

(* Positions of the branches of one schema that are not in the other.      *)
Unmatched(s, other) ==
    {i \in DOMAIN s.branches : \A j \in DOMAIN other.branches : KeyOf(s.branches[i]) # KeyOf(other.branches[j])}

(* The one at i is the only unmatched one of the given shape.              *)
OnlyOfShape(shape, i, s, other) ==
    {k \in Unmatched(s, other) : ShapeOf(s.branches[k]) = shape} = {i}

(* Positions of the old branches, and of the new ones they go with: both   *)
(* are the only ones of their shape.                                       *)
Pairs(old, new) ==
    {p \in Unmatched(old, new) \X Unmatched(new, old) :
        LET shape == ShapeOf(old.branches[p[1]]) IN
        OnlyOfShape(shape, p[1], old, new) /\ OnlyOfShape(shape, p[2], new, old)}

(* diff_branches: equal ones go in pairs; of the others, two go in a pair  *)
(* if they are the only ones of their shape; the rest were removed or      *)
(* added.                                                                  *)
DiffBranches(usage, old, new) ==
    LET pairs == Pairs(old, new) IN
    (UNION {DiffUnder(BranchPlace(new, p[2]), usage, old.branches[p[1]], new.branches[p[2]]) : p \in pairs})
      \cup {Change(BranchPlace(new, i), "removed", Narrowed(usage)) :
               i \in Unmatched(old, new) \ {p[1] : p \in pairs}}
      \cup {Change(BranchPlace(new, i), "added", Widened(usage)) :
               i \in Unmatched(new, old) \ {p[2] : p \in pairs}}

(* Schemas that stay composed are compared by their branches only.         *)
DiffSchema(usage, old, new) ==
    DiffKind(old, new) \cup DiffNullable(usage, old, new) \cup DiffFormat(old, new)
      \cup DiffEnum(usage, old, new)
      \cup IF old.kind \in Composed /\ old.kind = new.kind
           THEN DiffBranches(usage, old, new)
           ELSE DiffProps(usage, old, new) \cup DiffItems(usage, old, new)
                  \cup DiffAdditional(usage, old, new)
=============================================================================
