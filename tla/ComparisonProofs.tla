-------------------------- MODULE ComparisonProofs ---------------------------
(***************************************************************************)
(* What the comparison promises: of schemas, for every depth; of           *)
(* contracts, whatever compares the schemas in them (SchemaChanges); and   *)
(* what the configuration may then do to an exit code, for every report    *)
(* and every sequence of configuration files.                              *)
(***************************************************************************)
EXTENDS SchemaPromises, ContractDiff, VerifyPolicy, NaturalFacts, TLAPS

(* Induction over schemas: of a set of them that is not empty, one has no  *)
(* member of the set directly inside.                                      *)
LEMMA Shallowest ==
  ASSUME NEW S \in SUBSET Schemas, S # {}
  PROVE  \E s \in S : \A t \in Inner(s) : t \notin S
  <1> DEFINE D == {Depth(s) : s \in S}
  <1>1. D \in SUBSET Nat /\ D # {}
    BY SchemasAssumption DEF SchemasAssumption
  <1>2. PICK d \in D : \A e \in D : d <= e
    BY <1>1, LeastNumber
  <1>3. PICK s \in S : Depth(s) = d
    BY <1>2
  <1>4. ASSUME NEW t \in Inner(s), t \in S PROVE FALSE
    <2>1. Depth(t) < Depth(s) /\ Depth(t) \in Nat /\ Depth(s) \in Nat
      BY SchemasAssumption DEF SchemasAssumption
    <2>2. Depth(s) <= Depth(t)
      BY <1>2, <1>3, <1>4
    <2> QED
      BY <2>1, <2>2
  <1> QED
    BY <1>3, <1>4

-----------------------------------------------------------------------------
(* What is said of a schema: its fields, and where its inner schemas are.  *)

(* Schemas are records of one shape.                                       *)
LEMMA Fields ==
  ASSUME NEW s \in Schemas
  PROVE  DOMAIN s = {"kind", "nullable", "format", "enum", "props", "items", "additional", "branches", "target"}
  BY SchemasAssumption DEF SchemasAssumption, WellFormed, SchemaFields, UnknownSchema, Plain

LEMMA PropertyInside ==
  ASSUME NEW s \in Schemas, NEW n \in DOMAIN s.props
  PROVE  /\ n \in KnownNames
         /\ s.props[n].required \in BOOLEAN
         /\ s.props[n].schema \in Schemas /\ s.props[n].schema \in Inner(s)
  BY SchemasAssumption DEF SchemasAssumption, WellFormed, PropsKnown, Inner

LEMMA ItemsInside ==
  ASSUME NEW s \in Schemas, s.items # None
  PROVE  s.items \in Schemas /\ s.items \in Inner(s)
  BY SchemasAssumption DEF SchemasAssumption, Inner

LEMMA BranchInside ==
  ASSUME NEW s \in Schemas, NEW i \in DOMAIN s.branches
  PROVE  s.branches[i] \in Schemas /\ s.branches[i] \in Inner(s)
  BY SchemasAssumption DEF SchemasAssumption, Inner, ToSet

(* A normalised schema knows its policy.                                   *)
LEMMA AdditionalCases ==
  ASSUME NEW s \in Schemas
  PROVE  \/ s.additional = Forbidden
         \/ s.additional = AnyValue
         \/ /\ s.additional = ValuesOf(s.additional.schema)
            /\ s.additional.schema \in Schemas /\ s.additional.schema \in Inner(s)
  BY SchemasAssumption DEF SchemasAssumption, WellFormed, AdditionalKnown, Inner

LEMMA Policies ==
  /\ Forbidden.policy = "forbidden" /\ Forbidden.schema = None
  /\ AnyValue.policy = "any" /\ AnyValue.schema = None
  /\ Unknown.policy = "unknown"
  /\ \A t : ValuesOf(t).policy = "schema" /\ ValuesOf(t).schema = t
  BY DEF Forbidden, AnyValue, Unknown, ValuesOf

(* A schema has branches or other inner schemas, never both.               *)
LEMMA ComposedOrNot ==
  ASSUME NEW s \in Schemas
  PROVE  /\ s.kind \in Composed => DOMAIN s.props = {} /\ s.items = None /\ s.additional = Forbidden
         /\ s.kind \notin Composed => DOMAIN s.branches = {}
  <1>1. IF s.kind \in Composed THEN BranchesOnly(s) ELSE s.branches = <<>>
    BY SchemasAssumption DEF SchemasAssumption, WellFormed
  <1>2. ASSUME s.kind \in Composed
        PROVE  DOMAIN s.props = {} /\ s.items = None /\ s.additional = Forbidden
    BY <1>1, <1>2 DEF BranchesOnly, NoProps
  <1>3. ASSUME s.kind \notin Composed PROVE DOMAIN s.branches = {}
    <2>1. s.branches = <<>>
      BY <1>1, <1>3
    <2> QED
      BY <2>1
  <1> QED
    BY <1>2, <1>3

-----------------------------------------------------------------------------
(* Of two schemas, one admits what the other does.                         *)
Carries(from, a, to, b) == \A v \in Values : Admits(from, v, a) => Admits(to, v, b)

(* What that asks of two schemas whose inner ones are related so.          *)
PropsCarry(from, a, to, b) ==
    /\ \A n \in DOMAIN to.props : to.props[n].required => n \in DOMAIN from.props /\ from.props[n].required
    /\ \A n \in DOMAIN from.props \cap DOMAIN to.props : Carries(from.props[n].schema, a, to.props[n].schema, b)
    /\ ~b => ~a /\ DOMAIN from.props \subseteq DOMAIN to.props
    /\ a => DOMAIN to.props \subseteq DOMAIN from.props

ItemsCarry(from, a, to, b) ==
    to.items # None => from.items # None /\ Carries(from.items, a, to.items, b)

AdditionalCarry(from, a, to, b) ==
    \/ from.additional = Forbidden
    \/ to.additional = AnyValue
    \/ /\ from.additional.policy = "schema" /\ to.additional.policy = "schema"
       /\ Carries(from.additional.schema, a, to.additional.schema, b)

EnumCarry(from, to) == to.enum = {} \/ (from.enum # {} /\ from.enum \subseteq to.enum)

BranchesCarry(from, a, to, b) ==
    \A i \in DOMAIN from.branches : \E j \in DOMAIN to.branches : Carries(from.branches[i], a, to.branches[j], b)

PartsCarry(from, a, to, b) ==
    /\ from.kind = to.kind
    /\ from.nullable => to.nullable
    /\ from.kind = "cycleRef" => from.target = to.target
    /\ EnumCarry(from, to)
    /\ PropsCarry(from, a, to, b)
    /\ ItemsCarry(from, a, to, b)
    /\ AdditionalCarry(from, a, to, b)
    /\ BranchesCarry(from, a, to, b)

(* What inner schemas admit is what schemas admit.                         *)
LEMMA AdmittedIs ==
  ASSUME NEW s \in Schemas, NEW v \in Values, NEW a \in BOOLEAN
  PROVE  Admitted(s, v, a) <=> Admits(s, v, a)
  BY RecursionAssumption DEF RecursionAssumption

(* Fields of an object go over if properties and policies do.              *)
LEMMA FieldsCarried ==
  ASSUME NEW from \in Schemas, NEW to \in Schemas, NEW a \in BOOLEAN, NEW b \in BOOLEAN,
         PropsCarry(from, a, to, b), AdditionalCarry(from, a, to, b),
         NEW fields, \A n \in DOMAIN fields : fields[n] \in Values,
         AdmitsFields(from, fields, a)
  PROVE  AdmitsFields(to, fields, b)
  <1>1. ASSUME NEW n \in DOMAIN to.props, to.props[n].required
        PROVE  n \in DOMAIN fields
    BY <1>1 DEF AdmitsFields, PropsCarry
  <1>2. ASSUME NEW n \in DOMAIN fields
        PROVE  IF n \in DOMAIN to.props THEN Admitted(to.props[n].schema, fields[n], b)
               ELSE IF n \in KnownNames THEN b
               ELSE \/ to.additional \in {AnyValue, Unknown}
                    \/ to.additional.policy = "schema" /\ Admitted(to.additional.schema, fields[n], b)
    <2>1. CASE n \in DOMAIN to.props
      <3>1. n \in KnownNames
        BY <2>1, PropertyInside
      <3>2. n \in DOMAIN from.props
        BY <3>1, <2>1 DEF AdmitsFields, PropsCarry
      <3>3. Admitted(from.props[n].schema, fields[n], a)
        BY <3>2 DEF AdmitsFields
      <3>4. Carries(from.props[n].schema, a, to.props[n].schema, b)
        BY <3>2, <2>1 DEF PropsCarry
      <3>5. from.props[n].schema \in Schemas /\ to.props[n].schema \in Schemas
        BY <3>2, <2>1, PropertyInside
      <3>6. Admitted(to.props[n].schema, fields[n], b)
        BY <3>3, <3>4, <3>5, AdmittedIs DEF Carries
      <3> QED
        BY <2>1, <3>6
    <2>2. CASE n \notin DOMAIN to.props /\ n \in KnownNames
      <3>1. b
        BY <2>2 DEF AdmitsFields, PropsCarry
      <3> QED
        BY <2>2, <3>1
    <2>3. CASE n \notin DOMAIN to.props /\ n \notin KnownNames
      <3>1. n \notin DOMAIN from.props
        BY <2>3, PropertyInside
      <3>2. \/ from.additional \in {AnyValue, Unknown}
            \/ from.additional.policy = "schema" /\ Admitted(from.additional.schema, fields[n], a)
        BY <3>1, <2>3 DEF AdmitsFields
      <3>3. CASE to.additional = AnyValue
        BY <3>3, <2>3
      <3>4. CASE /\ from.additional.policy = "schema" /\ to.additional.policy = "schema"
                 /\ Carries(from.additional.schema, a, to.additional.schema, b)
        <4>1. from.additional.schema \in Schemas /\ to.additional.schema \in Schemas
          BY <3>4, AdditionalCases, Policies
        <4>2. Admitted(from.additional.schema, fields[n], a)
          BY <3>2, <3>4, Policies
        <4>3. Admitted(to.additional.schema, fields[n], b)
          BY <4>1, <4>2, <3>4, AdmittedIs DEF Carries
        <4> QED
          BY <4>3, <3>4, <2>3
      <3>5. from.additional # Forbidden
        BY <3>2, Policies
      <3> QED
        BY <3>3, <3>4, <3>5 DEF AdditionalCarry
    <2> QED
      BY <2>1, <2>2, <2>3
  <1> QED
    BY <1>1, <1>2 DEF AdmitsFields

LEMMA ScalarsCarried ==
  ASSUME NEW v \in Values, NEW from, NEW to, EnumCarry(from, to), from.enum = {} \/ v.text \in from.enum
  PROVE  to.enum = {} \/ v.text \in to.enum
  BY DEF EnumCarry

(* One schema carries another one if each of its parts does.               *)
LEMMA PartsSuffice ==
  ASSUME NEW from \in Schemas, NEW to \in Schemas, NEW a \in BOOLEAN, NEW b \in BOOLEAN,
         PartsCarry(from, a, to, b)
  PROVE  Carries(from, a, to, b)
  <1> SUFFICES ASSUME NEW v \in Values, Admits(from, v, a) PROVE Admits(to, v, b)
    BY DEF Carries
  <1> USE DEF PartsCarry
  <1>1. CASE v.type = "null" /\ from.nullable
    BY <1>1 DEF Admits
  <1>2. CASE from.kind \in Composed /\ \E i \in DOMAIN from.branches : Admitted(from.branches[i], v, a)
    <2>1. PICK i \in DOMAIN from.branches : Admitted(from.branches[i], v, a)
      BY <1>2
    <2>2. PICK j \in DOMAIN to.branches : Carries(from.branches[i], a, to.branches[j], b)
      BY DEF BranchesCarry
    <2>3. from.branches[i] \in Schemas /\ to.branches[j] \in Schemas
      BY BranchInside
    <2>4. Admitted(to.branches[j], v, b)
      BY <2>1, <2>2, <2>3, AdmittedIs DEF Carries
    <2> QED
      BY <1>2, <2>4 DEF Admits
  <1>3. CASE from.kind = "unknown" /\ v.type # "null"
    BY <1>3 DEF Admits
  <1>4. CASE /\ v.type \in TypesOf(from.kind)
             /\ from.enum = {} \/ v.text \in from.enum
             /\ from.kind = "cycleRef" => v.text = from.target
             /\ v.type = "object" => AdmitsFields(from, v.fields, a)
             /\ v.type = "array" => from.items = None \/ \A e \in v.elements : Admitted(from.items, e, a)
    <2>1. to.enum = {} \/ v.text \in to.enum
      BY <1>4, ScalarsCarried
    <2>2. ASSUME v.type = "object" PROVE AdmitsFields(to, v.fields, b)
      <3>1. \A n \in DOMAIN v.fields : v.fields[n] \in Values
        BY <2>2, ValuesAssumption DEF ValuesAssumption
      <3> QED
        BY <3>1, <2>2, <1>4, FieldsCarried
    <2>3. ASSUME v.type = "array", to.items # None, NEW e \in v.elements PROVE Admitted(to.items, e, b)
      <3>1. e \in Values
        BY <2>3, ValuesAssumption DEF ValuesAssumption
      <3>2. from.items # None /\ Carries(from.items, a, to.items, b)
        BY <2>3 DEF ItemsCarry
      <3>3. from.items \in Schemas /\ to.items \in Schemas
        BY <2>3, <3>2, ItemsInside
      <3>4. Admitted(from.items, e, a)
        BY <2>3, <3>2, <1>4
      <3> QED
        BY <3>1, <3>2, <3>3, <3>4, AdmittedIs DEF Carries
    <2>4. v.type \in TypesOf(to.kind) /\ (to.kind = "cycleRef" => v.text = to.target)
      BY <1>4
    <2> QED
      BY <2>1, <2>2, <2>3, <2>4 DEF Admits
  <1> QED
    BY <1>1, <1>2, <1>3, <1>4 DEF Admits

-----------------------------------------------------------------------------
(* What is written for a schema is read by it.                             *)
LEMMA WritesAreRead ==
  ASSUME NEW s \in Schemas
  PROVE  Carries(s, FALSE, s, TRUE)
  <1> DEFINE S == {t \in Schemas : ~Carries(t, FALSE, t, TRUE)}
  <1> SUFFICES ASSUME S # {} PROVE FALSE
    OBVIOUS
  <1>1. PICK t \in S : \A u \in Inner(t) : u \notin S
    BY Shallowest
  <1>2. \A u \in Inner(t) \cap Schemas : Carries(u, FALSE, u, TRUE)
    BY <1>1
  <1>3. PartsCarry(t, FALSE, t, TRUE)
    <2>1. PropsCarry(t, FALSE, t, TRUE)
      BY <1>2, PropertyInside DEF PropsCarry
    <2>2. ItemsCarry(t, FALSE, t, TRUE)
      BY <1>2, ItemsInside DEF ItemsCarry
    <2>3. AdditionalCarry(t, FALSE, t, TRUE)
      BY <1>2, AdditionalCases, Policies DEF AdditionalCarry
    <2>4. BranchesCarry(t, FALSE, t, TRUE)
      BY <1>2, BranchInside DEF BranchesCarry
    <2> QED
      BY <2>1, <2>2, <2>3, <2>4 DEF PartsCarry, EnumCarry
  <1> QED
    BY <1>1, <1>3, PartsSuffice

-----------------------------------------------------------------------------
(* What equal keys say, and what makes them equal.                         *)

(* The keys of the schemas inside one.                                     *)
LEMMA KeyParts ==
  ASSUME NEW s \in Schemas
  PROVE  /\ KeyOf(s).kind = s.kind /\ KeyOf(s).nullable = s.nullable /\ KeyOf(s).format = s.format
         /\ KeyOf(s).enum = s.enum /\ KeyOf(s).target = s.target
         /\ KeyOf(s).props = [n \in DOMAIN s.props |-> Property(s.props[n].required, KeyOf(s.props[n].schema))]
         /\ KeyOf(s).items = IF s.items = None THEN None ELSE KeyOf(s.items)
         /\ KeyOf(s).additional = IF s.additional.schema = None THEN s.additional
                                   ELSE ValuesOf(KeyOf(s.additional.schema))
         /\ KeyOf(s).branches = {KeyOf(s.branches[i]) : i \in DOMAIN s.branches}
  <1> DEFINE m == MapInner(s, KeyOf)
  <1>1. /\ m.kind = s.kind /\ m.nullable = s.nullable /\ m.format = s.format /\ m.enum = s.enum /\ m.target = s.target
        /\ m.props = [n \in DOMAIN s.props |-> Property(s.props[n].required, KeyOf(s.props[n].schema))]
        /\ m.items = IF s.items = None THEN None ELSE KeyOf(s.items)
        /\ m.additional = IF s.additional.schema = None THEN s.additional ELSE ValuesOf(KeyOf(s.additional.schema))
        /\ m.branches = [i \in DOMAIN s.branches |-> KeyOf(s.branches[i])]
    BY Fields DEF MapInner, WithInner
  <1>2. m.additional # Unknown
    BY <1>1, AdditionalCases, Policies
  <1>3. KeyOf(s) = KeyFrom(m)
    BY RecursionAssumption DEF RecursionAssumption
  <1>4. ToSet(m.branches) = {KeyOf(s.branches[i]) : i \in DOMAIN s.branches}
    BY <1>1 DEF ToSet
  <1> HIDE DEF m
  <1> QED
    BY <1>1, <1>2, <1>3, <1>4 DEF KeyFrom

(* The same of the keys with targets apart.                                *)
LEMMA ApartParts ==
  ASSUME NEW s \in Schemas
  PROVE  KeyApart(s) =
           [kind |-> s.kind, nullable |-> s.nullable, format |-> s.format, enum |-> s.enum,
            props |-> [n \in DOMAIN s.props |-> Property(s.props[n].required, KeyApart(s.props[n].schema))],
            items |-> IF s.items = None THEN None ELSE KeyApart(s.items),
            additional |-> IF s.additional.schema = None THEN s.additional
                           ELSE ValuesOf(KeyApart(s.additional.schema)),
            branches |-> {KeyApart(s.branches[i]) : i \in DOMAIN s.branches}, target |-> None]
  <1> DEFINE m == [MapInner(s, KeyApart) EXCEPT !.target = None]
  <1>1. /\ m.kind = s.kind /\ m.nullable = s.nullable /\ m.format = s.format /\ m.enum = s.enum /\ m.target = None
        /\ m.props = [n \in DOMAIN s.props |-> Property(s.props[n].required, KeyApart(s.props[n].schema))]
        /\ m.items = IF s.items = None THEN None ELSE KeyApart(s.items)
        /\ m.additional = IF s.additional.schema = None THEN s.additional
                          ELSE ValuesOf(KeyApart(s.additional.schema))
        /\ m.branches = [i \in DOMAIN s.branches |-> KeyApart(s.branches[i])]
    BY Fields DEF MapInner, WithInner
  <1> HIDE DEF m
  <1>2. m.additional # Unknown
    BY <1>1, AdditionalCases, Policies
  <1>3. KeyApart(s) = KeyFrom(m)
    BY RecursionAssumption DEF RecursionAssumption, m
  <1>4. ToSet(m.branches) = {KeyApart(s.branches[i]) : i \in DOMAIN s.branches}
    BY <1>1 DEF ToSet
  <1> QED
    BY <1>1, <1>2, <1>3, <1>4 DEF KeyFrom

(* What two schemas say themselves.                                        *)
SameScalars(s, t) ==
    s.kind = t.kind /\ s.nullable = t.nullable /\ s.format = t.format /\ s.enum = t.enum

(* Equal keys mean equal parts, and the same keys inside.                  *)
LEMMA EqualKeys ==
  ASSUME NEW s \in Schemas, NEW t \in Schemas, KeyOf(s) = KeyOf(t)
  PROVE  /\ SameScalars(s, t) /\ s.target = t.target
         /\ DOMAIN s.props = DOMAIN t.props
         /\ \A n \in DOMAIN s.props : /\ s.props[n].required = t.props[n].required
                                      /\ KeyOf(s.props[n].schema) = KeyOf(t.props[n].schema)
         /\ s.items = None <=> t.items = None
         /\ s.items # None => KeyOf(s.items) = KeyOf(t.items)
         /\ \/ s.additional = t.additional /\ s.additional.schema = None
            \/ /\ s.additional.policy = "schema" /\ t.additional.policy = "schema"
               /\ KeyOf(s.additional.schema) = KeyOf(t.additional.schema)
         /\ \A i \in DOMAIN s.branches : \E j \in DOMAIN t.branches : KeyOf(s.branches[i]) = KeyOf(t.branches[j])
  <1>1. SameScalars(s, t) /\ s.target = t.target
    <2>1. ASSUME NEW u \in Schemas
          PROVE  /\ KeyOf(u).kind = u.kind /\ KeyOf(u).nullable = u.nullable /\ KeyOf(u).format = u.format
                 /\ KeyOf(u).enum = u.enum /\ KeyOf(u).target = u.target
      BY KeyParts
    <2> QED
      BY <2>1, Zenon DEF SameScalars
  <1>2. /\ DOMAIN s.props = DOMAIN t.props
        /\ \A n \in DOMAIN s.props : /\ s.props[n].required = t.props[n].required
                                     /\ KeyOf(s.props[n].schema) = KeyOf(t.props[n].schema)
    <2> DEFINE kept(u) == [n \in DOMAIN u.props |-> Property(u.props[n].required, KeyOf(u.props[n].schema))]
    <2>1. kept(s) = kept(t)
      <3>1. ASSUME NEW u \in Schemas PROVE KeyOf(u).props = kept(u)
        BY KeyParts
      <3> HIDE DEF kept
      <3> QED
        BY <3>1
    <2>2. DOMAIN s.props = DOMAIN t.props
      BY <2>1
    <2>3. ASSUME NEW n \in DOMAIN s.props
          PROVE  Property(s.props[n].required, KeyOf(s.props[n].schema))
                   = Property(t.props[n].required, KeyOf(t.props[n].schema))
      BY <2>1, <2>2
    <2> QED
      BY <2>2, <2>3 DEF Property
  <1>3. (s.items = None <=> t.items = None) /\ (s.items # None => KeyOf(s.items) = KeyOf(t.items))
    <2>1. \A u \in Schemas : u.items # None => KeyOf(u.items) # None
      BY ItemsInside, RecursionAssumption DEF RecursionAssumption
    <2>2. ASSUME NEW u \in Schemas
          PROVE  KeyOf(u).items = IF u.items = None THEN None ELSE KeyOf(u.items)
      BY KeyParts
    <2>3. (IF s.items = None THEN None ELSE KeyOf(s.items)) = (IF t.items = None THEN None ELSE KeyOf(t.items))
      BY <2>2
    <2> QED
      BY <2>1, <2>3
  <1>4. \/ s.additional = t.additional /\ s.additional.schema = None
        \/ /\ s.additional.policy = "schema" /\ t.additional.policy = "schema"
           /\ KeyOf(s.additional.schema) = KeyOf(t.additional.schema)
    <2> DEFINE kept(u) == IF u.additional.schema = None THEN u.additional ELSE ValuesOf(KeyOf(u.additional.schema))
    <2>1. kept(s) = kept(t)
      <3>1. ASSUME NEW u \in Schemas PROVE KeyOf(u).additional = kept(u)
        BY KeyParts
      <3> HIDE DEF kept
      <3> QED
        BY <3>1
    <2>2. ASSUME NEW u \in Schemas
          PROVE  \/ u.additional.schema = None /\ kept(u) = u.additional /\ u.additional.policy # "schema"
                 \/ u.additional.policy = "schema" /\ kept(u) = ValuesOf(KeyOf(u.additional.schema))
      <3>1. None \notin Schemas
        BY SchemasAssumption DEF SchemasAssumption
      <3> QED
        BY <3>1, AdditionalCases, Policies
    <2> HIDE DEF kept
    <2> QED
      BY <2>1, <2>2, Policies
  <1>5. \A i \in DOMAIN s.branches : \E j \in DOMAIN t.branches : KeyOf(s.branches[i]) = KeyOf(t.branches[j])
    <2>1. {KeyOf(s.branches[i]) : i \in DOMAIN s.branches} = {KeyOf(t.branches[i]) : i \in DOMAIN t.branches}
      BY KeyParts
    <2> QED
      BY <2>1
  <1> QED
    BY <1>1, <1>2, <1>3, <1>4, <1>5

(* Schemas of one key admit the same values.                               *)
LEMMA EqualKeysCarry ==
  ASSUME NEW s \in Schemas, NEW t \in Schemas, KeyOf(s) = KeyOf(t), NEW a \in BOOLEAN
  PROVE  Carries(s, a, t, a)
  <1> DEFINE S == {u \in Schemas : \E w \in Schemas : KeyOf(u) = KeyOf(w) /\ ~Carries(u, a, w, a)}
  <1> SUFFICES ASSUME S # {} PROVE FALSE
    OBVIOUS
  <1>1. PICK u \in S : \A x \in Inner(u) : x \notin S
    BY Shallowest
  <1>2. PICK w \in Schemas : KeyOf(u) = KeyOf(w) /\ ~Carries(u, a, w, a)
    BY <1>1
  <1>3. u \in Schemas
    BY <1>1
  <1>4. \A x \in Inner(u) \cap Schemas, y \in Schemas : KeyOf(x) = KeyOf(y) => Carries(x, a, y, a)
    BY <1>1
  <1> HIDE DEF S
  <1>5. PartsCarry(u, a, w, a)
    <2>1. PropsCarry(u, a, w, a)
      BY <1>2, <1>3, <1>4, EqualKeys, PropertyInside DEF PropsCarry
    <2>2. ItemsCarry(u, a, w, a)
      BY <1>2, <1>3, <1>4, EqualKeys, ItemsInside DEF ItemsCarry
    <2>3. AdditionalCarry(u, a, w, a)
      BY <1>2, <1>3, <1>4, EqualKeys, AdditionalCases, Policies DEF AdditionalCarry
    <2>4. BranchesCarry(u, a, w, a)
      BY <1>2, <1>3, <1>4, EqualKeys, BranchInside DEF BranchesCarry
    <2>5. SameScalars(u, w) /\ u.target = w.target
      BY <1>2, <1>3, EqualKeys
    <2> QED
      BY <2>1, <2>2, <2>3, <2>4, <2>5 DEF PartsCarry, EnumCarry, SameScalars
  <1> QED
    BY <1>2, <1>3, <1>5, PartsSuffice

-----------------------------------------------------------------------------
(* What a report without a breaking change says of two schemas.            *)

Quiet(use, old, new) == ~HasBreaking(DiffSchema(use, old, new))

(* The side whose values are sent, and the side that is asked about them.  *)
From(use, old, new) == IF use = "request" THEN old ELSE new
To(use, old, new) == IF use = "request" THEN new ELSE old

Fits(use, old, new) == Carries(From(use, old, new), use = "response", To(use, old, new), use = "response")

FitsInside(use, old, new) ==
    \A s \in Inner(old), t \in Inner(new) : s \in Schemas /\ t \in Schemas /\ Quiet(use, s, t) => Fits(use, s, t)

(* A part of a report without a breaking change has none.                  *)
LEMMA QuietPart ==
  ASSUME NEW said, ~HasBreaking(said), NEW part, part \subseteq said
  PROVE  ~HasBreaking(part)
  BY DEF HasBreaking

LEMMA QuietChange ==
  ASSUME NEW said, ~HasBreaking(said), NEW at, NEW what, NEW severity, Change(at, what, severity) \in said
  PROVE  severity # "breaking"
  BY DEF HasBreaking, Change

(* A report says the same of inner schemas, further down.                  *)
LEMMA QuietUnder ==
  ASSUME NEW use \in Usages, NEW old \in Schemas, NEW new \in Schemas, NEW place,
         ~HasBreaking(DiffUnder(place, use, old, new))
  PROVE  Quiet(use, old, new)
  <1> SUFFICES ASSUME NEW c \in DiffSchema(use, old, new), c.severity = "breaking" PROVE FALSE
    BY DEF Quiet, HasBreaking
  <1>1. DiffOf(use, old, new) = DiffSchema(use, old, new)
    BY RecursionAssumption DEF RecursionAssumption
  <1>2. Change(place \o c.at, c.what, c.severity) \in DiffUnder(place, use, old, new)
    BY <1>1 DEF DiffUnder, Under
  <1> QED
    BY <1>2, QuietChange

(* Nothing breaking in one part of the report: that part carries over.     *)
LEMMA PropsFit ==
  ASSUME NEW use \in Usages, NEW old \in Schemas, NEW new \in Schemas, FitsInside(use, old, new),
         ~HasBreaking(DiffProps(use, old, new))
  PROVE  PropsCarry(From(use, old, new), use = "response", To(use, old, new), use = "response")
  <1> DEFINE said == DiffProps(use, old, new)
  <1>1. DOMAIN old.props \subseteq DOMAIN new.props
    <2> SUFFICES ASSUME NEW n \in DOMAIN old.props \ DOMAIN new.props PROVE FALSE
      OBVIOUS
    <2>1. FieldRemoved(n) \in said
      BY DEF DiffProps
    <2> QED
      BY <2>1, QuietChange DEF FieldRemoved
  <1>2. ASSUME NEW n \in DOMAIN new.props \ DOMAIN old.props, use = "request"
        PROVE  ~new.props[n].required
    <2>1. FieldAdded(use, <<n>>, new.props[n].required) \in said
      BY DEF DiffProps
    <2> QED
      BY <1>2, <2>1, QuietChange DEF FieldAdded, Narrowed
  <1>3. ASSUME NEW n \in DOMAIN old.props
        PROVE  /\ use = "request" /\ new.props[n].required => old.props[n].required
               /\ use = "response" /\ old.props[n].required => new.props[n].required
               /\ Fits(use, old.props[n].schema, new.props[n].schema)
    <2>1. n \in DOMAIN old.props \cap DOMAIN new.props
      BY <1>1
    <2>2. DiffProperty(n, use, old.props[n], new.props[n]) \subseteq said
      BY <2>1 DEF DiffProps
    <2>3. ~HasBreaking(DiffProperty(n, use, old.props[n], new.props[n]))
      BY <2>2, QuietPart
    <2>4. ~HasBreaking(DiffRequired(use, <<n>>, old.props[n].required, new.props[n].required))
      BY <2>3, QuietPart DEF DiffProperty
    <2>5. ~HasBreaking(DiffUnder(<<n>>, use, old.props[n].schema, new.props[n].schema))
      BY <2>3, QuietPart DEF DiffProperty
    <2>6. /\ use = "request" /\ new.props[n].required => old.props[n].required
          /\ use = "response" /\ old.props[n].required => new.props[n].required
      <3>1. old.props[n].required \in BOOLEAN /\ new.props[n].required \in BOOLEAN
        BY <2>1, PropertyInside
      <3> QED
        BY <2>4, <3>1 DEF DiffRequired, HasBreaking, Change, Narrowed, Widened
    <2>7. /\ old.props[n].schema \in Schemas /\ old.props[n].schema \in Inner(old)
          /\ new.props[n].schema \in Schemas /\ new.props[n].schema \in Inner(new)
      BY <2>1, PropertyInside
    <2> QED
      BY <2>5, <2>6, <2>7, QuietUnder DEF FitsInside
  <1>4. CASE use = "request"
    BY <1>1, <1>2, <1>3, <1>4 DEF PropsCarry, From, To, Fits
  <1>5. CASE use = "response"
    BY <1>1, <1>3, <1>5 DEF PropsCarry, From, To, Fits
  <1> QED
    BY <1>4, <1>5 DEF Usages

LEMMA ItemsFit ==
  ASSUME NEW use \in Usages, NEW old \in Schemas, NEW new \in Schemas, FitsInside(use, old, new),
         ~HasBreaking(DiffItems(use, old, new))
  PROVE  ItemsCarry(From(use, old, new), use = "response", To(use, old, new), use = "response")
  <1>1. CASE old.items = None /\ new.items = None
    BY <1>1 DEF ItemsCarry, From, To
  <1>2. CASE old.items = None /\ new.items # None
    <2>1. FieldAdded(use, <<"items">>, TRUE) \in DiffItems(use, old, new)
      BY <1>2 DEF DiffItems
    <2>2. use = "response"
      BY <2>1, QuietChange DEF FieldAdded, Narrowed, Usages
    <2> QED
      BY <1>2, <2>2 DEF ItemsCarry, From, To
  <1>3. CASE old.items # None /\ new.items = None
    <2>1. Change(<<"items">>, "removed", Widened(use)) \in DiffItems(use, old, new)
      BY <1>3 DEF DiffItems
    <2>2. use = "request"
      BY <2>1, QuietChange DEF Widened, Usages
    <2> QED
      BY <1>3, <2>2 DEF ItemsCarry, From, To
  <1>4. CASE old.items # None /\ new.items # None
    <2>1. ~HasBreaking(DiffUnder(<<"items">>, use, old.items, new.items))
      BY <1>4 DEF DiffItems
    <2>2. Fits(use, old.items, new.items)
      BY <1>4, <2>1, ItemsInside, QuietUnder DEF FitsInside
    <2> QED
      BY <1>4, <2>2 DEF ItemsCarry, From, To, Fits
  <1> QED
    BY <1>1, <1>2, <1>3, <1>4

LEMMA AdditionalFit ==
  ASSUME NEW use \in Usages, NEW old \in Schemas, NEW new \in Schemas, FitsInside(use, old, new),
         ~HasBreaking(DiffAdditional(use, old, new))
  PROVE  AdditionalCarry(From(use, old, new), use = "response", To(use, old, new), use = "response")
  <1> DEFINE policies == <<old.additional.policy, new.additional.policy>>
             changed == Change(<<"additionalProperties">>, "policy",
                               IF policies \in NarrowerPolicies THEN Narrowed(use) ELSE Widened(use))
  <1>1. /\ old.additional = Forbidden \/ old.additional = AnyValue \/ old.additional.policy = "schema"
        /\ new.additional = Forbidden \/ new.additional = AnyValue \/ new.additional.policy = "schema"
    BY AdditionalCases, Policies
  <1>2. old.additional.policy # "unknown" /\ new.additional.policy # "unknown"
    BY <1>1, Policies
  <1>3. CASE policies = <<"schema", "schema">>
    <2>1. ~HasBreaking(DiffUnder(<<"additionalProperties">>, use, old.additional.schema, new.additional.schema))
      BY <1>2, <1>3 DEF DiffAdditional
    <2>2. old.additional.policy = "schema" /\ new.additional.policy = "schema"
      BY <1>3
    <2>3. Fits(use, old.additional.schema, new.additional.schema)
      BY <2>1, <2>2, AdditionalCases, Policies, QuietUnder DEF FitsInside
    <2> QED
      BY <2>2, <2>3 DEF AdditionalCarry, From, To, Fits
  <1>4. CASE old.additional.policy = new.additional.policy /\ policies # <<"schema", "schema">>
    BY <1>1, <1>4, Policies DEF AdditionalCarry, From, To
  <1>5. CASE old.additional.policy # new.additional.policy
    <2>1. changed \in DiffAdditional(use, old, new)
      BY <1>2, <1>5 DEF DiffAdditional
    <2>2. (IF policies \in NarrowerPolicies THEN Narrowed(use) ELSE Widened(use)) # "breaking"
      BY <2>1, QuietChange
    <2>3. CASE policies \in NarrowerPolicies
      <3>1. use = "response"
        BY <2>2, <2>3 DEF Narrowed, Usages
      <3>2. old.additional = AnyValue \/ new.additional = Forbidden
        BY <1>1, <2>3, Policies DEF NarrowerPolicies
      <3> QED
        BY <3>1, <3>2 DEF AdditionalCarry, From, To
    <2>4. CASE policies \notin NarrowerPolicies
      <3>1. use = "request"
        BY <2>2, <2>4 DEF Widened, Usages
      <3>2. old.additional = Forbidden \/ new.additional = AnyValue
        BY <1>1, <1>5, <2>4, Policies DEF NarrowerPolicies
      <3> QED
        BY <3>1, <3>2 DEF AdditionalCarry, From, To
    <2> QED
      BY <2>3, <2>4
  <1> QED
    BY <1>3, <1>4, <1>5

LEMMA ScalarsFit ==
  ASSUME NEW use \in Usages, NEW old \in Schemas, NEW new \in Schemas,
         ~HasBreaking(DiffKind(old, new)), ~HasBreaking(DiffNullable(use, old, new))
  PROVE  old.kind = new.kind /\ (From(use, old, new).nullable => To(use, old, new).nullable)
  <1>1. old.kind = new.kind
    BY DEF DiffKind, HasBreaking, Change
  <1>2. ASSUME From(use, old, new).nullable, ~To(use, old, new).nullable PROVE FALSE
    <2> DEFINE severity == IF new.nullable THEN Widened(use) ELSE Narrowed(use)
    <2>1. severity = "breaking"
      BY <1>2 DEF From, To, Usages, Widened, Narrowed
    <2>2. Change(<<>>, "nullable", severity) \in DiffNullable(use, old, new)
      BY <1>2 DEF From, To, DiffNullable
    <2> QED
      BY <2>1, <2>2, QuietChange
  <1> QED
    BY <1>1, <1>2

LEMMA EnumFit ==
  ASSUME NEW use \in Usages, NEW old \in Schemas, NEW new \in Schemas, old.kind = new.kind,
         ~EnumGap(use, old, new), ~HasBreaking(DiffEnum(use, old, new))
  PROVE  EnumCarry(From(use, old, new), To(use, old, new))
  <1>1. old \in Nested(old) /\ new \in Nested(new)
    BY SchemasAssumption DEF SchemasAssumption
  <1>2. ~(From(use, old, new).enum = {} /\ To(use, old, new).enum # {})
    BY <1>1 DEF EnumGap, From, To
  <1>3. ASSUME use = "request", NEW value \in old.enum \ new.enum PROVE FALSE
    <2>1. Change(<<value>>, "valueRemoved", Narrowed(use)) \in DiffEnum(use, old, new)
      BY <1>3 DEF DiffEnum
    <2> QED
      BY <2>1, <1>3, QuietChange DEF Narrowed
  <1>4. ASSUME use = "response", NEW value \in new.enum \ old.enum PROVE FALSE
    <2>1. Change(<<value>>, "valueAdded", Widened(use)) \in DiffEnum(use, old, new)
      BY <1>4 DEF DiffEnum
    <2> QED
      BY <2>1, <1>4, QuietChange DEF Widened
  <1>5. From(use, old, new).enum \subseteq To(use, old, new).enum
    BY <1>3, <1>4 DEF From, To, Usages
  <1> QED
    BY <1>2, <1>5 DEF EnumCarry

LEMMA TargetsFit ==
  ASSUME NEW old \in Schemas, NEW new \in Schemas, ~CycleGap(old, new), old.kind = "cycleRef", new.kind = "cycleRef"
  PROVE  old.target = new.target
  <1>1. old \in Nested(old) /\ new \in Nested(new)
    BY SchemasAssumption DEF SchemasAssumption
  <1> QED
    BY <1>1 DEF CycleGap

(* A branch of either side is paired, equal to one, or reported.           *)
LEMMA BranchesReported ==
  ASSUME NEW use, NEW old, NEW new
  PROVE  /\ \A i \in Unmatched(old, new) \ {p[1] : p \in Pairs(old, new)} :
               Change(BranchPlace(new, i), "removed", Narrowed(use)) \in DiffBranches(use, old, new)
         /\ \A i \in Unmatched(new, old) \ {p[2] : p \in Pairs(old, new)} :
               Change(BranchPlace(new, i), "added", Widened(use)) \in DiffBranches(use, old, new)
         /\ \A p \in Pairs(old, new) :
               DiffUnder(BranchPlace(new, p[2]), use, old.branches[p[1]], new.branches[p[2]])
                  \subseteq DiffBranches(use, old, new)
  <1> DEFINE gone == Unmatched(old, new) \ {p[1] : p \in Pairs(old, new)}
             fresh == Unmatched(new, old) \ {p[2] : p \in Pairs(old, new)}
             removed(i) == Change(BranchPlace(new, i), "removed", Narrowed(use))
             added(i) == Change(BranchPlace(new, i), "added", Widened(use))
             inside(p) == DiffUnder(BranchPlace(new, p[2]), use, old.branches[p[1]], new.branches[p[2]])
  <1>1. DiffBranches(use, old, new)
          = (UNION {inside(p) : p \in Pairs(old, new)}) \cup {removed(i) : i \in gone} \cup {added(i) : i \in fresh}
    BY Zenon DEF DiffBranches
  <1> HIDE DEF gone, fresh, removed, added, inside
  <1>2. /\ \A i \in gone : removed(i) \in DiffBranches(use, old, new)
        /\ \A i \in fresh : added(i) \in DiffBranches(use, old, new)
        /\ \A p \in Pairs(old, new) : inside(p) \subseteq DiffBranches(use, old, new)
    BY <1>1
  <1> QED
    BY <1>2 DEF gone, fresh, removed, added, inside

(* A branch of one side goes with one of the other, or it is reported.     *)
LEMMA BranchesFit ==
  ASSUME NEW use \in Usages, NEW old \in Schemas, NEW new \in Schemas, FitsInside(use, old, new),
         ~HasBreaking(DiffBranches(use, old, new))
  PROVE  BranchesCarry(From(use, old, new), use = "response", To(use, old, new), use = "response")
  <1> DEFINE said == DiffBranches(use, old, new)
             pairs == Pairs(old, new)
  <1>1. ASSUME NEW p \in pairs
        PROVE  /\ p[1] \in DOMAIN old.branches /\ p[2] \in DOMAIN new.branches
               /\ Fits(use, old.branches[p[1]], new.branches[p[2]])
    <2>1. p[1] \in DOMAIN old.branches /\ p[2] \in DOMAIN new.branches
      BY DEF Pairs, Unmatched
    <2>2. DiffUnder(BranchPlace(new, p[2]), use, old.branches[p[1]], new.branches[p[2]]) \subseteq said
      BY BranchesReported
    <2>3. ~HasBreaking(DiffUnder(BranchPlace(new, p[2]), use, old.branches[p[1]], new.branches[p[2]]))
      BY <2>2, QuietPart
    <2> QED
      BY <2>1, <2>3, BranchInside, QuietUnder DEF FitsInside
  <1>2. CASE use = "request"
    <2> SUFFICES ASSUME NEW i \in DOMAIN old.branches
                 PROVE  \E j \in DOMAIN new.branches : Carries(old.branches[i], FALSE, new.branches[j], FALSE)
      BY <1>2 DEF BranchesCarry, From, To
    <2>1. CASE i \notin Unmatched(old, new)
      <3>1. PICK j \in DOMAIN new.branches : KeyOf(old.branches[i]) = KeyOf(new.branches[j])
        BY <2>1 DEF Unmatched
      <3>2. Carries(old.branches[i], FALSE, new.branches[j], FALSE)
        BY <3>1, BranchInside, EqualKeysCarry
      <3> QED
        BY <3>2
    <2>2. CASE i \in Unmatched(old, new) \ {p[1] : p \in pairs}
      <3>1. Change(BranchPlace(new, i), "removed", Narrowed(use)) \in said
        BY <2>2, BranchesReported
      <3> QED
        BY <3>1, <1>2, QuietChange DEF Narrowed
    <2>3. CASE i \in {p[1] : p \in pairs}
      <3>1. PICK p \in pairs : i = p[1]
        BY <2>3
      <3> QED
        BY <3>1, <1>1, <1>2 DEF Fits, From, To
    <2> QED
      BY <2>1, <2>2, <2>3
  <1>3. CASE use = "response"
    <2> SUFFICES ASSUME NEW i \in DOMAIN new.branches
                 PROVE  \E j \in DOMAIN old.branches : Carries(new.branches[i], TRUE, old.branches[j], TRUE)
      BY <1>3 DEF BranchesCarry, From, To
    <2>1. CASE i \notin Unmatched(new, old)
      <3>1. PICK j \in DOMAIN old.branches : KeyOf(new.branches[i]) = KeyOf(old.branches[j])
        BY <2>1 DEF Unmatched
      <3>2. Carries(new.branches[i], TRUE, old.branches[j], TRUE)
        BY <3>1, BranchInside, EqualKeysCarry
      <3> QED
        BY <3>2
    <2>2. CASE i \in Unmatched(new, old) \ {p[2] : p \in pairs}
      <3>1. Change(BranchPlace(new, i), "added", Widened(use)) \in said
        BY <2>2, BranchesReported
      <3> QED
        BY <3>1, <1>3, QuietChange DEF Widened
    <2>3. CASE i \in {p[2] : p \in pairs}
      <3>1. PICK p \in pairs : i = p[2]
        BY <2>3
      <3> QED
        BY <3>1, <1>1, <1>3 DEF Fits, From, To
    <2> QED
      BY <2>1, <2>2, <2>3
  <1> QED
    BY <1>2, <1>3 DEF Usages

(* The gaps of inner schemas are gaps of the whole.                        *)
LEMMA GapsInside ==
  ASSUME NEW use, NEW old \in Schemas, NEW new \in Schemas, ~KnownGap(use, old, new),
         NEW s \in Inner(old), NEW t \in Inner(new)
  PROVE  ~KnownGap(use, s, t)
  <1>1. Nested(s) \subseteq Nested(old) /\ Nested(t) \subseteq Nested(new)
    BY SchemasAssumption DEF SchemasAssumption
  <1> QED
    BY <1>1 DEF KnownGap, EnumGap, CycleGap

(* The parts of a report are in it.                                        *)
LEMMA ReportParts ==
  ASSUME NEW use, NEW old, NEW new
  PROVE  LET said == DiffSchema(use, old, new) IN
         /\ DiffKind(old, new) \subseteq said /\ DiffNullable(use, old, new) \subseteq said
         /\ DiffFormat(old, new) \subseteq said /\ DiffEnum(use, old, new) \subseteq said
         /\ old.kind \in Composed /\ old.kind = new.kind => DiffBranches(use, old, new) \subseteq said
         /\ old.kind \notin Composed => /\ DiffProps(use, old, new) \subseteq said
                                      /\ DiffItems(use, old, new) \subseteq said
                                      /\ DiffAdditional(use, old, new) \subseteq said
  BY DEF DiffSchema

(* Induction on depth: without a breaking change and without a gap, the    *)
(* schemas fit.                                                            *)
LEMMA NothingBreakingFits ==
  ASSUME NEW use \in Usages, NEW old \in Schemas, NEW new \in Schemas,
         Quiet(use, old, new), ~KnownGap(use, old, new)
  PROVE  Fits(use, old, new)
  <1> DEFINE Broken(s, t) == Quiet(use, s, t) /\ ~KnownGap(use, s, t) /\ ~Fits(use, s, t)
             S == {s \in Schemas : \E t \in Schemas : Broken(s, t)}
  <1> SUFFICES ASSUME S # {} PROVE FALSE
    OBVIOUS
  <1>1. PICK s \in S : \A x \in Inner(s) : x \notin S
    BY Shallowest
  <1>2. PICK t \in Schemas : Broken(s, t)
    BY <1>1
  <1>3. s \in Schemas
    BY <1>1
  <1>4. FitsInside(use, s, t)
    BY <1>1, <1>2, <1>3, GapsInside DEF FitsInside
  <1> HIDE DEF S
  <1>5. ~HasBreaking(DiffSchema(use, s, t))
    BY <1>2 DEF Quiet
  <1>6. s.kind = t.kind /\ (From(use, s, t).nullable => To(use, s, t).nullable)
    BY <1>2, <1>3, <1>5, ReportParts, QuietPart, ScalarsFit
  <1>7. EnumCarry(From(use, s, t), To(use, s, t))
    BY <1>2, <1>3, <1>5, <1>6, ReportParts, QuietPart, EnumFit DEF KnownGap
  <1>8. /\ PropsCarry(From(use, s, t), use = "response", To(use, s, t), use = "response")
        /\ ItemsCarry(From(use, s, t), use = "response", To(use, s, t), use = "response")
        /\ AdditionalCarry(From(use, s, t), use = "response", To(use, s, t), use = "response")
    <2>1. CASE s.kind \in Composed
      <3>1. /\ DOMAIN s.props = {} /\ s.items = None /\ s.additional = Forbidden
            /\ DOMAIN t.props = {} /\ t.items = None /\ t.additional = Forbidden
        BY <2>1, <1>2, <1>3, <1>6, ComposedOrNot
      <3> QED
        BY <3>1 DEF PropsCarry, ItemsCarry, AdditionalCarry, From, To
    <2>2. CASE s.kind \notin Composed
      <3>1. /\ ~HasBreaking(DiffProps(use, s, t)) /\ ~HasBreaking(DiffItems(use, s, t))
            /\ ~HasBreaking(DiffAdditional(use, s, t))
        BY <2>2, <1>5, ReportParts, QuietPart
      <3> QED
        BY <3>1, <1>2, <1>3, <1>4, PropsFit, ItemsFit, AdditionalFit
    <2> QED
      BY <2>1, <2>2
  <1>9. BranchesCarry(From(use, s, t), use = "response", To(use, s, t), use = "response")
    <2>1. CASE s.kind \in Composed
      <3>1. ~HasBreaking(DiffBranches(use, s, t))
        BY <2>1, <1>5, <1>6, ReportParts, QuietPart
      <3> QED
        BY <3>1, <1>2, <1>3, <1>4, BranchesFit
    <2>2. CASE s.kind \notin Composed
      <3>1. DOMAIN s.branches = {} /\ DOMAIN t.branches = {}
        BY <2>2, <1>2, <1>3, <1>6, ComposedOrNot
      <3> QED
        BY <3>1 DEF BranchesCarry, From, To
    <2> QED
      BY <2>1, <2>2
  <1>10. From(use, s, t).kind = To(use, s, t).kind
         /\ (From(use, s, t).kind = "cycleRef" => From(use, s, t).target = To(use, s, t).target)
    BY <1>2, <1>3, <1>6, TargetsFit DEF From, To, KnownGap
  <1>11. PartsCarry(From(use, s, t), use = "response", To(use, s, t), use = "response")
    BY <1>6, <1>7, <1>8, <1>9, <1>10 DEF PartsCarry
  <1>12. Fits(use, s, t)
    <2>1. From(use, s, t) \in Schemas /\ To(use, s, t) \in Schemas /\ (use = "response") \in BOOLEAN
      BY <1>2, <1>3 DEF From, To
    <2> QED
      BY <2>1, <1>11, PartsSuffice DEF Fits
  <1> QED
    BY <1>2, <1>12

-----------------------------------------------------------------------------
(* What a report says of the keys of two schemas.                          *)

(* A report is empty where it is empty further down.                       *)
LEMMA EmptyUnder ==
  ASSUME NEW use \in Usages, NEW old \in Schemas, NEW new \in Schemas, NEW place
  PROVE  DiffUnder(place, use, old, new) = {} <=> DiffSchema(use, old, new) = {}
  <1>1. DiffOf(use, old, new) = DiffSchema(use, old, new)
    BY RecursionAssumption DEF RecursionAssumption
  <1> QED
    BY <1>1 DEF DiffUnder, Under

(* Two schemas have the same key, targets apart, if their inner ones have. *)
SameInside(s, t) ==
    /\ DOMAIN s.props = DOMAIN t.props
    /\ \A n \in DOMAIN s.props : /\ s.props[n].required = t.props[n].required
                                 /\ KeyApart(s.props[n].schema) = KeyApart(t.props[n].schema)
    /\ s.items = None <=> t.items = None
    /\ s.items # None => KeyApart(s.items) = KeyApart(t.items)
    /\ \/ s.additional = t.additional /\ s.additional.schema = None
       \/ /\ s.additional.policy = "schema" /\ t.additional.policy = "schema"
          /\ KeyApart(s.additional.schema) = KeyApart(t.additional.schema)
    /\ \A i \in DOMAIN s.branches : \E j \in DOMAIN t.branches : KeyApart(s.branches[i]) = KeyApart(t.branches[j])
    /\ \A j \in DOMAIN t.branches : \E i \in DOMAIN s.branches : KeyApart(s.branches[i]) = KeyApart(t.branches[j])

(* Schemas whose parts have equal keys have equal keys.                    *)
LEMMA SameKeyApart ==
  ASSUME NEW s \in Schemas, NEW t \in Schemas, SameScalars(s, t), SameInside(s, t)
  PROVE  KeyApart(s) = KeyApart(t)
  <1> DEFINE props(u) == [n \in DOMAIN u.props |-> Property(u.props[n].required, KeyApart(u.props[n].schema))]
             items(u) == IF u.items = None THEN None ELSE KeyApart(u.items)
             additional(u) == IF u.additional.schema = None THEN u.additional ELSE ValuesOf(KeyApart(u.additional.schema))
             branches(u) == {KeyApart(u.branches[i]) : i \in DOMAIN u.branches}
  <1>1. props(s) = props(t)
    BY DEF SameInside
  <1>2. items(s) = items(t)
    BY DEF SameInside
  <1>3. additional(s) = additional(t)
    <2>1. CASE s.additional = t.additional /\ s.additional.schema = None
      BY <2>1
    <2>2. CASE /\ s.additional.policy = "schema" /\ t.additional.policy = "schema"
               /\ KeyApart(s.additional.schema) = KeyApart(t.additional.schema)
      <3>1. None \notin Schemas
        BY SchemasAssumption DEF SchemasAssumption
      <3>2. s.additional.schema # None /\ t.additional.schema # None
        BY <2>2, <3>1, AdditionalCases, Policies
      <3> QED
        BY <3>2, <2>2
    <2> QED
      BY <2>1, <2>2 DEF SameInside
  <1>4. branches(s) = branches(t)
    BY DEF SameInside
  <1>5. ASSUME NEW u \in Schemas
        PROVE  KeyApart(u) = [kind |-> u.kind, nullable |-> u.nullable, format |-> u.format, enum |-> u.enum,
                              props |-> props(u), items |-> items(u), additional |-> additional(u),
                              branches |-> branches(u), target |-> None]
    BY ApartParts, Zenon
  <1> HIDE DEF props, items, additional, branches
  <1> QED
    BY <1>1, <1>2, <1>3, <1>4, <1>5 DEF SameScalars

(* Equal keys stay equal without the targets.                              *)
LEMMA EqualKeysApart ==
  ASSUME NEW s \in Schemas, NEW t \in Schemas, KeyOf(s) = KeyOf(t)
  PROVE  KeyApart(s) = KeyApart(t)
  <1> DEFINE S == {u \in Schemas : \E w \in Schemas : KeyOf(u) = KeyOf(w) /\ KeyApart(u) # KeyApart(w)}
  <1> SUFFICES ASSUME S # {} PROVE FALSE
    OBVIOUS
  <1>1. PICK u \in S : \A x \in Inner(u) : x \notin S
    BY Shallowest
  <1>2. PICK w \in Schemas : KeyOf(u) = KeyOf(w) /\ KeyApart(u) # KeyApart(w)
    BY <1>1
  <1>3. u \in Schemas
    BY <1>1
  <1>4. \A x \in Inner(u) \cap Schemas, y \in Schemas : KeyOf(x) = KeyOf(y) => KeyApart(x) = KeyApart(y)
    BY <1>1
  <1> HIDE DEF S
  <1>5. SameInside(u, w)
    <2>1. /\ DOMAIN u.props = DOMAIN w.props
          /\ \A n \in DOMAIN u.props : /\ u.props[n].required = w.props[n].required
                                       /\ KeyApart(u.props[n].schema) = KeyApart(w.props[n].schema)
      BY <1>2, <1>3, <1>4, EqualKeys, PropertyInside
    <2>2. (u.items = None <=> w.items = None) /\ (u.items # None => KeyApart(u.items) = KeyApart(w.items))
      BY <1>2, <1>3, <1>4, EqualKeys, ItemsInside
    <2>3. \/ u.additional = w.additional /\ u.additional.schema = None
          \/ /\ u.additional.policy = "schema" /\ w.additional.policy = "schema"
             /\ KeyApart(u.additional.schema) = KeyApart(w.additional.schema)
      BY <1>2, <1>3, <1>4, EqualKeys, AdditionalCases, Policies
    <2>4. \A i \in DOMAIN u.branches : \E j \in DOMAIN w.branches : KeyApart(u.branches[i]) = KeyApart(w.branches[j])
      BY <1>2, <1>3, <1>4, EqualKeys, BranchInside
    <2>5. \A j \in DOMAIN w.branches : \E i \in DOMAIN u.branches : KeyApart(u.branches[i]) = KeyApart(w.branches[j])
      <3> TAKE j \in DOMAIN w.branches
      <3>1. PICK i \in DOMAIN u.branches : KeyOf(w.branches[j]) = KeyOf(u.branches[i])
        BY <1>2, <1>3, EqualKeys
      <3> QED
        BY <3>1, <1>2, <1>3, <1>4, BranchInside
    <2> QED
      BY <2>1, <2>2, <2>3, <2>4, <2>5 DEF SameInside
  <1>6. SameScalars(u, w)
    BY <1>2, <1>3, EqualKeys
  <1> QED
    BY <1>2, <1>3, <1>5, <1>6, SameKeyApart

SilentInside(use, old, new) ==
    \A s \in Inner(old), t \in Inner(new) :
       s \in Schemas /\ t \in Schemas /\ DiffSchema(use, s, t) = {} => KeyApart(s) = KeyApart(t)

(* Nothing reported in one part: its keys are equal.                       *)
LEMMA PropsSilent ==
  ASSUME NEW use \in Usages, NEW old \in Schemas, NEW new \in Schemas, SilentInside(use, old, new),
         DiffProps(use, old, new) = {}
  PROVE  /\ DOMAIN old.props = DOMAIN new.props
         /\ \A n \in DOMAIN old.props : /\ old.props[n].required = new.props[n].required
                                        /\ KeyApart(old.props[n].schema) = KeyApart(new.props[n].schema)
  <1>1. DOMAIN old.props \subseteq DOMAIN new.props
    <2> SUFFICES ASSUME NEW n \in DOMAIN old.props \ DOMAIN new.props PROVE FALSE
      OBVIOUS
    <2>1. FieldRemoved(n) \in DiffProps(use, old, new)
      BY DEF DiffProps
    <2> QED
      BY <2>1
  <1>2. DOMAIN new.props \subseteq DOMAIN old.props
    <2> SUFFICES ASSUME NEW n \in DOMAIN new.props \ DOMAIN old.props PROVE FALSE
      OBVIOUS
    <2>1. FieldAdded(use, <<n>>, new.props[n].required) \in DiffProps(use, old, new)
      BY DEF DiffProps
    <2> QED
      BY <2>1
  <1>3. ASSUME NEW n \in DOMAIN old.props
        PROVE  /\ old.props[n].required = new.props[n].required
               /\ KeyApart(old.props[n].schema) = KeyApart(new.props[n].schema)
    <2>1. n \in DOMAIN old.props \cap DOMAIN new.props
      BY <1>1
    <2>2. DiffProperty(n, use, old.props[n], new.props[n]) \subseteq DiffProps(use, old, new)
      BY <2>1 DEF DiffProps
    <2>3. /\ DiffRequired(use, <<n>>, old.props[n].required, new.props[n].required) = {}
          /\ DiffUnder(<<n>>, use, old.props[n].schema, new.props[n].schema) = {}
      BY <2>2 DEF DiffProperty
    <2>4. old.props[n].required = new.props[n].required
      BY <2>3 DEF DiffRequired
    <2>5. /\ old.props[n].schema \in Schemas /\ old.props[n].schema \in Inner(old)
          /\ new.props[n].schema \in Schemas /\ new.props[n].schema \in Inner(new)
      BY <2>1, PropertyInside
    <2> QED
      BY <2>3, <2>4, <2>5, EmptyUnder DEF SilentInside
  <1> QED
    BY <1>1, <1>2, <1>3

LEMMA ItemsSilent ==
  ASSUME NEW use \in Usages, NEW old \in Schemas, NEW new \in Schemas, SilentInside(use, old, new),
         DiffItems(use, old, new) = {}
  PROVE  /\ old.items = None <=> new.items = None
         /\ old.items # None => KeyApart(old.items) = KeyApart(new.items)
  <1>1. old.items = None <=> new.items = None
    BY DEF DiffItems
  <1>2. ASSUME old.items # None PROVE KeyApart(old.items) = KeyApart(new.items)
    <2>1. DiffUnder(<<"items">>, use, old.items, new.items) = {}
      BY <1>1, <1>2 DEF DiffItems
    <2> QED
      BY <1>1, <1>2, <2>1, ItemsInside, EmptyUnder DEF SilentInside
  <1> QED
    BY <1>1, <1>2

LEMMA AdditionalSilent ==
  ASSUME NEW use \in Usages, NEW old \in Schemas, NEW new \in Schemas, SilentInside(use, old, new),
         DiffAdditional(use, old, new) = {}
  PROVE  \/ old.additional = new.additional /\ old.additional.schema = None
         \/ /\ old.additional.policy = "schema" /\ new.additional.policy = "schema"
            /\ KeyApart(old.additional.schema) = KeyApart(new.additional.schema)
  <1> DEFINE policies == <<old.additional.policy, new.additional.policy>>
  <1>1. /\ old.additional = Forbidden \/ old.additional = AnyValue \/ old.additional.policy = "schema"
        /\ new.additional = Forbidden \/ new.additional = AnyValue \/ new.additional.policy = "schema"
    BY AdditionalCases, Policies
  <1>2. old.additional.policy # "unknown" /\ new.additional.policy # "unknown"
    BY <1>1, Policies
  <1>3. CASE policies = <<"schema", "schema">>
    <2>1. DiffUnder(<<"additionalProperties">>, use, old.additional.schema, new.additional.schema) = {}
      BY <1>2, <1>3 DEF DiffAdditional
    <2>2. old.additional.policy = "schema" /\ new.additional.policy = "schema"
      BY <1>3
    <2> QED
      BY <2>1, <2>2, AdditionalCases, Policies, EmptyUnder DEF SilentInside
  <1>4. CASE policies # <<"schema", "schema">>
    <2>1. old.additional.policy = new.additional.policy
      BY <1>2, <1>4 DEF DiffAdditional
    <2> QED
      BY <2>1, <1>1, <1>4, Policies
  <1> QED
    BY <1>3, <1>4

(* If nothing is reported of branches, all have found their partners.      *)
LEMMA BranchesSilent ==
  ASSUME NEW use \in Usages, NEW old \in Schemas, NEW new \in Schemas, SilentInside(use, old, new),
         DiffBranches(use, old, new) = {}
  PROVE  /\ \A i \in DOMAIN old.branches : \E j \in DOMAIN new.branches :
               KeyApart(old.branches[i]) = KeyApart(new.branches[j])
         /\ \A j \in DOMAIN new.branches : \E i \in DOMAIN old.branches :
               KeyApart(old.branches[i]) = KeyApart(new.branches[j])
  <1> DEFINE pairs == Pairs(old, new)
  <1>1. ASSUME NEW p \in pairs
        PROVE  /\ p[1] \in DOMAIN old.branches /\ p[2] \in DOMAIN new.branches
               /\ KeyApart(old.branches[p[1]]) = KeyApart(new.branches[p[2]])
    <2>1. p[1] \in DOMAIN old.branches /\ p[2] \in DOMAIN new.branches
      BY DEF Pairs, Unmatched
    <2>2. DiffUnder(BranchPlace(new, p[2]), use, old.branches[p[1]], new.branches[p[2]]) = {}
      BY BranchesReported
    <2> QED
      BY <2>1, <2>2, BranchInside, EmptyUnder DEF SilentInside
  <1>2. Unmatched(old, new) \subseteq {p[1] : p \in pairs} /\ Unmatched(new, old) \subseteq {p[2] : p \in pairs}
    BY BranchesReported
  <1>3. ASSUME NEW i \in DOMAIN old.branches
        PROVE  \E j \in DOMAIN new.branches : KeyApart(old.branches[i]) = KeyApart(new.branches[j])
    <2>1. CASE i \in Unmatched(old, new)
      BY <2>1, <1>1, <1>2
    <2>2. CASE i \notin Unmatched(old, new)
      <3>1. PICK j \in DOMAIN new.branches : KeyOf(old.branches[i]) = KeyOf(new.branches[j])
        BY <2>2 DEF Unmatched
      <3> QED
        BY <3>1, BranchInside, EqualKeysApart
    <2> QED
      BY <2>1, <2>2
  <1>4. ASSUME NEW j \in DOMAIN new.branches
        PROVE  \E i \in DOMAIN old.branches : KeyApart(old.branches[i]) = KeyApart(new.branches[j])
    <2>1. CASE j \in Unmatched(new, old)
      BY <2>1, <1>1, <1>2
    <2>2. CASE j \notin Unmatched(new, old)
      <3>1. PICK i \in DOMAIN old.branches : KeyOf(new.branches[j]) = KeyOf(old.branches[i])
        BY <2>2 DEF Unmatched
      <3> QED
        BY <3>1, BranchInside, EqualKeysApart
    <2> QED
      BY <2>1, <2>2
  <1> QED
    BY <1>3, <1>4

(* Induction on depth: an empty report means equal keys, targets apart.    *)
LEMMA SilentKeysAreSame ==
  ASSUME NEW use \in Usages, NEW old \in Schemas, NEW new \in Schemas, DiffSchema(use, old, new) = {}
  PROVE  KeyApart(old) = KeyApart(new)
  <1> DEFINE S == {s \in Schemas : \E t \in Schemas : DiffSchema(use, s, t) = {} /\ KeyApart(s) # KeyApart(t)}
  <1> SUFFICES ASSUME S # {} PROVE FALSE
    OBVIOUS
  <1>1. PICK s \in S : \A x \in Inner(s) : x \notin S
    BY Shallowest
  <1>2. PICK t \in Schemas : DiffSchema(use, s, t) = {} /\ KeyApart(s) # KeyApart(t)
    BY <1>1
  <1>3. s \in Schemas
    BY <1>1
  <1>4. SilentInside(use, s, t)
    BY <1>1, <1>2 DEF SilentInside
  <1> HIDE DEF S
  <1>5. SameScalars(s, t)
    <2>1. /\ DiffKind(s, t) = {} /\ DiffNullable(use, s, t) = {} /\ DiffFormat(s, t) = {}
          /\ DiffEnum(use, s, t) = {}
      BY <1>2, ReportParts
    <2>2. s.kind = t.kind /\ s.nullable = t.nullable /\ s.format = t.format
      BY <2>1 DEF DiffKind, DiffNullable, DiffFormat
    <2>3. s.enum \ t.enum = {} /\ t.enum \ s.enum = {}
      BY <2>1 DEF DiffEnum
    <2>4. s.enum = t.enum
      BY <2>3
    <2> QED
      BY <2>2, <2>4 DEF SameScalars
  <1>6. SameInside(s, t)
    <2>1. CASE s.kind \in Composed
      <3>1. t.kind \in Composed /\ s.kind = t.kind
        BY <2>1, <1>5 DEF SameScalars
      <3>2. DiffBranches(use, s, t) = {}
        BY <2>1, <3>1, <1>2, ReportParts
      <3>3. /\ DOMAIN s.props = {} /\ s.items = None /\ s.additional = Forbidden
            /\ DOMAIN t.props = {} /\ t.items = None /\ t.additional = Forbidden
        BY <2>1, <3>1, <1>2, <1>3, ComposedOrNot
      <3> QED
        BY <3>2, <3>3, <1>2, <1>3, <1>4, BranchesSilent, Policies DEF SameInside
    <2>2. CASE s.kind \notin Composed
      <3>1. DOMAIN s.branches = {} /\ DOMAIN t.branches = {}
        BY <2>2, <1>2, <1>3, <1>5, ComposedOrNot DEF SameScalars
      <3>2. DiffProps(use, s, t) = {} /\ DiffItems(use, s, t) = {} /\ DiffAdditional(use, s, t) = {}
        BY <2>2, <1>2, ReportParts
      <3> QED
        BY <3>1, <3>2, <1>2, <1>3, <1>4, PropsSilent, ItemsSilent, AdditionalSilent DEF SameInside
    <2> QED
      BY <2>1, <2>2
  <1> QED
    BY <1>2, <1>3, <1>5, <1>6, SameKeyApart

(* Schemas of one key have nothing to report.                              *)
LEMMA SameKeysAreSilent ==
  ASSUME NEW use \in Usages, NEW old \in Schemas, NEW new \in Schemas, KeyOf(old) = KeyOf(new)
  PROVE  DiffSchema(use, old, new) = {}
  <1> DEFINE S == {s \in Schemas : \E t \in Schemas : KeyOf(s) = KeyOf(t) /\ DiffSchema(use, s, t) # {}}
  <1> SUFFICES ASSUME S # {} PROVE FALSE
    OBVIOUS
  <1>1. PICK s \in S : \A x \in Inner(s) : x \notin S
    BY Shallowest
  <1>2. PICK t \in Schemas : KeyOf(s) = KeyOf(t) /\ DiffSchema(use, s, t) # {}
    BY <1>1
  <1>3. s \in Schemas
    BY <1>1
  <1>4. ASSUME NEW x \in Inner(s), NEW y, x \in Schemas, y \in Schemas, KeyOf(x) = KeyOf(y), NEW place
        PROVE  DiffUnder(place, use, x, y) = {}
    BY <1>1, <1>4, EmptyUnder
  <1> HIDE DEF S
  <1>5. SameScalars(s, t)
    BY <1>2, <1>3, EqualKeys
  <1>6. /\ DiffKind(s, t) = {} /\ DiffNullable(use, s, t) = {} /\ DiffFormat(s, t) = {} /\ DiffEnum(use, s, t) = {}
    BY <1>5 DEF SameScalars, DiffKind, DiffNullable, DiffFormat, DiffEnum
  <1>7. DiffProps(use, s, t) = {}
    <2>1. DOMAIN s.props = DOMAIN t.props
      BY <1>2, <1>3, EqualKeys
    <2>2. ASSUME NEW n \in DOMAIN s.props PROVE DiffProperty(n, use, s.props[n], t.props[n]) = {}
      <3>1. s.props[n].required = t.props[n].required /\ KeyOf(s.props[n].schema) = KeyOf(t.props[n].schema)
        BY <1>2, <1>3, EqualKeys
      <3>2. DiffUnder(<<n>>, use, s.props[n].schema, t.props[n].schema) = {}
        BY <3>1, <2>1, <1>2, <1>3, <1>4, PropertyInside
      <3> QED
        BY <3>1, <3>2 DEF DiffProperty, DiffRequired
    <2> QED
      BY <2>1, <2>2 DEF DiffProps
  <1>8. DiffItems(use, s, t) = {}
    <2>1. (s.items = None <=> t.items = None) /\ (s.items # None => KeyOf(s.items) = KeyOf(t.items))
      BY <1>2, <1>3, EqualKeys
    <2> QED
      BY <2>1, <1>2, <1>3, <1>4, ItemsInside DEF DiffItems
  <1>9. DiffAdditional(use, s, t) = {}
    <2>1. \/ s.additional = t.additional /\ s.additional.schema = None
          \/ /\ s.additional.policy = "schema" /\ t.additional.policy = "schema"
             /\ KeyOf(s.additional.schema) = KeyOf(t.additional.schema)
      BY <1>2, <1>3, EqualKeys
    <2>2. CASE s.additional = t.additional /\ s.additional.schema = None
      <3>1. s.additional.policy # "schema"
        BY <2>2, <1>3, AdditionalCases, Policies, SchemasAssumption DEF SchemasAssumption
      <3> QED
        BY <2>2, <3>1 DEF DiffAdditional
    <2>3. CASE /\ s.additional.policy = "schema" /\ t.additional.policy = "schema"
               /\ KeyOf(s.additional.schema) = KeyOf(t.additional.schema)
      <3>1. DiffUnder(<<"additionalProperties">>, use, s.additional.schema, t.additional.schema) = {}
        BY <2>3, <1>2, <1>3, <1>4, AdditionalCases, Policies
      <3> QED
        BY <2>3, <3>1 DEF DiffAdditional
    <2> QED
      BY <2>1, <2>2, <2>3
  <1>10. DiffBranches(use, s, t) = {}
    <2>1. Unmatched(s, t) = {}
      BY <1>2, <1>3, EqualKeys DEF Unmatched
    <2>2. Unmatched(t, s) = {}
      BY <1>2, <1>3, EqualKeys DEF Unmatched
    <2>3. Pairs(s, t) = {}
      BY <2>1 DEF Pairs
    <2> QED
      BY <2>1, <2>2, <2>3 DEF DiffBranches
  <1> QED
    BY <1>2, <1>6, <1>7, <1>8, <1>9, <1>10 DEF DiffSchema

-----------------------------------------------------------------------------
(* What is written for one version fits the next, and so on.               *)
LEMMA FitsTransitive ==
  ASSUME NEW use, NEW a, NEW b, NEW c, Fits(use, a, b), Fits(use, b, c)
  PROVE  Fits(use, a, c)
  BY DEF Fits, From, To, Carries

(* To fit is more than to be safe: readers of old values are included.     *)
LEMMA FitsIsSafe ==
  ASSUME NEW use \in Usages, NEW old \in Schemas, NEW new \in Schemas, Fits(use, old, new)
  PROVE  Safe(use, old, new)
  <1>1. CASE use = "request"
    BY <1>1, WritesAreRead DEF Fits, From, To, Carries, Safe, Writes, Reads
  <1>2. CASE use = "response"
    BY <1>2, WritesAreRead DEF Fits, From, To, Carries, Safe, Writes, Reads
  <1> QED
    BY <1>1, <1>2 DEF Usages

-----------------------------------------------------------------------------
(* Contracts.                                                              *)

Unbroken(usage, at, old, new) == ~HasBreaking(SchemaChanges(usage, at, old, new))

Silent(usage, at, old, new) == SchemaChanges(usage, at, old, new) = {}

-----------------------------------------------------------------------------
(* What the clients of an operation rely on.                               *)

ServersStay(old, new) == None \in {old, new} \/ old \subseteq new

(* The same scheme: of one known identity, or of one name where nothing    *)
(* the two sides know tells them apart.                                    *)
SameScheme(o, old, n, new) ==
    \/ IsKnown(old.identity) /\ old.identity = new.identity
    \/ /\ o = n /\ old.kind = new.kind
       /\ None \in {old.identity, new.identity} \/ old.identity = new.identity

(* Who met every old requirement meets every new one.                      *)
AuthSuffices(old, new) ==
    \A n \in DOMAIN new : \E o \in DOMAIN old :
       SameScheme(o, old[o], n, new[n]) /\ new[n].scopes \subseteq old[o].scopes

ParametersTaken(old, new) ==
    /\ \A k \in DOMAIN old : k \in DOMAIN new /\ Unbroken("request", <<k.in, k.name>>, old[k].schema, new[k].schema)
    /\ \A k \in DOMAIN new : new[k].required = TRUE => k \in DOMAIN old /\ old[k].required = TRUE

(* No media type goes, and none appears in what clients have to read.      *)
ContentFits(usage, place, old, new) ==
    /\ DOMAIN old \subseteq DOMAIN new
    /\ usage = "response" => DOMAIN new \subseteq DOMAIN old
    /\ \A t \in DOMAIN old : Unbroken(usage, Append(place, t), old[t], new[t])

BodyTaken(old, new) ==
    /\ old # None => new # None
    /\ (old = None /\ new # None) => new.required # TRUE
    /\ (old # None /\ new # None) =>
          /\ ContentFits("request", <<"request">>, old.content, new.content)
          /\ (None \notin {old.required, new.required} /\ new.required = TRUE) => old.required = TRUE

ResponsesUnderstood(old, new) ==
    /\ DOMAIN old \cap SuccessStatuses \subseteq DOMAIN new
    /\ \A s \in DOMAIN old \cap DOMAIN new :
          ContentFits("response", <<"response", s>>, old[s], new[s])

OperationKept(old, new) ==
    /\ AuthSuffices(old.auth, new.auth)
    /\ ServersStay(old.servers, new.servers)
    /\ ParametersTaken(old.params, new.params)
    /\ ResponsesUnderstood(old.responses, new.responses)
    /\ BodyTaken(old.body, new.body)

ContractKept(old, new) ==
    \A op \in DOMAIN old : op \in DOMAIN new /\ OperationKept(old[op], new[op])

-----------------------------------------------------------------------------
LEMMA SeverityOf ==
  ASSUME NEW at, NEW what, NEW severity
  PROVE  Change(at, what, severity).severity = severity
  BY DEF Change

LEMMA BreakingOne ==
  ASSUME NEW changes, NEW c \in changes, c.severity = "breaking"
  PROVE  HasBreaking(changes)
  BY DEF HasBreaking

LEMMA ServersKept ==
  ASSUME NEW old, NEW new, ~HasBreaking(DiffServers(old, new))
  PROVE  ServersStay(old, new)
  <1> SUFFICES ASSUME None \notin {old, new}, NEW s \in old \ new PROVE FALSE
    BY DEF ServersStay
  <1> DEFINE removed == Change(<<"server", s.site, s.vars>>, "removed", "breaking")
  <1>1. removed \in DiffServers(old, new)
    BY DEF DiffServers
  <1> HIDE DEF removed
  <1> QED BY <1>1, BreakingOne, SeverityOf DEF removed

LEMMA ScopesKept ==
  ASSUME NEW name, NEW old, NEW new, ~HasBreaking(DiffScopes(name, old, new))
  PROVE  new.scopes \subseteq old.scopes
  <1> SUFFICES ASSUME NEW scope \in new.scopes \ old.scopes PROVE FALSE
    OBVIOUS
  <1> DEFINE added == Change(<<"auth", name, scope>>, "added", "breaking")
  <1>1. added \in DiffScopes(name, old, new)
    BY DEF DiffScopes
  <1> HIDE DEF added
  <1> QED BY <1>1, BreakingOne, SeverityOf DEF added

(* A requirement of the new side that is in no pair is reported, and so    *)
(* are a scope more and another kind or identity in a pair.                *)
LEMMA AuthKept ==
  ASSUME NEW old, NEW new, ~HasBreaking(DiffAuth(old, new))
  PROVE  AuthSuffices(old, new)
  <1> DEFINE byIdentity == {p \in (DOMAIN old) \X (DOMAIN new) :
                              IsKnown(old[p[1]].identity) /\ old[p[1]].identity = new[p[2]].identity}
             oldLeft == DOMAIN old \ {p[1] : p \in byIdentity}
             newLeft == DOMAIN new \ {p[2] : p \in byIdentity}
             byName == oldLeft \cap newLeft
  <1>1. DiffAuth(old, new) =
          (UNION {DiffScopes(p[2], old[p[1]], new[p[2]]) : p \in byIdentity})
            \cup (UNION {DiffScheme(n, old[n], new[n]) \cup DiffScopes(n, old[n], new[n]) : n \in byName})
            \cup {Change(<<"auth", n>>, "removed", "nonBreaking") : n \in oldLeft \ byName}
            \cup {Change(<<"auth", n>>, "added", "breaking") : n \in newLeft \ byName}
    BY DEF DiffAuth
  <1> SUFFICES ASSUME NEW n \in DOMAIN new
               PROVE  \E o \in DOMAIN old :
                         SameScheme(o, old[o], n, new[n]) /\ new[n].scopes \subseteq old[o].scopes
    BY DEF AuthSuffices
  <1>3. CASE n \notin newLeft
    <2>1. PICK p \in byIdentity : p[2] = n
      BY <1>3
    <2>2. p[1] \in DOMAIN old /\ SameScheme(p[1], old[p[1]], n, new[n])
      BY <2>1 DEF SameScheme
    <2>3. ~HasBreaking(DiffScopes(p[2], old[p[1]], new[p[2]]))
      <3> HIDE DEF byIdentity
      <3> QED BY <1>1, <2>1 DEF HasBreaking
    <2> QED BY ScopesKept, <2>1, <2>2, <2>3
  <1>4. CASE n \in newLeft
    <2>1. n \in byName
      <3> SUFFICES ASSUME n \notin byName PROVE FALSE
        OBVIOUS
      <3> DEFINE added == Change(<<"auth", n>>, "added", "breaking")
      <3>1. added \in DiffAuth(old, new)
        <4> HIDE DEF byName, newLeft, oldLeft, byIdentity
        <4> QED BY <1>1, <1>4
      <3> HIDE DEF added
      <3> QED BY <3>1, BreakingOne, SeverityOf DEF added
    <2>2. ~HasBreaking(DiffScheme(n, old[n], new[n])) /\ ~HasBreaking(DiffScopes(n, old[n], new[n]))
      <3> HIDE DEF byName
      <3> QED BY <1>1, <2>1 DEF HasBreaking
    <2>3. SameScheme(n, old[n], n, new[n])
      <3> SUFFICES ASSUME ~SameScheme(n, old[n], n, new[n]) PROVE FALSE
        OBVIOUS
      <3>1. \E what : Change(<<"auth", n>>, what, "breaking") \in DiffScheme(n, old[n], new[n])
        BY DEF DiffScheme, SameScheme
      <3> QED BY <2>2, <3>1, BreakingOne, SeverityOf
    <2> QED BY ScopesKept, <2>1, <2>2, <2>3
  <1> QED BY <1>3, <1>4

LEMMA ParametersKept ==
  ASSUME NEW old, NEW new, ~HasBreaking(DiffParameters(old, new))
  PROVE  ParametersTaken(old, new)
  <1> DEFINE gone == {Change(<<k.in, k.name>>, "removed", "breaking") : k \in DOMAIN old \ DOMAIN new}
             fresh == {FieldAdded("request", <<k.in, k.name>>, new[k].required) : k \in DOMAIN new \ DOMAIN old}
             inside(k) == DiffRequired("request", <<k.in, k.name>>, old[k].required, new[k].required)
                            \cup SchemaChanges("request", <<k.in, k.name>>, old[k].schema, new[k].schema)
  <1>1. DiffParameters(old, new)
          = gone \cup fresh \cup UNION {inside(k) : k \in DOMAIN old \cap DOMAIN new}
    BY DEF DiffParameters
  <1>2. ~HasBreaking(gone) /\ ~HasBreaking(fresh)
        /\ \A k \in DOMAIN old \cap DOMAIN new : ~HasBreaking(inside(k))
    <2> HIDE DEF gone, fresh, inside
    <2> QED BY <1>1 DEF HasBreaking
  <1>3. DOMAIN old \subseteq DOMAIN new
    <2> SUFFICES ASSUME NEW k \in DOMAIN old \ DOMAIN new PROVE FALSE
      OBVIOUS
    <2>1. Change(<<k.in, k.name>>, "removed", "breaking") \in gone
      OBVIOUS
    <2> HIDE DEF gone
    <2> QED BY <1>2, <2>1, BreakingOne, SeverityOf
  <1>4. ASSUME NEW k \in DOMAIN old
        PROVE  Unbroken("request", <<k.in, k.name>>, old[k].schema, new[k].schema)
    BY <1>2, <1>3 DEF Unbroken, HasBreaking
  <1>5. ASSUME NEW k \in DOMAIN new, new[k].required = TRUE
        PROVE  k \in DOMAIN old /\ old[k].required = TRUE
    <2>1. k \in DOMAIN old
      <3> SUFFICES ASSUME k \notin DOMAIN old PROVE FALSE
        OBVIOUS
      <3>1. FieldAdded("request", <<k.in, k.name>>, new[k].required) \in fresh
        OBVIOUS
      <3>2. FieldAdded("request", <<k.in, k.name>>, new[k].required).severity = "breaking"
        BY <1>5 DEF FieldAdded, Narrowed, Change
      <3> HIDE DEF fresh
      <3> QED BY <1>2, <3>1, <3>2 DEF HasBreaking
    <2>2. ~HasBreaking(DiffRequired("request", <<k.in, k.name>>, old[k].required, new[k].required))
      BY <1>2, <2>1 DEF HasBreaking
    <2>3. old[k].required = new[k].required
      BY <1>5, <2>2 DEF DiffRequired, HasBreaking, Narrowed, Change
    <2> QED BY <1>5, <2>1, <2>3
  <1> QED BY <1>3, <1>4, <1>5 DEF ParametersTaken

LEMMA ContentKept ==
  ASSUME NEW usage \in Usages, NEW place, NEW old, NEW new,
         ~HasBreaking(DiffContent(usage, place, old, new))
  PROVE  ContentFits(usage, place, old, new)
  <1>1. DOMAIN old \subseteq DOMAIN new
    <2> SUFFICES ASSUME NEW t \in DOMAIN old \ DOMAIN new PROVE FALSE
      OBVIOUS
    <2> DEFINE removed == Change(Append(place, t), "removed", "breaking")
    <2>1. removed \in DiffContent(usage, place, old, new)
      BY DEF DiffContent
    <2> HIDE DEF removed
    <2> QED BY <2>1, BreakingOne, SeverityOf DEF removed
  <1>2. ASSUME usage = "response" PROVE DOMAIN new \subseteq DOMAIN old
    <2> SUFFICES ASSUME NEW t \in DOMAIN new \ DOMAIN old PROVE FALSE
      OBVIOUS
    <2> DEFINE added == Change(Append(place, t), "added", Widened(usage))
    <2>1. added \in DiffContent(usage, place, old, new)
      BY DEF DiffContent
    <2>2. Widened(usage) = "breaking"
      BY <1>2 DEF Widened
    <2> HIDE DEF added
    <2> QED BY <2>1, <2>2, BreakingOne, SeverityOf DEF added
  <1>3. ASSUME NEW t \in DOMAIN old PROVE Unbroken(usage, Append(place, t), old[t], new[t])
    <2>1. SchemaChanges(usage, Append(place, t), old[t], new[t]) \subseteq DiffContent(usage, place, old, new)
      BY <1>1 DEF DiffContent
    <2> QED BY <2>1 DEF Unbroken, HasBreaking
  <1> QED BY <1>1, <1>2, <1>3 DEF ContentFits

LEMMA BodyKept ==
  ASSUME NEW old, NEW new, ~HasBreaking(DiffBodies(old, new))
  PROVE  BodyTaken(old, new)
  <1>1. ASSUME old # None PROVE new # None
    <2> SUFFICES ASSUME new = None PROVE FALSE
      OBVIOUS
    <2>1. Change(<<"request">>, "removed", "breaking") \in DiffBodies(old, new)
      BY <1>1 DEF DiffBodies
    <2> QED BY <2>1, BreakingOne, SeverityOf
  <1>2. ASSUME old = None, new # None PROVE new.required # TRUE
    <2> SUFFICES ASSUME new.required = TRUE PROVE FALSE
      OBVIOUS
    <2>1. FieldAdded("request", <<"request">>, TRUE) \in DiffBodies(old, new)
      BY <1>2 DEF DiffBodies
    <2>2. FieldAdded("request", <<"request">>, TRUE).severity = "breaking"
      BY DEF FieldAdded, Narrowed, Change
    <2> QED BY <2>1, <2>2, BreakingOne
  <1>3. ASSUME old # None, new # None
        PROVE  ContentFits("request", <<"request">>, old.content, new.content)
    <2>1. DiffContent("request", <<"request">>, old.content, new.content) \subseteq DiffBodies(old, new)
      BY <1>3 DEF DiffBodies
    <2>2. ~HasBreaking(DiffContent("request", <<"request">>, old.content, new.content))
      BY <2>1 DEF HasBreaking
    <2> QED BY <2>2, ContentKept DEF Usages
  <1>4. ASSUME old # None, new # None, None \notin {old.required, new.required}, new.required = TRUE
        PROVE  old.required = TRUE
    <2> SUFFICES ASSUME old.required # TRUE PROVE FALSE
      OBVIOUS
    <2>1. Change(<<"request">>, "required", "breaking") \in DiffBodies(old, new)
      BY <1>4 DEF DiffBodies, DiffRequired, Narrowed
    <2> QED BY <2>1, BreakingOne, SeverityOf
  <1> QED BY <1>1, <1>2, <1>3, <1>4 DEF BodyTaken

LEMMA ResponsesKept ==
  ASSUME NEW old, NEW new, ~HasBreaking(DiffResponses(old, new))
  PROVE  ResponsesUnderstood(old, new)
  <1>1. DOMAIN old \cap SuccessStatuses \subseteq DOMAIN new
    <2> SUFFICES ASSUME NEW s \in DOMAIN old \cap SuccessStatuses, s \notin DOMAIN new PROVE FALSE
      OBVIOUS
    <2>1. Change(<<"response", s>>, "removed", "breaking") \in DiffResponses(old, new)
      BY DEF DiffResponses
    <2> QED BY <2>1, BreakingOne, SeverityOf
  <1>2. ASSUME NEW s \in DOMAIN old \cap DOMAIN new
        PROVE  ContentFits("response", <<"response", s>>, old[s], new[s])
    <2>1. DiffContent("response", <<"response", s>>, old[s], new[s]) \subseteq DiffResponses(old, new)
      BY DEF DiffResponses
    <2>2. ~HasBreaking(DiffContent("response", <<"response", s>>, old[s], new[s]))
      BY <2>1 DEF HasBreaking
    <2> QED BY <2>2, ContentKept DEF Usages
  <1> QED BY <1>1, <1>2 DEF ResponsesUnderstood

(* What is reported of an operation has the severity it was found with.    *)
LEMMA OperationReported ==
  ASSUME NEW old, NEW new, NEW op \in DOMAIN old \cap DOMAIN new,
         NEW c \in DiffOperation(old[op], new[op])
  PROVE  At(op, c) \in DiffContracts(old, new) /\ At(op, c).severity = c.severity
  BY DEF DiffContracts, At

(* A report without a breaking change means that no operation is gone and  *)
(* that, of each, every old server is there, no authentication or scope is *)
(* asked for that was not, every parameter and body is still taken and     *)
(* none is required that was not, and responses come in media types that   *)
(* are known: as far as the comparison of schemas finds nothing breaking   *)
(* inside any of them (diff_contracts, src/diff/mod.rs:20-491).            *)
THEOREM NothingBreakingKeepsClients ==
  ASSUME NEW old, NEW new, ~HasBreaking(DiffContracts(old, new))
  PROVE  ContractKept(old, new)
  <1> SUFFICES ASSUME NEW op \in DOMAIN old
               PROVE  op \in DOMAIN new /\ OperationKept(old[op], new[op])
    BY DEF ContractKept
  <1>1. op \in DOMAIN new
    <2> SUFFICES ASSUME op \notin DOMAIN new PROVE FALSE
      OBVIOUS
    <2>1. Endpoint(op, "removed", "breaking") \in DiffContracts(old, new)
      BY DEF DiffContracts
    <2>2. Endpoint(op, "removed", "breaking").severity = "breaking"
      BY DEF Endpoint, At, Change
    <2> QED BY <2>1, <2>2, BreakingOne
  <1>2. ~HasBreaking(DiffOperation(old[op], new[op]))
    BY <1>1, OperationReported, BreakingOne DEF HasBreaking
  <1> DEFINE o == old[op]
             n == new[op]
  <1>3. /\ ~HasBreaking(DiffAuth(o.auth, n.auth))
        /\ ~HasBreaking(DiffServers(o.servers, n.servers))
        /\ ~HasBreaking(DiffParameters(o.params, n.params))
        /\ ~HasBreaking(DiffResponses(o.responses, n.responses))
        /\ ~HasBreaking(DiffBodies(o.body, n.body))
    BY <1>2 DEF DiffOperation, HasBreaking
  <1> HIDE DEF o, n
  <1>4. OperationKept(o, n)
    BY <1>3, AuthKept, ServersKept, ParametersKept, ResponsesKept, BodyKept DEF OperationKept
  <1> QED BY <1>1, <1>4 DEF o, n

-----------------------------------------------------------------------------
(* What a silent report leaves open: nothing but the inside of schemas.    *)

ServersSame(old, new) == None \in {old, new} \/ old = new

AuthSame(old, new) ==
    /\ \A n \in DOMAIN new : \E o \in DOMAIN old :
          SameScheme(o, old[o], n, new[n]) /\ new[n].scopes = old[o].scopes
    /\ \A o \in DOMAIN old : \E n \in DOMAIN new :
          SameScheme(o, old[o], n, new[n]) /\ new[n].scopes = old[o].scopes

ParametersSame(old, new) ==
    /\ DOMAIN old = DOMAIN new
    /\ \A k \in DOMAIN old : /\ old[k].required = new[k].required
                             /\ Silent("request", <<k.in, k.name>>, old[k].schema, new[k].schema)

ContentSame(usage, place, old, new) ==
    /\ DOMAIN old = DOMAIN new
    /\ \A t \in DOMAIN old : Silent(usage, Append(place, t), old[t], new[t])

BodySame(old, new) ==
    /\ old = None <=> new = None
    /\ old # None => /\ None \in {old.required, new.required} \/ old.required = new.required
                     /\ ContentSame("request", <<"request">>, old.content, new.content)

ResponsesSame(old, new) ==
    /\ DOMAIN old = DOMAIN new
    /\ \A s \in DOMAIN old : ContentSame("response", <<"response", s>>, old[s], new[s])

OperationSame(old, new) ==
    /\ AuthSame(old.auth, new.auth)
    /\ ServersSame(old.servers, new.servers)
    /\ ParametersSame(old.params, new.params)
    /\ ResponsesSame(old.responses, new.responses)
    /\ BodySame(old.body, new.body)

ContractSame(old, new) ==
    /\ DOMAIN old = DOMAIN new
    /\ \A op \in DOMAIN old : OperationSame(old[op], new[op])

LEMMA ScopesSilent ==
  ASSUME NEW name, NEW old, NEW new, DiffScopes(name, old, new) = {}
  PROVE  new.scopes = old.scopes
  <1>1. new.scopes \ old.scopes = {} /\ old.scopes \ new.scopes = {}
    BY DEF DiffScopes
  <1> QED BY <1>1

LEMMA AuthSilent ==
  ASSUME NEW old, NEW new, DiffAuth(old, new) = {}
  PROVE  AuthSame(old, new)
  <1> DEFINE byIdentity == {p \in (DOMAIN old) \X (DOMAIN new) :
                              IsKnown(old[p[1]].identity) /\ old[p[1]].identity = new[p[2]].identity}
             oldLeft == DOMAIN old \ {p[1] : p \in byIdentity}
             newLeft == DOMAIN new \ {p[2] : p \in byIdentity}
             byName == oldLeft \cap newLeft
             Alike(o, n) == SameScheme(o, old[o], n, new[n]) /\ new[n].scopes = old[o].scopes
  <1>1. DiffAuth(old, new) =
          (UNION {DiffScopes(p[2], old[p[1]], new[p[2]]) : p \in byIdentity})
            \cup (UNION {DiffScheme(n, old[n], new[n]) \cup DiffScopes(n, old[n], new[n]) : n \in byName})
            \cup {Change(<<"auth", n>>, "removed", "nonBreaking") : n \in oldLeft \ byName}
            \cup {Change(<<"auth", n>>, "added", "breaking") : n \in newLeft \ byName}
    BY DEF DiffAuth
  <1>2. /\ \A p \in byIdentity : DiffScopes(p[2], old[p[1]], new[p[2]]) = {}
        /\ \A n \in byName : DiffScheme(n, old[n], new[n]) = {} /\ DiffScopes(n, old[n], new[n]) = {}
        /\ oldLeft \subseteq byName /\ newLeft \subseteq byName
    <2> HIDE DEF byIdentity, oldLeft, newLeft, byName
    <2>1. \A p \in byIdentity : DiffScopes(p[2], old[p[1]], new[p[2]]) \subseteq DiffAuth(old, new)
      BY <1>1
    <2>2. \A n \in byName :
             DiffScheme(n, old[n], new[n]) \cup DiffScopes(n, old[n], new[n]) \subseteq DiffAuth(old, new)
      BY <1>1
    <2>3. oldLeft \ byName = {} /\ newLeft \ byName = {}
      <3>1. \A n \in oldLeft \ byName : Change(<<"auth", n>>, "removed", "nonBreaking") \in DiffAuth(old, new)
        BY <1>1
      <3>2. \A n \in newLeft \ byName : Change(<<"auth", n>>, "added", "breaking") \in DiffAuth(old, new)
        BY <1>1
      <3> QED BY <3>1, <3>2
    <2>4. \A p \in byIdentity : DiffScopes(p[2], old[p[1]], new[p[2]]) = {}
      BY <2>1
    <2>5. \A n \in byName : DiffScheme(n, old[n], new[n]) = {} /\ DiffScopes(n, old[n], new[n]) = {}
      BY <2>2
    <2> QED BY <2>3, <2>4, <2>5
  <1>3. \A p \in byIdentity : Alike(p[1], p[2])
    <2> SUFFICES ASSUME NEW p \in byIdentity PROVE Alike(p[1], p[2])
      OBVIOUS
    <2>1. SameScheme(p[1], old[p[1]], p[2], new[p[2]])
      BY DEF SameScheme
    <2> HIDE DEF byIdentity
    <2> QED BY <1>2, <2>1, ScopesSilent
  <1>4. \A n \in byName : Alike(n, n)
    <2> SUFFICES ASSUME NEW n \in byName PROVE Alike(n, n)
      OBVIOUS
    <2> HIDE DEF byName
    <2>1. DiffScheme(n, old[n], new[n]) = {} /\ DiffScopes(n, old[n], new[n]) = {}
      BY <1>2
    <2>2. SameScheme(n, old[n], n, new[n])
      BY <2>1 DEF DiffScheme, SameScheme
    <2> QED BY <2>1, <2>2, ScopesSilent
  <1>5. ASSUME NEW n \in DOMAIN new PROVE \E o \in DOMAIN old : Alike(o, n)
    <2>1. CASE n \in newLeft
      <3>1. n \in byName
        BY <1>2, <2>1
      <3> HIDE DEF Alike
      <3> QED BY <1>4, <3>1
    <2>2. CASE n \notin newLeft
      <3>1. PICK p \in byIdentity : p[2] = n
        BY <2>2
      <3>2. p[1] \in DOMAIN old
        BY <3>1
      <3> HIDE DEF Alike, byIdentity
      <3> QED BY <1>3, <3>1, <3>2
    <2> QED BY <2>1, <2>2
  <1>6. ASSUME NEW o \in DOMAIN old PROVE \E n \in DOMAIN new : Alike(o, n)
    <2>1. CASE o \in oldLeft
      <3>1. o \in byName
        BY <1>2, <2>1
      <3> HIDE DEF Alike
      <3> QED BY <1>4, <3>1
    <2>2. CASE o \notin oldLeft
      <3>1. PICK p \in byIdentity : p[1] = o
        BY <2>2
      <3>2. p[2] \in DOMAIN new
        BY <3>1
      <3> HIDE DEF Alike, byIdentity
      <3> QED BY <1>3, <3>1, <3>2
    <2> QED BY <2>1, <2>2
  <1> QED BY <1>5, <1>6 DEF AuthSame

LEMMA ServersSilent ==
  ASSUME NEW old, NEW new, DiffServers(old, new) = {}
  PROVE  ServersSame(old, new)
  <1> SUFFICES ASSUME None \notin {old, new} PROVE old = new
    BY DEF ServersSame
  <1>1. old \ new = {} /\ new \ old = {}
    BY DEF DiffServers
  <1> QED BY <1>1

LEMMA RequiredSilent ==
  ASSUME NEW usage, NEW at, NEW old, NEW new, DiffRequired(usage, at, old, new) = {}
  PROVE  old = new
  BY DEF DiffRequired

LEMMA ParametersSilent ==
  ASSUME NEW old, NEW new, DiffParameters(old, new) = {}
  PROVE  ParametersSame(old, new)
  <1>1. DOMAIN old \ DOMAIN new = {} /\ DOMAIN new \ DOMAIN old = {}
    <2>1. \A k \in DOMAIN old \ DOMAIN new : Change(<<k.in, k.name>>, "removed", "breaking") \in DiffParameters(old, new)
      BY DEF DiffParameters
    <2>2. \A k \in DOMAIN new \ DOMAIN old :
             FieldAdded("request", <<k.in, k.name>>, new[k].required) \in DiffParameters(old, new)
      BY DEF DiffParameters
    <2> QED BY <2>1, <2>2
  <1>2. DOMAIN old = DOMAIN new
    BY <1>1
  <1>3. ASSUME NEW k \in DOMAIN old
        PROVE  /\ old[k].required = new[k].required
               /\ Silent("request", <<k.in, k.name>>, old[k].schema, new[k].schema)
    <2> DEFINE inside == DiffRequired("request", <<k.in, k.name>>, old[k].required, new[k].required)
                           \cup SchemaChanges("request", <<k.in, k.name>>, old[k].schema, new[k].schema)
    <2>1. inside \subseteq DiffParameters(old, new)
      BY <1>2 DEF DiffParameters
    <2>2. /\ DiffRequired("request", <<k.in, k.name>>, old[k].required, new[k].required) = {}
          /\ SchemaChanges("request", <<k.in, k.name>>, old[k].schema, new[k].schema) = {}
      BY <2>1
    <2> QED BY <2>2, RequiredSilent DEF Silent
  <1> QED BY <1>2, <1>3 DEF ParametersSame

LEMMA ContentSilent ==
  ASSUME NEW usage, NEW place, NEW old, NEW new, DiffContent(usage, place, old, new) = {}
  PROVE  ContentSame(usage, place, old, new)
  <1>1. DOMAIN old \ DOMAIN new = {} /\ DOMAIN new \ DOMAIN old = {}
    <2>1. \A t \in DOMAIN old \ DOMAIN new :
             Change(Append(place, t), "removed", "breaking") \in DiffContent(usage, place, old, new)
      BY DEF DiffContent
    <2>2. \A t \in DOMAIN new \ DOMAIN old :
             Change(Append(place, t), "added", Widened(usage)) \in DiffContent(usage, place, old, new)
      BY DEF DiffContent
    <2> QED BY <2>1, <2>2
  <1>2. DOMAIN old = DOMAIN new
    BY <1>1
  <1>3. ASSUME NEW t \in DOMAIN old PROVE Silent(usage, Append(place, t), old[t], new[t])
    <2>1. SchemaChanges(usage, Append(place, t), old[t], new[t]) \subseteq DiffContent(usage, place, old, new)
      BY <1>2 DEF DiffContent
    <2> QED BY <2>1 DEF Silent
  <1> QED BY <1>2, <1>3 DEF ContentSame

LEMMA BodySilent ==
  ASSUME NEW old, NEW new, DiffBodies(old, new) = {}
  PROVE  BodySame(old, new)
  <1>1. old = None <=> new = None
    BY DEF DiffBodies
  <1>2. ASSUME old # None
        PROVE  /\ None \in {old.required, new.required} \/ old.required = new.required
               /\ ContentSame("request", <<"request">>, old.content, new.content)
    <2>1. DiffContent("request", <<"request">>, old.content, new.content) = {}
      BY <1>1, <1>2 DEF DiffBodies
    <2>2. ASSUME None \notin {old.required, new.required} PROVE old.required = new.required
      <3>1. DiffRequired("request", <<"request">>, old.required, new.required) = {}
        BY <1>1, <1>2, <2>2 DEF DiffBodies
      <3> QED BY <3>1, RequiredSilent
    <2> QED BY <2>1, <2>2, ContentSilent
  <1> QED BY <1>1, <1>2 DEF BodySame

LEMMA ResponsesSilent ==
  ASSUME NEW old, NEW new, DiffResponses(old, new) = {}
  PROVE  ResponsesSame(old, new)
  <1>1. DOMAIN old \ DOMAIN new = {} /\ DOMAIN new \ DOMAIN old = {}
    <2>1. \A s \in DOMAIN old \ DOMAIN new :
             Change(<<"response", s>>, "removed", IF s \in SuccessStatuses THEN "breaking" ELSE "nonBreaking")
                \in DiffResponses(old, new)
      BY DEF DiffResponses
    <2>2. \A s \in DOMAIN new \ DOMAIN old :
             Change(<<"response", s>>, "added", IF s \in ErrorStatuses THEN "warning" ELSE "nonBreaking")
                \in DiffResponses(old, new)
      BY DEF DiffResponses
    <2> QED BY <2>1, <2>2
  <1>2. DOMAIN old = DOMAIN new
    BY <1>1
  <1>3. ASSUME NEW s \in DOMAIN old PROVE ContentSame("response", <<"response", s>>, old[s], new[s])
    <2>1. DiffContent("response", <<"response", s>>, old[s], new[s]) \subseteq DiffResponses(old, new)
      BY <1>2 DEF DiffResponses
    <2>2. DiffContent("response", <<"response", s>>, old[s], new[s]) = {}
      BY <2>1
    <2> QED BY <2>2, ContentSilent
  <1> QED BY <1>2, <1>3 DEF ResponsesSame

(* No change of a contract is silent: where nothing is reported there are  *)
(* the same operations, and each has the same servers, authentication,     *)
(* scopes, parameters, bodies, statuses and media types, required or not   *)
(* as before, with schemas between which the comparison of schemas finds   *)
(* nothing (diff_contracts, src/diff/mod.rs:20-491).                       *)
THEOREM SilenceMeansSame ==
  ASSUME NEW old, NEW new, DiffContracts(old, new) = {}
  PROVE  ContractSame(old, new)
  <1>1. DOMAIN old \ DOMAIN new = {} /\ DOMAIN new \ DOMAIN old = {}
    BY DEF DiffContracts
  <1>2. DOMAIN old = DOMAIN new
    BY <1>1
  <1>3. ASSUME NEW op \in DOMAIN old PROVE OperationSame(old[op], new[op])
    <2> DEFINE o == old[op]
               n == new[op]
    <2>1. DiffOperation(old[op], new[op]) = {}
      BY <1>2, OperationReported
    <2>2. /\ DiffAuth(o.auth, n.auth) = {}
          /\ DiffServers(o.servers, n.servers) = {}
          /\ DiffParameters(o.params, n.params) = {}
          /\ DiffResponses(o.responses, n.responses) = {}
          /\ DiffBodies(o.body, n.body) = {}
      BY <2>1 DEF DiffOperation
    <2> HIDE DEF o, n
    <2>3. OperationSame(o, n)
      BY <2>2, AuthSilent, ServersSilent, ParametersSilent, ResponsesSilent, BodySilent DEF OperationSame
    <2> QED BY <2>3 DEF o, n
  <1> QED BY <1>2, <1>3 DEF ContractSame

-----------------------------------------------------------------------------
(* The other way round: a contract does not differ from itself.            *)

(* normalize_security drops a second requirement of an identity            *)
(* (src/openapi/mod.rs:935).                                               *)
IdentitiesDistinct(auth) ==
    \A n, m \in DOMAIN auth :
       (IsKnown(auth[n].identity) /\ auth[n].identity = auth[m].identity) => n = m

ContractOf(kept, contract) ==
    \A op \in DOMAIN contract :
       LET o == contract[op] IN
       /\ IdentitiesDistinct(o.auth)
       /\ \A k \in DOMAIN o.params : o.params[k].schema \in kept
       /\ o.body # None => \A t \in DOMAIN o.body.content : o.body.content[t] \in kept
       /\ \A s \in DOMAIN o.responses : \A t \in DOMAIN o.responses[s] : o.responses[s][t] \in kept

SchemasSilent(kept) ==
    \A usage \in Usages, s \in kept : \A at : Silent(usage, at, s, s)

LEMMA AuthOfItself ==
  ASSUME NEW auth, IdentitiesDistinct(auth)
  PROVE  DiffAuth(auth, auth) = {}
  <1> DEFINE byIdentity == {p \in (DOMAIN auth) \X (DOMAIN auth) :
                              IsKnown(auth[p[1]].identity) /\ auth[p[1]].identity = auth[p[2]].identity}
             oldLeft == DOMAIN auth \ {p[1] : p \in byIdentity}
             newLeft == DOMAIN auth \ {p[2] : p \in byIdentity}
             byName == oldLeft \cap newLeft
  <1>1. DiffAuth(auth, auth) =
          (UNION {DiffScopes(p[2], auth[p[1]], auth[p[2]]) : p \in byIdentity})
            \cup (UNION {DiffScheme(n, auth[n], auth[n]) \cup DiffScopes(n, auth[n], auth[n]) : n \in byName})
            \cup {Change(<<"auth", n>>, "removed", "nonBreaking") : n \in oldLeft \ byName}
            \cup {Change(<<"auth", n>>, "added", "breaking") : n \in newLeft \ byName}
    BY DEF DiffAuth
  <1>2. \A p \in byIdentity : p[1] = p[2] /\ p[1] \in DOMAIN auth
    BY DEF IdentitiesDistinct
  <1>3. oldLeft = newLeft
    <2> HIDE DEF byIdentity
    <2> QED BY <1>2
  <1>4. ASSUME NEW name, NEW requirement
        PROVE  DiffScopes(name, requirement, requirement) = {}
    BY DEF DiffScopes
  <1>5. ASSUME NEW name, NEW requirement
        PROVE  DiffScheme(name, requirement, requirement) = {}
    BY DEF DiffScheme
  <1>6. \A p \in byIdentity : DiffScopes(p[2], auth[p[1]], auth[p[2]]) = {}
    <2> SUFFICES ASSUME NEW p \in byIdentity PROVE DiffScopes(p[2], auth[p[1]], auth[p[2]]) = {}
      OBVIOUS
    <2>1. auth[p[1]] = auth[p[2]]
      BY <1>2
    <2> QED BY <1>4, <2>1
  <1>7. oldLeft \ byName = {} /\ newLeft \ byName = {}
    <2> HIDE DEF oldLeft, newLeft
    <2> QED BY <1>3
  <1> HIDE DEF byIdentity, oldLeft, newLeft, byName
  <1>8. (UNION {DiffScopes(p[2], auth[p[1]], auth[p[2]]) : p \in byIdentity}) = {}
    BY <1>6
  <1>9. (UNION {DiffScheme(n, auth[n], auth[n]) \cup DiffScopes(n, auth[n], auth[n]) : n \in byName}) = {}
    BY <1>4, <1>5
  <1> QED BY <1>1, <1>7, <1>8, <1>9

LEMMA ContentOfItself ==
  ASSUME NEW kept, SchemasSilent(kept), NEW usage \in Usages, NEW place,
         NEW content, \A t \in DOMAIN content : content[t] \in kept
  PROVE  DiffContent(usage, place, content, content) = {}
  <1>1. \A t \in DOMAIN content : SchemaChanges(usage, Append(place, t), content[t], content[t]) = {}
    BY DEF SchemasSilent, Silent
  <1> QED BY <1>1 DEF DiffContent

(* Whatever a document is built to, it does not differ from itself, if no  *)
(* schema in it does (diff_contracts, src/diff/mod.rs:20).                 *)
THEOREM SameIsSilent ==
  ASSUME NEW kept, SchemasSilent(kept), NEW contract, ContractOf(kept, contract)
  PROVE  DiffContracts(contract, contract) = {}
  <1>1. ASSUME NEW op \in DOMAIN contract
        PROVE  DiffOperation(contract[op], contract[op]) = {}
    <2> DEFINE o == contract[op]
    <2>1. /\ IdentitiesDistinct(o.auth)
          /\ \A k \in DOMAIN o.params : o.params[k].schema \in kept
          /\ o.body # None => \A t \in DOMAIN o.body.content : o.body.content[t] \in kept
          /\ \A s \in DOMAIN o.responses : \A t \in DOMAIN o.responses[s] : o.responses[s][t] \in kept
      BY DEF ContractOf
    <2> HIDE DEF o
    <2>2. DiffAuth(o.auth, o.auth) = {}
      BY <2>1, AuthOfItself
    <2>3. DiffServers(o.servers, o.servers) = {}
      BY DEF DiffServers
    <2>4. DiffParameters(o.params, o.params) = {}
      <3>1. \A k \in DOMAIN o.params :
               SchemaChanges("request", <<k.in, k.name>>, o.params[k].schema, o.params[k].schema) = {}
        BY <2>1 DEF SchemasSilent, Silent, Usages
      <3>2. \A k \in DOMAIN o.params :
               DiffRequired("request", <<k.in, k.name>>, o.params[k].required, o.params[k].required) = {}
        BY DEF DiffRequired
      <3> QED BY <3>1, <3>2 DEF DiffParameters
    <2>5. DiffResponses(o.responses, o.responses) = {}
      <3>1. \A s \in DOMAIN o.responses :
               DiffContent("response", <<"response", s>>, o.responses[s], o.responses[s]) = {}
        BY <2>1, ContentOfItself DEF Usages
      <3> QED BY <3>1 DEF DiffResponses
    <2>6. DiffBodies(o.body, o.body) = {}
      <3>1. o.body # None => DiffContent("request", <<"request">>, o.body.content, o.body.content) = {}
        BY <2>1, ContentOfItself DEF Usages
      <3> QED BY <3>1 DEF DiffBodies, DiffRequired
    <2>7. DiffOperation(o, o) = {}
      BY <2>2, <2>3, <2>4, <2>5, <2>6 DEF DiffOperation
    <2> QED BY <2>7 DEF o
  <1> QED BY <1>1 DEF DiffContracts

-----------------------------------------------------------------------------
(* The configuration, the exit code, and what an exit code says.           *)

(* What a file may say: the limits are numbers where they are written.     *)
HasLimits(rules) ==
    rules.failOn # None =>
       /\ rules.failOn.breaking # None => rules.failOn.breaking \in Nat
       /\ rules.failOn.warning # None => rules.failOn.warning \in Nat

FilesAssumption(files) ==
    /\ DOMAIN files \subseteq Nat
    /\ \A i \in Written(files) : files[i].parses => HasLimits(files[i].rules)

-----------------------------------------------------------------------------
(* A change no rule names goes through apply_config as it is.              *)
LEMMA UnnamedIsKept ==
  ASSUME NEW report, NEW rules, NEW c \in report, ~Names(rules, c)
  PROVE  c \in ApplyConfig(report, rules)
  <1>1. c \in {d \in report : \A r \in rules.ignore : ~Ignores(r, d)}
    BY DEF Names
  <1>2. {i \in DOMAIN rules.severity : Overrides(rules.severity[i], c)} = {}
    BY DEF Names
  <1>3. Reclassify(c, rules.severity) = c
    BY <1>2 DEF Reclassify
  <1> QED
    BY <1>1, <1>3 DEF ApplyConfig

(* apply_config adds no change.                                            *)
LEMMA ConfigAddsNothing ==
  ASSUME NEW report, IsFiniteSet(report), NEW rules
  PROVE  IsFiniteSet(ApplyConfig(report, rules))
  <1> DEFINE kept == {d \in report : \A r \in rules.ignore : ~Ignores(r, d)}
             image == [c \in kept |-> Reclassify(c, rules.severity)]
  <1>1. IsFiniteSet(kept)
    BY FS_Subset
  <1>2. ApplyConfig(report, rules) = {Reclassify(c, rules.severity) : c \in kept}
    BY DEF ApplyConfig
  <1>3. image \in Surjection(kept, ApplyConfig(report, rules))
    <2> HIDE DEF kept
    <2>1. image \in [kept -> ApplyConfig(report, rules)]
      BY <1>2
    <2>2. \A t \in ApplyConfig(report, rules) : \E s \in kept : image[s] = t
      BY <1>2
    <2> QED
      BY <2>1, <2>2 DEF Surjection
  <1> QED
    BY <1>1, <1>3, FS_Surjection

(* Of one severity there are no more changes in a part of a report.        *)
LEMMA PartHasNoMore ==
  ASSUME NEW whole, IsFiniteSet(whole), NEW part \in SUBSET whole, NEW severity
  PROVE  /\ OfSeverity(part, severity) \subseteq OfSeverity(whole, severity)
         /\ Cardinality(OfSeverity(part, severity)) \in Nat
         /\ Cardinality(OfSeverity(whole, severity)) \in Nat
         /\ Cardinality(OfSeverity(part, severity)) <= Cardinality(OfSeverity(whole, severity))
  <1>1. /\ IsFiniteSet(OfSeverity(whole, severity))
        /\ OfSeverity(part, severity) \in SUBSET OfSeverity(whole, severity)
    BY FS_Subset DEF OfSeverity
  <1> QED
    BY <1>1, FS_Subset, FS_CardinalityType

(* The nearest file is one of the files.                                   *)
LEMMA NearestIsWritten ==
  ASSUME NEW files, DOMAIN files \subseteq Nat, Written(files) # {}
  PROVE  \E i \in Written(files) : Nearest(files) = files[i] /\ files[i] # None
  <1>1. PICK i \in Written(files) : \A j \in Written(files) : i <= j
    BY LeastNumber DEF Written
  <1> QED
    BY <1>1 DEF Nearest, Written

-----------------------------------------------------------------------------
(* Where a verify exits 0, the nearest configuration file accounts for     *)
(* every breaking change: a rule names it, or it is within the limit       *)
(* (src/config.rs:124, src/main.rs:654).                                   *)
THEOREM ExitIsExplained ==
  ASSUME NEW report, IsFiniteSet(report), NEW files, FilesAssumption(files)
  PROVE  LET rules == EffectiveRules(files) IN
         Explained(report, files, ExitCode(ApplyConfig(report, rules), rules.failOn))
  <1> DEFINE applies == Written(files) # {} /\ Nearest(files).parses
             rules   == Nearest(files).rules
             used    == EffectiveRules(files)
             after   == ApplyConfig(report, used)
             unnamed == {c \in OfSeverity(report, "breaking") : applies => ~Names(rules, c)}
  <1>1. (applies /\ used = rules) \/ (~applies /\ used = NoRules)
    <2>1. CASE Written(files) = {}
      BY <2>1 DEF EffectiveRules, Discover
    <2>2. CASE Written(files) # {}
      BY <2>2, NearestIsWritten DEF EffectiveRules, Discover, FilesAssumption
    <2> QED
      BY <2>1, <2>2
  <1>2. unnamed \subseteq OfSeverity(after, "breaking")
    <2>1. ASSUME NEW c \in unnamed PROVE c \in report /\ c.severity = "breaking" /\ ~Names(used, c)
      BY <1>1 DEF OfSeverity, Names, NoRules
    <2> QED
      BY <2>1, UnnamedIsKept DEF OfSeverity
  <1>3. IsFiniteSet(after)
    BY ConfigAddsNothing
  <1>4. /\ Cardinality(unnamed) \in Nat
        /\ Cardinality(OfSeverity(after, "breaking")) \in Nat
        /\ Cardinality(unnamed) <= Cardinality(OfSeverity(after, "breaking"))
    <2> HIDE DEF unnamed, after
    <2>1. IsFiniteSet(OfSeverity(after, "breaking"))
      BY <1>3, FS_Subset DEF OfSeverity
    <2> QED
      BY <2>1, <1>2, FS_Subset, FS_CardinalityType
  <1>5. ASSUME ExitCode(after, used.failOn) = 0, unnamed # {}
        PROVE  applies /\ rules.failOn # None /\ Cardinality(unnamed) <= Limit(rules.failOn.breaking)
    <2> HIDE DEF unnamed, after, used, rules, applies
    <2>1. used.failOn # None
      BY <1>5, <1>2 DEF ExitCode
    <2>2. applies /\ used = rules
      BY <2>1, <1>1 DEF NoRules
    <2>3. Limit(rules.failOn.breaking) \in Nat
      BY <2>1, <2>2, NearestIsWritten DEF applies, rules, FilesAssumption, HasLimits, Limit
    <2>4. Cardinality(OfSeverity(after, "breaking")) <= Limit(rules.failOn.breaking)
      BY <1>5, <2>1, <2>2, <2>3, <1>4 DEF ExitCode
    <2> QED
      BY <2>1, <2>2, <2>3, <2>4, <1>4
  <1> QED
    BY <1>5 DEF Explained

(* The exit code is monotone: under one configuration, what fails over a   *)
(* report fails over every report that says more                           *)
(* (compute_exit_code, src/config.rs:136).                                 *)
THEOREM ExitIsMonotone ==
  ASSUME NEW whole, IsFiniteSet(whole), NEW part \in SUBSET whole, NEW rules, HasLimits(rules)
  PROVE  ExitCode(ApplyConfig(part, rules), rules.failOn) <= ExitCode(ApplyConfig(whole, rules), rules.failOn)
  <1> DEFINE less == ApplyConfig(part, rules)
             more == ApplyConfig(whole, rules)
  <1>1. IsFiniteSet(more) /\ less \in SUBSET more
    BY ConfigAddsNothing DEF ApplyConfig
  <1>2. \A severity :
           /\ OfSeverity(less, severity) \subseteq OfSeverity(more, severity)
           /\ Cardinality(OfSeverity(less, severity)) \in Nat
           /\ Cardinality(OfSeverity(more, severity)) \in Nat
           /\ Cardinality(OfSeverity(less, severity)) <= Cardinality(OfSeverity(more, severity))
    <2> HIDE DEF less, more
    <2> QED
      BY <1>1, PartHasNoMore
  <1>3. CASE rules.failOn = None
    BY <1>2, <1>3 DEF ExitCode
  <1>4. CASE rules.failOn # None
    <2>1. Limit(rules.failOn.breaking) \in Nat /\ Limit(rules.failOn.warning) \in Nat
      BY <1>4 DEF HasLimits, Limit
    <2> HIDE DEF less, more
    <2> QED
      BY <1>2, <1>4, <2>1 DEF ExitCode, less, more
  <1> QED
    BY <1>3, <1>4


-----------------------------------------------------------------------------
(* From the comparison to the exit code: where no configuration applies, a *)
(* verify that exits 0 leaves clients of the locked contract all they rely *)
(* on in the published one, whichever operations the lock was scoped to    *)
(* (src/main.rs:554, src/lock_size.rs:390, src/diff/mod.rs:20,             *)
(* src/config.rs:136).                                                     *)
THEOREM CleanVerifyKeepsClients ==
  ASSUME NEW locked, NEW current, NEW scope,
         NEW files, EffectiveRules(files) = NoRules,
         LET report == DiffContracts(locked, ScopeCurrent(current, scope))
             rules == EffectiveRules(files) IN
         ExitCode(ApplyConfig(report, rules), rules.failOn) = 0
  PROVE  ContractKept(locked, current)
  <1> DEFINE compared == ScopeCurrent(current, scope)
             report == DiffContracts(locked, compared)
  <1>1. ~HasBreaking(report)
    <2> SUFFICES ASSUME NEW c \in report, c.severity = "breaking" PROVE FALSE
      BY DEF HasBreaking
    <2> DEFINE exit(rules) == ExitCode(ApplyConfig(report, rules), rules.failOn)
    <2>1. exit(NoRules) = 0
      <3>1. exit(EffectiveRules(files)) = 0
        OBVIOUS
      <3> HIDE DEF exit
      <3> QED BY <3>1
    <2> HIDE DEF report
    <2>2. ~Names(NoRules, c) /\ NoRules.failOn = None
      BY DEF Names, NoRules
    <2>3. c \in OfSeverity(ApplyConfig(report, NoRules), "breaking")
      BY <2>2, UnnamedIsKept DEF OfSeverity
    <2>4. exit(NoRules) = 1
      BY <2>2, <2>3 DEF ExitCode
    <2> QED BY <2>1, <2>4
  <1>2. ContractKept(locked, compared)
    BY <1>1, NothingBreakingKeepsClients
  <1>3. \A op \in DOMAIN compared : op \in DOMAIN current /\ compared[op] = current[op]
    BY DEF ScopeCurrent
  <1> HIDE DEF compared
  <1> QED BY <1>2, <1>3 DEF ContractKept
=============================================================================
