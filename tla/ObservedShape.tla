---------------------------- MODULE ObservedShape ----------------------------
(***************************************************************************)
(* Observed contracts (src/observed/mod.rs): the shape inferred from a     *)
(* JSON body, the merge of two shapes, map annotations, and the comparison *)
(* of a body against a locked shape.                                       *)
(*                                                                         *)
(* Scalar values, which shapes never hold, are left out; object keys are   *)
(* numbers, ordered as the BTreeMap orders the names.  A path is the       *)
(* sequence of keys, ItemStep ("[]") and ValueStep ("<map-value>") below   *)
(* "$".                                                                    *)
(***************************************************************************)
EXTENDS Integers, SequencesExt

CONSTANTS Keys \* object keys

ASSUME KeysAssumption == Keys \subseteq Nat

NoProps == [k \in {} |-> k]

(* A JSON value.                                                           *)
Json(kind, props, items) == [kind |-> kind, props |-> props, items |-> items]
Scalar(kind) == Json(kind, NoProps, <<>>)
JsonObject(props) == Json("object", props, <<>>)
JsonArray(items) == Json("array", NoProps, items)

(* A shape.  parts holds the item shape of an array, the value shape of a  *)
(* map and the variants of a union.                                        *)
Shape(kind, obs, props, parts) ==
    [kind |-> kind, obs |-> obs, props |-> props, parts |-> parts]

Plain(kind) == Shape(kind, 0, NoProps, {})
Unknown == Plain("unknown")
ObjectOf(obs, props) == Shape("object", obs, props, {})
ArrayOf(items) == Shape("array", 0, NoProps, {items})
MapOf(values) == Shape("map", 0, NoProps, {values})
UnionOf(variants) == Shape("union", 0, NoProps, variants)

Inner(shape) == CHOOSE s \in shape.parts : TRUE

MinimumObservationFloor == 3

ItemStep == -1
ValueStep == -2

SameKind(left, right) == left.kind = right.kind

-----------------------------------------------------------------------------
(* infer and merge                                                         *)

RECURSIVE Merge(_, _)

(* A faulty form: the first property stands for all.                       *)
ObjectValueShapeFirst(props) ==
    IF props = NoProps THEN Unknown
    ELSE props[CHOOSE k \in DOMAIN props : \A j \in DOMAIN props : k <= j].shape

(* The value shape of an object turned into a map: its property shapes     *)
(* merged in the order of the names.                                       *)
ObjectValueShape(props) ==
    FoldLeft(LAMBDA values, k : Merge(values, props[k].shape), Unknown,
             SetToSortSeq(DOMAIN props, <))

(* A faulty form: fields that one of the two lacks are dropped.            *)
MergePropsCommon(props, incoming) ==
    [k \in DOMAIN props \cap DOMAIN incoming |->
        [obs   |-> props[k].obs + incoming[k].obs,
         shape |-> Merge(props[k].shape, incoming[k].shape)]]

MergeProps(props, incoming) ==
    [k \in DOMAIN props \cup DOMAIN incoming |->
        IF k \notin DOMAIN props THEN incoming[k]
        ELSE IF k \notin DOMAIN incoming THEN props[k]
        ELSE [obs   |-> props[k].obs + incoming[k].obs,
              shape |-> Merge(props[k].shape, incoming[k].shape)]]

(* A faulty form: the variant of the same kind is replaced.                *)
AddVariantReplacing(shape, variants) ==
    {v \in variants : ~SameKind(v, shape)} \cup {shape}

(* merge_union_variant: into the variant of the same kind, or as a new one. *)
AddVariant(shape, variants) ==
    IF \E v \in variants : SameKind(v, shape)
    THEN {IF SameKind(v, shape) THEN Merge(v, shape) ELSE v : v \in variants}
    ELSE variants \cup {shape}

Variants(shape) == IF shape.kind = "union" THEN shape.parts ELSE {shape}

AddVariants(variants, shape) == FoldSet(AddVariant, variants, Variants(shape))

(* A faulty form: the variants are put side by side, not merged.           *)
CanonicalUnionFlat(first, second) == UnionOf(Variants(first) \cup Variants(second))

CanonicalUnion(first, second) ==
    LET canonical == AddVariants(AddVariants({}, first), second)
    IN  IF \E v \in canonical : canonical = {v}
        THEN CHOOSE v \in canonical : TRUE
        ELSE UnionOf(canonical)

Merge(existing, incoming) ==
    CASE incoming.kind = "unknown" -> existing
      [] existing.kind = "unknown" -> incoming
      [] existing.kind = "map" /\ incoming.kind = "map" ->
            MapOf(Merge(Inner(existing), Inner(incoming)))
      [] existing.kind = "map" /\ incoming.kind = "object" ->
            MapOf(Merge(Inner(existing), ObjectValueShape(incoming.props)))
      [] existing.kind = "object" /\ incoming.kind = "object" ->
            ObjectOf(existing.obs + incoming.obs,
                     MergeProps(existing.props, incoming.props))
      [] existing.kind = "array" /\ incoming.kind = "array" ->
            ArrayOf(Merge(Inner(existing), Inner(incoming)))
      [] existing.kind = "union" -> UnionOf(AddVariants(existing.parts, incoming))
      [] SameKind(existing, incoming) -> existing
      [] OTHER -> CanonicalUnion(incoming, existing)

RECURSIVE Infer(_)
Infer(body) ==
    CASE body.kind = "object" ->
            ObjectOf(1, [k \in DOMAIN body.props |->
                           [obs |-> 1, shape |-> Infer(body.props[k])]])
      [] body.kind = "array" ->
            ArrayOf(FoldLeft(LAMBDA items, b : Merge(items, Infer(b)),
                             Unknown, body.items))
      [] OTHER -> Plain(body.kind)

(* What --from-har records for the bodies of one endpoint.                 *)
InferAll(bodies) ==
    FoldLeft(LAMBDA shape, b : Merge(shape, Infer(b)), Unknown, bodies)

-----------------------------------------------------------------------------
(* apply_map_annotations                                                   *)

Refused == Plain("refused")

RECURSIVE AnnotateMapAt(_, _)
AnnotateMapAt(shape, path) ==
    IF path = <<>>
    THEN CASE shape.kind = "object" -> MapOf(ObjectValueShape(shape.props))
           [] shape.kind = "map" -> shape
           [] OTHER -> Refused
    ELSE IF shape.kind # "object" \/ Head(path) \notin DOMAIN shape.props
         THEN Refused
         ELSE LET below == AnnotateMapAt(shape.props[Head(path)].shape, Tail(path))
              IN  IF below = Refused THEN Refused
                  ELSE [shape EXCEPT !.props[Head(path)].shape = below]

PathsOverlap(left, right) == IsPrefix(left, right) \/ IsPrefix(right, left)

ApplyMapAnnotations(shape, paths) ==
    IF \E i, j \in DOMAIN paths : i < j /\ PathsOverlap(paths[i], paths[j])
    THEN Refused
    ELSE FoldLeft(LAMBDA s, path : IF s = Refused THEN s ELSE AnnotateMapAt(s, path),
                  shape, paths)

-----------------------------------------------------------------------------
(* is_hardened and compare.  Thresholds are in tenths.                     *)

(* A faulty form: the floor counts the field instead of its parent.        *)
IsHardenedFloorless(parentObs, obs, threshold) == 10 * obs >= threshold * parentObs

IsHardened(parentObs, obs, threshold) ==
    /\ parentObs >= MinimumObservationFloor
    /\ 10 * obs >= threshold * parentObs

Change(kind, path) == [kind |-> kind, path |-> path]

RECURSIVE CompareAt(_, _, _, _, _, _)

CompareProps(expected, actual, path, threshold) ==
    UNION {
        LET property == expected.props[k] IN
        IF k \in DOMAIN actual.props
        THEN CompareAt(property.shape, actual.props[k].shape, Append(path, k),
                       property.obs, expected.obs, threshold)
        ELSE IF IsHardened(expected.obs, property.obs, threshold)
             THEN {Change("missing", Append(path, k))} ELSE {}
        : k \in DOMAIN expected.props}

CompareAt(expected, actual, path, obs, parentObs, threshold) ==
    CASE expected.kind = "null" /\ ~IsHardened(parentObs, obs, threshold) -> {}
      [] expected.kind = "unknown" -> {}
      [] expected.kind = "union" ->
            IF \E v \in expected.parts :
                  CompareAt(v, actual, path, obs, parentObs, threshold) = {}
            THEN {} ELSE {Change("incompatible", path)}
      [] actual.kind = "union" ->
            UNION {CompareAt(expected, v, path, obs, parentObs, threshold) :
                      v \in actual.parts}
      [] expected.kind = "map" /\ actual.kind = "map" ->
            CompareAt(Inner(expected), Inner(actual), path, obs, parentObs, threshold)
      [] expected.kind = "map" /\ actual.kind = "object" ->
            UNION {CompareAt(Inner(expected), actual.props[k].shape,
                             Append(path, ValueStep), 0, 0, threshold) :
                      k \in DOMAIN actual.props}
      [] expected.kind = "object" /\ actual.kind = "object" ->
            CompareProps(expected, actual, path, threshold)
      [] expected.kind = "array" /\ actual.kind = "array" ->
            IF Inner(actual).kind = "unknown" THEN {}
            ELSE CompareAt(Inner(expected), Inner(actual), Append(path, ItemStep),
                           0, 0, threshold)
      [] SameKind(expected, actual) -> {}
      [] OTHER -> {Change("incompatible", path)}

Compare(expected, actual, threshold) ==
    CompareAt(expected, actual, <<>>, 0, 0, threshold)

-----------------------------------------------------------------------------
(* The tiers of a report that do not fail it.                              *)

(* collect_tiered: positions with too little evidence.                     *)
RECURSIVE InsufficientlyObserved(_, _, _)

(* A faulty form: fields of fields are not visited.                        *)
InsufficientAtTop(shape, path, threshold) ==
    CASE shape.kind = "object" ->
            {Append(path, k) : k \in {k \in DOMAIN shape.props :
                ~IsHardened(shape.obs, shape.props[k].obs, threshold)}}
      [] OTHER -> {path}

InsufficientlyObserved(shape, path, threshold) ==
    CASE shape.kind = "object" ->
            IF shape.props = NoProps THEN {path}
            ELSE {Append(path, k) : k \in {k \in DOMAIN shape.props :
                     ~IsHardened(shape.obs, shape.props[k].obs, threshold)}}
                 \cup UNION {InsufficientlyObserved(shape.props[k].shape,
                                Append(path, k), threshold) : k \in DOMAIN shape.props}
      [] shape.kind = "array" ->
            IF Inner(shape) = Unknown THEN {Append(path, ItemStep)}
            ELSE InsufficientlyObserved(Inner(shape), Append(path, ItemStep), threshold)
      [] shape.kind = "map" ->
            InsufficientlyObserved(Inner(shape), Append(path, ValueStep), threshold)
      [] shape.kind = "union" ->
            UNION {InsufficientlyObserved(v, path, threshold) : v \in shape.parts}
      [] OTHER -> {}

(* collect_unverified: fields of the body that the lock does not know.     *)
RECURSIVE Unverified(_, _, _)
Unverified(expected, actual, path) ==
    CASE expected.kind = "object" /\ actual.kind = "object" ->
            {Append(path, k) : k \in DOMAIN actual.props \ DOMAIN expected.props}
            \cup UNION {Unverified(expected.props[k].shape, actual.props[k].shape,
                                   Append(path, k)) :
                          k \in DOMAIN actual.props \cap DOMAIN expected.props}
      [] expected.kind = "array" /\ actual.kind = "array" ->
            Unverified(Inner(expected), Inner(actual), Append(path, ItemStep))
      [] expected.kind = "map" /\ actual.kind = "map" ->
            Unverified(Inner(expected), Inner(actual), Append(path, ValueStep))
      [] expected.kind = "union" ->
            UNION {Unverified(v, actual, path) : v \in expected.parts}
      [] actual.kind = "union" ->
            UNION {Unverified(expected, v, path) : v \in actual.parts}
      [] OTHER -> {}

=============================================================================
