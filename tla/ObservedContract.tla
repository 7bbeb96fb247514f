-------------------------- MODULE ObservedContract ---------------------------
(***************************************************************************)
(* One observed entry of api.lock: it is recorded, merged into by later    *)
(* record --merge commands, with or without --map-at, and verified against *)
(* JSON bodies (src/lockfile/mod.rs, record_observed; src/observed).  The  *)
(* bodies recorded so far are kept as history: the lock does not hold      *)
(* them.                                                                   *)
(***************************************************************************)
EXTENDS ObservedShape

CONSTANTS
    Bodies,     \* JSON bodies that are recorded or verified
    Groups,     \* sequences of bodies that one command records together
    MapAts,     \* lists of --map-at paths
    Thresholds, \* --required-threshold values, in tenths
    MaxBodies   \* bound: bodies recorded into the entry

ASSUME ContractAssumption ==
    /\ \A group \in Groups : group # <<>> /\ \A i \in DOMAIN group : group[i] \in Bodies
    /\ Thresholds \subseteq 0..10
    /\ MaxBodies \in Nat

VARIABLES
    shape,     \* the entry's shape
    threshold, \* the entry's threshold
    recorded   \* history: the bodies recorded into it

vars == <<shape, threshold, recorded>>

NoShape == Plain("none")
NoThreshold == -1

Init == shape = NoShape /\ threshold = NoThreshold /\ recorded = <<>>

(* record without --merge, for a name that has no entry.                   *)
RecordNew(group, mapAt, t) ==
    LET incoming == ApplyMapAnnotations(InferAll(group), mapAt) IN
    /\ recorded = <<>>
    /\ Len(group) <= MaxBodies
    /\ incoming # Refused
    /\ shape' = incoming
    /\ threshold' = t
    /\ recorded' = group

(* record --merge: the paths must resolve in the incoming shape and in the *)
(* locked one, and the merge keeps the threshold.                          *)
RecordMerge(group, mapAt) ==
    LET incoming == ApplyMapAnnotations(InferAll(group), mapAt)
        existing == ApplyMapAnnotations(shape, mapAt) IN
    /\ recorded # <<>>
    /\ Len(recorded) + Len(group) <= MaxBodies
    /\ incoming # Refused /\ existing # Refused
    /\ shape' = Merge(existing, incoming)
    /\ recorded' = recorded \o group
    /\ UNCHANGED threshold

Next == \E group \in Groups, mapAt \in MapAts :
           \/ \E t \in Thresholds : RecordNew(group, mapAt, t)
           \/ RecordMerge(group, mapAt)

Spec == Init /\ [][Next]_vars

(* verify: the findings that fail it.                                      *)
Verify(body) == Compare(shape, Infer(body), threshold)

-----------------------------------------------------------------------------
(* The shape of a collection of bodies, defined without merging.           *)

RECURSIVE Summary(_)

OfKind(bodies, kind) == SelectSeq(bodies, LAMBDA b : b.kind = kind)

SummaryOfObjects(objects) ==
    ObjectOf(Len(objects),
        [k \in UNION {DOMAIN objects[i].props : i \in DOMAIN objects} |->
            LET having == SelectSeq(objects, LAMBDA b : k \in DOMAIN b.props)
            IN  [obs   |-> Len(having),
                 shape |-> Summary([i \in DOMAIN having |-> having[i].props[k]])]])

SummaryOfKind(bodies, kind) ==
    CASE kind = "object" -> SummaryOfObjects(bodies)
      [] kind = "array" ->
            ArrayOf(Summary(FlattenSeq([i \in DOMAIN bodies |-> bodies[i].items])))
      [] OTHER -> Plain(kind)

Summary(bodies) ==
    LET each == {SummaryOfKind(OfKind(bodies, kind), kind) :
                    kind \in {bodies[i].kind : i \in DOMAIN bodies}}
    IN  CASE each = {} -> Unknown
          [] \E s \in each : each = {s} -> CHOOSE s \in each : TRUE
          [] OTHER -> UnionOf(each)

-----------------------------------------------------------------------------
(* Properties.                                                             *)

(* The form every shape keeps: a union has two variants or more, of        *)
(* different kinds and none of them a union or unknown, and no field was   *)
(* seen more often than its object.                                        *)
RECURSIVE Canonical(_)
Canonical(s) ==
    /\ \A part \in s.parts : Canonical(part)
    /\ \A k \in DOMAIN s.props : Canonical(s.props[k].shape)
                                 /\ s.props[k].obs \in 1..s.obs
    /\ s.kind = "union" =>
         /\ \E v, w \in s.parts : v # w
         /\ \A v \in s.parts : v.kind \notin {"union", "unknown"}
         /\ \A v, w \in s.parts : v # w => v.kind # w.kind

ShapeCanonical == recorded # <<>> => Canonical(shape)

(* Without --map-at the shape is that of the bodies recorded, whatever     *)
(* their order and however the commands grouped them, and every count is   *)
(* the number of recorded bodies that have the field (merge, canonical_union, *)
(* merge_union_variant, src/observed/mod.rs:169-253, 448-490).             *)
ShapeIsSummary == recorded # <<>> => shape = Summary(recorded)

RECURSIVE HasUnion(_)
HasUnion(s) ==
    \/ s.kind = "union"
    \/ \E part \in s.parts : HasUnion(part)
    \/ \E k \in DOMAIN s.props : HasUnion(s.props[k].shape)

(* With the default threshold, a body that was recorded verifies without a *)
(* finding, whatever was merged after it and whatever objects became maps. *)
(* A lower threshold requires fields that some recorded bodies lack.       *)
(* Bodies with an array of mixed items are excepted: compare takes a       *)
(* variant only if every item fits it, so they never match their own lock  *)
(* (src/observed/mod.rs:511).                                              *)
RecordedBodiesVerify ==
    threshold = 10 =>
       \A i \in DOMAIN recorded :
          ~HasUnion(Infer(recorded[i])) => Verify(recorded[i]) = {}

(* A body is refused for lack of a field exactly when the history says so: *)
(* at least three objects were recorded and the field was in the required  *)
(* share of them (is_hardened, src/observed/mod.rs:350).                   *)
VerdictMatchesHistory ==
    LET objects == OfKind(recorded, "object")
        having(k) == SelectSeq(objects, LAMBDA b : k \in DOMAIN b.props)
        required == {k \in Keys : /\ having(k) # <<>>
                                  /\ Len(objects) >= 3
                                  /\ 10 * Len(having(k)) >= threshold * Len(objects)}
    IN  recorded # <<>> /\ objects = recorded =>
          \A body \in Bodies : body.kind = "object" =>
             {c \in Verify(body) : c.kind = "missing" /\ Len(c.path) = 1} =
                {Change("missing", <<k>>) : k \in required \ DOMAIN body.props}

(* A report without a line ("Verified") means that the body has exactly    *)
(* the locked fields, at every depth: a locked field that may be absent is *)
(* reported as insufficiently observed, one that is not locked as          *)
(* unverified, and the others are enforced.                                *)
RECURSIVE ExactFields(_, _)
ExactFields(s, actual) ==
    s.kind = "object" /\ actual.kind = "object" =>
       /\ DOMAIN s.props = DOMAIN actual.props
       /\ \A k \in DOMAIN s.props : ExactFields(s.props[k].shape, actual.props[k].shape)

SilenceMeansExactFields ==
    \A body \in Bodies :
       /\ recorded # <<>>
       /\ Verify(body) = {}
       /\ InsufficientlyObserved(shape, <<>>, threshold) = {}
       /\ Unverified(shape, Infer(body), <<>>) = {}
       => ExactFields(shape, Infer(body))

(* new has every field, variant and item shape that old has.               *)
RECURSIVE Covers(_, _)
Covers(new, old) ==
    CASE old.kind = "unknown" -> TRUE
      [] old.kind = "union" -> \A v \in old.parts : Covers(new, v)
      [] new.kind = "union" -> \E v \in new.parts : Covers(v, old)
      [] new.kind = "map" /\ old.kind = "object" ->
            \A k \in DOMAIN old.props : Covers(Inner(new), old.props[k].shape)
      [] new.kind = "object" /\ old.kind = "object" ->
            /\ new.obs >= old.obs
            /\ DOMAIN old.props \subseteq DOMAIN new.props
            /\ \A k \in DOMAIN old.props :
                  /\ new.props[k].obs >= old.props[k].obs
                  /\ Covers(new.props[k].shape, old.props[k].shape)
      [] new.kind = old.kind /\ old.kind \in {"map", "array"} ->
            Covers(Inner(new), Inner(old))
      [] OTHER -> new.kind = old.kind

(* Merging is monotonic, map annotations included.                         *)
MergeLosesNothing == [][recorded # <<>> => Covers(shape', shape)]_vars

=============================================================================
