---------------------------- MODULE LockDocument ----------------------------
(***************************************************************************)
(* The contents of api.lock and the operations the commands apply to it in *)
(* memory (src/lockfile/mod.rs).  A lock in memory is an ApiLock: a format *)
(* version and four maps by API name.  On disk it is a Document: the       *)
(* version and ONE map by API name, each entry tagged with its provenance. *)
(* Contracts and recorded bodies are values that only equality tells       *)
(* apart; an observed shape is the set of bodies merged into it.           *)
(***************************************************************************)
EXTENDS Integers, Sequences

CONSTANTS
    Names,            \* API names, ordered as the BTreeMap orders its keys
    Contracts,        \* normalised declared contracts
    Samples,          \* recorded JSON bodies
    Thresholds,       \* --required-threshold values
    DefaultThreshold, \* DEFAULT_REQUIRED_THRESHOLD
    LegacyFormat,     \* whether the build has feature legacy-lock-format
    None

ASSUME NamesAssumption == Names \subseteq Nat
ASSUME LegacyAssumption == LegacyFormat \in BOOLEAN
ASSUME ThresholdAssumption == DefaultThreshold \in Thresholds

ObservedEntry == [samples : SUBSET Samples, threshold : Thresholds]

ASSUME NoneAssumption ==
    None \notin Contracts \cup Thresholds \cup ObservedEntry

DeclaredMap == [Names -> Contracts \cup {None}]
ObservedMap == [Names -> ObservedEntry \cup {None}]
EmptyMap == [n \in Names |-> None]

ApiLock == [version  : 1..4,
            legacy   : DeclaredMap,
            v3       : DeclaredMap,
            v4       : DeclaredMap,
            observed : ObservedMap]

(* The lock that load_or_create_for_record starts from when there is no    *)
(* file, and the lock whose text `init` writes.                            *)
EmptyLock(version) ==
    [version |-> version, legacy |-> EmptyMap, v3 |-> EmptyMap,
     v4 |-> EmptyMap, observed |-> EmptyMap]

-----------------------------------------------------------------------------
(* The file format: one tagged entry per name.                             *)

Document == [version : 1..4, declared : DeclaredMap, observed : ObservedMap]

(* A document is a single map by name: at most one entry per name, and     *)
(* version 1 has no observed entries.                                      *)
WellFormedDocument(doc) ==
    /\ \A n \in Names : doc.declared[n] = None \/ doc.observed[n] = None
    /\ doc.version = 1 => doc.observed = EmptyMap

DocumentNames(doc) ==
    {n \in Names : doc.declared[n] # None \/ doc.observed[n] # None}

(* render: the version selects which declared map is written; entries of   *)
(* the others are not, an observed entry replaces a declared one with its  *)
(* name, and version 1 writes no observed entries.                         *)
Render(lock) ==
    LET declared == CASE lock.version \in {1, 2} -> lock.legacy
                      [] lock.version = 3        -> lock.v3
                      [] OTHER                   -> lock.v4
        observed == IF lock.version = 1 THEN EmptyMap ELSE lock.observed
    IN  [version  |-> lock.version,
         declared |-> [n \in Names |-> IF observed[n] # None
                                       THEN None ELSE declared[n]],
         observed |-> observed]

(* load: without legacy-lock-format a version 2 or 3 file is refused.      *)
Readable(doc) == LegacyFormat \/ doc.version \in {1, 4}

Load(doc) ==
    [version  |-> doc.version,
     legacy   |-> IF doc.version \in {1, 2} THEN doc.declared ELSE EmptyMap,
     v3       |-> IF doc.version = 3 THEN doc.declared ELSE EmptyMap,
     v4       |-> IF doc.version = 4 THEN doc.declared ELSE EmptyMap,
     observed |-> doc.observed]

-----------------------------------------------------------------------------
(* new_v4 *)
NewV4(name, contract) ==
    [EmptyLock(4) EXCEPT !.v4[name] = contract]

(* Faulty forms: a migration that leaves other declared entries behind, or *)
(* keeps the old map in memory.                                            *)
ReplaceAllowedPartial(lock, name) ==
    /\ lock.observed[name] = None
    /\ lock.version < 4 => lock.legacy[name] # None \/ lock.v3[name] # None
ReplaceDeclaredKeepingOld(lock, name, contract) ==
    [lock EXCEPT !.version = 4, !.v4[name] = contract]

(* replace_declared_v4: its refusals, then its effect.                     *)
ReplaceAllowed(lock, name) ==
    /\ lock.observed[name] = None
    /\ lock.version < 4 =>
         /\ lock.legacy[name] # None \/ lock.v3[name] # None
         /\ \A m \in Names \ {name} : lock.legacy[m] = None /\ lock.v3[m] = None

ReplaceDeclared(lock, name, contract) ==
    [version  |-> 4,
     legacy   |-> IF lock.version < 4 THEN EmptyMap ELSE lock.legacy,
     v3       |-> IF lock.version < 4 THEN EmptyMap ELSE lock.v3,
     v4       |-> [lock.v4 EXCEPT ![name] = contract],
     observed |-> lock.observed]

(* One call of record_observed.  mapAt says that --map-at paths were       *)
(* given: they may then fail to resolve in the incoming or locked shape.   *)
RecordCall == [name      : Names,
               samples   : SUBSET Samples,
               merge     : BOOLEAN,
               threshold : Thresholds \cup {None},
               mapAt     : BOOLEAN]

IsDeclared(lock, name) ==
    lock.legacy[name] # None \/ lock.v3[name] # None \/ lock.v4[name] # None

(* Faulty forms: no check against declared names, no check that --merge    *)
(* keeps the threshold.                                                    *)
RecordAllowedOnDeclared(lock, call) ==
    call.merge <=> lock.observed[call.name] # None
RecordAllowedAnyThreshold(lock, call) ==
    /\ ~IsDeclared(lock, call.name)
    /\ call.merge <=> lock.observed[call.name] # None

RecordAllowed(lock, call) ==
    LET existing == lock.observed[call.name] IN
    /\ ~IsDeclared(lock, call.name)
    /\ call.merge <=> existing # None
    /\ call.merge /\ call.threshold # None => call.threshold = existing.threshold

(* Faulty forms: a new entry without the default threshold, a merge that   *)
(* replaces the shape.                                                     *)
RecordObservedNoDefault(lock, call) ==
    [lock EXCEPT !.observed[call.name] =
                    [samples |-> call.samples, threshold |-> call.threshold]]
RecordObservedReplacing(lock, call) ==
    [lock EXCEPT !.observed[call.name] =
                    [samples |-> call.samples, threshold |-> DefaultThreshold],
                 !.version = IF @ < 3 THEN 2 ELSE @]

RecordObserved(lock, call) ==
    LET existing == lock.observed[call.name]
        entry == IF existing = None
                 THEN [samples   |-> call.samples,
                       threshold |-> IF call.threshold = None
                                     THEN DefaultThreshold ELSE call.threshold]
                 ELSE [samples   |-> existing.samples \cup call.samples,
                       threshold |-> IF call.threshold = None
                                     THEN existing.threshold ELSE call.threshold]
    IN  [lock EXCEPT !.observed[call.name] = entry,
                     !.version = IF @ < 3 THEN 2 ELSE @]

(* The lock after the first k of a sequence of record_observed calls, in   *)
(* closed form: an entry has all the bodies given for it, and the last     *)
(* threshold given for it.                                                 *)
AfterCalls(lock, calls, k) ==
    LET For(n) == {i \in 1..k : calls[i].name = n}
        Given(n) == {i \in For(n) : calls[i].threshold # None}
        Entry(n) ==
            [samples   |-> (IF lock.observed[n] = None THEN {} ELSE lock.observed[n].samples)
                              \cup UNION {calls[i].samples : i \in For(n)},
             threshold |-> IF Given(n) # {}
                           THEN calls[CHOOSE i \in Given(n) : \A j \in Given(n) : j <= i].threshold
                           ELSE IF lock.observed[n] = None THEN DefaultThreshold
                           ELSE lock.observed[n].threshold]
    IN  [version  |-> IF k > 0 /\ lock.version < 3 THEN 2 ELSE lock.version,
         legacy   |-> lock.legacy,
         v3       |-> lock.v3,
         v4       |-> lock.v4,
         observed |-> [n \in Names |-> IF For(n) = {} THEN lock.observed[n] ELSE Entry(n)]]

(* The commands that record stop at the first call that is refused.        *)
AllAllowed(lock, calls, k) ==
    \A i \in 1..k : RecordAllowed(AfterCalls(lock, calls, i - 1), calls[i])

(* A faulty form: the first body merges too.                               *)
HarNamedCallsMerging(name, bodies, threshold, mapAt) ==
    [i \in 1..Len(bodies) |->
        [name |-> name, samples |-> {bodies[i]}, merge |-> TRUE,
         threshold |-> threshold, mapAt |-> mapAt]]

(* The record_observed calls of `record --from-har`.  With --name the      *)
(* bodies of the one group are recorded under it one at a time: the first  *)
(* never merges, whatever --merge says, and the rest always do.            *)
HarNamedCalls(name, bodies, threshold, mapAt) ==
    [i \in 1..Len(bodies) |->
        [name |-> name, samples |-> {bodies[i]}, merge |-> i > 1,
         threshold |-> threshold, mapAt |-> mapAt]]

(* Without --name each group (endpoint) is one call, its bodies merged.    *)
HarKeyedCalls(groups, merge, threshold, mapAt) ==
    [i \in 1..Len(groups) |->
        [name |-> groups[i].name, samples |-> groups[i].bodies, merge |-> merge,
         threshold |-> threshold, mapAt |-> mapAt]]

(* A faulty form: observed entries are not looked up.                      *)
VerifyTargetDeclaredOnly(lock, name) ==
    CASE lock.v4[name] # None -> "full"
      [] LegacyFormat /\ lock.v3[name] # None -> "partial"
      [] LegacyFormat /\ lock.legacy[name] # None -> "routes"
      [] OTHER -> "missing"

(* What `verify --name` compares against: the search order and the         *)
(* coverage of select_verify_target.                                       *)
VerifyTarget(lock, name) ==
    CASE lock.observed[name] # None                -> "observed"
      [] lock.v4[name] # None                      -> "full"
      [] LegacyFormat /\ lock.v3[name] # None      -> "partial"
      [] LegacyFormat /\ lock.legacy[name] # None  -> "routes"
      [] OTHER                                     -> "missing"

-----------------------------------------------------------------------------
(* What a text that no command rendered can load as.                       *)

(* What the bytes of doc cut short may parse as: the entries before some   *)
(* name, and of the entry at the cut what is left of it.  An observed one  *)
(* may have lost fields of its shape, and its threshold line with them, or *)
(* digits of the threshold; a list of routes (versions 1 and 2) its last   *)
(* ones.  A payload of version 3 or 4 has a digest, and a part of it does  *)
(* not load.                                                               *)
Cut(doc, name, declared, observed) ==
    [doc EXCEPT
       !.declared = [n \in Names |-> IF n < name THEN @[n]
                                     ELSE IF n = name THEN declared ELSE None],
       !.observed = [n \in Names |-> IF n < name THEN @[n]
                                     ELSE IF n = name THEN observed ELSE None]]

ShapeCuts(entry) ==
    [samples : SUBSET entry.samples, threshold : {DefaultThreshold}]
      \cup [samples : {entry.samples}, threshold : Thresholds]

Cuts(doc) ==
    LET names == DocumentNames(doc) IN
    {Cut(doc, n, None, None) : n \in {m \in names : \E k \in names : k < m}}
      \cup (UNION {{Cut(doc, n, None, entry) : entry \in ShapeCuts(doc.observed[n])} :
                      n \in {m \in names : doc.observed[m] # None}})
      \cup {Cut(doc, n, routes, None) :
               n \in {m \in names : doc.version < 3 /\ doc.declared[m] # None},
               routes \in Contracts}

(* What the bytes of new written over longer bytes of old may parse as:    *)
(* new, followed by the last entries of old.                               *)
Overlay(new, old) ==
    [new EXCEPT
       !.declared = [n \in Names |->
           IF @[n] = None /\ new.observed[n] = None THEN old.declared[n] ELSE @[n]],
       !.observed = [n \in Names |->
           IF @[n] = None /\ new.declared[n] = None /\ new.version # 1
           THEN old.observed[n] ELSE @[n]]]

-----------------------------------------------------------------------------
(* What every lock in memory must satisfy to survive being written: only   *)
(* the maps its version writes are populated, and no name is both declared *)
(* and observed.                                                           *)
WellFormed(lock) ==
    /\ lock.version \notin {1, 2} => lock.legacy = EmptyMap
    /\ lock.version # 3 => lock.v3 = EmptyMap
    /\ lock.version # 4 => lock.v4 = EmptyMap
    /\ lock.version = 1 => lock.observed = EmptyMap
    /\ \A n \in Names : ~(IsDeclared(lock, n) /\ lock.observed[n] # None)

=============================================================================
