------------------------ MODULE LockDocumentProofs -------------------------
(***************************************************************************)
(* Facts about the operations of LockDocument, for every set of names,     *)
(* contracts, bodies and thresholds: what they return, that they keep the  *)
(* lock well formed, and that a well-formed lock survives being written.   *)
(***************************************************************************)
EXTENDS LockDocument, NaturalFacts

-----------------------------------------------------------------------------
(* What the operations return.                                             *)

LEMMA EmptyMapType == EmptyMap \in DeclaredMap /\ EmptyMap \in ObservedMap
  BY DEF EmptyMap, DeclaredMap, ObservedMap

LEMMA EmptyLockType ==
  ASSUME NEW v \in 1..4
  PROVE  EmptyLock(v) \in ApiLock
  BY EmptyMapType DEF EmptyLock, ApiLock

LEMMA RenderType ==
  ASSUME NEW lock \in ApiLock
  PROVE  Render(lock) \in Document
  <1> DEFINE declared == CASE lock.version \in {1, 2} -> lock.legacy
                           [] lock.version = 3        -> lock.v3
                           [] OTHER                   -> lock.v4
             observed == IF lock.version = 1 THEN EmptyMap ELSE lock.observed
             shown == [n \in Names |-> IF observed[n] # None
                                       THEN None ELSE declared[n]]
  <1>1. declared \in DeclaredMap
    BY DEF ApiLock
  <1>2. observed \in ObservedMap
    BY EmptyMapType DEF ApiLock
  <1>3. shown \in DeclaredMap
    BY <1>1 DEF DeclaredMap
  <1>4. Render(lock) =
          [version |-> lock.version, declared |-> shown, observed |-> observed]
    BY DEF Render
  <1> QED BY <1>2, <1>3, <1>4 DEF Document, ApiLock

LEMMA LoadType ==
  ASSUME NEW doc \in Document
  PROVE  Load(doc) \in ApiLock
  BY EmptyMapType DEF Load, Document, ApiLock

LEMMA NewV4Type ==
  ASSUME NEW name \in Names, NEW contract \in Contracts
  PROVE  NewV4(name, contract) \in ApiLock
  BY EmptyLockType, EmptyMapType DEF NewV4, EmptyLock, ApiLock, DeclaredMap

LEMMA ReplaceDeclaredType ==
  ASSUME NEW lock \in ApiLock, NEW name \in Names, NEW contract \in Contracts
  PROVE  ReplaceDeclared(lock, name, contract) \in ApiLock
  BY EmptyMapType DEF ReplaceDeclared, ApiLock, DeclaredMap

LEMMA RecordObservedType ==
  ASSUME NEW lock \in ApiLock, NEW call \in RecordCall
  PROVE  RecordObserved(lock, call) \in ApiLock
  <1> DEFINE existing == lock.observed[call.name]
             entry == IF existing = None
                 THEN [samples   |-> call.samples,
                       threshold |-> IF call.threshold = None
                                     THEN DefaultThreshold ELSE call.threshold]
                 ELSE [samples   |-> existing.samples \cup call.samples,
                       threshold |-> IF call.threshold = None
                                     THEN existing.threshold ELSE call.threshold]
  <1>1. existing \in ObservedEntry \cup {None}
    BY DEF ApiLock, ObservedMap, RecordCall
  <1>2. entry \in ObservedEntry
    BY <1>1, ThresholdAssumption DEF ObservedEntry, RecordCall
  <1>3. [lock.observed EXCEPT ![call.name] = entry] \in ObservedMap
    BY <1>2 DEF ApiLock, ObservedMap
  <1>4. RecordObserved(lock, call) =
          [lock EXCEPT !.observed = [lock.observed EXCEPT ![call.name] = entry],
                       !.version = IF @ < 3 THEN 2 ELSE @]
    BY DEF RecordObserved
  <1>5. RecordObserved(lock, call) =
          [version  |-> IF lock.version < 3 THEN 2 ELSE lock.version,
           legacy   |-> lock.legacy, v3 |-> lock.v3, v4 |-> lock.v4,
           observed |-> [lock.observed EXCEPT ![call.name] = entry]]
    BY <1>4 DEF ApiLock
  <1> QED BY <1>3, <1>5 DEF ApiLock

(* No call leaves the lock as it is, and one call more is what the loop    *)
(* over record_observed does with it: the closed form is that loop.        *)
LEMMA AfterCallsZero ==
  ASSUME NEW lock \in ApiLock, NEW calls
  PROVE  AfterCalls(lock, calls, 0) = lock
  <1>1. 1..0 = {}
    OBVIOUS
  <1>2. AfterCalls(lock, calls, 0) =
          [version |-> lock.version, legacy |-> lock.legacy, v3 |-> lock.v3, v4 |-> lock.v4,
           observed |-> [n \in Names |-> lock.observed[n]]]
    BY <1>1 DEF AfterCalls
  <1> QED BY <1>2 DEF ApiLock, ObservedMap

LEMMA AfterCallsStep ==
  ASSUME NEW lock \in ApiLock, NEW calls, NEW k \in Nat,
         \A i \in 1..(k + 1) : calls[i] \in RecordCall
  PROVE  AfterCalls(lock, calls, k + 1) = RecordObserved(AfterCalls(lock, calls, k), calls[k + 1])
  <1> DEFINE call == calls[k + 1]
             name == call.name
             For(n, j) == {i \in 1..j : calls[i].name = n}
             Given(S) == {i \in S : calls[i].threshold # None}
             Latest(G) == CHOOSE i \in G : \A m \in G : m <= i
             Old(n) == lock.observed[n]
             Bodies(n, S) == (IF Old(n) = None THEN {} ELSE Old(n).samples)
                                 \cup UNION {calls[i].samples : i \in S}
             Limit(n, G) == IF G # {} THEN calls[Latest(G)].threshold
                            ELSE IF Old(n) = None THEN DefaultThreshold ELSE Old(n).threshold
             Entry(n, S) == [samples |-> Bodies(n, S), threshold |-> Limit(n, Given(S))]
             EntryOf(n, S) == IF S = {} THEN Old(n) ELSE Entry(n, S)
             Observed(j) == [n \in Names |-> EntryOf(n, For(n, j))]
             Version(j) == IF j > 0 /\ lock.version < 3 THEN 2 ELSE lock.version
             Extended(existing) ==
                 IF existing = None
                 THEN [samples   |-> call.samples,
                       threshold |-> IF call.threshold = None
                                     THEN DefaultThreshold ELSE call.threshold]
                 ELSE [samples   |-> existing.samples \cup call.samples,
                       threshold |-> IF call.threshold = None
                                     THEN existing.threshold ELSE call.threshold]
             S == For(name, k)
             T == S \cup {k + 1}
  <1>1. \A j : AfterCalls(lock, calls, j) =
                 [version |-> Version(j), legacy |-> lock.legacy, v3 |-> lock.v3, v4 |-> lock.v4,
                  observed |-> Observed(j)]
    BY DEF AfterCalls
  <1>2. /\ call \in RecordCall /\ name \in Names
        /\ lock.observed \in ObservedMap /\ Old(name) \in ObservedEntry \cup {None}
        /\ \A i \in S : i \in 1..k /\ calls[i] \in RecordCall
    BY DEF RecordCall, ApiLock, ObservedMap
  <1>3. \A n : n # name => For(n, k + 1) = For(n, k)
    OBVIOUS
  <1>4. For(name, k + 1) = T
    OBVIOUS
  <1>5. Bodies(name, T) = Bodies(name, S) \cup call.samples
    OBVIOUS
  <1>6. ASSUME call.threshold = None PROVE Limit(name, Given(T)) = Limit(name, Given(S))
    <2>1. Given(T) = Given(S)
      BY <1>6
    <2> HIDE DEF Given, Latest, S, T
    <2> QED BY <2>1
  <1>7. ASSUME call.threshold # None PROVE Limit(name, Given(T)) = call.threshold
    <2>1. k + 1 \in Given(T) /\ \A i \in Given(T) : i \in 1..(k + 1)
      BY <1>7
    <2> HIDE DEF Given, T
    <2>2. \E i \in Given(T) : \A m \in Given(T) : m <= i
      BY <2>1
    <2>3. Latest(Given(T)) \in Given(T) /\ \A m \in Given(T) : m <= Latest(Given(T))
      BY <2>2
    <2> HIDE DEF Latest
    <2>4. Latest(Given(T)) = k + 1
      BY <2>1, <2>3
    <2> QED BY <2>1, <2>4
  <1>8. Limit(name, Given(S)) \in Thresholds
    <2>1. CASE Given(S) # {}
      <3>1. Given(S) \in SUBSET (1..k) /\ \A i \in Given(S) : calls[i].threshold \in Thresholds
        BY <1>2 DEF RecordCall
      <3> HIDE DEF Given, S
      <3>2. \E i \in Given(S) : \A m \in Given(S) : m <= i
        BY <2>1, <3>1, LargestNumber
      <3>3. Latest(Given(S)) \in Given(S)
        BY <3>2
      <3> HIDE DEF Latest
      <3> QED BY <2>1, <3>1, <3>3
    <2>2. CASE Given(S) = {}
      <3> HIDE DEF Given
      <3> QED BY <1>2, <2>2, ThresholdAssumption DEF ObservedEntry
    <2> QED BY <2>1, <2>2
  <1>9. Entry(name, S) # None
    <2>1. Bodies(name, S) \in SUBSET Samples
      BY <1>2 DEF ObservedEntry, RecordCall
    <2> HIDE DEF Bodies, Limit, S
    <2> QED BY <1>8, <2>1, NoneAssumption DEF ObservedEntry
  <1>10. EntryOf(name, T) = Extended(EntryOf(name, S))
    <2>1. T # {}
      OBVIOUS
    <2>2. CASE S = {}
      <3>1. Given(S) = {} /\ Bodies(name, S) = (IF Old(name) = None THEN {} ELSE Old(name).samples)
        BY <2>2
      <3>2. Limit(name, Given(S)) = IF Old(name) = None THEN DefaultThreshold ELSE Old(name).threshold
        BY <3>1
      <3> HIDE DEF Given, Bodies, Limit, T, S
      <3> QED BY <1>5, <1>6, <1>7, <2>1, <2>2, <3>1, <3>2
    <2>3. CASE S # {}
      <3>1. EntryOf(name, T) = [samples |-> Bodies(name, T), threshold |-> Limit(name, Given(T))]
        <4> HIDE DEF Given, Bodies, Limit, T
        <4> QED BY <2>1
      <3>2. EntryOf(name, S) = Entry(name, S)
        <4> HIDE DEF Entry, S
        <4> QED BY <2>3
      <3>3. Extended(EntryOf(name, S)) =
              [samples   |-> Bodies(name, S) \cup call.samples,
               threshold |-> IF call.threshold = None
                             THEN Limit(name, Given(S)) ELSE call.threshold]
        <4> HIDE DEF EntryOf, Given, Bodies, Limit, S
        <4> QED BY <1>9, <3>2
      <3> HIDE DEF EntryOf, Extended, Given, Bodies, Limit, T, S
      <3> QED BY <1>5, <1>6, <1>7, <3>1, <3>3
    <2> QED BY <2>2, <2>3
  <1>11. Observed(k + 1) = [Observed(k) EXCEPT ![name] = Extended(Observed(k)[name])]
    <2>1. \A n \in Names : n # name => EntryOf(n, For(n, k + 1)) = EntryOf(n, For(n, k))
      <3> HIDE DEF For, EntryOf, name
      <3> QED BY <1>3
    <2>2. EntryOf(name, For(name, k + 1)) = Extended(EntryOf(name, For(name, k)))
      <3> HIDE DEF EntryOf, Extended, For
      <3> QED BY <1>4, <1>10
    <2> HIDE DEF EntryOf, Extended, For, name
    <2> QED BY <1>2, <2>1, <2>2
  <1>12. Version(k + 1) = IF Version(k) < 3 THEN 2 ELSE Version(k)
    BY DEF ApiLock
  <1> DEFINE now == [version |-> Version(k), legacy |-> lock.legacy, v3 |-> lock.v3, v4 |-> lock.v4,
                     observed |-> Observed(k)]
  <1>13. RecordObserved(now, call) =
           [version |-> IF Version(k) < 3 THEN 2 ELSE Version(k),
            legacy |-> lock.legacy, v3 |-> lock.v3, v4 |-> lock.v4,
            observed |-> [Observed(k) EXCEPT ![name] = Extended(Observed(k)[name])]]
    <2> DEFINE next == [Observed(k) EXCEPT ![name] = Extended(Observed(k)[name])]
    <2> HIDE DEF Observed, Version
    <2>1. now.observed = Observed(k)
      OBVIOUS
    <2>2. RecordObserved(now, call) = [now EXCEPT !.observed = [now.observed EXCEPT ![name] = Extended(now.observed[name])],
                                                  !.version = IF @ < 3 THEN 2 ELSE @]
      <3> HIDE DEF now
      <3> QED BY DEF RecordObserved
    <2>3. RecordObserved(now, call) = [now EXCEPT !.observed = next, !.version = IF @ < 3 THEN 2 ELSE @]
      <3> HIDE DEF now, Extended
      <3> QED BY <2>1, <2>2
    <2> HIDE DEF next
    <2>4. RecordObserved(now, call) =
            [version |-> IF Version(k) < 3 THEN 2 ELSE Version(k),
             legacy |-> lock.legacy, v3 |-> lock.v3, v4 |-> lock.v4, observed |-> next]
      BY <2>3
    <2> QED BY <2>4 DEF next
  <1> HIDE DEF Observed, Version, Extended
  <1> QED BY <1>1, <1>11, <1>12, <1>13

(* What the calls leave of a name: the entry that was there if none is for *)
(* it, and all the bodies, the old ones and theirs, if some are.           *)
LEMMA AfterCallsEntries ==
  ASSUME NEW lock \in ApiLock, NEW calls, NEW k \in Nat,
         \A i \in 1..k : calls[i] \in RecordCall
  PROVE  /\ AfterCalls(lock, calls, k) \in ApiLock
         /\ lock.version = 2 => AfterCalls(lock, calls, k).version = 2
         /\ \A n \in Names :
               LET S == {i \in 1..k : calls[i].name = n}
                   entry == AfterCalls(lock, calls, k).observed[n] IN
               IF S = {} THEN entry = lock.observed[n]
               ELSE /\ entry # None
                    /\ entry.samples =
                         (IF lock.observed[n] = None THEN {} ELSE lock.observed[n].samples)
                            \cup UNION {calls[i].samples : i \in S}
  <1> DEFINE For(n) == {i \in 1..k : calls[i].name = n}
             Given(n) == {i \in For(n) : calls[i].threshold # None}
             Latest(n) == CHOOSE i \in Given(n) : \A j \in Given(n) : j <= i
             Bodies(n) == (IF lock.observed[n] = None THEN {} ELSE lock.observed[n].samples)
                              \cup UNION {calls[i].samples : i \in For(n)}
             Limit(n) == IF Given(n) # {} THEN calls[Latest(n)].threshold
                         ELSE IF lock.observed[n] = None THEN DefaultThreshold
                         ELSE lock.observed[n].threshold
             Entry(n) == [samples |-> Bodies(n), threshold |-> Limit(n)]
             Observed == [n \in Names |-> IF For(n) = {} THEN lock.observed[n] ELSE Entry(n)]
             Version == IF k > 0 /\ lock.version < 3 THEN 2 ELSE lock.version
  <1>1. AfterCalls(lock, calls, k) =
          [version |-> Version, legacy |-> lock.legacy, v3 |-> lock.v3, v4 |-> lock.v4,
           observed |-> Observed]
    BY DEF AfterCalls
  <1>2. /\ lock.observed \in ObservedMap
        /\ \A n \in Names : lock.observed[n] \in ObservedEntry \cup {None}
        /\ Version \in 1..4 /\ (lock.version = 2 => Version = 2)
    BY DEF ApiLock, ObservedMap
  <1>3. ASSUME NEW n \in Names PROVE Entry(n) \in ObservedEntry
    <2>1. Bodies(n) \in SUBSET Samples
      BY <1>2 DEF ObservedEntry, RecordCall
    <2>2. Limit(n) \in Thresholds
      <3>1. CASE Given(n) # {}
        <4>1. Given(n) \in SUBSET (1..k) /\ \A i \in Given(n) : calls[i].threshold \in Thresholds
          BY DEF RecordCall
        <4> HIDE DEF Given
        <4>2. \E i \in Given(n) : \A j \in Given(n) : j <= i
          BY <3>1, <4>1, LargestNumber
        <4>3. Latest(n) \in Given(n)
          BY <4>2
        <4> HIDE DEF Latest
        <4> QED BY <3>1, <4>1, <4>3
      <3>2. CASE Given(n) = {}
        <4> HIDE DEF Given
        <4> QED BY <1>2, <3>2, ThresholdAssumption DEF ObservedEntry
      <3> QED BY <3>1, <3>2
    <2> HIDE DEF Bodies, Limit
    <2> QED BY <2>1, <2>2 DEF ObservedEntry
  <1> HIDE DEF Entry, For, Version
  <1>4. Observed \in ObservedMap
    BY <1>2, <1>3 DEF ObservedMap
  <1>5. AfterCalls(lock, calls, k) \in ApiLock
    <2> HIDE DEF Observed
    <2> QED BY <1>1, <1>2, <1>4 DEF ApiLock
  <1>6. ASSUME NEW n \in Names
        PROVE  AfterCalls(lock, calls, k).observed[n] =
                  IF For(n) = {} THEN lock.observed[n] ELSE Entry(n)
    BY <1>1
  <1>7. ASSUME NEW n \in Names PROVE Entry(n) # None /\ Entry(n).samples = Bodies(n)
    BY <1>3, NoneAssumption DEF Entry
  <1>8. AfterCalls(lock, calls, k).version = Version
    BY <1>1
  <1>9. ASSUME NEW n \in Names
        PROVE  LET entry == AfterCalls(lock, calls, k).observed[n] IN
               IF For(n) = {} THEN entry = lock.observed[n]
               ELSE entry # None /\ entry.samples = Bodies(n)
    BY <1>6, <1>7
  <1> QED BY <1>2, <1>5, <1>8, <1>9 DEF For

(* What an allowed call keeps of the observed entries, and what it adds.   *)
Keeps(old, new) ==
    \A n \in Names : old.observed[n] # None =>
       /\ new.observed[n] # None
       /\ old.observed[n].samples \subseteq new.observed[n].samples
       /\ old.observed[n].threshold = new.observed[n].threshold

Holds(lock, call) ==
    /\ lock.observed[call.name] # None
    /\ call.samples \subseteq lock.observed[call.name].samples

LEMMA RecordKeeps ==
  ASSUME NEW lock \in ApiLock, NEW call \in RecordCall, RecordAllowed(lock, call)
  PROVE  Keeps(lock, RecordObserved(lock, call)) /\ Holds(RecordObserved(lock, call), call)
  <1> DEFINE existing == lock.observed[call.name]
             entry == IF existing = None
                 THEN [samples   |-> call.samples,
                       threshold |-> IF call.threshold = None
                                     THEN DefaultThreshold ELSE call.threshold]
                 ELSE [samples   |-> existing.samples \cup call.samples,
                       threshold |-> IF call.threshold = None
                                     THEN existing.threshold ELSE call.threshold]
             after == RecordObserved(lock, call)
  <1>1. /\ call.name \in Names /\ existing \in ObservedEntry \cup {None}
        /\ lock.observed \in ObservedMap
    BY DEF ApiLock, ObservedMap, RecordCall
  <1>2. entry \in ObservedEntry
    BY <1>1, ThresholdAssumption DEF ObservedEntry, RecordCall
  <1>3. after.observed[call.name] = entry
        /\ \A n \in Names \ {call.name} : after.observed[n] = lock.observed[n]
    BY <1>1 DEF RecordObserved, ApiLock, ObservedMap
  <1>4. entry # None /\ call.samples \subseteq entry.samples
    BY <1>2, NoneAssumption
  <1>5. existing # None => /\ existing.samples \subseteq entry.samples
                           /\ existing.threshold = entry.threshold
    BY DEF RecordAllowed
  <1> HIDE DEF after, entry
  <1> QED BY <1>1, <1>3, <1>4, <1>5 DEF Keeps, Holds, after

LEMMA KeepsFurther ==
  ASSUME NEW a, NEW b, NEW c, Keeps(a, b), Keeps(b, c)
  PROVE  Keeps(a, c)
  BY DEF Keeps

LEMMA HoldsFurther ==
  ASSUME NEW a, NEW b, NEW call \in RecordCall, Holds(a, call), Keeps(a, b)
  PROVE  Holds(b, call)
  BY DEF Keeps, Holds, RecordCall

LEMMA CutType ==
  ASSUME NEW doc \in Document, NEW name \in Names,
         NEW declared \in Contracts \cup {None}, NEW observed \in ObservedEntry \cup {None}
  PROVE  Cut(doc, name, declared, observed) \in Document
  BY NamesAssumption DEF Cut, Document, DeclaredMap, ObservedMap

LEMMA ShapeCutsType ==
  ASSUME NEW entry \in ObservedEntry
  PROVE  ShapeCuts(entry) \subseteq ObservedEntry
  BY ThresholdAssumption DEF ShapeCuts, ObservedEntry

(* A cut text holds what is before some name, and of that name nothing, a  *)
(* part of its observed entry, or a part of its routes.                    *)
LEMMA CutsForm ==
  ASSUME NEW doc \in Document, NEW cut \in Cuts(doc)
  PROVE  \E name \in Names, declared \in Contracts \cup {None}, observed \in ObservedEntry \cup {None} :
           /\ cut = Cut(doc, name, declared, observed)
           /\ declared # None => doc.declared[name] # None /\ observed = None
           /\ observed # None => doc.observed[name] # None
  <1>1. DocumentNames(doc) \subseteq Names
    BY DEF DocumentNames
  <1>2. CASE \E n \in DocumentNames(doc) : cut = Cut(doc, n, None, None)
    BY <1>1, <1>2
  <1>3. CASE \E n \in DocumentNames(doc) :
               /\ doc.observed[n] # None
               /\ \E entry \in ShapeCuts(doc.observed[n]) : cut = Cut(doc, n, None, entry)
    <2>1. PICK n \in DocumentNames(doc) :
               /\ doc.observed[n] # None
               /\ \E entry \in ShapeCuts(doc.observed[n]) : cut = Cut(doc, n, None, entry)
      BY <1>3
    <2>2. doc.observed[n] \in ObservedEntry
      BY <1>1, <2>1 DEF Document, ObservedMap
    <2> QED BY <1>1, <2>1, <2>2, ShapeCutsType
  <1>4. CASE \E n \in DocumentNames(doc), routes \in Contracts :
               doc.declared[n] # None /\ cut = Cut(doc, n, routes, None)
    BY <1>1, <1>4
  <1> QED BY <1>2, <1>3, <1>4 DEF Cuts

LEMMA CutsType ==
  ASSUME NEW doc \in Document, NEW cut \in Cuts(doc)
  PROVE  cut \in Document
  BY CutsForm, CutType

LEMMA OverlayType ==
  ASSUME NEW new \in Document, NEW old \in Document
  PROVE  Overlay(new, old) \in Document
  BY DEF Overlay, Document, DeclaredMap, ObservedMap

-----------------------------------------------------------------------------
(* Well-formedness: what is loaded has it, every operation keeps it, and   *)
(* it is exactly what rendering needs.                                     *)

LEMMA EmptyLockWellFormed ==
  ASSUME NEW v \in 1..4
  PROVE  WellFormed(EmptyLock(v))
  BY DEF WellFormed, EmptyLock, IsDeclared, EmptyMap

(* Whatever the lock in memory, its text has one entry per name.           *)
LEMMA RenderWellFormed ==
  ASSUME NEW lock \in ApiLock
  PROVE  WellFormedDocument(Render(lock))
  BY DEF Render, WellFormedDocument, EmptyMap

LEMMA LoadWellFormed ==
  ASSUME NEW doc \in Document, WellFormedDocument(doc)
  PROVE  WellFormed(Load(doc))
  BY DEF Load, Document, WellFormed, WellFormedDocument, IsDeclared, EmptyMap

LEMMA NewV4WellFormed ==
  ASSUME NEW name \in Names, NEW contract \in Contracts
  PROVE  WellFormed(NewV4(name, contract))
  BY DEF NewV4, EmptyLock, WellFormed, IsDeclared, EmptyMap

(* The migration refuses to leave a pre-v4 entry behind, so clearing the   *)
(* older maps loses nothing.                                               *)
LEMMA ReplaceDeclaredWellFormed ==
  ASSUME NEW lock \in ApiLock, NEW name \in Names, NEW contract \in Contracts,
         WellFormed(lock), ReplaceAllowed(lock, name)
  PROVE  WellFormed(ReplaceDeclared(lock, name, contract))
  BY DEF ReplaceDeclared, ReplaceAllowed, WellFormed, IsDeclared, EmptyMap,
         ApiLock, DeclaredMap

(* A name that is declared in any map is refused, so no name gets both a   *)
(* declared and an observed entry.                                         *)
LEMMA RecordObservedWellFormed ==
  ASSUME NEW lock \in ApiLock, NEW call \in RecordCall,
         WellFormed(lock), RecordAllowed(lock, call)
  PROVE  WellFormed(RecordObserved(lock, call))
  <1> DEFINE after == RecordObserved(lock, call)
  <1>1. /\ after.legacy = lock.legacy /\ after.v3 = lock.v3 /\ after.v4 = lock.v4
        /\ after.version = IF lock.version < 3 THEN 2 ELSE lock.version
        /\ \A n \in Names \ {call.name} : after.observed[n] = lock.observed[n]
    BY DEF RecordObserved, ApiLock, ObservedMap
  <1>2. after.version \in {2, 3, 4}
    BY <1>1 DEF ApiLock
  <1>3. after.version \notin {1, 2} => lock.version \notin {1, 2}
    BY <1>1
  <1>4. ~IsDeclared(after, call.name)
    BY <1>1 DEF RecordAllowed, IsDeclared
  <1>5. \A n \in Names : ~(IsDeclared(after, n) /\ after.observed[n] # None)
    BY <1>1, <1>4 DEF WellFormed, IsDeclared
  <1> HIDE DEF after
  <1>6. WellFormed(after)
    BY <1>1, <1>2, <1>3, <1>5 DEF WellFormed, ApiLock
  <1> QED BY <1>6 DEF after

LEMMA CutsWellFormed ==
  ASSUME NEW doc \in Document, WellFormedDocument(doc), NEW cut \in Cuts(doc)
  PROVE  WellFormedDocument(cut)
  <1>1. PICK name \in Names, declared \in Contracts \cup {None}, observed \in ObservedEntry \cup {None} :
           /\ cut = Cut(doc, name, declared, observed)
           /\ declared # None => doc.declared[name] # None /\ observed = None
           /\ observed # None => doc.observed[name] # None
    BY CutsForm
  <1>2. /\ cut.version = doc.version
        /\ \A n \in Names :
              /\ cut.declared[n] = IF n < name THEN doc.declared[n]
                                  ELSE IF n = name THEN declared ELSE None
              /\ cut.observed[n] = IF n < name THEN doc.observed[n]
                                  ELSE IF n = name THEN observed ELSE None
        /\ cut.observed = [n \in Names |-> cut.observed[n]]
    BY <1>1 DEF Cut, Document
  <1>3. \A n \in Names : cut.declared[n] = None \/ cut.observed[n] = None
    BY <1>1, <1>2 DEF WellFormedDocument
  <1>4. ASSUME doc.version = 1 PROVE cut.observed = EmptyMap
    BY <1>1, <1>2, <1>4 DEF WellFormedDocument, EmptyMap
  <1> QED BY <1>2, <1>3, <1>4 DEF WellFormedDocument

LEMMA OverlayWellFormed ==
  ASSUME NEW new \in Document, NEW old \in Document,
         WellFormedDocument(new), WellFormedDocument(old)
  PROVE  WellFormedDocument(Overlay(new, old))
  BY DEF Overlay, WellFormedDocument, Document, EmptyMap, DeclaredMap, ObservedMap

(* A well-formed lock is what its own text loads as: nothing is dropped by *)
(* writing it.                                                             *)
THEOREM RenderLoad ==
  ASSUME NEW lock \in ApiLock, WellFormed(lock)
  PROVE  Load(Render(lock)) = lock
  <1> DEFINE doc == Render(lock)
             declared == CASE lock.version \in {1, 2} -> lock.legacy
                           [] lock.version = 3        -> lock.v3
                           [] OTHER                   -> lock.v4
  <1>1. lock = [version |-> lock.version, legacy |-> lock.legacy, v3 |-> lock.v3,
                v4 |-> lock.v4, observed |-> lock.observed]
    BY DEF ApiLock
  <1>2. lock.version \in 1..4
    BY DEF ApiLock
  <1>3. doc.version = lock.version /\ doc.observed = lock.observed
    BY DEF Render, WellFormed
  <1>4. declared \in DeclaredMap
    BY DEF ApiLock
  <1>5. doc.declared = [n \in Names |-> IF lock.observed[n] # None
                                        THEN None ELSE declared[n]]
    BY DEF Render, WellFormed
  <1>6. \A n \in Names : lock.observed[n] # None => declared[n] = None
    BY <1>2 DEF WellFormed, IsDeclared
  <1>7. doc.declared = declared
    BY <1>4, <1>5, <1>6 DEF DeclaredMap
  <1> HIDE DEF doc
  <1>8. Load(doc) = [version |-> lock.version, legacy |-> lock.legacy,
                     v3 |-> lock.v3, v4 |-> lock.v4, observed |-> lock.observed]
    BY <1>2, <1>3, <1>7 DEF Load, WellFormed
  <1> QED BY <1>1, <1>8 DEF doc

=============================================================================
