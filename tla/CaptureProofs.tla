---------------------------- MODULE CaptureProofs ----------------------------
(***************************************************************************)
(* What a capture, its import and verify --all do to the entries of the    *)
(* lock, for every service, scene, set of names and bound: each entry has  *)
(* exactly the bodies recorded in it, under the identity the import chose, *)
(* and the verdict of verify --all is the one these bodies give.           *)
(***************************************************************************)
EXTENDS Capture, LockDocumentProofs

-----------------------------------------------------------------------------
(* Paths, identities and groups.                                           *)

LEMMA Prefix ==
  ASSUME NEW S, NEW s \in Seq(S), NEW t \in Seq(S)
  PROVE  IsPrefix(s, t) <=> Len(s) <= Len(t) /\ \A i \in 1..Len(s) : s[i] = t[i]
  <1>1. ASSUME Len(s) <= Len(t)
        PROVE  /\ SubSeq(s, 1, Len(s)) = s
               /\ SubSeq(t, 1, Len(s)) = [i \in 1..Len(s) |-> t[i]]
    BY <1>1
  <1>2. s = [i \in 1..Len(s) |-> s[i]]
    OBVIOUS
  <1> QED BY <1>1, <1>2 DEF IsPrefix

(* Of two paths above a third the shorter one is above the other.          *)
LEMMA ShorterAbove ==
  ASSUME NEW S, NEW a \in Seq(S), NEW b \in Seq(S), NEW c \in Seq(S),
         IsPrefix(a, c), IsPrefix(b, c), Len(a) <= Len(b)
  PROVE  IsPrefix(a, b)
  BY Prefix

LEMMA PrefixTransitive ==
  ASSUME NEW S, NEW a \in Seq(S), NEW b \in Seq(S), NEW c \in Seq(S),
         IsPrefix(a, b), IsPrefix(b, c)
  PROVE  IsPrefix(a, c)
  BY Prefix

LEMMA InOrderLists ==
  ASSUME NEW S \in SUBSET Nat, IsFiniteSet(S)
  PROVE  /\ Cardinality(S) \in Nat
         /\ InOrder(S) \in [1..Cardinality(S) -> S]
         /\ DOMAIN InOrder(S) = 1..Cardinality(S)
         /\ \A s \in S : \E i \in 1..Cardinality(S) : InOrder(S)[i] = s
  <1> DEFINE Lists(f) == \A i, j \in DOMAIN f : i < j => f[i] < f[j]
  <1>1. PICK f \in [1..Cardinality(S) -> S] : \A i, j \in 1..Cardinality(S) : i < j => f[i] < f[j]
    BY Listing
  <1>2. Lists(f)
    BY <1>1
  <1>3. InOrder(S) \in [1..Cardinality(S) -> S] /\ Lists(InOrder(S))
    <2> HIDE DEF Lists
    <2>1. InOrder(S) = CHOOSE g \in [1..Cardinality(S) -> S] : Lists(g)
      BY DEF InOrder, Lists
    <2> QED BY <1>2, <2>1
  <1>4. DOMAIN InOrder(S) = 1..Cardinality(S)
    BY <1>3
  <1>5. \A i, j \in 1..Cardinality(S) : i < j => InOrder(S)[i] < InOrder(S)[j]
    BY <1>3, <1>4
  <1> QED BY <1>3, <1>4, <1>5, ListsAll, FS_CardinalityType

Entry == [request : DOMAIN Answers, answer : UNION {Answers[r] : r \in DOMAIN Answers}]
Identities == Seq(DOMAIN Keyed)

(* The key of a request is its own, that of the first identity above it,   *)
(* or none.                                                                *)
LEMMA KeyOfCases ==
  ASSUME NEW r \in DOMAIN Answers, NEW ids \in Identities
  PROVE  \/ ids = <<>> /\ KeyOf(r, ids) = OwnKey(r)
         \/ ids # <<>> /\ KeyOf(r, ids) = None
         \/ \E i \in DOMAIN ids :
               /\ KeyOf(r, ids) = ids[i]
               /\ Under(r, ids[i])
               /\ \A j \in DOMAIN ids : Under(r, ids[j]) => i <= j
  <1> DEFINE above == {i \in DOMAIN ids : Under(r, ids[i])}
  <1>1. KeyOf(r, ids) = IF ids = <<>> THEN OwnKey(r)
                        ELSE IF above = {} THEN None ELSE ids[Min(above)]
    BY DEF KeyOf
  <1>2. CASE ids # <<>> /\ above # {}
    <2>1. above \in SUBSET Nat
      BY DEF Identities
    <2> DEFINE Least(i) == \A j \in above : i <= j
    <2>2. \E i \in above : Least(i)
      <3> HIDE DEF above
      <3> QED BY <1>2, <2>1, LeastNumber
    <2>3. Min(above) \in above /\ Least(Min(above))
      <3> HIDE DEF above, Least
      <3>1. Min(above) = CHOOSE i \in above : Least(i)
        BY DEF Min, Least
      <3> QED BY <2>2, <3>1
    <2> QED BY <1>1, <1>2, <2>3
  <1> HIDE DEF above
  <1> QED BY <1>1, <1>2

LEMMA OwnKeyKnown ==
  ASSUME NEW r \in DOMAIN Answers, r.method # ""
  PROVE  OwnKey(r) \in DOMAIN Keyed
  BY CaptureAssumption

(* The groups of a capture.                                                *)
GroupOf(k, S, entries, ids) ==
    /\ k # None
    /\ S \in SUBSET (1..Len(entries)) /\ S # {} /\ IsFiniteSet(S)
    /\ \A i \in S :
          /\ entries[i].request \in DOMAIN Answers
          /\ OwnKey(entries[i].request) \in DOMAIN Keyed
          /\ entries[i].answer.text \in Samples
          /\ KeyOf(entries[i].request, ids) = k

LEMMA Groups ==
  ASSUME NEW entries \in Seq(Entry), NEW ids \in Identities, NEW statuses
  PROVE  LET groups == Recordings(entries, ids, statuses) IN
         /\ DOMAIN groups \in SUBSET DOMAIN Keyed
         /\ IsFiniteSet(DOMAIN groups)
         /\ \A k \in DOMAIN groups : GroupOf(k, groups[k], entries, ids)
  <1> DEFINE KeyAt(i) == KeyOf(entries[i].request, ids)
             kept == {i \in DOMAIN entries : Kept(entries[i], statuses) /\ KeyAt(i) # None}
             keys == {KeyAt(i) : i \in kept}
             groups == Recordings(entries, ids, statuses)
  <1>1. groups = [k \in keys |-> {i \in kept : KeyAt(i) = k}]
    BY DEF Recordings
  <1>2. /\ kept \in SUBSET (1..Len(entries)) /\ Len(entries) \in Nat
        /\ \A i \in kept : /\ entries[i] \in Entry /\ KeyAt(i) # None
                           /\ entries[i].request \in DOMAIN Answers
                           /\ OwnKey(entries[i].request) \in DOMAIN Keyed
                           /\ entries[i].answer.text \in Samples
    <2>1. /\ DOMAIN entries = 1..Len(entries) /\ Len(entries) \in Nat
          /\ \A i \in DOMAIN entries : entries[i] \in Entry
      OBVIOUS
    <2>2. kept \in SUBSET DOMAIN entries /\ \A i \in kept : KeyAt(i) # None
      OBVIOUS
    <2>3. \A i \in kept : Kept(entries[i], statuses)
      OBVIOUS
    <2>4. \A i \in kept : entries[i].request.method # "" /\ entries[i].answer.text \in Samples
      <3> HIDE DEF kept
      <3> QED BY <2>3 DEF Kept
    <2> HIDE DEF kept, KeyAt
    <2>5. \A i \in kept : entries[i].request \in DOMAIN Answers
      BY <2>1, <2>2 DEF Entry
    <2>6. \A i \in kept : OwnKey(entries[i].request) \in DOMAIN Keyed
      BY <2>4, <2>5, OwnKeyKnown
    <2>7. \A i \in kept : entries[i].answer.text \in Samples
      BY <2>4
    <2> QED BY <2>1, <2>2, <2>5, <2>6, <2>7
  <1>3. IsFiniteSet(kept)
    <2> HIDE DEF kept
    <2>1. IsFiniteSet(1..Len(entries))
      <3>1. 1 \in Int /\ Len(entries) \in Int
        OBVIOUS
      <3> QED BY <3>1, FS_Interval
    <2> QED BY <1>2, <2>1, FS_Subset
  <1>4. ASSUME NEW i \in kept PROVE KeyAt(i) \in DOMAIN Keyed
    <2>1. KeyAt(i) = OwnKey(entries[i].request) \/ \E j \in DOMAIN ids : KeyAt(i) = ids[j]
      <3> HIDE DEF kept
      <3> QED BY <1>2, KeyOfCases
    <2>2. \A j \in DOMAIN ids : ids[j] \in DOMAIN Keyed
      BY DEF Identities
    <2> HIDE DEF kept, KeyAt
    <2> QED BY <1>2, <2>1, <2>2
  <1> HIDE DEF kept, groups
  <1>5. IsFiniteSet(keys)
    <2> DEFINE f == [i \in kept |-> KeyAt(i)]
    <2> HIDE DEF KeyAt
    <2>1. f \in Surjection(kept, keys)
      BY DEF Surjection
    <2> HIDE DEF f, keys
    <2> QED BY <1>3, <2>1, FS_Surjection
  <1>6. ASSUME NEW k \in keys
        PROVE  k # None /\ groups[k] \in SUBSET kept /\ groups[k] # {} /\ \A i \in groups[k] : KeyAt(i) = k
    <2> HIDE DEF KeyAt
    <2> QED BY <1>1, <1>2
  <1>7. DOMAIN groups = keys /\ keys \in SUBSET DOMAIN Keyed
    <2> HIDE DEF KeyAt
    <2> QED BY <1>1, <1>4
  <1>8. ASSUME NEW k \in keys PROVE IsFiniteSet(groups[k])
    <2> HIDE DEF keys
    <2> QED BY <1>3, <1>6, FS_Subset
  <1> HIDE DEF keys
  <1> QED BY <1>2, <1>5, <1>6, <1>7, <1>8 DEF groups, GroupOf

(* Where the import accepts the identities, the first one above a request  *)
(* is the longest: a longer one after it would have found nothing.         *)
LEMMA FirstIsLongest ==
  ASSUME NEW entries \in Seq(Entry), NEW ids \in Identities, NEW statuses,
         ValidHar(entries, ids, statuses),
         NEW k \in DOMAIN Recordings(entries, ids, statuses),
         NEW i \in Recordings(entries, ids, statuses)[k]
  PROVE  /\ Under(entries[i].request, k)
         /\ \A id \in ToSet(ids) : Under(entries[i].request, id) => Len(id.path) <= Len(k.path)
  <1> DEFINE r == entries[i].request
             groups == Recordings(entries, ids, statuses)
  <1>0. /\ k \in DOMAIN groups /\ i \in groups[k] /\ DOMAIN groups \in SUBSET DOMAIN Keyed
        /\ \A l \in DOMAIN groups : GroupOf(l, groups[l], entries, ids)
        /\ ToSet(ids) \subseteq DOMAIN groups
    BY Groups DEF ValidHar
  <1> HIDE DEF groups
  <1>1. /\ r \in DOMAIN Answers /\ r \in Request
        /\ KeyOf(r, ids) = k /\ k \in DOMAIN Keyed /\ k \in Key
    BY <1>0, KeyAssumption, CaptureAssumption DEF GroupOf
  <1>2. \A j \in DOMAIN ids : ids[j] \in Key /\ ids[j] \in DOMAIN Keyed /\ j \in Nat
    BY KeyAssumption DEF Identities
  <1> HIDE DEF r
  <1>3. CASE ids = <<>>
    <2>1. k = OwnKey(r)
      BY <1>1, <1>3, KeyOfCases
    <2>2. IsPrefix(r.path, r.path)
      BY <1>1, Prefix DEF Request
    <2> QED BY <1>3, <2>1, <2>2 DEF Under, OwnKey, ToSet, r
  <1>4. CASE ids # <<>>
    <2>1. k # None
      BY <1>0 DEF GroupOf
    <2>2. PICK first \in DOMAIN ids :
            /\ k = ids[first] /\ Under(r, ids[first])
            /\ \A j \in DOMAIN ids : Under(r, ids[j]) => first <= j
      BY <1>1, <1>4, <2>1, KeyOfCases
    <2>3. ASSUME NEW j \in DOMAIN ids, Under(r, ids[j]), Len(k.path) < Len(ids[j].path)
          PROVE  FALSE
      <3>1. first <= j /\ first # j
        BY <1>2, <2>2, <2>3
      <3>2. IsPrefix(k.path, ids[j].path) /\ k.method = ids[j].method
        BY <1>1, <1>2, <2>2, <2>3, ShorterAbove DEF Under, Key, Request
      <3>3. ids[j] \in DOMAIN groups
        BY <1>0 DEF ToSet
      <3>4. PICK m \in groups[ids[j]] : TRUE
        BY <1>0, <3>3 DEF GroupOf
      <3> DEFINE q == entries[m].request
      <3>5. /\ q \in DOMAIN Answers /\ q \in Request
            /\ KeyOf(q, ids) = ids[j] /\ ids[j] # None
        BY <1>0, <3>3, <3>4, CaptureAssumption DEF GroupOf
      <3> HIDE DEF q
      <3>6. PICK n \in DOMAIN ids :
              /\ ids[j] = ids[n] /\ Under(q, ids[n])
              /\ \A l \in DOMAIN ids : Under(q, ids[l]) => n <= l
        BY <1>2, <1>4, <3>5, KeyOfCases
      <3>7. n = j
        BY <3>6 DEF ValidHar, ValidIdentities, IsInjective
      <3>8. Under(q, ids[first])
        BY <1>1, <1>2, <2>2, <3>2, <3>5, <3>6, PrefixTransitive DEF Under, Key, Request
      <3> QED BY <1>2, <3>1, <3>6, <3>7, <3>8
    <2>4. \A j \in DOMAIN ids : Under(r, ids[j]) => Len(ids[j].path) <= Len(k.path)
      <3>1. Len(k.path) \in Nat /\ \A j \in DOMAIN ids : Len(ids[j].path) \in Nat
        BY <1>1, <1>2 DEF Key
      <3> QED BY <2>3, <3>1
    <2> QED BY <2>2, <2>4 DEF ToSet, r
  <1> QED BY <1>3, <1>4

-----------------------------------------------------------------------------
(* The inductive invariant.                                                *)

TypeOK ==
    /\ scene \in Scenes
    /\ service \in [scene.browsed \cup scene.urls -> UNION {Answers[r] : r \in DOMAIN Answers}]
    /\ changed \in BOOLEAN
    /\ har \in Seq(Entry)
    /\ \A i \in DOMAIN har : har[i].request \in scene.browsed
    /\ disk # None => disk \in Document /\ disk.version = 2

(* What was recorded in an entry, and what is there.                       *)
RecordedIn(n) == {o \in origin : o.name = n}
EntryAt(n) == IF disk = None THEN None ELSE disk.observed[n]

EntryOK(n, entry) ==
    IF entry = None THEN RecordedIn(n) = {}
    ELSE RecordedIn(n) # {} /\ entry.samples = {o.body : o \in RecordedIn(n)}

EntriesOK == \A n \in Names : EntryOK(n, EntryAt(n))

(* What was imported without --name is under the identity of its entry.    *)
Imported(o) ==
    \A k \in DOMAIN Keyed : (o.har /\ ~o.named /\ Keyed[k] = o.name) =>
       /\ Under(o.request, k)
       /\ \A id \in ToSet(o.identities) : Under(o.request, id) => Len(id.path) <= Len(k.path)

OriginOK ==
    \A o \in origin : o.request \in DOMAIN Answers /\ OwnKey(o.request) \in DOMAIN Keyed /\ Imported(o)

(* The run so far: what it goes by is what is on disk.                     *)
Breaks(f) == f.body \notin disk.observed[f.name].samples

RunOK ==
    run # None =>
       /\ disk # None
       /\ run = [entries |-> disk.observed, left |-> run.left, headers |-> run.headers,
                 breaking |-> run.breaking, success |-> run.success, exit |-> run.exit,
                 fetched |-> run.fetched]
       /\ run.left \subseteq {n \in Names : disk.observed[n] # None}
       /\ \A f \in run.fetched : f.name \in Names /\ disk.observed[f.name] # None
       /\ run.success <=> run.fetched # {}
       /\ run.breaking <=> \E f \in run.fetched : Breaks(f)
       /\ run.exit # None => run.exit = IF run.fetched = {} THEN "error"
                                        ELSE IF \E f \in run.fetched : Breaks(f) THEN "breaking" ELSE "clean"

(* As long as the service is as it was, so is everything taken from it.    *)
Unchanged ==
    ~changed =>
       /\ \A i \in DOMAIN har : har[i].answer = service[har[i].request]
       /\ \A o \in origin : o.body = service[o.request].text
       /\ run # None => \A f \in run.fetched : f.body = service[Target(f.name, run.headers)].text

CaptureOK == TypeOK /\ EntriesOK /\ OriginOK /\ NamedEntryIsCoherent /\ RunOK /\ Unchanged

-----------------------------------------------------------------------------
(* Recording.                                                              *)

(* The calls give each name the bodies that are noted as recorded in it.   *)
Gives(calls, recorded) ==
    \A n \in Names :
       LET S == {i \in 1..Len(calls) : calls[i].name = n}
           R == {o \in recorded : o.name = n} IN
       (S = {} <=> R = {}) /\ UNION {calls[i].samples : i \in S} = {o.body : o \in R}

(* The lock that record starts from has the entries on disk.               *)
LEMMA Starting ==
  ASSUME TypeOK
  PROVE  /\ LoadOrCreate \in ApiLock /\ LoadOrCreate.version = 2
         /\ \A n \in Names : LoadOrCreate.observed[n] = EntryAt(n)
  <1>1. CASE disk = None
    <2>1. LoadOrCreate = EmptyLock(2)
      BY <1>1 DEF LoadOrCreate
    <2> QED BY <1>1, <2>1, EmptyLockType DEF EmptyLock, EmptyMap, EntryAt
  <1>2. CASE disk # None
    <2>1. LoadOrCreate = Load(disk) /\ disk \in Document /\ disk.version = 2
      BY <1>2 DEF LoadOrCreate, TypeOK
    <2> QED BY <1>2, <2>1, LoadType DEF Load, EntryAt
  <1> QED BY <1>1, <1>2

(* The calls are applied in memory and the lock is written at their end.   *)
LEMMA RecordStep ==
  ASSUME TypeOK, EntriesOK, NEW calls, NEW recorded, Record(calls, recorded),
         Len(calls) \in Nat, \A i \in 1..Len(calls) : calls[i] \in RecordCall,
         Gives(calls, recorded)
  PROVE  TypeOK' /\ EntriesOK'
  <1> DEFINE lock == LoadOrCreate
             after == AfterCalls(lock, calls, Len(calls))
             For(n) == {i \in 1..Len(calls) : calls[i].name = n}
             Noted(n) == {o \in recorded : o.name = n}
             Given(n) == UNION {calls[i].samples : i \in For(n)}
  <1>1. lock \in ApiLock /\ lock.version = 2 /\ \A n \in Names : lock.observed[n] = EntryAt(n)
    BY Starting
  <1>2. /\ disk' = Render(after) /\ origin' = origin \cup recorded
        /\ scene' = scene /\ service' = service /\ changed' = changed /\ har' = har
    BY DEF Record
  <1> HIDE DEF lock
  <1>3. /\ after \in ApiLock /\ after.version = 2
        /\ \A n \in Names :
              IF For(n) = {} THEN after.observed[n] = lock.observed[n]
              ELSE /\ after.observed[n] # None
                   /\ after.observed[n].samples =
                        (IF lock.observed[n] = None THEN {} ELSE lock.observed[n].samples) \cup Given(n)
    BY <1>1, AfterCallsEntries
  <1> HIDE DEF after
  <1>4. disk' \in Document /\ disk'.version = 2 /\ disk'.observed = after.observed
    BY <1>2, <1>3, RenderType DEF Render
  <1>5. disk' # None
    BY <1>4, CaptureAssumption
  <1>6. TypeOK'
    BY <1>2, <1>4 DEF TypeOK
  <1>7. ASSUME NEW n \in Names PROVE EntryOK(n, EntryAt(n))'
    <2> DEFINE old == EntryAt(n)
               new == after.observed[n]
               Before == RecordedIn(n)
    <2>1. EntryAt(n)' = new /\ RecordedIn(n)' = Before \cup Noted(n)
      BY <1>2, <1>4, <1>5 DEF EntryAt, RecordedIn
    <2>2. /\ lock.observed[n] = old
          /\ IF old = None THEN Before = {} ELSE Before # {} /\ old.samples = {o.body : o \in Before}
      BY <1>1 DEF EntriesOK, EntryOK
    <2>3. (For(n) = {} <=> Noted(n) = {}) /\ Given(n) = {o.body : o \in Noted(n)}
      BY DEF Gives
    <2>4. IF For(n) = {} THEN new = old
          ELSE new # None /\ new.samples = (IF old = None THEN {} ELSE old.samples) \cup Given(n)
      BY <1>3, <2>2
    <2> HIDE DEF old, new, Before, Noted, For, Given
    <2>5. IF new = None THEN Before \cup Noted(n) = {}
          ELSE Before \cup Noted(n) # {} /\ new.samples = {o.body : o \in Before \cup Noted(n)}
      BY <2>2, <2>3, <2>4
    <2> QED BY <2>1, <2>5 DEF EntryOK
  <1> QED BY <1>6, <1>7 DEF EntriesOK

(* What else a record must bring for the invariant to hold after it.       *)
LEMMA RecordKeepsOK ==
  ASSUME CaptureOK, NEW calls, NEW recorded, Record(calls, recorded),
         Len(calls) \in Nat, \A i \in 1..Len(calls) : calls[i] \in RecordCall,
         Gives(calls, recorded),
         \A o \in recorded : o.request \in DOMAIN Answers /\ OwnKey(o.request) \in DOMAIN Keyed /\ Imported(o),
         ~changed => \A o \in recorded : o.body = service[o.request].text,
         NamedEntryIsCoherent'
  PROVE  CaptureOK'
  <1>1. TypeOK' /\ EntriesOK'
    BY RecordStep DEF CaptureOK
  <1>2. /\ origin' = origin \cup recorded /\ run' = None
        /\ service' = service /\ changed' = changed /\ har' = har
    BY DEF Record
  <1>3. OriginOK'
    <2>1. \A o : Imported(o)' <=> Imported(o)
      BY DEF Imported
    <2> QED BY <1>2, <2>1 DEF OriginOK, CaptureOK
  <1>4. RunOK' /\ Unchanged'
    BY <1>2 DEF RunOK, Unchanged, CaptureOK
  <1> QED BY <1>1, <1>3, <1>4 DEF CaptureOK

LEMMA IdentitiesType ==
  ASSUME TypeOK, NEW ids \in scene.identities
  PROVE  ids \in Identities
  BY CaptureAssumption DEF TypeOK, Identities

LEMMA KeyOfName ==
  ASSUME NEW k \in DOMAIN Keyed
  PROVE  KeyNamed(Keyed[k]) = k /\ Keyed[k] \in Names /\ k \in Key
  BY KeyAssumption DEF KeyNamed, IsInjective

(* What is noted of some positions of a capture.                           *)
LEMMA NotedBodies ==
  ASSUME NEW name, NEW S, NEW ids, NEW named
  PROVE  /\ {o.body : o \in Recorded(name, S, ids, named)} = {BodyAt(i) : i \in S}
         /\ Recorded(name, S, ids, named) = {} <=> S = {}
  <1> DEFINE Note(i) == [name |-> name, request |-> har[i].request, body |-> BodyAt(i),
                         identities |-> ids, har |-> TRUE, named |-> named]
  <1>1. Recorded(name, S, ids, named) = {Note(i) : i \in S}
    BY DEF Recorded, BodyAt
  <1>2. \A i : Note(i).body = BodyAt(i)
    OBVIOUS
  <1> HIDE DEF Note
  <1> QED BY <1>1, <1>2

(* With --name: the entry is new, and all its bodies are of one group.     *)
LEMMA ImportNamedOK ==
  ASSUME CaptureOK, NEW ids \in scene.identities, NEW statuses, NEW name \in scene.names,
         ImportNamed(name, ids, statuses)
  PROVE  CaptureOK'
  <1> DEFINE groups == Recordings(har, ids, statuses)
             key == CHOOSE k \in DOMAIN groups : TRUE
             group == groups[key]
             order == InOrder(group)
             n == Cardinality(group)
             bodies == [i \in DOMAIN order |-> BodyAt(order[i])]
             calls == HarNamedCalls(name, bodies, None, FALSE)
             recorded == Recorded(name, group, ids, TRUE)
             Call(i) == [name |-> name, samples |-> {BodyAt(order[i])}, merge |-> i > 1,
                         threshold |-> None, mapAt |-> FALSE]
  <1>1. ids \in Identities /\ har \in Seq(Entry) /\ name \in Names
    BY IdentitiesType, CaptureAssumption DEF CaptureOK, TypeOK
  <1>2. DOMAIN groups # {} /\ Record(calls, recorded)
    BY DEF ImportNamed, ValidHar
  <1>3. \A k \in DOMAIN groups : GroupOf(k, groups[k], har, ids)
    BY <1>1, Groups
  <1> HIDE DEF groups
  <1>4. GroupOf(key, group, har, ids)
    BY <1>2, <1>3
  <1> HIDE DEF group, key
  <1>5. group \in SUBSET Nat /\ group # {} /\ IsFiniteSet(group)
    BY <1>4 DEF GroupOf
  <1>6. /\ n \in Nat /\ order \in [1..n -> group] /\ DOMAIN order = 1..n
        /\ \A s \in group : \E i \in 1..n : order[i] = s
    BY <1>5, InOrderLists
  <1>7. \A i \in group : /\ BodyAt(i) \in Samples /\ har[i].request \in DOMAIN Answers
                         /\ OwnKey(har[i].request) \in DOMAIN Keyed /\ KeyOf(har[i].request, ids) = key
                         /\ i \in DOMAIN har
    BY <1>1, <1>4 DEF GroupOf, BodyAt
  <1> HIDE DEF order, n, recorded
  <1>8. 1 \in 1..n
    <2>1. \E i \in 1..n : TRUE
      BY <1>5, <1>6
    <2> QED BY <1>6, <2>1
  <1>9. calls = [i \in 1..n |-> Call(i)] /\ Len(calls) = n
    <2>1. bodies = [i \in 1..n |-> BodyAt(order[i])]
      BY <1>6
    <2>2. Len(bodies) = n /\ \A i \in 1..n : bodies[i] = BodyAt(order[i])
      BY <1>6, <2>1
    <2> DEFINE CallOf(i, body) == [name |-> name, samples |-> {body}, merge |-> i > 1,
                                   threshold |-> None, mapAt |-> FALSE]
    <2>3. calls = [i \in 1..Len(bodies) |-> CallOf(i, bodies[i])]
      <3> HIDE DEF bodies
      <3> QED BY DEF HarNamedCalls
    <2>4. \A i : Call(i) = CallOf(i, BodyAt(order[i]))
      OBVIOUS
    <2> HIDE DEF bodies, calls, CallOf, Call
    <2>5. calls = [i \in 1..n |-> Call(i)]
      BY <2>2, <2>3, <2>4
    <2> QED BY <1>6, <2>5
  <1> HIDE DEF calls
  <1>10. \A i \in 1..n : calls[i] \in RecordCall
    BY <1>1, <1>6, <1>7, <1>9 DEF RecordCall
  <1>11. \A o \in recorded : \E i \in group :
            /\ o.name = name /\ o.request = har[i].request /\ o.body = BodyAt(i)
            /\ o.identities = ids /\ o.named
    BY DEF recorded, Recorded, BodyAt
  <1>12. Gives(calls, recorded)
    <2> SUFFICES ASSUME NEW m \in Names
                 PROVE  LET S == {i \in 1..n : calls[i].name = m}
                            R == {o \in recorded : o.name = m} IN
                        (S = {} <=> R = {}) /\ UNION {calls[i].samples : i \in S} = {o.body : o \in R}
      BY <1>9 DEF Gives
    <2>1. \A i \in 1..n : calls[i].name = name /\ calls[i].samples = {BodyAt(order[i])}
      BY <1>9
    <2>2. \A o \in recorded : o.name = name
      BY <1>11
    <2>3. CASE m = name
      <3>1. {i \in 1..n : calls[i].name = m} = 1..n /\ {o \in recorded : o.name = m} = recorded
        BY <2>1, <2>2, <2>3
      <3>2. UNION {calls[i].samples : i \in 1..n} = {BodyAt(i) : i \in group}
        BY <1>6, <2>1
      <3>3. {o.body : o \in recorded} = {BodyAt(i) : i \in group} /\ recorded # {}
        BY <1>5, NotedBodies DEF recorded
      <3> QED BY <1>8, <3>1, <3>2, <3>3
    <2>4. CASE m # name
      BY <2>1, <2>2, <2>4
    <2> QED BY <2>3, <2>4
  <1>13. RecordedIn(name) = {}
    <2>1. AllAllowed(LoadOrCreate, calls, n)
      BY <1>2, <1>9 DEF Record
    <2>2. RecordAllowed(AfterCalls(LoadOrCreate, calls, 0), calls[1])
      <3>1. RecordAllowed(AfterCalls(LoadOrCreate, calls, 1 - 1), calls[1])
        BY <1>8, <2>1 DEF AllAllowed
      <3> QED BY <3>1
    <2>3. LoadOrCreate \in ApiLock /\ LoadOrCreate.observed[name] = EntryAt(name)
      BY <1>1, Starting DEF CaptureOK
    <2>4. calls[1].name = name /\ ~calls[1].merge
      <3>1. Call(1).name = name /\ ~Call(1).merge
        <4>1. (1 > 1) = FALSE
          OBVIOUS
        <4>2. Call(1) = [name |-> name, samples |-> {BodyAt(order[1])}, merge |-> FALSE,
                         threshold |-> None, mapAt |-> FALSE]
          BY <4>1, Zenon
        <4> HIDE DEF Call
        <4> QED BY <4>2
      <3>2. calls[1] = Call(1)
        <4> HIDE DEF Call
        <4> QED BY <1>8, <1>9
      <3> HIDE DEF Call
      <3> QED BY <3>1, <3>2
    <2>5. EntryAt(name) = None
      BY <2>2, <2>3, <2>4, AfterCallsZero DEF RecordAllowed
    <2> QED BY <1>1, <2>5 DEF CaptureOK, EntriesOK, EntryOK
  <1>14. \A o \in recorded : /\ o.request \in DOMAIN Answers /\ OwnKey(o.request) \in DOMAIN Keyed
                             /\ Imported(o) /\ KeyOf(o.request, o.identities) = key
    BY <1>7, <1>11 DEF Imported
  <1>15. ~changed => \A o \in recorded : o.body = service[o.request].text
    BY <1>7, <1>11 DEF CaptureOK, Unchanged, BodyAt
  <1>16. NamedEntryIsCoherent'
    <2>1. origin' = origin \cup recorded
      BY <1>2 DEF Record
    <2>2. \A o \in origin : o.name # name
      BY <1>13 DEF RecordedIn
    <2>3. \A o \in recorded : o.name = name
      BY <1>11
    <2> QED BY <1>14, <2>1, <2>2, <2>3 DEF NamedEntryIsCoherent, CaptureOK
  <1> QED BY <1>2, <1>6, <1>9, <1>10, <1>12, <1>14, <1>15, <1>16, RecordKeepsOK

(* Without --name: each group goes into the entry of its own key.          *)
LEMMA ImportKeyedOK ==
  ASSUME CaptureOK, NEW ids \in scene.identities, NEW statuses, NEW merge \in BOOLEAN,
         ImportKeyed(ids, statuses, merge)
  PROVE  CaptureOK'
  <1> DEFINE groups == Recordings(har, ids, statuses)
             keys == DOMAIN groups
             keyed == {Keyed[k] : k \in keys}
             names == InOrder(keyed)
             n == Cardinality(keyed)
             BodiesOf(m) == {BodyAt(i) : i \in groups[KeyNamed(m)]}
             Group(m) == [name |-> m, bodies |-> BodiesOf(m)]
             list == [i \in DOMAIN names |-> Group(names[i])]
             calls == HarKeyedCalls(list, merge, None, FALSE)
             recorded == UNION {Recorded(Keyed[k], groups[k], ids, FALSE) : k \in keys}
             Call(i) == [name |-> names[i], samples |-> BodiesOf(names[i]), merge |-> merge,
                         threshold |-> None, mapAt |-> FALSE]
  <1>1. ids \in Identities /\ har \in Seq(Entry)
    BY IdentitiesType DEF CaptureOK, TypeOK
  <1>2. ValidHar(har, ids, statuses) /\ Record(calls, recorded)
    BY DEF ImportKeyed
  <1>3. /\ keys \in SUBSET DOMAIN Keyed /\ IsFiniteSet(keys)
        /\ \A k \in keys : GroupOf(k, groups[k], har, ids)
    BY <1>1, Groups
  <1>4. \A k \in keys : \A i \in groups[k] :
           Under(har[i].request, k)
             /\ \A id \in ToSet(ids) : Under(har[i].request, id) => Len(id.path) <= Len(k.path)
    BY <1>1, <1>2, FirstIsLongest
  <1> HIDE DEF groups, keys
  <1>5. \A k \in keys : KeyNamed(Keyed[k]) = k /\ Keyed[k] \in Names
    BY <1>3, KeyOfName
  <1>6. \A k \in keys : \A i \in groups[k] :
           /\ BodyAt(i) \in Samples /\ har[i].request \in DOMAIN Answers
           /\ OwnKey(har[i].request) \in DOMAIN Keyed /\ i \in DOMAIN har
    BY <1>1, <1>3 DEF GroupOf, BodyAt
  <1>7. keyed \in SUBSET Nat /\ IsFiniteSet(keyed)
    <2>1. keyed \in SUBSET Nat
      BY <1>5, NamesAssumption
    <2> DEFINE f == [k \in keys |-> Keyed[k]]
    <2>2. f \in Surjection(keys, keyed)
      BY DEF Surjection
    <2> HIDE DEF f, keyed
    <2> QED BY <1>3, <2>1, <2>2, FS_Surjection
  <1>8. \A m \in keyed : KeyNamed(m) \in keys /\ Keyed[KeyNamed(m)] = m
    BY <1>5
  <1>9. /\ n \in Nat /\ names \in [1..n -> keyed] /\ DOMAIN names = 1..n
        /\ \A m \in keyed : \E i \in 1..n : names[i] = m
    <2> HIDE DEF keyed
    <2> QED BY <1>7, InOrderLists
  <1>10. calls = [i \in 1..n |-> Call(i)] /\ Len(calls) = n
    <2>1. list = [i \in 1..n |-> Group(names[i])]
      BY <1>9
    <2> HIDE DEF n, names, Group
    <2>2. Len(list) = n /\ \A i \in 1..n : list[i] = Group(names[i])
      BY <1>9, <2>1
    <2> DEFINE CallOf(g) == [name |-> g.name, samples |-> g.bodies, merge |-> merge,
                             threshold |-> None, mapAt |-> FALSE]
    <2>3. calls = [i \in 1..Len(list) |-> CallOf(list[i])]
      <3> HIDE DEF list
      <3> QED BY DEF HarKeyedCalls
    <2>4. \A i : Call(i) = CallOf(Group(names[i]))
      <3> HIDE DEF BodiesOf
      <3> QED BY DEF Group
    <2> HIDE DEF list, calls, CallOf, Call
    <2>5. calls = [i \in 1..n |-> Call(i)]
      BY <2>2, <2>3, <2>4
    <2> QED BY <1>9, <2>5
  <1> HIDE DEF n, names, calls, keyed, recorded
  <1>11. \A i \in 1..n : calls[i].name = names[i] /\ calls[i].samples = BodiesOf(names[i])
    <2> HIDE DEF BodiesOf
    <2> QED BY <1>10
  <1>12. \A i \in 1..n : calls[i] \in RecordCall
    <2>1. \A m \in keyed : m \in Names /\ BodiesOf(m) \in SUBSET Samples
      BY <1>5, <1>6, <1>8
    <2> HIDE DEF BodiesOf
    <2> QED BY <1>9, <1>10, <2>1 DEF RecordCall
  <1>13. \A o \in recorded : \E k \in keys : \E i \in groups[k] :
            /\ o.name = Keyed[k] /\ o.request = har[i].request /\ o.body = BodyAt(i)
            /\ o.identities = ids /\ ~o.named
    BY DEF recorded, Recorded, BodyAt
  <1>14. ASSUME NEW m \in keyed
         PROVE  {o \in recorded : o.name = m} = Recorded(m, groups[KeyNamed(m)], ids, FALSE)
    <2>1. ASSUME NEW o \in recorded, o.name = m PROVE o \in Recorded(m, groups[KeyNamed(m)], ids, FALSE)
      <3>1. PICK k \in keys : o \in Recorded(Keyed[k], groups[k], ids, FALSE)
        BY DEF recorded
      <3>2. o.name = Keyed[k]
        BY <3>1 DEF Recorded
      <3>3. k = KeyNamed(m)
        BY <1>5, <2>1, <3>2
      <3> QED BY <2>1, <3>1, <3>2, <3>3
    <2>2. ASSUME NEW o \in Recorded(m, groups[KeyNamed(m)], ids, FALSE) PROVE o \in recorded /\ o.name = m
      <3>1. o.name = m
        BY DEF Recorded
      <3> QED BY <1>8, <3>1 DEF recorded
    <2> QED BY <2>1, <2>2
  <1>15. Gives(calls, recorded)
    <2> SUFFICES ASSUME NEW m \in Names
                 PROVE  LET S == {i \in 1..n : calls[i].name = m}
                            R == {o \in recorded : o.name = m} IN
                        (S = {} <=> R = {}) /\ UNION {calls[i].samples : i \in S} = {o.body : o \in R}
      BY <1>10 DEF Gives
    <2> DEFINE S == {i \in 1..n : calls[i].name = m}
               R == {o \in recorded : o.name = m}
    <2>1. CASE m \in keyed
      <3>1. S # {} /\ \A i \in S : calls[i].samples = BodiesOf(m)
        <4> HIDE DEF BodiesOf
        <4> QED BY <1>9, <1>11, <2>1
      <3>2. UNION {calls[i].samples : i \in S} = BodiesOf(m)
        <4> HIDE DEF S, BodiesOf
        <4> QED BY <3>1
      <3>3. R = Recorded(m, groups[KeyNamed(m)], ids, FALSE) /\ groups[KeyNamed(m)] # {}
        BY <1>3, <1>8, <1>14, <2>1 DEF GroupOf
      <3> DEFINE group == groups[KeyNamed(m)]
                 noted == Recorded(m, group, ids, FALSE)
      <3>4. {o.body : o \in noted} = BodiesOf(m) /\ noted # {}
        <4>1. {o.body : o \in noted} = {BodyAt(i) : i \in group} /\ (noted = {} <=> group = {})
          <5> HIDE DEF group
          <5> QED BY NotedBodies, Zenon
        <4> QED BY <3>3, <4>1
      <3>5. (S = {} <=> R = {}) /\ UNION {calls[i].samples : i \in S} = {o.body : o \in R}
        <4> HIDE DEF S, R, BodiesOf
        <4> QED BY <3>1, <3>2, <3>3, <3>4
      <3> QED BY <3>5
    <2>2. CASE m \notin keyed
      <3>1. S = {}
        BY <1>9, <1>11, <2>2
      <3>2. R = {}
        BY <1>13, <2>2 DEF keyed
      <3> QED BY <3>1, <3>2
    <2> QED BY <2>1, <2>2
  <1>16. \A o \in recorded : /\ o.request \in DOMAIN Answers /\ OwnKey(o.request) \in DOMAIN Keyed
                             /\ ~o.named /\ Imported(o)
    <2> TAKE o \in recorded
    <2>0. PICK k \in keys : \E i \in groups[k] :
            o.name = Keyed[k] /\ o.request = har[i].request /\ o.identities = ids /\ ~o.named
      BY <1>13
    <2>1. PICK i \in groups[k] :
            o.name = Keyed[k] /\ o.request = har[i].request /\ o.identities = ids /\ ~o.named
      BY <2>0
    <2>2. \A l \in DOMAIN Keyed : Keyed[l] = o.name => l = k
      BY <1>3, <2>1, KeyOfName
    <2> QED BY <1>4, <1>5, <1>6, <2>1, <2>2 DEF Imported
  <1>17. ~changed => \A o \in recorded : o.body = service[o.request].text
    BY <1>6, <1>13 DEF CaptureOK, Unchanged, BodyAt
  <1>18. NamedEntryIsCoherent'
    <2>1. origin' = origin \cup recorded
      BY <1>2 DEF Record
    <2> QED BY <1>16, <2>1 DEF NamedEntryIsCoherent, CaptureOK
  <1> QED BY <1>2, <1>9, <1>10, <1>12, <1>15, <1>16, <1>17, <1>18, RecordKeepsOK

(* What a fetch returns is what the service has.                           *)
LEMMA Fetched ==
  ASSUME NEW r, FetchJson(r) # None
  PROVE  /\ r \in DOMAIN service /\ FetchJson(r) \in Samples
         /\ FetchJson(r) = service[r].text
  BY DEF FetchJson

LEMMA RecordUrlOK ==
  ASSUME CaptureOK, NEW request \in scene.urls, NEW name \in scene.names \cup {None},
         NEW ids \in scene.identities, NEW templates, NEW merge \in BOOLEAN,
         RecordUrl(request, name, ids, templates, merge)
  PROVE  CaptureOK'
  <1> DEFINE headers == ResolveHeaders(templates)
             sent == Sent(request, headers)
             body == FetchJson(sent)
             key == KeyOf(request, ids)
             own == IF key = None THEN OwnKey(request) ELSE key
             entry == IF name # None THEN name ELSE Keyed[own]
             call == [name |-> entry, samples |-> {body}, merge |-> merge, threshold |-> None, mapAt |-> FALSE]
             note == [name |-> entry, request |-> sent, body |-> body, identities |-> ids, har |-> FALSE,
                     named |-> name # None]
  <1>1. body # None /\ Record(<<call>>, {note})
    BY DEF RecordUrl
  <1>2. body \in Samples /\ body = service[sent].text /\ sent \in DOMAIN service
    BY <1>1, Fetched
  <1>3. /\ request \in DOMAIN Answers /\ OwnKey(request) \in DOMAIN Keyed
        /\ sent \in DOMAIN Answers /\ OwnKey(sent) = OwnKey(request)
    <2>1. /\ request \in DOMAIN Answers /\ OwnKey(request) \in DOMAIN Keyed
          /\ DOMAIN service \subseteq DOMAIN Answers
      BY CaptureAssumption, OwnKeyKnown DEF CaptureOK, TypeOK
    <2>2. request \in Request
      BY <2>1, CaptureAssumption
    <2>3. sent.method = request.method /\ sent.path = request.path
      BY <2>2 DEF Sent, Request
    <2> QED BY <1>2, <2>1, <2>3 DEF OwnKey
  <1>4. own \in DOMAIN Keyed
    <2>1. ids \in Identities
      BY IdentitiesType DEF CaptureOK
    <2>2. key \in {OwnKey(request), None} \/ \E i \in DOMAIN ids : key = ids[i]
      BY <1>3, <2>1, KeyOfCases
    <2> HIDE DEF key
    <2> QED BY <1>3, <2>1, <2>2 DEF Identities
  <1>5. entry \in Names
    <2> HIDE DEF own
    <2>1. name # None => name \in Names
      BY CaptureAssumption DEF CaptureOK, TypeOK
    <2> QED BY <1>4, <2>1, KeyOfName
  <1> HIDE DEF entry, body, sent
  <1>6. call \in RecordCall /\ call.name = entry /\ call.samples = {body}
    BY <1>2, <1>5 DEF RecordCall
  <1>7. note.name = entry /\ note.request = sent /\ note.body = body /\ ~note.har
    OBVIOUS
  <1> DEFINE calls == <<call>>
  <1> HIDE DEF call, note
  <1>8. Len(calls) = 1 /\ calls[1] = call /\ 1..1 = {1}
    OBVIOUS
  <1> HIDE DEF calls
  <1>9. \A i \in 1..Len(calls) : calls[i] \in RecordCall
    BY <1>6, <1>8
  <1>10. Gives(calls, {note})
    BY <1>6, <1>7, <1>8 DEF Gives
  <1>11. Imported(note)
    BY <1>7 DEF Imported
  <1>12. NamedEntryIsCoherent'
    <2>1. origin' = origin \cup {note}
      BY <1>1 DEF Record
    <2> QED BY <1>7, <2>1 DEF NamedEntryIsCoherent, CaptureOK
  <1>13. Record(calls, {note})
    BY <1>1 DEF calls
  <1> QED BY <1>2, <1>3, <1>7, <1>8, <1>9, <1>10, <1>11, <1>12, <1>13, RecordKeepsOK

-----------------------------------------------------------------------------
(* The other steps.                                                        *)

LEMMA InitOK == Init => CaptureOK
  <1> SUFFICES ASSUME Init PROVE CaptureOK
    OBVIOUS
  <1>1. TypeOK
    <2> DEFINE requests == scene.browsed \cup scene.urls
    <2>1. requests \subseteq DOMAIN Answers
      BY CaptureAssumption DEF Init
    <2>2. UNION {Answers[r] : r \in requests} \subseteq UNION {Answers[r] : r \in DOMAIN Answers}
      BY <2>1
    <2>3. service \in [requests -> UNION {Answers[r] : r \in requests}]
      BY DEF Init
    <2>4. service \in [requests -> UNION {Answers[r] : r \in DOMAIN Answers}]
      <3> HIDE DEF requests
      <3> QED BY <2>2, <2>3
    <2>5. har = << >> /\ scene \in Scenes /\ changed = FALSE /\ disk = None
      BY DEF Init
    <2>6. har \in Seq(Entry) /\ DOMAIN har = {}
      BY <2>5
    <2>7. changed \in BOOLEAN
      BY <2>5
    <2> QED BY <2>4, <2>5, <2>6, <2>7 DEF TypeOK
  <1>2. EntriesOK /\ OriginOK /\ NamedEntryIsCoherent /\ RunOK /\ Unchanged
    BY DEF Init, EntriesOK, EntryOK, EntryAt, RecordedIn, OriginOK, NamedEntryIsCoherent, RunOK, Unchanged
  <1> QED BY <1>1, <1>2 DEF CaptureOK

(* A step that records nothing keeps what is said of the entries.          *)
LEMMA NothingRecorded ==
  ASSUME EntriesOK, OriginOK, NamedEntryIsCoherent, UNCHANGED <<disk, origin>>
  PROVE  (EntriesOK /\ OriginOK /\ NamedEntryIsCoherent)'
  BY DEF EntriesOK, EntryOK, EntryAt, RecordedIn, OriginOK, Imported, NamedEntryIsCoherent

LEMMA ServiceAndBrowserOK ==
  ASSUME CaptureOK,
         \/ \E r \in scene.urls : \E answer \in Answers[r] : Serve(r, answer)
         \/ \E r \in scene.browsed : Browse(r)
         \/ NewCapture
  PROVE  CaptureOK'
  <1>1. UNCHANGED <<scene, disk, origin, run>>
    BY DEF Serve, Browse, NewCapture
  <1>2. (EntriesOK /\ OriginOK /\ NamedEntryIsCoherent)'
    BY <1>1, NothingRecorded DEF CaptureOK
  <1>3. RunOK'
    BY <1>1 DEF CaptureOK, RunOK, Breaks
  <1>4. scene.browsed \cup scene.urls \subseteq DOMAIN Answers
    BY CaptureAssumption DEF CaptureOK, TypeOK
  <1> DEFINE AnyAnswer == UNION {Answers[r] : r \in DOMAIN Answers}
  <1>5. CASE \E r \in scene.urls : \E answer \in Answers[r] : Serve(r, answer)
    <2>1. PICK r \in scene.urls : \E answer \in Answers[r] : Serve(r, answer)
      BY <1>5
    <2>2. PICK answer \in Answers[r] : Serve(r, answer)
      BY <2>1
    <2>3. answer \in AnyAnswer
      BY <1>4
    <2>4. service' = [service EXCEPT ![r] = answer] /\ changed' = TRUE /\ har' = har
      BY <2>2 DEF Serve
    <2>5. TypeOK'
      <3>1. service' \in [scene.browsed \cup scene.urls -> AnyAnswer]
        <4> HIDE DEF AnyAnswer
        <4> QED BY <2>3, <2>4 DEF CaptureOK, TypeOK, AnyAnswer
      <3> QED BY <1>1, <2>4, <3>1 DEF CaptureOK, TypeOK
    <2> QED BY <1>2, <1>3, <2>4, <2>5 DEF CaptureOK, Unchanged
  <1>6. CASE \E r \in scene.browsed : Browse(r)
    <2>1. PICK r \in scene.browsed : Browse(r)
      BY <1>6
    <2> DEFINE entry == [request |-> r, answer |-> service[r]]
    <2>2. har' = Append(har, entry) /\ service' = service /\ changed' = changed
      BY <2>1 DEF Browse
    <2>3. entry \in Entry /\ entry.request = r /\ entry.answer = service[r]
      BY <1>4 DEF CaptureOK, TypeOK, Entry
    <2>4. har \in Seq(Entry)
      BY DEF CaptureOK, TypeOK
    <2> HIDE DEF entry
    <2>5. /\ har' \in Seq(Entry) /\ DOMAIN har' = 1..(Len(har) + 1)
          /\ \A i \in DOMAIN har' : har'[i] = entry \/ (i \in DOMAIN har /\ har'[i] = har[i])
      BY <2>2, <2>3, <2>4
    <2>6. TypeOK'
      BY <1>1, <2>2, <2>3, <2>5 DEF CaptureOK, TypeOK
    <2>7. Unchanged'
      BY <1>1, <2>2, <2>3, <2>5 DEF CaptureOK, Unchanged
    <2> QED BY <1>2, <1>3, <2>6, <2>7 DEF CaptureOK
  <1>7. CASE NewCapture
    <2>1. har' = << >> /\ service' = service /\ changed' = changed
      BY <1>7 DEF NewCapture
    <2>2. TypeOK' /\ Unchanged'
      BY <1>1, <2>1 DEF CaptureOK, TypeOK, Unchanged
    <2> QED BY <1>2, <1>3, <2>2 DEF CaptureOK
  <1> QED BY <1>5, <1>6, <1>7

-----------------------------------------------------------------------------
(* verify --all.                                                           *)

LEMMA VerifyStarts ==
  ASSUME CaptureOK, NEW templates, StartVerifyAll(templates)
  PROVE  CaptureOK'
  <1>1. UNCHANGED <<scene, service, changed, har, disk, origin>> /\ disk # None
    BY DEF StartVerifyAll
  <1>2. Load(disk).observed = disk.observed
    BY DEF Load
  <1>3. \E left, headers :
          /\ run' = [entries |-> disk.observed, left |-> left, headers |-> headers, breaking |-> FALSE,
                     success |-> FALSE, exit |-> None, fetched |-> {}]
          /\ left = {n \in Names : disk.observed[n] # None}
    BY <1>2 DEF StartVerifyAll
  <1>4. RunOK'
    BY <1>1, <1>3 DEF RunOK
  <1>5. TypeOK' /\ Unchanged'
    BY <1>1, <1>3 DEF CaptureOK, TypeOK, Unchanged
  <1> QED BY <1>1, <1>4, <1>5, NothingRecorded DEF CaptureOK

(* The next entry is one that is left.                                     *)
LEMMA NextIsLeft ==
  ASSUME RunOK, Busy, run.left # {}
  PROVE  NextEntry \in run.left /\ NextEntry \in Names /\ disk.observed[NextEntry] # None
  <1>1. run.left \in SUBSET Nat /\ run.left \subseteq {n \in Names : disk.observed[n] # None}
    BY NamesAssumption DEF RunOK, Busy
  <1>2. \E n \in run.left : \A m \in run.left : n <= m
    BY <1>1, LeastNumber
  <1>3. NextEntry \in run.left
    BY <1>2 DEF NextEntry
  <1> QED BY <1>1, <1>3

LEMMA VerifyFetches ==
  ASSUME CaptureOK, FetchNext
  PROVE  CaptureOK'
  <1> DEFINE name == NextEntry
             fetched == FetchJson(Target(name, run.headers))
             f == [name |-> name, body |-> fetched]
             breaks == fetched \notin disk.observed[name].samples
  <1>1. /\ UNCHANGED <<scene, service, changed, har, disk, origin>>
        /\ run # None /\ run.exit = None
        /\ Judge(name, fetched) \/ Judge(name, None)
    BY DEF FetchNext, Busy
  <1>2. name \in Names /\ disk.observed[name] # None
    BY NextIsLeft DEF FetchNext, CaptureOK
  <1>3. /\ disk # None
        /\ run = [entries |-> disk.observed, left |-> run.left, headers |-> run.headers,
                  breaking |-> run.breaking, success |-> run.success, exit |-> run.exit,
                  fetched |-> run.fetched]
        /\ run.left \subseteq {n \in Names : disk.observed[n] # None}
        /\ \A g \in run.fetched : g.name \in Names /\ disk.observed[g.name] # None
        /\ run.success <=> run.fetched # {}
        /\ run.breaking <=> \E g \in run.fetched : Breaks(g)
    BY <1>1 DEF CaptureOK, RunOK
  <1>4. TypeOK' /\ EntriesOK' /\ OriginOK' /\ NamedEntryIsCoherent'
    BY <1>1, NothingRecorded DEF CaptureOK, TypeOK
  <1> HIDE DEF name, fetched
  <1>5. CASE run' = [run EXCEPT !.left = @ \ {name}]
    <2>1. run' = [entries |-> disk.observed, left |-> run.left \ {name}, headers |-> run.headers,
                  breaking |-> run.breaking, success |-> run.success, exit |-> None,
                  fetched |-> run.fetched]
      <3>1. run = [entries |-> disk.observed, left |-> run.left, headers |-> run.headers,
                   breaking |-> run.breaking, success |-> run.success, exit |-> None,
                   fetched |-> run.fetched]
        BY <1>1, <1>3
      <3> QED BY <1>5, <3>1
    <2>2. RunOK'
      BY <1>1, <1>3, <2>1 DEF RunOK, Breaks
    <2>3. Unchanged'
      BY <1>1, <2>1 DEF CaptureOK, Unchanged
    <2> QED BY <1>4, <2>2, <2>3 DEF CaptureOK
  <1>6. CASE /\ fetched # None
             /\ run' = [run EXCEPT !.left = @ \ {name}, !.success = TRUE,
                                   !.breaking = @ \/ fetched \notin run.entries[name].samples,
                                   !.fetched = @ \cup {f}]
    <2> DEFINE breaking == run.breaking \/ breaks
    <2>0. run.entries = disk.observed
      BY <1>3
    <2>1. /\ run'.entries = disk.observed /\ run'.left = run.left \ {name} /\ run'.headers = run.headers
          /\ run'.success = TRUE /\ run'.exit = None /\ run'.fetched = run.fetched \cup {f}
          /\ run'.breaking = breaking
          /\ run' = [entries |-> run'.entries, left |-> run'.left, headers |-> run'.headers,
                     breaking |-> run'.breaking, success |-> run'.success, exit |-> run'.exit,
                     fetched |-> run'.fetched]
      <3>1. run' = [run EXCEPT !.left = @ \ {name}, !.success = TRUE, !.breaking = breaking,
                              !.fetched = @ \cup {f}]
        <4> HIDE DEF f
        <4> QED BY <1>6, <2>0, Zenon DEF f
      <3> HIDE DEF f, breaking
      <3>2. run' = [entries |-> disk.observed, left |-> run.left \ {name}, headers |-> run.headers,
                    breaking |-> breaking, success |-> TRUE, exit |-> None, fetched |-> run.fetched \cup {f}]
        <4>1. run = [entries |-> disk.observed, left |-> run.left, headers |-> run.headers,
                     breaking |-> run.breaking, success |-> run.success, exit |-> None,
                     fetched |-> run.fetched]
          BY <1>1, <1>3
        <4> DEFINE left == run.left
                   headers == run.headers
                   before == run.breaking
                   success == run.success
                   seen == run.fetched
                   entries == disk.observed
        <4> HIDE DEF left, headers, before, success, seen, entries
        <4>2. run = [entries |-> entries, left |-> left, headers |-> headers, breaking |-> before,
                     success |-> success, exit |-> None, fetched |-> seen]
          BY <4>1 DEF left, headers, before, success, seen, entries
        <4>3. run' = [entries |-> entries, left |-> left \ {name}, headers |-> headers,
                      breaking |-> breaking, success |-> TRUE, exit |-> None, fetched |-> seen \cup {f}]
          BY <3>1, <4>2
        <4> QED BY <4>3 DEF left, headers, seen, entries
      <3> QED BY <3>2
    <2>2. fetched = service[Target(name, run.headers)].text
      BY <1>6, Fetched DEF fetched
    <2>3. f.name = name /\ f.body = fetched /\ (Breaks(f) <=> breaks)
      BY DEF Breaks
    <2> HIDE DEF f, breaks
    <2>4. run'.breaking <=> \E g \in run.fetched \cup {f} : Breaks(g)
      <3>1. (run.breaking \/ breaks) <=> \E g \in run.fetched \cup {f} : Breaks(g)
        BY <1>3, <2>3
      <3> QED BY <2>1, <3>1
    <2>5. RunOK'
      <3>1. \A g : Breaks(g)' <=> Breaks(g)
        BY <1>1 DEF Breaks
      <3>2. run'.success <=> run'.fetched # {}
        BY <2>1
      <3> QED BY <1>1, <1>2, <1>3, <2>1, <2>2, <2>3, <2>4, <3>1, <3>2 DEF RunOK
    <2>6. Unchanged'
      BY <1>1, <2>1, <2>2, <2>3 DEF CaptureOK, Unchanged
    <2> QED BY <1>4, <2>5, <2>6 DEF CaptureOK
  <1> QED BY <1>1, <1>5, <1>6 DEF Judge

LEMMA VerifyEnds ==
  ASSUME CaptureOK, Conclude
  PROVE  CaptureOK'
  <1> DEFINE verdict == IF ~run.success THEN "error" ELSE IF run.breaking THEN "breaking" ELSE "clean"
  <1>1. /\ UNCHANGED <<scene, service, changed, har, disk, origin>> /\ run # None
        /\ run' = [run EXCEPT !.exit = verdict]
    BY DEF Conclude, Busy
  <1>2. verdict = IF run.fetched = {} THEN "error"
                  ELSE IF \E f \in run.fetched : Breaks(f) THEN "breaking" ELSE "clean"
    BY <1>1 DEF CaptureOK, RunOK
  <1> HIDE DEF verdict
  <1>3. run' = [entries |-> disk.observed, left |-> run.left, headers |-> run.headers,
                breaking |-> run.breaking, success |-> run.success, exit |-> verdict,
                fetched |-> run.fetched]
    BY <1>1 DEF CaptureOK, RunOK
  <1>4. RunOK'
    BY <1>1, <1>2, <1>3 DEF CaptureOK, RunOK, Breaks
  <1>5. TypeOK' /\ Unchanged'
    BY <1>1, <1>3 DEF CaptureOK, TypeOK, Unchanged
  <1> QED BY <1>1, <1>4, <1>5, NothingRecorded DEF CaptureOK

LEMMA NextOK == CaptureOK /\ [Next]_vars => CaptureOK'
  <1> SUFFICES ASSUME CaptureOK, [Next]_vars PROVE CaptureOK'
    OBVIOUS
  <1>1. CASE UNCHANGED vars
    <2>1. UNCHANGED <<scene, service, changed, har, disk, origin, run>>
      BY <1>1 DEF vars
    <2>2. TypeOK' /\ RunOK' /\ Unchanged'
      BY <2>1 DEF CaptureOK, TypeOK, RunOK, Breaks, Unchanged
    <2> QED BY <2>1, <2>2, NothingRecorded DEF CaptureOK
  <1>2. CASE \/ \E r \in scene.urls : \E answer \in Answers[r] : Serve(r, answer)
             \/ \E r \in scene.browsed : Browse(r)
             \/ NewCapture
    BY <1>2, ServiceAndBrowserOK
  <1>3. CASE \E identities \in scene.identities, statuses \in scene.statuses :
                \/ \E name \in scene.names : ImportNamed(name, identities, statuses)
                \/ \E merge \in BOOLEAN : ImportKeyed(identities, statuses, merge)
    BY <1>3, ImportNamedOK, ImportKeyedOK
  <1>4. CASE \E request \in scene.urls, name \in scene.names \cup {None},
                identities \in scene.identities, templates \in scene.templates, merge \in BOOLEAN :
                RecordUrl(request, name, identities, templates, merge)
    BY <1>4, RecordUrlOK
  <1>5. CASE \E templates \in scene.templates : scene.verified /\ StartVerifyAll(templates)
    BY <1>5, VerifyStarts
  <1>6. CASE FetchNext
    BY <1>6, VerifyFetches
  <1>7. CASE Conclude
    BY <1>7, VerifyEnds
  <1> QED BY <1>1, <1>2, <1>3, <1>4, <1>5, <1>6, <1>7 DEF Next

LEMMA CaptureAlways == Spec => []CaptureOK
  BY InitOK, NextOK, PTL DEF Spec

-----------------------------------------------------------------------------
(* What follows.                                                           *)

(* For any list of identities the import accepts (src/har.rs:204), a body  *)
(* is in the entry of the most specific one its request is under.          *)
THEOREM IdentitiesAreMostSpecific == Spec => []MostSpecificIdentity
  <1>1. CaptureOK => MostSpecificIdentity
    BY DEF CaptureOK, OriginOK, Imported, MostSpecificIdentity
  <1> QED BY <1>1, CaptureAlways, PTL

(* Whatever is imported with --name (src/main.rs:241), in any number of    *)
(* commands, a named entry is of one endpoint.                             *)
THEOREM NamedEntriesAreCoherent == Spec => []NamedEntryIsCoherent
  <1>1. CaptureOK => NamedEntryIsCoherent
    BY DEF CaptureOK
  <1> QED BY <1>1, CaptureAlways, PTL

(* A body breaks the entry it was fetched for if it was not recorded there.*)
LEMMA BreaksUnlessRecorded ==
  ASSUME CaptureOK, run # None, NEW f \in run.fetched
  PROVE  Breaks(f) <=> ~WasRecorded(f)
  <1>1. f.name \in Names /\ disk # None /\ disk.observed[f.name] # None
    BY DEF CaptureOK, RunOK
  <1>2. disk.observed[f.name].samples = {o.body : o \in RecordedIn(f.name)}
    BY <1>1 DEF CaptureOK, EntriesOK, EntryOK, EntryAt
  <1> QED BY <1>2 DEF Breaks, WasRecorded, RecordedIn

(* The exit code of verify --all (src/main.rs:435) says of the fetched     *)
(* bodies what the recorded ones make true, whatever the service, the      *)
(* network and the commands before did.                                    *)
THEOREM VerdictsAreTrue == Spec => []VerdictIsTrue
  <1>1. CaptureOK => VerdictIsTrue
    <2> SUFFICES ASSUME CaptureOK, Ended
                 PROVE  run.exit = IF run.fetched = {} THEN "error"
                                   ELSE IF \A f \in run.fetched : WasRecorded(f) THEN "clean" ELSE "breaking"
      BY DEF VerdictIsTrue
    <2>1. run # None /\ run.exit # None
      BY DEF Ended
    <2>2. run.exit = IF run.fetched = {} THEN "error"
                     ELSE IF \E f \in run.fetched : Breaks(f) THEN "breaking" ELSE "clean"
      BY <2>1 DEF CaptureOK, RunOK
    <2>3. (\E f \in run.fetched : Breaks(f)) <=> ~(\A f \in run.fetched : WasRecorded(f))
      BY <2>1, BreaksUnlessRecorded
    <2> QED BY <2>2, <2>3
  <1> QED BY <1>1, CaptureAlways, PTL

(* What verify --all asks for an endpoint's name is the endpoint's own     *)
(* request: without a query or a content, to the base URL, with the        *)
(* headers of the command.                                                 *)
LEMMA TargetOfOwnKey ==
  ASSUME NEW r \in DOMAIN Answers, OwnKey(r) \in DOMAIN Keyed,
         r.query = "", r.content = "", r.host = Base
  PROVE  Target(Keyed[OwnKey(r)], r.headers) = r
  <1>1. r = [method |-> r.method, path |-> r.path, query |-> r.query,
             host |-> r.host, content |-> r.content, headers |-> r.headers]
    BY CaptureAssumption DEF Request
  <1>2. Asked[Keyed[OwnKey(r)]] = [method |-> r.method, path |-> r.path, query |-> ""]
    BY AskedAssumption DEF OwnKey
  <1>3. Target(Keyed[OwnKey(r)], r.headers) =
          [method |-> r.method, path |-> r.path, query |-> "",
           host |-> Base, content |-> "", headers |-> r.headers]
    <2> DEFINE asked == Asked[Keyed[OwnKey(r)]]
    <2> DEFINE method == r.method
               path == r.path
    <2>0. asked = [method |-> method, path |-> path, query |-> ""]
      BY <1>2
    <2> HIDE DEF asked, method, path
    <2>1. asked.method = method /\ asked.path = path /\ asked.query = ""
      BY <2>0
    <2>2. Target(Keyed[OwnKey(r)], r.headers) =
            [method |-> asked.method, path |-> asked.path, query |-> asked.query,
             host |-> Base, content |-> "", headers |-> r.headers]
      BY DEF Target, asked
    <2> QED BY <2>1, <2>2 DEF method, path
  <1> QED BY <1>1, <1>3

(* As long as the service is what it was, however it answers by method,    *)
(* path, query, host, content and headers, verify --all reports a break    *)
(* only of an entry that holds the answer to another request than the one  *)
(* it makes of the name (src/main.rs:433).                                 *)
THEOREM NoFalseAlarm == Spec => []NoAlarmWithoutChange
  <1> DEFINE Other(o) ==
               \/ Keyed[OwnKey(o.request)] # o.name
               \/ o.request.query # "" \/ o.request.content # ""
               \/ o.request.host # Base \/ o.request.headers # run.headers
  <1>1. CaptureOK => NoAlarmWithoutChange
    <2> SUFFICES ASSUME CaptureOK, Ended, run.exit = "breaking", ~changed
                 PROVE  \E f \in run.fetched : \E o \in origin : o.name = f.name /\ Other(o)
      BY DEF NoAlarmWithoutChange
    <2>1. run # None /\ run.exit # None
      BY DEF Ended
    <2>2. PICK f \in run.fetched : Breaks(f)
      <3>1. run.exit = IF run.fetched = {} THEN "error"
                       ELSE IF \E f \in run.fetched : Breaks(f) THEN "breaking" ELSE "clean"
        BY <2>1 DEF CaptureOK, RunOK
      <3> QED BY <3>1
    <2>3. PICK o \in origin : o.name = f.name
      <3>1. f.name \in Names /\ disk # None /\ disk.observed[f.name] # None
        BY <2>1 DEF CaptureOK, RunOK
      <3>2. RecordedIn(f.name) # {}
        BY <3>1 DEF CaptureOK, EntriesOK, EntryOK, EntryAt
      <3> QED BY <3>2 DEF RecordedIn
    <2>4. ASSUME ~Other(o) PROVE FALSE
      <3>1. o.request \in DOMAIN Answers /\ OwnKey(o.request) \in DOMAIN Keyed
        BY DEF CaptureOK, OriginOK
      <3>2. Target(f.name, run.headers) = o.request
        BY <2>3, <2>4, <3>1, TargetOfOwnKey
      <3>3. o.body = service[o.request].text /\ f.body = service[Target(f.name, run.headers)].text
        BY <2>1 DEF CaptureOK, Unchanged
      <3>4. WasRecorded(f)
        BY <2>3, <3>2, <3>3 DEF WasRecorded
      <3> QED BY <2>1, <2>2, <3>4, BreaksUnlessRecorded
    <2> QED BY <2>3, <2>4
  <1> QED BY <1>1, CaptureAlways, PTL

=============================================================================
