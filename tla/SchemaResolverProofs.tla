------------------------ MODULE SchemaResolverProofs -------------------------
(***************************************************************************)
(* Theorems about SchemaResolver, for every document, set of files and     *)
(* budget.                                                                 *)
(***************************************************************************)
EXTENDS SchemaExpansion, SequenceTheorems, NaturalFacts

-----------------------------------------------------------------------------
(* Sequences of values that no set is named for.                           *)

IsSequence(s) == s \in Seq({s[i] : i \in DOMAIN s})

(* Any set will do.                                                        *)
LEMMA SequenceOfAny ==
    ASSUME NEW S, NEW s \in Seq(S)
    PROVE  IsSequence(s)
<1>1. s = [i \in 1..Len(s) |-> s[i]] /\ Len(s) \in Nat /\ DOMAIN s = 1..Len(s)
    OBVIOUS
<1>2. s \in [1..Len(s) -> {s[i] : i \in DOMAIN s}]
    BY <1>1
<1> QED BY <1>1, <1>2, SeqDef DEF IsSequence

(* Append keeps what is there.                                             *)
LEMMA Pushed ==
    ASSUME NEW s, IsSequence(s), NEW x
    PROVE  /\ IsSequence(Append(s, x))
           /\ Len(s) \in Nat
           /\ Len(Append(s, x)) = Len(s) + 1
           /\ \A i \in 1..Len(s) : Append(s, x)[i] = s[i]
           /\ Append(s, x)[Len(s) + 1] = x
<1> DEFINE S == {s[i] : i \in DOMAIN s} \cup {x}
<1>1. s \in Seq(S) /\ x \in S
    BY SeqDef DEF IsSequence
<1>2. Append(s, x) \in Seq(S) /\ Len(s) \in Nat
    BY <1>1
<1> HIDE DEF S
<1>3. IsSequence(Append(s, x))
    BY <1>2, SequenceOfAny
<1> QED BY <1>1, <1>2, <1>3

(* So does a prefix.                                                       *)
LEMMA Popped ==
    ASSUME NEW s, IsSequence(s), NEW n \in 0..Len(s)
    PROVE  /\ IsSequence(SubSeq(s, 1, n))
           /\ Len(s) \in Nat
           /\ Len(SubSeq(s, 1, n)) = n
           /\ \A i \in 1..n : SubSeq(s, 1, n)[i] = s[i]
<1> DEFINE S == {s[i] : i \in DOMAIN s}
<1>1. s \in Seq(S)
    BY DEF IsSequence
<1> HIDE DEF S
<1>2. SubSeq(s, 1, n) \in Seq(S) /\ Len(s) \in Nat /\ n \in Nat
    BY <1>1, SubSeqProperties
<1>3. IsSequence(SubSeq(s, 1, n))
    BY <1>2, SequenceOfAny
<1> QED BY <1>1, <1>2, <1>3, SubSeqProperties

(* Replacing one element changes no other.                                 *)
LEMMA Replaced ==
    ASSUME NEW s, IsSequence(s), NEW n \in 1..Len(s), NEW x
    PROVE  /\ IsSequence(ReplaceAt(s, n, x))
           /\ Len(s) \in Nat
           /\ Len(ReplaceAt(s, n, x)) = Len(s)
           /\ \A i \in 1..Len(s) : ReplaceAt(s, n, x)[i] = IF i = n THEN x ELSE s[i]
<1> DEFINE S == {s[i] : i \in DOMAIN s} \cup {x}
<1>1. s \in Seq(S) /\ x \in S
    BY SeqDef DEF IsSequence
<1> HIDE DEF S
<1>2. ReplaceAt(s, n, x) \in Seq(S) /\ Len(s) \in Nat
    BY <1>1 DEF ReplaceAt
<1>3. IsSequence(ReplaceAt(s, n, x))
    BY <1>2, SequenceOfAny
<1> QED BY <1>1, <1>2, <1>3 DEF ReplaceAt

-----------------------------------------------------------------------------
(* The inductive invariant.                                                *)

(* A schema has finitely many paths.                                       *)
TreeOK(t) == DOMAIN t \subseteq Seq(Nat) /\ IsFiniteSet(DOMAIN t)

(* A call is a record with the fields of Call, and an alias has exactly    *)
(* one reference.                                                          *)
CallOK(c) ==
    /\ DOMAIN c = {"key", "file", "level", "alias", "refs", "next", "tree"}
    /\ c.key \in Ref /\ c.file \in Files /\ c.level \in Nat \ {0}
    /\ c.alias \in BOOLEAN /\ c.refs \in Seq(Ref)
    /\ c.next \in 1..Len(c.refs) + 1
    /\ c.alias => Len(c.refs) = 1
    /\ TreeOK(c.tree)

CacheOK(c) == DOMAIN c \subseteq Ref /\ \A k \in DOMAIN c : TreeOK(c[k])

(* Resolvers are numbered up the stack, from the document's own, and every *)
(* caller waits for the reference it has come to.                          *)
StackOK ==
    /\ IsSequence(stack)
    /\ \A i \in 1..Len(stack) : CallOK(stack[i])
    /\ stack # <<>> => stack[1].level = 1
    /\ \A i \in 1..Len(stack) - 1 :
          stack[i].level <= stack[i + 1].level /\ ~Done(stack[i])

(* There is a cache for each of them, and no more.                         *)
CachesOK ==
    /\ IsSequence(caches)
    /\ \A i \in 1..Len(caches) : CacheOK(caches[i])
    /\ Len(caches) = IF stack = <<>> THEN 1 ELSE Top.level

(* Every call below the root is for its component, under its bare name or  *)
(* under its file and name.                                                *)
KeysOK ==
    /\ KeysDistinct
    /\ \A i \in 2..Len(stack) : stack[i].key.file \in {Here, stack[i].file}

ScalarsOK ==
    /\ doc \in Documents
    /\ phase \in {"scan", "operations", "failed"}
    /\ todo \subseteq Names
    /\ count \in Nat
    /\ phase = "failed" => stack = <<>>

Inv == ScalarsOK /\ StackOK /\ CachesOK /\ KeysOK /\ WithinBudget

-----------------------------------------------------------------------------
(* The data operations.                                                    *)

(* Going one place further down, and starting one place further up.        *)
LEMMA PathDown ==
    ASSUME NEW q \in Seq(Nat), NEW i \in Nat
    PROVE  /\ Append(q, i) \in Seq(Nat) /\ Append(q, i) # <<>>
           /\ q = <<>> => Append(q, i)[1] = i
           /\ q # <<>> => Append(q, i)[1] = q[1]
OBVIOUS

LEMMA PathUp ==
    ASSUME NEW q \in Seq(Nat), NEW k \in Nat
    PROVE  /\ <<k>> \o q \in Seq(Nat) /\ <<k>> \o q # <<>>
           /\ (<<k>> \o q)[1] = k
           /\ Tail(<<k>> \o q) = q
           /\ \A i \in Nat : Append(<<k>> \o q, i) = <<k>> \o Append(q, i)
           /\ <<k>> \o <<>> = Append(<<>>, k)
<1> DEFINE s == <<k>> \o q
<1>1. <<k>> \in Seq(Nat) /\ Len(<<k>>) = 1 /\ <<k>>[1] = k /\ Len(q) \in Nat
    OBVIOUS
<1>2. /\ s \in Seq(Nat) /\ Len(s) = 1 + Len(q)
      /\ \A i \in 1..1 + Len(q) : s[i] = IF i <= 1 THEN <<k>>[i] ELSE q[i - 1]
    BY <1>1, ConcatProperties
<1> HIDE DEF s
<1>3. s # <<>> /\ s[1] = k
    BY <1>1, <1>2
<1>4. Tail(s) = q
    <2>1. /\ Tail(s) \in Seq(Nat) /\ Len(Tail(s)) = Len(q)
          /\ \A i \in 1..Len(Tail(s)) : Tail(s)[i] = s[i + 1]
        BY <1>1, <1>2, <1>3, HeadTailProperties
    <2>2. \A i \in 1..Len(q) : Tail(s)[i] = q[i]
        BY <1>1, <1>2, <2>1
    <2> QED BY <2>1, <2>2, SeqEqual
<1>5. ASSUME NEW i \in Nat PROVE Append(s, i) = <<k>> \o Append(q, i)
    <2>1. <<i>> \in Seq(Nat) /\ Append(s, i) = s \o <<i>> /\ Append(q, i) = q \o <<i>>
        BY <1>2
    <2> QED BY <1>1, <2>1, ConcatAssociative DEF s
<1>6. <<k>> \o <<>> = Append(<<>>, k)
    BY <1>1, ConcatEmptySeq
<1> QED BY <1>2, <1>3, <1>4, <1>5, <1>6 DEF s

(* What a grafted schema consists of.                                      *)
Grafted(t, k, kid, g) ==
    /\ TreeOK(g)
    /\ \A p \in DOMAIN t : p \in DOMAIN g /\ g[p] = t[p]
    /\ \A q \in DOMAIN kid :
          /\ <<k>> \o q \in DOMAIN g
          /\ <<k>> \o q \notin DOMAIN t => g[<<k>> \o q] = kid[q]
    /\ \A p \in DOMAIN g :
          p \in DOMAIN t \/ \E q \in DOMAIN kid : p = <<k>> \o q

LEMMA GraftShape ==
    ASSUME NEW t, TreeOK(t), NEW kid, TreeOK(kid), NEW k \in Nat,
           NEW g, g = Graft(t, k, kid)
    PROVE  Grafted(t, k, kid, g)
<1> DEFINE moved == {<<k>> \o q : q \in DOMAIN kid}
<1>1. DOMAIN g = DOMAIN t \cup moved
    BY DEF Graft
<1>2. \A p \in DOMAIN g : g[p] = IF p \in DOMAIN t THEN t[p] ELSE kid[Tail(p)]
    BY DEF Graft
<1>3. IsFiniteSet(moved)
    <2> DEFINE f == [q \in DOMAIN kid |-> <<k>> \o q]
    <2>1. f \in Surjection(DOMAIN kid, moved)
        BY DEF Surjection
    <2> HIDE DEF f, moved
    <2> QED BY <2>1, FS_Surjection DEF TreeOK
<1>4. \A q \in DOMAIN kid : Tail(<<k>> \o q) = q /\ <<k>> \o q \in Seq(Nat)
    BY PathUp DEF TreeOK
<1>5. TreeOK(g)
    <2>1. moved \subseteq Seq(Nat)
        BY <1>4
    <2> HIDE DEF moved
    <2> QED BY <1>1, <1>3, <2>1, FS_Union DEF TreeOK
<1> QED BY <1>1, <1>2, <1>4, <1>5 DEF Grafted

LEMMA LeafOK ==
    ASSUME NEW kind, NEW at
    PROVE  /\ TreeOK(Leaf(kind, at)) /\ DOMAIN Leaf(kind, at) = {<<>>}
           /\ Leaf(kind, at)[<<>>] = [kind |-> kind, at |-> at]
<1>1. DOMAIN Leaf(kind, at) = {<<>>} /\ <<>> \in Seq(Nat)
    BY DEF Leaf
<1> QED BY <1>1, FS_Singleton DEF Leaf, TreeOK

LEMMA SizeOK == ASSUME NEW t, TreeOK(t) PROVE Size(t) \in Nat
BY FS_CardinalityType DEF TreeOK, Size

LEMMA ResolvedOK ==
    ASSUME NEW c, CallOK(c), ~Done(c), NEW tree, TreeOK(tree)
    PROVE  LET r == Resolved(c, tree) IN
           /\ CallOK(r)
           /\ r.key = c.key /\ r.file = c.file /\ r.level = c.level
           /\ r.alias = c.alias /\ r.refs = c.refs /\ r.next = c.next + 1
           /\ r.tree = IF c.alias THEN tree ELSE Graft(c.tree, c.next, tree)
<1> DEFINE r == Resolved(c, tree)
           grown == IF c.alias THEN tree ELSE Graft(c.tree, c.next, tree)
<1>1. /\ r.key = c.key /\ r.file = c.file /\ r.level = c.level /\ r.alias = c.alias
      /\ r.refs = c.refs /\ r.next = c.next + 1 /\ r.tree = grown
      /\ DOMAIN r = DOMAIN c
    BY DEF CallOK, Resolved
<1>2. c.next \in Nat /\ c.next + 1 \in 1..Len(c.refs) + 1
    BY DEF CallOK, Done
<1>3. TreeOK(grown)
    BY <1>2, GraftShape DEF CallOK, Grafted
<1> HIDE DEF r, grown
<1>4. CallOK(r)
    BY <1>1, <1>2, <1>3 DEF CallOK
<1> QED BY <1>1, <1>4 DEF r, grown

LEMMA NewCallOK ==
    ASSUME NEW key \in Ref, NEW file \in Files, NEW level \in Nat \ {0}, NEW body \in Body,
           body.alias => Len(body.refs) = 1
    PROVE  CallOK(Call(key, file, level, body))
<1>1. body.alias \in BOOLEAN /\ body.refs \in Seq(Ref) /\ Len(body.refs) \in Nat
    BY DEF Body
<1>2. 1 \in 1..Len(body.refs) + 1
    BY <1>1
<1>3. TreeOK(NoSchema)
    BY FS_EmptySet DEF NoSchema, TreeOK
<1> DEFINE tree == IF body.alias THEN NoSchema
                   ELSE Leaf("node", [file |-> file, name |-> key.name])
<1>4. TreeOK(tree)
    BY <1>3, LeafOK
<1> HIDE DEF tree
<1>5. Call(key, file, level, body) =
         [key |-> key, file |-> file, level |-> level, alias |-> body.alias,
          refs |-> body.refs, next |-> 1, tree |-> tree]
    BY DEF Call, tree
<1> QED BY <1>1, <1>2, <1>4, <1>5 DEF CallOK

LEMMA RootCallOK ==
    ASSUME NEW ref \in Ref
    PROVE  CallOK(RootCall(ref)) /\ RootCall(ref).level = 1
<1> DEFINE body == [alias |-> TRUE, refs |-> <<ref>>]
<1>1. body \in Body /\ Len(body.refs) = 1
    BY DEF Body
<1> HIDE DEF body
<1>2. CallOK(Call(ref, Main, 1, body))
    BY <1>1, NewCallOK, ResolverAssumption
<1>3. Call(ref, Main, 1, body).level = 1
    BY DEF Call
<1> QED BY <1>2, <1>3 DEF RootCall, body

LEMMA StoreOK ==
    ASSUME NEW c, CacheOK(c), NEW key \in Ref, NEW tree, TreeOK(tree)
    PROVE  CacheOK(Store(c, key, tree))
BY DEF CacheOK, Store

LEMMA ThresholdWithinBudget == PreScanThreshold \in Nat /\ PreScanThreshold <= Budget
BY ResolverAssumption DEF PreScanThreshold

-----------------------------------------------------------------------------
(* What the actions do to the stack and the caches.                        *)

LEMMA TopOK ==
    ASSUME Inv, stack # <<>>
    PROVE  /\ Len(stack) \in Nat \ {0}
           /\ CallOK(Top)
           /\ Top.level = Len(caches)
           /\ Len(caches) \in Nat \ {0}
           /\ CacheOK(Cache)
<1>1. Len(stack) \in Nat \ {0} /\ Len(caches) \in Nat
    <2>1. stack \in Seq({stack[i] : i \in DOMAIN stack}) /\ caches \in Seq({caches[i] : i \in DOMAIN caches})
        BY DEF Inv, StackOK, CachesOK, IsSequence
    <2> QED BY <2>1
<1>2. CallOK(Top) /\ Top.level = Len(caches)
    BY <1>1 DEF Inv, StackOK, CachesOK, Top, Last
<1>3. Len(caches) \in Nat \ {0}
    BY <1>1, <1>2 DEF CallOK
<1> QED BY <1>1, <1>2, <1>3 DEF Inv, CachesOK, Cache

(* The next reference is one.                                              *)
LEMMA NextRefOK ==
    ASSUME Inv, AtReference
    PROVE  NextRef \in Ref /\ NextFile \in Files
<1>1. stack # <<>> /\ ~Done(Top)
    BY DEF AtReference
<1>2. CallOK(Top)
    BY <1>1, TopOK
<1>3. Top.next \in 1..Len(Top.refs) /\ Top.refs \in Seq(Ref) /\ Top.file \in Files
    BY <1>1, <1>2 DEF CallOK, Done
<1>4. NextRef \in Ref
    BY <1>3, ElementOfSeq DEF NextRef
<1> QED BY <1>3, <1>4 DEF NextFile, FileOf, Ref

(* The call at m has got a schema, and is the top now.                     *)
Grown(m, tree) ==
    /\ IsSequence(stack')
    /\ Len(stack') = m
    /\ \A i \in 1..m : stack'[i] = IF i = m THEN Resolved(stack[m], tree) ELSE stack[i]

(* Such a stack is as good as before.                                      *)
LEMMA GrownOK ==
    ASSUME Inv, NEW m \in 1..Len(stack), ~Done(stack[m]), NEW tree, TreeOK(tree), Grown(m, tree)
    PROVE  /\ StackOK' /\ KeysOK'
           /\ stack' # <<>> /\ Top' = Resolved(stack[m], tree) /\ Top'.level = stack[m].level
<1> DEFINE x == Resolved(stack[m], tree)
<1>1. m \in Nat \ {0} /\ Len(stack) \in Nat /\ CallOK(stack[m])
    BY Pushed DEF Inv, StackOK
<1>2. CallOK(x) /\ x.key = stack[m].key /\ x.file = stack[m].file /\ x.level = stack[m].level
    BY <1>1, ResolvedOK
<1>3. /\ IsSequence(stack')
      /\ Len(stack') = m
      /\ \A i \in 1..m : stack'[i] = IF i = m THEN x ELSE stack[i]
    BY DEF Grown
<1> HIDE DEF x
<1>4. \A i \in 1..m : /\ i \in 1..Len(stack)
                      /\ CallOK(stack'[i])
                      /\ stack'[i].key = stack[i].key
                      /\ stack'[i].file = stack[i].file
                      /\ stack'[i].level = stack[i].level
    BY <1>1, <1>2, <1>3 DEF Inv, StackOK
<1>5. stack' # <<>> /\ Top' = x
    <2>1. m # 0 /\ Len(<<>>) = 0 /\ m \in 1..m
        BY <1>1
    <2>2. stack' # <<>>
        BY <1>3, <2>1
    <2> QED BY <1>3, <2>1, <2>2 DEF Top, Last
<1>6. stack'[1].level = 1
    <2>1. stack # <<>> /\ 1 \in 1..m
        <3>1. Len(<<>>) = 0
            OBVIOUS
        <3> QED BY <1>1, <3>1
    <2> QED BY <1>4, <2>1 DEF Inv, StackOK
<1>7. \A i \in 1..Len(stack') - 1 :
         stack'[i].level <= stack'[i + 1].level /\ ~Done(stack'[i])
    <2> TAKE i \in 1..Len(stack') - 1
    <2>1. i \in 1..m /\ i + 1 \in 1..m /\ i # m /\ i \in 1..Len(stack) - 1
        BY <1>1, <1>3
    <2> QED BY <1>3, <1>4, <2>1 DEF Inv, StackOK
<1>8. StackOK'
    BY <1>3, <1>4, <1>6, <1>7 DEF StackOK, CallOK
<1>9. KeysOK'
    BY <1>1, <1>3, <1>4 DEF Inv, KeysOK, KeysDistinct
<1> QED BY <1>2, <1>5, <1>8, <1>9 DEF x

(* Taking a schema.                                                        *)
LEMMA TakeGrows ==
    ASSUME Inv, AtReference, NEW tree, Take(tree)
    PROVE  /\ Len(stack) \in Nat \ {0} /\ Len(stack) \in 1..Len(stack)
           /\ stack[Len(stack)] = Top /\ ~Done(Top)
           /\ Grown(Len(stack), tree)
<1> DEFINE n == Len(stack)
<1>1. stack # <<>> /\ ~Done(Top)
    BY DEF AtReference
<1>2. n \in Nat \ {0} /\ n \in 1..n /\ stack[n] = Top
    BY <1>1, TopOK DEF Top, Last
<1>3. IsSequence(stack) /\ stack' = ReplaceAt(stack, n, Resolved(Top, tree))
    BY DEF Inv, StackOK, Take
<1>4. Grown(n, tree)
    <2> HIDE DEF n
    <2>1. n \in 1..Len(stack) /\ Len(stack) = n
        BY <1>2 DEF n
    <2> QED BY <1>2, <1>3, <2>1, Replaced DEF Grown
<1> QED BY <1>1, <1>2, <1>4

LEMMA TakeOK ==
    ASSUME Inv, AtReference, NEW tree, TreeOK(tree), Take(tree), UNCHANGED caches
    PROVE  StackOK' /\ CachesOK' /\ KeysOK'
<1> DEFINE n == Len(stack)
<1>1. n \in 1..Len(stack) /\ stack[n] = Top /\ ~Done(stack[n]) /\ Grown(n, tree)
    BY TakeGrows
<1> HIDE DEF n
<1>2. StackOK' /\ KeysOK' /\ stack' # <<>> /\ Top'.level = Top.level
    BY <1>1, GrownOK
<1>3. stack # <<>>
    BY DEF AtReference
<1> QED BY <1>2, <1>3 DEF Inv, CachesOK, CacheOK

(* An empty stack.                                                         *)
LEMMA EmptyStackOK ==
    ASSUME stack' = <<>>, IsSequence(caches'), Len(caches') = 1, CacheOK(caches[1])'
    PROVE  StackOK' /\ CachesOK' /\ KeysOK'
<1>1. IsSequence(<<>>) /\ Len(<<>>) = 0
    BY SequenceOfAny, <<>> \in Seq(Ref)
<1>2. StackOK'
    BY <1>1 DEF StackOK
<1>3. CachesOK'
    BY DEF CachesOK, CacheOK
<1>4. KeysOK'
    BY <1>1 DEF KeysOK, KeysDistinct
<1> QED BY <1>2, <1>3, <1>4

LEMMA AbortOK ==
    ASSUME Inv, stack # <<>>, NEW total \in Nat, Abort(total)
    PROVE  Inv'
<1>1. CacheOK(caches[1])
    BY TopOK DEF Inv, CachesOK
<1>2. caches' = <<caches[1]>> /\ stack' = <<>>
    BY DEF Abort
<1>3. IsSequence(caches') /\ Len(caches') = 1 /\ caches'[1] = caches[1]
    BY <1>2, SequenceOfAny, <<caches[1]>> \in Seq({caches[1]})
<1>4. StackOK' /\ CachesOK' /\ KeysOK'
    BY <1>1, <1>2, <1>3, EmptyStackOK DEF CacheOK
<1>5. ScalarsOK'
    BY <1>2 DEF Abort, Inv, ScalarsOK
<1>6. WithinBudget'
    BY ThresholdWithinBudget, ResolverAssumption DEF Abort, WithinBudget
<1> QED BY <1>4, <1>5, <1>6 DEF Inv

(* The root of a resolution.                                               *)
LEMMA RootOK ==
    ASSUME Inv, stack = <<>>, NEW ref \in Ref, stack' = <<RootCall(ref)>>, UNCHANGED caches
    PROVE  StackOK' /\ CachesOK' /\ KeysOK'
<1> DEFINE x == RootCall(ref)
<1>1. CallOK(x) /\ x.level = 1
    BY RootCallOK
<1> HIDE DEF x
<1>2. stack' = <<x>> /\ Len(stack') = 1 /\ stack'[1] = x
    BY DEF x
<1>3. IsSequence(stack')
    BY <1>2, SequenceOfAny, <<x>> \in Seq({x})
<1>4. StackOK'
    <2>1. /\ \A i \in 1..Len(stack') : CallOK(stack'[i])
          /\ stack'[1].level = 1
          /\ \A i \in 1..Len(stack') - 1 :
                stack'[i].level <= stack'[i + 1].level /\ ~Done(stack'[i])
        BY <1>1, <1>2
    <2> QED BY <1>3, <2>1 DEF StackOK, CallOK
<1>5. CachesOK'
    BY <1>1, <1>2 DEF Inv, CachesOK, CacheOK, Top, Last
<1>6. KeysOK'
    BY <1>2 DEF KeysOK, KeysDistinct
<1> QED BY <1>4, <1>5, <1>6

(* A new call, and a cache for it.                                         *)
PushedCall(body) ==
    Call(NextRef, NextFile, IF NextRef.file = Here THEN Top.level ELSE Top.level + 1, body)

LEMMA PushGrows ==
    ASSUME Inv, AtReference, NEW body \in Body,
           body.alias => Len(body.refs) = 1, Push(body)
    PROVE  LET n == Len(stack)
               x == PushedCall(body) IN
           /\ stack # <<>> /\ n \in Nat \ {0}
           /\ CallOK(x) /\ x.key = NextRef /\ x.file = NextFile
           /\ x.level = IF NextRef.file = Here THEN Top.level ELSE Top.level + 1
           /\ x.alias = body.alias /\ x.refs = body.refs /\ x.next = 1
           /\ x.tree = IF body.alias THEN NoSchema
                       ELSE Leaf("node", [file |-> NextFile, name |-> NextRef.name])
           /\ IsSequence(stack') /\ Len(stack') = n + 1
           /\ \A i \in 1..n : stack'[i] = stack[i]
           /\ stack'[n + 1] = x
           /\ IsSequence(caches') /\ Len(caches') = x.level
           /\ \A l \in 1..Len(caches') :
                 caches'[l] = IF l \in 1..Len(caches) THEN caches[l] ELSE Cache
<1> DEFINE n == Len(stack)
           level == IF NextRef.file = Here THEN Top.level ELSE Top.level + 1
           x == Call(NextRef, NextFile, level, body)
<1>1. stack # <<>>
    BY DEF AtReference
<1>2. n \in Nat \ {0} /\ CallOK(Top) /\ Top.level = Len(caches) /\ Len(caches) \in Nat \ {0}
    BY <1>1, TopOK
<1>3. level \in Nat \ {0}
    BY <1>2
<1>4. NextRef \in Ref /\ NextFile \in Files
    BY NextRefOK
<1>5. stack' = Append(stack, x)
    BY DEF Push
<1>6. /\ CallOK(x) /\ x.key = NextRef /\ x.file = NextFile /\ x.level = level
      /\ x.alias = body.alias /\ x.refs = body.refs /\ x.next = 1
      /\ x.tree = IF body.alias THEN NoSchema
                  ELSE Leaf("node", [file |-> NextFile, name |-> NextRef.name])
    <2> HIDE DEF level
    <2>1. CallOK(x)
        BY <1>3, <1>4, NewCallOK
    <2> QED BY <2>1 DEF Call
<1>7. /\ IsSequence(caches') /\ Len(caches') = level
      /\ \A l \in 1..Len(caches') :
            caches'[l] = IF l \in 1..Len(caches) THEN caches[l] ELSE Cache
    <2>1. CASE NextRef.file = Here
        BY <1>2, <2>1 DEF Push, Inv, CachesOK
    <2>2. CASE NextRef.file # Here
        <3>1. caches' = Append(caches, Cache) /\ level = Len(caches) + 1
            BY <1>2, <2>2 DEF Push
        <3> QED BY <1>2, <3>1, Pushed DEF Inv, CachesOK
    <2> QED BY <2>1, <2>2
<1>8. x = PushedCall(body)
    BY DEF PushedCall
<1> HIDE DEF x
<1>9. /\ IsSequence(stack') /\ Len(stack') = n + 1
      /\ \A i \in 1..n : stack'[i] = stack[i]
      /\ stack'[n + 1] = x
    BY <1>5, Pushed DEF Inv, StackOK
<1> QED BY <1>1, <1>2, <1>6, <1>7, <1>8, <1>9

(* Its component is not being resolved, and its resolver is the last one.  *)
LEMMA PushOK ==
    ASSUME Inv, AtReference, Fresh, NEW body \in Body,
           body.alias => Len(body.refs) = 1, Push(body)
    PROVE  StackOK' /\ CachesOK' /\ KeysOK'
<1> DEFINE n == Len(stack)
           x == PushedCall(body)
<1>1. /\ stack # <<>> /\ n \in Nat \ {0}
      /\ CallOK(x) /\ x.key = NextRef /\ x.file = NextFile
      /\ x.level = IF NextRef.file = Here THEN Top.level ELSE Top.level + 1
      /\ IsSequence(stack') /\ Len(stack') = n + 1
      /\ \A i \in 1..n : stack'[i] = stack[i]
      /\ stack'[n + 1] = x
      /\ IsSequence(caches') /\ Len(caches') = x.level
      /\ \A l \in 1..Len(caches') :
            caches'[l] = IF l \in 1..Len(caches) THEN caches[l] ELSE Cache
    BY PushGrows
<1>2. CallOK(Top) /\ Top = stack[n] /\ CacheOK(Cache) /\ Top.level \in Nat
    BY <1>1, TopOK DEF Top, Last, CallOK
<1> HIDE DEF x
<1>3. StackOK'
    <2>1. \A i \in 1..Len(stack') : CallOK(stack'[i])
        <3> TAKE i \in 1..Len(stack')
        <3>1. CASE i \in 1..n
            BY <1>1, <3>1 DEF Inv, StackOK
        <3>2. CASE i = n + 1
            BY <1>1, <3>2
        <3> QED BY <1>1, <3>1, <3>2
    <2>2. stack'[1].level = 1
        BY <1>1 DEF Inv, StackOK
    <2>3. \A i \in 1..Len(stack') - 1 :
             stack'[i].level <= stack'[i + 1].level /\ ~Done(stack'[i])
        <3> TAKE i \in 1..Len(stack') - 1
        <3>1. CASE i \in 1..n - 1
            BY <1>1, <3>1 DEF Inv, StackOK
        <3>2. CASE i = n
            BY <1>1, <1>2, <3>2 DEF AtReference
        <3> QED BY <1>1, <3>1, <3>2
    <2> QED BY <1>1, <2>1, <2>2, <2>3 DEF StackOK, CallOK
<1>4. CachesOK'
    <2>1. stack' # <<>> /\ Top' = x
        BY <1>1 DEF Top, Last
    <2>2. \A l \in 1..Len(caches') : CacheOK(caches'[l])
        BY <1>1, <1>2 DEF Inv, CachesOK
    <2> QED BY <1>1, <2>1, <2>2 DEF CachesOK, CacheOK
<1>5. KeysOK'
    <2>1. \A i \in 2..n : stack[i].key # NextRef
        BY DEF Fresh, Visiting
    <2>6. \A i \in 2..n + 1 : stack'[i].key.file \in {Here, stack'[i].file}
        <3> TAKE i \in 2..n + 1
        <3>1. CASE i \in 2..n
            BY <1>1, <3>1 DEF Inv, KeysOK
        <3>2. CASE i = n + 1
            BY <1>1, <3>2 DEF NextFile, FileOf
        <3> QED BY <1>1, <3>1, <3>2
    <2>2. SUFFICES ASSUME NEW i \in 2..n + 1, NEW j \in 2..n + 1, i # j
                   PROVE  stack'[i].key # stack'[j].key
        BY <1>1, <2>6 DEF KeysOK, KeysDistinct
    <2>3. CASE i \in 2..n /\ j \in 2..n
        BY <1>1, <2>2, <2>3 DEF Inv, KeysOK, KeysDistinct
    <2>4. CASE i = n + 1 /\ j \in 2..n
        BY <1>1, <2>1, <2>4
    <2>5. CASE i \in 2..n /\ j = n + 1
        BY <1>1, <2>1, <2>5
    <2> QED BY <1>1, <2>2, <2>3, <2>4, <2>5
<1> QED BY <1>3, <1>4, <1>5

LEMMA OneBelow ==
    ASSUME NEW k \in Nat, k > 1
    PROVE  k - 1 \in Nat \ {0} /\ k - 1 \in 1..k /\ k - 1 \in 1..k - 1 /\ (k - 1) + 1 = k
OBVIOUS

(* Returning to the caller.                                                *)
LEMMA ReturnGrows ==
    ASSUME Inv, Return
    PROVE  LET n == Len(stack) - 1 IN
           /\ stack # <<>> /\ Len(stack) \in Nat /\ n \in Nat \ {0} /\ n + 1 = Len(stack)
           /\ n \in 1..Len(stack) /\ stack[Len(stack)] = Top
           /\ Done(Top) /\ ~Done(stack[n]) /\ stack[n].level <= Top.level
           /\ Grown(n, Top.tree)
<1> DEFINE n == Len(stack) - 1
<1>1. stack # <<>> /\ Len(stack) > 1 /\ Done(Top)
    <2>1. Len(<<>>) = 0 /\ Len(stack) > 1
        BY DEF Return
    <2> QED BY <2>1 DEF Return
<1>2. Len(stack) \in Nat /\ n \in Nat \ {0} /\ n \in 1..Len(stack) /\ n + 1 = Len(stack)
    <2>1. Len(stack) \in Nat \ {0}
        BY <1>1, TopOK
    <2>2. Len(stack) \in Nat
        BY <2>1
    <2> QED BY <1>1, <2>2, OneBelow
<1>3. stack[Len(stack)] = Top /\ n \in 1..Len(stack) - 1
    BY <1>2 DEF Top, Last
<1>4. ~Done(stack[n]) /\ stack[n].level <= Top.level
    BY <1>2, <1>3 DEF Inv, StackOK
<1>5. /\ IsSequence(Front(stack)) /\ Len(Front(stack)) = n
      /\ \A i \in 1..n : Front(stack)[i] = stack[i]
    <2>1. IsSequence(stack) /\ n \in 0..Len(stack)
        BY <1>2 DEF Inv, StackOK
    <2> QED BY <2>1, Popped DEF Front
<1>6. stack' = ReplaceAt(Front(stack), n, Resolved(stack[n], Top.tree))
    BY DEF Return
<1>7. Grown(n, Top.tree)
    <2> DEFINE callers == Front(stack)
               x == Resolved(stack[n], Top.tree)
    <2>1. n \in 1..Len(callers) /\ IsSequence(callers) /\ stack' = ReplaceAt(callers, n, x)
        BY <1>2, <1>5, <1>6
    <2>2. \A i \in 1..n : callers[i] = stack[i]
        BY <1>5
    <2>3. Len(callers) = n
        BY <1>5
    <2> HIDE DEF n, callers, x
    <2>4. /\ IsSequence(stack') /\ Len(stack') = Len(callers)
          /\ \A i \in 1..Len(callers) : stack'[i] = IF i = n THEN x ELSE callers[i]
        BY <2>1, Replaced
    <2>5. /\ IsSequence(stack') /\ Len(stack') = n
          /\ \A i \in 1..n : stack'[i] = IF i = n THEN x ELSE stack[i]
        BY <2>2, <2>3, <2>4
    <2> QED BY <2>5 DEF Grown, x
<1> QED BY <1>1, <1>2, <1>3, <1>4, <1>7

(* The resolvers above the caller's are gone.                              *)
LEMMA ReturnOK ==
    ASSUME Inv, Return
    PROVE  StackOK' /\ CachesOK' /\ KeysOK'
<1> DEFINE n == Len(stack) - 1
           level == stack[n].level
           tree == Top.tree
           kept == SubSeq(caches, 1, level)
<1>1. /\ stack # <<>> /\ n \in Nat \ {0} /\ n \in 1..Len(stack) /\ Done(Top)
      /\ ~Done(stack[n]) /\ level <= Top.level /\ Grown(n, tree)
    BY ReturnGrows
<1>2. /\ CallOK(Top) /\ Top.level = Len(caches)
      /\ Len(caches) \in Nat \ {0} /\ TreeOK(tree) /\ Top.key \in Ref
    BY <1>1, TopOK DEF CallOK
<1>3. level \in Nat \ {0} /\ level <= Len(caches)
    BY <1>1, <1>2 DEF Inv, StackOK, CallOK
<1>4. StackOK' /\ KeysOK' /\ stack' # <<>> /\ Top'.level = level
    <2> HIDE DEF n, tree
    <2> QED BY <1>1, <1>2, GrownOK
<1>5. /\ IsSequence(kept) /\ Len(kept) = level
      /\ \A i \in 1..level : kept[i] = caches[i] /\ CacheOK(kept[i])
    <2>1. IsSequence(caches) /\ level \in 0..Len(caches)
        BY <1>2, <1>3 DEF Inv, CachesOK
    <2>2. /\ IsSequence(kept) /\ Len(kept) = level
          /\ \A i \in 1..level : kept[i] = caches[i]
        <3> HIDE DEF level
        <3> QED BY <2>1, Popped
    <2>3. \A i \in 1..level : i \in 1..Len(caches)
        BY <1>2, <1>3
    <2> QED BY <2>2, <2>3 DEF Inv, CachesOK
<1>6. /\ IsSequence(caches') /\ Len(caches') = level
      /\ \A i \in 1..level : CacheOK(caches'[i])
    <2> DEFINE stored == Store(kept[level], Top.key, tree)
    <2>1. CASE IsCycle(tree)
        BY <1>5, <2>1 DEF Return
    <2>2. CASE ~IsCycle(tree)
        <3>1. caches' = ReplaceAt(kept, level, stored)
            BY <2>2 DEF Return
        <3>2. CacheOK(kept[level])
            BY <1>3, <1>5
        <3> HIDE DEF tree, kept
        <3>3. CacheOK(stored)
            BY <1>2, <3>2, StoreOK
        <3> HIDE DEF stored
        <3>4. level \in 1..Len(kept)
            BY <1>3, <1>5
        <3>5. /\ IsSequence(caches') /\ Len(caches') = level
              /\ \A i \in 1..level : caches'[i] = IF i = level THEN stored ELSE kept[i]
            <4> HIDE DEF level
            <4> QED BY <1>5, <3>1, <3>4, Replaced
        <3> QED BY <1>5, <3>3, <3>5
    <2> QED BY <2>1, <2>2
<1> QED BY <1>4, <1>6 DEF CachesOK, CacheOK

-----------------------------------------------------------------------------
(* The invariant.                                                          *)

LEMMA InitInv == Init => Inv
<1> SUFFICES ASSUME Init PROVE Inv
    OBVIOUS
<1> DEFINE empty == [key \in {} |-> Cycle(key)]
<1>1. CacheOK(empty)
    BY DEF CacheOK
<1>2. caches = <<empty>> /\ stack = <<>>
    BY DEF Init
<1> HIDE DEF empty
<1>3. IsSequence(caches) /\ Len(caches) = 1 /\ caches[1] = empty
    BY <1>2, SequenceOfAny, <<empty>> \in Seq({empty})
<1>4. IsSequence(stack) /\ Len(stack) = 0
    BY <1>2, SequenceOfAny, <<>> \in Seq(Ref)
<1>5. ScalarsOK
    BY ResolverAssumption, DocumentAssumption DEF Init, ScalarsOK
<1>6. StackOK /\ KeysOK
    BY <1>2, <1>4 DEF StackOK, KeysOK, KeysDistinct
<1>7. CachesOK
    BY <1>1, <1>2, <1>3 DEF CachesOK
<1>8. WithinBudget
    BY ResolverAssumption DEF Init, WithinBudget
<1> QED BY <1>5, <1>6, <1>7, <1>8 DEF Inv

(* One step per action.                                                    *)
LEMMA NextInv == Inv /\ [Next]_vars => Inv'
<1> SUFFICES ASSUME Inv, [Next]_vars PROVE Inv'
    OBVIOUS
<1>1. ASSUME ScanNext PROVE Inv'
    <2>1. PICK n \in todo : stack' = <<RootCall([file |-> Here, name |-> n])>> /\ todo' = todo \ {n}
        BY <1>1 DEF ScanNext
    <2>2. [file |-> Here, name |-> n] \in Ref
        BY <2>1 DEF Inv, ScalarsOK, Ref
    <2>3. StackOK' /\ CachesOK' /\ KeysOK'
        <3> DEFINE ref == [file |-> Here, name |-> n]
        <3>1. stack' = <<RootCall(ref)>> /\ ref \in Ref /\ stack = <<>> /\ UNCHANGED caches
            BY <1>1, <2>1, <2>2 DEF ScanNext
        <3> HIDE DEF ref
        <3> QED BY <3>1, RootOK
    <2>4. ScalarsOK' /\ WithinBudget'
        BY <1>1, <2>1 DEF ScanNext, Inv, ScalarsOK, WithinBudget
    <2> QED BY <2>3, <2>4 DEF Inv
<1>2. ASSUME ScanEnd PROVE Inv'
    <2>1. UNCHANGED <<stack, caches>>
        BY <1>2 DEF ScanEnd
    <2>2. StackOK' /\ CachesOK' /\ KeysOK'
        BY <2>1 DEF Inv, StackOK, CachesOK, CacheOK, CallOK, KeysOK, KeysDistinct, Top
    <2>3. ScalarsOK' /\ WithinBudget'
        BY <1>2 DEF ScanEnd, Inv, ScalarsOK, WithinBudget
    <2> QED BY <2>2, <2>3 DEF Inv
<1>3. ASSUME NEW ref \in Ref, OperationSchema(ref) PROVE Inv'
    <2>1. StackOK' /\ CachesOK' /\ KeysOK'
        BY <1>3, RootOK DEF OperationSchema
    <2>2. ScalarsOK' /\ WithinBudget'
        BY <1>3 DEF OperationSchema, Inv, ScalarsOK, WithinBudget
    <2> QED BY <2>1, <2>2 DEF Inv
<1>4. ASSUME CutCycle PROVE Inv'
    <2>1. TreeOK(Cycle(NextRef))
        BY LeafOK DEF Cycle
    <2>2. StackOK' /\ CachesOK' /\ KeysOK'
        BY <1>4, <2>1, TakeOK DEF CutCycle
    <2>3. ScalarsOK' /\ WithinBudget'
        BY <1>4 DEF CutCycle, AtReference, Inv, ScalarsOK, WithinBudget
    <2> QED BY <2>2, <2>3 DEF Inv
<1>5. ASSUME CacheHit PROVE Inv'
    <2> DEFINE total == count + Size(Cache[NextRef])
    <2>1. AtReference /\ stack # <<>> /\ NextRef \in DOMAIN Cache
        BY <1>5 DEF CacheHit, AtReference
    <2>2. TreeOK(Cache[NextRef]) /\ total \in Nat
        <3>1. TreeOK(Cache[NextRef])
            BY <2>1, TopOK DEF CacheOK
        <3> QED BY <3>1, SizeOK DEF Inv, ScalarsOK
    <2>3. CASE total > Budget
        <3>1. Abort(total)
            BY <1>5, <2>3 DEF CacheHit
        <3> HIDE DEF total
        <3> QED BY <2>1, <2>2, <3>1, AbortOK
    <2>4. CASE ~(total > Budget)
        <3>1. /\ count' = total /\ Take(Cache[NextRef])
              /\ UNCHANGED <<doc, phase, todo, caches, results>>
            BY <1>5, <2>4 DEF CacheHit
        <3>2. StackOK' /\ CachesOK' /\ KeysOK'
            BY <2>1, <2>2, <3>1, TakeOK
        <3>3. ScalarsOK' /\ WithinBudget'
            BY <2>1, <2>2, <2>4, <3>1, ResolverAssumption DEF Inv, ScalarsOK, WithinBudget
        <3> QED BY <3>2, <3>3 DEF Inv
    <2> QED BY <2>3, <2>4
<1>6. ASSUME Missing PROVE Inv'
    <2>1. stack # <<>> /\ Abort(count)
        BY <1>6 DEF Missing, AtReference
    <2>2. count \in Nat
        BY DEF Inv, ScalarsOK
    <2> QED BY <2>1, <2>2, AbortOK
<1>7. ASSUME Enter PROVE Inv'
    <2> DEFINE body == doc[NextFile][NextRef.name]
               total == IF body.alias THEN count ELSE count + 1
    <2>1. AtReference /\ stack # <<>> /\ Fresh /\ Defined
        BY <1>7 DEF Enter, AtReference
    <2>2. total \in Nat
        BY DEF Inv, ScalarsOK
    <2>3. body \in Body /\ (body.alias => Len(body.refs) = 1)
        BY <2>1, NextRefOK, DocumentAssumption DEF Defined, Inv, ScalarsOK
    <2>4. CASE total > Budget
        <3>1. Abort(total)
            BY <1>7, <2>4 DEF Enter
        <3> HIDE DEF total
        <3> QED BY <2>1, <2>2, <3>1, AbortOK
    <2>5. CASE ~(total > Budget)
        <3>1. count' = total /\ Push(body) /\ UNCHANGED <<doc, phase, todo, results>>
            BY <1>7, <2>5 DEF Enter
        <3>2. StackOK' /\ CachesOK' /\ KeysOK'
            <4> HIDE DEF body
            <4> QED BY <2>1, <2>3, <3>1, PushOK
        <3>3. ScalarsOK' /\ WithinBudget'
            <4> HIDE DEF total
            <4> QED BY <2>1, <2>2, <2>5, <3>1, ResolverAssumption DEF Inv, ScalarsOK, WithinBudget
        <3> QED BY <3>2, <3>3 DEF Inv
    <2> QED BY <2>4, <2>5
<1>8. ASSUME Return PROVE Inv'
    <2>1. StackOK' /\ CachesOK' /\ KeysOK'
        BY <1>8, ReturnOK
    <2>2. UNCHANGED <<doc, phase, todo, count, results>>
        BY <1>8 DEF Return
    <2>3. stack # <<>>
        <3>1. Len(<<>>) = 0 /\ Len(stack) > 1
            BY <1>8 DEF Return
        <3> QED BY <3>1
    <2>4. ScalarsOK' /\ WithinBudget'
        BY <2>2, <2>3 DEF Inv, ScalarsOK, WithinBudget
    <2> QED BY <2>1, <2>4 DEF Inv
<1>9. ASSUME RootReturn PROVE Inv'
    <2>1. Len(stack) = 1 /\ stack # <<>>
        <3>1. Len(stack) = 1 /\ Len(<<>>) = 0
            BY <1>9 DEF RootReturn
        <3> QED BY <3>1
    <2>2. Len(caches) = 1 /\ CacheOK(caches[1])
        <3>1. Top = stack[1]
            BY <2>1 DEF Top, Last
        <3> QED BY <2>1, <3>1 DEF Inv, StackOK, CachesOK
    <2>3. stack' = <<>> /\ UNCHANGED <<doc, phase, todo, caches, count>>
        BY <1>9 DEF RootReturn
    <2>4. StackOK' /\ CachesOK' /\ KeysOK'
        BY <2>2, <2>3, EmptyStackOK DEF Inv, CachesOK, CacheOK
    <2>5. ScalarsOK' /\ WithinBudget'
        BY <2>3 DEF Inv, ScalarsOK, WithinBudget
    <2> QED BY <2>4, <2>5 DEF Inv
<1>10. ASSUME UNCHANGED vars PROVE Inv'
    <2>1. UNCHANGED <<stack, caches>> /\ UNCHANGED <<doc, phase, todo, count>>
        BY <1>10 DEF vars
    <2>2. StackOK' /\ CachesOK' /\ KeysOK'
        BY <2>1 DEF Inv, StackOK, CachesOK, CacheOK, CallOK, KeysOK, KeysDistinct, Top
    <2>3. ScalarsOK' /\ WithinBudget'
        BY <2>1 DEF Inv, ScalarsOK, WithinBudget
    <2> QED BY <2>2, <2>3 DEF Inv
<1> QED BY <1>1, <1>2, <1>3, <1>4, <1>5, <1>6, <1>7, <1>8, <1>9, <1>10 DEF Next, Step

LEMMA InvAlways == Spec => []Inv
BY InitInv, NextInv, PTL DEF Spec

-----------------------------------------------------------------------------
(* The theorems.                                                           *)

(* SchemaResolver's types.                                                 *)
THEOREM TypeCorrect == Spec => []TypeOK
<1>1. Inv => TypeOK
    <2> SUFFICES ASSUME Inv PROVE TypeOK
        OBVIOUS
    <2>1. ScalarsOK /\ Len(caches) = IF stack = <<>> THEN 1 ELSE Top.level
        BY DEF Inv, CachesOK
    <2>2. \A i \in 1..Len(caches) : DOMAIN caches[i] \subseteq Ref
        BY DEF Inv, CachesOK, CacheOK
    <2>3. \A i \in 1..Len(stack) : CallOK(stack[i])
        BY DEF Inv, StackOK
    <2>4. \A i \in 1..Len(stack) :
             /\ stack[i].key \in Ref /\ stack[i].file \in Files /\ stack[i].refs \in Seq(Ref)
             /\ stack[i].next \in 1..Len(stack[i].refs) + 1
        BY <2>3 DEF CallOK
    <2> QED BY <2>1, <2>2, <2>4 DEF ScalarsOK, TypeOK
<1> QED BY <1>1, InvAlways, PTL

(* Whatever the document, no key is entered while it is in visiting, and   *)
(* no component a third time (src/openapi/mod.rs:1217, 1307), with the     *)
(* caches, the aliases and the resolvers of other files around it: a call  *)
(* is for its component under one of two keys.                             *)
THEOREM CallsAreDistinct == Spec => []CallsDistinct
<1>1. Inv => CallsDistinct
    <2> SUFFICES ASSUME Inv PROVE CallsDistinct
        OBVIOUS
    <2>1. KeysDistinct
        BY DEF Inv, KeysOK
    <2>2. \A i \in 2..Len(stack) : stack[i].key \in {[file |-> Here, name |-> stack[i].key.name],
                                                  [file |-> stack[i].file, name |-> stack[i].key.name]}
        <3> SUFFICES ASSUME NEW i \in 2..Len(stack)
                     PROVE  stack[i].key \in {[file |-> Here, name |-> stack[i].key.name],
                                             [file |-> stack[i].file, name |-> stack[i].key.name]}
            OBVIOUS
        <3>1. Len(stack) \in Nat
            BY Pushed DEF Inv, StackOK
        <3>2. stack[i].key \in Ref
            BY <3>1 DEF Inv, StackOK, CallOK
        <3>3. stack[i].key = [file |-> stack[i].key.file, name |-> stack[i].key.name]
            BY <3>2 DEF Ref
        <3> QED BY <3>3 DEF Inv, KeysOK
    <2>3. ASSUME NEW i \in 2..Len(stack), NEW j \in 2..Len(stack), NEW k \in 2..Len(stack),
                 i < j, j < k, Entered(i) = Entered(j), Entered(j) = Entered(k)
          PROVE  FALSE
        <3>1. i # j /\ j # k /\ i # k
            BY <2>3
        <3>2. /\ stack[i].key # stack[j].key
              /\ stack[j].key # stack[k].key
              /\ stack[i].key # stack[k].key
            BY <2>1, <3>1 DEF KeysDistinct
        <3>3. /\ stack[j].file = stack[i].file /\ stack[j].key.name = stack[i].key.name
              /\ stack[k].file = stack[i].file /\ stack[k].key.name = stack[i].key.name
            BY <2>3 DEF Entered
        <3> QED BY <2>2, <3>2, <3>3
    <2> QED BY <2>1, <2>3 DEF CallsDistinct
<1> QED BY <1>1, InvAlways, PTL

(* Whatever the document, what has been charged is within the budget       *)
(* (MAX_SCHEMA_EXPANSIONS, src/openapi/mod.rs:1059) unless loading failed, *)
(* although the pre-scan drops errors.                                     *)
THEOREM BudgetHolds == Spec => []WithinBudget
<1>1. Inv => WithinBudget
    BY DEF Inv
<1> QED BY <1>1, InvAlways, PTL

-----------------------------------------------------------------------------
(* The graph of the references in a document.                              *)

LEMMA BodyFacts ==
    ASSUME NEW d \in Documents, NEW c \in Components(d)
    PROVE  /\ c.file \in Files /\ c.name \in Names
           /\ c = [file |-> c.file, name |-> c.name]
           /\ BodyOf(d, c) \in Body
           /\ BodyOf(d, c).refs \in Seq(Ref)
           /\ BodyOf(d, c).alias => Len(BodyOf(d, c).refs) = 1
<1>1. c \in [file : Files, name : Names] /\ c.name \in DOMAIN d[c.file]
    BY DEF Components
<1>2. c.file \in Files /\ c.name \in Names /\ c = [file |-> c.file, name |-> c.name]
    BY <1>1
<1>3. BodyOf(d, c) \in Body /\ (BodyOf(d, c).alias => Len(BodyOf(d, c).refs) = 1)
    BY <1>1, <1>2, DocumentAssumption DEF BodyOf
<1> QED BY <1>2, <1>3 DEF Body

LEMMA FromSelf ==
    ASSUME NEW d, NEW edges, NEW c \in Components(d)
    PROVE  c \in From(d, edges, c)
BY DEF From

(* One edge more at the beginning.                                         *)
LEMMA FromStep ==
    ASSUME NEW d, NEW edges, NEW a, NEW b, <<a, b>> \in edges, NEW t \in From(d, edges, b)
    PROVE  t \in From(d, edges, a)
<1>1. t \in Components(d)
    BY DEF From
<1>2. ASSUME NEW cs \in SUBSET Components(d), a \in cs, Closed(cs, edges)
      PROVE  t \in cs
    <2>1. b \in cs
        BY <1>2 DEF Closed
    <2> QED BY <1>2, <2>1 DEF From
<1> QED BY <1>1, <1>2 DEF From

LEMMA FromWithin ==
    ASSUME NEW d, NEW edges, NEW c, NEW cs \in SUBSET Components(d), c \in cs, Closed(cs, edges)
    PROVE  From(d, edges, c) \subseteq cs
BY DEF From

LEMMA ReferenceEdge ==
    ASSUME NEW d, NEW c \in Components(d), NEW i \in DOMAIN BodyOf(d, c).refs,
           NEW t \in Components(d), t = Component(c.file, BodyOf(d, c).refs[i])
    PROVE  /\ <<c, t>> \in References(d)
           /\ BodyOf(d, c).alias => <<c, t>> \in AliasReferences(d)
BY DEF References, AliasReferences, RefersTo

(* What a reference stands for.                                            *)
LEMMA NodeStands ==
    ASSUME NEW d, NEW file, NEW ref, NEW c \in Components(d), c = Component(file, ref),
           ~BodyOf(d, c).alias
    PROVE  StandsFor(d, [kind |-> "node", at |-> c], file, ref)
<1>1. c \in Chain(d, c)
    BY FromSelf DEF Chain
<1> QED BY <1>1 DEF StandsFor

LEMMA CycleStands ==
    ASSUME NEW d, NEW file, NEW ref, NEW c \in Components(d), c = Component(file, ref),
           OnCycle(d, c)
    PROVE  StandsFor(d, [kind |-> "cycle", at |-> ref], file, ref)
BY DEF StandsFor

(* An alias stands for what its reference stands for.                      *)
LEMMA AliasStands ==
    ASSUME NEW d \in Documents, NEW file, NEW ref, NEW a \in Components(d), a = Component(file, ref),
           BodyOf(d, a).alias, NEW label,
           StandsFor(d, label, a.file, BodyOf(d, a).refs[1])
    PROVE  StandsFor(d, label, file, ref)
<1> DEFINE first == BodyOf(d, a).refs[1]
           b == Component(a.file, first)
<1>1. b \in Components(d)
    BY DEF StandsFor
<1>2. <<a, b>> \in AliasReferences(d)
    <2>1. 1 \in DOMAIN BodyOf(d, a).refs
        BY BodyFacts
    <2> QED BY <1>1, <2>1, ReferenceEdge
<1>3. a \in Chain(d, a) /\ \A t \in Chain(d, b) : t \in Chain(d, a)
    BY <1>2, FromSelf, FromStep DEF Chain
<1> HIDE DEF b
<1>4. CASE label.kind = "node"
    <2>1. label.at \in Chain(d, b) /\ ~BodyOf(d, label.at).alias
        BY <1>4 DEF StandsFor, b
    <2> QED BY <1>3, <1>4, <2>1 DEF StandsFor
<1>5. CASE label.kind = "cycle"
    <2>1. \/ label.at = first /\ OnCycle(d, b)
          \/ \E e \in Chain(d, b) : /\ BodyOf(d, e).alias
                                    /\ label.at = BodyOf(d, e).refs[1]
                                    /\ OnCycle(d, Component(e.file, label.at))
        BY <1>5 DEF StandsFor, b
    <2>2. \E e \in Chain(d, a) : /\ BodyOf(d, e).alias
                                 /\ label.at = BodyOf(d, e).refs[1]
                                 /\ OnCycle(d, Component(e.file, label.at))
        BY <1>3, <2>1 DEF b
    <2> QED BY <1>5, <2>2 DEF StandsFor
<1> QED BY <1>4, <1>5 DEF StandsFor

-----------------------------------------------------------------------------
(* Schemas and the graph.                                                  *)

(* t is a node for the component c with its first k references unfolded.   *)
Partial(d, t, c, k) ==
    /\ <<>> \in DOMAIN t
    /\ t[<<>>] = [kind |-> "node", at |-> c]
    /\ \A p \in DOMAIN t : p # <<>> => p[1] \in 1..k
    /\ \A p \in DOMAIN t : \A i \in DOMAIN Below(d, t[p]) :
          (p = <<>> => i <= k) =>
             /\ Append(p, i) \in DOMAIN t
             /\ StandsFor(d, t[Append(p, i)], t[p].at.file, Below(d, t[p])[i])
    /\ \A p \in DOMAIN t \ {<<>>} :
          \E q \in DOMAIN t : \E i \in DOMAIN Below(d, t[q]) : p = Append(q, i)

LEMMA LeafPartial ==
    ASSUME NEW d \in Documents, NEW c \in Components(d)
    PROVE  Partial(d, Leaf("node", c), c, 0)
<1> DEFINE t == Leaf("node", c)
<1>1. DOMAIN t = {<<>>} /\ t[<<>>] = [kind |-> "node", at |-> c]
    BY LeafOK
<1>2. \A i \in DOMAIN Below(d, t[<<>>]) : ~(i <= 0)
    <2>1. Below(d, t[<<>>]) \in Seq(Ref)
        BY <1>1, BodyFacts DEF Below
    <2> QED BY <2>1
<1> HIDE DEF t
<1>3. Partial(d, t, c, 0)
    BY <1>1, <1>2 DEF Partial
<1> QED BY <1>3 DEF t

(* One reference more.                                                     *)
LEMMA GraftPartial ==
    ASSUME NEW d \in Documents, NEW c \in Components(d), NEW k \in Nat,
           NEW t, TreeOK(t), Partial(d, t, c, k),
           NEW n \in DOMAIN BodyOf(d, c).refs, n = k + 1,
           NEW kid, TreeOK(kid), Unfolds(d, kid, c.file, BodyOf(d, c).refs[n]),
           NEW g, g = Graft(t, n, kid)
    PROVE  Partial(d, g, c, n)
<1> DEFINE up(q) == <<n>> \o q
<1>1. n \in Nat
    OBVIOUS
<1>2. /\ TreeOK(g)
      /\ \A p \in DOMAIN t : p \in DOMAIN g /\ g[p] = t[p]
      /\ \A q \in DOMAIN kid : up(q) \in DOMAIN g /\ (up(q) \notin DOMAIN t => g[up(q)] = kid[q])
      /\ \A p \in DOMAIN g : p \in DOMAIN t \/ \E q \in DOMAIN kid : p = up(q)
    <2>1. Grafted(t, n, kid, g)
        BY <1>1, GraftShape
    <2> QED BY <2>1 DEF Grafted
<1>3. \A q \in DOMAIN kid : /\ q \in Seq(Nat) /\ up(q) # <<>> /\ up(q)[1] = n
                            /\ \A i \in Nat : Append(up(q), i) = up(Append(q, i))
    BY <1>1, PathUp DEF TreeOK
<1>4. up(<<>>) = Append(<<>>, n)
    BY <1>1, PathUp, EmptySeq
<1>5. \A p \in DOMAIN t : p \in Seq(Nat)
    BY DEF TreeOK
<1>6. t[<<>>] = [kind |-> "node", at |-> c] /\ <<>> \in DOMAIN t
    BY DEF Partial
<1>7. \A q \in DOMAIN kid : g[up(q)] = kid[q]
    <2> TAKE q \in DOMAIN kid
    <2>1. up(q) \notin DOMAIN t
        <3> SUFFICES ASSUME up(q) \in DOMAIN t PROVE FALSE
            OBVIOUS
        <3>1. up(q)[1] \in 1..k
            BY <1>3 DEF Partial
        <3> QED BY <1>3, <3>1
    <2> QED BY <1>2, <2>1
<1>8. <<>> \in DOMAIN kid /\ StandsFor(d, kid[<<>>], c.file, BodyOf(d, c).refs[n])
    BY DEF Unfolds
<1> HIDE DEF up
<1>9. <<>> \in DOMAIN g /\ g[<<>>] = t[<<>>]
    BY <1>2, <1>6
<1>10. ASSUME NEW p \in DOMAIN g, p # <<>> PROVE p[1] \in 1..n
    <2>1. CASE p \in DOMAIN t
        BY <1>10, <2>1 DEF Partial
    <2>2. CASE \E q \in DOMAIN kid : p = up(q)
        BY <1>3, <2>2
    <2> QED BY <1>2, <2>1, <2>2
<1>11. ASSUME NEW p \in DOMAIN g, NEW i \in DOMAIN Below(d, g[p]), p = <<>> => i <= n
       PROVE  /\ Append(p, i) \in DOMAIN g
              /\ StandsFor(d, g[Append(p, i)], g[p].at.file, Below(d, g[p])[i])
    <2>1. CASE p = <<>> /\ i = n
        <3>1. Append(p, i) = up(<<>>)
            BY <1>4, <2>1
        <3>2. Below(d, g[p])[i] = BodyOf(d, c).refs[n] /\ g[p].at.file = c.file
            BY <1>6, <1>9, <2>1 DEF Below
        <3> QED BY <1>2, <1>7, <1>8, <3>1, <3>2
    <2>2. CASE p \in DOMAIN t /\ ~(p = <<>> /\ i = n)
        <3>1. g[p] = t[p] /\ i \in DOMAIN Below(d, t[p])
            BY <1>2, <2>2
        <3>2. p = <<>> => i <= k
            <4> SUFFICES ASSUME p = <<>> PROVE i <= k
                OBVIOUS
            <4>1. i <= n /\ i # n /\ i \in DOMAIN BodyOf(d, c).refs
                BY <1>6, <1>11, <2>2, <3>1 DEF Below
            <4>2. i \in Nat
                BY <4>1, BodyFacts
            <4> QED BY <4>1, <4>2
        <3>3. /\ Append(p, i) \in DOMAIN t
              /\ StandsFor(d, t[Append(p, i)], t[p].at.file, Below(d, t[p])[i])
            BY <2>2, <3>1, <3>2 DEF Partial
        <3> QED BY <1>2, <3>1, <3>3
    <2>3. CASE \E q \in DOMAIN kid : p = up(q)
        <3>1. PICK q \in DOMAIN kid : p = up(q)
            BY <2>3
        <3>2. g[p] = kid[q]
            BY <1>7, <3>1
        <3>3. /\ Append(q, i) \in DOMAIN kid
              /\ StandsFor(d, kid[Append(q, i)], kid[q].at.file, Below(d, kid[q])[i])
            BY <3>2 DEF Unfolds
        <3>4. i \in Nat
            <4>1. Append(q, i) \in Seq(Nat) /\ q \in Seq(Nat)
                BY <3>3 DEF TreeOK
            <4> QED BY <4>1
        <3>5. Append(p, i) = up(Append(q, i))
            BY <1>3, <3>1, <3>4
        <3> QED BY <1>2, <1>7, <3>2, <3>3, <3>5
    <2> QED BY <1>2, <2>1, <2>2, <2>3
<1>12. ASSUME NEW p \in DOMAIN g \ {<<>>}
       PROVE  \E q \in DOMAIN g : \E i \in DOMAIN Below(d, g[q]) : p = Append(q, i)
    <2>1. CASE p \in DOMAIN t
        <3>1. PICK q \in DOMAIN t : \E i \in DOMAIN Below(d, t[q]) : p = Append(q, i)
            BY <1>12, <2>1 DEF Partial
        <3> QED BY <1>2, <3>1
    <2>2. CASE \E q \in DOMAIN kid : p = up(q)
        <3>1. PICK q \in DOMAIN kid : p = up(q)
            BY <2>2
        <3>2. CASE q = <<>>
            <4>1. n \in DOMAIN Below(d, g[<<>>])
                BY <1>6, <1>9 DEF Below
            <4> QED BY <1>4, <1>9, <3>1, <3>2, <4>1
        <3>3. CASE q # <<>>
            <4>1. PICK r \in DOMAIN kid : \E i \in DOMAIN Below(d, kid[r]) : q = Append(r, i)
                BY <3>3 DEF Unfolds
            <4>2. PICK i \in DOMAIN Below(d, kid[r]) : q = Append(r, i)
                BY <4>1
            <4>3. i \in Nat
                <5>1. Append(r, i) \in Seq(Nat) /\ r \in Seq(Nat)
                    BY <4>2 DEF TreeOK
                <5> QED BY <5>1
            <4>4. p = Append(up(r), i)
                BY <1>3, <3>1, <4>2, <4>3
            <4>5. up(r) \in DOMAIN g /\ g[up(r)] = kid[r]
                BY <1>2, <1>7
            <4> QED BY <4>2, <4>4, <4>5
        <3> QED BY <3>2, <3>3
    <2> QED BY <1>2, <2>1, <2>2
<1> QED BY <1>6, <1>9, <1>10, <1>11, <1>12 DEF Partial

(* All of them.                                                            *)
LEMMA NodeUnfolds ==
    ASSUME NEW d \in Documents, NEW file, NEW ref, NEW c \in Components(d),
           c = Component(file, ref), ~BodyOf(d, c).alias,
           NEW t, Partial(d, t, c, Len(BodyOf(d, c).refs))
    PROVE  Unfolds(d, t, file, ref)
<1>1. StandsFor(d, t[<<>>], file, ref)
    BY NodeStands DEF Partial
<1>2. ASSUME NEW p \in DOMAIN t, NEW i \in DOMAIN Below(d, t[p])
      PROVE  /\ Append(p, i) \in DOMAIN t
             /\ StandsFor(d, t[Append(p, i)], t[p].at.file, Below(d, t[p])[i])
    <2>1. p = <<>> => i <= Len(BodyOf(d, c).refs)
        <3> SUFFICES ASSUME p = <<>> PROVE i <= Len(BodyOf(d, c).refs)
            OBVIOUS
        <3>1. i \in DOMAIN BodyOf(d, c).refs
            BY DEF Partial, Below
        <3> QED BY <3>1, BodyFacts
    <2> QED BY <2>1 DEF Partial
<1> QED BY <1>1, <1>2 DEF Partial, Unfolds

LEMMA AliasUnfolds ==
    ASSUME NEW d \in Documents, NEW file, NEW ref, NEW a \in Components(d), a = Component(file, ref),
           BodyOf(d, a).alias, NEW t, Unfolds(d, t, a.file, BodyOf(d, a).refs[1])
    PROVE  Unfolds(d, t, file, ref)
BY AliasStands DEF Unfolds

LEMMA CycleUnfolds ==
    ASSUME NEW d, NEW file, NEW ref, NEW c \in Components(d), c = Component(file, ref),
           OnCycle(d, c)
    PROVE  Unfolds(d, Cycle(ref), file, ref) /\ IsCycle(Cycle(ref))
<1> DEFINE t == Cycle(ref)
<1>1. DOMAIN t = {<<>>} /\ t[<<>>] = [kind |-> "cycle", at |-> ref]
    BY LeafOK DEF Cycle
<1>2. StandsFor(d, t[<<>>], file, ref)
    BY <1>1, CycleStands
<1>3. DOMAIN Below(d, t[<<>>]) = {}
    BY <1>1 DEF Below
<1> HIDE DEF t
<1>4. Unfolds(d, t, file, ref) /\ IsCycle(t)
    BY <1>1, <1>2, <1>3 DEF Unfolds, IsCycle
<1> QED BY <1>4 DEF t

(* In what file a reference is met matters only for the component it is.   *)
LEMMA SameUnfolding ==
    ASSUME NEW d, NEW t, NEW f, NEW g, NEW ref, Component(f, ref) = Component(g, ref),
           Unfolds(d, t, f, ref)
    PROVE  Unfolds(d, t, g, ref)
BY DEF Unfolds, StandsFor

-----------------------------------------------------------------------------
(* What is on the stack and in the caches is an unfolding of the document, *)
(* as far as it has come.                                                  *)

PlaceOf(c) == [file |-> c.file, name |-> c.key.name]
PlacesOf(s, m) == {PlaceOf(s[j]) : j \in 2..m}

(* The schema of a call.                                                   *)
TreeGrows(d, c) ==
    /\ ~c.alias => Partial(d, c.tree, PlaceOf(c), c.next - 1)
    /\ c.alias /\ ~Done(c) => DOMAIN c.tree = {}
    /\ c.alias /\ Done(c) => Unfolds(d, c.tree, c.file, c.refs[1])

(* c has been called for the reference its caller has come to.             *)
Called(d, caller, c) ==
    /\ ~Done(caller)
    /\ c.key = caller.refs[caller.next]
    /\ PlaceOf(c) = Component(caller.file, c.key)
    /\ PlaceOf(c) \in Components(d)
    /\ c.alias = BodyOf(d, PlaceOf(c)).alias
    /\ c.refs = BodyOf(d, PlaceOf(c)).refs

IsRoot(c) == c.alias /\ c.file = Main /\ c.refs = <<c.key>>

(* From c, aliases lead to aliases or into the places in `on`, and nowhere *)
(* else.                                                                   *)
AliasesInto(d, on, c) ==
    \E cs \in SUBSET {a \in Components(d) : BodyOf(d, a).alias} :
       /\ c \in cs \cup on
       /\ \A e \in References(d) : e[1] \in cs => e[2] \in cs \cup on

(* A bare cycle reference has come back to a call still in progress, or is *)
(* the end of aliases of each other.                                       *)
CutOK(d, s, m) ==
    s[m].alias /\ Done(s[m]) /\ IsCycle(s[m].tree) =>
       AliasesInto(d, PlacesOf(s, m), Component(s[m].file, s[m].refs[1]))

StackUnfolds ==
    /\ stack # <<>> => IsRoot(stack[1])
    /\ \A i \in 2..Len(stack) : Called(doc, stack[i - 1], stack[i])
    /\ \A i \in 1..Len(stack) :
          /\ stack[i].level = 1 => stack[i].file = Main
          /\ TreeGrows(doc, stack[i])
          /\ CutOK(doc, stack, i)

(* A cached schema unfolds its key, met in some file, and in the document  *)
(* if it is in the document's own cache; it is not cut at its root.        *)
EntryUnfolds(d, l, key, tree) ==
    /\ ~IsCycle(tree)
    /\ \E f \in Files : Unfolds(d, tree, f, key) /\ (l = 1 => f = Main)

CachesUnfold ==
    \A l \in 1..Len(caches) : \A key \in DOMAIN caches[l] :
       EntryUnfolds(doc, l, key, caches[l][key])

UnfoldInv == StackUnfolds /\ CachesUnfold /\ IsSequence(results) /\ ResultsUnfold

(* A call that has its first reference to come.                            *)
LEMMA NewCallGrows ==
    ASSUME NEW d \in Documents, NEW c, CallOK(c), c.next = 1,
           c.alias \/ PlaceOf(c) \in Components(d),
           c.alias => c.tree = NoSchema,
           ~c.alias => c.tree = Leaf("node", PlaceOf(c))
    PROVE  TreeGrows(d, c) /\ (c.alias => ~Done(c))
<1>1. c.alias => ~Done(c)
    <2> SUFFICES ASSUME c.alias PROVE ~Done(c)
        OBVIOUS
    <2>1. Len(c.refs) = 1
        BY Zenon DEF CallOK
    <2> QED BY <2>1 DEF Done
<1>2. DOMAIN NoSchema = {}
    BY DEF NoSchema
<1>3. ~c.alias => Partial(d, c.tree, PlaceOf(c), 0)
    BY LeafPartial
<1> QED BY <1>1, <1>2, <1>3 DEF TreeGrows

(* One more schema.                                                        *)
LEMMA ResolvedGrows ==
    ASSUME NEW d \in Documents, NEW c, CallOK(c), ~Done(c), TreeGrows(d, c),
           c.alias \/ (PlaceOf(c) \in Components(d) /\ c.refs = BodyOf(d, PlaceOf(c)).refs),
           NEW tree, TreeOK(tree), Unfolds(d, tree, c.file, c.refs[c.next]),
           NEW r, r = Resolved(c, tree)
    PROVE  /\ TreeGrows(d, r) /\ PlaceOf(r) = PlaceOf(c)
           /\ c.alias => r.tree = tree /\ c.next = 1
<1>1. /\ CallOK(r) /\ r.key = c.key /\ r.file = c.file /\ r.alias = c.alias
      /\ r.refs = c.refs /\ r.next = c.next + 1
      /\ r.tree = IF c.alias THEN tree ELSE Graft(c.tree, c.next, tree)
    BY ResolvedOK
<1>2. c.next \in 1..Len(c.refs) /\ c.next \in Nat /\ c.next - 1 \in Nat /\ c.next = (c.next - 1) + 1
      /\ Len(c.refs) \in Nat /\ c.next \in DOMAIN c.refs
    BY DEF CallOK, Done
<1>3. PlaceOf(r) = PlaceOf(c)
    BY <1>1 DEF PlaceOf
<1>4. CASE c.alias
    <2>1. Len(c.refs) = 1
        BY <1>4, Zenon DEF CallOK
    <2>2. c.next = 1 /\ r.next = 2 /\ Len(r.refs) = 1
        <3>1. r.next = c.next + 1 /\ r.refs = c.refs
            BY <1>1
        <3> QED BY <1>2, <2>1, <3>1
    <2>3. Done(r)
        BY <2>2 DEF Done
    <2>4. Unfolds(d, r.tree, r.file, r.refs[1])
        BY <1>1, <1>4, <2>2
    <2> QED BY <1>1, <1>3, <1>4, <2>2, <2>3, <2>4 DEF TreeGrows
<1>5. CASE ~c.alias
    <2> DEFINE p == PlaceOf(c)
               k == c.next - 1
               n == c.next
    <2>1. /\ p \in Components(d) /\ Partial(d, c.tree, p, k) /\ TreeOK(c.tree)
          /\ p.file = c.file /\ n \in DOMAIN BodyOf(d, p).refs
          /\ Unfolds(d, tree, p.file, BodyOf(d, p).refs[n])
          /\ k \in Nat /\ n = k + 1
        BY <1>2, <1>5 DEF TreeGrows, CallOK, PlaceOf
    <2>2. r.tree = Graft(c.tree, n, tree)
        BY <1>1, <1>5
    <2> HIDE DEF p, k, n
    <2>3. Partial(d, r.tree, p, n)
        BY <2>1, <2>2, GraftPartial
    <2>4. n = r.next - 1
        BY <1>1, <1>2 DEF n
    <2> QED BY <1>1, <1>3, <1>5, <2>3, <2>4 DEF TreeGrows, p
<1> QED BY <1>3, <1>4, <1>5

(* A call that is done.                                                    *)
LEMMA DoneUnfolds ==
    ASSUME NEW d \in Documents, NEW c, CallOK(c), Done(c), TreeGrows(d, c),
           NEW caller, Called(d, caller, c)
    PROVE  Unfolds(d, c.tree, caller.file, c.key)
<1> DEFINE p == PlaceOf(c)
<1>1. /\ p \in Components(d) /\ p = Component(caller.file, c.key) /\ p.file = c.file
      /\ c.alias = BodyOf(d, p).alias /\ c.refs = BodyOf(d, p).refs
    BY DEF Called, PlaceOf
<1>2. c.next - 1 = Len(c.refs)
    BY DEF CallOK, Done
<1> HIDE DEF p
<1>3. CASE c.alias
    BY <1>1, <1>3, AliasUnfolds DEF TreeGrows
<1>4. CASE ~c.alias
    <2>1. Partial(d, c.tree, p, Len(BodyOf(d, p).refs))
        BY <1>1, <1>2, <1>4 DEF TreeGrows, p
    <2> QED BY <1>1, <1>4, <2>1, NodeUnfolds
<1> QED BY <1>3, <1>4

(* What the stack says of one call.                                        *)
LEMMA CallFacts ==
    ASSUME Inv, StackUnfolds, NEW i \in 1..Len(stack)
    PROVE  /\ Len(stack) \in Nat /\ CallOK(stack[i]) /\ TreeGrows(doc, stack[i])
           /\ doc \in Documents
           /\ i = 1 => IsRoot(stack[i])
           /\ i # 1 => i - 1 \in 1..Len(stack) /\ Called(doc, stack[i - 1], stack[i])
           /\ stack[i].level = 1 => stack[i].file = Main
<1>1. Len(stack) \in Nat /\ CallOK(stack[i])
    BY Pushed DEF Inv, StackOK
<1>2. stack # <<>>
    <2>1. Len(<<>>) = 0
        OBVIOUS
    <2> QED BY <1>1, <2>1
<1>3. i # 1 => i \in 2..Len(stack) /\ i - 1 \in 1..Len(stack)
    BY <1>1
<1> QED BY <1>1, <1>2, <1>3 DEF StackUnfolds, Inv, ScalarsOK

(* A call refers to what it has come to.                                   *)
LEMMA PlaceEdge ==
    ASSUME NEW d \in Documents, NEW caller, NEW c, CallOK(c), ~Done(c), Called(d, caller, c),
           NEW t \in Components(d), t = Component(c.file, c.refs[c.next])
    PROVE  <<PlaceOf(c), t>> \in References(d)
<1> DEFINE p == PlaceOf(c)
<1>1. p \in Components(d) /\ p.file = c.file /\ c.refs = BodyOf(d, p).refs
    BY DEF Called, PlaceOf
<1>2. c.next \in DOMAIN c.refs
    BY DEF CallOK, Done
<1> HIDE DEF p
<1>3. <<p, t>> \in References(d)
    BY <1>1, <1>2, ReferenceEdge
<1> QED BY <1>3 DEF p

(* The reference the top has come to names the same component wherever it  *)
(* names one: this is what the files' names are apart for.                 *)
LEMMA NextComponent ==
    ASSUME NamesApart, Inv, StackUnfolds, AtReference, NEW f \in Files,
           Component(f, NextRef) \in Components(doc), Len(stack) = 1 => f = Main
    PROVE  Component(f, NextRef) = Component(Top.file, NextRef)
<1> DEFINE n == Len(stack)
<1>1. stack # <<>> /\ ~Done(Top)
    BY DEF AtReference
<1>2. n \in Nat \ {0} /\ Top = stack[n] /\ n \in 1..Len(stack)
    BY <1>1, TopOK DEF Top, Last
<1>3. CASE NextRef.file # Here
    BY <1>3 DEF Component, FileOf
<1>4. CASE NextRef.file = Here /\ n = 1
    <2>1. IsRoot(Top)
        BY <1>2, <1>4, CallFacts
    <2> QED BY <1>4, <2>1 DEF IsRoot
<1>5. CASE NextRef.file = Here /\ n # 1
    <2> DEFINE p == PlaceOf(Top)
    <2>1. CallOK(Top) /\ Called(doc, stack[n - 1], Top) /\ doc \in Documents
        <3> HIDE DEF n
        <3> QED BY <1>2, <1>5, CallFacts DEF n
    <2>2. p \in Components(doc) /\ p.file = Top.file /\ Top.refs = BodyOf(doc, p).refs
        BY <2>1 DEF Called, PlaceOf
    <2>3. Top.next \in DOMAIN BodyOf(doc, p).refs /\ NextRef = BodyOf(doc, p).refs[Top.next]
        BY <1>1, <2>1, <2>2 DEF CallOK, Done, NextRef
    <2> HIDE DEF p
    <2>4. \A g \in Files \ {p.file} : NextRef.name \notin DOMAIN doc[g]
        BY <1>5, <2>1, <2>2, <2>3 DEF NamesApart
    <2>5. NextRef.name \in DOMAIN doc[f]
        BY <1>5 DEF Component, FileOf, Components
    <2> QED BY <2>2, <2>4, <2>5
<1> QED BY <1>3, <1>4, <1>5

(* A reference to a component being resolved closes a cycle.               *)
LEMMA VisitingOnCycle ==
    ASSUME NamesApart, Inv, StackUnfolds, AtReference, NextRef \in Visiting,
           NEW c, c = Component(Top.file, NextRef)
    PROVE  c \in Components(doc) /\ OnCycle(doc, c) /\ c \in PlacesOf(stack, Len(stack))
<1> DEFINE n == Len(stack)
           place(i) == PlaceOf(stack[i])
<1>1. stack # <<>> /\ ~Done(Top) /\ n \in Nat \ {0} /\ Top = stack[n]
    BY TopOK DEF AtReference, Top, Last
<1>2. PICK j \in 2..n : stack[j].key = NextRef
    BY DEF Visiting
<1>3. \A i \in 2..n : /\ i - 1 \in 1..n /\ CallOK(stack[i - 1]) /\ CallOK(stack[i])
                      /\ Called(doc, stack[i - 1], stack[i])
    <2> TAKE i \in 2..n
    <2>1. i \in 1..Len(stack) /\ i # 1 /\ i - 1 \in 1..Len(stack)
        BY <1>1
    <2> QED BY <2>1, CallFacts
<1>4. doc \in Documents
    BY DEF Inv, ScalarsOK
<1>5. place(j) = c /\ c \in Components(doc)
    <2>1. /\ Called(doc, stack[j - 1], stack[j]) /\ stack[j - 1].file \in Files
        BY <1>2, <1>3 DEF CallOK
    <2>2. place(j) = Component(stack[j - 1].file, NextRef) /\ place(j) \in Components(doc)
        BY <1>2, <2>1 DEF Called
    <2>3. n # 1
        BY <1>1, <1>2
    <2> QED BY <2>1, <2>2, <2>3, NextComponent
<1>6. \A i \in 2..n : place(i) \in Components(doc)
    BY <1>3 DEF Called
<1>7. ASSUME NEW i \in 2..n, i # n
      PROVE  <<place(i), place(i + 1)>> \in References(doc)
    <2>1. i + 1 \in 2..n /\ (i + 1) - 1 = i
        BY <1>1, <1>7
    <2>2. Called(doc, stack[i], stack[i + 1]) /\ CallOK(stack[i]) /\ Called(doc, stack[i - 1], stack[i])
        BY <1>3, <2>1
    <2>3. ~Done(stack[i]) /\ place(i + 1) \in Components(doc)
          /\ place(i + 1) = Component(stack[i].file, stack[i].refs[stack[i].next])
        BY <2>2 DEF Called
    <2> HIDE DEF n
    <2> QED BY <1>4, <2>2, <2>3, PlaceEdge
<1>8. <<place(n), c>> \in References(doc)
    <2>1. n \in 2..n
        BY <1>1, <1>2
    <2>2. CallOK(Top) /\ Called(doc, stack[n - 1], Top)
        BY <1>1, <1>3, <2>1
    <2>3. c = Component(Top.file, Top.refs[Top.next])
        BY DEF NextRef
    <2> HIDE DEF n
    <2> QED BY <1>1, <1>4, <1>5, <2>2, <2>3, PlaceEdge
<1> HIDE DEF place
<1>9. OnCycle(doc, c)
    <2>1. CASE j = n
        BY <1>5, <1>8, <2>1, FromSelf DEF OnCycle, Reachable
    <2>2. CASE j # n
        <3>1. <<c, place(j + 1)>> \in References(doc) /\ j + 1 \in 2..n
            BY <1>1, <1>5, <1>7, <2>2
        <3>2. ASSUME NEW cs \in SUBSET Components(doc), place(j + 1) \in cs,
                     Closed(cs, References(doc))
              PROVE  c \in cs
            <4> DEFINE outside == {i \in j + 1..n : place(i) \notin cs}
            <4>1. ASSUME outside # {} PROVE FALSE
                <5>1. outside \in SUBSET Nat
                    BY <1>1
                <5>2. PICK i \in outside : \A h \in outside : i <= h
                    <6> HIDE DEF outside
                    <6> QED BY <4>1, <5>1, LeastNumber
                <5>3. i # j + 1 /\ i - 1 \in 2..n /\ i - 1 # n /\ (i - 1) + 1 = i /\ i - 1 \in j + 1..n
                    BY <1>1, <3>2, <5>2
                <5>4. place(i - 1) \in cs
                    BY <1>1, <5>2, <5>3
                <5>5. <<place(i - 1), place(i)>> \in References(doc)
                    BY <1>7, <5>3
                <5> QED BY <3>2, <5>2, <5>4, <5>5 DEF Closed
            <4>2. place(n) \in cs
                BY <1>1, <3>1, <4>1
            <4> QED BY <1>8, <3>2, <4>2 DEF Closed
        <3>3. c \in Reachable(doc, place(j + 1))
            BY <1>5, <3>2 DEF Reachable, From
        <3> QED BY <3>1, <3>3 DEF OnCycle
    <2> QED BY <2>1, <2>2
<1>10. c \in PlacesOf(stack, n)
    BY <1>5 DEF PlacesOf, place
<1> QED BY <1>5, <1>9, <1>10

-----------------------------------------------------------------------------
(* The actions.                                                            *)

(* A schema for the call at m.                                             *)
LEMMA GrownUnfolds ==
    ASSUME Inv, StackUnfolds, NEW m \in 1..Len(stack), ~Done(stack[m]),
           NEW tree, TreeOK(tree), Grown(m, tree), UNCHANGED doc,
           Unfolds(doc, tree, stack[m].file, stack[m].refs[stack[m].next]),
           IsCycle(tree) => AliasesInto(doc, PlacesOf(stack, m),
                               Component(stack[m].file, stack[m].refs[stack[m].next]))
    PROVE  StackUnfolds'
<1> DEFINE x == Resolved(stack[m], tree)
<1>1. /\ Len(stack) \in Nat /\ CallOK(stack[m]) /\ TreeGrows(doc, stack[m]) /\ doc \in Documents
      /\ m = 1 => IsRoot(stack[m])
      /\ m # 1 => m - 1 \in 1..Len(stack) /\ Called(doc, stack[m - 1], stack[m])
    BY CallFacts
<1>2. /\ CallOK(x) /\ x.key = stack[m].key /\ x.file = stack[m].file
      /\ x.level = stack[m].level /\ x.alias = stack[m].alias /\ x.refs = stack[m].refs
    BY <1>1, ResolvedOK
<1>3. \/ stack[m].alias
      \/ PlaceOf(stack[m]) \in Components(doc) /\ stack[m].refs = BodyOf(doc, PlaceOf(stack[m])).refs
    BY <1>1 DEF IsRoot, Called
<1>4. /\ TreeGrows(doc, x) /\ PlaceOf(x) = PlaceOf(stack[m])
      /\ stack[m].alias => x.tree = tree /\ stack[m].next = 1
    BY <1>1, <1>3, ResolvedGrows
<1>5. /\ Len(stack') = m
      /\ \A i \in 1..m : stack'[i] = IF i = m THEN x ELSE stack[i]
    BY DEF Grown
<1> HIDE DEF x
<1>6. m \in 1..m /\ m \in Nat /\ (\A i \in 1..m : i \in 1..Len(stack))
    BY <1>1
<1>7. \A i \in 1..m : PlacesOf(stack', i) = PlacesOf(stack, i)
    <2> TAKE i \in 1..m
    <2>1. \A j \in 2..i : j \in 1..m
        BY <1>6
    <2>2. \A j \in 2..i : PlaceOf(stack'[j]) = PlaceOf(stack[j])
        BY <1>4, <1>5, <2>1
    <2> QED BY <2>2 DEF PlacesOf
<1>8. IsRoot(stack'[1])
    <2>1. 1 \in 1..m /\ IsRoot(stack[1])
        <3>1. 1 \in 1..m /\ 1 \in 1..Len(stack)
            BY <1>1
        <3> QED BY <3>1, CallFacts
    <2>2. CASE m = 1
        BY <1>2, <1>5, <2>1, <2>2 DEF IsRoot
    <2>3. CASE m # 1
        BY <1>5, <2>1, <2>3
    <2> QED BY <2>2, <2>3
<1>9. ASSUME NEW i \in 2..m PROVE Called(doc, stack'[i - 1], stack'[i])
    <2>1. i \in 1..m /\ i # 1 /\ i - 1 \in 1..m /\ i - 1 # m
        BY <1>6
    <2>2. Called(doc, stack[i - 1], stack[i])
        BY <1>6, <2>1, CallFacts
    <2>3. stack'[i - 1] = stack[i - 1]
        BY <1>5, <2>1
    <2>4. CASE i = m
        <3>1. Called(doc, stack[i - 1], x)
            BY <1>2, <1>4, <2>2, <2>4 DEF Called
        <3> QED BY <1>5, <2>1, <2>3, <2>4, <3>1
    <2>5. CASE i # m
        BY <1>5, <2>1, <2>2, <2>3, <2>5
    <2> QED BY <2>4, <2>5
<1>10. ASSUME NEW i \in 1..m
       PROVE  /\ stack'[i].level = 1 => stack'[i].file = Main
              /\ TreeGrows(doc, stack'[i])
              /\ CutOK(doc, stack', i)
    <2>1. CASE i = m
        <3>1. stack'[m] = x
            BY <1>5, <1>6
        <3>2. stack[m].level = 1 => stack[m].file = Main
            BY CallFacts
        <3>3. CutOK(doc, stack', m)
            <4> SUFFICES ASSUME x.alias, IsCycle(x.tree)
                         PROVE  AliasesInto(doc, PlacesOf(stack', m), Component(x.file, x.refs[1]))
                BY <3>1 DEF CutOK
            <4>1. x.tree = tree /\ stack[m].next = 1
                BY <1>2, <1>4
            <4> QED BY <1>2, <1>6, <1>7, <4>1
        <3> QED BY <1>2, <1>4, <2>1, <3>1, <3>2, <3>3
    <2>2. CASE i # m
        <3>1. stack'[i] = stack[i] /\ i \in 1..Len(stack)
            BY <1>5, <1>6, <2>2
        <3>2. /\ stack[i].level = 1 => stack[i].file = Main
              /\ TreeGrows(doc, stack[i])
              /\ CutOK(doc, stack, i)
            BY <3>1 DEF StackUnfolds
        <3>3. CutOK(doc, stack', i)
            BY <1>7, <3>1, <3>2 DEF CutOK
        <3> QED BY <3>1, <3>2, <3>3
    <2> QED BY <2>1, <2>2
<1> QED BY <1>5, <1>8, <1>9, <1>10 DEF StackUnfolds

(* A call that is done returns to its caller.                              *)
LEMMA ReturnedUnfolds ==
    ASSUME Inv, StackUnfolds, NEW m \in 2..Len(stack), Done(stack[m])
    PROVE  LET caller == stack[m - 1]
               tree == stack[m].tree
               key == stack[m].key IN
           /\ key = caller.refs[caller.next]
           /\ Unfolds(doc, tree, caller.file, key)
           /\ IsCycle(tree) => AliasesInto(doc, PlacesOf(stack, m - 1), Component(caller.file, key))
<1> DEFINE caller == stack[m - 1]
           c == stack[m]
           p == PlaceOf(c)
<1>1. m \in 1..Len(stack) /\ m # 1 /\ m \in Nat
    OBVIOUS
<1>2. /\ CallOK(c) /\ TreeGrows(doc, c) /\ doc \in Documents
      /\ Called(doc, caller, c)
    BY <1>1, CallFacts
<1>3. Unfolds(doc, c.tree, caller.file, c.key)
    <2> HIDE DEF c, caller
    <2> QED BY <1>2, DoneUnfolds DEF c
<1>4. /\ c.key = caller.refs[caller.next] /\ p = Component(caller.file, c.key)
      /\ p \in Components(doc) /\ c.alias = BodyOf(doc, p).alias /\ c.refs = BodyOf(doc, p).refs
    BY <1>2 DEF Called
<1>5. ASSUME IsCycle(c.tree)
      PROVE  AliasesInto(doc, PlacesOf(stack, m - 1), p)
    <2>1. c.alias
        <3>1. ~c.alias => c.tree[<<>>].kind = "node"
            BY <1>2 DEF TreeGrows, Partial
        <3> QED BY <1>5, <3>1 DEF IsCycle
    <2> DEFINE on == PlacesOf(stack, m)
               below == PlacesOf(stack, m - 1)
               next == Component(c.file, c.refs[1])
    <2>2. AliasesInto(doc, on, next)
        BY <1>1, <1>5, <2>1 DEF StackUnfolds, CutOK
    <2>3. on = below \cup {p}
        <3>1. 2..m = (2..m - 1) \cup {m}
            BY <1>1
        <3> QED BY <3>1 DEF PlacesOf
    <2>4. ASSUME NEW e \in References(doc), e[1] = p PROVE e[2] = next
        <3>1. RefersTo(doc, p, e[2]) /\ p.file = c.file
            BY <2>4 DEF References, PlaceOf
        <3>2. DOMAIN BodyOf(doc, p).refs = {1}
            <4>1. Len(c.refs) = 1
                BY <1>2, <2>1, Zenon DEF CallOK
            <4>2. c.refs \in Seq(Ref)
                BY <1>2 DEF CallOK
            <4> HIDE DEF p, c
            <4>3. DOMAIN c.refs = 1..Len(c.refs)
                BY <4>2
            <4>4. DOMAIN c.refs = {1}
                BY <4>1, <4>3
            <4> QED BY <1>4, <4>4
        <3> HIDE DEF p, c
        <3> QED BY <1>4, <3>1, <3>2 DEF RefersTo
    <2> HIDE DEF on, below, next, p
    <2>5. PICK cs \in SUBSET {a \in Components(doc) : BodyOf(doc, a).alias} :
             /\ next \in cs \cup on
             /\ \A e \in References(doc) : e[1] \in cs => e[2] \in cs \cup on
        BY <2>2 DEF AliasesInto
    <2>6. cs \cup {p} \in SUBSET {a \in Components(doc) : BodyOf(doc, a).alias}
        BY <1>4, <2>1
    <2>7. \A e \in References(doc) : e[1] \in cs \cup {p} => e[2] \in (cs \cup {p}) \cup below
        BY <2>3, <2>4, <2>5
    <2>8. AliasesInto(doc, below, p)
        BY <2>6, <2>7 DEF AliasesInto
    <2> QED BY <2>8 DEF below
<1> QED BY <1>3, <1>4, <1>5

(* A result.                                                               *)
LEMMA RootUnfolds ==
    ASSUME Inv, StackUnfolds, Len(stack) = 1, Done(Top)
    PROVE  LET tree == Top.tree
               ref == Top.key IN
           /\ Unfolds(doc, tree, Main, ref)
           /\ IsCycle(tree) => \A c \in Reachable(doc, Component(Main, ref)) : BodyOf(doc, c).alias
<1> DEFINE tree == Top.tree
           root == Component(Main, Top.key)
<1>1. 1 \in 1..Len(stack) /\ Top = stack[1]
    BY DEF Top, Last
<1>2. IsRoot(Top) /\ TreeGrows(doc, Top) /\ CutOK(doc, stack, 1)
    BY <1>1, CallFacts DEF StackUnfolds
<1>3. Top.refs[1] = Top.key /\ Top.file = Main /\ Top.alias
    BY <1>2 DEF IsRoot
<1>4. Unfolds(doc, tree, Main, Top.key)
    BY <1>2, <1>3 DEF TreeGrows
<1>5. ASSUME IsCycle(tree), NEW c \in Reachable(doc, root)
      PROVE  BodyOf(doc, c).alias
    <2>1. AliasesInto(doc, PlacesOf(stack, 1), root)
        BY <1>1, <1>2, <1>3, <1>5 DEF CutOK
    <2>2. PlacesOf(stack, 1) = {}
        BY DEF PlacesOf
    <2> HIDE DEF root
    <2>3. PICK cs \in SUBSET {a \in Components(doc) : BodyOf(doc, a).alias} :
             /\ root \in cs
             /\ \A e \in References(doc) : e[1] \in cs => e[2] \in cs
        BY <2>1, <2>2 DEF AliasesInto
    <2>4. Reachable(doc, root) \subseteq cs
        BY <2>3, FromWithin DEF Closed, Reachable
    <2> QED BY <1>5, <2>3, <2>4
<1> QED BY <1>4, <1>5

LEMMA EmptyStackUnfolds == ASSUME stack' = <<>> PROVE StackUnfolds'
<1>1. Len(<<>>) = 0
    OBVIOUS
<1> QED BY <1>1 DEF StackUnfolds

LEMMA RootStackUnfolds ==
    ASSUME NEW ref \in Ref, stack' = <<RootCall(ref)>>
    PROVE  StackUnfolds'
<1> DEFINE x == RootCall(ref)
           body == [alias |-> TRUE, refs |-> <<ref>>]
<1>1. CallOK(x)
    BY RootCallOK
<1>2. /\ x.key = ref /\ x.file = Main /\ x.level = 1 /\ x.alias /\ x.refs = <<ref>>
      /\ x.next = 1 /\ x.tree = NoSchema
    BY DEF RootCall, Call
<1>3. DOMAIN NoSchema = {} /\ ~Done(x)
    BY <1>2 DEF NoSchema, Done
<1> HIDE DEF x
<1>4. Len(stack') = 1 /\ stack'[1] = x
    BY DEF x
<1>5. \A d : TreeGrows(d, x) /\ \A s : s[1] = x => CutOK(d, s, 1)
    BY <1>2, <1>3 DEF TreeGrows, CutOK
<1> QED BY <1>2, <1>4, <1>5 DEF StackUnfolds, IsRoot

LEMMA AbortUnfolds ==
    ASSUME Inv, UnfoldInv, stack # <<>>, NEW total, Abort(total)
    PROVE  UnfoldInv'
<1>1. stack' = <<>> /\ caches' = <<caches[1]>> /\ UNCHANGED <<doc, results>>
    BY DEF Abort
<1>2. StackUnfolds'
    BY <1>1, EmptyStackUnfolds
<1>3. 1 \in 1..Len(caches) /\ Len(caches') = 1 /\ caches'[1] = caches[1]
    BY <1>1, TopOK
<1>4. CachesUnfold'
    BY <1>1, <1>3 DEF UnfoldInv, CachesUnfold
<1>5. (IsSequence(results) /\ ResultsUnfold)'
    BY <1>1 DEF UnfoldInv, IsSequence, ResultsUnfold
<1> QED BY <1>2, <1>4, <1>5 DEF UnfoldInv

(* The next reference becomes a schema.                                    *)
LEMMA TakeUnfolds ==
    ASSUME Inv, StackUnfolds, AtReference, NEW tree, TreeOK(tree), Take(tree), UNCHANGED doc,
           Unfolds(doc, tree, Top.file, NextRef),
           IsCycle(tree) => AliasesInto(doc, PlacesOf(stack, Len(stack)), Component(Top.file, NextRef))
    PROVE  StackUnfolds'
<1> DEFINE n == Len(stack)
<1>1. n \in 1..Len(stack) /\ stack[n] = Top /\ ~Done(stack[n]) /\ Grown(n, tree)
    BY TakeGrows
<1>2. NextRef = stack[n].refs[stack[n].next]
    BY <1>1 DEF NextRef
<1>3. IsCycle(tree) => AliasesInto(doc, PlacesOf(stack, n), Component(stack[n].file, NextRef))
    BY <1>1
<1> HIDE DEF n
<1> QED BY <1>1, <1>2, <1>3, GrownUnfolds

LEMMA CutUnfolds ==
    ASSUME NamesApart, Inv, StackUnfolds, CutCycle
    PROVE  StackUnfolds'
<1> DEFINE c == Component(Top.file, NextRef)
           tree == Cycle(NextRef)
           on == PlacesOf(stack, Len(stack))
<1>1. AtReference /\ NextRef \in Visiting /\ Take(tree) /\ UNCHANGED doc
    BY DEF CutCycle
<1>2. c \in Components(doc) /\ OnCycle(doc, c) /\ c \in on
    BY <1>1, VisitingOnCycle
<1>3. TreeOK(tree) /\ Unfolds(doc, tree, Top.file, NextRef)
    BY <1>2, LeafOK, CycleUnfolds DEF Cycle
<1>4. AliasesInto(doc, on, c)
    <2> HIDE DEF on, c
    <2>1. {} \in SUBSET {a \in Components(doc) : BodyOf(doc, a).alias} /\ c \in {} \cup on
        BY <1>2
    <2> QED BY <2>1 DEF AliasesInto
<1> HIDE DEF tree
<1> QED BY <1>1, <1>3, <1>4, TakeUnfolds

(* A cached schema is that of the component it is taken for.               *)
LEMMA CachedUnfolds ==
    ASSUME NamesApart, Inv, StackUnfolds, CachesUnfold, AtReference, NextRef \in DOMAIN Cache
    PROVE  ~IsCycle(Cache[NextRef]) /\ Unfolds(doc, Cache[NextRef], Top.file, NextRef)
<1> DEFINE tree == Cache[NextRef]
           n == Len(stack)
<1>1. /\ stack # <<>> /\ n \in Nat \ {0}
      /\ Top.level = Len(caches) /\ Len(caches) \in Nat \ {0} /\ Top = stack[n]
    BY TopOK DEF AtReference, Top, Last
<1>2. EntryUnfolds(doc, Top.level, NextRef, tree)
    <2>1. Top.level \in 1..Len(caches)
        BY <1>1
    <2> QED BY <2>1 DEF CachesUnfold, Cache
<1> HIDE DEF tree
<1>3. PICK f \in Files : Unfolds(doc, tree, f, NextRef) /\ (Top.level = 1 => f = Main)
    BY <1>2 DEF EntryUnfolds
<1>4. Component(f, NextRef) \in Components(doc)
    BY <1>3 DEF Unfolds, StandsFor
<1>5. n = 1 => f = Main
    BY <1>1, <1>3 DEF Inv, StackOK
<1>6. Component(f, NextRef) = Component(Top.file, NextRef)
    BY <1>4, <1>5, NextComponent
<1>7. Unfolds(doc, tree, Top.file, NextRef)
    BY <1>3, <1>6, SameUnfolding
<1> QED BY <1>2, <1>7 DEF EntryUnfolds, tree

LEMMA PushUnfolds ==
    ASSUME Inv, StackUnfolds, CachesUnfold, AtReference, Defined,
           Push(doc[NextFile][NextRef.name]), UNCHANGED doc
    PROVE  StackUnfolds' /\ CachesUnfold'
<1> DEFINE body == doc[NextFile][NextRef.name]
           n == Len(stack)
           x == PushedCall(body)
           p == Component(Top.file, NextRef)
<1>1. doc \in Documents /\ NextRef \in Ref /\ NextFile \in Files
    BY NextRefOK DEF Inv, ScalarsOK
<1>2. /\ p = [file |-> NextFile, name |-> NextRef.name] /\ p \in Components(doc)
      /\ body = BodyOf(doc, p)
    BY <1>1 DEF Component, NextFile, Defined, Components, BodyOf, Ref
<1>3. body \in Body /\ (body.alias => Len(body.refs) = 1)
    <2> HIDE DEF p, body
    <2> QED BY <1>1, <1>2, BodyFacts
<1>4. /\ stack # <<>> /\ n \in Nat \ {0}
      /\ CallOK(x) /\ x.key = NextRef /\ x.file = NextFile
      /\ x.level = IF NextRef.file = Here THEN Top.level ELSE Top.level + 1
      /\ x.alias = body.alias /\ x.refs = body.refs /\ x.next = 1
      /\ x.tree = IF body.alias THEN NoSchema
                  ELSE Leaf("node", [file |-> NextFile, name |-> NextRef.name])
      /\ Len(stack') = n + 1
      /\ \A i \in 1..n : stack'[i] = stack[i]
      /\ stack'[n + 1] = x
      /\ Len(caches') = x.level
      /\ \A l \in 1..Len(caches') :
            caches'[l] = IF l \in 1..Len(caches) THEN caches[l] ELSE Cache
    <2> HIDE DEF body
    <2>1. Push(body)
        BY DEF body
    <2> QED BY <1>3, <2>1, PushGrows
<1>5. /\ CallOK(Top) /\ Top.level = Len(caches) /\ Len(caches) \in Nat \ {0}
      /\ Top = stack[n] /\ ~Done(Top)
    BY <1>4, TopOK DEF AtReference, Top, Last
<1> HIDE DEF x
<1>6. PlaceOf(x) = p
    BY <1>2, <1>4 DEF PlaceOf
<1>7. Called(doc, Top, x)
    <2> HIDE DEF p, body
    <2> QED BY <1>2, <1>4, <1>5, <1>6 DEF Called, p, NextRef
<1>8. TreeGrows(doc, x) /\ (x.alias => ~Done(x))
    <2>1. x.alias => x.tree = NoSchema
        BY <1>4
    <2>2. ~x.alias => x.tree = Leaf("node", PlaceOf(x))
        BY <1>2, <1>4, <1>6
    <2>3. PlaceOf(x) \in Components(doc)
        BY <1>2, <1>6
    <2> HIDE DEF p, body
    <2> QED BY <1>1, <1>4, <2>1, <2>2, <2>3, NewCallGrows
<1>9. x.level = 1 => x.file = Main
    <2> SUFFICES ASSUME x.level = 1 PROVE x.file = Main
        OBVIOUS
    <2>1. NextRef.file = Here /\ Top.level = 1
        <3>1. x.level = IF NextRef.file = Here THEN Top.level ELSE Top.level + 1
            BY <1>4
        <3>2. Top.level \in Nat \ {0}
            BY <1>5
        <3> QED BY <3>1, <3>2
    <2>2. n \in 1..Len(stack)
        BY <1>4
    <2>3. Top.file = Main
        <3> HIDE DEF n
        <3> QED BY <1>5, <2>1, <2>2, CallFacts
    <2> QED BY <1>4, <2>1, <2>3 DEF NextFile, FileOf
<1>10. \A i \in 1..n : PlacesOf(stack', i) = PlacesOf(stack, i)
    <2> TAKE i \in 1..n
    <2>1. \A j \in 2..i : j \in 1..n
        BY <1>4
    <2> QED BY <1>4, <2>1 DEF PlacesOf
<1>11. ASSUME NEW i \in 1..n + 1
       PROVE  /\ stack'[i].level = 1 => stack'[i].file = Main
              /\ TreeGrows(doc, stack'[i])
              /\ CutOK(doc, stack', i)
              /\ i # 1 => Called(doc, stack'[i - 1], stack'[i])
    <2>1. CASE i = n + 1
        <3>1. stack'[i] = x /\ stack'[i - 1] = Top
            BY <1>4, <1>5, <2>1
        <3> QED BY <1>7, <1>8, <1>9, <3>1 DEF CutOK
    <2>2. CASE i # n + 1
        <3>1. i \in 1..n
            BY <1>4, <2>2
        <3>2. stack'[i] = stack[i] /\ (i # 1 => stack'[i - 1] = stack[i - 1])
            BY <1>4, <3>1
        <3>3. CutOK(doc, stack, i)
            BY <3>1 DEF StackUnfolds
        <3>4. CutOK(doc, stack', i)
            BY <1>10, <3>1, <3>2, <3>3 DEF CutOK
        <3> QED BY <3>1, <3>2, <3>4, CallFacts
    <2> QED BY <2>1, <2>2
<1>12. IsRoot(stack'[1])
    BY <1>4 DEF StackUnfolds
<1>13. StackUnfolds'
    <2>1. \A i \in 2..n + 1 : i \in 1..n + 1 /\ i # 1
        BY <1>4
    <2> QED BY <1>4, <1>11, <1>12, <2>1 DEF StackUnfolds
<1>14. CachesUnfold'
    <2> SUFFICES ASSUME NEW l \in 1..Len(caches'), NEW key \in DOMAIN caches'[l]
                 PROVE  EntryUnfolds(doc, l, key, caches'[l][key])
        BY DEF CachesUnfold
    <2>1. CASE l \in 1..Len(caches)
        BY <1>4, <2>1 DEF CachesUnfold
    <2>2. CASE l \notin 1..Len(caches)
        <3>1. caches'[l] = Cache /\ l # 1 /\ Top.level \in 1..Len(caches)
            BY <1>4, <1>5, <2>2
        <3>2. EntryUnfolds(doc, Top.level, key, Cache[key])
            BY <3>1 DEF CachesUnfold, Cache
        <3> QED BY <3>1, <3>2 DEF EntryUnfolds
    <2> QED BY <2>1, <2>2
<1> QED BY <1>13, <1>14

LEMMA ReturnUnfolds ==
    ASSUME Inv, StackUnfolds, CachesUnfold, Return
    PROVE  StackUnfolds' /\ CachesUnfold'
<1> DEFINE n == Len(stack) - 1
           tree == Top.tree
           key == Top.key
           level == stack[n].level
<1>1. /\ stack # <<>> /\ Len(stack) \in Nat /\ n \in Nat \ {0} /\ n + 1 = Len(stack)
      /\ n \in 1..Len(stack) /\ stack[Len(stack)] = Top
      /\ Done(Top) /\ ~Done(stack[n]) /\ level <= Top.level /\ Grown(n, tree)
    BY ReturnGrows
<1>2. /\ TreeOK(tree) /\ key \in Ref /\ Top.level = Len(caches) /\ Len(caches) \in Nat \ {0}
    BY <1>1, TopOK DEF CallOK
<1>3. /\ key = stack[n].refs[stack[n].next]
      /\ Unfolds(doc, tree, stack[n].file, key)
      /\ IsCycle(tree) => AliasesInto(doc, PlacesOf(stack, n), Component(stack[n].file, key))
    <2> DEFINE m == Len(stack)
    <2>1. m \in 2..Len(stack) /\ Done(stack[m]) /\ m - 1 = n /\ stack[m] = Top
        BY <1>1
    <2> HIDE DEF m, n
    <2>2. LET caller == stack[m - 1]
              kid == stack[m].tree
              ref == stack[m].key IN
          /\ ref = caller.refs[caller.next]
          /\ Unfolds(doc, kid, caller.file, ref)
          /\ IsCycle(kid) => AliasesInto(doc, PlacesOf(stack, m - 1), Component(caller.file, ref))
        BY <2>1, ReturnedUnfolds
    <2> QED BY <2>1, <2>2
<1>4. UNCHANGED doc
    BY DEF Return
<1>5. StackUnfolds'
    <2> HIDE DEF n, tree, key
    <2> QED BY <1>1, <1>2, <1>3, <1>4, GrownUnfolds
<1>6. level \in Nat \ {0} /\ level <= Len(caches) /\ stack[n].file \in Files
      /\ (level = 1 => stack[n].file = Main)
    <2>1. CallOK(stack[n]) /\ (level = 1 => stack[n].file = Main)
        <3> HIDE DEF n
        <3> QED BY <1>1, CallFacts
    <2> QED BY <1>1, <1>2, <2>1 DEF CallOK
<1> DEFINE kept == SubSeq(caches, 1, level)
           stored == Store(kept[level], key, tree)
<1>7. Len(kept) = level /\ IsSequence(kept) /\ \A l \in 1..level : kept[l] = caches[l]
    <2>1. IsSequence(caches) /\ level \in 0..Len(caches)
        BY <1>2, <1>6 DEF Inv, CachesOK
    <2> HIDE DEF level
    <2> QED BY <2>1, Popped
<1>8. \A l \in 1..level : \A k \in DOMAIN kept[l] : EntryUnfolds(doc, l, k, kept[l][k])
    <2>1. \A l \in 1..level : l \in 1..Len(caches)
        BY <1>2, <1>6
    <2> HIDE DEF kept
    <2> QED BY <1>7, <2>1 DEF CachesUnfold
<1>9. CASE IsCycle(tree)
    <2>1. caches' = kept
        BY <1>9 DEF Return
    <2> HIDE DEF kept
    <2> QED BY <1>4, <1>5, <1>7, <1>8, <2>1 DEF CachesUnfold
<1>10. CASE ~IsCycle(tree)
    <2>1. caches' = ReplaceAt(kept, level, stored)
        BY <1>10 DEF Return
    <2>2. EntryUnfolds(doc, level, key, tree)
        BY <1>3, <1>6, <1>10 DEF EntryUnfolds
    <2>3. \A k \in DOMAIN stored : EntryUnfolds(doc, level, k, stored[k])
        <3>1. level \in 1..level
            BY <1>6
        <3> HIDE DEF kept, tree, key, level
        <3>2. \A k \in DOMAIN kept[level] : EntryUnfolds(doc, level, k, kept[level][k])
            BY <1>8, <3>1
        <3> QED BY <2>2, <3>2 DEF Store
    <2> HIDE DEF kept, stored
    <2>4. /\ Len(caches') = level
          /\ \A l \in 1..level : caches'[l] = IF l = level THEN stored ELSE kept[l]
        <3>1. level \in 1..Len(kept)
            BY <1>6, <1>7
        <3> HIDE DEF level
        <3> QED BY <1>7, <2>1, <3>1, Replaced
    <2>5. CachesUnfold'
        <3> HIDE DEF level
        <3> SUFFICES ASSUME NEW l \in 1..level, NEW k \in DOMAIN caches'[l]
                     PROVE  EntryUnfolds(doc, l, k, caches'[l][k])
            BY <1>4, <2>4 DEF CachesUnfold
        <3>1. CASE l = level
            BY <2>3, <2>4, <3>1
        <3>2. CASE l # level
            BY <1>8, <2>4, <3>2
        <3> QED BY <3>1, <3>2
    <2> QED BY <1>5, <2>5
<1> QED BY <1>9, <1>10

LEMMA InitUnfold == Init => UnfoldInv
<1> SUFFICES ASSUME Init PROVE UnfoldInv
    OBVIOUS
<1> DEFINE empty == [key \in {} |-> Cycle(key)]
<1>1. stack = <<>> /\ results = <<>> /\ caches = <<empty>> /\ Len(<<>>) = 0 /\ DOMAIN empty = {}
    BY DEF Init
<1>2. StackUnfolds
    BY <1>1 DEF StackUnfolds
<1>3. CachesUnfold
    <2> HIDE DEF empty
    <2> QED BY <1>1 DEF CachesUnfold
<1>4. IsSequence(results) /\ ResultsUnfold
    <2>1. IsSequence(results)
        <3>1. <<>> \in Seq(Ref)
            OBVIOUS
        <3> QED BY <1>1, <3>1, SequenceOfAny
    <2>2. DOMAIN results = {}
        BY <1>1
    <2>3. ResultsUnfold
        BY <2>2 DEF ResultsUnfold
    <2> QED BY <2>1, <2>3
<1> QED BY <1>2, <1>3, <1>4 DEF UnfoldInv

(* One step per action.                                                    *)
LEMMA NextUnfold == NamesApart /\ Inv /\ UnfoldInv /\ [Next]_vars => UnfoldInv'
<1> SUFFICES ASSUME NamesApart, Inv, UnfoldInv, [Next]_vars PROVE UnfoldInv'
    OBVIOUS
<1>1. StackUnfolds /\ CachesUnfold /\ IsSequence(results) /\ ResultsUnfold
    BY DEF UnfoldInv
<1>2. UNCHANGED <<doc, caches>> => CachesUnfold'
    BY <1>1 DEF CachesUnfold
<1>3. UNCHANGED <<doc, results>> => (IsSequence(results) /\ ResultsUnfold)'
    BY <1>1 DEF IsSequence, ResultsUnfold
<1>4. UNCHANGED <<doc, stack>> => StackUnfolds'
    BY <1>1 DEF StackUnfolds, CutOK
<1>5. ASSUME ScanNext PROVE UnfoldInv'
    <2>1. PICK n \in todo : stack' = <<RootCall([file |-> Here, name |-> n])>>
        BY <1>5 DEF ScanNext
    <2> DEFINE ref == [file |-> Here, name |-> n]
    <2>2. ref \in Ref /\ stack' = <<RootCall(ref)>> /\ UNCHANGED <<doc, caches, results>>
        BY <1>5, <2>1 DEF Inv, ScalarsOK, Ref, ScanNext
    <2> HIDE DEF ref
    <2> QED BY <1>2, <1>3, <2>2, RootStackUnfolds DEF UnfoldInv
<1>6. ASSUME ScanEnd PROVE UnfoldInv'
    BY <1>2, <1>3, <1>4, <1>6 DEF ScanEnd, UnfoldInv
<1>7. ASSUME NEW ref \in Ref, OperationSchema(ref) PROVE UnfoldInv'
    BY <1>2, <1>3, <1>7, RootStackUnfolds DEF OperationSchema, UnfoldInv
<1>8. ASSUME CutCycle PROVE UnfoldInv'
    <2>1. StackUnfolds'
        BY <1>1, <1>8, CutUnfolds
    <2> QED BY <1>2, <1>3, <1>8, <2>1 DEF CutCycle, UnfoldInv
<1>9. ASSUME CacheHit PROVE UnfoldInv'
    <2> DEFINE total == count + Size(Cache[NextRef])
               tree == Cache[NextRef]
    <2>1. AtReference /\ stack # <<>> /\ NextRef \in DOMAIN Cache
        BY <1>9 DEF CacheHit, AtReference
    <2>2. CASE total > Budget
        <3>1. Abort(total)
            BY <1>9, <2>2 DEF CacheHit
        <3> QED BY <2>1, <3>1, AbortUnfolds
    <2>3. CASE ~(total > Budget)
        <3>1. Take(tree) /\ UNCHANGED <<doc, phase, todo, caches, results>>
            BY <1>9, <2>3 DEF CacheHit
        <3>2. TreeOK(tree)
            BY <2>1, TopOK DEF CacheOK
        <3>3. ~IsCycle(tree) /\ Unfolds(doc, tree, Top.file, NextRef)
            BY <1>1, <2>1, CachedUnfolds
        <3> HIDE DEF tree
        <3>4. StackUnfolds'
            BY <1>1, <2>1, <3>1, <3>2, <3>3, TakeUnfolds
        <3> QED BY <1>2, <1>3, <3>1, <3>4 DEF UnfoldInv
    <2> QED BY <2>2, <2>3
<1>10. ASSUME Missing PROVE UnfoldInv'
    BY <1>10, AbortUnfolds DEF Missing, AtReference
<1>11. ASSUME Enter PROVE UnfoldInv'
    <2> DEFINE body == doc[NextFile][NextRef.name]
               total == IF body.alias THEN count ELSE count + 1
    <2>1. AtReference /\ stack # <<>> /\ Defined
        BY <1>11 DEF Enter, AtReference
    <2>2. CASE total > Budget
        <3>1. Abort(total)
            BY <1>11, <2>2 DEF Enter
        <3> HIDE DEF total
        <3> QED BY <2>1, <3>1, AbortUnfolds
    <2>3. CASE ~(total > Budget)
        <3>1. Push(body) /\ UNCHANGED <<doc, phase, todo, results>>
            BY <1>11, <2>3 DEF Enter
        <3>2. StackUnfolds' /\ CachesUnfold'
            BY <1>1, <2>1, <3>1, PushUnfolds
        <3> QED BY <1>3, <3>1, <3>2 DEF UnfoldInv
    <2> QED BY <2>2, <2>3
<1>12. ASSUME Return PROVE UnfoldInv'
    <2>1. StackUnfolds' /\ CachesUnfold'
        BY <1>1, <1>12, ReturnUnfolds
    <2> QED BY <1>3, <1>12, <2>1 DEF Return, UnfoldInv
<1>13. ASSUME RootReturn PROVE UnfoldInv'
    <2> DEFINE r == [ref |-> Top.key, tree |-> Top.tree]
    <2>1. Len(stack) = 1 /\ Done(Top) /\ stack' = <<>> /\ UNCHANGED <<doc, caches>>
        BY <1>13 DEF RootReturn
    <2>2. StackUnfolds'
        BY <2>1, EmptyStackUnfolds
    <2>3. CASE UNCHANGED results
        BY <1>2, <1>3, <2>1, <2>2, <2>3 DEF UnfoldInv
    <2>4. CASE results' = Append(results, r)
        <3>1. /\ Unfolds(doc, r.tree, Main, r.ref)
              /\ IsCycle(r.tree) =>
                    \A c \in Reachable(doc, Component(Main, r.ref)) : BodyOf(doc, c).alias
            BY <1>1, <2>1, RootUnfolds
        <3> HIDE DEF r
        <3>2. /\ IsSequence(results') /\ Len(results) \in Nat /\ Len(results') = Len(results) + 1
              /\ \A i \in 1..Len(results) : results'[i] = results[i]
              /\ results'[Len(results) + 1] = r
            BY <1>1, <2>4, Pushed
        <3>3. DOMAIN results = 1..Len(results) /\ DOMAIN results' = 1..Len(results')
            BY <1>1, <3>2 DEF IsSequence
        <3>4. ASSUME NEW i \in DOMAIN results'
              PROVE  /\ Unfolds(doc, results'[i].tree, Main, results'[i].ref)
                     /\ IsCycle(results'[i].tree) =>
                           \A c \in Reachable(doc, Component(Main, results'[i].ref)) : BodyOf(doc, c).alias
            <4>1. CASE i \in 1..Len(results)
                BY <1>1, <3>2, <3>3, <4>1 DEF ResultsUnfold
            <4>2. CASE i = Len(results) + 1
                BY <3>1, <3>2, <4>2
            <4> QED BY <3>2, <3>3, <4>1, <4>2
        <3>5. ResultsUnfold'
            BY <2>1, <3>4 DEF ResultsUnfold
        <3> QED BY <1>2, <2>1, <2>2, <3>2, <3>5 DEF UnfoldInv
    <2> QED BY <1>13, <2>3, <2>4 DEF RootReturn
<1>14. ASSUME UNCHANGED vars PROVE UnfoldInv'
    BY <1>2, <1>3, <1>4, <1>14 DEF vars, UnfoldInv
<1> QED BY <1>5, <1>6, <1>7, <1>8, <1>9, <1>10, <1>11, <1>12, <1>13, <1>14 DEF Next, Step

(* Whatever the document, as long as the names of its files are apart: an  *)
(* operation's reference becomes an unfolding of the component it names,   *)
(* and no bare cycle reference unless nothing but aliases of each other    *)
(* are there (resolve and resolve_external, src/openapi/mod.rs:1209,       *)
(* 1261).  That what was cut at a component on the stack is never cached   *)
(* (line 1250) is why.                                                     *)
THEOREM ResultsAreUnfolded == ASSUME NamesApart PROVE Spec => []ResultsUnfold
<1>1. Init => UnfoldInv
    BY InitUnfold
<1>2. Inv /\ UnfoldInv /\ [Next]_vars => UnfoldInv'
    BY NextUnfold
<1>3. UnfoldInv => ResultsUnfold
    BY DEF UnfoldInv
<1> QED BY <1>1, <1>2, <1>3, InvAlways, PTL DEF Spec

-----------------------------------------------------------------------------
(* The count of what was built and copied.                                 *)

(* What another set is mapped onto is no larger than it.                   *)
LEMMA Covered ==
    ASSUME NEW S, IsFiniteSet(S), NEW f, NEW T, \A t \in T : \E s \in S : t = f[s]
    PROVE  IsFiniteSet(T) /\ Cardinality(T) <= Cardinality(S)
<1> DEFINE image == {f[s] : s \in S}
           g == [s \in S |-> f[s]]
<1>1. g \in Surjection(S, image)
    BY DEF Surjection
<1>2. T \subseteq image
    OBVIOUS
<1> HIDE DEF g, image
<1>3. IsFiniteSet(image) /\ Cardinality(image) <= Cardinality(S)
    BY <1>1, FS_Surjection
<1>4. IsFiniteSet(T) /\ Cardinality(T) <= Cardinality(image)
    BY <1>2, <1>3, FS_Subset
<1> QED BY <1>3, <1>4, FS_CardinalityType

(* Together, two sets have at most the members of each.                    *)
LEMMA UnionAtMost ==
    ASSUME NEW S, IsFiniteSet(S), NEW T, IsFiniteSet(T)
    PROVE  IsFiniteSet(S \cup T) /\ Cardinality(S \cup T) <= Cardinality(S) + Cardinality(T)
<1>1. IsFiniteSet(S \cap T)
    BY FS_Intersection
<1>2. Cardinality(S) \in Nat /\ Cardinality(T) \in Nat /\ Cardinality(S \cap T) \in Nat
    BY <1>1, FS_CardinalityType
<1>3. /\ IsFiniteSet(S \cup T)
      /\ Cardinality(S \cup T) = Cardinality(S) + Cardinality(T) - Cardinality(S \cap T)
    BY FS_Union
<1> QED BY <1>2, <1>3

LEMMA NodesOfMember ==
    ASSUME NEW list, NEW x
    PROVE  x \in NodesOf(list) <=>
              \E i \in DOMAIN list : \E p \in NodePaths(list[i].tree) : x = <<i, p>>
BY DEF NodesOf

LEMMA NodesAppended ==
    ASSUME NEW list, IsSequence(list), NEW r
    PROVE  NodesOf(Append(list, r)) \subseteq
              NodesOf(list) \cup ({Len(list) + 1} \X NodePaths(r.tree))
<1> DEFINE longer == Append(list, r)
           n == Len(list)
<1>1. /\ IsSequence(longer) /\ n \in Nat /\ Len(longer) = n + 1
      /\ \A i \in 1..n : longer[i] = list[i]
      /\ longer[n + 1] = r
    BY Pushed
<1>2. DOMAIN list = 1..n /\ DOMAIN longer = 1..n + 1
    BY <1>1 DEF IsSequence
<1> HIDE DEF longer
<1>3. ASSUME NEW t \in NodesOf(longer)
      PROVE  t \in NodesOf(list) \cup ({n + 1} \X NodePaths(r.tree))
    <2>1. PICK i \in 1..n + 1 : \E p \in NodePaths(longer[i].tree) : t = <<i, p>>
        BY <1>2, NodesOfMember
    <2>2. CASE i \in 1..n
        BY <1>1, <1>2, <2>1, <2>2, NodesOfMember
    <2>3. CASE i = n + 1
        BY <1>1, <2>1, <2>3
    <2> QED BY <1>1, <2>2, <2>3
<1> QED BY <1>3 DEF longer

(* The nodes of a schema, whatever stands before their paths, are at most  *)
(* its size.                                                               *)
LEMMA NodesWithinSize ==
    ASSUME NEW tree, TreeOK(tree), NEW tag
    PROVE  /\ IsFiniteSet({tag} \X NodePaths(tree))
           /\ Cardinality({tag} \X NodePaths(tree)) <= Size(tree)
<1> DEFINE f == [p \in DOMAIN tree |-> <<tag, p>>]
           T == {tag} \X NodePaths(tree)
<1>1. \A t \in T : \E p \in DOMAIN tree : t = f[p]
    BY DEF NodePaths
<1>2. IsFiniteSet(DOMAIN tree)
    BY DEF TreeOK
<1> HIDE DEF f, T
<1>3. IsFiniteSet(T) /\ Cardinality(T) <= Cardinality(DOMAIN tree)
    BY <1>1, <1>2, Covered
<1> QED BY <1>3 DEF T, Size

(* The nodes that wait in the calls below m, and those of the schema m has *)
(* got, are all there is on the stack then.                                *)
LEMMA GrownCovered ==
    ASSUME Inv, NEW m \in 1..Len(stack), ~Done(stack[m]), NEW tree, TreeOK(tree), Grown(m, tree),
           NEW tag, tag \notin 1..m, NEW S, IsFiniteSet(S),
           \A i \in 1..m : \A p \in NodePaths(stack[i].tree) : <<i, p>> \in S,
           \A q \in NodePaths(tree) : <<tag, q>> \in S
    PROVE  IsFiniteSet(NodesOf(stack')) /\ Cardinality(NodesOf(stack')) <= Cardinality(S)
<1> DEFINE k == stack[m].next
           old == stack[m].tree
           f == [s \in S |-> IF s[1] = tag
                             THEN <<m, IF stack[m].alias THEN s[2] ELSE <<k>> \o s[2]>>
                             ELSE s]
           held == NodesOf(stack')
<1>1. CallOK(stack[m]) /\ m \in Nat \ {0}
    BY Pushed DEF Inv, StackOK
<1>2. k \in Nat /\ TreeOK(old)
    BY <1>1 DEF CallOK
<1>3. stack'[m].tree = IF stack[m].alias THEN tree ELSE Graft(old, k, tree)
    <2>1. stack'[m] = Resolved(stack[m], tree)
        BY <1>1 DEF Grown
    <2> QED BY <1>1, <2>1, ResolvedOK
<1>4. DOMAIN stack' = 1..m
    BY <1>1 DEF Grown, IsSequence
<1>5. ASSUME NEW i \in 1..m, NEW p, <<i, p>> \in S PROVE f[<<i, p>>] = <<i, p>>
    BY <1>5
<1>6. ASSUME NEW q \in NodePaths(tree)
      PROVE  f[<<tag, q>>] = <<m, IF stack[m].alias THEN q ELSE <<k>> \o q>>
    <2>1. <<tag, q>> \in S /\ <<tag, q>>[1] = tag /\ <<tag, q>>[2] = q
        OBVIOUS
    <2> QED BY <2>1
<1>7. ASSUME NEW t \in held PROVE \E s \in S : t = f[s]
    <2>1. PICK i \in 1..m : \E p \in NodePaths(stack'[i].tree) : t = <<i, p>>
        BY <1>4, NodesOfMember
    <2>2. PICK p \in NodePaths(stack'[i].tree) : t = <<i, p>>
        BY <2>1
    <2> HIDE DEF f
    <2>3. CASE i # m
        <3>1. p \in NodePaths(stack[i].tree)
            BY <2>3 DEF Grown
        <3> QED BY <1>5, <2>2, <3>1
    <2>4. CASE i = m /\ stack[m].alias
        <3>1. p \in NodePaths(tree)
            BY <1>3, <2>4
        <3> QED BY <1>6, <2>2, <2>4, <3>1
    <2>5. CASE i = m /\ ~stack[m].alias
        <3> DEFINE g == Graft(old, k, tree)
        <3>1. p \in DOMAIN g /\ g[p].kind = "node"
            BY <1>3, <2>5 DEF NodePaths
        <3>2. Grafted(old, k, tree, g)
            BY <1>2, GraftShape
        <3> HIDE DEF g
        <3>3. CASE p \in DOMAIN old
            <4>1. p \in NodePaths(stack[m].tree)
                BY <3>1, <3>2, <3>3 DEF Grafted, NodePaths
            <4> QED BY <1>5, <2>2, <2>5, <4>1
        <3>4. CASE p \notin DOMAIN old
            <4>1. PICK q \in DOMAIN tree : p = <<k>> \o q
                BY <3>1, <3>2, <3>4 DEF Grafted
            <4>2. q \in NodePaths(tree)
                BY <3>1, <3>2, <3>4, <4>1 DEF Grafted, NodePaths
            <4> QED BY <1>6, <2>2, <2>5, <4>1, <4>2
        <3> QED BY <3>3, <3>4
    <2> QED BY <2>3, <2>4, <2>5
<1> HIDE DEF f, held
<1>8. IsFiniteSet(held) /\ Cardinality(held) <= Cardinality(S)
    BY <1>7, Covered
<1> QED BY <1>8 DEF held

(* What was charged covers what was handed out and what is being built.    *)
PaidInv ==
    /\ IsSequence(results)
    /\ IsFiniteSet(NodesOf(results)) /\ IsFiniteSet(NodesOf(stack))
    /\ Cardinality(NodesOf(results)) + Cardinality(NodesOf(stack)) <= count

(* The numbers the invariant speaks of.                                    *)
LEMMA PaidNumbers ==
    ASSUME Inv, PaidInv
    PROVE  /\ count \in Nat
           /\ Cardinality(NodesOf(results)) \in Nat /\ Cardinality(NodesOf(stack)) \in Nat
           /\ Cardinality(NodesOf(results)) + Cardinality(NodesOf(stack)) <= count
BY FS_CardinalityType DEF Inv, ScalarsOK, PaidInv

(* A stack whose new nodes are paid for.                                   *)
LEMMA PaidStack ==
    ASSUME Inv, PaidInv, UNCHANGED results, NEW price \in Nat, count' = count + price,
           IsFiniteSet(NodesOf(stack')),
           Cardinality(NodesOf(stack')) <= Cardinality(NodesOf(stack)) + price
    PROVE  PaidInv'
<1>1. IsSequence(results') /\ NodesOf(results') = NodesOf(results) /\ IsFiniteSet(NodesOf(results'))
    BY DEF PaidInv
<1>2. Cardinality(NodesOf(stack')) \in Nat
    BY FS_CardinalityType
<1>3. Cardinality(NodesOf(results')) + Cardinality(NodesOf(stack')) <= count'
    BY <1>1, <1>2, PaidNumbers
<1> QED BY <1>1, <1>3 DEF PaidInv

LEMMA NoNodes ==
    ASSUME NEW list, DOMAIN list = {} \/ \A i \in DOMAIN list : NodePaths(list[i].tree) = {}
    PROVE  NodesOf(list) = {} /\ IsFiniteSet(NodesOf(list)) /\ Cardinality(NodesOf(list)) = 0
<1>1. NodesOf(list) = {}
    BY DEF NodesOf
<1> QED BY <1>1, FS_EmptySet

(* Dropping the stack, whatever more was charged.                          *)
LEMMA PaidDropped ==
    ASSUME Inv, PaidInv, UNCHANGED results, stack' = <<>>, NEW price \in Nat, count' = count + price
    PROVE  PaidInv'
<1>1. IsFiniteSet(NodesOf(stack')) /\ Cardinality(NodesOf(stack')) = 0
    BY NoNodes, DOMAIN <<>> = {}
<1>2. Cardinality(NodesOf(stack')) <= Cardinality(NodesOf(stack)) + price
    BY <1>1, PaidNumbers
<1> QED BY <1>1, <1>2, PaidStack

(* The root of a resolution has no node yet.                               *)
LEMMA PaidRoot ==
    ASSUME Inv, PaidInv, NEW ref \in Ref, stack' = <<RootCall(ref)>>, UNCHANGED <<results, count>>
    PROVE  PaidInv'
<1> DEFINE x == RootCall(ref)
<1>1. x.tree = NoSchema
    BY DEF RootCall, Call
<1>2. NodePaths(x.tree) = {}
    BY <1>1 DEF NoSchema, NodePaths
<1> HIDE DEF x
<1>3. DOMAIN stack' = {1} /\ stack'[1] = x
    BY DEF x
<1>4. \A i \in DOMAIN stack' : NodePaths(stack'[i].tree) = {}
    BY <1>2, <1>3
<1>5. IsFiniteSet(NodesOf(stack')) /\ Cardinality(NodesOf(stack')) = 0
    BY <1>4, NoNodes
<1>6. 0 \in Nat /\ count' = count + 0 /\ Cardinality(NodesOf(stack')) <= Cardinality(NodesOf(stack)) + 0
    BY <1>5, PaidNumbers
<1> QED BY <1>5, <1>6, PaidStack

(* A schema that is taken is charged by its size, or has no nodes.         *)
LEMMA PaidTake ==
    ASSUME Inv, PaidInv, AtReference, NEW tree, TreeOK(tree), Take(tree), UNCHANGED results,
           NEW price \in Nat, count' = count + price,
           \/ price = Size(tree)
           \/ NodePaths(tree) = {}
    PROVE  PaidInv'
<1> DEFINE n == Len(stack)
           taken == {0} \X NodePaths(tree)
           S == NodesOf(stack) \cup taken
<1>1. n \in Nat \ {0} /\ n \in 1..Len(stack) /\ ~Done(stack[n]) /\ Grown(n, tree)
    BY TakeGrows
<1>2. IsFiniteSet(taken) /\ Cardinality(taken) <= price
    <2>1. CASE price = Size(tree)
        BY <2>1, NodesWithinSize
    <2>2. CASE NodePaths(tree) = {}
        <3>1. taken = {}
            BY <2>2
        <3> QED BY <3>1, FS_EmptySet
    <2> QED BY <2>1, <2>2
<1>3. IsFiniteSet(S) /\ Cardinality(S) <= Cardinality(NodesOf(stack)) + price
    <2> HIDE DEF taken
    <2>1. IsFiniteSet(NodesOf(stack))
        BY DEF PaidInv
    <2>2. /\ IsFiniteSet(S)
          /\ Cardinality(S) <= Cardinality(NodesOf(stack)) + Cardinality(taken)
        BY <1>2, <2>1, UnionAtMost
    <2> QED BY <1>2, <2>1, <2>2, FS_CardinalityType
<1>4. \A i \in 1..n : \A p \in NodePaths(stack[i].tree) : <<i, p>> \in S
    <2>1. DOMAIN stack = 1..n
        BY DEF Inv, StackOK, IsSequence
    <2> HIDE DEF n, taken
    <2> QED BY <2>1, NodesOfMember
<1>5. \A q \in NodePaths(tree) : <<0, q>> \in S
    OBVIOUS
<1>6. 0 \notin 1..n
    OBVIOUS
<1> HIDE DEF n, S
<1>7. IsFiniteSet(NodesOf(stack')) /\ Cardinality(NodesOf(stack')) <= Cardinality(S)
    BY <1>1, <1>3, <1>4, <1>5, <1>6, GrownCovered
<1>8. Cardinality(NodesOf(stack')) <= Cardinality(NodesOf(stack)) + price
    BY <1>3, <1>7, PaidNumbers, FS_CardinalityType
<1> QED BY <1>7, <1>8, PaidStack

(* A new call has one node, or none if it is an alias.                     *)
LEMMA PaidPush ==
    ASSUME Inv, PaidInv, AtReference, NEW body \in Body,
           body.alias => Len(body.refs) = 1, Push(body), UNCHANGED results,
           NEW price \in Nat, count' = count + price, ~body.alias => price = 1
    PROVE  PaidInv'
<1> DEFINE n == Len(stack)
           x == PushedCall(body)
           new == IF body.alias THEN {} ELSE {<<n + 1, <<>>>>}
           S == NodesOf(stack) \cup new
<1>1. /\ n \in Nat \ {0}
      /\ x.tree = IF body.alias THEN NoSchema
                  ELSE Leaf("node", [file |-> NextFile, name |-> NextRef.name])
      /\ IsSequence(stack') /\ Len(stack') = n + 1
      /\ \A i \in 1..n : stack'[i] = stack[i]
      /\ stack'[n + 1] = x
    BY PushGrows
<1>2. IsFiniteSet(new) /\ Cardinality(new) <= price
    <2>1. CASE body.alias
        BY <2>1, FS_EmptySet
    <2>2. CASE ~body.alias
        <3>1. new = {<<n + 1, <<>>>>} /\ price = 1
            BY <2>2
        <3> HIDE DEF new
        <3>2. IsFiniteSet(new) /\ Cardinality(new) = 1
            BY <3>1, FS_Singleton, Zenon
        <3> QED BY <3>1, <3>2
    <2> QED BY <2>1, <2>2
<1>3. \A p \in NodePaths(x.tree) : <<n + 1, p>> \in new
    <2>1. CASE body.alias
        BY <1>1, <2>1 DEF NoSchema, NodePaths
    <2>2. CASE ~body.alias
        <3> DEFINE at == [file |-> NextFile, name |-> NextRef.name]
        <3> HIDE DEF x
        <3>1. x.tree = Leaf("node", at)
            BY <1>1, <2>2, Zenon
        <3> HIDE DEF at
        <3>2. DOMAIN Leaf("node", at) = {<<>>}
            BY LeafOK
        <3> QED BY <2>2, <3>1, <3>2 DEF NodePaths
    <2> QED BY <2>1, <2>2
<1>4. IsFiniteSet(S) /\ Cardinality(S) <= Cardinality(NodesOf(stack)) + price
    <2> HIDE DEF new
    <2>1. IsFiniteSet(NodesOf(stack))
        BY DEF PaidInv
    <2>2. /\ IsFiniteSet(S)
          /\ Cardinality(S) <= Cardinality(NodesOf(stack)) + Cardinality(new)
        BY <1>2, <2>1, UnionAtMost
    <2> QED BY <1>2, <2>1, <2>2, FS_CardinalityType
<1>5. NodesOf(stack') \subseteq S
    <2> HIDE DEF x, new
    <2> SUFFICES ASSUME NEW t \in NodesOf(stack') PROVE t \in S
        OBVIOUS
    <2>1. DOMAIN stack = 1..n /\ DOMAIN stack' = 1..n + 1
        BY <1>1 DEF Inv, StackOK, IsSequence
    <2>2. PICK i \in 1..n + 1 : \E p \in NodePaths(stack'[i].tree) : t = <<i, p>>
        BY <2>1, NodesOfMember
    <2>3. CASE i \in 1..n
        BY <1>1, <2>1, <2>2, <2>3, NodesOfMember
    <2>4. CASE i = n + 1
        BY <1>1, <1>3, <2>2, <2>4
    <2> QED BY <1>1, <2>3, <2>4
<1> HIDE DEF S
<1>6. IsFiniteSet(NodesOf(stack')) /\ Cardinality(NodesOf(stack')) <= Cardinality(S)
    BY <1>4, <1>5, FS_Subset
<1>7. Cardinality(NodesOf(stack')) <= Cardinality(NodesOf(stack)) + price
    BY <1>4, <1>6, PaidNumbers, FS_CardinalityType
<1> QED BY <1>6, <1>7, PaidStack

(* Returning moves nodes down the stack.                                   *)
LEMMA PaidReturn ==
    ASSUME Inv, PaidInv, Return
    PROVE  PaidInv'
<1> DEFINE n == Len(stack) - 1
           tree == Top.tree
           S == NodesOf(stack)
<1>1. /\ stack # <<>> /\ Len(stack) \in Nat /\ n \in Nat \ {0} /\ n + 1 = Len(stack)
      /\ n \in 1..Len(stack) /\ stack[Len(stack)] = Top
      /\ ~Done(stack[n]) /\ Grown(n, tree)
    BY ReturnGrows
<1>2. TreeOK(tree)
    BY <1>1, TopOK DEF CallOK
<1>3. DOMAIN stack = 1..Len(stack)
    BY DEF Inv, StackOK, IsSequence
<1>4. Len(stack) \notin 1..n /\ Len(stack) \in 1..Len(stack) /\ \A i \in 1..n : i \in 1..Len(stack)
    BY <1>1
<1> HIDE DEF n
<1>5. \A i \in 1..n : \A p \in NodePaths(stack[i].tree) : <<i, p>> \in S
    BY <1>3, <1>4, NodesOfMember
<1>6. \A q \in NodePaths(tree) : <<Len(stack), q>> \in S
    BY <1>1, <1>3, <1>4, NodesOfMember
<1>7. IsFiniteSet(S)
    BY DEF PaidInv
<1> HIDE DEF tree, S
<1>8. IsFiniteSet(NodesOf(stack')) /\ Cardinality(NodesOf(stack')) <= Cardinality(S)
    BY <1>1, <1>2, <1>4, <1>5, <1>6, <1>7, GrownCovered
<1>9. UNCHANGED results /\ count' = count + 0 /\ 0 \in Nat
    BY PaidNumbers DEF Return
<1>10. Cardinality(NodesOf(stack')) <= Cardinality(NodesOf(stack)) + 0
    BY <1>8, PaidNumbers, FS_CardinalityType DEF S
<1> QED BY <1>8, <1>9, <1>10, PaidStack

(* Handing out a schema takes its nodes off the stack.                     *)
LEMMA PaidResult ==
    ASSUME Inv, PaidInv, Len(stack) = 1, stack' = <<>>, UNCHANGED count,
           results' = Append(results, [ref |-> Top.key, tree |-> Top.tree])
    PROVE  PaidInv'
<1> DEFINE r == [ref |-> Top.key, tree |-> Top.tree]
           n == Len(results)
           new == {n + 1} \X NodePaths(r.tree)
           f == [s \in NodesOf(stack) |-> <<n + 1, s[2]>>]
<1>1. r.tree = stack[1].tree /\ DOMAIN stack = 1..1
    BY DEF Top, Last, Inv, StackOK, IsSequence
<1>2. results' = Append(results, r)
    OBVIOUS
<1>3. \A t \in new : \E s \in NodesOf(stack) : t = f[s]
    <2> SUFFICES ASSUME NEW p \in NodePaths(r.tree)
                 PROVE  \E s \in NodesOf(stack) : <<n + 1, p>> = f[s]
        OBVIOUS
    <2>1. <<1, p>> \in NodesOf(stack)
        BY <1>1, NodesOfMember
    <2>2. f[<<1, p>>] = <<n + 1, p>>
        BY <2>1
    <2> QED BY <2>1, <2>2
<1> HIDE DEF r, f
<1>4. IsFiniteSet(new) /\ Cardinality(new) <= Cardinality(NodesOf(stack))
    <2> HIDE DEF new
    <2> QED BY <1>3, Covered DEF PaidInv
<1>5. IsSequence(results')
    BY <1>2, Pushed DEF PaidInv
<1> DEFINE S == NodesOf(results) \cup new
<1>6. NodesOf(Append(results, r)) \subseteq S
    BY NodesAppended DEF PaidInv
<1>7. NodesOf(results') \subseteq S
    BY <1>2, <1>6
<1>8. IsFiniteSet(S) /\ Cardinality(S) <= Cardinality(NodesOf(results)) + Cardinality(new)
    <2> HIDE DEF new
    <2> QED BY <1>4, UnionAtMost DEF PaidInv
<1> HIDE DEF S, new
<1>9. IsFiniteSet(NodesOf(results')) /\ Cardinality(NodesOf(results')) <= Cardinality(S)
    BY <1>7, <1>8, FS_Subset
<1>10. IsFiniteSet(NodesOf(stack')) /\ Cardinality(NodesOf(stack')) = 0
    BY NoNodes, DOMAIN <<>> = {}
<1>11. Cardinality(NodesOf(results')) + Cardinality(NodesOf(stack')) <= count'
    <2>1. /\ Cardinality(NodesOf(results')) \in Nat /\ Cardinality(S) \in Nat
          /\ Cardinality(new) \in Nat
        BY <1>4, <1>8, <1>9, FS_CardinalityType
    <2> QED BY <1>4, <1>8, <1>9, <1>10, <2>1, PaidNumbers
<1> QED BY <1>5, <1>9, <1>10, <1>11 DEF PaidInv

LEMMA InitPaid == Init => PaidInv
<1> SUFFICES ASSUME Init PROVE PaidInv
    OBVIOUS
<1>1. results = <<>> /\ stack = <<>> /\ count = 0 /\ DOMAIN <<>> = {}
    BY DEF Init
<1>2. IsSequence(results)
    <2>1. <<>> \in Seq(Ref)
        OBVIOUS
    <2> QED BY <1>1, <2>1, SequenceOfAny
<1>3. /\ IsFiniteSet(NodesOf(results)) /\ Cardinality(NodesOf(results)) = 0
      /\ IsFiniteSet(NodesOf(stack)) /\ Cardinality(NodesOf(stack)) = 0
    BY <1>1, NoNodes
<1> QED BY <1>1, <1>2, <1>3 DEF PaidInv

(* One step per action.                                                    *)
LEMMA NextPaid == Inv /\ PaidInv /\ [Next]_vars => PaidInv'
<1> SUFFICES ASSUME Inv, PaidInv, [Next]_vars PROVE PaidInv'
    OBVIOUS
<1>1. count \in Nat /\ 0 \in Nat /\ 1 \in Nat /\ count + 0 = count
    BY PaidNumbers
<1>2. UNCHANGED <<stack, count, results>> => PaidInv'
    BY DEF PaidInv, IsSequence
<1>3. ASSUME ScanNext PROVE PaidInv'
    <2>1. PICK n \in todo : stack' = <<RootCall([file |-> Here, name |-> n])>>
        BY <1>3 DEF ScanNext
    <2> DEFINE ref == [file |-> Here, name |-> n]
    <2>2. ref \in Ref /\ stack' = <<RootCall(ref)>> /\ UNCHANGED <<count, results>>
        BY <1>3, <2>1 DEF Inv, ScalarsOK, Ref, ScanNext
    <2> HIDE DEF ref
    <2> QED BY <2>2, PaidRoot
<1>4. ASSUME ScanEnd PROVE PaidInv'
    BY <1>2, <1>4 DEF ScanEnd
<1>5. ASSUME NEW ref \in Ref, OperationSchema(ref) PROVE PaidInv'
    BY <1>5, PaidRoot DEF OperationSchema
<1>6. ASSUME CutCycle PROVE PaidInv'
    <2> DEFINE tree == Cycle(NextRef)
    <2>1. AtReference /\ Take(tree) /\ UNCHANGED results /\ count' = count + 0
        BY <1>1, <1>6 DEF CutCycle
    <2>2. TreeOK(tree) /\ DOMAIN tree = {<<>>} /\ tree[<<>>].kind = "cycle"
        <3>1. /\ TreeOK(tree) /\ DOMAIN tree = {<<>>}
              /\ tree[<<>>] = [kind |-> "cycle", at |-> NextRef]
            BY LeafOK, Zenon DEF Cycle
        <3> HIDE DEF tree
        <3> QED BY <3>1
    <2> HIDE DEF tree
    <2>3. NodePaths(tree) = {}
        BY <2>2 DEF NodePaths
    <2> QED BY <1>1, <2>1, <2>2, <2>3, PaidTake
<1>7. ASSUME CacheHit PROVE PaidInv'
    <2> DEFINE tree == Cache[NextRef]
               total == count + Size(tree)
    <2>1. AtReference /\ stack # <<>> /\ NextRef \in DOMAIN Cache
        BY <1>7 DEF CacheHit, AtReference
    <2>2. TreeOK(tree)
        BY <2>1, TopOK DEF CacheOK
    <2>3. Size(tree) \in Nat
        BY <2>2, SizeOK
    <2>4. CASE total > Budget
        <3>1. Abort(total)
            BY <1>7, <2>4 DEF CacheHit
        <3>2. count' = count + Size(tree) /\ stack' = <<>> /\ UNCHANGED results
            BY <3>1 DEF Abort
        <3> HIDE DEF tree
        <3> QED BY <2>3, <3>2, PaidDropped
    <2>5. CASE ~(total > Budget)
        <3>1. count' = count + Size(tree) /\ Take(tree) /\ UNCHANGED results
            BY <1>7, <2>5 DEF CacheHit
        <3> HIDE DEF tree
        <3> QED BY <2>1, <2>2, <2>3, <3>1, PaidTake
    <2> QED BY <2>4, <2>5
<1>8. ASSUME Missing PROVE PaidInv'
    <2>1. count' = count + 0 /\ stack' = <<>> /\ UNCHANGED results
        BY <1>1, <1>8 DEF Missing, Abort
    <2> QED BY <1>1, <2>1, PaidDropped
<1>9. ASSUME Enter PROVE PaidInv'
    <2> DEFINE body == doc[NextFile][NextRef.name]
               price == IF body.alias THEN 0 ELSE 1
               total == IF body.alias THEN count ELSE count + 1
    <2>1. AtReference /\ Defined
        BY <1>9 DEF Enter
    <2>2. price \in Nat /\ total = count + price
        BY <1>1
    <2>3. body \in Body /\ (body.alias => Len(body.refs) = 1)
        BY <2>1, NextRefOK, DocumentAssumption DEF Defined, Inv, ScalarsOK
    <2>4. ~body.alias => price = 1
        OBVIOUS
    <2>5. CASE total > Budget
        <3>1. Abort(total)
            BY <1>9, <2>5 DEF Enter
        <3> HIDE DEF total
        <3>2. count' = total /\ stack' = <<>> /\ UNCHANGED results
            BY <3>1 DEF Abort
        <3> HIDE DEF price
        <3> QED BY <2>2, <3>2, PaidDropped
    <2>6. CASE ~(total > Budget)
        <3>1. count' = total /\ Push(body) /\ UNCHANGED results
            BY <1>9, <2>6 DEF Enter
        <3> HIDE DEF body, price, total
        <3> QED BY <2>1, <2>2, <2>3, <2>4, <3>1, PaidPush
    <2> QED BY <2>5, <2>6
<1>10. ASSUME Return PROVE PaidInv'
    BY <1>10, PaidReturn
<1>11. ASSUME RootReturn PROVE PaidInv'
    <2>1. Len(stack) = 1 /\ stack' = <<>> /\ UNCHANGED count
        BY <1>11 DEF RootReturn
    <2>2. CASE UNCHANGED results
        <3>1. count' = count + 0
            BY <1>1, <2>1
        <3> QED BY <1>1, <2>1, <2>2, <3>1, PaidDropped
    <2>3. CASE results' = Append(results, [ref |-> Top.key, tree |-> Top.tree])
        BY <2>1, <2>3, PaidResult
    <2> QED BY <1>11, <2>2, <2>3 DEF RootReturn
<1>12. ASSUME UNCHANGED vars PROVE PaidInv'
    BY <1>2, <1>12 DEF vars
<1> QED BY <1>3, <1>4, <1>5, <1>6, <1>7, <1>8, <1>9, <1>10, <1>11, <1>12 DEF Next, Step

(* Whatever the document, the nodes that were handed out are covered by    *)
(* the count the budget is compared with, copies from the caches included  *)
(* (src/openapi/mod.rs:1059): nothing is given that was not charged.       *)
THEOREM CountIsCovered == Spec => []CountCoversNodes
<1>1. Init => PaidInv
    BY InitPaid
<1>2. Inv /\ PaidInv /\ [Next]_vars => PaidInv'
    BY NextPaid
<1>3. Inv /\ PaidInv => CountCoversNodes
    BY PaidNumbers DEF CountCoversNodes
<1> QED BY <1>1, <1>2, <1>3, InvAlways, PTL DEF Spec

=============================================================================
