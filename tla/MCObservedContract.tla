------------------------- MODULE MCObservedContract --------------------------
(***************************************************************************)
(* Small bodies for TLC: every kind of JSON value, objects with two keys,  *)
(* nested objects, empty collections, arrays of one kind and of mixed      *)
(* kinds.                                                                  *)
(***************************************************************************)
EXTENDS ObservedContract

MCKeys == {1, 2}

Nul == Scalar("null")
Num == Scalar("number")
Str == Scalar("string")
Arr(items) == JsonArray(items)
A(value) == JsonObject(1 :> value)
AB(a, b) == JsonObject(1 :> a @@ 2 :> b)
EmptyObject == JsonObject(NoProps)

PlainBodies ==
    {Nul, Num, EmptyObject, A(Num), A(Str), AB(Nul, Num), AB(A(Num), Arr(<<>>)),
     Arr(<<>>), Arr(<<Num, Num>>), Arr(<<Num, Str>>), Arr(<<A(Num), EmptyObject>>),
     A(Arr(<<Nul>>)), A(A(Num)), A(EmptyObject)}
PlainGroups ==
    {<<b>> : b \in PlainBodies}
      \cup {<<A(Num), A(Str)>>, <<EmptyObject, Arr(<<Num, Str>>)>>, <<Num, A(Num)>>}

MapBodies ==
    {Num, EmptyObject, A(Num), A(Str), AB(Num, Num), A(A(Num)), AB(A(Num), A(Str)),
     A(AB(Num, Str)), A(Arr(<<Num>>)), AB(Num, A(Num))}
MapGroups == {<<b>> : b \in MapBodies} \cup {<<A(A(Num)), AB(A(Num), A(Str))>>}
MCMapAts == {<<>>, << <<>> >>, << <<1>> >>, << <<1>>, <<2>> >>, << <<1>>, <<1, 1>> >>}
NoMapAts == {<<>>}

AllThresholds == {0, 5, 7, 10}
DefaultThreshold == {10}
=============================================================================
