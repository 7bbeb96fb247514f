---------------------------- MODULE MCLockStore -----------------------------
(***************************************************************************)
(* Small instances of LockStore for TLC: two names, in the order of the    *)
(* map's keys, two contracts, two recorded bodies, and for each run the    *)
(* commands it is about.                                                   *)
(***************************************************************************)
EXTENDS LockSerial, TLC

CONSTANTS c1, c2, s1, s2

MCNames == {1, 2}
MCContracts == {c1, c2}
MCSamples == {s1, s2}
MCThresholds == {5, 10}

Cmd(op, name, contract) ==
    [op |-> op, name |-> name, contract |-> contract, calls |-> <<>>]
RecordCmd(calls) ==
    [op |-> "record", name |-> 1, contract |-> c1, calls |-> calls]
Call(name, samples, merge, threshold, mapAt) ==
    [name |-> name, samples |-> samples, merge |-> merge,
     threshold |-> threshold, mapAt |-> mapAt]

InitCmd == Cmd("init", 1, c1)
LockCmds == {Cmd("lock", 1, c1)}
UpdateCmds == {Cmd("update", 1, c1), Cmd("update", 1, c2), Cmd("update", 2, c2)}
RecordCmds ==
    {RecordCmd(<<Call(1, {s1}, FALSE, 5, FALSE)>>),
     RecordCmd(<<Call(2, {s2}, TRUE, None, TRUE)>>),
     RecordCmd(<<Call(2, {s1}, TRUE, 5, FALSE)>>),
     RecordCmd(HarNamedCalls(2, <<s1, s2>>, None, FALSE)),
     RecordCmd(HarKeyedCalls(<<[name |-> 1, bodies |-> {s1, s2}],
                               [name |-> 2, bodies |-> {s2}]>>, FALSE, 5, FALSE))}
VerifyCmds == {Cmd("verify", 1, c1), Cmd("verify", 2, c1)}

AllCommands == {InitCmd} \cup LockCmds \cup UpdateCmds \cup RecordCmds \cup VerifyCmds
LockFamily == LockCmds \cup UpdateCmds \cup VerifyCmds
RaceCommands ==
    {InitCmd, Cmd("lock", 1, c1), Cmd("update", 1, c2),
     RecordCmd(<<Call(2, {s1}, FALSE, 5, FALSE)>>),
     RecordCmd(<<Call(2, {s2}, TRUE, None, TRUE)>>),
     Cmd("verify", 2, c1)}

(* Locks of older releases: route-only (v1, v2) and partial (v3) entries,  *)
(* sole or not, with and without an observed entry.                        *)
Doc(version, declared, observed) ==
    [version |-> version, declared |-> declared, observed |-> observed]
Obs(samples, threshold) == [samples |-> samples, threshold |-> threshold]

OldDocs ==
    {Doc(1, (1 :> c1 @@ 2 :> None), EmptyMap),
     Doc(1, (1 :> c1 @@ 2 :> c2), EmptyMap),
     Doc(2, (1 :> c1 @@ 2 :> None), (1 :> None @@ 2 :> Obs({s1}, 5))),
     Doc(3, (1 :> c1 @@ 2 :> c1), EmptyMap),
     Doc(3, (1 :> c1 @@ 2 :> None), (1 :> None @@ 2 :> Obs({s1}, 10)))}
CurrentDocs == {Doc(4, (1 :> c1 @@ 2 :> None), (1 :> None @@ 2 :> Obs({s1}, 5)))}
SomeDocs == OldDocs \cup CurrentDocs
NoDocs == {}

(* The race: two updates of different names.                               *)
UpdatePair == {Cmd("update", 1, c2), Cmd("update", 2, c2)}
OneDeclared == {Doc(4, (1 :> c1 @@ 2 :> None), EmptyMap)}
=============================================================================
