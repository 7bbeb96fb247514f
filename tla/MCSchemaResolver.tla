-------------------------- MODULE MCSchemaResolver ---------------------------
(***************************************************************************)
(* Small documents for TLC: three components in one file, whose bodies are *)
(* aliases or nodes with at most two references, and four components       *)
(* spread over two files.                                                  *)
(***************************************************************************)
EXTENDS SchemaExpansion

CONSTANTS main, other, here

MCNames == 1..4
MCFiles == {main, other}

Local(n) == [file |-> here, name |-> n]
In(f, n) == [file |-> f, name |-> n]
Alias(ref) == [alias |-> TRUE, refs |-> <<ref>>]
Object(refs) == [alias |-> FALSE, refs |-> refs]

(* Bodies with at most two references, to different components.            *)
Bodies(refs) ==
    {Object(<<>>)} \cup {Alias(r) : r \in refs} \cup {Object(<<r>>) : r \in refs}
      \cup {Object(<<r, s>>) : <<r, s>> \in {<<t, u>> \in refs \X refs : t # u}}

Nothing == [n \in {} |-> Object(<<>>)]
Split(mainDoc, otherDoc) ==
    [f \in MCFiles |-> IF f = main THEN mainDoc ELSE otherDoc]

(* One file: the graphs of three components, and documents in which a      *)
(* reference has no target.                                                *)
Everyone == {Local(1), Local(2), Local(3)}
OneFile ==
    {Split(d, Nothing) :
        d \in {e \in [1..3 -> Bodies(Everyone)] :
                 e[3] \in {Object(<<>>), Alias(Local(1)), Object(<<Local(2)>>),
                           Object(<<Local(2), Local(1)>>)}}}
      \cup {Split(d, Nothing) : d \in [1..2 -> Bodies({Local(2), Local(4)})]}

(* Two files with different names: 1 and 2 in the document, 3 and 4 in the *)
(* other file, which may refer back.                                       *)
Three == In(other, 3)
TwoFiles ==
    {Split([n \in 1..2 |-> IF n = 1 THEN a ELSE b], [n \in 3..4 |-> IF n = 3 THEN c ELSE d]) :
        a \in {Alias(Three), Object(<<Three>>), Object(<<Local(2), Three>>)},
        b \in {Object(<<>>), Alias(Three), Object(<<Local(1)>>), Object(<<Local(1), Three>>)},
        c \in Bodies({Local(4), In(main, 2)}),
        d \in {Object(<<>>), Alias(Local(3)), Object(<<Local(3)>>), Object(<<In(main, 1)>>)}}
SingleOrSplit == OneFile \cup TwoFiles

ASSUME NamesApart
=============================================================================
