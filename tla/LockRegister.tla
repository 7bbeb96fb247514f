---------------------------- MODULE LockRegister ----------------------------
(***************************************************************************)
(* What api.lock promises to somebody who runs one command at a time: the  *)
(* lock is a register holding a document, and a command replaces it by     *)
(* what the command computes from it, in one step, or leaves it alone.     *)
(* Only the commands that write in place can break this, and only by being *)
(* interrupted while their write is pending: the register then holds a     *)
(* torn text.                                                              *)
(***************************************************************************)
EXTENDS LockDocument

CONSTANTS Commands, InitialDocs

VARIABLES
    current, \* what the register holds
    pending  \* whether an in-place write may still be interrupted

rvars == <<current, pending>>

Value(kind, doc) == [kind |-> kind, doc |-> doc]
NoDocument == [version |-> 4, declared |-> EmptyMap, observed |-> EmptyMap]
Missing == Value("absent", NoDocument)
Damaged == Value("damaged", NoDocument)

RInit ==
    /\ current \in {Missing} \cup {Value("whole", doc) : doc \in InitialDocs}
    /\ pending = FALSE

Loads == current.kind \in {"whole", "torn"} /\ Readable(current.doc)

RCreate(cmd) ==
    /\ cmd.op = "lock"
    /\ current = Missing
    /\ current' = Value("whole", Render(NewV4(cmd.name, cmd.contract)))
    /\ pending' = FALSE

RInitialise(cmd) ==
    /\ cmd.op = "init"
    /\ current = Missing
    /\ current' = Value("whole", NoDocument)
    /\ pending' = TRUE

RUpdate(cmd) ==
    /\ cmd.op = "update"
    /\ Loads
    /\ ReplaceAllowed(Load(current.doc), cmd.name)
    /\ current' = Value("whole",
                    Render(ReplaceDeclared(Load(current.doc), cmd.name, cmd.contract)))
    /\ pending' = FALSE

RRecord(cmd) ==
    LET before == IF current = Missing THEN EmptyLock(2) ELSE Load(current.doc)
        count == Len(cmd.calls) IN
    /\ cmd.op = "record"
    /\ current = Missing \/ Loads
    /\ AllAllowed(before, cmd.calls, count)
    /\ current' = Value("whole", Render(AfterCalls(before, cmd.calls, count)))
    /\ pending' = TRUE

(* The pending write completes, or is interrupted.                         *)
RSettle == pending /\ pending' = FALSE /\ UNCHANGED current

RTear ==
    /\ pending
    /\ current' \in {Damaged} \cup {Value("torn", doc) : doc \in Cuts(current.doc)}
    /\ pending' = FALSE

RNext ==
    \/ ~pending /\ \E cmd \in Commands :
          RCreate(cmd) \/ RInitialise(cmd) \/ RUpdate(cmd) \/ RRecord(cmd)
    \/ RSettle
    \/ RTear

RSpec == RInit /\ [][RNext]_rvars

=============================================================================
