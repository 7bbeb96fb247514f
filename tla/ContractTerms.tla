---------------------------- MODULE ContractTerms ----------------------------
(***************************************************************************)
(* What src/contract/mod.rs and src/diff/mod.rs say of anything but the    *)
(* inside of a schema: identities of authentication schemes, and changes.  *)
(***************************************************************************)
EXTENDS Optional

(* AuthIdentity: what a scheme is, whatever it is called; Unknown is that  *)
(* of a scheme nobody declared, None that of a lock of version 3.          *)
UnknownIdentity == [scheme |-> "unknown", name |-> ""]

UnknownAssumption == UnknownIdentity # None
ASSUME UnknownAssumption

IsKnown(identity) == identity \notin {None, UnknownIdentity}

-----------------------------------------------------------------------------
Usages == {"request", "response"}

Severities == {"breaking", "warning", "nonBreaking"}

Change(at, what, severity) == [at |-> at, what |-> what, severity |-> severity]

(* A request may not take less than before, a response may not give more.  *)
Narrowed(usage) == IF usage = "request" THEN "breaking" ELSE "nonBreaking"
Widened(usage) == IF usage = "request" THEN "nonBreaking" ELSE "breaking"

(* diff_requiredness.                                                      *)
DiffRequired(usage, at, old, new) ==
    IF old = new THEN {}
    ELSE {Change(at, "required", IF new THEN Narrowed(usage) ELSE Widened(usage))}

FieldAdded(usage, at, required) ==
    Change(at, "added", IF required THEN Narrowed(usage) ELSE "nonBreaking")

(* A change of an operation.                                               *)
At(op, change) == [op |-> op, at |-> change.at, what |-> change.what, severity |-> change.severity]

Endpoint(op, what, severity) == At(op, Change(<<"endpoint">>, what, severity))

HasBreaking(changes) == \E c \in changes : c.severity = "breaking"
=============================================================================
