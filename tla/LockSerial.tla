----------------------------- MODULE LockSerial -----------------------------
(***************************************************************************)
(* LockStore with one command at a time implements LockRegister.  An       *)
(* in-place write takes effect in the abstract when it truncates the file, *)
(* and is pending until its last byte is written.                          *)
(***************************************************************************)
EXTENDS LockStore

InPlace(p) == proc[p].phase \in {"write", "partial"}

currentBar ==
    IF \E p \in Procs : InPlace(p)
    THEN LET p == CHOOSE q \in Procs : InPlace(q)
         IN  [kind |-> "whole", doc |-> Render(proc[p].mem)]
    ELSE [kind |-> IF file.kind \in {"empty", "garbage"} THEN "damaged" ELSE file.kind,
          doc  |-> file.doc]

pendingBar == \E p \in Procs : InPlace(p)

Register == INSTANCE LockRegister WITH current <- currentBar, pending <- pendingBar

(* Run one at a time, and interrupted anywhere, the commands behave as the *)
(* atomic operations of LockRegister on what the file holds.               *)
ImplementsRegister == Register!RSpec

(* Nothing once stored in a complete lock is forgotten: no name loses its  *)
(* entry or changes provenance, and an observed entry keeps its threshold  *)
(* and every body merged into it.                                          *)
NothingForgotten ==
    [][currentBar.kind = "whole" /\ currentBar'.kind = "whole" =>
         \A n \in Names :
            LET old == currentBar.doc
                new == currentBar'.doc IN
            /\ old.declared[n] # None => new.declared[n] # None
            /\ old.observed[n] # None =>
                 /\ new.observed[n] # None
                 /\ old.observed[n].samples \subseteq new.observed[n].samples
                 /\ old.observed[n].threshold = new.observed[n].threshold]_vars

=============================================================================
