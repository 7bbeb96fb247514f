----------------------------- MODULE LockStore ------------------------------
(***************************************************************************)
(* Processes running apiwatch commands against one api.lock.               *)
(*                                                                         *)
(* Every command that changes the lock is a read-modify-write with no lock *)
(* on the file (src/main.rs): it loads the destination, computes the new   *)
(* lock in memory, renders it, and writes it in one of two ways.           *)
(*   - `lock` and `lock --update` fill a temporary file and rename it      *)
(*     (src/lockfile/atomic.rs): persist_noclobber and persist;            *)
(*   - `init` and `record` use fs::write, which truncates the destination  *)
(*     in place and then writes it.                                        *)
(* A process may be killed between any two steps and its writes may fail.  *)
(***************************************************************************)
EXTENDS LockDocument, FiniteSets

CONSTANTS
    Procs,       \* processes that may run commands
    Commands,    \* the commands users may give
    Serial,      \* TRUE: a command starts only when no other one is running
    Faults,      \* TRUE: processes may be killed and writes may fail
    MaxCommands, \* bound: commands started in a behaviour
    InitialDocs  \* documents already on disk at the start

Ops == {"init", "lock", "update", "record", "verify"}

Command == [op : Ops, name : Names, contract : Contracts, calls : Seq(RecordCall)]

ASSUME CommandAssumption ==
    /\ Commands \subseteq Command
    /\ Commands # {}
    /\ InitialDocs \subseteq Document
    /\ \A doc \in InitialDocs : WellFormedDocument(doc)
ASSUME BoundAssumption ==
    /\ MaxCommands \in Nat
    /\ Serial \in BOOLEAN /\ Faults \in BOOLEAN

VARIABLES
    file,   \* the destination: what its bytes parse as
    proc,   \* per process: phase, command, lock in memory, result
    issued  \* commands started so far

vars == <<file, proc, issued>>

(* The bytes at the destination path.                                      *)
(*   absent   no file                                                      *)
(*   whole    a rendered document, complete                                *)
(*   torn     bytes no command rendered that still parse, as doc           *)
(*   garbage  bytes that do not parse; a file just truncated is empty      *)
(* writer is the process whose in-place write the bytes came from.         *)
NoDoc == [version |-> 4, declared |-> EmptyMap, observed |-> EmptyMap]
NoProc == None

FileState == [kind   : {"absent", "whole", "torn", "empty", "garbage"},
              doc    : Document,
              writer : Procs \cup {NoProc}]

Absent == [kind |-> "absent", doc |-> NoDoc, writer |-> NoProc]
Whole(doc) == [kind |-> "whole", doc |-> doc, writer |-> NoProc]
Torn(doc, p) == [kind |-> "torn", doc |-> doc, writer |-> p]
Empty == [kind |-> "empty", doc |-> NoDoc, writer |-> NoProc]
Garbage(p) == [kind |-> "garbage", doc |-> NoDoc, writer |-> p]

Intact == file.kind \in {"absent", "whole"}
Parses == file.kind \in {"whole", "torn"} /\ Readable(file.doc)

(* Where a process is in its command.                                      *)
(*   load     inputs parsed, destination not read yet                      *)
(*   apply    record only: lock in memory, call number `next` to apply     *)
(*   temp     rendered; the temporary file is still to be filled           *)
(*   persist  temporary file synced, still to be renamed                   *)
(*   open     rendered; the destination is still to be truncated           *)
(*   write    destination truncated through a handle, nothing written yet  *)
(*   partial  some bytes written through the handle                        *)
(*   orphan   another process has renamed a new file over the handle's     *)
Phases == {"idle", "load", "apply", "temp", "persist", "open", "write",
           "partial", "orphan"}

(* inputs: whether what the command reads besides the destination (document, *)
(* HAR or JSON body, configuration, headers) is in order.                  *)
ProcState == [phase  : Phases,
              cmd    : Commands,
              mem    : ApiLock,
              next   : Nat,
              inputs : BOOLEAN,
              exit   : {"none", "ok", "error"}]

Running(p) == proc[p].phase # "idle"

Init ==
    /\ file \in {Absent} \cup {Whole(doc) : doc \in InitialDocs}
    /\ proc = [p \in Procs |-> [phase  |-> "idle",
                                cmd    |-> CHOOSE c \in Commands : TRUE,
                                mem    |-> EmptyLock(4),
                                next   |-> 1,
                                inputs |-> TRUE,
                                exit   |-> "none"]]
    /\ issued = 0

-----------------------------------------------------------------------------
(* Steps of the process itself.                                            *)

Goto(p, phase) == proc' = [proc EXCEPT ![p].phase = phase]

GotoWith(p, phase, lock) ==
    proc' = [proc EXCEPT ![p].phase = phase, ![p].mem = lock]

(* run() returns: the exit code, and nothing of the lock is kept.          *)
Exited(state, code) ==
    [phase |-> "idle", cmd |-> state.cmd, mem |-> EmptyLock(4), next |-> 1,
     inputs |-> TRUE, exit |-> code]

Exit(p, code) == proc' = [proc EXCEPT ![p] = Exited(@, code)]

(* A user gives a command; init has no inputs.                             *)
Start(p, cmd) ==
    /\ ~Running(p)
    /\ Serial => \A q \in Procs : ~Running(q)
    /\ issued < MaxCommands
    /\ issued' = issued + 1
    /\ \E inputs \in BOOLEAN :
         /\ cmd.op = "init" => inputs
         /\ proc' = [proc EXCEPT ![p].phase = "load", ![p].cmd = cmd,
                                 ![p].inputs = inputs, ![p].exit = "none"]
    /\ UNCHANGED file

(* The OpenAPI document, HAR or JSON body is refused before the            *)
(* destination is looked at.                                               *)
RefuseInput(p) ==
    /\ proc[p].phase = "load"
    /\ proc[p].cmd.op \in {"lock", "update", "record"}
    /\ ~proc[p].inputs
    /\ Exit(p, "error")
    /\ UNCHANGED <<file, issued>>

(* init: output.exists() refuses; otherwise the text of an empty version 4 *)
(* lock goes to fs::write.                                                 *)
InitCheck(p) ==
    /\ proc[p].phase = "load"
    /\ proc[p].cmd.op = "init"
    /\ IF file.kind # "absent"
       THEN Exit(p, "error")
       ELSE GotoWith(p, "open", EmptyLock(4))
    /\ UNCHANGED <<file, issued>>

(* lock without --update renders without looking at the destination.       *)
LockBuild(p) ==
    /\ proc[p].phase = "load"
    /\ proc[p].cmd.op = "lock"
    /\ proc[p].inputs
    /\ GotoWith(p, "temp", NewV4(proc[p].cmd.name, proc[p].cmd.contract))
    /\ UNCHANGED <<file, issued>>

(* lock --update: the destination must exist, load, and accept the entry.  *)
UpdateLoad(p) ==
    LET cmd == proc[p].cmd
        lock == Load(file.doc) IN
    /\ proc[p].phase = "load"
    /\ cmd.op = "update"
    /\ proc[p].inputs
    /\ IF Parses /\ ReplaceAllowed(lock, cmd.name)
       THEN GotoWith(p, "temp", ReplaceDeclared(lock, cmd.name, cmd.contract))
       ELSE Exit(p, "error")
    /\ UNCHANGED <<file, issued>>

(* A faulty form: an unreadable lock is taken for a missing one.           *)
RecordLoadFresh(p) ==
    /\ proc[p].phase = "load"
    /\ proc[p].cmd.op = "record"
    /\ proc[p].inputs
    /\ IF Parses THEN GotoWith(p, "apply", Load(file.doc))
       ELSE GotoWith(p, "apply", EmptyLock(2))
    /\ UNCHANGED <<file, issued>>

(* record: load_or_create_for_record.  No command removes the file, so     *)
(* exists() followed by the read is one step.                              *)
RecordLoad(p) ==
    /\ proc[p].phase = "load"
    /\ proc[p].cmd.op = "record"
    /\ proc[p].inputs
    /\ IF file.kind = "absent" THEN GotoWith(p, "apply", EmptyLock(2))
       ELSE IF Parses THEN GotoWith(p, "apply", Load(file.doc))
       ELSE Exit(p, "error")
    /\ UNCHANGED <<file, issued>>

(* A faulty form: a refused call is skipped instead of ending the command. *)
RecordApplySkipping(p) ==
    LET call == proc[p].cmd.calls[proc[p].next] IN
    /\ proc[p].phase = "apply"
    /\ proc[p].next \in 1..Len(proc[p].cmd.calls)
    /\ proc' = [proc EXCEPT ![p].mem = IF RecordAllowed(@, call)
                                       THEN RecordObserved(@, call) ELSE @,
                            ![p].next = @ + 1]
    /\ UNCHANGED <<file, issued>>

(* record: the next record_observed call on the lock in memory.            *)
RecordApply(p) ==
    LET call == proc[p].cmd.calls[proc[p].next] IN
    /\ proc[p].phase = "apply"
    /\ proc[p].next \in 1..Len(proc[p].cmd.calls)
    /\ \/ /\ RecordAllowed(proc[p].mem, call)
          /\ proc' = [proc EXCEPT ![p].mem = RecordObserved(@, call),
                                  ![p].next = @ + 1]
       \/ /\ call.mapAt \/ ~RecordAllowed(proc[p].mem, call)
          /\ Exit(p, "error")
    /\ UNCHANGED <<file, issued>>

(* record: every call applied, the lock is rendered.                       *)
RecordRender(p) ==
    /\ proc[p].phase = "apply"
    /\ proc[p].next > Len(proc[p].cmd.calls)
    /\ Goto(p, "open")
    /\ UNCHANGED <<file, issued>>

(* verify reads the lock, then the configuration and the headers, selects  *)
(* its target, reads the document or the body, and compares; it exits with *)
(* a verdict ("ok": exit 0 or 1) or an error (exit 2).  It touches the     *)
(* destination in the first of these only, so all of it is one step.       *)
Verify(p) ==
    /\ proc[p].phase = "load"
    /\ proc[p].cmd.op = "verify"
    /\ IF /\ proc[p].inputs /\ Parses
          /\ VerifyTarget(Load(file.doc), proc[p].cmd.name) # "missing"
       THEN Exit(p, "ok")
       ELSE Exit(p, "error")
    /\ UNCHANGED <<file, issued>>

-----------------------------------------------------------------------------
(* atomic::write_new and atomic::replace.                                  *)

FillTemp(p) ==
    /\ proc[p].phase = "temp"
    /\ Goto(p, "persist")
    /\ UNCHANGED <<file, issued>>

(* persist_noclobber: link the temporary file, failing if a file exists.   *)
PersistNew(p) ==
    /\ proc[p].phase = "persist"
    /\ proc[p].cmd.op = "lock"
    /\ IF file.kind = "absent"
       THEN file' = Whole(Render(proc[p].mem)) /\ Exit(p, "ok")
       ELSE UNCHANGED file /\ Exit(p, "error")
    /\ UNCHANGED issued

(* A faulty form: the update is written in place.                          *)
PersistReplaceInPlace(p) ==
    /\ proc[p].phase = "persist"
    /\ proc[p].cmd.op = "update"
    /\ file' = Empty
    /\ Goto(p, "write")
    /\ UNCHANGED issued

(* persist: rename over the destination.  Handles other processes hold on  *)
(* the file that was there now lead to bytes nobody will read.             *)
PersistReplace(p) ==
    /\ proc[p].phase = "persist"
    /\ proc[p].cmd.op = "update"
    /\ file' = Whole(Render(proc[p].mem))
    /\ proc' = [q \in Procs |->
                  IF q = p THEN Exited(proc[p], "ok")
                  ELSE IF proc[q].phase \in {"write", "partial"}
                       THEN [proc[q] EXCEPT !.phase = "orphan"]
                       ELSE proc[q]]
    /\ UNCHANGED issued

-----------------------------------------------------------------------------
(* fs::write: create or truncate, then write all the bytes.                *)

Truncate(p) ==
    /\ proc[p].phase = "open"
    /\ file' = Empty
    /\ Goto(p, "write")
    /\ UNCHANGED issued

(* Part of the bytes is on disk.                                           *)
WritePart(p) ==
    LET doc == Render(proc[p].mem) IN
    /\ proc[p].phase = "write"
    /\ file' \in {Garbage(p)} \cup
                 (IF file.kind = "empty" THEN {Torn(d, p) : d \in Cuts(doc)} ELSE {})
    /\ Goto(p, "partial")
    /\ UNCHANGED issued

(* The rest (or all) of the bytes.  Where the file also holds the bytes of *)
(* another in-place writer, what comes out is a mixture of the two.        *)
WriteResults(p) ==
    LET doc == Render(proc[p].mem)
        alone == IF proc[p].phase = "write" THEN file.kind = "empty"
                 ELSE file.kind \in {"torn", "garbage"} /\ file.writer = p
        mixtures == IF file.kind \in {"whole", "torn"}
                    THEN {Overlay(doc, file.doc), Overlay(file.doc, doc)} ELSE {}
    IN  IF alone THEN {Whole(doc)}
        ELSE {Whole(doc), Garbage(p)} \cup {Torn(d, p) : d \in mixtures}

(* init then scaffolds a workflow, which may fail with the lock written.   *)
WriteDone(p) ==
    /\ proc[p].phase \in {"write", "partial"}
    /\ file' \in WriteResults(p)
    /\ \/ Exit(p, "ok")
       \/ proc[p].cmd.op = "init" /\ Exit(p, "error")
    /\ UNCHANGED issued

(* The same write through a handle on a file that has been replaced.       *)
WriteOrphan(p) ==
    /\ proc[p].phase = "orphan"
    /\ Exit(p, "ok")
    /\ UNCHANGED <<file, issued>>

-----------------------------------------------------------------------------
(* Faults.                                                                 *)

(* The temporary file or the in-place write fails (disk full): exit 2.     *)
(* The temporary file is removed; the destination keeps what was written.  *)
WriteError(p) ==
    /\ Faults
    /\ proc[p].phase \in {"temp", "persist", "open", "write", "partial", "orphan"}
    /\ Exit(p, "error")
    /\ UNCHANGED <<file, issued>>

(* The process is killed; there is no exit status of apiwatch.             *)
Kill(p) ==
    /\ Faults
    /\ Running(p)
    /\ Exit(p, "none")
    /\ UNCHANGED <<file, issued>>

-----------------------------------------------------------------------------
Step(p) ==
    \/ RefuseInput(p) \/ InitCheck(p) \/ LockBuild(p) \/ UpdateLoad(p)
    \/ RecordLoad(p) \/ RecordApply(p) \/ RecordRender(p) \/ Verify(p)
    \/ FillTemp(p) \/ PersistNew(p) \/ PersistReplace(p)
    \/ Truncate(p) \/ WritePart(p) \/ WriteDone(p) \/ WriteOrphan(p)
    \/ WriteError(p) \/ Kill(p)

Next == \E p \in Procs : Step(p) \/ \E cmd \in Commands : Start(p, cmd)

Spec == Init /\ [][Next]_vars

-----------------------------------------------------------------------------
(* Properties.                                                             *)

TypeOK ==
    /\ file \in FileState
    /\ proc \in [Procs -> ProcState]
    /\ issued \in 0..MaxCommands

(* Whatever the commands interleave to, and whatever torn text they load,  *)
(* each lock in memory can be written without losing an entry: loading its *)
(* rendering gives it back.  It rests on the name checks of                *)
(* record_observed and replace_declared_v4 and on the maps the migration   *)
(* clears (src/lockfile/mod.rs:434-562), since render writes one declared  *)
(* map and lets an observed entry shadow a declared one.                   *)
RenderLosesNothing ==
    \A p \in Procs : Load(Render(proc[p].mem)) = proc[p].mem

(* The inductive form: the shape of the locks in memory and on disk.       *)
LocksWellFormed ==
    /\ \A p \in Procs : WellFormed(proc[p].mem)
    /\ WellFormedDocument(file.doc)

(* An unreadable lock that no running command has already loaded is never  *)
(* replaced: init and lock refuse an existing file, --update and record    *)
(* refuse one that does not load, so every command leaves the bytes for    *)
(* the user to recover.                                                    *)
Stuck ==
    /\ file.kind \in {"empty", "garbage"}
    /\ \A p \in Procs :
         \/ proc[p].phase \in {"idle", "load"}
         \/ proc[p].cmd.op = "lock"

DamageIsFinal == [][Stuck => Stuck']_vars

(* The effect a command promises, on a document.                           *)
Stored(cmd, doc) ==
    CASE cmd.op \in {"lock", "update"} -> doc.declared[cmd.name] = cmd.contract
      [] cmd.op = "record" ->
            \A i \in 1..Len(cmd.calls) :
                LET entry == doc.observed[cmd.calls[i].name] IN
                entry # None /\ cmd.calls[i].samples \subseteq entry.samples
      [] OTHER -> TRUE

(* A command that writes exits 0 only in a step that leaves a complete     *)
(* document holding what it was asked to store.                            *)
OkMeansStored ==
    [][\A p \in Procs :
         /\ Running(p) /\ proc'[p].exit = "ok"
         /\ proc[p].cmd.op # "verify"
         => file'.kind = "whole" /\ Stored(proc[p].cmd, file'.doc)]_vars

(* While only lock, lock --update and verify run, in any interleaving and  *)
(* with any crash, the destination is never seen torn: the temporary file  *)
(* is renamed into place (src/lockfile/atomic.rs:26-38).                   *)
FileStaysIntact == Intact

(* ... so a verify whose configuration, headers and document or body are   *)
(* in order (src/main.rs:403-410, 510-513, 549-554) always gets to its     *)
(* verdict, in the middle of any update, where there is a lock with its    *)
(* entry.                                                                  *)
VerifyReadsEveryLock ==
    [][\A p \in Procs :
         /\ proc[p].phase = "load" /\ proc[p].cmd.op = "verify" /\ proc[p].inputs
         /\ proc'[p].exit = "error"
         => \/ file.kind = "absent"
            \/ proc[p].cmd.name \notin DocumentNames(file.doc)]_vars

(* ... and an older lock comes out of its migration to version 4 with      *)
(* every API that was declared in it: replace_declared_v4 refuses while    *)
(* another pre-v4 entry is left (src/lockfile/mod.rs:449), and what was    *)
(* computed from an older file is not renamed over a newer one of these.   *)
(* With a record in between it does not hold: the text it has half written *)
(* loads with fewer entries.                                               *)
MigrationKeepsDeclared ==
    [][/\ file.kind = "whole" /\ file'.kind = "whole"
       /\ file.doc.version < 4 /\ file'.doc.version = 4
       => \A n \in Names : file.doc.declared[n] # None
                            => file'.doc.declared[n] # None]_vars

-----------------------------------------------------------------------------
(* Statements of the documentation that the code does not keep.            *)

(* docs/lockfile-spec.md:176: --update "atomically replaces the named      *)
(* declared entry": an update of one name leaves the others as they are.   *)
UpdateReplacesOnlyNamed ==
    [][\A p \in Procs :
         /\ proc[p].phase = "persist" /\ proc[p].cmd.op = "update"
         /\ proc'[p].exit = "ok"
         => \A n \in Names \ {proc[p].cmd.name} :
               /\ file'.doc.declared[n] = file.doc.declared[n]
               /\ file'.doc.observed[n] = file.doc.observed[n]]_vars

=============================================================================
