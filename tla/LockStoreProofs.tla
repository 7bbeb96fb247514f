-------------------------- MODULE LockStoreProofs ---------------------------
(***************************************************************************)
(* Theorems about LockStore for any processes, commands, names and bounds, *)
(* with the commands interleaved, killed and their writes failing in any   *)
(* way, and about LockSerial, where they run one at a time.                *)
(***************************************************************************)
EXTENDS LockSerial, LockDocumentProofs

-----------------------------------------------------------------------------
(* Types.                                                                  *)

LEMMA NoDocType == NoDoc \in Document
  BY EmptyMapType DEF NoDoc, Document

LEMMA FileStates ==
  /\ Absent \in FileState
  /\ Empty \in FileState
  /\ \A doc \in Document : Whole(doc) \in FileState
  /\ \A p \in Procs : Garbage(p) \in FileState
  /\ \A p \in Procs, doc \in Document : Torn(doc, p) \in FileState
  BY NoDocType DEF Absent, Empty, Whole, Garbage, Torn, FileState, NoProc

LEMMA CommandType ==
  ASSUME NEW cmd \in Commands
  PROVE  /\ cmd.op \in Ops
         /\ cmd.name \in Names
         /\ cmd.contract \in Contracts
         /\ \A i \in 1..Len(cmd.calls) : cmd.calls[i] \in RecordCall
  BY CommandAssumption DEF Command

LEMMA ExitedType ==
  ASSUME NEW state \in ProcState, NEW code \in {"none", "ok", "error"}
  PROVE  Exited(state, code) \in ProcState
  <1>1. EmptyLock(4) \in ApiLock
    BY EmptyLockType
  <1> QED BY <1>1 DEF Exited, ProcState, Phases

LEMMA InitType == Init => TypeOK
  <1> SUFFICES ASSUME Init PROVE TypeOK
    OBVIOUS
  <1>1. file \in FileState
    BY FileStates, CommandAssumption DEF Init
  <1>2. (CHOOSE c \in Commands : TRUE) \in Commands
    BY CommandAssumption
  <1>3. proc \in [Procs -> ProcState]
    BY <1>2, EmptyLockType DEF Init, ProcState, Phases
  <1> QED BY <1>1, <1>3, BoundAssumption DEF TypeOK, Init

LEMMA WriteResultsType ==
  ASSUME TypeOK, NEW p \in Procs, NEW f \in WriteResults(p)
  PROVE  f \in FileState
  <1>1. Render(proc[p].mem) \in Document
    BY RenderType DEF TypeOK, ProcState
  <1>2. file.doc \in Document
    BY DEF TypeOK, FileState
  <1>3. /\ Overlay(Render(proc[p].mem), file.doc) \in Document
        /\ Overlay(file.doc, Render(proc[p].mem)) \in Document
    BY <1>1, <1>2, OverlayType
  <1> QED BY <1>1, <1>3, FileStates DEF WriteResults

(* The steps that only move a process: its phase, its lock, its result.    *)
LEMMA MoveType ==
  ASSUME TypeOK, NEW p \in Procs
  PROVE  /\ \A phase \in Phases : Goto(p, phase) => proc' \in [Procs -> ProcState]
         /\ \A phase \in Phases, lock \in ApiLock :
               GotoWith(p, phase, lock) => proc' \in [Procs -> ProcState]
         /\ \A code \in {"none", "ok", "error"} :
               Exit(p, code) => proc' \in [Procs -> ProcState]
  <1>1. proc[p] \in ProcState
    BY DEF TypeOK
  <1>2. \A phase \in Phases : [proc[p] EXCEPT !.phase = phase] \in ProcState
    BY <1>1 DEF ProcState
  <1>3. \A phase \in Phases, lock \in ApiLock :
           [proc[p] EXCEPT !.phase = phase, !.mem = lock] \in ProcState
    BY <1>1 DEF ProcState
  <1>4. \A code \in {"none", "ok", "error"} : Exited(proc[p], code) \in ProcState
    BY <1>1, ExitedType
  <1> QED BY <1>2, <1>3, <1>4 DEF TypeOK, Goto, GotoWith, Exit

LEMMA StepType ==
  ASSUME TypeOK, NEW p \in Procs, Step(p)
  PROVE  TypeOK'
  <1> DEFINE cmd == proc[p].cmd
  <1>1. /\ proc[p] \in ProcState
        /\ cmd \in Commands /\ proc[p].mem \in ApiLock /\ proc[p].next \in Nat
        /\ file \in FileState /\ file.doc \in Document
        /\ issued \in 0..MaxCommands
    BY DEF TypeOK, ProcState, FileState
  <1>2. /\ cmd.name \in Names /\ cmd.contract \in Contracts
        /\ \A i \in 1..Len(cmd.calls) : cmd.calls[i] \in RecordCall
    BY <1>1, CommandType
  <1>3. Render(proc[p].mem) \in Document
    BY <1>1, RenderType
  <1>4. Load(file.doc) \in ApiLock /\ EmptyLock(2) \in ApiLock /\ EmptyLock(4) \in ApiLock
    BY <1>1, LoadType, EmptyLockType
  <1> USE <1>1 DEF Phases
  <1>5. CASE RefuseInput(p)
    BY <1>5, MoveType DEF RefuseInput, TypeOK
  <1>6. CASE InitCheck(p)
    BY <1>4, <1>6, MoveType DEF InitCheck, TypeOK
  <1>7. CASE LockBuild(p)
    <2>1. NewV4(cmd.name, cmd.contract) \in ApiLock
      BY <1>2, NewV4Type
    <2> QED BY <1>7, <2>1, MoveType DEF LockBuild, TypeOK
  <1>8. CASE UpdateLoad(p)
    <2>1. ReplaceDeclared(Load(file.doc), cmd.name, cmd.contract) \in ApiLock
      BY <1>2, <1>4, ReplaceDeclaredType
    <2> QED BY <1>8, <2>1, MoveType DEF UpdateLoad, TypeOK
  <1>9. CASE RecordLoad(p)
    BY <1>4, <1>9, MoveType DEF RecordLoad, TypeOK
  <1>10. CASE RecordApply(p)
    <2> DEFINE call == cmd.calls[proc[p].next]
    <2>1. call \in RecordCall
      BY <1>2, <1>10 DEF RecordApply
    <2>2. CASE proc' = [proc EXCEPT ![p].mem = RecordObserved(@, call),
                                    ![p].next = @ + 1]
      <3>1. RecordObserved(proc[p].mem, call) \in ApiLock
        BY <2>1, RecordObservedType
      <3>2. proc' \in [Procs -> ProcState]
        BY <2>2, <3>1 DEF TypeOK, ProcState
      <3> QED BY <1>10, <3>2 DEF RecordApply, TypeOK
    <2>3. CASE Exit(p, "error")
      BY <1>10, <2>3, MoveType DEF RecordApply, TypeOK
    <2> QED BY <1>10, <2>2, <2>3 DEF RecordApply
  <1>11. CASE RecordRender(p)
    BY <1>11, MoveType DEF RecordRender, TypeOK
  <1>12. CASE Verify(p)
    BY <1>12, MoveType DEF Verify, TypeOK
  <1>13. CASE FillTemp(p)
    BY <1>13, MoveType DEF FillTemp, TypeOK
  <1>14. CASE PersistNew(p)
    BY <1>3, <1>14, MoveType, FileStates DEF PersistNew, TypeOK
  <1>15. CASE PersistReplace(p)
    <2>1. Exited(proc[p], "ok") \in ProcState
      BY ExitedType
    <2>2. ASSUME NEW q \in Procs
          PROVE  [proc[q] EXCEPT !.phase = "orphan"] \in ProcState
      BY DEF TypeOK, ProcState
    <2>3. proc' \in [Procs -> ProcState]
      BY <1>15, <2>1, <2>2 DEF PersistReplace, TypeOK
    <2> QED BY <1>3, <1>15, <2>3, FileStates DEF PersistReplace, TypeOK
  <1>16. CASE Truncate(p)
    BY <1>16, MoveType, FileStates DEF Truncate, TypeOK
  <1>17. CASE WritePart(p)
    <2>1. \A d \in Cuts(Render(proc[p].mem)) : d \in Document
      BY <1>3, CutsType
    <2>2. file' \in FileState
      BY <1>17, <2>1, FileStates DEF WritePart
    <2> QED BY <1>17, <2>2, MoveType DEF WritePart, TypeOK
  <1>18. CASE WriteDone(p)
    <2>1. file' \in FileState
      BY <1>18, WriteResultsType DEF WriteDone
    <2> QED BY <1>18, <2>1, MoveType DEF WriteDone, TypeOK
  <1>19. CASE WriteOrphan(p)
    BY <1>19, MoveType DEF WriteOrphan, TypeOK
  <1>20. CASE WriteError(p)
    BY <1>20, MoveType DEF WriteError, TypeOK
  <1>21. CASE Kill(p)
    BY <1>21, MoveType DEF Kill, TypeOK
  <1> QED
    BY <1>5, <1>6, <1>7, <1>8, <1>9, <1>10, <1>11, <1>12, <1>13, <1>14, <1>15,
       <1>16, <1>17, <1>18, <1>19, <1>20, <1>21 DEF Step

LEMMA StartType ==
  ASSUME TypeOK, NEW p \in Procs, NEW cmd \in Commands, Start(p, cmd)
  PROVE  TypeOK'
  <1>1. proc[p] \in ProcState
    BY DEF TypeOK
  <1>2. \A inputs \in BOOLEAN :
           [proc[p] EXCEPT !.phase = "load", !.cmd = cmd, !.inputs = inputs, !.exit = "none"]
             \in ProcState
    BY <1>1 DEF ProcState, Phases
  <1>3. proc' \in [Procs -> ProcState]
    BY <1>2 DEF Start, TypeOK
  <1>4. issued' \in 0..MaxCommands
    BY BoundAssumption DEF Start, TypeOK
  <1> QED BY <1>3, <1>4 DEF Start, TypeOK

(* Every reachable file, process and lock in memory is one the types       *)
(* describe, with every fault (src/main.rs, src/lockfile).                 *)
THEOREM TypeCorrect == Spec => []TypeOK
  <1>1. TypeOK /\ [Next]_vars => TypeOK'
    <2> SUFFICES ASSUME TypeOK, [Next]_vars PROVE TypeOK'
      OBVIOUS
    <2>1. ASSUME NEW p \in Procs, Step(p) PROVE TypeOK'
      BY <2>1, StepType
    <2>2. ASSUME NEW p \in Procs, NEW cmd \in Commands, Start(p, cmd) PROVE TypeOK'
      BY <2>2, StartType
    <2>3. CASE UNCHANGED vars
      BY <2>3 DEF vars, TypeOK
    <2> QED BY <2>1, <2>2, <2>3 DEF Next
  <1> QED BY InitType, <1>1, PTL DEF Spec

-----------------------------------------------------------------------------
(* Well-formed locks.                                                      *)

LEMMA InitWellFormed == Init => LocksWellFormed
  <1>1. WellFormedDocument(NoDoc)
    BY DEF NoDoc, WellFormedDocument, EmptyMap
  <1>2. WellFormed(EmptyLock(4))
    BY EmptyLockWellFormed
  <1> QED BY <1>1, <1>2, CommandAssumption DEF Init, LocksWellFormed, Absent, Whole

LEMMA FileStatesWellFormed ==
  /\ WellFormedDocument(Empty.doc)
  /\ \A p \in Procs : WellFormedDocument(Garbage(p).doc)
  /\ \A doc \in Document : WellFormedDocument(doc) => WellFormedDocument(Whole(doc).doc)
  /\ \A p \in Procs, doc \in Document :
        WellFormedDocument(doc) => WellFormedDocument(Torn(doc, p).doc)
  BY DEF Empty, Garbage, Whole, Torn, NoDoc, WellFormedDocument, EmptyMap

(* Moving a process keeps its lock, replaces it by one that is given, or   *)
(* drops it; the others keep theirs.                                       *)
LEMMA MoveWellFormed ==
  ASSUME TypeOK, LocksWellFormed, NEW p \in Procs
  PROVE  /\ \A phase : Goto(p, phase) => \A q \in Procs : WellFormed(proc'[q].mem)
         /\ \A phase, lock : GotoWith(p, phase, lock) /\ WellFormed(lock)
               => \A q \in Procs : WellFormed(proc'[q].mem)
         /\ \A code : Exit(p, code) => \A q \in Procs : WellFormed(proc'[q].mem)
  <1>1. WellFormed(EmptyLock(4))
    BY EmptyLockWellFormed
  <1>2. \A q \in Procs : WellFormed(proc[q].mem)
    BY DEF LocksWellFormed
  <1> QED
    BY <1>1, <1>2 DEF Goto, GotoWith, Exit, Exited, TypeOK, ProcState

LEMMA StepWellFormed ==
  ASSUME TypeOK, LocksWellFormed, NEW p \in Procs, Step(p)
  PROVE  LocksWellFormed'
  <1> DEFINE cmd == proc[p].cmd
             LocksOK == \A q \in Procs : WellFormed(proc'[q].mem)
  <1>1. /\ proc[p] \in ProcState
        /\ cmd \in Commands /\ proc[p].mem \in ApiLock /\ file.doc \in Document
    BY DEF TypeOK, ProcState, FileState
  <1>2. /\ cmd.name \in Names /\ cmd.contract \in Contracts
        /\ \A i \in 1..Len(cmd.calls) : cmd.calls[i] \in RecordCall
    BY <1>1, CommandType
  <1>3. /\ Render(proc[p].mem) \in Document
        /\ WellFormedDocument(Render(proc[p].mem))
    BY <1>1, RenderType, RenderWellFormed
  <1>4. Load(file.doc) \in ApiLock /\ WellFormed(Load(file.doc))
    BY <1>1, LoadType, LoadWellFormed DEF LocksWellFormed
  <1>5. WellFormed(EmptyLock(2)) /\ WellFormed(EmptyLock(4))
    BY EmptyLockWellFormed
  <1>6. WellFormed(proc[p].mem) /\ WellFormedDocument(file.doc)
    BY DEF LocksWellFormed
  <1>7. CASE RefuseInput(p)
    BY <1>6, <1>7, MoveWellFormed DEF RefuseInput, LocksWellFormed
  <1>8. CASE InitCheck(p)
    BY <1>5, <1>6, <1>8, MoveWellFormed DEF InitCheck, LocksWellFormed
  <1>9. CASE LockBuild(p)
    <2>1. WellFormed(NewV4(cmd.name, cmd.contract))
      BY <1>2, NewV4WellFormed
    <2> QED BY <1>6, <1>9, <2>1, MoveWellFormed DEF LockBuild, LocksWellFormed
  <1>10. CASE UpdateLoad(p)
    <2>1. ReplaceAllowed(Load(file.doc), cmd.name) =>
             WellFormed(ReplaceDeclared(Load(file.doc), cmd.name, cmd.contract))
      BY <1>2, <1>4, ReplaceDeclaredWellFormed
    <2> QED BY <1>6, <1>10, <2>1, MoveWellFormed DEF UpdateLoad, LocksWellFormed
  <1>11. CASE RecordLoad(p)
    BY <1>4, <1>5, <1>6, <1>11, MoveWellFormed DEF RecordLoad, LocksWellFormed
  <1>12. CASE RecordApply(p)
    <2> DEFINE call == cmd.calls[proc[p].next]
    <2>1. call \in RecordCall
      BY <1>2, <1>12 DEF RecordApply
    <2>2. CASE /\ RecordAllowed(proc[p].mem, call)
               /\ proc' = [proc EXCEPT ![p].mem = RecordObserved(@, call),
                                       ![p].next = @ + 1]
      <3>1. WellFormed(RecordObserved(proc[p].mem, call))
        BY <1>1, <1>6, <2>1, <2>2, RecordObservedWellFormed
      <3>2. LocksOK
        BY <2>2, <3>1 DEF TypeOK, ProcState, LocksWellFormed
      <3> QED BY <1>6, <1>12, <3>2 DEF RecordApply, LocksWellFormed
    <2>3. CASE Exit(p, "error")
      BY <1>6, <1>12, <2>3, MoveWellFormed DEF RecordApply, LocksWellFormed
    <2> QED BY <1>12, <2>2, <2>3 DEF RecordApply
  <1>13. CASE RecordRender(p)
    BY <1>6, <1>13, MoveWellFormed DEF RecordRender, LocksWellFormed
  <1>14. CASE Verify(p)
    BY <1>6, <1>14, MoveWellFormed DEF Verify, LocksWellFormed
  <1>15. CASE FillTemp(p)
    BY <1>6, <1>15, MoveWellFormed DEF FillTemp, LocksWellFormed
  <1>16. CASE PersistNew(p)
    BY <1>3, <1>6, <1>16, MoveWellFormed, FileStatesWellFormed
    DEF PersistNew, LocksWellFormed
  <1>17. CASE PersistReplace(p)
    <2>1. LocksOK
      BY <1>5, <1>17 DEF PersistReplace, Exited, TypeOK, ProcState, LocksWellFormed
    <2> QED BY <1>3, <1>17, <2>1, FileStatesWellFormed DEF PersistReplace, LocksWellFormed
  <1>18. CASE Truncate(p)
    BY <1>18, MoveWellFormed, FileStatesWellFormed DEF Truncate, LocksWellFormed
  <1>19. CASE WritePart(p)
    <2>1. \A d \in Cuts(Render(proc[p].mem)) : d \in Document /\ WellFormedDocument(d)
      BY <1>3, CutsType, CutsWellFormed
    <2>2. WellFormedDocument(file'.doc)
      BY <1>19, <2>1, FileStatesWellFormed DEF WritePart
    <2> QED BY <1>19, <2>2, MoveWellFormed DEF WritePart, LocksWellFormed
  <1>20. CASE WriteDone(p)
    <2>1. \A d \in {Overlay(Render(proc[p].mem), file.doc),
                    Overlay(file.doc, Render(proc[p].mem))} :
             d \in Document /\ WellFormedDocument(d)
      BY <1>1, <1>3, <1>6, OverlayType, OverlayWellFormed
    <2>2. WellFormedDocument(file'.doc)
      BY <1>3, <1>20, <2>1, FileStatesWellFormed DEF WriteDone, WriteResults
    <2> QED BY <1>20, <2>2, MoveWellFormed DEF WriteDone, LocksWellFormed
  <1>21. CASE WriteOrphan(p)
    BY <1>6, <1>21, MoveWellFormed DEF WriteOrphan, LocksWellFormed
  <1>22. CASE WriteError(p)
    BY <1>6, <1>22, MoveWellFormed DEF WriteError, LocksWellFormed
  <1>23. CASE Kill(p)
    BY <1>6, <1>23, MoveWellFormed DEF Kill, LocksWellFormed
  <1> QED
    BY <1>7, <1>8, <1>9, <1>10, <1>11, <1>12, <1>13, <1>14, <1>15, <1>16, <1>17,
       <1>18, <1>19, <1>20, <1>21, <1>22, <1>23 DEF Step

(* No interleaving, fault or torn text leads a command to a lock in memory *)
(* that populates a map its version does not write, or that has a name     *)
(* both declared and observed.                                             *)
THEOREM WellFormedAlways == Spec => []LocksWellFormed
  <1>1. TypeOK /\ LocksWellFormed /\ [Next]_vars => LocksWellFormed'
    <2> SUFFICES ASSUME TypeOK, LocksWellFormed, [Next]_vars PROVE LocksWellFormed'
      OBVIOUS
    <2>1. ASSUME NEW p \in Procs, Step(p) PROVE LocksWellFormed'
      BY <2>1, StepWellFormed
    <2>2. ASSUME NEW p \in Procs, NEW cmd \in Commands, Start(p, cmd)
          PROVE  LocksWellFormed'
      BY <2>2 DEF Start, TypeOK, ProcState, LocksWellFormed
    <2>3. CASE UNCHANGED vars
      BY <2>3 DEF vars, LocksWellFormed
    <2> QED BY <2>1, <2>2, <2>3 DEF Next
  <1> QED BY InitWellFormed, TypeCorrect, <1>1, PTL DEF Spec

(* So no command ever holds a lock that loses an entry when it is written  *)
(* (render, src/lockfile/mod.rs:242-285).                                  *)
THEOREM NothingLostByRendering == Spec => []RenderLosesNothing
  <1>1. TypeOK /\ LocksWellFormed => RenderLosesNothing
    BY RenderLoad DEF TypeOK, ProcState, LocksWellFormed, RenderLosesNothing
  <1> QED BY TypeCorrect, WellFormedAlways, <1>1, PTL

-----------------------------------------------------------------------------
(* Which command is in which phase.  A running command has no result yet.  *)

PhaseOK ==
    \A p \in Procs :
       /\ proc[p].phase = "apply" => proc[p].cmd.op = "record"
       /\ proc[p].phase \in {"temp", "persist"} => proc[p].cmd.op \in {"lock", "update"}
       /\ proc[p].phase \in {"open", "write", "partial", "orphan"} =>
             proc[p].cmd.op \in {"init", "record"}
       /\ Running(p) => proc[p].exit = "none"

LEMMA StepPhase ==
  ASSUME TypeOK, PhaseOK, NEW p \in Procs, Step(p)
  PROVE  PhaseOK'
  <1> USE DEF PhaseOK, TypeOK, Running, Goto, GotoWith, Exit, Exited
  <1>0. proc[p] \in ProcState
    OBVIOUS
  <1>1. CASE RefuseInput(p)
    BY <1>1, <1>0 DEF RefuseInput, ProcState
  <1>2. CASE InitCheck(p)
    BY <1>2, <1>0 DEF InitCheck, ProcState
  <1>3. CASE LockBuild(p)
    BY <1>3, <1>0 DEF LockBuild, ProcState
  <1>4. CASE UpdateLoad(p)
    BY <1>4, <1>0 DEF UpdateLoad, ProcState
  <1>5. CASE RecordLoad(p)
    BY <1>5, <1>0 DEF RecordLoad, ProcState
  <1>6. CASE RecordApply(p)
    <2>1. CASE Exit(p, "error")
      BY <1>0, <2>1 DEF ProcState
    <2>2. CASE ~Exit(p, "error")
      <3>1. /\ proc'[p].phase = proc[p].phase /\ proc'[p].cmd = proc[p].cmd
            /\ proc'[p].exit = proc[p].exit
            /\ \A q \in Procs \ {p} : proc'[q] = proc[q]
        BY <1>0, <1>6, <2>2 DEF RecordApply, ProcState
      <3> QED BY <3>1
    <2> QED BY <2>1, <2>2
  <1>7. CASE RecordRender(p)
    BY <1>7, <1>0 DEF RecordRender, ProcState
  <1>8. CASE Verify(p)
    BY <1>8, <1>0 DEF Verify, ProcState
  <1>9. CASE FillTemp(p)
    BY <1>9, <1>0 DEF FillTemp, ProcState
  <1>10. CASE PersistNew(p)
    BY <1>10, <1>0 DEF PersistNew, ProcState
  <1>11. CASE PersistReplace(p)
    BY <1>11, <1>0 DEF PersistReplace, ProcState
  <1>12. CASE Truncate(p)
    BY <1>12, <1>0 DEF Truncate, ProcState
  <1>13. CASE WritePart(p)
    BY <1>13, <1>0 DEF WritePart, ProcState
  <1>14. CASE WriteDone(p)
    BY <1>14, <1>0 DEF WriteDone, ProcState
  <1>15. CASE WriteOrphan(p)
    BY <1>15, <1>0 DEF WriteOrphan, ProcState
  <1>16. CASE WriteError(p)
    BY <1>16, <1>0 DEF WriteError, ProcState
  <1>17. CASE Kill(p)
    BY <1>17, <1>0 DEF Kill, ProcState
  <1> QED
    BY <1>1, <1>2, <1>3, <1>4, <1>5, <1>6, <1>7, <1>8, <1>9, <1>10, <1>11,
       <1>12, <1>13, <1>14, <1>15, <1>16, <1>17 DEF Step

LEMMA PhaseAlways == Spec => []PhaseOK
  <1>1. Init => PhaseOK
    BY DEF Init, PhaseOK, Running
  <1>2. TypeOK /\ PhaseOK /\ [Next]_vars => PhaseOK'
    <2> SUFFICES ASSUME TypeOK, PhaseOK, [Next]_vars PROVE PhaseOK'
      OBVIOUS
    <2>1. ASSUME NEW p \in Procs, Step(p) PROVE PhaseOK'
      BY <2>1, StepPhase
    <2>2. ASSUME NEW p \in Procs, NEW cmd \in Commands, Start(p, cmd) PROVE PhaseOK'
      BY <2>2 DEF Start, TypeOK, ProcState, PhaseOK, Running
    <2>3. CASE UNCHANGED vars
      BY <2>3 DEF vars, PhaseOK, Running
    <2> QED BY <2>1, <2>2, <2>3 DEF Next
  <1> QED BY TypeCorrect, <1>1, <1>2, PTL DEF Spec

-----------------------------------------------------------------------------
(* Damage is final.                                                        *)

LEMMA StepStuck ==
  ASSUME TypeOK, PhaseOK, Stuck, NEW p \in Procs, Step(p)
  PROVE  Stuck'
  <1> DEFINE Harmless(state) ==
               state.phase \in {"idle", "load"} \/ state.cmd.op = "lock"
  <1> SUFFICES /\ file' = file
               /\ \A q \in Procs \ {p} : proc'[q] = proc[q]
               /\ Harmless(proc'[p])
    BY DEF Stuck
  <1>1. /\ file.kind \in {"empty", "garbage"}
        /\ proc[p] \in ProcState
        /\ Harmless(proc[p])
    BY DEF Stuck, TypeOK
  <1>2. ~Parses
    BY <1>1 DEF Parses
  <1>3. proc[p].phase \notin {"apply", "open", "write", "partial", "orphan"}
    BY <1>1 DEF PhaseOK
  <1> USE <1>1, <1>2, <1>3 DEF TypeOK, Goto, GotoWith, Exit, Exited
  <1>4. CASE RefuseInput(p)
    BY <1>4 DEF RefuseInput
  <1>5. CASE InitCheck(p)
    BY <1>5 DEF InitCheck
  <1>6. CASE LockBuild(p)
    BY <1>6 DEF LockBuild, ProcState
  <1>7. CASE UpdateLoad(p)
    BY <1>7 DEF UpdateLoad
  <1>8. CASE RecordLoad(p)
    BY <1>8 DEF RecordLoad
  <1>9. CASE RecordApply(p) \/ RecordRender(p)
    BY <1>9 DEF RecordApply, RecordRender
  <1>10. CASE Verify(p)
    BY <1>10 DEF Verify
  <1>11. CASE FillTemp(p)
    BY <1>11 DEF FillTemp, ProcState
  <1>12. CASE PersistNew(p)
    BY <1>12 DEF PersistNew
  <1>13. CASE PersistReplace(p)
    BY <1>13 DEF PersistReplace
  <1>14. CASE Truncate(p) \/ WritePart(p) \/ WriteDone(p) \/ WriteOrphan(p)
    BY <1>14 DEF Truncate, WritePart, WriteDone, WriteOrphan
  <1>15. CASE WriteError(p)
    BY <1>15 DEF WriteError
  <1>16. CASE Kill(p)
    BY <1>16 DEF Kill
  <1> QED
    BY <1>4, <1>5, <1>6, <1>7, <1>8, <1>9, <1>10, <1>11, <1>12, <1>13, <1>14,
       <1>15, <1>16 DEF Step

(* An unreadable lock that no running command has loaded keeps its bytes   *)
(* for ever: every command refuses it.                                     *)
THEOREM DamageStays == Spec => DamageIsFinal
  <1>1. TypeOK /\ PhaseOK /\ [Next]_vars => (Stuck => Stuck')
    <2> SUFFICES ASSUME TypeOK, PhaseOK, Stuck, [Next]_vars PROVE Stuck'
      OBVIOUS
    <2>1. ASSUME NEW p \in Procs, Step(p) PROVE Stuck'
      BY <2>1, StepStuck
    <2>2. ASSUME NEW p \in Procs, NEW cmd \in Commands, Start(p, cmd) PROVE Stuck'
      BY <2>2 DEF Start, TypeOK, ProcState, Stuck
    <2>3. CASE UNCHANGED vars
      BY <2>3 DEF vars, Stuck
    <2> QED BY <2>1, <2>2, <2>3 DEF Next
  <1> QED BY TypeCorrect, PhaseAlways, <1>1, PTL DEF Spec, DamageIsFinal

-----------------------------------------------------------------------------
(* The lock, lock --update and verify commands among themselves.           *)

AtomicCommands == \A cmd \in Commands : cmd.op \in {"lock", "update", "verify"}

(* With atomic renames only, no interleaving and no fault leaves a torn    *)
(* destination (src/lockfile/atomic.rs).                                   *)
THEOREM RenamesKeepFileIntact ==
  ASSUME AtomicCommands
  PROVE  Spec => []FileStaysIntact
  <1>1. Init => FileStaysIntact
    BY DEF Init, FileStaysIntact, Intact, Absent, Whole
  <1>2. TypeOK /\ PhaseOK /\ FileStaysIntact /\ [Next]_vars => FileStaysIntact'
    <2> SUFFICES ASSUME TypeOK, PhaseOK, FileStaysIntact, [Next]_vars
                 PROVE  FileStaysIntact'
      OBVIOUS
    <2>1. ASSUME NEW p \in Procs, Step(p) PROVE FileStaysIntact'
      <3>1. proc[p].cmd.op \in {"lock", "update", "verify"}
        BY DEF AtomicCommands, TypeOK, ProcState
      <3>2. proc[p].phase \notin {"open", "write", "partial", "orphan"}
        BY <3>1 DEF PhaseOK
      <3>3. CASE PersistNew(p)
        BY <3>3 DEF PersistNew, FileStaysIntact, Intact, Whole
      <3>4. CASE PersistReplace(p)
        BY <3>4 DEF PersistReplace, FileStaysIntact, Intact, Whole
      <3>5. CASE Truncate(p) \/ WritePart(p) \/ WriteDone(p)
        BY <3>2, <3>5 DEF Truncate, WritePart, WriteDone
      <3>6. CASE UNCHANGED file
        BY <3>6 DEF FileStaysIntact, Intact
      <3> QED
        BY <2>1, <3>3, <3>4, <3>5, <3>6
        DEF Step, RefuseInput, InitCheck, LockBuild, UpdateLoad, RecordLoad,
            RecordApply, RecordRender, Verify, FillTemp, WriteOrphan, WriteError, Kill
    <2>2. ASSUME NEW p \in Procs, NEW cmd \in Commands, Start(p, cmd)
          PROVE  FileStaysIntact'
      BY <2>2 DEF Start, FileStaysIntact, Intact
    <2>3. CASE UNCHANGED vars
      BY <2>3 DEF vars, FileStaysIntact, Intact
    <2> QED BY <2>1, <2>2, <2>3 DEF Next
  <1> QED BY TypeCorrect, PhaseAlways, <1>1, <1>2, PTL DEF Spec

(* What the two remaining steps on the file need.  A lock that is to be    *)
(* written is of version 4, and while the file is older, one that an       *)
(* update has computed has every API declared in the file: it was computed *)
(* from this very file, for nothing but version 4 is ever written.         *)
MigrationOK ==
    /\ \A p \in Procs : proc[p].phase \in {"temp", "persist"} => proc[p].mem.version = 4
    /\ (file.kind = "whole" /\ file.doc.version < 4) =>
          \A p \in Procs :
             (proc[p].phase \in {"temp", "persist"} /\ proc[p].cmd.op = "update") =>
                \A n \in Names : file.doc.declared[n] # None => proc[p].mem.v4[n] # None

(* An update that is allowed on an older lock is of its only declared API. *)
LEMMA ReplaceKeepsDeclared ==
  ASSUME NEW doc \in Document, doc.version < 4, WellFormedDocument(doc),
         NEW name \in Names, NEW contract \in Contracts, ReplaceAllowed(Load(doc), name),
         NEW n \in Names, doc.declared[n] # None
  PROVE  ReplaceDeclared(Load(doc), name, contract).v4[n] # None
  <1>1. doc.version \in {1, 2, 3} /\ doc.declared \in DeclaredMap
    BY DEF Document
  <1>2. Load(doc).legacy[n] # None \/ Load(doc).v3[n] # None
    BY <1>1 DEF Load
  <1>3. n = name
    BY <1>1, <1>2 DEF ReplaceAllowed, Load
  <1>4. Load(doc).v4 \in DeclaredMap
    BY LoadType DEF ApiLock
  <1> QED BY <1>3, <1>4, NoneAssumption DEF ReplaceDeclared, DeclaredMap

(* What is declared in a well-formed lock is declared in its text.         *)
LEMMA RenderKeepsDeclared ==
  ASSUME NEW lock \in ApiLock, WellFormed(lock), lock.version = 4, NEW n \in Names, lock.v4[n] # None
  PROVE  Render(lock).version = 4 /\ Render(lock).declared[n] # None
  <1>1. lock.observed[n] = None
    BY DEF WellFormed, IsDeclared
  <1> QED BY <1>1 DEF Render

LEMMA StepMigration ==
  ASSUME AtomicCommands, TypeOK, PhaseOK, LocksWellFormed, FileStaysIntact, MigrationOK,
         NEW p \in Procs, Step(p)
  PROVE  MigrationOK'
  <1>0. /\ proc[p] \in ProcState /\ proc \in [Procs -> ProcState]
        /\ proc[p].cmd.op \in {"lock", "update", "verify"}
        /\ proc[p].phase \notin {"apply", "open", "write", "partial", "orphan"}
    BY DEF TypeOK, ProcState, AtomicCommands, PhaseOK
  <1>1. ASSUME UNCHANGED file, \A q \in Procs \ {p} : proc'[q] = proc[q],
               proc'[p].phase \notin {"temp", "persist"}
        PROVE  MigrationOK'
    BY <1>1 DEF MigrationOK
  <1>2. CASE RefuseInput(p) \/ Verify(p) \/ WriteError(p) \/ Kill(p)
    BY <1>0, <1>1, <1>2 DEF RefuseInput, Verify, WriteError, Kill, Exit, Exited
  <1>3. CASE LockBuild(p)
    <2>1. NewV4(proc[p].cmd.name, proc[p].cmd.contract).version = 4
      BY DEF NewV4, EmptyLock
    <2> QED BY <1>0, <1>3, <2>1 DEF LockBuild, GotoWith, MigrationOK, ProcState
  <1>4. CASE UpdateLoad(p)
    <2> DEFINE lock == ReplaceDeclared(Load(file.doc), proc[p].cmd.name, proc[p].cmd.contract)
    <2>1. CASE Exit(p, "error")
      BY <1>0, <1>1, <1>4, <2>1 DEF UpdateLoad, Exit, Exited
    <2>2. CASE ~Exit(p, "error")
      <3>1. /\ Parses /\ ReplaceAllowed(Load(file.doc), proc[p].cmd.name)
            /\ GotoWith(p, "temp", lock) /\ UNCHANGED file
        BY <1>4, <2>2 DEF UpdateLoad
      <3>2. lock.version = 4
        BY DEF ReplaceDeclared
      <3>3. /\ file.doc \in Document /\ WellFormedDocument(file.doc)
            /\ proc[p].cmd.name \in Names /\ proc[p].cmd.contract \in Contracts
        BY <1>0, CommandType DEF TypeOK, FileState, LocksWellFormed, ProcState
      <3>4. file.doc.version < 4 => \A n \in Names : file.doc.declared[n] # None => lock.v4[n] # None
        BY <3>1, <3>3, ReplaceKeepsDeclared
      <3>5. /\ \A q \in Procs \ {p} : proc'[q] = proc[q]
            /\ proc'[p].mem = lock
        BY <1>0, <3>1 DEF GotoWith, ProcState
      <3> HIDE DEF lock
      <3> QED BY <3>1, <3>2, <3>4, <3>5 DEF MigrationOK
    <2> QED BY <2>1, <2>2
  <1>5. CASE FillTemp(p)
    BY <1>0, <1>5 DEF FillTemp, Goto, MigrationOK, ProcState
  <1>6. CASE PersistNew(p)
    <2>1. proc'[p].phase = "idle" /\ \A q \in Procs \ {p} : proc'[q] = proc[q]
      BY <1>0, <1>6 DEF PersistNew, Exit, Exited
    <2>2. CASE UNCHANGED file
      BY <1>1, <2>1, <2>2
    <2>3. CASE file' = Whole(Render(proc[p].mem))
      <3>1. file'.doc.version = 4
        BY <1>6, <2>3 DEF PersistNew, MigrationOK, Whole, Render
      <3> QED BY <2>1, <3>1 DEF MigrationOK
    <2> QED BY <1>6, <2>2, <2>3 DEF PersistNew
  <1>7. CASE PersistReplace(p)
    <2>1. file'.doc.version = 4
      BY <1>7 DEF PersistReplace, MigrationOK, Whole, Render
    <2>2. /\ proc'[p].phase = "idle"
          /\ \A q \in Procs \ {p} : proc[q].phase \notin {"write", "partial"}
      BY <1>0, <1>7 DEF PersistReplace, Exited, PhaseOK, TypeOK, AtomicCommands, ProcState
    <2>3. \A q \in Procs \ {p} : proc'[q] = proc[q]
      BY <1>7, <2>2 DEF PersistReplace
    <2> QED BY <2>1, <2>2, <2>3 DEF MigrationOK
  <1> QED
    BY <1>0, <1>2, <1>3, <1>4, <1>5, <1>6, <1>7
    DEF Step, InitCheck, RecordLoad, RecordApply, RecordRender, Truncate, WritePart,
        WriteDone, WriteOrphan

LEMMA MigrationAlways ==
  ASSUME AtomicCommands
  PROVE  Spec => []MigrationOK
  <1>1. Init => MigrationOK
    BY DEF Init, MigrationOK
  <1>2. TypeOK /\ PhaseOK /\ LocksWellFormed /\ FileStaysIntact /\ MigrationOK /\ [Next]_vars
          => MigrationOK'
    <2> SUFFICES ASSUME TypeOK, PhaseOK, LocksWellFormed, FileStaysIntact, MigrationOK, [Next]_vars
                 PROVE  MigrationOK'
      OBVIOUS
    <2>1. ASSUME NEW p \in Procs, Step(p) PROVE MigrationOK'
      BY <2>1, StepMigration
    <2>2. ASSUME NEW p \in Procs, NEW cmd \in Commands, Start(p, cmd) PROVE MigrationOK'
      BY <2>2 DEF Start, TypeOK, ProcState, MigrationOK
    <2>3. CASE UNCHANGED vars
      BY <2>3 DEF vars, MigrationOK
    <2> QED BY <2>1, <2>2, <2>3 DEF Next
  <1> QED
    BY TypeCorrect, PhaseAlways, WellFormedAlways, RenamesKeepFileIntact, <1>1, <1>2, PTL DEF Spec

(* With atomic renames only, whatever the interleaving, an older lock      *)
(* leaves its version with every API that was declared in it               *)
(* (src/lockfile/mod.rs:449).                                              *)
THEOREM MigrationKeeps ==
  ASSUME AtomicCommands
  PROVE  Spec => MigrationKeepsDeclared
  <1> DEFINE Carries == (/\ file.kind = "whole" /\ file'.kind = "whole"
                       /\ file.doc.version < 4 /\ file'.doc.version = 4)
                      => \A n \in Names : file.doc.declared[n] # None => file'.doc.declared[n] # None
  <1>1. TypeOK /\ PhaseOK /\ LocksWellFormed /\ MigrationOK /\ [Next]_vars => Carries
    <2> SUFFICES ASSUME TypeOK, PhaseOK, LocksWellFormed, MigrationOK, [Next]_vars,
                        file.kind = "whole", file.doc.version < 4, file'.doc.version = 4,
                        NEW n \in Names, file.doc.declared[n] # None
                 PROVE  file'.doc.declared[n] # None
      OBVIOUS
    <2>1. file' # file
      BY DEF TypeOK, FileState, Document
    <2>2. PICK p \in Procs : Step(p)
      BY <2>1 DEF Next, Start, vars
    <2>3. /\ proc[p].cmd.op \in {"lock", "update", "verify"}
          /\ proc[p].phase \notin {"open", "write", "partial", "orphan"}
      BY DEF TypeOK, ProcState, AtomicCommands, PhaseOK
    <2>4. PersistReplace(p)
      BY <2>1, <2>2, <2>3
      DEF Step, RefuseInput, InitCheck, LockBuild, UpdateLoad, RecordLoad, RecordApply,
          RecordRender, Verify, FillTemp, PersistNew, Truncate, WritePart, WriteDone,
          WriteOrphan, WriteError, Kill
    <2>5. /\ proc[p].mem.v4[n] # None /\ proc[p].mem.version = 4
          /\ proc[p].mem \in ApiLock /\ WellFormed(proc[p].mem)
      BY <2>4 DEF PersistReplace, MigrationOK, TypeOK, ProcState, LocksWellFormed
    <2>6. Render(proc[p].mem).declared[n] # None
      BY <2>5, RenderKeepsDeclared
    <2> QED BY <2>4, <2>6 DEF PersistReplace, Whole
  <1> QED
    BY TypeCorrect, PhaseAlways, WellFormedAlways, MigrationAlways, <1>1, PTL
    DEF Spec, MigrationKeepsDeclared

(* A build without the older formats parses version 1 but selects nothing  *)
(* in it.                                                                  *)
Selectable(doc) == LegacyFormat \/ doc.version = 4

FileSelectable == file.kind = "whole" => Selectable(file.doc)

LEMMA FileAlwaysSelectable ==
  ASSUME AtomicCommands, \A doc \in InitialDocs : Selectable(doc)
  PROVE  Spec => []FileSelectable
  <1>1. Init => FileSelectable
    BY DEF Init, FileSelectable, Absent, Whole
  <1>2. TypeOK /\ PhaseOK /\ MigrationOK /\ FileSelectable /\ [Next]_vars => FileSelectable'
    <2> SUFFICES ASSUME TypeOK, PhaseOK, MigrationOK, FileSelectable, [Next]_vars, file' # file
                 PROVE  FileSelectable'
      BY DEF FileSelectable
    <2>1. PICK p \in Procs : Step(p)
      BY DEF Next, Start, vars
    <2>2. /\ proc[p].cmd.op \in {"lock", "update", "verify"}
          /\ proc[p].phase \notin {"open", "write", "partial", "orphan"}
      BY DEF TypeOK, ProcState, AtomicCommands, PhaseOK
    <2>3. PersistNew(p) \/ PersistReplace(p)
      BY <2>1, <2>2
      DEF Step, RefuseInput, InitCheck, LockBuild, UpdateLoad, RecordLoad, RecordApply,
          RecordRender, Verify, FillTemp, Truncate, WritePart, WriteDone, WriteOrphan,
          WriteError, Kill
    <2>4. file' = Whole(Render(proc[p].mem)) /\ proc[p].mem.version = 4
      BY <2>3 DEF PersistNew, PersistReplace, MigrationOK
    <2> QED BY <2>4 DEF FileSelectable, Selectable, Whole, Render
  <1> QED BY TypeCorrect, PhaseAlways, MigrationAlways, <1>1, <1>2, PTL DEF Spec

(* Every entry of such a text can be selected.                             *)
LEMMA EntriesAreTargets ==
  ASSUME NEW doc \in Document, Selectable(doc), NEW name \in DocumentNames(doc)
  PROVE  VerifyTarget(Load(doc), name) # "missing"
  <1>1. /\ name \in Names
        /\ doc.declared[name] # None \/ doc.observed[name] # None
        /\ doc.version \in 1..4
    BY DEF DocumentNames, Document
  <1>2. CASE doc.observed[name] # None
    BY <1>2 DEF VerifyTarget, Load
  <1>3. CASE doc.observed[name] = None /\ doc.version = 4
    BY <1>1, <1>3 DEF VerifyTarget, Load
  <1>4. CASE doc.observed[name] = None /\ doc.version = 3
    <2>1. Load(doc).v3[name] # None /\ LegacyFormat
      BY <1>1, <1>4 DEF Load, Selectable
    <2> QED BY <1>4, <2>1 DEF VerifyTarget, Load
  <1>5. CASE doc.observed[name] = None /\ doc.version \in {1, 2}
    <2>1. Load(doc).legacy[name] # None
      BY <1>1, <1>5 DEF Load
    <2> QED BY <1>5, <2>1 DEF VerifyTarget, Load, Selectable, EmptyMap
  <1> QED BY <1>1, <1>2, <1>3, <1>4, <1>5

(* With atomic renames only, and locks of formats this build reads, a      *)
(* verify whose own inputs are in order ends in an error only when there   *)
(* is no lock, or no such entry in it, at whatever moment it reads         *)
(* (src/main.rs:402-410, src/lockfile/mod.rs:647).                         *)
THEOREM VerifyReads ==
  ASSUME AtomicCommands, \A doc \in InitialDocs : Selectable(doc)
  PROVE  Spec => VerifyReadsEveryLock
  <1>1. TypeOK /\ PhaseOK /\ FileStaysIntact /\ FileSelectable /\ [Next]_vars
          => \A p \in Procs :
                /\ proc[p].phase = "load" /\ proc[p].cmd.op = "verify" /\ proc[p].inputs
                /\ proc'[p].exit = "error"
                => \/ file.kind = "absent"
                   \/ proc[p].cmd.name \notin DocumentNames(file.doc)
    <2> SUFFICES ASSUME TypeOK, PhaseOK, FileStaysIntact, FileSelectable, [Next]_vars,
                        NEW p \in Procs, proc[p].phase = "load", proc[p].cmd.op = "verify",
                        proc[p].inputs,
                        proc'[p].exit = "error", file.kind # "absent",
                        proc[p].cmd.name \in DocumentNames(file.doc)
                 PROVE  FALSE
      OBVIOUS
    <2>1. /\ file.kind = "whole" /\ Selectable(file.doc) /\ file.doc \in Document
      BY DEF FileStaysIntact, Intact, FileSelectable, TypeOK, FileState
    <2>2. Parses /\ VerifyTarget(Load(file.doc), proc[p].cmd.name) # "missing"
      BY <2>1, EntriesAreTargets DEF Parses, Readable, Selectable
    <2>3. proc[p].exit = "none" /\ proc \in [Procs -> ProcState]
      BY DEF PhaseOK, Running, TypeOK
    <2>4. ASSUME NEW q \in Procs \ {p}, Step(q) PROVE proc'[p].exit = proc[p].exit
      BY <2>3, <2>4
      DEF Step, RefuseInput, InitCheck, LockBuild, UpdateLoad, RecordLoad, RecordApply,
          RecordRender, Verify, FillTemp, PersistNew, PersistReplace, Truncate, WritePart,
          WriteDone, WriteOrphan, WriteError, Kill, Goto, GotoWith, Exit
    <2>5. ASSUME Step(p) PROVE proc'[p].exit # "error"
      BY <2>2, <2>3, <2>5
      DEF Step, RefuseInput, InitCheck, LockBuild, UpdateLoad, RecordLoad, RecordApply,
          RecordRender, Verify, FillTemp, PersistNew, PersistReplace, Truncate, WritePart,
          WriteDone, WriteOrphan, WriteError, Kill, Exit, Exited
    <2>6. ASSUME NEW q \in Procs, NEW cmd \in Commands, Start(q, cmd) PROVE proc'[p].exit # "error"
      BY <2>3, <2>6 DEF Start, Running
    <2> QED BY <2>3, <2>4, <2>5, <2>6 DEF Next, vars
  <1> QED
    BY TypeCorrect, PhaseAlways, RenamesKeepFileIntact, FileAlwaysSelectable, <1>1, PTL
    DEF Spec, VerifyReadsEveryLock

-----------------------------------------------------------------------------
(* Run one at a time, the commands implement LockRegister, with kills and  *)
(* failing writes at every step.  What a command holds in memory is        *)
(* computed from the file that is still there, up to the step that writes. *)

(* The lock that record starts from.                                       *)
StartingLock == IF file.kind = "absent" THEN EmptyLock(2) ELSE Load(file.doc)

(* The calls before the next one were allowed, and are applied.            *)
RecordedSoFar(p) ==
    LET calls == proc[p].cmd.calls
        done == proc[p].next - 1 IN
    /\ file.kind = "absent" \/ Parses
    /\ done \in 0..Len(calls)
    /\ AllAllowed(StartingLock, calls, done)
    /\ proc[p].mem = AfterCalls(StartingLock, calls, done)
    /\ Keeps(StartingLock, proc[p].mem)
    /\ \A i \in 1..done : Holds(proc[p].mem, calls[i])

Updated(p) ==
    LET cmd == proc[p].cmd IN
    /\ Parses
    /\ ReplaceAllowed(Load(file.doc), cmd.name)
    /\ proc[p].mem = ReplaceDeclared(Load(file.doc), cmd.name, cmd.contract)

Built(p) == proc[p].mem = NewV4(proc[p].cmd.name, proc[p].cmd.contract)

(* What may be on disk of an in-place write.                               *)
PartsOf(p) == {Garbage(p)} \cup {Torn(d, p) : d \in Cuts(Render(proc[p].mem))}

ProcessOK(p) ==
    LET phase == proc[p].phase
        cmd == proc[p].cmd IN
    /\ phase \in {"idle", "load"} => proc[p].next = 1
    /\ phase = "apply" => RecordedSoFar(p)
    /\ phase \in {"temp", "persist"} => IF cmd.op = "lock" THEN Built(p) ELSE Updated(p)
    /\ phase = "open" => IF cmd.op = "init" THEN file.kind = "absent" /\ proc[p].mem = EmptyLock(4)
                         ELSE RecordedSoFar(p) /\ proc[p].next - 1 = Len(cmd.calls)
    /\ phase = "write" => file = Empty
    /\ phase = "partial" => file \in PartsOf(p)
    /\ InPlace(p) => Stored(cmd, Render(proc[p].mem))
    /\ phase # "orphan"

OneAtATime == \A p, q \in Procs : Running(p) /\ Running(q) => p = q

FileOK == file.kind \notin {"whole", "torn"} => file.doc = NoDoc

SerialOK == OneAtATime /\ FileOK /\ \A p \in Procs : ProcessOK(p)
-----------------------------------------------------------------------------
(* The inductive step.                                                     *)

(* While a process is at work the others are idle, and stay so.            *)
LEMMA Alone ==
  ASSUME TypeOK, OneAtATime, NEW p \in Procs, Step(p)
  PROVE  /\ Running(p)
         /\ \A q \in Procs \ {p} : ~Running(q) /\ proc'[q] = proc[q]
  <1>1. Running(p)
    BY DEF Running, Step, RefuseInput, InitCheck, LockBuild, UpdateLoad, RecordLoad, RecordApply,
           RecordRender, Verify, FillTemp, PersistNew, PersistReplace, Truncate, WritePart,
           WriteDone, WriteOrphan, WriteError, Kill
  <1>2. ASSUME NEW q \in Procs \ {p} PROVE ~Running(q)
    BY <1>1 DEF OneAtATime
  <1>3. ASSUME NEW q \in Procs \ {p} PROVE proc'[q] = proc[q]
    <2>1. CASE PersistReplace(p)
      BY <1>2, <1>3, <2>1 DEF PersistReplace, Running
    <2>2. CASE ~PersistReplace(p)
      BY <1>3, <2>2
      DEF Step, RefuseInput, InitCheck, LockBuild, UpdateLoad, RecordLoad, RecordApply,
          RecordRender, Verify, FillTemp, PersistNew, Truncate, WritePart, WriteDone,
          WriteOrphan, WriteError, Kill, Goto, GotoWith, Exit, TypeOK, ProcState
    <2> QED BY <2>1, <2>2
  <1> QED BY <1>1, <1>2, <1>3

(* What the steps that move one process leave of it.                       *)
LEMMA Moves ==
  ASSUME TypeOK, NEW p \in Procs
  PROVE  /\ \A phase \in Phases : Goto(p, phase) =>
               /\ proc'[p].phase = phase /\ proc'[p].cmd = proc[p].cmd
               /\ proc'[p].mem = proc[p].mem /\ proc'[p].next = proc[p].next
         /\ \A phase \in Phases, lock \in ApiLock : GotoWith(p, phase, lock) =>
               /\ proc'[p].phase = phase /\ proc'[p].cmd = proc[p].cmd
               /\ proc'[p].mem = lock /\ proc'[p].next = proc[p].next
         /\ \A code \in {"none", "ok", "error"} : Exit(p, code) =>
               proc'[p].phase = "idle" /\ proc'[p].next = 1
  BY DEF TypeOK, ProcState, Goto, GotoWith, Exit, Exited

LEMMA IdleOK ==
  ASSUME NEW p \in Procs, proc[p].phase \in {"idle", "load"}, proc[p].next = 1
  PROVE  ProcessOK(p)
  BY DEF ProcessOK, InPlace

LEMMA StartingType ==
  ASSUME TypeOK
  PROVE  StartingLock \in ApiLock
  BY LoadType, EmptyLockType DEF StartingLock, TypeOK, FileState

(* A command that has recorded all its calls stores them all.              *)
LEMMA RecordStores ==
  ASSUME TypeOK, LocksWellFormed, NEW p \in Procs, RecordedSoFar(p),
         proc[p].next - 1 = Len(proc[p].cmd.calls), proc[p].cmd.op = "record"
  PROVE  Stored(proc[p].cmd, Render(proc[p].mem))
  <1> DEFINE mem == proc[p].mem
             calls == proc[p].cmd.calls
  <1>1. mem \in ApiLock /\ WellFormed(mem) /\ \A i \in 1..Len(calls) : calls[i] \in RecordCall
    BY CommandType DEF TypeOK, ProcState, LocksWellFormed
  <1>2. \A i \in 1..Len(calls) : Holds(mem, calls[i])
    BY DEF RecordedSoFar
  <1>3. ASSUME NEW i \in 1..Len(calls)
        PROVE  Render(mem).observed[calls[i].name] = mem.observed[calls[i].name]
    <2>1. calls[i].name \in Names /\ mem.observed[calls[i].name] # None
      BY <1>1, <1>2 DEF Holds, RecordCall
    <2>2. mem.version # 1
      BY <1>1, <2>1 DEF WellFormed, EmptyMap
    <2> QED BY <2>2 DEF Render
  <1> QED BY <1>2, <1>3 DEF Stored, Holds

(* One more call.                                                          *)
LEMMA ApplyRecorded ==
  ASSUME TypeOK, NEW p \in Procs, RecordApply(p), RecordedSoFar(p), ~Exit(p, "error")
  PROVE  RecordedSoFar(p)' /\ proc'[p].phase = "apply"
  <1> DEFINE calls == proc[p].cmd.calls
             next == proc[p].next
             call == calls[next]
             done == next - 1
             mem == proc[p].mem
  <1>1. /\ proc[p] \in ProcState /\ next \in 1..Len(calls)
        /\ RecordAllowed(mem, call)
        /\ proc' = [proc EXCEPT ![p].mem = RecordObserved(@, call), ![p].next = @ + 1]
        /\ UNCHANGED file
    BY DEF RecordApply, TypeOK
  <1>2. /\ mem \in ApiLock /\ \A i \in 1..Len(calls) : calls[i] \in RecordCall
        /\ Len(calls) \in Nat
    BY <1>1, CommandType, CommandAssumption DEF ProcState, Command
  <1>3. /\ proc'[p].phase = proc[p].phase /\ proc'[p].cmd = proc[p].cmd
        /\ proc'[p].mem = RecordObserved(mem, call) /\ proc'[p].next = next + 1
    BY <1>1 DEF TypeOK, ProcState
  <1>4. StartingLock \in ApiLock /\ StartingLock' = StartingLock
    BY <1>1, StartingType DEF StartingLock
  <1>5. /\ mem = AfterCalls(StartingLock, calls, done) /\ done \in Nat /\ done + 1 = next
        /\ AllAllowed(StartingLock, calls, done)
        /\ Keeps(StartingLock, mem)
        /\ \A i \in 1..done : Holds(mem, calls[i])
    BY <1>1 DEF RecordedSoFar
  <1>6. RecordObserved(mem, call) = AfterCalls(StartingLock, calls, next)
    <2>1. \A i \in 1..(done + 1) : calls[i] \in RecordCall
      BY <1>1, <1>2
    <2> HIDE DEF done, calls
    <2> QED BY <1>4, <1>5, <2>1, AfterCallsStep
  <1>7. AllAllowed(StartingLock, calls, next)
    <2>1. RecordAllowed(AfterCalls(StartingLock, calls, next - 1), calls[next])
      BY <1>1, <1>5
    <2>2. \A i \in 1..done : RecordAllowed(AfterCalls(StartingLock, calls, i - 1), calls[i])
      BY <1>5 DEF AllAllowed
    <2>3. \A i \in 1..next : i = next \/ i \in 1..done
      BY <1>1
    <2> HIDE DEF done, next, calls
    <2> QED BY <2>1, <2>2, <2>3 DEF AllAllowed
  <1>8. call \in RecordCall
    BY <1>1, <1>2
  <1>9. Keeps(mem, RecordObserved(mem, call)) /\ Holds(RecordObserved(mem, call), call)
    BY <1>1, <1>2, <1>8, RecordKeeps
  <1>10. Keeps(StartingLock, RecordObserved(mem, call))
    BY <1>5, <1>9, KeepsFurther
  <1>11. \A i \in 1..next : Holds(RecordObserved(mem, call), calls[i])
    <2>1. ASSUME NEW i \in 1..done PROVE Holds(RecordObserved(mem, call), calls[i])
      <3>1. calls[i] \in RecordCall
        BY <1>1, <1>2
      <3> QED BY <1>5, <1>9, <3>1, HoldsFurther
    <2>2. \A i \in 1..next : i = next \/ i \in 1..done
      BY <1>1
    <2>3. Holds(RecordObserved(mem, call), calls[next])
      BY <1>9
    <2> HIDE DEF done, next, calls, call, mem
    <2> QED BY <2>1, <2>2, <2>3
  <1>12. (file.kind = "absent" \/ Parses)' /\ next \in 0..Len(calls)
    BY <1>1 DEF RecordedSoFar, Parses
  <1>13. proc[p].phase = "apply"
    BY DEF RecordApply
  <1>14. proc'[p].next - 1 = next
    BY <1>1, <1>3
  <1> HIDE DEF calls, next, call, mem
  <1> QED
    BY <1>3, <1>4, <1>6, <1>7, <1>10, <1>11, <1>12, <1>13, <1>14 DEF RecordedSoFar, calls

LEMMA StepSerial ==
  ASSUME TypeOK, PhaseOK, LocksWellFormed, SerialOK, NEW p \in Procs, Step(p)
  PROVE  SerialOK'
  <1> DEFINE cmd == proc[p].cmd
             mem == proc[p].mem
  <1>1. Running(p) /\ \A q \in Procs \ {p} : ~Running(q) /\ proc'[q] = proc[q]
    BY Alone DEF SerialOK
  <1>2. OneAtATime'
    BY <1>1 DEF OneAtATime, Running
  <1>3. ASSUME NEW q \in Procs \ {p} PROVE ProcessOK(q)'
    <2>1. proc[q].phase = "idle" /\ proc[q].next = 1
      BY <1>1 DEF Running, SerialOK, ProcessOK
    <2> QED BY <1>1, <2>1 DEF ProcessOK, InPlace
  <1> SUFFICES FileOK' /\ ProcessOK(p)'
    BY <1>2, <1>3 DEF SerialOK
  <1>4. /\ ProcessOK(p) /\ FileOK
        /\ proc[p] \in ProcState /\ cmd \in Commands /\ cmd.op \in Ops /\ mem \in ApiLock
        /\ cmd.name \in Names /\ cmd.contract \in Contracts /\ Len(cmd.calls) \in Nat
        /\ file \in FileState /\ file.doc \in Document
    BY CommandType, CommandAssumption DEF SerialOK, TypeOK, ProcState, FileState, Command
  <1>5. ASSUME \E code \in {"none", "ok", "error"} : Exit(p, code) PROVE ProcessOK(p)'
    BY <1>5, Moves DEF ProcessOK, InPlace
  <1>6. UNCHANGED file => FileOK'
    BY <1>4 DEF FileOK
  <1>7. CASE RefuseInput(p) \/ Verify(p) \/ WriteOrphan(p) \/ WriteError(p) \/ Kill(p)
    BY <1>5, <1>6, <1>7 DEF RefuseInput, Verify, WriteOrphan, WriteError, Kill
  <1>8. CASE InitCheck(p)
    <2>1. CASE Exit(p, "error")
      BY <1>5, <1>6, <1>8, <2>1 DEF InitCheck
    <2>2. CASE ~Exit(p, "error")
      <3>1. /\ UNCHANGED file /\ file.kind = "absent" /\ cmd.op = "init"
            /\ GotoWith(p, "open", EmptyLock(4))
        BY <1>8, <2>2 DEF InitCheck
      <3>2. /\ proc'[p].phase = "open" /\ proc'[p].cmd = cmd /\ proc'[p].mem = EmptyLock(4)
        BY <3>1, Moves, EmptyLockType DEF Phases
      <3> QED BY <1>6, <3>1, <3>2 DEF ProcessOK, InPlace
    <2> QED BY <2>1, <2>2
  <1>9. CASE LockBuild(p)
    <2>1. NewV4(cmd.name, cmd.contract) \in ApiLock
      BY <1>4, NewV4Type
    <2>2. /\ UNCHANGED file /\ cmd.op = "lock"
          /\ proc'[p].phase = "temp" /\ proc'[p].cmd = cmd /\ proc'[p].mem = NewV4(cmd.name, cmd.contract)
      BY <1>9, <2>1, Moves DEF LockBuild, Phases
    <2> QED BY <1>6, <2>2 DEF ProcessOK, InPlace, Built
  <1>10. CASE UpdateLoad(p)
    <2> DEFINE lock == ReplaceDeclared(Load(file.doc), cmd.name, cmd.contract)
    <2>1. CASE Exit(p, "error")
      BY <1>5, <1>6, <1>10, <2>1 DEF UpdateLoad
    <2>2. CASE ~Exit(p, "error")
      <3>1. lock \in ApiLock
        BY <1>4, LoadType, ReplaceDeclaredType
      <3>2. /\ UNCHANGED file /\ cmd.op = "update" /\ Parses
            /\ ReplaceAllowed(Load(file.doc), cmd.name)
            /\ GotoWith(p, "temp", lock)
        BY <1>10, <2>2 DEF UpdateLoad
      <3>3. proc'[p].phase = "temp" /\ proc'[p].cmd = cmd /\ proc'[p].mem = lock
        BY <3>1, <3>2, Moves DEF Phases
      <3>4. Updated(p)'
        BY <3>2, <3>3 DEF Updated, Parses
      <3> HIDE DEF lock
      <3> QED BY <1>6, <3>2, <3>3, <3>4 DEF ProcessOK, InPlace
    <2> QED BY <2>1, <2>2
  <1>11. CASE RecordLoad(p)
    <2>1. CASE Exit(p, "error")
      BY <1>5, <1>6, <1>11, <2>1 DEF RecordLoad
    <2>2. CASE ~Exit(p, "error")
      <3>1. /\ UNCHANGED file
            /\ file.kind = "absent" \/ Parses
            /\ GotoWith(p, "apply", StartingLock)
        BY <1>11, <2>2 DEF RecordLoad, StartingLock
      <3>2. StartingLock \in ApiLock
        BY StartingType
      <3>3. /\ proc'[p].phase = "apply" /\ proc'[p].cmd = cmd /\ proc'[p].mem = StartingLock
            /\ proc'[p].next = 1
        BY <1>4, <1>11, <3>1, <3>2, Moves DEF Phases, RecordLoad, ProcessOK
      <3>4. StartingLock' = StartingLock /\ (file.kind = "absent" \/ Parses)'
        BY <3>1 DEF StartingLock, Parses
      <3>5. AfterCalls(StartingLock, cmd.calls, 0) = StartingLock
        BY <3>2, AfterCallsZero
      <3>6. AllAllowed(StartingLock, cmd.calls, 0) /\ Keeps(StartingLock, StartingLock)
        BY DEF AllAllowed, Keeps
      <3>7. RecordedSoFar(p)'
        <4>1. proc'[p].next - 1 = 0 /\ 0 \in 0..Len(cmd.calls) /\ 1..0 = {}
          BY <1>4, <3>3
        <4> QED BY <3>3, <3>4, <3>5, <3>6, <4>1 DEF RecordedSoFar
      <3> QED BY <1>6, <3>1, <3>3, <3>7 DEF ProcessOK, InPlace
    <2> QED BY <2>1, <2>2
  <1>12. CASE RecordApply(p)
    <2>1. CASE Exit(p, "error")
      BY <1>5, <1>6, <1>12, <2>1 DEF RecordApply
    <2>2. CASE ~Exit(p, "error")
      <3>1. RecordedSoFar(p)' /\ proc'[p].phase = "apply"
        BY <1>4, <1>12, <2>2, ApplyRecorded DEF ProcessOK, RecordApply
      <3> QED BY <1>6, <1>12, <3>1 DEF RecordApply, ProcessOK, InPlace
    <2> QED BY <2>1, <2>2
  <1>13. CASE RecordRender(p)
    <2>1. /\ UNCHANGED file /\ RecordedSoFar(p) /\ cmd.op = "record"
          /\ proc[p].next > Len(cmd.calls)
          /\ proc'[p].phase = "open" /\ proc'[p].cmd = cmd
          /\ proc'[p].mem = mem /\ proc'[p].next = proc[p].next
      BY <1>4, <1>13, Moves DEF RecordRender, ProcessOK, PhaseOK, Phases
    <2>2. proc[p].next - 1 = Len(cmd.calls)
      BY <1>4, <2>1 DEF RecordedSoFar, ProcState
    <2>3. RecordedSoFar(p)'
      BY <2>1 DEF RecordedSoFar, StartingLock, Parses
    <2> QED BY <1>6, <2>1, <2>2, <2>3 DEF ProcessOK, InPlace
  <1>14. CASE FillTemp(p)
    <2>1. /\ UNCHANGED file /\ proc'[p].phase = "persist" /\ proc[p].phase = "temp"
          /\ proc'[p].cmd = cmd /\ proc'[p].mem = mem
      BY <1>14, Moves DEF FillTemp, Phases
    <2> QED BY <1>4, <1>6, <2>1 DEF ProcessOK, InPlace, Built, Updated, Parses
  <1>15. CASE PersistNew(p)
    BY <1>5, <1>6, <1>15 DEF PersistNew, FileOK, Whole
  <1>16. CASE PersistReplace(p)
    <2>1. FileOK' /\ proc'[p].phase = "idle" /\ proc'[p].next = 1
      BY <1>16 DEF PersistReplace, FileOK, Whole, Exited
    <2> QED BY <2>1 DEF ProcessOK, InPlace
  <1>17. CASE Truncate(p)
    <2>1. /\ file' = Empty /\ proc[p].phase = "open" /\ proc'[p].phase = "write"
          /\ proc'[p].cmd = cmd /\ proc'[p].mem = mem /\ cmd.op \in {"init", "record"}
      BY <1>17, Moves DEF Truncate, Phases, PhaseOK
    <2>2. Stored(cmd, Render(mem))
      <3>1. CASE cmd.op = "init"
        BY <3>1 DEF Stored
      <3>2. CASE cmd.op = "record"
        BY <1>4, <2>1, <3>2, RecordStores DEF ProcessOK
      <3> QED BY <2>1, <3>1, <3>2
    <2> QED BY <2>1, <2>2 DEF ProcessOK, InPlace, FileOK, Empty
  <1>18. CASE WritePart(p)
    <2>1. /\ file' \in PartsOf(p) /\ proc[p].phase = "write" /\ proc'[p].phase = "partial"
          /\ proc'[p].cmd = cmd /\ proc'[p].mem = mem
      BY <1>18, Moves DEF WritePart, Phases, PartsOf
    <2>2. file' \in PartsOf(p)'
      BY <2>1 DEF PartsOf
    <2>3. FileOK'
      BY <2>1 DEF PartsOf, FileOK, Garbage, Torn
    <2> QED BY <1>4, <2>1, <2>2, <2>3 DEF ProcessOK, InPlace
  <1>19. CASE WriteDone(p)
    <2>1. \E code \in {"ok", "error"} : Exit(p, code)
      BY <1>19 DEF WriteDone
    <2>2. file' = Whole(Render(mem))
      BY <1>4, <1>19
      DEF WriteDone, WriteResults, ProcessOK, PartsOf, Empty, Garbage, Torn
    <2> QED BY <1>5, <2>1, <2>2 DEF FileOK, Whole
  <1> QED
    BY <1>7, <1>8, <1>9, <1>10, <1>11, <1>12, <1>13, <1>14, <1>15, <1>16, <1>17, <1>18, <1>19
    DEF Step

LEMMA SerialAlways ==
  ASSUME Serial
  PROVE  Spec => []SerialOK
  <1>1. Init => SerialOK
    BY DEF Init, SerialOK, OneAtATime, FileOK, ProcessOK, Running, InPlace, Absent, Whole
  <1>2. TypeOK /\ PhaseOK /\ LocksWellFormed /\ SerialOK /\ [Next]_vars => SerialOK'
    <2> SUFFICES ASSUME TypeOK, PhaseOK, LocksWellFormed, SerialOK, [Next]_vars
                 PROVE  SerialOK'
      OBVIOUS
    <2>1. ASSUME NEW p \in Procs, Step(p) PROVE SerialOK'
      BY <2>1, StepSerial
    <2>2. ASSUME NEW p \in Procs, NEW cmd \in Commands, Start(p, cmd) PROVE SerialOK'
      <3>1. /\ UNCHANGED file /\ \A q \in Procs : proc[q].phase = "idle" /\ proc[q].next = 1
        BY <2>2 DEF Start, Running, SerialOK, ProcessOK
      <3>2. /\ proc'[p].phase = "load" /\ proc'[p].next = 1
            /\ \A q \in Procs \ {p} : proc'[q] = proc[q]
        BY <2>2, <3>1 DEF Start, TypeOK, ProcState
      <3>3. FileOK'
        BY <3>1 DEF SerialOK, FileOK
      <3>4. OneAtATime'
        BY <3>1, <3>2 DEF OneAtATime, Running
      <3>5. \A q \in Procs : ProcessOK(q)'
        BY <3>1, <3>2 DEF ProcessOK, InPlace
      <3> QED BY <3>3, <3>4, <3>5 DEF SerialOK
    <2>3. CASE UNCHANGED vars
      BY <2>3 DEF vars, SerialOK, OneAtATime, FileOK, ProcessOK, Running, InPlace, RecordedSoFar,
         StartingLock, Parses, Updated, Built, PartsOf
    <2> QED BY <2>1, <2>2, <2>3 DEF Next
  <1> QED BY TypeCorrect, PhaseAlways, WellFormedAlways, <1>1, <1>2, PTL DEF Spec

-----------------------------------------------------------------------------
(* The register.                                                           *)

LEMMA RegisterOperators ==
  /\ Register!EmptyMap = EmptyMap
  /\ Register!NoDocument = NoDoc
  /\ \A v : Register!EmptyLock(v) = EmptyLock(v)
  /\ \A lock : Register!Render(lock) = Render(lock)
  /\ \A doc : Register!Load(doc) = Load(doc)
  /\ \A doc : Register!Readable(doc) = Readable(doc)
  /\ \A name, contract : Register!NewV4(name, contract) = NewV4(name, contract)
  /\ \A lock, name : Register!ReplaceAllowed(lock, name) <=> ReplaceAllowed(lock, name)
  /\ \A lock, name, contract :
        Register!ReplaceDeclared(lock, name, contract) = ReplaceDeclared(lock, name, contract)
  /\ \A lock, calls, k : Register!AfterCalls(lock, calls, k) = AfterCalls(lock, calls, k)
  /\ \A lock, calls, k : Register!AllAllowed(lock, calls, k) <=> AllAllowed(lock, calls, k)
  /\ \A doc : Register!Cuts(doc) = Cuts(doc)
  <1>1. Register!EmptyMap = EmptyMap
    BY DEF Register!EmptyMap, EmptyMap
  <1>2. \A v : Register!EmptyLock(v) = EmptyLock(v)
    BY <1>1 DEF Register!EmptyLock, EmptyLock
  <1>3. \A lock : Register!Render(lock) = Render(lock)
    BY <1>1 DEF Register!Render, Render
  <1>4. \A lock, calls, k : Register!AfterCalls(lock, calls, k) = AfterCalls(lock, calls, k)
    BY DEF Register!AfterCalls, AfterCalls
  <1>5. \A doc : Register!Cuts(doc) = Cuts(doc)
    BY DEF Register!Cuts, Cuts, Register!Cut, Cut, Register!ShapeCuts, ShapeCuts, Register!DocumentNames, DocumentNames
  <1>6. \A lock, call : Register!RecordAllowed(lock, call) <=> RecordAllowed(lock, call)
    BY DEF Register!RecordAllowed, RecordAllowed, Register!IsDeclared, IsDeclared
  <1>7. \A lock, calls, k : Register!AllAllowed(lock, calls, k) <=> AllAllowed(lock, calls, k)
    BY <1>4, <1>6 DEF Register!AllAllowed, AllAllowed
  <1>8. \A doc : Register!Load(doc) = Load(doc) /\ Register!Readable(doc) = Readable(doc)
    BY <1>1 DEF Register!Load, Load, Register!Readable, Readable
  <1>9. \A name, contract : Register!NewV4(name, contract) = NewV4(name, contract)
    BY <1>2 DEF Register!NewV4, NewV4
  <1>10. \A lock, name : Register!ReplaceAllowed(lock, name) <=> ReplaceAllowed(lock, name)
    BY DEF Register!ReplaceAllowed, ReplaceAllowed
  <1>11. \A lock, name, contract :
           Register!ReplaceDeclared(lock, name, contract) = ReplaceDeclared(lock, name, contract)
    BY <1>1 DEF Register!ReplaceDeclared, ReplaceDeclared
  <1>12. Register!NoDocument = NoDoc
    BY <1>1 DEF Register!NoDocument, NoDoc
  <1> QED BY <1>1, <1>2, <1>3, <1>4, <1>5, <1>7, <1>8, <1>9, <1>10, <1>11, <1>12

(* The register while a process writes in place, and otherwise; and the    *)
(* same after a step.                                                      *)
FileValue ==
    [kind |-> IF file.kind \in {"empty", "garbage"} THEN "damaged" ELSE file.kind,
     doc  |-> file.doc]

WholeValue(doc) == [kind |-> "whole", doc |-> doc]

LEMMA Bars ==
  ASSUME OneAtATime
  PROVE  /\ \A p \in Procs : InPlace(p) => currentBar = WholeValue(Render(proc[p].mem)) /\ pendingBar = TRUE
         /\ (\A p \in Procs : ~InPlace(p)) => currentBar = FileValue /\ pendingBar = FALSE
  <1>1. ASSUME NEW p \in Procs, InPlace(p) PROVE currentBar = WholeValue(Render(proc[p].mem)) /\ pendingBar = TRUE
    <2>1. \A q \in Procs : InPlace(q) => q = p
      BY <1>1 DEF OneAtATime, Running, InPlace
    <2>2. (CHOOSE q \in Procs : InPlace(q)) = p
      BY <1>1, <2>1
    <2> QED BY <1>1, <2>2 DEF currentBar, pendingBar, WholeValue
  <1> QED BY <1>1 DEF currentBar, pendingBar, FileValue

LEMMA BarsNext ==
  ASSUME OneAtATime'
  PROVE  /\ \A p \in Procs : InPlace(p)' => currentBar' = WholeValue(Render(proc'[p].mem)) /\ pendingBar' = TRUE
         /\ (\A p \in Procs : ~InPlace(p)') => currentBar' = FileValue' /\ pendingBar' = FALSE
  <1>1. ASSUME NEW p \in Procs, InPlace(p)'
        PROVE  currentBar' = WholeValue(Render(proc'[p].mem)) /\ pendingBar' = TRUE
    <2>1. \A q \in Procs : InPlace(q)' => q = p
      BY <1>1 DEF OneAtATime, Running, InPlace
    <2>2. (CHOOSE q \in Procs : InPlace(q)') = p
      BY <1>1, <2>1
    <2> QED BY <1>1, <2>2 DEF currentBar, pendingBar, WholeValue
  <1> QED BY <1>1 DEF currentBar, pendingBar, FileValue

(* What a step does to the register: nothing, the effect of its command,   *)
(* or the end of a pending write.                                          *)
Unchanged == currentBar' = currentBar /\ pendingBar' = pendingBar

Created(cmd) ==
    /\ cmd.op = "lock" /\ currentBar = [kind |-> "absent", doc |-> NoDoc]
    /\ currentBar' = WholeValue(Render(NewV4(cmd.name, cmd.contract)))
    /\ pendingBar = FALSE /\ pendingBar' = FALSE

Initialised(cmd) ==
    /\ cmd.op = "init" /\ currentBar = [kind |-> "absent", doc |-> NoDoc]
    /\ currentBar' = WholeValue(NoDoc)
    /\ pendingBar = FALSE /\ pendingBar' = TRUE

Replaced(cmd) ==
    /\ cmd.op = "update" /\ Parses /\ currentBar = FileValue
    /\ ReplaceAllowed(Load(file.doc), cmd.name)
    /\ currentBar' = WholeValue(Render(ReplaceDeclared(Load(file.doc), cmd.name, cmd.contract)))
    /\ pendingBar = FALSE /\ pendingBar' = FALSE

Extended(cmd) ==
    LET count == Len(cmd.calls)
        after == AfterCalls(StartingLock, cmd.calls, count) IN
    /\ cmd.op = "record"
    /\ file.kind = "absent" \/ Parses
    /\ currentBar = FileValue
    /\ AllAllowed(StartingLock, cmd.calls, count)
    /\ currentBar' = WholeValue(Render(after))
    /\ after \in ApiLock /\ WellFormed(after) /\ Keeps(StartingLock, after)
    /\ pendingBar = FALSE /\ pendingBar' = TRUE

Settled == pendingBar = TRUE /\ pendingBar' = FALSE /\ currentBar' = currentBar

TornApart ==
    /\ pendingBar = TRUE /\ pendingBar' = FALSE
    /\ currentBar' \in {[kind |-> "damaged", doc |-> NoDoc]}
                         \cup {[kind |-> "torn", doc |-> doc] : doc \in Cuts(currentBar.doc)}

LEMMA Effects ==
  ASSUME TypeOK, PhaseOK, LocksWellFormed, SerialOK, OneAtATime', NEW p \in Procs, Step(p)
  PROVE  \/ Unchanged
         \/ Created(proc[p].cmd) \/ Initialised(proc[p].cmd)
         \/ Replaced(proc[p].cmd) \/ Extended(proc[p].cmd)
         \/ Settled
         \/ TornApart
  <1> DEFINE cmd == proc[p].cmd
             mem == proc[p].mem
  <1>1. Running(p) /\ \A q \in Procs \ {p} : ~InPlace(q) /\ ~InPlace(q)'
    BY Alone DEF SerialOK, Running, InPlace
  <1>2. /\ ProcessOK(p) /\ FileOK /\ OneAtATime
        /\ proc[p] \in ProcState /\ mem \in ApiLock /\ WellFormed(mem) /\ file \in FileState
    BY DEF SerialOK, TypeOK, ProcState, LocksWellFormed
  <1>3. ~InPlace(p) => currentBar = FileValue /\ pendingBar = FALSE
    BY <1>1, <1>2, Bars
  <1>4. InPlace(p) => currentBar = WholeValue(Render(mem)) /\ pendingBar = TRUE
    BY <1>2, Bars
  <1>5. ~InPlace(p)' => currentBar' = FileValue' /\ pendingBar' = FALSE
    BY <1>1, BarsNext
  <1>6. InPlace(p)' => currentBar' = WholeValue(Render(proc'[p].mem)) /\ pendingBar' = TRUE
    BY BarsNext
  <1>7. file.kind = "absent" => FileValue = [kind |-> "absent", doc |-> NoDoc]
    BY <1>2 DEF FileValue, FileOK
  <1>8. ASSUME UNCHANGED file, ~InPlace(p), ~InPlace(p)' PROVE Unchanged
    BY <1>3, <1>5, <1>8 DEF Unchanged, FileValue
  <1>9. ASSUME UNCHANGED file, InPlace(p), proc'[p].phase = "idle" PROVE TornApart
    <2>1. ~InPlace(p)'
      BY <1>9 DEF InPlace
    <2>2. FileValue \in {[kind |-> "damaged", doc |-> NoDoc]}
                           \cup {[kind |-> "torn", doc |-> doc] : doc \in Cuts(Render(mem))}
      BY <1>2, <1>9 DEF InPlace, ProcessOK, PartsOf, FileValue, Empty, Garbage, Torn
    <2>3. FileValue' = FileValue
      BY <1>9 DEF FileValue
    <2> QED BY <1>4, <1>5, <1>9, <2>1, <2>2, <2>3 DEF TornApart, WholeValue
  <1>10. CASE \/ RefuseInput(p) \/ InitCheck(p) \/ LockBuild(p) \/ UpdateLoad(p) \/ RecordLoad(p)
              \/ RecordApply(p) \/ RecordRender(p) \/ Verify(p) \/ FillTemp(p)
    <2>1. UNCHANGED file /\ proc[p].phase \in {"load", "apply", "temp"} /\ proc \in [Procs -> ProcState]
      BY <1>10 DEF RefuseInput, InitCheck, LockBuild, UpdateLoad, RecordLoad, RecordApply, RecordRender,
                   Verify, FillTemp, TypeOK
    <2>2. proc'[p].phase \in {"load", "apply", "temp", "open", "persist", "idle"}
      BY <1>10, <2>1
      DEF RefuseInput, InitCheck, LockBuild, UpdateLoad, RecordLoad, RecordApply, RecordRender,
          Verify, FillTemp, Goto, GotoWith, Exit, Exited, ProcState
    <2> QED BY <1>8, <2>1, <2>2 DEF InPlace
  <1>11. CASE PersistNew(p)
    <2>1. proc[p].phase = "persist" /\ proc'[p].phase = "idle" /\ cmd.op = "lock"
      BY <1>11, Moves DEF PersistNew
    <2>2. ~InPlace(p) /\ ~InPlace(p)'
      BY <2>1 DEF InPlace
    <2>3. CASE UNCHANGED file
      BY <1>8, <2>2, <2>3
    <2>4. CASE file.kind = "absent" /\ file' = Whole(Render(mem))
      <3>1. FileValue' = WholeValue(Render(NewV4(cmd.name, cmd.contract)))
        BY <1>2, <2>1, <2>4 DEF FileValue, WholeValue, Whole, ProcessOK, Built
      <3> QED BY <1>3, <1>5, <1>7, <2>1, <2>2, <2>4, <3>1 DEF Created
    <2> QED BY <1>11, <2>3, <2>4 DEF PersistNew
  <1>12. CASE PersistReplace(p)
    <2>1. /\ proc[p].phase = "persist" /\ proc'[p].phase = "idle" /\ cmd.op = "update"
          /\ file' = Whole(Render(mem))
      BY <1>12 DEF PersistReplace, Exited
    <2>2. ~InPlace(p) /\ ~InPlace(p)' /\ Updated(p)
      BY <1>2, <2>1 DEF InPlace, ProcessOK
    <2>3. FileValue' = WholeValue(Render(mem))
      BY <2>1 DEF FileValue, WholeValue, Whole
    <2> QED BY <1>3, <1>5, <2>1, <2>2, <2>3 DEF Replaced, Updated
  <1>13. CASE Truncate(p)
    <2>1. /\ proc[p].phase = "open" /\ proc'[p].phase = "write" /\ proc'[p].mem = mem
          /\ cmd.op \in {"init", "record"}
      BY <1>13, Moves DEF Truncate, Phases, PhaseOK
    <2>2. ~InPlace(p) /\ InPlace(p)'
      BY <2>1 DEF InPlace
    <2>3. CASE cmd.op = "init"
      <3>1. file.kind = "absent" /\ mem = EmptyLock(4)
        BY <1>2, <2>1, <2>3 DEF ProcessOK
      <3>2. Render(EmptyLock(4)) = NoDoc
        BY DEF Render, EmptyLock, NoDoc, EmptyMap
      <3> QED BY <1>3, <1>6, <1>7, <2>1, <2>2, <2>3, <3>1, <3>2 DEF Initialised
    <2>4. CASE cmd.op = "record"
      <3>1. RecordedSoFar(p) /\ proc[p].next - 1 = Len(cmd.calls)
        BY <1>2, <2>1, <2>4 DEF ProcessOK
      <3> QED BY <1>2, <1>3, <1>6, <2>1, <2>2, <2>4, <3>1 DEF Extended, RecordedSoFar
    <2> QED BY <2>1, <2>3, <2>4
  <1>14. CASE WritePart(p)
    <2>1. /\ proc[p].phase = "write" /\ proc'[p].phase = "partial" /\ proc'[p].mem = mem
      BY <1>14, Moves DEF WritePart, Phases
    <2> QED BY <1>4, <1>6, <2>1 DEF InPlace, Unchanged
  <1>15. CASE WriteDone(p)
    <2>1. /\ InPlace(p) /\ proc'[p].phase = "idle"
      BY <1>15, Moves DEF WriteDone, InPlace
    <2>2. file' = Whole(Render(mem))
      BY <1>2, <1>15
      DEF WriteDone, WriteResults, ProcessOK, PartsOf, Empty, Garbage, Torn
    <2>3. FileValue' = WholeValue(Render(mem)) /\ ~InPlace(p)'
      BY <2>1, <2>2 DEF FileValue, WholeValue, Whole, InPlace
    <2> QED BY <1>4, <1>5, <2>1, <2>3 DEF Settled
  <1>16. CASE WriteOrphan(p)
    BY <1>2, <1>16 DEF WriteOrphan, ProcessOK
  <1>17. CASE WriteError(p) \/ Kill(p)
    <2>1. UNCHANGED file /\ proc'[p].phase = "idle"
      BY <1>17, Moves DEF WriteError, Kill
    <2>2. ~InPlace(p)'
      BY <2>1 DEF InPlace
    <2> QED BY <1>8, <1>9, <2>1, <2>2
  <1> QED
    BY <1>10, <1>11, <1>12, <1>13, <1>14, <1>15, <1>16, <1>17 DEF Step

(* Run one at a time, and interrupted anywhere, the commands behave as the *)
(* atomic operations of the register: what init, lock, lock --update and   *)
(* record do is computed from what it holds, and only an interrupted       *)
(* in-place write tears it (src/main.rs, src/lockfile).                    *)
THEOREM SerialImplementsRegister ==
  ASSUME Serial
  PROVE  Spec => ImplementsRegister
  <1>1. Init => Register!RInit
    <2> SUFFICES ASSUME Init PROVE Register!RInit
      OBVIOUS
    <2>1. currentBar = FileValue /\ pendingBar = FALSE
      BY DEF Init, currentBar, pendingBar, InPlace, FileValue
    <2>2. FileValue \in {[kind |-> "absent", doc |-> NoDoc]} \cup {WholeValue(doc) : doc \in InitialDocs}
      BY DEF Init, FileValue, WholeValue, Absent, Whole
    <2> QED
      BY <2>1, <2>2, RegisterOperators DEF Register!RInit, Register!Missing, Register!Value, WholeValue
  <1>2. /\ TypeOK /\ PhaseOK /\ LocksWellFormed /\ SerialOK /\ SerialOK'
        /\ [Next]_vars
        => [Register!RNext]_(Register!rvars)
    <2> SUFFICES ASSUME TypeOK, PhaseOK, LocksWellFormed, SerialOK, SerialOK', [Next]_vars
                 PROVE  [Register!RNext]_(Register!rvars)
      OBVIOUS
    <2>1. ASSUME NEW p \in Procs, Step(p) PROVE [Register!RNext]_(Register!rvars)
      <3> DEFINE cmd == proc[p].cmd
      <3>1. cmd \in Commands
        BY DEF TypeOK, ProcState
      <3>2. currentBar = FileValue => /\ Register!Loads <=> Parses
                                      /\ currentBar.doc = file.doc
                                      /\ currentBar = Register!Missing => file.kind = "absent"
                                      /\ file.kind = "absent" => currentBar = Register!Missing
        BY RegisterOperators
        DEF FileValue, SerialOK, FileOK, Register!Loads, Parses, Register!Missing, Register!Value,
            TypeOK, FileState
      <3>3. CASE Unchanged
        BY <3>3 DEF Unchanged, Register!rvars
      <3>4. CASE Created(cmd)
        <4>1. Register!RCreate(cmd)
          BY <3>4, RegisterOperators
          DEF Created, Register!RCreate, Register!Missing, Register!Value, WholeValue
        <4> QED BY <3>1, <3>4, <4>1 DEF Created, Register!RNext
      <3>5. CASE Initialised(cmd)
        <4>1. Register!RInitialise(cmd)
          BY <3>5, RegisterOperators
          DEF Initialised, Register!RInitialise, Register!Missing, Register!Value, WholeValue
        <4> QED BY <3>1, <3>5, <4>1 DEF Initialised, Register!RNext
      <3>6. CASE Replaced(cmd)
        <4>1. Register!RUpdate(cmd)
          BY <3>2, <3>6, RegisterOperators
          DEF Replaced, Register!RUpdate, Register!Value, WholeValue
        <4> QED BY <3>1, <3>6, <4>1 DEF Replaced, Register!RNext
      <3>7. CASE Extended(cmd)
        <4> DEFINE before == IF currentBar = Register!Missing
                             THEN Register!EmptyLock(2) ELSE Register!Load(currentBar.doc)
                   count == Len(cmd.calls)
        <4>1. before = StartingLock
          BY <3>2, <3>7, RegisterOperators DEF Extended, StartingLock
        <4>2. Register!AllAllowed(before, cmd.calls, count)
          <5> HIDE DEF before
          <5> QED BY <3>7, <4>1, RegisterOperators DEF Extended
        <4>3. currentBar' = [kind |-> "whole",
                             doc  |-> Register!Render(Register!AfterCalls(before, cmd.calls, count))]
          <5> HIDE DEF before
          <5> QED BY <3>7, <4>1, RegisterOperators DEF Extended, WholeValue
        <4>4. cmd.op = "record" /\ (currentBar = Register!Missing \/ Register!Loads) /\ pendingBar' = TRUE
          BY <3>2, <3>7 DEF Extended
        <4>5. Register!RRecord(cmd)
          BY <4>2, <4>3, <4>4 DEF Register!RRecord, Register!Value
        <4> QED BY <3>1, <3>7, <4>5 DEF Extended, Register!RNext
      <3>8. CASE Settled
        BY <3>8 DEF Settled, Register!RSettle, Register!RNext
      <3>9. CASE TornApart
        <4>1. Register!RTear
          BY <3>9, RegisterOperators
          DEF TornApart, Register!RTear, Register!Damaged, Register!Value
        <4> QED BY <4>1 DEF Register!RNext
      <3> QED
        BY <2>1, <3>3, <3>4, <3>5, <3>6, <3>7, <3>8, <3>9, Effects DEF SerialOK
    <2>2. ASSUME NEW p \in Procs, NEW cmd \in Commands, Start(p, cmd)
          PROVE  [Register!RNext]_(Register!rvars)
      <3>1. \A q \in Procs : ~InPlace(q) /\ ~InPlace(q)'
        BY <2>2 DEF Start, Running, InPlace, TypeOK, ProcState
      <3>2. UNCHANGED file
        BY <2>2 DEF Start
      <3> QED BY <3>1, <3>2 DEF currentBar, pendingBar, Register!rvars
    <2>3. CASE UNCHANGED vars
      BY <2>3 DEF vars, currentBar, pendingBar, InPlace, Register!rvars
    <2> QED BY <2>1, <2>2, <2>3 DEF Next
  <1> QED
    BY TypeCorrect, PhaseAlways, WellFormedAlways, SerialAlways, <1>1, <1>2, PTL
    DEF Spec, ImplementsRegister, Register!RSpec

-----------------------------------------------------------------------------
(* What is never lost.                                                     *)

(* An update keeps every entry; and so does what records have extended.    *)
LEMMA ReplaceForgetsNothing ==
  ASSUME NEW doc \in Document, WellFormedDocument(doc),
         NEW name \in Names, NEW contract \in Contracts, ReplaceAllowed(Load(doc), name),
         NEW n \in Names
  PROVE  LET new == Render(ReplaceDeclared(Load(doc), name, contract)) IN
         /\ doc.declared[n] # None => new.declared[n] # None
         /\ doc.observed[n] # None => new.observed[n] = doc.observed[n]
  <1> DEFINE lock == ReplaceDeclared(Load(doc), name, contract)
  <1>1. Load(doc) \in ApiLock /\ WellFormed(Load(doc))
    BY LoadType, LoadWellFormed
  <1>2. lock \in ApiLock /\ WellFormed(lock)
    BY <1>1, ReplaceDeclaredType, ReplaceDeclaredWellFormed
  <1>3. lock.version = 4 /\ lock.observed = doc.observed
    BY DEF ReplaceDeclared, Load
  <1>4. Render(lock).observed = doc.observed
    BY <1>3 DEF Render
  <1>5. doc.declared[n] # None => lock.v4[n] # None
    <2>1. CASE doc.version < 4
      BY <2>1, ReplaceKeepsDeclared
    <2>2. CASE ~(doc.version < 4)
      <3>1. Load(doc).v4 = doc.declared /\ Load(doc).v4 \in DeclaredMap
        BY <1>1, <2>2 DEF Load, Document, ApiLock
      <3> QED BY <3>1, NoneAssumption DEF ReplaceDeclared, DeclaredMap
    <2> QED BY <2>1, <2>2
  <1>6. doc.declared[n] # None => Render(lock).declared[n] # None
    BY <1>2, <1>3, <1>5, RenderKeepsDeclared
  <1> QED BY <1>4, <1>6

LEMMA ExtendForgetsNothing ==
  ASSUME NEW doc \in Document, WellFormedDocument(doc), NEW calls, NEW k \in Nat,
         AfterCalls(Load(doc), calls, k) \in ApiLock,
         WellFormed(AfterCalls(Load(doc), calls, k)),
         Keeps(Load(doc), AfterCalls(Load(doc), calls, k)),
         NEW n \in Names
  PROVE  LET new == Render(AfterCalls(Load(doc), calls, k)) IN
         /\ doc.declared[n] # None => new.declared[n] # None
         /\ doc.observed[n] # None =>
              /\ new.observed[n] # None
              /\ doc.observed[n].samples \subseteq new.observed[n].samples
              /\ doc.observed[n].threshold = new.observed[n].threshold
  <1> DEFINE after == AfterCalls(Load(doc), calls, k)
  <1>1. /\ after.legacy = Load(doc).legacy /\ after.v3 = Load(doc).v3 /\ after.v4 = Load(doc).v4
        /\ after.version = IF k > 0 /\ doc.version < 3 THEN 2 ELSE doc.version
    BY DEF AfterCalls, Load
  <1>2. Load(doc).observed = doc.observed /\ doc.version \in 1..4
    BY DEF Load, Document
  <1> HIDE DEF after
  <1>3. doc.declared[n] # None => Render(after).declared[n] # None
    <2> SUFFICES ASSUME doc.declared[n] # None PROVE Render(after).declared[n] # None
      OBVIOUS
    <2>1. IsDeclared(after, n)
      BY <1>1, <1>2 DEF Load, IsDeclared
    <2>2. after.observed[n] = None
      BY <2>1 DEF WellFormed, after
    <2>3. IF after.version \in {1, 2} THEN after.legacy[n] # None
          ELSE IF after.version = 3 THEN after.v3[n] # None ELSE after.v4[n] # None
      BY <1>1, <1>2 DEF Load
    <2> QED BY <2>2, <2>3 DEF Render, EmptyMap
  <1>4. ASSUME doc.observed[n] # None
        PROVE  Render(after).observed[n] = after.observed[n]
    <2>1. after.observed[n] # None
      BY <1>2, <1>4 DEF Keeps, after
    <2>2. after.version # 1
      BY <2>1 DEF WellFormed, EmptyMap, after
    <2> QED BY <2>2 DEF Render
  <1> QED BY <1>2, <1>3, <1>4 DEF Keeps, after

(* Run one at a time, killed and failing anywhere, no sequence of commands *)
(* leaves a complete lock that has lost an entry, a recorded body or a     *)
(* threshold of an earlier complete one (src/lockfile/mod.rs:434-562).     *)
THEOREM SerialForgetsNothing ==
  ASSUME Serial
  PROVE  Spec => NothingForgotten
  <1> DEFINE Kept(n) ==
               LET old == currentBar.doc
                   new == currentBar'.doc IN
               /\ old.declared[n] # None => new.declared[n] # None
               /\ old.observed[n] # None =>
                    /\ new.observed[n] # None
                    /\ old.observed[n].samples \subseteq new.observed[n].samples
                    /\ old.observed[n].threshold = new.observed[n].threshold
             Forgets == ~(currentBar.kind = "whole" /\ currentBar'.kind = "whole" => \A n \in Names : Kept(n))
  <1>1. TypeOK /\ PhaseOK /\ LocksWellFormed /\ SerialOK /\ SerialOK' /\ [Next]_vars => ~Forgets
    <2> SUFFICES ASSUME TypeOK, PhaseOK, LocksWellFormed, SerialOK, SerialOK', [Next]_vars,
                        currentBar.kind = "whole", currentBar'.kind = "whole", NEW n \in Names
                 PROVE  Kept(n)
      OBVIOUS
    <2>1. ASSUME currentBar' = currentBar PROVE Kept(n)
      BY <2>1
    <2>2. ASSUME NEW p \in Procs, Step(p) PROVE Kept(n)
      <3> DEFINE cmd == proc[p].cmd
      <3>1. /\ cmd.name \in Names /\ cmd.contract \in Contracts
            /\ file.doc \in Document /\ WellFormedDocument(file.doc)
            /\ Len(cmd.calls) \in Nat
        BY CommandType, CommandAssumption DEF TypeOK, ProcState, FileState, LocksWellFormed, Command
      <3>2. CASE Unchanged \/ Settled
        BY <2>1, <3>2 DEF Unchanged, Settled
      <3>3. CASE Created(cmd) \/ Initialised(cmd) \/ TornApart
        BY <3>3 DEF Created, Initialised, TornApart
      <3>4. CASE Replaced(cmd)
        <4>1. /\ currentBar.doc = file.doc
              /\ currentBar'.doc = Render(ReplaceDeclared(Load(file.doc), cmd.name, cmd.contract))
              /\ ReplaceAllowed(Load(file.doc), cmd.name)
          BY <3>4 DEF Replaced, FileValue, WholeValue
        <4> QED BY <3>1, <4>1, ReplaceForgetsNothing
      <3>5. CASE Extended(cmd)
        <4> DEFINE count == Len(cmd.calls)
        <4>1. currentBar = FileValue /\ file.kind # "absent"
          BY <3>5 DEF Extended, FileValue
        <4>2. /\ StartingLock = Load(file.doc) /\ currentBar.doc = file.doc
          BY <4>1 DEF StartingLock, FileValue
        <4>3. /\ currentBar'.doc = Render(AfterCalls(Load(file.doc), cmd.calls, count))
              /\ AfterCalls(Load(file.doc), cmd.calls, count) \in ApiLock
              /\ WellFormed(AfterCalls(Load(file.doc), cmd.calls, count))
              /\ Keeps(Load(file.doc), AfterCalls(Load(file.doc), cmd.calls, count))
          BY <3>5, <4>2 DEF Extended, WholeValue
        <4> HIDE DEF count
        <4>4. count \in Nat
          BY <3>1 DEF count
        <4> QED BY <3>1, <4>2, <4>3, <4>4, ExtendForgetsNothing
      <3> QED BY <2>2, <3>2, <3>3, <3>4, <3>5, Effects DEF SerialOK
    <2>3. ASSUME NEW p \in Procs, NEW cmd \in Commands, Start(p, cmd) PROVE currentBar' = currentBar
      <3>1. \A q \in Procs : ~InPlace(q) /\ ~InPlace(q)'
        BY <2>3 DEF Start, Running, InPlace, TypeOK, ProcState
      <3> QED BY <2>3, <3>1 DEF currentBar, Start
    <2>4. CASE UNCHANGED vars
      <3>1. currentBar' = currentBar
        BY <2>4 DEF vars, currentBar, InPlace
      <3> QED BY <2>1, <3>1
    <2> QED BY <2>1, <2>2, <2>3, <2>4 DEF Next
  <1> QED
    BY TypeCorrect, PhaseAlways, WellFormedAlways, SerialAlways, <1>1, PTL
    DEF Spec, NothingForgotten

(* Run one at a time, a command that changes the lock exits 0 only where   *)
(* it leaves a complete lock that holds what it was asked to store         *)
(* (src/main.rs:54-260).                                                   *)
THEOREM SerialOkMeansStored ==
  ASSUME Serial
  PROVE  Spec => OkMeansStored
  <1>1. TypeOK /\ PhaseOK /\ LocksWellFormed /\ SerialOK /\ [Next]_vars
          => \A p \in Procs :
                /\ Running(p) /\ proc'[p].exit = "ok"
                /\ proc[p].cmd.op # "verify"
                => file'.kind = "whole" /\ Stored(proc[p].cmd, file'.doc)
    <2> SUFFICES ASSUME TypeOK, PhaseOK, LocksWellFormed, SerialOK, [Next]_vars,
                        NEW p \in Procs, Running(p), proc'[p].exit = "ok", proc[p].cmd.op # "verify"
                 PROVE  file'.kind = "whole" /\ Stored(proc[p].cmd, file'.doc)
      OBVIOUS
    <2> DEFINE cmd == proc[p].cmd
               mem == proc[p].mem
    <2>1. /\ proc[p].exit = "none" /\ proc[p] \in ProcState /\ ProcessOK(p)
          /\ mem \in ApiLock /\ WellFormed(mem)
          /\ cmd.name \in Names /\ cmd.contract \in Contracts
      BY CommandType DEF PhaseOK, TypeOK, SerialOK, ProcState, LocksWellFormed
    <2>2. ASSUME NEW q \in Procs, NEW c \in Commands, Start(q, c) PROVE FALSE
      BY <2>1, <2>2 DEF Start, TypeOK, ProcState, Running
    <2>3. PICK q \in Procs : Step(q)
      BY <2>1, <2>2 DEF Next, vars
    <2>4. q = p
      BY <2>1, <2>3, Alone DEF SerialOK, OneAtATime
    <2>5. PersistNew(p) \/ PersistReplace(p) \/ WriteDone(p)
      BY <2>1, <2>3, <2>4
      DEF Step, RefuseInput, InitCheck, LockBuild, UpdateLoad, RecordLoad, RecordApply, RecordRender,
          Verify, FillTemp, Truncate, WritePart, WriteOrphan, WriteError, Kill, Goto, GotoWith, Exit,
          Exited, TypeOK, ProcState, ProcessOK
    <2>6. CASE PersistNew(p)
      <3>1. file' = Whole(Render(mem)) /\ cmd.op = "lock" /\ mem = NewV4(cmd.name, cmd.contract)
        BY <2>1, <2>6 DEF PersistNew, Exit, Exited, TypeOK, ProcessOK, Built
      <3>2. Render(NewV4(cmd.name, cmd.contract)).declared[cmd.name] = cmd.contract
        BY <2>1 DEF Render, NewV4, EmptyLock, EmptyMap
      <3> QED BY <3>1, <3>2 DEF Whole, Stored
    <2>7. CASE PersistReplace(p)
      <3>1. /\ file' = Whole(Render(mem)) /\ cmd.op = "update"
            /\ mem = ReplaceDeclared(Load(file.doc), cmd.name, cmd.contract)
            /\ ReplaceAllowed(Load(file.doc), cmd.name)
        BY <2>1, <2>7 DEF PersistReplace, ProcessOK, Updated
      <3>2. Load(file.doc).v4 \in DeclaredMap
        BY LoadType DEF TypeOK, FileState, ApiLock
      <3>3. mem.version = 4 /\ mem.v4[cmd.name] = cmd.contract /\ mem.observed[cmd.name] = None
        BY <2>1, <3>1, <3>2 DEF ReplaceDeclared, ReplaceAllowed, DeclaredMap
      <3>4. Render(mem).declared[cmd.name] = cmd.contract
        BY <2>1, <3>3 DEF Render
      <3> QED BY <3>1, <3>4 DEF Whole, Stored
    <2>8. CASE WriteDone(p)
      <3>1. file' = Whole(Render(mem)) /\ Stored(cmd, Render(mem))
        BY <2>1, <2>8
        DEF WriteDone, WriteResults, ProcessOK, PartsOf, Empty, Garbage, Torn, InPlace
      <3> QED BY <3>1 DEF Whole
    <2> QED BY <2>5, <2>6, <2>7, <2>8
  <1> QED
    BY TypeCorrect, PhaseAlways, WellFormedAlways, SerialAlways, <1>1, PTL
    DEF Spec, OkMeansStored

=============================================================================
