--------------------------- MODULE EvolutionProofs ---------------------------
(***************************************************************************)
(* What verify and lock promise of the versions of a schema, for schemas   *)
(* of every depth.                                                         *)
(***************************************************************************)
EXTENDS SchemaEvolution, ComparisonProofs

(* The inductive invariant: what is published and locked are schemas, a    *)
(* report is of them, and without a gap the clients' schema fits the       *)
(* locked one, not only what clients write of it.                          *)
Inv ==
    /\ usage \in Usages /\ family \in Families
    /\ current \in Schemas \cup {Error}
    /\ locked \in Schemas /\ clients \in Schemas
    /\ report # None => current \in Schemas /\ report = DiffSchema(usage, locked, current)
    /\ gap \/ Fits(usage, clients, locked)

(* An error is no schema.                                                  *)
LEMMA NoErrors ==
  ASSUME NEW s \in Schemas
  PROVE  ~IsError(s)
  BY SchemasAssumption DEF SchemasAssumption, WellFormed, Kinds, IsError

LEMMA ErrorIs == IsError(Error)
  BY DEF IsError, Error

(* The invariant: what was locked, and what it was verified to fit.        *)
LEMMA InvAlways == Spec => []Inv
  <1>1. Init => Inv
    <2> SUFFICES ASSUME Init PROVE Inv
      OBVIOUS
    <2>1. current \in Schemas
      BY VersionsAssumption, ErrorIs DEF Init, VersionsAssumption
    <2>2. Fits(usage, current, current)
      BY DEF Fits, From, To, Carries
    <2> QED
      BY <2>1, <2>2 DEF Init, Inv
  <1>2. Inv /\ [Next]_vars => Inv'
    <2> SUFFICES ASSUME Inv, [Next]_vars PROVE Inv'
      OBVIOUS
    <2>1. ASSUME NEW v \in family, Publish(v) PROVE Inv'
      <3>1. current' \in Schemas \cup {Error}
        BY <2>1, VersionsAssumption DEF Publish, VersionsAssumption, Inv
      <3> QED
        BY <2>1, <3>1 DEF Publish, Inv
    <2>2. CASE Verify
      <3>1. current \in Schemas
        BY <2>2, ErrorIs DEF Verify, Inv
      <3> QED
        BY <2>2, <3>1 DEF Verify, Inv
    <2>3. CASE Update
      <3>1. current \in Schemas /\ Quiet(usage, locked, current)
        BY <2>3 DEF Update, Inv, Quiet
      <3>2. gap' \/ Fits(usage, clients, current)
        <4> SUFFICES ASSUME ~gap' PROVE Fits(usage, clients, current)
          OBVIOUS
        <4>1. ~gap /\ ~KnownGap(usage, locked, current)
          BY <2>3 DEF Update
        <4>2. Fits(usage, locked, current)
          BY <3>1, <4>1, NothingBreakingFits DEF Inv
        <4>3. Fits(usage, clients, locked)
          BY <4>1 DEF Inv
        <4> QED
          BY <4>2, <4>3, FitsTransitive
      <3> QED
        BY <2>3, <3>1, <3>2 DEF Update, Inv
    <2>4. CASE UNCHANGED vars
      BY <2>4 DEF vars, Inv
    <2> QED
      BY <2>1, <2>2, <2>3, <2>4 DEF Next
  <1> QED
    BY <1>1, <1>2, PTL DEF Spec

-----------------------------------------------------------------------------
(* Whatever the schemas, however deep: a report without a breaking change  *)
(* means that what is sent is understood, but for the known gaps           *)
(* (diff_schema, src/diff/mod.rs:505).                                     *)
THEOREM VerifiedSchemasAreSafe == Spec => []VerifiedIsSafe
  <1>1. Inv => VerifiedIsSafe
    <2> SUFFICES ASSUME Inv, Passed, ~KnownGap(usage, locked, current)
                 PROVE  Safe(usage, locked, current)
      BY DEF VerifiedIsSafe
    <2>1. current \in Schemas /\ locked \in Schemas /\ usage \in Usages /\ Quiet(usage, locked, current)
      BY DEF Passed, Inv, Quiet
    <2> QED
      BY <2>1, NothingBreakingFits, FitsIsSafe
  <1> QED
    BY <1>1, InvAlways, PTL

(* However often the team locks what verify passed, the programs written   *)
(* for the first version go on working (run, Command::Lock with --update,  *)
(* src/main.rs:164).                                                       *)
THEOREM OldClientsGoOn == Spec => []OldClientsWork
  <1>1. Inv => OldClientsWork
    <2> SUFFICES ASSUME Inv, Passed, ~gap, ~KnownGap(usage, locked, current)
                 PROVE  Safe(usage, clients, current)
      BY DEF OldClientsWork
    <2>1. /\ current \in Schemas /\ locked \in Schemas /\ clients \in Schemas /\ usage \in Usages
          /\ Quiet(usage, locked, current) /\ Fits(usage, clients, locked)
      BY DEF Passed, Inv, Quiet
    <2> QED
      BY <2>1, NothingBreakingFits, FitsTransitive, FitsIsSafe
  <1> QED
    BY <1>1, InvAlways, PTL

(* An empty report means the same schema, targets of cycle references      *)
(* apart, and the same schema gives an empty report (diff_branches,        *)
(* src/diff/mod.rs:653).                                                   *)
THEOREM SilentSchemasAreSame == Spec => []SilentIfSame
  <1>1. Inv => SilentIfSame
    BY SilentKeysAreSame, SameKeysAreSilent DEF Inv, SilentIfSame
  <1> QED
    BY <1>1, InvAlways, PTL
=============================================================================
