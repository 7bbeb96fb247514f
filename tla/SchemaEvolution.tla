--------------------------- MODULE SchemaEvolution ---------------------------
(***************************************************************************)
(* A provider publishes one version of a schema after the other; a team    *)
(* verifies each against its lock and, when nothing is breaking, locks it. *)
(* What the reports of diff_schema promise is in SchemaPromises.  How a    *)
(* version is loaded is a parameter here (TextEvolution gives it texts),   *)
(* and so is what is computed of inner schemas.                            *)
(***************************************************************************)
EXTENDS SchemaPromises

CONSTANTS
    Families,    \* sets of versions, each those of one document
    Loaded(_)    \* the schemas that loading a version may give, or Error

VARIABLES
    usage,    \* where the schema is used
    family,   \* the versions there are
    version,  \* the published version
    current,  \* what its schema is normalised to, or Error
    clients,  \* the schema the team's programs were written for
    locked,   \* the schema in the lock
    source,   \* the version it was made of
    report,   \* what verify has said of current, None before it has run
    gap       \* a known gap was locked over

vars == <<usage, family, version, current, clients, locked, source, report, gap>>

-----------------------------------------------------------------------------
VersionsAssumption ==
    \A f \in Families : \A v \in f : Loaded(v) \subseteq Schemas \cup {Error}
ASSUME VersionsAssumption

-----------------------------------------------------------------------------
Init ==
    /\ usage \in Usages
    /\ family \in Families
    /\ version \in family
    /\ current \in Loaded(version) /\ ~IsError(current)
    /\ locked = current /\ source = version
    /\ clients = current
    /\ report = None
    /\ gap = FALSE

Publish(v) ==
    /\ version' = v
    /\ current' \in Loaded(v)
    /\ report' = None
    /\ UNCHANGED <<usage, family, clients, locked, source, gap>>

(* A document that cannot be loaded has no report.                         *)
Verify ==
    /\ report = None /\ ~IsError(current)
    /\ report' = DiffSchema(usage, locked, current)
    /\ UNCHANGED <<usage, family, version, current, clients, locked, source, gap>>

(* lock --update, once verify has found nothing breaking.                  *)
Update ==
    /\ report # None /\ ~HasBreaking(report)
    /\ locked' = current /\ source' = version
    /\ gap' = (gap \/ KnownGap(usage, locked, current))
    /\ report' = None
    /\ UNCHANGED <<usage, family, version, current, clients>>

Next ==
    \/ \E v \in family : Publish(v)
    \/ Verify
    \/ Update

Spec == Init /\ [][Next]_vars

-----------------------------------------------------------------------------
(* Properties.                                                             *)

Passed == report # None /\ ~HasBreaking(report)

(* Nothing breaking means that what is written for the locked schema is    *)
(* read by the published one, and the other way round for a response: the  *)
(* severities of the whole catalogue, at every depth, together             *)
(* (src/diff/mod.rs:505), but for the gaps named above.                    *)
VerifiedIsSafe ==
    Passed => Safe(usage, locked, current) \/ KnownGap(usage, locked, current)

(* Locking version after version, none of them breaking, never leaves the  *)
(* programs behind that were written for the first one: what must not      *)
(* happen is that a name is dropped and comes back as something else.      *)
OldClientsWork ==
    Passed => Safe(usage, clients, current) \/ gap \/ KnownGap(usage, locked, current)

(* No change of a schema is passed over, targets of cycle references apart,*)
(* and none is reported where there is none, in whatever order branches    *)
(* come (diff_branches, src/diff/mod.rs:653).                              *)
SilentIfSame ==
    (report # None) =>
       /\ report = {} => KeyApart(locked) = KeyApart(current)
       /\ KeyOf(locked) = KeyOf(current) => report = {}
=============================================================================
