-------------------------- MODULE SchemaRecursion ---------------------------
(***************************************************************************)
(* diff_schema and the meaning of schemas, at every depth.                 *)
(***************************************************************************)
EXTENDS SchemaKeys

RECURSIVE Differences(_, _, _)
Differ == INSTANCE SchemaDiff WITH DiffOf <- Differences, KeyOf <- StructuralKey, ShapeOf <- ShapeKey
Differences(usage, old, new) == Differ!DiffSchema(usage, old, new)

RECURSIVE Accepts(_, _, _)
Meant == INSTANCE SchemaValues WITH Admitted <- Accepts
Accepts(s, v, tolerant) == Meant!Admits(s, v, tolerant)
=============================================================================
