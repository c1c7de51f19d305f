--------------------------- MODULE MCSchemaCache ----------------------------
(* SchemaCache on small instances. *)
EXTENDS SchemaCache, TLC

CONSTANTS h1, h2

MCHandles == {h1, h2}

\* Handles are alike.
MCSymmetry == Permutations(MCHandles)
=============================================================================
