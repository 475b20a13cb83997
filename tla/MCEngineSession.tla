--------------------------- MODULE MCEngineSession ---------------------------
(* EngineSession on a small instance for TLC.                               *)
EXTENDS EngineSession, TLC

\* Socket handles are only compared and reused, never ordered.
HandleSymmetry == Permutations(Handles)
=============================================================================
