--------------------------- MODULE MCScreenStream ---------------------------
(* ScreenStream on a small instance for TLC: two modes, the frames of one  *)
(* of which are large enough for the metadata of the other.                *)
EXTENDS ScreenStream

MCModes == {[width |-> 1, height |-> 1, stride |-> 4], [width |-> 1, height |-> 2, stride |-> 8]}
=============================================================================
