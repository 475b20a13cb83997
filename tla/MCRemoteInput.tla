---------------------------- MODULE MCRemoteInput ----------------------------
(* RemoteInput on a small instance for TLC: both shift keys are VK_SHIFT,  *)
(* and the third key has no counterpart on Windows.                        *)
EXTENDS RemoteInput

CONSTANTS shiftLeft, shiftRight, mute

MCVirtualKey == [k \in Keys |-> IF k = mute THEN 0 ELSE 16]
=============================================================================
