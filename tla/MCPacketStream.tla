--------------------------- MODULE MCPacketStream ---------------------------
(* PacketStream on a small instance for TLC: a text that fits the limit of *)
(* a payload exactly, with the four bytes of a clipboard's format, and one *)
(* that exceeds it by one.                                                 *)
EXTENDS PacketStream

TextOf(length) == [i \in 1..length |-> (i * 37) % 256]
MCTexts == {TextOf(n) : n \in {MaxPayload - 4, MaxPayload - 3}}
=============================================================================
