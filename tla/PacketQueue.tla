----------------------------- MODULE PacketQueue -----------------------------
(***************************************************************************)
(* What a connection promises for one direction: the receiver takes the    *)
(* messages in the order in which they were sent, each once and as it was  *)
(* sent, until the connection is closed.  A message it must not take is    *)
(* Refused: no message from there on is taken.                             *)
(***************************************************************************)
EXTENDS Integers, Sequences

CONSTANT Refused

VARIABLES
    sent,  \* the messages handed to the connection
    got,   \* the messages the receiver has taken
    open   \* the receiver's end

vars == << sent, got, open >>

Init == sent = << >> /\ got = << >> /\ open = TRUE

Send == /\ Len(sent') = Len(sent) + 1
        /\ SubSeq(sent', 1, Len(sent)) = sent
        /\ UNCHANGED << got, open >>

Take == /\ open
        /\ Len(got) < Len(sent)
        /\ LET next == sent[Len(got) + 1]
           IN  next # Refused /\ got' = Append(got, next)
        /\ open' \in BOOLEAN  \* a disconnect message closes
        /\ UNCHANGED sent

Close == open /\ open' = FALSE /\ UNCHANGED << sent, got >>

Next == Send \/ Take \/ Close

Safety == Init /\ [][Next]_vars
=============================================================================
