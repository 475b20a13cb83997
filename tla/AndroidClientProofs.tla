------------------------- MODULE AndroidClientProofs -------------------------
(***************************************************************************)
(* Proofs about AndroidClient, for any number of sockets and of frames.    *)
(* Types, and that a connection shown has a socket, hold however many      *)
(* calls of connect overlap.  The rest is proved for calls that do not:    *)
(* its argument is that the client listens to no open socket but its own,  *)
(* and to none at all from the disconnect that begins a connect until its  *)
(* Socket.connect has completed.                                           *)
(***************************************************************************)
EXTENDS AndroidClient, TLAPS

\* Calls of connect do not overlap: there is one caller.
OneConnect == \A c, d \in Connects : c = d

\* Socket and subscription are stored and cleared together.
Paired == socket = subscription

\* From the disconnect of a connect until its socket, nothing can be received.
Waiting ==
    \A c \in Connects :
        /\ connect[c] \in {"disconnect", "connect"} =>
               buffer = Empty /\ pendingMetadata = Empty /\ \A n \in listening : os[n] # "open"
        /\ connect[c] = "connect" => socket = 0

\* A stream starts with its socket, and its packets are of it.
Streams ==
    \A n \in Sockets :
        /\ os[n] = "new" => stream[n] = Nothing /\ n \notin listening
        /\ stream[n] # Nothing => stream[n].packet.from = n

\* The metadata known is that of the frame under way, or the one just received.
Metadata ==
    \A n \in listening :
        os[n] = "open" =>
            /\ stream[n].half = "header" /\ stream[n].packet.kind = "frame" =>
                   pendingMetadata = [stream[n].packet EXCEPT !.kind = "metadata"]
            /\ stream[n].half = "payload" /\ stream[n].packet.kind = "metadata" =>
                   pendingMetadata = stream[n].packet

\* The page is right as soon as nobody waits in disconnect.
Shown == mounted /\ awaiting = {} => (uiState = "connected" <=> socket \in listening)

Base == TypeOK /\ Paired /\ ConnectedHasSocket
IInv == Base /\ NoSocketIsLeaked /\ Waiting /\ Streams /\ StreamIsIntact /\ Metadata /\ Shown

-----------------------------------------------------------------------------
(* What holds however the calls overlap.                                   *)

\* Nothing of what is received or known is the empty value.
LEMMA PacketFacts ==
    /\ \A p \in Packets : p # Empty /\ p \in Known
    /\ \A h \in Halves : h.packet \in Packets /\ h.half \in {"header", "payload"} /\ h # Nothing
    /\ Nothing.half = "nothing" /\ Empty.kind = "empty" /\ Empty \in Known
  BY DEF Packets, Kinds, Empty, Known, Halves, Nothing

\* Initially there is no socket.
LEMMA InitBase == Init => Base
  <1> SUFFICES ASSUME Init PROVE Base
    OBVIOUS
  <1> USE DEF Init
  <1>1. {socket, subscription} \subseteq 0..MaxSockets
    BY BoundsAssumption
  <1>2. TypeOK
    BY <1>1, PacketFacts DEF TypeOK
  <1>3. QED
    BY <1>2 DEF Base, Paired, ConnectedHasSocket

\* A disconnect that begins, and one that ends.
LEMMA BeginBase ==
    ASSUME Base, NEW a \in Disconnects \cup Connects, BeginDisconnect(a),
           UNCHANGED << socket, subscription, stream >>,
           os' \in [Sockets -> {"new", "open", "closed", "failed", "destroyed", "lost"}],
           uiState' \in {uiState, "error"}, mounted' \in BOOLEAN, mounted' => mounted,
           connect' \in [Connects -> {"idle", "disconnect", "connect", "cleanup"}]
    PROVE  Base'
  <1>1. buffer' = Empty /\ pendingMetadata' = Empty /\ listening' \subseteq listening /\ awaiting' = awaiting \cup {a}
    BY DEF BeginDisconnect
  <1>2. TypeOK'
    BY <1>1, PacketFacts DEF Base, TypeOK
  <1>3. Paired' /\ ConnectedHasSocket'
    BY DEF Base, Paired, ConnectedHasSocket
  <1>4. QED
    BY <1>2, <1>3 DEF Base

\* The page is then told that it is not connected.
LEMMA EndBase ==
    ASSUME Base, NEW a, EndDisconnect(a),
           uiState' \in {"disconnected", "connecting"} \/ (~mounted /\ uiState' = uiState),
           connect' \in [Connects -> {"idle", "disconnect", "connect", "cleanup"}]
    PROVE  Base'
  <1>1. /\ awaiting' \subseteq awaiting /\ subscription' = 0 /\ socket' = 0
        /\ os' = [n \in Sockets |-> IF n = socket THEN "destroyed" ELSE os[n]]
        /\ stream' = [n \in Sockets |-> IF n = socket THEN Nothing ELSE stream[n]]
        /\ UNCHANGED << buffer, pendingMetadata, mounted, listening >>
    BY DEF EndDisconnect
  <1>2. os' \in [Sockets -> {"new", "open", "closed", "failed", "destroyed", "lost"}]
    BY <1>1 DEF Base, TypeOK
  <1>3. stream' \in [Sockets -> Halves \cup {Nothing}]
    BY <1>1 DEF Base, TypeOK
  <1>4. {socket', subscription'} \subseteq 0..MaxSockets
    BY <1>1, BoundsAssumption
  <1>5. TypeOK'
    BY <1>1, <1>2, <1>3, <1>4 DEF Base, TypeOK
  <1>6. Paired' /\ ConnectedHasSocket'
    BY <1>1 DEF Paired, ConnectedHasSocket, Base
  <1>7. QED
    BY <1>5, <1>6 DEF Base

\* What the socket's listener receives or is told changes no socket.
LEMMA ChunkFacts ==
    ASSUME Base, NEW n \in Sockets, NEW h \in Halves, Chunk(n, h)
    PROVE  /\ n \in listening /\ os[n] = "open" /\ h \in NextHalves(n)
           /\ stream' = [stream EXCEPT ![n] = h] /\ stream' \in [Sockets -> Halves \cup {Nothing}]
           /\ UNCHANGED << socket, subscription, uiState, mounted, connect, os >>
  BY DEF Chunk, Base, TypeOK, page

\* A step that keeps the sockets, what the page shows, and the types of the rest.
LEMMA KeepBase ==
    ASSUME Base, UNCHANGED << socket, subscription, connect >>, mounted' = mounted,
           uiState' \in {uiState, "disconnected", "error"},
           buffer' \in Known, pendingMetadata' \in Known, awaiting' \subseteq Disconnects \cup Connects,
           os' \in [Sockets -> {"new", "open", "closed", "failed", "destroyed", "lost"}], listening' \subseteq Sockets,
           stream' \in [Sockets -> Halves \cup {Nothing}]
    PROVE  Base'
  <1>1. TypeOK'
    BY DEF Base, TypeOK
  <1>2. Paired' /\ ConnectedHasSocket'
    BY DEF Base, Paired, ConnectedHasSocket
  <1>3. QED
    BY <1>1, <1>2 DEF Base

\* Each step of a listener.
LEMMA ListenerBase == ASSUME Base, NEW n \in Sockets, Listener(n) PROVE Base'
  <1>1. TypeOK
    BY DEF Base
  <1>2. CASE DataHeader(n)
    <2>1. PICK h \in Halves : Chunk(n, h) /\ buffer' = h.packet
      BY <1>2 DEF DataHeader
    <2>2. UNCHANGED << pendingMetadata, awaiting, listening >>
      BY <1>2 DEF DataHeader
    <2>3. QED
      BY <1>1, <2>1, <2>2, ChunkFacts, PacketFacts, KeepBase DEF TypeOK
  <1>3. CASE DataUnframed(n)
    <2>1. PICK h \in Halves : Chunk(n, h)
      BY <1>3 DEF DataUnframed
    <2>2. UNCHANGED << buffer, pendingMetadata, awaiting, listening >>
      BY <1>3 DEF DataUnframed
    <2>3. QED
      BY <1>1, <2>1, <2>2, ChunkFacts, KeepBase DEF TypeOK
  <1>4. CASE DataPacket(n)
    <2>1. PICK h \in Halves : Chunk(n, h) /\ HandlePacket(buffer, h.packet)
      BY <1>4 DEF DataPacket
    <2>2. buffer' = Empty /\ UNCHANGED << awaiting, listening >>
      BY <1>4 DEF DataPacket
    <2>3. pendingMetadata' \in Known
      BY <1>1, <2>1, PacketFacts DEF HandlePacket, TypeOK
    <2>4. QED
      BY <1>1, <2>1, <2>2, <2>3, ChunkFacts, PacketFacts, KeepBase DEF TypeOK
  <1>5. CASE DataDisconnect(n)
    <2>1. PICK h \in Halves : Chunk(n, h)
      BY <1>5 DEF DataDisconnect
    <2>2. BeginDisconnect(<< "packet", n >>) /\ << "packet", n >> \in Disconnects
      BY <1>5 DEF DataDisconnect, Disconnects
    <2>3. awaiting' \subseteq Disconnects \cup Connects /\ listening' \subseteq Sockets
      BY <1>1, <2>2 DEF BeginDisconnect, TypeOK
    <2>4. QED
      BY <1>1, <2>1, <2>2, <2>3, ChunkFacts, PacketFacts, KeepBase DEF TypeOK, BeginDisconnect
  <1>6. CASE SocketError(n)
    <2>1. UNCHANGED << socket, subscription, buffer, pendingMetadata, connect, awaiting, os, stream, mounted >>
      BY <1>6 DEF SocketError, client
    <2>2. uiState' \in {uiState, "error"} /\ listening' \subseteq listening
      BY <1>6 DEF SocketError, Report
    <2>3. QED
      BY <1>1, <2>1, <2>2, KeepBase DEF TypeOK
  <1>7. CASE SocketDone(n)
    <2>1. UNCHANGED << socket, subscription, connect, os, stream, mounted >>
      BY <1>7 DEF SocketDone
    <2>2. /\ uiState' \in {uiState, "disconnected"} /\ listening' \subseteq listening
          /\ buffer' = Empty /\ pendingMetadata' = Empty
      BY <1>7 DEF SocketDone, Report
    <2>3. awaiting' \subseteq Disconnects \cup Connects
      BY <1>1, <1>7 DEF SocketDone, TypeOK, Disconnects
    <2>4. QED
      BY <1>1, <2>1, <2>2, <2>3, PacketFacts, KeepBase DEF TypeOK
  <1>8. QED
    BY <1>2, <1>3, <1>4, <1>5, <1>6, <1>7 DEF Listener

\* Each step of a connect.
LEMMA ConnectBase ==
    ASSUME Base, NEW c \in Connects, Connect(c) \/ SetOptionFails(c) \/ Resume(c)
    PROVE  Base'
  <1>1. TypeOK
    BY DEF Base
  <1>2. ASSUME NEW place \in {"idle", "disconnect", "connect", "cleanup"}, Goto(c, place)
        PROVE  connect' \in [Connects -> {"idle", "disconnect", "connect", "cleanup"}]
    BY <1>1, <1>2 DEF Goto, TypeOK
  <1>3. CASE Connect(c)
    BY <1>1, <1>2, <1>3, BeginBase DEF Connect, page, TypeOK
  <1>4. CASE Connecting(c)
    <2>1. uiState' = "connecting" \/ (~mounted /\ uiState' = uiState)
      BY <1>1, <1>4 DEF Connecting, Report, TypeOK
    <2>2. QED
      BY <1>2, <1>4, <2>1, EndBase DEF Connecting
  <1>5. CASE ConnectFailed(c)
    <2>1. uiState' = "disconnected" \/ (~mounted /\ uiState' = uiState)
      BY <1>1, <1>5 DEF ConnectFailed, Report, TypeOK
    <2>2. QED
      BY <1>2, <1>5, <2>1, EndBase DEF ConnectFailed
  <1>6. CASE ConnectFails(c) \/ SetOptionFails(c)
    <2>1. ConnectError(c)
      BY <1>6 DEF ConnectFails, SetOptionFails
    <2>2. os' \in [Sockets -> {"new", "open", "closed", "failed", "destroyed", "lost"}]
      BY <1>1, <1>6 DEF ConnectFails, SetOptionFails, TypeOK
    <2>3. uiState' \in {uiState, "error"}
      BY <2>1 DEF ConnectError, Report
    <2>4. QED
      BY <1>1, <1>2, <2>1, <2>2, <2>3, BeginBase DEF ConnectError, TypeOK
  <1>7. CASE Connected(c)
    <2>1. PICK n \in Sockets : /\ Fresh(n) /\ os' = [os EXCEPT ![n] = "open"]
                               /\ socket' = n /\ subscription' = n
                               /\ listening' = listening \cup {n}
      BY <1>7 DEF Connected
    <2>2. Goto(c, "idle") /\ Report("connected") /\ UNCHANGED << buffer, pendingMetadata, mounted, awaiting, stream >>
      BY <1>7 DEF Connected
    <2>3. uiState' \in {uiState, "connected"}
      BY <2>2 DEF Report
    <2>4. n \in 1..MaxSockets /\ n # 0 /\ n \in 0..MaxSockets
      BY <2>1, BoundsAssumption DEF Sockets
    <2>5. connect' \in [Connects -> {"idle", "disconnect", "connect", "cleanup"}]
      BY <1>2, <2>2
    <2>6. os' \in [Sockets -> {"new", "open", "closed", "failed", "destroyed", "lost"}]
      BY <1>1, <2>1 DEF TypeOK
    <2>7. TypeOK'
      BY <1>1, <2>1, <2>2, <2>3, <2>4, <2>5, <2>6 DEF TypeOK
    <2>8. QED
      BY <2>1, <2>4, <2>7 DEF Base, Paired, ConnectedHasSocket
  <1>8. QED
    BY <1>3, <1>4, <1>5, <1>6, <1>7 DEF Resume

\* Every step keeps them.
LEMMA StepBase == Base /\ [Next]_vars => Base'
  <1> SUFFICES ASSUME Base, [Next]_vars PROVE Base'
    OBVIOUS
  <1>1. TypeOK
    BY DEF Base
  <1>2. CASE UserDisconnect
    <2>1. << "user", 0 >> \in Disconnects
      BY DEF Disconnects
    <2>2. QED
      BY <1>1, <1>2, <2>1, BeginBase DEF UserDisconnect, page, TypeOK
  <1>3. CASE Dispose
    <2>1. << "dispose", 0 >> \in Disconnects
      BY DEF Disconnects
    <2>2. QED
      BY <1>1, <1>3, <2>1, BeginBase DEF Dispose, TypeOK
  <1>4. ASSUME NEW a \in Disconnects, Disconnected(a) PROVE Base'
    <2>1. uiState' = "disconnected" \/ (~mounted /\ uiState' = uiState)
      BY <1>1, <1>4 DEF Disconnected, Report, TypeOK
    <2>2. QED
      BY <1>1, <1>4, <2>1, EndBase DEF Disconnected, TypeOK
  <1>5. ASSUME NEW n \in Sockets, PeerCloses(n) PROVE Base'
    <2>1. os' \in [Sockets -> {"new", "open", "closed", "failed", "destroyed", "lost"}]
      BY <1>1, <1>5 DEF PeerCloses, TypeOK
    <2>2. QED
      BY <1>1, <1>5, <2>1, KeepBase DEF PeerCloses, TypeOK, client, page
  <1>6. CASE UNCHANGED vars
    BY <1>1, <1>6, KeepBase DEF vars, client, page, TypeOK
  <1>7. QED
    BY <1>2, <1>3, <1>4, <1>5, <1>6, ListenerBase, ConnectBase DEF Next

-----------------------------------------------------------------------------
(* What holds while the calls of connect do not overlap.                   *)

\* A disconnect that begins leaves no open socket that is listened to.
LEMMA BeginInv ==
    ASSUME IInv, NEW a, BeginDisconnect(a), UNCHANGED << socket, subscription, stream >>,
           \A n \in Sockets : os'[n] \in {os[n], "lost"},
           \A c \in Connects : connect'[c] = "connect" => connect[c] = "connect"
    PROVE  NoSocketIsLeaked' /\ Waiting' /\ Streams' /\ StreamIsIntact' /\ Metadata' /\ Shown'
  <1>1. buffer' = Empty /\ pendingMetadata' = Empty /\ listening' = listening \ {subscription} /\ awaiting' # {}
    BY DEF BeginDisconnect
  <1>2. listening \subseteq Sockets
    BY DEF IInv, Base, TypeOK
  <1>3. \A n \in listening' : os'[n] # "open"
    BY <1>1, <1>2 DEF IInv, NoSocketIsLeaked, Base, Paired
  <1>4. NoSocketIsLeaked'
    BY DEF IInv, NoSocketIsLeaked
  <1>5. Waiting'
    BY <1>1, <1>3 DEF IInv, Waiting
  <1>6. Streams'
    BY <1>1 DEF IInv, Streams
  <1>7. StreamIsIntact' /\ Metadata' /\ Shown'
    BY <1>1, <1>3 DEF StreamIsIntact, Metadata, Shown
  <1>8. QED
    BY <1>4, <1>5, <1>6, <1>7

\* One that ends leaves no open socket at all.
LEMMA EndInv ==
    ASSUME IInv, NEW a, EndDisconnect(a),
           uiState' \in {"disconnected", "connecting"} \/ (~mounted /\ uiState' = uiState),
           \A c \in Connects : connect'[c] \in {"disconnect", "connect"} => connect[c] \in {"disconnect", "connect"}
    PROVE  NoSocketIsLeaked' /\ Waiting' /\ Streams' /\ StreamIsIntact' /\ Metadata' /\ Shown'
  <1>1. /\ subscription' = 0 /\ socket' = 0
        /\ os' = [n \in Sockets |-> IF n = socket THEN "destroyed" ELSE os[n]]
        /\ stream' = [n \in Sockets |-> IF n = socket THEN Nothing ELSE stream[n]]
        /\ UNCHANGED << buffer, pendingMetadata, mounted, listening >>
    BY DEF EndDisconnect
  <1>2. listening \subseteq Sockets /\ 0 \notin Sockets
    BY DEF IInv, Base, TypeOK, Sockets
  <1>3. \A n \in Sockets : os'[n] \notin {"open", "closed", "failed"}
    BY <1>1 DEF IInv, NoSocketIsLeaked
  <1>4. NoSocketIsLeaked' /\ StreamIsIntact' /\ Metadata'
    BY <1>1, <1>2, <1>3 DEF NoSocketIsLeaked, StreamIsIntact, Metadata
  <1>5. Waiting'
    BY <1>1, <1>2, <1>3 DEF IInv, Waiting
  <1>6. Streams'
    BY <1>1 DEF IInv, Streams
  <1>7. Shown'
    BY <1>1, <1>2 DEF Shown
  <1>8. QED
    BY <1>4, <1>5, <1>6, <1>7

\* A socket that is connected is the only one, and the stream it begins finds the buffer empty.
LEMMA ConnectedInv ==
    ASSUME IInv, OneConnect, NEW c \in Connects, Connected(c)
    PROVE  NoSocketIsLeaked' /\ Waiting' /\ Streams' /\ StreamIsIntact' /\ Metadata' /\ Shown'
  <1>1. PICK n \in Sockets : /\ Fresh(n) /\ os' = [os EXCEPT ![n] = "open"]
                             /\ socket' = n /\ subscription' = n
                             /\ listening' = listening \cup {n}
    BY DEF Connected
  <1>2. /\ connect[c] = "connect" /\ connect' = [connect EXCEPT ![c] = "idle"]
        /\ uiState' = IF mounted THEN "connected" ELSE uiState
        /\ UNCHANGED << buffer, pendingMetadata, mounted, awaiting, stream >>
    BY DEF Connected, Goto, Report
  <1>3. buffer = Empty /\ pendingMetadata = Empty /\ socket = 0 /\ \A m \in listening : os[m] # "open"
    BY <1>2 DEF IInv, Waiting
  <1>4. TypeOK /\ 0 \notin Sockets
    BY DEF IInv, Base, Sockets
  <1>5. stream[n] = Nothing /\ os[n] = "new"
    BY <1>1 DEF IInv, Streams, Fresh
  <1>6. \A m \in Sockets : os'[m] = IF m = n THEN "open" ELSE os[m]
    BY <1>1, <1>4 DEF TypeOK
  <1>7. NoSocketIsLeaked'
    BY <1>1, <1>3, <1>4, <1>6 DEF IInv, NoSocketIsLeaked
  <1>8. Waiting'
    BY <1>2, <1>4 DEF OneConnect, Waiting, TypeOK
  <1>9. Streams'
    BY <1>1, <1>2, <1>6 DEF IInv, Streams
  <1>10. \A m \in listening' : os'[m] = "open" => m = n
    BY <1>1, <1>3, <1>4, <1>6 DEF TypeOK
  <1>11. StreamIsIntact' /\ Metadata'
    BY <1>2, <1>3, <1>5, <1>10, PacketFacts DEF StreamIsIntact, Metadata
  <1>12. Shown'
    BY <1>1, <1>2 DEF Shown
  <1>13. QED
    BY <1>7, <1>8, <1>9, <1>11, <1>12

\* The halves of a stream come in order.
LEMMA NextFacts ==
    ASSUME NEW n \in Sockets, NEW h \in NextHalves(n), stream[n] \in Halves \cup {Nothing},
           stream[n] # Nothing => stream[n].packet.from = n
    PROVE  /\ h.packet.from = n
           /\ stream[n].half = "header" => h.half = "payload" /\ h.packet = stream[n].packet
           /\ stream[n].half # "header" =>
                  /\ h.half = "header"
                  /\ h.packet.kind = "frame" =>
                         /\ stream[n].half = "payload" /\ stream[n].packet.kind = "metadata"
                         /\ stream[n].packet = [h.packet EXCEPT !.kind = "metadata"]
  <1> DEFINE last == stream[n]
  <1>1. CASE last = Nothing
    <2>1. h \in PacketsAfter(n, 1, {"metadata", "disconnect"})
      BY <1>1, PacketFacts DEF NextHalves
    <2>2. QED
      BY <1>1, <2>1 DEF PacketsAfter, Nothing
  <1>2. CASE last # Nothing
    <2>1. last \in Halves /\ last.half \in {"header", "payload"} /\ last.packet \in Packets
      BY <1>2, PacketFacts
    <2>2. CASE last.half = "header"
      <3>1. h = [last EXCEPT !.half = "payload"]
        BY <1>2, <2>2 DEF NextHalves
      <3>2. QED
        BY <1>2, <2>1, <2>2, <3>1 DEF Halves
    <2>3. CASE last.half = "payload" /\ last.packet.kind = "metadata"
      <3>1. h \in PacketsAfter(n, last.packet.frame, {"frame", "disconnect"})
        BY <1>2, <2>3 DEF NextHalves
      <3>2. h.half = "header" /\ h.packet.from = n
        BY <3>1 DEF PacketsAfter
      <3>3. h.packet.kind = "frame" => h.packet = [from |-> n, kind |-> "frame", frame |-> last.packet.frame]
        BY <3>1 DEF PacketsAfter
      <3>4. last.packet = [from |-> n, kind |-> "metadata", frame |-> last.packet.frame]
        BY <1>2, <2>1, <2>3 DEF Packets
      <3>5. QED
        BY <2>3, <3>2, <3>3, <3>4
    <2>4. CASE last.half = "payload" /\ last.packet.kind # "metadata"
      <3>1. h \in PacketsAfter(n, last.packet.frame + 1, {"metadata", "disconnect"})
        BY <1>2, <2>4 DEF NextHalves
      <3>2. QED
        BY <2>4, <3>1 DEF PacketsAfter
    <2>5. QED
      BY <2>1, <2>2, <2>3, <2>4
  <1>3. QED
    BY <1>1, <1>2

\* A half that is received and that ends no connection leaves the buffer and the metadata as the stream
\* has them.
LEMMA ReceiveInv ==
    ASSUME IInv, NEW n \in Sockets, NEW h \in Halves, Chunk(n, h), UNCHANGED << awaiting, listening >>,
           h.half = "header" => buffer' = h.packet /\ pendingMetadata' = pendingMetadata,
           h.half = "payload" => buffer' = Empty,
           h.half = "payload" /\ h.packet.kind = "metadata" => pendingMetadata' = h.packet
    PROVE  NoSocketIsLeaked' /\ Waiting' /\ Streams' /\ StreamIsIntact' /\ Metadata' /\ Shown'
  <1>1. /\ n \in listening /\ os[n] = "open" /\ h \in NextHalves(n)
        /\ stream' = [stream EXCEPT ![n] = h]
        /\ UNCHANGED << socket, subscription, uiState, mounted, connect, os >>
    BY ChunkFacts DEF IInv
  <1>2. TypeOK /\ listening \subseteq Sockets
    BY DEF IInv, Base, TypeOK
  <1>3. stream[n] \in Halves \cup {Nothing} /\ (stream[n] # Nothing => stream[n].packet.from = n)
    BY <1>2 DEF TypeOK, IInv, Streams
  <1>4. /\ h.packet.from = n
        /\ stream[n].half = "header" => h.half = "payload" /\ h.packet = stream[n].packet
        /\ stream[n].half # "header" =>
               /\ h.half = "header"
               /\ h.packet.kind = "frame" =>
                      /\ stream[n].half = "payload" /\ stream[n].packet.kind = "metadata"
                      /\ stream[n].packet = [h.packet EXCEPT !.kind = "metadata"]
    BY <1>1, <1>3, NextFacts
  <1>5. \A m \in Sockets : stream'[m] = IF m = n THEN h ELSE stream[m]
    BY <1>1, <1>2 DEF TypeOK
  <1>6. \A m \in listening : os[m] = "open" => m = n
    BY <1>1, <1>2 DEF IInv, NoSocketIsLeaked
  <1>7. NoSocketIsLeaked'
    BY <1>1 DEF IInv, NoSocketIsLeaked
  <1>8. Waiting'
    BY <1>1 DEF IInv, Waiting
  <1>9. Streams'
    BY <1>1, <1>4, <1>5 DEF IInv, Streams
  <1>10. h.half \in {"header", "payload"}
    BY PacketFacts
  <1>11. StreamIsIntact'
    BY <1>1, <1>5, <1>6, <1>10 DEF StreamIsIntact
  <1>12. Metadata'
    <2>1. h.half = "header" /\ h.packet.kind = "frame" => pendingMetadata' = [h.packet EXCEPT !.kind = "metadata"]
      BY <1>1, <1>4, <1>10 DEF IInv, Metadata
    <2>2. QED
      BY <1>1, <1>5, <1>6, <2>1 DEF Metadata
  <1>13. Shown'
    BY <1>1 DEF IInv, Shown
  <1>14. QED
    BY <1>7, <1>8, <1>9, <1>11, <1>12, <1>13

\* The steps of the listener.
LEMMA ListenerInv ==
    ASSUME IInv, NEW n \in Sockets, Listener(n)
    PROVE  NoSocketIsLeaked' /\ Waiting' /\ Streams' /\ StreamIsIntact' /\ Metadata' /\ Shown'
  <1>1. Base /\ TypeOK /\ listening \subseteq Sockets
    BY DEF IInv, Base, TypeOK
  <1>2. CASE DataHeader(n)
    <2>1. PICK h \in Halves : buffer = Empty /\ h.half = "header" /\ Chunk(n, h) /\ buffer' = h.packet
      BY <1>2 DEF DataHeader
    <2>2. UNCHANGED << pendingMetadata, awaiting, listening >>
      BY <1>2 DEF DataHeader
    <2>3. QED
      BY <2>1, <2>2, ReceiveInv
  <1>3. CASE DataUnframed(n)
    <2>1. PICK h \in Halves : buffer = Empty /\ h.half = "payload" /\ Chunk(n, h)
      BY <1>3 DEF DataUnframed
    <2>2. n \in listening /\ os[n] = "open" /\ h \in NextHalves(n)
      BY <1>1, <2>1, ChunkFacts
    <2>3. stream[n].half # "header"
      <3>1. stream[n] \in Halves \cup {Nothing}
        BY <1>1 DEF TypeOK
      <3>2. stream[n].half = "header" => stream[n].packet # Empty
        BY <3>1, PacketFacts
      <3>3. QED
        BY <2>1, <2>2, <3>2 DEF IInv, StreamIsIntact
    <2>4. h.half = "header"
      BY <1>1, <2>2, <2>3, NextFacts DEF IInv, Streams, TypeOK
    <2>5. QED
      BY <2>1, <2>4
  <1>4. CASE DataPacket(n)
    <2>1. PICK h \in Halves : buffer # Empty /\ Chunk(n, h) /\ HandlePacket(buffer, h.packet)
      BY <1>4 DEF DataPacket
    <2>2. n \in listening /\ os[n] = "open" /\ h \in NextHalves(n)
      BY <1>1, <2>1, ChunkFacts
    <2>3. stream[n].half = "header" /\ buffer = stream[n].packet
      BY <2>1, <2>2 DEF IInv, StreamIsIntact
    <2>4. h.half = "payload" /\ h.packet = buffer
      BY <1>1, <2>2, <2>3, NextFacts DEF IInv, Streams, TypeOK
    <2>5. buffer' = Empty /\ UNCHANGED << awaiting, listening >>
      BY <1>4 DEF DataPacket
    <2>6. QED
      BY <2>1, <2>4, <2>5, ReceiveInv DEF HandlePacket
  <1>5. CASE DataDisconnect(n)
    <2>1. PICK h \in Halves : Chunk(n, h)
      BY <1>5 DEF DataDisconnect
    <2>2. BeginDisconnect(<< "packet", n >>)
      BY <1>5 DEF DataDisconnect
    <2>3. /\ n \in listening /\ os[n] = "open" /\ h \in NextHalves(n)
          /\ stream' = [stream EXCEPT ![n] = h]
          /\ UNCHANGED << socket, subscription, uiState, mounted, connect, os >>
      BY <1>1, <2>1, ChunkFacts
    <2>4. /\ buffer' = Empty /\ pendingMetadata' = Empty /\ listening' = listening \ {subscription}
          /\ awaiting' # {}
      BY <2>2 DEF BeginDisconnect
    <2>5. \A m \in listening' : os[m] # "open"
      BY <1>1, <2>4 DEF IInv, NoSocketIsLeaked, Base, Paired
    <2>6. StreamIsIntact' /\ Metadata' /\ Shown'
      BY <2>3, <2>4, <2>5 DEF StreamIsIntact, Metadata, Shown
    <2>7. NoSocketIsLeaked' /\ Waiting'
      BY <2>3, <2>4, <2>5 DEF IInv, NoSocketIsLeaked, Waiting
    <2>8. h.packet.from = n
      BY <1>1, <2>3, NextFacts DEF IInv, Streams, TypeOK
    <2>9. Streams'
      BY <1>1, <2>3, <2>4, <2>8 DEF IInv, Streams, TypeOK
    <2>10. QED
      BY <2>6, <2>7, <2>9
  <1>6. CASE SocketError(n)
    <2>1. UNCHANGED << socket, subscription, buffer, pendingMetadata, connect, awaiting, os, stream, mounted >>
      BY <1>6 DEF SocketError, client
    <2>2. /\ n \in listening /\ os[n] = "failed" /\ listening' = listening \ {n}
          /\ uiState' = IF mounted THEN "error" ELSE uiState
      BY <1>6 DEF SocketError, Report
    <2>3. n = socket
      BY <2>2 DEF IInv, NoSocketIsLeaked
    <2>4. NoSocketIsLeaked' /\ Waiting' /\ Streams' /\ StreamIsIntact' /\ Metadata'
      BY <2>1, <2>2 DEF IInv, NoSocketIsLeaked, Waiting, Streams, StreamIsIntact, Metadata
    <2>5. Shown'
      BY <2>1, <2>2, <2>3 DEF Shown
    <2>6. QED
      BY <2>4, <2>5
  <1>7. CASE SocketDone(n)
    <2>1. UNCHANGED << socket, subscription, connect, os, stream, mounted >>
      BY <1>7 DEF SocketDone
    <2>2. /\ listening' = listening \ {n, subscription} /\ awaiting' # {}
          /\ buffer' = Empty /\ pendingMetadata' = Empty
      BY <1>7 DEF SocketDone
    <2>3. \A m \in listening' : os[m] # "open"
      BY <1>1, <2>2 DEF IInv, NoSocketIsLeaked, Base, Paired
    <2>4. StreamIsIntact' /\ Metadata' /\ Shown'
      BY <2>1, <2>2, <2>3 DEF StreamIsIntact, Metadata, Shown
    <2>5. NoSocketIsLeaked' /\ Waiting' /\ Streams'
      BY <2>1, <2>2, <2>3 DEF IInv, NoSocketIsLeaked, Waiting, Streams
    <2>6. QED
      BY <2>4, <2>5
  <1>8. QED
    BY <1>2, <1>3, <1>4, <1>5, <1>6, <1>7 DEF Listener

\* The steps of the one connect there is.
LEMMA ConnectInv ==
    ASSUME IInv, OneConnect, NEW c \in Connects, Connect(c) \/ SetOptionFails(c) \/ Resume(c)
    PROVE  NoSocketIsLeaked' /\ Waiting' /\ Streams' /\ StreamIsIntact' /\ Metadata' /\ Shown'
  <1>1. TypeOK
    BY DEF IInv, Base
  <1>2. ASSUME NEW place, Goto(c, place)
        PROVE  \A d \in Connects : connect'[d] = IF d = c THEN place ELSE connect[d]
    BY <1>1, <1>2 DEF Goto, TypeOK
  <1>3. CASE Connect(c)
    BY <1>2, <1>3, BeginInv DEF Connect, page
  <1>4. CASE Connecting(c)
    <2>1. uiState' = "connecting" \/ (~mounted /\ uiState' = uiState)
      BY <1>1, <1>4 DEF Connecting, Report, TypeOK
    <2>2. QED
      BY <1>2, <1>4, <2>1, EndInv DEF Connecting
  <1>5. CASE ConnectFailed(c)
    <2>1. uiState' = "disconnected" \/ (~mounted /\ uiState' = uiState)
      BY <1>1, <1>5 DEF ConnectFailed, Report, TypeOK
    <2>2. QED
      BY <1>2, <1>5, <2>1, EndInv DEF ConnectFailed
  <1>6. CASE ConnectFails(c) \/ SetOptionFails(c)
    <2>1. ConnectError(c)
      BY <1>6 DEF ConnectFails, SetOptionFails
    <2>2. \A n \in Sockets : os'[n] \in {os[n], "lost"}
      BY <1>1, <1>6 DEF ConnectFails, SetOptionFails, TypeOK
    <2>3. QED
      BY <1>2, <2>1, <2>2, BeginInv DEF ConnectError
  <1>7. CASE Connected(c)
    BY <1>7, ConnectedInv
  <1>8. QED
    BY <1>3, <1>4, <1>5, <1>6, <1>7 DEF Resume

\* Every step keeps the inductive invariant.
LEMMA StepInv == ASSUME OneConnect PROVE IInv /\ [Next]_vars => IInv'
  <1> SUFFICES ASSUME IInv, [Next]_vars
               PROVE  Base' /\ NoSocketIsLeaked' /\ Waiting' /\ Streams' /\ StreamIsIntact' /\ Metadata' /\ Shown'
    BY DEF IInv
  <1>1. TypeOK /\ Base'
    BY StepBase DEF IInv, Base
  <1>2. CASE UserDisconnect
    BY <1>1, <1>2, BeginInv DEF UserDisconnect, page
  <1>3. CASE Dispose
    BY <1>1, <1>3, BeginInv DEF Dispose
  <1>4. ASSUME NEW a \in Disconnects, Disconnected(a)
        PROVE  NoSocketIsLeaked' /\ Waiting' /\ Streams' /\ StreamIsIntact' /\ Metadata' /\ Shown'
    <2>1. uiState' = "disconnected" \/ (~mounted /\ uiState' = uiState)
      BY <1>1, <1>4 DEF Disconnected, Report, TypeOK
    <2>2. QED
      BY <1>4, <2>1, EndInv DEF Disconnected
  <1>5. ASSUME NEW n \in Sockets, PeerCloses(n)
        PROVE  NoSocketIsLeaked' /\ Waiting' /\ Streams' /\ StreamIsIntact' /\ Metadata' /\ Shown'
    <2>1. UNCHANGED << socket, subscription, buffer, pendingMetadata, uiState, mounted, connect, awaiting,
                       listening, stream >>
      BY <1>5 DEF PeerCloses, client, page
    <2>2. os[n] = "open" /\ \A m \in Sockets : os'[m] = os[m] \/ (m = n /\ os'[m] \in {"closed", "failed"})
      BY <1>1, <1>5 DEF PeerCloses, TypeOK
    <2>3. listening \subseteq Sockets
      BY <1>1 DEF TypeOK
    <2>4. NoSocketIsLeaked' /\ Waiting' /\ Streams'
      BY <2>1, <2>2, <2>3 DEF IInv, NoSocketIsLeaked, Waiting, Streams
    <2>5. StreamIsIntact' /\ Metadata' /\ Shown'
      BY <2>1, <2>2, <2>3 DEF IInv, StreamIsIntact, Metadata, Shown
    <2>6. QED
      BY <2>4, <2>5
  <1>6. CASE UNCHANGED vars
    <2>1. UNCHANGED << socket, subscription, buffer, pendingMetadata, uiState, mounted, connect, awaiting, os,
                       listening, stream >>
      BY <1>6 DEF vars, client, page
    <2>2. NoSocketIsLeaked' /\ Waiting' /\ Streams'
      BY <2>1 DEF IInv, NoSocketIsLeaked, Waiting, Streams
    <2>3. StreamIsIntact' /\ Metadata' /\ Shown'
      BY <2>1 DEF IInv, StreamIsIntact, Metadata, Shown
    <2>4. QED
      BY <1>1, <2>2, <2>3
  <1>7. QED
    BY <1>1, <1>2, <1>3, <1>4, <1>5, <1>6, ListenerInv, ConnectInv DEF Next

\* Initially there is nothing.
LEMMA InitInv == Init => IInv
  <1> SUFFICES ASSUME Init PROVE IInv
    OBVIOUS
  <1>1. Base
    BY InitBase
  <1>2. 0 \notin Sockets
    BY DEF Sockets
  <1>3. QED
    BY <1>1, <1>2, PacketFacts
       DEF Init, IInv, NoSocketIsLeaked, Waiting, Streams, StreamIsIntact, Metadata, Shown

-----------------------------------------------------------------------------
(* Theorems.                                                               *)

\* Every variable has its type, however many calls of connect overlap.
THEOREM TypeCorrect == Spec => []TypeOK
  <1>1. Base => TypeOK
    BY DEF Base
  <1>2. QED
    BY <1>1, InitBase, StepBase, PTL DEF Spec

\* The page shows a connection only while the client has a socket, however many calls of connect and of
\* disconnect overlap.
THEOREM ShownConnectionHasSocket == Spec => []ConnectedHasSocket
  <1>1. Base => ConnectedHasSocket
    BY DEF Base
  <1>2. QED
    BY <1>1, InitBase, StepBase, PTL DEF Spec

\* The inductive invariant, while calls of connect do not overlap.
THEOREM Inductive == ASSUME OneConnect PROVE Spec => []IInv
  <1>1. IInv /\ [Next]_vars => IInv'
    BY StepInv
  <1>2. QED
    BY <1>1, InitInv, PTL DEF Spec

\* No disconnect, at whatever await of a connect it comes, loses a connection.
THEOREM NoLeak == ASSUME OneConnect PROVE Spec => []NoSocketIsLeaked
  <1>1. IInv => NoSocketIsLeaked
    BY DEF IInv
  <1>2. Spec => []IInv
    BY Inductive
  <1>3. QED
    BY <1>1, <1>2, PTL

\* A new connection never begins with what an earlier one left in the buffer (_onData).
THEOREM NoBytesOfAnEarlierStream == ASSUME OneConnect PROVE Spec => []StreamIsIntact
  <1>1. IInv => StreamIsIntact
    BY DEF IInv
  <1>2. Spec => []IInv
    BY Inductive
  <1>3. QED
    BY <1>1, <1>2, PTL

\* A frame goes to the platform with the metadata the host sent for it (_handlePacket).
THEOREM FramesHaveTheirMetadata == ASSUME OneConnect PROVE Spec => []FrameHasItsMetadata
  <1>1. IInv => FrameHasItsMetadata
    <2> SUFFICES ASSUME IInv, NEW n \in listening, os[n] = "open", buffer.kind = "frame"
                 PROVE  pendingMetadata = [buffer EXCEPT !.kind = "metadata"]
      BY DEF FrameHasItsMetadata
    <2>1. buffer # Empty
      BY PacketFacts
    <2>2. stream[n].half = "header" /\ buffer = stream[n].packet
      BY <2>1 DEF IInv, StreamIsIntact
    <2>3. QED
      BY <2>2 DEF IInv, Metadata
  <1>2. Spec => []IInv
    BY Inductive
  <1>3. QED
    BY <1>1, <1>2, PTL

\* When nothing is under way, the page shows a connection just if there is one.
THEOREM QuietPageIsAlwaysRight == ASSUME OneConnect PROVE Spec => []QuietPageIsRight
  <1>1. IInv => QuietPageIsRight
    BY DEF IInv, Shown, QuietPageIsRight
  <1>2. Spec => []IInv
    BY Inductive
  <1>3. QED
    BY <1>1, <1>2, PTL
=============================================================================
