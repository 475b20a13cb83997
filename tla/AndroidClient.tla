---------------------------- MODULE AndroidClient ----------------------------
(***************************************************************************)
(* The session client of the Android application                           *)
(* (remote_session_client.dart) and the page that uses it                  *)
(* (screenscrab_app.dart), on the single thread of a Dart isolate.         *)
(*                                                                         *)
(* A step is what runs between two awaits.  There are three of them: for   *)
(* the cancellation of the subscription in disconnect, for Socket.connect, *)
(* and for a disconnect called by somebody else; the last is resumed by    *)
(* the step that ends it.  Steps of several calls interleave at the awaits,*)
(* and the events of the sockets come in between.                          *)
(*                                                                         *)
(* A packet arrives as its header and its payload.  Any chunk is a number  *)
(* of halves delivered with nothing in between, so _onData takes one half. *)
(* Packets that change nothing here (hello, capabilities, ping, clipboard) *)
(* are left out, and so is the count of the frames the platform rendered.  *)
(* Sockets are numbered in the order they are connected; 0 is null.        *)
(***************************************************************************)
EXTENDS Naturals

CONSTANTS
    Connects,       \* the calls of connect that may be under way at once
    MaxSockets,     \* bound: how many sockets are connected
    MaxFrames       \* bound: how many frames the host sends on a socket

ASSUME BoundsAssumption == MaxSockets \in Nat /\ MaxFrames \in Nat

VARIABLES
    \* RemoteSessionClient
    socket, subscription, buffer, pendingMetadata,
    \* _AndroidHomePageState
    uiState, mounted,
    \* connect: where each call is; awaiting: who waits in disconnect
    connect, awaiting,
    \* the sockets, the ones with a listener, and what each delivered last
    os, listening, stream

client == <<socket, subscription, buffer, pendingMetadata>>
page == <<uiState, mounted>>
vars == <<client, page, connect, awaiting, os, listening, stream>>

Sockets == 1..MaxSockets

\* A packet of the host, and one half of it.
Kinds   == {"metadata", "frame", "disconnect"}
Packets == [from : Sockets, kind : Kinds, frame : 0..MaxFrames]
Halves  == [packet : Packets, half : {"header", "payload"}]
Empty   == [kind |-> "empty"]      \* no packet has begun, no metadata is known
Nothing == [half |-> "nothing"]

-----------------------------------------------------------------------------
(* What the host sends: the metadata of a frame, the frame, and so on, or a *)
(* disconnect packet, after which it sends nothing.                         *)

PacketsAfter(n, frame, kinds) ==
    {[packet |-> [from |-> n, kind |-> k, frame |-> frame], half |-> "header"] :
        k \in kinds}

NextHalves(n) ==
    LET last == stream[n] IN
    CASE last = Nothing -> PacketsAfter(n, 1, {"metadata", "disconnect"})
      [] last.half = "header" -> {[last EXCEPT !.half = "payload"]}
      [] last.half = "payload" /\ last.packet.kind = "metadata" ->
           PacketsAfter(n, last.packet.frame, {"frame", "disconnect"})
      [] last.half = "payload" /\ last.packet.kind = "frame"
           /\ last.packet.frame < MaxFrames ->
           PacketsAfter(n, last.packet.frame + 1, {"metadata", "disconnect"})
      [] OTHER -> {}

-----------------------------------------------------------------------------
Init ==
    /\ socket = 0 /\ subscription = 0 /\ buffer = Empty
    /\ pendingMetadata = Empty
    /\ uiState = "disconnected" /\ mounted = TRUE
    /\ connect = [c \in Connects |-> "idle"] /\ awaiting = {}
    /\ os = [n \in Sockets |-> "new"] /\ listening = {}
    /\ stream = [n \in Sockets |-> Nothing]

\* onConnectionStateChanged.
Report(state) == uiState' = IF mounted THEN state ELSE uiState

-----------------------------------------------------------------------------
(* disconnect, called by a: up to the await, and the rest.                  *)

\* Mutant of BeginDisconnect: the buffer keeps what was received.
BeginDisconnectKeepsBuffer(a) ==
    /\ pendingMetadata' = Empty
    /\ listening' = listening \ {subscription}
    /\ awaiting' = awaiting \cup {a}
    /\ UNCHANGED buffer

BeginDisconnect(a) ==
    /\ pendingMetadata' = Empty
    /\ buffer' = Empty
    /\ listening' = listening \ {subscription}
    /\ awaiting' = awaiting \cup {a}

\* Mutant of EndDisconnect: the socket is forgotten without being destroyed.
EndDisconnectForgets(a) ==
    /\ a \in awaiting /\ awaiting' = awaiting \ {a}
    /\ subscription' = 0 /\ socket' = 0
    /\ UNCHANGED <<os, stream, buffer, pendingMetadata, mounted, listening>>

\* It destroys the socket there is by now, which need not be the one whose
\* subscription it cancelled; what its host sent is of no more interest.
EndDisconnect(a) ==
    /\ a \in awaiting /\ awaiting' = awaiting \ {a}
    /\ subscription' = 0
    /\ os' = [n \in Sockets |-> IF n = socket THEN "destroyed" ELSE os[n]]
    /\ stream' = [n \in Sockets |-> IF n = socket THEN Nothing ELSE stream[n]]
    /\ socket' = 0
    /\ UNCHANGED <<buffer, pendingMetadata, mounted, listening>>

\* Mutant of Disconnected: the page is not told.
DisconnectedSilently(a) ==
    /\ EndDisconnect(a) /\ a \notin Connects
    /\ UNCHANGED <<uiState, connect>>

\* disconnect returns to the page or to the callback that called it.
Disconnected(a) ==
    /\ EndDisconnect(a) /\ a \notin Connects
    /\ Report("disconnected")
    /\ UNCHANGED connect

\* _disconnect of the page.  The state it sets is the one just reported.
UserDisconnect ==
    /\ mounted /\ <<"user", 0>> \notin awaiting
    /\ BeginDisconnect(<<"user", 0>>)
    /\ UNCHANGED <<socket, subscription, page, connect, os, stream>>

\* The page goes away; its callbacks then do nothing.
Dispose ==
    /\ mounted /\ mounted' = FALSE
    /\ BeginDisconnect(<<"dispose", 0>>)
    /\ UNCHANGED <<socket, subscription, uiState, connect, os, stream>>

-----------------------------------------------------------------------------
(* connect, called by c.                                                    *)

Goto(c, place) == connect' = [connect EXCEPT ![c] = place]

Connect(c) ==
    /\ mounted /\ connect[c] = "idle"
    /\ BeginDisconnect(c) /\ Goto(c, "disconnect")
    /\ UNCHANGED <<socket, subscription, page, os, stream>>

Connecting(c) ==
    /\ connect[c] = "disconnect" /\ Goto(c, "connect")
    /\ EndDisconnect(c)
    /\ Report("connecting")

\* The next socket to be connected.
Fresh(n) == os[n] = "new" /\ \A m \in 1..(n - 1) : os[m] # "new"

\* The socket is stored, heard and greeted in one go.
Connected(c) ==
    /\ connect[c] = "connect" /\ Goto(c, "idle")
    /\ \E n \in Sockets :
         /\ Fresh(n) /\ os' = [os EXCEPT ![n] = "open"]
         /\ socket' = n /\ subscription' = n
         /\ listening' = listening \cup {n}
    /\ Report("connected")
    /\ UNCHANGED <<buffer, pendingMetadata, mounted, awaiting, stream>>

\* The handler of connect.
ConnectError(c) ==
    /\ connect[c] = "connect" /\ Goto(c, "cleanup")
    /\ Report("error") /\ BeginDisconnect(c)
    /\ UNCHANGED <<socket, subscription, mounted, stream>>

\* There is no connection, or not within five seconds.
ConnectFails(c) == ConnectError(c) /\ UNCHANGED os

\* The option cannot be set: nothing refers to the socket, or destroys it.
SetOptionFails(c) ==
    /\ ConnectError(c)
    /\ \E n \in Sockets : Fresh(n) /\ os' = [os EXCEPT ![n] = "lost"]

ConnectFailed(c) ==
    /\ connect[c] = "cleanup" /\ Goto(c, "idle")
    /\ EndDisconnect(c)
    /\ Report("disconnected")

-----------------------------------------------------------------------------
(* The listener of socket n.                                                *)

\* Mutant of HandlePacket: the packet is stored, and not what it carries.
HandlePacketWhole(packet, payload) ==
    pendingMetadata' = IF packet.kind = "metadata"
                         THEN [packet |-> packet, half |-> "header"]
                         ELSE pendingMetadata

\* Mutant of HandlePacket: metadata that is known is kept.
HandlePacketOnce(packet, payload) ==
    pendingMetadata' = IF packet.kind = "metadata" /\ pendingMetadata = Empty
                         THEN payload ELSE pendingMetadata

\* _handlePacket: packet is what its header says, payload what it carries.  A
\* frame is given to the platform with the metadata there is, and changes
\* nothing here.
HandlePacket(packet, payload) ==
    pendingMetadata' =
        IF packet.kind = "metadata" THEN payload ELSE pendingMetadata

\* The next half of the stream of n.
Chunk(n, h) ==
    /\ n \in listening /\ os[n] = "open" /\ h \in NextHalves(n)
    /\ stream' = [stream EXCEPT ![n] = h]
    /\ UNCHANGED <<socket, subscription, page, connect, os>>

\* _onData waits for the rest of a packet.
DataHeader(n) ==
    /\ \E h \in Halves :
         /\ buffer = Empty /\ h.half = "header" /\ Chunk(n, h)
         /\ buffer' = h.packet
    /\ UNCHANGED <<pendingMetadata, awaiting, listening>>

\* _onData finds no header at the front of its buffer.
DataUnframed(n) ==
    /\ \E h \in Halves : buffer = Empty /\ h.half = "payload" /\ Chunk(n, h)
    /\ UNCHANGED <<buffer, pendingMetadata, awaiting, listening>>

\* _onData has a packet, and handles it.
DataPacket(n) ==
    /\ \E h \in Halves :
         /\ buffer # Empty /\ Chunk(n, h) /\ buffer.kind # "disconnect"
         /\ HandlePacket(buffer, h.packet)
    /\ buffer' = Empty
    /\ UNCHANGED <<awaiting, listening>>

\* _onData has a disconnect packet.
DataDisconnect(n) ==
    /\ \E h \in Halves :
         buffer # Empty /\ Chunk(n, h) /\ buffer.kind = "disconnect"
    /\ BeginDisconnect(<<"packet", n>>)

\* Mutant of SocketError: the page is not told.
SocketErrorSilent(n) ==
    /\ n \in listening /\ os[n] = "failed"
    /\ listening' = listening \ {n}
    /\ UNCHANGED <<client, page, connect, awaiting, os, stream>>

\* _onSocketError.  cancelOnError ends the subscription, so that _onSocketDone
\* is not called; the socket stays where it is.
SocketError(n) ==
    /\ n \in listening /\ os[n] = "failed"
    /\ listening' = listening \ {n}
    /\ Report("error")
    /\ UNCHANGED <<client, mounted, connect, awaiting, os, stream>>

\* Mutant of SocketDone: the end of the stream is not listened for.
SocketDoneIgnored(n) ==
    /\ n \in listening /\ os[n] \in {"closed", "destroyed"}
    /\ listening' = listening \ {n}
    /\ UNCHANGED <<client, page, connect, awaiting, os, stream>>

\* _onSocketDone.  It disconnects whichever socket there is.
SocketDone(n) ==
    /\ n \in listening /\ os[n] \in {"closed", "destroyed"}
    /\ pendingMetadata' = Empty /\ buffer' = Empty
    /\ listening' = listening \ {n, subscription}
    /\ awaiting' = awaiting \cup {<<"done", n>>}
    /\ Report("disconnected")
    /\ UNCHANGED <<socket, subscription, mounted, connect, os, stream>>

\* The host closes the connection, or it breaks.
PeerCloses(n) ==
    /\ os[n] = "open" /\ os' \in {[os EXCEPT ![n] = s] : s \in {"closed", "failed"}}
    /\ UNCHANGED <<client, page, connect, awaiting, listening, stream>>

-----------------------------------------------------------------------------
\* The calls of disconnect that are not connect's own.
Disconnects == ({"user", "dispose"} \X {0}) \cup ({"packet", "done"} \X Sockets)

Resume(c) == Connecting(c) \/ Connected(c) \/ ConnectFails(c) \/ ConnectFailed(c)

Listener(n) ==
    \/ DataHeader(n) \/ DataUnframed(n) \/ DataPacket(n) \/ DataDisconnect(n)
    \/ SocketError(n) \/ SocketDone(n)

Next ==
    \/ UserDisconnect \/ Dispose
    \/ \E a \in Disconnects : Disconnected(a)
    \/ \E c \in Connects : Connect(c) \/ SetOptionFails(c) \/ Resume(c)
    \/ \E n \in Sockets : Listener(n) \/ PeerCloses(n)

\* A future that has completed resumes whoever awaits it, Socket.connect
\* completes within its timeout, and the events of a socket are delivered.
Fairness ==
    /\ \A a \in Disconnects : WF_vars(Disconnected(a))
    /\ \A c \in Connects : WF_vars(Resume(c))
    /\ \A n \in Sockets : WF_vars(SocketError(n) \/ SocketDone(n))

Spec == Init /\ [][Next]_vars /\ Fairness

-----------------------------------------------------------------------------
(* Properties.                                                              *)

Known == [from : Sockets, kind : Kinds, frame : 0..MaxFrames] \cup {Empty}

\* Every variable has its type.
TypeOK ==
    /\ {socket, subscription} \subseteq 0..MaxSockets
    /\ {buffer, pendingMetadata} \subseteq Known
    /\ uiState \in {"disconnected", "connecting", "connected", "error"}
    /\ mounted \in BOOLEAN
    /\ connect \in [Connects -> {"idle", "disconnect", "connect", "cleanup"}]
    /\ awaiting \subseteq Disconnects \cup Connects
    /\ os \in [Sockets -> {"new", "open", "closed", "failed", "destroyed", "lost"}]
    /\ listening \subseteq Sockets
    /\ stream \in [Sockets -> Halves \cup {Nothing}]

\* While connects do not overlap, a socket that was handed to the client and
\* is not destroyed is the one the client has: no disconnect, at whatever
\* await it comes, makes the client lose a connection.
NoSocketIsLeaked ==
    \A n \in Sockets : os[n] \in {"open", "closed", "failed"} => n = socket

\* While connects do not overlap, the buffer holds exactly the packet that the
\* stream of the connection is in the middle of: nothing of an earlier one.
StreamIsIntact ==
    \A n \in listening :
        os[n] = "open" =>
          buffer = IF stream[n].half = "header" THEN stream[n].packet ELSE Empty

\* While connects do not overlap, a frame is rendered with the size and the
\* stride that the host sent for it.
FrameHasItsMetadata ==
    \A n \in listening :
        os[n] = "open" /\ buffer.kind = "frame" =>
          pendingMetadata = [buffer EXCEPT !.kind = "metadata"]

\* While connects do not overlap: when no call is under way, the page shows
\* that it is connected just if it has a socket that it listens to.
QuietPageIsRight ==
    mounted /\ awaiting = {} /\ (\A c \in Connects : connect[c] = "idle") =>
        (uiState = "connected" <=> socket \in listening)

\* However the calls overlap, the page shows a connection only if the client
\* has a socket.
ConnectedHasSocket == mounted /\ uiState = "connected" => socket # 0

\* However the calls overlap, a connection that has ended is not shown for
\* ever: the page is told, or the client gives the socket up.
EndIsReported ==
    \A n \in Sockets :
        socket = n /\ os[n] \in {"closed", "failed"} ~>
            socket # n \/ uiState # "connected" \/ ~mounted
=============================================================================
