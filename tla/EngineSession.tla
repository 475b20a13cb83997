--------------------------- MODULE EngineSession ---------------------------
(***************************************************************************)
(* The session manager of the Windows engine (session_manager.cpp) on top  *)
(* of its TCP transport (transport.cpp).                                   *)
(*                                                                         *)
(* Two threads share one SessionManager.  "api" is the thread of the user  *)
(* interface: it calls start_host, start_client and stop one after the     *)
(* other.  "worker" is the std::thread that the start calls spawn: it runs *)
(* run_host_loop or run_client_loop.  The status fields are only written   *)
(* under mutex_, and no critical section blocks, so each critical section  *)
(* is one step.  The two socket fields of the transport are NOT protected: *)
(* Transport::disconnect is run by both threads, and here every load,      *)
(* closesocket and store of it is a step of its own.                       *)
(*                                                                         *)
(* Socket handles are reused as soon as they are closed, as Windows does.  *)
(* The bytes of a connection are abstracted to a queue of packet kinds.    *)
(***************************************************************************)
EXTENDS Naturals, Sequences

CONSTANTS
    Handles,          \* the socket handles the process can hold
    INVALID_SOCKET,   \* the handle of no socket
    MaxBacklog,       \* bound: peers waiting in the listen backlog
    MaxInbox          \* bound: packets sent to us and not yet received

ASSUME HandlesAssumption == INVALID_SOCKET \notin Handles
ASSUME BoundsAssumption == MaxBacklog \in Nat /\ MaxInbox \in Nat

VARIABLES
    \* SessionManager, written under mutex_ and returned by snapshot()
    mode, transport_state, session_active, capture_active,
    endpoint, tailscale_reachable, last_error, encoder_name,
    \* SessionManager, atomic
    stop_requested,
    \* Transport: [socket_, listen_socket_]
    transport,
    \* the threads
    pc,               \* where each thread is
    ret,              \* where its current call of disconnect() returns to
    slot,             \* which field disconnect() is working on
    loaded,           \* the handle disconnect() has loaded from that field
    call,             \* the API call under way
    \* the operating system and the far end
    handle,           \* what each socket handle is
    backlog,          \* peers waiting to be accepted at each handle
    peer,             \* the far end of the connection
    inbox             \* what it has sent and we have not received

snapshot == <<mode, transport_state, session_active, capture_active,
              endpoint, tailscale_reachable, last_error, encoder_name>>
threads  == <<pc, ret, slot, loaded>>
network  == <<handle, backlog, peer, inbox>>
vars == <<snapshot, stop_requested, transport, threads, call, network>>

Threads == {"api", "worker"}
Slots   == {"socket_", "listen_socket_"}
Calls   == {"stop", "host", "client"}

\* What a packet turns out to be when it is received: "message" reaches a
\* handler; "malformed" fails the checks of the header or of its size;
\* "partial" is a packet the rest of which is not there yet.
Packets == {"message", "malformed", "disconnect", "partial"}

DisconnectLabels == {"disc_load", "disc_close", "disc_clear"}
ApiLabels == {"idle", "join", "settle", "start"} \cup DisconnectLabels
HostLabels == {"listen", "listen_create", "listen_bind", "listen_failed",
               "capture_init", "host_loop", "accept", "accept_wait",
               "accept_failed", "peer_connected", "session", "send_frame",
               "session_broken", "incoming", "receive", "packet_refused",
               "session_ended"}
ClientLabels == {"connect", "dial", "connect_failed", "client_connected",
                 "client_loop", "client_ended"}
WorkerLabels == {"none", "done"} \cup HostLabels \cup ClientLabels
                  \cup DisconnectLabels

-----------------------------------------------------------------------------
(* Helpers *)

IsConnection(h) == h \in Handles /\ handle[h] = "connection"
IsListening(h) == h \in Handles /\ handle[h] = "listening"
FreeHandles == {h \in Handles : handle[h] = "closed"}

GoTo(t, label) == pc' = [pc EXCEPT ![t] = label]
Stay == UNCHANGED <<ret, slot, loaded>>

\* t enters Transport::disconnect and will go on at label.
CallDisconnect(t, label) ==
    /\ GoTo(t, "disc_load")
    /\ ret' = [ret EXCEPT ![t] = label]
    /\ slot' = [slot EXCEPT ![t] = "socket_"]
    /\ UNCHANGED loaded

\* closesocket(h).  Closing an invalid or a closed handle does nothing.
CloseHandle(h) ==
    /\ handle' = [x \in Handles |-> IF x = h THEN "closed" ELSE handle[x]]
    /\ backlog' = [x \in Handles |-> IF x = h THEN 0 ELSE backlog[x]]
    /\ peer' = IF IsConnection(h) THEN "none" ELSE peer
    /\ inbox' = IF IsConnection(h) THEN <<>> ELSE inbox

\* apply_error: mutex_ is taken, the code and the message are stored.
ApplyError(e) ==
    /\ last_error' = e
    /\ UNCHANGED <<mode, transport_state, session_active, capture_active,
                   endpoint, tailscale_reachable, encoder_name>>

-----------------------------------------------------------------------------
Init ==
    /\ mode = "stopped" /\ transport_state = "offline"
    /\ session_active = FALSE /\ capture_active = FALSE
    /\ endpoint = "" /\ tailscale_reachable = FALSE
    /\ last_error = "none" /\ encoder_name = "none"
    /\ stop_requested = FALSE
    /\ transport = [s \in Slots |-> INVALID_SOCKET]
    /\ pc = [t \in Threads |-> IF t = "api" THEN "idle" ELSE "none"]
    /\ ret = [t \in Threads |-> "none"]
    /\ slot = [t \in Threads |-> "socket_"]
    /\ loaded = [t \in Threads |-> INVALID_SOCKET]
    /\ call = "stop"
    /\ handle = [h \in Handles |-> "closed"]
    /\ backlog = [h \in Handles |-> 0]
    /\ peer = "none" /\ inbox = <<>>

-----------------------------------------------------------------------------
(* Transport::disconnect, run by either thread.  The field is loaded once: *)
(* a second load could only differ if the other thread had closed and      *)
(* cleared it, and then closesocket does nothing either way.               *)

\* Mutant of LeaveSlot: disconnect() forgets the listening socket.
LeaveSlotSocketOnly(t) ==
    GoTo(t, ret[t]) /\ UNCHANGED slot

\* The field is done: on to the second one, or back to the caller.
LeaveSlot(t) ==
    IF slot[t] = "socket_"
      THEN /\ slot' = [slot EXCEPT ![t] = "listen_socket_"]
           /\ GoTo(t, "disc_load")
      ELSE /\ slot' = [slot EXCEPT ![t] = "socket_"]
           /\ GoTo(t, ret[t])

DisconnectLoad(t) ==
    /\ pc[t] = "disc_load"
    /\ loaded' = [loaded EXCEPT ![t] = transport[slot[t]]]
    /\ IF transport[slot[t]] = INVALID_SOCKET
         THEN LeaveSlot(t)
         ELSE GoTo(t, "disc_close") /\ UNCHANGED slot
    /\ UNCHANGED <<snapshot, stop_requested, transport, ret, call, network>>

\* Mutant of DisconnectClose: the field is cleared and its socket left open.
DisconnectNoClose(t) ==
    /\ pc[t] = "disc_close"
    /\ GoTo(t, "disc_clear")
    /\ Stay
    /\ UNCHANGED <<snapshot, stop_requested, transport, call, network>>

DisconnectClose(t) ==
    /\ pc[t] = "disc_close"
    /\ CloseHandle(loaded[t])
    /\ GoTo(t, "disc_clear")
    /\ Stay
    /\ UNCHANGED <<snapshot, stop_requested, transport, call>>

\* Mutant of DisconnectClear: the field is zeroed, which is not INVALID_SOCKET.
DisconnectZero(t) ==
    /\ pc[t] = "disc_clear"
    /\ transport' = [transport EXCEPT ![slot[t]] = 0]
    /\ LeaveSlot(t)
    /\ UNCHANGED <<snapshot, stop_requested, ret, loaded, call, network>>

DisconnectClear(t) ==
    /\ pc[t] = "disc_clear"
    /\ transport' = [transport EXCEPT ![slot[t]] = INVALID_SOCKET]
    /\ LeaveSlot(t)
    /\ UNCHANGED <<snapshot, stop_requested, ret, loaded, call, network>>

Disconnect(t) == DisconnectLoad(t) \/ DisconnectClose(t) \/ DisconnectClear(t)

-----------------------------------------------------------------------------
(* The API thread.  start_host and start_client begin with stop().         *)

\* Mutant of BeginCall: stop() closes the sockets without setting the flag.
BeginCallNoFlag(c) ==
    /\ pc["api"] = "idle"
    /\ call' = c
    /\ CallDisconnect("api", "join")
    /\ UNCHANGED <<snapshot, stop_requested, transport, network>>

BeginCall(c) ==
    /\ pc["api"] = "idle"
    /\ call' = c
    /\ stop_requested' = TRUE
    /\ CallDisconnect("api", "join")
    /\ UNCHANGED <<snapshot, transport, network>>

\* Mutant of Join: the worker is detached instead of joined.
JoinDetached ==
    /\ pc["api"] = "join"
    /\ GoTo("api", "settle")
    /\ Stay
    /\ UNCHANGED <<snapshot, stop_requested, transport, call, network>>

\* worker_.join() when there is a thread, nothing when there is none.
Join ==
    /\ pc["api"] = "join"
    /\ pc["worker"] \in {"none", "done"}
    /\ pc' = [pc EXCEPT !["api"] = "settle", !["worker"] = "none"]
    /\ Stay
    /\ UNCHANGED <<snapshot, stop_requested, transport, call, network>>

\* The end of stop(): capture and encoder are shut down, the status is reset.
Settle ==
    /\ pc["api"] = "settle"
    /\ mode' = "stopped" /\ transport_state' = "offline"
    /\ session_active' = FALSE /\ capture_active' = FALSE
    /\ encoder_name' = "none"
    /\ GoTo("api", IF call = "stop" THEN "idle" ELSE "start")
    /\ Stay
    /\ UNCHANGED <<endpoint, tailscale_reachable, last_error, stop_requested,
                   transport, call, network>>

StartHost ==
    /\ pc["api"] = "start" /\ call = "host"
    /\ mode' = "host" /\ transport_state' = "listening"
    /\ session_active' = FALSE /\ capture_active' = FALSE
    /\ endpoint' = "" /\ last_error' = "none"
    /\ stop_requested' = FALSE
    /\ encoder_name' = "raw"
    /\ pc' = [pc EXCEPT !["api"] = "idle", !["worker"] = "listen"]
    /\ Stay
    /\ UNCHANGED <<tailscale_reachable, transport, call, network>>

StartClient ==
    /\ pc["api"] = "start" /\ call = "client"
    /\ mode' = "client" /\ transport_state' = "connecting"
    /\ session_active' = FALSE /\ capture_active' = FALSE
    /\ endpoint' = "address" /\ last_error' = "none"
    /\ stop_requested' = FALSE
    /\ pc' = [pc EXCEPT !["api"] = "idle", !["worker"] = "connect"]
    /\ Stay
    /\ UNCHANGED <<tailscale_reachable, encoder_name, transport, call, network>>

ApiStep == Disconnect("api") \/ Join \/ Settle \/ StartHost \/ StartClient

-----------------------------------------------------------------------------
(* The worker in host mode: run_host_loop, with Transport::listen and       *)
(* Transport::accept.                                                       *)

\* The worker's thread function returns after storing an error.
FailAndReturn ==
    /\ ApplyError("startup")
    /\ GoTo("worker", "done")
    /\ Stay
    /\ UNCHANGED <<stop_requested, transport, call, network>>

\* Transport::listen: Winsock is unavailable, or disconnect() comes first.
Listen ==
    /\ pc["worker"] = "listen"
    /\ \/ /\ GoTo("worker", "listen_failed") /\ Stay
       \/ CallDisconnect("worker", "listen_create")
    /\ UNCHANGED <<snapshot, stop_requested, transport, call, network>>

ListenCreate ==
    /\ pc["worker"] = "listen_create"
    /\ \/ \E h \in FreeHandles :
            /\ handle' = [handle EXCEPT ![h] = "created"]
            /\ transport' = [transport EXCEPT !["listen_socket_"] = h]
            /\ GoTo("worker", "listen_bind")
       \/ /\ transport' = [transport EXCEPT !["listen_socket_"] = INVALID_SOCKET]
          /\ GoTo("worker", "listen_failed")
          /\ UNCHANGED handle
    /\ Stay
    /\ UNCHANGED <<snapshot, stop_requested, call, backlog, peer, inbox>>

\* setsockopt, bind and ::listen; any of them may fail, and they do when the
\* other thread has closed or cleared the field.
ListenBind ==
    /\ pc["worker"] = "listen_bind"
    /\ LET h == transport["listen_socket_"] IN
         \/ /\ h \in Handles /\ handle[h] = "created"
            /\ handle' = [handle EXCEPT ![h] = "listening"]
            /\ GoTo("worker", "capture_init")
            /\ Stay
         \/ /\ CallDisconnect("worker", "listen_failed")
            /\ UNCHANGED handle
    /\ UNCHANGED <<snapshot, stop_requested, transport, call,
                   backlog, peer, inbox>>

ListenFailed == pc["worker"] = "listen_failed" /\ FailAndReturn

\* Mutant of CaptureInitFails: the error is not stored.
CaptureInitFailsSilently ==
    /\ pc["worker"] = "capture_init"
    /\ GoTo("worker", "done")
    /\ Stay
    /\ UNCHANGED <<snapshot, stop_requested, transport, call, network>>

\* capture_.initialize fails: the thread returns with the listener open.
CaptureInitFails == pc["worker"] = "capture_init" /\ FailAndReturn

CaptureInit ==
    /\ pc["worker"] = "capture_init"
    /\ capture_active' = TRUE
    /\ session_active' = FALSE /\ transport_state' = "listening"
    /\ GoTo("worker", "host_loop")
    /\ Stay
    /\ UNCHANGED <<mode, endpoint, tailscale_reachable, last_error,
                   encoder_name, stop_requested, transport, call, network>>

HostLoop ==
    /\ pc["worker"] = "host_loop"
    /\ GoTo("worker", IF stop_requested THEN "done" ELSE "accept")
    /\ Stay
    /\ UNCHANGED <<snapshot, stop_requested, transport, call, network>>

\* Transport::accept, before it blocks: no listener is an error, and an old
\* connection is closed.
Accept ==
    /\ pc["worker"] = "accept"
    /\ LET old == transport["socket_"] IN
         IF transport["listen_socket_"] = INVALID_SOCKET
           THEN /\ GoTo("worker", "accept_failed")
                /\ UNCHANGED <<transport, network>>
           ELSE /\ GoTo("worker", "accept_wait")
                /\ CloseHandle(old)
                /\ transport' = [transport EXCEPT !["socket_"] = INVALID_SOCKET]
    /\ Stay
    /\ UNCHANGED <<snapshot, stop_requested, call>>

\* ::accept returns the connection of a waiting peer ...
AcceptPeer ==
    /\ pc["worker"] = "accept_wait"
    /\ LET l == transport["listen_socket_"] IN
         /\ IsListening(l) /\ backlog[l] > 0
         /\ \E h \in FreeHandles :
              /\ handle' = [handle EXCEPT ![h] = "connection"]
              /\ transport' = [transport EXCEPT !["socket_"] = h]
         /\ backlog' = [backlog EXCEPT ![l] = @ - 1]
    /\ peer' = "reading" /\ inbox' = <<>>
    /\ GoTo("worker", "peer_connected")
    /\ Stay
    /\ UNCHANGED <<snapshot, stop_requested, call>>

\* ... or an error: the peer reset the connection while it waited, or the
\* listener was closed under the blocked call.
AcceptError ==
    /\ pc["worker"] = "accept_wait"
    /\ LET l == transport["listen_socket_"] IN
         \/ /\ ~IsListening(l)
            /\ UNCHANGED backlog
         \/ /\ IsListening(l) /\ backlog[l] > 0
            /\ backlog' = [backlog EXCEPT ![l] = @ - 1]
    /\ GoTo("worker", "accept_failed")
    /\ Stay
    /\ UNCHANGED <<snapshot, stop_requested, transport, call,
                   handle, peer, inbox>>

\* The host retries after 250 ms unless it has been told to stop.
AcceptFailed ==
    /\ pc["worker"] = "accept_failed"
    /\ IF stop_requested
         THEN GoTo("worker", "done") /\ UNCHANGED snapshot
         ELSE GoTo("worker", "host_loop") /\ ApplyError("session")
    /\ Stay
    /\ UNCHANGED <<stop_requested, transport, call, network>>

\* The status says connected; then the hello, the capabilities and the
\* session start are sent, and nothing looks at whether that succeeded.
PeerConnected ==
    /\ pc["worker"] = "peer_connected"
    /\ transport_state' = "connected" /\ session_active' = TRUE
    /\ tailscale_reachable' = TRUE /\ endpoint' = "peer"
    /\ GoTo("worker", "session")
    /\ Stay
    /\ UNCHANGED <<mode, capture_active, last_error, encoder_name,
                   stop_requested, transport, call, network>>

InSession == ~stop_requested /\ transport["socket_"] # INVALID_SOCKET

\* The head of the frame loop.  A frame that cannot be captured or encoded
\* skips the rest of the round, the incoming packets included.
CaptureFails ==
    /\ pc["worker"] = "session" /\ InSession
    /\ ApplyError("session")
    /\ UNCHANGED <<stop_requested, transport, threads, call, network>>

CaptureFrame ==
    /\ pc["worker"] = "session" /\ InSession
    /\ GoTo("worker", "send_frame")
    /\ Stay
    /\ UNCHANGED <<snapshot, stop_requested, transport, call, network>>

LeaveSession ==
    /\ pc["worker"] = "session" /\ ~InSession
    /\ CallDisconnect("worker", "session_ended")
    /\ UNCHANGED <<snapshot, stop_requested, transport, call, network>>

\* send_frame.  It blocks while the peer does not read; a peer that is gone
\* is noticed now or by a later send.
SendFrame ==
    /\ pc["worker"] = "send_frame"
    /\ IsConnection(transport["socket_"]) /\ peer \in {"reading", "gone"}
    /\ GoTo("worker", "incoming")
    /\ Stay
    /\ UNCHANGED <<snapshot, stop_requested, transport, call, network>>

SendFrameFails ==
    /\ pc["worker"] = "send_frame"
    /\ ~IsConnection(transport["socket_"]) \/ peer = "gone"
    /\ ApplyError("session")
    /\ CallDisconnect("worker", "session_broken")
    /\ UNCHANGED <<stop_requested, transport, call, network>>

\* break: the loop's own disconnect() is followed by the one after the loop.
SessionBroken ==
    /\ pc["worker"] = "session_broken"
    /\ CallDisconnect("worker", "session_ended")
    /\ UNCHANGED <<snapshot, stop_requested, transport, call, network>>

\* Mutant of SessionEnded: the session stays active.
SessionEndedStillActive ==
    /\ pc["worker"] = "session_ended"
    /\ transport_state' = "listening" /\ endpoint' = ""
    /\ GoTo("worker", "host_loop")
    /\ Stay
    /\ UNCHANGED <<mode, session_active, capture_active, tailscale_reachable,
                   last_error, encoder_name, stop_requested, transport,
                   call, network>>

SessionEnded ==
    /\ pc["worker"] = "session_ended"
    /\ session_active' = FALSE /\ transport_state' = "listening"
    /\ endpoint' = ""
    /\ GoTo("worker", "host_loop")
    /\ Stay
    /\ UNCHANGED <<mode, capture_active, tailscale_reachable, last_error,
                   encoder_name, stop_requested, transport, call, network>>

-----------------------------------------------------------------------------
(* process_incoming_packets and handle_packet.                              *)

\* Transport::poll_readable: there are bytes, or the end of the stream.
Readable ==
    /\ IsConnection(transport["socket_"])
    /\ inbox # <<>> \/ peer = "gone"

\* The condition of the loop.  After it the frame loop goes round (and sends
\* a ping, whose result it ignores, when a second has passed).
PollIncoming ==
    /\ pc["worker"] = "incoming"
    /\ GoTo("worker", IF InSession /\ Readable THEN "receive" ELSE "session")
    /\ Stay
    /\ UNCHANGED <<snapshot, stop_requested, transport, call, network>>

Arrived(kind) ==
    /\ pc["worker"] = "receive"
    /\ IsConnection(transport["socket_"])
    /\ inbox # <<>> /\ Head(inbox) = kind

\* The stream ends, or the socket is closed, before the packet is complete.
ReceiveFails ==
    /\ pc["worker"] = "receive"
    /\ \/ ~IsConnection(transport["socket_"])
       \/ peer = "gone" /\ inbox \in {<<>>, <<"partial">>}
    /\ ApplyError("session")
    /\ CallDisconnect("worker", "session")
    /\ UNCHANGED <<stop_requested, transport, call, network>>

ReceiveMalformed ==
    /\ Arrived("malformed")
    /\ inbox' = Tail(inbox)
    /\ ApplyError("session")
    /\ CallDisconnect("worker", "session")
    /\ UNCHANGED <<stop_requested, transport, call, handle, backlog, peer>>

\* The handler accepts the message, or refuses it (a payload that is too
\* short, an injection or a pong that fails) and the connection is dropped.
ReceiveMessage ==
    /\ Arrived("message")
    /\ inbox' = Tail(inbox)
    /\ \/ GoTo("worker", "incoming") /\ Stay
       \/ CallDisconnect("worker", "session")
    /\ UNCHANGED <<snapshot, stop_requested, transport, call,
                   handle, backlog, peer>>

\* A disconnect message: handle_packet disconnects and refuses it.
ReceiveDisconnect ==
    /\ Arrived("disconnect")
    /\ inbox' = Tail(inbox)
    /\ CallDisconnect("worker", "packet_refused")
    /\ UNCHANGED <<snapshot, stop_requested, transport, call,
                   handle, backlog, peer>>

PacketRefused ==
    /\ pc["worker"] = "packet_refused"
    /\ CallDisconnect("worker", "session")
    /\ UNCHANGED <<snapshot, stop_requested, transport, call, network>>

-----------------------------------------------------------------------------
(* The worker in client mode: run_client_loop and Transport::connect.       *)

Connect ==
    /\ pc["worker"] = "connect"
    /\ \/ /\ GoTo("worker", "connect_failed") /\ Stay
       \/ CallDisconnect("worker", "dial")
    /\ UNCHANGED <<snapshot, stop_requested, transport, call, network>>

\* Each address is tried with a socket that only this call knows, so a
\* disconnect() meanwhile cannot abort it; failed attempts are closed again.
Dial ==
    /\ pc["worker"] = "dial"
    /\ \/ \E h \in FreeHandles :
            /\ handle' = [handle EXCEPT ![h] = "connection"]
            /\ transport' = [transport EXCEPT !["socket_"] = h]
            /\ peer' = "reading" /\ inbox' = <<>>
            /\ GoTo("worker", "client_connected")
       \/ /\ transport["socket_"] = INVALID_SOCKET
          /\ GoTo("worker", "connect_failed")
          /\ UNCHANGED <<handle, transport, peer, inbox>>
    /\ Stay
    /\ UNCHANGED <<snapshot, stop_requested, call, backlog>>

ConnectFailed == pc["worker"] = "connect_failed" /\ FailAndReturn

ClientConnected ==
    /\ pc["worker"] = "client_connected"
    /\ transport_state' = "connected" /\ session_active' = TRUE
    /\ tailscale_reachable' = TRUE
    /\ GoTo("worker", "client_loop")
    /\ Stay
    /\ UNCHANGED <<mode, capture_active, endpoint, last_error, encoder_name,
                   stop_requested, transport, call, network>>

\* The loop only sleeps: nothing is received, so nothing notices that the
\* host has gone.
LeaveClientLoop ==
    /\ pc["worker"] = "client_loop" /\ ~InSession
    /\ CallDisconnect("worker", "client_ended")
    /\ UNCHANGED <<snapshot, stop_requested, transport, call, network>>

ClientEnded ==
    /\ pc["worker"] = "client_ended"
    /\ session_active' = FALSE /\ transport_state' = "offline"
    /\ GoTo("worker", "done")
    /\ Stay
    /\ UNCHANGED <<mode, capture_active, endpoint, tailscale_reachable,
                   last_error, encoder_name, stop_requested, transport,
                   call, network>>

HostStep ==
    \/ Listen \/ ListenCreate \/ ListenBind \/ ListenFailed
    \/ CaptureInitFails \/ CaptureInit \/ HostLoop
    \/ Accept \/ AcceptPeer \/ AcceptError \/ AcceptFailed
    \/ PeerConnected \/ CaptureFails \/ CaptureFrame \/ LeaveSession
    \/ SendFrame \/ SendFrameFails \/ SessionBroken \/ SessionEnded
IncomingStep ==
    \/ PollIncoming \/ ReceiveFails \/ ReceiveMalformed
    \/ ReceiveMessage \/ ReceiveDisconnect \/ PacketRefused
ClientStep ==
    \/ Connect \/ Dial \/ ConnectFailed \/ ClientConnected
    \/ LeaveClientLoop \/ ClientEnded
WorkerStep == Disconnect("worker") \/ HostStep \/ IncomingStep \/ ClientStep

-----------------------------------------------------------------------------
(* The far end.                                                             *)

HasPeer == \E h \in Handles : handle[h] = "connection"

PeerArrives ==
    /\ \E h \in Handles :
         /\ handle[h] = "listening" /\ backlog[h] < MaxBacklog
         /\ backlog' = [backlog EXCEPT ![h] = @ + 1]
    /\ UNCHANGED <<snapshot, stop_requested, transport, threads, call,
                   handle, peer, inbox>>

\* Nothing follows a partial packet before its rest has arrived.
PeerSends ==
    /\ HasPeer /\ peer # "gone" /\ Len(inbox) < MaxInbox
    /\ inbox # <<>> => inbox[Len(inbox)] # "partial"
    /\ \E p \in Packets : inbox' = Append(inbox, p)
    /\ UNCHANGED <<snapshot, stop_requested, transport, threads, call,
                   handle, backlog, peer>>

PeerCompletesPacket ==
    /\ peer # "gone" /\ inbox # <<>> /\ inbox[Len(inbox)] = "partial"
    /\ \E p \in Packets \ {"partial"} :
         inbox' = [inbox EXCEPT ![Len(inbox)] = p]
    /\ UNCHANGED <<snapshot, stop_requested, transport, threads, call,
                   handle, backlog, peer>>

\* The peer stops reading what we send, reads again, or goes away.
PeerChanges ==
    /\ HasPeer /\ peer \in {"reading", "stalled"}
    /\ \E s \in {"reading", "stalled", "gone"} \ {peer} : peer' = s
    /\ UNCHANGED <<snapshot, stop_requested, transport, threads, call,
                   handle, backlog, inbox>>

PeerStep == PeerArrives \/ PeerSends \/ PeerCompletesPacket \/ PeerChanges

-----------------------------------------------------------------------------
Next == (\E c \in Calls : BeginCall(c)) \/ ApiStep \/ WorkerStep \/ PeerStep

\* Both threads are run by the operating system for as long as they can take
\* a step.  Nobody has to call the API, and the far end may do nothing.
Fairness == WF_vars(ApiStep) /\ WF_vars(WorkerStep)

Spec == Init /\ [][Next]_vars /\ Fairness

-----------------------------------------------------------------------------
(* Properties.                                                              *)

SnapshotType ==
    /\ mode \in {"stopped", "host", "client"}
    /\ transport_state \in {"offline", "listening", "connecting", "connected"}
    /\ session_active \in BOOLEAN /\ capture_active \in BOOLEAN
    /\ endpoint \in {"", "address", "peer"}
    /\ tailscale_reachable \in BOOLEAN
    /\ last_error \in {"none", "startup", "session"}
    /\ encoder_name \in {"none", "raw"}

ThreadType ==
    /\ pc \in [Threads -> ApiLabels \cup WorkerLabels]
    /\ pc["api"] \in ApiLabels /\ pc["worker"] \in WorkerLabels
    /\ ret \in [Threads -> ApiLabels \cup WorkerLabels]
    /\ slot \in [Threads -> Slots]
    /\ loaded \in [Threads -> Handles \cup {INVALID_SOCKET}]

NetworkType ==
    /\ handle \in [Handles -> {"closed", "created", "listening", "connection"}]
    /\ backlog \in [Handles -> Nat]
    /\ peer \in {"none", "reading", "stalled", "gone"}
    /\ inbox \in Seq(Packets)

\* Every variable has its type; what a thread has loaded or stored in the
\* transport is a handle or INVALID_SOCKET.
TypeOK ==
    /\ SnapshotType /\ ThreadType /\ NetworkType
    /\ stop_requested \in BOOLEAN
    /\ transport \in [Slots -> Handles \cup {INVALID_SOCKET}]
    /\ call \in Calls

\* Once stop() has returned nothing of the session is left: there is no
\* worker that could still write the status, the status is the one of a
\* stopped engine, and no connection is open (session_manager.cpp, stop).
StoppedIsQuiet ==
    pc["api"] = "idle" /\ mode = "stopped" =>
        /\ pc["worker"] = "none"
        /\ transport_state = "offline" /\ ~session_active /\ ~capture_active
        /\ \A h \in Handles : handle[h] # "connection"

\* What the status says of the session matches the transport: a connection is
\* open only while the status shows an active session, or is about to; and an
\* active session has a worker that will end it.
StatusMatchesConnection ==
    /\ HasPeer => \/ session_active
                  \/ pc["worker"] \in {"peer_connected", "client_connected"}
    /\ session_active =>
         /\ transport_state = "connected"
         /\ pc["worker"] \notin {"none", "done", "host_loop", "accept",
                                 "accept_wait", "accept_failed"}

\* No connection is lost: every open one is the one in transport.socket_, so
\* a disconnect() can still close it, whatever both threads did to the field.
ConnectionsAreHeld ==
    \A h \in Handles : handle[h] = "connection" => transport["socket_"] = h

\* stop() never joins a worker that is blocked in accept, send or recv on a
\* socket that nobody is going to close any more.
JoinedWorkerIsNotBlocked ==
    pc["api"] = "join" =>
        /\ pc["worker"] = "accept_wait" =>
             ~IsListening(transport["listen_socket_"])
        /\ pc["worker"] \in {"send_frame", "receive"} =>
             ~IsConnection(transport["socket_"])

\* A worker that gave up without being told to stop left an error in the
\* status, which otherwise still says listening or connecting.
GivingUpIsReported ==
    pc["worker"] = "done" /\ ~stop_requested => last_error # "none"

\* Every call of start_host, start_client and stop returns.
CallsReturn == pc["api"] # "idle" ~> pc["api"] = "idle"

\* The phase of the lifecycle that the snapshot shows; a snapshot that mixes
\* two phases shows none.
Phase ==
    LET shows(m, state, active, capture) ==
          /\ mode = m /\ transport_state = state
          /\ session_active = active /\ capture_active = capture
    IN CASE shows("stopped", "offline", FALSE, FALSE) -> "stopped"
         [] shows("host", "listening", FALSE, FALSE) -> "host_starting"
         [] shows("host", "listening", FALSE, TRUE) -> "host_listening"
         [] shows("host", "connected", TRUE, TRUE) -> "host_serving"
         [] shows("client", "connecting", FALSE, FALSE) -> "client_connecting"
         [] shows("client", "connected", TRUE, FALSE) -> "client_serving"
         [] shows("client", "offline", FALSE, FALSE) -> "client_ended"
         [] OTHER -> "inconsistent"

Lifecycle == INSTANCE SessionLifecycle
               WITH phase <- Phase, stopping <- stop_requested

\* The status only ever moves as SessionLifecycle allows: no write of a worker
\* is seen after the stop that ended it, and no two critical sections show a
\* snapshot that mixes two phases.
KeepsLifecycle == Lifecycle!Safety

-----------------------------------------------------------------------------
(* What the documents say of the session, and the code does not do.         *)

\* engine/README.md gives the session module "session lifecycle and reconnect
\* logic": a host whose status says listening, and that nobody has stopped,
\* can be reached by a peer, before and after a session.
HostKeepsListening ==
    mode = "host" /\ transport_state = "listening" /\ capture_active
      /\ ~stop_requested => IsListening(transport["listen_socket_"])
=============================================================================
