------------------------ MODULE EngineSessionProofs ------------------------
(***************************************************************************)
(* Proofs about EngineSession, for any set of handles and any bounds.      *)
(*                                                                         *)
(* The properties of EngineSession are not inductive: they depend on where *)
(* the two threads are while both run disconnect().  IInv is the           *)
(* strengthening; its parts follow the argument:                           *)
(*   Control      a worker exists only between a start and the join of the *)
(*                next stop, and while a call is under way the stop flag   *)
(*                is set;                                                  *)
(*   StatusInv    the status is the one the worker last wrote;             *)
(*   SocketInv    socket_ is set only while the worker is in a session;    *)
(*   CloserInv    while the API thread is closing socket_, the worker is on *)
(*                its way out and cannot store another connection in it;   *)
(*   HandleInv    so an open connection is always the one in socket_;      *)
(*   PassedInv    once the API thread is past a field, nothing the worker  *)
(*                may block on is still open in it.                        *)
(* Reported adds why a worker is done: it was told to stop or said why.    *)
(* The invariant gives the phase at every place, so each step of the       *)
(* threads maps to a step of SessionLifecycle or to a stutter.             *)
(***************************************************************************)
EXTENDS EngineSession, SequenceTheorems, TLAPS

w == pc["worker"]
a == pc["api"]

HostRets   == {"listen_create", "listen_failed", "session_broken", "session",
               "packet_refused", "session_ended"}
ClientRets == {"dial", "client_ended"}

\* Where a worker inside disconnect() is going, else where it is.
Place == IF w \in DisconnectLabels THEN ret["worker"] ELSE w

StartingPlaces == {"listen", "listen_create", "listen_bind", "listen_failed",
                   "capture_init"}
ListeningPlaces == {"host_loop", "accept", "accept_wait", "accept_failed",
                    "peer_connected"}
ServingPlaces == {"session", "send_frame", "session_broken", "incoming",
                  "receive", "packet_refused", "session_ended"}
DialingPlaces == {"connect", "dial", "connect_failed", "client_connected"}
ClientPlaces  == {"client_loop", "client_ended"}

Control ==
    /\ w \in DisconnectLabels => ret["worker"] \in HostRets \cup ClientRets
    /\ a \in DisconnectLabels => ret["api"] = "join"
    /\ a # "idle" => stop_requested
    /\ a \in {"settle", "start"} => w = "none"
    /\ a = "start" => mode = "stopped"
    /\ mode = "stopped" => w = "none"
    /\ w = "none" => mode = "stopped" \/ a = "settle"

StatusInv ==
    /\ mode = "stopped" =>
         transport_state = "offline" /\ ~session_active /\ ~capture_active
    /\ Place \in StartingPlaces =>
         /\ mode = "host" /\ transport_state = "listening"
         /\ ~session_active /\ ~capture_active
    /\ Place \in ListeningPlaces =>
         /\ mode = "host" /\ transport_state = "listening"
         /\ ~session_active /\ capture_active
    /\ Place \in ServingPlaces =>
         /\ mode = "host" /\ transport_state = "connected"
         /\ session_active /\ capture_active
    /\ Place \in DialingPlaces =>
         /\ mode = "client" /\ transport_state = "connecting"
         /\ ~session_active /\ ~capture_active
    /\ Place \in ClientPlaces =>
         /\ mode = "client" /\ transport_state = "connected"
         /\ session_active /\ ~capture_active
    /\ Place \in {"none", "done"} => ~session_active

\* Where the worker has a connection, unless the API thread took it away.
HoldingPlaces == {"peer_connected", "session", "send_frame", "incoming",
                  "receive", "client_connected", "client_loop"}
\* Where it may get rid of one.
EndingRets == {"session_broken", "session", "packet_refused", "session_ended",
               "client_ended"}

Holding == \/ w \in HoldingPlaces
           \/ /\ w \in DisconnectLabels /\ slot["worker"] = "socket_"
              /\ ret["worker"] \in EndingRets

SocketInv == transport["socket_"] # INVALID_SOCKET => Holding

\* Places a worker that has been told to stop can still reach from a session.
LeavingPlaces == HoldingPlaces \cup EndingRets \cup {"host_loop", "done"}

NoConnection == \A h \in Handles : handle[h] # "connection"

CloserInv ==
    /\ a \in {"disc_close", "disc_clear"} /\ slot["api"] = "socket_" =>
         Place \in LeavingPlaces
    /\ w \in {"disc_close", "disc_clear"} /\ slot["worker"] = "socket_" =>
         ret["worker"] \in EndingRets
    /\ \A t \in Threads : slot[t] = "socket_" =>
         /\ pc[t] = "disc_close" =>
              transport["socket_"] \in {loaded[t], INVALID_SOCKET}
         /\ pc[t] = "disc_clear" => NoConnection

HandleInv == ConnectionsAreHeld

Past == a = "join" \/ (a \in DisconnectLabels /\ slot["api"] = "listen_socket_")

Accepting == {"accept", "accept_wait"}

PassedInv ==
    /\ Past /\ w \in {"send_frame", "incoming", "receive"} =>
         transport["socket_"] = INVALID_SOCKET
    /\ w \in Accepting =>
         /\ a = "disc_close" /\ slot["api"] = "listen_socket_" =>
              loaded["api"] = transport["listen_socket_"]
         /\ a = "disc_clear" /\ slot["api"] = "listen_socket_" =>
              ~IsListening(transport["listen_socket_"])
         /\ a = "join" => ~IsListening(transport["listen_socket_"])

IInv == /\ TypeOK /\ Control /\ StatusInv /\ SocketInv /\ CloserInv
        /\ HandleInv /\ PassedInv

-----------------------------------------------------------------------------
(* Facts about the helpers. *)

\* GoTo moves one thread and leaves the other where it is.
LEMMA GoToFacts ==
    ASSUME ThreadType, NEW t \in Threads,
        NEW label \in WorkerLabels \cup ApiLabels,
           GoTo(t, label)
    PROVE  /\ pc' \in [Threads -> ApiLabels \cup WorkerLabels]
           /\ pc'[t] = label
           /\ \A u \in Threads : u # t => pc'[u] = pc[u]
  BY DEF ThreadType, GoTo

\* Entering disconnect() touches only the control state of the caller.
LEMMA CallDisconnectFacts ==
    ASSUME ThreadType, NEW t \in Threads,
        NEW label \in WorkerLabels \cup ApiLabels,
           CallDisconnect(t, label)
    PROVE  /\ pc' \in [Threads -> ApiLabels \cup WorkerLabels]
           /\ ret' \in [Threads -> ApiLabels \cup WorkerLabels]
           /\ slot' \in [Threads -> Slots]
           /\ pc'[t] = "disc_load" /\ ret'[t] = label /\ slot'[t] = "socket_"
           /\ \A u \in Threads : u # t =>
                pc'[u] = pc[u] /\ ret'[u] = ret[u] /\ slot'[u] = slot[u]
           /\ loaded' = loaded
  <1>1. "disc_load" \in WorkerLabels
    BY DEF WorkerLabels, DisconnectLabels
  <1>2. "socket_" \in Slots
    BY DEF Slots
  <1>3. QED
    BY <1>1, <1>2 DEF ThreadType, CallDisconnect, GoTo

\* After closesocket(h) the handle is closed and no other has changed.
LEMMA CloseHandleFacts ==
    ASSUME NetworkType, NEW h, CloseHandle(h)
    PROVE  /\ NetworkType'
           /\ \A x \in Handles : handle'[x] = IF x = h THEN "closed" ELSE handle[x]
  <1>1. <<>> \in Seq(Packets)
    OBVIOUS
  <1>2. inbox' = <<>> \/ inbox' = inbox
    BY DEF CloseHandle
  <1>3. inbox' \in Seq(Packets)
    BY <1>1, <1>2 DEF NetworkType
  <1>4. /\ handle' \in [Handles ->
                {"closed", "created", "listening", "connection"}]
        /\ backlog' \in [Handles -> Nat]
        /\ peer' \in {"none", "reading", "stalled", "gone"}
    BY DEF CloseHandle, NetworkType
  <1>5. QED
    BY <1>3, <1>4 DEF NetworkType, CloseHandle

\* Leaving a field of disconnect(): to the second field, or back.
LEMMA LeaveSlotFacts ==
    ASSUME ThreadType, NEW t \in Threads, LeaveSlot(t)
    PROVE  /\ pc' \in [Threads -> ApiLabels \cup WorkerLabels]
           /\ slot' \in [Threads -> Slots]
           /\ slot[t] = "socket_" =>
                pc'[t] = "disc_load" /\ slot'[t] = "listen_socket_"
           /\ slot[t] = "listen_socket_" =>
                pc'[t] = ret[t] /\ slot'[t] = "socket_"
           /\ \A u \in Threads : u # t => pc'[u] = pc[u] /\ slot'[u] = slot[u]
  <1>1. "disc_load" \in ApiLabels \cup WorkerLabels
    BY DEF ApiLabels, DisconnectLabels
  <1>2. CASE slot[t] = "socket_"
    BY <1>1, <1>2 DEF ThreadType, LeaveSlot, GoTo, Slots
  <1>3. CASE slot[t] = "listen_socket_"
    BY <1>3 DEF ThreadType, LeaveSlot, GoTo, Slots
  <1>4. QED
    BY <1>2, <1>3 DEF ThreadType, Slots

-----------------------------------------------------------------------------
(* Type correctness. *)

LEMMA InitType == Init => TypeOK
  <1>1. SUFFICES ASSUME Init PROVE TypeOK
    OBVIOUS
  <1>2. pc \in [Threads -> ApiLabels \cup WorkerLabels]
    BY <1>1 DEF Init, Threads, ApiLabels, WorkerLabels
  <1>3. pc["api"] \in ApiLabels /\ pc["worker"] \in WorkerLabels
    BY <1>1 DEF Init, Threads, ApiLabels, WorkerLabels
  <1>4. ret \in [Threads -> ApiLabels \cup WorkerLabels]
    BY <1>1 DEF Init, WorkerLabels
  <1>5. slot \in [Threads -> Slots] /\ loaded \in [Threads -> Handles \cup {INVALID_SOCKET}]
    BY <1>1 DEF Init, Slots
  <1>6. SnapshotType
    BY <1>1 DEF Init, SnapshotType
  <1>7. <<>> \in Seq(Packets)
    OBVIOUS
  <1>8. NetworkType
    BY <1>1, <1>7 DEF Init, NetworkType
  <1>9. transport \in [Slots -> Handles \cup {INVALID_SOCKET}]
    BY <1>1 DEF Init
  <1>10. QED
    BY <1>1, <1>2, <1>3, <1>4, <1>5, <1>6, <1>8, <1>9
       DEF Init, TypeOK, ThreadType, Calls

\* What an action leaves alone keeps its type.
LEMMA UnchangedTypes ==
    /\ SnapshotType /\ UNCHANGED snapshot => SnapshotType'
    /\ ThreadType /\ UNCHANGED threads => ThreadType'
    /\ NetworkType /\ UNCHANGED network => NetworkType'
    /\ \A e \in {"startup", "session"} :
         SnapshotType /\ ApplyError(e) => SnapshotType'
  <1>1. SnapshotType /\ UNCHANGED snapshot => SnapshotType'
    BY DEF SnapshotType, snapshot
  <1>2. ThreadType /\ UNCHANGED threads => ThreadType'
    BY DEF ThreadType, threads
  <1>3. NetworkType /\ UNCHANGED network => NetworkType'
    BY DEF NetworkType, network
  <1>4. ASSUME NEW e \in {"startup", "session"}, SnapshotType, ApplyError(e)
        PROVE  SnapshotType'
    BY <1>4 DEF SnapshotType, ApplyError
  <1>5. QED
    BY <1>1, <1>2, <1>3, <1>4

\* GoTo and CallDisconnect keep the type of the control state when they send
\* the worker to one of its own labels.
LEMMA WorkerGoes ==
    ASSUME ThreadType, NEW label \in WorkerLabels
    PROVE  /\ GoTo("worker", label) /\ Stay => ThreadType'
           /\ CallDisconnect("worker", label) => ThreadType'
  <1>1. "worker" \in Threads /\ "api" \in Threads /\ "api" # "worker"
    BY DEF Threads
  <1>2. ASSUME GoTo("worker", label), Stay PROVE ThreadType'
    BY <1>1, <1>2, GoToFacts DEF ThreadType, Stay
  <1>3. ASSUME CallDisconnect("worker", label) PROVE ThreadType'
    <2>1. "disc_load" \in WorkerLabels
      BY DEF WorkerLabels, DisconnectLabels
    <2>2. QED
      BY <1>1, <1>3, <2>1, CallDisconnectFacts DEF ThreadType
  <1>4. QED
    BY <1>2, <1>3

LEMMA DisconnectType ==
    ASSUME TypeOK, Control, NEW t \in Threads, Disconnect(t)
    PROVE  TypeOK'
  <1>1. ret["worker"] \in WorkerLabels \/ w \notin DisconnectLabels
    BY DEF Control, HostRets, ClientRets, WorkerLabels, HostLabels, ClientLabels
  <1>2. ret["api"] \in ApiLabels \/ a \notin DisconnectLabels
    BY DEF Control, ApiLabels
  <1>3. /\ pc["api"] \in ApiLabels /\ pc["worker"] \in WorkerLabels
        /\ ThreadType /\ NetworkType /\ SnapshotType
    BY DEF TypeOK, ThreadType
  <1>4. {"disc_load", "disc_close",
      "disc_clear"} \subseteq ApiLabels \cap WorkerLabels
    BY DEF ApiLabels, WorkerLabels, DisconnectLabels
  <1>5. ASSUME LeaveSlot(t), pc[t] \in DisconnectLabels
        PROVE  /\ pc' \in [Threads -> ApiLabels \cup WorkerLabels]
               /\ pc'["api"] \in ApiLabels /\ pc'["worker"] \in WorkerLabels
               /\ slot' \in [Threads -> Slots]
    <2>1. slot[t] \in {"socket_", "listen_socket_"}
      BY <1>3 DEF ThreadType, Slots
    <2>2. QED
      BY <1>1, <1>2, <1>3, <1>4, <1>5, <2>1, LeaveSlotFacts DEF Threads, w, a
  <1>6. CASE DisconnectLoad(t)
    <2>1. loaded' \in [Threads -> Handles \cup {INVALID_SOCKET}]
      BY <1>3, <1>6 DEF DisconnectLoad, TypeOK, ThreadType
    <2>2. CASE transport[slot[t]] = INVALID_SOCKET
      BY <1>3, <1>5, <1>6, <2>1, <2>2, UnchangedTypes
         DEF DisconnectLoad, TypeOK, ThreadType, DisconnectLabels, network
    <2>3. CASE transport[slot[t]] # INVALID_SOCKET
      <3>1. GoTo(t, "disc_close") /\ UNCHANGED <<slot, ret>>
        BY <1>6, <2>3 DEF DisconnectLoad
      <3>2. /\ pc' \in [Threads -> ApiLabels \cup WorkerLabels]
            /\ pc'["api"] \in ApiLabels /\ pc'["worker"] \in WorkerLabels
        BY <1>3, <1>4, <3>1, GoToFacts DEF Threads
      <3>3. QED
        BY <1>3, <1>6, <2>1, <3>1, <3>2, UnchangedTypes
           DEF DisconnectLoad, TypeOK, ThreadType
    <2>4. QED
      BY <2>2, <2>3
  <1>7. CASE DisconnectClose(t)
    <2>1. /\ pc' \in [Threads -> ApiLabels \cup WorkerLabels]
          /\ pc'["api"] \in ApiLabels /\ pc'["worker"] \in WorkerLabels
      BY <1>3, <1>4, <1>7, GoToFacts DEF Threads, DisconnectClose
    <2>2. NetworkType'
      BY <1>3, <1>7, CloseHandleFacts DEF DisconnectClose
    <2>3. QED
      BY <1>3, <1>7, <2>1, <2>2, UnchangedTypes
         DEF DisconnectClose, Stay, TypeOK, ThreadType
  <1>8. CASE DisconnectClear(t)
    <2>1. LeaveSlot(t) /\ UNCHANGED <<snapshot, network, ret, loaded, call,
                                      stop_requested>>
      BY <1>8 DEF DisconnectClear
    <2>2. transport' \in [Slots -> Handles \cup {INVALID_SOCKET}]
      BY <1>8 DEF DisconnectClear, TypeOK
    <2>3. QED
      BY <1>3, <1>5, <1>8, <2>1, <2>2, UnchangedTypes
         DEF DisconnectClear, TypeOK, ThreadType, DisconnectLabels
  <1>9. QED
    BY <1>6, <1>7, <1>8 DEF Disconnect

LEMMA ApiType == ASSUME TypeOK, Control, ApiStep PROVE TypeOK'
  <1>1. SnapshotType /\ ThreadType /\ NetworkType
    BY DEF TypeOK
  <1>2. CASE Disconnect("api")
    BY <1>2, DisconnectType DEF Threads
  <1>3. CASE Join
    <2>1. ThreadType'
      BY <1>1, <1>3 DEF Join, Stay, ThreadType, Threads, ApiLabels, WorkerLabels
    <2>2. QED
      BY <1>1, <1>3, <2>1, UnchangedTypes DEF Join, TypeOK
  <1>4. CASE Settle
    <2>1. ThreadType'
      <3>1. CASE call = "stop"
        BY <1>1, <1>4, <3>1 DEF Settle, GoTo, Stay, ThreadType, Threads,
           ApiLabels
      <3>2. CASE call # "stop"
        BY <1>1, <1>4, <3>2 DEF Settle, GoTo, Stay, ThreadType, Threads,
           ApiLabels
      <3>3. QED
        BY <3>1, <3>2
    <2>2. SnapshotType'
      BY <1>1, <1>4 DEF Settle, SnapshotType
    <2>3. QED
      BY <1>1, <1>4, <2>1, <2>2, UnchangedTypes DEF Settle, TypeOK
  <1>5. CASE StartHost
    <2>1. ThreadType'
      BY <1>1, <1>5
         DEF StartHost, Stay, ThreadType, Threads, ApiLabels, WorkerLabels,
             HostLabels
    <2>2. SnapshotType'
      BY <1>1, <1>5 DEF StartHost, SnapshotType
    <2>3. QED
      BY <1>1, <1>5, <2>1, <2>2, UnchangedTypes DEF StartHost, TypeOK
  <1>6. CASE StartClient
    <2>1. ThreadType'
      BY <1>1, <1>6
         DEF StartClient, Stay, ThreadType, Threads, ApiLabels, WorkerLabels,
             ClientLabels
    <2>2. SnapshotType'
      BY <1>1, <1>6 DEF StartClient, SnapshotType
    <2>3. QED
      BY <1>1, <1>6, <2>1, <2>2, UnchangedTypes DEF StartClient, TypeOK
  <1>7. QED
    BY <1>2, <1>3, <1>4, <1>5, <1>6 DEF ApiStep

\* Every label of a worker's loop is a label; so is INVALID_SOCKET a value of
\* the transport.
LEMMA HostLabelFacts ==
    HostLabels \cup ClientLabels \cup {"none", "done"} \subseteq WorkerLabels
  BY DEF WorkerLabels

LEMMA HostType == ASSUME TypeOK, HostStep PROVE TypeOK'
  <1>1. SnapshotType /\ ThreadType /\ NetworkType
    BY DEF TypeOK
  <1>2. CASE Listen
    BY <1>1, <1>2, WorkerGoes, UnchangedTypes, HostLabelFacts
       DEF Listen, TypeOK, HostLabels
  <1>3. CASE ListenFailed
    BY <1>1, <1>3, WorkerGoes, UnchangedTypes, HostLabelFacts
       DEF ListenFailed, FailAndReturn, TypeOK
  <1>4. CASE CaptureInitFails
    BY <1>1, <1>4, WorkerGoes, UnchangedTypes, HostLabelFacts
       DEF CaptureInitFails, FailAndReturn, TypeOK
  <1>5. CASE HostLoop
    BY <1>1, <1>5, WorkerGoes, UnchangedTypes, HostLabelFacts
       DEF HostLoop, TypeOK, HostLabels
  <1>6. CASE LeaveSession
    BY <1>1, <1>6, WorkerGoes, UnchangedTypes, HostLabelFacts
       DEF LeaveSession, TypeOK, HostLabels
  <1>7. CASE CaptureFails
    BY <1>1, <1>7, WorkerGoes, UnchangedTypes, HostLabelFacts
       DEF CaptureFails, TypeOK
  <1>8. CASE CaptureFrame
    BY <1>1, <1>8, WorkerGoes, UnchangedTypes, HostLabelFacts
       DEF CaptureFrame, TypeOK, HostLabels
  <1>9. CASE SendFrame
    BY <1>1, <1>9, WorkerGoes, UnchangedTypes, HostLabelFacts
       DEF SendFrame, TypeOK, HostLabels
  <1>10. CASE SendFrameFails
    BY <1>1, <1>10, WorkerGoes, UnchangedTypes, HostLabelFacts
       DEF SendFrameFails, TypeOK, HostLabels
  <1>11. CASE SessionBroken
    BY <1>1, <1>11, WorkerGoes, UnchangedTypes, HostLabelFacts
       DEF SessionBroken, TypeOK, HostLabels
  <1>12. CASE AcceptFailed
    BY <1>1, <1>12, WorkerGoes, UnchangedTypes, HostLabelFacts
       DEF AcceptFailed, TypeOK, HostLabels
  <1>13. CASE CaptureInit
    <2>1. SnapshotType'
      BY <1>1, <1>13 DEF CaptureInit, SnapshotType
    <2>2. QED
      BY <1>1, <1>13, <2>1, WorkerGoes, UnchangedTypes, HostLabelFacts
         DEF CaptureInit, TypeOK, HostLabels
  <1>14. CASE PeerConnected
    <2>1. SnapshotType'
      BY <1>1, <1>14 DEF PeerConnected, SnapshotType
    <2>2. QED
      BY <1>1, <1>14, <2>1, WorkerGoes, UnchangedTypes, HostLabelFacts
         DEF PeerConnected, TypeOK, HostLabels
  <1>15. CASE SessionEnded
    <2>1. SnapshotType'
      BY <1>1, <1>15 DEF SessionEnded, SnapshotType
    <2>2. QED
      BY <1>1, <1>15, <2>1, WorkerGoes, UnchangedTypes, HostLabelFacts
         DEF SessionEnded, TypeOK, HostLabels
  <1>16. CASE ListenCreate
    <2>1. ThreadType'
      BY <1>1, <1>16, WorkerGoes, HostLabelFacts DEF ListenCreate, HostLabels
    <2>2. NetworkType' /\ transport' \in [Slots -> Handles \cup {INVALID_SOCKET}]
      BY <1>1, <1>16 DEF ListenCreate, TypeOK, NetworkType, FreeHandles
    <2>3. QED
      BY <1>1, <1>16, <2>1, <2>2, UnchangedTypes DEF ListenCreate, TypeOK
  <1>17. CASE ListenBind
    <2>1. ThreadType'
      BY <1>1, <1>17, WorkerGoes, HostLabelFacts DEF ListenBind, HostLabels
    <2>2. NetworkType'
      BY <1>1, <1>17 DEF ListenBind, NetworkType
    <2>3. QED
      BY <1>1, <1>17, <2>1, <2>2, UnchangedTypes DEF ListenBind, TypeOK
  <1>18. CASE Accept
    <2>1. ThreadType'
      BY <1>1, <1>18, WorkerGoes, HostLabelFacts DEF Accept, HostLabels
    <2>2. NetworkType' /\ transport' \in [Slots -> Handles \cup {INVALID_SOCKET}]
      BY <1>1, <1>18, CloseHandleFacts, UnchangedTypes DEF Accept, TypeOK
    <2>3. QED
      BY <1>1, <1>18, <2>1, <2>2, UnchangedTypes DEF Accept, TypeOK
  <1>19. CASE AcceptPeer
    <2>1. ThreadType'
      BY <1>1, <1>19, WorkerGoes, HostLabelFacts DEF AcceptPeer, HostLabels
    <2>2. transport' \in [Slots -> Handles \cup {INVALID_SOCKET}]
      BY <1>1, <1>19 DEF AcceptPeer, TypeOK, FreeHandles
    <2>3. <<>> \in Seq(Packets)
      OBVIOUS
    <2>4. NetworkType'
      BY <1>1, <1>19, <2>3 DEF AcceptPeer, NetworkType, FreeHandles, IsListening
    <2>5. QED
      BY <1>1, <1>19, <2>1, <2>2, <2>4, UnchangedTypes DEF AcceptPeer, TypeOK
  <1>20. CASE AcceptError
    <2>1. ThreadType'
      BY <1>1, <1>20, WorkerGoes, HostLabelFacts DEF AcceptError, HostLabels
    <2>2. NetworkType'
      BY <1>1, <1>20 DEF AcceptError, NetworkType, IsListening
    <2>3. QED
      BY <1>1, <1>20, <2>1, <2>2, UnchangedTypes DEF AcceptError, TypeOK
  <1>21. QED
    BY <1>2, <1>3, <1>4, <1>5, <1>6, <1>7, <1>8, <1>9, <1>10, <1>11, <1>12,
       <1>13, <1>14, <1>15, <1>16, <1>17, <1>18, <1>19, <1>20
       DEF HostStep

\* Taking the head off the inbox leaves a sequence of packets.
LEMMA InboxTail ==
    ASSUME NetworkType, inbox # <<>>, inbox' = Tail(inbox),
           UNCHANGED <<handle, backlog, peer>>
    PROVE  NetworkType'
  <1>1. Tail(inbox) \in Seq(Packets)
    BY DEF NetworkType
  <1>2. QED
    BY <1>1 DEF NetworkType

LEMMA IncomingType == ASSUME TypeOK, IncomingStep PROVE TypeOK'
  <1>1. SnapshotType /\ ThreadType /\ NetworkType
    BY DEF TypeOK
  <1>2. CASE PollIncoming
    BY <1>1, <1>2, WorkerGoes, UnchangedTypes, HostLabelFacts
       DEF PollIncoming, TypeOK, HostLabels
  <1>3. CASE ReceiveFails
    BY <1>1, <1>3, WorkerGoes, UnchangedTypes, HostLabelFacts
       DEF ReceiveFails, TypeOK, HostLabels
  <1>4. CASE ReceiveMalformed
    BY <1>1, <1>4, WorkerGoes, UnchangedTypes, HostLabelFacts, InboxTail
       DEF ReceiveMalformed, Arrived, TypeOK, HostLabels
  <1>5. CASE ReceiveMessage
    BY <1>1, <1>5, WorkerGoes, UnchangedTypes, HostLabelFacts, InboxTail
       DEF ReceiveMessage, Arrived, TypeOK, HostLabels
  <1>6. CASE ReceiveDisconnect
    BY <1>1, <1>6, WorkerGoes, UnchangedTypes, HostLabelFacts, InboxTail
       DEF ReceiveDisconnect, Arrived, TypeOK, HostLabels
  <1>7. CASE PacketRefused
    BY <1>1, <1>7, WorkerGoes, UnchangedTypes, HostLabelFacts
       DEF PacketRefused, TypeOK, HostLabels
  <1>8. QED
    BY <1>2, <1>3, <1>4, <1>5, <1>6, <1>7 DEF IncomingStep

LEMMA ClientType == ASSUME TypeOK, ClientStep PROVE TypeOK'
  <1>1. SnapshotType /\ ThreadType /\ NetworkType
    BY DEF TypeOK
  <1>2. CASE Connect
    BY <1>1, <1>2, WorkerGoes, UnchangedTypes, HostLabelFacts
       DEF Connect, TypeOK, ClientLabels
  <1>3. CASE Dial
    <2>1. ThreadType'
      BY <1>1, <1>3, WorkerGoes, HostLabelFacts DEF Dial, ClientLabels
    <2>2. transport' \in [Slots -> Handles \cup {INVALID_SOCKET}]
      BY <1>1, <1>3 DEF Dial, TypeOK, FreeHandles
    <2>3. <<>> \in Seq(Packets)
      OBVIOUS
    <2>4. NetworkType'
      BY <1>1, <1>3, <2>3 DEF Dial, NetworkType, FreeHandles
    <2>5. QED
      BY <1>1, <1>3, <2>1, <2>2, <2>4, UnchangedTypes DEF Dial, TypeOK
  <1>4. CASE ConnectFailed
    BY <1>1, <1>4, WorkerGoes, UnchangedTypes, HostLabelFacts
       DEF ConnectFailed, FailAndReturn, TypeOK
  <1>5. CASE ClientConnected
    <2>1. SnapshotType'
      BY <1>1, <1>5 DEF ClientConnected, SnapshotType
    <2>2. QED
      BY <1>1, <1>5, <2>1, WorkerGoes, UnchangedTypes, HostLabelFacts
         DEF ClientConnected, TypeOK, ClientLabels
  <1>6. CASE LeaveClientLoop
    BY <1>1, <1>6, WorkerGoes, UnchangedTypes, HostLabelFacts
       DEF LeaveClientLoop, TypeOK, ClientLabels
  <1>7. CASE ClientEnded
    <2>1. SnapshotType'
      BY <1>1, <1>7 DEF ClientEnded, SnapshotType
    <2>2. QED
      BY <1>1, <1>7, <2>1, WorkerGoes, UnchangedTypes, HostLabelFacts
         DEF ClientEnded, TypeOK
  <1>8. QED
    BY <1>2, <1>3, <1>4, <1>5, <1>6, <1>7 DEF ClientStep

LEMMA PeerType == ASSUME TypeOK, PeerStep PROVE TypeOK'
  <1>1. SnapshotType /\ ThreadType /\ NetworkType
    BY DEF TypeOK
  <1>2. CASE PeerArrives
    <2>1. NetworkType'
      BY <1>1, <1>2 DEF PeerArrives, NetworkType
    <2>2. QED
      BY <1>1, <1>2, <2>1, UnchangedTypes DEF PeerArrives, TypeOK
  <1>3. CASE PeerSends
    <2>1. PICK p \in Packets : inbox' = Append(inbox, p)
      BY <1>3 DEF PeerSends
    <2>2. Append(inbox, p) \in Seq(Packets)
      BY <1>1 DEF NetworkType
    <2>3. NetworkType'
      BY <1>1, <1>3, <2>1, <2>2 DEF PeerSends, NetworkType
    <2>4. QED
      BY <1>1, <1>3, <2>3, UnchangedTypes DEF PeerSends, TypeOK
  <1>4. CASE PeerCompletesPacket
    <2>1. PICK p \in Packets : inbox' = [inbox EXCEPT ![Len(inbox)] = p]
      BY <1>4 DEF PeerCompletesPacket
    <2>2. [inbox EXCEPT ![Len(inbox)] = p] \in Seq(Packets)
      <3>1. inbox \in Seq(Packets) /\ inbox # <<>>
        BY <1>1, <1>4 DEF NetworkType, PeerCompletesPacket
      <3>2. Len(inbox) \in 1 .. Len(inbox)
        BY <3>1
      <3>3. QED
        BY <3>1, <3>2, ExceptSeq
    <2>3. NetworkType'
      BY <1>1, <1>4, <2>1, <2>2 DEF PeerCompletesPacket, NetworkType
    <2>4. QED
      BY <1>1, <1>4, <2>3, UnchangedTypes DEF PeerCompletesPacket, TypeOK
  <1>5. CASE PeerChanges
    <2>1. NetworkType'
      BY <1>1, <1>5 DEF PeerChanges, NetworkType
    <2>2. QED
      BY <1>1, <1>5, <2>1, UnchangedTypes DEF PeerChanges, TypeOK
  <1>6. QED
    BY <1>2, <1>3, <1>4, <1>5 DEF PeerStep
-----------------------------------------------------------------------------
(* The inductive step. *)

\* The fields of the status that IInv speaks of, and the parts of IInv beside
\* the type invariant.
StatusFields == <<mode, transport_state, session_active, capture_active>>

Parts == Control /\ StatusInv /\ SocketInv /\ CloserInv /\ HandleInv /\ PassedInv

\* What a label a thread goes to means for the two program counters.
LEMMA WorkerAt ==
    ASSUME ThreadType, NEW label \in WorkerLabels
    PROVE  /\ GoTo("worker", label) =>
                pc'["worker"] = label /\ pc'["api"] = pc["api"]
           /\ CallDisconnect("worker", label) =>
                /\ pc'["worker"] = "disc_load" /\ pc'["api"] = pc["api"]
                /\ ret'["worker"] = label /\ ret'["api"] = ret["api"]
                /\ slot'["worker"] = "socket_" /\ slot'["api"] = slot["api"]
                /\ loaded' = loaded
  BY GoToFacts, CallDisconnectFacts DEF Threads

\* The parts say nothing of the inbox, the backlog or the error code, so a
\* step that changes only these keeps them.
LEMMA UnchangedParts ==
    ASSUME Parts,
           UNCHANGED <<mode, transport_state, session_active, capture_active,
                       stop_requested, transport, threads, handle>>
    PROVE  Parts'
  <1>1. UNCHANGED <<pc, ret, slot, loaded>>
    BY DEF threads
  <1>2. Control' /\ StatusInv'
    BY <1>1 DEF Parts, Control, StatusInv, Place, w, a
  <1>3. SocketInv' /\ PassedInv'
    BY <1>1 DEF Parts, SocketInv, PassedInv, Holding, Past, IsListening, w, a
  <1>4. CloserInv' /\ HandleInv'
    BY <1>1 DEF Parts, CloserInv, HandleInv, ConnectionsAreHeld, NoConnection,
       Place, w, a
  <1>5. QED
    BY <1>2, <1>3, <1>4 DEF Parts

\* The names of the places and of the regions, and the predicates that only
\* name a relation between them, are abbreviations.
USE DEF w, a, Place, StartingPlaces, ListeningPlaces, ServingPlaces,
        DialingPlaces, ClientPlaces, HoldingPlaces, EndingRets, LeavingPlaces,
        Accepting, HostRets, ClientRets, DisconnectLabels,
        Holding, Past, NoConnection, ConnectionsAreHeld, IsListening,
        Threads, Slots

\* The steps of run_host_loop.
LEMMA HostParts == ASSUME IInv, HostStep PROVE Parts'
  <1>1. ThreadType /\ NetworkType
    BY DEF IInv, TypeOK
  <1>2. CASE Listen
    <2>1. /\ pc["worker"] = "listen" /\ pc'["api"] = pc["api"]
          /\ \/ pc'["worker"] = "listen_failed" /\ UNCHANGED <<ret, slot>>
             \/ /\ pc'["worker"] = "disc_load" /\ ret'["worker"] = "listen_create"
                /\ ret'["api"] = ret["api"] /\ slot'["worker"] = "socket_"
                /\ slot'["api"] = slot["api"]
          /\ UNCHANGED <<StatusFields, stop_requested, transport, loaded,
                         handle>>
      BY <1>1, <1>2, WorkerAt, HostLabelFacts
         DEF Listen, Stay, snapshot, network, HostLabels, StatusFields
    <2>2. Control' /\ StatusInv'
      BY <2>1 DEF IInv, Control, StatusInv, StatusFields
    <2>3. SocketInv' /\ PassedInv'
      BY <2>1 DEF IInv, Control, SocketInv, PassedInv
    <2>4. CloserInv' /\ HandleInv'
      BY <2>1 DEF IInv, Control, SocketInv, CloserInv, HandleInv
    <2>5. QED
      BY <2>2, <2>3, <2>4 DEF Parts
  <1>3. CASE ListenCreate
    <2>1. /\ pc["worker"] = "listen_create" /\ pc'["api"] = pc["api"]
          /\ pc'["worker"] \in {"listen_bind", "listen_failed"}
          /\ transport'["socket_"] = transport["socket_"]
          /\ \A x \in Handles : handle'[x] = "connection" => handle[x] = "connection"
          /\ UNCHANGED <<StatusFields, stop_requested, ret, slot, loaded>>
      BY <1>1, <1>3, WorkerAt, HostLabelFacts
         DEF ListenCreate, Stay, snapshot, network, HostLabels,
             FreeHandles, NetworkType, IInv, TypeOK, Slots, StatusFields
    <2>2. Control' /\ StatusInv'
      BY <2>1 DEF IInv, Control, StatusInv, StatusFields
    <2>3. SocketInv' /\ PassedInv'
      BY <2>1 DEF IInv, Control, SocketInv, PassedInv
    <2>4. CloserInv' /\ HandleInv'
      BY <2>1 DEF IInv, Control, SocketInv, CloserInv, HandleInv
    <2>5. QED
      BY <2>2, <2>3, <2>4 DEF Parts
  <1>4. CASE ListenBind
    <2>1. /\ pc["worker"] = "listen_bind" /\ pc'["api"] = pc["api"]
          /\ \/ pc'["worker"] = "capture_init" /\ UNCHANGED <<ret, slot>>
             \/ /\ pc'["worker"] = "disc_load" /\ ret'["worker"] = "listen_failed"
                /\ ret'["api"] = ret["api"] /\ slot'["worker"] = "socket_"
                /\ slot'["api"] = slot["api"]
          /\ \A x \in Handles : handle'[x] = "connection" => handle[x] = "connection"
          /\ UNCHANGED <<StatusFields, stop_requested, transport, loaded>>
      BY <1>1, <1>4, WorkerAt, HostLabelFacts
         DEF ListenBind, Stay, snapshot, network, HostLabels, NetworkType,
             StatusFields
    <2>2. Control' /\ StatusInv'
      BY <2>1 DEF IInv, Control, StatusInv, StatusFields
    <2>3. SocketInv' /\ PassedInv'
      BY <2>1 DEF IInv, Control, SocketInv, PassedInv
    <2>4. CloserInv' /\ HandleInv'
      BY <2>1 DEF IInv, Control, SocketInv, CloserInv, HandleInv
    <2>5. QED
      BY <2>2, <2>3, <2>4 DEF Parts
  <1>5. CASE ListenFailed
    <2>1. /\ pc["worker"] = "listen_failed"
          /\ pc'["worker"] = "done" /\ pc'["api"] = pc["api"]
          /\ UNCHANGED <<StatusFields, stop_requested, transport, ret, slot,
                         loaded, handle>>
      BY <1>1, <1>5, WorkerAt, HostLabelFacts
         DEF ListenFailed, FailAndReturn, ApplyError, Stay, snapshot, network,
             HostLabels, StatusFields
    <2>2. Control' /\ StatusInv'
      BY <2>1 DEF IInv, Control, StatusInv, StatusFields
    <2>3. SocketInv' /\ PassedInv'
      BY <2>1 DEF IInv, Control, SocketInv, PassedInv
    <2>4. CloserInv' /\ HandleInv'
      BY <2>1 DEF IInv, Control, SocketInv, CloserInv, HandleInv
    <2>5. QED
      BY <2>2, <2>3, <2>4 DEF Parts
  <1>6. CASE CaptureInitFails
    <2>1. /\ pc["worker"] = "capture_init"
          /\ pc'["worker"] = "done" /\ pc'["api"] = pc["api"]
          /\ UNCHANGED <<StatusFields, stop_requested, transport, ret, slot,
                         loaded, handle>>
      BY <1>1, <1>6, WorkerAt, HostLabelFacts
         DEF CaptureInitFails, FailAndReturn, ApplyError, Stay, snapshot,
             network, HostLabels, StatusFields
    <2>2. Control' /\ StatusInv'
      BY <2>1 DEF IInv, Control, StatusInv, StatusFields
    <2>3. SocketInv' /\ PassedInv'
      BY <2>1 DEF IInv, Control, SocketInv, PassedInv
    <2>4. CloserInv' /\ HandleInv'
      BY <2>1 DEF IInv, Control, SocketInv, CloserInv, HandleInv
    <2>5. QED
      BY <2>2, <2>3, <2>4 DEF Parts
  <1>7. CASE CaptureInit
    <2>1. /\ pc["worker"] = "capture_init"
          /\ pc'["worker"] = "host_loop" /\ pc'["api"] = pc["api"]
          /\ capture_active' /\ ~session_active'
          /\ transport_state' = "listening"
          /\ UNCHANGED <<mode, stop_requested, transport, ret, slot, loaded,
                         handle>>
      BY <1>1, <1>7, WorkerAt, HostLabelFacts
         DEF CaptureInit, Stay, snapshot, network, HostLabels, StatusFields
    <2>2. Control' /\ StatusInv'
      BY <2>1 DEF IInv, Control, StatusInv, StatusFields
    <2>3. SocketInv' /\ PassedInv'
      BY <2>1 DEF IInv, Control, SocketInv, PassedInv
    <2>4. CloserInv' /\ HandleInv'
      BY <2>1 DEF IInv, Control, SocketInv, CloserInv, HandleInv
    <2>5. QED
      BY <2>2, <2>3, <2>4 DEF Parts
  <1>8. CASE HostLoop
    <2>1. /\ pc["worker"] = "host_loop"
          /\ pc'["worker"] = (IF stop_requested THEN "done" ELSE "accept")
          /\ pc'["api"] = pc["api"]
          /\ UNCHANGED <<StatusFields, stop_requested, transport, ret, slot,
                         loaded, handle>>
      BY <1>1, <1>8, WorkerAt, HostLabelFacts
         DEF HostLoop, Stay, snapshot, network, HostLabels, StatusFields
    <2>2. Control' /\ StatusInv'
      BY <2>1 DEF IInv, Control, StatusInv, StatusFields
    <2>3. SocketInv' /\ PassedInv'
      BY <2>1 DEF IInv, Control, SocketInv, PassedInv
    <2>4. CloserInv' /\ HandleInv'
      BY <2>1 DEF IInv, Control, SocketInv, CloserInv, HandleInv
    <2>5. QED
      BY <2>2, <2>3, <2>4 DEF Parts
  <1>9. CASE Accept
    <2>1. /\ pc["worker"] = "accept" /\ pc'["api"] = pc["api"]
          /\ pc'["worker"] \in {"accept_wait", "accept_failed"}
          /\ transport'["socket_"] = INVALID_SOCKET
          /\ transport'["listen_socket_"] = transport["listen_socket_"]
          /\ \A x \in Handles : handle'[x] = handle[x]
          /\ UNCHANGED <<StatusFields, stop_requested, ret, slot, loaded>>
      <3>1. transport["socket_"] = INVALID_SOCKET
        BY <1>9 DEF Accept, IInv, SocketInv, Holding, HoldingPlaces,
           DisconnectLabels, w
      <3>2. "accept_wait" \in WorkerLabels /\ "accept_failed" \in WorkerLabels
        BY HostLabelFacts DEF HostLabels
      <3>3. CASE transport["listen_socket_"] = INVALID_SOCKET
        BY <1>1, <1>9, <3>1, <3>2, <3>3, WorkerAt
           DEF Accept, Stay, snapshot, network, StatusFields
      <3>4. CASE transport["listen_socket_"] # INVALID_SOCKET
        <4>1. CloseHandle(INVALID_SOCKET)
          BY <1>9, <3>1, <3>4 DEF Accept
        <4>2. \A x \in Handles : handle'[x] = handle[x]
          BY <1>1, <4>1, CloseHandleFacts, HandlesAssumption
        <4>3. /\ transport'["socket_"] = INVALID_SOCKET
              /\ transport'["listen_socket_"] = transport["listen_socket_"]
          BY <1>9, <3>4 DEF Accept, IInv, TypeOK, Slots
        <4>4. QED
          BY <1>1, <1>9, <3>2, <3>4, <4>2, <4>3, WorkerAt
             DEF Accept, Stay, snapshot, StatusFields
      <3>5. QED
        BY <3>3, <3>4
    <2>2. Control' /\ StatusInv'
      BY <2>1 DEF IInv, Control, StatusInv, StatusFields
    <2>3. SocketInv' /\ PassedInv'
      BY <2>1 DEF IInv, Control, SocketInv, PassedInv
    <2>4. CloserInv' /\ HandleInv'
      BY <2>1 DEF IInv, Control, SocketInv, CloserInv, HandleInv
    <2>5. QED
      BY <2>2, <2>3, <2>4 DEF Parts
  <1>10. CASE AcceptPeer
    <2>1. /\ pc["worker"] = "accept_wait"
          /\ pc'["worker"] = "peer_connected" /\ pc'["api"] = pc["api"]
          /\ \E h \in Handles : /\ transport'["socket_"] = h
                               /\ \A x \in Handles \ {h} : handle'[x] = handle[x]
          /\ UNCHANGED <<StatusFields, stop_requested, ret, slot, loaded>>
      BY <1>1, <1>10, WorkerAt, HostLabelFacts
         DEF AcceptPeer, Stay, snapshot, network, HostLabels, IInv, TypeOK,
             NetworkType, FreeHandles, Slots, StatusFields
    <2>2. Control' /\ StatusInv'
      BY <2>1, HandlesAssumption DEF IInv, Control, StatusInv, StatusFields
    <2>3. SocketInv' /\ PassedInv'
      BY <2>1, HandlesAssumption DEF IInv, Control, SocketInv, PassedInv
    <2>4. CloserInv' /\ HandleInv'
      BY <2>1, HandlesAssumption DEF IInv, Control, SocketInv, CloserInv,
         HandleInv
    <2>5. QED
      BY <2>2, <2>3, <2>4 DEF Parts
  <1>11. CASE AcceptError
    <2>1. /\ pc["worker"] = "accept_wait"
          /\ pc'["worker"] = "accept_failed" /\ pc'["api"] = pc["api"]
          /\ UNCHANGED <<StatusFields, stop_requested, transport, ret, slot,
                         loaded, handle>>
      BY <1>1, <1>11, WorkerAt, HostLabelFacts
         DEF AcceptError, Stay, snapshot, network, HostLabels, StatusFields
    <2>2. Control' /\ StatusInv'
      BY <2>1 DEF IInv, Control, StatusInv, StatusFields
    <2>3. SocketInv' /\ PassedInv'
      BY <2>1 DEF IInv, Control, SocketInv, PassedInv
    <2>4. CloserInv' /\ HandleInv'
      BY <2>1 DEF IInv, Control, SocketInv, CloserInv, HandleInv
    <2>5. QED
      BY <2>2, <2>3, <2>4 DEF Parts
  <1>12. CASE AcceptFailed
    <2>1. /\ pc["worker"] = "accept_failed"
          /\ pc'["worker"] = (IF stop_requested THEN "done" ELSE "host_loop") /\ pc'["api"] = pc["api"]
          /\ UNCHANGED <<StatusFields, stop_requested, transport, ret, slot,
                         loaded, handle>>
      BY <1>1, <1>12, WorkerAt, HostLabelFacts
         DEF AcceptFailed, ApplyError, Stay, snapshot, network, HostLabels,
             StatusFields
    <2>2. Control' /\ StatusInv'
      BY <2>1 DEF IInv, Control, StatusInv, StatusFields
    <2>3. SocketInv' /\ PassedInv'
      BY <2>1 DEF IInv, Control, SocketInv, PassedInv
    <2>4. CloserInv' /\ HandleInv'
      BY <2>1 DEF IInv, Control, SocketInv, CloserInv, HandleInv
    <2>5. QED
      BY <2>2, <2>3, <2>4 DEF Parts
  <1>13. CASE PeerConnected
    <2>1. /\ pc["worker"] = "peer_connected"
          /\ pc'["worker"] = "session" /\ pc'["api"] = pc["api"]
          /\ session_active' /\ transport_state' = "connected"
          /\ UNCHANGED <<mode, capture_active, stop_requested, transport, ret,
                         slot, loaded, handle>>
      BY <1>1, <1>13, WorkerAt, HostLabelFacts
         DEF PeerConnected, Stay, snapshot, network, HostLabels, StatusFields
    <2>2. Control' /\ StatusInv'
      BY <2>1 DEF IInv, Control, StatusInv, StatusFields
    <2>3. SocketInv' /\ PassedInv'
      BY <2>1 DEF IInv, Control, SocketInv, PassedInv
    <2>4. CloserInv' /\ HandleInv'
      BY <2>1 DEF IInv, Control, SocketInv, CloserInv, HandleInv
    <2>5. QED
      BY <2>2, <2>3, <2>4 DEF Parts
  <1>14. CASE CaptureFails
    BY <1>14, UnchangedParts DEF CaptureFails, IInv, Parts, ApplyError, network
  <1>15. CASE CaptureFrame
    <2>1. /\ pc["worker"] = "session"
          /\ ~stop_requested
          /\ pc'["worker"] = "send_frame" /\ pc'["api"] = pc["api"]
          /\ UNCHANGED <<StatusFields, stop_requested, transport, ret, slot,
                         loaded, handle>>
      BY <1>1, <1>15, WorkerAt, HostLabelFacts
         DEF CaptureFrame, InSession, Stay, snapshot, network, HostLabels,
             StatusFields
    <2>2. Control' /\ StatusInv'
      BY <2>1 DEF IInv, Control, StatusInv, StatusFields
    <2>3. SocketInv' /\ PassedInv'
      BY <2>1 DEF IInv, Control, SocketInv, PassedInv
    <2>4. CloserInv' /\ HandleInv'
      BY <2>1 DEF IInv, Control, SocketInv, CloserInv, HandleInv
    <2>5. QED
      BY <2>2, <2>3, <2>4 DEF Parts
  <1>16. CASE LeaveSession
    <2>1. /\ pc["worker"] = "session"
          /\ pc'["worker"] = "disc_load" /\ pc'["api"] = pc["api"]
          /\ ret'["worker"] = "session_ended" /\ ret'["api"] = ret["api"]
          /\ slot'["worker"] = "socket_" /\ slot'["api"] = slot["api"]
          /\ UNCHANGED <<StatusFields, stop_requested, transport, loaded,
                         handle>>
      BY <1>1, <1>16, WorkerAt, HostLabelFacts
         DEF LeaveSession, Stay, snapshot, network, HostLabels, StatusFields
    <2>2. Control' /\ StatusInv'
      BY <2>1 DEF IInv, Control, StatusInv, StatusFields
    <2>3. SocketInv' /\ PassedInv'
      BY <2>1 DEF IInv, Control, SocketInv, PassedInv
    <2>4. CloserInv' /\ HandleInv'
      BY <2>1 DEF IInv, Control, SocketInv, CloserInv, HandleInv
    <2>5. QED
      BY <2>2, <2>3, <2>4 DEF Parts
  <1>17. CASE SendFrame
    <2>1. /\ pc["worker"] = "send_frame"
          /\ IsConnection(transport["socket_"])
          /\ pc'["worker"] = "incoming" /\ pc'["api"] = pc["api"]
          /\ UNCHANGED <<StatusFields, stop_requested, transport, ret, slot,
                         loaded, handle>>
      BY <1>1, <1>17, WorkerAt, HostLabelFacts
         DEF SendFrame, Stay, snapshot, network, HostLabels, StatusFields
    <2>2. Control' /\ StatusInv'
      BY <2>1, HandlesAssumption DEF IInv, Control, StatusInv, StatusFields
    <2>3. SocketInv' /\ PassedInv'
      BY <2>1, HandlesAssumption DEF IInv, Control, SocketInv, PassedInv
    <2>4. CloserInv' /\ HandleInv'
      BY <2>1, HandlesAssumption DEF IInv, Control, SocketInv, CloserInv,
         HandleInv
    <2>5. QED
      BY <2>2, <2>3, <2>4 DEF Parts
  <1>18. CASE SendFrameFails
    <2>1. /\ pc["worker"] = "send_frame"
          /\ pc'["worker"] = "disc_load" /\ pc'["api"] = pc["api"]
          /\ ret'["worker"] = "session_broken" /\ ret'["api"] = ret["api"]
          /\ slot'["worker"] = "socket_" /\ slot'["api"] = slot["api"]
          /\ UNCHANGED <<StatusFields, stop_requested, transport, loaded,
                         handle>>
      BY <1>1, <1>18, WorkerAt, HostLabelFacts
         DEF SendFrameFails, ApplyError, Stay, snapshot, network, HostLabels,
             StatusFields
    <2>2. Control' /\ StatusInv'
      BY <2>1 DEF IInv, Control, StatusInv, StatusFields
    <2>3. SocketInv' /\ PassedInv'
      BY <2>1 DEF IInv, Control, SocketInv, PassedInv
    <2>4. CloserInv' /\ HandleInv'
      BY <2>1 DEF IInv, Control, SocketInv, CloserInv, HandleInv
    <2>5. QED
      BY <2>2, <2>3, <2>4 DEF Parts
  <1>19. CASE SessionBroken
    <2>1. /\ pc["worker"] = "session_broken"
          /\ pc'["worker"] = "disc_load" /\ pc'["api"] = pc["api"]
          /\ ret'["worker"] = "session_ended" /\ ret'["api"] = ret["api"]
          /\ slot'["worker"] = "socket_" /\ slot'["api"] = slot["api"]
          /\ UNCHANGED <<StatusFields, stop_requested, transport, loaded,
                         handle>>
      BY <1>1, <1>19, WorkerAt, HostLabelFacts
         DEF SessionBroken, Stay, snapshot, network, HostLabels, StatusFields
    <2>2. Control' /\ StatusInv'
      BY <2>1 DEF IInv, Control, StatusInv, StatusFields
    <2>3. SocketInv' /\ PassedInv'
      BY <2>1 DEF IInv, Control, SocketInv, PassedInv
    <2>4. CloserInv' /\ HandleInv'
      BY <2>1 DEF IInv, Control, SocketInv, CloserInv, HandleInv
    <2>5. QED
      BY <2>2, <2>3, <2>4 DEF Parts
  <1>20. CASE SessionEnded
    <2>1. /\ pc["worker"] = "session_ended"
          /\ pc'["worker"] = "host_loop" /\ pc'["api"] = pc["api"]
          /\ ~session_active' /\ transport_state' = "listening"
          /\ UNCHANGED <<mode, capture_active, stop_requested, transport, ret,
                         slot, loaded, handle>>
      BY <1>1, <1>20, WorkerAt, HostLabelFacts
         DEF SessionEnded, Stay, snapshot, network, HostLabels, StatusFields
    <2>2. Control' /\ StatusInv'
      BY <2>1 DEF IInv, Control, StatusInv, StatusFields
    <2>3. SocketInv' /\ PassedInv'
      BY <2>1 DEF IInv, Control, SocketInv, PassedInv
    <2>4. CloserInv' /\ HandleInv'
      BY <2>1 DEF IInv, Control, SocketInv, CloserInv, HandleInv
    <2>5. QED
      BY <2>2, <2>3, <2>4 DEF Parts
  <1>21. QED
    BY <1>2, <1>3, <1>4, <1>5, <1>6, <1>7, <1>8, <1>9, <1>10, <1>11, <1>12,
       <1>13, <1>14, <1>15, <1>16, <1>17, <1>18, <1>19, <1>20
       DEF HostStep

\* The steps of process_incoming_packets.
LEMMA IncomingParts == ASSUME IInv, IncomingStep PROVE Parts'
  <1>1. ThreadType /\ NetworkType
    BY DEF IInv, TypeOK
  <1>2. CASE PollIncoming
    <2>1. /\ pc["worker"] = "incoming" /\ pc'["api"] = pc["api"]
          /\ \/ pc'["worker"] = "receive" /\ ~stop_requested
             \/ pc'["worker"] = "session"
          /\ UNCHANGED <<StatusFields, stop_requested, transport, ret, slot,
                         loaded, handle>>
      BY <1>1, <1>2, WorkerAt, HostLabelFacts
         DEF PollIncoming, Stay, snapshot, network, HostLabels, InSession,
             StatusFields
    <2>2. Control' /\ StatusInv'
      BY <2>1 DEF IInv, Control, StatusInv, StatusFields
    <2>3. SocketInv' /\ PassedInv'
      BY <2>1 DEF IInv, Control, SocketInv, PassedInv
    <2>4. CloserInv' /\ HandleInv'
      BY <2>1 DEF IInv, Control, SocketInv, CloserInv, HandleInv
    <2>5. QED
      BY <2>2, <2>3, <2>4 DEF Parts
  <1>3. CASE ReceiveFails
    <2>1. /\ pc["worker"] = "receive"
          /\ pc'["worker"] = "disc_load" /\ pc'["api"] = pc["api"]
          /\ ret'["worker"] = "session" /\ ret'["api"] = ret["api"]
          /\ slot'["worker"] = "socket_" /\ slot'["api"] = slot["api"]
          /\ UNCHANGED <<StatusFields, stop_requested, transport, loaded,
                         handle>>
      BY <1>1, <1>3, WorkerAt, HostLabelFacts
         DEF ReceiveFails, ApplyError, Stay, snapshot, network, HostLabels,
             StatusFields
    <2>2. Control' /\ StatusInv'
      BY <2>1 DEF IInv, Control, StatusInv, StatusFields
    <2>3. SocketInv' /\ PassedInv'
      BY <2>1 DEF IInv, Control, SocketInv, PassedInv
    <2>4. CloserInv' /\ HandleInv'
      BY <2>1 DEF IInv, Control, SocketInv, CloserInv, HandleInv
    <2>5. QED
      BY <2>2, <2>3, <2>4 DEF Parts
  <1>4. CASE ReceiveMalformed
    <2>1. /\ pc["worker"] = "receive"
          /\ pc'["worker"] = "disc_load" /\ pc'["api"] = pc["api"]
          /\ ret'["worker"] = "session" /\ ret'["api"] = ret["api"]
          /\ slot'["worker"] = "socket_" /\ slot'["api"] = slot["api"]
          /\ UNCHANGED <<StatusFields, stop_requested, transport, loaded,
                         handle>>
      BY <1>1, <1>4, WorkerAt, HostLabelFacts
         DEF ReceiveMalformed, Arrived, ApplyError, Stay, snapshot, network,
             HostLabels, StatusFields
    <2>2. Control' /\ StatusInv'
      BY <2>1 DEF IInv, Control, StatusInv, StatusFields
    <2>3. SocketInv' /\ PassedInv'
      BY <2>1 DEF IInv, Control, SocketInv, PassedInv
    <2>4. CloserInv' /\ HandleInv'
      BY <2>1 DEF IInv, Control, SocketInv, CloserInv, HandleInv
    <2>5. QED
      BY <2>2, <2>3, <2>4 DEF Parts
  <1>5. CASE ReceiveMessage
    <2>1. /\ pc["worker"] = "receive" /\ pc'["api"] = pc["api"]
          /\ IsConnection(transport["socket_"])
          /\ \/ pc'["worker"] = "incoming" /\ UNCHANGED <<ret, slot>>
             \/ /\ pc'["worker"] = "disc_load" /\ ret'["worker"] = "session"
                /\ ret'["api"] = ret["api"] /\ slot'["worker"] = "socket_"
                /\ slot'["api"] = slot["api"]
          /\ UNCHANGED <<StatusFields, stop_requested, transport, loaded,
                         handle>>
      BY <1>1, <1>5, WorkerAt, HostLabelFacts
         DEF ReceiveMessage, Arrived, Stay, snapshot, network, HostLabels,
             StatusFields
    <2>2. Control' /\ StatusInv'
      BY <2>1, HandlesAssumption DEF IInv, Control, StatusInv, StatusFields
    <2>3. SocketInv' /\ PassedInv'
      BY <2>1, HandlesAssumption DEF IInv, Control, SocketInv, PassedInv
    <2>4. CloserInv' /\ HandleInv'
      BY <2>1, HandlesAssumption DEF IInv, Control, SocketInv, CloserInv,
         HandleInv
    <2>5. QED
      BY <2>2, <2>3, <2>4 DEF Parts
  <1>6. CASE ReceiveDisconnect
    <2>1. /\ pc["worker"] = "receive"
          /\ pc'["worker"] = "disc_load" /\ pc'["api"] = pc["api"]
          /\ ret'["worker"] = "packet_refused" /\ ret'["api"] = ret["api"]
          /\ slot'["worker"] = "socket_" /\ slot'["api"] = slot["api"]
          /\ UNCHANGED <<StatusFields, stop_requested, transport, loaded,
                         handle>>
      BY <1>1, <1>6, WorkerAt, HostLabelFacts
         DEF ReceiveDisconnect, Arrived, Stay, snapshot, network, HostLabels,
             StatusFields
    <2>2. Control' /\ StatusInv'
      BY <2>1 DEF IInv, Control, StatusInv, StatusFields
    <2>3. SocketInv' /\ PassedInv'
      BY <2>1 DEF IInv, Control, SocketInv, PassedInv
    <2>4. CloserInv' /\ HandleInv'
      BY <2>1 DEF IInv, Control, SocketInv, CloserInv, HandleInv
    <2>5. QED
      BY <2>2, <2>3, <2>4 DEF Parts
  <1>7. CASE PacketRefused
    <2>1. /\ pc["worker"] = "packet_refused"
          /\ pc'["worker"] = "disc_load" /\ pc'["api"] = pc["api"]
          /\ ret'["worker"] = "session" /\ ret'["api"] = ret["api"]
          /\ slot'["worker"] = "socket_" /\ slot'["api"] = slot["api"]
          /\ UNCHANGED <<StatusFields, stop_requested, transport, loaded,
                         handle>>
      BY <1>1, <1>7, WorkerAt, HostLabelFacts
         DEF PacketRefused, Stay, snapshot, network, HostLabels, StatusFields
    <2>2. Control' /\ StatusInv'
      BY <2>1 DEF IInv, Control, StatusInv, StatusFields
    <2>3. SocketInv' /\ PassedInv'
      BY <2>1 DEF IInv, Control, SocketInv, PassedInv
    <2>4. CloserInv' /\ HandleInv'
      BY <2>1 DEF IInv, Control, SocketInv, CloserInv, HandleInv
    <2>5. QED
      BY <2>2, <2>3, <2>4 DEF Parts
  <1>8. QED
    BY <1>2, <1>3, <1>4, <1>5, <1>6, <1>7
       DEF IncomingStep

\* The steps of run_client_loop.
LEMMA ClientParts == ASSUME IInv, ClientStep PROVE Parts'
  <1>1. ThreadType /\ NetworkType
    BY DEF IInv, TypeOK
  <1>2. CASE Connect
    <2>1. /\ pc["worker"] = "connect" /\ pc'["api"] = pc["api"]
          /\ \/ pc'["worker"] = "connect_failed" /\ UNCHANGED <<ret, slot>>
             \/ /\ pc'["worker"] = "disc_load" /\ ret'["worker"] = "dial"
                /\ ret'["api"] = ret["api"] /\ slot'["worker"] = "socket_"
                /\ slot'["api"] = slot["api"]
          /\ UNCHANGED <<StatusFields, stop_requested, transport, loaded,
                         handle>>
      BY <1>1, <1>2, WorkerAt, HostLabelFacts
         DEF Connect, Stay, snapshot, network, ClientLabels, StatusFields
    <2>2. Control' /\ StatusInv'
      BY <2>1 DEF IInv, Control, StatusInv, StatusFields
    <2>3. SocketInv' /\ PassedInv'
      BY <2>1 DEF IInv, Control, SocketInv, PassedInv
    <2>4. CloserInv' /\ HandleInv'
      BY <2>1 DEF IInv, Control, SocketInv, CloserInv, HandleInv
    <2>5. QED
      BY <2>2, <2>3, <2>4 DEF Parts
  <1>3. CASE Dial
    <2>1. /\ pc["worker"] = "dial" /\ pc'["api"] = pc["api"]
          /\ \/ /\ pc'["worker"] = "client_connected"
                /\ \E h \in Handles : /\ transport'["socket_"] = h
                                     /\ \A x \in Handles \ {h} : handle'[x] = handle[x]
             \/ pc'["worker"] = "connect_failed" /\ UNCHANGED <<transport,
                                                                handle>>
          /\ UNCHANGED <<StatusFields, stop_requested, ret, slot, loaded>>
      BY <1>1, <1>3, WorkerAt, HostLabelFacts
         DEF Dial, Stay, snapshot, network, ClientLabels, IInv, TypeOK,
             NetworkType, FreeHandles, Slots, StatusFields
    <2>2. Control' /\ StatusInv'
      BY <2>1, HandlesAssumption DEF IInv, Control, StatusInv, StatusFields
    <2>3. SocketInv' /\ PassedInv'
      BY <2>1, HandlesAssumption DEF IInv, Control, SocketInv, PassedInv
    <2>4. CloserInv' /\ HandleInv'
      BY <2>1, HandlesAssumption DEF IInv, Control, SocketInv, CloserInv,
         HandleInv
    <2>5. QED
      BY <2>2, <2>3, <2>4 DEF Parts
  <1>4. CASE ConnectFailed
    <2>1. /\ pc["worker"] = "connect_failed"
          /\ pc'["worker"] = "done" /\ pc'["api"] = pc["api"]
          /\ UNCHANGED <<StatusFields, stop_requested, transport, ret, slot,
                         loaded, handle>>
      BY <1>1, <1>4, WorkerAt, HostLabelFacts
         DEF ConnectFailed, FailAndReturn, ApplyError, Stay, snapshot, network,
             ClientLabels, StatusFields
    <2>2. Control' /\ StatusInv'
      BY <2>1 DEF IInv, Control, StatusInv, StatusFields
    <2>3. SocketInv' /\ PassedInv'
      BY <2>1 DEF IInv, Control, SocketInv, PassedInv
    <2>4. CloserInv' /\ HandleInv'
      BY <2>1 DEF IInv, Control, SocketInv, CloserInv, HandleInv
    <2>5. QED
      BY <2>2, <2>3, <2>4 DEF Parts
  <1>5. CASE ClientConnected
    <2>1. /\ pc["worker"] = "client_connected"
          /\ pc'["worker"] = "client_loop" /\ pc'["api"] = pc["api"]
          /\ session_active' /\ transport_state' = "connected"
          /\ UNCHANGED <<mode, capture_active, stop_requested, transport, ret,
                         slot, loaded, handle>>
      BY <1>1, <1>5, WorkerAt, HostLabelFacts
         DEF ClientConnected, Stay, snapshot, network, ClientLabels,
             StatusFields
    <2>2. Control' /\ StatusInv'
      BY <2>1 DEF IInv, Control, StatusInv, StatusFields
    <2>3. SocketInv' /\ PassedInv'
      BY <2>1 DEF IInv, Control, SocketInv, PassedInv
    <2>4. CloserInv' /\ HandleInv'
      BY <2>1 DEF IInv, Control, SocketInv, CloserInv, HandleInv
    <2>5. QED
      BY <2>2, <2>3, <2>4 DEF Parts
  <1>6. CASE LeaveClientLoop
    <2>1. /\ pc["worker"] = "client_loop"
          /\ pc'["worker"] = "disc_load" /\ pc'["api"] = pc["api"]
          /\ ret'["worker"] = "client_ended" /\ ret'["api"] = ret["api"]
          /\ slot'["worker"] = "socket_" /\ slot'["api"] = slot["api"]
          /\ UNCHANGED <<StatusFields, stop_requested, transport, loaded,
                         handle>>
      BY <1>1, <1>6, WorkerAt, HostLabelFacts
         DEF LeaveClientLoop, Stay, snapshot, network, ClientLabels,
             StatusFields
    <2>2. Control' /\ StatusInv'
      BY <2>1 DEF IInv, Control, StatusInv, StatusFields
    <2>3. SocketInv' /\ PassedInv'
      BY <2>1 DEF IInv, Control, SocketInv, PassedInv
    <2>4. CloserInv' /\ HandleInv'
      BY <2>1 DEF IInv, Control, SocketInv, CloserInv, HandleInv
    <2>5. QED
      BY <2>2, <2>3, <2>4 DEF Parts
  <1>7. CASE ClientEnded
    <2>1. /\ pc["worker"] = "client_ended"
          /\ pc'["worker"] = "done" /\ pc'["api"] = pc["api"]
          /\ ~session_active' /\ transport_state' = "offline"
          /\ UNCHANGED <<mode, capture_active, stop_requested, transport, ret,
                         slot, loaded, handle>>
      BY <1>1, <1>7, WorkerAt, HostLabelFacts
         DEF ClientEnded, Stay, snapshot, network, ClientLabels, StatusFields
    <2>2. Control' /\ StatusInv'
      BY <2>1 DEF IInv, Control, StatusInv, StatusFields
    <2>3. SocketInv' /\ PassedInv'
      BY <2>1 DEF IInv, Control, SocketInv, PassedInv
    <2>4. CloserInv' /\ HandleInv'
      BY <2>1 DEF IInv, Control, SocketInv, CloserInv, HandleInv
    <2>5. QED
      BY <2>2, <2>3, <2>4 DEF Parts
  <1>8. QED
    BY <1>2, <1>3, <1>4, <1>5, <1>6, <1>7
       DEF ClientStep

\* The steps of Transport::disconnect, run by the API thread.  Passing a field
\* establishes what PassedInv says of it.
LEMMA ApiDisconnectParts == ASSUME IInv, Disconnect("api") PROVE Parts'
  <1>1. ThreadType /\ NetworkType /\ transport \in [Slots -> Handles \cup {INVALID_SOCKET}]
    BY DEF IInv, TypeOK
  <1>2. slot["api"] \in {"socket_", "listen_socket_"}
    BY <1>1 DEF ThreadType
  <1>3. ASSUME pc["api"] \in DisconnectLabels PROVE stop_requested /\ ret["api"] = "join"
    BY <1>3 DEF IInv, Control
  <1>4. CASE DisconnectLoad("api")
    <2>1. /\ pc["api"] = "disc_load"
          /\ pc'["worker"] = pc["worker"] /\ slot'["worker"] = slot["worker"]
          /\ loaded'["worker"] = loaded["worker"]
          /\ loaded'["api"] = transport[slot["api"]]
          /\ UNCHANGED <<StatusFields, stop_requested, transport, ret, handle>>
      BY <1>1, <1>4, GoToFacts, LeaveSlotFacts
         DEF DisconnectLoad, ThreadType, ApiLabels, StatusFields, snapshot,
             network
    <2>2. CASE transport[slot["api"]] = INVALID_SOCKET
      <3>1. \/ /\ slot["api"] = "socket_" /\ pc'["api"] = "disc_load"
               /\ slot'["api"] = "listen_socket_"
            \/ /\ slot["api"] = "listen_socket_" /\ pc'["api"] = "join"
               /\ slot'["api"] = "socket_"
        BY <1>1, <1>2, <1>3, <1>4, <2>2, LeaveSlotFacts DEF DisconnectLoad
      <3>2. Control' /\ StatusInv'
        BY <1>3, <2>1, <3>1 DEF IInv, Control, StatusInv, StatusFields
      <3>3. SocketInv' /\ PassedInv'
        BY <1>2, <2>1, <2>2, <3>1, HandlesAssumption
           DEF IInv, Control, SocketInv, PassedInv
      <3>4. CloserInv' /\ HandleInv'
        BY <2>1, <3>1 DEF IInv, CloserInv, HandleInv
      <3>5. QED
        BY <3>2, <3>3, <3>4 DEF Parts
    <2>3. CASE transport[slot["api"]] # INVALID_SOCKET
      <3>1. pc'["api"] = "disc_close" /\ slot' = slot
        BY <1>1, <1>4, <2>3, GoToFacts DEF DisconnectLoad, ApiLabels
      <3>2. Control' /\ StatusInv'
        BY <1>3, <2>1, <3>1 DEF IInv, Control, StatusInv, StatusFields
      <3>3. SocketInv' /\ PassedInv'
        BY <2>1, <3>1 DEF IInv, Control, SocketInv, PassedInv
      <3>4. CloserInv' /\ HandleInv'
        BY <2>1, <2>3, <3>1 DEF IInv, SocketInv, CloserInv, HandleInv
      <3>5. QED
        BY <3>2, <3>3, <3>4 DEF Parts
    <2>4. QED
      BY <2>2, <2>3
  <1>5. CASE DisconnectClose("api")
    <2>1. /\ pc["api"] = "disc_close" /\ pc'["api"] = "disc_clear"
          /\ pc'["worker"] = pc["worker"]
          /\ \A x \in Handles :
               handle'[x] = IF x = loaded["api"] THEN "closed" ELSE handle[x]
          /\ UNCHANGED <<StatusFields, stop_requested, transport, ret, slot,
                         loaded>>
      BY <1>1, <1>5, GoToFacts, CloseHandleFacts
         DEF DisconnectClose, Stay, ApiLabels, StatusFields, snapshot
    <2>2. Control' /\ StatusInv'
      BY <1>3, <2>1 DEF IInv, Control, StatusInv, StatusFields
    <2>3. SocketInv' /\ PassedInv'
      BY <1>2, <2>1 DEF IInv, SocketInv, PassedInv
    <2>4. CloserInv' /\ HandleInv'
      BY <1>2, <2>1, HandlesAssumption DEF IInv, CloserInv, HandleInv
    <2>5. QED
      BY <2>2, <2>3, <2>4 DEF Parts
  <1>6. CASE DisconnectClear("api")
    <2>1. /\ pc["api"] = "disc_clear"
          /\ pc'["worker"] = pc["worker"] /\ slot'["worker"] = slot["worker"]
          /\ transport'[slot["api"]] = INVALID_SOCKET
          /\ \A s \in Slots \ {slot["api"]} : transport'[s] = transport[s]
          /\ UNCHANGED <<StatusFields, stop_requested, ret, loaded, handle>>
      BY <1>1, <1>2, <1>6, LeaveSlotFacts
         DEF DisconnectClear, StatusFields, snapshot, network
    <2>2. \/ /\ slot["api"] = "socket_" /\ pc'["api"] = "disc_load"
             /\ slot'["api"] = "listen_socket_"
          \/ /\ slot["api"] = "listen_socket_" /\ pc'["api"] = "join"
             /\ slot'["api"] = "socket_"
      BY <1>1, <1>2, <1>3, <1>6, LeaveSlotFacts DEF DisconnectClear
    <2>3. Control' /\ StatusInv'
      BY <1>3, <2>1, <2>2 DEF IInv, Control, StatusInv, StatusFields
    <2>4. SocketInv' /\ PassedInv'
      BY <2>1, <2>2, HandlesAssumption DEF IInv, SocketInv, PassedInv
    <2>5. CloserInv' /\ HandleInv'
      BY <2>1, <2>2 DEF IInv, CloserInv, HandleInv
    <2>6. QED
      BY <2>3, <2>4, <2>5 DEF Parts
  <1>7. QED
    BY <1>4, <1>5, <1>6 DEF Disconnect

\* The same steps run by the worker.
LEMMA WorkerDisconnectParts == ASSUME IInv, Disconnect("worker") PROVE Parts'
  <1>1. ThreadType /\ NetworkType /\ transport \in [Slots -> Handles \cup {INVALID_SOCKET}]
    BY DEF IInv, TypeOK
  <1>2. slot["worker"] \in {"socket_", "listen_socket_"}
    BY <1>1 DEF ThreadType
  <1>3. ASSUME pc["worker"] \in DisconnectLabels
        PROVE  ret["worker"] \in HostRets \cup ClientRets
    BY <1>3 DEF IInv, Control
  <1>4. CASE DisconnectLoad("worker")
    <2>1. /\ pc["worker"] = "disc_load"
          /\ pc'["api"] = pc["api"] /\ slot'["api"] = slot["api"]
          /\ loaded'["api"] = loaded["api"]
          /\ loaded'["worker"] = transport[slot["worker"]]
          /\ UNCHANGED <<StatusFields, stop_requested, transport, ret, handle>>
      BY <1>1, <1>4, GoToFacts, LeaveSlotFacts
         DEF DisconnectLoad, ThreadType, ApiLabels, StatusFields, snapshot,
             network
    <2>2. \/ /\ transport[slot["worker"]] = INVALID_SOCKET
             /\ slot["worker"] = "socket_" /\ pc'["worker"] = "disc_load"
             /\ slot'["worker"] = "listen_socket_"
          \/ /\ transport[slot["worker"]] = INVALID_SOCKET
             /\ slot["worker"] = "listen_socket_"
             /\ pc'["worker"] = ret["worker"]
             /\ slot'["worker"] = "socket_"
          \/ /\ transport[slot["worker"]] # INVALID_SOCKET
             /\ pc'["worker"] = "disc_close" /\ slot' = slot
      BY <1>1, <1>2, <1>4, LeaveSlotFacts, GoToFacts
         DEF DisconnectLoad, ApiLabels
    <2>3. Control' /\ StatusInv'
      BY <1>3, <2>1, <2>2 DEF IInv, Control, StatusInv, StatusFields
    <2>4. SocketInv' /\ PassedInv'
      BY <1>2, <1>3, <2>1, <2>2 DEF IInv, SocketInv, PassedInv
    <2>5. CloserInv' /\ HandleInv'
      BY <1>2, <1>3, <2>1, <2>2 DEF IInv, SocketInv, CloserInv, HandleInv
    <2>6. QED
      BY <2>3, <2>4, <2>5 DEF Parts
  <1>5. CASE DisconnectClose("worker")
    <2>1. /\ pc["worker"] = "disc_close" /\ pc'["worker"] = "disc_clear"
          /\ pc'["api"] = pc["api"]
          /\ \A x \in Handles :
               handle'[x] = IF x = loaded["worker"] THEN "closed" ELSE handle[x]
          /\ UNCHANGED <<StatusFields, stop_requested, transport, ret, slot,
                         loaded>>
      BY <1>1, <1>5, GoToFacts, CloseHandleFacts
         DEF DisconnectClose, Stay, ApiLabels, StatusFields, snapshot
    <2>2. Control' /\ StatusInv'
      BY <2>1 DEF IInv, Control, StatusInv, StatusFields
    <2>3. SocketInv' /\ PassedInv'
      BY <2>1 DEF IInv, SocketInv, PassedInv
    <2>4. CloserInv' /\ HandleInv'
      BY <1>2, <2>1, HandlesAssumption DEF IInv, CloserInv, HandleInv
    <2>5. QED
      BY <2>2, <2>3, <2>4 DEF Parts
  <1>6. CASE DisconnectClear("worker")
    <2>1. /\ pc["worker"] = "disc_clear"
          /\ pc'["api"] = pc["api"] /\ slot'["api"] = slot["api"]
          /\ transport'[slot["worker"]] = INVALID_SOCKET
          /\ \A s \in Slots \ {slot["worker"]} : transport'[s] = transport[s]
          /\ UNCHANGED <<StatusFields, stop_requested, ret, loaded, handle>>
      BY <1>1, <1>2, <1>6, LeaveSlotFacts
         DEF DisconnectClear, StatusFields, snapshot, network
    <2>2. \/ /\ slot["worker"] = "socket_" /\ pc'["worker"] = "disc_load"
             /\ slot'["worker"] = "listen_socket_"
          \/ /\ slot["worker"] = "listen_socket_" /\ pc'["worker"] = ret["worker"]
             /\ slot'["worker"] = "socket_"
      BY <1>1, <1>2, <1>6, LeaveSlotFacts DEF DisconnectClear
    <2>3. Control' /\ StatusInv'
      BY <1>3, <2>1, <2>2 DEF IInv, Control, StatusInv, StatusFields
    <2>4. SocketInv' /\ PassedInv'
      BY <1>3, <2>1, <2>2 DEF IInv, SocketInv, PassedInv
    <2>5. CloserInv' /\ HandleInv'
      BY <1>3, <2>1, <2>2 DEF IInv, SocketInv, CloserInv, HandleInv
    <2>6. QED
      BY <2>3, <2>4, <2>5 DEF Parts
  <1>7. QED
    BY <1>4, <1>5, <1>6 DEF Disconnect

\* A call begins: the stop flag is set before disconnect() is entered.
LEMMA BeginCallStep ==
    ASSUME IInv, NEW c \in Calls, BeginCall(c)
    PROVE  TypeOK' /\ Parts'
  <1>1. ThreadType /\ NetworkType
    BY DEF IInv, TypeOK
  <1>2. /\ pc["api"] = "idle" /\ pc'["api"] = "disc_load" /\ ret'["api"] = "join"
        /\ slot'["api"] = "socket_" /\ pc'["worker"] = pc["worker"]
        /\ ret'["worker"] = ret["worker"] /\ slot'["worker"] = slot["worker"]
        /\ stop_requested' = TRUE
        /\ UNCHANGED <<StatusFields, transport, loaded, handle>>
    BY <1>1, CallDisconnectFacts
       DEF BeginCall, ApiLabels, StatusFields, snapshot, network
  <1>3. ThreadType'
    BY <1>1, <1>2, CallDisconnectFacts DEF BeginCall, ThreadType, ApiLabels
  <1>4. TypeOK'
    BY <1>1, <1>3, UnchangedTypes DEF BeginCall, IInv, TypeOK
  <1>5. Control' /\ StatusInv'
    BY <1>2 DEF IInv, Control, StatusInv, StatusFields
  <1>6. SocketInv' /\ PassedInv'
    BY <1>2 DEF IInv, SocketInv, PassedInv
  <1>7. CloserInv' /\ HandleInv'
    BY <1>2 DEF IInv, CloserInv, HandleInv
  <1>8. QED
    BY <1>4, <1>5, <1>6, <1>7 DEF Parts

\* The rest of a call: joining the worker, resetting the status, starting.
LEMMA ApiParts == ASSUME IInv, ApiStep PROVE Parts'
  <1>1. ThreadType
    BY DEF IInv, TypeOK
  <1>2. CASE Disconnect("api")
    BY <1>2, ApiDisconnectParts
  <1>3. CASE Join
    <2>1. /\ pc["api"] = "join" /\ pc["worker"] \in {"none", "done"}
          /\ pc'["api"] = "settle" /\ pc'["worker"] = "none"
          /\ UNCHANGED <<StatusFields, stop_requested, transport, ret, slot,
                         loaded, handle>>
      BY <1>1, <1>3 DEF Join, Stay, ThreadType, StatusFields, snapshot, network
    <2>2. Control' /\ StatusInv'
      BY <2>1 DEF IInv, Control, StatusInv, StatusFields
    <2>3. SocketInv' /\ PassedInv' /\ CloserInv' /\ HandleInv'
      BY <2>1 DEF IInv, SocketInv, PassedInv, CloserInv, HandleInv
    <2>4. QED
      BY <2>2, <2>3 DEF Parts
  <1>4. CASE Settle
    <2>1. /\ pc["api"] = "settle" /\ pc'["api"] \in {"idle", "start"}
          /\ pc'["worker"] = pc["worker"]
          /\ mode' = "stopped" /\ transport_state' = "offline"
          /\ ~session_active' /\ ~capture_active'
          /\ UNCHANGED <<stop_requested, transport, ret, slot, loaded, handle>>
      <3>1. CASE call = "stop"
        BY <1>1, <1>4, <3>1 DEF Settle, GoTo, Stay, ThreadType, network
      <3>2. CASE call # "stop"
        BY <1>1, <1>4, <3>2 DEF Settle, GoTo, Stay, ThreadType, network
      <3>3. QED
        BY <3>1, <3>2
    <2>2. Control' /\ StatusInv'
      BY <2>1 DEF IInv, Control, StatusInv
    <2>3. SocketInv' /\ PassedInv' /\ CloserInv' /\ HandleInv'
      BY <2>1 DEF IInv, SocketInv, PassedInv, CloserInv, HandleInv
    <2>4. QED
      BY <2>2, <2>3 DEF Parts
  <1>5. CASE StartHost \/ StartClient
    <2>1. /\ pc["api"] = "start" /\ pc'["api"] = "idle"
          /\ \/ /\ pc'["worker"] = "listen"
                /\ mode' = "host" /\ transport_state' = "listening"
             \/ /\ pc'["worker"] = "connect"
                /\ mode' = "client" /\ transport_state' = "connecting"
          /\ ~session_active' /\ ~capture_active'
          /\ UNCHANGED <<transport, ret, slot, loaded, handle>>
      BY <1>1, <1>5 DEF StartHost, StartClient, Stay, ThreadType, network
    <2>2. Control' /\ StatusInv'
      BY <2>1 DEF IInv, Control, StatusInv
    <2>3. SocketInv' /\ PassedInv' /\ CloserInv' /\ HandleInv'
      BY <2>1 DEF IInv, Control, SocketInv, PassedInv, CloserInv, HandleInv
    <2>4. QED
      BY <2>2, <2>3 DEF Parts
  <1>6. QED
    BY <1>2, <1>3, <1>4, <1>5 DEF ApiStep

\* The far end changes nothing that the parts speak of.
LEMMA PeerParts == ASSUME IInv, PeerStep PROVE Parts'
  BY UnchangedParts
     DEF PeerStep, PeerArrives, PeerSends, PeerCompletesPacket, PeerChanges,
         IInv, Parts, snapshot

-----------------------------------------------------------------------------
(* Theorems. *)

\* IInv holds initially ...
LEMMA InitInv == Init => IInv
  <1>1. SUFFICES ASSUME Init PROVE IInv
    OBVIOUS
  <1>2. TypeOK
    BY <1>1, InitType
  <1>3. pc["api"] = "idle" /\ pc["worker"] = "none"
    BY <1>1 DEF Init
  <1>4. Control /\ StatusInv
    BY <1>1, <1>3 DEF Init, Control, StatusInv
  <1>5. SocketInv /\ CloserInv /\ HandleInv /\ PassedInv
    BY <1>1, <1>3 DEF Init, SocketInv, CloserInv, HandleInv, PassedInv
  <1>6. QED
    BY <1>2, <1>4, <1>5 DEF IInv

\* ... and every step of either thread and of the far end keeps it.
LEMMA StepInv == IInv /\ [Next]_vars => IInv'
  <1>1. SUFFICES ASSUME IInv, [Next]_vars PROVE TypeOK' /\ Parts'
    BY DEF IInv, Parts
  <1>2. TypeOK /\ Control /\ Parts
    BY <1>1 DEF IInv, Parts
  <1>3. ASSUME NEW c \in Calls, BeginCall(c) PROVE TypeOK' /\ Parts'
    BY <1>1, <1>3, BeginCallStep
  <1>4. CASE ApiStep
    BY <1>1, <1>2, <1>4, ApiType, ApiParts
  <1>5. CASE WorkerStep
    <2>1. CASE Disconnect("worker")
      BY <1>1, <1>2, <2>1, DisconnectType, WorkerDisconnectParts
    <2>2. CASE HostStep
      BY <1>1, <1>2, <2>2, HostType, HostParts
    <2>3. CASE IncomingStep
      BY <1>1, <1>2, <2>3, IncomingType, IncomingParts
    <2>4. CASE ClientStep
      BY <1>1, <1>2, <2>4, ClientType, ClientParts
    <2>5. QED
      BY <1>5, <2>1, <2>2, <2>3, <2>4 DEF WorkerStep
  <1>6. CASE PeerStep
    BY <1>1, <1>2, <1>6, PeerType, PeerParts
  <1>7. CASE UNCHANGED vars
    <2>1. UNCHANGED <<snapshot, threads, network, stop_requested, transport,
                      call>>
      BY <1>7 DEF vars
    <2>2. TypeOK'
      BY <1>2, <2>1, UnchangedTypes DEF TypeOK
    <2>3. Parts'
      BY <1>2, <2>1, UnchangedParts DEF snapshot, network
    <2>4. QED
      BY <2>2, <2>3
  <1>8. QED
    BY <1>1, <1>3, <1>4, <1>5, <1>6, <1>7 DEF Next

\* The inductive invariant holds in every behaviour of the session manager.
THEOREM Inductive == Spec => []IInv
  BY InitInv, StepInv, PTL DEF Spec

\* Every variable always has its type, whatever the two threads do.
THEOREM TypeCorrect == Spec => []TypeOK
  <1>1. IInv => TypeOK
    BY DEF IInv
  <1>2. QED
    BY <1>1, Inductive, PTL

\* Once stop() has returned, no worker, no active session and no open
\* connection is left, and the status says so (session_manager.cpp, stop).
THEOREM StopIsFinal == Spec => []StoppedIsQuiet
  <1>1. IInv => StoppedIsQuiet
    BY HandlesAssumption
       DEF IInv, Control, StatusInv, SocketInv, HandleInv, StoppedIsQuiet
  <1>2. QED
    BY <1>1, Inductive, PTL

\* The status shows an active session exactly while the transport may hold a
\* connection and a worker is there to end it.
THEOREM StatusIsRight == Spec => []StatusMatchesConnection
  <1>1. IInv => StatusMatchesConnection
    <2>1. SUFFICES ASSUME IInv PROVE StatusMatchesConnection
      OBVIOUS
    <2>2. pc["worker"] \in WorkerLabels
      BY <2>1 DEF IInv, TypeOK, ThreadType
    <2>3. HasPeer => Holding
      BY <2>1, HandlesAssumption DEF IInv, SocketInv, HandleInv, HasPeer
    <2>4. QED
      BY <2>1, <2>2, <2>3
         DEF IInv, Control, StatusInv, StatusMatchesConnection, WorkerLabels,
             HostLabels, ClientLabels
  <1>2. QED
    BY <1>1, Inductive, PTL

\* A connection that is open is always the one in the transport, however the
\* two runs of disconnect() interleave.
THEOREM NoConnectionIsLost == Spec => []ConnectionsAreHeld
  <1>1. IInv => ConnectionsAreHeld
    BY DEF IInv, HandleInv
  <1>2. QED
    BY <1>1, Inductive, PTL

\* stop() never waits for a worker blocked on a socket that is still open.
THEOREM JoinIsNotStuck == Spec => []JoinedWorkerIsNotBlocked
  <1>1. IInv => JoinedWorkerIsNotBlocked
    BY HandlesAssumption DEF IInv, PassedInv, JoinedWorkerIsNotBlocked,
       IsConnection
  <1>2. QED
    BY <1>1, Inductive, PTL
-----------------------------------------------------------------------------
(* A worker that gives up.  IInv does not speak of the error code.  Reported *)
(* is inductive together with IInv: only a worker that was told to stop      *)
(* reaches the end of the client's loop, since Transport::connect left a     *)
(* socket in the transport and only a stop takes it away again.              *)

Reported ==
    /\ w = "done" /\ ~stop_requested => last_error # "none"
    /\ Place = "client_ended" => stop_requested
    /\ w \in {"client_connected", "client_loop"} /\ ~stop_requested =>
         transport["socket_"] # INVALID_SOCKET

\* Reported says something of these places only.
ReportingPlaces == {"done", "client_connected", "client_loop", "client_ended"}

\* A step that takes the worker to any other place keeps Reported.
LEMMA MovesOn ==
    ASSUME ThreadType,
           NEW label \in WorkerLabels \ (ReportingPlaces \cup DisconnectLabels),
           (GoTo("worker", label) /\ Stay) \/ CallDisconnect("worker", label)
    PROVE  Reported'
  <1>1. \/ pc'["worker"] = label
        \/ pc'["worker"] = "disc_load" /\ ret'["worker"] = label
    BY WorkerAt
  <1>2. QED
    BY <1>1 DEF Reported, ReportingPlaces

\* A step that leaves alone what Reported speaks of keeps it.
LEMMA UnchangedReported ==
    ASSUME Reported,
           UNCHANGED <<pc, ret, stop_requested, transport, last_error>>
    PROVE  Reported'
  BY DEF Reported

\* The thread function returns after storing an error.
LEMMA FailureIsReported == ASSUME ThreadType, FailAndReturn PROVE Reported'
  <1>1. "done" \in WorkerLabels
    BY DEF WorkerLabels
  <1>2. pc'["worker"] = "done"
    BY <1>1, WorkerAt DEF FailAndReturn
  <1>3. last_error' # "none"
    BY DEF FailAndReturn, ApplyError
  <1>4. QED
    BY <1>2, <1>3 DEF Reported

LEMMA DisconnectReported ==
    ASSUME IInv, Reported, NEW t \in Threads, Disconnect(t)
    PROVE  Reported'
  <1>1. ThreadType
    BY DEF IInv, TypeOK
  <1>2. /\ pc[t] \in DisconnectLabels
        /\ UNCHANGED <<stop_requested, ret, last_error>>
    BY DEF Disconnect, DisconnectLoad, DisconnectClose, DisconnectClear, Stay,
       snapshot
  <1>3. pc'[t] \in DisconnectLabels \cup {ret[t]}
    <2>1. slot[t] \in {"socket_", "listen_socket_"}
      BY <1>1 DEF ThreadType
    <2>2. GoTo(t, "disc_close") \/ GoTo(t, "disc_clear") \/ LeaveSlot(t)
      BY DEF Disconnect, DisconnectLoad, DisconnectClose, DisconnectClear
    <2>3. {"disc_close", "disc_clear"} \subseteq WorkerLabels \cup ApiLabels
      BY DEF ApiLabels
    <2>4. QED
      BY <1>1, <2>1, <2>2, <2>3, GoToFacts, LeaveSlotFacts
  <1>4. \A u \in Threads : u # t => pc'[u] = pc[u]
    <2>1. GoTo(t, "disc_close") \/ GoTo(t, "disc_clear") \/ LeaveSlot(t)
      BY DEF Disconnect, DisconnectLoad, DisconnectClose, DisconnectClear
    <2>2. {"disc_close", "disc_clear"} \subseteq WorkerLabels \cup ApiLabels
      BY DEF ApiLabels
    <2>3. QED
      BY <1>1, <2>1, <2>2, GoToFacts, LeaveSlotFacts
  <1>5. CASE t = "api"
    BY <1>2, <1>4, <1>5 DEF IInv, Control, Reported
  <1>6. CASE t = "worker"
    <2>1. ret["worker"] \in HostRets \cup ClientRets
      BY <1>2, <1>6 DEF IInv, Control
    <2>2. QED
      BY <1>2, <1>3, <1>6, <2>1 DEF Reported
  <1>7. QED
    BY <1>5, <1>6

LEMMA HostReported == ASSUME IInv, Reported, HostStep PROVE Reported'
  <1>1. ThreadType
    BY DEF IInv, TypeOK
  <1>2. CASE HostLoop
    <2>1. pc'["worker"] = IF stop_requested THEN "done" ELSE "accept"
      BY <1>1, <1>2, WorkerAt, HostLabelFacts DEF HostLoop, HostLabels
    <2>2. QED
      BY <1>2, <2>1 DEF HostLoop, Reported
  <1>3. CASE AcceptFailed
    <2>1. pc'["worker"] = IF stop_requested THEN "done" ELSE "host_loop"
      BY <1>1, <1>3, WorkerAt, HostLabelFacts DEF AcceptFailed, HostLabels
    <2>2. QED
      BY <1>3, <2>1 DEF AcceptFailed, Reported
  <1>4. CASE ListenFailed \/ CaptureInitFails
    BY <1>1, <1>4, FailureIsReported DEF ListenFailed, CaptureInitFails
  <1>5. CASE CaptureFails
    BY <1>5 DEF CaptureFails, threads, Reported
  <1>6. CASE Listen \/ ListenCreate \/ ListenBind \/ CaptureInit \/ Accept
    BY <1>1, <1>6, MovesOn, HostLabelFacts
       DEF Listen, ListenCreate, ListenBind, CaptureInit, Accept, HostLabels,
           ReportingPlaces
  <1>7. CASE AcceptPeer \/ AcceptError \/ PeerConnected \/ CaptureFrame
               \/ LeaveSession
    BY <1>1, <1>7, MovesOn, HostLabelFacts
       DEF AcceptPeer, AcceptError, PeerConnected, CaptureFrame, LeaveSession,
           HostLabels, ReportingPlaces
  <1>8. CASE SendFrame \/ SendFrameFails \/ SessionBroken \/ SessionEnded
    BY <1>1, <1>8, MovesOn, HostLabelFacts
       DEF SendFrame, SendFrameFails, SessionBroken, SessionEnded, HostLabels,
           ReportingPlaces
  <1>9. QED
    BY <1>2, <1>3, <1>4, <1>5, <1>6, <1>7, <1>8 DEF HostStep

LEMMA IncomingReported == ASSUME IInv, Reported, IncomingStep PROVE Reported'
  <1>1. ThreadType
    BY DEF IInv, TypeOK
  <1>2. CASE PollIncoming \/ ReceiveFails \/ ReceiveMalformed
    BY <1>1, <1>2, MovesOn, HostLabelFacts
       DEF PollIncoming, ReceiveFails, ReceiveMalformed, HostLabels,
           ReportingPlaces
  <1>3. CASE ReceiveMessage \/ ReceiveDisconnect \/ PacketRefused
    BY <1>1, <1>3, MovesOn, HostLabelFacts
       DEF ReceiveMessage, ReceiveDisconnect, PacketRefused, HostLabels,
           ReportingPlaces
  <1>4. QED
    BY <1>2, <1>3 DEF IncomingStep

LEMMA ClientReported == ASSUME IInv, Reported, ClientStep PROVE Reported'
  <1>1. ThreadType
    BY DEF IInv, TypeOK
  <1>2. CASE Connect
    BY <1>1, <1>2, MovesOn, HostLabelFacts
       DEF Connect, ClientLabels, ReportingPlaces
  <1>3. CASE Dial
    <2>1. \/ /\ pc'["worker"] = "client_connected"
             /\ \E h \in Handles : transport'["socket_"] = h
          \/ pc'["worker"] = "connect_failed"
      BY <1>1, <1>3, WorkerAt, HostLabelFacts
         DEF Dial, FreeHandles, ClientLabels, IInv, TypeOK
    <2>2. QED
      BY <2>1, HandlesAssumption DEF Reported
  <1>4. CASE ConnectFailed
    BY <1>1, <1>4, FailureIsReported DEF ConnectFailed
  <1>5. CASE ClientConnected
    <2>1. pc'["worker"] = "client_loop"
      BY <1>1, <1>5, WorkerAt, HostLabelFacts DEF ClientConnected, ClientLabels
    <2>2. QED
      BY <1>5, <2>1 DEF ClientConnected, Reported
  <1>6. CASE LeaveClientLoop
    <2>1. /\ pc["worker"] = "client_loop" /\ pc'["worker"] = "disc_load"
          /\ ~InSession /\ UNCHANGED stop_requested
      BY <1>1, <1>6, WorkerAt, HostLabelFacts DEF LeaveClientLoop, ClientLabels
    <2>2. QED
      BY <2>1 DEF Reported, InSession
  <1>7. CASE ClientEnded
    <2>1. /\ pc["worker"] = "client_ended" /\ pc'["worker"] = "done"
          /\ UNCHANGED stop_requested
      BY <1>1, <1>7, WorkerAt, HostLabelFacts DEF ClientEnded, ClientLabels
    <2>2. QED
      BY <2>1 DEF Reported
  <1>8. QED
    BY <1>2, <1>3, <1>4, <1>5, <1>6, <1>7 DEF ClientStep

LEMMA ApiReported == ASSUME IInv, Reported, ApiStep PROVE Reported'
  <1>1. ThreadType
    BY DEF IInv, TypeOK
  <1>2. CASE Disconnect("api")
    BY <1>2, DisconnectReported
  <1>3. CASE Join
    BY <1>1, <1>3 DEF Join, ThreadType, Reported
  <1>4. CASE Settle
    <2>1. pc["api"] = "settle" /\ pc["worker"] = "none"
      BY <1>4 DEF Settle, IInv, Control
    <2>2. pc'["worker"] = "none"
      BY <1>1, <1>4, <2>1 DEF Settle, GoTo, ThreadType
    <2>3. QED
      BY <2>2 DEF Reported
  <1>5. CASE StartHost \/ StartClient
    <2>1. pc'["worker"] \in {"listen", "connect"}
      BY <1>1, <1>5 DEF StartHost, StartClient, ThreadType
    <2>2. QED
      BY <2>1 DEF Reported
  <1>6. QED
    BY <1>2, <1>3, <1>4, <1>5 DEF ApiStep

LEMMA StepReported == IInv /\ Reported /\ [Next]_vars => Reported'
  <1>1. SUFFICES ASSUME IInv, Reported, [Next]_vars PROVE Reported'
    OBVIOUS
  <1>2. ASSUME NEW c \in Calls, BeginCall(c) PROVE Reported'
    <2>1. ThreadType
      BY <1>1 DEF IInv, TypeOK
    <2>2. /\ pc'["worker"] = pc["worker"] /\ ret'["worker"] = ret["worker"]
          /\ stop_requested'
      BY <1>2, <2>1, CallDisconnectFacts DEF BeginCall, ApiLabels
    <2>3. QED
      BY <1>1, <2>2 DEF Reported
  <1>3. CASE ApiStep
    BY <1>1, <1>3, ApiReported
  <1>4. CASE WorkerStep
    BY <1>1, <1>4, DisconnectReported, HostReported, IncomingReported,
       ClientReported DEF WorkerStep
  <1>5. CASE PeerStep
    BY <1>1, <1>5, UnchangedReported
       DEF PeerStep, PeerArrives, PeerSends, PeerCompletesPacket, PeerChanges,
           snapshot, threads
  <1>6. CASE UNCHANGED vars
    BY <1>1, <1>6, UnchangedReported DEF vars, snapshot, threads
  <1>7. QED
    BY <1>1, <1>2, <1>3, <1>4, <1>5, <1>6 DEF Next

\* A worker that gives up without being told to stop leaves an error in the
\* status (session_manager.cpp, run_host_loop and run_client_loop).
THEOREM GivingUpIsTold == Spec => []GivingUpIsReported
  <1>1. Init => Reported
    BY DEF Init, Reported
  <1>2. Reported => GivingUpIsReported
    BY DEF Reported, GivingUpIsReported
  <1>3. QED
    BY <1>1, <1>2, StepReported, Inductive, PTL DEF Spec
-----------------------------------------------------------------------------
(* The refinement of SessionLifecycle.  Where the worker is determines the   *)
(* status (StatusInv), so each write of the status starts from a known phase *)
(* and leads to the next one; and since a worker is gone when a stop settles *)
(* (Control), no phase of a session is ever seen after its stop.             *)

\* The phase that each status shows.
ShownPhases ==
    /\ mode = "stopped" /\ transport_state = "offline"
         /\ ~session_active /\ ~capture_active => Phase = "stopped"
    /\ mode = "host" /\ transport_state = "listening"
         /\ ~session_active /\ ~capture_active => Phase = "host_starting"
    /\ mode = "host" /\ transport_state = "listening"
         /\ ~session_active /\ capture_active => Phase = "host_listening"
    /\ mode = "host" /\ transport_state = "connected"
         /\ session_active /\ capture_active => Phase = "host_serving"
    /\ mode = "client" /\ transport_state = "connecting"
         /\ ~session_active /\ ~capture_active => Phase = "client_connecting"
    /\ mode = "client" /\ transport_state = "connected"
         /\ session_active /\ ~capture_active => Phase = "client_serving"
    /\ mode = "client" /\ transport_state = "offline"
         /\ ~session_active /\ ~capture_active => Phase = "client_ended"

LEMMA PhaseShown == SnapshotType => ShownPhases
  <1>1. SUFFICES ASSUME SnapshotType PROVE ShownPhases
    OBVIOUS
  <1>2. session_active \in BOOLEAN /\ capture_active \in BOOLEAN
    BY <1>1 DEF SnapshotType
  <1>3. QED
    BY <1>2 DEF ShownPhases, Phase

LEMMA NextPhaseShown == SnapshotType' => ShownPhases'
  BY PhaseShown, PTL

\* A step of Lifecycle, or one that it does not see.
LifecycleStep == [Lifecycle!Next]_(Lifecycle!lifecycle)

LEMMA UnseenStep ==
    ASSUME UNCHANGED <<StatusFields, stop_requested>>
    PROVE  LifecycleStep
  <1>1. Phase' = Phase
    BY DEF Phase, StatusFields
  <1>2. QED
    BY <1>1 DEF LifecycleStep, Lifecycle!lifecycle

\* A session goes on to its next phase.
LEMMA ProgressStep ==
    ASSUME NEW from, NEW to, <<from, to>> \in Lifecycle!Moves,
           Phase = from, Phase' = to, UNCHANGED stop_requested
    PROVE  LifecycleStep
  BY DEF LifecycleStep, Lifecycle!Next, Lifecycle!Progress

LEMMA HostRefines ==
    ASSUME IInv, SnapshotType', HostStep
    PROVE  LifecycleStep
  <1>1. ThreadType /\ SnapshotType
    BY DEF IInv, TypeOK
  <1>2. CASE CaptureInit
    <2>1. Phase = "host_starting"
      BY <1>1, <1>2, PhaseShown
         DEF CaptureInit, IInv, StatusInv, ShownPhases
    <2>2. Phase' = "host_listening"
      <3>1. /\ mode' = "host" /\ transport_state' = "listening"
            /\ ~session_active' /\ capture_active'
        BY <1>2 DEF CaptureInit, IInv, StatusInv
      <3>2. QED
        BY <3>1, NextPhaseShown DEF ShownPhases
    <2>3. <<"host_starting", "host_listening">> \in Lifecycle!Moves
      BY DEF Lifecycle!Moves
    <2>4. QED
      BY <1>2, <2>1, <2>2, <2>3, ProgressStep DEF CaptureInit
  <1>3. CASE PeerConnected
    <2>1. Phase = "host_listening"
      BY <1>1, <1>3, PhaseShown
         DEF PeerConnected, IInv, StatusInv, ShownPhases
    <2>2. Phase' = "host_serving"
      <3>1. /\ mode' = "host" /\ transport_state' = "connected"
            /\ session_active' /\ capture_active'
        BY <1>3 DEF PeerConnected, IInv, StatusInv
      <3>2. QED
        BY <3>1, NextPhaseShown DEF ShownPhases
    <2>3. <<"host_listening", "host_serving">> \in Lifecycle!Moves
      BY DEF Lifecycle!Moves
    <2>4. QED
      BY <1>3, <2>1, <2>2, <2>3, ProgressStep DEF PeerConnected
  <1>4. CASE SessionEnded
    <2>1. Phase = "host_serving"
      BY <1>1, <1>4, PhaseShown
         DEF SessionEnded, IInv, StatusInv, ShownPhases
    <2>2. Phase' = "host_listening"
      <3>1. /\ mode' = "host" /\ transport_state' = "listening"
            /\ ~session_active' /\ capture_active'
        BY <1>4 DEF SessionEnded, IInv, StatusInv
      <3>2. QED
        BY <3>1, NextPhaseShown DEF ShownPhases
    <2>3. <<"host_serving", "host_listening">> \in Lifecycle!Moves
      BY DEF Lifecycle!Moves
    <2>4. QED
      BY <1>4, <2>1, <2>2, <2>3, ProgressStep DEF SessionEnded
  <1>5. CASE Listen \/ ListenCreate \/ ListenBind \/ ListenFailed
               \/ CaptureInitFails \/ HostLoop
    BY <1>5, UnseenStep
       DEF Listen, ListenCreate, ListenBind, ListenFailed, CaptureInitFails,
           HostLoop, FailAndReturn, ApplyError, snapshot, StatusFields
  <1>6. CASE Accept \/ AcceptPeer \/ AcceptError \/ AcceptFailed
    BY <1>6, UnseenStep
       DEF Accept, AcceptPeer, AcceptError, AcceptFailed, ApplyError, snapshot,
           StatusFields
  <1>7. CASE CaptureFails \/ CaptureFrame \/ LeaveSession \/ SendFrame
               \/ SendFrameFails \/ SessionBroken
    BY <1>7, UnseenStep
       DEF CaptureFails, CaptureFrame, LeaveSession, SendFrame, SendFrameFails,
           SessionBroken, ApplyError, snapshot, StatusFields
  <1>8. QED
    BY <1>2, <1>3, <1>4, <1>5, <1>6, <1>7 DEF HostStep

LEMMA ClientRefines ==
    ASSUME IInv, SnapshotType', ClientStep
    PROVE  LifecycleStep
  <1>1. ThreadType /\ SnapshotType
    BY DEF IInv, TypeOK
  <1>2. CASE ClientConnected
    <2>1. Phase = "client_connecting"
      BY <1>1, <1>2, PhaseShown
         DEF ClientConnected, IInv, StatusInv, ShownPhases
    <2>2. Phase' = "client_serving"
      <3>1. /\ mode' = "client" /\ transport_state' = "connected"
            /\ session_active' /\ ~capture_active'
        BY <1>2 DEF ClientConnected, IInv, StatusInv
      <3>2. QED
        BY <3>1, NextPhaseShown DEF ShownPhases
    <2>3. <<"client_connecting", "client_serving">> \in Lifecycle!Moves
      BY DEF Lifecycle!Moves
    <2>4. QED
      BY <1>2, <2>1, <2>2, <2>3, ProgressStep DEF ClientConnected
  <1>3. CASE ClientEnded
    <2>1. Phase = "client_serving"
      BY <1>1, <1>3, PhaseShown
         DEF ClientEnded, IInv, StatusInv, ShownPhases
    <2>2. Phase' = "client_ended"
      <3>1. /\ mode' = "client" /\ transport_state' = "offline"
            /\ ~session_active' /\ ~capture_active'
        BY <1>3 DEF ClientEnded, IInv, StatusInv
      <3>2. QED
        BY <3>1, NextPhaseShown DEF ShownPhases
    <2>3. <<"client_serving", "client_ended">> \in Lifecycle!Moves
      BY DEF Lifecycle!Moves
    <2>4. QED
      BY <1>3, <2>1, <2>2, <2>3, ProgressStep DEF ClientEnded
  <1>4. CASE Connect \/ Dial \/ ConnectFailed \/ LeaveClientLoop
    BY <1>4, UnseenStep
       DEF Connect, Dial, ConnectFailed, LeaveClientLoop, FailAndReturn,
           ApplyError, snapshot, StatusFields
  <1>5. QED
    BY <1>2, <1>3, <1>4 DEF ClientStep

\* Taking a connection's packets and closing its sockets changes no phase.
LEMMA OtherWorkerRefines ==
    ASSUME Disconnect("worker") \/ IncomingStep
    PROVE  LifecycleStep
  <1>1. CASE Disconnect("worker")
    BY <1>1, UnseenStep
       DEF Disconnect, DisconnectLoad, DisconnectClose, DisconnectClear,
           snapshot, StatusFields
  <1>2. CASE IncomingStep
    BY <1>2, UnseenStep
       DEF IncomingStep, PollIncoming, ReceiveFails, ReceiveMalformed,
           ReceiveMessage, ReceiveDisconnect, PacketRefused, ApplyError,
           snapshot, StatusFields
  <1>3. QED
    BY <1>1, <1>2

LEMMA ApiRefines ==
    ASSUME IInv, SnapshotType', ApiStep
    PROVE  LifecycleStep
  <1>1. ThreadType /\ SnapshotType /\ stop_requested \in BOOLEAN
    BY DEF IInv, TypeOK
  <1>2. CASE Disconnect("api") \/ Join
    BY <1>2, UnseenStep
       DEF Disconnect, DisconnectLoad, DisconnectClose, DisconnectClear, Join,
           snapshot, StatusFields
  <1>3. CASE Settle
    <2>1. stop_requested /\ UNCHANGED stop_requested
      BY <1>3 DEF Settle, IInv, Control
    <2>2. Phase' = "stopped"
      BY <1>3, NextPhaseShown DEF Settle, ShownPhases
    <2>3. QED
      BY <2>1, <2>2
         DEF LifecycleStep, Lifecycle!lifecycle, Lifecycle!Next,
             Lifecycle!Stopped
  <1>4. CASE StartHost \/ StartClient
    <2>1. stop_requested /\ stop_requested' = FALSE
      BY <1>4 DEF StartHost, StartClient, IInv, Control
    <2>2. Phase = "stopped"
      BY <1>1, <1>4, PhaseShown
         DEF StartHost, StartClient, IInv, Control, StatusInv, ShownPhases
    <2>3. Phase' \in {"host_starting", "client_connecting"}
      BY <1>4, NextPhaseShown DEF StartHost, StartClient, ShownPhases
    <2>4. QED
      BY <2>1, <2>2, <2>3 DEF LifecycleStep, Lifecycle!Next, Lifecycle!Start
  <1>5. QED
    BY <1>2, <1>3, <1>4 DEF ApiStep

LEMMA StepRefines == IInv /\ IInv' /\ [Next]_vars => LifecycleStep
  <1>1. SUFFICES ASSUME IInv, IInv', [Next]_vars PROVE LifecycleStep
    OBVIOUS
  <1>2. SnapshotType' /\ stop_requested \in BOOLEAN
    BY <1>1 DEF IInv, TypeOK
  <1>3. ASSUME NEW c \in Calls, BeginCall(c) PROVE LifecycleStep
    <2>1. stop_requested' = TRUE /\ UNCHANGED StatusFields
      BY <1>3 DEF BeginCall, snapshot, StatusFields
    <2>2. CASE stop_requested
      BY <1>2, <2>1, <2>2, UnseenStep
    <2>3. CASE ~stop_requested
      <3>1. Phase' = Phase
        BY <2>1 DEF Phase, StatusFields
      <3>2. QED
        BY <2>1, <2>3, <3>1
           DEF LifecycleStep, Lifecycle!Next, Lifecycle!RequestStop
    <2>4. QED
      BY <2>2, <2>3
  <1>4. CASE ApiStep
    BY <1>1, <1>2, <1>4, ApiRefines
  <1>5. CASE WorkerStep
    BY <1>1, <1>2, <1>5, HostRefines, ClientRefines, OtherWorkerRefines
       DEF WorkerStep
  <1>6. CASE PeerStep
    BY <1>6, UnseenStep
       DEF PeerStep, PeerArrives, PeerSends, PeerCompletesPacket, PeerChanges,
           snapshot, StatusFields
  <1>7. CASE UNCHANGED vars
    BY <1>7, UnseenStep DEF vars, snapshot, StatusFields
  <1>8. QED
    BY <1>1, <1>3, <1>4, <1>5, <1>6, <1>7 DEF Next

\* The session manager implements SessionLifecycle: whatever the two threads
\* and the far end do, the status moves only from phase to phase, and nothing
\* of a session is shown after the stop that ended it.
THEOREM ImplementsSafety == Spec => KeepsLifecycle
  <1>1. Init => Lifecycle!Init
    <2>1. SUFFICES ASSUME Init PROVE Lifecycle!Init
      OBVIOUS
    <2>2. Phase = "stopped" /\ stop_requested = FALSE
      BY <2>1, PhaseShown DEF Init, SnapshotType, ShownPhases
    <2>3. QED
      BY <2>2 DEF Lifecycle!Init
  <1>2. IInv /\ IInv' /\ [Next]_vars => [Lifecycle!Next]_(Lifecycle!lifecycle)
    BY StepRefines DEF LifecycleStep
  <1>3. QED
    BY <1>1, <1>2, Inductive, PTL DEF Spec, KeepsLifecycle, Lifecycle!Safety
=============================================================================
