-------------------------- MODULE SessionLifecycle --------------------------
(***************************************************************************)
(* What the engine promises about a session, as a user interface sees it   *)
(* in the fields mode, transport_state, session_active and capture_active  *)
(* of a SessionSnapshot (session_manager.h).  The interface asks for a     *)
(* host, a client or a stop; a session goes through the phases of its mode *)
(* in order; and after a stop it is over: nothing but a new start leads    *)
(* out of "stopped" again.                                                 *)
(***************************************************************************)

VARIABLES
    phase,     \* what the snapshot shows
    stopping   \* a stop was requested and nothing has been started since

lifecycle == <<phase, stopping>>

HostPhases   == {"host_starting", "host_listening", "host_serving"}
ClientPhases == {"client_connecting", "client_serving", "client_ended"}
Phases == {"stopped"} \cup HostPhases \cup ClientPhases

Init == phase = "stopped" /\ stopping = FALSE

\* stop() is called, by itself or at the beginning of a start.
RequestStop == ~stopping /\ stopping' = TRUE /\ UNCHANGED phase

\* The stop is complete: whatever the session was doing, it is over.
Stopped == stopping /\ phase # "stopped" /\ phase' = "stopped"
             /\ UNCHANGED stopping

Start == /\ phase = "stopped" /\ stopping
         /\ phase' \in {"host_starting", "client_connecting"}
         /\ stopping' = FALSE

\* The steps of a session itself.  A stop does not undo them at once, so they
\* may still be seen while the stop is under way.
Moves ==
    { <<"host_starting", "host_listening">>,
      <<"host_listening", "host_serving">>,
      <<"host_serving", "host_listening">>,
      <<"client_connecting", "client_serving">>,
      <<"client_serving", "client_ended">> }

Progress == <<phase, phase'>> \in Moves /\ UNCHANGED stopping

Next == RequestStop \/ Stopped \/ Start \/ Progress

Safety == Init /\ [][Next]_lifecycle
=============================================================================
