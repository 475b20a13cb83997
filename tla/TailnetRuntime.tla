--------------------------- MODULE TailnetRuntime ---------------------------
(***************************************************************************)
(* The embedded tailnet runtime (network/capi/bridge.go): one process-wide *)
(* runtimeState behind a mutex, exported to C.                             *)
(*                                                                         *)
(* Every exported function holds r.mu from its first to its last access to *)
(* the state, however long the network takes, so each is one step.  What   *)
(* is not inside these steps: the goroutine that watchIPNLocked starts for *)
(* every tsnet server, which takes the mutex only after it has received a  *)
(* notification, and UserLogf, which writes authURL without the mutex.     *)
(* Network_Send and Network_Receive change nothing, and neither do the     *)
(* getters; screencrab_network_* are other names of the same functions.    *)
(*                                                                         *)
(* Servers are numbered in the order they are started; 0 is nil, or no URL.*)
(* A login URL is known by the server it belongs to.                       *)
(***************************************************************************)
EXTENDS Naturals

CONSTANTS
    Callers,        \* the users of the C interface that hold a connection id
    MaxServers,     \* bound: how many tsnet servers are started
    MaxDials        \* bound: how many connections are dialled

ASSUME BoundsAssumption == MaxServers \in Nat /\ MaxDials \in Nat

VARIABLES
    \* runtimeState; started, server and local are one: see StartLocked
    started, server, local, watcher,
    authURL, lastError, status, nextID, conns,
    \* the tsnet servers, their watcher goroutines and the dialled connections
    tsnet, goroutine, dials, link,
    \* what the callers hold: the id that Network_ConnectPeer returned
    held

incarnation == <<started, server, local, watcher>>
connections == <<nextID, conns, dials, link, held>>
vars == <<incarnation, authURL, lastError, status, connections, tsnet, goroutine>>

Servers == 1..MaxServers
Dials   == 1..MaxDials

ApiStates == {"offline", "signed_out", "signing_in", "signed_in", "connected",
              "retrying", "error"}

\* The states of the backend: one of each kind that the code tells apart.
BackendStates == {"NeedsLogin", "Starting", "Stopped", "Running",
                  "InUseOtherUser"}

\* A notification: it may bring a URL, and a whole status or just a state.
NoStatus == [kind |-> "none"]
Notifications ==
    [url : BOOLEAN, news : [kind : {"state"}, backend : BackendStates]
                             \cup [kind : {"status"}, backend : BackendStates,
                                   self : BOOLEAN]
                             \cup {NoStatus}]

-----------------------------------------------------------------------------
(* The status.                                                              *)

StoppedStatus(e) ==
    [state |-> "offline", loginURL |-> 0, lastError |-> e, signedIn |-> FALSE]

\* toStatusJSON.  A state it does not know counts as signed in.
StatusOf(backend, self, url, e) ==
    [state |-> CASE backend = "NeedsLogin" -> "signing_in"
                 [] backend = "Starting" -> "retrying"
                 [] backend = "Stopped" -> "offline"
                 [] OTHER -> "signed_in",
     loginURL |-> url, lastError |-> e,
     signedIn |-> self /\ backend = "Running"]

\* Mutant of Fail: the message is not copied to the status.
FailSilently(s) == [s EXCEPT !.state = "error"]

\* An error is kept in lastError and shown in the status.
Fail(s) == [s EXCEPT !.state = "error", !.lastError = "error"]

-----------------------------------------------------------------------------
Init ==
    /\ started = FALSE /\ server = 0 /\ local = 0 /\ watcher = 0
    /\ authURL = 0 /\ lastError = ""
    /\ status = StoppedStatus("not started")
    /\ nextID = 0 /\ conns = <<>>
    /\ tsnet = [n \in Servers |-> "new"]
    /\ goroutine = [n \in Servers |-> "none"]
    /\ dials = 0 /\ link = [d \in Dials |-> "new"]
    /\ held = [c \in Callers |-> [id |-> 0, dial |-> 0]]

-----------------------------------------------------------------------------
(* startLocked, from Network_Start and Network_Login.                       *)

\* The next server to be started.
Fresh(n) == tsnet[n] = "new" /\ \A m \in 1..(n - 1) : tsnet[m] # "new"

\* Mutant of StartFails: the server is left running when it cannot be watched.
StartFailsOpen ==
    /\ ~started
    /\ \E n \in Servers :
         Fresh(n) /\ tsnet' = [tsnet EXCEPT ![n] = "open"]
    /\ lastError' = "error" /\ status' = Fail(status)
    /\ UNCHANGED <<incarnation, authURL, connections, goroutine>>

\* The server does not start, or it has no client or cannot be watched and is
\* closed again.  It may have logged a URL by then.
StartFails ==
    /\ ~started
    /\ \E n \in Servers :
         /\ Fresh(n) /\ tsnet' = [tsnet EXCEPT ![n] = "closed"]
         /\ authURL' \in {authURL, n}
    /\ lastError' = "error" /\ status' = Fail(status)
    /\ UNCHANGED <<incarnation, connections, goroutine>>

\* The server runs, and the goroutine that watches it.
StartLocked(n) ==
    /\ ~started /\ Fresh(n)
    /\ tsnet' = [tsnet EXCEPT ![n] = "open"]
    /\ server' = n /\ local' = n /\ started' = TRUE
    /\ watcher' = n
    /\ goroutine' = [goroutine EXCEPT ![n] = "next"]
    /\ UNCHANGED connections

\* The server runs, but the sign-in cannot be requested.
StartLoginFails ==
    /\ \E n \in Servers : StartLocked(n)
    /\ lastError' = "error" /\ status' = Fail(status)
    /\ UNCHANGED authURL

\* The status once the sign-in has been requested.
Requested == [status EXCEPT !.state = "signing_in", !.lastError = "",
                            !.loginURL = authURL]

NetworkStart ==
    /\ \E n \in Servers : StartLocked(n)
    /\ status' = Requested
    /\ UNCHANGED <<authURL, lastError>>

-----------------------------------------------------------------------------
(* refreshLocked.                                                           *)

\* With a running server, where the status was s.
Refreshed(s) ==
    \/ \E b \in BackendStates, self \in BOOLEAN :
         /\ status' = StatusOf(b, self, authURL, lastError)
         /\ UNCHANGED lastError
    \/ /\ status' = Fail(s)
       /\ lastError' = "error"

\* Network_Login: a first start that succeeds is followed by a refresh.
NetworkLogin ==
    /\ \E n \in Servers : StartLocked(n)
    /\ Refreshed(Requested)
    /\ UNCHANGED authURL

\* Network_Refresh, Network_Reconnect, and Network_Login of a started runtime.
NetworkRefresh ==
    /\ local # 0
    /\ Refreshed(status)
    /\ UNCHANGED <<incarnation, authURL, connections, tsnet, goroutine>>

\* Network_Refresh without a runtime; Network_Reconnect then does nothing.
NetworkRefreshStopped ==
    /\ local = 0
    /\ status' = [status EXCEPT !.state = "offline"]
    /\ UNCHANGED <<incarnation, authURL, lastError, connections, tsnet,
                   goroutine>>

-----------------------------------------------------------------------------
(* stopLocked, from Network_Stop and, after the sign-out, Network_Logout.   *)

StopLocked ==
    /\ tsnet' = [n \in Servers |-> IF n = server THEN "closed" ELSE tsnet[n]]
    /\ started' = FALSE /\ server' = 0 /\ local' = 0 /\ watcher' = 0
    /\ authURL' = 0
    /\ status' = StoppedStatus("stopped")
    /\ UNCHANGED <<lastError, goroutine, dials, held>>

CloseConnections ==
    /\ link' = [d \in Dials |-> IF \E id \in DOMAIN conns : conns[id] = d
                                  THEN "closed" ELSE link[d]]
    /\ conns' = <<>>

\* Mutant of NetworkStop: the connections are forgotten without being closed.
NetworkStopDropsConnections ==
    StopLocked /\ conns' = <<>> /\ UNCHANGED <<nextID, link>>

\* Mutant of NetworkStop: the ids start again.
NetworkStopResetsIds ==
    StopLocked /\ CloseConnections /\ nextID' = 0

NetworkStop == StopLocked /\ CloseConnections /\ UNCHANGED nextID

-----------------------------------------------------------------------------
(* Connections.                                                             *)

Idle(c) == held[c].id = 0

\* Mutant of NetworkConnectPeer: the connection is stored before nextID++.
NetworkConnectPeerZero(c) ==
    /\ local # 0 /\ Idle(c) /\ dials < MaxDials
    /\ dials' = dials + 1
    /\ link' = [link EXCEPT ![dials + 1] = "open"]
    /\ nextID' = nextID + 1
    /\ conns' = [id \in DOMAIN conns \cup {nextID} |->
                   IF id = nextID THEN dials + 1 ELSE conns[id]]
    /\ held' = [held EXCEPT ![c] = [id |-> nextID + 1, dial |-> dials + 1]]
    /\ status' = [status EXCEPT !.state = "connected"]
    /\ UNCHANGED <<incarnation, authURL, lastError, tsnet, goroutine>>

\* Network_ConnectPeer; the id is the one of the caller from now on.
NetworkConnectPeer(c) ==
    /\ local # 0 /\ Idle(c) /\ dials < MaxDials
    /\ dials' = dials + 1
    /\ link' = [link EXCEPT ![dials + 1] = "open"]
    /\ nextID' = nextID + 1
    /\ conns' = [id \in DOMAIN conns \cup {nextID + 1} |->
                   IF id = nextID + 1 THEN dials + 1 ELSE conns[id]]
    /\ held' = [held EXCEPT ![c] = [id |-> nextID + 1, dial |-> dials + 1]]
    /\ status' = [status EXCEPT !.state = "connected"]
    /\ UNCHANGED <<incarnation, authURL, lastError, tsnet, goroutine>>

NetworkConnectPeerFails ==
    /\ local # 0
    /\ status' = Fail(status) /\ lastError' = "error"
    /\ UNCHANGED <<incarnation, authURL, connections, tsnet, goroutine>>

\* Network_Disconnect: the caller gives its id back.  The connection is closed
\* unless the runtime has been stopped since, which has closed it.
Release(c) ==
    /\ ~Idle(c)
    /\ held' = [held EXCEPT ![c] = [id |-> 0, dial |-> 0]]
    /\ conns' = [id \in DOMAIN conns \ {held[c].id} |-> conns[id]]
    /\ link' = [d \in Dials |->
                  IF held[c].id \in DOMAIN conns /\ d = conns[held[c].id]
                    THEN "closed" ELSE link[d]]
    /\ UNCHANGED <<incarnation, authURL, lastError, nextID, dials, tsnet,
                   goroutine>>

\* Mutant of NetworkDisconnect: the state stays connected.
NetworkDisconnectStays(c) == Release(c) /\ UNCHANGED status

NetworkDisconnect(c) ==
    /\ Release(c)
    /\ status' = IF held[c].id \in DOMAIN conns
                   THEN [status EXCEPT !.state = "signed_in"] ELSE status

-----------------------------------------------------------------------------
(* What runs beside the exported functions.                                 *)

\* UserLogf: a line of the log that speaks of a login is taken for its URL.
UserLogf(n) ==
    /\ tsnet[n] = "open"
    /\ authURL' = n
    /\ UNCHANGED <<incarnation, lastError, status, connections, tsnet,
                   goroutine>>

\* The goroutine of watchIPNLocked: watcher.Next() returns a notification.
\* What it says is chosen when it is applied; nothing looks at it before.
WatcherNext(n) ==
    /\ goroutine[n] = "next" /\ tsnet[n] = "open"
    /\ goroutine' = [goroutine EXCEPT ![n] = "notify"]
    /\ UNCHANGED <<incarnation, authURL, lastError, status, connections, tsnet>>

\* The bus breaks.  The runtime keeps its watcher, and never watches again.
WatcherBreaks(n) ==
    /\ goroutine[n] = "next" /\ tsnet[n] = "open"
    /\ goroutine' = [goroutine EXCEPT ![n] = "done"]
    /\ UNCHANGED <<incarnation, authURL, lastError, status, connections, tsnet>>

\* Mutant of WatcherEnds: an error of Next() is retried.
WatcherRetries(n) ==
    /\ goroutine[n] = "next" /\ tsnet[n] = "closed"
    /\ UNCHANGED vars

\* Next() returns an error because the watcher and its server were closed.
WatcherEnds(n) ==
    /\ goroutine[n] = "next" /\ tsnet[n] = "closed"
    /\ goroutine' = [goroutine EXCEPT ![n] = "done"]
    /\ UNCHANGED <<incarnation, authURL, lastError, status, connections, tsnet>>

\* The notification m is applied to whatever runtime there is by now.
Apply(n, m) ==
    LET news == m.news
        url  == IF m.url THEN n ELSE authURL
        read == CASE news.kind = "status" ->
                       StatusOf(news.backend, news.self, url, lastError)
                  [] news.kind = "state" ->
                       [status EXCEPT !.state = news.backend]
                  [] OTHER -> status
        shown == IF read.state \in {"signed_in", "signing_in", "connected",
                                    "retrying"}
                   THEN [read EXCEPT !.loginURL = url] ELSE read
        known == IF shown.state = "signed_in" /\ news.kind = "status" /\ news.self
                   THEN [shown EXCEPT !.signedIn = TRUE] ELSE shown
    IN /\ authURL' = url
       /\ status' = IF watcher = n /\ known.state = "signed_in"
                      THEN [known EXCEPT !.lastError = ""] ELSE known

WatcherDone(n) ==
    /\ goroutine' = [goroutine EXCEPT ![n] = "done"]
    /\ UNCHANGED <<authURL, status>>

\* Mutant of WatcherApplies: it is not asked whether there is a runtime.
WatcherAppliesAlways(n) ==
    /\ goroutine[n] = "notify"
    /\ goroutine' = [goroutine EXCEPT ![n] = "next"]
    /\ \E m \in Notifications : Apply(n, m)
    /\ UNCHANGED <<incarnation, lastError, connections, tsnet>>

WatcherApplies(n) ==
    /\ goroutine[n] = "notify"
    /\ IF local = 0
         THEN WatcherDone(n)
         ELSE /\ goroutine' = [goroutine EXCEPT ![n] = "next"]
              /\ \E m \in Notifications : Apply(n, m)
    /\ UNCHANGED <<incarnation, lastError, connections, tsnet>>

Watcher(n) == WatcherNext(n) \/ WatcherBreaks(n) \/ WatcherEnds(n)
                \/ WatcherApplies(n)

-----------------------------------------------------------------------------
Exported ==
    \/ StartFails \/ StartLoginFails \/ NetworkStart \/ NetworkLogin
    \/ NetworkRefresh \/ NetworkRefreshStopped \/ NetworkStop
    \/ NetworkConnectPeerFails
    \/ \E c \in Callers : NetworkConnectPeer(c) \/ NetworkDisconnect(c)

Next == Exported \/ \E n \in Servers : UserLogf(n) \/ Watcher(n)

\* The goroutines are scheduled; Next() returns once its server is closed.
Fairness == \A n \in Servers : WF_vars(WatcherEnds(n) \/ WatcherApplies(n))

Spec == Init /\ [][Next]_vars /\ Fairness

-----------------------------------------------------------------------------
(* Properties.                                                              *)

Status ==
    [state : ApiStates \cup BackendStates, loginURL : 0..MaxServers,
     lastError : {"", "error", "stopped", "not started"}, signedIn : BOOLEAN]

\* Every variable has its type.  A state of the status may be one of the
\* backend's words: a notification of a state stores it as it is.
TypeOK ==
    /\ started \in BOOLEAN
    /\ {server, local, watcher, authURL} \subseteq 0..MaxServers
    /\ lastError \in {"", "error"} /\ status \in Status
    /\ nextID \in 0..MaxDials /\ dials \in 0..MaxDials
    /\ DOMAIN conns \subseteq 1..nextID /\ \A id \in DOMAIN conns : conns[id] \in Dials
    /\ tsnet \in [Servers -> {"new", "open", "closed"}]
    /\ goroutine \in [Servers -> {"none", "next", "notify", "done"}]
    /\ link \in [Dials -> {"new", "open", "closed"}]
    /\ held \in [Callers -> [id : 0..MaxDials, dial : 0..MaxDials]]

\* No tsnet server runs but the current one, whatever step of a start fails,
\* and all fields agree on which one that is.
NoServerIsLeaked ==
    /\ \A n \in Servers : tsnet[n] = "open" <=> n = server
    /\ local = server /\ watcher = server
    /\ started <=> server # 0

\* A stopped runtime looks stopped: no notification that arrives late puts a
\* sign-in, a URL or a running state back into its status.
StoppedIsOffline ==
    ~started => /\ status.state \in {"offline", "error"}
                /\ ~status.signedIn /\ status.loginURL = 0

\* The open connections are the registered ones: none outlives its entry, not
\* even when the runtime is stopped, and no entry is of a closed connection.
ConnectionsAreRegistered ==
    \A d \in Dials : link[d] = "open" <=> \E id \in DOMAIN conns : conns[id] = d

\* A caller's id names its own connection or none: after a restart it is not
\* the id of somebody else's connection.
HeldIdIsOwn ==
    \A c \in Callers :
        held[c].id \in DOMAIN conns => conns[held[c].id] = held[c].dial

\* The status says connected only while there is a connection.
ConnectedHasConnection == status.state = "connected" => DOMAIN conns # {}

\* An error in the status is explained there.
ErrorIsExplained == status.state = "error" => status.lastError # ""

\* The goroutine of a server that has been closed ends.
WatchersEnd ==
    \A n \in Servers : tsnet[n] = "closed" ~> goroutine[n] \in {"none", "done"}

=============================================================================
