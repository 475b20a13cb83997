------------------------ MODULE TailnetRuntimeProofs ------------------------
(***************************************************************************)
(* Proofs about TailnetRuntime, for any set of callers and any bounds.     *)
(*                                                                         *)
(* IInv is TypeOK, the invariants that the runs check, and what these rest *)
(* on: no connection is registered while the runtime is stopped, so that   *)
(* giving an id back cannot sign it in; ids and dials are counted alike,   *)
(* every id ever given out is at most nextID, and no two ids name the same *)
(* connection, so that closing one leaves the others open.                 *)
(***************************************************************************)
EXTENDS TailnetRuntime, TLAPS

Registered ==
    /\ ~started => DOMAIN conns = {}
    /\ nextID = dials
    /\ \A id \in DOMAIN conns : conns[id] <= dials
    /\ \A i, j \in DOMAIN conns : conns[i] = conns[j] => i = j
    /\ \A c \in Callers : held[c].id <= nextID

Shown ==
    /\ StoppedIsOffline /\ ConnectedHasConnection /\ ErrorIsExplained

IInv ==
    /\ TypeOK /\ NoServerIsLeaked /\ Registered
    /\ ConnectionsAreRegistered /\ HeldIdIsOwn /\ Shown

-----------------------------------------------------------------------------
(* The status.                                                              *)

\* toStatusJSON gives a status of one of the seven states, never an error nor
\* connected.
LEMMA StatusOfFacts ==
    ASSUME NEW b \in BackendStates, NEW s \in BOOLEAN,
           NEW u \in 0..MaxServers, NEW e \in {"", "error"}
    PROVE  /\ StatusOf(b, s, u, e) \in Status
           /\ StatusOf(b, s, u, e).state \notin {"error", "connected"}
  BY DEF StatusOf, Status, BackendStates, ApiStates

\* An error keeps the rest of the status, and explains itself.
LEMMA FailFacts ==
    ASSUME NEW s \in Status
    PROVE  /\ Fail(s) \in Status
           /\ Fail(s).state = "error" /\ Fail(s).lastError = "error"
           /\ Fail(s).loginURL = s.loginURL /\ Fail(s).signedIn = s.signedIn
  BY DEF Fail, Status, ApiStates

\* What a refresh leaves is a status that is not connected, and an error only
\* with its message.
LEMMA RefreshedFacts ==
    ASSUME TypeOK, NEW s \in Status, Refreshed(s)
    PROVE  /\ status' \in Status /\ lastError' \in {"", "error"}
           /\ status'.state # "connected"
           /\ status'.state = "error" => status'.lastError # ""
  <1>1. CASE \E b \in BackendStates, self \in BOOLEAN :
               /\ status' = StatusOf(b, self, authURL, lastError)
               /\ UNCHANGED lastError
    BY <1>1, StatusOfFacts DEF TypeOK
  <1>2. CASE status' = Fail(s) /\ lastError' = "error"
    BY <1>2, FailFacts
  <1>3. QED
    BY <1>1, <1>2 DEF Refreshed

\* A requested sign-in is shown as one.
LEMMA RequestedFacts ==
    ASSUME TypeOK
    PROVE  Requested \in Status /\ Requested.state = "signing_in"
  BY DEF TypeOK, Requested, Status, ApiStates

\* A notification never shows a connection, nor an error without its message,
\* that was not shown before.
LEMMA ApplyFacts ==
    ASSUME TypeOK, NEW n \in Servers, NEW m \in Notifications, Apply(n, m)
    PROVE  /\ authURL' \in 0..MaxServers /\ status' \in Status
           /\ status'.state = "connected" => status.state = "connected"
           /\ status'.state = "error" =>
                status.state = "error" /\ status'.lastError = status.lastError
  <1> DEFINE news == m.news
             url  == IF m.url THEN n ELSE authURL
             read == CASE news.kind = "status" ->
                            StatusOf(news.backend, news.self, url, lastError)
                       [] news.kind = "state" ->
                            [status EXCEPT !.state = news.backend]
                       [] OTHER -> status
             shown == IF read.state \in {"signed_in", "signing_in", "connected",
                                         "retrying"}
                        THEN [read EXCEPT !.loginURL = url] ELSE read
             known == IF shown.state = "signed_in" /\ news.kind = "status"
                           /\ news.self
                        THEN [shown EXCEPT !.signedIn = TRUE] ELSE shown
  <1>1. /\ authURL' = url
        /\ status' = IF watcher = n /\ known.state = "signed_in"
                       THEN [known EXCEPT !.lastError = ""] ELSE known
    BY DEF Apply
  <1> HIDE DEF news, url, read, shown, known
  <1>2. url \in 0..MaxServers
    <2>1. n \in 0..MaxServers
      BY BoundsAssumption DEF Servers
    <2>2. authURL \in 0..MaxServers
      BY DEF TypeOK
    <2>3. QED
      BY <2>1, <2>2 DEF url
  <1>3. /\ read \in Status
        /\ read.state = "connected" => status.state = "connected"
        /\ read.state = "error" =>
             status.state = "error" /\ read.lastError = status.lastError
    <2>1. CASE news.kind = "status"
      <3>1. news.backend \in BackendStates /\ news.self \in BOOLEAN
        BY <2>1 DEF Notifications, NoStatus, news
      <3>2. lastError \in {"", "error"}
        BY DEF TypeOK
      <3>3. read = StatusOf(news.backend, news.self, url, lastError)
        BY <2>1 DEF read
      <3>4. QED
        BY <1>2, <3>1, <3>2, <3>3, StatusOfFacts
    <2>2. CASE news.kind = "state"
      <3>1. news.backend \in BackendStates
        BY <2>2 DEF Notifications, NoStatus, news
      <3>2. read = [status EXCEPT !.state = news.backend]
        BY <2>2 DEF read
      <3>3. QED
        BY <3>1, <3>2 DEF TypeOK, Status, BackendStates
    <2>3. CASE news.kind # "status" /\ news.kind # "state"
      <3>1. read = status
        BY <2>3 DEF read
      <3>2. QED
        BY <3>1 DEF TypeOK
    <2>4. QED
      BY <2>1, <2>2, <2>3
  <1>4. /\ shown \in Status
        /\ shown.state = read.state /\ shown.lastError = read.lastError
    BY <1>2, <1>3 DEF Status, shown
  <1>5. /\ known \in Status
        /\ known.state = shown.state /\ known.lastError = shown.lastError
    BY <1>4 DEF Status, known
  <1>6. /\ status' \in Status /\ status'.state = known.state
        /\ status'.state = "error" => status'.lastError = known.lastError
    BY <1>1, <1>5 DEF Status
  <1>7. QED
    BY <1>1, <1>2, <1>3, <1>4, <1>5, <1>6

-----------------------------------------------------------------------------
(* What a step leaves alone.                                                *)

\* The connections stay right when a step does not touch them and does not
\* stop the runtime.
LEMMA ConnectionsKept ==
    ASSUME IInv, UNCHANGED connections, started => started'
    PROVE  Registered' /\ ConnectionsAreRegistered' /\ HeldIdIsOwn'
  BY DEF IInv, connections, Registered, ConnectionsAreRegistered, HeldIdIsOwn

\* The current server stays the only one when a step touches none.
LEMMA ServersKept ==
    ASSUME IInv, UNCHANGED <<incarnation, tsnet>>
    PROVE  NoServerIsLeaked'
  BY DEF IInv, incarnation, NoServerIsLeaked

\* Where the server stays, the types of the rest decide.
LEMMA TypesKept ==
    ASSUME IInv, UNCHANGED <<incarnation, connections, tsnet>>,
           authURL' \in 0..MaxServers, lastError' \in {"", "error"},
           status' \in Status,
           goroutine' \in [Servers -> {"none", "next", "notify", "done"}]
    PROVE  TypeOK'
  BY DEF IInv, TypeOK, incarnation, connections

\* A server is not nil, and is in the range of the fields that name one.
LEMMA ServerFacts ==
    ASSUME NEW n \in Servers
    PROVE  n \in 0..MaxServers /\ n # 0
  BY BoundsAssumption DEF Servers

\* A start finds no runtime, and leaves one server open.
LEMMA StartFacts ==
    ASSUME IInv, NEW n \in Servers, StartLocked(n),
           authURL' \in 0..MaxServers, lastError' \in {"", "error"},
           status' \in Status
    PROVE  /\ TypeOK' /\ NoServerIsLeaked' /\ Registered'
           /\ ConnectionsAreRegistered' /\ HeldIdIsOwn' /\ StoppedIsOffline'
  <1>1. n \in 0..MaxServers /\ n # 0
    BY ServerFacts
  <1>2. TypeOK'
    <2>1. tsnet' \in [Servers -> {"new", "open", "closed"}]
      BY DEF IInv, TypeOK, StartLocked
    <2>2. goroutine' \in [Servers -> {"none", "next", "notify", "done"}]
      BY DEF IInv, TypeOK, StartLocked
    <2>3. QED
      BY <1>1, <2>1, <2>2 DEF IInv, TypeOK, StartLocked, connections
  <1>3. NoServerIsLeaked'
    <2>1. \A k \in Servers : tsnet[k] # "open"
      BY ServerFacts DEF IInv, NoServerIsLeaked, StartLocked
    <2>2. \A k \in Servers : tsnet'[k] = "open" <=> k = n
      BY <2>1 DEF IInv, TypeOK, StartLocked
    <2>3. QED
      BY <1>1, <2>2 DEF StartLocked, NoServerIsLeaked
  <1>4. Registered' /\ ConnectionsAreRegistered' /\ HeldIdIsOwn'
    BY ConnectionsKept DEF StartLocked
  <1>5. StoppedIsOffline'
    BY DEF StartLocked, StoppedIsOffline
  <1>6. QED
    BY <1>2, <1>3, <1>4, <1>5

\* Ids and dials are counted together, from 1.
LEMMA CountFacts ==
    ASSUME IInv
    PROVE  /\ nextID \in Nat /\ dials = nextID
           /\ \A id \in DOMAIN conns :
                /\ id \in Nat /\ 0 < id /\ id <= nextID
                /\ conns[id] \in Nat /\ conns[id] <= nextID
           /\ \A c \in Callers : held[c].id \in Nat /\ held[c].id <= nextID
  <1>1. /\ nextID \in 0..MaxDials /\ dials = nextID
        /\ DOMAIN conns \subseteq 1..nextID
        /\ \A id \in DOMAIN conns : conns[id] \in 1..MaxDials /\ conns[id] <= dials
        /\ \A c \in Callers : held[c].id \in 0..MaxDials /\ held[c].id <= nextID
    <2>1. nextID \in 0..MaxDials /\ DOMAIN conns \subseteq 1..nextID
      BY DEF IInv, TypeOK
    <2>2. \A c \in Callers : held[c].id \in 0..MaxDials
      BY DEF IInv, TypeOK
    <2>3. \A id \in DOMAIN conns : conns[id] \in 1..MaxDials
      BY DEF IInv, TypeOK, Dials
    <2>4. QED
      BY <2>1, <2>2, <2>3 DEF IInv, Registered
  <1>2. nextID \in Nat
    BY <1>1, BoundsAssumption
  <1>3. QED
    BY <1>1, <1>2, BoundsAssumption

-----------------------------------------------------------------------------
(* The initial state.                                                       *)

LEMMA InitInv == Init => IInv
  <1> SUFFICES ASSUME Init PROVE IInv
    OBVIOUS
  <1>1. DOMAIN conns = {}
    <2>1. conns = <<>>
      BY DEF Init
    <2>2. QED
      BY <2>1
  <1>2. TypeOK
    <2>1. status \in Status
      <3>1. 0 \in 0..MaxServers
        BY BoundsAssumption
      <3>2. status = StoppedStatus("not started")
        BY DEF Init
      <3>3. QED
        BY <3>1, <3>2 DEF StoppedStatus, Status, ApiStates
    <2>2. 0 \in 0..MaxServers /\ 0 \in 0..MaxDials
      BY BoundsAssumption
    <2>3. QED
      BY <1>1, <2>1, <2>2 DEF Init, TypeOK
  <1>3. NoServerIsLeaked
    BY ServerFacts DEF Init, NoServerIsLeaked
  <1>4. Registered
    <2>1. nextID = 0 /\ dials = 0 /\ \A c \in Callers : held[c].id = 0
      BY DEF Init
    <2>2. QED
      BY <1>1, <2>1 DEF Registered
  <1>5. ConnectionsAreRegistered
    BY <1>1 DEF Init, ConnectionsAreRegistered
  <1>6. HeldIdIsOwn
    BY <1>1 DEF HeldIdIsOwn
  <1>7. Shown
    BY DEF Init, StoppedStatus, Shown, StoppedIsOffline,
           ConnectedHasConnection, ErrorIsExplained
  <1>8. QED
    BY <1>2, <1>3, <1>4, <1>5, <1>6, <1>7 DEF IInv

-----------------------------------------------------------------------------
(* The steps that start and stop the runtime.                               *)

LEMMA StartFailsInv ==
    ASSUME IInv, StartFails
    PROVE  IInv'
  <1>1. PICK n \in Servers :
          Fresh(n) /\ tsnet' = [tsnet EXCEPT ![n] = "closed"]
            /\ authURL' \in {authURL, n}
    BY DEF StartFails
  <1>2. /\ UNCHANGED <<incarnation, connections, goroutine>> /\ ~started
        /\ lastError' = "error" /\ status' = Fail(status)
    BY DEF StartFails
  <1>3. /\ status' \in Status /\ status'.state = "error"
        /\ status'.lastError = "error" /\ status'.loginURL = status.loginURL
        /\ status'.signedIn = status.signedIn
    BY <1>2, FailFacts DEF IInv, TypeOK
  <1>4. TypeOK'
    <2>1. n \in 0..MaxServers
      BY ServerFacts
    <2>2. authURL' \in 0..MaxServers
      BY <1>1, <2>1 DEF IInv, TypeOK
    <2>3. tsnet' \in [Servers -> {"new", "open", "closed"}]
      BY <1>1 DEF IInv, TypeOK
    <2>4. QED
      BY <1>2, <1>3, <2>2, <2>3 DEF IInv, TypeOK, incarnation, connections
  <1>5. NoServerIsLeaked'
    <2>1. tsnet[n] # "open" /\ n # server
      BY <1>1, <1>2 DEF IInv, NoServerIsLeaked, Fresh, Servers
    <2>2. \A k \in Servers : tsnet'[k] = "open" <=> k = server
      BY <1>1, <2>1 DEF IInv, NoServerIsLeaked, TypeOK
    <2>3. QED
      BY <1>2, <2>2 DEF IInv, NoServerIsLeaked, incarnation
  <1>6. Registered' /\ ConnectionsAreRegistered' /\ HeldIdIsOwn'
    BY <1>2, ConnectionsKept DEF incarnation
  <1>7. Shown'
    BY <1>2, <1>3 DEF IInv, Shown, StoppedIsOffline, ConnectedHasConnection,
                      ErrorIsExplained, incarnation
  <1>8. QED
    BY <1>4, <1>5, <1>6, <1>7 DEF IInv

LEMMA StartLoginFailsInv ==
    ASSUME IInv, StartLoginFails
    PROVE  IInv'
  <1>1. PICK n \in Servers : StartLocked(n)
    BY DEF StartLoginFails
  <1>2. authURL' = authURL /\ lastError' = "error" /\ status' = Fail(status)
    BY DEF StartLoginFails
  <1>3. /\ status' \in Status /\ status'.state = "error"
        /\ status'.lastError = "error"
    BY <1>2, FailFacts DEF IInv, TypeOK
  <1>4. /\ TypeOK' /\ NoServerIsLeaked' /\ Registered'
        /\ ConnectionsAreRegistered' /\ HeldIdIsOwn' /\ StoppedIsOffline'
    <2>1. authURL' \in 0..MaxServers /\ lastError' \in {"", "error"}
      BY <1>2 DEF IInv, TypeOK
    <2>2. QED
      BY <1>1, <1>3, <2>1, StartFacts
  <1>5. ConnectedHasConnection' /\ ErrorIsExplained'
    BY <1>3 DEF ConnectedHasConnection, ErrorIsExplained
  <1>6. QED
    BY <1>4, <1>5 DEF IInv, Shown

LEMMA NetworkStartInv ==
    ASSUME IInv, NetworkStart
    PROVE  IInv'
  <1>1. PICK n \in Servers : StartLocked(n)
    BY DEF NetworkStart
  <1>2. authURL' = authURL /\ lastError' = lastError /\ status' = Requested
    BY DEF NetworkStart
  <1>3. status' \in Status /\ status'.state = "signing_in"
    BY <1>2, RequestedFacts DEF IInv
  <1>4. /\ TypeOK' /\ NoServerIsLeaked' /\ Registered'
        /\ ConnectionsAreRegistered' /\ HeldIdIsOwn' /\ StoppedIsOffline'
    <2>1. authURL' \in 0..MaxServers /\ lastError' \in {"", "error"}
      BY <1>2 DEF IInv, TypeOK
    <2>2. QED
      BY <1>1, <1>3, <2>1, StartFacts
  <1>5. ConnectedHasConnection' /\ ErrorIsExplained'
    BY <1>3 DEF ConnectedHasConnection, ErrorIsExplained
  <1>6. QED
    BY <1>4, <1>5 DEF IInv, Shown

LEMMA NetworkLoginInv ==
    ASSUME IInv, NetworkLogin
    PROVE  IInv'
  <1>1. PICK n \in Servers : StartLocked(n)
    BY DEF NetworkLogin
  <1>2. authURL' = authURL /\ Refreshed(Requested)
    BY DEF NetworkLogin
  <1>3. /\ status' \in Status /\ lastError' \in {"", "error"}
        /\ status'.state # "connected"
        /\ status'.state = "error" => status'.lastError # ""
    BY <1>2, RequestedFacts, RefreshedFacts DEF IInv
  <1>4. /\ TypeOK' /\ NoServerIsLeaked' /\ Registered'
        /\ ConnectionsAreRegistered' /\ HeldIdIsOwn' /\ StoppedIsOffline'
    <2>1. authURL' \in 0..MaxServers
      BY <1>2 DEF IInv, TypeOK
    <2>2. QED
      BY <1>1, <1>3, <2>1, StartFacts
  <1>5. ConnectedHasConnection' /\ ErrorIsExplained'
    BY <1>3 DEF ConnectedHasConnection, ErrorIsExplained
  <1>6. QED
    BY <1>4, <1>5 DEF IInv, Shown

\* Stopping closes the server and every registered connection.
LEMMA NetworkStopInv ==
    ASSUME IInv, NetworkStop
    PROVE  IInv'
  <1>1. /\ status' = StoppedStatus("stopped") /\ ~started'
        /\ server' = 0 /\ local' = 0 /\ watcher' = 0 /\ authURL' = 0
        /\ tsnet' = [n \in Servers |->
                       IF n = server THEN "closed" ELSE tsnet[n]]
        /\ UNCHANGED <<lastError, goroutine, dials, held, nextID>>
    BY DEF NetworkStop, StopLocked
  <1>2. /\ link' = [d \in Dials |->
                      IF \E id \in DOMAIN conns : conns[id] = d
                        THEN "closed" ELSE link[d]]
        /\ DOMAIN conns' = {}
    BY DEF NetworkStop, CloseConnections
  <1>3. TypeOK'
    <2>1. tsnet' \in [Servers -> {"new", "open", "closed"}]
      BY <1>1 DEF IInv, TypeOK
    <2>2. link' \in [Dials -> {"new", "open", "closed"}]
      BY <1>2 DEF IInv, TypeOK
    <2>3. status' \in Status
      BY BoundsAssumption, <1>1 DEF StoppedStatus, Status, ApiStates
    <2>4. {server', local', watcher', authURL'} \subseteq 0..MaxServers
      BY BoundsAssumption, <1>1
    <2>5. started' \in BOOLEAN
      BY DEF NetworkStop, StopLocked
    <2>6. QED
      BY <1>1, <1>2, <2>1, <2>2, <2>3, <2>4, <2>5 DEF IInv, TypeOK
  <1>4. NoServerIsLeaked'
    <2>1. \A n \in Servers : tsnet'[n] # "open" /\ n # 0
      BY <1>1 DEF IInv, NoServerIsLeaked, Servers
    <2>2. QED
      BY <1>1, <2>1 DEF NoServerIsLeaked
  <1>5. Registered'
    BY <1>1, <1>2 DEF IInv, Registered
  <1>6. ConnectionsAreRegistered'
    BY <1>2 DEF IInv, ConnectionsAreRegistered
  <1>7. HeldIdIsOwn'
    BY <1>2 DEF HeldIdIsOwn
  <1>8. Shown'
    BY <1>1 DEF StoppedStatus, Shown, StoppedIsOffline, ConnectedHasConnection,
                ErrorIsExplained
  <1>9. QED
    BY <1>3, <1>4, <1>5, <1>6, <1>7, <1>8 DEF IInv

-----------------------------------------------------------------------------
(* The steps of a running runtime.                                          *)

LEMMA NetworkRefreshInv ==
    ASSUME IInv, NetworkRefresh
    PROVE  IInv'
  <1>1. /\ UNCHANGED <<incarnation, authURL, connections, tsnet, goroutine>>
        /\ Refreshed(status)
    BY DEF NetworkRefresh
  <1>2. started /\ started'
    BY <1>1 DEF IInv, NoServerIsLeaked, NetworkRefresh, incarnation
  <1>3. /\ status' \in Status /\ lastError' \in {"", "error"}
        /\ status'.state # "connected"
        /\ status'.state = "error" => status'.lastError # ""
    BY <1>1, RefreshedFacts DEF IInv, TypeOK
  <1>4. TypeOK'
    BY <1>1, <1>3, TypesKept DEF IInv, TypeOK
  <1>5. NoServerIsLeaked'
    BY <1>1, ServersKept
  <1>6. Registered' /\ ConnectionsAreRegistered' /\ HeldIdIsOwn'
    BY <1>1, <1>2, ConnectionsKept
  <1>7. Shown'
    BY <1>2, <1>3 DEF Shown, StoppedIsOffline, ConnectedHasConnection,
                      ErrorIsExplained
  <1>8. QED
    BY <1>4, <1>5, <1>6, <1>7 DEF IInv

LEMMA NetworkRefreshStoppedInv ==
    ASSUME IInv, NetworkRefreshStopped
    PROVE  IInv'
  <1>1. /\ UNCHANGED <<incarnation, authURL, lastError, connections, tsnet,
                       goroutine>>
        /\ status' = [status EXCEPT !.state = "offline"]
    BY DEF NetworkRefreshStopped
  <1>2. /\ status' \in Status /\ status'.state = "offline"
        /\ status'.signedIn = status.signedIn
        /\ status'.loginURL = status.loginURL
    BY <1>1 DEF IInv, TypeOK, Status, ApiStates
  <1>3. TypeOK'
    BY <1>1, <1>2, TypesKept DEF IInv, TypeOK
  <1>4. NoServerIsLeaked'
    BY <1>1, ServersKept
  <1>5. Registered' /\ ConnectionsAreRegistered' /\ HeldIdIsOwn'
    BY <1>1, ConnectionsKept DEF incarnation
  <1>6. Shown'
    BY <1>1, <1>2 DEF IInv, Shown, StoppedIsOffline, ConnectedHasConnection,
                      ErrorIsExplained, incarnation
  <1>7. QED
    BY <1>3, <1>4, <1>5, <1>6 DEF IInv

LEMMA NetworkConnectPeerFailsInv ==
    ASSUME IInv, NetworkConnectPeerFails
    PROVE  IInv'
  <1>1. /\ UNCHANGED <<incarnation, authURL, connections, tsnet, goroutine>>
        /\ status' = Fail(status) /\ lastError' = "error"
    BY DEF NetworkConnectPeerFails
  <1>2. started'
    BY <1>1 DEF IInv, NoServerIsLeaked, NetworkConnectPeerFails, incarnation
  <1>3. /\ status' \in Status /\ status'.state = "error"
        /\ status'.lastError = "error"
    BY <1>1, FailFacts DEF IInv, TypeOK
  <1>4. TypeOK'
    BY <1>1, <1>3, TypesKept DEF IInv, TypeOK
  <1>5. NoServerIsLeaked'
    BY <1>1, ServersKept
  <1>6. Registered' /\ ConnectionsAreRegistered' /\ HeldIdIsOwn'
    BY <1>1, <1>2, ConnectionsKept
  <1>7. Shown'
    BY <1>2, <1>3 DEF Shown, StoppedIsOffline, ConnectedHasConnection,
                      ErrorIsExplained
  <1>8. QED
    BY <1>4, <1>5, <1>6, <1>7 DEF IInv

\* A new connection gets an id and a dial that nothing else has.
LEMMA NetworkConnectPeerInv ==
    ASSUME IInv, NEW c \in Callers, NetworkConnectPeer(c)
    PROVE  IInv'
  <1> DEFINE new == nextID + 1
  <1>1. /\ UNCHANGED <<incarnation, authURL, lastError, tsnet, goroutine>>
        /\ status' = [status EXCEPT !.state = "connected"]
        /\ link' = [link EXCEPT ![new] = "open"]
        /\ held' = [held EXCEPT ![c] = [id |-> new, dial |-> new]]
        /\ nextID' = new /\ dials' = new
    BY DEF NetworkConnectPeer, IInv, Registered
  <1>2. /\ new \in Dials /\ new \in 0..MaxDials
        /\ \A id \in DOMAIN conns : id # new /\ conns[id] # new
        /\ \A a \in Callers : held[a].id # new
    <2>1. nextID \in 0..MaxDials /\ dials < MaxDials /\ nextID = dials
      BY DEF IInv, TypeOK, Registered, NetworkConnectPeer
    <2>2. new \in Dials /\ new \in 0..MaxDials
      BY <2>1, BoundsAssumption DEF Dials
    <2>3. \A id \in DOMAIN conns : id # new
      BY CountFacts
    <2>4. \A id \in DOMAIN conns : conns[id] # new
      BY CountFacts
    <2>5. \A a \in Callers : held[a].id # new
      BY CountFacts
    <2>6. QED
      BY <2>2, <2>3, <2>4, <2>5
  <1>3. /\ DOMAIN conns' = DOMAIN conns \cup {new}
        /\ conns'[new] = new
        /\ \A id \in DOMAIN conns : conns'[id] = conns[id]
    <2>1. conns' = [id \in DOMAIN conns \cup {new} |->
                      IF id = new THEN new ELSE conns[id]]
      BY DEF NetworkConnectPeer, IInv, Registered
    <2>2. QED
      BY <1>2, <2>1
  <1> HIDE DEF new
  <1>4. started'
    BY <1>1 DEF IInv, NoServerIsLeaked, NetworkConnectPeer, incarnation
  <1>5. status' \in Status /\ status'.state = "connected"
    BY <1>1 DEF IInv, TypeOK, Status, ApiStates
  <1>6. TypeOK'
    <2>1. DOMAIN conns' \subseteq 1..nextID'
      <3>1. nextID \in Nat /\ DOMAIN conns \subseteq 1..nextID /\ new = nextID + 1
        BY CountFacts DEF new
      <3>2. QED
        BY <1>1, <1>3, <3>1
    <2>2. \A id \in DOMAIN conns' : conns'[id] \in Dials
      BY <1>2, <1>3 DEF IInv, TypeOK
    <2>3. link' \in [Dials -> {"new", "open", "closed"}]
      BY <1>1, <1>2 DEF IInv, TypeOK
    <2>4. held' \in [Callers -> [id : 0..MaxDials, dial : 0..MaxDials]]
      BY <1>1, <1>2 DEF IInv, TypeOK
    <2>5. QED
      BY <1>1, <1>2, <1>5, <2>1, <2>2, <2>3, <2>4
         DEF IInv, TypeOK, incarnation
  <1>7. NoServerIsLeaked'
    BY <1>1, ServersKept
  <1>8. Registered'
    <2>1. \A id \in DOMAIN conns' : conns'[id] <= dials'
      <3>1. new = dials + 1 /\ dials \in Nat
        BY CountFacts DEF new
      <3>2. \A id \in DOMAIN conns : conns[id] <= dials /\ conns[id] \in Nat
        BY CountFacts
      <3>3. QED
        BY <1>1, <1>3, <3>1, <3>2
    <2>2. \A i, j \in DOMAIN conns' : conns'[i] = conns'[j] => i = j
      BY <1>2, <1>3 DEF IInv, Registered
    <2>3. \A a \in Callers : held'[a].id <= nextID'
      <3>1. new = nextID + 1 /\ nextID \in Nat
        BY CountFacts DEF new
      <3>2. \A a \in Callers : held[a].id <= nextID /\ held[a].id \in Nat
        BY CountFacts
      <3>3. \A a \in Callers : held'[a] = IF a = c THEN [id |-> new, dial |-> new]
                                                  ELSE held[a]
        BY <1>1 DEF IInv, TypeOK
      <3>4. QED
        BY <1>1, <3>1, <3>2, <3>3
    <2>4. QED
      BY <1>1, <1>4, <2>1, <2>2, <2>3 DEF Registered
  <1>9. ConnectionsAreRegistered'
    <2>1. \A d \in Dials : link'[d] = IF d = new THEN "open" ELSE link[d]
      BY <1>1 DEF IInv, TypeOK
    <2>2. \A d \in Dials : (\E id \in DOMAIN conns' : conns'[id] = d)
                             <=> d = new \/ \E id \in DOMAIN conns : conns[id] = d
      BY <1>2, <1>3
    <2>3. QED
      BY <2>1, <2>2 DEF IInv, ConnectionsAreRegistered
  <1>10. HeldIdIsOwn'
    <2>1. SUFFICES ASSUME NEW a \in Callers, held'[a].id \in DOMAIN conns'
                   PROVE  conns'[held'[a].id] = held'[a].dial
      BY DEF HeldIdIsOwn
    <2>2. CASE a = c
      <3>1. held'[c] = [id |-> new, dial |-> new]
        BY <1>1 DEF IInv, TypeOK
      <3>2. QED
        BY <1>3, <2>2, <3>1
    <2>3. CASE a # c
      <3>1. held'[a] = held[a]
        BY <1>1, <2>3 DEF IInv, TypeOK
      <3>2. held[a].id \in DOMAIN conns
        BY <1>2, <1>3, <2>1, <3>1
      <3>3. QED
        BY <1>3, <3>1, <3>2 DEF IInv, HeldIdIsOwn
    <2>4. QED
      BY <2>2, <2>3
  <1>11. Shown'
    BY <1>3, <1>4, <1>5 DEF Shown, StoppedIsOffline, ConnectedHasConnection,
                            ErrorIsExplained
  <1>12. QED
    BY <1>6, <1>7, <1>8, <1>9, <1>10, <1>11 DEF IInv

\* An id that is given back takes its own connection with it and no other.
LEMMA NetworkDisconnectInv ==
    ASSUME IInv, NEW c \in Callers, NetworkDisconnect(c)
    PROVE  IInv'
  <1> DEFINE mine == held[c].id
  <1>1. /\ UNCHANGED <<incarnation, authURL, lastError, nextID, dials, tsnet,
                       goroutine>>
        /\ held' = [held EXCEPT ![c] = [id |-> 0, dial |-> 0]]
        /\ link' = [d \in Dials |->
                      IF mine \in DOMAIN conns /\ d = conns[mine]
                        THEN "closed" ELSE link[d]]
        /\ status' = IF mine \in DOMAIN conns
                       THEN [status EXCEPT !.state = "signed_in"] ELSE status
    BY DEF NetworkDisconnect, Release
  <1>2. /\ DOMAIN conns' = DOMAIN conns \ {mine}
        /\ \A id \in DOMAIN conns' : conns'[id] = conns[id]
    <2>1. conns' = [id \in DOMAIN conns \ {mine} |-> conns[id]]
      BY DEF NetworkDisconnect, Release
    <2>2. QED
      BY <2>1
  <1> HIDE DEF mine
  <1>3. mine \in DOMAIN conns => started
    BY DEF IInv, Registered
  <1>4. status' \in Status
    BY <1>1 DEF IInv, TypeOK, Status, ApiStates
  <1>5. \A a \in Callers : held'[a] = IF a = c THEN [id |-> 0, dial |-> 0]
                                               ELSE held[a]
    BY <1>1 DEF IInv, TypeOK
  <1>6. TypeOK'
    <2>1. /\ DOMAIN conns' \subseteq 1..nextID'
          /\ \A id \in DOMAIN conns' : conns'[id] \in Dials
      BY <1>1, <1>2 DEF IInv, TypeOK
    <2>2. link' \in [Dials -> {"new", "open", "closed"}]
      BY <1>1 DEF IInv, TypeOK
    <2>3. held' \in [Callers -> [id : 0..MaxDials, dial : 0..MaxDials]]
      <3>1. 0 \in 0..MaxDials
        BY BoundsAssumption
      <3>2. QED
        BY <1>1, <3>1 DEF IInv, TypeOK
    <2>4. QED
      BY <1>1, <1>4, <2>1, <2>2, <2>3 DEF IInv, TypeOK, incarnation
  <1>7. NoServerIsLeaked'
    BY <1>1, ServersKept
  <1>8. Registered'
    <2>1. ~started' => DOMAIN conns' = {}
      BY <1>1, <1>2 DEF IInv, Registered, incarnation
    <2>2. /\ \A id \in DOMAIN conns' : conns'[id] <= dials'
          /\ \A i, j \in DOMAIN conns' : conns'[i] = conns'[j] => i = j
      BY <1>1, <1>2 DEF IInv, Registered
    <2>3. \A a \in Callers : held'[a].id <= nextID'
      <3>1. nextID \in Nat /\ \A a \in Callers : held[a].id <= nextID
        BY CountFacts
      <3>2. QED
        BY <1>1, <1>5, <3>1
    <2>4. QED
      BY <1>1, <2>1, <2>2, <2>3 DEF IInv, Registered
  <1>9. ConnectionsAreRegistered'
    <2>1. SUFFICES ASSUME NEW d \in Dials
                   PROVE  link'[d] = "open" <=>
                            \E id \in DOMAIN conns' : conns'[id] = d
      BY DEF ConnectionsAreRegistered
    <2>2. CASE mine \in DOMAIN conns /\ d = conns[mine]
      <3>1. link'[d] = "closed"
        BY <1>1, <2>2
      <3>2. \A id \in DOMAIN conns' : conns'[id] # d
        BY <1>2, <2>2 DEF IInv, Registered
      <3>3. QED
        BY <3>1, <3>2
    <2>3. CASE ~(mine \in DOMAIN conns /\ d = conns[mine])
      <3>1. link'[d] = link[d]
        BY <1>1, <2>3
      <3>2. (\E id \in DOMAIN conns' : conns'[id] = d)
              <=> \E id \in DOMAIN conns : conns[id] = d
        BY <1>2, <2>3
      <3>3. QED
        BY <3>1, <3>2 DEF IInv, ConnectionsAreRegistered
    <2>4. QED
      BY <2>2, <2>3
  <1>10. HeldIdIsOwn'
    <2>1. SUFFICES ASSUME NEW a \in Callers, held'[a].id \in DOMAIN conns'
                   PROVE  conns'[held'[a].id] = held'[a].dial
      BY DEF HeldIdIsOwn
    <2>2. a # c
      <3>1. 0 \notin DOMAIN conns'
        BY <1>2, CountFacts
      <3>2. QED
        BY <1>5, <2>1, <3>1
    <2>3. QED
      BY <1>2, <1>5, <2>1, <2>2 DEF IInv, HeldIdIsOwn
  <1>11. Shown'
    <2>1. CASE mine \in DOMAIN conns
      <3>1. started' /\ status'.state = "signed_in"
        BY <1>1, <1>3, <2>1 DEF IInv, TypeOK, Status, incarnation
      <3>2. QED
        BY <3>1 DEF Shown, StoppedIsOffline, ConnectedHasConnection,
                    ErrorIsExplained
    <2>2. CASE mine \notin DOMAIN conns
      <3>1. status' = status /\ DOMAIN conns' = DOMAIN conns
        BY <1>1, <1>2, <2>2
      <3>2. QED
        BY <1>1, <3>1 DEF IInv, Shown, StoppedIsOffline,
                          ConnectedHasConnection, ErrorIsExplained, incarnation
    <2>3. QED
      BY <2>1, <2>2
  <1>12. QED
    BY <1>6, <1>7, <1>8, <1>9, <1>10, <1>11 DEF IInv

-----------------------------------------------------------------------------
(* The steps beside the exported functions.                                 *)

LEMMA UserLogfInv ==
    ASSUME IInv, NEW n \in Servers, UserLogf(n)
    PROVE  IInv'
  <1>1. /\ UNCHANGED <<incarnation, lastError, status, connections, tsnet,
                       goroutine>>
        /\ authURL' \in 0..MaxServers
    BY ServerFacts DEF UserLogf
  <1>2. TypeOK'
    BY <1>1, TypesKept DEF IInv, TypeOK
  <1>3. NoServerIsLeaked'
    BY <1>1, ServersKept
  <1>4. Registered' /\ ConnectionsAreRegistered' /\ HeldIdIsOwn'
    BY <1>1, ConnectionsKept DEF incarnation
  <1>5. Shown'
    BY <1>1 DEF IInv, Shown, StoppedIsOffline, ConnectedHasConnection,
                ErrorIsExplained, incarnation, connections
  <1>6. QED
    BY <1>2, <1>3, <1>4, <1>5 DEF IInv

\* A watcher that waits, breaks or ends only moves itself.
LEMMA WatcherMovesInv ==
    ASSUME IInv,
           UNCHANGED <<incarnation, authURL, lastError, status, connections,
                       tsnet>>,
           goroutine' \in [Servers -> {"none", "next", "notify", "done"}]
    PROVE  IInv'
  <1>1. TypeOK'
    BY TypesKept DEF IInv, TypeOK
  <1>2. NoServerIsLeaked'
    BY ServersKept
  <1>3. Registered' /\ ConnectionsAreRegistered' /\ HeldIdIsOwn'
    BY ConnectionsKept DEF incarnation
  <1>4. Shown'
    BY DEF IInv, Shown, StoppedIsOffline, ConnectedHasConnection,
           ErrorIsExplained, incarnation, connections
  <1>5. QED
    BY <1>1, <1>2, <1>3, <1>4 DEF IInv

\* A notification is applied to a runtime that is not stopped, or not at all.
LEMMA WatcherAppliesInv ==
    ASSUME IInv, NEW n \in Servers, WatcherApplies(n)
    PROVE  IInv'
  <1>1. UNCHANGED <<incarnation, lastError, connections, tsnet>>
    BY DEF WatcherApplies
  <1>2. CASE local = 0
    <2>1. WatcherDone(n)
      BY <1>2 DEF WatcherApplies
    <2>2. /\ UNCHANGED <<authURL, status>>
          /\ goroutine' \in [Servers -> {"none", "next", "notify", "done"}]
      BY <2>1 DEF WatcherDone, IInv, TypeOK
    <2>3. QED
      BY <1>1, <2>2, WatcherMovesInv
  <1>3. CASE local # 0
    <2>1. PICK m \in Notifications : Apply(n, m)
      BY <1>3 DEF WatcherApplies
    <2>2. /\ authURL' \in 0..MaxServers /\ status' \in Status
          /\ status'.state = "connected" => status.state = "connected"
          /\ status'.state = "error" =>
               status.state = "error" /\ status'.lastError = status.lastError
      BY <2>1, ApplyFacts DEF IInv
    <2>3. goroutine' \in [Servers -> {"none", "next", "notify", "done"}]
      BY <1>3 DEF WatcherApplies, IInv, TypeOK
    <2>4. TypeOK'
      BY <1>1, <2>2, <2>3, TypesKept DEF IInv, TypeOK
    <2>5. NoServerIsLeaked'
      BY <1>1, ServersKept
    <2>6. Registered' /\ ConnectionsAreRegistered' /\ HeldIdIsOwn'
      BY <1>1, ConnectionsKept DEF incarnation
    <2>7. started'
      BY <1>1, <1>3 DEF IInv, NoServerIsLeaked, incarnation
    <2>8. DOMAIN conns' = DOMAIN conns
      BY <1>1 DEF connections
    <2>9. Shown'
      BY <2>2, <2>7, <2>8 DEF IInv, Shown, StoppedIsOffline,
                              ConnectedHasConnection, ErrorIsExplained
    <2>10. QED
      BY <2>4, <2>5, <2>6, <2>9 DEF IInv
  <1>4. QED
    BY <1>2, <1>3

-----------------------------------------------------------------------------
(* Every step.                                                              *)

LEMMA StepInv == IInv /\ [Next]_vars => IInv'
  <1> SUFFICES ASSUME IInv, [Next]_vars PROVE IInv'
    OBVIOUS
  <1>1. CASE StartFails
    BY <1>1, StartFailsInv
  <1>2. CASE StartLoginFails
    BY <1>2, StartLoginFailsInv
  <1>3. CASE NetworkStart
    BY <1>3, NetworkStartInv
  <1>4. CASE NetworkLogin
    BY <1>4, NetworkLoginInv
  <1>5. CASE NetworkRefresh
    BY <1>5, NetworkRefreshInv
  <1>6. CASE NetworkRefreshStopped
    BY <1>6, NetworkRefreshStoppedInv
  <1>7. CASE NetworkStop
    BY <1>7, NetworkStopInv
  <1>8. CASE NetworkConnectPeerFails
    BY <1>8, NetworkConnectPeerFailsInv
  <1>9. ASSUME NEW c \in Callers, NetworkConnectPeer(c)
        PROVE  IInv'
    BY <1>9, NetworkConnectPeerInv
  <1>10. ASSUME NEW c \in Callers, NetworkDisconnect(c)
         PROVE  IInv'
    BY <1>10, NetworkDisconnectInv
  <1>11. ASSUME NEW n \in Servers, UserLogf(n)
         PROVE  IInv'
    BY <1>11, UserLogfInv
  <1>12. ASSUME NEW n \in Servers,
                WatcherNext(n) \/ WatcherBreaks(n) \/ WatcherEnds(n)
         PROVE  IInv'
    <2>1. /\ UNCHANGED <<incarnation, authURL, lastError, status, connections,
                         tsnet>>
          /\ goroutine' \in [Servers -> {"none", "next", "notify", "done"}]
      BY <1>12 DEF WatcherNext, WatcherBreaks, WatcherEnds, IInv, TypeOK
    <2>2. QED
      BY <2>1, WatcherMovesInv
  <1>13. ASSUME NEW n \in Servers, WatcherApplies(n)
         PROVE  IInv'
    BY <1>13, WatcherAppliesInv
  <1>14. CASE UNCHANGED vars
    <2>1. UNCHANGED <<incarnation, authURL, lastError, status, connections,
                      tsnet, goroutine>>
      BY <1>14 DEF vars
    <2>2. QED
      BY <2>1, WatcherMovesInv DEF IInv, TypeOK
  <1>15. QED
    BY <1>1, <1>2, <1>3, <1>4, <1>5, <1>6, <1>7, <1>8, <1>9, <1>10, <1>11,
       <1>12, <1>13, <1>14 DEF Next, Exported, Watcher

-----------------------------------------------------------------------------
(* The theorems.                                                            *)

\* The invariant holds in every reachable state.
THEOREM Inductive == Spec => []IInv
  BY InitInv, StepInv, PTL DEF Spec

\* Every variable of the runtime keeps its type.
THEOREM TypeCorrect == Spec => []TypeOK
  <1>1. IInv => TypeOK
    BY DEF IInv
  <1>2. QED
    BY <1>1, Inductive, PTL

\* Whatever step of startLocked fails and however often the runtime is stopped
\* and started, no tsnet server runs but the current one.
THEOREM OnlyOneServer == Spec => []NoServerIsLeaked
  <1>1. IInv => NoServerIsLeaked
    BY DEF IInv
  <1>2. QED
    BY <1>1, Inductive, PTL

\* A notification that a watcher received before the stop and applies after it,
\* or an id given back after it, does not put the status back.
THEOREM StoppedStaysOffline == Spec => []StoppedIsOffline
  <1>1. IInv => StoppedIsOffline
    BY DEF IInv, Shown
  <1>2. QED
    BY <1>1, Inductive, PTL

\* The runtime knows exactly the connections that are open.
THEOREM NoConnectionIsForgotten == Spec => []ConnectionsAreRegistered
  <1>1. IInv => ConnectionsAreRegistered
    BY DEF IInv
  <1>2. QED
    BY <1>1, Inductive, PTL

\* Network_Disconnect, Network_Send and Network_Receive of an id that outlived
\* a stop never reach another caller's connection.
THEOREM IdsAreNotReused == Spec => []HeldIdIsOwn
  <1>1. IInv => HeldIdIsOwn
    BY DEF IInv
  <1>2. QED
    BY <1>1, Inductive, PTL

\* The status does not claim a connection that is not there.
THEOREM NoPhantomConnection == Spec => []ConnectedHasConnection
  <1>1. IInv => ConnectedHasConnection
    BY DEF IInv, Shown
  <1>2. QED
    BY <1>1, Inductive, PTL

\* An error is never shown without its message.
THEOREM ErrorsAreExplained == Spec => []ErrorIsExplained
  <1>1. IInv => ErrorIsExplained
    BY DEF IInv, Shown
  <1>2. QED
    BY <1>1, Inductive, PTL
=============================================================================
