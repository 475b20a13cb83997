----------------------- MODULE WindowsDashboardProofs -----------------------
(***************************************************************************)
(* Proofs about WindowsDashboard, for any number of refreshes under way and*)
(* of changes of the status, and whatever the build makes of a second lock.*)
(* The properties are inductive together: no strengthening is needed.      *)
(***************************************************************************)
EXTENDS WindowsDashboard, TLAPS

IInv == TypeOK /\ HandleIsLive /\ BusyMeansOperation

\* What the engine's variables may be.
NativeOK(l, b, p) == /\ l \in [Functions -> {"untried", "loaded", "missing", "broken"}]
                     /\ b \in Copies
                     /\ p \in {"running", "hung", "crashed"}

-----------------------------------------------------------------------------
(* The engine.                                                             *)

\* A function is tried at most once, and is then loaded or cannot be.
LEMMA LoadFacts ==
    ASSUME NEW functions \in [Functions -> {"untried", "loaded", "missing", "broken"}], NEW f \in Functions
    PROVE  Load(functions, f) \subseteq [Functions -> {"untried", "loaded", "missing", "broken"}]
  BY DEF Load

\* The copy of the status is of a version of it, or says that it could not be read.
LEMMA CopyFacts ==
    ASSUME TypeOK, NEW d \in BOOLEAN
    PROVE  [runtime |-> Failed, decodes |-> d] \in Copies /\ [runtime |-> version, decodes |-> d] \in Copies
  <1>1. Failed \in Failed..MaxChanges /\ version \in Failed..MaxChanges
    BY ChangesAssumption DEF TypeOK, Failed
  <1>2. QED
    BY <1>1, Zenon DEF Copies

\* An error is stored as a copy that could not be read.
LEMMA UpdateErrorType ==
    ASSUME TypeOK, NEW functions \in [Functions -> {"untried", "loaded", "missing", "broken"}], NEW f \in Functions,
           UpdateError(functions, f)
    PROVE  NativeOK(library', bridge', process')
  <1>1. library' \in [Functions -> {"untried", "loaded", "missing", "broken"}]
    BY LoadFacts DEF UpdateError
  <1>2. (library'[f] # "broken") \in BOOLEAN
    OBVIOUS
  <1>3. bridge' \in Copies
    BY <1>2, CopyFacts, Zenon DEF UpdateError
  <1>4. process' \in {"running", "hung", "crashed"}
    BY DEF UpdateError, TypeOK
  <1>5. QED
    BY <1>1, <1>3, <1>4 DEF NativeOK

\* Each way a call of NetworkBridge may end.
LEMMA RefreshStatusType ==
    ASSUME TypeOK, NEW functions \in [Functions -> {"untried", "loaded", "missing", "broken"}],
           RefreshStatus(functions)
    PROVE  NativeOK(library', bridge', process')
  <1>1. "status" \in Functions
    BY DEF Functions
  <1>2. CASE StatusFails(functions)
    BY <1>1, <1>2, UpdateErrorType DEF StatusFails
  <1>3. CASE StatusThrows(functions)
    <2>1. library' \in [Functions -> {"untried", "loaded", "missing", "broken"}]
      BY <1>1, <1>3, LoadFacts DEF StatusThrows
    <2>2. QED
      BY <1>3, <2>1 DEF StatusThrows, TypeOK, NativeOK
  <1>4. CASE SetRuntimeState(functions)
    <2>1. library' \in [Functions -> {"untried", "loaded", "missing", "broken"}]
      BY <1>1, <1>4, LoadFacts DEF SetRuntimeState
    <2>2. (answer = "plain") \in BOOLEAN
      OBVIOUS
    <2>3. bridge' \in Copies
      BY <1>4, <2>2, CopyFacts, Zenon DEF SetRuntimeState
    <2>4. QED
      BY <1>4, <2>1, <2>3 DEF SetRuntimeState, TypeOK, NativeOK
  <1>5. QED
    BY <1>2, <1>3, <1>4 DEF RefreshStatus

\* A function of the runtime, and then its status.
LEMMA AskType ==
    ASSUME TypeOK, NEW f \in Functions, Ask(f)
    PROVE  NativeOK(library', bridge', process')
  <1>1. CASE UpdateError(library, f)
    BY <1>1, UpdateErrorType DEF TypeOK
  <1>2. CASE \E functions \in Load(library, f) : functions[f] = "loaded" /\ RefreshStatus(functions)
    <2>1. Load(library, f) \subseteq [Functions -> {"untried", "loaded", "missing", "broken"}]
      BY LoadFacts DEF TypeOK
    <2>2. QED
      BY <1>2, <2>1, RefreshStatusType
  <1>3. QED
    BY <1>1, <1>2 DEF Ask

\* A peer to connect to.
LEMMA ConnectPeerType ==
    ASSUME TypeOK, ConnectPeer
    PROVE  NativeOK(library', bridge', process')
  <1>1. "connect" \in Functions
    BY DEF Functions
  <1>2. CASE UpdateError(library, "connect")
    BY <1>1, <1>2, UpdateErrorType DEF TypeOK
  <1>3. CASE library' \in Load(library, "connect") /\ UNCHANGED << bridge, process >>
    BY <1>1, <1>3, LoadFacts DEF TypeOK, NativeOK
  <1>4. QED
    BY <1>2, <1>3 DEF ConnectPeer

\* A call that the page makes, or does not make without an engine.
LEMMA AskOnEngineType ==
    ASSUME TypeOK, NEW f \in Functions, OnEngine(Ask(f))
    PROVE  NativeOK(library', bridge', process')
  <1>1. CASE handle = "engine"
    BY <1>1, AskType DEF OnEngine
  <1>2. CASE handle # "engine"
    BY <1>2 DEF OnEngine, TypeOK, NativeOK
  <1>3. QED
    BY <1>1, <1>2

-----------------------------------------------------------------------------
(* The page.                                                               *)

\* What is read is a status, or nothing; never the mark of a free slot.
LEMMA SnapshotType ==
    ASSUME TypeOK, bridge' \in Copies
    PROVE  Snapshot \in Snapshots \cup {Nothing} /\ Snapshot # Idle
  <1>1. ASSUME NEW e \in {"null", "live"}, NEW v \in 0..MaxChanges, NEW r \in Failed..MaxChanges
        PROVE  [engine |-> e, version |-> v, runtime |-> r] \in Snapshots
    BY Zenon DEF Snapshots
  <1>2. 0 \in 0..MaxChanges /\ Failed \in Failed..MaxChanges
    BY ChangesAssumption DEF Failed
  <1>3. NullStatus \in Snapshots
    BY <1>1, <1>2 DEF NullStatus
  <1>4. [engine |-> "live", version |-> version, runtime |-> bridge'.runtime] \in Snapshots
    BY <1>1 DEF TypeOK, Copies
  <1>5. Nothing.engine = "none" /\ Idle.engine = "idle"
    BY DEF Nothing, Idle
  <1>6. \A x \in Snapshots : x.engine \in {"null", "live"}
    BY DEF Snapshots
  <1>7. Nothing # Idle /\ \A x \in Snapshots : x # Idle
    BY <1>5, <1>6
  <1>8. handle \in {"unset", "null", "engine"}
    BY DEF TypeOK
  <1>9. QED
    BY <1>3, <1>4, <1>7, <1>8 DEF Snapshot

\* A refresh that begins has something to show.
LEMMA ReadType ==
    ASSUME TypeOK, NEW s \in Slots, Read(s)
    PROVE  /\ NativeOK(library', bridge', process')
           /\ refresh' \in [Slots -> Snapshots \cup {Nothing, Idle}]
           /\ refresh'[s] # Idle
           /\ \A r \in Slots : r # s => refresh'[r] = refresh[r]
  <1>1. NativeOK(library', bridge', process')
    BY AskOnEngineType DEF Read, Functions
  <1>2. Snapshot \in Snapshots \cup {Nothing} /\ Snapshot # Idle
    BY <1>1, SnapshotType DEF NativeOK
  <1>3. refresh \in [Slots -> Snapshots \cup {Nothing, Idle}] /\ refresh' = [refresh EXCEPT ![s] = Snapshot]
    BY DEF Read, TypeOK
  <1>4. QED
    BY <1>1, <1>2, <1>3

\* Initially the page is about to load the engine.
LEMMA InitInv == Init => IInv
  <1> SUFFICES ASSUME Init PROVE IInv
    OBVIOUS
  <1>1. /\ relock \in Relocks /\ process = "running" /\ engine = "none" /\ handle = "unset" /\ mounted = TRUE
        /\ busy = FALSE /\ operation = "bootstrap" /\ answer = "plain" /\ shown = Nothing
    BY DEF Init
  <1>2. library \in [Functions -> {"untried", "loaded", "missing", "broken"}]
    BY DEF Init
  <1>3. bridge \in Copies /\ version \in 0..MaxChanges /\ answer \in Answers
    <2>1. 0 \in Failed..MaxChanges /\ 0 \in 0..MaxChanges
      BY ChangesAssumption DEF Failed
    <2>2. [runtime |-> 0, decodes |-> TRUE] \in Copies
      BY <2>1 DEF Copies
    <2>3. QED
      BY <2>1, <2>2 DEF Init, Answers
  <1>4. refresh \in [Slots -> Snapshots \cup {Nothing, Idle}]
    BY DEF Init
  <1>5. operation \notin Slots
    BY <1>1, SlotsAssumption
  <1>6. TypeOK
    BY <1>1, <1>2, <1>3, <1>4, <1>5 DEF TypeOK
  <1>7. QED
    BY <1>1, <1>6 DEF IInv, HandleIsLive, BusyMeansOperation

-----------------------------------------------------------------------------
(* The steps.                                                              *)

\* A step that leaves the refreshes: what it needs for the types.
LEMMA KeepRefreshes ==
    ASSUME IInv, NativeOK(library', bridge', process'), UNCHANGED << relock, status, refresh, shown >>,
           engine' \in {"none", "live", "leaked", "freed"}, handle' \in {"unset", "null", "engine"},
           mounted' \in BOOLEAN, busy' \in BOOLEAN, operation' \in {"bootstrap", "idle", "refresh", "read", operation}
    PROVE  TypeOK'
  <1>1. TypeOK
    BY DEF IInv
  <1>2. operation' = operation \/ operation' \notin Slots
    BY SlotsAssumption
  <1>3. UNCHANGED << version, answer >>
    BY DEF status
  <1>4. operation' \in {"bootstrap", "idle", "refresh", "read"} \cup Slots
    BY <1>1 DEF TypeOK
  <1>5. \A s \in Slots : operation' = s => refresh'[s] # Idle
    BY <1>1, <1>2 DEF TypeOK
  <1>6. QED
    BY <1>1, <1>3, <1>4, <1>5 DEF TypeOK, NativeOK

\* The engine is created, is not, or does not return.
LEMMA BootstrapInv == ASSUME IInv, Bootstrap PROVE IInv'
  <1>1. TypeOK /\ "status" \in Functions
    BY DEF IInv, Functions
  <1>2. Load(library, "status") \subseteq [Functions -> {"untried", "loaded", "missing", "broken"}]
    BY <1>1, LoadFacts DEF TypeOK
  <1>3. CASE NoEngine
    <2>1. NativeOK(library', bridge', process')
      BY <1>1, <1>3 DEF NoEngine, native, TypeOK, NativeOK
    <2>2. TypeOK'
      BY <1>1, <1>3, <2>1, KeepRefreshes DEF NoEngine, native, TypeOK
    <2>3. HandleIsLive' /\ BusyMeansOperation'
      BY <1>3 DEF NoEngine, native, IInv, HandleIsLive, BusyMeansOperation
    <2>4. QED
      BY <2>2, <2>3 DEF IInv
  <1>4. CASE CreateThrows
    <2>1. NativeOK(library', bridge', process')
      BY <1>1, <1>2, <1>4 DEF CreateThrows, TypeOK, NativeOK
    <2>2. TypeOK'
      BY <1>1, <1>4, <2>1, KeepRefreshes DEF CreateThrows, TypeOK
    <2>3. HandleIsLive' /\ BusyMeansOperation'
      BY <1>4 DEF CreateThrows, IInv, HandleIsLive, BusyMeansOperation
    <2>4. QED
      BY <2>2, <2>3 DEF IInv
  <1>5. CASE CreateHangs
    <2>1. NativeOK(library', bridge', process')
      BY <1>1, <1>2, <1>5 DEF CreateHangs, TypeOK, NativeOK
    <2>2. TypeOK'
      BY <1>1, <1>5, <2>1, KeepRefreshes DEF CreateHangs, TypeOK
    <2>3. HandleIsLive' /\ BusyMeansOperation'
      BY <1>5 DEF CreateHangs, IInv, HandleIsLive, BusyMeansOperation
    <2>4. QED
      BY <2>2, <2>3 DEF IInv
  <1>6. CASE Create
    <2>1. RefreshStatus(library)
      BY <1>6 DEF Create, RefreshStatus
    <2>2. NativeOK(library', bridge', process')
      BY <1>1, <2>1, RefreshStatusType DEF TypeOK
    <2>3. TypeOK'
      BY <1>1, <1>6, <2>2, KeepRefreshes DEF Create, TypeOK
    <2>4. HandleIsLive' /\ BusyMeansOperation'
      BY <1>6 DEF Create, IInv, HandleIsLive, BusyMeansOperation
    <2>5. QED
      BY <2>3, <2>4 DEF IInv
  <1>7. QED
    BY <1>3, <1>4, <1>5, <1>6 DEF Bootstrap

\* A refresh that begins, on a timer or for an operation.
LEMMA ReadInv ==
    ASSUME IInv, NEW s \in Slots, Read(s), UNCHANGED << relock, engine, status, handle, mounted, busy, shown >>,
           operation' \in {operation, s}, operation' = s => operation = "read" \/ operation = s
    PROVE  IInv'
  <1>1. TypeOK
    BY DEF IInv
  <1>2. /\ NativeOK(library', bridge', process')
        /\ refresh' \in [Slots -> Snapshots \cup {Nothing, Idle}]
        /\ refresh'[s] # Idle
        /\ \A r \in Slots : r # s => refresh'[r] = refresh[r]
    BY <1>1, ReadType
  <1>3. UNCHANGED << version, answer >>
    BY DEF status
  <1>4. \A r \in Slots : operation' = r => refresh'[r] # Idle
    BY <1>1, <1>2 DEF TypeOK
  <1>5. operation' \in {"bootstrap", "idle", "refresh", "read"} \cup Slots
    BY <1>1 DEF TypeOK
  <1>6. TypeOK'
    BY <1>1, <1>2, <1>3, <1>4, <1>5 DEF TypeOK, NativeOK
  <1>7. HandleIsLive'
    BY DEF IInv, HandleIsLive
  <1>8. operation' \in {"bootstrap", "idle"} <=> operation \in {"bootstrap", "idle"}
    BY SlotsAssumption
  <1>9. BusyMeansOperation'
    BY <1>8 DEF IInv, BusyMeansOperation
  <1>10. QED
    BY <1>6, <1>7, <1>9 DEF IInv

\* A refresh that throws: the engine was asked, and an operation that waits for it ends.
LEMMA ThrowsInv ==
    ASSUME IInv, ReadThrows, UNCHANGED << relock, engine, status, handle, mounted, shown >>,
           busy' \in BOOLEAN, operation' \in {operation, "idle"}, BusyMeansOperation'
    PROVE  IInv'
  <1>1. TypeOK /\ "refresh" \in Functions
    BY DEF IInv, Functions
  <1>2. NativeOK(library', bridge', process') /\ refresh' = refresh
    BY <1>1, AskType DEF ReadThrows
  <1>3. TypeOK'
    BY <1>1, <1>2, KeepRefreshes DEF TypeOK
  <1>4. HandleIsLive'
    BY DEF IInv, HandleIsLive
  <1>5. QED
    BY <1>3, <1>4 DEF IInv

\* A refresh that ends.
LEMMA ShowInv == ASSUME IInv, NEW s \in Slots, EndRefresh(s) \/ EndOperation(s) PROVE IInv'
  <1>1. TypeOK
    BY DEF IInv
  <1>2. /\ refresh' = [refresh EXCEPT ![s] = Idle]
        /\ shown' = IF mounted /\ refresh[s] # Nothing THEN refresh[s] ELSE shown
        /\ refresh[s] # Idle
        /\ UNCHANGED << relock, process, engine, library, bridge, version, answer, handle, mounted >>
    BY DEF EndRefresh, EndOperation, Show, native, status
  <1>3. refresh' \in [Slots -> Snapshots \cup {Nothing, Idle}] /\ shown' \in Snapshots \cup {Nothing}
    BY <1>1, <1>2 DEF TypeOK
  <1>4. HandleIsLive'
    BY <1>2 DEF IInv, HandleIsLive
  <1>5. CASE EndRefresh(s)
    <2>1. operation # s /\ UNCHANGED << busy, operation >>
      BY <1>5 DEF EndRefresh
    <2>2. \A r \in Slots : operation' = r => refresh'[r] # Idle
      BY <1>1, <1>2, <2>1 DEF TypeOK
    <2>3. TypeOK'
      BY <1>1, <1>2, <1>3, <2>1, <2>2 DEF TypeOK
    <2>4. BusyMeansOperation'
      BY <1>2, <2>1 DEF IInv, BusyMeansOperation
    <2>5. QED
      BY <1>4, <2>3, <2>4 DEF IInv
  <1>6. CASE EndOperation(s)
    <2>1. operation' = "idle" /\ busy' = (IF mounted THEN FALSE ELSE busy)
      BY <1>6 DEF EndOperation
    <2>2. \A r \in Slots : operation' # r
      BY <2>1, SlotsAssumption
    <2>3. busy' \in BOOLEAN
      BY <1>1, <2>1 DEF TypeOK
    <2>4. TypeOK'
      BY <1>1, <1>2, <1>3, <2>1, <2>2, <2>3 DEF TypeOK
    <2>5. BusyMeansOperation'
      BY <1>2, <2>1 DEF BusyMeansOperation
    <2>6. QED
      BY <1>4, <2>4, <2>5 DEF IInv
  <1>7. QED
    BY <1>5, <1>6

\* A button that is pressed.
LEMMA ButtonInv ==
    ASSUME IInv, NEW place \in {"refresh", "read"}, Button(place), NativeOK(library', bridge', process')
    PROVE  IInv'
  <1>1. TypeOK
    BY DEF IInv
  <1>2. /\ busy' = TRUE /\ operation' = place
        /\ UNCHANGED << relock, status, handle, engine, mounted, refresh, shown >>
    BY DEF Button
  <1>3. TypeOK'
    BY <1>1, <1>2, KeepRefreshes DEF TypeOK
  <1>4. HandleIsLive' /\ BusyMeansOperation'
    BY <1>2 DEF IInv, HandleIsLive, BusyMeansOperation
  <1>5. QED
    BY <1>3, <1>4 DEF IInv

\* The buttons' operations, up to the refresh they wait for.
LEMMA OperationInv ==
    ASSUME IInv, StartSession \/ StopSession \/ ConnectToPeer \/ RefreshRuntime
    PROVE  IInv'
  <1>1. TypeOK /\ "login" \in Functions /\ "refresh" \in Functions
    BY DEF IInv, Functions
  <1>2. ASSUME UNCHANGED << process, library, bridge >> PROVE NativeOK(library', bridge', process')
    BY <1>1, <1>2 DEF TypeOK, NativeOK
  <1>3. CASE StartSession
    BY <1>1, <1>2, <1>3, AskOnEngineType, ButtonInv DEF StartSession
  <1>4. CASE StopSession
    BY <1>2, <1>4, ButtonInv DEF StopSession
  <1>5. CASE ConnectToPeer
    <2>1. NativeOK(library', bridge', process')
      BY <1>1, <1>2, <1>5, ConnectPeerType DEF ConnectToPeer, OnEngine
    <2>2. QED
      BY <1>5, <2>1, ButtonInv DEF ConnectToPeer
  <1>6. CASE RefreshRuntime
    <2>1. NativeOK(library', bridge', process')
      BY <1>1, <1>6, AskOnEngineType DEF RefreshRuntime
    <2>2. /\ operation = "refresh" /\ operation' = "read"
          /\ UNCHANGED << relock, status, handle, engine, mounted, busy, refresh, shown >>
      BY <1>6 DEF RefreshRuntime
    <2>3. TypeOK'
      BY <1>1, <2>1, <2>2, KeepRefreshes DEF TypeOK
    <2>4. HandleIsLive' /\ BusyMeansOperation'
      BY <2>2 DEF IInv, HandleIsLive, BusyMeansOperation
    <2>5. QED
      BY <2>3, <2>4 DEF IInv
  <1>7. QED
    BY <1>3, <1>4, <1>5, <1>6

\* The page goes away, with the engine.
LEMMA DisposeInv == ASSUME IInv, Dispose PROVE IInv'
  <1>1. TypeOK
    BY DEF IInv
  <1>2. /\ mounted' = FALSE /\ handle' = "unset"
        /\ engine' = (IF handle = "engine" THEN "freed" ELSE engine)
        /\ UNCHANGED << relock, process, library, bridge, status, busy, operation, refresh, shown >>
    BY DEF Dispose
  <1>3. NativeOK(library', bridge', process')
    BY <1>1, <1>2 DEF TypeOK, NativeOK
  <1>4. TypeOK'
    BY <1>1, <1>2, <1>3, KeepRefreshes DEF TypeOK
  <1>5. HandleIsLive' /\ BusyMeansOperation'
    BY <1>2 DEF HandleIsLive, BusyMeansOperation
  <1>6. QED
    BY <1>4, <1>5 DEF IInv

\* The status changes.
LEMMA StatusChangesInv == ASSUME IInv, StatusChanges PROVE IInv'
  <1>1. TypeOK
    BY DEF IInv
  <1>2. /\ version' = version + 1 /\ version < MaxChanges /\ answer' \in Answers
        /\ UNCHANGED << relock, process, engine, library, bridge, handle, mounted, busy, operation, refresh, shown >>
    BY DEF StatusChanges, native
  <1>3. version' \in 0..MaxChanges
    BY <1>1, <1>2, ChangesAssumption DEF TypeOK
  <1>4. TypeOK'
    BY <1>1, <1>2, <1>3 DEF TypeOK
  <1>5. HandleIsLive' /\ BusyMeansOperation'
    BY <1>2 DEF IInv, HandleIsLive, BusyMeansOperation
  <1>6. QED
    BY <1>4, <1>5 DEF IInv

\* Every step keeps the invariant.
LEMMA StepInv == IInv /\ [Next]_vars => IInv'
  <1> SUFFICES ASSUME IInv, [Next]_vars PROVE IInv'
    OBVIOUS
  <1>1. CASE Poll
    <2>1. UNCHANGED << relock, engine, status, handle, mounted, busy, operation, shown >>
      BY <1>1 DEF Poll
    <2>2. CASE ReadThrows
      <3>1. busy' \in BOOLEAN /\ operation' \in {operation, "idle"}
        BY <2>1 DEF IInv, TypeOK
      <3>2. BusyMeansOperation'
        BY <2>1 DEF IInv, BusyMeansOperation
      <3>3. QED
        BY <2>1, <2>2, <3>1, <3>2, ThrowsInv
    <2>3. ASSUME NEW s \in Slots, Read(s) PROVE IInv'
      BY <2>1, <2>3, ReadInv
    <2>4. QED
      BY <1>1, <2>2, <2>3 DEF Poll
  <1>2. ASSUME NEW s \in Slots, ReadAfter(s) PROVE IInv'
    BY <1>2, ReadInv DEF ReadAfter
  <1>3. CASE ReadAfterThrows
    <2>1. /\ ReadThrows /\ UNCHANGED << relock, engine, status, handle, mounted, shown >>
          /\ operation' = "idle" /\ busy' = (IF mounted THEN FALSE ELSE busy)
      BY <1>3 DEF ReadAfterThrows
    <2>2. busy' \in BOOLEAN /\ operation' \in {operation, "idle"}
      BY <2>1 DEF IInv, TypeOK
    <2>3. BusyMeansOperation'
      BY <2>1 DEF BusyMeansOperation
    <2>4. QED
      BY <2>1, <2>2, <2>3, ThrowsInv
  <1>4. CASE UNCHANGED vars
    <2>1. UNCHANGED << relock, process, engine, library, bridge, version, answer, handle, mounted, busy, operation,
                       refresh, shown >>
      BY <1>4 DEF vars, native, status
    <2>2. QED
      BY <2>1 DEF IInv, TypeOK, HandleIsLive, BusyMeansOperation
  <1>5. QED
    BY <1>1, <1>2, <1>3, <1>4, BootstrapInv, OperationInv, DisposeInv, StatusChangesInv, ShowInv DEF Next

-----------------------------------------------------------------------------
(* Theorems.                                                               *)

\* The invariant holds in every reachable state.
THEOREM Inductive == Spec => []IInv
  BY InitInv, StepInv, PTL DEF Spec

\* Every variable has its type, and an operation waits for a refresh that is under way.
THEOREM TypeCorrect == Spec => []TypeOK
  <1>1. IInv => TypeOK
    BY DEF IInv
  <1>2. QED
    BY <1>1, Inductive, PTL

\* No call of the page comes after screencrab_engine_destroy, however many refreshes are under way when
\* the page goes away.
THEOREM NoCallAfterDestroy == Spec => []HandleIsLive
  <1>1. IInv => HandleIsLive
    BY DEF IInv
  <1>2. QED
    BY <1>1, Inductive, PTL

\* The refreshes of the timer never free the buttons of an operation, nor keep them (_busy).
THEOREM ButtonsFollowOperation == Spec => []BusyMeansOperation
  <1>1. IInv => BusyMeansOperation
    BY DEF IInv
  <1>2. QED
    BY <1>1, Inductive, PTL
=============================================================================
