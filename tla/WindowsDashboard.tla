-------------------------- MODULE WindowsDashboard --------------------------
(***************************************************************************)
(* The page of the Windows application (apps/windows), the engine handle it*)
(* drives through FFI (api.cpp), and the copy that the engine keeps of the *)
(* tailnet runtime's status (network_bridge.cpp).                          *)
(*                                                                         *)
(* Dart runs on one thread and calls the engine synchronously, so a step is*)
(* what runs between two awaits, with all it calls in the engine.  A timer *)
(* refreshes the page every two seconds and so does the end of every       *)
(* button's operation: each reads the engine first, then waits for the     *)
(* tailscale command, and shows what it read before.  Nothing keeps two    *)
(* refreshes apart.                                                        *)
(*                                                                         *)
(* The status is known by the number of times it changed; changes come from*)
(* the session (EngineSession) and from the runtime (TailnetRuntime).      *)
(*                                                                         *)
(* Every function of NetworkBridge that asks the runtime holds mutex_ and  *)
(* calls set_runtime_state or update_error, which lock it again.  To lock a*)
(* std::mutex twice is undefined; Relocks says what a build may do then.   *)
(*                                                                         *)
(* The status goes to Dart as JSON, and api.cpp writes the text of the last*)
(* error into it as it stands.  A text with a backslash, such as the path  *)
(* of a library that does not load, or one whose quotation was cut, makes  *)
(* jsonDecode throw.  Only the bridge's texts count here: the page starts  *)
(* no session, so the session's own are empty; the address is plain.       *)
(***************************************************************************)
EXTENDS Integers

CONSTANTS
    Relocks,        \* what a second lock does: throws, hangs, proceeds
    Slots,          \* bound: the refreshes that are under way at once
    MaxChanges      \* bound: how often the status changes

ASSUME RelocksAssumption == Relocks \subseteq {"throws", "hangs", "proceeds"}
ASSUME ChangesAssumption == MaxChanges \in Nat
ASSUME SlotsAssumption == Slots \cap {"bootstrap", "idle", "refresh", "read"} = {}

VARIABLES
    relock, process,            \* this build, and its process
    engine, library, bridge,    \* EngineHandle, the loaded functions, its copy
    version, answer,            \* the status, and what the runtime's JSON has of it
    handle, mounted, busy,      \* _handle and _WindowsHomePageState
    operation, refresh, shown

native == <<engine, library, bridge>>
status == <<version, answer>>
vars == <<relock, process, native, status, handle, mounted, busy, operation,
          refresh, shown>>

\* The functions of NetworkBridge that load the library, each for itself.
Functions == {"status", "login", "refresh", "connect"}

\* The copy when the runtime could not be asked.
Failed == -1

\* The copy: which status it is of, and whether its error's text is fit for JSON.
Copies == [runtime : Failed..MaxChanges, decodes : BOOLEAN]

\* The runtime's JSON lists peers, or else its error has a quotation, or neither.
Answers == {"peers", "quotes", "plain"}

\* What a refresh read; the page keeps what it shows if that is nothing.
Snapshots == [engine : {"null", "live"}, version : 0..MaxChanges,
              runtime : Failed..MaxChanges]
Nothing == [engine |-> "none"]
Idle    == [engine |-> "idle"]

\* What a null handle is answered.
NullStatus == [engine |-> "null", version |-> 0, runtime |-> Failed]

Init ==
    /\ relock \in Relocks /\ process = "running"
    /\ engine = "none" /\ library = [f \in Functions |-> "untried"]
    /\ bridge = [runtime |-> 0, decodes |-> TRUE]
    /\ version = 0 /\ answer = "plain"
    /\ handle = "unset" /\ mounted = TRUE /\ busy = FALSE
    /\ operation = "bootstrap"
    /\ refresh = [s \in Slots |-> Idle] /\ shown = Nothing

Running == process = "running"

-----------------------------------------------------------------------------
(* NetworkBridge, of a live engine: there a second lock proceeds.           *)

\* load_runtime_library is tried once in each function.  What it says of a library
\* that is "broken" names a path with backslashes; of a "missing" one it does not.
Load(functions, f) ==
    IF functions[f] = "untried"
      THEN {[functions EXCEPT ![f] = s] : s \in {"loaded", "missing", "broken"}}
      ELSE {functions}

\* update_error: the library cannot be used, or the function of it fails.
UpdateError(functions, f) ==
    /\ library' \in Load(functions, f)
    /\ bridge' = [runtime |-> Failed, decodes |-> library'[f] # "broken"]
    /\ UNCHANGED process

\* refresh_status, called where the functions are those loaded so far.
StatusFails(functions) == UpdateError(functions, "status")

\* The number of a peer's latency is looked for between quotes; the quoted word
\* found is the next key, and stoul throws.  No caller catches it.
StatusThrows(functions) ==
    /\ library' \in Load(functions, "status") /\ library'["status"] = "loaded"
    /\ answer = "peers" /\ process' = "crashed"
    /\ UNCHANGED bridge

\* extract_json_string ends a text at its first quote, and keeps the backslash
\* that stands before it.
SetRuntimeState(functions) ==
    /\ library' \in Load(functions, "status") /\ library'["status"] = "loaded"
    /\ answer # "peers"
    /\ bridge' = [runtime |-> version, decodes |-> answer = "plain"]
    /\ UNCHANGED process

RefreshStatus(functions) ==
    \/ StatusFails(functions)
    \/ StatusThrows(functions)
    \/ SetRuntimeState(functions)

\* begin_sign_in and refresh_runtime: the function f, then the status.
Ask(f) ==
    \/ UpdateError(library, f)
    \/ \E functions \in Load(library, f) :
         functions[f] = "loaded" /\ RefreshStatus(functions)

\* connect_peer does not read the status.
ConnectPeer ==
    \/ UpdateError(library, "connect")
    \/ /\ library' \in Load(library, "connect") /\ library'["connect"] = "loaded"
       /\ UNCHANGED <<bridge, process>>

\* A call of the page: a null handle is refused by api.cpp, and there is no
\* call without a handle.
OnEngine(call) ==
    IF handle = "engine" THEN call ELSE UNCHANGED <<library, bridge, process>>

-----------------------------------------------------------------------------
(* initialize and screencrab_engine_create.                                 *)

\* The engine's own library is not there.
NoEngine ==
    /\ Running /\ operation = "bootstrap" /\ operation' = "idle"
    /\ UNCHANGED <<relock, process, native, status, handle, mounted, busy,
                   refresh, shown>>

\* start() throws; create answers null, and nobody deletes the engine.
CreateThrows ==
    /\ Running /\ operation = "bootstrap" /\ operation' = "idle"
    /\ relock = "throws" /\ engine' = "leaked" /\ handle' = "null"
    /\ library' \in Load(library, "status")
    /\ UNCHANGED <<relock, process, bridge, status, mounted, busy, refresh, shown>>

\* start() waits for itself, and with it the only thread of the page.
CreateHangs ==
    /\ Running /\ operation = "bootstrap"
    /\ relock = "hangs" /\ process' = "hung" /\ engine' = "live"
    /\ library' \in Load(library, "status")
    /\ UNCHANGED <<relock, bridge, status, handle, mounted, busy, operation,
                   refresh, shown>>

Create ==
    /\ Running /\ operation = "bootstrap" /\ operation' = "idle"
    /\ relock = "proceeds" /\ engine' = "live" /\ handle' = "engine"
    /\ StatusFails(library) \/ SetRuntimeState(library)
    /\ UNCHANGED <<relock, status, mounted, busy, refresh, shown>>

-----------------------------------------------------------------------------
(* _refreshDiagnostics, in slot s: what is before the await, and after it.  *)

Snapshot ==
    CASE handle = "unset" -> Nothing
      [] handle = "null"  -> NullStatus
      [] handle = "engine" ->
           [engine |-> "live", version |-> version, runtime |-> bridge'.runtime]

\* screencrab_engine_status_json asks the runtime anew.
Read(s) ==
    /\ refresh[s] = Idle
    /\ OnEngine(Ask("refresh"))
    /\ handle = "engine" => bridge'.decodes
    /\ refresh' = [refresh EXCEPT ![s] = Snapshot]

\* currentStatus throws what jsonDecode throws: the engine was asked, and the
\* refresh ends before its await.
ReadThrows ==
    /\ handle = "engine" /\ Ask("refresh")
    /\ ~bridge'.decodes
    /\ UNCHANGED refresh

\* Mutant of Poll: the timer fires only once.
PollOnce ==
    /\ Running /\ mounted /\ operation # "bootstrap" /\ shown = Nothing
    /\ ReadThrows \/ \E s \in Slots : Read(s)
    /\ UNCHANGED <<relock, engine, status, handle, mounted, busy, operation, shown>>

\* The first refresh, and the timer's; nobody waits for what they throw.
Poll ==
    /\ Running /\ mounted /\ operation # "bootstrap"
    /\ ReadThrows \/ \E s \in Slots : Read(s)
    /\ UNCHANGED <<relock, engine, status, handle, mounted, busy, operation, shown>>

\* The tailscale command has ended: the page shows what was read before it.
Show(s) ==
    /\ Running /\ refresh[s] # Idle
    /\ refresh' = [refresh EXCEPT ![s] = Idle]
    /\ shown' = IF mounted /\ refresh[s] # Nothing THEN refresh[s] ELSE shown
    /\ UNCHANGED <<relock, process, native, status, handle, mounted>>

\* Mutant of EndRefresh: any refresh frees the buttons.
EndRefreshFrees(s) ==
    /\ Show(s) /\ operation # s
    /\ busy' = FALSE
    /\ UNCHANGED operation

EndRefresh(s) ==
    /\ Show(s) /\ operation # s
    /\ UNCHANGED <<busy, operation>>

\* The refresh that an operation waits for ends, and with it the operation.
EndOperation(s) ==
    /\ Show(s) /\ operation = s /\ operation' = "idle"
    /\ busy' = IF mounted THEN FALSE ELSE busy

-----------------------------------------------------------------------------
(* The buttons, which are disabled while busy.  An operation goes from one  *)
(* call of the engine to the next, and then waits for a refresh.            *)

Button(place) ==
    /\ Running /\ mounted /\ operation = "idle" /\ ~busy
    /\ busy' = TRUE /\ operation' = place
    /\ UNCHANGED <<relock, status, handle, engine, mounted, refresh, shown>>

\* _startSession signs in unless the page shows that it did that; what the page
\* shows of the runtime's identity is any answer.
StartSession ==
    \/ /\ Button("refresh") /\ UNCHANGED <<process, library, bridge>>
    \/ /\ Button("refresh") /\ OnEngine(Ask("login"))

\* _stopSession; the session's status may change.
StopSession == Button("read") /\ UNCHANGED <<process, library, bridge>>

\* _connectToPeer.
ConnectToPeer == Button("refresh") /\ OnEngine(ConnectPeer)

RefreshRuntime ==
    /\ Running /\ operation = "refresh" /\ operation' = "read"
    /\ OnEngine(Ask("refresh"))
    /\ UNCHANGED <<relock, status, handle, engine, mounted, busy, refresh, shown>>

\* Mutant of ReadAfter: the operation waits for a refresh that does not begin.
ReadAfterNothing(s) ==
    /\ Running /\ operation = "read" /\ operation' = s
    /\ refresh[s] = Idle /\ UNCHANGED <<process, library, bridge, refresh>>
    /\ UNCHANGED <<relock, status, handle, engine, mounted, busy, shown>>

ReadAfter(s) ==
    /\ Running /\ operation = "read" /\ operation' = s
    /\ Read(s)
    /\ UNCHANGED <<relock, status, handle, engine, mounted, busy, shown>>

\* Mutant of ReadAfterThrows: the buttons come back after the refresh, in no finally.
ReadAfterThrowsBusy ==
    /\ Running /\ operation = "read" /\ operation' = "idle"
    /\ ReadThrows
    /\ UNCHANGED <<relock, status, handle, engine, mounted, busy, shown>>

\* The refresh throws, and with it the operation, through its finally.
ReadAfterThrows ==
    /\ Running /\ operation = "read" /\ operation' = "idle"
    /\ ReadThrows
    /\ busy' = IF mounted THEN FALSE ELSE busy
    /\ UNCHANGED <<relock, status, handle, engine, mounted, shown>>

\* Mutant of Dispose: the handle is kept.
DisposeKeepsHandle ==
    /\ Running /\ mounted /\ operation # "bootstrap" /\ mounted' = FALSE
    /\ engine' = IF handle = "engine" THEN "freed" ELSE engine
    /\ UNCHANGED <<relock, process, library, bridge, status, handle, busy,
                   operation, refresh, shown>>

Dispose ==
    /\ Running /\ mounted /\ operation # "bootstrap" /\ mounted' = FALSE
    /\ engine' = IF handle = "engine" THEN "freed" ELSE engine
    /\ handle' = "unset"
    /\ UNCHANGED <<relock, process, library, bridge, status, busy, operation,
                   refresh, shown>>

\* The session or the runtime changes its status.
StatusChanges ==
    /\ process # "crashed" /\ version < MaxChanges /\ version' = version + 1
    /\ answer' \in Answers
    /\ UNCHANGED <<relock, process, native, handle, mounted, busy, operation,
                   refresh, shown>>

-----------------------------------------------------------------------------
Bootstrap == NoEngine \/ CreateThrows \/ CreateHangs \/ Create

Next ==
    \/ Bootstrap \/ Poll \/ StartSession \/ StopSession \/ ConnectToPeer
    \/ RefreshRuntime \/ ReadAfterThrows \/ Dispose \/ StatusChanges
    \/ \E s \in Slots : ReadAfter(s) \/ EndRefresh(s) \/ EndOperation(s)

\* The timer fires, continuations run, and the tailscale command ends.  A slot
\* becomes free again and again, and an operation then gets one of them.
Fairness ==
    /\ WF_vars(Bootstrap) /\ WF_vars(Poll) /\ WF_vars(RefreshRuntime)
    /\ SF_vars(ReadAfterThrows \/ \E s \in Slots : ReadAfter(s))
    /\ \A s \in Slots : WF_vars(EndRefresh(s) \/ EndOperation(s))

Spec == Init /\ [][Next]_vars /\ Fairness

-----------------------------------------------------------------------------
(* Properties.                                                              *)

\* Every variable has its type, and an operation waits for a refresh that is
\* under way.
TypeOK ==
    /\ relock \in Relocks /\ process \in {"running", "hung", "crashed"}
    /\ engine \in {"none", "live", "leaked", "freed"}
    /\ library \in [Functions -> {"untried", "loaded", "missing", "broken"}]
    /\ bridge \in Copies /\ version \in 0..MaxChanges
    /\ handle \in {"unset", "null", "engine"}
    /\ answer \in Answers /\ {mounted, busy} \subseteq BOOLEAN
    /\ operation \in {"bootstrap", "idle", "refresh", "read"} \cup Slots
    /\ refresh \in [Slots -> Snapshots \cup {Nothing, Idle}]
    /\ shown \in Snapshots \cup {Nothing}
    /\ \A s \in Slots : operation = s => refresh[s] # Idle

\* The page calls the engine only while it exists: whatever is under way when
\* the page goes away, no call comes after the engine was destroyed.
HandleIsLive == handle = "engine" => engine = "live"

\* The buttons are disabled just while an operation is under way, although the
\* timer's refreshes begin and end in between.
BusyMeansOperation ==
    mounted => (busy <=> operation \notin {"bootstrap", "idle"})

\* An operation ends and the buttons come back.
BusyEnds == busy ~> ~busy \/ ~mounted \/ ~Running

\* Refreshes overtake each other, and may throw, and the page may go back to an
\* older status; but once the status stays, and the runtime answers or fails to with
\* a text that JSON can carry, the page comes to show just that and keeps it: no
\* older status, and no older copy.  Without an engine it comes to show that.
PageCatchesUp ==
    /\ \A v \in 0..MaxChanges, fails \in BOOLEAN :
         <>[](/\ version = v /\ bridge.decodes /\ (bridge.runtime = Failed <=> fails)
              /\ handle = "engine" /\ mounted /\ Running)
           => <>[](shown = [engine |-> "live", version |-> v,
                            runtime |-> IF fails THEN Failed ELSE v])
    /\ <>[](handle = "null" /\ mounted) => <>[](shown = NullStatus)

-----------------------------------------------------------------------------
(* What the documentation says of the program, and the code does not do.    *)

\* README.md says that the page loads the engine and surfaces its status: an
\* engine whose library is there can be created.
EngineIsCreated == handle # "null" /\ process # "hung"
=============================================================================
