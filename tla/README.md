# Screenscrab: TLA+ models and proofs

Screenscrab is a remote desktop. A Windows machine hosts a session over TCP, an Android device (or another
Windows engine) joins it, and both find each other through a tailnet node that is embedded in the program.
This directory holds TLA+ models of that program, the TLC configurations that check them, and proofs checked by
TLAPS. Source paths below are relative to the repository; a path without a directory is one of the files of the
inventory.

To check a model: `tlc -workers 2 -config X.cfg M`. To check the proofs: `tlapm M.tla`. `PROJECT.json` lists
the runs, the source lines behind every definition, the hazards with the properties that cover them, a mutant for
every property (a plausible bug that makes the property fail), the findings and the theorems.

## 1. The system

| Component | Source | State | Operations |
|---|---|---|---|
| Engine session manager | `engine/windows/src/session_manager.cpp` | status fields under `mutex_`, `stop_requested_`, worker thread | `start_host`, `start_client`, `stop`; the worker's `run_host_loop`, `run_client_loop`, `process_incoming_packets` |
| Engine transport | `engine/windows/src/transport.cpp` | `socket_`, `listen_socket_`, without a lock | `listen`, `accept`, `connect`, `disconnect`, `send_all`, `receive_all`, `poll_readable` |
| Capture, encode, input, clipboard | `capture_backend`, `encode_backend`, `input_injector`, `clipboard_service` | DXGI objects, none, none, none | calls made by the worker |
| Engine C interface | `engine/windows/src/api.cpp` | an engine handle per page | create, destroy, status, start, stop, sign in, refresh, connect |
| Network bridge | `engine/windows/src/network_bridge.cpp` | a copy of the runtime's status under `mutex_`; per function, whether the runtime's library was found | `start`, `begin_sign_in`, `refresh_runtime`, `connect_peer`, getters |
| Tailnet runtime | `network/capi/bridge.go` | one `runtimeState` under `mu`: server, watcher, login URL, status, connections by id | `Network_Start`, `Login`, `Logout`, `Stop`, `Refresh`, `Reconnect`, `ConnectPeer`, `Disconnect`, `Send`, `Receive` |
| Windows page | `apps/windows/lib/src/screenscrab_app.dart`, `engine_bridge.dart` | what it shows, `_busy`, a 2 s timer, the handle | bootstrap, refresh, start, stop, connect, dispose |
| Android session client | `apps/android/lib/src/remote_session_client.dart` | `_socket`, `_subscription`, `_buffer`, `_pendingFrameMetadata` | `connect`, `disconnect`, the socket's callbacks, `send*` |
| Android page | `apps/android/lib/src/screenscrab_app.dart` | connection state, gestures | connect, disconnect, dispose; pointer, key and clipboard events |
| Android display | `RemoteDisplay.kt`, `MainActivity.kt` | the attached view, a bitmap | attach, detach, `renderFrame` on the main thread |
| Wire format | `shared/cpp/.../wire_codec.h`, `shared/dart/lib/src/*codec.dart`, `protocol.dart` | none | header and payload encoding in two languages |

How they interact. The Windows page calls the engine through FFI on its only thread; the engine calls the runtime's
library; the runtime's goroutines and the engine's worker thread write state that those calls read. The engine's
worker and the Android client exchange packets over one TCP connection: frames, metadata and pings one way, input
and clipboard the other. The Android page drives its client on one Dart isolate, where steps of several calls
interleave at every `await`.

What is hard, and what makes each component correct:

* **Session manager and transport.** Two threads run `Transport::disconnect` on two fields that no lock protects,
  while the worker blocks in `accept`, `send` and `recv` and handles are reused by the operating system. Correct
  means: a stop ends, and leaves no connection and no worker; the status agrees with the connection; no connection
  is lost from the field through which it can be closed.
* **Tailnet runtime.** A start can fail half way; a goroutine per server applies notifications of the past to
  whatever runtime there is by then; callers hold ids over a restart. Correct means: nothing is leaked, a stopped
  runtime looks stopped, an id is never somebody else's.
* **Android client.** `disconnect` forgets the socket only after an `await`; it is called by the user, by the page's
  end, by a packet, by the end of the stream and twice by `connect`. Correct means: no socket is leaked, no byte or
  metadata of one connection is used for the next, and the page shows what there is.
* **Windows page, engine handle and bridge.** Refreshes overlap and overtake one another and the page may go away
  between any two calls; a call may throw. Correct means: no call after destroy, the buttons come back, and the page
  catches up with the status.
* **Wire format and streams.** The packets are written in C++ and in Dart, and cut anywhere by `send` and `recv`. Correct
  means: both write the same bytes, and each receive loop finds the packets again, once, in order and without leaving one.
* **Gestures and injection.** One touch makes several presses in an order the gesture arena decides, keys share codes, and
  what is in flight may be lost. Correct means: what the user has let go of is not held down on the host, a position is on
  the desktop, and the clipboard has the latest text.
* **Screen to view.** Frames and their metadata travel apart while the screen changes its mode, and a bitmap is drawn in a
  later turn of a thread whose views come and go; the loop that sends them is the only one that reads input. Correct means:
  what is drawn fits its pixels, goes forward and goes to a living view, and the input is read.

## 2. The modules

| Module | Models | Kind |
|---|---|---|
| `EngineSession` | session manager and transport, with the far end and the operating system's handles | detailed model |
| `SessionLifecycle` | what the session promises to a user interface | abstract specification, implemented by `EngineSession` |
| `MCEngineSession` | an instance of `EngineSession` with symmetric handles | for TLC |
| `EngineSessionProofs` | theorems about `EngineSession` | proofs |
| `TailnetRuntime` | `bridge.go` with its goroutines and callers | detailed model |
| `TailnetRuntimeProofs` | theorems about `TailnetRuntime` | proofs |
| `AndroidClient` | the session client and the calls the page makes of it | detailed model |
| `AndroidClientProofs` | theorems about `AndroidClient` | proofs |
| `WindowsDashboard` | the page, the engine handle and the network bridge, composed | detailed model |
| `WindowsDashboardProofs` | theorems about `WindowsDashboard` | proofs |
| `WireCodec` | `wire_codec.h`, `protocol.dart` and `session_codec.dart` as operators on bytes | algorithms |
| `WireCodecProofs` | that both languages write the same bytes, and that they are read back | proofs |
| `PacketQueue` | what a connection promises for one direction | abstract specification, implemented by `PacketStream` |
| `PacketStream` | `send_exact`, `receive_exact`, `process_incoming_packets`, `_onData` over chunks of any size | detailed model |
| `PacketStreamProofs` | theorems about `PacketStream`: both languages agree, and the stream is a queue | proofs |
| `RemoteInput` | the Android page's gestures, keys and clipboard, the client's `send*`, the host's handlers, `InputInjector` and `ClipboardService`, composed | detailed model |
| `RemoteInputProofs` | theorems about `RemoteInput` | proofs |
| `ScreenStream` | `CaptureBackend`, `EncodeBackend`, the frame loop, the client's frames and `RemoteDisplayController` with its views, composed | detailed model |
| `ScreenStreamProofs` | theorems about `ScreenStream` | proofs |
| `MCPacketStream`, `MCRemoteInput`, `MCScreenStream` | instances | for TLC |

### EngineSession

`pc["api"]` and `pc["worker"]` are the places of the two threads. Each critical section of `mutex_` is one step, since
none blocks. Each load, `closesocket` and store of the transport's fields in `disconnect` is a step of its own
(`DisconnectLoad`, `DisconnectClose`, `DisconnectClear`), because these race. The code reads the field twice, in the test
and in the call; the model reads it once, because a second read could differ only when the other thread has
closed and cleared it, and then `closesocket` has nothing to close either way. `handle` is what each handle of the
operating system is; a closed handle is free and may be given out by the very next `socket` or `accept`.

A connection is a queue of packet kinds, those that the receive loop tells apart. `partial` is a packet whose
rest has not arrived: the worker blocks in `recv` on it. Sending blocks at `send_frame` when the peer has stopped
reading; the hello, ping and pong packets are a few bytes and are not given a blocking place of their own. Capture,
injection, clipboard and the listening port may fail at any time, nondeterministically. `connect` dials with a
socket that only the call itself knows, so a stop cannot abort it (`Dial`). The setters of the monitor index and
of the enabled flags have no caller and are left out.

### SessionLifecycle

The phases a snapshot may show and the moves between them, with a stop request as the only other state. `Phase` in
`EngineSession` maps the four fields of the snapshot to a phase; a mixture of two phases maps to `inconsistent`,
which no step of `SessionLifecycle` allows.

### TailnetRuntime

Every exported function holds `r.mu` around all its accesses, so each outcome of each function is one step. The
steps outside the mutex are the watcher goroutine's (`WatcherNext` receives a notification, `WatcherApplies` takes the
mutex later and applies it to whatever runtime there is) and `UserLogf`, which writes the login URL without a lock. A
login URL is known by the server it belongs to. A backend state the code has no case for counts as signed in
(`StatusOf`), and a bare state notification stores the backend's own word (`Apply`); the type invariant says so.
Servers and dials are numbered, so `tsnet` and `link` record the fate of each after the runtime has forgotten it.

### AndroidClient

A step is what runs between two awaits. `awaiting` is who is suspended in `disconnect`, and `connect` the place of
each call of `connect`. A chunk of the stream is taken as half a packet, its header or its payload; the callback runs
through any number of halves with nothing in between, so this loses no behaviour. The future of
`subscription.cancel()` may complete at any later moment: that is its contract, and more than the library does today.
Packets that change nothing (hello, capabilities, ping, clipboard) and the counter of frames are left out. The
page can only connect while mounted, and `Dispose` makes its callbacks do nothing.

### WindowsDashboard

`refresh` holds the refreshes under way, each with the status it read before its `await` (the `tailscale` command)
and shows after it; `operation` is the place of the one button operation there can be. The engine's status is
abstracted to the number of its changes (`version`) and the bridge's copy to the version it was taken at.
`relock` is what locking a `std::mutex` twice on one thread does: that is undefined, and a build throws, hangs or
proceeds; it is chosen in `Init` and never changes. The bridge remembers per function whether the runtime's
library was found and loads (`library`, `Load`). The calls of a session (`start_host` and so on) are those of `EngineSession`, and the
page makes none of them; here a session only may change the version.

`api.cpp` writes the text of the last error into its JSON as it stands, and of that text the model keeps whether JSON can carry it
(`bridge.decodes`). It cannot when the runtime's library is there but does not load (`broken`: the text has a path with backslashes), or when the runtime's
own error has a quotation (`answer = "quotes"`: `extract_json_string` cuts it at the escaped mark and keeps the backslash). Then `currentStatus` throws,
after the engine has asked the runtime: a refresh of the timer ends there (`ReadThrows`), and one that an operation waits for ends the operation through its `finally`
(`ReadAfterThrows`). The session's own error is empty here, and an address needs no escape. The other JSON that the page reads, `runtime_status_json`, escapes its texts.

### WireCodec and PacketStream

The engine's `append_*` and `make_*` concatenate bytes; the client's functions fill a `ByteData` of a fixed size at offsets.
Both are written as they are, so that their agreement is a statement about two different programs. A 64-bit number is the
pair of its 32-bit words. `PacketStream` is one direction at a time: `to` says who receives. The sender's next packet
waits until `send_exact` has sent the last one (the engine) or is added to what the socket has still to send (Dart). The host
reads a header, refuses it (`Refuses`) or reads its payload, and handles the packet; `HandlePacket` has the length checks
of its handlers. The client's loop takes packet after packet from its buffer (`ClientTakes`), and no other callback comes in
between. What is in flight may be cut off at the end of the connection or be lost with it. A receiver is modelled by what it
reads of a payload (`HostReads`, `ClientReads`), so that a message arrives `Understood`, not as a copy of its bytes. A reply to a
ping is a message of the other direction. A length that overflows the 32-bit sum `24 + payload_size` is refused by the limit before it
is used.

### RemoteInput

The connection is a queue of packets, which `PacketStream` justifies, and it may break at any moment with all in flight; the
client then sends nothing until it connects again. A host that refuses an event ends the connection in one step; the client
of the code learns of it a little later, and what it sends in between is lost as well. Flutter's gesture arena is modelled by the callbacks that the page registers and
the orders in which Flutter may call them: `onPanDown` with the finger, `onTapDown` after a moment or just before `onTapUp`, `onPanUpdate`
instead of a tap, and an end without any callback, because the page registers none for it. The desktop's held buttons and keys
are what `SendInput` has made of the events. The code treats both axes alike, so the model has one. `set_text` has three outcomes:
it returns false, with the clipboard emptied or not, and the session ends (`TextFails`); it returns true with the text set, or with an empty clipboard because `SetClipboardData` failed
(`TextSet`); or `EmptyClipboard` and `SetClipboardData` fail both, nobody looks at either result, and it returns true with the earlier text still there (`TextRefused`).
`lostInput`, `missed` and `unreleased` are history variables: that something was never sent or was lost; that the text sent last, of those no longer in flight, was lost or refused; and
that the last touch ended without a release.

### ScreenStream

`worker` is the place of the host's thread, with one step per call that may fail. A change of the screen's mode loses the duplication;
nobody makes another until the engine is stopped and started. A frame is its geometry and its number, in place of pixels and time
stamp. `HandleMetadata` and `HandleFrame` are `_handlePacket` up to its `await`; `calls` are the method calls on their way to the main
thread and `posted` the bitmaps it has posted to itself. The connection is a queue again; `EndSession` ends both its sides at once, and calls
and bitmaps that are under way stay.

## 3. What is checked

| Run | Module, instance | Result |
|---|---|---|
| `engine_session` | 3 symmetric handles, backlog 1, inbox 1; 324,179 states | six invariants hold; every step of the snapshot is one of `SessionLifecycle` |
| `engine_session_live` | 2 handles, backlog 1, inbox 1; 180,885 states | every call returns, whatever the far end does |
| `tailnet_runtime` | 2 callers, 2 servers, 2 dials; 58,607 states | seven invariants hold; watchers of closed servers end |
| `android_client` | 1 connect at a time, 3 sockets, 2 frames; 58,359 states | five invariants hold |
| `android_overlap` | 2 overlapping connects, 2 sockets, 1 frame; 282,423 states | what survives an overlap |
| `windows_dashboard` | all three relocks, 2 refreshes, 2 changes; 587,491 states | three invariants and two liveness properties hold |
| `packet_stream` | both directions, 2 packets of any kind, limit 24, 2 versions; 92,127 states | both codecs agree; the stream implements `PacketQueue`; nothing is stuck |
| `remote_input` | 3 keys, 2 texts, 2 packets in flight, a desktop of 6 pixels; 1,937,272 states | five invariants hold |
| `screen_stream` | 2 modes, 2 frames, 2 views, 2 waiting packets; 622,860 states | what is drawn is right; input is read while captures succeed |
| `host_keeps_listening` | violation | see section 5 |
| `engine_is_created` | violation, relock throws | see section 5 |
| `press_lands_at_touch` | violation | see section 5 |

What the properties say is stated above each of them in the modules. In short:

* `EngineSession`: `StoppedIsQuiet`, `StatusMatchesConnection`, `ConnectionsAreHeld` (every open connection is the one in
  `socket_`, whatever both threads do to the field), `JoinedWorkerIsNotBlocked` (the deadlock a stop could have),
  `GivingUpIsReported`, `CallsReturn`, and the refinement of `SessionLifecycle`: `KeepsLifecycle` is what every step of both threads shows.
  That a stop which has begun is also completed follows from `CallsReturn`: it is a call, and its last step stops the session.
* `TailnetRuntime`: `NoServerIsLeaked`, `StoppedIsOffline`, `ConnectionsAreRegistered`, `HeldIdIsOwn`,
  `ConnectedHasConnection`, `ErrorIsExplained`, `WatchersEnd`.
* `AndroidClient`, connects that do not overlap: `NoSocketIsLeaked`, `StreamIsIntact`, `FrameHasItsMetadata`,
  `QuietPageIsRight`. Connects that do: `ConnectedHasSocket`, `EndIsReported`. The four are false when connects
  overlap, which the page permits, and no document says what should happen then; that is a hazard in `PROJECT.json`.
* `WindowsDashboard`: `HandleIsLive`, `BusyMeansOperation`, `BusyEnds`, `PageCatchesUp`. The last is about both halves of what is shown, the session's
  version and the bridge's copy of the runtime's, and about the fixed answer to a null handle. Its premise says that the runtime goes on to answer, or to fail, with a text that
  JSON can carry: while it does not, every refresh throws and the page keeps an old status, which is a hazard in `PROJECT.json`. `BusyEnds` has no such premise.
* `PacketStream`: `CodecsAgree` (two languages, the same bytes), `ImplementsQueue` (the refinement of `PacketQueue`: each message once, in
  order, as it was meant; none of another version, none above the limit, none after one of those), `NothingIsStuck`.
* `RemoteInput`: `KeysAreReleased`, `TapsAreReleased`, `PointerIsOnDesktop`, `LatestTextIsOnHost`. The first two speak of
  what was not lost: the code releases nothing when a connection breaks, and no document says that it should. The last excuses an earlier text on the clipboard only by `missed`, so
  that a text which is set makes up for what was lost before it, over a new connection too.
* `ScreenStream`: `DrawIsRight`, an action property over the whole way of a frame, and `InputIsRead`. The premise of the latter, that captures go on
  to succeed, is needed: a capture that fails goes round the loop without reading, so that a still desktop takes no input.

**Bounds.** Three handles are enough for a listener, a connection and a handle that is reused while a thread still
holds its old value; the liveness run takes two, where every handle that is closed is the one that is reused next,
and without symmetry, which is unsound for liveness. One waiting peer and one packet suffice because the worker
takes them one at a time and looks at no more than the first. Two incarnations of the runtime are the
smallest number in which a goroutine or an id outlives its own; two callers and two dials the smallest in which one
id could be taken for another's. Three sockets let a connection follow one that is being closed while another
awaits; two frames let metadata be mistaken for that of the frame before. Two refreshes can overtake each other; two
changes let an older status be shown after a newer one, and a text that JSON cannot carry come and go in between. A payload's limit of 24 is
reached exactly by an input event and a text, and exceeded by one byte by another text; chunks of 7 bytes end inside a header and inside a
payload, 25 take a header with the first byte of what follows, and 1000 take all there is; the second packet shows what the first has left
behind. Two packets in flight are a press with its release, or a text behind another; three keys are two that share a code and one
without a code. Two modes, where each one's frames are long enough for the metadata of the smaller, let a frame be drawn with another
mode's metadata if anything could; two views are one that goes and one that comes. The proofs below need none of these bounds for the modules
they are about. `CHECK_DEADLOCK FALSE` is set where the system stops: an unmounted page, a hung or ended process,
no more sockets to connect.

**Fairness.** `EngineSession`: each thread takes a step when it can, for the operating system schedules both; nobody
has to call the interface and the far end may do nothing, so a worker blocked on a silent peer is not helped. `Dial`
ends, for the system's connect has a timeout. `TailnetRuntime`: a goroutine whose server is closed gets its error
from `Next()`, and one that has a notification gets the mutex. `AndroidClient`: a completed future resumes whoever
awaits it, `Socket.connect` has a timeout of five seconds, and the events of a socket are delivered. `WindowsDashboard`: the
timer fires, continuations run and the `tailscale` command ends; an operation that wants one of the two refresh slots,
which become free again and again, gets one, or throws (strong fairness, for the slots are a bound of the model: the code has
no limit and the operation never waits; and the fairness is of the refresh, whichever way it goes).
 `PacketStream`: `send` and `recv` return and the isolate runs its callbacks; that the host goes on
polling is no fairness of the model, for a failing capture keeps it from it, but a premise of `NothingIsStuck`. `ScreenStream`: the worker, the isolate
and the main thread run. `RemoteInput` has no liveness property: it is about what holds whenever the queue is drained.

## 4. What is proved

The theorems hold for every value of the constants, under the assumptions that the modules name: bounds and sizes are natural
numbers; `INVALID_SOCKET` is no handle; the slots of `WindowsDashboard` are not called like the places of an operation; a virtual key
is a code of 16 bits or 0, for none; an empty clipboard is no text; the surface is at least one pixel wide, and modes and frames have the form the code gives them; texts are sequences of
bytes, short enough that a payload's length fits its field of 32 bits (`append_u32` and `setUint32` would cut a longer one), and versions are numbers of 16 bits, as
`uint16_t` and `setUint16` are. TLC evaluates each of them. Two groups of theorems have a hypothesis of their own: `OneConnect`, and that a client's host
has the client's version; both are explained below.

**EngineSessionProofs.** `TypeCorrect`, `StopIsFinal` (`StoppedIsQuiet`), `StatusIsRight` (`StatusMatchesConnection`),
`NoConnectionIsLost` (`ConnectionsAreHeld`), `JoinIsNotStuck` (`JoinedWorkerIsNotBlocked`), `GivingUpIsTold` (`GivingUpIsReported`) and the refinement
`ImplementsSafety` (`KeepsLifecycle`), for any number of handles. None
of them is inductive alone, and `IInv` adds the reasons:

* `Control`: the interface's thread is outside "idle" only with `stop_requested` set, and between join and start there
  is no worker. This is what makes the status of a stop final.
* `StatusInv`: the status at each place of the worker, the places inside `disconnect` counting as the place it
  returns to.
* `SocketInv` and `CloserInv`: `socket_` holds something only where the worker has a connection, and whoever is about
  to close a handle still finds it in the field or finds the field cleared; whoever is about to clear the field
  does so when no connection is open. The last part is why the unlocked fields do not lose a connection: the worker
  opens a new one only from places that a racing closer excludes.
* `PassedInv`: once the interface's thread has passed a field, a worker that would block on it finds it closed.
* `Reported`: a worker that is done without having been told to stop has written an error; a client that holds a connection leaves its loop only for a stop.

The refinement has one lemma per group of actions: `IInv` gives the phase at each place, so a step that writes the snapshot is a move
of `SessionLifecycle` and any other a stutter. While a stop is under way the worker may still show its moves; after the stop's own write it shows none, because
that write comes after the join and `Control` has no worker then.

**TailnetRuntimeProofs.** `TypeCorrect`, `OnlyOneServer`, `StoppedStaysOffline`, `NoConnectionIsForgotten`, `IdsAreNotReused`,
`NoPhantomConnection`, `ErrorsAreExplained`, for any number of callers, servers and dials. `IInv` adds `Registered`: while
stopped no connection is registered, so an id given back late finds nothing and does not sign the runtime in; ids
and dials are counted together and every id held is at most `nextID`, so a new one is nobody's; and no two
ids name one connection, so closing one leaves the others open. The status needs what each of its writers
leaves (`StatusOfFacts`, `FailFacts`, `RefreshedFacts`, `ApplyFacts`): a notification never shows a connection, nor an
error, that was not shown before.

**AndroidClientProofs.** `TypeCorrect` and `ShownConnectionHasSocket` (`ConnectedHasSocket`) hold however many calls of `connect` overlap.
`NoLeak` (`NoSocketIsLeaked`), `NoBytesOfAnEarlierStream` (`StreamIsIntact`), `FramesHaveTheirMetadata` (`FrameHasItsMetadata`) and
`QuietPageIsAlwaysRight` (`QuietPageIsRight`) assume `OneConnect`, that there is one caller of `connect`, for any number of sockets and frames;
without it TLC finds them false. `IInv` adds `Waiting`: from the `disconnect` that begins a `connect` until its `Socket.connect` completes, the client
listens to no open socket and buffer and metadata are empty, so that whatever a late `disconnect` clears is nobody's. `Streams` and
`Metadata` say where a stream stands when its metadata is the pending one.

**WindowsDashboardProofs.** `TypeCorrect`, `NoCallAfterDestroy` (`HandleIsLive`) and `ButtonsFollowOperation` (`BusyMeansOperation`), for any number of
refreshes under way, of changes, for each thing a second lock may do, and whichever refreshes throw. The three are inductive together.

**RemoteInputProofs.** `NoKeyIsStuck` (`KeysAreReleased`), `NoTapIsStuck` (`TapsAreReleased`), `ClipboardIsCurrent` (`LatestTextIsOnHost`) and
`PointerStaysOnDesktop` (`PointerIsOnDesktop`), for any keys and codes, sizes, texts and number of packets in flight. What is held now does not say
what will be held, for switches are in flight in both directions. The invariant is about the end: `LastWins(q, On, Off, it, held)` says that when `q`
has been handled `it` is held, which its last switch decides. Appending decides it anew and handling the head changes nothing
(`LastWinsAppend`, `LastWinsTail`); so the same two lemmas serve keys, the button and the text. For the text, what may be there when
none is in flight is `Kept`: the text synced last, nothing, or, if one was missed, what is there now; a text that is handled decides both the clipboard and `missed`, and a lost connection
with a text in flight makes it missed (`HandledText`, `DropInv`). The position needs that of
the packets in flight, `PositionInv`, and the arithmetic of `RemoteX` and `Normalized`, whose quotients are bounded by products (`QuotientBound`).

**ScreenStreamProofs.** `TypeCorrect` and `DrawIsAlwaysRight` (`DrawIsRight`), for any modes, views and lengths of the queues, calls and posted bitmaps.
`Paired`: a frame in flight has its own metadata right in front of it, or pending if the frame is first; `Together`: calls and bitmaps
are made of one frame; `Sorted`: whatever is nearer to the view is no newer, from the worker's frame through connection, calls and bitmaps to every
view, which also says that the end of a session, which throws away only the middle, lets nothing old overtake.

**WireCodecProofs** and **PacketStreamProofs.** `PayloadsAgree`: each payload is the same in both languages, for all integers and all texts;
`PacketsAgree`: so is the packet around it; `ReadsWhatWasWritten`: `read_u32` and `read_i32` return, at any offset, what `append_u32` wrote, for every
number of 32 bits without and with a sign. A buffer that is filled at offsets, from the front to the end and without a gap, is its parts appended one by one
(`Filled`, `FilledNext`); each layout is a chain of such steps. `CodecsAlwaysAgree` (`CodecsAgree`) takes this to every packet of every
behaviour of `PacketStream`.

`TypeCorrect` (`TypeOK`) and `ImplementsTheQueue` (`ImplementsQueue`) are about the stream itself, for any texts, sizes of pieces and limit of a payload.
The argument has three parts.

* *One packet.* The header of a packet gives back its magic, version, type and length, and its payload what was put in it (`PacketRead`, `HeaderRead`); for each
  message, `HostUnderstands` and `ClientUnderstands` say that what the receiver's handler reads of the payload is what the sender meant,
  field by field, with the signs of a mouse event's coordinates and 64-bit numbers included.
* *The bytes on their way.* `Stream` is the receiver's buffer, then the wire, then what `send` has not taken. `Cut(Packets, n, u, lost)` says that u is, byte for byte,
  what comes after the first n packets, without the last `lost` bytes. The starts of the packets in it are a function, extended by a `Send` (`CutSend`) and shifted
  when a packet is taken (`CutTake`); an end only shortens it (`CutPrefix`). So no fold over the packets, and no induction, is needed.
* *The steps.* `QInv` is the types (`TInv`, with `Standing`: a buffer is always shorter than what its phase waits for, and holds no header that is refused) and `Coming`: while the
  receiver's end is open, `Stream` is what follows the packets in `got`. Moving bytes keeps `Stream` (`StreamGrown`, `StreamTransmitted`); a packet is taken only from its front, so
  it is the next one (`NextWhole`, `QTaken`); and every step of the queue is `Still`, `Sends`, `Closes` or `Delivers`.

`ImplementsTheQueue` supposes that the receiver is the host, which refuses any other version and closes, or that the versions are the same. A client that gets a header
it does not know empties its buffer and goes on with whatever comes next as if it were a header (`remote_session_client.dart`, `_onData`); for arbitrary texts the bytes that follow may well be
a header of its version, so that the statement is not true of every text, and what the run says about a foreign host is said of the texts of the run.

**Only model-checked.** Every liveness property (`CallsReturn`, `WatchersEnd`, `EndIsReported`, `BusyEnds`, `PageCatchesUp`, `NothingIsStuck`, `InputIsRead`),
for liveness under fairness and `ENABLED` are out of the prover's reach; the client of a host with another version, as said above; and what only induction over data could show: what a fold over
a text of any length computes is proved here only as far as both languages do the same with it. Every invariant and every action property that a passing run checks is proved.

## 5. Findings

* `host_keeps_listening`: the end of a session closes the listener together with the connection and goes on accepting
  on it, so a host serves one session per start while its status says listening (`session_manager.cpp:214`,
  `engine/README.md:11`).
* `engine_is_created`: creating an engine locks a `std::mutex` twice on one thread, which is undefined behaviour; where
  it throws or hangs there is no engine (`network_bridge.cpp:402`, `README.md:14`).
* `press_lands_at_touch`: a touch is sent as one button packet with its position, which the host reads and ignores, so that a
  tap clicks wherever the pointer was (`session_manager.cpp:336`, `engine/input/README.md:8`).

The models contain further behaviours that no document of the repository speaks about, so that no property forbids
them. They are hazards in `PROJECT.json` with a note: a listener that a racing `disconnect` drops from its field;
a listener that stays open when the capture fails; a notification of the last incarnation applied to the next; the
backend's words in a status; a bus that breaks and is never watched again; a sign-in request that is never repeated;
overlapping connects; a disconnect that a pending connect undoes; a socket whose option cannot be set and that nobody
closes; a missing library that is remembered for ever; a client that gives up after one attempt, and one that never notices
that its host is gone; the first status that lists a peer, whose parsing throws where the second lock lets an engine exist; there too, an error whose
text is no JSON and stops the page's refreshes; drags and secondary presses without a release.

## 6. What is not modelled

* The pixels, what the Win32 and DXGI calls do beyond succeeding or failing, the Dart records and the fields of their JSON: data without control, but for
  the texts that make the parsing throw. A path that is no UTF-8 would throw where one with a backslash does.
* The local clipboard and audio calls of `MainActivity.kt`: straight calls of the system.
* Audio, file transfer, engine state and logging: placeholders that nothing calls.
* The Windows runner, build scripts, installer and the generated C header: no behaviour of this program.
* `Network_Send` and `Network_Receive` change no state of the runtime; `complete_sign_in`, `get_text`, the software
  encoder, the JSON envelope and the setters of the session have no caller.

## 7. Plan

Done: the session core and its abstract specification, the runtime, both clients' control, the wire format, the way of an input and the
way of a frame, each composed over both programs. What is left to model:

1. `WindowsDashboard` with the promises of the runtime (`TailnetRuntime`) in place of its counter of changes.
2. Both directions of `PacketStream` at once, with the replies to pings.

Proved: every invariant and action property of the runs, and the safety of both refinements. What is left to prove:

1. That the model of `RemoteInput` may take its connection for a queue: an instance of `PacketQueue` with its loss of the last packets.
2. The steps of the liveness arguments that are safety: that each wait of `EngineSession` during a stop has a measure that falls, and that of `PacketStream` that what is
   not waited for is shorter than a packet.
