---------------------------- MODULE ScreenStream ----------------------------
(***************************************************************************)
(* The way of the host's screen to the Android view: CaptureBackend and    *)
(* its DXGI duplication, EncodeBackend, send_frame and the frame loop of   *)
(* the session, the metadata and frames of RemoteSessionClient, and        *)
(* RemoteDisplayController with the views that come and go.  The frame     *)
(* loop is also the only place where the host reads what the client has    *)
(* sent: inbox counts the packets that wait for it.                        *)
(***************************************************************************)
EXTENDS Integers, Sequences

CONSTANTS
    Modes,      \* what the screen may be set to: records of width, height and stride
    Views,      \* the image views the page makes, one after the other
    MaxFrames,  \* frames told apart by their number; a bound of the model
    MaxQueue,   \* packets to the client in flight, and ...
    MaxCalls,   \* ... calls, and posted bitmaps, of the main thread; bounds of the model
    MaxInbox    \* packets from the client that wait; a bound of the model

ASSUME ModeAssumption ==
    \A m \in Modes : m.width \in Nat \ {0} /\ m.height \in Nat \ {0} /\ m.stride \in Nat /\ m.stride >= 4 * m.width
ASSUME BoundAssumption == MaxFrames \in Nat /\ MaxQueue \in Nat /\ MaxCalls \in Nat /\ MaxInbox \in Nat

NoView == "none"
NoMetadata == [width |-> 0, height |-> 0, stride |-> 0, id |-> 0]

VARIABLES
    mode,         \* what the screen is set to
    duplication,  \* the IDXGIOutputDuplication: "none", "valid", "lost" since the mode has changed
    acquired,     \* it has given a frame that was not released
    worker,       \* the host's worker: "off", "capture", "stage", "map", "encode", "send", "read", "gone"
    frame,        \* the texture acquired, the CaptureFrame, the EncodedFrame: their geometry and number
    captured,     \* the frames captured so far
    inbox,        \* packets of the client that the worker has not read
    queue,        \* packets to the client: metadata and frames
    pending,      \* the client's _pendingMetadata
    calls,        \* renderFrame calls on the way to the main thread
    posted,       \* bitmaps posted to the main thread's handler
    attached,     \* the controller's imageView
    living,       \* the views that were made and not disposed
    made,         \* the views that were made
    shown         \* what each view shows: a bitmap's pixels, and the metadata it was made with

vars == << mode, duplication, acquired, worker, frame, captured, inbox, queue, pending, calls, posted,
           attached, living, made, shown >>
hostVars == << mode, duplication, acquired, worker, frame, captured, inbox >>
clientVars == << pending, calls >>
viewVars == << posted, attached, living, made, shown >>

-----------------------------------------------------------------------------
(* The host.                                                               *)

\* The screen's mode changes: the duplication of the old mode fails from now on, and nobody makes another.
ScreenChanges ==
    /\ mode' \in Modes \ {mode}
    /\ duplication' = IF duplication = "valid" THEN "lost" ELSE duplication
    /\ UNCHANGED << acquired, worker, frame, captured, inbox, queue, clientVars, viewVars >>

\* The host is started and a client connects. EncodeBackend::initialize and CaptureBackend::initialize
\* make all anew, unless one of the calls of create_capture_context fails.
StartHost ==
    /\ worker = "off"
    /\ \/ worker' = "capture" /\ duplication' = "valid"
       \/ worker' = "gone" /\ UNCHANGED duplication
    /\ acquired' = FALSE
    /\ UNCHANGED << mode, frame, captured, inbox, queue, clientVars, viewVars >>

\* The connection ends, for the client with disconnect, and stop() shuts the capture down: the worker notices
\* where it sends or reads, or between two rounds. Calls already made to the display go on.
EndSession ==
    /\ worker \in {"capture", "send", "read", "gone"}
    /\ worker' = "off" /\ duplication' = "none" /\ acquired' = FALSE
    /\ inbox' = 0 /\ queue' = << >> /\ pending' = NoMetadata
    /\ UNCHANGED << mode, frame, captured, calls, viewVars >>

\* FrameGuard: whichever way capture() is left, the duplication gets its frame back.
LeaveCapture(to) == acquired' = FALSE /\ worker' = to

NextFrame == IF captured < MaxFrames THEN captured + 1 ELSE captured

CaptureFrame == [width |-> mode.width, height |-> mode.height, stride |-> mode.stride, id |-> NextFrame]

\* AcquireNextFrame: a frame; or 16 ms without one; or an error when the duplication is lost or holds one.
Acquire ==
    /\ worker = "capture"
    /\ \/ /\ duplication = "valid" /\ ~acquired
          /\ acquired' = TRUE /\ worker' = "stage"
          /\ frame' = CaptureFrame
       \/ UNCHANGED << acquired, worker, frame >>
    /\ UNCHANGED << mode, duplication, captured, inbox, queue, clientVars, viewVars >>

\* CreateTexture2D; it may fail.
Stage ==
    /\ worker = "stage"
    /\ \/ worker' = "map" /\ UNCHANGED acquired
       \/ LeaveCapture("capture")
    /\ UNCHANGED << mode, duplication, frame, captured, inbox, queue, clientVars, viewVars >>

\* Map, the copy of the rows and Unmap; Map may fail.
MapAndCopy ==
    /\ worker = "map"
    /\ \/ LeaveCapture("encode") /\ captured' = NextFrame
       \/ LeaveCapture("capture") /\ UNCHANGED captured
    /\ UNCHANGED << mode, duplication, frame, inbox, queue, clientVars, viewVars >>

\* RawFrameEncoder::encode: a copy.
Encode == worker = "encode" /\ worker' = "send"
          /\ UNCHANGED << mode, duplication, acquired, frame, captured, inbox, queue, clientVars, viewVars >>

\* send_frame: the metadata, then the frame.
\* Mutant of SendFrame: the frame first.
SendFrameFirst ==
    /\ worker = "send" /\ Len(queue) + 2 <= MaxQueue
    /\ queue' = queue \o << [kind |-> "frame", frame |-> frame], [kind |-> "metadata", frame |-> frame] >>
    /\ worker' = "read"
    /\ UNCHANGED << mode, duplication, acquired, frame, captured, inbox, clientVars, viewVars >>
SendFrame ==
    /\ worker = "send" /\ Len(queue) + 2 <= MaxQueue
    /\ queue' = queue \o << [kind |-> "metadata", frame |-> frame], [kind |-> "frame", frame |-> frame] >>
    /\ worker' = "read"
    /\ UNCHANGED << mode, duplication, acquired, frame, captured, inbox, clientVars, viewVars >>

\* process_incoming_packets: until there is nothing to read. Then the next round.
\* Mutant of Read: one packet in a round.
ReadOne ==
    /\ worker = "read"
    /\ inbox' = (IF inbox > 0 THEN inbox - 1 ELSE 0) /\ worker' = "capture"
    /\ UNCHANGED << mode, duplication, acquired, frame, captured, queue, clientVars, viewVars >>
Read ==
    /\ worker = "read"
    /\ IF inbox > 0 THEN inbox' = inbox - 1 /\ UNCHANGED worker ELSE worker' = "capture" /\ UNCHANGED inbox
    /\ UNCHANGED << mode, duplication, acquired, frame, captured, queue, clientVars, viewVars >>

ClientSends == /\ worker \notin {"off", "gone"} /\ inbox < MaxInbox /\ inbox' = inbox + 1
               /\ UNCHANGED << mode, duplication, acquired, worker, frame, captured, queue, clientVars, viewVars >>

-----------------------------------------------------------------------------
(* The client: _handlePacket runs up to its await in one step.             *)

HandleMetadata ==
    /\ queue # << >> /\ Head(queue).kind = "metadata"
    /\ pending' = Head(queue).frame /\ queue' = Tail(queue)
    /\ UNCHANGED << hostVars, calls, viewVars >>

\* The frame goes to the display with the metadata there is at this moment.
HandleFrame ==
    /\ queue # << >> /\ Head(queue).kind = "frame"
    /\ Len(calls) < MaxCalls
    /\ calls' = IF pending = NoMetadata THEN calls
                ELSE Append(calls, [pixels |-> Head(queue).frame, metadata |-> pending])
    /\ queue' = Tail(queue)
    /\ UNCHANGED << hostVars, pending, viewVars >>

-----------------------------------------------------------------------------
(* The main thread.                                                        *)

\* RemoteDisplayController.renderFrame: the bitmap is made now, drawn in a later turn of the thread.
RenderFrame ==
    /\ calls # << >> /\ Len(posted) < MaxCalls
    /\ LET c == Head(calls)
           accepted == /\ c.metadata.width > 0 /\ c.metadata.height > 0 /\ c.metadata.stride > 0
                       /\ c.pixels.stride * c.pixels.height >= c.metadata.stride * c.metadata.height
       IN  posted' = IF accepted THEN Append(posted, c) ELSE posted
    /\ calls' = Tail(calls)
    /\ UNCHANGED << hostVars, queue, pending, attached, living, made, shown >>

\* The posted lambda reads imageView when it runs.
Draw ==
    /\ posted # << >>
    /\ shown' = IF attached = NoView THEN shown ELSE [shown EXCEPT ![attached] = Head(posted)]
    /\ posted' = Tail(posted)
    /\ UNCHANGED << hostVars, queue, clientVars, attached, living, made >>

\* A RemoteDisplayView: attach.
CreateView(v) ==
    /\ v \notin made
    /\ made' = made \cup {v} /\ living' = living \cup {v} /\ attached' = v
    /\ UNCHANGED << hostVars, queue, clientVars, posted, shown >>

\* dispose: detach, which leaves a view that was attached later.
\* Mutant of DisposeView: the controller keeps the view.
DisposeViewStays(v) ==
    /\ v \in living /\ living' = living \ {v}
    /\ UNCHANGED << hostVars, queue, clientVars, posted, attached, made, shown >>
DisposeView(v) ==
    /\ v \in living
    /\ living' = living \ {v}
    /\ attached' = IF attached = v THEN NoView ELSE attached
    /\ UNCHANGED << hostVars, queue, clientVars, posted, made, shown >>

-----------------------------------------------------------------------------

Blank == [pixels |-> NoMetadata, metadata |-> NoMetadata]

Init == /\ mode \in Modes /\ duplication = "none" /\ acquired = FALSE /\ worker = "off"
        /\ frame = NoMetadata /\ captured = 0 /\ inbox = 0
        /\ queue = << >> /\ pending = NoMetadata /\ calls = << >>
        /\ posted = << >> /\ attached = NoView /\ living = {} /\ made = {}
        /\ shown = [v \in Views |-> Blank]

Host == StartHost \/ Acquire \/ Stage \/ MapAndCopy \/ Encode \/ SendFrame \/ Read
Client == HandleMetadata \/ HandleFrame
Next == \/ ScreenChanges \/ Host \/ ClientSends
        \/ EndSession \/ Client
        \/ RenderFrame \/ Draw
        \/ \E v \in Views : CreateView(v) \/ DisposeView(v)

\* The worker, the isolate and the main thread run.
Spec == Init /\ [][Next]_vars /\ WF_vars(Host) /\ WF_vars(Client) /\ WF_vars(RenderFrame) /\ WF_vars(Draw)

-----------------------------------------------------------------------------

Frames == [width : Nat, height : Nat, stride : Nat, id : 0..MaxFrames]
Bitmaps == [pixels : Frames, metadata : Frames]

TypeOK ==
    /\ mode \in Modes /\ duplication \in {"none", "valid", "lost"} /\ acquired \in BOOLEAN
    /\ worker \in {"off", "capture", "stage", "map", "encode", "send", "read", "gone"}
    /\ frame \in Frames /\ captured \in 0..MaxFrames /\ inbox \in 0..MaxInbox
    /\ queue \in Seq([kind : {"metadata", "frame"}, frame : Frames]) /\ Len(queue) <= MaxQueue
    /\ pending \in Frames /\ calls \in Seq(Bitmaps) /\ posted \in Seq(Bitmaps)
    /\ attached \in living \cup {NoView} /\ living \subseteq made /\ made \subseteq Views
    /\ shown \in [Views -> Bitmaps]

\* Whatever is drawn was made with the metadata of its own pixels, although these travel apart and sessions
\* end between any two steps; it is no older than what the view showed before; and it goes to a view
\* that still lives, although it was posted before views came and went.
DrawIsRight ==
    [][ \A v \in Views :
            shown'[v] # shown[v] =>
                /\ shown'[v].metadata = shown'[v].pixels
                /\ shown'[v].pixels.id >= shown[v].pixels.id
                /\ v \in living ]_vars

\* As long as captures go on to succeed, all that the client sends is read, again and again. The premise
\* is needed: a capture that fails, as each does without a change on the screen and for ever once the
\* duplication is lost, goes round the loop without reading.
InputIsRead == []<>(worker = "encode") => []<>(inbox = 0)
=============================================================================
