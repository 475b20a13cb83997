----------------------------- MODULE RemoteInput -----------------------------
(***************************************************************************)
(* The way of an input from the Android page to the host's desktop: the    *)
(* gestures and keys of the page (screenscrab_app.dart), the packets of    *)
(* the client (remote_session_client.dart), handle_input_packet and        *)
(* handle_clipboard_packet of the host, its InputInjector and its          *)
(* ClipboardService.  A connection is a queue of packets, as PacketStream  *)
(* shows, that may be lost with all that is in flight.                     *)
(*                                                                         *)
(* The code treats x and y alike; the model has x alone.                   *)
(***************************************************************************)
EXTENDS Integers, Sequences

CONSTANTS
    Keys,           \* the physical keys of the page's user
    VirtualKey,     \* _windowsVirtualKey: what each is on Windows; 0 for none
    Texts,          \* texts of a clipboard
    SurfaceWidth,   \* the width of the touch surface
    FrameWidths,    \* the widths a frame of the host may have
    DesktopLeft,    \* the host's virtual desktop: SM_XVIRTUALSCREEN and ...
    DesktopWidth,   \* ... SM_CXVIRTUALSCREEN
    MaxInFlight     \* packets in flight; a bound of the model

ASSUME ScreenAssumption ==
    /\ SurfaceWidth \in Nat \ {0} /\ FrameWidths \subseteq Nat \ {0}
    /\ DesktopLeft \in Int /\ DesktopWidth \in Nat \ {0}

WordLimit == 65536  \* the code of a key is cast to uint16_t
Codes == 1..WordLimit - 1  \* virtual keys

ASSUME KeyAssumption == VirtualKey \in [Keys -> Codes \cup {0}]
ASSUME BoundAssumption == MaxInFlight \in Nat

NoFrame == 0
Empty == "empty"  \* an empty clipboard
ASSUME TextAssumption == Empty \notin Texts

VARIABLES
    connected,  \* client and host have a connection
    metadata,   \* the client's _pendingMetadata: the width of the frame
    finger,     \* "up", "down", "tapping" after onTapDown, "dragging"
    keyboard,   \* the keys the user holds down
    focused,    \* the surface has the keyboard's focus
    queue,      \* packets in flight
    buttons,    \* the mouse buttons, and ...
    pressed,    \* ... the virtual keys, that the host's desktop holds down
    pointer,    \* where the last move went, in the 65536 steps of a desktop's width
    clipboard,  \* the host's clipboard
    synced,     \* the text the page has sent last
    lostInput,  \* history: something the user did was not sent, or was lost with a connection
    missed,     \* history: the text sent last, of those not in flight, was lost or refused
    unreleased  \* history: the last press had no onTapUp

page == << finger, keyboard, focused >>
host == << buttons, pressed, pointer, clipboard >>
vars == << connected, metadata, page, queue, host, synced, lostInput, missed, unreleased >>

-----------------------------------------------------------------------------
(* Positions.                                                              *)

Clamp(x, low, high) == IF x < low THEN low ELSE IF x > high THEN high ELSE x

\* What sendMousePosition makes of a point of the surface: a pixel of the frame, or before the first
\* frame of the surface itself. round() of a positive quotient.
RemoteWidth == IF metadata = NoFrame THEN Clamp(SurfaceWidth, 1, 10000) ELSE metadata
\* Mutant of RemoteX: the last pixel is the width.
RemoteXInclusive(dx) == Clamp((2 * dx * RemoteWidth + SurfaceWidth) \div (2 * SurfaceWidth), 0, RemoteWidth)
RemoteX(dx) == Clamp((2 * dx * RemoteWidth + SurfaceWidth) \div (2 * SurfaceWidth), 0, RemoteWidth - 1)

\* What InputInjector::move_mouse gives to SendInput.
Normalized(x) ==
    IF DesktopWidth <= 1 THEN 0
    ELSE ((Clamp(x, DesktopLeft, DesktopLeft + DesktopWidth) - DesktopLeft) * 65535) \div (DesktopWidth - 1)

-----------------------------------------------------------------------------
(* Packets: SessionCodec.mouseEvent, keyEvent and clipboardText.           *)

Move(x) == [kind |-> "mouse", x |-> x, wheel |-> 0, button |-> 0, flags |-> {}]
Button(x, down) ==
    [kind |-> "mouse", x |-> x, wheel |-> 0, button |-> 1, flags |-> {"button"} \cup IF down THEN {"down"} ELSE {}]
Wheel(delta) == [kind |-> "mouse", x |-> 0, wheel |-> delta, button |-> 0, flags |-> {"wheel"}]
Key(code, down) == [kind |-> "key", code |-> code, down |-> down]
Clipboard(text) == [kind |-> "clipboard", text |-> text]

\* The client's send*: nothing without a socket.
Transmit(packets) ==
    /\ queue' = IF connected THEN queue \o packets ELSE queue
    /\ Len(queue') <= MaxInFlight
    /\ lostInput' = (lostInput \/ ~connected)

\* Places of the surface that a finger touches: its edges, a bound of the model.
Points == {0, SurfaceWidth}

-----------------------------------------------------------------------------
(* The page.                                                               *)

Touch(to, packets) ==
    /\ finger' = to
    /\ Transmit(packets)
    /\ UNCHANGED << connected, metadata, keyboard, focused, host, synced, missed >>

\* onPanDown is called as soon as the finger comes down.
PanDown == /\ finger = "up"
           /\ \E dx \in Points : Touch("down", << Button(RemoteX(dx), TRUE) >>)
           /\ unreleased' = TRUE

\* onTapDown, when the finger has rested for a moment: a second press.
TapDown == /\ finger = "down"
           /\ \E dx \in Points : Touch("tapping", << Button(RemoteX(dx), TRUE) >>)
           /\ UNCHANGED unreleased

\* The finger goes up and the tap is recognised: onTapDown unless it was called, and onTapUp.
\* Mutant of TapUp: the release overtakes the press.
TapUpEager ==
    /\ finger \in {"down", "tapping"}
    /\ \E dx \in Points :
           LET x == RemoteX(dx)
           IN  Touch("up", << Button(x, FALSE) >> \o (IF finger = "down" THEN << Button(x, TRUE) >> ELSE << >>))
    /\ unreleased' = FALSE
TapUp == /\ finger \in {"down", "tapping"}
         /\ \E dx \in Points :
                LET x == RemoteX(dx)
                IN  Touch("up", (IF finger = "down" THEN << Button(x, TRUE) >> ELSE << >>) \o << Button(x, FALSE) >>)
         /\ unreleased' = FALSE

PanUpdate == /\ finger # "up"
             /\ \E dx \in Points : Touch("dragging", << Move(RemoteX(dx)) >>)
             /\ UNCHANGED unreleased

\* The drag ends, or the touch goes to another recogniser: there is no onPanEnd and no onTapCancel.
GestureEnds == finger # "up" /\ Touch("up", << >>) /\ UNCHANGED unreleased

\* onSecondaryTapDown: there is no onSecondaryTapUp.
SecondaryTapDown == /\ finger = "up"
                    /\ \E dx \in Points : Touch("up", << Button(RemoteX(dx), TRUE) >>)
                    /\ unreleased' = TRUE

PointerScroll == Touch(finger, << Wheel(120) >>) /\ UNCHANGED unreleased

\* _sendKeyEvent for an event of the surface: only a KeyDownEvent is a press, a repeat is a release.
\* Mutant of KeyEvent: only presses are sent.
KeyEventDownOnly(k, down) ==
    /\ IF focused /\ VirtualKey[k] # 0 /\ down
       THEN Transmit(<< Key(VirtualKey[k], down) >>)
       ELSE UNCHANGED << lostInput, queue >>
    /\ UNCHANGED << connected, metadata, finger, focused, host, synced, missed, unreleased >>
KeyEvent(k, down) ==
    /\ IF focused /\ VirtualKey[k] # 0
       THEN Transmit(<< Key(VirtualKey[k], down) >>)
       ELSE lostInput' = (lostInput \/ VirtualKey[k] # 0) /\ UNCHANGED queue
    /\ UNCHANGED << connected, metadata, finger, focused, host, synced, missed, unreleased >>

KeyDown(k) == k \notin keyboard /\ keyboard' = keyboard \cup {k} /\ KeyEvent(k, TRUE)
KeyRepeat(k) == k \in keyboard /\ KeyEvent(k, FALSE) /\ UNCHANGED keyboard
KeyUp(k) == k \in keyboard /\ keyboard' = keyboard \ {k} /\ KeyEvent(k, FALSE)

\* The text field takes the keyboard.
FocusMoves ==
    /\ focused' = ~focused
    /\ UNCHANGED << connected, metadata, finger, keyboard, queue, host, synced, lostInput, missed,
                    unreleased >>

SyncClipboard ==
    \E text \in Texts :
        /\ Transmit(<< Clipboard(text) >>)
        /\ synced' = IF connected THEN text ELSE synced
        /\ UNCHANGED << connected, metadata, page, host, missed, unreleased >>

-----------------------------------------------------------------------------
(* The host.                                                               *)

TextInFlight == \E i \in DOMAIN queue : queue[i].kind = "clipboard"

\* handle_input_packet or set_text returned false, or the connection broke: what is in flight is lost.
Drop == /\ connected' = FALSE /\ metadata' = NoFrame /\ queue' = << >>
        /\ lostInput' = TRUE /\ missed' = (missed \/ TextInFlight)
Handled == queue' = Tail(queue) /\ UNCHANGED << connected, metadata, lostInput >>

\* Mutant of ButtonName: buttons counted from zero.
ButtonNameFromZero(n) == CASE n = 0 -> "left" [] n = 1 -> "right" [] OTHER -> "middle"
ButtonName(n) == CASE n = 1 -> "left" [] n = 2 -> "right" [] OTHER -> "middle"
HeldAfter(held, it, down) == IF down THEN held \cup {it} ELSE held \ {it}

scroll(p) == UNCHANGED host
mouse_button(p) == /\ buttons' = HeldAfter(buttons, ButtonName(p.button), "down" \in p.flags)
                   /\ UNCHANGED << pressed, pointer, clipboard >>
move_mouse(p) == pointer' = Normalized(p.x) /\ UNCHANGED << buttons, pressed, clipboard >>
key(p) == /\ pressed' = HeldAfter(pressed, p.code % WordLimit, p.down)
          /\ UNCHANGED << buttons, pointer, clipboard >>

\* handle_input_packet; the desktop takes the event, or refuses it and the connection is closed.
HandleInput ==
    /\ queue # << >> /\ Head(queue).kind \in {"mouse", "key"}
    /\ LET p == Head(queue)
       IN  \/ /\ CASE p.kind = "key" -> key(p)
                   [] p.kind = "mouse" /\ ("wheel" \in p.flags \/ p.wheel # 0) -> scroll(p)
                   [] p.kind = "mouse" /\ "wheel" \notin p.flags /\ p.wheel = 0 ->
                        IF "button" \in p.flags THEN mouse_button(p) ELSE move_mouse(p)
              /\ Handled /\ UNCHANGED missed
           \/ Drop /\ UNCHANGED host
    /\ UNCHANGED << page, synced, unreleased >>

\* ClipboardService::set_text returns false: nobody opens the clipboard for us; or it is open, is emptied or
\* not, and then something fails.
TextFails == clipboard' \in {clipboard, Empty} /\ Drop

\* It returns true: the text is set, or the clipboard was emptied and SetClipboardData fails ...
TextSet == clipboard' \in {Head(queue).text, Empty} /\ missed' = FALSE /\ Handled

\* ... or EmptyClipboard had failed too, and the earlier text stays: nobody looks at either result.
TextRefused == clipboard' = clipboard /\ missed' = TRUE /\ Handled

\* Mutant of HandleClipboard: nobody minds that the clipboard could not be opened.
HandleClipboardAnyway ==
    /\ queue # << >> /\ Head(queue).kind = "clipboard"
    /\ \/ TextFails \/ TextSet \/ TextRefused
       \/ clipboard' = clipboard /\ missed' = FALSE /\ Handled
    /\ UNCHANGED << page, buttons, pressed, pointer, synced, unreleased >>
HandleClipboard ==
    /\ queue # << >> /\ Head(queue).kind = "clipboard"
    /\ TextFails \/ TextSet \/ TextRefused
    /\ UNCHANGED << page, buttons, pressed, pointer, synced, unreleased >>

-----------------------------------------------------------------------------
(* The connection.                                                         *)

Break == connected /\ Drop /\ UNCHANGED << page, host, synced, unreleased >>

Connect == /\ ~connected /\ connected' = TRUE
           /\ UNCHANGED << metadata, page, queue, host, synced, lostInput, missed, unreleased >>

\* A frame's metadata arrives.
Frame == /\ connected /\ metadata' \in FrameWidths
         /\ UNCHANGED << connected, page, queue, host, synced, lostInput, missed, unreleased >>

Init == /\ connected = FALSE /\ metadata = NoFrame
        /\ finger = "up" /\ keyboard = {} /\ focused = TRUE
        /\ queue = << >>
        /\ buttons = {} /\ pressed = {} /\ pointer = 0 /\ clipboard = Empty
        /\ synced = Empty /\ lostInput = FALSE /\ missed = FALSE /\ unreleased = FALSE

Next == \/ PanDown \/ TapDown \/ TapUp \/ PanUpdate \/ GestureEnds \/ SecondaryTapDown \/ PointerScroll
        \/ \E k \in Keys : KeyDown(k) \/ KeyRepeat(k) \/ KeyUp(k)
        \/ FocusMoves \/ SyncClipboard
        \/ HandleInput \/ HandleClipboard
        \/ Break \/ Connect \/ Frame

Spec == Init /\ [][Next]_vars

-----------------------------------------------------------------------------

MousePackets ==
    [kind : {"mouse"}, x : Nat, wheel : {0, 120}, button : {0, 1}, flags : SUBSET {"button", "down", "wheel"}]
KeyPackets == [kind : {"key"}, code : Codes, down : BOOLEAN]
ClipboardPackets == [kind : {"clipboard"}, text : Texts]
Packets == MousePackets \cup KeyPackets \cup ClipboardPackets

TypeOK ==
    /\ connected \in BOOLEAN /\ metadata \in FrameWidths \cup {NoFrame}
    /\ finger \in {"up", "down", "tapping", "dragging"}
    /\ keyboard \subseteq Keys /\ focused \in BOOLEAN
    /\ queue \in Seq(Packets) /\ Len(queue) <= MaxInFlight
    /\ buttons \subseteq {"left"} /\ pressed \subseteq Codes
    /\ pointer \in Nat /\ clipboard \in Texts \cup {Empty} /\ synced \in Texts \cup {Empty}
    /\ {lostInput, missed, unreleased} \subseteq BOOLEAN

InFlight(packets) == \E i \in DOMAIN queue : queue[i] \in packets

\* While nothing was lost, the host holds a key down only for a key the user holds, or its release is on
\* the way: a repeat, two keys with one code and a key without a code leave nothing behind.
KeysAreReleased ==
    ~lostInput =>
        \A code \in pressed : \/ \E k \in keyboard : VirtualKey[k] = code
                              \/ InFlight({Key(code, FALSE)})

\* While nothing was lost, a press whose tap was recognised does not stay: the button is up, or its
\* release is on the way, however many presses the gestures have made of one touch.
TapsAreReleased ==
    ~lostInput /\ ~unreleased /\ "left" \in buttons =>
        \E i \in DOMAIN queue : queue[i].kind = "mouse" /\ queue[i].flags = {"button"}

\* On a desktop of one screen a move stays within the 65536 steps of SendInput, although the clamp of
\* move_mouse lets a point through that is one beyond the last.
OneScreen == /\ DesktopLeft = 0 /\ SurfaceWidth <= DesktopWidth
             /\ \A width \in FrameWidths : width <= DesktopWidth
PointerIsOnDesktop == OneScreen => pointer <= 65535

\* When no text is on the way, the host's clipboard holds the text sent last, or nothing where the desktop
\* took the text away: an earlier one stays only if the last was lost with its connection, or if it was
\* refused throughout; one that is set after that makes up for it, also over a new connection.
LatestTextIsOnHost == ~missed /\ ~TextInFlight => clipboard \in {synced, Empty}

\* A press of the mouse is made where the surface was touched (expected to fail: mouse_button ignores
\* the position of its packet, and no move is sent before it).
PressLandsAtTouch ==
    [][ "left" \in buttons' \ buttons => pointer' = Normalized(Head(queue).x) ]_vars
=============================================================================
