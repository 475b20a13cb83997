-------------------------- MODULE RemoteInputProofs --------------------------
(***************************************************************************)
(* Proofs about RemoteInput, for any keys and codes, any texts, screens of *)
(* any size and any number of packets in flight.                           *)
(*                                                                         *)
(* Each invariant looks at the whole way at once: what the host will hold  *)
(* down when it has handled all that is in flight.  A code is going to be  *)
(* held if its last event in flight is a press, or if there is none and it *)
(* is held already; likewise the button, and the text of the clipboard.    *)
(***************************************************************************)
EXTENDS RemoteInput, TLAPS

\* The packets that the client sends.
PressAt(x) == Button(x, TRUE)
ReleaseAt(x) == Button(x, FALSE)
KeyPress(code) == Key(code, TRUE)
KeyRelease(code) == Key(code, FALSE)

Moves == {Move(x) : x \in Nat}
Presses == {PressAt(x) : x \in Nat}
Releases == {ReleaseAt(x) : x \in Nat}
Wheels == {Wheel(120)}
KeyPresses == {KeyPress(code) : code \in Codes}
KeyReleases == {KeyRelease(code) : code \in Codes}
AllTexts == {Clipboard(text) : text \in Texts}
Sent == Moves \cup Presses \cup Releases \cup Wheels \cup KeyPresses \cup KeyReleases \cup AllTexts

\* Types, with the queue holding only what the client sends.
Typed ==
    /\ connected \in BOOLEAN /\ metadata \in FrameWidths \cup {NoFrame}
    /\ finger \in {"up", "down", "tapping", "dragging"}
    /\ keyboard \subseteq Keys /\ focused \in BOOLEAN
    /\ queue \in Seq(Sent) /\ Len(queue) <= MaxInFlight
    /\ buttons \subseteq {"left"} /\ pressed \subseteq Codes
    /\ pointer \in Nat /\ clipboard \in Texts \cup {Empty} /\ synced \in Texts \cup {Empty}
    /\ lostInput \in BOOLEAN /\ missed \in BOOLEAN /\ unreleased \in BOOLEAN

\* When q is handled, what On switches on and Off switches off is on: the last of its switches in q is in On,
\* or q has none and it is on now, which is to say in held.
LastWins(q, On, Off, it, held) ==
    \/ \E i \in DOMAIN q : q[i] \in On /\ \A j \in DOMAIN q : j > i => q[j] \notin Off
    \/ it \in held /\ \A j \in DOMAIN q : q[j] \notin Off

\* The code will be held down; so will the button; and the clipboard will have the text, or what is kept.
HeldByQueue(q, held, code) == LastWins(q, {KeyPress(code)}, {KeyRelease(code)}, code, held)

ButtonByQueue(q, held) == LastWins(q, Presses, Releases, "left", held)

TextByQueue(q, now, text, kept) == LastWins(q, {Clipboard(text)}, AllTexts, now, kept)

\* What the clipboard may hold when no text is on the way: anything, if it missed one.
Kept == {synced, Empty} \cup {text \in {clipboard} : missed}

\* Packets whose position is on a desktop of one screen.
Near == {p \in Sent : p.kind = "mouse" => p.x < DesktopWidth}

KeysInv == ~lostInput =>
    \A code \in Codes : HeldByQueue(queue, pressed, code) => \E k \in keyboard : VirtualKey[k] = code
TapsInv == /\ finger # "up" => unreleased
           /\ ~lostInput /\ ~unreleased => ~ButtonByQueue(queue, buttons)
TextInv == TextByQueue(queue, clipboard, synced, Kept)
PositionInv == OneScreen => queue \in Seq(Near) /\ pointer <= 65535

IInv == Typed /\ KeysInv /\ TapsInv /\ TextInv /\ PositionInv

-----------------------------------------------------------------------------
(* Positions.                                                              *)

\* A quotient of an integer and a positive one is an integer, of a natural number a natural number.
LEMMA Quotient ==
    ASSUME NEW a \in Int, NEW b \in Nat \ {0}
    PROVE  /\ a \div b \in Int
           /\ a >= 0 => a \div b >= 0
  OBVIOUS

\* A bound of the dividend by a multiple of the divisor bounds the quotient.
LEMMA QuotientBound ==
    ASSUME NEW a \in Nat, NEW b \in Nat \ {0}, NEW c \in Nat, a <= c * b
    PROVE  a \div b <= c
  OBVIOUS

\* What a clamp returns lies between its bounds, and above the number only where the lower bound is.
LEMMA ClampFacts ==
    ASSUME NEW x \in Int, NEW low \in Int, NEW high \in Int, low <= high
    PROVE  /\ Clamp(x, low, high) \in Int
           /\ low <= Clamp(x, low, high) /\ Clamp(x, low, high) <= high
           /\ x >= low => Clamp(x, low, high) <= x
  BY DEF Clamp

\* The client takes the screen to be at least a pixel wide, and no wider than the desktop if there is
\* one screen.
LEMMA RemoteWidthFacts ==
    ASSUME Typed
    PROVE  /\ RemoteWidth \in Nat \ {0}
           /\ OneScreen => RemoteWidth <= DesktopWidth
  <1>1. CASE metadata = NoFrame
    <2>1. RemoteWidth = Clamp(SurfaceWidth, 1, 10000)
      BY <1>1 DEF RemoteWidth
    <2>2. SurfaceWidth \in Int /\ SurfaceWidth >= 1
      BY ScreenAssumption
    <2>3. /\ Clamp(SurfaceWidth, 1, 10000) \in Int /\ 1 <= Clamp(SurfaceWidth, 1, 10000)
          /\ Clamp(SurfaceWidth, 1, 10000) <= SurfaceWidth
      BY <2>2, ClampFacts
    <2>4. QED
      BY <2>1, <2>2, <2>3, ScreenAssumption DEF OneScreen
  <1>2. CASE metadata # NoFrame
    <2>1. RemoteWidth = metadata /\ metadata \in FrameWidths
      BY <1>2 DEF RemoteWidth, Typed
    <2>2. QED
      BY <2>1, ScreenAssumption DEF OneScreen
  <1>3. QED
    BY <1>1, <1>2

\* A touch becomes a pixel of that screen.
LEMMA RemoteXFacts ==
    ASSUME Typed, NEW dx \in Points
    PROVE  /\ RemoteX(dx) \in Nat
           /\ OneScreen => RemoteX(dx) < DesktopWidth
  <1> DEFINE rounded == (2 * dx * RemoteWidth + SurfaceWidth) \div (2 * SurfaceWidth)
             last == RemoteWidth - 1
  <1>1. RemoteWidth \in Nat \ {0} /\ (OneScreen => RemoteWidth <= DesktopWidth)
    BY RemoteWidthFacts
  <1>2. dx \in Nat /\ SurfaceWidth \in Nat \ {0}
    BY ScreenAssumption DEF Points
  <1>3. 2 * dx * RemoteWidth + SurfaceWidth \in Int /\ 2 * SurfaceWidth \in Nat \ {0}
    BY <1>1, <1>2
  <1>4. rounded \in Int
    BY <1>3, Quotient
  <1>5. RemoteX(dx) = Clamp(rounded, 0, last)
    BY DEF RemoteX
  <1>6. last \in Nat /\ (OneScreen => last < DesktopWidth)
    BY <1>1, ScreenAssumption
  <1> HIDE DEF rounded, last
  <1>7. 0 \in Int /\ last \in Int /\ 0 <= last
    BY <1>6
  <1>8. /\ Clamp(rounded, 0, last) \in Int
        /\ 0 <= Clamp(rounded, 0, last) /\ Clamp(rounded, 0, last) <= last
    BY <1>4, <1>7, ClampFacts
  <1>9. QED
    BY <1>5, <1>6, <1>8, ScreenAssumption

\* What is injected is a step of the desktop, at most 65535 on a desktop of one screen.
LEMMA NormalizedFacts ==
    ASSUME NEW x \in Nat
    PROVE  /\ Normalized(x) \in Nat
           /\ OneScreen /\ x < DesktopWidth => Normalized(x) <= 65535
  <1> DEFINE at == Clamp(x, DesktopLeft, DesktopLeft + DesktopWidth) - DesktopLeft
  <1>1. DesktopWidth \in Nat \ {0} /\ DesktopLeft \in Int
    BY ScreenAssumption
  <1>2. at \in Nat /\ (OneScreen /\ x < DesktopWidth => at <= DesktopWidth - 1)
    <2>1. /\ DesktopLeft + DesktopWidth \in Int /\ DesktopLeft <= DesktopLeft + DesktopWidth
      BY <1>1
    <2>2. /\ Clamp(x, DesktopLeft, DesktopLeft + DesktopWidth) \in Int
          /\ DesktopLeft <= Clamp(x, DesktopLeft, DesktopLeft + DesktopWidth)
          /\ x >= DesktopLeft => Clamp(x, DesktopLeft, DesktopLeft + DesktopWidth) <= x
      BY <1>1, <2>1, ClampFacts
    <2>3. QED
      BY <1>1, <2>2 DEF OneScreen
  <1> HIDE DEF at
  <1>3. CASE DesktopWidth <= 1
    BY <1>3 DEF Normalized
  <1>4. CASE ~(DesktopWidth <= 1)
    <2> DEFINE scaled == at * 65535
               steps == DesktopWidth - 1
    <2>1. steps \in Nat \ {0} /\ scaled \in Nat
      BY <1>1, <1>2, <1>4
    <2>2. Normalized(x) = scaled \div steps
      BY <1>4 DEF Normalized, at
    <2>3. OneScreen /\ x < DesktopWidth => scaled <= 65535 * steps
      BY <1>1, <1>2
    <2> HIDE DEF scaled, steps
    <2>4. scaled \div steps \in Nat
      BY <2>1, Quotient
    <2>5. ASSUME OneScreen, x < DesktopWidth
          PROVE  scaled \div steps <= 65535
      BY <2>1, <2>3, <2>5, QuotientBound
    <2>6. QED
      BY <2>2, <2>4, <2>5
  <1>5. QED
    BY <1>3, <1>4

-----------------------------------------------------------------------------
(* What is in flight.                                                      *)

\* A packet sent decides, or leaves what was decided.
LEMMA LastWinsAppend ==
    ASSUME NEW S, NEW q \in Seq(S), NEW p \in S, NEW On, NEW Off, NEW it, NEW held
    PROVE  LastWins(q \o << p >>, On, Off, it, held) <=> (p \in On \/ (p \notin Off /\ LastWins(q, On, Off, it, held)))
  <1> DEFINE r == q \o << p >>
  <1>1. /\ Len(q) \in Nat /\ DOMAIN q = 1..Len(q)
        /\ DOMAIN r = 1..Len(q) + 1 /\ r[Len(q) + 1] = p
        /\ \A i \in 1..Len(q) : r[i] = q[i]
    OBVIOUS
  <1> HIDE DEF r
  <1>2. p \in On => LastWins(r, On, Off, it, held)
    BY <1>1 DEF LastWins
  <1>3. p \notin Off /\ LastWins(q, On, Off, it, held) => LastWins(r, On, Off, it, held)
    BY <1>1 DEF LastWins
  <1>4. LastWins(r, On, Off, it, held) /\ p \notin On => p \notin Off /\ LastWins(q, On, Off, it, held)
    BY <1>1 DEF LastWins
  <1>5. QED
    BY <1>2, <1>3, <1>4 DEF r

\* The host handles the first packet: then the state it leaves is the one to start from.
LEMMA LastWinsTail ==
    ASSUME NEW S, NEW q \in Seq(S), q # << >>, NEW On, NEW Off, NEW it, NEW held,
           NEW next, NEW kept
    PROVE  /\ (next \in kept => Head(q) \in On \/ (it \in held /\ Head(q) \notin Off)) =>
                (LastWins(Tail(q), On, Off, next, kept) => LastWins(q, On, Off, it, held))
           /\ ((Head(q) \in On \/ (it \in held /\ Head(q) \notin Off)) => next \in kept) =>
                (LastWins(q, On, Off, it, held) => LastWins(Tail(q), On, Off, next, kept))
  <1> DEFINE t == Tail(q)
  <1>1. /\ Len(q) \in Nat \ {0} /\ DOMAIN q = 1..Len(q) /\ Head(q) = q[1]
        /\ DOMAIN t = 1..Len(q) - 1
        /\ \A i \in 1..Len(q) - 1 : t[i] = q[i + 1]
    OBVIOUS
  <1> HIDE DEF t
  <1>2. \A i \in 2..Len(q) : i - 1 \in 1..Len(q) - 1 /\ t[i - 1] = q[i]
    BY <1>1
  <1>3. ASSUME next \in kept => Head(q) \in On \/ (it \in held /\ Head(q) \notin Off), LastWins(t, On, Off, next, kept)
        PROVE  LastWins(q, On, Off, it, held)
    <2>1. CASE \E i \in DOMAIN t : t[i] \in On /\ \A j \in DOMAIN t : j > i => t[j] \notin Off
      <3>1. PICK i \in DOMAIN t : t[i] \in On /\ \A j \in DOMAIN t : j > i => t[j] \notin Off
        BY <2>1
      <3>2. i + 1 \in DOMAIN q /\ q[i + 1] \in On
        BY <3>1, <1>1
      <3>3. \A j \in DOMAIN q : j > i + 1 => q[j] \notin Off
        BY <3>1, <1>1, <1>2
      <3>4. QED
        BY <3>2, <3>3 DEF LastWins
    <2>2. CASE next \in kept /\ \A j \in DOMAIN t : t[j] \notin Off
      <3>1. \A j \in DOMAIN q : j > 1 => q[j] \notin Off
        BY <2>2, <1>1, <1>2
      <3>2. QED
        BY <3>1, <1>1, <1>3, <2>2 DEF LastWins
    <2>3. QED
      BY <2>1, <2>2, <1>3 DEF LastWins
  <1>4. ASSUME (Head(q) \in On \/ (it \in held /\ Head(q) \notin Off)) => next \in kept, LastWins(q, On, Off, it, held)
        PROVE  LastWins(t, On, Off, next, kept)
    <2>1. CASE \E i \in DOMAIN q : q[i] \in On /\ \A j \in DOMAIN q : j > i => q[j] \notin Off
      <3>1. PICK i \in DOMAIN q : q[i] \in On /\ \A j \in DOMAIN q : j > i => q[j] \notin Off
        BY <2>1
      <3>2. CASE i = 1
        BY <3>1, <3>2, <1>1, <1>4 DEF LastWins
      <3>3. CASE i # 1
        <4>1. i \in 2..Len(q)
          BY <3>1, <3>3, <1>1
        <4>2. i - 1 \in DOMAIN t /\ t[i - 1] \in On
          BY <4>1, <3>1, <1>1, <1>2
        <4>3. \A j \in DOMAIN t : j > i - 1 => t[j] \notin Off
          BY <4>1, <3>1, <1>1
        <4>4. QED
          BY <4>2, <4>3 DEF LastWins
      <3>4. QED
        BY <3>2, <3>3
    <2>2. CASE it \in held /\ \A j \in DOMAIN q : q[j] \notin Off
      BY <2>2, <1>1, <1>4 DEF LastWins
    <2>3. QED
      BY <2>1, <2>2, <1>4 DEF LastWins
  <1>5. QED
    BY <1>3, <1>4 DEF t

(* Packets.                                                                *)

\* A record with fields of the right types is a packet of a mouse, ...
LEMMA MouseType ==
    ASSUME NEW k \in {"mouse"}, NEW x \in Nat, NEW w \in {0, 120}, NEW b \in {0, 1},
           NEW f \in SUBSET {"button", "down", "wheel"}
    PROVE  [kind |-> k, x |-> x, wheel |-> w, button |-> b, flags |-> f] \in MousePackets
  BY DEF MousePackets

\* ... or of a key.
LEMMA KeyType ==
    ASSUME NEW k \in {"key"}, NEW c \in Codes, NEW d \in BOOLEAN
    PROVE  [kind |-> k, code |-> c, down |-> d] \in KeyPackets
  BY Zenon DEF KeyPackets

\* What each packet carries.
LEMMA PressAtFields ==
    ASSUME NEW x
    PROVE  /\ PressAt(x).kind = "mouse" /\ PressAt(x).x = x /\ PressAt(x).wheel = 0 /\ PressAt(x).button = 1
           /\ PressAt(x).flags = {"button", "down"}
           /\ PressAt(x) = [kind |-> "mouse", x |-> x, wheel |-> 0, button |-> 1, flags |-> PressAt(x).flags]
  BY DEF PressAt, Button

\* The release of a button.
LEMMA ReleaseAtFields ==
    ASSUME NEW x
    PROVE  /\ ReleaseAt(x).kind = "mouse" /\ ReleaseAt(x).x = x /\ ReleaseAt(x).wheel = 0
           /\ ReleaseAt(x).button = 1 /\ ReleaseAt(x).flags = {"button"}
           /\ ReleaseAt(x) = [kind |-> "mouse", x |-> x, wheel |-> 0, button |-> 1, flags |-> ReleaseAt(x).flags]
  BY DEF ReleaseAt, Button

\* A move.
LEMMA MoveFields ==
    ASSUME NEW x
    PROVE  /\ Move(x).kind = "mouse" /\ Move(x).x = x /\ Move(x).wheel = 0 /\ Move(x).flags = {}
  BY DEF Move

\* A turn of the wheel.
LEMMA WheelFields ==
    /\ Wheel(120).kind = "mouse" /\ Wheel(120).x = 0 /\ Wheel(120).flags = {"wheel"}
  BY DEF Wheel

\* A key's press and release.
LEMMA KeyFields ==
    ASSUME NEW code
    PROVE  /\ KeyPress(code).kind = "key" /\ KeyPress(code).code = code /\ KeyPress(code).down
           /\ KeyRelease(code).kind = "key" /\ KeyRelease(code).code = code /\ ~KeyRelease(code).down
  BY Zenon DEF KeyPress, KeyRelease, Key

\* A text.
LEMMA TextFields ==
    ASSUME NEW text
    PROVE  Clipboard(text).kind = "clipboard" /\ Clipboard(text).text = text
  BY DEF Clipboard

\* What the page sends of the mouse are packets of a mouse, ...
LEMMA MouseTypes ==
    ASSUME NEW x \in Nat
    PROVE  {Move(x), PressAt(x), ReleaseAt(x), Wheel(120)} \subseteq MousePackets
  <1>1. Move(x) \in MousePackets
    BY Zenon, MouseType DEF Move
  <1>2. Wheel(120) \in MousePackets
    BY Zenon, MouseType DEF Wheel
  <1>3. PressAt(x) \in MousePackets
    <2>1. PressAt(x).flags \in SUBSET {"button", "down", "wheel"}
      BY PressAtFields
    <2>2. PressAt(x) = [kind |-> "mouse", x |-> x, wheel |-> 0, button |-> 1, flags |-> PressAt(x).flags]
      BY Zenon, PressAtFields
    <2>3. "mouse" \in {"mouse"} /\ 0 \in {0, 120} /\ 1 \in {0, 1}
      BY Zenon
    <2>4. [kind |-> "mouse", x |-> x, wheel |-> 0, button |-> 1, flags |-> PressAt(x).flags] \in MousePackets
      BY Zenon, <2>1, <2>3, MouseType
    <2>5. QED
      BY Zenon, <2>2, <2>4
  <1>4. ReleaseAt(x) \in MousePackets
    <2>1. ReleaseAt(x).flags \in SUBSET {"button", "down", "wheel"}
      BY ReleaseAtFields
    <2>2. ReleaseAt(x) = [kind |-> "mouse", x |-> x, wheel |-> 0, button |-> 1, flags |-> ReleaseAt(x).flags]
      BY Zenon, ReleaseAtFields
    <2>3. "mouse" \in {"mouse"} /\ 0 \in {0, 120} /\ 1 \in {0, 1}
      BY Zenon
    <2>4. [kind |-> "mouse", x |-> x, wheel |-> 0, button |-> 1, flags |-> ReleaseAt(x).flags] \in MousePackets
      BY Zenon, <2>1, <2>3, MouseType
    <2>5. QED
      BY Zenon, <2>2, <2>4
  <1>5. QED
    BY Zenon, <1>1, <1>2, <1>3, <1>4

\* ... of keys packets of a key, ...
LEMMA KeyTypes ==
    ASSUME NEW code \in Codes
    PROVE  {KeyPress(code), KeyRelease(code)} \subseteq KeyPackets
  BY Zenon, KeyType DEF KeyPress, KeyRelease, Key

\* ... and of a text packets of the clipboard.
LEMMA TextTypes ==
    ASSUME NEW text \in Texts PROVE Clipboard(text) \in ClipboardPackets
  BY Zenon DEF Clipboard, ClipboardPackets

\* All that is sent are packets.
LEMMA SentTypes == Sent \subseteq Packets
  <1>1. Moves \cup Presses \cup Releases \cup Wheels \subseteq MousePackets
    <2>1. Moves \subseteq MousePackets
      BY Zenon, MouseTypes DEF Moves
    <2>2. Presses \subseteq MousePackets
      BY Zenon, MouseTypes DEF Presses
    <2>3. Releases \subseteq MousePackets
      BY Zenon, MouseTypes DEF Releases
    <2>4. 0 \in Nat
      OBVIOUS
    <2>5. Wheels \subseteq MousePackets
      BY Zenon, MouseTypes, <2>4 DEF Wheels
    <2>6. QED
      BY Zenon, <2>1, <2>2, <2>3, <2>5
  <1>2. KeyPresses \cup KeyReleases \subseteq KeyPackets
    BY Zenon, KeyTypes DEF KeyPresses, KeyReleases
  <1>3. AllTexts \subseteq ClipboardPackets
    BY Zenon, TextTypes DEF AllTexts
  <1>4. QED
    BY Zenon, <1>1, <1>2, <1>3 DEF Sent, Packets

\* Each packet tells its kind, and a key's or a text's packet all that it carries.
LEMMA SentKinds ==
    /\ \A p : p \in Moves => p.kind = "mouse"
    /\ \A p : p \in Presses => p.kind = "mouse"
    /\ \A p : p \in Releases => p.kind = "mouse"
    /\ \A p : p \in Wheels => p.kind = "mouse"
    /\ \A p : p \in KeyPresses => p.kind = "key" /\ p.code \in Codes /\ p = KeyPress(p.code)
    /\ \A p : p \in KeyReleases => p.kind = "key" /\ p.code \in Codes /\ p = KeyRelease(p.code)
    /\ \A p : p \in AllTexts => p.kind = "clipboard" /\ p.text \in Texts /\ p = Clipboard(p.text)
  <1>1. \A p : p \in Moves => p.kind = "mouse"
    BY MoveFields DEF Moves
  <1>2. \A p : p \in Presses => p.kind = "mouse"
    BY PressAtFields DEF Presses
  <1>3. \A p : p \in Releases => p.kind = "mouse"
    BY ReleaseAtFields DEF Releases
  <1>4. \A p : p \in Wheels => p.kind = "mouse"
    BY WheelFields DEF Wheels
  <1>5. \A p : p \in KeyPresses => p.kind = "key" /\ p.code \in Codes /\ p = KeyPress(p.code)
    BY SMT, KeyFields DEF KeyPresses
  <1>6. \A p : p \in KeyReleases => p.kind = "key" /\ p.code \in Codes /\ p = KeyRelease(p.code)
    BY SMT, KeyFields DEF KeyReleases
  <1>7. \A p : p \in AllTexts => p.kind = "clipboard" /\ p.text \in Texts /\ p = Clipboard(p.text)
    BY TextFields DEF AllTexts
  <1>8. QED
    BY Zenon, <1>1, <1>2, <1>3, <1>4, <1>5, <1>6, <1>7

\* Flags of the mouse packets

\* The flags tell the mouse's packets apart, and both switches of the button are of button 1.
LEMMA MouseFlags ==
    /\ \A p : p \in Moves \cup Wheels => p.flags \in {{}, {"wheel"}} /\ p \notin Presses \cup Releases
    /\ \A p : p \in Presses => p.flags = {"button", "down"} /\ p.wheel = 0 /\ p.button = 1
    /\ \A p : p \in Releases => p.flags = {"button"} /\ p.wheel = 0 /\ p.button = 1
    /\ Presses \cap Releases = {}
  <1>1. \A p : p \in Moves => p.flags = {}
    BY MoveFields DEF Moves
  <1>2. \A p : p \in Wheels => p.flags = {"wheel"}
    BY WheelFields DEF Wheels
  <1>3. \A p : p \in Presses => p.flags = {"button", "down"} /\ p.wheel = 0 /\ p.button = 1
    BY PressAtFields DEF Presses
  <1>4. \A p : p \in Releases => p.flags = {"button"} /\ p.wheel = 0 /\ p.button = 1
    BY ReleaseAtFields DEF Releases
  <1>5. /\ {"button", "down"} # {} /\ {"button", "down"} # {"wheel"} /\ {"button"} # {} /\ {"button"} # {"wheel"}
        /\ {"button", "down"} # {"button"}
    <2>1. "button" # "wheel" /\ "button" # "down" /\ "down" # "wheel"
      OBVIOUS
    <2>2. "button" \in {"button", "down"} /\ "button" \in {"button"} /\ "down" \in {"button", "down"}
      OBVIOUS
    <2>3. "button" \notin {} /\ "button" \notin {"wheel"} /\ "down" \notin {"button"}
      BY <2>1
    <2>4. QED
      BY Zenon, <2>2, <2>3
  <1>6. QED
    BY Zenon, <1>1, <1>2, <1>3, <1>4, <1>5

\* What the client sends is in flight when it is connected, and lost to the user when it is not.
LEMMA TransmitFacts ==
    ASSUME Typed, NEW p \in Sent, Transmit(<< p >>)
    PROVE  /\ queue' \in Seq(Sent) /\ Len(queue') <= MaxInFlight /\ lostInput' \in BOOLEAN
           /\ queue' \in {queue, queue \o << p >>}
           /\ ~lostInput' => connected /\ ~lostInput /\ queue' = queue \o << p >>
  <1>1. queue \in Seq(Sent) /\ connected \in BOOLEAN /\ lostInput \in BOOLEAN
    BY DEF Typed
  <1>2. << p >> \in Seq(Sent) /\ queue \o << p >> \in Seq(Sent)
    BY <1>1
  <1>3. /\ queue' = IF connected THEN queue \o << p >> ELSE queue
        /\ Len(queue') <= MaxInFlight
        /\ lostInput' = (lostInput \/ ~connected)
    BY DEF Transmit
  <1>4. QED
    BY <1>1, <1>2, <1>3

\* What the host handles is a packet the client sent; what waits behind it stays.
LEMMA HandledFacts ==
    ASSUME Typed, queue # << >>, queue' = Tail(queue)
    PROVE  /\ Head(queue) \in Sent
           /\ queue' \in Seq(Sent) /\ Len(queue') <= MaxInFlight
  <1>1. queue \in Seq(Sent) /\ Len(queue) <= MaxInFlight /\ MaxInFlight \in Nat
    BY BoundAssumption DEF Typed
  <1>2. Head(queue) \in Sent /\ Tail(queue) \in Seq(Sent) /\ Len(Tail(queue)) = Len(queue) - 1 /\ Len(queue) \in Nat
    BY <1>1
  <1>3. QED
    BY <1>1, <1>2

-----------------------------------------------------------------------------
(* What sending a packet keeps.                                            *)

\* KeysInv, when a press is sent for a key the user holds, and the user holds every other key as before.
LEMMA SendKeys ==
    ASSUME IInv, NEW p \in Sent, Transmit(<< p >>), pressed' = pressed,
           \A code \in Codes : p = KeyPress(code) => \E k \in keyboard' : VirtualKey[k] = code,
           \A code \in Codes : p # KeyRelease(code) /\ (\E k \in keyboard : VirtualKey[k] = code) =>
                                   \E k \in keyboard' : VirtualKey[k] = code
    PROVE  KeysInv'
  <1> SUFFICES ASSUME ~lostInput', NEW code \in Codes, HeldByQueue(queue', pressed', code)
               PROVE  \E k \in keyboard' : VirtualKey[k] = code
    BY DEF KeysInv
  <1>1. queue \in Seq(Sent) /\ ~lostInput /\ queue' = queue \o << p >>
    BY TransmitFacts DEF IInv, Typed
  <1>2. p \in {KeyPress(code)} \/ (p \notin {KeyRelease(code)} /\ HeldByQueue(queue, pressed, code))
    BY <1>1, LastWinsAppend DEF HeldByQueue
  <1>3. HeldByQueue(queue, pressed, code) => \E k \in keyboard : VirtualKey[k] = code
    BY <1>1 DEF IInv, KeysInv
  <1>4. QED
    BY <1>2, <1>3

\* TapsInv, when a touch whose press is sent counts as not released.
LEMMA SendTaps ==
    ASSUME IInv, NEW p \in Sent, Transmit(<< p >>), buttons' = buttons, finger' # "up" => unreleased',
           ~unreleased' => p \notin Presses /\ (p \in Releases \/ ~unreleased)
    PROVE  TapsInv'
  <1> SUFFICES ASSUME ~lostInput', ~unreleased', ButtonByQueue(queue', buttons') PROVE FALSE
    BY DEF TapsInv
  <1>1. queue \in Seq(Sent) /\ ~lostInput /\ queue' = queue \o << p >>
    BY TransmitFacts DEF IInv, Typed
  <1>2. p \in Presses \/ (p \notin Releases /\ ButtonByQueue(queue, buttons))
    BY <1>1, LastWinsAppend DEF ButtonByQueue
  <1>3. QED
    BY <1>1, <1>2 DEF IInv, TapsInv

\* What the clipboard may hold does not change with the queue.
LEMMA KeptSame == ASSUME UNCHANGED << clipboard, synced, missed >> PROVE Kept' = Kept
  BY DEF Kept

\* TextInv, when the packet has the text synced, or is of another kind.
LEMMA SendText ==
    ASSUME IInv, NEW p \in Sent, Transmit(<< p >>), UNCHANGED << clipboard, missed >>,
           connected => p = Clipboard(synced') \/ (p \notin AllTexts /\ synced' = synced),
           ~connected => synced' = synced
    PROVE  TextInv'
  <1>1. queue \in Seq(Sent) /\ TextByQueue(queue, clipboard, synced, Kept)
    BY DEF IInv, Typed, TextInv
  <1>2. CASE connected
    <2>1. queue' = queue \o << p >>
      BY <1>2 DEF Transmit
    <2>2. TextByQueue(queue', clipboard', synced', Kept') <=>
              p \in {Clipboard(synced')} \/
              (p \notin AllTexts /\ LastWins(queue, {Clipboard(synced')}, AllTexts, clipboard', Kept'))
      BY <1>1, <2>1, LastWinsAppend DEF TextByQueue
    <2>3. CASE p = Clipboard(synced')
      BY <2>2, <2>3 DEF TextInv
    <2>4. CASE p \notin AllTexts /\ synced' = synced
      <3>1. Kept' = Kept
        BY <2>4, KeptSame
      <3>2. QED
        BY <1>1, <2>2, <2>4, <3>1 DEF TextInv, TextByQueue
    <2>5. QED
      BY <1>2, <2>3, <2>4
  <1>3. CASE ~connected
    <2>1. queue' = queue /\ Kept' = Kept
      BY <1>3, KeptSame DEF Transmit
    <2>2. QED
      BY <1>1, <1>3, <2>1 DEF TextInv
  <1>4. QED
    BY <1>2, <1>3

\* PositionInv, when the position sent is on the desktop.
LEMMA SendPosition ==
    ASSUME IInv, NEW p \in Sent, Transmit(<< p >>), OneScreen => p \in Near, pointer' = pointer
    PROVE  PositionInv'
  <1> SUFFICES ASSUME OneScreen PROVE queue' \in Seq(Near) /\ pointer' <= 65535
    BY DEF PositionInv, OneScreen
  <1>1. queue \in Seq(Near) /\ pointer <= 65535 /\ p \in Near
    BY DEF IInv, PositionInv
  <1>2. << p >> \in Seq(Near) /\ queue \o << p >> \in Seq(Near)
    BY <1>1
  <1>3. QED
    BY <1>1, <1>2, TransmitFacts DEF IInv

\* All four, when no packet is sent, and the user still holds every key unless it counts as lost.
LEMMA SendNothing ==
    ASSUME IInv, queue' = queue, ~lostInput' => ~lostInput, UNCHANGED << host, synced, missed, unreleased >>,
           finger' \in {finger, "up"},
           ~lostInput' => \A code \in Codes : (\E k \in keyboard : VirtualKey[k] = code) =>
                                                  \E k \in keyboard' : VirtualKey[k] = code
    PROVE  KeysInv' /\ TapsInv' /\ TextInv' /\ PositionInv'
  <1> USE DEF host
  <1>1. KeysInv'
    BY DEF IInv, KeysInv, HeldByQueue
  <1>2. TapsInv'
    BY DEF IInv, TapsInv, ButtonByQueue
  <1>3. TextInv'
    <2>1. Kept' = Kept
      BY KeptSame
    <2>2. QED
      BY <2>1 DEF IInv, TextInv
  <1>4. PositionInv'
    BY DEF IInv, PositionInv, OneScreen
  <1>5. QED
    BY <1>1, <1>2, <1>3, <1>4

-----------------------------------------------------------------------------
(* What handling a packet keeps.                                           *)

\* KeysInv, when handling a packet presses only the code of a press.
LEMMA HandledKeys ==
    ASSUME IInv, queue # << >>, queue' = Tail(queue), UNCHANGED << lostInput, keyboard >>,
           \A code \in Codes : code \in pressed' => \/ Head(queue) = KeyPress(code)
                                                    \/ code \in pressed /\ Head(queue) # KeyRelease(code)
    PROVE  KeysInv'
  <1> SUFFICES ASSUME ~lostInput', NEW code \in Codes, HeldByQueue(queue', pressed', code)
               PROVE  \E k \in keyboard' : VirtualKey[k] = code
    BY DEF KeysInv
  <1>1. queue \in Seq(Sent)
    BY DEF IInv, Typed
  <1>2. HeldByQueue(queue, pressed, code)
    BY <1>1, LastWinsTail DEF HeldByQueue
  <1>3. QED
    BY <1>2 DEF IInv, KeysInv

\* TapsInv, when handling a packet presses the button only for a press.
LEMMA HandledTaps ==
    ASSUME IInv, queue # << >>, queue' = Tail(queue), UNCHANGED << lostInput, finger, unreleased >>,
           "left" \in buttons' => Head(queue) \in Presses \/ ("left" \in buttons /\ Head(queue) \notin Releases)
    PROVE  TapsInv'
  <1> SUFFICES ASSUME ~lostInput', ~unreleased', ButtonByQueue(queue', buttons') PROVE FALSE
    BY DEF TapsInv, IInv
  <1>1. queue \in Seq(Sent)
    BY DEF IInv, Typed
  <1>2. ButtonByQueue(queue, buttons)
    BY <1>1, LastWinsTail DEF ButtonByQueue
  <1>3. QED
    BY <1>2 DEF IInv, TapsInv

\* TextInv, when a text handled is what the clipboard gets, or is missed.
LEMMA HandledText ==
    ASSUME IInv, queue # << >>, queue' = Tail(queue), synced' = synced,
           (Head(queue) = Clipboard(synced) \/ (clipboard \in Kept /\ Head(queue) \notin AllTexts)) =>
               clipboard' \in Kept'
    PROVE  TextInv'
  <1>1. queue \in Seq(Sent)
    BY DEF IInv, Typed
  <1>2. TextByQueue(queue, clipboard, synced, Kept)
    BY DEF IInv, TextInv
  <1>3. TextByQueue(Tail(queue), clipboard', synced, Kept')
    BY <1>1, <1>2, LastWinsTail DEF TextByQueue
  <1>4. QED
    BY <1>3 DEF TextInv

\* TextInv, when no text is handled.
LEMMA OtherHandled ==
    ASSUME IInv, queue # << >>, queue' = Tail(queue), UNCHANGED << clipboard, synced, missed >>,
           Head(queue) # Clipboard(synced)
    PROVE  TextInv'
  <1>1. Kept' = Kept
    BY KeptSame
  <1>2. QED
    BY <1>1, HandledText

\* PositionInv, when the pointer stays on the desktop.
LEMMA HandledPosition ==
    ASSUME IInv, queue # << >>, queue' = Tail(queue), OneScreen => pointer' <= 65535
    PROVE  PositionInv'
  <1> SUFFICES ASSUME OneScreen PROVE queue' \in Seq(Near) /\ pointer' <= 65535
    BY DEF PositionInv, OneScreen
  <1>1. queue \in Seq(Near)
    BY DEF IInv, PositionInv
  <1>2. QED
    BY <1>1

\* The four when what is in flight is lost.
LEMMA DropInv ==
    ASSUME IInv, Drop, UNCHANGED << page, unreleased, synced, buttons, pressed, pointer >>,
           clipboard' \in Texts \cup {Empty}, clipboard' = clipboard \/ TextInFlight
    PROVE  IInv'
  <1> USE DEF Drop, page
  <1>1. Typed'
    <2>1. queue' \in Seq(Sent) /\ Len(queue') <= MaxInFlight
      BY BoundAssumption
    <2>2. /\ connected' \in BOOLEAN /\ metadata' \in FrameWidths \cup {NoFrame}
          /\ lostInput' \in BOOLEAN /\ missed' \in BOOLEAN
      OBVIOUS
    <2>3. QED
      BY <2>1, <2>2 DEF IInv, Typed
  <1>2. KeysInv'
    BY DEF KeysInv
  <1>3. TapsInv'
    BY DEF IInv, TapsInv
  <1>4. TextInv'
    <2>1. clipboard' \in Kept'
      <3>1. CASE TextInFlight
        BY <3>1 DEF Kept
      <3>2. CASE ~TextInFlight
        <4>1. clipboard' = clipboard /\ missed' = missed
          BY <3>2 DEF IInv, Typed
        <4>2. Kept' = Kept
          BY <4>1, KeptSame
        <4>3. \A i \in DOMAIN queue : queue[i] # Clipboard(synced)
          BY <3>2, TextFields DEF TextInFlight
        <4>4. clipboard \in Kept
          BY <4>3 DEF IInv, TextInv, TextByQueue, LastWins
        <4>5. QED
          BY <4>1, <4>2, <4>4
      <3>3. QED
        BY <3>1, <3>2
    <2>2. DOMAIN queue' = {}
      OBVIOUS
    <2>3. QED
      BY <2>1, <2>2 DEF TextInv, TextByQueue, LastWins
  <1>5. PositionInv'
    BY DEF IInv, PositionInv, OneScreen
  <1>6. QED
    BY <1>1, <1>2, <1>3, <1>4, <1>5 DEF IInv

-----------------------------------------------------------------------------
(* The page.                                                               *)

\* A button of a touched point, a move to one, a wheel and a key are on the desktop; each is of its own set.
LEMMA PointFacts ==
    ASSUME Typed, NEW dx \in Points
    PROVE  /\ Button(RemoteX(dx), TRUE) \in Presses \cap Sent /\ Button(RemoteX(dx), FALSE) \in Releases \cap Sent
           /\ Move(RemoteX(dx)) \in Moves \cap Sent
           /\ OneScreen => /\ Button(RemoteX(dx), TRUE) \in Near /\ Button(RemoteX(dx), FALSE) \in Near
                           /\ Move(RemoteX(dx)) \in Near
  <1> DEFINE x == RemoteX(dx)
  <1>1. x \in Nat /\ (OneScreen => x < DesktopWidth)
    BY RemoteXFacts
  <1> HIDE DEF x
  <1>2. Button(x, TRUE) = PressAt(x) /\ Button(x, FALSE) = ReleaseAt(x)
    BY DEF PressAt, ReleaseAt
  <1>3. PressAt(x) \in Presses /\ ReleaseAt(x) \in Releases /\ Move(x) \in Moves
    BY <1>1 DEF Presses, Releases, Moves
  <1>4. PressAt(x).x = x /\ ReleaseAt(x).x = x /\ Move(x).x = x
    BY PressAtFields, ReleaseAtFields, MoveFields
  <1>5. PressAt(x) \in Sent /\ ReleaseAt(x) \in Sent /\ Move(x) \in Sent
    BY <1>3 DEF Sent
  <1>6. OneScreen => PressAt(x) \in Near /\ ReleaseAt(x) \in Near /\ Move(x) \in Near
    BY <1>1, <1>4, <1>5 DEF Near
  <1>7. QED
    BY <1>2, <1>3, <1>5, <1>6 DEF x

\* A packet of one kind is not of another.
LEMMA Disjoint ==
    /\ \A p \in Moves \cup Wheels : p \notin Presses \cup Releases
    /\ Presses \cap Releases = {}
    /\ \A p \in Moves \cup Wheels \cup Presses \cup Releases :
           p \notin AllTexts /\ \A code : p # KeyPress(code) /\ p # KeyRelease(code)
    /\ \A p \in AllTexts : p \notin Presses \cup Releases /\ \A code : p # KeyPress(code) /\ p # KeyRelease(code)
    /\ \A code : KeyPress(code) \notin Presses \cup Releases \cup AllTexts
    /\ \A code : KeyRelease(code) \notin Presses \cup Releases \cup AllTexts
    /\ \A c, d : KeyPress(c) # KeyRelease(d)
    /\ \A c, d : (KeyPress(c) = KeyPress(d) \/ KeyRelease(c) = KeyRelease(d)) => c = d
  <1>1. \A p \in Moves \cup Wheels : p \notin Presses \cup Releases
    BY Zenon, MouseFlags
  <1>2. Presses \cap Releases = {}
    BY Zenon, MouseFlags
  <1>3. \A p \in Moves \cup Wheels \cup Presses \cup Releases : p.kind = "mouse"
    BY Zenon, SentKinds
  <1>4. \A p \in AllTexts : p.kind = "clipboard"
    BY Zenon, SentKinds
  <1>5. \A code : KeyPress(code).kind = "key" /\ KeyRelease(code).kind = "key"
    BY Zenon, KeyFields
  <1>6. \A c, d : KeyPress(c) # KeyRelease(d)
    <2> SUFFICES ASSUME NEW c, NEW d, KeyPress(c) = KeyRelease(d) PROVE FALSE
      BY Zenon
    <2>1. KeyPress(c).down /\ ~KeyRelease(d).down
      BY Zenon, KeyFields
    <2>2. QED
      BY Zenon, <2>1
  <1>7. \A c, d : (KeyPress(c) = KeyPress(d) \/ KeyRelease(c) = KeyRelease(d)) => c = d
    <2> SUFFICES ASSUME NEW c, NEW d, KeyPress(c) = KeyPress(d) \/ KeyRelease(c) = KeyRelease(d) PROVE c = d
      BY Zenon
    <2>1. KeyPress(c).code = c /\ KeyPress(d).code = d /\ KeyRelease(c).code = c /\ KeyRelease(d).code = d
      BY Zenon, KeyFields
    <2>2. QED
      BY Zenon, <2>1
  <1>8. "mouse" # "key" /\ "mouse" # "clipboard" /\ "key" # "clipboard"
    BY Zenon
  <1>9. QED
    BY Zenon, <1>1, <1>2, <1>3, <1>4, <1>5, <1>6, <1>7, <1>8

\* A touch that sends one packet.
LEMMA TouchInv ==
    ASSUME IInv, NEW to \in {"up", "down", "tapping", "dragging"},
           NEW p \in Moves \cup Wheels \cup Presses \cup Releases, p \in Sent, Touch(to, << p >>),
           OneScreen => p \in Near, unreleased' \in BOOLEAN, to # "up" => unreleased',
           ~unreleased' => p \notin Presses /\ (p \in Releases \/ ~unreleased)
    PROVE  IInv'
  <1>1. Transmit(<< p >>) /\ finger' = to /\ UNCHANGED << connected, metadata, keyboard, focused, synced, missed >>
    BY DEF Touch
  <1>2. UNCHANGED << buttons, pressed, pointer, clipboard >>
    BY DEF Touch, host
  <1>3. Typed
    BY DEF IInv
  <1>4. queue' \in Seq(Sent) /\ Len(queue') <= MaxInFlight /\ lostInput' \in BOOLEAN
    BY <1>1, <1>3, TransmitFacts
  <1>5. Typed'
    BY <1>1, <1>2, <1>3, <1>4 DEF Typed
  <1>6. p \notin AllTexts /\ \A code : p # KeyPress(code)
    BY Zenon, Disjoint
  <1>7. KeysInv'
    BY <1>1, <1>2, <1>6, SendKeys
  <1>8. TapsInv'
    BY <1>1, <1>2, SendTaps
  <1>9. TextInv'
    BY <1>1, <1>2, <1>6, SendText
  <1>10. PositionInv'
    BY <1>1, <1>2, SendPosition
  <1>11. QED
    BY <1>5, <1>7, <1>8, <1>9, <1>10 DEF IInv

\* The gestures that send a packet, each by TouchInv.
LEMMA PanDownInv == ASSUME IInv, PanDown PROVE IInv'
  <1>1. PICK dx \in Points : Touch("down", << Button(RemoteX(dx), TRUE) >>)
    BY DEF PanDown
  <1>2. unreleased' = TRUE
    BY DEF PanDown
  <1>3. QED
    BY <1>1, <1>2, PointFacts, TouchInv DEF IInv

LEMMA TapDownInv == ASSUME IInv, TapDown PROVE IInv'
  <1>1. PICK dx \in Points : Touch("tapping", << Button(RemoteX(dx), TRUE) >>)
    BY DEF TapDown
  <1>2. unreleased' = unreleased /\ unreleased \in BOOLEAN /\ unreleased
    BY DEF TapDown, IInv, TapsInv, Typed
  <1>3. QED
    BY <1>1, <1>2, PointFacts, TouchInv DEF IInv

LEMMA PanUpdateInv == ASSUME IInv, PanUpdate PROVE IInv'
  <1>1. PICK dx \in Points : Touch("dragging", << Move(RemoteX(dx)) >>)
    BY DEF PanUpdate
  <1>2. unreleased' = unreleased /\ unreleased \in BOOLEAN /\ unreleased
    BY DEF PanUpdate, IInv, TapsInv, Typed
  <1>3. QED
    BY <1>1, <1>2, PointFacts, TouchInv DEF IInv

LEMMA SecondaryTapDownInv == ASSUME IInv, SecondaryTapDown PROVE IInv'
  <1>1. PICK dx \in Points : Touch("up", << Button(RemoteX(dx), TRUE) >>)
    BY DEF SecondaryTapDown
  <1>2. unreleased' = TRUE
    BY DEF SecondaryTapDown
  <1>3. QED
    BY <1>1, <1>2, PointFacts, TouchInv DEF IInv

LEMMA PointerScrollInv == ASSUME IInv, PointerScroll PROVE IInv'
  <1>1. Touch(finger, << Wheel(120) >>) /\ unreleased' = unreleased
    BY DEF PointerScroll
  <1>2. Wheel(120) \in Wheels /\ Wheel(120) \in Sent
    BY DEF Wheels, Sent
  <1>3. OneScreen => Wheel(120) \in Near
    BY <1>2, WheelFields, ScreenAssumption DEF Near
  <1>4. Wheel(120) \notin Presses
    BY <1>2, Disjoint
  <1>5. /\ finger \in {"up", "down", "tapping", "dragging"} /\ unreleased \in BOOLEAN
        /\ finger # "up" => unreleased
    BY DEF IInv, Typed, TapsInv
  <1>6. QED
    BY <1>1, <1>2, <1>3, <1>4, <1>5, TouchInv

\* The release is the last of what a recognised tap sends, one packet or two.
LEMMA TapUpInv == ASSUME IInv, TapUp PROVE IInv'
  <1>1. PICK dx \in Points :
            Touch("up", (IF finger = "down" THEN << Button(RemoteX(dx), TRUE) >> ELSE << >>)
                            \o << Button(RemoteX(dx), FALSE) >>)
    BY DEF TapUp
  <1>2. unreleased' = FALSE
    BY DEF TapUp
  <1> DEFINE a == Button(RemoteX(dx), TRUE)
             b == Button(RemoteX(dx), FALSE)
             q == queue \o << a >>
  <1>3. /\ a \in Presses /\ a \in Sent /\ b \in Releases /\ b \in Sent /\ b \notin Presses
        /\ OneScreen => a \in Near /\ b \in Near
    BY PointFacts, Disjoint DEF IInv
  <1>4. /\ a \notin AllTexts /\ b \notin AllTexts
        /\ \A code : a # KeyPress(code) /\ a # KeyRelease(code) /\ b # KeyPress(code) /\ b # KeyRelease(code)
    BY <1>3, Disjoint
  <1>5. CASE finger # "down"
    <2>1. Touch("up", << >> \o << b >>)
      BY <1>1, <1>5
    <2>2. << >> \o << b >> = << b >>
      OBVIOUS
    <2>3. Touch("up", << b >>)
      BY <2>1, <2>2
    <2>4. QED
      BY <1>2, <1>3, <2>3, TouchInv
  <1>6. CASE finger = "down"
    <2>1. Touch("up", << a >> \o << b >>)
      BY <1>1, <1>6
    <2> HIDE DEF a, b
    <2>2. queue \in Seq(Sent) /\ Typed
      BY DEF IInv, Typed
    <2>3. q \in Seq(Sent) /\ queue \o (<< a >> \o << b >>) = q \o << b >> /\ q \o << b >> \in Seq(Sent)
      BY <1>3, <2>2
    <2>4. /\ finger' = "up" /\ UNCHANGED << connected, metadata, keyboard, focused, synced, missed >>
          /\ UNCHANGED << buttons, pressed, pointer, clipboard >>
      BY <2>1 DEF Touch, host
    <2>5. /\ queue' = IF connected THEN queue \o (<< a >> \o << b >>) ELSE queue
          /\ Len(queue') <= MaxInFlight
          /\ lostInput' = (lostInput \/ ~connected)
      BY <2>1 DEF Touch, Transmit
    <2>6. connected \in BOOLEAN /\ lostInput \in BOOLEAN
      BY <2>2 DEF Typed
    <2> HIDE DEF q
    <2>7. queue' \in Seq(Sent) /\ lostInput' \in BOOLEAN /\ (~lostInput' => ~lostInput /\ queue' = q \o << b >>)
      BY <2>2, <2>3, <2>5, <2>6
    <2>8. Typed'
      BY <1>2, <2>2, <2>4, <2>5, <2>7 DEF Typed
    <2>9. KeysInv'
      <3> SUFFICES ASSUME ~lostInput', NEW code \in Codes, HeldByQueue(queue', pressed', code)
                   PROVE  \E k \in keyboard' : VirtualKey[k] = code
        BY DEF KeysInv
      <3>1. HeldByQueue(q \o << b >>, pressed, code)
        BY <2>4, <2>7
      <3>2. HeldByQueue(q, pressed, code)
        BY <1>3, <1>4, <2>3, <3>1, LastWinsAppend DEF HeldByQueue
      <3>3. HeldByQueue(queue, pressed, code)
        BY <1>3, <1>4, <2>2, <3>2, LastWinsAppend DEF HeldByQueue, q
      <3>4. QED
        BY <2>4, <2>7, <3>3 DEF IInv, KeysInv
    <2>10. TapsInv'
      <3> SUFFICES ASSUME ~lostInput', ButtonByQueue(queue', buttons') PROVE FALSE
        BY <2>4 DEF TapsInv
      <3>1. ButtonByQueue(q \o << b >>, buttons)
        BY <2>4, <2>7
      <3>2. QED
        BY <1>3, <2>3, <3>1, LastWinsAppend DEF ButtonByQueue
    <2>11. TextInv'
      <3>1. TextByQueue(queue, clipboard, synced, Kept)
        BY DEF IInv, TextInv
      <3>2. TextByQueue(q, clipboard, synced, Kept)
        BY <1>3, <1>4, <2>2, <3>1, LastWinsAppend DEF TextByQueue, q
      <3>3. TextByQueue(q \o << b >>, clipboard, synced, Kept)
        BY <1>3, <1>4, <2>3, <3>2, LastWinsAppend DEF TextByQueue
      <3>4. queue' = queue \/ queue' = q \o << b >>
        BY <2>3, <2>5
      <3>5. Kept' = Kept
        BY <2>4, KeptSame
      <3>6. QED
        BY <2>4, <3>1, <3>3, <3>4, <3>5 DEF TextInv
    <2>12. PositionInv'
      <3> SUFFICES ASSUME OneScreen PROVE queue' \in Seq(Near) /\ pointer' <= 65535
        BY DEF PositionInv, OneScreen
      <3>1. queue \in Seq(Near) /\ pointer <= 65535 /\ a \in Near /\ b \in Near
        BY <1>3 DEF IInv, PositionInv
      <3>2. << a >> \o << b >> \in Seq(Near)
        BY <3>1
      <3>3. queue \o (<< a >> \o << b >>) \in Seq(Near)
        BY <3>1, <3>2
      <3>4. QED
        BY <2>4, <2>5, <2>6, <3>1, <3>3
    <2>13. QED
      BY <2>8, <2>9, <2>10, <2>11, <2>12 DEF IInv
  <1>7. QED
    BY <1>5, <1>6

\* A gesture that ends sends nothing.
LEMMA GestureEndsInv == ASSUME IInv, GestureEnds PROVE IInv'
  <1>1. /\ Transmit(<< >>) /\ finger' = "up"
        /\ UNCHANGED << connected, metadata, keyboard, focused, synced, missed, unreleased >> /\ UNCHANGED host
    BY DEF GestureEnds, Touch
  <1>2. Typed
    BY DEF IInv
  <1>3. queue \in Seq(Sent) /\ lostInput \in BOOLEAN /\ connected \in BOOLEAN
    BY <1>2 DEF Typed
  <1>4. queue \o << >> = queue
    BY <1>3
  <1>5. queue' = queue /\ lostInput' = (lostInput \/ ~connected)
    BY <1>1, <1>4 DEF Transmit
  <1>6. Typed'
    BY <1>1, <1>2, <1>3, <1>5 DEF Typed, host
  <1>7. KeysInv' /\ TapsInv' /\ TextInv' /\ PositionInv'
    BY <1>1, <1>3, <1>5, SendNothing
  <1>8. QED
    BY <1>6, <1>7 DEF IInv

\* A virtual key is not 0, and is kept by the cast of its code.
LEMMA CodeFits ==
    ASSUME NEW code \in Codes
    PROVE  code # 0 /\ code % WordLimit = code
  <1>1. WordLimit \in Nat
    BY DEF WordLimit
  <1>2. code \in Nat /\ code # 0 /\ code < WordLimit
    BY <1>1 DEF Codes
  <1>3. QED
    BY <1>1, <1>2

\* A key that the surface sends, or that counts as lost if its event matters.
LEMMA KeyEventInv ==
    ASSUME IInv, NEW k \in Keys, NEW down \in BOOLEAN, KeyEvent(k, down),
           keyboard' = (IF down THEN keyboard \cup {k} ELSE keyboard \ {k}) \/ (~down /\ keyboard' = keyboard)
    PROVE  IInv'
  <1>1. UNCHANGED << connected, metadata, finger, focused, synced, missed, unreleased >> /\ UNCHANGED host
    BY DEF KeyEvent
  <1>2. UNCHANGED << buttons, pressed, pointer, clipboard >>
    BY <1>1 DEF host
  <1>3. Typed /\ keyboard \subseteq Keys
    BY DEF IInv, Typed
  <1>4. keyboard' \subseteq Keys
    BY <1>3
  <1>5. CASE focused /\ VirtualKey[k] # 0
    <2>1. VirtualKey[k] \in Codes
      BY <1>5, KeyAssumption
    <2>2. Transmit(<< Key(VirtualKey[k], down) >>)
      BY <1>5 DEF KeyEvent
    <2>3. /\ down => Key(VirtualKey[k], down) = KeyPress(VirtualKey[k])
          /\ ~down => Key(VirtualKey[k], down) = KeyRelease(VirtualKey[k])
      BY DEF KeyPress, KeyRelease
    <2> DEFINE p == Key(VirtualKey[k], down)
    <2> HIDE DEF p
    <2>4. p \in KeyPresses \cup KeyReleases /\ p \in Sent
      BY <2>1, <2>3 DEF p, KeyPresses, KeyReleases, Sent
    <2>5. p \notin Presses \cup Releases \cup AllTexts
      BY <2>3, Disjoint DEF p
    <2>6. p \in Near
      BY <2>3, <2>4, KeyFields DEF p, Near
    <2>7. Transmit(<< p >>)
      BY <2>2 DEF p
    <2>8. queue' \in Seq(Sent) /\ Len(queue') <= MaxInFlight /\ lostInput' \in BOOLEAN
      BY <1>3, <2>4, <2>7, TransmitFacts
    <2>9. Typed'
      BY <1>1, <1>2, <1>3, <1>4, <2>8 DEF Typed
    <2>10. KeysInv'
      <3>1. ASSUME NEW code \in Codes, p = KeyPress(code) PROVE \E h \in keyboard' : VirtualKey[h] = code
        BY <2>3, <3>1, Disjoint DEF p
      <3>2. ASSUME NEW code \in Codes, p # KeyRelease(code), \E h \in keyboard : VirtualKey[h] = code
            PROVE  \E h \in keyboard' : VirtualKey[h] = code
        BY <2>3, <3>2 DEF p
      <3>3. QED
        BY <1>2, <2>4, <2>7, <3>1, <3>2, SendKeys
    <2>11. TapsInv'
      BY <1>1, <1>2, <2>4, <2>5, <2>7, SendTaps DEF IInv, TapsInv
    <2>12. TextInv'
      BY <1>1, <1>2, <2>4, <2>5, <2>7, SendText
    <2>13. PositionInv'
      BY <1>2, <2>4, <2>6, <2>7, SendPosition
    <2>14. QED
      BY <2>9, <2>10, <2>11, <2>12, <2>13 DEF IInv
  <1>6. CASE ~(focused /\ VirtualKey[k] # 0)
    <2>1. queue' = queue /\ lostInput' = (lostInput \/ VirtualKey[k] # 0)
      BY <1>6 DEF KeyEvent
    <2>2. lostInput \in BOOLEAN
      BY <1>3 DEF Typed
    <2>3. Typed'
      BY <1>1, <1>2, <1>3, <1>4, <2>1, <2>2 DEF Typed
    <2>4. ASSUME ~lostInput', NEW code \in Codes, \E h \in keyboard : VirtualKey[h] = code
          PROVE  \E h \in keyboard' : VirtualKey[h] = code
      <3>1. VirtualKey[k] = 0
        BY <2>1, <2>4
      <3>2. code # 0
        BY CodeFits
      <3>3. PICK h \in keyboard : VirtualKey[h] = code
        BY <2>4
      <3>4. h # k /\ h \in keyboard'
        BY <3>1, <3>2, <3>3
      <3>5. QED
        BY <3>3, <3>4
    <2>5. KeysInv' /\ TapsInv' /\ TextInv' /\ PositionInv'
      BY <1>1, <2>1, <2>2, <2>4, SendNothing
    <2>6. QED
      BY <2>3, <2>5 DEF IInv
  <1>7. QED
    BY <1>5, <1>6

\* A press, a repeat and a release of the page's user.
LEMMA KeysInvKept == ASSUME IInv, NEW k \in Keys, KeyDown(k) \/ KeyRepeat(k) \/ KeyUp(k) PROVE IInv'
  <1>1. CASE KeyDown(k)
    BY <1>1, KeyEventInv DEF KeyDown
  <1>2. CASE KeyUp(k)
    BY <1>2, KeyEventInv DEF KeyUp
  <1>3. CASE KeyRepeat(k)
    BY <1>3, KeyEventInv DEF KeyRepeat
  <1>4. QED
    BY <1>1, <1>2, <1>3

\* Where the keyboard goes next matters to none of it.
LEMMA FocusMovesInv == ASSUME IInv, FocusMoves PROVE IInv'
  <1>1. Typed'
    BY DEF FocusMoves, IInv, Typed, host
  <1>2. KeysInv' /\ TapsInv' /\ TextInv' /\ PositionInv'
    BY SendNothing DEF FocusMoves
  <1>3. QED
    BY <1>1, <1>2 DEF IInv

\* The text synced is the last one in flight.
LEMMA SyncClipboardInv == ASSUME IInv, SyncClipboard PROVE IInv'
  <1>1. PICK text \in Texts : /\ Transmit(<< Clipboard(text) >>)
                              /\ synced' = IF connected THEN text ELSE synced
                              /\ UNCHANGED << connected, metadata, page, host, missed, unreleased >>
    BY DEF SyncClipboard
  <1> DEFINE p == Clipboard(text)
  <1>2. p \in AllTexts /\ p \in Sent
    BY DEF AllTexts, Sent
  <1>3. Typed
    BY DEF IInv
  <1>4. p \in Near
    BY <1>2, TextFields DEF Near
  <1>5. p \notin Presses \cup Releases /\ \A code : p # KeyPress(code)
    BY <1>2, Disjoint
  <1> HIDE DEF p
  <1>6. Transmit(<< p >>) /\ (connected => synced' = text) /\ (~connected => synced' = synced)
    BY <1>1 DEF p
  <1>7. UNCHANGED << buttons, pressed, pointer, clipboard, finger, keyboard, focused, connected, metadata, missed,
                     unreleased >>
    BY <1>1 DEF host, page
  <1>8. queue' \in Seq(Sent) /\ Len(queue') <= MaxInFlight /\ lostInput' \in BOOLEAN
    BY <1>2, <1>3, <1>6, TransmitFacts
  <1>9. synced' \in Texts \cup {Empty}
    BY <1>1, <1>3 DEF Typed
  <1>10. Typed'
    BY <1>3, <1>7, <1>8, <1>9 DEF Typed
  <1>11. KeysInv'
    BY <1>2, <1>5, <1>6, <1>7, SendKeys
  <1>12. TapsInv'
    BY <1>2, <1>5, <1>6, <1>7, SendTaps DEF IInv, TapsInv
  <1>13. TextInv'
    BY <1>2, <1>6, <1>7, SendText DEF p
  <1>14. PositionInv'
    BY <1>2, <1>4, <1>6, <1>7, SendPosition
  <1>15. QED
    BY <1>10, <1>11, <1>12, <1>13, <1>14 DEF IInv

-----------------------------------------------------------------------------
(* The host.                                                               *)

\* What handle_input_packet makes of the first packet, when the desktop takes it.
LEMMA HandleInputCases ==
    ASSUME Typed, HandleInput
    PROVE  \/ Drop /\ UNCHANGED << host, page, synced, unreleased >>
           \/ /\ queue # << >> /\ Handled /\ UNCHANGED << page, synced, missed, unreleased >>
              /\ \/ Head(queue) \in Moves /\ move_mouse(Head(queue))
                 \/ Head(queue) \in Wheels /\ scroll(Head(queue))
                 \/ Head(queue) \in Presses /\ mouse_button(Head(queue))
                 \/ Head(queue) \in Releases /\ mouse_button(Head(queue))
                 \/ Head(queue) \in KeyPresses \cup KeyReleases /\ key(Head(queue))
  <1> DEFINE p == Head(queue)
             taken == CASE p.kind = "key" -> key(p)
                        [] p.kind = "mouse" /\ ("wheel" \in p.flags \/ p.wheel # 0) -> scroll(p)
                        [] p.kind = "mouse" /\ "wheel" \notin p.flags /\ p.wheel = 0 ->
                             IF "button" \in p.flags THEN mouse_button(p) ELSE move_mouse(p)
  <1>1. queue # << >> /\ p.kind \in {"mouse", "key"} /\ UNCHANGED << page, synced, unreleased >>
    BY DEF HandleInput
  <1>2. (taken /\ Handled /\ UNCHANGED missed) \/ (Drop /\ UNCHANGED host)
    BY DEF HandleInput
  <1>3. p \in Sent
    BY <1>1 DEF Typed
  <1> HIDE DEF p
  <1>4. CASE p \in Moves
    <2>1. p.kind = "mouse" /\ p.flags = {} /\ p.wheel = 0
      BY <1>4, MoveFields DEF Moves
    <2>2. taken => move_mouse(p)
      BY <2>1
    <2>3. QED
      BY <1>1, <1>2, <1>4, <2>2 DEF p
  <1>5. CASE p \in Wheels
    <2>1. p.kind = "mouse" /\ p.flags = {"wheel"}
      BY <1>5, WheelFields DEF Wheels
    <2>2. taken => scroll(p)
      BY <2>1
    <2>3. QED
      BY <1>1, <1>2, <1>5, <2>2 DEF p
  <1>6. CASE p \in Presses \cup Releases
    <2>1. p.kind = "mouse" /\ "wheel" \notin p.flags /\ "button" \in p.flags /\ p.wheel = 0
      BY <1>6, SentKinds, MouseFlags
    <2>2. taken => mouse_button(p)
      BY <2>1
    <2>3. QED
      BY <1>1, <1>2, <1>6, <2>2 DEF p
  <1>7. CASE p \in KeyPresses \cup KeyReleases
    <2>1. p.kind = "key"
      BY <1>7, SentKinds
    <2>2. taken => key(p)
      BY <2>1
    <2>3. QED
      BY <1>1, <1>2, <1>7, <2>2 DEF p
  <1>8. CASE p \in AllTexts
    BY <1>1, <1>8, SentKinds
  <1>9. QED
    BY <1>3, <1>4, <1>5, <1>6, <1>7, <1>8 DEF Sent

\* Types after a packet was handled.
LEMMA HandledTyped ==
    ASSUME Typed, queue # << >>, Handled, UNCHANGED << page, synced, unreleased >>,
           buttons' \subseteq {"left"}, pressed' \subseteq Codes, pointer' \in Nat, clipboard' \in Texts \cup {Empty},
           missed' \in BOOLEAN
    PROVE  Typed'
  <1>1. queue' \in Seq(Sent) /\ Len(queue') <= MaxInFlight
    BY HandledFacts DEF Handled
  <1>2. QED
    BY <1>1 DEF Handled, page, Typed

\* mouse_button presses and releases what its packet says.
LEMMA MouseButtonInv ==
    ASSUME IInv, queue # << >>, Handled, UNCHANGED << page, synced, missed, unreleased >>,
           Head(queue) \in Presses \cup Releases, mouse_button(Head(queue))
    PROVE  IInv'
  <1> DEFINE p == Head(queue)
  <1>1. /\ UNCHANGED << pressed, pointer, clipboard >>
        /\ buttons' = HeldAfter(buttons, ButtonName(p.button), "down" \in p.flags)
    BY DEF mouse_button
  <1>2. /\ UNCHANGED << connected, metadata, lostInput, finger, keyboard, focused, synced, missed,
                     unreleased >>
        /\ queue' = Tail(queue)
    BY DEF Handled, page
  <1>3. Typed /\ p \notin AllTexts /\ \A code : p # KeyPress(code) /\ p # KeyRelease(code)
    BY Disjoint DEF IInv
  <1>4. /\ p \in Presses => buttons' = buttons \cup {"left"}
        /\ p \in Releases => buttons' = buttons \ {"left"}
    <2>1. p \in Presses => p.button = 1 /\ "down" \in p.flags
      BY MouseFlags
    <2>2. p \in Releases => p.button = 1 /\ "down" \notin p.flags
      BY MouseFlags
    <2>3. ButtonName(1) = "left"
      BY DEF ButtonName
    <2>4. QED
      BY <1>1, <2>1, <2>2, <2>3 DEF HeldAfter
  <1> HIDE DEF p
  <1>5. buttons' \subseteq {"left"} /\ pressed' \subseteq Codes /\ pointer' \in Nat /\ clipboard' \in Texts \cup {Empty}
    BY <1>1, <1>3, <1>4 DEF Typed, p
  <1>6. Typed'
    BY <1>2, <1>3, <1>5, HandledTyped DEF Typed
  <1>7. KeysInv'
    BY <1>1, <1>2, <1>3, HandledKeys DEF p
  <1>8. TapsInv'
    BY <1>2, <1>4, HandledTaps, Disjoint DEF p
  <1>9. TextInv'
    <2>1. Clipboard(synced) \notin Presses \cup Releases
      <3>1. Clipboard(synced).kind = "clipboard"
        BY TextFields
      <3>2. \A r \in Presses \cup Releases : r.kind = "mouse"
        BY SentKinds
      <3>3. QED
        BY <3>1, <3>2
    <2>2. QED
      BY <1>1, <1>2, <2>1, OtherHandled DEF p
  <1>10. PositionInv'
    BY <1>1, <1>2, HandledPosition DEF IInv, PositionInv
  <1>11. QED
    BY <1>6, <1>7, <1>8, <1>9, <1>10 DEF IInv

\* move_mouse puts the pointer on the desktop.
LEMMA MoveMouseInv ==
    ASSUME IInv, queue # << >>, Handled, UNCHANGED << page, synced, missed, unreleased >>,
           Head(queue) \in Moves, move_mouse(Head(queue))
    PROVE  IInv'
  <1> DEFINE p == Head(queue)
  <1>1. UNCHANGED << buttons, pressed, clipboard >> /\ pointer' = Normalized(p.x)
    BY DEF move_mouse
  <1>2. /\ UNCHANGED << connected, metadata, lostInput, finger, keyboard, focused, synced, missed,
                     unreleased >>
        /\ queue' = Tail(queue)
    BY DEF Handled, page
  <1>3. Typed /\ p \notin AllTexts \cup Presses \cup Releases /\ \A code : p # KeyPress(code) /\ p # KeyRelease(code)
    BY Disjoint DEF IInv
  <1>4. p.x \in Nat /\ p.kind = "mouse"
    BY MoveFields DEF Moves
  <1>5. OneScreen => p.x < DesktopWidth
    <2>1. OneScreen => queue \in Seq(Near)
      BY DEF IInv, PositionInv
    <2>2. OneScreen => Head(queue) \in Near
      BY <2>1
    <2>3. QED
      BY <1>4, <2>2 DEF Near
  <1> HIDE DEF p
  <1>6. pointer' \in Nat /\ (OneScreen => pointer' <= 65535)
    BY <1>1, <1>4, <1>5, NormalizedFacts
  <1>7. Typed'
    BY <1>1, <1>3, <1>6, HandledTyped DEF Typed
  <1>8. KeysInv'
    BY <1>1, <1>2, <1>3, HandledKeys DEF p
  <1>9. TapsInv'
    BY <1>1, <1>2, <1>3, HandledTaps DEF p
  <1>10. TextInv'
    <2>1. Clipboard(synced) # p
      BY <1>4, TextFields
    <2>2. QED
      BY <1>1, <1>2, <2>1, OtherHandled DEF p
  <1>11. PositionInv'
    BY <1>2, <1>6, HandledPosition
  <1>12. QED
    BY <1>7, <1>8, <1>9, <1>10, <1>11 DEF IInv

\* scroll holds nothing down.
LEMMA ScrollInv ==
    ASSUME IInv, queue # << >>, Handled, UNCHANGED << page, synced, missed, unreleased >>,
           Head(queue) \in Wheels, scroll(Head(queue))
    PROVE  IInv'
  <1> DEFINE p == Head(queue)
  <1>1. UNCHANGED << buttons, pressed, pointer, clipboard >>
    BY DEF scroll, host
  <1>2. /\ UNCHANGED << connected, metadata, lostInput, finger, keyboard, focused, synced, missed,
                     unreleased >>
        /\ queue' = Tail(queue)
    BY DEF Handled, page
  <1>3. Typed /\ p \notin AllTexts \cup Presses \cup Releases /\ \A code : p # KeyPress(code) /\ p # KeyRelease(code)
    BY Disjoint DEF IInv
  <1> HIDE DEF p
  <1>4. Typed'
    BY <1>1, <1>3, HandledTyped DEF Typed
  <1>5. KeysInv'
    BY <1>1, <1>2, <1>3, HandledKeys DEF p
  <1>6. TapsInv'
    BY <1>1, <1>2, <1>3, HandledTaps DEF p
  <1>7. TextInv'
    <2>1. p.kind = "mouse"
      BY SentKinds DEF p
    <2>2. Clipboard(synced) # p
      BY <2>1, TextFields
    <2>3. QED
      BY <1>1, <1>2, <2>2, OtherHandled DEF p
  <1>8. PositionInv'
    BY <1>1, <1>2, HandledPosition DEF IInv, PositionInv
  <1>9. QED
    BY <1>4, <1>5, <1>6, <1>7, <1>8 DEF IInv

\* key presses and releases the code of its packet.
LEMMA KeyInv ==
    ASSUME IInv, queue # << >>, Handled, UNCHANGED << page, synced, missed, unreleased >>,
           Head(queue) \in KeyPresses \cup KeyReleases, key(Head(queue))
    PROVE  IInv'
  <1> DEFINE p == Head(queue)
             code == p.code
  <1>1. UNCHANGED << buttons, pointer, clipboard >> /\ pressed' = HeldAfter(pressed, code % WordLimit, p.down)
    BY DEF key
  <1>2. /\ UNCHANGED << connected, metadata, lostInput, finger, keyboard, focused, synced, missed,
                     unreleased >>
        /\ queue' = Tail(queue)
    BY DEF Handled, page
  <1>3. Typed
    BY DEF IInv
  <1>4. /\ code \in Codes
        /\ p \in KeyPresses => p = KeyPress(code)
        /\ p \in KeyReleases => p = KeyRelease(code)
    BY SentKinds
  <1>5. code % WordLimit = code
    BY <1>4, CodeFits
  <1> HIDE DEF p, code
  <1>6. /\ p \in KeyPresses => pressed' = pressed \cup {code}
        /\ p \in KeyReleases => pressed' = pressed \ {code}
    <2>1. p \in KeyPresses => p.down
      BY <1>4, KeyFields
    <2>2. p \in KeyReleases => ~p.down
      BY <1>4, KeyFields
    <2>3. QED
      BY <1>1, <1>5, <2>1, <2>2 DEF HeldAfter
  <1>7. p \in KeyPresses \cup KeyReleases /\ p \notin Presses \cup Releases \cup AllTexts
    BY <1>4, Disjoint DEF p
  <1>8. Typed'
    <2>1. pressed' \subseteq Codes
      BY <1>3, <1>4, <1>6, <1>7 DEF Typed
    <2>2. QED
      BY <1>1, <1>3, <2>1, HandledTyped DEF Typed
  <1>9. KeysInv'
    <2>1. ASSUME NEW c \in Codes, c \in pressed'
          PROVE  p = KeyPress(c) \/ (c \in pressed /\ p # KeyRelease(c))
      BY <1>4, <1>6, <1>7, <2>1, Disjoint
    <2>2. QED
      BY <1>2, <2>1, HandledKeys DEF p
  <1>10. TapsInv'
    BY <1>1, <1>2, <1>7, HandledTaps DEF p
  <1>11. TextInv'
    <2>1. p.kind = "key"
      BY <1>7, SentKinds
    <2>2. Clipboard(synced) # p
      BY <2>1, TextFields
    <2>3. QED
      BY <1>1, <1>2, <2>2, OtherHandled DEF p
  <1>12. PositionInv'
    BY <1>1, <1>2, HandledPosition DEF IInv, PositionInv
  <1>13. QED
    BY <1>8, <1>9, <1>10, <1>11, <1>12 DEF IInv

\* handle_input_packet: one of these, or the connection is lost.
LEMMA HandleInputInv == ASSUME IInv, HandleInput PROVE IInv'
  <1>1. CASE Drop /\ UNCHANGED << host, page, synced, unreleased >>
    BY <1>1, DropInv DEF host, IInv, Typed
  <1>2. CASE /\ queue # << >> /\ Handled /\ UNCHANGED << page, synced, missed, unreleased >>
             /\ \/ Head(queue) \in Moves /\ move_mouse(Head(queue))
                \/ Head(queue) \in Wheels /\ scroll(Head(queue))
                \/ Head(queue) \in Presses /\ mouse_button(Head(queue))
                \/ Head(queue) \in Releases /\ mouse_button(Head(queue))
                \/ Head(queue) \in KeyPresses \cup KeyReleases /\ key(Head(queue))
    BY <1>2, MoveMouseInv, ScrollInv, MouseButtonInv, KeyInv
  <1>3. QED
    BY <1>1, <1>2, HandleInputCases DEF IInv

\* A text that is taken decides; one that fails and loses the connection leaves nothing or what there was.
LEMMA HandleClipboardInv == ASSUME IInv, HandleClipboard PROVE IInv'
  <1> DEFINE p == Head(queue)
  <1>1. /\ queue # << >> /\ p.kind = "clipboard"
        /\ UNCHANGED << page, buttons, pressed, pointer, synced, unreleased >>
    BY DEF HandleClipboard
  <1>2. TextFails \/ TextSet \/ TextRefused
    BY DEF HandleClipboard
  <1>3. Typed /\ p \in Sent
    BY <1>1 DEF IInv, Typed
  <1>4. CASE TextFails
    <2>1. TextInFlight
      <3>1. 1 \in DOMAIN queue /\ Head(queue) = queue[1]
        BY <1>1, <1>3 DEF Typed
      <3>2. QED
        BY <1>1, <3>1 DEF TextInFlight
    <2>2. QED
      BY <1>1, <1>3, <1>4, <2>1, DropInv DEF TextFails, Typed
  <1>5. CASE TextSet \/ TextRefused
    <2> HIDE DEF p
    <2>1. p \in AllTexts
      BY <1>1, <1>3, SentKinds DEF Sent
    <2>2. p.text \in Texts /\ p = Clipboard(p.text)
      BY <2>1, SentKinds
    <2>3. p \notin Presses \cup Releases /\ \A code : p # KeyPress(code) /\ p # KeyRelease(code)
      BY <2>1, Disjoint
    <2>4. Handled /\ UNCHANGED << connected, metadata, lostInput, finger, keyboard, focused, synced, unreleased >>
      BY <1>1, <1>5 DEF TextSet, TextRefused, Handled, page
    <2>5. queue' = Tail(queue) /\ queue # << >>
      BY <1>1, <2>4 DEF Handled
    <2>6. Typed'
      <3>1. clipboard' \in {p.text, Empty, clipboard} /\ missed' \in BOOLEAN
        BY <1>5 DEF TextSet, TextRefused, p
      <3>2. QED
        BY <1>1, <1>3, <2>2, <2>4, <3>1, HandledTyped DEF Typed
    <2>7. KeysInv'
      BY <1>1, <2>3, <2>4, <2>5, HandledKeys DEF p
    <2>8. TapsInv'
      BY <1>1, <2>3, <2>4, <2>5, HandledTaps DEF p
    <2>9. TextInv'
      <3>1. p = Clipboard(synced) => p.text = synced
        BY TextFields
      <3>2. CASE TextSet
        <4>1. clipboard' \in {p.text, Empty} /\ synced' = synced
          BY <2>4, <3>2 DEF TextSet, p
        <4>2. p = Clipboard(synced) => clipboard' \in Kept'
          BY <3>1, <4>1 DEF Kept
        <4>3. QED
          BY <2>1, <2>4, <2>5, <4>2, HandledText DEF p
      <3>3. CASE TextRefused
        <4>1. clipboard' \in Kept'
          BY <3>3 DEF TextRefused, Kept
        <4>2. QED
          BY <2>4, <2>5, <4>1, HandledText
      <3>4. QED
        BY <1>5, <3>2, <3>3
    <2>10. PositionInv'
      BY <1>1, <2>5, HandledPosition DEF IInv, PositionInv
    <2>11. QED
      BY <2>6, <2>7, <2>8, <2>9, <2>10 DEF IInv
  <1>6. QED
    BY <1>2, <1>4, <1>5

-----------------------------------------------------------------------------
(* The connection, and all steps together.                                 *)

\* A connection that breaks loses what is in flight; a new one and a new frame change nothing else.
LEMMA BreakInv == ASSUME IInv, Break PROVE IInv'
  BY DropInv DEF Break, host, IInv, Typed

LEMMA ConnectInv == ASSUME IInv, Connect PROVE IInv'
  <1>1. Typed'
    BY DEF Connect, IInv, Typed, page, host
  <1>2. KeysInv' /\ TapsInv' /\ TextInv' /\ PositionInv'
    BY SendNothing DEF Connect, page
  <1>3. QED
    BY <1>1, <1>2 DEF IInv

LEMMA FrameInv == ASSUME IInv, Frame PROVE IInv'
  <1>1. Typed'
    BY DEF Frame, IInv, Typed, page, host
  <1>2. KeysInv' /\ TapsInv' /\ TextInv' /\ PositionInv'
    BY SendNothing DEF Frame, page
  <1>3. QED
    BY <1>1, <1>2 DEF IInv

\* A step that changes nothing.
LEMMA StutterInv == ASSUME IInv, UNCHANGED vars PROVE IInv'
  <1>1. Typed'
    BY DEF vars, IInv, Typed, page, host
  <1>2. KeysInv' /\ TapsInv' /\ TextInv' /\ PositionInv'
    BY SendNothing DEF vars, page
  <1>3. QED
    BY <1>1, <1>2 DEF IInv

\* Nothing is held and nothing in flight.
LEMMA InitInv == Init => IInv
  <1> SUFFICES ASSUME Init PROVE IInv
    OBVIOUS
  <1> USE DEF Init
  <1>1. queue = << >> /\ DOMAIN queue = {} /\ queue \in Seq(Sent) /\ queue \in Seq(Near) /\ Len(queue) = 0
    OBVIOUS
  <1>2. Typed
    <2>1. Len(queue) <= MaxInFlight /\ pointer \in Nat
      BY <1>1, BoundAssumption
    <2>2. QED
      BY <1>1, <2>1 DEF Typed
  <1>3. KeysInv
    BY <1>1 DEF KeysInv, HeldByQueue, LastWins
  <1>4. TapsInv
    BY <1>1 DEF TapsInv, ButtonByQueue, LastWins
  <1>5. TextInv
    BY <1>1 DEF TextInv, TextByQueue, LastWins, Kept
  <1>6. PositionInv
    BY <1>1 DEF PositionInv
  <1>7. QED
    BY <1>2, <1>3, <1>4, <1>5, <1>6 DEF IInv

\* Every step keeps the inductive invariant.
LEMMA StepInv == IInv /\ [Next]_vars => IInv'
  <1> SUFFICES ASSUME IInv, [Next]_vars PROVE IInv'
    OBVIOUS
  <1>1. CASE PanDown
    BY <1>1, PanDownInv
  <1>2. CASE TapDown
    BY <1>2, TapDownInv
  <1>3. CASE TapUp
    BY <1>3, TapUpInv
  <1>4. CASE PanUpdate
    BY <1>4, PanUpdateInv
  <1>5. CASE GestureEnds
    BY <1>5, GestureEndsInv
  <1>6. CASE SecondaryTapDown
    BY <1>6, SecondaryTapDownInv
  <1>7. CASE PointerScroll
    BY <1>7, PointerScrollInv
  <1>8. CASE \E k \in Keys : KeyDown(k) \/ KeyRepeat(k) \/ KeyUp(k)
    BY <1>8, KeysInvKept
  <1>9. CASE FocusMoves
    BY <1>9, FocusMovesInv
  <1>10. CASE SyncClipboard
    BY <1>10, SyncClipboardInv
  <1>11. CASE HandleInput
    BY <1>11, HandleInputInv
  <1>12. CASE HandleClipboard
    BY <1>12, HandleClipboardInv
  <1>13. CASE Break \/ Connect \/ Frame
    BY <1>13, BreakInv, ConnectInv, FrameInv
  <1>14. CASE UNCHANGED vars
    BY <1>14, StutterInv
  <1>15. QED
    BY <1>1, <1>2, <1>3, <1>4, <1>5, <1>6, <1>7, <1>8, <1>9, <1>10, <1>11, <1>12, <1>13, <1>14 DEF Next

\* The inductive invariant holds in every reachable state.
THEOREM Inductive == Spec => []IInv
  BY InitInv, StepInv, PTL DEF Spec

\* Every variable has its type; so a key the host holds is a virtual key, and a button the left one.
THEOREM TypeCorrect == Spec => []TypeOK
  <1>1. IInv => TypeOK
    <2> SUFFICES ASSUME IInv PROVE TypeOK
      OBVIOUS
    <2>1. queue \in Seq(Packets)
      BY SentTypes DEF IInv, Typed
    <2>2. QED
      BY <2>1 DEF IInv, Typed, TypeOK
  <1>2. QED
    BY <1>1, Inductive, PTL

\* A key that the host holds down (InputInjector::key) is held by the user, or its release is on the
\* way, whatever keys share a code.
THEOREM NoKeyIsStuck == Spec => []KeysAreReleased
  <1>1. IInv => KeysAreReleased
    <2> SUFFICES ASSUME IInv, ~lostInput, NEW code \in pressed, ~InFlight({Key(code, FALSE)})
                 PROVE  \E k \in keyboard : VirtualKey[k] = code
      BY DEF KeysAreReleased
    <2>1. code \in Codes
      BY DEF IInv, Typed
    <2>2. \A i \in DOMAIN queue : queue[i] \notin {KeyRelease(code)}
      BY DEF InFlight, KeyRelease
    <2>3. HeldByQueue(queue, pressed, code)
      BY <2>2 DEF HeldByQueue, LastWins
    <2>4. QED
      BY <2>1, <2>3 DEF IInv, KeysInv
  <1>2. QED
    BY <1>1, Inductive, PTL

\* A tap that the page recognised leaves the host's button up (InputInjector::mouse_button), or its
\* release on the way, however often the gesture pressed it.
THEOREM NoTapIsStuck == Spec => []TapsAreReleased
  <1>1. IInv => TapsAreReleased
    <2> SUFFICES ASSUME IInv, ~lostInput, ~unreleased, "left" \in buttons
                 PROVE  \E i \in DOMAIN queue : queue[i].kind = "mouse" /\ queue[i].flags = {"button"}
      BY DEF TapsAreReleased
    <2>1. PICK i \in DOMAIN queue : queue[i] \in Releases
      BY DEF IInv, TapsInv, ButtonByQueue, LastWins
    <2>2. queue[i].kind = "mouse" /\ queue[i].flags = {"button"}
      BY <2>1, SentKinds, MouseFlags
    <2>3. QED
      BY <2>2
  <1>2. QED
    BY <1>1, Inductive, PTL

\* On a desktop of one screen of any size, move_mouse injects a point within SendInput's 65536 steps,
\* wherever on a surface no wider than it the finger is.
THEOREM PointerStaysOnDesktop == Spec => []PointerIsOnDesktop
  <1>1. IInv => PointerIsOnDesktop
    BY DEF IInv, PositionInv, PointerIsOnDesktop
  <1>2. QED
    BY <1>1, Inductive, PTL

\* When no text is on the way the host's clipboard has the one sent last, or nothing, unless that text was
\* lost or refused (handle_clipboard_packet, ClipboardService::set_text); a later one makes up for it.
THEOREM ClipboardIsCurrent == Spec => []LatestTextIsOnHost
  <1>1. IInv => LatestTextIsOnHost
    <2> SUFFICES ASSUME IInv, ~missed, ~TextInFlight PROVE clipboard \in {synced, Empty}
      BY DEF LatestTextIsOnHost
    <2>1. \A i \in DOMAIN queue : queue[i] # Clipboard(synced)
      BY TextFields DEF TextInFlight
    <2>2. clipboard \in Kept
      BY <2>1 DEF IInv, TextInv, TextByQueue, LastWins
    <2>3. QED
      BY <2>2 DEF Kept
  <1>2. QED
    BY <1>1, Inductive, PTL
=============================================================================
