---------------------------- MODULE PacketStream ----------------------------
(***************************************************************************)
(* One direction of a connection, byte by byte: the sender writes packets, *)
(* send() and recv() take as many bytes as they like, and the receiver     *)
(* finds the packets again.  The host reads with the blocking loop of      *)
(* SessionManager::process_incoming_packets, the Android client with its   *)
(* callback RemoteSessionClient._onData.                                   *)
(***************************************************************************)
EXTENDS WireCodec

CONSTANTS
    MaxPayload,    \* the host's limit of a payload: 1024 * 1024 in the code
    Texts,         \* frames, clipboard texts and reasons: sequences of bytes
    Versions,      \* the wire versions a sender may have
    SendSizes,     \* how much send() and ...
    ReceiveSizes,  \* ... recv() take at most; a bound of the model
    MaxPackets     \* the packets sent in one behaviour; a bound of the model

ASSUME SizesAssumption == /\ MaxPayload \in Nat /\ MaxPackets \in Nat
                          /\ SendSizes \subseteq Nat \ {0} /\ ReceiveSizes \subseteq Nat \ {0}
\* A version is a uint16_t; the longest payload, a text and eight bytes, has a length of 32 bits.
ASSUME TextsAssumption == Texts \subseteq Seq(0..255)
ASSUME LengthsAssumption == \A t \in Texts : (Len(t) + 8) \div 65536 < 65536
ASSUME VersionsAssumption == \A v \in Versions : v \in Nat /\ v < 65536

VARIABLES
    to,       \* who receives: "host" or "client"
    version,  \* the wire version of the sender
    sent,     \* the messages the sender has written
    out,      \* bytes that send() has not taken yet
    wire,     \* bytes in flight
    ended,    \* the sender's end is closed, or the connection lost
    phase,    \* the receiver: "idle", in receive_all of a "header" or a "payload", or in _onData: "data"
    buf,      \* bytes received that belong to no packet taken yet
    got,      \* the messages taken
    open      \* the receiver's end

vars == << to, version, sent, out, wire, ended, phase, buf, got, open >>

-----------------------------------------------------------------------------
(* The messages: a type, 32-bit words and a text.                          *)

Message(type, words, text) == [type |-> type, words |-> words, text |-> text]

Common == {Message("kHello", << 1, 1, 127 >>, << >>), Message("kCapabilities", << 127, 75 >>, << >>),
           Message("kPong", << 70000, 3 >>, << >>)}

\* send_host_hello, send_frame, the ping of run_host_loop and the pong of handle_ping_packet.
FromHost == Common \cup {Message("kSessionStart", << >>, << >>), Message("kPing", << 5, 66000 >>, << >>),
                         Message("kFrameMetadata", << 0, 1920, 1080, 7680, 9, 1 >>, << >>)}
                   \cup {Message("kVideoFrame", << >>, t) : t \in Texts}

\* What the client sends; and a disconnect, which both codecs offer and the host handles.
FromClient == Common \cup {Message("kInputEvent", << 0, 300, 70001, 0, 1, 3 >>, << >>),
                           Message("kInputEvent", << 0, 0, 0, -120, 0, 4 >>, << >>),
                           Message("kInputEvent", << 1, 65, 0, 1 >>, << >>)}
                     \cup {Message(type, << 1 >>, t) : type \in {"kClipboardSync", "kDisconnect"}, t \in Texts}

EnginePayload(m) ==
    LET w == m.words
    IN  CASE m.type = "kHello" -> make_hello(w[1], w[2], w[3])
          [] m.type = "kCapabilities" -> make_capabilities(w[1], w[2])
          [] m.type = "kFrameMetadata" -> make_frame_metadata(w[1], w[2], w[3], w[4], << w[5], w[6] >>)
          [] m.type = "kPing" -> make_ping(w)
          [] m.type = "kPong" -> make_pong(w)
          [] m.type = "kInputEvent" /\ w[1] = 0 -> make_input_mouse(w[2], w[3], w[4], w[5], w[6])
          [] m.type = "kInputEvent" /\ w[1] = 1 -> make_input_key(w[2], w[3], w[4])
          [] m.type = "kClipboardSync" -> make_clipboard(m.text)
          [] m.type = "kDisconnect" -> make_disconnect(w[1], m.text)
          [] OTHER -> m.text

ClientPayload(m) ==
    LET w == m.words
    IN  CASE m.type = "kHello" -> hello(w[1], w[2], w[3])
          [] m.type = "kCapabilities" -> capabilities(w[1], w[2])
          [] m.type = "kFrameMetadata" -> frameMetadata(w[1], w[2], w[3], w[4], << w[5], w[6] >>)
          [] m.type \in {"kPing", "kPong"} -> ping(w)
          [] m.type = "kInputEvent" /\ w[1] = 0 -> mouseEvent(w[2], w[3], w[4], w[5], w[6])
          [] m.type = "kInputEvent" /\ w[1] = 1 -> keyEvent(w[2], w[3], w[4])
          [] m.type = "kClipboardSync" -> clipboardText(m.text)
          [] m.type = "kDisconnect" -> disconnect(w[1], m.text)
          [] OTHER -> m.text

\* The clock's 64 bits; no receiver reads them.
Now == << 1000, 400 >>
EnginePacket(m) == make_packet(version, MessageType[m.type], 0, EnginePayload(m), Now)
ClientPacket(m) == encode(version, MessageType[m.type], 0, ClientPayload(m), Now)

TypeName(n) == CHOOSE name \in DOMAIN MessageType : MessageType[name] = n

\* What handle_packet reads of a payload: nothing of the types it only acknowledges.
HostReads(type, p) ==
    LET name == TypeName(type)
    IN  CASE name = "kInputEvent" /\ read_u32(p, 0) = 0 ->
                 Message(name, << 0, read_i32(p, 4), read_i32(p, 8), read_i32(p, 12), read_u32(p, 16), read_u32(p, 20) >>, << >>)
          [] name = "kInputEvent" /\ read_u32(p, 0) = 1 ->
                 Message(name, << 1, read_u32(p, 4), 0, read_u32(p, 12) >>, << >>)
          [] name = "kClipboardSync" -> Message(name, << read_u32(p, 0) >>, SubSeq(p, 5, Len(p)))
          [] OTHER -> Message(name, << >>, << >>)

\* What _handlePacket reads: the metadata, the bytes of a frame, the nonce of a ping.
ClientReads(type, p) ==
    LET name == TypeName(type)
    IN  CASE name = "kFrameMetadata" ->
                 Message(name, << read_u32(p, 0), read_u32(p, 4), read_u32(p, 8), read_u32(p, 12) >> \o read_u64(p, 16), << >>)
          [] name = "kVideoFrame" -> Message(name, << >>, p)
          [] name = "kPing" -> Message(name, read_u64(p, 0), << >>)
          [] OTHER -> Message(name, << >>, << >>)

-----------------------------------------------------------------------------

Init == /\ to \in {"host", "client"}
        /\ version \in Versions
        /\ sent = << >> /\ out = << >> /\ wire = << >> /\ ended = FALSE
        /\ phase = "idle" /\ buf = << >> /\ got = << >> /\ open = TRUE

First(s, k) == SubSeq(s, 1, k)
From(s, k) == SubSeq(s, k + 1, Len(s))
AtMost(k, n) == IF k < n THEN k ELSE n

\* The engine's next packet waits until send_exact has sent the last; a Dart socket takes them all.
Send(m) ==
    /\ ~ended /\ Len(sent) < MaxPackets
    /\ to = "client" => out = << >>
    /\ sent' = Append(sent, m)
    /\ out' = out \o (IF to = "client" THEN EnginePacket(m) ELSE ClientPacket(m))
    /\ UNCHANGED << to, version, wire, ended, phase, buf, got, open >>

\* A round of send_exact: send() takes some bytes.
Transmit ==
    /\ ~ended /\ out # << >>
    /\ \E size \in SendSizes :
           LET k == AtMost(size, Len(out)) IN wire' = wire \o First(out, k) /\ out' = From(out, k)
    /\ UNCHANGED << to, version, sent, ended, phase, buf, got, open >>

\* The sender closes: what it has sent still arrives. Or the connection is lost with all in flight.
End ==
    /\ ~ended
    /\ ended' = TRUE /\ out' = << >> /\ wire' \in {wire, << >>}
    /\ UNCHANGED << to, version, sent, phase, buf, got, open >>

Close == open' = FALSE /\ phase' = "idle" /\ buf' = << >>

\* poll_readable: there is something to read, or the end.
HostPolls ==
    /\ to = "host" /\ open /\ phase = "idle"
    /\ wire # << >> \/ ended
    /\ phase' = "header"
    /\ UNCHANGED << to, version, sent, out, wire, ended, buf, got, open >>

\* handle_packet and the handlers it calls; a false result closes the connection.
HandlePacket(bytes) ==
    LET view == WirePacketView(bytes)
        size == Len(view.payload)
    IN  IF \/ ~parse_packet(bytes)
           \/ view.type = MessageType.kInputEvent /\ ( \/ size < 4
                                                       \/ read_u32(view.payload, 0) \notin {0, 1}
                                                       \/ read_u32(view.payload, 0) = 0 /\ size < 24
                                                       \/ read_u32(view.payload, 0) = 1 /\ size < 16 )
        THEN Close /\ UNCHANGED got
        ELSE /\ got' = Append(got, HostReads(view.type, view.payload))
             /\ IF view.type = MessageType.kDisconnect
                THEN Close
                ELSE phase' = "idle" /\ buf' = << >> /\ UNCHANGED open

\* What receive_all of this phase has to fill.
Wanted == IF phase = "header" THEN HeaderSize ELSE HeaderSize + read_u32(buf, 12)

\* The header is of another program, or of a payload above the limit.
\* Mutant of Refuses: no limit.
RefusesAnyLength(header) == read_i32(header, 0) # kWireMagic \/ read_u16(header, 4) # kWireVersion
Refuses(header) == \/ read_i32(header, 0) # kWireMagic \/ read_u16(header, 4) # kWireVersion
                   \/ read_u32(header, 12) > MaxPayload

\* A round of receive_exact; when the buffer is full, what process_incoming_packets does with it.
HostReceives ==
    /\ to = "host" /\ open /\ phase # "idle" /\ wire # << >>
    /\ \E size \in ReceiveSizes :
           LET k == AtMost(AtMost(size, Wanted - Len(buf)), Len(wire))
               bytes == buf \o First(wire, k)
           IN  /\ wire' = From(wire, k)
               /\ CASE Len(bytes) < Wanted -> buf' = bytes /\ UNCHANGED << phase, got, open >>
                    [] Len(bytes) = Wanted /\ phase = "payload" -> HandlePacket(bytes)
                    [] Len(bytes) = Wanted /\ phase = "header" ->
                        IF Refuses(bytes)
                        THEN Close /\ UNCHANGED got
                        ELSE IF read_u32(bytes, 12) > 0
                             THEN phase' = "payload" /\ buf' = bytes /\ UNCHANGED << got, open >>
                             ELSE HandlePacket(bytes)
    /\ UNCHANGED << to, version, sent, out, ended >>

\* recv returns zero or an error in the middle of a packet.
HostLosesPeer ==
    /\ to = "host" /\ open /\ phase # "idle" /\ wire = << >> /\ ended
    /\ Close
    /\ UNCHANGED << to, version, sent, out, wire, ended, got >>

\* A chunk of any size arrives: _onData appends it and enters its loop.
ClientData ==
    /\ to = "client" /\ open /\ phase = "idle" /\ wire # << >>
    /\ \E size \in ReceiveSizes :
           LET k == AtMost(size, Len(wire)) IN buf' = buf \o First(wire, k) /\ wire' = From(wire, k)
    /\ phase' = "data"
    /\ UNCHANGED << to, version, sent, out, ended, got, open >>

TotalLength == HeaderSize + read_u32(buf, 12)
HasHeader == Len(buf) >= HeaderSize
\* totalLength throws: the bytes are no header of this version.
Mismatch == HasHeader /\ (read_i32(buf, 0) # kWireMagic \/ read_u16(buf, 4) # kWireVersion)
\* Mutant of WholePacket: waits for a byte of the next packet.
WholePacketAndMore == HasHeader /\ ~Mismatch /\ Len(buf) > TotalLength
WholePacket == HasHeader /\ ~Mismatch /\ Len(buf) >= TotalLength

\* A turn of the loop of _onData: what it lacks, or what it throws, ends it. The isolate runs nothing else.
ClientTakes ==
    /\ phase = "data"
    /\ \/ /\ ~Mismatch /\ ~WholePacket
          /\ phase' = "idle" /\ UNCHANGED << buf, got >>
       \/ /\ Mismatch
          /\ phase' = "idle" /\ buf' = << >> /\ UNCHANGED got
       \/ /\ WholePacket
          /\ buf' = From(buf, TotalLength)
          /\ IF read_u16(buf, 6) > MessageType.kError
             THEN phase' = "idle" /\ UNCHANGED got
             ELSE /\ got' = Append(got, ClientReads(read_u16(buf, 6), SubSeq(buf, HeaderSize + 1, TotalLength)))
                  /\ UNCHANGED phase
    /\ UNCHANGED << to, version, sent, out, wire, ended, open >>

\* _onSocketDone or _onSocketError.
ClientDone ==
    /\ to = "client" /\ open /\ phase = "idle" /\ wire = << >> /\ ended
    /\ Close
    /\ UNCHANGED << to, version, sent, out, wire, ended, got >>

Next == \/ \E m \in IF to = "client" THEN FromHost ELSE FromClient : Send(m)
        \/ Transmit \/ End
        \/ HostPolls \/ HostReceives \/ HostLosesPeer
        \/ ClientData \/ ClientTakes \/ ClientDone

\* send() and recv() return, and the isolate runs its callbacks.
Fairness == /\ WF_vars(Transmit) /\ WF_vars(HostReceives) /\ WF_vars(HostLosesPeer)
            /\ WF_vars(ClientData) /\ WF_vars(ClientTakes) /\ WF_vars(ClientDone)

Spec == Init /\ [][Next]_vars /\ Fairness

-----------------------------------------------------------------------------

TypeOK ==
    /\ to \in {"host", "client"} /\ version \in Versions
    /\ \A s \in {out, wire, buf} : \A i \in DOMAIN s : s[i] \in 0..255
    /\ Len(sent) <= MaxPackets /\ \A i \in DOMAIN sent : sent[i] \in FromHost \cup FromClient
    /\ ended \in BOOLEAN /\ open \in BOOLEAN
    /\ phase \in (IF to = "host" THEN {"idle", "header", "payload"} ELSE {"idle", "data"})
    /\ \A i \in DOMAIN got : got[i].type \in DOMAIN MessageType

\* Both languages write the same bytes for every message: the engine's by appending, the client's by
\* filling a buffer at offsets.
CodecsAgree == \A i \in DOMAIN sent : EnginePacket(sent[i]) = ClientPacket(sent[i])

-----------------------------------------------------------------------------
(* The stream implements a queue of messages.                              *)

\* What the receiver understands of a message when it reads only what its handlers use.
Understood(m) ==
    CASE to = "client" /\ m.type \in {"kFrameMetadata", "kVideoFrame", "kPing"} -> m
      [] to = "host" /\ m.type = "kClipboardSync" -> m
      [] to = "host" /\ m.type = "kInputEvent" -> [m EXCEPT !.words[3] = IF m.words[1] = 1 THEN 0 ELSE @]
      [] OTHER -> [m EXCEPT !.words = << >>, !.text = << >>]

Unreadable == Message("refused", << >>, << >>)

\* A sender of another version is refused, and so is a payload above the host's limit.
Promised(m) ==
    IF version # kWireVersion \/ (to = "host" /\ Len(ClientPayload(m)) > MaxPayload)
    THEN Unreadable ELSE Understood(m)

Queue == INSTANCE PacketQueue WITH sent <- [i \in DOMAIN sent |-> Promised(sent[i])], Refused <- Unreadable

\* However send() and recv() cut the bytes, the receiver takes the messages sent, in their order, each
\* once and as the sender meant it; none of another version, none above the limit and none after it.
ImplementsQueue == Queue!Safety

\* A message is taken, or the receiver's end is closed: no packet stays unread in a buffer. For the
\* host, if it goes on polling, which a capture that fails keeps it from.
NothingIsStuck ==
    WF_vars(HostPolls) =>
        \A n \in 1..MaxPackets :
            (version = kWireVersion /\ Len(sent) >= n) ~> (Len(got) >= n \/ ~open)
=============================================================================
