------------------------- MODULE PacketStreamProofs -------------------------
(***************************************************************************)
(* Proofs about PacketStream, for any texts, any version and any sizes in  *)
(* which the bytes travel.  The two codecs agree about every message; what *)
(* a receiver reads of a packet is what the sender meant; the types; and   *)
(* the stream implements PacketQueue, because what is on its way is, byte  *)
(* for byte, the packets not taken yet (QInv).                             *)
(***************************************************************************)
EXTENDS PacketStream, WireCodecProofs

\* What is said of a message by its two payloads, and by its type.
Agreed(m) == /\ EnginePayload(m) = ClientPayload(m)
             /\ EnginePayload(m) \in Seq(Int)
             /\ MessageType[m.type] \in Int

-----------------------------------------------------------------------------
(* One lemma for each shape of a message.                                  *)

LEMMA Hello ==
    ASSUME NEW a \in Int, NEW b \in Int, NEW c \in Int
    PROVE  Agreed(Message("kHello", << a, b, c >>, << >>))
  <1> DEFINE m == Message("kHello", << a, b, c >>, << >>)
  <1>0. m.type = "kHello" /\ m.words = << a, b, c >> /\ m.text = << >>
    BY DEF Message
  <1>1. MessageType[m.type] \in Int
    BY <1>0 DEF MessageType
  <1>w. << a, b, c >>[1] = a /\ << a, b, c >>[2] = b /\ << a, b, c >>[3] = c
    OBVIOUS
  <1>2. EnginePayload(m) = make_hello(a, b, c) /\ ClientPayload(m) = hello(a, b, c)
    BY <1>0, <1>w DEF EnginePayload, ClientPayload
  <1> HIDE DEF m
  <1>3. make_hello(a, b, c) = hello(a, b, c) /\ make_hello(a, b, c) \in Seq(Int)
    BY HelloAgrees
  <1>4. QED
    BY <1>1, <1>2, <1>3 DEF Agreed, m

LEMMA Capabilities ==
    ASSUME NEW a \in Int, NEW b \in Int
    PROVE  Agreed(Message("kCapabilities", << a, b >>, << >>))
  <1> DEFINE m == Message("kCapabilities", << a, b >>, << >>)
  <1>0. m.type = "kCapabilities" /\ m.words = << a, b >> /\ m.text = << >>
    BY DEF Message
  <1>1. MessageType[m.type] \in Int
    BY <1>0 DEF MessageType
  <1>w. << a, b >>[1] = a /\ << a, b >>[2] = b
    OBVIOUS
  <1>2. EnginePayload(m) = make_capabilities(a, b) /\ ClientPayload(m) = capabilities(a, b)
    BY <1>0, <1>w DEF EnginePayload, ClientPayload
  <1> HIDE DEF m
  <1>3. make_capabilities(a, b) = capabilities(a, b) /\ make_capabilities(a, b) \in Seq(Int)
    BY PairAgrees
  <1>4. QED
    BY <1>1, <1>2, <1>3 DEF Agreed, m

LEMMA Ping ==
    ASSUME NEW a \in Int, NEW b \in Int
    PROVE  Agreed(Message("kPing", << a, b >>, << >>))
  <1> DEFINE m == Message("kPing", << a, b >>, << >>)
  <1>0. m.type = "kPing" /\ m.words = << a, b >> /\ m.text = << >>
    BY DEF Message
  <1>1. MessageType[m.type] \in Int
    BY <1>0 DEF MessageType
  <1>2. EnginePayload(m) = make_ping(<< a, b >>) /\ ClientPayload(m) = ping(<< a, b >>)
    BY <1>0 DEF EnginePayload, ClientPayload
  <1> HIDE DEF m
  <1>3. make_ping(<< a, b >>) = ping(<< a, b >>) /\ make_ping(<< a, b >>) \in Seq(Int)
    BY PairAgrees
  <1>4. QED
    BY <1>1, <1>2, <1>3 DEF Agreed, m

LEMMA Pong ==
    ASSUME NEW a \in Int, NEW b \in Int
    PROVE  Agreed(Message("kPong", << a, b >>, << >>))
  <1> DEFINE m == Message("kPong", << a, b >>, << >>)
  <1>0. m.type = "kPong" /\ m.words = << a, b >> /\ m.text = << >>
    BY DEF Message
  <1>1. MessageType[m.type] \in Int
    BY <1>0 DEF MessageType
  <1>2. EnginePayload(m) = make_pong(<< a, b >>) /\ ClientPayload(m) = ping(<< a, b >>)
    BY <1>0 DEF EnginePayload, ClientPayload
  <1> HIDE DEF m
  <1>3. make_pong(<< a, b >>) = ping(<< a, b >>) /\ make_pong(<< a, b >>) \in Seq(Int)
    BY PairAgrees
  <1>4. QED
    BY <1>1, <1>2, <1>3 DEF Agreed, m

LEMMA Metadata ==
    ASSUME NEW a \in Int, NEW b \in Int, NEW c \in Int, NEW d \in Int, NEW e \in Int, NEW g \in Int
    PROVE  Agreed(Message("kFrameMetadata", << a, b, c, d, e, g >>, << >>))
  <1> DEFINE m == Message("kFrameMetadata", << a, b, c, d, e, g >>, << >>)
  <1>0. m.type = "kFrameMetadata" /\ m.words = << a, b, c, d, e, g >> /\ m.text = << >>
    BY DEF Message
  <1>1. MessageType[m.type] \in Int
    <2>1. MessageType["kFrameMetadata"] \in Int
      BY DEF MessageType
    <2>2. QED
      BY <1>0, <2>1, Zenon
  <1>w. << a, b, c, d, e, g >>[1] = a /\ << a, b, c, d, e, g >>[2] = b /\ << a, b, c, d, e, g >>[3] = c /\ << a, b, c, d, e, g >>[4] = d /\ << a, b, c, d, e, g >>[5] = e /\ << a, b, c, d, e, g >>[6] = g
    OBVIOUS
  <1>2. EnginePayload(m) = make_frame_metadata(a, b, c, d, << e, g >>) /\ ClientPayload(m) = frameMetadata(a, b, c, d, << e, g >>)
    BY <1>0, <1>w DEF EnginePayload, ClientPayload
  <1> HIDE DEF m
  <1>3. make_frame_metadata(a, b, c, d, << e, g >>) = frameMetadata(a, b, c, d, << e, g >>) /\ make_frame_metadata(a, b, c, d, << e, g >>) \in Seq(Int)
    BY MetadataAgrees
  <1>4. QED
    BY <1>1, <1>2, <1>3 DEF Agreed, m

LEMMA Mouse ==
    ASSUME NEW a \in Int, NEW b \in Int, NEW c \in Int, NEW d \in Int, NEW e \in Int
    PROVE  Agreed(Message("kInputEvent", << 0, a, b, c, d, e >>, << >>))
  <1> DEFINE m == Message("kInputEvent", << 0, a, b, c, d, e >>, << >>)
  <1>0. m.type = "kInputEvent" /\ m.words = << 0, a, b, c, d, e >> /\ m.text = << >>
    BY DEF Message
  <1>1. MessageType[m.type] \in Int
    BY <1>0 DEF MessageType
  <1>w. << 0, a, b, c, d, e >>[1] = 0 /\ << 0, a, b, c, d, e >>[2] = a /\ << 0, a, b, c, d, e >>[3] = b /\ << 0, a, b, c, d, e >>[4] = c /\ << 0, a, b, c, d, e >>[5] = d /\ << 0, a, b, c, d, e >>[6] = e
    OBVIOUS
  <1>2. EnginePayload(m) = make_input_mouse(a, b, c, d, e) /\ ClientPayload(m) = mouseEvent(a, b, c, d, e)
    BY <1>0, <1>w DEF EnginePayload, ClientPayload
  <1> HIDE DEF m
  <1>3. make_input_mouse(a, b, c, d, e) = mouseEvent(a, b, c, d, e) /\ make_input_mouse(a, b, c, d, e) \in Seq(Int)
    BY MouseAgrees
  <1>4. QED
    BY <1>1, <1>2, <1>3 DEF Agreed, m

LEMMA Key ==
    ASSUME NEW a \in Int, NEW b \in Int, NEW c \in Int
    PROVE  Agreed(Message("kInputEvent", << 1, a, b, c >>, << >>))
  <1> DEFINE m == Message("kInputEvent", << 1, a, b, c >>, << >>)
  <1>0. m.type = "kInputEvent" /\ m.words = << 1, a, b, c >> /\ m.text = << >>
    BY DEF Message
  <1>1. MessageType[m.type] \in Int
    BY <1>0 DEF MessageType
  <1>w. << 1, a, b, c >>[1] = 1 /\ << 1, a, b, c >>[2] = a /\ << 1, a, b, c >>[3] = b /\ << 1, a, b, c >>[4] = c
    OBVIOUS
  <1>2. EnginePayload(m) = make_input_key(a, b, c) /\ ClientPayload(m) = keyEvent(a, b, c)
    BY <1>0, <1>w DEF EnginePayload, ClientPayload
  <1> HIDE DEF m
  <1>3. make_input_key(a, b, c) = keyEvent(a, b, c) /\ make_input_key(a, b, c) \in Seq(Int)
    BY KeyAgrees
  <1>4. QED
    BY <1>1, <1>2, <1>3 DEF Agreed, m

LEMMA Clipboard ==
    ASSUME NEW text \in Seq(Int), NEW words
    PROVE  Agreed(Message("kClipboardSync", words, text))
  <1> DEFINE m == Message("kClipboardSync", words, text)
  <1>0. m.type = "kClipboardSync" /\ m.words = words /\ m.text = text
    BY DEF Message
  <1>1. MessageType[m.type] \in Int
    BY <1>0 DEF MessageType
  <1>2. EnginePayload(m) = make_clipboard(text) /\ ClientPayload(m) = clipboardText(text)
    BY <1>0 DEF EnginePayload, ClientPayload
  <1> HIDE DEF m
  <1>3. make_clipboard(text) = clipboardText(text) /\ make_clipboard(text) \in Seq(Int)
    BY ClipboardAgrees
  <1>4. QED
    BY <1>1, <1>2, <1>3 DEF Agreed, m

LEMMA Disconnect ==
    ASSUME NEW a \in Int, NEW text \in Seq(Int)
    PROVE  Agreed(Message("kDisconnect", << a >>, text))
  <1> DEFINE m == Message("kDisconnect", << a >>, text)
  <1>0. m.type = "kDisconnect" /\ m.words = << a >> /\ m.text = text
    BY DEF Message
  <1>1. MessageType[m.type] \in Int
    BY <1>0 DEF MessageType
  <1>w. << a >>[1] = a
    OBVIOUS
  <1>2. EnginePayload(m) = make_disconnect(a, text) /\ ClientPayload(m) = disconnect(a, text)
    BY <1>0, <1>w DEF EnginePayload, ClientPayload
  <1> HIDE DEF m
  <1>3. make_disconnect(a, text) = disconnect(a, text) /\ make_disconnect(a, text) \in Seq(Int)
    BY DisconnectAgrees
  <1>4. QED
    BY <1>1, <1>2, <1>3 DEF Agreed, m

LEMMA Plain ==
    ASSUME NEW text \in Seq(Int), NEW type \in {"kSessionStart", "kVideoFrame"}
    PROVE  Agreed(Message(type, << >>, text))
  <1> DEFINE m == Message(type, << >>, text)
  <1>0. m.type = type /\ m.text = text
    BY DEF Message
  <1>1. MessageType[m.type] \in Int
    BY <1>0 DEF MessageType
  <1>2. EnginePayload(m) = text /\ ClientPayload(m) = text
    BY <1>0 DEF EnginePayload, ClientPayload
  <1> HIDE DEF m
  <1>3. QED
    BY <1>1, <1>2 DEF Agreed, m

-----------------------------------------------------------------------------

\* The messages of either side.
LEMMA MessagesAgreed == \A m \in FromHost \cup FromClient : Agreed(m)
  <1>1. << >> \in Seq(Int) /\ \A t \in Texts : t \in Seq(Int)
    <2>1. 0..255 \subseteq Int
      OBVIOUS
    <2>2. \A t \in Seq(0..255) : t \in Seq(Int)
      BY <2>1, SeqMonotonic
    <2>3. QED
      BY <2>2, TextsAssumption
  <1>2. \A m \in Common : Agreed(m)
    BY Hello, Capabilities, Pong DEF Common
  <1>3. \A m \in FromHost : Agreed(m)
    <2>1. Agreed(Message("kSessionStart", << >>, << >>))
      BY <1>1, Plain
    <2>2. Agreed(Message("kPing", << 5, 66000 >>, << >>))
      BY Ping
    <2>3. Agreed(Message("kFrameMetadata", << 0, 1920, 1080, 7680, 9, 1 >>, << >>))
      BY Metadata
    <2>4. \A t \in Texts : Agreed(Message("kVideoFrame", << >>, t))
      BY <1>1, Plain
    <2>5. QED
      BY <1>2, <2>1, <2>2, <2>3, <2>4 DEF FromHost
  <1>4. \A m \in FromClient : Agreed(m)
    <2>1. Agreed(Message("kInputEvent", << 0, 300, 70001, 0, 1, 3 >>, << >>))
      BY Mouse
    <2>2. Agreed(Message("kInputEvent", << 0, 0, 0, -120, 0, 4 >>, << >>))
      BY Mouse
    <2>3. Agreed(Message("kInputEvent", << 1, 65, 0, 1 >>, << >>))
      BY Key
    <2>4. \A t \in Texts : Agreed(Message("kClipboardSync", << 1 >>, t)) /\ Agreed(Message("kDisconnect", << 1 >>, t))
      BY <1>1, Clipboard, Disconnect
    <2>5. QED
      BY <1>2, <2>1, <2>2, <2>3, <2>4 DEF FromClient
  <1>5. QED
    BY <1>3, <1>4

\* Both languages send the same packet for such a message.
LEMMA SamePacket ==
    ASSUME NEW m, Agreed(m), version \in Nat
    PROVE  EnginePacket(m) = ClientPacket(m)
  <1>1. Now = << 1000, 400 >> /\ 1000 \in Int /\ 400 \in Int /\ 0 \in Int /\ version \in Int
    BY DEF Now
  <1>2. QED
    BY <1>1, PacketsAgree DEF Agreed, EnginePacket, ClientPacket

\* The constants.
LEMMA VersionsAreShort == Versions \subseteq Short
  <1>1. SUFFICES ASSUME NEW v \in Versions PROVE v \in Short
    OBVIOUS
  <1>3. v \in Nat /\ v < 65536
    BY VersionsAssumption
  <1>4. QED
    BY <1>3 DEF Short

LEMMA TextsFit == \A t \in Texts : t \in Seq(Bytes) /\ Len(t) + 8 \in Unsigned
  <1>1. SUFFICES ASSUME NEW t \in Texts PROVE t \in Seq(Bytes) /\ Len(t) + 8 \in Unsigned
    OBVIOUS
  <1>2. t \in Seq(Bytes) /\ (Len(t) + 8) \div 65536 < 65536
    BY TextsAssumption, LengthsAssumption DEF Bytes
  <1>3. PICK n \in Nat : n = Len(t)
    BY <1>2
  <1>4. (n + 8) \div 65536 < 65536
    BY <1>2, <1>3
  <1>5. n + 8 \in Nat /\ n + 8 <= 4294967295
    BY <1>4, SMT
  <1>6. QED
    BY <1>2, <1>3, <1>5 DEF Unsigned

\* What is sent are messages, by a sender of one version.
SentInv == version \in Versions /\ sent \in Seq(FromHost \cup FromClient)

LEMMA SentStep == ASSUME SentInv, [Next]_vars PROVE SentInv'
  <1>1. ASSUME UNCHANGED << version, sent >> PROVE SentInv'
    BY <1>1 DEF SentInv
  <1>2. ASSUME NEW m \in IF to = "client" THEN FromHost ELSE FromClient, Send(m) PROVE SentInv'
    <2>1. m \in FromHost \cup FromClient
      OBVIOUS
    <2>2. QED
      BY <1>2, <2>1 DEF SentInv, Send
  <1>3. QED
    BY <1>1, <1>2
       DEF Next, vars, Transmit, End, HostPolls, HostReceives, HostLosesPeer, ClientData, ClientTakes, ClientDone

\* The codecs of the engine and of the Android client agree on all that is sent: any text, any version.
THEOREM CodecsAlwaysAgree == Spec => []CodecsAgree
  <1>1. Init => SentInv
    BY DEF Init, SentInv
  <1>2. SentInv /\ [Next]_vars => SentInv'
    BY SentStep
  <1>3. SentInv => CodecsAgree
    <2>1. SUFFICES ASSUME SentInv, NEW i \in DOMAIN sent PROVE EnginePacket(sent[i]) = ClientPacket(sent[i])
      BY DEF CodecsAgree
    <2>2. sent[i] \in FromHost \cup FromClient /\ version \in Nat
      BY <2>1, VersionsAreShort DEF SentInv, Short
    <2>3. QED
      BY <2>2, MessagesAgreed, SamePacket
  <1>4. QED
    BY <1>1, <1>2, <1>3, PTL DEF Spec

-----------------------------------------------------------------------------
(* What the receivers read of each message.                                *)

\* The types have different numbers, from 0 to 15.
LEMMA TypeNames ==
    /\ \A name \in DOMAIN MessageType : TypeName(MessageType[name]) = name /\ MessageType[name] \in 0..15
    /\ \A n \in 0..15 : TypeName(n) \in DOMAIN MessageType
  <1>1. DOMAIN MessageType = {"kHello", "kCapabilities", "kFrameMetadata", "kSessionStart", "kSessionStop",
                              "kVideoFrame", "kAudioFrame", "kInputEvent", "kClipboardSync", "kFileOffer",
                              "kFileChunk", "kDeviceList", "kPing", "kPong", "kDisconnect", "kError"}
    BY DEF MessageType
  <1>2. \A n1, n2 \in DOMAIN MessageType : MessageType[n1] = MessageType[n2] => n1 = n2
    BY DEF MessageType
  <1>3. \A name \in DOMAIN MessageType : MessageType[name] \in 0..15
    BY DEF MessageType
  <1>4. \A n \in 0..15 : \E name \in DOMAIN MessageType : MessageType[name] = n
    <2>1. SUFFICES ASSUME NEW n \in 0..15 PROVE \E name \in DOMAIN MessageType : MessageType[name] = n
      OBVIOUS
    <2>2. n \in {0, 1, 2, 3, 4, 5, 6, 7, 8, 9, 10, 11, 12, 13, 14, 15}
      BY <2>1
    <2>3. QED
      BY <1>1, <2>2 DEF MessageType
  <1>5. ASSUME NEW name \in DOMAIN MessageType PROVE TypeName(MessageType[name]) = name
    BY <1>2 DEF TypeName
  <1>6. ASSUME NEW n \in 0..15 PROVE TypeName(n) \in DOMAIN MessageType
    BY <1>4 DEF TypeName
  <1>7. QED
    BY <1>3, <1>5, <1>6

\* The arms of the two readers.
LEMMA HostArms ==
    ASSUME NEW type, NEW p
    PROVE  /\ TypeName(type) = "kInputEvent" /\ read_u32(p, 0) = 0 =>
                HostReads(type, p) = Message("kInputEvent", << 0, read_i32(p, 4), read_i32(p, 8), read_i32(p, 12),
                                                               read_u32(p, 16), read_u32(p, 20) >>, << >>)
           /\ TypeName(type) = "kInputEvent" /\ read_u32(p, 0) = 1 =>
                HostReads(type, p) = Message("kInputEvent", << 1, read_u32(p, 4), 0, read_u32(p, 12) >>, << >>)
           /\ TypeName(type) = "kClipboardSync" =>
                HostReads(type, p) = Message("kClipboardSync", << read_u32(p, 0) >>, SubSeq(p, 5, Len(p)))
           /\ TypeName(type) \notin {"kInputEvent", "kClipboardSync"} =>
                HostReads(type, p) = Message(TypeName(type), << >>, << >>)
           /\ HostReads(type, p).type = TypeName(type)
  <1> DEFINE name == TypeName(type)
  <1>1. ASSUME name = "kInputEvent", read_u32(p, 0) = 0
        PROVE  HostReads(type, p) = Message("kInputEvent", << 0, read_i32(p, 4), read_i32(p, 8), read_i32(p, 12),
                                                              read_u32(p, 16), read_u32(p, 20) >>, << >>)
    BY <1>1 DEF HostReads
  <1>2. ASSUME name = "kInputEvent", read_u32(p, 0) = 1
        PROVE  HostReads(type, p) = Message("kInputEvent", << 1, read_u32(p, 4), 0, read_u32(p, 12) >>, << >>)
    BY <1>2 DEF HostReads
  <1>3. ASSUME name = "kClipboardSync"
        PROVE  HostReads(type, p) = Message("kClipboardSync", << read_u32(p, 0) >>, SubSeq(p, 5, Len(p)))
    BY <1>3 DEF HostReads
  <1>4. ASSUME name \notin {"kInputEvent", "kClipboardSync"} PROVE HostReads(type, p) = Message(name, << >>, << >>)
    BY <1>4 DEF HostReads
  <1>5. HostReads(type, p).type = name
    BY DEF HostReads, Message
  <1>6. QED
    BY <1>1, <1>2, <1>3, <1>4, <1>5

LEMMA ClientArms ==
    ASSUME NEW type, NEW p
    PROVE  /\ TypeName(type) = "kFrameMetadata" =>
                ClientReads(type, p) = Message("kFrameMetadata", << read_u32(p, 0), read_u32(p, 4), read_u32(p, 8),
                                                                    read_u32(p, 12) >> \o read_u64(p, 16), << >>)
           /\ TypeName(type) = "kVideoFrame" => ClientReads(type, p) = Message("kVideoFrame", << >>, p)
           /\ TypeName(type) = "kPing" => ClientReads(type, p) = Message("kPing", read_u64(p, 0), << >>)
           /\ TypeName(type) \notin {"kFrameMetadata", "kVideoFrame", "kPing"} =>
                ClientReads(type, p) = Message(TypeName(type), << >>, << >>)
           /\ ClientReads(type, p).type = TypeName(type)
  <1> DEFINE name == TypeName(type)
  <1>1. ASSUME name = "kFrameMetadata"
        PROVE  ClientReads(type, p) = Message("kFrameMetadata", << read_u32(p, 0), read_u32(p, 4), read_u32(p, 8),
                                                                   read_u32(p, 12) >> \o read_u64(p, 16), << >>)
    BY <1>1 DEF ClientReads
  <1>2. ASSUME name = "kVideoFrame" PROVE ClientReads(type, p) = Message("kVideoFrame", << >>, p)
    BY <1>2 DEF ClientReads
  <1>3. ASSUME name = "kPing" PROVE ClientReads(type, p) = Message("kPing", read_u64(p, 0), << >>)
    BY <1>3 DEF ClientReads
  <1>4. ASSUME name \notin {"kFrameMetadata", "kVideoFrame", "kPing"}
        PROVE  ClientReads(type, p) = Message(name, << >>, << >>)
    BY <1>4 DEF ClientReads
  <1>5. ClientReads(type, p).type = name
    BY DEF ClientReads, Message
  <1>6. QED
    BY <1>1, <1>2, <1>3, <1>4, <1>5

\* The numbers a payload of up to six words was written from.
LEMMA WordsHeld ==
    ASSUME NEW p, NEW n, NEW a \in Int, NEW b \in Int
    PROVE  /\ Filled(n, Words2(a, b), p) => HoldsWord(p, 0, a) /\ HoldsWord(p, 4, b)
           /\ \A c, d \in Int : Filled(n, Words4(a, b, c, d), p) =>
                /\ HoldsWord(p, 0, a) /\ HoldsWord(p, 4, b) /\ HoldsWord(p, 8, c) /\ HoldsWord(p, 12, d)
           /\ \A c, d, e, f \in Int : Filled(n, Words6(a, b, c, d, e, f), p) =>
                /\ HoldsWord(p, 0, a) /\ HoldsWord(p, 4, b) /\ HoldsWord(p, 8, c) /\ HoldsWord(p, 12, d)
                /\ HoldsWord(p, 16, e) /\ HoldsWord(p, 20, f)
  <1>1. 0 \in Nat /\ 4 \in Nat /\ 8 \in Nat /\ 12 \in Nat /\ 16 \in Nat /\ 20 \in Nat
    OBVIOUS
  <1>2. ASSUME Filled(n, Words2(a, b), p) PROVE HoldsWord(p, 0, a) /\ HoldsWord(p, 4, b)
    <2>1. setUint32(0, a) \in Words2(a, b) /\ setUint32(4, b) \in Words2(a, b)
      BY DEF Words2
    <2>2. QED
      BY <1>1, <1>2, <2>1, FilledHolds
  <1>3. ASSUME NEW c \in Int, NEW d \in Int, Filled(n, Words4(a, b, c, d), p)
        PROVE  HoldsWord(p, 0, a) /\ HoldsWord(p, 4, b) /\ HoldsWord(p, 8, c) /\ HoldsWord(p, 12, d)
    <2> DEFINE all == Words4(a, b, c, d)
    <2>1. setUint32(0, a) \in all /\ setUint32(4, b) \in all /\ setUint32(8, c) \in all /\ setUint32(12, d) \in all
      BY DEF Words4
    <2> HIDE DEF all
    <2>2. Filled(n, all, p)
      BY <1>3 DEF all
    <2>3. QED
      BY <1>1, <2>1, <2>2, FilledHolds
  <1>4. ASSUME NEW c \in Int, NEW d \in Int, NEW e \in Int, NEW f \in Int, Filled(n, Words6(a, b, c, d, e, f), p)
        PROVE  /\ HoldsWord(p, 0, a) /\ HoldsWord(p, 4, b) /\ HoldsWord(p, 8, c) /\ HoldsWord(p, 12, d)
               /\ HoldsWord(p, 16, e) /\ HoldsWord(p, 20, f)
    <2> DEFINE all == Words6(a, b, c, d, e, f)
    <2>1. /\ setUint32(0, a) \in all /\ setUint32(4, b) \in all /\ setUint32(8, c) \in all /\ setUint32(12, d) \in all
          /\ setUint32(16, e) \in all /\ setUint32(20, f) \in all
      BY DEF Words6
    <2> HIDE DEF all
    <2>2. Filled(n, all, p)
      BY <1>4 DEF all
    <2>3. QED
      BY <1>1, <2>1, <2>2, FilledHolds
  <1>5. QED
    BY <1>2, <1>3, <1>4

\* The host reads of a mouse event all that was meant, and of a key event all but the scan code.
LEMMA MouseRead ==
    ASSUME NEW a \in Signed, NEW b \in Signed, NEW c \in Signed, NEW d \in Unsigned, NEW e \in Unsigned,
           NEW p, p = make_input_mouse(a, b, c, d, e)
    PROVE  /\ p \in Seq(Bytes) /\ Len(p) = 24 /\ read_u32(p, 0) = 0
           /\ HostReads(MessageType["kInputEvent"], p) = Message("kInputEvent", << 0, a, b, c, d, e >>, << >>)
  <1>1. a \in Int /\ b \in Int /\ c \in Int /\ d \in Int /\ e \in Int /\ 0 \in Unsigned /\ 0 \in Int
    BY DEF Signed, Unsigned
  <1>2. Filled(24, Words6(0, a, b, c, d, e), p)
    BY <1>1, MouseAgrees
  <1>3. /\ HoldsWord(p, 0, 0) /\ HoldsWord(p, 4, a) /\ HoldsWord(p, 8, b) /\ HoldsWord(p, 12, c)
        /\ HoldsWord(p, 16, d) /\ HoldsWord(p, 20, e)
    BY <1>1, <1>2, WordsHeld
  <1>4. /\ read_u32(p, 0) = 0 /\ read_i32(p, 4) = a /\ read_i32(p, 8) = b /\ read_i32(p, 12) = c
        /\ read_u32(p, 16) = d /\ read_u32(p, 20) = e
    BY <1>1, <1>3, WordRead
  <1>5. p \in Seq(Bytes)
    BY <1>1, <1>2, WritesOfBytes
  <1>l. Len(p) = 24
    BY <1>2 DEF Filled
  <1>6. TypeName(MessageType["kInputEvent"]) = "kInputEvent"
    BY TypeNames DEF MessageType
  <1>7. QED
    BY <1>4, <1>5, <1>l, <1>6, HostArms

LEMMA KeyRead ==
    ASSUME NEW a \in Unsigned, NEW b \in Unsigned, NEW c \in Unsigned, NEW p, p = make_input_key(a, b, c)
    PROVE  /\ p \in Seq(Bytes) /\ Len(p) = 16 /\ read_u32(p, 0) = 1
           /\ HostReads(MessageType["kInputEvent"], p) = Message("kInputEvent", << 1, a, 0, c >>, << >>)
  <1>1. a \in Int /\ b \in Int /\ c \in Int /\ 1 \in Unsigned /\ 1 \in Int
    BY DEF Unsigned
  <1>2. Filled(16, Words4(1, a, b, c), p)
    BY <1>1, KeyAgrees
  <1>3. HoldsWord(p, 0, 1) /\ HoldsWord(p, 4, a) /\ HoldsWord(p, 8, b) /\ HoldsWord(p, 12, c)
    BY <1>1, <1>2, WordsHeld
  <1>4. read_u32(p, 0) = 1 /\ read_u32(p, 4) = a /\ read_u32(p, 12) = c
    BY <1>1, <1>3, WordRead
  <1>5. p \in Seq(Bytes)
    BY <1>1, <1>2, WritesOfBytes
  <1>l. Len(p) = 16
    BY <1>2 DEF Filled
  <1>6. TypeName(MessageType["kInputEvent"]) = "kInputEvent"
    BY TypeNames DEF MessageType
  <1>7. QED
    BY <1>4, <1>5, <1>l, <1>6, HostArms

\* The rest of a sequence, known element by element.
LEMMA RestIs ==
    ASSUME NEW S, NEW p \in Seq(S), NEW text \in Seq(S), NEW k \in Nat, Len(p) = k + Len(text),
           \A i \in 1..Len(text) : p[k + i] = text[i]
    PROVE  SubSeq(p, k + 1, Len(p)) = text
  <1> DEFINE rest == SubSeq(p, k + 1, Len(p))
  <1>1. rest \in Seq(S) /\ Len(rest) = Len(text)
    OBVIOUS
  <1>2. \A i \in 1..Len(text) : rest[i] = p[k + i]
    OBVIOUS
  <1> HIDE DEF rest
  <1>3. rest = text
    BY <1>1, <1>2, SeqEqual
  <1>4. QED
    BY <1>3 DEF rest

LEMMA ClipboardRead ==
    ASSUME NEW text \in Seq(Bytes), NEW p, p = make_clipboard(text)
    PROVE  /\ p \in Seq(Bytes) /\ Len(p) = 4 + Len(text)
           /\ HostReads(MessageType["kClipboardSync"], p) = Message("kClipboardSync", << 1 >>, text)
  <1> DEFINE writes == {setUint32(0, 1), << 4, text >>}
  <1>1. 1 \in Int /\ 1 \in Unsigned /\ text \in Seq(Int)
    <2>1. Bytes \subseteq Int
      BY DEF Bytes
    <2>2. text \in Seq(Int)
      BY <2>1, SeqMonotonic
    <2>3. 1 \in Int /\ 1 \in Unsigned
      BY SMT DEF Unsigned
    <2>4. QED
      BY <2>2, <2>3
  <1>2. Filled(4 + Len(text), writes, p)
    BY <1>1, ClipboardAgrees
  <1>3. HoldsWord(p, 0, 1)
    <2>1. setUint32(0, 1) \in writes /\ 0 \in Nat
      OBVIOUS
    <2> HIDE DEF writes
    <2>2. QED
      BY <1>1, <1>2, <2>1, FilledHolds
  <1>4. read_u32(p, 0) = 1
    BY <1>1, <1>3, WordRead
  <1>5. p \in Seq(Bytes)
    BY <1>1, <1>2, WritesOfBytes
  <1>6. \A i \in 1..Len(text) : p[4 + i] = text[i]
    <2>1. PICK w \in writes : w = << 4, text >>
      OBVIOUS
    <2> HIDE DEF writes
    <2>2. \A i \in w[1] + 1..w[1] + Len(w[2]) : p[i] = w[2][i - w[1]]
      BY <1>2, <2>1 DEF Filled
    <2>3. w[1] = 4 /\ w[2] = text
      BY <2>1
    <2>4. \A i \in 5..4 + Len(text) : p[i] = text[i - 4]
      BY <2>2, <2>3
    <2>5. QED
      BY <2>4
  <1> HIDE DEF writes
  <1>7. Len(p) = 4 + Len(text)
    BY <1>2 DEF Filled
  <1>8. SubSeq(p, 5, Len(p)) = text
    <2>1. SubSeq(p, 4 + 1, Len(p)) = text
      BY <1>5, <1>6, <1>7, RestIs
    <2>2. QED
      BY <2>1
  <1>9. TypeName(MessageType["kClipboardSync"]) = "kClipboardSync"
    BY TypeNames DEF MessageType
  <1>10. QED
    BY <1>4, <1>5, <1>7, <1>8, <1>9, HostArms

LEMMA FourAndTwo ==
    ASSUME NEW S, NEW a \in S, NEW b \in S, NEW c \in S, NEW d \in S, NEW e \in S, NEW f \in S
    PROVE  << a, b, c, d >> \o << e, f >> = << a, b, c, d, e, f >>
  <1> DEFINE l == << a, b, c, d >>
             r == << e, f >>
             all == << a, b, c, d, e, f >>
  <1>1. l \in Seq(S) /\ r \in Seq(S) /\ all \in Seq(S) /\ Len(l) = 4 /\ Len(r) = 2 /\ Len(all) = 6
    OBVIOUS
  <1>2. l \o r \in Seq(S) /\ Len(l \o r) = 6
    BY <1>1
  <1>3. /\ (l \o r)[1] = a /\ (l \o r)[2] = b /\ (l \o r)[3] = c /\ (l \o r)[4] = d
        /\ (l \o r)[5] = e /\ (l \o r)[6] = f
    OBVIOUS
  <1>4. \A i \in 1..6 : (l \o r)[i] = all[i]
    BY <1>3
  <1> HIDE DEF l, r, all
  <1>5. QED
    BY <1>1, <1>2, <1>4, SeqEqual DEF l, r, all

\* The client reads the whole of a frame's metadata, of a frame and of a ping.
LEMMA MetadataRead ==
    ASSUME NEW a \in Unsigned, NEW b \in Unsigned, NEW c \in Unsigned, NEW d \in Unsigned, NEW e \in Unsigned,
           NEW f \in Unsigned, NEW p, p = make_frame_metadata(a, b, c, d, << e, f >>)
    PROVE  /\ p \in Seq(Bytes) /\ Len(p) = 24
           /\ ClientReads(MessageType["kFrameMetadata"], p) = Message("kFrameMetadata", << a, b, c, d, e, f >>, << >>)
  <1>1. a \in Int /\ b \in Int /\ c \in Int /\ d \in Int /\ e \in Int /\ f \in Int
    BY DEF Unsigned
  <1>2. Filled(24, Words6(a, b, c, d, e, f), p)
    BY <1>1, MetadataAgrees
  <1>3. /\ HoldsWord(p, 0, a) /\ HoldsWord(p, 4, b) /\ HoldsWord(p, 8, c) /\ HoldsWord(p, 12, d)
        /\ HoldsWord(p, 16, e) /\ HoldsWord(p, 20, f)
    BY <1>1, <1>2, WordsHeld
  <1>4. /\ read_u32(p, 0) = a /\ read_u32(p, 4) = b /\ read_u32(p, 8) = c /\ read_u32(p, 12) = d
        /\ read_u32(p, 16) = e /\ read_u32(p, 20) = f
    BY <1>1, <1>3, WordRead
  <1>5. p \in Seq(Bytes)
    BY <1>1, <1>2, WritesOfBytes
  <1>6. Len(p) = 24
    BY <1>2 DEF Filled
  <1>7. read_u64(p, 16) = << e, f >>
    <2>1. 16 + 4 = 20
      OBVIOUS
    <2>2. QED
      BY <1>4, <2>1 DEF read_u64
  <1>8. << a, b, c, d >> \o << e, f >> = << a, b, c, d, e, f >>
    BY FourAndTwo
  <1>9. TypeName(MessageType["kFrameMetadata"]) = "kFrameMetadata"
    BY TypeNames DEF MessageType
  <1>10. ClientReads(MessageType["kFrameMetadata"], p)
             = Message("kFrameMetadata", << read_u32(p, 0), read_u32(p, 4), read_u32(p, 8), read_u32(p, 12) >>
                                             \o read_u64(p, 16), << >>)
    BY <1>9, ClientArms
  <1>11. QED
    BY <1>4, <1>5, <1>6, <1>7, <1>8, <1>10

LEMMA PingRead ==
    ASSUME NEW a \in Unsigned, NEW b \in Unsigned, NEW p, p = make_ping(<< a, b >>)
    PROVE  /\ p \in Seq(Bytes) /\ Len(p) = 8
           /\ ClientReads(MessageType["kPing"], p) = Message("kPing", << a, b >>, << >>)
  <1>1. a \in Int /\ b \in Int
    BY DEF Unsigned
  <1>2. Filled(8, Words2(a, b), p)
    BY <1>1, PairAgrees
  <1>3. HoldsWord(p, 0, a) /\ HoldsWord(p, 4, b)
    BY <1>1, <1>2, WordsHeld
  <1>4. read_u32(p, 0) = a /\ read_u32(p, 4) = b
    BY <1>1, <1>3, WordRead
  <1>5. p \in Seq(Bytes)
    BY <1>1, <1>2, WritesOfBytes
  <1>6. Len(p) = 8
    BY <1>2 DEF Filled
  <1>7. read_u64(p, 0) = << a, b >>
    <2>1. 0 + 4 = 4
      OBVIOUS
    <2>2. QED
      BY <1>4, <2>1 DEF read_u64
  <1>8. TypeName(MessageType["kPing"]) = "kPing"
    BY TypeNames DEF MessageType
  <1>9. QED
    BY <1>5, <1>6, <1>7, <1>8, ClientArms

\* The payload of each message.
LEMMA EnginePayloads ==
    /\ \A a, b, c \in Int : EnginePayload(Message("kHello", << a, b, c >>, << >>)) = make_hello(a, b, c)
    /\ \A a, b \in Int : EnginePayload(Message("kCapabilities", << a, b >>, << >>)) = make_capabilities(a, b)
    /\ \A w : EnginePayload(Message("kPing", w, << >>)) = make_ping(w)
    /\ \A w : EnginePayload(Message("kPong", w, << >>)) = make_pong(w)
    /\ \A a, b, c, d, e, f \in Int : EnginePayload(Message("kFrameMetadata", << a, b, c, d, e, f >>, << >>))
                                       = make_frame_metadata(a, b, c, d, << e, f >>)
    /\ \A a, b, c, d, e \in Int : EnginePayload(Message("kInputEvent", << 0, a, b, c, d, e >>, << >>))
                                    = make_input_mouse(a, b, c, d, e)
    /\ \A a, b, c \in Int : EnginePayload(Message("kInputEvent", << 1, a, b, c >>, << >>)) = make_input_key(a, b, c)
    /\ \A w, t : EnginePayload(Message("kClipboardSync", w, t)) = make_clipboard(t)
    /\ \A a \in Int : \A t : EnginePayload(Message("kDisconnect", << a >>, t)) = make_disconnect(a, t)
    /\ \A w, t : EnginePayload(Message("kSessionStart", w, t)) = t /\ EnginePayload(Message("kVideoFrame", w, t)) = t
  <1>1. ASSUME NEW a \in Int, NEW b \in Int, NEW c \in Int PROVE EnginePayload(Message("kHello", << a, b, c >>, << >>)) = make_hello(a, b, c)
    <2> DEFINE m == Message("kHello", << a, b, c >>, << >>)
    <2>1. m.type = "kHello" /\ m.words = << a, b, c >> /\ m.text = << >>
      BY DEF Message
    <2>2. << a, b, c >>[1] = a /\ << a, b, c >>[2] = b /\ << a, b, c >>[3] = c
      OBVIOUS
    <2> HIDE DEF m
    <2>3. EnginePayload(m) = make_hello(a, b, c)
      BY <2>1, <2>2 DEF EnginePayload
    <2>4. QED
      BY <2>3 DEF m
  <1>2. ASSUME NEW a \in Int, NEW b \in Int PROVE EnginePayload(Message("kCapabilities", << a, b >>, << >>)) = make_capabilities(a, b)
    <2> DEFINE m == Message("kCapabilities", << a, b >>, << >>)
    <2>1. m.type = "kCapabilities" /\ m.words = << a, b >> /\ m.text = << >>
      BY DEF Message
    <2>2. << a, b >>[1] = a /\ << a, b >>[2] = b
      OBVIOUS
    <2> HIDE DEF m
    <2>3. EnginePayload(m) = make_capabilities(a, b)
      BY <2>1, <2>2 DEF EnginePayload
    <2>4. QED
      BY <2>3 DEF m
  <1>3. ASSUME NEW w PROVE EnginePayload(Message("kPing", w, << >>)) = make_ping(w)
    <2> DEFINE m == Message("kPing", w, << >>)
    <2>1. m.type = "kPing" /\ m.words = w /\ m.text = << >>
      BY DEF Message
    <2> HIDE DEF m
    <2>3. EnginePayload(m) = make_ping(w)
      BY <2>1 DEF EnginePayload
    <2>4. QED
      BY <2>3 DEF m
  <1>4. ASSUME NEW w PROVE EnginePayload(Message("kPong", w, << >>)) = make_pong(w)
    <2> DEFINE m == Message("kPong", w, << >>)
    <2>1. m.type = "kPong" /\ m.words = w /\ m.text = << >>
      BY DEF Message
    <2> HIDE DEF m
    <2>3. EnginePayload(m) = make_pong(w)
      BY <2>1 DEF EnginePayload
    <2>4. QED
      BY <2>3 DEF m
  <1>5. ASSUME NEW a \in Int, NEW b \in Int, NEW c \in Int, NEW d \in Int, NEW e \in Int, NEW f \in Int PROVE EnginePayload(Message("kFrameMetadata", << a, b, c, d, e, f >>, << >>)) = make_frame_metadata(a, b, c, d, << e, f >>)
    <2> DEFINE m == Message("kFrameMetadata", << a, b, c, d, e, f >>, << >>)
    <2>1. m.type = "kFrameMetadata" /\ m.words = << a, b, c, d, e, f >> /\ m.text = << >>
      BY DEF Message
    <2>2. << a, b, c, d, e, f >>[1] = a /\ << a, b, c, d, e, f >>[2] = b /\ << a, b, c, d, e, f >>[3] = c /\ << a, b, c, d, e, f >>[4] = d /\ << a, b, c, d, e, f >>[5] = e /\ << a, b, c, d, e, f >>[6] = f
      OBVIOUS
    <2> HIDE DEF m
    <2>3. EnginePayload(m) = make_frame_metadata(a, b, c, d, << e, f >>)
      BY <2>1, <2>2 DEF EnginePayload
    <2>4. QED
      BY <2>3 DEF m
  <1>6. ASSUME NEW a \in Int, NEW b \in Int, NEW c \in Int, NEW d \in Int, NEW e \in Int PROVE EnginePayload(Message("kInputEvent", << 0, a, b, c, d, e >>, << >>)) = make_input_mouse(a, b, c, d, e)
    <2> DEFINE m == Message("kInputEvent", << 0, a, b, c, d, e >>, << >>)
    <2>1. m.type = "kInputEvent" /\ m.words = << 0, a, b, c, d, e >> /\ m.text = << >>
      BY DEF Message
    <2>2. << 0, a, b, c, d, e >>[1] = 0 /\ << 0, a, b, c, d, e >>[2] = a /\ << 0, a, b, c, d, e >>[3] = b /\ << 0, a, b, c, d, e >>[4] = c /\ << 0, a, b, c, d, e >>[5] = d /\ << 0, a, b, c, d, e >>[6] = e
      OBVIOUS
    <2> HIDE DEF m
    <2>3. EnginePayload(m) = make_input_mouse(a, b, c, d, e)
      BY <2>1, <2>2 DEF EnginePayload
    <2>4. QED
      BY <2>3 DEF m
  <1>7. ASSUME NEW a \in Int, NEW b \in Int, NEW c \in Int PROVE EnginePayload(Message("kInputEvent", << 1, a, b, c >>, << >>)) = make_input_key(a, b, c)
    <2> DEFINE m == Message("kInputEvent", << 1, a, b, c >>, << >>)
    <2>1. m.type = "kInputEvent" /\ m.words = << 1, a, b, c >> /\ m.text = << >>
      BY DEF Message
    <2>2. << 1, a, b, c >>[1] = 1 /\ << 1, a, b, c >>[2] = a /\ << 1, a, b, c >>[3] = b /\ << 1, a, b, c >>[4] = c
      OBVIOUS
    <2> HIDE DEF m
    <2>3. EnginePayload(m) = make_input_key(a, b, c)
      BY <2>1, <2>2 DEF EnginePayload
    <2>4. QED
      BY <2>3 DEF m
  <1>8. ASSUME NEW w, NEW t PROVE EnginePayload(Message("kClipboardSync", w, t)) = make_clipboard(t)
    <2> DEFINE m == Message("kClipboardSync", w, t)
    <2>1. m.type = "kClipboardSync" /\ m.words = w /\ m.text = t
      BY DEF Message
    <2> HIDE DEF m
    <2>3. EnginePayload(m) = make_clipboard(t)
      BY <2>1 DEF EnginePayload
    <2>4. QED
      BY <2>3 DEF m
  <1>9. ASSUME NEW a \in Int, NEW t PROVE EnginePayload(Message("kDisconnect", << a >>, t)) = make_disconnect(a, t)
    <2> DEFINE m == Message("kDisconnect", << a >>, t)
    <2>1. m.type = "kDisconnect" /\ m.words = << a >> /\ m.text = t
      BY DEF Message
    <2>2. << a >>[1] = a
      OBVIOUS
    <2> HIDE DEF m
    <2>3. EnginePayload(m) = make_disconnect(a, t)
      BY <2>1, <2>2 DEF EnginePayload
    <2>4. QED
      BY <2>3 DEF m
  <1>10. ASSUME NEW w, NEW t PROVE EnginePayload(Message("kSessionStart", w, t)) = t
    <2> DEFINE m == Message("kSessionStart", w, t)
    <2>1. m.type = "kSessionStart" /\ m.words = w /\ m.text = t
      BY DEF Message
    <2> HIDE DEF m
    <2>3. EnginePayload(m) = t
      BY <2>1 DEF EnginePayload
    <2>4. QED
      BY <2>3 DEF m
  <1>11. ASSUME NEW w, NEW t PROVE EnginePayload(Message("kVideoFrame", w, t)) = t
    <2> DEFINE m == Message("kVideoFrame", w, t)
    <2>1. m.type = "kVideoFrame" /\ m.words = w /\ m.text = t
      BY DEF Message
    <2> HIDE DEF m
    <2>3. EnginePayload(m) = t
      BY <2>1 DEF EnginePayload
    <2>4. QED
      BY <2>3 DEF m
  <1>12. QED
    BY <1>1, <1>2, <1>3, <1>4, <1>5, <1>6, <1>7, <1>8, <1>9, <1>10, <1>11

\* A payload fits a packet: bytes, and a length of 32 bits.
Fits(m) == EnginePayload(m) \in Seq(Bytes) /\ Len(EnginePayload(m)) \in Unsigned

LEMMA SmallUnsigned ==
    /\ 0 \in Unsigned /\ 1 \in Unsigned /\ 3 \in Unsigned /\ 4 \in Unsigned /\ 5 \in Unsigned /\ 8 \in Unsigned
    /\ 9 \in Unsigned /\ 12 \in Unsigned /\ 16 \in Unsigned /\ 24 \in Unsigned /\ 65 \in Unsigned /\ 75 \in Unsigned
    /\ 127 \in Unsigned /\ 1080 \in Unsigned /\ 1920 \in Unsigned /\ 7680 \in Unsigned /\ 66000 \in Unsigned /\ 70000 \in Unsigned
  BY SMT DEF Unsigned

LEMMA SmallSigned == 0 \in Signed /\ -120 \in Signed /\ 300 \in Signed /\ 70001 \in Signed
  BY SMT DEF Signed

LEMMA MessagesFit == \A m \in FromHost \cup FromClient : Fits(m)
  <1>0. Unsigned \subseteq Int /\ Signed \subseteq Int
    BY DEF Unsigned, Signed
  <1>n. 0 \in Unsigned /\ 8 \in Unsigned /\ 12 \in Unsigned /\ 16 \in Unsigned /\ 24 \in Unsigned
    BY SmallUnsigned
  <1>e. << >> \in Seq(Bytes) /\ Len(<< >>) = 0
    OBVIOUS
  <1>1. ASSUME NEW a \in Unsigned, NEW b \in Unsigned, NEW c \in Unsigned
        PROVE  Fits(Message("kHello", << a, b, c >>, << >>))
    <2> DEFINE p == make_hello(a, b, c)
    <2>1. EnginePayload(Message("kHello", << a, b, c >>, << >>)) = p
      BY <1>0, EnginePayloads
    <2>2. Filled(12, Words3(a, b, c), p)
      BY <1>0, HelloAgrees
    <2> HIDE DEF p
    <2>3. p \in Seq(Bytes)
      BY <1>0, <2>2, WritesOfBytes
    <2>4. Len(p) = 12
      BY <2>2 DEF Filled
    <2>5. QED
      BY <1>n, <2>1, <2>3, <2>4 DEF Fits
  <1>2. ASSUME NEW a \in Unsigned, NEW b \in Unsigned
        PROVE  /\ Fits(Message("kCapabilities", << a, b >>, << >>)) /\ Fits(Message("kPong", << a, b >>, << >>))
               /\ Fits(Message("kPing", << a, b >>, << >>))
    <2>1. /\ EnginePayload(Message("kCapabilities", << a, b >>, << >>)) = make_capabilities(a, b)
          /\ EnginePayload(Message("kPong", << a, b >>, << >>)) = make_pong(<< a, b >>)
          /\ EnginePayload(Message("kPing", << a, b >>, << >>)) = make_ping(<< a, b >>)
      BY <1>0, EnginePayloads
    <2>2. \A p : Filled(8, Words2(a, b), p) => p \in Seq(Bytes) /\ Len(p) = 8
      <3>1. TAKE p
      <3>2. HAVE Filled(8, Words2(a, b), p)
      <3>3. Len(p) = 8
        BY <3>2 DEF Filled
      <3>4. p \in Seq(Bytes)
        BY <1>0, <3>2, WritesOfBytes
      <3>5. QED
        BY <3>3, <3>4
    <2>3. /\ Filled(8, Words2(a, b), make_capabilities(a, b)) /\ Filled(8, Words2(a, b), make_pong(<< a, b >>))
          /\ Filled(8, Words2(a, b), make_ping(<< a, b >>))
      BY <1>0, PairAgrees
    <2>4. QED
      BY <1>n, <2>1, <2>2, <2>3 DEF Fits
  <1>3. ASSUME NEW a \in Unsigned, NEW b \in Unsigned, NEW c \in Unsigned, NEW d \in Unsigned, NEW e \in Unsigned,
               NEW f \in Unsigned
        PROVE  Fits(Message("kFrameMetadata", << a, b, c, d, e, f >>, << >>))
    <2> DEFINE p == make_frame_metadata(a, b, c, d, << e, f >>)
    <2>1. EnginePayload(Message("kFrameMetadata", << a, b, c, d, e, f >>, << >>)) = p
      BY <1>0, EnginePayloads
    <2>0. Filled(24, Words6(a, b, c, d, e, f), p)
      BY <1>0, MetadataAgrees
    <2> HIDE DEF p
    <2>1a. p \in Seq(Bytes)
      BY <1>0, <2>0, WritesOfBytes
    <2>1b. Len(p) = 24
      BY <2>0 DEF Filled
    <2>2. p \in Seq(Bytes) /\ Len(p) = 24
      BY <2>1a, <2>1b
    <2>3. QED
      BY <1>n, <2>1, <2>2 DEF Fits
  <1>4. ASSUME NEW a \in Signed, NEW b \in Signed, NEW c \in Signed, NEW d \in Unsigned, NEW e \in Unsigned
        PROVE  Fits(Message("kInputEvent", << 0, a, b, c, d, e >>, << >>))
    <2> DEFINE p == make_input_mouse(a, b, c, d, e)
    <2>1. EnginePayload(Message("kInputEvent", << 0, a, b, c, d, e >>, << >>)) = p
      BY <1>0, EnginePayloads
    <2>0. Filled(24, Words6(0, a, b, c, d, e), p)
      BY <1>0, MouseAgrees
    <2> HIDE DEF p
    <2>1a. p \in Seq(Bytes)
      <3>1. 0 \in Int
        OBVIOUS
      <3>2. QED
        BY <1>0, <2>0, <3>1, WritesOfBytes
    <2>1b. Len(p) = 24
      BY <2>0 DEF Filled
    <2>2. p \in Seq(Bytes) /\ Len(p) = 24
      BY <2>1a, <2>1b
    <2>3. QED
      BY <1>n, <2>1, <2>2 DEF Fits
  <1>5. ASSUME NEW a \in Unsigned, NEW b \in Unsigned, NEW c \in Unsigned
        PROVE  Fits(Message("kInputEvent", << 1, a, b, c >>, << >>))
    <2> DEFINE p == make_input_key(a, b, c)
    <2>1. EnginePayload(Message("kInputEvent", << 1, a, b, c >>, << >>)) = p
      BY <1>0, EnginePayloads
    <2>0. Filled(16, Words4(1, a, b, c), p)
      BY <1>0, KeyAgrees
    <2> HIDE DEF p
    <2>1a. p \in Seq(Bytes)
      <3>1. 1 \in Int
        OBVIOUS
      <3>2. QED
        BY <1>0, <2>0, <3>1, WritesOfBytes
    <2>1b. Len(p) = 16
      BY <2>0 DEF Filled
    <2>2. p \in Seq(Bytes) /\ Len(p) = 16
      BY <2>1a, <2>1b
    <2>3. QED
      BY <1>n, <2>1, <2>2 DEF Fits
  <1>6. ASSUME NEW t \in Texts PROVE Len(t) \in Unsigned /\ 4 + Len(t) \in Unsigned /\ 8 + Len(t) \in Unsigned
    <2>1. PICK n \in Nat : n = Len(t)
      BY TextsFit
    <2>2. n + 8 \in Unsigned
      BY <2>1, TextsFit
    <2>3. n \in Unsigned /\ 4 + n \in Unsigned /\ 8 + n \in Unsigned
      BY <2>2, SMT DEF Unsigned
    <2>4. QED
      BY <2>1, <2>3
  <1>7. ASSUME NEW t \in Texts PROVE Fits(Message("kVideoFrame", << >>, t))
    BY <1>6, TextsFit, EnginePayloads DEF Fits
  <1>8. Fits(Message("kSessionStart", << >>, << >>))
    <2>1. EnginePayload(Message("kSessionStart", << >>, << >>)) = << >>
      BY EnginePayloads
    <2>2. QED
      BY <1>n, <1>e, <2>1 DEF Fits
  <1>9. ASSUME NEW t \in Texts PROVE Fits(Message("kClipboardSync", << 1 >>, t))
    <2> DEFINE p == make_clipboard(t)
    <2>1. EnginePayload(Message("kClipboardSync", << 1 >>, t)) = p
      BY EnginePayloads
    <2> HIDE DEF p
    <2>2. p \in Seq(Bytes) /\ Len(p) = 4 + Len(t)
      BY TextsFit, ClipboardRead DEF p
    <2>3. QED
      BY <1>6, <2>1, <2>2 DEF Fits
  <1>10. ASSUME NEW t \in Texts PROVE Fits(Message("kDisconnect", << 1 >>, t))
    <2> DEFINE p == make_disconnect(1, t)
    <2>1. EnginePayload(Message("kDisconnect", << 1 >>, t)) = p
      BY EnginePayloads
    <2>0. Bytes \subseteq Int
      BY DEF Bytes
    <2>a. t \in Seq(Bytes) /\ Len(t) \in Int
      BY TextsFit
    <2>b. t \in Seq(Int)
      BY <2>0, <2>a, SeqMonotonic
    <2>2. t \in Seq(Bytes) /\ t \in Seq(Int) /\ Len(t) \in Int
      BY <2>a, <2>b
    <2>3. Filled(8 + Len(t), {setUint32(0, 1), setUint32(4, Len(t)), << 8, t >>}, p)
      BY <2>2, DisconnectAgrees
    <2> HIDE DEF p
    <2>4. p \in Seq(Bytes)
      <3> DEFINE writes == {setUint32(0, 1), setUint32(4, Len(t)), << 8, t >>}
      <3>1. setUint32(0, 1)[2] \in Seq(Bytes) /\ setUint32(4, Len(t))[2] \in Seq(Bytes)
        BY <2>2, WrittenBytes
      <3>2. \A w \in writes : w[2] \in Seq(Bytes)
        BY <2>2, <3>1
      <3>3. Filled(8 + Len(t), writes, p)
        BY <2>3
      <3> HIDE DEF writes
      <3>4. QED
        BY <3>2, <3>3, FilledBytes
    <2>5. Len(p) = 8 + Len(t)
      BY <2>3 DEF Filled
    <2>6. QED
      BY <1>6, <2>1, <2>4, <2>5 DEF Fits
  <1>11. \A m \in Common : Fits(m)
    BY <1>1, <1>2, SmallUnsigned DEF Common
  <1>12. \A m \in FromHost : Fits(m)
    <2>1. Fits(Message("kPing", << 5, 66000 >>, << >>))
      BY <1>2, SmallUnsigned
    <2>2. Fits(Message("kFrameMetadata", << 0, 1920, 1080, 7680, 9, 1 >>, << >>))
      <3>1. ASSUME NEW c \in Unsigned, NEW d \in Unsigned, NEW e \in Unsigned, NEW f \in Unsigned
            PROVE  Fits(Message("kFrameMetadata", << 0, 1920, c, d, e, f >>, << >>))
        <4>1. 0 \in Unsigned /\ 1920 \in Unsigned
          BY SmallUnsigned
        <4>2. QED
          BY <1>3, <4>1
      <3>2. \A e, f \in Unsigned : Fits(Message("kFrameMetadata", << 0, 1920, 1080, 7680, e, f >>, << >>))
        <4>1. 1080 \in Unsigned /\ 7680 \in Unsigned
          BY SmallUnsigned
        <4>2. QED
          BY <3>1, <4>1
      <3>3. QED
        BY <3>2, SmallUnsigned
    <2>3. QED
      BY <1>7, <1>8, <1>11, <2>1, <2>2 DEF FromHost
  <1>13. \A m \in FromClient : Fits(m)
    <2>1. Fits(Message("kInputEvent", << 0, 300, 70001, 0, 1, 3 >>, << >>))
      BY <1>4, SmallUnsigned, SmallSigned
    <2>2. Fits(Message("kInputEvent", << 0, 0, 0, -120, 0, 4 >>, << >>))
      BY <1>4, SmallUnsigned, SmallSigned
    <2>3. Fits(Message("kInputEvent", << 1, 65, 0, 1 >>, << >>))
      BY <1>5, SmallUnsigned
    <2>4. QED
      BY <1>9, <1>10, <1>11, <2>1, <2>2, <2>3 DEF FromClient
  <1>14. QED
    BY <1>12, <1>13

\* What a message is to its receiver: all of it, its type only, or, of a key event, not the scan code.
LEMMA Meaning ==
    ASSUME NEW type \in DOMAIN MessageType, NEW words, NEW text
    PROVE  /\ (to = "host" /\ type \notin {"kInputEvent", "kClipboardSync"})
                => Understood(Message(type, words, text)) = Message(type, << >>, << >>)
           /\ (to = "client" /\ type \notin {"kFrameMetadata", "kVideoFrame", "kPing"})
                => Understood(Message(type, words, text)) = Message(type, << >>, << >>)
           /\ (to = "host" /\ type = "kClipboardSync")
                => Understood(Message(type, words, text)) = Message(type, words, text)
           /\ (to = "client" /\ type \in {"kFrameMetadata", "kVideoFrame", "kPing"})
                => Understood(Message(type, words, text)) = Message(type, words, text)
           /\ (to = "host" /\ type = "kInputEvent")
                => Understood(Message(type, words, text))
                       = Message(type, [words EXCEPT ![3] = IF words[1] = 1 THEN 0 ELSE @], text)
  <1> DEFINE m == Message(type, words, text)
             w == [words EXCEPT ![3] = IF words[1] = 1 THEN 0 ELSE @]
  <1>1. m.type = type /\ m.words = words /\ m.text = text
    BY DEF Message
  <1>2. [m EXCEPT !.words = << >>, !.text = << >>] = Message(type, << >>, << >>)
    <2>1. [m EXCEPT !.words = << >>] = Message(type, << >>, text)
      BY DEF Message
    <2>2. [Message(type, << >>, text) EXCEPT !.text = << >>] = Message(type, << >>, << >>)
      BY DEF Message
    <2> HIDE DEF m
    <2>3. QED
      BY <2>1, <2>2
  <1>3. \A v : [m EXCEPT !.words = v] = Message(type, v, text)
    BY DEF Message
  <1> HIDE DEF m
  <1>4. ASSUME to = "host", type = "kInputEvent" PROVE Understood(m) = Message(type, w, text)
    <2>1. Understood(m) = [m EXCEPT !.words = [m.words EXCEPT ![3] = IF m.words[1] = 1 THEN 0 ELSE m.words[3]]]
      BY <1>1, <1>4 DEF Understood
    <2>2. Understood(m) = [m EXCEPT !.words = w]
      BY <1>1, <2>1
    <2> HIDE DEF w
    <2>3. QED
      BY <1>3, <2>2
  <1>5. ASSUME to = "host", type = "kClipboardSync" PROVE Understood(m) = m
    BY <1>1, <1>5 DEF Understood
  <1>6. ASSUME to = "client", type \in {"kFrameMetadata", "kVideoFrame", "kPing"} PROVE Understood(m) = m
    BY <1>1, <1>6 DEF Understood
  <1>7. ASSUME to = "host", type \notin {"kInputEvent", "kClipboardSync"}
        PROVE  Understood(m) = Message(type, << >>, << >>)
    BY <1>1, <1>2, <1>7 DEF Understood
  <1>8. ASSUME to = "client", type \notin {"kFrameMetadata", "kVideoFrame", "kPing"}
        PROVE  Understood(m) = Message(type, << >>, << >>)
    BY <1>1, <1>2, <1>8 DEF Understood
  <1>9. QED
    BY <1>4, <1>5, <1>6, <1>7, <1>8 DEF m

\* The types of what either side sends.
LEMMA SentTypes ==
    \A m \in FromHost \cup FromClient : m.type \in DOMAIN MessageType /\ \E words, text : m = Message(m.type, words, text)
  <1>1. \A type, words, text : /\ Message(type, words, text).type = type
                               /\ \E w, t : Message(type, words, text) = Message(type, w, t)
    BY DEF Message
  <1>2. {"kHello", "kCapabilities", "kPong", "kSessionStart", "kPing", "kFrameMetadata", "kVideoFrame",
         "kInputEvent", "kClipboardSync", "kDisconnect"} \subseteq DOMAIN MessageType
    BY DEF MessageType
  <1>3. \A m \in Common : /\ m.type \in {"kHello", "kCapabilities", "kPong"}
                          /\ \E words, text : m = Message(m.type, words, text)
    BY <1>1 DEF Common
  <1>4. \A m \in FromHost : /\ m.type \in {"kHello", "kCapabilities", "kPong", "kSessionStart", "kPing",
                                           "kFrameMetadata", "kVideoFrame"}
                            /\ \E words, text : m = Message(m.type, words, text)
    BY <1>1, <1>3 DEF FromHost
  <1>5. \A m \in FromClient : /\ m.type \in {"kHello", "kCapabilities", "kPong", "kInputEvent",
                                             "kClipboardSync", "kDisconnect"}
                              /\ \E words, text : m = Message(m.type, words, text)
    BY <1>1, <1>3 DEF FromClient
  <1>6. QED
    BY <1>2, <1>4, <1>5

\* What the host reads of a message is what it has to understand.
LEMMA HostUnderstands ==
    ASSUME to = "host", NEW m \in FromClient
    PROVE  HostReads(MessageType[m.type], EnginePayload(m)) = Understood(m)
  <1> DEFINE Read(x) == HostReads(MessageType[x.type], EnginePayload(x)) = Understood(x)
  <1>0. Unsigned \subseteq Int /\ Signed \subseteq Int
    BY DEF Unsigned, Signed
  <1>1. ASSUME NEW a \in Signed, NEW b \in Signed, NEW c \in Signed, NEW d \in Unsigned, NEW e \in Unsigned
        PROVE  Read(Message("kInputEvent", << 0, a, b, c, d, e >>, << >>))
    <2> DEFINE w == << 0, a, b, c, d, e >>
               x == Message("kInputEvent", w, << >>)
               p == make_input_mouse(a, b, c, d, e)
    <2>1. x.type = "kInputEvent" /\ "kInputEvent" \in DOMAIN MessageType
      BY DEF Message, MessageType
    <2>2. EnginePayload(x) = p
      BY <1>0, EnginePayloads
    <2>3. HostReads(MessageType["kInputEvent"], p) = x
      BY MouseRead
    <2>4. w[1] = 0 /\ w[3] = b /\ [w EXCEPT ![3] = IF w[1] = 1 THEN 0 ELSE @] = w
      OBVIOUS
    <2> HIDE DEF w, p
    <2>5. Understood(x) = x
      BY <2>1, <2>4, Meaning
    <2> HIDE DEF x
    <2>6. Read(x)
      BY <2>1, <2>2, <2>3, <2>5
    <2>7. QED
      BY <2>6 DEF x, w
  <1>2. ASSUME NEW a \in Unsigned, NEW b \in Unsigned, NEW c \in Unsigned
        PROVE  Read(Message("kInputEvent", << 1, a, b, c >>, << >>))
    <2> DEFINE w == << 1, a, b, c >>
               x == Message("kInputEvent", w, << >>)
               p == make_input_key(a, b, c)
    <2>1. x.type = "kInputEvent" /\ "kInputEvent" \in DOMAIN MessageType
      BY DEF Message, MessageType
    <2>2. EnginePayload(x) = p
      BY <1>0, EnginePayloads
    <2>3. HostReads(MessageType["kInputEvent"], p) = Message("kInputEvent", << 1, a, 0, c >>, << >>)
      BY KeyRead
    <2>4. w[1] = 1 /\ [w EXCEPT ![3] = IF w[1] = 1 THEN 0 ELSE @] = << 1, a, 0, c >>
      OBVIOUS
    <2> HIDE DEF w, p
    <2>5. Understood(x) = Message("kInputEvent", << 1, a, 0, c >>, << >>)
      BY <2>1, <2>4, Meaning
    <2> HIDE DEF x
    <2>6. Read(x)
      BY <2>1, <2>2, <2>3, <2>5
    <2>7. QED
      BY <2>6 DEF x, w
  <1>3. ASSUME NEW t \in Texts PROVE Read(Message("kClipboardSync", << 1 >>, t))
    <2> DEFINE x == Message("kClipboardSync", << 1 >>, t)
               p == make_clipboard(t)
    <2>1. x.type = "kClipboardSync" /\ "kClipboardSync" \in DOMAIN MessageType
      BY DEF Message, MessageType
    <2>2. EnginePayload(x) = p
      BY EnginePayloads
    <2>3. HostReads(MessageType["kClipboardSync"], p) = x
      BY TextsFit, ClipboardRead
    <2> HIDE DEF p
    <2>5. Understood(x) = x
      BY <2>1, Meaning
    <2> HIDE DEF x
    <2>6. Read(x)
      BY <2>1, <2>2, <2>3, <2>5
    <2>7. QED
      BY <2>6 DEF x
  <1>4. ASSUME NEW x \in FromClient, x.type \notin {"kInputEvent", "kClipboardSync"} PROVE Read(x)
    <2>1. x.type \in DOMAIN MessageType
      BY SentTypes
    <2>2. PICK words, text : x = Message(x.type, words, text)
      BY SentTypes
    <2>3. PICK type \in DOMAIN MessageType : type = x.type
      BY <2>1
    <2>4. Understood(Message(type, words, text)) = Message(type, << >>, << >>)
      BY <1>4, <2>3, Meaning
    <2>5. TypeName(MessageType[type]) = type
      BY TypeNames
    <2>6. HostReads(MessageType[type], EnginePayload(x)) = Message(type, << >>, << >>)
      BY <1>4, <2>3, <2>5, HostArms
    <2>7. QED
      BY <1>4, <2>2, <2>3, <2>4, <2>6
  <1> HIDE DEF Read
  <1>5. m.type = "kInputEvent" => Read(m)
    <2>1. \A type, words, text : Message(type, words, text).type = type
      BY DEF Message
    <2>2. m.type = "kInputEvent" => m \in {Message("kInputEvent", << 0, 300, 70001, 0, 1, 3 >>, << >>),
                                          Message("kInputEvent", << 0, 0, 0, -120, 0, 4 >>, << >>),
                                          Message("kInputEvent", << 1, 65, 0, 1 >>, << >>)}
      BY <2>1 DEF FromClient, Common
    <2>3. Read(Message("kInputEvent", << 0, 300, 70001, 0, 1, 3 >>, << >>))
      BY <1>1, SmallUnsigned, SmallSigned
    <2>4. Read(Message("kInputEvent", << 0, 0, 0, -120, 0, 4 >>, << >>))
      BY <1>1, SmallUnsigned, SmallSigned
    <2>5. Read(Message("kInputEvent", << 1, 65, 0, 1 >>, << >>))
      BY <1>2, SmallUnsigned
    <2>6. QED
      BY <2>2, <2>3, <2>4, <2>5
  <1>6. m.type = "kClipboardSync" => \E t \in Texts : m = Message("kClipboardSync", << 1 >>, t)
    <2>1. \A type, words, text : Message(type, words, text).type = type
      BY DEF Message
    <2>2. QED
      BY <2>1 DEF FromClient, Common
  <1>7. Read(m)
    BY <1>1, <1>2, <1>3, <1>4, <1>5, <1>6
  <1>8. QED
    BY <1>7 DEF Read

\* And so for the client.
LEMMA ClientUnderstands ==
    ASSUME to = "client", NEW m \in FromHost
    PROVE  ClientReads(MessageType[m.type], EnginePayload(m)) = Understood(m)
  <1> DEFINE Read(x) == ClientReads(MessageType[x.type], EnginePayload(x)) = Understood(x)
  <1>0. Unsigned \subseteq Int /\ \A type, words, text : Message(type, words, text).type = type
    BY DEF Unsigned, Message
  <1>1. ASSUME NEW a \in Unsigned, NEW b \in Unsigned PROVE Read(Message("kPing", << a, b >>, << >>))
    <2> DEFINE x == Message("kPing", << a, b >>, << >>)
               p == make_ping(<< a, b >>)
    <2>1. x.type = "kPing" /\ "kPing" \in DOMAIN MessageType
      BY DEF Message, MessageType
    <2>2. EnginePayload(x) = p
      BY EnginePayloads
    <2>3. ClientReads(MessageType["kPing"], p) = x
      BY PingRead
    <2>4. Understood(x) = x
      BY <2>1, Meaning
    <2> HIDE DEF x, p
    <2>5. Read(x)
      BY <2>1, <2>2, <2>3, <2>4
    <2>6. QED
      BY <2>5 DEF x
  <1>2. Read(Message("kFrameMetadata", << 0, 1920, 1080, 7680, 9, 1 >>, << >>))
    <2> DEFINE x == Message("kFrameMetadata", << 0, 1920, 1080, 7680, 9, 1 >>, << >>)
               p == make_frame_metadata(0, 1920, 1080, 7680, << 9, 1 >>)
    <2>1. x.type = "kFrameMetadata" /\ "kFrameMetadata" \in DOMAIN MessageType
      BY DEF Message, MessageType
    <2>2. EnginePayload(x) = p
      BY EnginePayloads
    <2>3. ClientReads(MessageType["kFrameMetadata"], p) = x
      <3>1. /\ 0 \in Unsigned /\ 1920 \in Unsigned /\ 1080 \in Unsigned /\ 7680 \in Unsigned /\ 9 \in Unsigned
            /\ 1 \in Unsigned
        BY SmallUnsigned
      <3>2. \A a, b, c, d, e, f \in Unsigned :
                ClientReads(MessageType["kFrameMetadata"], make_frame_metadata(a, b, c, d, << e, f >>))
                    = Message("kFrameMetadata", << a, b, c, d, e, f >>, << >>)
        BY MetadataRead
      <3>3. QED
        BY <3>1, <3>2
    <2>4. Understood(x) = x
      BY <2>1, Meaning
    <2> HIDE DEF x, p
    <2>5. Read(x)
      BY <2>1, <2>2, <2>3, <2>4
    <2>6. QED
      BY <2>5 DEF x
  <1>3. ASSUME NEW t \in Texts PROVE Read(Message("kVideoFrame", << >>, t))
    <2> DEFINE x == Message("kVideoFrame", << >>, t)
    <2>1. x.type = "kVideoFrame" /\ "kVideoFrame" \in DOMAIN MessageType
      BY DEF Message, MessageType
    <2>2. EnginePayload(x) = t
      BY EnginePayloads
    <2>3. ClientReads(MessageType["kVideoFrame"], t) = x
      BY <2>1, TypeNames, ClientArms
    <2>4. Understood(x) = x
      BY <2>1, Meaning
    <2> HIDE DEF x
    <2>5. Read(x)
      BY <2>1, <2>2, <2>3, <2>4
    <2>6. QED
      BY <2>5 DEF x
  <1>4. ASSUME NEW x \in FromHost, x.type \notin {"kFrameMetadata", "kVideoFrame", "kPing"} PROVE Read(x)
    <2>1. x.type \in DOMAIN MessageType
      BY SentTypes
    <2>2. PICK words, text : x = Message(x.type, words, text)
      BY SentTypes
    <2>3. PICK type \in DOMAIN MessageType : type = x.type
      BY <2>1
    <2>4. Understood(Message(type, words, text)) = Message(type, << >>, << >>)
      BY <1>4, <2>3, Meaning
    <2>5. TypeName(MessageType[type]) = type
      BY TypeNames
    <2>6. ClientReads(MessageType[type], EnginePayload(x)) = Message(type, << >>, << >>)
      BY <1>4, <2>3, <2>5, ClientArms
    <2>7. QED
      BY <1>4, <2>2, <2>3, <2>4, <2>6
  <1> HIDE DEF Read
  <1>5. m.type = "kPing" => Read(m)
    <2>1. m.type = "kPing" => m = Message("kPing", << 5, 66000 >>, << >>)
      BY <1>0 DEF FromHost, Common
    <2>2. Read(Message("kPing", << 5, 66000 >>, << >>))
      BY <1>1, SmallUnsigned
    <2>3. QED
      BY <2>1, <2>2
  <1>6. m.type = "kFrameMetadata" => Read(m)
    <2>1. m.type = "kFrameMetadata" => m = Message("kFrameMetadata", << 0, 1920, 1080, 7680, 9, 1 >>, << >>)
      BY <1>0 DEF FromHost, Common
    <2>2. QED
      BY <1>2, <2>1
  <1>7. m.type = "kVideoFrame" => Read(m)
    <2>1. m.type = "kVideoFrame" => \E t \in Texts : m = Message("kVideoFrame", << >>, t)
      BY <1>0 DEF FromHost, Common
    <2>2. QED
      BY <1>3, <2>1
  <1>8. Read(m)
    BY <1>4, <1>5, <1>6, <1>7
  <1>9. QED
    BY <1>8 DEF Read

\* No message that is understood is the mark of a refused one.
LEMMA UnderstoodIsReadable == ASSUME NEW m \in FromHost \cup FromClient PROVE Understood(m) # Unreadable
  <1>1. m.type \in DOMAIN MessageType
    BY SentTypes
  <1>2. PICK words, text : m = Message(m.type, words, text)
    BY SentTypes
  <1>3. \A type, w, t : Message(type, w, t).type = type
    BY DEF Message
  <1>4. Understood(m).type = m.type
    BY <1>2 DEF Understood, Message
  <1>5. Unreadable.type = "refused" /\ "refused" \notin DOMAIN MessageType
    BY <1>3 DEF Unreadable, MessageType
  <1>6. QED
    BY <1>1, <1>4, <1>5

\* A packet of the stream: its length, its header and its payload.
LEMMA PacketRead ==
    ASSUME version \in Short, NEW m \in FromHost \cup FromClient
    PROVE  LET p == EnginePacket(m)
               load == EnginePayload(m)
           IN  /\ IsPacket(p, version, MessageType[m.type], load)
               /\ load \in Seq(Bytes) /\ Len(load) \in Unsigned /\ MessageType[m.type] \in 0..15
  <1> DEFINE load == EnginePayload(m)
             type == MessageType[m.type]
             p == EnginePacket(m)
  <1>1. load \in Seq(Bytes) /\ Len(load) \in Unsigned
    BY MessagesFit DEF Fits
  <1>2. type \in 0..15
    BY SentTypes, TypeNames
  <1>3. p = make_packet(version, type, 0, load, Now)
    BY DEF EnginePacket
  <1>4. Now[1] \in Int /\ Now[2] \in Int
    BY DEF Now
  <1> HIDE DEF load, type, p
  <1>5. type \in Int /\ version \in Int /\ 0 \in Int
    BY <1>2 DEF Short
  <1>6. IsPacket(p, version, type, load)
    BY <1>1, <1>3, <1>4, <1>5, PacketFields
  <1>7. QED
    BY <1>1, <1>2, <1>6 DEF load, type, p

\* Its header, read from the first bytes of what has arrived.
LEMMA HeaderRead ==
    ASSUME version \in Short, NEW m \in FromHost \cup FromClient, NEW b,
           \A i \in 1..24 : b[i] = EnginePacket(m)[i]
    PROVE  /\ read_i32(b, 0) = kWireMagic /\ read_u16(b, 4) = version /\ read_u16(b, 6) = MessageType[m.type]
           /\ read_u32(b, 12) = Len(EnginePayload(m))
  <1> DEFINE length == Len(EnginePayload(m))
             type == MessageType[m.type]
             p == EnginePacket(m)
  <1>1. /\ length \in Unsigned /\ type \in 0..15
        /\ HoldsWord(p, 0, kWireMagic) /\ HoldsHalf(p, 4, version) /\ HoldsHalf(p, 6, type) /\ HoldsWord(p, 12, length)
    BY PacketRead DEF IsPacket
  <1>2. \A i \in 1..24 : b[i] = p[i]
    OBVIOUS
  <1> HIDE DEF length, type, p
  <1>3. type \in Nat /\ length \in Int /\ version \in Int
    BY <1>1 DEF Short, Unsigned
  <1>4. type \in Short
    <2>1. PICK n \in 0..15 : n = type
      BY <1>1
    <2>2. QED
      BY <2>1, SMT DEF Short
  <1>5. kWireMagic \in Signed /\ kWireMagic \in Int
    BY SMT DEF kWireMagic, Signed
  <1>6. HoldsWord(b, 0, kWireMagic) /\ HoldsHalf(b, 4, version) /\ HoldsHalf(b, 6, type) /\ HoldsWord(b, 12, length)
    <2>1. \A i \in {1, 2, 3, 4, 5, 6, 7, 8, 13, 14, 15, 16} : b[i] = p[i]
      BY <1>2
    <2>2. QED
      BY <1>1, <2>1 DEF HoldsWord, HoldsHalf
  <1>7. read_i32(b, 0) = kWireMagic /\ read_u32(b, 12) = length
    BY <1>1, <1>3, <1>5, <1>6, WordRead
  <1>8. read_u16(b, 4) = version /\ read_u16(b, 6) = type
    BY <1>3, <1>4, <1>6, HalfRead
  <1>9. QED
    BY <1>7, <1>8 DEF length, type

-----------------------------------------------------------------------------
(* The pieces into which send() and recv() cut the bytes.                  *)

LEMMA SplitAt ==
    ASSUME NEW S, NEW s \in Seq(S), NEW k \in 0..Len(s)
    PROVE  /\ First(s, k) \in Seq(S) /\ Len(First(s, k)) = k /\ From(s, k) \in Seq(S)
           /\ Len(From(s, k)) = Len(s) - k /\ First(s, k) \o From(s, k) = s
           /\ \A i \in 1..k : First(s, k)[i] = s[i]
           /\ \A i \in 1..Len(s) - k : From(s, k)[i] = s[k + i]
  <1> DEFINE a == First(s, k)
             b == From(s, k)
  <1>0. k \in Nat /\ Len(s) \in Nat /\ k <= Len(s)
    OBVIOUS
  <1>1. a \in Seq(S) /\ Len(a) = k /\ \A i \in 1..k : a[i] = s[i]
    BY DEF First
  <1>2. b \in Seq(S) /\ Len(b) = Len(s) - k /\ \A i \in 1..Len(s) - k : b[i] = s[k + i]
    BY <1>0 DEF From
  <1> HIDE DEF a, b
  <1>3. /\ a \o b \in Seq(S) /\ Len(a \o b) = Len(a) + Len(b)
        /\ \A i \in 1..Len(a) : (a \o b)[i] = a[i]
        /\ \A i \in 1..Len(b) : (a \o b)[Len(a) + i] = b[i]
    BY <1>1, <1>2, Appended
  <1> DEFINE ab == a \o b
  <1>3a. /\ ab \in Seq(S) /\ \A i \in 1..k : ab[i] = a[i]
         /\ \A i \in 1..Len(s) - k : ab[k + i] = b[i]
    BY <1>1, <1>2, <1>3
  <1>3b. Len(ab) = Len(s)
    BY <1>0, <1>1, <1>2, <1>3
  <1> HIDE DEF ab
  <1>4. ASSUME NEW i \in 1..Len(s) PROVE ab[i] = s[i]
    <2>0. i \in Nat /\ i >= 1 /\ i <= Len(s)
      BY <1>0
    <2>1. CASE i \in 1..k
      BY <1>1, <1>3a, <2>1
    <2>2. CASE i - k \in 1..Len(s) - k
      <3>1. PICK j \in 1..Len(s) - k : j = i - k
        BY <2>2
      <3>2. i = k + j
        BY <1>0, <2>0, <3>1
      <3>3. QED
        BY <1>2, <1>3a, <3>2
    <2>3. i \in 1..k \/ i - k \in 1..Len(s) - k
      BY <1>0, <2>0
    <2>4. QED
      BY <2>1, <2>2, <2>3
  <1>6. ab = s
    BY <1>3a, <1>3b, <1>4, SeqEqual
  <1>7. QED
    BY <1>1, <1>2, <1>6 DEF a, b, ab

\* What follows the first k bytes of a sequence in two parts.
LEMMA FromConcat ==
    ASSUME NEW S, NEW s \in Seq(S), NEW t \in Seq(S), NEW k \in 0..Len(s)
    PROVE  From(s \o t, k) = From(s, k) \o t
  <1>0. k \in Nat /\ Len(s) \in Nat /\ Len(t) \in Nat /\ k <= Len(s)
    OBVIOUS
  <1>1. /\ s \o t \in Seq(S) /\ Len(s \o t) = Len(s) + Len(t)
        /\ \A i \in 1..Len(s) : (s \o t)[i] = s[i]
        /\ \A i \in 1..Len(t) : (s \o t)[Len(s) + i] = t[i]
    BY Appended
  <1> DEFINE st == s \o t
             b == From(s, k)
             c == From(st, k)
  <1>2. b \in Seq(S) /\ Len(b) = Len(s) - k /\ \A i \in 1..Len(s) - k : b[i] = s[k + i]
    BY SplitAt
  <1> HIDE DEF st, b
  <1>3. st \in Seq(S) /\ Len(st) = Len(s) + Len(t) /\ k \in 0..Len(st)
    BY <1>0, <1>1 DEF st
  <1>4. c \in Seq(S) /\ Len(c) = Len(st) - k /\ \A i \in 1..Len(st) - k : c[i] = st[k + i]
    BY <1>3, SplitAt
  <1> HIDE DEF c
  <1>t. t \in Seq(S) /\ b \in Seq(S)
    BY <1>2
  <1>5. /\ b \o t \in Seq(S) /\ Len(b \o t) = Len(b) + Len(t)
        /\ \A i \in 1..Len(b) : (b \o t)[i] = b[i]
        /\ \A i \in 1..Len(t) : (b \o t)[Len(b) + i] = t[i]
    BY <1>t, Appended
  <1> DEFINE bt == b \o t
             r == Len(s) - k
  <1>5a. r \in Nat /\ Len(b) = r
    BY <1>0, <1>2
  <1>6. /\ bt \in Seq(S) /\ Len(bt) = r + Len(t)
        /\ \A i \in 1..r : bt[i] = b[i]
        /\ \A i \in 1..Len(t) : bt[r + i] = t[i]
    BY <1>5, <1>5a
  <1> HIDE DEF bt
  <1>6a. Len(bt) = Len(c) /\ Len(c) = r + Len(t) /\ k + r = Len(s)
    BY <1>0, <1>3, <1>4, <1>6
  <1>6b. /\ \A i \in 1..r : b[i] = s[k + i] /\ k + i \in 1..Len(s)
         /\ \A i \in 1..Len(s) : st[i] = s[i]
         /\ \A i \in 1..Len(t) : st[Len(s) + i] = t[i]
         /\ \A i \in 1..Len(c) : c[i] = st[k + i]
    BY <1>0, <1>1, <1>2, <1>4 DEF st
  <1> HIDE DEF r
  <1>7. ASSUME NEW i \in 1..Len(c) PROVE bt[i] = c[i]
    <2>0. i \in Nat /\ i >= 1 /\ i <= r + Len(t)
      BY <1>0, <1>5a, <1>6a
    <2>1. CASE i \in 1..r
      BY <1>6, <1>6b, <2>1
    <2>2. CASE i - r \in 1..Len(t)
      <3>1. PICK j \in 1..Len(t) : j = i - r
        BY <2>2
      <3>2. i = r + j /\ k + i = Len(s) + j
        BY <1>0, <1>5a, <1>6a, <2>0, <3>1
      <3>3. QED
        BY <1>6, <1>6b, <3>2
    <2>3. i \in 1..r \/ i - r \in 1..Len(t)
      BY <1>0, <1>5a, <2>0
    <2>4. QED
      BY <2>1, <2>2, <2>3
  <1>8. bt = c
    BY <1>4, <1>6, <1>6a, <1>7, SeqEqual
  <1>9. QED
    BY <1>8 DEF b, c, st, bt

\* The size of a piece.
LEMMA AtMostIs == ASSUME NEW k \in Nat, NEW n \in Nat PROVE AtMost(k, n) \in 0..n /\ AtMost(k, n) <= k
  BY DEF AtMost

\* Numbers read from bytes.
LEMMA BytesRead ==
    ASSUME NEW b \in Seq(Bytes), Len(b) >= 24
    PROVE  read_u16(b, 4) \in Nat /\ read_u16(b, 6) \in Nat /\ read_u32(b, 12) \in Nat
  <1>1. \A i \in 1..24 : b[i] \in Nat
    <2>1. SUFFICES ASSUME NEW i \in 1..24 PROVE b[i] \in Nat
      OBVIOUS
    <2>2. i \in 1..Len(b)
      BY <2>1
    <2>3. b[i] \in Bytes
      BY <2>2, ElementOf
    <2>4. Bytes \subseteq Nat
      BY DEF Bytes
    <2>5. QED
      BY <2>3, <2>4
  <1>2. /\ b[4 + 1] \in Nat /\ b[4 + 2] \in Nat /\ b[6 + 1] \in Nat /\ b[6 + 2] \in Nat
        /\ b[12 + 1] \in Nat /\ b[12 + 2] \in Nat /\ b[12 + 2 + 1] \in Nat /\ b[12 + 2 + 2] \in Nat
    BY <1>1
  <1>n. \A lo, hi \in Nat : lo + 256 * hi \in Nat
    BY SMT
  <1>3. read_u16(b, 4) \in Nat /\ read_u16(b, 6) \in Nat /\ read_u16(b, 12) \in Nat /\ read_u16(b, 12 + 2) \in Nat
    <2>1. read_u16(b, 4) \in Nat /\ read_u16(b, 6) \in Nat
      BY <1>2, <1>n, Zenon DEF read_u16
    <2>2. read_u16(b, 12) \in Nat /\ read_u16(b, 12 + 2) \in Nat
      BY <1>2, <1>n, Zenon DEF read_u16
    <2>3. QED
      BY <2>1, <2>2
  <1>4. read_u32(b, 12) \in Nat
    <2>1. PICK lo \in Nat, hi \in Nat : lo = read_u16(b, 12) /\ hi = read_u16(b, 12 + 2)
      BY <1>3
    <2>2. lo + 65536 * hi \in Nat
      BY SMT
    <2>3. QED
      BY <2>1, <2>2 DEF read_u32
  <1>5. QED
    BY <1>3, <1>4

\* The header decides: what starts with the same 24 bytes is read the same way.
LEMMA SameHeader ==
    ASSUME NEW b, NEW c, \A i \in 1..24 : c[i] = b[i]
    PROVE  /\ read_i32(c, 0) = read_i32(b, 0) /\ read_u16(c, 4) = read_u16(b, 4) /\ read_u16(c, 6) = read_u16(b, 6)
           /\ read_u32(c, 12) = read_u32(b, 12) /\ (Refuses(c) <=> Refuses(b))
  <1>1. /\ c[0 + 1] = b[0 + 1] /\ c[0 + 2] = b[0 + 2] /\ c[0 + 2 + 1] = b[0 + 2 + 1] /\ c[0 + 2 + 2] = b[0 + 2 + 2]
        /\ c[4 + 1] = b[4 + 1] /\ c[4 + 2] = b[4 + 2] /\ c[6 + 1] = b[6 + 1] /\ c[6 + 2] = b[6 + 2]
        /\ c[12 + 1] = b[12 + 1] /\ c[12 + 2] = b[12 + 2] /\ c[12 + 2 + 1] = b[12 + 2 + 1] /\ c[12 + 2 + 2] = b[12 + 2 + 2]
    OBVIOUS
  <1>2. /\ read_u16(c, 0) = read_u16(b, 0) /\ read_u16(c, 0 + 2) = read_u16(b, 0 + 2)
        /\ read_u16(c, 4) = read_u16(b, 4) /\ read_u16(c, 6) = read_u16(b, 6)
        /\ read_u16(c, 12) = read_u16(b, 12) /\ read_u16(c, 12 + 2) = read_u16(b, 12 + 2)
    BY <1>1 DEF read_u16
  <1>3. read_i32(c, 0) = read_i32(b, 0) /\ read_u32(c, 12) = read_u32(b, 12)
    BY <1>2, SMT DEF read_i32, read_u32
  <1>4. QED
    BY <1>2, <1>3, Zenon DEF Refuses

-----------------------------------------------------------------------------
(* The types, and where the receiver stands in a packet.                   *)

HostReadable == {HostReads(type, p) : type \in 0..15, p \in Seq(Bytes)}
ClientReadable == {ClientReads(type, p) : type \in 0..15, p \in Seq(Bytes)}
Readable == HostReadable \cup ClientReadable

StreamTypes ==
    /\ to \in {"host", "client"} /\ version \in Versions
    /\ sent \in Seq(IF to = "client" THEN FromHost ELSE FromClient) /\ Len(sent) <= MaxPackets
    /\ out \in Seq(Bytes) /\ wire \in Seq(Bytes) /\ buf \in Seq(Bytes)
    /\ ended \in BOOLEAN /\ open \in BOOLEAN
    /\ phase \in (IF to = "host" THEN {"idle", "header", "payload"} ELSE {"idle", "data"})
    /\ got \in Seq(Readable)

\* The host's buffer is short of what its phase waits for; a header that is refused is not kept.
Standing ==
    /\ ~open => phase = "idle"
    /\ phase = "idle" /\ to = "host" => buf = << >>
    /\ phase = "header" => Len(buf) < 24
    /\ phase = "payload" => /\ 24 <= Len(buf) /\ Len(buf) < 24 + read_u32(buf, 12)
                            /\ ~Refuses(buf)

TInv == StreamTypes /\ Standing

\* What a round of receive_exact may come to.
Waits(bytes) == Len(bytes) < Wanted /\ buf' = bytes /\ UNCHANGED << phase, got, open >>
Opens(bytes) == /\ Len(bytes) = 24 /\ ~Refuses(bytes) /\ read_u32(bytes, 12) > 0
                /\ phase' = "payload" /\ buf' = bytes /\ UNCHANGED << got, open >>
Takes(bytes) == /\ 24 <= Len(bytes) /\ Len(bytes) = 24 + read_u32(bytes, 12) /\ ~Refuses(bytes) /\ read_u16(bytes, 6) <= 15
                /\ got' = Append(got, HostReads(read_u16(bytes, 6), SubSeq(bytes, 25, 24 + read_u32(bytes, 12))))
                /\ phase' = "idle" /\ buf' = << >> /\ open' \in BOOLEAN

\* The bytes of the host after a round: what it had, and at least none of those in flight.
Grown(k, bytes) == /\ k \in 0..Len(wire) /\ bytes = buf \o First(wire, k) /\ bytes \in Seq(Bytes)
                   /\ Len(bytes) = Len(buf) + k
                   /\ wire' = From(wire, k)

LEMMA HandleCases ==
    ASSUME TInv, NEW bytes \in Seq(Bytes), 24 <= Len(bytes), Len(bytes) = 24 + read_u32(bytes, 12), ~Refuses(bytes), open,
           HandlePacket(bytes)
    PROVE  (Close /\ UNCHANGED got) \/ Takes(bytes)
  <1> DEFINE view == WirePacketView(bytes)
  <1>1. /\ view.type = read_u16(bytes, 6)
        /\ view.payload = SubSeq(bytes, 25, 24 + read_u32(bytes, 12))
    BY DEF WirePacketView, HeaderSize
  <1> HIDE DEF view
  <1>2. \/ Close /\ UNCHANGED got
        \/ /\ parse_packet(bytes)
           /\ got' = Append(got, HostReads(view.type, view.payload))
           /\ IF view.type = MessageType.kDisconnect THEN Close ELSE phase' = "idle" /\ buf' = << >> /\ UNCHANGED open
    BY DEF HandlePacket, view
  <1>3. parse_packet(bytes) => read_u16(bytes, 6) <= 15
    BY DEF parse_packet, MessageType
  <1>4. ASSUME IF view.type = MessageType.kDisconnect THEN Close ELSE phase' = "idle" /\ buf' = << >> /\ UNCHANGED open
        PROVE  phase' = "idle" /\ buf' = << >> /\ open' \in BOOLEAN
    BY <1>4 DEF Close, TInv, StreamTypes
  <1>5. QED
    BY <1>1, <1>2, <1>3, <1>4 DEF Takes

LEMMA HostReceivesCases ==
    ASSUME TInv, HostReceives
    PROVE  \E k, bytes : Grown(k, bytes) /\ (Waits(bytes) \/ Opens(bytes) \/ Takes(bytes) \/ (Close /\ UNCHANGED got))
  <1>1. /\ to = "host" /\ open /\ phase \in {"header", "payload"} /\ wire \in Seq(Bytes) /\ buf \in Seq(Bytes)
        /\ Len(wire) \in Nat /\ Len(buf) \in Nat
    BY DEF TInv, StreamTypes, HostReceives
  <1>2. Wanted \in Nat /\ Len(buf) < Wanted /\ (phase = "header" => Wanted = 24)
    <2>1. CASE phase = "header"
      BY <1>1, <2>1 DEF Wanted, HeaderSize, TInv, Standing
    <2>2. CASE phase = "payload"
      <3>1. 24 <= Len(buf) /\ Len(buf) < 24 + read_u32(buf, 12)
        BY <2>2 DEF TInv, Standing
      <3>2. read_u32(buf, 12) \in Nat
        BY <1>1, <3>1, BytesRead
      <3>3. Wanted = 24 + read_u32(buf, 12)
        BY <2>2 DEF Wanted, HeaderSize
      <3>4. QED
        BY <2>2, <3>1, <3>2, <3>3
    <2>3. QED
      BY <1>1, <2>1, <2>2
  <1> DEFINE Outcome(bytes) ==
               CASE Len(bytes) < Wanted -> buf' = bytes /\ UNCHANGED << phase, got, open >>
                 [] Len(bytes) = Wanted /\ phase = "payload" -> HandlePacket(bytes)
                 [] Len(bytes) = Wanted /\ phase = "header" ->
                        IF Refuses(bytes)
                        THEN Close /\ UNCHANGED got
                        ELSE IF read_u32(bytes, 12) > 0
                             THEN phase' = "payload" /\ buf' = bytes /\ UNCHANGED << got, open >>
                             ELSE HandlePacket(bytes)
             Piece(size) == AtMost(AtMost(size, Wanted - Len(buf)), Len(wire))
  <1>3. PICK size \in ReceiveSizes : wire' = From(wire, Piece(size)) /\ Outcome(buf \o First(wire, Piece(size)))
    BY DEF HostReceives
  <1>4. PICK k : k = Piece(size)
    OBVIOUS
  <1>5. PICK bytes : bytes = buf \o First(wire, k)
    OBVIOUS
  <1>6. wire' = From(wire, k) /\ Outcome(bytes)
    BY <1>3, <1>4, <1>5
  <1>7. k \in 0..Len(wire) /\ Len(buf) + k <= Wanted
    <2>1. PICK left \in Nat : left = Wanted - Len(buf)
      BY <1>1, <1>2
    <2>2. size \in Nat
      BY SizesAssumption
    <2>3. PICK some : some = AtMost(size, left)
      OBVIOUS
    <2>4. some \in 0..left
      BY <2>1, <2>2, <2>3, AtMostIs
    <2>5. k = AtMost(some, Len(wire))
      BY <1>4, <2>1, <2>3
    <2>6. k \in 0..Len(wire) /\ k <= some
      BY <1>1, <2>4, <2>5, AtMostIs
    <2>7. QED
      BY <1>1, <1>2, <2>1, <2>4, <2>6
  <1> HIDE DEF Piece
  <1>8. First(wire, k) \in Seq(Bytes) /\ Len(First(wire, k)) = k
    BY <1>1, <1>7, SplitAt
  <1>9. /\ bytes \in Seq(Bytes) /\ Len(bytes) = Len(buf) + k
        /\ \A i \in 1..Len(buf) : bytes[i] = buf[i]
    BY <1>1, <1>5, <1>8, Appended
  <1>10. Grown(k, bytes)
    BY <1>5, <1>6, <1>7, <1>9 DEF Grown
  <1>11. Len(bytes) <= Wanted /\ Len(bytes) \in Nat
    BY <1>7, <1>9
  <1>12. Waits(bytes) \/ Opens(bytes) \/ Takes(bytes) \/ (Close /\ UNCHANGED got)
    <2>1. CASE Len(bytes) < Wanted
      <3>1. ~(Len(bytes) = Wanted)
        BY <1>2, <1>11, <2>1
      <3>2. buf' = bytes /\ UNCHANGED << phase, got, open >>
        BY <1>6, <2>1, <3>1
      <3>3. QED
        BY <2>1, <3>2 DEF Waits
    <2>2. CASE Len(bytes) = Wanted /\ phase = "payload"
      <3>1. HandlePacket(bytes)
        BY <1>2, <1>6, <2>2
      <3>2. 24 <= Len(buf) /\ ~Refuses(buf)
        BY <2>2 DEF TInv, Standing
      <3>3. \A i \in 1..24 : bytes[i] = buf[i]
        BY <1>1, <1>9, <3>2
      <3>4. read_u32(bytes, 12) = read_u32(buf, 12) /\ ~Refuses(bytes)
        BY <3>2, <3>3, SameHeader
      <3>5. Len(bytes) = 24 + read_u32(bytes, 12)
        BY <2>2, <3>4 DEF Wanted, HeaderSize
      <3>6. 24 <= Len(bytes)
        BY <1>1, <1>7, <1>9, <3>2
      <3>7. QED
        BY <1>1, <1>9, <3>1, <3>4, <3>5, <3>6, HandleCases
    <2>3. CASE Len(bytes) = Wanted /\ phase = "header"
      <3>1. IF Refuses(bytes)
            THEN Close /\ UNCHANGED got
            ELSE IF read_u32(bytes, 12) > 0
                 THEN phase' = "payload" /\ buf' = bytes /\ UNCHANGED << got, open >>
                 ELSE HandlePacket(bytes)
        BY <1>2, <1>6, <2>3
      <3>2. Len(bytes) = 24
        BY <1>2, <2>3
      <3>3. CASE ~Refuses(bytes) /\ ~(read_u32(bytes, 12) > 0)
        <4>1. read_u32(bytes, 12) \in Nat
          <5>1. Len(bytes) >= 24
            BY <3>2
          <5>2. QED
            BY <1>9, <5>1, BytesRead
        <4>2. Len(bytes) = 24 + read_u32(bytes, 12)
          <5>1. PICK n \in Nat : n = read_u32(bytes, 12)
            BY <4>1
          <5>2. n = 0
            BY <3>3, <5>1
          <5>3. QED
            BY <3>2, <5>1, <5>2
        <4>3. 24 <= Len(bytes)
          BY <3>2
        <4>4. QED
          BY <1>1, <1>9, <3>1, <3>3, <4>2, <4>3, HandleCases
      <3>4. QED
        BY <3>1, <3>2, <3>3 DEF Opens
    <2>4. QED
      BY <1>1, <1>2, <1>11, <2>1, <2>2, <2>3
  <1>13. QED
    BY <1>10, <1>12

LEMMA BothReadable ==
    ASSUME NEW type \in 0..15, NEW p \in Seq(Bytes)
    PROVE  HostReads(type, p) \in Readable /\ ClientReads(type, p) \in Readable
  <1>1. HostReads(type, p) \in HostReadable
    BY DEF HostReadable
  <1>2. ClientReads(type, p) \in ClientReadable
    BY DEF ClientReadable
  <1>3. QED
    BY <1>1, <1>2, Zenon DEF Readable

\* What is read of bytes is Readable.
LEMMA ReadIsReadable ==
    ASSUME NEW b \in Seq(Bytes), NEW n \in Nat, Len(b) >= 24 + n, read_u16(b, 6) <= 15
    PROVE  /\ HostReads(read_u16(b, 6), SubSeq(b, 25, 24 + n)) \in Readable
           /\ ClientReads(read_u16(b, 6), SubSeq(b, 25, 24 + n)) \in Readable
  <1>0. Len(b) \in Nat
    OBVIOUS
  <1>1. Len(b) >= 24
    BY <1>0
  <1>2. read_u16(b, 6) \in Nat
    BY <1>1, BytesRead
  <1>3. PICK type \in 0..15 : type = read_u16(b, 6)
    BY <1>2
  <1>4. SubSeq(b, 25, 24 + n) \in Seq(Bytes)
    BY <1>0
  <1>5. PICK p \in Seq(Bytes) : p = SubSeq(b, 25, 24 + n)
    BY <1>4
  <1>6. HostReads(type, p) \in Readable /\ ClientReads(type, p) \in Readable
    BY BothReadable
  <1>7. QED
    BY <1>3, <1>5, <1>6

LEMMA OneMore == ASSUME NEW S, NEW s \in Seq(S), NEW x \in S PROVE Append(s, x) \in Seq(S) /\ Len(Append(s, x)) = Len(s) + 1
  OBVIOUS

LEMMA TInitially == ASSUME Init PROVE TInv
  <1>1. << >> \in Seq(Bytes) /\ << >> \in Seq(Readable) /\ << >> \in Seq(IF to = "client" THEN FromHost ELSE FromClient)
    OBVIOUS
  <1>2. Len(sent) <= MaxPackets
    BY SizesAssumption DEF Init
  <1>3. StreamTypes
    BY <1>1, <1>2 DEF Init, StreamTypes
  <1>4. Standing
    BY DEF Init, Standing
  <1>5. QED
    BY <1>3, <1>4 DEF TInv

LEMMA StandingSame ==
    ASSUME Standing, UNCHANGED << to, phase, buf, open >>
    PROVE  Standing'
  <1>1. Wanted' = Wanted /\ (Refuses(buf))' = Refuses(buf)
    BY DEF Wanted, Refuses
  <1>2. QED
    BY <1>1 DEF Standing

LEMMA TSend == ASSUME TInv, NEW m \in IF to = "client" THEN FromHost ELSE FromClient, Send(m) PROVE TInv'
  <1>1. m \in FromHost \cup FromClient
    OBVIOUS
  <1>2. version \in Short /\ version \in Nat
    BY VersionsAreShort DEF TInv, StreamTypes, Short
  <1>3. EnginePacket(m) \in Seq(Bytes) /\ ClientPacket(m) = EnginePacket(m)
    BY <1>1, <1>2, PacketRead, MessagesAgreed, SamePacket DEF IsPacket
  <1>4. out' \in Seq(Bytes)
    <2>1. out' = out \o EnginePacket(m) /\ out \in Seq(Bytes)
      BY <1>3 DEF Send, TInv, StreamTypes
    <2>2. QED
      BY <1>3, <2>1, Appended
  <1>5. sent' \in Seq(IF to = "client" THEN FromHost ELSE FromClient) /\ Len(sent') <= MaxPackets
    <2>1. sent' = Append(sent, m) /\ Len(sent) < MaxPackets /\ sent \in Seq(IF to = "client" THEN FromHost ELSE FromClient)
      BY DEF Send, TInv, StreamTypes
    <2>2. Len(sent') = Len(sent) + 1 /\ sent' \in Seq(IF to = "client" THEN FromHost ELSE FromClient)
      BY <2>1, OneMore
    <2>3. QED
      BY <2>1, <2>2, SizesAssumption
  <1>6. UNCHANGED << to, version, wire, ended, phase, buf, got, open >>
    BY DEF Send
  <1>7. StreamTypes'
    BY <1>4, <1>5, <1>6 DEF TInv, StreamTypes
  <1>8. QED
    BY <1>6, <1>7, StandingSame DEF TInv

\* The two ends of the wire move bytes only.
LEMMA TWire == ASSUME TInv, Transmit \/ End PROVE TInv'
  <1>1. out \in Seq(Bytes) /\ wire \in Seq(Bytes)
    BY DEF TInv, StreamTypes
  <1>2. out' \in Seq(Bytes) /\ wire' \in Seq(Bytes) /\ ended' \in BOOLEAN
    <2>1. CASE Transmit
      <3>1. PICK size \in SendSizes : LET k == AtMost(size, Len(out)) IN wire' = wire \o First(out, k) /\ out' = From(out, k)
        BY <2>1 DEF Transmit
      <3>2. PICK k : k = AtMost(size, Len(out))
        OBVIOUS
      <3>3. k \in 0..Len(out)
        <4>1. size \in Nat /\ Len(out) \in Nat
          BY <1>1, SizesAssumption
        <4>2. QED
          BY <3>2, <4>1, AtMostIs
      <3>4. wire' = wire \o First(out, k) /\ out' = From(out, k)
        BY <3>1, <3>2
      <3>5. First(out, k) \in Seq(Bytes) /\ From(out, k) \in Seq(Bytes)
        BY <1>1, <3>3, SplitAt
      <3>6. wire \o First(out, k) \in Seq(Bytes)
        BY <1>1, <3>5, Appended
      <3>7. ended' \in BOOLEAN
        BY <2>1 DEF Transmit, TInv, StreamTypes
      <3>8. QED
        BY <3>4, <3>5, <3>6, <3>7
    <2>2. CASE End
      <3>1. << >> \in Seq(Bytes)
        OBVIOUS
      <3>2. QED
        BY <1>1, <2>2, <3>1 DEF End
    <2>3. QED
      BY <2>1, <2>2
  <1>3. UNCHANGED << to, version, sent, phase, buf, got, open >>
    BY DEF Transmit, End
  <1>4. StreamTypes'
    BY <1>2, <1>3 DEF TInv, StreamTypes
  <1>5. QED
    BY <1>3, <1>4, StandingSame DEF TInv

LEMMA ClosedStands == ASSUME Close PROVE Standing'
  BY DEF Close, Standing

LEMMA TClosed ==
    ASSUME TInv, Close, wire' \in Seq(Bytes), UNCHANGED << to, version, sent, out, ended, got >>
    PROVE  TInv'
  <1>1. << >> \in Seq(Bytes)
    OBVIOUS
  <1>2. StreamTypes'
    BY <1>1 DEF TInv, StreamTypes, Close
  <1>3. QED
    BY <1>2, ClosedStands DEF TInv

LEMMA THost == ASSUME TInv, HostPolls \/ HostReceives \/ HostLosesPeer PROVE TInv'
  <1>1. CASE HostPolls
    <2>1. Len(buf) < 24 /\ to = "host" /\ open
      BY <1>1 DEF HostPolls, TInv, Standing
    <2>2. phase' = "header" /\ UNCHANGED << to, version, sent, out, wire, ended, buf, got, open >>
      BY <1>1 DEF HostPolls
    <2>3. StreamTypes'
      BY <2>1, <2>2 DEF TInv, StreamTypes
    <2>4. Standing'
      BY <2>1, <2>2 DEF Standing
    <2>5. QED
      BY <2>3, <2>4 DEF TInv
  <1>2. CASE HostLosesPeer
    <2>1. wire' \in Seq(Bytes)
      BY <1>2 DEF HostLosesPeer, TInv, StreamTypes
    <2>2. QED
      BY <1>2, <2>1, TClosed DEF HostLosesPeer
  <1>3. CASE HostReceives
    <2>1. PICK k, bytes : Grown(k, bytes) /\ (Waits(bytes) \/ Opens(bytes) \/ Takes(bytes) \/ (Close /\ UNCHANGED got))
      BY <1>3, HostReceivesCases
    <2>2. bytes \in Seq(Bytes) /\ wire' \in Seq(Bytes)
      <3>1. k \in 0..Len(wire) /\ wire \in Seq(Bytes) /\ wire' = From(wire, k) /\ bytes \in Seq(Bytes)
        BY <2>1 DEF Grown, TInv, StreamTypes
      <3>2. QED
        BY <3>1, SplitAt
    <2>3. to = "host" /\ open /\ phase \in {"header", "payload"} /\ UNCHANGED << to, version, sent, out, ended >>
      BY <1>3 DEF HostReceives, TInv, StreamTypes
    <2>4. CASE Waits(bytes)
      <3>1. buf' = bytes /\ Len(bytes) < Wanted /\ UNCHANGED << phase, got, open >>
        BY <2>4 DEF Waits
      <3>2. StreamTypes'
        BY <2>2, <2>3, <3>1 DEF TInv, StreamTypes
      <3>3. CASE phase = "header"
        <4>1. Wanted = 24
          BY <3>3 DEF Wanted, HeaderSize
        <4>2. QED
          BY <2>3, <3>1, <3>2, <3>3, <4>1 DEF TInv, Standing
      <3>4. CASE phase = "payload"
        <4>1. 24 <= Len(buf) /\ ~Refuses(buf) /\ Wanted = 24 + read_u32(buf, 12)
          BY <3>4 DEF TInv, Standing, Wanted, HeaderSize
        <4>2. bytes = buf \o First(wire, k) /\ Len(bytes) = Len(buf) + k /\ k \in 0..Len(wire)
          BY <2>1 DEF Grown
        <4>3. buf \in Seq(Bytes) /\ wire \in Seq(Bytes) /\ First(wire, k) \in Seq(Bytes)
          BY <4>2, SplitAt DEF TInv, StreamTypes
        <4>4. \A i \in 1..Len(buf) : bytes[i] = buf[i]
          BY <4>2, <4>3, Appended
        <4>5. \A i \in 1..24 : bytes[i] = buf[i]
          BY <4>1, <4>3, <4>4
        <4>6. read_u32(bytes, 12) = read_u32(buf, 12) /\ ~Refuses(bytes)
          BY <4>1, <4>5, SameHeader
        <4>7. 24 <= Len(bytes)
          BY <4>1, <4>2, <4>3
        <4>8. (Refuses(buf))' = Refuses(bytes)
          BY <3>1 DEF Refuses
        <4>9. Standing'
          BY <2>3, <3>1, <3>4, <4>1, <4>6, <4>7, <4>8 DEF Standing
        <4>10. QED
          BY <3>2, <4>9 DEF TInv
      <3>5. QED
        BY <2>3, <3>3, <3>4
    <2>5. CASE Opens(bytes)
      <3>1. /\ Len(bytes) = 24 /\ ~Refuses(bytes) /\ read_u32(bytes, 12) > 0 /\ phase' = "payload" /\ buf' = bytes
            /\ UNCHANGED << got, open >>
        BY <2>5 DEF Opens
      <3>2. StreamTypes'
        BY <2>2, <2>3, <3>1 DEF TInv, StreamTypes
      <3>3. read_u32(bytes, 12) \in Nat
        <4>1. Len(bytes) >= 24
          BY <3>1
        <4>2. QED
          BY <2>2, <4>1, BytesRead
      <3>4. 24 <= Len(bytes) /\ Len(bytes) < 24 + read_u32(bytes, 12)
        BY <3>1, <3>3
      <3>5. (Refuses(buf))' = Refuses(bytes)
        BY <3>1 DEF Refuses
      <3>6. Standing'
        BY <2>3, <3>1, <3>4, <3>5 DEF Standing
      <3>7. QED
        BY <3>2, <3>6 DEF TInv
    <2>6. CASE Takes(bytes)
      <3>1. /\ 24 <= Len(bytes) /\ Len(bytes) = 24 + read_u32(bytes, 12) /\ read_u16(bytes, 6) <= 15
            /\ got' = Append(got, HostReads(read_u16(bytes, 6), SubSeq(bytes, 25, 24 + read_u32(bytes, 12))))
            /\ phase' = "idle" /\ buf' = << >> /\ open' \in BOOLEAN
        BY <2>6 DEF Takes
      <3>2. PICK n \in Nat : n = read_u32(bytes, 12)
        BY <2>2, <3>1, BytesRead
      <3>3. Len(bytes) >= 24 + n
        BY <3>1, <3>2
      <3>4. PICK x \in Readable : got' = Append(got, x)
        BY <2>2, <3>1, <3>2, <3>3, ReadIsReadable
      <3>5. got' \in Seq(Readable) /\ buf' \in Seq(Bytes)
        BY <3>1, <3>4, OneMore DEF TInv, StreamTypes
      <3>6. StreamTypes'
        BY <2>2, <2>3, <3>1, <3>5 DEF TInv, StreamTypes
      <3>7. Standing'
        BY <3>1 DEF Standing
      <3>8. QED
        BY <3>6, <3>7 DEF TInv
    <2>7. CASE Close /\ UNCHANGED got
      BY <2>2, <2>3, <2>7, TClosed
    <2>8. QED
      BY <2>1, <2>4, <2>5, <2>6, <2>7
  <1>4. QED
    BY <1>1, <1>2, <1>3

\* A turn of the client's loop.
Breaks == phase' = "idle" /\ UNCHANGED << buf, got >>
Forgets == Mismatch /\ phase' = "idle" /\ buf' = << >> /\ UNCHANGED got
TakesNext == /\ WholePacket /\ buf' = From(buf, TotalLength)
             /\ \/ read_u16(buf, 6) > 15 /\ phase' = "idle" /\ UNCHANGED got
                \/ /\ read_u16(buf, 6) <= 15 /\ UNCHANGED phase
                   /\ got' = Append(got, ClientReads(read_u16(buf, 6), SubSeq(buf, 25, 24 + read_u32(buf, 12))))

LEMMA ClientTakesCases ==
    ASSUME TInv, ClientTakes
    PROVE  /\ phase = "data" /\ UNCHANGED << to, version, sent, out, wire, ended, open >>
           /\ Breaks \/ Forgets \/ TakesNext
  <1>1. WholePacket => read_u16(buf, 6) \in Nat
    BY BytesRead DEF WholePacket, HasHeader, HeaderSize, TInv, StreamTypes
  <1>2. WholePacket => (read_u16(buf, 6) > 15 \/ read_u16(buf, 6) <= 15)
    BY <1>1
  <1>3. MessageType.kError = 15 /\ HeaderSize = 24 /\ TotalLength = 24 + read_u32(buf, 12)
    BY DEF MessageType, HeaderSize, TotalLength
  <1>4. QED
    BY <1>2, <1>3 DEF ClientTakes, Breaks, Forgets, TakesNext

\* There is a whole packet in the buffer.
LEMMA WholeIs ==
    ASSUME buf \in Seq(Bytes), WholePacket
    PROVE  \E n \in Nat : /\ n = read_u32(buf, 12) /\ TotalLength = 24 + n /\ 24 + n \in 0..Len(buf) /\ Len(buf) >= 24
                         /\ Len(buf) >= 24 + n
  <1>1. Len(buf) >= 24 /\ Len(buf) >= TotalLength /\ TotalLength = 24 + read_u32(buf, 12) /\ Len(buf) \in Nat
    BY DEF WholePacket, HasHeader, HeaderSize, TotalLength
  <1>2. PICK n \in Nat : n = read_u32(buf, 12)
    BY <1>1, BytesRead
  <1>3. QED
    BY <1>1, <1>2

LEMMA TClient == ASSUME TInv, ClientData \/ ClientTakes \/ ClientDone PROVE TInv'
  <1>1. CASE ClientData
    <2>1. to = "client" /\ open /\ wire \in Seq(Bytes) /\ buf \in Seq(Bytes)
      BY <1>1 DEF ClientData, TInv, StreamTypes
    <2>2. PICK size \in ReceiveSizes : LET k == AtMost(size, Len(wire)) IN buf' = buf \o First(wire, k) /\ wire' = From(wire, k)
      BY <1>1 DEF ClientData
    <2>3. PICK k : k = AtMost(size, Len(wire))
      OBVIOUS
    <2>4. k \in 0..Len(wire)
      <3>1. size \in Nat /\ Len(wire) \in Nat
        BY <2>1, SizesAssumption
      <3>2. QED
        BY <2>3, <3>1, AtMostIs
    <2>5. buf' = buf \o First(wire, k) /\ wire' = From(wire, k)
      BY <2>2, <2>3
    <2>6. First(wire, k) \in Seq(Bytes) /\ wire' \in Seq(Bytes)
      BY <2>1, <2>4, <2>5, SplitAt
    <2>7. buf' \in Seq(Bytes)
      BY <2>1, <2>5, <2>6, Appended
    <2>8. phase' = "data" /\ UNCHANGED << to, version, sent, out, ended, got, open >>
      BY <1>1 DEF ClientData
    <2>9. StreamTypes'
      BY <2>1, <2>6, <2>7, <2>8 DEF TInv, StreamTypes
    <2>10. Standing'
      BY <2>1, <2>8 DEF Standing
    <2>11. QED
      BY <2>9, <2>10 DEF TInv
  <1>2. CASE ClientDone
    <2>1. wire' \in Seq(Bytes)
      BY <1>2 DEF ClientDone, TInv, StreamTypes
    <2>2. QED
      BY <1>2, <2>1, TClosed DEF ClientDone
  <1>3. CASE ClientTakes
    <2>1. /\ phase = "data" /\ UNCHANGED << to, version, sent, out, wire, ended, open >>
          /\ Breaks \/ Forgets \/ TakesNext
      BY <1>3, ClientTakesCases
    <2>2. buf \in Seq(Bytes) /\ got \in Seq(Readable) /\ to = "client" /\ open
      BY <2>1 DEF TInv, StreamTypes, Standing
    <2>3. buf' \in Seq(Bytes) /\ phase' \in {"idle", "data"} /\ got' \in Seq(Readable)
      <3>1. CASE Breaks
        BY <2>2, <3>1 DEF Breaks
      <3>2. CASE Forgets
        BY <2>2, <3>2 DEF Forgets
      <3>3. CASE TakesNext
        <4>1. PICK n \in Nat : /\ n = read_u32(buf, 12) /\ TotalLength = 24 + n /\ 24 + n \in 0..Len(buf)
                               /\ Len(buf) >= 24 /\ Len(buf) >= 24 + n
          BY <2>2, <3>3, WholeIs DEF TakesNext
        <4>2. buf' \in Seq(Bytes)
          <5>1. buf' = From(buf, 24 + n)
            BY <3>3, <4>1 DEF TakesNext
          <5>2. QED
            BY <2>2, <4>1, <5>1, SplitAt
        <4>3. CASE UNCHANGED got /\ phase' = "idle"
          BY <2>2, <4>2, <4>3
        <4>4. CASE /\ read_u16(buf, 6) <= 15 /\ UNCHANGED phase
                   /\ got' = Append(got, ClientReads(read_u16(buf, 6), SubSeq(buf, 25, 24 + read_u32(buf, 12))))
          <5>1. PICK x \in Readable : got' = Append(got, x)
            BY <2>2, <4>1, <4>4, ReadIsReadable
          <5>2. QED
            BY <2>1, <2>2, <4>2, <4>4, <5>1, OneMore
        <4>5. QED
          BY <3>3, <4>3, <4>4 DEF TakesNext
      <3>4. QED
        BY <2>1, <3>1, <3>2, <3>3
    <2>4. StreamTypes'
      BY <2>1, <2>2, <2>3 DEF TInv, StreamTypes
    <2>5. Standing'
      BY <2>1, <2>2, <2>3 DEF Standing
    <2>6. QED
      BY <2>4, <2>5 DEF TInv
  <1>4. QED
    BY <1>1, <1>2, <1>3

LEMMA TStep == ASSUME TInv, [Next]_vars PROVE TInv'
  <1>1. CASE UNCHANGED vars
    <2>1. StreamTypes'
      BY <1>1 DEF TInv, StreamTypes, vars
    <2>2. QED
      BY <1>1, <2>1, StandingSame DEF TInv, vars
  <1>2. CASE Next
    BY <1>2, TSend, TWire, THost, TClient DEF Next
  <1>3. QED
    BY <1>1, <1>2

\* Whatever is sent and however it is cut: what travels are bytes, what is taken has one of the types
\* of the protocol, the sender keeps to its bound, and the receiver is in one of its phases.
THEOREM TypeCorrect == Spec => []TypeOK
  <1>1. Init => TInv
    BY TInitially
  <1>2. TInv /\ [Next]_vars => TInv'
    BY TStep
  <1>3. TInv => TypeOK
    <2>1. SUFFICES ASSUME TInv PROVE TypeOK
      OBVIOUS
    <2>2. \A s \in {out, wire, buf} : \A i \in DOMAIN s : s[i] \in 0..255
      <3>1. \A s \in Seq(Bytes) : \A i \in DOMAIN s : s[i] \in Bytes
        OBVIOUS
      <3>2. out \in Seq(Bytes) /\ wire \in Seq(Bytes) /\ buf \in Seq(Bytes)
        BY <2>1 DEF TInv, StreamTypes
      <3>3. \A s \in {out, wire, buf} : \A i \in DOMAIN s : s[i] \in Bytes
        BY <3>1, <3>2
      <3>4. QED
        BY <3>3, Zenon DEF Bytes
    <2>3. \A i \in DOMAIN sent : sent[i] \in FromHost \cup FromClient
      <3>1. \A S : \A s \in Seq(S) : \A i \in DOMAIN s : s[i] \in S
        OBVIOUS
      <3>2. sent \in Seq(IF to = "client" THEN FromHost ELSE FromClient)
        BY <2>1 DEF TInv, StreamTypes
      <3>3. QED
        BY <3>1, <3>2
    <2>4. \A i \in DOMAIN got : got[i].type \in DOMAIN MessageType
      <3>1. ASSUME NEW x \in Readable PROVE x.type \in DOMAIN MessageType
        <4>1. PICK type \in 0..15, p \in Seq(Bytes) : x = HostReads(type, p) \/ x = ClientReads(type, p)
          BY DEF Readable, HostReadable, ClientReadable
        <4>2. HostReads(type, p).type = TypeName(type) /\ ClientReads(type, p).type = TypeName(type)
          BY HostArms, ClientArms
        <4>3. TypeName(type) \in DOMAIN MessageType
          BY TypeNames
        <4>4. QED
          BY <4>1, <4>2, <4>3
      <3>2. \A i \in DOMAIN got : got[i] \in Readable
        BY <2>1 DEF TInv, StreamTypes
      <3>3. QED
        BY <3>1, <3>2
    <2>5. QED
      BY <2>1, <2>2, <2>3, <2>4 DEF TInv, StreamTypes, TypeOK
  <1>4. QED
    BY <1>1, <1>2, <1>3, PTL DEF Spec

-----------------------------------------------------------------------------
(* The bytes on their way, cut into packets: where each packet starts in   *)
(* them.  No definition by recursion: the starts are a function that some  *)
(* step of the stream extends or shifts.                                   *)

Layout(pk, n, at) ==
    /\ n \in 0..Len(pk)
    /\ at \in [n + 1..Len(pk) + 1 -> Nat] /\ at[n + 1] = 0
    /\ \A i \in n + 1..Len(pk) : at[i + 1] = at[i] + Len(pk[i])
    /\ \A i, j \in n + 1..Len(pk) + 1 : i <= j => at[i] <= at[j]

Lies(pk, n, at, u) ==
    \A i \in n + 1..Len(pk) : \A j \in 1..Len(pk[i]) : at[i] + j <= Len(u) => u[at[i] + j] = pk[i][j]

\* u is what comes after the first n packets of pk, without the last bytes, which are lost.
Cut(pk, n, u, lost) == /\ lost \in Nat
                       /\ \E at : Layout(pk, n, at) /\ Lies(pk, n, at, u) /\ Len(u) + lost = at[Len(pk) + 1]

LEMMA CutStart == Cut(<< >>, 0, << >>, 0)
  <1> DEFINE at == [i \in {1} |-> 0]
  <1>1. Len(<< >>) = 0 /\ 0 + 1..Len(<< >>) + 1 = {1} /\ 0 + 1..Len(<< >>) = {} /\ 0 \in 0..Len(<< >>)
    OBVIOUS
  <1>2. at \in [0 + 1..Len(<< >>) + 1 -> Nat] /\ at[0 + 1] = 0
    BY <1>1
  <1>3. at[Len(<< >>) + 1] = 0
    BY <1>1
  <1>4. \A i, j \in {1} : i <= j => at[i] <= at[j]
    OBVIOUS
  <1>5. Layout(<< >>, 0, at)
    BY <1>1, <1>2, <1>4 DEF Layout
  <1>6. Lies(<< >>, 0, at, << >>)
    BY <1>1 DEF Lies
  <1> HIDE DEF at
  <1>7. Len(<< >>) + 0 = at[Len(<< >>) + 1]
    BY <1>1, <1>3
  <1>8. QED
    BY <1>5, <1>6, <1>7 DEF Cut

\* One more packet is written.
LEMMA CutSend ==
    ASSUME NEW pk \in Seq(Seq(Bytes)), NEW n \in Nat, NEW u \in Seq(Bytes), Cut(pk, n, u, 0), NEW q \in Seq(Bytes)
    PROVE  Cut(Append(pk, q), n, u \o q, 0)
  <1>1. PICK at : Layout(pk, n, at) /\ Lies(pk, n, at, u) /\ Len(u) = at[Len(pk) + 1]
    BY DEF Cut
  <1> DEFINE more == Append(pk, q)
             N == Len(pk)
             uq == u \o q
             next == [i \in n + 1..N + 2 |-> IF i = N + 2 THEN Len(u) + Len(q) ELSE at[i]]
  <1>2. /\ Len(more) = N + 1 /\ more[N + 1] = q /\ N \in Nat
        /\ \A i \in 1..N : more[i] = pk[i]
    OBVIOUS
  <1>3. /\ uq \in Seq(Bytes) /\ Len(uq) = Len(u) + Len(q)
        /\ \A i \in 1..Len(u) : uq[i] = u[i]
        /\ \A i \in 1..Len(q) : uq[Len(u) + i] = q[i]
    BY Appended
  <1>4. Len(u) \in Nat /\ Len(q) \in Nat
    OBVIOUS
  <1>5. /\ n <= N /\ \A i \in n + 1..N + 1 : at[i] \in Nat /\ at[i] <= at[N + 1]
        /\ at[n + 1] = 0 /\ \A i \in n + 1..N : at[i + 1] = at[i] + Len(pk[i])
        /\ \A i, j \in n + 1..N + 1 : i <= j => at[i] <= at[j]
    <2>1. /\ n \in 0..N /\ at \in [n + 1..N + 1 -> Nat] /\ at[n + 1] = 0
          /\ \A i \in n + 1..N : at[i + 1] = at[i] + Len(pk[i])
          /\ \A i, j \in n + 1..N + 1 : i <= j => at[i] <= at[j]
      BY <1>1 DEF Layout
    <2> HIDE DEF N
    <2>2. n <= N /\ \A i \in n + 1..N + 1 : at[i] \in Nat
      BY <1>2, <2>1
    <2>3. \A i \in n + 1..N + 1 : i <= N + 1 /\ N + 1 \in n + 1..N + 1
      BY <1>2, <2>1
    <2>4. \A i \in n + 1..N + 1 : at[i] <= at[N + 1]
      BY <2>1, <2>3
    <2>5. QED
      BY <2>1, <2>2, <2>4
  <1> HIDE DEF more, N, uq
  <1>6. /\ \A i \in n + 1..N + 1 : next[i] = at[i]
        /\ next[N + 2] = Len(u) + Len(q)
        /\ next \in [n + 1..N + 2 -> Nat]
    <2>1. \A i \in n + 1..N + 1 : i # N + 2 /\ i \in n + 1..N + 2
      BY <1>2, <1>5
    <2>2. N + 2 \in n + 1..N + 2
      BY <1>2, <1>5
    <2>3. \A i \in n + 1..N + 2 : i = N + 2 \/ i \in n + 1..N + 1
      BY <1>2, <1>5
    <2>4. \A i \in n + 1..N + 2 : (IF i = N + 2 THEN Len(u) + Len(q) ELSE at[i]) \in Nat
      BY <1>4, <1>5, <2>3
    <2>5. QED
      BY <2>1, <2>2, <2>4
  <1>6a. at[N + 1] = Len(u)
    BY <1>1 DEF N
  <1> HIDE DEF next
  <1>7. ASSUME NEW i \in n + 1..N + 1 PROVE next[i + 1] = next[i] + Len(more[i])
    <2>1. CASE i \in n + 1..N
      <3>1. i + 1 \in n + 1..N + 1 /\ i \in n + 1..N + 1 /\ i \in 1..N
        BY <1>2, <2>1
      <3>2. QED
        BY <1>2, <1>5, <1>6, <2>1, <3>1
    <2>2. CASE i = N + 1
      <3>1. i + 1 = N + 2
        BY <1>2, <2>2
      <3>2. QED
        BY <1>2, <1>6, <1>6a, <2>2, <3>1
    <2>3. QED
      BY <1>2, <2>1, <2>2
  <1>8. ASSUME NEW i \in n + 1..N + 2, NEW j \in n + 1..N + 2, i <= j PROVE next[i] <= next[j]
    <2>1. CASE j \in n + 1..N + 1
      <3>1. i \in n + 1..N + 1
        BY <1>2, <1>8, <2>1
      <3>2. QED
        BY <1>5, <1>6, <1>8, <2>1, <3>1
    <2>2. CASE j = N + 2 /\ i = N + 2
      BY <1>4, <1>6, <2>2
    <2>3. CASE j = N + 2 /\ i \in n + 1..N + 1
      <3>1. next[i] = at[i] /\ at[i] \in Nat /\ at[i] <= Len(u)
        BY <1>5, <1>6, <1>6a, <2>3
      <3>2. QED
        BY <1>4, <1>6, <2>3, <3>1
    <2>4. QED
      BY <1>2, <2>1, <2>2, <2>3
  <1>9. Layout(more, n, next)
    <2>1. Len(more) + 1 = N + 2 /\ n \in 0..Len(more)
      BY <1>2, <1>5
    <2>2. next[n + 1] = 0
      BY <1>2, <1>5, <1>6
    <2>3. QED
      BY <1>2, <1>6, <1>7, <1>8, <2>1, <2>2 DEF Layout
  <1>10. Lies(more, n, next, uq)
    <2>1. SUFFICES ASSUME NEW i \in n + 1..N + 1, NEW j \in 1..Len(more[i]), next[i] + j <= Len(uq)
                   PROVE  uq[next[i] + j] = more[i][j]
      BY <1>2 DEF Lies
    <2>2. CASE i \in n + 1..N
      <3>1. next[i] = at[i] /\ more[i] = pk[i] /\ i \in n + 1..N + 1 /\ i + 1 \in n + 1..N + 1
        BY <1>2, <1>6, <2>2
      <3>2. pk[i] \in Seq(Bytes) /\ j \in 1..Len(pk[i]) /\ Len(pk[i]) \in Nat
        BY <1>2, <2>1, <2>2, <3>1 DEF N
      <3>3. at[i] + Len(pk[i]) <= Len(u) /\ at[i] \in Nat
        BY <1>5, <1>6a, <2>2, <3>1
      <3>4. at[i] + j \in 1..Len(u)
        BY <1>4, <3>2, <3>3
      <3>5. u[at[i] + j] = pk[i][j]
        <4>1. at[i] + j <= Len(u)
          BY <3>4
        <4>2. QED
          BY <1>1, <2>2, <3>2, <4>1 DEF Lies, N
      <3>6. QED
        BY <1>3, <3>1, <3>4, <3>5
    <2>3. CASE i = N + 1
      <3>1. more[i] = q /\ next[i] = Len(u)
        <4>1. N + 1 \in n + 1..N + 1
          BY <1>2, <1>5
        <4>2. QED
          BY <1>2, <1>6, <1>6a, <2>3, <4>1
      <3>2. QED
        BY <1>3, <2>1, <3>1
    <2>4. QED
      BY <1>2, <2>2, <2>3
  <1>11. Len(uq) + 0 = next[Len(more) + 1]
    <2>1. Len(more) + 1 = N + 2
      BY <1>2
    <2>2. QED
      BY <1>3, <1>4, <1>6, <2>1
  <1>12. QED
    BY <1>9, <1>10, <1>11 DEF Cut, more, uq

\* The last bytes are lost.
LEMMA CutPrefix ==
    ASSUME NEW pk \in Seq(Seq(Bytes)), NEW n \in Nat, NEW u \in Seq(Bytes), NEW lost, Cut(pk, n, u, lost), NEW v \in Seq(Bytes),
           Len(v) <= Len(u), \A i \in 1..Len(v) : v[i] = u[i]
    PROVE  \E more \in Nat : Cut(pk, n, v, more)
  <1>1. PICK at : Layout(pk, n, at) /\ Lies(pk, n, at, u) /\ Len(u) + lost = at[Len(pk) + 1]
    BY DEF Cut
  <1>2. Len(u) \in Nat /\ Len(v) \in Nat /\ lost \in Nat
    BY DEF Cut
  <1>3. PICK more \in Nat : Len(v) + more = Len(u) + lost
    <2>1. Len(u) + lost - Len(v) \in Nat /\ Len(v) + (Len(u) + lost - Len(v)) = Len(u) + lost
      BY <1>2
    <2>2. QED
      BY <2>1
  <1>4. Lies(pk, n, at, v)
    <2>1. SUFFICES ASSUME NEW i \in n + 1..Len(pk), NEW j \in 1..Len(pk[i]), at[i] + j <= Len(v)
                   PROVE  v[at[i] + j] = pk[i][j]
      BY DEF Lies
    <2>2. at[i] \in Nat /\ j \in Nat /\ j >= 1
      <3>1. Len(pk) \in Int /\ n \in Int
        BY <1>1, <2>1 DEF Layout
      <3>2. i \in n + 1..Len(pk) + 1
        BY <2>1, <3>1
      <3>3. at \in [n + 1..Len(pk) + 1 -> Nat]
        BY <1>1 DEF Layout
      <3>4. at[i] \in Nat
        BY <3>2, <3>3
      <3>5. j \in Nat /\ j >= 1
        OBVIOUS
      <3>6. QED
        BY <3>4, <3>5
    <2>3. at[i] + j \in 1..Len(v) /\ at[i] + j <= Len(u)
      BY <1>2, <2>1, <2>2
    <2>4. u[at[i] + j] = pk[i][j]
      BY <1>1, <2>1, <2>3 DEF Lies
    <2>5. QED
      BY <2>3, <2>4
  <1>5. QED
    BY <1>1, <1>3, <1>4 DEF Cut

\* What arrives first is the next packet.
LEMMA CutHead ==
    ASSUME NEW pk \in Seq(Seq(Bytes)), NEW n \in Nat, NEW u \in Seq(Bytes), NEW lost, Cut(pk, n, u, lost),
           Len(u) > 0
    PROVE  /\ n + 1 \in 1..Len(pk)
           /\ \A j \in 1..Len(pk[n + 1]) : j <= Len(u) => u[j] = pk[n + 1][j]
  <1>1. PICK at : Layout(pk, n, at) /\ Lies(pk, n, at, u) /\ Len(u) + lost = at[Len(pk) + 1]
    BY DEF Cut
  <1>2. Len(u) \in Nat /\ lost \in Nat /\ Len(pk) \in Nat /\ n <= Len(pk) /\ at[n + 1] = 0
    BY <1>1 DEF Cut, Layout
  <1>3. n # Len(pk)
    BY <1>1, <1>2
  <1>4. n + 1 \in 1..Len(pk) /\ n + 1 \in n + 1..Len(pk)
    BY <1>2, <1>3
  <1>5. ASSUME NEW j \in 1..Len(pk[n + 1]), j <= Len(u) PROVE u[j] = pk[n + 1][j]
    <2>1. at[n + 1] + j = j
      BY <1>2
    <2>2. QED
      BY <1>1, <1>4, <1>5, <2>1 DEF Lies
  <1>6. QED
    BY <1>4, <1>5

LEMMA Rest ==
    ASSUME NEW x \in Nat, NEW y \in Nat, NEW z \in Nat, NEW l \in Nat, NEW e, x = y - z, y + l = e
    PROVE  x + l = e - z
  OBVIOUS

\* The next packet is taken.
LEMMA CutTake ==
    ASSUME NEW pk \in Seq(Seq(Bytes)), NEW n \in Nat, NEW u \in Seq(Bytes), NEW lost, Cut(pk, n, u, lost),
           n + 1 \in 1..Len(pk), NEW k \in Nat
    PROVE  k = Len(pk[n + 1]) /\ k <= Len(u) => Cut(pk, n + 1, From(u, k), lost)
  <1>0. HAVE k = Len(pk[n + 1]) /\ k <= Len(u)
  <1>1. PICK at : Layout(pk, n, at) /\ Lies(pk, n, at, u) /\ Len(u) + lost = at[Len(pk) + 1]
    BY DEF Cut
  <1> DEFINE N == Len(pk)
             v == From(u, k)
             next == [i \in n + 2..N + 1 |-> at[i] - k]
  <1>2. pk[n + 1] \in Seq(Bytes) /\ k \in Nat /\ Len(u) \in Nat /\ N \in Nat /\ lost \in Nat /\ n + 1 <= N
    <2>1. pk[n + 1] \in Seq(Bytes)
      OBVIOUS
    <2>2. QED
      BY <2>1 DEF Cut
  <1>3. k \in 0..Len(u)
    BY <1>0, <1>2
  <1>4. v \in Seq(Bytes) /\ Len(v) = Len(u) - k /\ \A i \in 1..Len(u) - k : v[i] = u[k + i]
    BY <1>3, SplitAt
  <1> HIDE DEF v
  <1>5. /\ \A i \in n + 1..N + 1 : at[i] \in Nat
        /\ at[n + 1] = 0 /\ \A i \in n + 1..N : at[i + 1] = at[i] + Len(pk[i])
        /\ \A i, j \in n + 1..N + 1 : i <= j => at[i] <= at[j]
    BY <1>1 DEF Layout
  <1>6. at[n + 2] = k /\ n + 2 \in n + 1..N + 1
    <2>1. n + 1 \in n + 1..N /\ n + 1 + 1 = n + 2
      BY <1>2
    <2>2. at[n + 1 + 1] = at[n + 1] + Len(pk[n + 1])
      BY <1>5, <2>1
    <2>3. QED
      BY <1>0, <1>2, <1>5, <2>1, <2>2
  <1>7. \A i \in n + 2..N + 1 : i \in n + 1..N + 1 /\ at[i] \in Nat /\ at[i] >= k /\ at[i] - k \in Nat
    <2>1. SUFFICES ASSUME NEW i \in n + 2..N + 1 PROVE i \in n + 1..N + 1 /\ at[i] \in Nat /\ at[i] >= k /\ at[i] - k \in Nat
      OBVIOUS
    <2>2. i \in n + 1..N + 1 /\ n + 2 <= i
      BY <1>2, <2>1
    <2>3. at[n + 2] <= at[i] /\ at[i] \in Nat
      BY <1>5, <1>6, <2>2
    <2>4. QED
      BY <1>2, <1>6, <2>2, <2>3
  <1>8. next \in [n + 2..N + 1 -> Nat] /\ \A i \in n + 2..N + 1 : next[i] = at[i] - k
    BY <1>7
  <1> HIDE DEF next
  <1>9. Layout(pk, n + 1, next)
    <2>1. n + 1 \in 0..N /\ n + 1 + 1 = n + 2 /\ n + 2 \in n + 2..N + 1
      BY <1>2
    <2>2. next[n + 2] = 0
      BY <1>2, <1>6, <1>8, <2>1
    <2>3. ASSUME NEW i \in n + 2..N PROVE next[i + 1] = next[i] + Len(pk[i])
      <3>1. i \in n + 2..N + 1 /\ i + 1 \in n + 2..N + 1 /\ i \in n + 1..N /\ i \in 1..N
        BY <1>2, <2>3
      <3>2. at[i + 1] = at[i] + Len(pk[i]) /\ next[i + 1] = at[i + 1] - k /\ next[i] = at[i] - k
        BY <1>5, <1>8, <3>1
      <3>3. pk[i] \in Seq(Bytes) /\ Len(pk[i]) \in Nat /\ at[i] \in Nat
        BY <1>7, <3>1
      <3>4. QED
        BY <1>2, <3>2, <3>3
    <2>4. ASSUME NEW i \in n + 2..N + 1, NEW j \in n + 2..N + 1, i <= j PROVE next[i] <= next[j]
      <3>1. at[i] <= at[j] /\ at[i] \in Nat /\ at[j] \in Nat
        BY <1>5, <1>7, <2>4
      <3>2. QED
        BY <1>2, <1>8, <2>4, <3>1
    <2>5. QED
      BY <1>8, <2>1, <2>2, <2>3, <2>4 DEF Layout
  <1>10. Lies(pk, n + 1, next, v)
    <2>1. SUFFICES ASSUME NEW i \in n + 2..N, NEW j \in 1..Len(pk[i]), next[i] + j <= Len(v)
                   PROVE  v[next[i] + j] = pk[i][j]
      <3>1. n + 1 + 1 = n + 2
        OBVIOUS
      <3>2. QED
        BY <3>1 DEF Lies
    <2>2. i \in n + 2..N + 1 /\ i \in n + 1..N /\ i \in 1..N
      BY <1>2, <2>1
    <2>3. next[i] = at[i] - k /\ at[i] \in Nat /\ at[i] >= k /\ next[i] \in Nat
      BY <1>7, <1>8, <2>2
    <2>4. j \in Nat /\ j >= 1
      <3>1. pk[i] \in Seq(Bytes)
        BY <2>2
      <3>2. QED
        BY <2>1, <3>1
    <2>5. next[i] + j \in 1..Len(u) - k /\ k + (next[i] + j) = at[i] + j /\ at[i] + j <= Len(u)
      <3>1. \A x, y, z \in Nat : x >= y /\ j >= 1 /\ x - y + j <= z - y
                                   => x - y + j \in 1..z - y /\ y + (x - y + j) = x + j /\ x + j <= z
        BY <2>4
      <3>2. at[i] - k + j <= Len(u) - k
        BY <1>4, <2>1, <2>3, Zenon
      <3>3. at[i] - k + j \in 1..Len(u) - k /\ k + (at[i] - k + j) = at[i] + j /\ at[i] + j <= Len(u)
        BY <1>2, <2>3, <2>4, <3>1, <3>2, Zenon
      <3>4. QED
        BY <2>3, <3>3, Zenon
    <2>6. v[next[i] + j] = u[at[i] + j]
      BY <1>4, <2>5
    <2>7. u[at[i] + j] = pk[i][j]
      BY <1>1, <2>1, <2>2, <2>5 DEF Lies
    <2>8. QED
      BY <2>6, <2>7
  <1>11. Len(v) + lost = next[N + 1]
    <2>1. N + 1 \in n + 2..N + 1
      BY <1>2
    <2>2. next[N + 1] = at[N + 1] - k /\ at[N + 1] \in Nat
      BY <1>7, <1>8, <2>1
    <2>3. Len(v) = Len(u) - k /\ Len(u) + lost = at[N + 1]
      BY <1>1, <1>4
    <2>4. v \in Seq(Bytes)
      BY <1>4
    <2>5. Len(v) \in Nat
      BY <2>4, LenProperties
    <2>6. Len(v) + lost = at[N + 1] - k
      BY <1>2, <2>3, <2>5, Rest
    <2>7. QED
      BY <2>2, <2>6, Zenon
  <1>12. QED
    BY <1>2, <1>9, <1>10, <1>11 DEF Cut, v

-----------------------------------------------------------------------------
(* The stream implements the queue.  A client whose host has another       *)
(* version is left out: it drops what it has of a packet and takes what    *)
(* comes next for a header, so that a text may well contain a packet.      *)

Stream == buf \o (wire \o out)
Packets == [i \in DOMAIN sent |-> EnginePacket(sent[i])]
Clear == to = "host" \/ version = kWireVersion

\* While the receiver's end is open, what is on its way are the packets not taken; a connection that
\* has ended may have lost the last bytes.
Coming == open => \E lost \in Nat : Cut(Packets, Len(got), Stream, lost) /\ (ended \/ lost = 0)

QInv == TInv /\ Clear /\ Coming

LEMMA StreamIs ==
    ASSUME TInv
    PROVE  /\ Packets \in Seq(Seq(Bytes)) /\ Len(Packets) = Len(sent) /\ Len(sent) \in Nat /\ Len(got) \in Nat
           /\ \A i \in 1..Len(sent) : /\ Packets[i] = EnginePacket(sent[i])
                                      /\ sent[i] \in IF to = "client" THEN FromHost ELSE FromClient
                                      /\ sent[i] \in FromHost \cup FromClient
           /\ wire \o out \in Seq(Bytes) /\ Stream \in Seq(Bytes) /\ version \in Short
  <1>1. /\ sent \in Seq(IF to = "client" THEN FromHost ELSE FromClient) /\ version \in Versions
        /\ out \in Seq(Bytes) /\ wire \in Seq(Bytes) /\ buf \in Seq(Bytes) /\ got \in Seq(Readable)
    BY DEF TInv, StreamTypes
  <1>2. version \in Short
    BY <1>1, VersionsAreShort
  <1>3. wire \o out \in Seq(Bytes) /\ Stream \in Seq(Bytes)
    <2>1. wire \o out \in Seq(Bytes)
      BY <1>1, Appended
    <2>2. QED
      BY <1>1, <2>1, Appended DEF Stream
  <1>4. \A i \in 1..Len(sent) : /\ sent[i] \in IF to = "client" THEN FromHost ELSE FromClient
                                /\ sent[i] \in FromHost \cup FromClient
    BY <1>1, ElementOf
  <1>5. DOMAIN sent = 1..Len(sent) /\ Len(sent) \in Nat /\ Len(got) \in Nat
    BY <1>1
  <1>6. \A i \in 1..Len(sent) : EnginePacket(sent[i]) \in Seq(Bytes)
    BY <1>2, <1>4, PacketRead DEF IsPacket
  <1>7. Packets \in [1..Len(sent) -> Seq(Bytes)]
    BY <1>5, <1>6 DEF Packets
  <1>8. Packets \in Seq(Seq(Bytes)) /\ Len(Packets) = Len(sent)
    BY <1>5, <1>7
  <1>9. \A i \in 1..Len(sent) : Packets[i] = EnginePacket(sent[i])
    BY <1>5 DEF Packets
  <1>10. QED
    BY <1>2, <1>3, <1>4, <1>5, <1>8, <1>9

LEMMA ComingSame ==
    ASSUME Coming, Stream' = Stream, UNCHANGED << sent, version, got, open, ended >>
    PROVE  Coming'
  <1>1. Packets' = Packets
    BY DEF Packets, EnginePacket
  <1>2. QED
    BY <1>1 DEF Coming

\* The first bytes of the stream are those of the next message.
Begun(m, b) == /\ Len(got) + 1 \in 1..Len(sent) /\ m = sent[Len(got) + 1]
               /\ read_i32(b, 0) = kWireMagic /\ read_u16(b, 4) = version /\ read_u16(b, 6) = MessageType[m.type]
               /\ read_u32(b, 12) = Len(EnginePayload(m))

LEMMA NextBegins ==
    ASSUME QInv, open, NEW b \in Seq(Bytes), NEW r \in Seq(Bytes), Stream = b \o r, Len(b) >= 24
    PROVE  \E m : /\ Begun(m, b)
                  /\ \A j \in 1..Len(EnginePacket(m)) : j <= Len(b) => b[j] = EnginePacket(m)[j]
  <1>1. PICK lost \in Nat : Cut(Packets, Len(got), Stream, lost) /\ (ended \/ lost = 0)
    BY DEF QInv, Coming
  <1>2. /\ Packets \in Seq(Seq(Bytes)) /\ Len(Packets) = Len(sent) /\ Len(sent) \in Nat /\ Len(got) \in Nat
        /\ \A i \in 1..Len(sent) : Packets[i] = EnginePacket(sent[i]) /\ sent[i] \in FromHost \cup FromClient
        /\ Stream \in Seq(Bytes) /\ version \in Short
    BY StreamIs DEF QInv
  <1>3. Len(Stream) = Len(b) + Len(r) /\ \A i \in 1..Len(b) : Stream[i] = b[i]
    BY Appended
  <1>4. Len(Stream) > 0 /\ Len(b) <= Len(Stream) /\ Len(b) \in Nat /\ Len(Stream) \in Nat
    BY <1>2, <1>3
  <1>5. /\ Len(got) + 1 \in 1..Len(Packets)
        /\ \A j \in 1..Len(Packets[Len(got) + 1]) : j <= Len(Stream) => Stream[j] = Packets[Len(got) + 1][j]
    BY <1>1, <1>2, <1>4, CutHead
  <1>6. PICK m : m = sent[Len(got) + 1]
    OBVIOUS
  <1>7. Len(got) + 1 \in 1..Len(sent) /\ Packets[Len(got) + 1] = EnginePacket(m) /\ m \in FromHost \cup FromClient
    BY <1>2, <1>5, <1>6
  <1>8. /\ EnginePacket(m) \in Seq(Bytes) /\ Len(EnginePacket(m)) = 24 + Len(EnginePayload(m))
        /\ EnginePayload(m) \in Seq(Bytes)
    BY <1>2, <1>7, PacketRead DEF IsPacket
  <1>9. ASSUME NEW j \in 1..Len(EnginePacket(m)), j <= Len(b) PROVE b[j] = EnginePacket(m)[j]
    <2>1. j \in Nat /\ j >= 1
      BY <1>8
    <2>2. j <= Len(Stream) /\ j \in 1..Len(b)
      BY <1>4, <1>9, <2>1
    <2>3. QED
      BY <1>3, <1>5, <1>7, <1>9, <2>2
  <1>10. \A i \in 1..24 : b[i] = EnginePacket(m)[i]
    <2>1. PICK l \in Nat : l = Len(EnginePayload(m))
      BY <1>8
    <2>2. \A i \in 1..24 : i \in 1..24 + l /\ i <= Len(b)
      BY <1>4, <2>1
    <2>3. QED
      BY <1>8, <1>9, <2>1, <2>2
  <1>11. Begun(m, b)
    BY <1>2, <1>6, <1>7, <1>10, HeaderRead DEF Begun
  <1>12. QED
    BY <1>9, <1>11

\* A whole packet: its payload, and what comes after it.
LEMMA NextWhole ==
    ASSUME QInv, open, NEW b \in Seq(Bytes), NEW r \in Seq(Bytes), Stream = b \o r, Len(b) >= 24,
           NEW n \in Nat, n = read_u32(b, 12), Len(b) >= 24 + n
    PROVE  \E m : /\ Begun(m, b)
                  /\ SubSeq(b, 25, 24 + n) = EnginePayload(m)
                  /\ \E lost \in Nat : Cut(Packets, Len(got) + 1, From(b, 24 + n) \o r, lost) /\ (ended \/ lost = 0)
  <1>1. PICK m : Begun(m, b) /\ \A j \in 1..Len(EnginePacket(m)) : j <= Len(b) => b[j] = EnginePacket(m)[j]
    BY NextBegins
  <1>2. /\ Packets \in Seq(Seq(Bytes)) /\ Len(Packets) = Len(sent) /\ Len(sent) \in Nat /\ Len(got) \in Nat
        /\ Packets[Len(got) + 1] = EnginePacket(m) /\ m \in FromHost \cup FromClient
        /\ Stream \in Seq(Bytes) /\ version \in Short
    BY <1>1, StreamIs DEF QInv, Begun
  <1>3. /\ EnginePacket(m) \in Seq(Bytes) /\ Len(EnginePacket(m)) = 24 + Len(EnginePayload(m))
        /\ EnginePayload(m) \in Seq(Bytes)
        /\ \A i \in 1..Len(EnginePayload(m)) : EnginePacket(m)[24 + i] = EnginePayload(m)[i]
    BY <1>2, PacketRead DEF IsPacket
  <1>4. Len(EnginePayload(m)) = n
    BY <1>1 DEF Begun
  <1>5. Len(b) \in Nat /\ 24 + n \in 0..Len(b) /\ Len(EnginePacket(m)) = 24 + n
    <2>1. Len(b) \in Nat
      OBVIOUS
    <2>2. QED
      BY <1>3, <1>4, <2>1
  <1>6. SubSeq(b, 25, 24 + n) = EnginePayload(m)
    <2> DEFINE p == SubSeq(b, 25, 24 + n)
               load == EnginePayload(m)
    <2>1. p \in Seq(Bytes) /\ Len(p) = n /\ \A i \in 1..n : p[i] = b[24 + i]
      BY <1>5
    <2>2. load \in Seq(Bytes) /\ Len(load) = n
      BY <1>3, <1>4
    <2> HIDE DEF p
    <2>3. ASSUME NEW i \in 1..n PROVE p[i] = load[i]
      <3>1. 24 + i \in 1..24 + n /\ 24 + i <= Len(b)
        BY <1>5
      <3>2. b[24 + i] = EnginePacket(m)[24 + i]
        BY <1>1, <1>5, <3>1
      <3>3. QED
        BY <1>3, <1>4, <2>1, <3>2
    <2> HIDE DEF load
    <2>4. p = load
      BY <2>1, <2>2, <2>3, SeqEqual
    <2>5. QED
      BY <2>4 DEF p, load
  <1>7. From(Stream, 24 + n) = From(b, 24 + n) \o r
    BY <1>5, FromConcat
  <1>8. PICK lost \in Nat : Cut(Packets, Len(got), Stream, lost) /\ (ended \/ lost = 0)
    BY DEF QInv, Coming
  <1>9. Cut(Packets, Len(got) + 1, From(Stream, 24 + n), lost)
    <2>1. PICK k \in Nat : k = 24 + n
      OBVIOUS
    <2>2. Len(got) + 1 \in 1..Len(Packets) /\ k = Len(Packets[Len(got) + 1])
      BY <1>1, <1>2, <1>5, <2>1 DEF Begun
    <2>3. k <= Len(Stream)
      <3>1. Len(Stream) = Len(b) + Len(r) /\ Len(r) \in Nat
        BY Appended
      <3>2. QED
        BY <1>5, <2>1, <3>1
    <2>4. QED
      BY <1>2, <1>8, <2>1, <2>2, <2>3, CutTake
  <1>10. QED
    BY <1>1, <1>6, <1>7, <1>8, <1>9

-----------------------------------------------------------------------------
(* Bytes that only move leave the stream as it is.                         *)

LEMMA Associative == \A s, t, u \in Seq(Bytes) : (s \o t) \o u = s \o (t \o u)
  BY ConcatAssociative

LEMMA StreamGrown ==
    ASSUME TInv, NEW k \in 0..Len(wire), NEW bytes, bytes = buf \o First(wire, k)
    PROVE  bytes \in Seq(Bytes) /\ From(wire, k) \o out \in Seq(Bytes) /\ Stream = bytes \o (From(wire, k) \o out)
  <1>1. buf \in Seq(Bytes) /\ wire \in Seq(Bytes) /\ out \in Seq(Bytes)
    BY DEF TInv, StreamTypes
  <1>2. PICK a, b : a = First(wire, k) /\ b = From(wire, k)
    OBVIOUS
  <1>3. a \in Seq(Bytes) /\ b \in Seq(Bytes) /\ a \o b = wire
    BY <1>1, <1>2, SplitAt
  <1>4. b \o out \in Seq(Bytes) /\ buf \o a \in Seq(Bytes)
    BY <1>1, <1>3, Appended
  <1>5. (a \o b) \o out = a \o (b \o out)
    <2>1. a \in Seq(Bytes) /\ b \in Seq(Bytes) /\ out \in Seq(Bytes)
      BY <1>1, <1>3
    <2>2. QED
      BY <2>1, Associative
  <1>6. (buf \o a) \o (b \o out) = buf \o (a \o (b \o out))
    <2>1. PICK c \in Seq(Bytes) : c = b \o out
      BY <1>4
    <2>2. buf \in Seq(Bytes) /\ a \in Seq(Bytes) /\ c \in Seq(Bytes)
      BY <1>1, <1>3, <2>1
    <2>3. (buf \o a) \o c = buf \o (a \o c)
      BY <2>2, Associative
    <2>4. QED
      BY <2>1, <2>3
  <1>7. Stream = (buf \o a) \o (b \o out)
    <2>1. wire \o out = a \o (b \o out)
      BY <1>3, <1>5
    <2>2. QED
      BY <1>6, <2>1 DEF Stream
  <1>8. bytes = buf \o a
    BY <1>2
  <1>9. QED
    BY <1>2, <1>4, <1>7, <1>8

LEMMA StreamTransmitted ==
    ASSUME TInv, NEW k \in 0..Len(out), wire' = wire \o First(out, k), out' = From(out, k), buf' = buf
    PROVE  Stream' = Stream
  <1>1. buf \in Seq(Bytes) /\ wire \in Seq(Bytes) /\ out \in Seq(Bytes)
    BY DEF TInv, StreamTypes
  <1>2. PICK a, b : a = First(out, k) /\ b = From(out, k)
    OBVIOUS
  <1>3. a \in Seq(Bytes) /\ b \in Seq(Bytes) /\ a \o b = out
    BY <1>1, <1>2, SplitAt
  <1>4. (wire \o a) \o b = wire \o (a \o b)
    BY <1>1, <1>3, Associative
  <1>5. wire' \o out' = wire \o out
    <2>1. wire' \o out' = (wire \o a) \o b
      BY <1>2
    <2>2. QED
      BY <1>3, <1>4, <2>1
  <1>6. QED
    BY <1>5, Zenon DEF Stream

\* The sender's end is closed: what send() has not taken is lost, or all in flight.
LEMMA StreamEnds ==
    ASSUME TInv, out' = << >>, wire' \in {wire, << >>}, buf' = buf
    PROVE  Stream' \in Seq(Bytes) /\ Len(Stream') <= Len(Stream) /\ \A i \in 1..Len(Stream') : Stream'[i] = Stream[i]
  <1>1. buf \in Seq(Bytes) /\ wire \in Seq(Bytes) /\ out \in Seq(Bytes) /\ << >> \in Seq(Bytes)
    BY DEF TInv, StreamTypes
  <1>2. wire' \o << >> = wire'
    <2>1. wire' \in Seq(Bytes)
      BY <1>1
    <2>2. QED
      BY <2>1, ConcatEmptySeq
  <1>3. Stream' = buf \o wire'
    BY <1>2, Zenon DEF Stream
  <1>4. wire \o out \in Seq(Bytes) /\ buf \o wire \in Seq(Bytes)
    BY <1>1, Appended
  <1>5. PICK b, w : b = buf /\ w = buf \o wire
    OBVIOUS
  <1>6. Stream = w \o out
    <2>1. (buf \o wire) \o out = buf \o (wire \o out)
      BY <1>1, Associative
    <2>2. QED
      BY <1>5, <2>1, Zenon DEF Stream
  <1>7. Stream = b \o (wire \o out)
    BY <1>5, Zenon DEF Stream
  <1>8. Stream' = b \/ Stream' = w
    <2>1. buf \o << >> = buf
      BY <1>1, ConcatEmptySeq
    <2>2. wire' = wire \/ wire' = << >>
      OBVIOUS
    <2>3. QED
      BY <1>3, <1>5, <2>1, <2>2, Zenon
  <1>9. /\ b \in Seq(Bytes) /\ Len(b) <= Len(Stream) /\ \A i \in 1..Len(b) : Stream[i] = b[i]
    <2>1. b \in Seq(Bytes)
      BY <1>1, <1>5
    <2>2. PICK x \in Seq(Bytes) : x = wire \o out
      BY <1>4
    <2>3. Stream = b \o x
      BY <1>7, <2>2
    <2>4. Len(Stream) = Len(b) + Len(x) /\ \A i \in 1..Len(b) : Stream[i] = b[i]
      BY <2>1, <2>3, Appended
    <2>5. Len(b) \in Nat /\ Len(x) \in Nat
      BY <2>1
    <2>6. QED
      BY <2>1, <2>4, <2>5
  <1>10. /\ w \in Seq(Bytes) /\ Len(w) <= Len(Stream) /\ \A i \in 1..Len(w) : Stream[i] = w[i]
    <2>1. w \in Seq(Bytes)
      BY <1>4, <1>5
    <2>2. Len(Stream) = Len(w) + Len(out) /\ \A i \in 1..Len(w) : Stream[i] = w[i]
      BY <1>1, <1>6, <2>1, Appended
    <2>3. Len(w) \in Nat /\ Len(out) \in Nat
      BY <1>1, <2>1
    <2>4. QED
      BY <2>1, <2>2, <2>3
  <1>11. QED
    BY <1>8, <1>9, <1>10

-----------------------------------------------------------------------------
(* What a step does to the queue.                                          *)

Still == UNCHANGED << to, version, sent, got, open >>
Sends == \E m : sent' = Append(sent, m) /\ UNCHANGED << to, version, got, open >>
Closes == open /\ open' = FALSE /\ UNCHANGED << to, version, sent, got >>
Delivers == /\ open /\ Len(got) + 1 \in 1..Len(sent)
            /\ Promised(sent[Len(got) + 1]) # Unreadable /\ got' = Append(got, Promised(sent[Len(got) + 1]))
            /\ open' \in BOOLEAN /\ UNCHANGED << to, version, sent >>

LEMMA QInitially == ASSUME Init, Clear PROVE QInv
  <1>1. sent = << >> /\ buf = << >> /\ wire = << >> /\ out = << >> /\ got = << >>
    BY DEF Init
  <1>2. Packets = << >>
    BY <1>1 DEF Packets
  <1>3. Stream = << >>
    BY <1>1 DEF Stream
  <1>4. Len(got) = 0
    BY <1>1
  <1>5. Cut(Packets, Len(got), Stream, 0)
    BY <1>2, <1>3, <1>4, CutStart
  <1>6. QED
    BY <1>5, TInitially DEF QInv, Coming

LEMMA QSend == ASSUME QInv, NEW m \in IF to = "client" THEN FromHost ELSE FromClient, Send(m) PROVE Coming'
  <1>1. /\ ~ended /\ sent' = Append(sent, m)
        /\ out' = out \o (IF to = "client" THEN EnginePacket(m) ELSE ClientPacket(m))
        /\ UNCHANGED << to, version, wire, ended, phase, buf, got, open >>
    BY DEF Send
  <1>2. /\ Packets \in Seq(Seq(Bytes)) /\ Len(Packets) = Len(sent) /\ Len(sent) \in Nat /\ Len(got) \in Nat
        /\ Stream \in Seq(Bytes) /\ wire \o out \in Seq(Bytes) /\ version \in Short
    BY StreamIs DEF QInv
  <1>3. buf \in Seq(Bytes) /\ wire \in Seq(Bytes) /\ out \in Seq(Bytes)
    BY DEF QInv, TInv, StreamTypes
  <1>4. m \in FromHost \cup FromClient /\ version \in Nat
    BY <1>2 DEF Short
  <1>5. EnginePacket(m) \in Seq(Bytes) /\ ClientPacket(m) = EnginePacket(m)
    BY <1>2, <1>4, PacketRead, MessagesAgreed, SamePacket DEF IsPacket
  <1>6. PICK p \in Seq(Bytes) : p = EnginePacket(m)
    BY <1>5
  <1>7. out' = out \o p
    BY <1>1, <1>5, <1>6
  <1>8. Stream' = Stream \o p
    <2>1. PICK w \in Seq(Bytes) : w = wire \o out
      BY <1>2
    <2>2. wire \o (out \o p) = w \o p
      BY <1>3, <2>1, Associative
    <2>3. (buf \o w) \o p = buf \o (w \o p)
      BY <1>3, Associative
    <2>4. Stream' = buf \o (wire \o (out \o p))
      BY <1>1, <1>7 DEF Stream
    <2>5. Stream = buf \o w
      BY <2>1 DEF Stream
    <2>6. QED
      BY <2>2, <2>3, <2>4, <2>5
  <1>9. Packets' = Append(Packets, p)
    <2> DEFINE n == Len(sent)
               more == Append(Packets, p)
    <2>1. /\ DOMAIN sent = 1..n /\ DOMAIN sent' = 1..n + 1 /\ sent'[n + 1] = m
          /\ \A i \in 1..n : sent'[i] = sent[i]
      BY <1>1 DEF QInv, TInv, StreamTypes
    <2>2. DOMAIN more = 1..n + 1 /\ more[n + 1] = p /\ \A i \in 1..n : more[i] = Packets[i]
      BY <1>2
    <2>3. more \in [1..n + 1 -> Seq(Bytes)]
      <3>1. more \in Seq(Seq(Bytes)) /\ Len(more) = n + 1
        BY <1>2, OneMore
      <3> HIDE DEF more
      <3>2. QED
        BY <3>1
    <2> HIDE DEF more
    <2>4. Packets' = [i \in 1..n + 1 |-> EnginePacket(sent'[i])]
      BY <1>1, <2>1 DEF Packets, EnginePacket
    <2>5. ASSUME NEW i \in 1..n + 1 PROVE EnginePacket(sent'[i]) = more[i]
      <3>1. CASE i = n + 1
        BY <1>6, <2>1, <2>2, <3>1
      <3>2. CASE i \in 1..n
        BY <2>1, <2>2, <3>2 DEF Packets
      <3>3. QED
        BY <1>2, <3>1, <3>2
    <2>6. QED
      BY <2>3, <2>4, <2>5 DEF more
  <1>10. CASE open
    <2>1. Cut(Packets, Len(got), Stream, 0)
      BY <1>1, <1>10 DEF QInv, Coming
    <2>2. Cut(Append(Packets, p), Len(got), Stream \o p, 0)
      BY <1>2, <2>1, CutSend
    <2>3. Cut(Packets', Len(got'), Stream', 0)
      BY <1>1, <1>8, <1>9, <2>2
    <2>4. QED
      BY <2>3 DEF Coming
  <1>11. CASE ~open
    BY <1>1, <1>11 DEF Coming
  <1>12. QED
    BY <1>10, <1>11

LEMMA QWire == ASSUME QInv, Transmit \/ End PROVE Coming'
  <1>1. TInv /\ out \in Seq(Bytes) /\ UNCHANGED << to, version, sent, phase, buf, got, open >>
    BY DEF QInv, TInv, StreamTypes, Transmit, End
  <1>2. CASE Transmit
    <2>1. PICK size \in SendSizes : LET k == AtMost(size, Len(out)) IN wire' = wire \o First(out, k) /\ out' = From(out, k)
      BY <1>2 DEF Transmit
    <2>2. PICK k : k = AtMost(size, Len(out))
      OBVIOUS
    <2>3. k \in 0..Len(out)
      <3>1. size \in Nat /\ Len(out) \in Nat
        BY <1>1, SizesAssumption
      <3>2. QED
        BY <2>2, <3>1, AtMostIs
    <2>4. wire' = wire \o First(out, k) /\ out' = From(out, k)
      BY <2>1, <2>2
    <2>5. Stream' = Stream
      BY <1>1, <2>3, <2>4, StreamTransmitted
    <2>6. UNCHANGED ended
      BY <1>2 DEF Transmit
    <2>7. QED
      BY <1>1, <2>5, <2>6, ComingSame DEF QInv
  <1>3. CASE End
    <2>1. ended' = TRUE /\ out' = << >> /\ wire' \in {wire, << >>}
      BY <1>3 DEF End
    <2>2. Stream' \in Seq(Bytes) /\ Len(Stream') <= Len(Stream) /\ \A i \in 1..Len(Stream') : Stream'[i] = Stream[i]
      BY <1>1, <2>1, StreamEnds
    <2>3. Packets' = Packets
      BY <1>1 DEF Packets, EnginePacket
    <2>4. CASE open
      <3>1. PICK lost \in Nat : Cut(Packets, Len(got), Stream, lost)
        BY <2>4 DEF QInv, Coming
      <3>2. PICK pk \in Seq(Seq(Bytes)), n \in Nat, u \in Seq(Bytes) : pk = Packets /\ n = Len(got) /\ u = Stream
        BY <1>1, StreamIs
      <3>3. PICK v \in Seq(Bytes) : v = Stream'
        BY <2>2
      <3>4. Len(v) <= Len(u) /\ \A i \in 1..Len(v) : v[i] = u[i]
        BY <2>2, <3>2, <3>3
      <3>5. PICK more \in Nat : Cut(pk, n, v, more)
        <4>1. Cut(pk, n, u, lost)
          BY <3>1, <3>2
        <4>2. QED
          BY <3>4, <4>1, CutPrefix
      <3>6. Cut(Packets', Len(got'), Stream', more)
        BY <1>1, <2>3, <3>2, <3>3, <3>5
      <3>7. QED
        BY <2>1, <3>6 DEF Coming
    <2>5. CASE ~open
      BY <1>1, <2>5 DEF Coming
    <2>6. QED
      BY <2>4, <2>5
  <1>4. QED
    BY <1>2, <1>3

\* What the receiver reads of a packet with this type and this payload.
Reads(type, p) == IF to = "host" THEN HostReads(type, p) ELSE ClientReads(type, p)

\* A whole packet that the receiver does not refuse is the next message, as promised.
LEMMA QTaken ==
    ASSUME QInv, open, NEW b \in Seq(Bytes), NEW r \in Seq(Bytes), Stream = b \o r, Len(b) >= 24,
           NEW n \in Nat, n = read_u32(b, 12), Len(b) >= 24 + n,
           read_u16(b, 4) = kWireVersion, to = "host" => n <= MaxPayload,
           got' = Append(got, Reads(read_u16(b, 6), SubSeq(b, 25, 24 + n))),
           Stream' = From(b, 24 + n) \o r, open' \in BOOLEAN, UNCHANGED << to, version, sent, ended >>
    PROVE  Coming' /\ Delivers
  <1>1. PICK m : /\ Begun(m, b)
                 /\ SubSeq(b, 25, 24 + n) = EnginePayload(m)
                 /\ \E lost \in Nat : Cut(Packets, Len(got) + 1, From(b, 24 + n) \o r, lost) /\ (ended \/ lost = 0)
    BY NextWhole
  <1>2. /\ Len(got) + 1 \in 1..Len(sent) /\ m = sent[Len(got) + 1] /\ version = kWireVersion
        /\ read_u16(b, 6) = MessageType[m.type] /\ n = Len(EnginePayload(m))
    BY <1>1 DEF Begun
  <1>3. m \in (IF to = "client" THEN FromHost ELSE FromClient) /\ m \in FromHost \cup FromClient
    BY <1>2, StreamIs DEF QInv
  <1>4. Reads(MessageType[m.type], EnginePayload(m)) = Understood(m)
    <2>1. CASE to = "host"
      BY <1>3, <2>1, HostUnderstands DEF Reads
    <2>2. CASE to = "client"
      BY <1>3, <2>2, ClientUnderstands DEF Reads
    <2>3. QED
      BY <2>1, <2>2 DEF QInv, TInv, StreamTypes
  <1>5. Promised(m) = Understood(m)
    <2>1. EnginePayload(m) = ClientPayload(m)
      BY <1>3, MessagesAgreed DEF Agreed
    <2>2. to = "host" => ~(Len(ClientPayload(m)) > MaxPayload)
      BY <1>2, <2>1, SizesAssumption
    <2>3. QED
      BY <1>2, <2>2 DEF Promised
  <1>6. got' = Append(got, Promised(m))
    BY <1>1, <1>2, <1>4, <1>5
  <1>7. Promised(m) # Unreadable
    BY <1>3, <1>5, UnderstoodIsReadable
  <1>8. Delivers
    BY <1>2, <1>6, <1>7 DEF Delivers
  <1>9. Coming'
    <2>1. Packets' = Packets
      BY DEF Packets, EnginePacket
    <2>2. Len(got') = Len(got) + 1
      BY <1>6 DEF QInv, TInv, StreamTypes
    <2>3. PICK lost \in Nat : Cut(Packets, Len(got) + 1, From(b, 24 + n) \o r, lost) /\ (ended \/ lost = 0)
      BY <1>1
    <2>4. Cut(Packets', Len(got'), Stream', lost) /\ (ended' \/ lost = 0)
      BY <2>1, <2>2, <2>3
    <2>5. QED
      BY <2>4 DEF Coming
  <1>10. QED
    BY <1>8, <1>9

LEMMA QHost == ASSUME QInv, HostPolls \/ HostReceives \/ HostLosesPeer PROVE Coming' /\ (Still \/ Closes \/ Delivers)
  <1>1. CASE HostPolls
    <2>1. UNCHANGED << to, version, sent, out, wire, ended, buf, got, open >>
      BY <1>1 DEF HostPolls
    <2>2. Stream' = Stream
      BY <2>1 DEF Stream
    <2>3. QED
      BY <2>1, <2>2, ComingSame DEF QInv, Still
  <1>2. CASE HostLosesPeer
    BY <1>2 DEF HostLosesPeer, Close, Closes, Coming
  <1>3. CASE HostReceives
    <2>1. TInv /\ to = "host" /\ open /\ UNCHANGED << to, version, sent, out, ended >>
      BY <1>3 DEF HostReceives, QInv
    <2>2. PICK k, bytes : Grown(k, bytes) /\ (Waits(bytes) \/ Opens(bytes) \/ Takes(bytes) \/ (Close /\ UNCHANGED got))
      BY <1>3, <2>1, HostReceivesCases
    <2>3. k \in 0..Len(wire) /\ bytes = buf \o First(wire, k) /\ wire' = From(wire, k)
      BY <2>2 DEF Grown
    <2>4. PICK r \in Seq(Bytes) : r = From(wire, k) \o out
      BY <2>1, <2>3, StreamGrown
    <2>5. bytes \in Seq(Bytes) /\ Stream = bytes \o r
      BY <2>1, <2>3, <2>4, StreamGrown
    <2>6. CASE Waits(bytes) \/ Opens(bytes)
      <3>1. buf' = bytes /\ UNCHANGED << got, open >>
        BY <2>6 DEF Waits, Opens
      <3>2. Stream' = Stream
        BY <2>1, <2>3, <2>4, <2>5, <3>1 DEF Stream
      <3>3. QED
        BY <2>1, <3>1, <3>2, ComingSame DEF QInv, Still
    <2>7. CASE Takes(bytes)
      <3>1. /\ 24 <= Len(bytes) /\ Len(bytes) = 24 + read_u32(bytes, 12) /\ ~Refuses(bytes)
            /\ got' = Append(got, HostReads(read_u16(bytes, 6), SubSeq(bytes, 25, 24 + read_u32(bytes, 12))))
            /\ buf' = << >> /\ open' \in BOOLEAN
        BY <2>7 DEF Takes
      <3>2. PICK n \in Nat : n = read_u32(bytes, 12)
        BY <2>5, <3>1, BytesRead
      <3>3. Len(bytes) >= 24 /\ Len(bytes) = 24 + n /\ Len(bytes) >= 24 + n
        BY <3>1, <3>2
      <3>4. read_u16(bytes, 4) = kWireVersion /\ n <= MaxPayload
        BY <3>1, <3>2, SizesAssumption DEF Refuses
      <3>5. got' = Append(got, Reads(read_u16(bytes, 6), SubSeq(bytes, 25, 24 + n)))
        BY <2>1, <3>1, <3>2 DEF Reads
      <3>6. Stream' = From(bytes, 24 + n) \o r
        <4>1. From(bytes, 24 + n) = << >>
          BY <2>5, <3>3 DEF From
        <4>2. Stream' = << >> \o r
          BY <2>1, <2>3, <2>4, <3>1 DEF Stream
        <4>3. QED
          BY <4>1, <4>2
      <3>7. QED
        BY <2>1, <2>5, <3>1, <3>2, <3>3, <3>4, <3>5, <3>6, QTaken
    <2>8. CASE Close /\ UNCHANGED got
      BY <2>1, <2>8 DEF Close, Closes, Coming
    <2>9. QED
      BY <2>2, <2>6, <2>7, <2>8
  <1>4. QED
    BY <1>1, <1>2, <1>3

LEMMA QClient == ASSUME QInv, ClientData \/ ClientTakes \/ ClientDone PROVE Coming' /\ (Still \/ Closes \/ Delivers)
  <1>0. TInv
    BY DEF QInv
  <1>1. CASE ClientData
    <2>1. wire \in Seq(Bytes) /\ UNCHANGED << to, version, sent, out, ended, got, open >>
      BY <1>0, <1>1 DEF ClientData, TInv, StreamTypes
    <2>2. PICK size \in ReceiveSizes : LET k == AtMost(size, Len(wire)) IN buf' = buf \o First(wire, k) /\ wire' = From(wire, k)
      BY <1>1 DEF ClientData
    <2>3. PICK k : k = AtMost(size, Len(wire))
      OBVIOUS
    <2>4. k \in 0..Len(wire)
      <3>1. size \in Nat /\ Len(wire) \in Nat
        BY <2>1, SizesAssumption
      <3>2. QED
        BY <2>3, <3>1, AtMostIs
    <2>5. buf' = buf \o First(wire, k) /\ wire' = From(wire, k)
      BY <2>2, <2>3
    <2>6. Stream = (buf \o First(wire, k)) \o (From(wire, k) \o out)
      BY <1>0, <2>4, StreamGrown
    <2>7. Stream' = Stream
      BY <2>1, <2>5, <2>6 DEF Stream
    <2>8. QED
      BY <2>1, <2>7, ComingSame DEF QInv, Still
  <1>2. CASE ClientDone
    BY <1>2 DEF ClientDone, Close, Closes, Coming
  <1>3. CASE ClientTakes
    <2>1. /\ phase = "data" /\ UNCHANGED << to, version, sent, out, wire, ended, open >>
          /\ Breaks \/ Forgets \/ TakesNext
      BY <1>0, <1>3, ClientTakesCases
    <2>2. buf \in Seq(Bytes) /\ to = "client" /\ open /\ version = kWireVersion
      BY <1>0, <2>1 DEF TInv, StreamTypes, Standing, QInv, Clear
    <2>3. PICK r \in Seq(Bytes) : r = wire \o out
      BY <1>0, StreamIs
    <2>4. Stream = buf \o r
      BY <2>3 DEF Stream
    <2>5. ASSUME Len(buf) >= 24
          PROVE  ~Mismatch /\ read_u16(buf, 4) = kWireVersion /\ read_u16(buf, 6) <= 15
      <3>1. PICK m : Begun(m, buf)
        BY <2>2, <2>4, <2>5, NextBegins
      <3>2. /\ read_i32(buf, 0) = kWireMagic /\ read_u16(buf, 4) = kWireVersion
            /\ read_u16(buf, 6) = MessageType[m.type] /\ m \in FromHost \cup FromClient /\ version \in Short
        BY <1>0, <2>2, <3>1, StreamIs DEF Begun
      <3>3. MessageType[m.type] \in 0..15
        BY <3>2, PacketRead
      <3>4. read_u16(buf, 6) <= 15
        BY <3>2, <3>3
      <3>5. QED
        BY <3>2, <3>4 DEF Mismatch
    <2>6. CASE Breaks
      <3>1. Stream' = Stream
        BY <2>1, <2>6 DEF Breaks, Stream
      <3>2. QED
        BY <2>1, <2>6, <3>1, ComingSame DEF QInv, Still, Breaks
    <2>7. CASE Forgets
      <3>1. Len(buf) >= 24
        BY <2>7 DEF Forgets, Mismatch, HasHeader, HeaderSize
      <3>2. QED
        BY <2>5, <2>7, <3>1 DEF Forgets
    <2>8. CASE TakesNext
      <3>1. PICK n \in Nat : /\ n = read_u32(buf, 12) /\ TotalLength = 24 + n /\ 24 + n \in 0..Len(buf)
                             /\ Len(buf) >= 24 /\ Len(buf) >= 24 + n
        BY <2>2, <2>8, WholeIs DEF TakesNext
      <3>2. read_u16(buf, 4) = kWireVersion /\ read_u16(buf, 6) <= 15
        BY <2>5, <3>1
      <3>3. read_u16(buf, 6) \in Nat
        BY <2>2, <3>1, BytesRead
      <3>4. /\ buf' = From(buf, 24 + n)
            /\ got' = Append(got, ClientReads(read_u16(buf, 6), SubSeq(buf, 25, 24 + n)))
        BY <2>8, <3>1, <3>2, <3>3 DEF TakesNext
      <3>5. got' = Append(got, Reads(read_u16(buf, 6), SubSeq(buf, 25, 24 + n)))
        BY <2>2, <3>4 DEF Reads
      <3>6. Stream' = From(buf, 24 + n) \o r
        BY <2>1, <2>3, <3>4 DEF Stream
      <3>7. to = "host" => n <= MaxPayload
        BY <2>2
      <3>8. open' \in BOOLEAN
        BY <2>1, <2>2
      <3>9. QED
        BY <2>1, <2>2, <2>4, <3>1, <3>2, <3>5, <3>6, <3>7, <3>8, QTaken
    <2>9. QED
      BY <2>1, <2>6, <2>7, <2>8
  <1>4. QED
    BY <1>1, <1>2, <1>3

LEMMA QStep == ASSUME QInv, [Next]_vars PROVE QInv' /\ (Still \/ Sends \/ Closes \/ Delivers)
  <1>1. TInv'
    BY TStep DEF QInv
  <1>2. Clear'
    <2>1. UNCHANGED << to, version >>
      BY DEF Next, vars, Send, Transmit, End, HostPolls, HostReceives, HostLosesPeer, ClientData, ClientTakes, ClientDone
    <2>2. QED
      BY <2>1 DEF QInv, Clear
  <1>3. Coming' /\ (Still \/ Sends \/ Closes \/ Delivers)
    <2>1. CASE UNCHANGED vars
      <3>1. UNCHANGED << to, version, sent, out, wire, ended, buf, got, open >>
        BY <2>1 DEF vars
      <3>2. Stream' = Stream
        BY <3>1 DEF Stream
      <3>3. QED
        BY <3>1, <3>2, ComingSame DEF QInv, Still
    <2>2. ASSUME NEW m \in IF to = "client" THEN FromHost ELSE FromClient, Send(m) PROVE Coming' /\ Sends
      <3>1. Coming'
        BY <2>2, QSend
      <3>2. QED
        BY <2>2, <3>1 DEF Send, Sends
    <2>3. CASE Transmit \/ End
      <3>1. Coming'
        BY <2>3, QWire
      <3>2. QED
        BY <2>3, <3>1 DEF Transmit, End, Still
    <2>4. CASE HostPolls \/ HostReceives \/ HostLosesPeer
      BY <2>4, QHost
    <2>5. CASE ClientData \/ ClientTakes \/ ClientDone
      BY <2>5, QClient
    <2>6. QED
      BY <2>1, <2>2, <2>3, <2>4, <2>5 DEF Next
  <1>4. QED
    BY <1>1, <1>2, <1>3 DEF QInv

LEMMA Kept ==
    ASSUME NEW S, NEW s \in Seq(S), NEW t \in Seq(S), Len(t) = Len(s) + 1, \A i \in 1..Len(s) : t[i] = s[i]
    PROVE  SubSeq(t, 1, Len(s)) = s
  <1>1. SubSeq(t, 1, Len(s)) \in Seq(S) /\ Len(SubSeq(t, 1, Len(s))) = Len(s)
    OBVIOUS
  <1>2. \A i \in 1..Len(s) : SubSeq(t, 1, Len(s))[i] = t[i]
    OBVIOUS
  <1>3. QED
    BY <1>1, <1>2, SeqEqual

\* The messages as the receiver is to understand them.
Meant == [i \in DOMAIN sent |-> Promised(sent[i])]

LEMMA QueueStep == ASSUME TInv, TInv', Still \/ Sends \/ Closes \/ Delivers PROVE [Queue!Next]_(Queue!vars)
  <1>1. sent \in Seq(FromHost \cup FromClient) /\ DOMAIN sent = 1..Len(sent) /\ Len(sent) \in Nat /\ Len(got) \in Nat
    BY DEF TInv, StreamTypes
  <1>2. DOMAIN Meant = 1..Len(sent) /\ Len(Meant) = Len(sent) /\ \A i \in 1..Len(sent) : Meant[i] = Promised(sent[i])
    BY <1>1 DEF Meant
  <1>3. UNCHANGED << to, version, sent >> => Meant' = Meant
    BY DEF Meant, Promised, Understood
  <1>4. CASE Still
    <2>1. UNCHANGED << Meant, got, open >>
      BY <1>3, <1>4 DEF Still
    <2>2. QED
      BY <2>1 DEF Queue!vars, Meant
  <1>5. CASE Closes
    <2>1. open /\ open' = FALSE /\ UNCHANGED << Meant, got >>
      BY <1>3, <1>5 DEF Closes
    <2>2. Queue!Close
      BY <2>1 DEF Queue!Close, Meant
    <2>3. QED
      BY <2>2 DEF Queue!Next
  <1>6. CASE Delivers
    <2>1. /\ open /\ Len(got) + 1 \in 1..Len(sent)
          /\ Promised(sent[Len(got) + 1]) # Unreadable /\ got' = Append(got, Promised(sent[Len(got) + 1]))
          /\ open' \in BOOLEAN /\ UNCHANGED Meant
      BY <1>3, <1>6 DEF Delivers
    <2>2. Len(got) < Len(Meant) /\ Meant[Len(got) + 1] = Promised(sent[Len(got) + 1])
      BY <1>1, <1>2, <2>1
    <2>3. /\ open /\ Len(got) < Len(Meant) /\ Meant[Len(got) + 1] # Unreadable
          /\ got' = Append(got, Meant[Len(got) + 1]) /\ open' \in BOOLEAN /\ UNCHANGED Meant
      BY <2>1, <2>2
    <2>4. Queue!Take
      BY <2>3 DEF Queue!Take, Meant
    <2>5. QED
      BY <2>4 DEF Queue!Next
  <1>7. CASE Sends
    <2>1. PICK m : sent' = Append(sent, m) /\ UNCHANGED << to, version, got, open >>
      BY <1>7 DEF Sends
    <2>2. /\ DOMAIN sent' = 1..Len(sent) + 1 /\ \A i \in 1..Len(sent) : sent'[i] = sent[i]
      BY <1>1, <2>1
    <2>3. Meant' = [i \in 1..Len(sent) + 1 |-> Promised(sent'[i])]
      BY <2>1, <2>2 DEF Meant, Promised, Understood
    <2>4. Len(Meant') = Len(Meant) + 1 /\ \A i \in 1..Len(Meant) : Meant'[i] = Meant[i]
      BY <1>1, <1>2, <2>2, <2>3
    <2>5. SubSeq(Meant', 1, Len(Meant)) = Meant
      <3>1. PICK S : S = {Promised(sent[i]) : i \in 1..Len(sent)} \cup {Promised(sent'[i]) : i \in 1..Len(sent) + 1}
        OBVIOUS
      <3>2. Meant \in Seq(S)
        <4>1. Meant = [i \in 1..Len(sent) |-> Promised(sent[i])]
          BY <1>1 DEF Meant
        <4>2. Meant \in [1..Len(sent) -> S]
          BY <3>1, <4>1
        <4>3. QED
          BY <1>1, <4>2
      <3>3. Meant' \in Seq(S)
        <4>1. Meant' \in [1..Len(sent) + 1 -> S]
          BY <2>3, <3>1
        <4>2. QED
          BY <1>1, <4>1
      <3>4. QED
        BY <2>4, <3>2, <3>3, Kept
    <2>6. Queue!Send
      BY <2>1, <2>4, <2>5 DEF Queue!Send, Meant
    <2>7. QED
      BY <2>6 DEF Queue!Next
  <1>8. QED
    BY <1>4, <1>5, <1>6, <1>7

\* However send() and recv() cut the bytes, for any texts, any sizes and any limit of a payload: the
\* receiver takes the messages in the order in which they were sent, each once and with the meaning the
\* sender gave it; it takes none of another version and none above the host's limit, and nothing after
\* such a message or after a disconnect. To the host the sender may have any version.
THEOREM ImplementsTheQueue == Spec /\ (to = "host" \/ version = kWireVersion) => ImplementsQueue
  <1>1. Init /\ Clear => QInv
    BY QInitially
  <1>2. QInv /\ [Next]_vars => QInv'
    BY QStep
  <1>3. Init => Queue!Init
    <2>1. Init => Meant = << >> /\ got = << >> /\ open = TRUE
      BY DEF Init, Meant
    <2>2. QED
      BY <2>1 DEF Queue!Init, Meant
  <1>4. QInv /\ QInv' /\ [Next]_vars => [Queue!Next]_(Queue!vars)
    BY QStep, QueueStep DEF QInv
  <1>5. (to = "host" \/ version = kWireVersion) <=> Clear
    BY DEF Clear
  <1>6. QED
    BY <1>1, <1>2, <1>3, <1>4, <1>5, PTL DEF Spec, ImplementsQueue, Queue!Safety
=============================================================================
