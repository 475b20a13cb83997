------------------------------ MODULE WireCodec ------------------------------
(***************************************************************************)
(* The wire format as the engine writes and reads it (wire_codec.h,        *)
(* protocol.h) and as the Android client does (protocol.dart,              *)
(* session_codec.dart).  Bytes are numbers from 0 to 255, offsets count    *)
(* from 0 as in the code.  A 64-bit number is the pair of its 32-bit       *)
(* words, the low one first; a negative number is written in two's         *)
(* complement, for \div rounds down and % is never negative.               *)
(***************************************************************************)
EXTENDS Integers, Sequences

MessageType == [kHello |-> 0, kCapabilities |-> 1, kFrameMetadata |-> 2, kSessionStart |-> 3,
                kSessionStop |-> 4, kVideoFrame |-> 5, kAudioFrame |-> 6, kInputEvent |-> 7,
                kClipboardSync |-> 8, kFileOffer |-> 9, kFileChunk |-> 10, kDeviceList |-> 11,
                kPing |-> 12, kPong |-> 13, kDisconnect |-> 14, kError |-> 15]

kWireMagic == 1396920898  \* 0x53435242
kWireVersion == 1
HeaderSize == 24

-----------------------------------------------------------------------------
(* The engine writes: each append extends what is there.                   *)

append_u16(v) == << v % 256, (v \div 256) % 256 >>
append_u32(v) == append_u16(v % 65536) \o append_u16((v \div 65536) % 65536)
append_u64(v) == append_u32(v[1]) \o append_u32(v[2])

\* A packet of a program whose wire version is version; this one's is kWireVersion.
make_packet(version, type, flags, payload, time) ==
    append_u32(kWireMagic) \o append_u16(version) \o append_u16(type) \o append_u32(flags)
        \o append_u32(Len(payload)) \o append_u64(time) \o payload

make_hello(api, protocol, caps) ==
    append_u32(api) \o append_u32(protocol) \o append_u32(caps)
make_capabilities(host, client) == append_u32(host) \o append_u32(client)
make_frame_metadata(monitor, width, height, stride, id) ==
    append_u32(monitor) \o append_u32(width) \o append_u32(height) \o append_u32(stride) \o append_u64(id)
make_pong(nonce) == append_u64(nonce)
make_ping(nonce) == append_u64(nonce)
make_input_mouse(x, y, wheel, buttons, flags) ==
    append_u32(0) \o append_u32(x) \o append_u32(y) \o append_u32(wheel) \o append_u32(buttons) \o append_u32(flags)
make_input_key(key, scan, flags) == append_u32(1) \o append_u32(key) \o append_u32(scan) \o append_u32(flags)
make_clipboard(text) == append_u32(1) \o text
make_disconnect(code, reason) == append_u32(code) \o append_u32(Len(reason)) \o reason

-----------------------------------------------------------------------------
(* The engine reads.                                                       *)

read_u16(bytes, offset) == bytes[offset + 1] + 256 * bytes[offset + 2]
read_u32(bytes, offset) == read_u16(bytes, offset) + 65536 * read_u16(bytes, offset + 2)
read_u64(bytes, offset) == << read_u32(bytes, offset), read_u32(bytes, offset + 4) >>

\* static_cast<std::int32_t>(read_u32(bytes, offset)).
read_i32(bytes, offset) ==
    LET hi == read_u16(bytes, offset + 2)
    IN  read_u16(bytes, offset) + 65536 * (IF hi < 32768 THEN hi ELSE hi - 65536)

\* What parse_packet requires. Its caller has read 24 + payload_size bytes of a payload of at most
\* 2^20, so that its 32-bit sum cannot wrap.
parse_packet(bytes) ==
    /\ Len(bytes) >= HeaderSize
    /\ read_i32(bytes, 0) = kWireMagic  \* below 2^31, where both readings are the same
    /\ read_u16(bytes, 4) = kWireVersion
    /\ read_u16(bytes, 6) <= MessageType.kError
    /\ Len(bytes) >= HeaderSize + read_u32(bytes, 12)

WirePacketView(bytes) ==
    [type |-> read_u16(bytes, 6), flags |-> read_u32(bytes, 8), timestamp |-> read_u64(bytes, 16),
     payload |-> SubSeq(bytes, HeaderSize + 1, HeaderSize + read_u32(bytes, 12))]

-----------------------------------------------------------------------------
(* The Android client writes: a buffer of a fixed size, filled at offsets. *)

\* Each of writes is an offset and the bytes put there.
ByteData(size, writes) ==
    [i \in 1..size |->
        IF \E w \in writes : i \in w[1] + 1..w[1] + Len(w[2])
        THEN LET w == CHOOSE v \in writes : i \in v[1] + 1..v[1] + Len(v[2]) IN w[2][i - w[1]]
        ELSE 0]

setUint16(offset, v) == << offset, << v % 256, (v \div 256) % 256 >> >>
\* Mutant of setUint32: the top byte of a negative number is not masked.
setUint32Unmasked(offset, v) ==
    << offset, << v % 256, (v \div 256) % 256, (v \div 65536) % 256, v \div 16777216 >> >>
setUint32(offset, v) ==
    << offset, << v % 256, (v \div 256) % 256, (v \div 65536) % 256, (v \div 16777216) % 256 >> >>

encode(version, type, flags, payload, time) ==
    ByteData(24, {setUint32(0, kWireMagic), setUint16(4, version), setUint16(6, type), setUint32(8, flags),
                  setUint32(12, Len(payload)), setUint32(16, time[1]), setUint32(20, time[2])}) \o payload

hello(api, protocol, caps) ==
    ByteData(12, {setUint32(0, api), setUint32(4, protocol), setUint32(8, caps)})
capabilities(host, client) == ByteData(8, {setUint32(0, host), setUint32(4, client)})
frameMetadata(monitor, width, height, stride, id) ==
    ByteData(24, {setUint32(0, monitor), setUint32(4, width), setUint32(8, height), setUint32(12, stride),
                  setUint32(16, id[1]), setUint32(20, id[2])})
ping(nonce) == ByteData(8, {setUint32(0, nonce[1]), setUint32(4, nonce[2])})
\* Mutant of mouseEvent: buttons and wheel in the other order.
mouseEventSwapped(x, y, wheel, buttons, flags) ==
    ByteData(24, {setUint32(0, 0), setUint32(4, x), setUint32(8, y), setUint32(12, buttons),
                  setUint32(16, wheel), setUint32(20, flags)})
mouseEvent(x, y, wheel, buttons, flags) ==
    ByteData(24, {setUint32(0, 0), setUint32(4, x), setUint32(8, y), setUint32(12, wheel),
                  setUint32(16, buttons), setUint32(20, flags)})
keyEvent(key, scan, flags) ==
    ByteData(16, {setUint32(0, 1), setUint32(4, key), setUint32(8, scan), setUint32(12, flags)})
clipboardText(text) == ByteData(4 + Len(text), {setUint32(0, 1), << 4, text >>})
disconnect(code, reason) ==
    ByteData(8 + Len(reason), {setUint32(0, code), setUint32(4, Len(reason)), << 8, reason >>})

=============================================================================
