--------------------------- MODULE WireCodecProofs ---------------------------
(***************************************************************************)
(* Proofs about the wire format, for every number and every text: the      *)
(* engine, which appends, and the Android client, which fills a buffer at  *)
(* offsets, write the same bytes.  A buffer filled from its front to its   *)
(* end without a gap is what its parts give when they are appended (Grow); *)
(* each message is an instance of that.                                    *)
(***************************************************************************)
EXTENDS WireCodec, SequenceTheorems, TLAPS

-----------------------------------------------------------------------------
(* Numbers.                                                                *)

\* The four bytes and the two halves of a number's 32 bits.
Byte0(v) == v % 256
Byte1(v) == (v \div 256) % 256
Byte2(v) == (v \div 65536) % 256
Byte3(v) == (v \div 16777216) % 256
LowHalf(v) == v % 65536
HighHalf(v) == (v \div 65536) % 65536

\* They are numbers again.
LEMMA Parts ==
    ASSUME NEW v \in Int
    PROVE  /\ Byte0(v) \in Int /\ Byte1(v) \in Int /\ Byte2(v) \in Int /\ Byte3(v) \in Int
           /\ LowHalf(v) \in Int /\ HighHalf(v) \in Int
  BY SMT DEF Byte0, Byte1, Byte2, Byte3, LowHalf, HighHalf

\* The bytes of the halves.
LEMMA Halves ==
    ASSUME NEW v \in Int
    PROVE  /\ Byte0(LowHalf(v)) = Byte0(v) /\ Byte1(LowHalf(v)) = Byte1(v)
           /\ Byte0(HighHalf(v)) = Byte2(v) /\ Byte1(HighHalf(v)) = Byte3(v)
  <1>1. Byte0(LowHalf(v)) = Byte0(v)
    BY SMT DEF Byte0, LowHalf
  <1>2. Byte1(LowHalf(v)) = Byte1(v)
    BY SMT DEF Byte1, LowHalf
  <1>3. Byte0(HighHalf(v)) = Byte2(v)
    BY SMT DEF Byte0, Byte2, HighHalf
  <1>4. Byte1(HighHalf(v)) = Byte3(v)
    BY SMT DEF Byte1, Byte3, HighHalf
  <1>5. QED
    BY <1>1, <1>2, <1>3, <1>4

\* The halves from their bytes.
LEMMA Digits ==
    ASSUME NEW v \in Int
    PROVE  LowHalf(v) = Byte0(v) + 256 * Byte1(v) /\ HighHalf(v) = Byte2(v) + 256 * Byte3(v)
  <1>1. LowHalf(v) = Byte0(v) + 256 * Byte1(v)
    BY SMT DEF LowHalf, Byte0, Byte1
  <1>2. HighHalf(v) = Byte2(v) + 256 * Byte3(v)
    BY SMT DEF HighHalf, Byte2, Byte3
  <1>3. QED
    BY <1>1, <1>2

\* The numbers of 32 bits, without a sign and with one.
Unsigned == {v \in Nat : v <= 4294967295}
Signed == {v \in Int : -2147483648 <= v /\ v <= 2147483647}

\* A number from its halves.
LEMMA UnsignedValue == ASSUME NEW v \in Unsigned PROVE v \in Int /\ LowHalf(v) + 65536 * HighHalf(v) = v
  <1>1. v \in Int /\ v \div 65536 \in Int /\ 0 <= v \div 65536 /\ v \div 65536 < 65536
    BY SMT DEF Unsigned
  <1>2. (v % 65536) + 65536 * (v \div 65536) = v
    BY <1>1, SMT
  <1>3. (v \div 65536) % 65536 = v \div 65536
    BY <1>1, SMT
  <1>4. QED
    BY <1>1, <1>2, <1>3, SMT DEF LowHalf, HighHalf

LEMMA SignedValue ==
    ASSUME NEW v \in Signed
    PROVE  v \in Int /\ LowHalf(v) + 65536 * (IF HighHalf(v) < 32768 THEN HighHalf(v) ELSE HighHalf(v) - 65536) = v
  <1>1. v \in Int /\ v \div 65536 \in Int /\ -32768 <= v \div 65536 /\ v \div 65536 < 32768
    BY SMT DEF Signed
  <1>2. (v % 65536) + 65536 * (v \div 65536) = v
    BY <1>1, SMT
  <1>3. CASE v \div 65536 >= 0
    <2>1. (v \div 65536) % 65536 = v \div 65536
      BY <1>1, <1>3, SMT
    <2>2. QED
      BY <1>1, <1>2, <2>1, SMT DEF LowHalf, HighHalf
  <1>4. CASE v \div 65536 < 0
    <2>1. (v \div 65536) % 65536 = (v \div 65536) + 65536
      BY <1>1, <1>4, SMT
    <2>2. QED
      BY <1>1, <1>2, <1>4, <2>1, SMT DEF LowHalf, HighHalf
  <1>5. QED
    BY <1>1, <1>3, <1>4, SMT

-----------------------------------------------------------------------------
(* Buffers.                                                                *)

\* The writes leave no gap up to n, and together they are bytes.
Filled(n, writes, bytes) ==
    /\ n \in Nat /\ bytes \in Seq(Int) /\ Len(bytes) = n
    /\ \A w \in writes : /\ w[1] \in Nat /\ w[2] \in Seq(Int)
                         /\ \A i \in w[1] + 1..w[1] + Len(w[2]) : i \in 1..n /\ bytes[i] = w[2][i - w[1]]
    /\ \A i \in 1..n : \E w \in writes : i \in w[1] + 1..w[1] + Len(w[2])

\* Such a buffer holds these bytes, whichever write is looked at.
LEMMA FilledBuffer ==
    ASSUME NEW n, NEW writes, NEW bytes, Filled(n, writes, bytes)
    PROVE  ByteData(n, writes) = bytes /\ bytes \in Seq(Int)
  <1> DEFINE Covers(w, i) == i \in w[1] + 1..w[1] + Len(w[2])
             Byte(i) == IF \E w \in writes : Covers(w, i)
                        THEN LET w == CHOOSE v \in writes : Covers(v, i) IN w[2][i - w[1]] ELSE 0
  <1>1. ByteData(n, writes) = [i \in 1..n |-> Byte(i)]
    BY DEF ByteData
  <1>2. ASSUME NEW i \in 1..n PROVE Byte(i) = bytes[i]
    <2>1. \E w \in writes : Covers(w, i)
      BY DEF Filled
    <2>2. PICK u : u = CHOOSE v \in writes : Covers(v, i)
      OBVIOUS
    <2>3. u \in writes /\ Covers(u, i)
      BY <2>1, <2>2
    <2>4. bytes[i] = u[2][i - u[1]]
      BY <2>3 DEF Filled
    <2>5. QED
      BY <2>1, <2>2, <2>4
  <1>3. bytes = [i \in 1..n |-> bytes[i]]
    BY DEF Filled
  <1> HIDE DEF Byte
  <1>4. QED
    BY <1>1, <1>2, <1>3 DEF Filled

\* An empty buffer; and the bytes of a write that follows.
LEMMA FilledEmpty == Filled(0, {}, << >>)
  BY DEF Filled

LEMMA FilledNext ==
    ASSUME NEW n, NEW writes, NEW bytes, Filled(n, writes, bytes), NEW s \in Seq(Int)
    PROVE  Filled(n + Len(s), writes \cup {<< n, s >>}, bytes \o s)
  <1> DEFINE m == n + Len(s)
             both == bytes \o s
             all == writes \cup {<< n, s >>}
  <1>1. /\ n \in Nat /\ bytes \in Seq(Int) /\ Len(bytes) = n /\ Len(s) \in Nat /\ m \in Nat
        /\ both \in Seq(Int) /\ Len(both) = m
        /\ \A i \in 1..n : both[i] = bytes[i]
        /\ \A i \in n + 1..m : both[i] = s[i - n]
    BY DEF Filled
  <1>2. ASSUME NEW w \in all
        PROVE  /\ w[1] \in Nat /\ w[2] \in Seq(Int)
               /\ \A i \in w[1] + 1..w[1] + Len(w[2]) : i \in 1..m /\ both[i] = w[2][i - w[1]]
    <2>1. CASE w \in writes
      <3>1. /\ w[1] \in Nat /\ w[2] \in Seq(Int)
            /\ \A i \in w[1] + 1..w[1] + Len(w[2]) : i \in 1..n /\ bytes[i] = w[2][i - w[1]]
        BY <2>1 DEF Filled
      <3>2. 1..n \subseteq 1..m
        BY <1>1
      <3> HIDE DEF m, both
      <3>3. QED
        BY <1>1, <3>1, <3>2
    <2>2. CASE w = << n, s >>
      BY <1>1, <2>2
    <2>3. QED
      BY <2>1, <2>2
  <1>3. ASSUME NEW i \in 1..m PROVE \E w \in all : i \in w[1] + 1..w[1] + Len(w[2])
    <2>1. CASE i \in 1..n
      BY <2>1 DEF Filled
    <2>2. CASE i \in n + 1..m
      <3>1. << n, s >> \in all /\ << n, s >>[1] = n /\ << n, s >>[2] = s
        OBVIOUS
      <3>2. i \in << n, s >>[1] + 1..<< n, s >>[1] + Len(<< n, s >>[2])
        BY <2>2, <3>1
      <3>3. QED
        BY <3>1, <3>2
    <2>3. QED
      BY <1>1, <2>1, <2>2
  <1>4. QED
    BY <1>1, <1>2, <1>3 DEF Filled

-----------------------------------------------------------------------------
(* One number.                                                             *)

LEMMA TwoPairs ==
    ASSUME NEW S, NEW a \in S, NEW b \in S, NEW c \in S, NEW d \in S
    PROVE  << a, b >> \o << c, d >> = << a, b, c, d >>
  <1> DEFINE l == << a, b >>
             r == << c, d >>
             all == << a, b, c, d >>
  <1>1. l \in Seq(S) /\ r \in Seq(S) /\ all \in Seq(S) /\ Len(l) = 2 /\ Len(r) = 2 /\ Len(all) = 4
    OBVIOUS
  <1>2. l \o r \in Seq(S) /\ Len(l \o r) = 4
    BY <1>1
  <1>3. (l \o r)[1] = a /\ (l \o r)[2] = b /\ (l \o r)[3] = c /\ (l \o r)[4] = d
    OBVIOUS
  <1>4. \A i \in 1..4 : (l \o r)[i] = all[i]
    BY <1>3
  <1> HIDE DEF l, r, all
  <1>5. QED
    BY <1>1, <1>2, <1>4, SeqEqual DEF l, r, all

\* What append_u16 and append_u32 append.
LEMMA HalfBytes == ASSUME NEW v PROVE append_u16(v) = << Byte0(v), Byte1(v) >>
  BY DEF append_u16, Byte0, Byte1

LEMMA WordBytes == ASSUME NEW v \in Int PROVE append_u32(v) = << Byte0(v), Byte1(v), Byte2(v), Byte3(v) >>
  <1>1. append_u32(v) = append_u16(LowHalf(v)) \o append_u16(HighHalf(v))
    BY DEF append_u32, LowHalf, HighHalf
  <1>2. append_u16(LowHalf(v)) = << Byte0(v), Byte1(v) >> /\ append_u16(HighHalf(v)) = << Byte2(v), Byte3(v) >>
    BY HalfBytes, Halves
  <1>3. Byte0(v) \in Int /\ Byte1(v) \in Int /\ Byte2(v) \in Int /\ Byte3(v) \in Int
    BY Parts
  <1>4. << Byte0(v), Byte1(v) >> \o << Byte2(v), Byte3(v) >> = << Byte0(v), Byte1(v), Byte2(v), Byte3(v) >>
    BY <1>3, TwoPairs
  <1>5. QED
    BY <1>1, <1>2, <1>4

\* What setUint32 puts into its four bytes is what append_u32 appends.
LEMMA Word ==
    ASSUME NEW v \in Int, NEW offset \in Nat
    PROVE  /\ setUint32(offset, v) = << offset, append_u32(v) >>
           /\ append_u32(v) \in Seq(Int) /\ Len(append_u32(v)) = 4
  <1>1. setUint32(offset, v) = << offset, << Byte0(v), Byte1(v), Byte2(v), Byte3(v) >> >>
    BY DEF setUint32, Byte0, Byte1, Byte2, Byte3
  <1>2. append_u32(v) = << Byte0(v), Byte1(v), Byte2(v), Byte3(v) >>
    BY WordBytes
  <1>3. Byte0(v) \in Int /\ Byte1(v) \in Int /\ Byte2(v) \in Int /\ Byte3(v) \in Int
    BY Parts
  <1>4. append_u32(v) \in Seq(Int) /\ Len(append_u32(v)) = 4
    BY <1>2, <1>3
  <1>5. QED
    BY <1>1, <1>2, <1>4

LEMMA HalfWord ==
    ASSUME NEW v \in Int, NEW offset \in Nat
    PROVE  /\ setUint16(offset, v) = << offset, append_u16(v) >>
           /\ append_u16(v) \in Seq(Int) /\ Len(append_u16(v)) = 2
  <1>1. setUint16(offset, v) = << offset, << Byte0(v), Byte1(v) >> >>
    BY DEF setUint16, Byte0, Byte1
  <1>2. append_u16(v) = << Byte0(v), Byte1(v) >>
    BY HalfBytes
  <1>3. Byte0(v) \in Int /\ Byte1(v) \in Int
    BY Parts
  <1>4. append_u16(v) \in Seq(Int) /\ Len(append_u16(v)) = 2
    BY <1>2, <1>3
  <1>5. QED
    BY <1>1, <1>2, <1>4

\* A buffer and the next number.
LEMMA FilledWord ==
    ASSUME NEW n, NEW writes, NEW bytes, Filled(n, writes, bytes), NEW v \in Int
    PROVE  Filled(n + 4, writes \cup {setUint32(n, v)}, bytes \o append_u32(v))
  <1>1. n \in Nat
    BY DEF Filled
  <1>2. QED
    BY <1>1, Word, FilledNext

LEMMA FilledHalf ==
    ASSUME NEW n, NEW writes, NEW bytes, Filled(n, writes, bytes), NEW v \in Int
    PROVE  Filled(n + 2, writes \cup {setUint16(n, v)}, bytes \o append_u16(v))
  <1>1. n \in Nat
    BY DEF Filled
  <1>2. QED
    BY <1>1, HalfWord, FilledNext

\* The first number.
LEMMA FilledFirst == ASSUME NEW v \in Int PROVE Filled(4, {setUint32(0, v)}, append_u32(v))
  <1>1. Filled(0 + 4, {} \cup {setUint32(0, v)}, << >> \o append_u32(v))
    BY FilledEmpty, FilledWord
  <1>2. << >> \o append_u32(v) = append_u32(v)
    BY Word
  <1>3. QED
    BY <1>1, <1>2

-----------------------------------------------------------------------------
(* Several numbers.                                                        *)

\* Two to six of them, one after the other: the writes that fill a buffer, and the bytes.
Words2(a, b) == {setUint32(0, a), setUint32(4, b)}
Words3(a, b, c) == {setUint32(0, a), setUint32(4, b), setUint32(8, c)}
Words4(a, b, c, d) == {setUint32(0, a), setUint32(4, b), setUint32(8, c), setUint32(12, d)}
Words5(a, b, c, d, e) == {setUint32(0, a), setUint32(4, b), setUint32(8, c), setUint32(12, d), setUint32(16, e)}
Words6(a, b, c, d, e, f) == {setUint32(0, a), setUint32(4, b), setUint32(8, c), setUint32(12, d), setUint32(16, e), setUint32(20, f)}

LEMMA Two ==
    ASSUME NEW a \in Int, NEW b \in Int
    PROVE  Filled(8, Words2(a, b), append_u32(a) \o append_u32(b))
  <1>1. Filled(4, {setUint32(0, a)}, append_u32(a))
    BY FilledFirst
  <1>2. Filled(4 + 4, {setUint32(0, a)} \cup {setUint32(4, b)}, append_u32(a) \o append_u32(b))
    BY <1>1, FilledWord
  <1>3. {setUint32(0, a)} \cup {setUint32(4, b)} = Words2(a, b)
    BY DEF Words2
  <1>4. QED
    BY <1>2, <1>3

LEMMA Three ==
    ASSUME NEW a \in Int, NEW b \in Int, NEW c \in Int
    PROVE  Filled(12, Words3(a, b, c), append_u32(a) \o append_u32(b) \o append_u32(c))
  <1>1. Filled(8, Words2(a, b), append_u32(a) \o append_u32(b))
    BY Two
  <1>2. Filled(8 + 4, Words2(a, b) \cup {setUint32(8, c)}, append_u32(a) \o append_u32(b) \o append_u32(c))
    BY <1>1, FilledWord
  <1>3. Words2(a, b) \cup {setUint32(8, c)} = Words3(a, b, c)
    BY DEF Words2, Words3
  <1>4. QED
    BY <1>2, <1>3

LEMMA Four ==
    ASSUME NEW a \in Int, NEW b \in Int, NEW c \in Int, NEW d \in Int
    PROVE  Filled(16, Words4(a, b, c, d), append_u32(a) \o append_u32(b) \o append_u32(c) \o append_u32(d))
  <1>1. Filled(12, Words3(a, b, c), append_u32(a) \o append_u32(b) \o append_u32(c))
    BY Three
  <1>2. Filled(12 + 4, Words3(a, b, c) \cup {setUint32(12, d)}, append_u32(a) \o append_u32(b) \o append_u32(c) \o append_u32(d))
    BY <1>1, FilledWord
  <1>3. Words3(a, b, c) \cup {setUint32(12, d)} = Words4(a, b, c, d)
    BY DEF Words3, Words4
  <1>4. QED
    BY <1>2, <1>3

LEMMA Five ==
    ASSUME NEW a \in Int, NEW b \in Int, NEW c \in Int, NEW d \in Int, NEW e \in Int
    PROVE  Filled(20, Words5(a, b, c, d, e), append_u32(a) \o append_u32(b) \o append_u32(c) \o append_u32(d) \o append_u32(e))
  <1>1. Filled(16, Words4(a, b, c, d), append_u32(a) \o append_u32(b) \o append_u32(c) \o append_u32(d))
    BY Four
  <1>2. Filled(16 + 4, Words4(a, b, c, d) \cup {setUint32(16, e)}, append_u32(a) \o append_u32(b) \o append_u32(c) \o append_u32(d) \o append_u32(e))
    BY <1>1, FilledWord
  <1>3. Words4(a, b, c, d) \cup {setUint32(16, e)} = Words5(a, b, c, d, e)
    BY DEF Words4, Words5
  <1>4. QED
    BY <1>2, <1>3

LEMMA Six ==
    ASSUME NEW a \in Int, NEW b \in Int, NEW c \in Int, NEW d \in Int, NEW e \in Int, NEW f \in Int
    PROVE  Filled(24, Words6(a, b, c, d, e, f), append_u32(a) \o append_u32(b) \o append_u32(c) \o append_u32(d) \o append_u32(e) \o append_u32(f))
  <1>1. Filled(20, Words5(a, b, c, d, e), append_u32(a) \o append_u32(b) \o append_u32(c) \o append_u32(d) \o append_u32(e))
    BY Five
  <1>2. Filled(20 + 4, Words5(a, b, c, d, e) \cup {setUint32(20, f)}, append_u32(a) \o append_u32(b) \o append_u32(c) \o append_u32(d) \o append_u32(e) \o append_u32(f))
    BY <1>1, FilledWord
  <1>3. Words5(a, b, c, d, e) \cup {setUint32(20, f)} = Words6(a, b, c, d, e, f)
    BY DEF Words5, Words6
  <1>4. QED
    BY <1>2, <1>3

\* A number, or two, and a text.
LEMMA TextMessages ==
    ASSUME NEW a \in Int, NEW b \in Int, NEW text \in Seq(Int)
    PROVE  /\ Filled(4 + Len(text), {setUint32(0, a)} \cup {<< 4, text >>}, append_u32(a) \o text)
           /\ Filled(8 + Len(text), Words2(a, b) \cup {<< 8, text >>}, append_u32(a) \o append_u32(b) \o text)
  <1>1. Filled(4 + Len(text), {setUint32(0, a)} \cup {<< 4, text >>}, append_u32(a) \o text)
    BY FilledFirst, FilledNext
  <1>2. Filled(8, Words2(a, b), append_u32(a) \o append_u32(b))
    BY Two
  <1>3. Filled(8 + Len(text), Words2(a, b) \cup {<< 8, text >>}, (append_u32(a) \o append_u32(b)) \o text)
    BY <1>2, FilledNext
  <1>4. QED
    BY <1>1, <1>3

\* Appending is associative.
LEMMA Regroup ==
    ASSUME NEW s \in Seq(Int), NEW t \in Seq(Int), NEW u \in Seq(Int)
    PROVE  (s \o t) \o u = s \o (t \o u) /\ s \o t \in Seq(Int)
  BY ConcatAssociative

\* The 24 bytes of a header.
HeaderWords(version, type, flags, length, low, high) ==
    {setUint32(0, kWireMagic), setUint16(4, version), setUint16(6, type), setUint32(8, flags),
     setUint32(12, length), setUint32(16, low), setUint32(20, high)}

HeaderBytes(version, type, flags, length, low, high) ==
    append_u32(kWireMagic) \o append_u16(version) \o append_u16(type) \o append_u32(flags)
        \o append_u32(length) \o append_u64(<< low, high >>)

LEMMA Header ==
    ASSUME NEW version \in Int, NEW type \in Int, NEW flags \in Int, NEW length \in Int, NEW low \in Int,
           NEW high \in Int
    PROVE  Filled(24, HeaderWords(version, type, flags, length, low, high),
                  HeaderBytes(version, type, flags, length, low, high))
  <1> DEFINE s1 == append_u32(kWireMagic)
             s2 == s1 \o append_u16(version)
             s3 == s2 \o append_u16(type)
             s4 == s3 \o append_u32(flags)
             s5 == s4 \o append_u32(length)
             s6 == s5 \o append_u32(low)
             s7 == s6 \o append_u32(high)
             w1 == {setUint32(0, kWireMagic)}
             w2 == w1 \cup {setUint16(4, version)}
             w3 == w2 \cup {setUint16(6, type)}
             w4 == w3 \cup {setUint32(8, flags)}
             w5 == w4 \cup {setUint32(12, length)}
             w6 == w5 \cup {setUint32(16, low)}
             w7 == w6 \cup {setUint32(20, high)}
  <1>0. kWireMagic \in Int
    BY DEF kWireMagic
  <1>1. Filled(4, w1, s1)
    BY <1>0, FilledFirst
  <1> HIDE DEF s1, w1
  <1>2. Filled(4 + 2, w2, s2)
    BY <1>1, FilledHalf
  <1> HIDE DEF s2, w2
  <1>3. Filled(6 + 2, w3, s3)
    <2>1. Filled(6, w2, s2)
      BY <1>2
    <2>2. QED
      BY <2>1, FilledHalf
  <1> HIDE DEF s3, w3
  <1>4. Filled(8 + 4, w4, s4)
    <2>1. Filled(8, w3, s3)
      BY <1>3
    <2>2. QED
      BY <2>1, FilledWord
  <1> HIDE DEF s4, w4
  <1>5. Filled(12 + 4, w5, s5)
    <2>1. Filled(12, w4, s4)
      BY <1>4
    <2>2. QED
      BY <2>1, FilledWord
  <1>8. s5 \in Seq(Int)
    BY <1>5 DEF Filled
  <1> HIDE DEF s5, w5
  <1>6. Filled(16 + 4, w6, s6)
    <2>1. Filled(16, w5, s5)
      BY <1>5
    <2>2. QED
      BY <2>1, FilledWord
  <1> HIDE DEF w6
  <1>7. Filled(20 + 4, w7, s7)
    <2>1. Filled(20, w6, s6)
      BY <1>6
    <2>2. QED
      BY <2>1, FilledWord
  <1>9. s7 = s5 \o append_u64(<< low, high >>)
    <2>1. << low, high >>[1] = low /\ << low, high >>[2] = high
      OBVIOUS
    <2>2. append_u64(<< low, high >>) = append_u32(low) \o append_u32(high)
      BY <2>1 DEF append_u64
    <2>3. append_u32(low) \in Seq(Int) /\ append_u32(high) \in Seq(Int)
      BY Word
    <2>4. s7 = (s5 \o append_u32(low)) \o append_u32(high)
      OBVIOUS
    <2>5. (s5 \o append_u32(low)) \o append_u32(high) = s5 \o (append_u32(low) \o append_u32(high))
      BY <1>8, <2>3, Regroup
    <2>6. QED
      BY <2>2, <2>4, <2>5
  <1>10. w7 = HeaderWords(version, type, flags, length, low, high)
    BY DEF w1, w2, w3, w4, w5, w6, HeaderWords
  <1>11. Filled(24, w7, s7)
    BY <1>7
  <1>12. QED
    BY <1>9, <1>10, <1>11 DEF s1, s2, s3, s4, s5, HeaderBytes

-----------------------------------------------------------------------------
(* The messages.                                                           *)

\* Both languages write the same payload of each message, for any numbers and any text.
LEMMA HelloAgrees ==
    ASSUME NEW a \in Int, NEW b \in Int, NEW c \in Int
    PROVE  /\ make_hello(a, b, c) = hello(a, b, c) /\ make_hello(a, b, c) \in Seq(Int)
           /\ Filled(12, Words3(a, b, c), make_hello(a, b, c))
  <1> DEFINE s == append_u32(a) \o append_u32(b) \o append_u32(c)
  <1>1. Filled(12, Words3(a, b, c), s)
    BY Three
  <1>2. make_hello(a, b, c) = s /\ hello(a, b, c) = ByteData(12, Words3(a, b, c))
    BY DEF make_hello, hello, Words3
  <1> HIDE DEF s
  <1>3. QED
    BY <1>1, <1>2, FilledBuffer

LEMMA PairAgrees ==
    ASSUME NEW a \in Int, NEW b \in Int
    PROVE  /\ make_capabilities(a, b) = capabilities(a, b) /\ make_capabilities(a, b) \in Seq(Int)
           /\ make_ping(<< a, b >>) = ping(<< a, b >>) /\ make_ping(<< a, b >>) \in Seq(Int)
           /\ make_pong(<< a, b >>) = ping(<< a, b >>) /\ make_pong(<< a, b >>) \in Seq(Int)
           /\ Filled(8, Words2(a, b), make_capabilities(a, b)) /\ Filled(8, Words2(a, b), make_ping(<< a, b >>))
           /\ Filled(8, Words2(a, b), make_pong(<< a, b >>))
  <1> DEFINE s == append_u32(a) \o append_u32(b)
  <1>0. << a, b >>[1] = a /\ << a, b >>[2] = b
    OBVIOUS
  <1>1. Filled(8, Words2(a, b), s)
    BY Two
  <1>2. make_capabilities(a, b) = s /\ capabilities(a, b) = ByteData(8, Words2(a, b))
    BY DEF make_capabilities, capabilities, Words2
  <1>3. make_ping(<< a, b >>) = s /\ make_pong(<< a, b >>) = s /\ ping(<< a, b >>) = ByteData(8, Words2(a, b))
    BY <1>0 DEF make_ping, make_pong, append_u64, ping, Words2
  <1> HIDE DEF s
  <1>4. QED
    BY <1>1, <1>2, <1>3, FilledBuffer

LEMMA MetadataAgrees ==
    ASSUME NEW a \in Int, NEW b \in Int, NEW c \in Int, NEW d \in Int, NEW e \in Int, NEW g \in Int
    PROVE  /\ make_frame_metadata(a, b, c, d, << e, g >>) = frameMetadata(a, b, c, d, << e, g >>)
           /\ make_frame_metadata(a, b, c, d, << e, g >>) \in Seq(Int)
           /\ Filled(24, Words6(a, b, c, d, e, g), make_frame_metadata(a, b, c, d, << e, g >>))
  <1> DEFINE s == append_u32(a) \o append_u32(b) \o append_u32(c) \o append_u32(d)
             all == (s \o append_u32(e)) \o append_u32(g)
  <1>0. << e, g >>[1] = e /\ << e, g >>[2] = g
    OBVIOUS
  <1>1. Filled(16, Words4(a, b, c, d), s)
    BY Four
  <1>2. s \in Seq(Int) /\ append_u32(e) \in Seq(Int) /\ append_u32(g) \in Seq(Int)
    BY <1>1, Word DEF Filled
  <1>3. Filled(24, Words6(a, b, c, d, e, g), all)
    BY Six
  <1>4. make_frame_metadata(a, b, c, d, << e, g >>) = s \o (append_u32(e) \o append_u32(g))
    BY <1>0 DEF make_frame_metadata, append_u64
  <1>5. frameMetadata(a, b, c, d, << e, g >>) = ByteData(24, Words6(a, b, c, d, e, g))
    BY <1>0 DEF frameMetadata, Words6
  <1> HIDE DEF s
  <1>6. all = s \o (append_u32(e) \o append_u32(g))
    BY <1>2, Regroup
  <1> HIDE DEF all
  <1>7. QED
    BY <1>3, <1>4, <1>5, <1>6, FilledBuffer

LEMMA MouseAgrees ==
    ASSUME NEW a \in Int, NEW b \in Int, NEW c \in Int, NEW d \in Int, NEW e \in Int
    PROVE  /\ make_input_mouse(a, b, c, d, e) = mouseEvent(a, b, c, d, e) /\ make_input_mouse(a, b, c, d, e) \in Seq(Int)
           /\ Filled(24, Words6(0, a, b, c, d, e), make_input_mouse(a, b, c, d, e))
  <1> DEFINE s == append_u32(0) \o append_u32(a) \o append_u32(b) \o append_u32(c) \o append_u32(d) \o append_u32(e)
  <1>0. 0 \in Int
    OBVIOUS
  <1>1. Filled(24, Words6(0, a, b, c, d, e), s)
    BY <1>0, Six
  <1>2. make_input_mouse(a, b, c, d, e) = s
    BY DEF make_input_mouse
  <1>3. mouseEvent(a, b, c, d, e) = ByteData(24, Words6(0, a, b, c, d, e))
    BY DEF mouseEvent, Words6
  <1> HIDE DEF s
  <1>4. QED
    BY <1>1, <1>2, <1>3, FilledBuffer

LEMMA KeyAgrees ==
    ASSUME NEW a \in Int, NEW b \in Int, NEW c \in Int
    PROVE  /\ make_input_key(a, b, c) = keyEvent(a, b, c) /\ make_input_key(a, b, c) \in Seq(Int)
           /\ Filled(16, Words4(1, a, b, c), make_input_key(a, b, c))
  <1> DEFINE s == append_u32(1) \o append_u32(a) \o append_u32(b) \o append_u32(c)
  <1>0. 1 \in Int
    OBVIOUS
  <1>1. Filled(16, Words4(1, a, b, c), s)
    BY <1>0, Four
  <1>2. make_input_key(a, b, c) = s
    BY DEF make_input_key
  <1>3. keyEvent(a, b, c) = ByteData(16, Words4(1, a, b, c))
    BY DEF keyEvent, Words4
  <1> HIDE DEF s
  <1>4. QED
    BY <1>1, <1>2, <1>3, FilledBuffer

LEMMA ClipboardAgrees ==
    ASSUME NEW text \in Seq(Int)
    PROVE  /\ make_clipboard(text) = clipboardText(text) /\ make_clipboard(text) \in Seq(Int)
           /\ Filled(4 + Len(text), {setUint32(0, 1), << 4, text >>}, make_clipboard(text))
  <1> DEFINE s == append_u32(1) \o text
  <1>0. 1 \in Int
    OBVIOUS
  <1>1. Filled(4 + Len(text), {setUint32(0, 1)} \cup {<< 4, text >>}, s)
    BY <1>0, TextMessages
  <1>2. {setUint32(0, 1)} \cup {<< 4, text >>} = {setUint32(0, 1), << 4, text >>}
    OBVIOUS
  <1>3. make_clipboard(text) = s
    BY DEF make_clipboard
  <1> HIDE DEF s
  <1>4. QED
    BY <1>1, <1>2, <1>3, FilledBuffer DEF clipboardText

LEMMA DisconnectAgrees ==
    ASSUME NEW a \in Int, NEW text \in Seq(Int)
    PROVE  /\ make_disconnect(a, text) = disconnect(a, text) /\ make_disconnect(a, text) \in Seq(Int)
           /\ Filled(8 + Len(text), {setUint32(0, a), setUint32(4, Len(text)), << 8, text >>}, make_disconnect(a, text))
  <1> DEFINE n == Len(text)
             s == append_u32(a) \o append_u32(n) \o text
  <1>0. n \in Int
    OBVIOUS
  <1>1. Filled(8 + n, Words2(a, n) \cup {<< 8, text >>}, s)
    BY <1>0, TextMessages
  <1>2. Words2(a, n) \cup {<< 8, text >>} = {setUint32(0, a), setUint32(4, n), << 8, text >>}
    BY DEF Words2
  <1>3. make_disconnect(a, text) = s
    BY DEF make_disconnect
  <1> HIDE DEF s
  <1>4. QED
    BY <1>1, <1>2, <1>3, FilledBuffer DEF disconnect

\* In short: a payload is the same in both languages, a negative coordinate or wheel included.
THEOREM PayloadsAgree ==
    /\ \A a, b, c \in Int : make_hello(a, b, c) = hello(a, b, c)
    /\ \A a, b \in Int : make_capabilities(a, b) = capabilities(a, b)
    /\ \A a, b, c, d, e, g \in Int :
           make_frame_metadata(a, b, c, d, << e, g >>) = frameMetadata(a, b, c, d, << e, g >>)
    /\ \A a, b \in Int : make_ping(<< a, b >>) = ping(<< a, b >>) /\ make_pong(<< a, b >>) = ping(<< a, b >>)
    /\ \A a, b, c, d, e \in Int : make_input_mouse(a, b, c, d, e) = mouseEvent(a, b, c, d, e)
    /\ \A a, b, c \in Int : make_input_key(a, b, c) = keyEvent(a, b, c)
    /\ \A text \in Seq(Int) : make_clipboard(text) = clipboardText(text)
    /\ \A a \in Int, text \in Seq(Int) : make_disconnect(a, text) = disconnect(a, text)
  <1>1. \A a, b, c \in Int : make_hello(a, b, c) = hello(a, b, c)
    BY HelloAgrees
  <1>2. \A a, b \in Int : make_capabilities(a, b) = capabilities(a, b)
    BY PairAgrees
  <1>3. \A a, b, c, d, e, g \in Int :
            make_frame_metadata(a, b, c, d, << e, g >>) = frameMetadata(a, b, c, d, << e, g >>)
    <2>1. TAKE a, b, c, d, e, g \in Int
    <2>2. QED
      BY MetadataAgrees
  <1>4. \A a, b \in Int : make_ping(<< a, b >>) = ping(<< a, b >>) /\ make_pong(<< a, b >>) = ping(<< a, b >>)
    BY PairAgrees
  <1>5. \A a, b, c, d, e \in Int : make_input_mouse(a, b, c, d, e) = mouseEvent(a, b, c, d, e)
    BY MouseAgrees
  <1>6. \A a, b, c \in Int : make_input_key(a, b, c) = keyEvent(a, b, c)
    BY KeyAgrees
  <1>7. \A text \in Seq(Int) : make_clipboard(text) = clipboardText(text)
    BY ClipboardAgrees
  <1>8. \A a \in Int, text \in Seq(Int) : make_disconnect(a, text) = disconnect(a, text)
    BY DisconnectAgrees
  <1>9. QED
    BY <1>1, <1>2, <1>3, <1>4, <1>5, <1>6, <1>7, <1>8

\* Both languages write the same packet around a payload.
THEOREM PacketsAgree ==
    ASSUME NEW version \in Int, NEW type \in Int, NEW flags \in Int, NEW payload \in Seq(Int), NEW low \in Int,
           NEW high \in Int
    PROVE  make_packet(version, type, flags, payload, << low, high >>)
               = encode(version, type, flags, payload, << low, high >>)
  <1>1. Len(payload) \in Int /\ << low, high >>[1] = low /\ << low, high >>[2] = high
    OBVIOUS
  <1>2. ByteData(24, HeaderWords(version, type, flags, Len(payload), low, high))
            = HeaderBytes(version, type, flags, Len(payload), low, high)
    BY <1>1, Header, FilledBuffer
  <1>3. encode(version, type, flags, payload, << low, high >>)
            = ByteData(24, HeaderWords(version, type, flags, Len(payload), low, high)) \o payload
    BY <1>1 DEF encode, HeaderWords
  <1>4. make_packet(version, type, flags, payload, << low, high >>)
            = HeaderBytes(version, type, flags, Len(payload), low, high) \o payload
    BY DEF make_packet, HeaderBytes
  <1>5. QED
    BY <1>2, <1>3, <1>4

-----------------------------------------------------------------------------
(* Reading.                                                                *)

\* A part of a sequence is found where it was put.
LEMMA Middle ==
    ASSUME NEW s \in Seq(Int), NEW w \in Seq(Int), NEW t \in Seq(Int)
    PROVE  \A i \in 1..Len(w) : (s \o w \o t)[Len(s) + i] = w[i]
  <1> DEFINE sw == s \o w
  <1>1. sw \in Seq(Int) /\ Len(sw) = Len(s) + Len(w) /\ Len(s) \in Nat /\ Len(w) \in Nat
    BY ConcatProperties, LenProperties
  <1>2. ASSUME NEW i \in 1..Len(w) PROVE sw[Len(s) + i] = w[i]
    OBVIOUS
  <1> HIDE DEF sw
  <1>3. \A j \in 1..Len(sw) : (sw \o t)[j] = sw[j]
    BY <1>1
  <1>4. \A i \in 1..Len(w) : Len(s) + i \in 1..Len(sw)
    BY <1>1
  <1>5. QED
    BY <1>2, <1>3, <1>4 DEF sw

\* A reader finds the two halves where they were appended, whatever is before and behind them.
LEMMA HalvesRead ==
    ASSUME NEW s \in Seq(Int), NEW v \in Int, NEW t \in Seq(Int)
    PROVE  /\ read_u16(s \o append_u32(v) \o t, Len(s)) = LowHalf(v)
           /\ read_u16(s \o append_u32(v) \o t, Len(s) + 2) = HighHalf(v)
  <1> DEFINE w == append_u32(v)
             n == Len(s)
             all == s \o w \o t
  <1>1. w \in Seq(Int) /\ Len(w) = 4 /\ n \in Nat
    BY Word
  <1>2. w[1] = Byte0(v) /\ w[2] = Byte1(v) /\ w[3] = Byte2(v) /\ w[4] = Byte3(v)
    BY WordBytes
  <1> HIDE DEF w
  <1> HIDE DEF n, all
  <1>5. \A i \in 1..4 : all[n + i] = w[i]
    <2>1. \A i \in 1..Len(w) : (s \o w \o t)[Len(s) + i] = w[i]
      BY <1>1, Middle
    <2>2. QED
      BY <1>1, <2>1 DEF all, n
  <1>6. all[n + 1] = w[1] /\ all[n + 2] = w[2] /\ all[n + 3] = w[3] /\ all[n + 4] = w[4]
    BY <1>5
  <1>7. read_u16(all, n) = all[n + 1] + 256 * all[n + 2] /\ read_u16(all, n + 2) = all[n + 3] + 256 * all[n + 4]
    <2>1. (n + 2) + 1 = n + 3 /\ (n + 2) + 2 = n + 4
      BY <1>1
    <2>2. QED
      BY <2>1 DEF read_u16
  <1>8. read_u16(all, n) = LowHalf(v) /\ read_u16(all, n + 2) = HighHalf(v)
    BY <1>2, <1>6, <1>7, Digits
  <1>9. QED
    BY <1>8 DEF all, n, w

\* read_u32 and read_i32 read what was written, at whatever offset: the former a number of 32 bits without a
\* sign, the latter one with it.
THEOREM ReadsWhatWasWritten ==
    ASSUME NEW s \in Seq(Int), NEW t \in Seq(Int)
    PROVE  /\ \A v \in Unsigned : read_u32(s \o append_u32(v) \o t, Len(s)) = v
           /\ \A v \in Signed : read_i32(s \o append_u32(v) \o t, Len(s)) = v
  <1>1. ASSUME NEW v \in Unsigned PROVE read_u32(s \o append_u32(v) \o t, Len(s)) = v
    <2>1. v \in Int /\ LowHalf(v) + 65536 * HighHalf(v) = v
      BY UnsignedValue
    <2>2. /\ read_u16(s \o append_u32(v) \o t, Len(s)) = LowHalf(v)
          /\ read_u16(s \o append_u32(v) \o t, Len(s) + 2) = HighHalf(v)
      BY <2>1, HalvesRead
    <2>3. QED
      BY <2>1, <2>2, SMT DEF read_u32
  <1>2. ASSUME NEW v \in Signed PROVE read_i32(s \o append_u32(v) \o t, Len(s)) = v
    <2>1. v \in Int /\ LowHalf(v) + 65536 * (IF HighHalf(v) < 32768 THEN HighHalf(v) ELSE HighHalf(v) - 65536) = v
      BY SignedValue
    <2>2. /\ read_u16(s \o append_u32(v) \o t, Len(s)) = LowHalf(v)
          /\ read_u16(s \o append_u32(v) \o t, Len(s) + 2) = HighHalf(v)
      BY <2>1, HalvesRead
    <2>3. QED
      BY <2>1, <2>2, SMT DEF read_i32
  <1>3. QED
    BY <1>1, <1>2

-----------------------------------------------------------------------------
(* Reading a buffer.                                                       *)

\* The bytes of a number are found at an offset of s.
HoldsWord(s, offset, v) == /\ s[offset + 1] = Byte0(v) /\ s[offset + 2] = Byte1(v)
                           /\ s[offset + 3] = Byte2(v) /\ s[offset + 4] = Byte3(v)
HoldsHalf(s, offset, v) == s[offset + 1] = Byte0(v) /\ s[offset + 2] = Byte1(v)

\* They are found in whatever begins with the same bytes.
LEMMA SameBeginning ==
    ASSUME NEW s, NEW t, NEW n \in Nat, \A i \in 1..n : t[i] = s[i], NEW offset \in Nat, NEW v
    PROVE  /\ HoldsWord(s, offset, v) /\ offset + 4 <= n => HoldsWord(t, offset, v)
           /\ HoldsHalf(s, offset, v) /\ offset + 2 <= n => HoldsHalf(t, offset, v)
  BY DEF HoldsWord, HoldsHalf

\* What the readers make of them.
LEMMA WordRead ==
    ASSUME NEW s, NEW offset \in Nat, NEW v \in Int, HoldsWord(s, offset, v)
    PROVE  /\ v \in Unsigned => read_u32(s, offset) = v
           /\ v \in Signed => read_i32(s, offset) = v
  <1>1. read_u16(s, offset) = LowHalf(v) /\ read_u16(s, offset + 2) = HighHalf(v)
    <2>1. (offset + 2) + 1 = offset + 3 /\ (offset + 2) + 2 = offset + 4
      OBVIOUS
    <2>2. QED
      BY <2>1, Digits DEF read_u16, HoldsWord
  <1>2. ASSUME v \in Unsigned PROVE read_u32(s, offset) = v
    <2>1. LowHalf(v) + 65536 * HighHalf(v) = v
      BY <1>2, UnsignedValue
    <2>2. QED
      BY <1>1, <2>1, SMT DEF read_u32
  <1>3. ASSUME v \in Signed PROVE read_i32(s, offset) = v
    <2>1. LowHalf(v) + 65536 * (IF HighHalf(v) < 32768 THEN HighHalf(v) ELSE HighHalf(v) - 65536) = v
      BY <1>3, SignedValue
    <2>2. QED
      BY <1>1, <2>1, SMT DEF read_i32
  <1>4. QED
    BY <1>2, <1>3

\* A number of 16 bits.
Short == {v \in Nat : v < 65536}

LEMMA HalfRead ==
    ASSUME NEW s, NEW offset \in Nat, NEW v \in Short, HoldsHalf(s, offset, v)
    PROVE  read_u16(s, offset) = v
  <1>1. v \in Int /\ LowHalf(v) = v
    BY SMT DEF Short, LowHalf
  <1>2. QED
    BY <1>1, Digits DEF read_u16, HoldsHalf

\* Sequences of any elements: an element, and what is appended.
LEMMA ElementOf == ASSUME NEW S, NEW s \in Seq(S), NEW i \in 1..Len(s) PROVE s[i] \in S
  OBVIOUS

LEMMA Appended ==
    ASSUME NEW S, NEW s \in Seq(S), NEW t \in Seq(S)
    PROVE  /\ s \o t \in Seq(S) /\ Len(s \o t) = Len(s) + Len(t)
           /\ \A i \in 1..Len(s) : (s \o t)[i] = s[i]
           /\ \A i \in 1..Len(t) : (s \o t)[Len(s) + i] = t[i]
  <1>1. Len(s) \in Nat /\ Len(t) \in Nat
    OBVIOUS
  <1>2. s \o t \in Seq(S) /\ Len(s \o t) = Len(s) + Len(t)
    OBVIOUS
  <1>3. \A i \in 1..Len(s) : (s \o t)[i] = s[i]
    OBVIOUS
  <1>4. ASSUME NEW i \in 1..Len(t) PROVE (s \o t)[Len(s) + i] = t[i]
    OBVIOUS
  <1>5. QED
    BY <1>2, <1>3, <1>4

Bytes == 0..255

\* What a write puts into a buffer are bytes.
LEMMA WrittenBytes ==
    ASSUME NEW v \in Int, NEW offset \in Nat
    PROVE  /\ setUint32(offset, v) = << offset, << Byte0(v), Byte1(v), Byte2(v), Byte3(v) >> >>
           /\ setUint16(offset, v) = << offset, << Byte0(v), Byte1(v) >> >>
           /\ setUint32(offset, v)[2] \in Seq(Bytes) /\ setUint16(offset, v)[2] \in Seq(Bytes)
  <1>1. Byte0(v) \in 0..255 /\ Byte1(v) \in 0..255 /\ Byte2(v) \in 0..255 /\ Byte3(v) \in 0..255
    BY SMT DEF Byte0, Byte1, Byte2, Byte3
  <1>2. /\ setUint32(offset, v) = << offset, << Byte0(v), Byte1(v), Byte2(v), Byte3(v) >> >>
        /\ setUint16(offset, v) = << offset, << Byte0(v), Byte1(v) >> >>
    BY DEF setUint32, setUint16, Byte0, Byte1, Byte2, Byte3
  <1>3. << Byte0(v), Byte1(v), Byte2(v), Byte3(v) >> \in Seq(Bytes) /\ << Byte0(v), Byte1(v) >> \in Seq(Bytes)
    BY <1>1 DEF Bytes
  <1>4. QED
    BY <1>2, <1>3

\* A filled buffer holds each number that was written into it ...
LEMMA FilledHolds ==
    ASSUME NEW n, NEW writes, NEW bytes, Filled(n, writes, bytes), NEW v \in Int, NEW offset \in Nat
    PROVE  /\ setUint32(offset, v) \in writes => HoldsWord(bytes, offset, v) /\ offset + 4 <= n
           /\ setUint16(offset, v) \in writes => HoldsHalf(bytes, offset, v) /\ offset + 2 <= n
  <1>1. ASSUME setUint32(offset, v) \in writes PROVE HoldsWord(bytes, offset, v) /\ offset + 4 <= n
    <2> DEFINE s == << Byte0(v), Byte1(v), Byte2(v), Byte3(v) >>
               w == << offset, s >>
    <2>1. w \in writes /\ w[1] = offset /\ w[2] = s /\ Len(s) = 4
      BY <1>1, WrittenBytes
    <2>2. \A i \in offset + 1..offset + 4 : i \in 1..n /\ bytes[i] = s[i - offset]
      BY <2>1 DEF Filled
    <2>3. \A j \in 1..4 : offset + j \in 1..n /\ bytes[offset + j] = s[j]
      <3>1. SUFFICES ASSUME NEW j \in 1..4 PROVE offset + j \in 1..n /\ bytes[offset + j] = s[j]
        OBVIOUS
      <3> HIDE DEF s
      <3>2. offset + j \in offset + 1..offset + 4 /\ (offset + j) - offset = j
        OBVIOUS
      <3>3. QED
        BY <2>2, <3>2
    <2>4. s[1] = Byte0(v) /\ s[2] = Byte1(v) /\ s[3] = Byte2(v) /\ s[4] = Byte3(v)
      OBVIOUS
    <2> HIDE DEF s
    <2>5. n \in Nat
      BY DEF Filled
    <2>6. QED
      BY <2>3, <2>4, <2>5 DEF HoldsWord
  <1>2. ASSUME setUint16(offset, v) \in writes PROVE HoldsHalf(bytes, offset, v) /\ offset + 2 <= n
    <2> DEFINE s == << Byte0(v), Byte1(v) >>
               w == << offset, s >>
    <2>1. w \in writes /\ w[1] = offset /\ w[2] = s /\ Len(s) = 2
      BY <1>2, WrittenBytes
    <2>2. \A i \in offset + 1..offset + 2 : i \in 1..n /\ bytes[i] = s[i - offset]
      BY <2>1 DEF Filled
    <2>3. \A j \in 1..2 : offset + j \in 1..n /\ bytes[offset + j] = s[j]
      <3>1. SUFFICES ASSUME NEW j \in 1..2 PROVE offset + j \in 1..n /\ bytes[offset + j] = s[j]
        OBVIOUS
      <3> HIDE DEF s
      <3>2. offset + j \in offset + 1..offset + 2 /\ (offset + j) - offset = j
        OBVIOUS
      <3>3. QED
        BY <2>2, <3>2
    <2>4. s[1] = Byte0(v) /\ s[2] = Byte1(v)
      OBVIOUS
    <2> HIDE DEF s
    <2>5. n \in Nat
      BY DEF Filled
    <2>6. QED
      BY <2>3, <2>4, <2>5 DEF HoldsHalf
  <1>3. QED
    BY <1>1, <1>2

\* ... and nothing but bytes, if that is what was written.
LEMMA FilledBytes ==
    ASSUME NEW n, NEW writes, NEW bytes, Filled(n, writes, bytes), \A w \in writes : w[2] \in Seq(Bytes)
    PROVE  bytes \in Seq(Bytes)
  <1>1. ASSUME NEW i \in 1..n PROVE bytes[i] \in Bytes
    <2>1. PICK w \in writes : i \in w[1] + 1..w[1] + Len(w[2])
      BY DEF Filled
    <2>2. w[1] \in Nat /\ w[2] \in Seq(Bytes) /\ bytes[i] = w[2][i - w[1]]
      BY <2>1 DEF Filled
    <2>3. i - w[1] \in 1..Len(w[2])
      <3>1. n \in Nat /\ Len(w[2]) \in Nat
        BY <2>2 DEF Filled
      <3>2. QED
        BY <2>1, <2>2, <3>1
    <2>4. ASSUME NEW t \in Seq(Bytes), NEW j, j \in 1..Len(t) PROVE t[j] \in Bytes
      BY <2>4, ElementOf
    <2>5. QED
      BY <2>2, <2>3, <2>4
  <1>2. n \in Nat /\ bytes = [i \in 1..n |-> bytes[i]]
    BY DEF Filled
  <1>3. QED
    BY <1>1, <1>2

\* What a packet holds: its header and, from byte 24, its payload.
IsPacket(p, version, type, payload) ==
    /\ p \in Seq(Bytes) /\ Len(p) = 24 + Len(payload)
    /\ HoldsWord(p, 0, kWireMagic) /\ HoldsHalf(p, 4, version) /\ HoldsHalf(p, 6, type)
    /\ HoldsWord(p, 12, Len(payload))
    /\ \A i \in 1..Len(payload) : p[24 + i] = payload[i]

LEMMA PacketFields ==
    ASSUME NEW version \in Int, NEW type \in Int, NEW flags \in Int, NEW payload \in Seq(Bytes), NEW time,
           time[1] \in Int, time[2] \in Int
    PROVE  IsPacket(make_packet(version, type, flags, payload, time), version, type, payload)
  <1> DEFINE length == Len(payload)
             p == make_packet(version, type, flags, payload, time)
             low == time[1]
             high == time[2]
             head == HeaderBytes(version, type, flags, length, low, high)
             writes == HeaderWords(version, type, flags, length, low, high)
  <1>1. length \in Nat /\ length \in Int /\ kWireMagic \in Int
    BY DEF kWireMagic
  <1>2. Filled(24, writes, head)
    BY <1>1, Header
  <1>3. p = head \o payload
    <2>1. append_u64(time) = append_u64(<< low, high >>)
      BY DEF append_u64
    <2>2. QED
      BY <2>1 DEF make_packet, HeaderBytes
  <1>4. /\ setUint32(0, kWireMagic) \in writes /\ setUint16(4, version) \in writes /\ setUint16(6, type) \in writes
        /\ setUint32(12, length) \in writes
    BY DEF HeaderWords
  <1>5. \A w \in writes : w[2] \in Seq(Bytes)
    BY <1>1, WrittenBytes DEF HeaderWords
  <1> HIDE DEF head, writes, p
  <1>6. head \in Seq(Bytes)
    BY <1>2, <1>5, FilledBytes
  <1>6a. Len(head) = 24
    BY <1>2 DEF Filled
  <1>7. /\ HoldsWord(head, 0, kWireMagic) /\ HoldsHalf(head, 4, version) /\ HoldsHalf(head, 6, type)
        /\ HoldsWord(head, 12, length)
    BY <1>1, <1>2, <1>4, FilledHolds
  <1>8. /\ p \in Seq(Bytes) /\ Len(p) = 24 + length
        /\ \A i \in 1..24 : p[i] = head[i]
        /\ \A i \in 1..length : p[24 + i] = payload[i]
    <2>1. /\ head \o payload \in Seq(Bytes) /\ Len(head \o payload) = Len(head) + Len(payload)
          /\ \A i \in 1..Len(head) : (head \o payload)[i] = head[i]
          /\ \A i \in 1..Len(payload) : (head \o payload)[Len(head) + i] = payload[i]
      BY <1>6, Appended
    <2>2. QED
      BY <1>3, <1>6, <1>6a, <2>1
  <1>9. /\ HoldsWord(p, 0, kWireMagic) /\ HoldsHalf(p, 4, version) /\ HoldsHalf(p, 6, type)
        /\ HoldsWord(p, 12, length)
    <2>1. \A i \in 1..24 : p[i] = head[i]
      BY <1>8
    <2>2. /\ p[0 + 1] = head[0 + 1] /\ p[0 + 2] = head[0 + 2] /\ p[0 + 3] = head[0 + 3] /\ p[0 + 4] = head[0 + 4]
          /\ p[4 + 1] = head[4 + 1] /\ p[4 + 2] = head[4 + 2] /\ p[6 + 1] = head[6 + 1] /\ p[6 + 2] = head[6 + 2]
          /\ p[12 + 1] = head[12 + 1] /\ p[12 + 2] = head[12 + 2] /\ p[12 + 3] = head[12 + 3] /\ p[12 + 4] = head[12 + 4]
      BY <2>1
    <2>3. QED
      BY <1>7, <2>2 DEF HoldsWord, HoldsHalf
  <1>10. QED
    BY <1>8, <1>9 DEF IsPacket, p

\* The writes of numbers put bytes, and so does the one of a text.
LEMMA WritesOfBytes ==
    ASSUME NEW n, NEW bytes,
           NEW a \in Int, NEW b \in Int, NEW c \in Int
    PROVE  /\ Filled(n, Words2(a, b), bytes) => bytes \in Seq(Bytes)
           /\ Filled(n, Words3(a, b, c), bytes) => bytes \in Seq(Bytes)
           /\ \A d \in Int : Filled(n, Words4(a, b, c, d), bytes) => bytes \in Seq(Bytes)
           /\ \A d, e, f \in Int : Filled(n, Words6(a, b, c, d, e, f), bytes) => bytes \in Seq(Bytes)
           /\ \A text \in Seq(Bytes) :
                /\ Filled(n, {setUint32(0, a), << 4, text >>}, bytes) => bytes \in Seq(Bytes)
                /\ Filled(n, {setUint32(0, a), setUint32(4, b), << 8, text >>}, bytes) => bytes \in Seq(Bytes)
  <1>1. \A v \in Int : \A o \in Nat : setUint32(o, v)[2] \in Seq(Bytes)
    BY WrittenBytes
  <1>2. 0 \in Nat /\ 4 \in Nat /\ 8 \in Nat /\ 12 \in Nat /\ 16 \in Nat /\ 20 \in Nat
    OBVIOUS
  <1>3. \A w \in Words2(a, b) : w[2] \in Seq(Bytes)
    BY <1>1, <1>2 DEF Words2
  <1>4. \A w \in Words3(a, b, c) : w[2] \in Seq(Bytes)
    BY <1>1, <1>2 DEF Words3
  <1>5. \A d \in Int : \A w \in Words4(a, b, c, d) : w[2] \in Seq(Bytes)
    BY <1>1, <1>2 DEF Words4
  <1>6. \A d, e, f \in Int : \A w \in Words6(a, b, c, d, e, f) : w[2] \in Seq(Bytes)
    BY <1>1, <1>2 DEF Words6
  <1>7. ASSUME NEW text \in Seq(Bytes)
        PROVE  /\ \A w \in {setUint32(0, a), << 4, text >>} : w[2] \in Seq(Bytes)
               /\ \A w \in {setUint32(0, a), setUint32(4, b), << 8, text >>} : w[2] \in Seq(Bytes)
    <2>1. << 4, text >>[2] \in Seq(Bytes) /\ << 8, text >>[2] \in Seq(Bytes)
      OBVIOUS
    <2>2. QED
      BY <1>1, <1>2, <2>1
  <1>8. ASSUME NEW text \in Seq(Bytes)
        PROVE  /\ Filled(n, {setUint32(0, a), << 4, text >>}, bytes) => bytes \in Seq(Bytes)
               /\ Filled(n, {setUint32(0, a), setUint32(4, b), << 8, text >>}, bytes) => bytes \in Seq(Bytes)
    BY <1>7, FilledBytes
  <1>9. QED
    BY <1>3, <1>4, <1>5, <1>6, <1>8, FilledBytes
=============================================================================
