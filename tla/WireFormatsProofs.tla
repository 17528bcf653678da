------------------------- MODULE WireFormatsProofs -------------------------
(***************************************************************************)
(* What the decoders make of what the encoders write, for every head and   *)
(* body and for whatever the checksum computes.                            *)
(***************************************************************************)
EXTENDS WireFormats, TLAPS

-----------------------------------------------------------------------------
(* Slices, numbers and the table *)

LEMMA SliceOfLast ==
  ASSUME NEW S, NEW a \in Seq(S), NEW b \in Seq(S)
  PROVE  /\ a \o b \in Seq(S) /\ Len(a \o b) = Len(a) + Len(b)
         /\ Slice(a \o b, Len(a), Len(b)) = b
         /\ SubSeq(a \o b, Len(a) + 1, Len(a \o b)) = b
<1>1. a \o b \in Seq(S) /\ Len(a \o b) = Len(a) + Len(b)
  OBVIOUS
<1>2. \A i \in 1..Len(b) : (a \o b)[Len(a) + i] = b[i]
  OBVIOUS
<1>3. SubSeq(a \o b, Len(a) + 1, Len(a) + Len(b)) = b
  BY <1>1, <1>2
<1> QED BY <1>1, <1>3 DEF Slice

LEMMA LastBytes ==
  ASSUME NEW a \in Seq(Byte), NEW b \in Seq(Byte)
  PROVE  Slice(a \o b, Len(a), Len(b)) = b
BY SliceOfLast

LEMMA SliceOfFirst ==
  ASSUME NEW S, NEW a \in Seq(S), NEW b \in Seq(S), NEW from \in Nat, NEW n \in Nat,
         from + n <= Len(a)
  PROVE  Slice(a \o b, from, n) = Slice(a, from, n)
<1>1. \A i \in 1..Len(a) : (a \o b)[i] = a[i]
  OBVIOUS
<1>2. a \o b \in Seq(S) /\ Len(a \o b) = Len(a) + Len(b)
  OBVIOUS
<1>3. SubSeq(a \o b, from + 1, from + n) = SubSeq(a, from + 1, from + n)
  BY <1>1, <1>2
<1> QED BY <1>3 DEF Slice

LEMMA SliceOfAll ==
  ASSUME NEW S, NEW a \in Seq(S)
  PROVE  Slice(a, 0, Len(a)) = a
BY DEF Slice

LEMMA TuplesAreBytes ==
  /\ \A a, b \in Byte : <<a, b>> \in Seq(Byte) /\ Len(<<a, b>>) = 2
  /\ \A a, b, c, d \in Byte : <<a, b, c, d>> \in Seq(Byte) /\ Len(<<a, b, c, d>>) = 4
OBVIOUS

LEMMA TwoBytes ==
  ASSUME NEW n \in Nat
  PROVE  /\ Number(n, 2) \in Seq(Byte) /\ Len(Number(n, 2)) = 2
         /\ n <= 65535 => Value(Number(n, 2)) = n
<1> DEFINE b1 == n % 256
           b2 == (n \div 256) % 256
<1>1. Number(n, 2) = <<b1, b2>>
  BY DEF Number
<1>2. n <= 65535 => n = b1 + 256 * b2
  OBVIOUS
<1>3. b1 \in Byte /\ b2 \in Byte
  BY DEF Byte
<1> HIDE DEF b1, b2
<1>4. <<b1, b2>> \in Seq(Byte) /\ Len(<<b1, b2>>) = 2
  BY <1>3, TuplesAreBytes
<1>5. Value(<<b1, b2>>) = b1 + 256 * b2
  BY DEF Value
<1>6. n <= 65535 => Value(Number(n, 2)) = n
  BY <1>1, <1>2, <1>5
<1>7. Number(n, 2) \in Seq(Byte)
  BY <1>1, <1>4
<1>8. Len(Number(n, 2)) = 2
  BY <1>1
<1> QED BY <1>6, <1>7, <1>8

LEMMA FourBytes ==
  ASSUME NEW n \in Nat
  PROVE  /\ Number(n, 4) \in Seq(Byte) /\ Len(Number(n, 4)) = 4
         /\ n <= NoLimit => Value(Number(n, 4)) = n
<1> DEFINE b1 == n % 256
           b2 == (n \div 256) % 256
           b3 == (n \div 65536) % 256
           b4 == (n \div 16777216) % 256
<1>1. Number(n, 4) = <<b1, b2, b3, b4>>
  BY DEF Number
<1>2. n <= NoLimit => n = b1 + 256 * b2 + 65536 * b3 + 16777216 * b4
  BY DEF NoLimit
<1>3. b1 \in Byte /\ b2 \in Byte /\ b3 \in Byte /\ b4 \in Byte
  BY DEF Byte
<1> HIDE DEF b1, b2, b3, b4
<1>4. <<b1, b2, b3, b4>> \in Seq(Byte) /\ Len(<<b1, b2, b3, b4>>) = 4
  BY <1>3, TuplesAreBytes
<1>5. Value(<<b1, b2, b3, b4>>) = b1 + 256 * b2 + 65536 * b3 + 16777216 * b4
  BY DEF Value
<1>6. n <= NoLimit => Value(Number(n, 4)) = n
  BY <1>1, <1>2, <1>5
<1> QED BY <1>1, <1>4, <1>6

LEMMA BytesAreSequences ==
  ASSUME NEW n \in Nat, NEW b \in Bytes(n)
  PROVE  b \in Seq(Byte) /\ Len(b) = n
BY DEF Bytes

LEMMA PrefixIsBytes ==
  ASSUME NEW letter \in Byte
  PROVE  /\ Magic(letter) \in Seq(Byte) /\ Len(Magic(letter)) = 4
         /\ Magic(letter) \o Version \in Seq(Byte) /\ Len(Magic(letter) \o Version) = 6
BY DEF Magic, Version, Byte

LEMMA FormatFacts ==
  ASSUME NEW f \in Formats
  PROVE  /\ f.prefix \in Seq(Byte) /\ f.head \in Nat /\ f.check \in Nat
         /\ f.width \in {2, 4} /\ f.unit \in {1, 58} /\ f.most \in Nat
         /\ f.width = 2 => f.most <= 65535
         /\ f.width = 4 => f.most <= NoLimit
         /\ f.check = IF f \in {Packet, MessageFrame, StylusBatch} THEN 4 ELSE 0
<1>1. {69, 70, 82, 83, 84} \subseteq Byte
  BY DEF Byte
<1>2. CASE f = Packet
  BY <1>1, <1>2, PrefixIsBytes DEF Packet, NoLimit
<1>3. CASE f = Sealed
  <2>1. f # Packet /\ f # MessageFrame /\ f # StylusBatch
    <3>1. f.head = 8
      BY <1>3 DEF Sealed
    <3>2. Packet.head = 19 /\ MessageFrame.head = 10 /\ StylusBatch.head = 16
      BY DEF Packet, MessageFrame, StylusBatch
    <3> QED BY <3>1, <3>2
  <2>2. f.prefix \in Seq(Byte)
    BY <1>1, <1>3, PrefixIsBytes DEF Sealed
  <2>3. /\ f.head \in Nat /\ f.check = 0 /\ f.width = 4 /\ f.unit = 1
        /\ f.most \in Nat /\ f.most <= NoLimit
    BY <1>3 DEF Sealed, NoLimit
  <2> QED BY <2>1, <2>2, <2>3
<1>4. CASE f = MessageFrame
  BY <1>1, <1>4, PrefixIsBytes DEF MessageFrame, NoLimit
<1>5. CASE f = StylusBatch
  BY <1>1, <1>5, PrefixIsBytes DEF StylusBatch, NoLimit
<1>6. CASE f = Fragment
  <2>1. f # Packet /\ f # MessageFrame /\ f # StylusBatch
    <3>1. f.head = Fragment.head /\ Fragment.head \notin {10, 16, 19}
      BY <1>6 DEF Fragment
    <3>2. Packet.head = 19 /\ MessageFrame.head = 10 /\ StylusBatch.head = 16
      BY DEF Packet, MessageFrame, StylusBatch
    <3> QED BY <3>1, <3>2
  <2> QED BY <1>1, <1>6, <2>1, PrefixIsBytes DEF Fragment, NoLimit
<1>7. CASE f = AccessUnit
  <2>1. f # Packet /\ f # MessageFrame /\ f # StylusBatch
    <3>1. f.head = AccessUnit.head /\ AccessUnit.head \notin {10, 16, 19}
      BY <1>7 DEF AccessUnit
    <3>2. Packet.head = 19 /\ MessageFrame.head = 10 /\ StylusBatch.head = 16
      BY DEF Packet, MessageFrame, StylusBatch
    <3> QED BY <3>1, <3>2
  <2> QED BY <1>7, <2>1 DEF AccessUnit, NoLimit
<1> QED BY <1>2, <1>3, <1>4, <1>5, <1>6, <1>7 DEF Formats

LEMMA CheckIsBytes ==
  ASSUME ChecksumsFit, NEW f \in Formats, NEW body \in Seq(Byte)
  PROVE  Check(f, body) \in Seq(Byte) /\ Len(Check(f, body)) = f.check
<1>1. Crc(body) \in Seq(Byte) /\ Len(Crc(body)) = 4
  BY BytesAreSequences DEF ChecksumsFit
<1>2. <<0, 0, 0, 0>> \in Seq(Byte) /\ Len(<<0, 0, 0, 0>>) = 4
  BY DEF Byte
<1>size. f.check = IF f \in {Packet, MessageFrame, StylusBatch} THEN 4 ELSE 0
  BY FormatFacts
<1>3. CASE f \in {Packet, MessageFrame}
  BY <1>1, <1>3, <1>size DEF Check
<1>4. CASE f = StylusBatch /\ f \notin {Packet, MessageFrame}
  <2>1. Check(f, body) = <<0, 0, 0, 0>> /\ f.check = 4
    BY <1>4, <1>size DEF Check
  <2> QED BY <1>2, <2>1
<1>5. CASE f \notin {Packet, MessageFrame, StylusBatch}
  BY <1>5, <1>size DEF Check
<1> QED BY <1>3, <1>4, <1>5

-----------------------------------------------------------------------------
(* The framed formats *)

Frame(p, h, n, c, b) == (((p \o h) \o n) \o c) \o b
PartsOf(whole, p, h, n, c, b) ==
  /\ whole \in Seq(Byte)
  /\ Len(whole) = Len(p) + Len(h) + Len(n) + Len(c) + Len(b)
  /\ Slice(whole, 0, Len(p)) = p
  /\ Slice(whole, Len(p), Len(h)) = h
  /\ Slice(whole, Len(p) + Len(h), Len(n)) = n
  /\ Slice(whole, Len(p) + Len(h) + Len(n), Len(c)) = c
  /\ SubSeq(whole, Len(p) + Len(h) + Len(n) + Len(c) + 1, Len(whole)) = b

\* The decoder finds every part where the encoder has put it.
LEMMA PartsOfAFrame ==
  ASSUME NEW p \in Seq(Byte), NEW h \in Seq(Byte), NEW n \in Seq(Byte), NEW c \in Seq(Byte),
         NEW b \in Seq(Byte)
  PROVE  PartsOf(Frame(p, h, n, c, b), p, h, n, c, b)
<1> DEFINE two   == p \o h
           three == two \o n
           four  == three \o c
           whole == four \o b
<1>1. two \in Seq(Byte) /\ Len(two) = Len(p) + Len(h)
  BY SliceOfLast
<1>2. three \in Seq(Byte) /\ Len(three) = Len(two) + Len(n)
  BY <1>1, SliceOfLast
<1>3. four \in Seq(Byte) /\ Len(four) = Len(three) + Len(c)
  BY <1>2, SliceOfLast
<1>4. /\ whole \in Seq(Byte) /\ Len(whole) = Len(four) + Len(b)
      /\ SubSeq(whole, Len(four) + 1, Len(whole)) = b
  BY <1>3, SliceOfLast
<1>5. Slice(p, 0, Len(p)) = p
  BY SliceOfAll
<1>6. Slice(two, Len(p), Len(h)) = h
  BY SliceOfLast
<1> HIDE DEF two, three, four, whole
<1>7. Slice(three, Len(two), Len(n)) = n
  <2>1. two \in Seq(Byte)
    BY <1>1
  <2>2. Slice(two \o n, Len(two), Len(n)) = n
    BY <2>1, LastBytes
  <2> QED BY <2>2 DEF three
<1>8. Slice(four, Len(three), Len(c)) = c
  <2>1. three \in Seq(Byte)
    BY <1>2
  <2>2. Slice(three \o c, Len(three), Len(c)) = c
    BY <2>1, LastBytes
  <2> QED BY <2>2 DEF four
<1>9. \A from, k \in Nat : from + k <= Len(four) => Slice(whole, from, k) = Slice(four, from, k)
  BY <1>3, SliceOfFirst DEF whole
<1>10. \A from, k \in Nat : from + k <= Len(three) => Slice(four, from, k) = Slice(three, from, k)
  BY <1>2, SliceOfFirst DEF four
<1>11. \A from, k \in Nat : from + k <= Len(two) => Slice(three, from, k) = Slice(two, from, k)
  BY <1>1, SliceOfFirst DEF three
<1>12. /\ Len(p) \in Nat /\ Len(h) \in Nat /\ Len(n) \in Nat /\ Len(c) \in Nat
       /\ Len(two) \in Nat /\ Len(three) \in Nat /\ Len(four) \in Nat
  BY <1>1, <1>2, <1>3
<1>13. Slice(two, 0, Len(p)) = p
  BY <1>5, <1>12, SliceOfFirst DEF two
<1>14. Slice(whole, 0, Len(p)) = p
  <2>1. Slice(three, 0, Len(p)) = Slice(two, 0, Len(p))
    BY <1>1, <1>11, <1>12
  <2>2. Slice(four, 0, Len(p)) = Slice(three, 0, Len(p))
    BY <1>1, <1>2, <1>10, <1>12
  <2>3. Slice(whole, 0, Len(p)) = Slice(four, 0, Len(p))
    BY <1>1, <1>2, <1>3, <1>9, <1>12
  <2> QED BY <1>13, <2>1, <2>2, <2>3
<1>15. Slice(whole, Len(p), Len(h)) = h
  <2>1. Slice(three, Len(p), Len(h)) = Slice(two, Len(p), Len(h))
    BY <1>1, <1>11, <1>12
  <2>2. Slice(four, Len(p), Len(h)) = Slice(three, Len(p), Len(h))
    BY <1>1, <1>2, <1>10, <1>12
  <2>3. Slice(whole, Len(p), Len(h)) = Slice(four, Len(p), Len(h))
    BY <1>1, <1>2, <1>3, <1>9, <1>12
  <2> QED BY <1>6, <2>1, <2>2, <2>3
<1>16. Slice(whole, Len(two), Len(n)) = n
  <2>1. Slice(four, Len(two), Len(n)) = Slice(three, Len(two), Len(n))
    BY <1>2, <1>10, <1>12
  <2>2. Slice(whole, Len(two), Len(n)) = Slice(four, Len(two), Len(n))
    BY <1>2, <1>3, <1>9, <1>12
  <2> QED BY <1>7, <2>1, <2>2
<1>17. Slice(whole, Len(three), Len(c)) = c
  BY <1>3, <1>8, <1>9, <1>12
<1>18. PartsOf(whole, p, h, n, c, b)
  BY <1>1, <1>2, <1>3, <1>4, <1>14, <1>15, <1>16, <1>17 DEF PartsOf
<1> QED BY <1>18 DEF whole, four, three, two, Frame

\* What an encoder has written, part by part.
LEMMA EncodedFrame ==
  ASSUME ChecksumsFit, NEW f \in Formats, NEW m \in Messages(f),
         Len(m.body) \div f.unit <= f.most
  PROVE  LET count == Len(m.body) \div f.unit IN
         /\ count \in Nat /\ count <= f.most /\ Len(m.body) = count * f.unit
         /\ Len(f.prefix) \in Nat /\ Len(m.body) \in Nat
         /\ Value(Number(count, f.width)) = count
         /\ Encode(f, m) \in Seq(Byte)
         /\ Len(Encode(f, m)) = Len(f.prefix) + f.head + f.width + f.check + Len(m.body)
         /\ Slice(Encode(f, m), 0, Len(f.prefix)) = f.prefix
         /\ Slice(Encode(f, m), Len(f.prefix), f.head) = m.head
         /\ Slice(Encode(f, m), Len(f.prefix) + f.head, f.width) = Number(count, f.width)
         /\ Slice(Encode(f, m), Len(f.prefix) + f.head + f.width, f.check) = Check(f, m.body)
         /\ SubSeq(Encode(f, m), Len(f.prefix) + f.head + f.width + f.check + 1, Len(Encode(f, m)))
              = m.body
<1> DEFINE p == f.prefix
           h == m.head
           b == m.body
           count  == Len(b) \div f.unit
           number == Number(count, f.width)
           check  == Check(f, b)
           bytes  == Frame(p, h, number, check, b)
<1>1. /\ m = [head |-> h, body |-> b]
      /\ h \in Bytes(f.head) /\ b \in Seq(Byte)
      /\ HeadOK(f, h) /\ BodyOK(f, h, b)
      /\ Kept(f, b) = b /\ Len(b) % f.unit = 0
  BY DEF Messages
<1>2. p \in Seq(Byte) /\ h \in Seq(Byte) /\ Len(h) = f.head
  BY <1>1, FormatFacts, BytesAreSequences
<1>3. count \in Nat /\ count * f.unit = Len(b) /\ count <= f.most
  BY <1>1, FormatFacts
<1>4. Encode(f, m) = bytes
  <2>1. f.most \in Nat
    BY FormatFacts
  <2>2. ~(count > f.most)
    BY <1>3, <2>1
  <2> QED BY <2>2 DEF Encode, Frame
<1>5. check \in Seq(Byte) /\ Len(check) = f.check
  BY <1>1, CheckIsBytes
<1>6. /\ f.head \in Nat /\ f.width \in Nat /\ f.check \in Nat /\ f.width \in {2, 4}
      /\ f.most \in Nat /\ f.unit \in {1, 58} /\ NoLimit \in Nat
      /\ f.width = 2 => f.most <= 65535
      /\ f.width = 4 => f.most <= NoLimit
  BY FormatFacts DEF NoLimit
<1>c. Len(b) = count * f.unit
  BY <1>3
<1> HIDE DEF count
<1>7. number \in Seq(Byte) /\ Len(number) = f.width /\ Value(number) = count
  <2>1. CASE f.width = 2
    <3>1. count <= 65535
      BY <1>3, <1>6, <2>1
    <3> QED BY <1>3, <2>1, <3>1, TwoBytes
  <2>2. CASE f.width = 4
    <3>1. count <= NoLimit
      BY <1>3, <1>6, <2>2
    <3> QED BY <1>3, <2>2, <3>1, FourBytes
  <2> QED BY <1>6, <2>1, <2>2
<1>b. b \in Seq(Byte)
  BY <1>1
<1> HIDE DEF number, check, p, h, b
<1>8. /\ bytes \in Seq(Byte)
      /\ Len(bytes) = Len(p) + f.head + f.width + f.check + Len(b)
      /\ Slice(bytes, 0, Len(p)) = p
      /\ Slice(bytes, Len(p), f.head) = h
      /\ Slice(bytes, Len(p) + f.head, f.width) = number
      /\ Slice(bytes, Len(p) + f.head + f.width, f.check) = check
      /\ SubSeq(bytes, Len(p) + f.head + f.width + f.check + 1, Len(bytes)) = b
  <2>1. PartsOf(bytes, p, h, number, check, b)
    BY <1>2, <1>5, <1>7, <1>b, PartsOfAFrame
  <2> QED BY <1>2, <1>5, <1>7, <2>1 DEF PartsOf
<1> HIDE DEF bytes
<1>9. Len(p) \in Nat /\ Len(b) \in Nat
  BY <1>2, <1>b
<1> QED BY <1>3, <1>4, <1>7, <1>8, <1>9 DEF number, check, p, h, b, count

\* A message that a format can take is what the receiver gets: encode_packet
\* and decode_packet, and the five other pairs.
THEOREM FramesRoundTrip ==
  ASSUME ChecksumsFit, NEW f \in Formats, NEW m \in Messages(f),
         Len(m.body) \div f.unit <= f.most
  PROVE  Decode(f, Encode(f, m)) = m
<1> DEFINE bytes == Encode(f, m)
           count == Len(m.body) \div f.unit
<1>1. /\ m = [head |-> m.head, body |-> m.body]
      /\ HeadOK(f, m.head) /\ BodyOK(f, m.head, m.body) /\ Kept(f, m.body) = m.body
  BY DEF Messages
<1>2. f.head \in Nat /\ f.check \in Nat /\ f.width \in Nat /\ f.unit \in Nat
  BY FormatFacts
<1>3. /\ count \in Nat /\ count <= f.most /\ Len(m.body) = count * f.unit
      /\ Len(f.prefix) \in Nat /\ Len(m.body) \in Nat
      /\ Value(Number(count, f.width)) = count
      /\ Len(bytes) = Len(f.prefix) + f.head + f.width + f.check + Len(m.body)
      /\ Slice(bytes, 0, Len(f.prefix)) = f.prefix
      /\ Slice(bytes, Len(f.prefix), f.head) = m.head
      /\ Slice(bytes, Len(f.prefix) + f.head, f.width) = Number(count, f.width)
      /\ Slice(bytes, Len(f.prefix) + f.head + f.width, f.check) = Check(f, m.body)
      /\ SubSeq(bytes, Len(f.prefix) + f.head + f.width + f.check + 1, Len(bytes)) = m.body
  BY EncodedFrame
<1> HIDE DEF bytes, count
<1>4. HeaderLen(f) = Len(f.prefix) + f.head + f.width + f.check
  BY DEF HeaderLen
<1>5. /\ HeaderLen(f) - f.check = Len(f.prefix) + f.head + f.width
      /\ HeaderLen(f) \in Nat
  <2>1. Len(f.prefix) \in Nat
    BY <1>3
  <2>2. \A w, x, y, z \in Nat : (w + x + y + z) - z = w + x + y /\ w + x + y + z \in Nat
    OBVIOUS
  <2> QED BY <1>2, <1>4, <2>1, <2>2
<1>6. Len(bytes) = HeaderLen(f) + Len(m.body)
  BY <1>3, <1>4
<1>7. Len(bytes) >= HeaderLen(f) /\ Len(bytes) = HeaderLen(f) + count * f.unit
  BY <1>3, <1>5, <1>6
<1>8. SubSeq(bytes, HeaderLen(f) + 1, Len(bytes)) = m.body
  BY <1>3, <1>4
<1>9. Slice(bytes, HeaderLen(f) - f.check, f.check) = Check(f, m.body)
  BY <1>3, <1>5
<1>10. Decode(f, bytes) = [head |-> m.head, body |-> m.body]
  BY <1>1, <1>3, <1>7, <1>8, <1>9 DEF Decode
<1> QED BY <1>1, <1>10 DEF bytes

\* What a datagram over UDP can carry at most.
LargestDatagram == 65507
TagLen == 16

\* Every packet that can be written can be sealed and still be sent in one
\* datagram: MAX_PACKET_PAYLOAD_LEN of udp.rs leaves room for both headers and
\* the tag, and MAX_CIPHERTEXT_LEN of secure.rs for the packet.
THEOREM EveryPacketCanBeSealed ==
  ASSUME ChecksumsFit, NEW m \in Messages(Packet),
         Len(m.body) \div Packet.unit <= Packet.most
  PROVE  /\ Len(Encode(Packet, m)) + TagLen <= Sealed.most
         /\ HeaderLen(Sealed) + Len(Encode(Packet, m)) + TagLen <= LargestDatagram
<1>1. /\ Packet \in Formats /\ Sealed \in Formats
      /\ Packet.head = 19 /\ Packet.width = 4 /\ Packet.check = 4
      /\ Packet.unit = 1 /\ Packet.most = 60000
      /\ Sealed.head = 8 /\ Sealed.width = 4 /\ Sealed.check = 0 /\ Sealed.most = 65536
  BY DEF Formats, Packet, Sealed
<1>2. Len(Packet.prefix) = 6 /\ Len(Sealed.prefix) = 6
  <2>1. 84 \in Byte /\ 69 \in Byte
    BY DEF Byte
  <2> QED BY <2>1, PrefixIsBytes DEF Packet, Sealed
<1>3. /\ Len(Encode(Packet, m))
           = Len(Packet.prefix) + Packet.head + Packet.width + Packet.check + Len(m.body)
      /\ Len(m.body) \in Nat
      /\ \E count \in Nat : count <= Packet.most /\ Len(m.body) = count * Packet.unit
  <2>1. PICK f \in Formats : f = Packet
    BY <1>1
  <2>2. m \in Messages(f) /\ Len(m.body) \div f.unit <= f.most
    BY <2>1
  <2>3. /\ Len(Encode(f, m)) = Len(f.prefix) + f.head + f.width + f.check + Len(m.body)
        /\ Len(m.body) \in Nat
    BY <2>2, EncodedFrame
  <2>4. \E count \in Nat : count <= f.most /\ Len(m.body) = count * f.unit
    BY <2>2, EncodedFrame
  <2> QED BY <2>1, <2>3, <2>4
<1>4. Len(m.body) <= 60000
  <2>1. PICK count \in Nat : count <= Packet.most /\ Len(m.body) = count * Packet.unit
    BY <1>3
  <2>2. count <= 60000 /\ Len(m.body) = count * 1
    BY <1>1, <2>1
  <2> QED BY <2>2
<1>5. Len(Encode(Packet, m)) = 33 + Len(m.body)
  BY <1>1, <1>2, <1>3
<1>6. HeaderLen(Sealed) = 18
  BY <1>1, <1>2 DEF HeaderLen
<1>7. (33 + Len(m.body)) + 16 <= 65536 /\ (18 + (33 + Len(m.body))) + 16 <= 65507
  BY <1>3, <1>4
<1> QED BY <1>1, <1>5, <1>6, <1>7 DEF LargestDatagram, TagLen

-----------------------------------------------------------------------------
(* The key exchange *)

LEMMA FieldIsBytes ==
  ASSUME NEW v \in Seq(Byte), Len(v) <= MaxFieldLen
  PROVE  /\ Field(v) = Number(Len(v), 2) \o v
         /\ Field(v) \in Seq(Byte) /\ Len(Field(v)) = 2 + Len(v)
<1>1. Len(v) \in Nat /\ Len(v) % 65536 = Len(v)
  BY DEF MaxFieldLen
<1>2. Number(Len(v), 2) \in Seq(Byte) /\ Len(Number(Len(v), 2)) = 2
  BY <1>1, TwoBytes
<1>3. Field(v) = Number(Len(v), 2) \o v
  BY <1>1 DEF Field
<1>4. \A x, y \in Seq(Byte) : x \o y \in Seq(Byte) /\ Len(x \o y) = Len(x) + Len(y)
  BY SliceOfLast
<1> QED BY <1>2, <1>3, <1>4

LEMMA SliceElements ==
  ASSUME NEW s \in Seq(Byte), NEW from \in Nat, NEW n \in Nat, from + n <= Len(s)
  PROVE  /\ SubSeq(s, from + 1, from + n) \in Seq(Byte)
         /\ Len(SubSeq(s, from + 1, from + n)) = n
         /\ \A i \in 1..n : SubSeq(s, from + 1, from + n)[i] = s[from + i]
<1>1. SubSeq(s, from + 1, from + n) \in Seq(Byte)
  OBVIOUS
<1>2. Len(SubSeq(s, from + 1, from + n)) = n
  OBVIOUS
<1>3. \A i \in 1..n : SubSeq(s, from + 1, from + n)[i] = s[from + i]
  OBVIOUS
<1> QED BY <1>1, <1>2, <1>3

LEMMA EqualSequences ==
  ASSUME NEW s \in Seq(Byte), NEW t \in Seq(Byte), Len(s) = Len(t),
         \A i \in 1..Len(t) : s[i] = t[i]
  PROVE  s = t
<1>1. DOMAIN s = 1..Len(t) /\ DOMAIN t = 1..Len(t)
  OBVIOUS
<1>2. s = [i \in 1..Len(t) |-> s[i]] /\ t = [i \in 1..Len(t) |-> t[i]]
  BY <1>1
<1> QED BY <1>2

\* A field is read where it stands, whatever stands behind it.
LEMMA FieldIsRead ==
  ASSUME NEW whole \in Seq(Byte), NEW at \in Nat, NEW v \in Seq(Byte), Len(v) <= MaxFieldLen,
         at + 2 + Len(v) <= Len(whole),
         Slice(whole, at, 2 + Len(v)) = Field(v)
  PROVE  FieldAt(whole, at) = [value |-> v, next |-> at + 2 + Len(v)]
<1>1. Len(v) \in Nat /\ Len(v) <= 65535
  BY DEF MaxFieldLen
<1>2. /\ Number(Len(v), 2) \in Seq(Byte) /\ Len(Number(Len(v), 2)) = 2
      /\ Value(Number(Len(v), 2)) = Len(v)
  BY <1>1, TwoBytes
<1>3. Field(v) = Number(Len(v), 2) \o v /\ Len(Field(v)) = 2 + Len(v)
  BY FieldIsBytes
<1>4. \A i \in 1..(2 + Len(v)) : whole[at + i] = Field(v)[i]
  <2>1. \A i \in 1..(2 + Len(v)) : SubSeq(whole, at + 1, at + (2 + Len(v)))[i] = whole[at + i]
    BY <1>1
  <2> QED BY <2>1 DEF Slice
<1>5. \A i \in 1..2 : Field(v)[i] = Number(Len(v), 2)[i]
  BY <1>1, <1>2, <1>3
<1>6. \A i \in 1..Len(v) : Field(v)[2 + i] = v[i]
  BY <1>1, <1>2, <1>3
<1>7. Slice(whole, at, 2) = Number(Len(v), 2)
  <2>1. \A i \in 1..2 : whole[at + i] = Number(Len(v), 2)[i]
    <3> SUFFICES ASSUME NEW i \in 1..2 PROVE whole[at + i] = Number(Len(v), 2)[i]
      OBVIOUS
    <3>1. i \in 1..(2 + Len(v))
      BY <1>1
    <3> QED BY <1>4, <1>5, <3>1
  <2>2. /\ SubSeq(whole, at + 1, at + 2) \in Seq(Byte) /\ Len(SubSeq(whole, at + 1, at + 2)) = 2
        /\ \A i \in 1..2 : SubSeq(whole, at + 1, at + 2)[i] = whole[at + i]
    <3>1. at + 2 <= Len(whole)
      BY <1>1
    <3> QED BY <3>1, SliceElements
  <2>3. SubSeq(whole, at + 1, at + 2) = Number(Len(v), 2)
    <3>1. /\ Len(SubSeq(whole, at + 1, at + 2)) = Len(Number(Len(v), 2))
          /\ \A i \in 1..Len(Number(Len(v), 2)) :
               SubSeq(whole, at + 1, at + 2)[i] = Number(Len(v), 2)[i]
      BY <1>2, <2>1, <2>2
    <3> QED BY <1>2, <2>2, <3>1, EqualSequences
  <2> QED BY <2>3 DEF Slice
<1>8. Slice(whole, at + 2, Len(v)) = v
  <2>1. \A i \in 1..Len(v) : whole[(at + 2) + i] = v[i]
    <3> SUFFICES ASSUME NEW i \in 1..Len(v) PROVE whole[(at + 2) + i] = v[i]
      OBVIOUS
    <3>1. 2 + i \in 1..(2 + Len(v)) /\ (at + 2) + i = at + (2 + i)
      BY <1>1
    <3>2. whole[at + (2 + i)] = Field(v)[2 + i]
      BY <1>4, <3>1
    <3> QED BY <1>6, <3>1, <3>2
  <2>2. at + 2 \in Nat /\ (at + 2) + Len(v) <= Len(whole)
    BY <1>1
  <2>3. /\ SubSeq(whole, (at + 2) + 1, (at + 2) + Len(v)) \in Seq(Byte)
        /\ Len(SubSeq(whole, (at + 2) + 1, (at + 2) + Len(v))) = Len(v)
        /\ \A i \in 1..Len(v) :
             SubSeq(whole, (at + 2) + 1, (at + 2) + Len(v))[i] = whole[(at + 2) + i]
    BY <1>1, <2>2, SliceElements
  <2>4. SubSeq(whole, (at + 2) + 1, (at + 2) + Len(v)) = v
    BY <2>1, <2>3, EqualSequences
  <2> QED BY <2>4 DEF Slice
<1>9. Len(whole) - at >= 2 /\ Len(whole) - (at + 2) >= Len(v)
  BY <1>1
<1>10. Value(Slice(whole, at, 2)) = Len(v)
  BY <1>2, <1>7
<1>11. Slice(whole, at + 2, Value(Slice(whole, at, 2))) = v
  BY <1>8, <1>10
<1> QED BY <1>1, <1>9, <1>10, <1>11 DEF FieldAt

Extends(x, a, b) ==
  /\ x \in Seq(Byte) /\ Len(x) = Len(a) + Len(b) /\ Len(a) \in Nat /\ Len(b) \in Nat
  /\ Slice(x, Len(a), Len(b)) = b
  /\ \A from, k \in Nat : from + k <= Len(a) => Slice(x, from, k) = Slice(a, from, k)

LEMMA AppendedBytes ==
  ASSUME NEW a \in Seq(Byte), NEW b \in Seq(Byte)
  PROVE  Extends(a \o b, a, b)
<1>1. /\ a \o b \in Seq(Byte) /\ Len(a \o b) = Len(a) + Len(b)
      /\ Slice(a \o b, Len(a), Len(b)) = b
  BY SliceOfLast
<1>2. \A from, k \in Nat : from + k <= Len(a) => Slice(a \o b, from, k) = Slice(a, from, k)
  BY SliceOfFirst
<1>3. Len(a) \in Nat /\ Len(b) \in Nat
  OBVIOUS
<1> QED BY <1>1, <1>2, <1>3 DEF Extends

\* The session and the keys that one side has put into a message of the key
\* exchange are those the other side reads: encode and decode of
\* session_wire.rs, for every value that validate_field lets through.
THEOREM HandshakesRoundTrip ==
  ASSUME NEW t \in Handshakes, NEW m \in HandshakeMessages(t),
         Len(m.first) <= MaxFieldLen, Len(m.second) <= MaxFieldLen, Len(m.third) <= MaxFieldLen
  PROVE  DecodeHandshake(t, EncodeHandshake(t, m)) = m
<1> DEFINE header == HandshakeHeader(t)
           f1 == Field(m.first)
           f2 == Field(m.second)
           f3 == Field(m.third)
           a1 == header \o m.fixed
           a2 == a1 \o f1
           a3 == a2 \o f2
           a4 == a3 \o f3
<1>1. /\ m.fixed \in Bytes(t.fixed)
      /\ m.first \in Seq(Byte) /\ m.second \in Seq(Byte) /\ m.third \in Seq(Byte)
      /\ t = ClientConfirm => IsText(m.first)
      /\ m = [fixed |-> m.fixed, first |-> m.first, second |-> m.second, third |-> m.third]
  BY DEF HandshakeMessages
<1>2. t.fixed \in Nat /\ t.type \in Byte
  BY DEF Handshakes, ServerExchange, ClientConfirm, Byte
<1>3. header \in Seq(Byte) /\ Len(header) = 8
  <2>1. 72 \in Byte /\ 0 \in Byte
    BY DEF Byte
  <2>2. Magic(72) \o Version \in Seq(Byte) /\ Len(Magic(72) \o Version) = 6
    BY <2>1, PrefixIsBytes
  <2>3. <<t.type, 0>> \in Seq(Byte) /\ Len(<<t.type, 0>>) = 2
    BY <1>2, <2>1, TuplesAreBytes
  <2>4. \A x, y \in Seq(Byte) : x \o y \in Seq(Byte) /\ Len(x \o y) = Len(x) + Len(y)
    BY SliceOfLast
  <2> QED BY <2>2, <2>3, <2>4 DEF HandshakeHeader
<1>4. m.fixed \in Seq(Byte) /\ Len(m.fixed) = t.fixed
  BY <1>1, <1>2, BytesAreSequences
<1>5. /\ f1 \in Seq(Byte) /\ Len(f1) = 2 + Len(m.first)
      /\ f2 \in Seq(Byte) /\ Len(f2) = 2 + Len(m.second)
      /\ f3 \in Seq(Byte) /\ Len(f3) = 2 + Len(m.third)
  BY <1>1, FieldIsBytes
<1>6. EncodeHandshake(t, m) = a4
  <2>1. ~\E value \in {m.first, m.second, m.third} : Len(value) > MaxFieldLen
    <3>1. Len(m.first) \in Nat /\ Len(m.second) \in Nat /\ Len(m.third) \in Nat
      BY <1>1
    <3>2. MaxFieldLen \in Nat
      BY DEF MaxFieldLen
    <3> QED BY <3>1, <3>2
  <2> QED BY <2>1 DEF EncodeHandshake
<1> DEFINE k1 == Len(m.first)
           k2 == Len(m.second)
           k3 == Len(m.third)
<1>7. k1 \in Nat /\ k2 \in Nat /\ k3 \in Nat
  BY <1>1
<1>8. Len(f1) = 2 + k1 /\ Len(f2) = 2 + k2 /\ Len(f3) = 2 + k3
  BY <1>5
<1> HIDE DEF header, f1, f2, f3, k1, k2, k3
<1>9. Extends(a1, header, m.fixed) /\ a1 \in Seq(Byte)
  <2>1. Extends(header \o m.fixed, header, m.fixed)
    BY <1>3, <1>4, AppendedBytes
  <2>2. a1 = header \o m.fixed
    BY DEF a1
  <2>3. Extends(a1, header, m.fixed)
    BY <2>1, <2>2
  <2> QED BY <2>3 DEF Extends
<1> HIDE DEF a1
<1>10. Extends(a2, a1, f1) /\ a2 \in Seq(Byte)
  <2>1. Extends(a1 \o f1, a1, f1)
    BY <1>5, <1>9, AppendedBytes
  <2>2. a2 = a1 \o f1
    BY DEF a2
  <2>3. Extends(a2, a1, f1)
    BY <2>1, <2>2
  <2> QED BY <2>3 DEF Extends
<1> HIDE DEF a2
<1>11. Extends(a3, a2, f2) /\ a3 \in Seq(Byte)
  <2>1. Extends(a2 \o f2, a2, f2)
    BY <1>5, <1>10, AppendedBytes
  <2>2. a3 = a2 \o f2
    BY DEF a3
  <2>3. Extends(a3, a2, f2)
    BY <2>1, <2>2
  <2> QED BY <2>3 DEF Extends
<1> HIDE DEF a3
<1>12. Extends(a4, a3, f3) /\ a4 \in Seq(Byte)
  <2>1. Extends(a3 \o f3, a3, f3)
    BY <1>5, <1>11, AppendedBytes
  <2>2. a4 = a3 \o f3
    BY DEF a4
  <2>3. Extends(a4, a3, f3)
    BY <2>1, <2>2
  <2> QED BY <2>3 DEF Extends
<1> HIDE DEF a4
<1>len. Len(a1) = 8 + t.fixed
  BY <1>3, <1>4, <1>9 DEF Extends
<1>13. /\ Len(a2) = Len(a1) + (2 + k1)
       /\ Len(a3) = Len(a2) + (2 + k2) /\ Len(a4) = Len(a3) + (2 + k3)
       /\ Len(a1) \in Nat /\ Len(a2) \in Nat /\ Len(a3) \in Nat /\ Len(a4) \in Nat
  BY <1>3, <1>4, <1>8, <1>9, <1>10, <1>11, <1>12 DEF Extends
<1>14. Len(a1) <= Len(a2) /\ Len(a2) <= Len(a3) /\ Len(a3) <= Len(a4)
  BY <1>7, <1>13
<1>15. \A from, k \in Nat : from + k <= Len(a3) => Slice(a4, from, k) = Slice(a3, from, k)
  BY <1>12 DEF Extends
<1>16. \A from, k \in Nat : from + k <= Len(a2) => Slice(a4, from, k) = Slice(a2, from, k)
  <2>1. \A from, k \in Nat : from + k <= Len(a2) => Slice(a3, from, k) = Slice(a2, from, k)
    BY <1>11 DEF Extends
  <2> QED BY <1>13, <1>14, <1>15, <2>1
<1>17. \A from, k \in Nat : from + k <= Len(a1) => Slice(a4, from, k) = Slice(a1, from, k)
  <2>1. \A from, k \in Nat : from + k <= Len(a1) => Slice(a2, from, k) = Slice(a1, from, k)
    BY <1>10 DEF Extends
  <2> QED BY <1>13, <1>14, <1>16, <2>1
<1>18. Slice(a1, 8, t.fixed) = m.fixed /\ Slice(a1, 0, 7) = Slice(header, 0, 7)
  BY <1>3, <1>4, <1>9 DEF Extends
<1>19. Slice(a4, 8, t.fixed) = m.fixed
  <2>1. 8 \in Nat /\ 8 + t.fixed <= Len(a1)
    BY <1>2, <1>len
  <2> QED BY <1>2, <1>17, <1>18, <2>1
<1>20. Slice(a4, 0, 7) = Slice(header, 0, 7)
  <2>1. 0 + 7 <= Len(a1)
    BY <1>2, <1>len
  <2> QED BY <1>17, <1>18, <2>1
<1>21. /\ Len(a1) + 2 + k1 = Len(a2) /\ Len(a2) <= Len(a4)
       /\ Len(a2) + 2 + k2 = Len(a3) /\ Len(a3) <= Len(a4)
       /\ Len(a3) + 2 + k3 = Len(a4) /\ Len(a4) <= Len(a4)
       /\ 2 + k1 \in Nat /\ 2 + k2 \in Nat /\ 2 + k3 \in Nat
  BY <1>7, <1>13, <1>14
<1>22. Slice(a4, Len(a1), 2 + k1) = f1
  <2>1. Slice(a2, Len(a1), 2 + k1) = f1
    BY <1>8, <1>10 DEF Extends
  <2>2. Len(a1) \in Nat /\ 2 + k1 \in Nat /\ Len(a1) + (2 + k1) <= Len(a2)
    BY <1>7, <1>13
  <2> QED BY <1>16, <2>1, <2>2
<1>23. Slice(a4, Len(a2), 2 + k2) = f2
  <2>1. Slice(a3, Len(a2), 2 + k2) = f2
    BY <1>8, <1>11 DEF Extends
  <2>2. Len(a2) \in Nat /\ 2 + k2 \in Nat /\ Len(a2) + (2 + k2) <= Len(a3)
    BY <1>7, <1>13
  <2> QED BY <1>15, <2>1, <2>2
<1>24. Slice(a4, Len(a3), 2 + k3) = f3
  BY <1>8, <1>12 DEF Extends
<1>25. FieldAt(a4, Len(a1)) = [value |-> m.first, next |-> Len(a2)]
  <2>1. Len(a1) + 2 + Len(m.first) <= Len(a4)
    BY <1>21 DEF k1
  <2>2. Slice(a4, Len(a1), 2 + Len(m.first)) = Field(m.first)
    BY <1>22 DEF f1, k1
  <2>3. a4 \in Seq(Byte) /\ Len(a1) \in Nat /\ m.first \in Seq(Byte)
    BY <1>1, <1>12, <1>13
  <2>4. FieldAt(a4, Len(a1)) = [value |-> m.first, next |-> Len(a1) + 2 + Len(m.first)]
    BY <2>1, <2>2, <2>3, FieldIsRead
  <2> QED BY <1>21, <2>4 DEF k1
<1>26. FieldAt(a4, Len(a2)) = [value |-> m.second, next |-> Len(a3)]
  <2>1. Len(a2) + 2 + Len(m.second) <= Len(a4)
    BY <1>21 DEF k2
  <2>2. Slice(a4, Len(a2), 2 + Len(m.second)) = Field(m.second)
    BY <1>23 DEF f2, k2
  <2>3. a4 \in Seq(Byte) /\ Len(a2) \in Nat /\ m.second \in Seq(Byte)
    BY <1>1, <1>12, <1>13
  <2>4. FieldAt(a4, Len(a2)) = [value |-> m.second, next |-> Len(a2) + 2 + Len(m.second)]
    BY <2>1, <2>2, <2>3, FieldIsRead
  <2> QED BY <1>21, <2>4 DEF k2
<1>27. FieldAt(a4, Len(a3)) = [value |-> m.third, next |-> Len(a4)]
  <2>1. Len(a3) + 2 + Len(m.third) <= Len(a4)
    BY <1>21 DEF k3
  <2>2. Slice(a4, Len(a3), 2 + Len(m.third)) = Field(m.third)
    BY <1>24 DEF f3, k3
  <2>3. a4 \in Seq(Byte) /\ Len(a3) \in Nat /\ m.third \in Seq(Byte)
    BY <1>1, <1>12, <1>13
  <2>4. FieldAt(a4, Len(a3)) = [value |-> m.third, next |-> Len(a3) + 2 + Len(m.third)]
    BY <2>1, <2>2, <2>3, FieldIsRead
  <2> QED BY <1>21, <2>4 DEF k3
<1>28. \A v, n : [value |-> v, next |-> n] # Refused
  BY DEF Refused
<1>29. Len(a4) >= 8 + t.fixed
  BY <1>2, <1>13, <1>14, <1>len
<1> QED
  BY <1>1, <1>6, <1>19, <1>20, <1>25, <1>26, <1>27, <1>28, <1>29, <1>len
  DEF DecodeHandshake, header
=============================================================================
