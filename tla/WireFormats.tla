---------------------------- MODULE WireFormats ----------------------------
(***************************************************************************)
(* How packets, messages and parts of video are laid out in bytes: the six *)
(* framed formats of the workspace (transport/udp.rs, secure.rs,           *)
(* fragment.rs, video.rs, protocol/lib.rs, stylus_wire.rs) and the two     *)
(* messages of the key exchange (session_wire.rs).  Pure operators.        *)
(*                                                                         *)
(* The framed formats differ in numbers only and are rows of one table: a  *)
(* fixed prefix, a head of fixed length, a count, a check, and the body it *)
(* counts.  What a head says besides what a decoder looks at, sequence     *)
(* numbers and times, is not taken apart, and one error is as good as      *)
(* another.                                                                *)
(***************************************************************************)
EXTENDS Integers, Sequences

CONSTANTS
  Crc(_),      \* crc32fast::hash
  KindOf(_),   \* the kind of the message a body holds (bincode); 0 for none
  IsText(_)    \* String::from_utf8

Byte == 0..255
Bytes(n) == [1..n -> Byte]
Refused == [refused |-> TRUE]

\* What is used of the checksum: its width.
ChecksumsFit == \A body \in Seq(Byte) : Crc(body) \in Bytes(4)

\* to_le_bytes and from_le_bytes, of two and of four bytes.
Number(n, width) ==
  IF width = 2 THEN <<n % 256, (n \div 256) % 256>>
  ELSE <<n % 256, (n \div 256) % 256, (n \div 65536) % 256, (n \div 16777216) % 256>>
Value(b) ==
  IF Len(b) = 2 THEN b[1] + 256 * b[2]
  ELSE b[1] + 256 * b[2] + 65536 * b[3] + 16777216 * b[4]

Slice(bytes, from, n) == SubSeq(bytes, from + 1, from + n)

-----------------------------------------------------------------------------
(* The framed formats.  `unit` is the size of what is counted; the largest   *)
(* count of a format without a limit of its own is that of a length in TLC.  *)

Magic(letter) == <<71, 76, 89, letter>>
Version == <<1, 0>>
NoLimit == 2147483647

Packet ==
  [prefix |-> Magic(84) \o Version, head |-> 19, width |-> 4, check |-> 4,
   unit |-> 1, most |-> 60000]
Sealed ==
  [prefix |-> Magic(69) \o Version, head |-> 8, width |-> 4, check |-> 0,
   unit |-> 1, most |-> 65536]
MessageFrame ==
  [prefix |-> Magic(82) \o Version, head |-> 10, width |-> 4, check |-> 4,
   unit |-> 1, most |-> 16777216]
StylusBatch ==
  [prefix |-> Magic(83) \o Version, head |-> 16, width |-> 2, check |-> 4,
   unit |-> 58, most |-> 65535]
Fragment ==
  [prefix |-> Magic(70), head |-> 12, width |-> 4, check |-> 0,
   unit |-> 1, most |-> NoLimit]
AccessUnit ==
  [prefix |-> <<>>, head |-> 18, width |-> 4, check |-> 0,
   unit |-> 1, most |-> NoLimit]

Formats == {Packet, Sealed, MessageFrame, StylusBatch, Fragment, AccessUnit}

\* channel_from_u8, MessageKind::try_from, codec_from_u8 and the checks that
\* stand between them.
MessageKinds == 1..23
HeadOK(f, h) ==
  CASE f = Packet -> h[1] \in 1..4 /\ Value(<<h[2], h[3]>>) \in MessageKinds
    [] f = MessageFrame -> Value(<<h[1], h[2]>>) \in MessageKinds
    [] f = Fragment -> Value(<<h[9], h[10]>>) < Value(<<h[11], h[12]>>)
    [] f = AccessUnit -> h[1] \in 1..3 /\ h[2] \in {0, 1}
    [] OTHER -> TRUE

\* A message is of the kind its header says; of a stylus sample the tool and
\* the action, at 24 and 25, are looked at.
BodyOK(f, h, body) ==
  CASE f = MessageFrame -> KindOf(body) = Value(<<h[1], h[2]>>)
    [] f = StylusBatch ->
         \A i \in DOMAIN body : /\ i % 58 = 25 => body[i] \in 0..4
                                /\ i % 58 = 26 => body[i] \in 0..6
    [] OTHER -> TRUE

\* Of the flags of a stylus sample, at 54, three bits are kept, and of the
\* three bytes after them none.
Kept(f, body) ==
  IF f = StylusBatch
  THEN [i \in DOMAIN body |-> CASE i % 58 = 55 -> body[i] % 8
                                [] i % 58 \in {0, 56, 57} -> 0
                                [] OTHER -> body[i]]
  ELSE body

\* A checksum of the body, or what stands in its place.
Check(f, body) ==
  IF f \in {Packet, MessageFrame} THEN Crc(body)
  ELSE IF f = StylusBatch THEN <<0, 0, 0, 0>> ELSE <<>>

\* What can be given to an encoder.
Messages(f) ==
  {m \in [head: Bytes(f.head), body: Seq(Byte)] :
     /\ HeadOK(f, m.head) /\ BodyOK(f, m.head, m.body)
     /\ Kept(f, m.body) = m.body /\ Len(m.body) % f.unit = 0}

Encode(f, m) ==
  IF Len(m.body) \div f.unit > f.most THEN Refused
  ELSE f.prefix \o m.head \o Number(Len(m.body) \div f.unit, f.width)
         \o Check(f, m.body) \o m.body

HeaderLen(f) == Len(f.prefix) + f.head + f.width + f.check

Decode(f, bytes) ==
  LET head  == Slice(bytes, Len(f.prefix), f.head)
      count == Value(Slice(bytes, Len(f.prefix) + f.head, f.width))
      check == Slice(bytes, HeaderLen(f) - f.check, f.check)
      body  == SubSeq(bytes, HeaderLen(f) + 1, Len(bytes))
  IN IF /\ Len(bytes) >= HeaderLen(f)
        /\ Slice(bytes, 0, Len(f.prefix)) = f.prefix
        /\ HeadOK(f, head)
        /\ count <= f.most
        /\ Len(bytes) = HeaderLen(f) + count * f.unit
        /\ f # StylusBatch => check = Check(f, body)
        /\ BodyOK(f, head, body)
     THEN [head |-> head, body |-> Kept(f, body)]
     ELSE Refused

\* UdpServer::poll_recv_datagram: the magic tells which of the two it is.
Received(bytes) ==
  IF Slice(bytes, 0, 4) = Magic(69)
  THEN [sealed |-> TRUE, packet |-> Decode(Sealed, bytes)]
  ELSE [sealed |-> FALSE, packet |-> Decode(Packet, bytes)]

-----------------------------------------------------------------------------
(* The key exchange: a fixed part (the session and, from the server, expiry  *)
(* and salt) and three fields with their lengths, read by a cursor.          *)

MaxFieldLen == 4096
ServerExchange == [type |-> 1, fixed |-> 56]  \* keys of the session and the host, signature
ClientConfirm == [type |-> 2, fixed |-> 16]   \* id of the device, key of the session, signature
Handshakes == {ServerExchange, ClientConfirm}

HandshakeHeader(t) == Magic(72) \o Version \o <<t.type, 0>>

\* put_bytes; the length is cast to 16 bits.
Field(value) == Number(Len(value) % 65536, 2) \o value

HandshakeMessages(t) ==
  {m \in [fixed: Bytes(t.fixed), first: Seq(Byte), second: Seq(Byte), third: Seq(Byte)] :
     t = ClientConfirm => IsText(m.first)}

EncodeHandshake(t, m) ==
  IF \E value \in {m.first, m.second, m.third} : Len(value) > MaxFieldLen THEN Refused
  ELSE HandshakeHeader(t) \o m.fixed \o Field(m.first) \o Field(m.second) \o Field(m.third)

\* take_bytes: the value at a cursor and the cursor after it, or Refused.
FieldAt(bytes, cursor) ==
  LET length == Value(Slice(bytes, cursor, 2))
  IN IF /\ Len(bytes) - cursor >= 2
        /\ length <= MaxFieldLen /\ Len(bytes) - (cursor + 2) >= length
     THEN [value |-> Slice(bytes, cursor + 2, length), next |-> cursor + 2 + length]
     ELSE Refused

\* The reserved byte of the header is not looked at.
DecodeHandshake(t, bytes) ==
  LET body   == 8 + t.fixed
      first  == FieldAt(bytes, body)
      second == FieldAt(bytes, first.next)
      third  == FieldAt(bytes, second.next)
  IN IF /\ Len(bytes) >= body
        /\ Slice(bytes, 0, 7) = Slice(HandshakeHeader(t), 0, 7)
        /\ first # Refused /\ second # Refused /\ third # Refused
        /\ third.next = Len(bytes)
        /\ t = ClientConfirm => IsText(first.value)
     THEN [fixed |-> Slice(bytes, 8, t.fixed), first |-> first.value,
           second |-> second.value, third |-> third.value]
     ELSE Refused

\* What is signed: the domain stands before it, and from the client the hash
\* of what the server has signed.  The server's signature covers the key of
\* the session, the client's its id and its key.
ServerSigned(domain, m) == domain \o m.fixed \o Field(m.first)
ClientSigned(domain, hash, m) == domain \o hash \o m.fixed \o Field(m.first) \o Field(m.second)
=============================================================================
