---------------------------- MODULE AccessUnits ----------------------------
(***************************************************************************)
(* The access units a driver hands out (encoder/media_foundation.rs):      *)
(* units with their lengths before them are rewritten to units with start  *)
(* codes before them (Annex B), and an access unit with an IDR unit in it  *)
(* is labelled as a key frame.  Pure functions on sequences of bytes.      *)
(***************************************************************************)
EXTENDS Integers, Sequences, SequencesExt

StartCode == <<0, 0, 0, 1>>
ShortStartCode == <<0, 0, 1>>

\* starts_with at an offset from 0.
StartsAt(payload, offset, code) == SubSeq(payload, offset + 1, offset + Len(code)) = code

LooksLikeAnnexB(payload) ==
  StartsAt(payload, 0, ShortStartCode) \/ StartsAt(payload, 0, StartCode)

\* u32::from_be_bytes
Length(payload, offset) ==
  16777216 * payload[offset + 1] + 65536 * payload[offset + 2]
    + 256 * payload[offset + 3] + payload[offset + 4]

\* The loop of normalize_h264_access_unit: what it makes of the payload from an
\* offset on, as a set that is empty if it gives up.
Rewritten(payload) ==
  LET From[offset \in 0..Len(payload)] ==
        IF offset + 4 > Len(payload) THEN {<<>> : o \in {offset} \cap {Len(payload)}}
        ELSE LET length == Length(payload, offset)
                 next == offset + 4 + length
             IN IF length = 0 \/ next > Len(payload) THEN {}
                ELSE {StartCode \o SubSeq(payload, offset + 5, next) \o rest : rest \in From[next]}
  IN From[0]

Normalized(payload) ==
  IF LooksLikeAnnexB(payload) \/ payload = <<>> \/ Rewritten(payload) = {} THEN payload
  ELSE CHOOSE rewritten \in Rewritten(payload) : TRUE

\* annex_b_contains_idr: the type of a unit is in the low bits of its first byte.
ContainsIdr(payload) ==
  LET Code(index) == IF StartsAt(payload, index, StartCode) THEN 4
                     ELSE IF StartsAt(payload, index, ShortStartCode) THEN 3 ELSE 0
      From[index \in 0..(Len(payload) + 4)] ==
        /\ index + 4 < Len(payload)
        /\ LET code == Code(index) IN
           IF code = 0 THEN From[index + 1]
           ELSE payload[index + code + 1] % 32 = 5 \/ From[index + code + 1]
  IN From[0]

-----------------------------------------------------------------------------
(* What they promise, for units as an encoder makes them: not empty, and     *)
(* without a start code inside.                                              *)

IsUnit(bytes) ==
  bytes # <<>> /\ \A i \in 0..(Len(bytes) - 3) :
                    ~StartsAt(bytes, i, ShortStartCode) /\ ~StartsAt(bytes, i, <<0, 0, 0>>)

BigEndian(n) == <<n \div 16777216, (n \div 65536) % 256, (n \div 256) % 256, n % 256>>
WithLengths(units) == FlattenSeq([i \in DOMAIN units |-> BigEndian(Len(units[i])) \o units[i]])
WithStartCodes(units) == FlattenSeq([i \in DOMAIN units |-> StartCode \o units[i]])
HasIdr(units) == \E i \in DOMAIN units : units[i][1] % 32 = 5

\* A first length of 1, or of 256 to 511, reads as a start code.
LooksLikeACode(length) == length = 1 \/ length \in 256..511

\* Units with lengths get start codes, and those that have them keep them; the
\* label says whether an IDR unit is in it.  Where the first length reads as a
\* start code the units are passed on as they are.
NormalizesUnits(units) ==
  /\ Normalized(WithLengths(units)) =
       IF LooksLikeACode(Len(units[1])) THEN WithLengths(units) ELSE WithStartCodes(units)
  /\ Normalized(WithStartCodes(units)) = WithStartCodes(units)
  /\ ContainsIdr(WithStartCodes(units)) = HasIdr(units)
=============================================================================
