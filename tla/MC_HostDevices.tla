--------------------------- MODULE MC_HostDevices ---------------------------
(* Parts of the Windows host that share nothing but its thread: no action  *)
(* of one reads or writes a variable of another.  Their states are         *)
(* explored side by side and not as a product; `part` is the one that      *)
(* moves.  The assumptions try out the pure functions of the host.         *)
EXTENDS VideoPipeline, InputPath, PendingAdmission, DisplayGeometry, FlushSchedule,
        AccessUnits, TLC

VARIABLE part
devices == <<part, pipeline, inputVars, admission, geometry, scheduleVars>>

\* No injector knows of another: all bridges that can exist do, or none.
AllOrNone == bridges \in {{}, CanOpen \ Disabled}

\* A bound: the clock moves or the operator changes a permission, not both.
\* The clocks of the two executors are apart by Slept without it.
OneChange == clock' + toggles' <= 1

\* A part that does not move needs only one state.
InputStart == InputInit /\ bridges = {}
PipelineStart ==
  /\ PipelineInit
  /\ override = NoConfig /\ pump = NoPump
  /\ outputs[1].size = CHOOSE size \in Sizes : TRUE
GeometryStart == GeometryInit /\ desktop = <<CHOOSE d \in Displays(1) : TRUE>>

DevicesInit ==
  /\ FlushInit
  /\ \/ part = "video" /\ PipelineInit /\ InputStart /\ AdmissionInit /\ GeometryStart
     \/ part = "input" /\ PipelineStart /\ InputInit /\ AllOrNone /\ AdmissionInit /\ GeometryStart
     \/ part \in {"admission", "queues"}
        /\ PipelineStart /\ InputStart /\ AdmissionInit /\ GeometryStart
     \/ part = "geometry" /\ PipelineStart /\ InputStart /\ AdmissionInit /\ GeometryInit

DevicesNext ==
  \/ part = "video" /\ PipelineNext /\ UNCHANGED <<part, inputVars, admission, geometry, scheduleVars>>
  \/ part = "input" /\ InputNext /\ OneChange
     /\ UNCHANGED <<part, pipeline, admission, geometry, scheduleVars>>
  \/ part = "admission" /\ AdmissionNext
     /\ UNCHANGED <<part, pipeline, inputVars, geometry, scheduleVars>>
  \/ part = "geometry" /\ GeometryNext
     /\ UNCHANGED <<part, pipeline, inputVars, admission, scheduleVars>>
  \/ part = "queues" /\ FlushNext /\ UNCHANGED <<part, pipeline, inputVars, admission, geometry>>

DevicesSpec == DevicesInit /\ [][DevicesNext]_devices

Symmetry == Permutations(Peers) \cup Permutations(Monitors)
TwoConfigs == {[display |-> d, codec |-> "H264"] : d \in {1, 2}}
SomeDrivers == {[vendor |-> "Intel", async |-> TRUE], [vendor |-> "Amd", async |-> FALSE]}
OnePanel == {[width |-> 4, height |-> 2]}
\* A view as large as the display, a larger and a smaller one.
SomeViews == OnePanel \cup {[width |-> 6, height |-> 3], [width |-> 3, height |-> 1]}

-----------------------------------------------------------------------------
(* Access units *)

Units ==
  {u \in UNION {[1..n -> {0, 1, 65, 101}] : n \in 1..3} : IsUnit(u) /\ u[1] \in {65, 101}}
LongUnit(n) == [i \in 1..n |-> IF i = 1 THEN 101 ELSE 7]

ASSUME AccessUnitsAreNormalized ==
  /\ \A n \in 1..2 : \A units \in [1..n -> Units] : NormalizesUnits(units)
  /\ \A n \in {255, 256, 511, 512} : NormalizesUnits(<<LongUnit(n), LongUnit(2)>>)

-----------------------------------------------------------------------------
(* Formats: messages with good and bad heads, with bodies of up to two       *)
(* units; and any of them cut short, followed by a byte, or with a byte of   *)
(* the body changed where there is a checksum.                               *)

Sum(body) == <<FoldSeq(LAMBDA x, y : (x + y) % 256, 0, body), Len(body) % 256, 0, 0>>
FirstByte(body) == IF body = <<>> THEN 0 ELSE body[1]
NoNull(bytes) == \A i \in DOMAIN bytes : bytes[i] # 0

Wire == INSTANCE WireFormats WITH Crc <- Sum, KindOf <- FirstByte, IsText <- NoNull

SomeHeads(f) ==
  {[i \in 1..f.head |-> IF i \in {1, 9} THEN a ELSE IF i \in {2, 11} THEN b ELSE 0] :
     a \in {0, 1, 2, 24}, b \in {0, 1, 2}}
SomeBodies(f) == {Wire!Kept(f, [i \in 1..(n * f.unit) |-> v]) : n \in 0..2, v \in {0, 1, 2, 255}}

ASSUME FormatsAreRead ==
  \A f \in Wire!Formats : \A m \in [head : SomeHeads(f), body : SomeBodies(f)] :
    LET bytes == Wire!Encode(f, m) IN
    /\ Wire!Decode(f, bytes) = IF m \in Wire!Messages(f) THEN m ELSE Wire!Refused
    /\ \A n \in 0..(Len(bytes) - 1) : Wire!Decode(f, SubSeq(bytes, 1, n)) = Wire!Refused
    /\ Wire!Decode(f, Append(bytes, 0)) = Wire!Refused
    /\ f \in {Wire!Packet, Wire!MessageFrame} /\ m.body # <<>>
         => Wire!Decode(f, [bytes EXCEPT ![Len(bytes)] = (@ + 1) % 256]) = Wire!Refused

SomeFields == {<<>>, <<0>>, <<7, 8>>}
ASSUME HandshakesAreRead ==
  \A t \in Wire!Handshakes :
    \A m \in [fixed : {[i \in 1..t.fixed |-> 9]}, first : SomeFields, second : SomeFields,
              third : SomeFields] :
      LET bytes == Wire!EncodeHandshake(t, m) IN
      /\ Wire!DecodeHandshake(t, bytes) =
           IF m \in Wire!HandshakeMessages(t) THEN m ELSE Wire!Refused
      /\ \A n \in 0..(Len(bytes) - 1) : Wire!DecodeHandshake(t, SubSeq(bytes, 1, n)) = Wire!Refused
      /\ Wire!DecodeHandshake(t, Append(bytes, 0)) = Wire!Refused
      /\ \A other \in Wire!Handshakes \ {t} : Wire!DecodeHandshake(other, bytes) = Wire!Refused

-----------------------------------------------------------------------------
(* Numbers *)

Numbers == INSTANCE VideoNumbers WITH NoRequest <- NoConfig

SomeSizes == [width : {0, 1920, 3840}, height : {0, 1080, 2160}]
SomeRequests ==
  [fps : {0, 30, 59, 120, 65535}, kbps : {0, 4000, 120001}, keyframe_ms : {0, 250, 999, 60000},
   codec : {"H265"}, low_latency : BOOLEAN]

ASSUME SettingsFit ==
  \A size \in SomeSizes, request \in SomeRequests \cup {NoConfig} :
    Numbers!InRange(Numbers!SettingsFor(size, request))

\* Images of all small even sizes, each pixel of its own color.
EvenSizes == [width : {2, 4, 6}, height : {2, 4}]
Picture(size) ==
  [x \in 0..(size.width - 1), y \in 0..(size.height - 1) |->
     [r |-> 40 * x, g |-> 60 * y, b |-> 255 - 10 * x * y]]
ASSUME ImagesFillTheBuffer ==
  \A size \in EvenSizes :
    /\ Numbers!StaysInside(size, Picture(size))
    /\ Numbers!WritesOnce(size, Picture(size))
    /\ Numbers!WritesAll(size, Picture(size))
=============================================================================
