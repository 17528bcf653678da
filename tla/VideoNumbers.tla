---------------------------- MODULE VideoNumbers ----------------------------
(***************************************************************************)
(* The arithmetic of the video path of the Windows host: what is made of   *)
(* the numbers a client asks for (main.rs, encoder.rs), and the conversion *)
(* of a captured image to the format of the encoder                        *)
(* (encoder/media_foundation.rs).  Pure operators.                         *)
(*                                                                         *)
(* The bit rate from the area of a display is computed in 32-bit floats in *)
(* the code, which may round to a neighbouring number of kbit/s.           *)
(***************************************************************************)
EXTENDS Integers

CONSTANT NoRequest  \* Option::None

Clamp(n, low, high) == IF n < low THEN low ELSE IF n > high THEN high ELSE n

-----------------------------------------------------------------------------
(* Settings *)

\* low_latency_h264: 18000 kbit/s for 1920 x 1080, which is 5 for 576 pixels.
BitrateFor(pixels) == Clamp((5 * pixels + 288) \div 576, 4000, 60000)

LowLatency(size, fps) ==
  [size |-> size, codec |-> "H264", fps |-> fps, kbps |-> BitrateFor(size.width * size.height),
   keyframe_ms |-> 1000, low_latency |-> TRUE]

\* encoder_settings_for_display: the size asked for is that of the display or
\* it is not used.  There are B frames where low latency is not asked for.
SettingsFor(size, request) ==
  IF request = NoRequest THEN LowLatency(size, 60)
  ELSE [size |-> size, codec |-> request.codec,
        fps |-> Clamp(request.fps, 30, 120),
        kbps |-> Clamp(request.kbps, 4000, 120000),
        keyframe_ms |-> Clamp(request.keyframe_ms, 250, 10000),
        low_latency |-> request.low_latency]

\* frame_interval_for_fps, in microseconds.
FrameInterval(fps) == 1000000 \div (IF fps < 1 THEN 1 ELSE fps)

\* configure_codec_api: frames from one key frame to the next, in the code at
\* most 2^32 - 1.
MostFrames == 2147483647
GopFrames(settings) == Clamp((settings.fps * settings.keyframe_ms) \div 1000, 1, MostFrames)

-----------------------------------------------------------------------------
(* The image: BGRA in, NV12 out *)

\* limited_y, limited_u, limited_v before they are clamped; >> 8 rounds down.
RawY(r, g, b) == 16 + ((47 * r + 157 * g + 16 * b + 128) \div 256)
RawU(r, g, b) == 128 + ((-26 * r - 87 * g + 112 * b + 128) \div 256)
RawV(r, g, b) == 128 + ((112 * r - 102 * g - 10 * b + 128) \div 256)

LimitedY(r, g, b) == Clamp(RawY(r, g, b), 16, 235)
LimitedU(r, g, b) == Clamp(RawU(r, g, b), 16, 240)
LimitedV(r, g, b) == Clamp(RawV(r, g, b), 16, 240)

Nv12Len(size) == size.width * size.height + (size.width * size.height) \div 2

\* The corners of the 2 x 2 blocks, and the mean of a channel over a block.
Corners(size) ==
  {p \in [x : 0..(size.width - 1), y : 0..(size.height - 1)] : p.x % 2 = 0 /\ p.y % 2 = 0}
Mean(image, p, channel) ==
  LET At(dx, dy) == image[p.x + dx, p.y + dy][channel]
  IN (At(0, 0) + At(1, 0) + At(0, 1) + At(1, 1)) \div 4

\* bgra_to_nv12: what is written where.  `image` is a function of x and y.
LumaAt(size, x, y) == y * size.width + x
ChromaAt(size, p) == size.width * size.height + (p.y \div 2) * size.width + p.x
Luma(size, image) ==
  {[at |-> LumaAt(size, x, y),
    value |-> LimitedY(image[x, y].r, image[x, y].g, image[x, y].b)] :
     x \in 0..(size.width - 1), y \in 0..(size.height - 1)}
Chroma(size, image, p) ==
  LET r == Mean(image, p, "r") g == Mean(image, p, "g") b == Mean(image, p, "b")
  IN {[at |-> ChromaAt(size, p), value |-> LimitedU(r, g, b)],
      [at |-> ChromaAt(size, p) + 1, value |-> LimitedV(r, g, b)]}
Nv12(size, image) ==
  Luma(size, image) \cup UNION {Chroma(size, image, p) : p \in Corners(size)}

-----------------------------------------------------------------------------
(* What the numbers promise *)

Between(n, low, high) == n \in Int /\ low <= n /\ n <= high

\* Whatever is asked for.
InRange(settings) ==
  /\ Between(settings.fps, 30, 120)
  /\ Between(settings.kbps, 4000, 120000)
  /\ Between(settings.keyframe_ms, 250, 10000)
  /\ Between(GopFrames(settings), 7, 1200)
  /\ Between(FrameInterval(settings.fps), 8333, 33333)

Even(n) == n % 2 = 0

\* An image of an even size fills the buffer: no byte outside it is written,
\* none is written twice with different values, and none is left out.
StaysInside(size, image) == \A w \in Nv12(size, image) : w.at \in 0..(Nv12Len(size) - 1)
WritesOnce(size, image) == \A v, w \in Nv12(size, image) : v.at = w.at => v = w
WritesAll(size, image) == 0..(Nv12Len(size) - 1) \subseteq {w.at : w \in Nv12(size, image)}
=============================================================================
