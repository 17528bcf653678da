--------------------------- MODULE VideoPipeline ---------------------------
(***************************************************************************)
(* From the screen to encoded frames: the video pump of the Windows host   *)
(* with its screen capture and its H.264 encoder (main.rs, streaming.rs,   *)
(* capture/desktop_duplication.rs, encoder/media_foundation.rs).           *)
(*                                                                         *)
(* The host is one thread; monitors come, go and change their mode between *)
(* any two of its steps, drivers fail and are late at any call.  A call of *)
(* the operating system that can fail is a set of outcomes.  A display is  *)
(* known by its position in the enumeration of the moment (from 1 here,    *)
(* from 0 in the code); a size is a name, as rotated; an image is named by *)
(* the monitor it shows and by the time it was taken.                      *)
(***************************************************************************)
EXTENDS Integers, Sequences, SequencesExt

CONSTANTS
  Monitors,        \* what can be plugged in
  Sizes, OddSizes, \* sizes of screens; those with an odd width or height
  Clients,         \* endpoints in the order of their addresses, a set of numbers
  Configs,         \* [display, codec]: what clients and operators ask for
  NoConfig,        \* Option::None
  DefaultDisplay,
  Requested,       \* GLYPHRAY_ENCODER_BACKEND
  Drivers,         \* [vendor, async]: hardware encoders the system knows
  Slots,           \* inputs an asynchronous encoder asks for ahead
  MaxChanges, MaxFrames, MaxPumps  \* bounds: plugging, captures, pumps created

ASSUME PipelineAssumption ==
  /\ OddSizes \subseteq Sizes
  /\ Clients \subseteq Int
  /\ NoConfig \notin Configs
  /\ Requested \in {"Auto", "Hardware", "Software"} \cup {d.vendor : d \in Drivers}
  /\ Slots \in Nat \ {0}
  /\ MaxChanges \in Nat /\ MaxFrames \in Nat /\ MaxPumps \in Nat \ {0}

\* Of finitely many addresses one is the highest.
ASSUME OrderAssumption ==
  \A some \in SUBSET Clients : some # {} => \E c \in some : \A d \in some : d <= c

VARIABLES
  outputs,    \* attached outputs in the order of their enumeration
  clients,    \* the encoder_config of approved sessions
  override,   \* host_encoder_override
  pump,       \* video_pump: capture, encoder and what they were made for
  captured,   \* captures so far; time for this purpose
  unit,       \* output port: the access unit of the last step, or NoUnit
  changes, pumps

pipeline == <<outputs, clients, override, pump, captured, unit, changes, pumps>>

Outputs == [monitor: Monitors, size: Sizes]
NoPump == [on |-> FALSE]
NoUnit == [sequence |-> 0]
NoSession == [monitor |-> "none"]
NoPixels == [at |-> 0]

Software == [vendor |-> "Software", async |-> FALSE]

-----------------------------------------------------------------------------
(* Screen capture *)

\* DuplicationSession::open finds the display by its number of the moment.
Opened(display) ==
  IF display \in DOMAIN outputs
  THEN {[monitor |-> outputs[display].monitor, size |-> outputs[display].size,
         opened |-> captured + 1, last |-> NoPixels]}
  ELSE {}

\* Access is lost when the monitor is gone or has changed its mode; Windows
\* also takes it away for a while, as for another desktop, and this leaves no
\* trace here: any call may find it lost.
Lost(s) == [monitor |-> s.monitor, size |-> s.size] \notin ToSet(outputs)

Image(s) == [at |-> captured + 1, monitor |-> s.monitor]
Frame(s, image) == [stamp |-> captured + 1, size |-> s.size, image |-> image]

\* What acquiring a frame on a session can give: a new image, after a
\* time-out the last one again if there is any, or an error of a driver.
Acquired(s) ==
  {[ok |-> TRUE, frame |-> Frame(s, Image(s)), session |-> [s EXCEPT !.last = Image(s)]],
   [ok |-> FALSE, session |-> s]}
  \cup (IF s.last = NoPixels THEN {}
        ELSE {[ok |-> TRUE, frame |-> Frame(s, s.last), session |-> s]})

\* Mutant: the new session takes over the pixels of the one that was lost.
Inherits(s, old) == [s EXCEPT !.last = old.last]
Replacement(s, old) == s

\* A session that has lost access is replaced once; what the replacement gives
\* is the result, and only an error to open it leaves the old one in place.
Again(display, s) ==
  IF Opened(display) = {} THEN {[ok |-> FALSE, session |-> s]}
  ELSE UNION {Acquired(Replacement(r, s)) : r \in Opened(display)}

CaptureOutcomes(display, session) ==
  {[ok |-> FALSE, session |-> session]} \cup
  UNION {Again(display, s) \cup (IF Lost(s) THEN {} ELSE Acquired(s)) :
           s \in IF session = NoSession THEN Opened(display) ELSE {session}}

-----------------------------------------------------------------------------
(* The encoder *)

\* Which drivers a request means; each may turn out not to start, in Auto mode
\* down to the software encoder.
Matches(driver) == Requested \in {"Auto", "Hardware", driver.vendor}

Selectable ==
  {d \in Drivers : Matches(d)}
    \cup (IF Requested \in {"Auto", "Software"} THEN {Software} ELSE {})

Startable(codec, size) == codec = "H264" /\ size \notin OddSizes

\* What switch_to_software_encoder leaves: a new transform that holds nothing,
\* a list of labels to match, and a key frame to ask for.  The sequence goes on.
Anew(p) == [p EXCEPT !.driver = Software, !.input = <<>>, !.asked = 0, !.outputs = 0]
SwitchedAnew(p) == [Anew(p) EXCEPT !.pending = <<>>, !.force = TRUE, !.next = 1]
SwitchedOver(p) == [Anew(p) EXCEPT !.force = TRUE]
SwitchedQuietly(p) == [Anew(p) EXCEPT !.pending = <<>>]
Switched(p) == [Anew(p) EXCEPT !.pending = <<>>, !.force = TRUE]

\* The steps of an attempt: the request for a key frame is taken up, the
\* transform gets the frame, a label is made for it, the output is taken.
Asking(p) == [p EXCEPT !.force = FALSE]
Fed(p, frame) == [Asking(p) EXCEPT !.input = Append(@, [frame |-> frame, key |-> p.force])]
Labelled(p, frame) ==
  [Fed(p, frame) EXCEPT
     !.pending = Append(@, [sequence |-> p.next, stamp |-> frame.stamp]),
     !.next = @ + 1]
Taken(q) == [q EXCEPT !.input = Tail(@), !.pending = Tail(@), !.outputs = @ + 1]

Produced(q) ==
  [sequence |-> Head(q.pending).sequence, stamp |-> Head(q.pending).stamp,
   shows |-> Head(q.input).frame, key |-> Head(q.input).key]

\* Waiting for an event throws away the events before it: of the inputs a
\* driver has asked for ahead, none is left but one asked for after the output.
Waited(driver) == IF driver.async THEN {0, 1} ELSE {0}

\* What the attempt comes to when it ends with the pump q.
Result(p, frame, at, q) ==
  {[at |-> at, pump |-> [q EXCEPT !.asked = a], unit |-> Produced(Labelled(p, frame))] :
     a \in Waited(p.driver)}

\* One attempt to encode.  It can fail before the transform has the frame,
\* while it waits for the output (only an asynchronous one lets it wait), or
\* when it takes the output, which may not be there yet ("empty").
Halfway(p, frame) ==
  {Labelled(p, frame)} \cup (IF p.driver.async THEN {Fed(p, frame)} ELSE {})

BeforeFed(p) == {[at |-> "failed", pump |-> q, unit |-> NoUnit] : q \in {p, Asking(p)}}
OnceFed(p, frame) ==
  (UNION {Result(p, frame, "failed", q) : q \in Halfway(p, frame)})
    \cup Result(p, frame, "empty", Labelled(p, frame))
    \cup Result(p, frame, "done", Taken(Labelled(p, frame)))

EncodeOnce(p, frame) ==
  BeforeFed(p) \cup (IF p.driver.async /\ p.asked = 0 THEN {} ELSE OnceFed(p, frame))

FallsBack(p, result) ==
  /\ Requested = "Auto" /\ p.driver # Software
  /\ result.at = "failed"

\* The first failure of a hardware encoder in Auto mode is followed by one
\* attempt of the software encoder, if that can be created.
Encoded(p, frame) ==
  UNION {IF FallsBack(p, r)
         THEN {[r EXCEPT !.pump = Switched(@)]} \cup EncodeOnce(Switched(r.pump), frame)
         ELSE {r} : r \in EncodeOnce(p, frame)}

\* A frame of another size than the encoder's is an error before anything else.
EncodeOutcomes(p, frame) ==
  IF frame.size # p.size THEN {[at |-> "size", pump |-> p, unit |-> NoUnit]}
  ELSE Encoded(p, frame)

-----------------------------------------------------------------------------
(* The pump *)

\* latest_approved_encoder_config: of the approved session that comes last in
\* the order of addresses.
LatestConfig ==
  LET with == {c \in Clients : clients[c] # NoConfig}
  IN IF with = {} THEN NoConfig
     ELSE clients[CHOOSE c \in with : \A d \in with : d <= c]

\* select_video_display: the one asked for, else the default, else the first.
Selected(display) ==
  IF display \in DOMAIN outputs THEN display
  ELSE IF DefaultDisplay \in DOMAIN outputs THEN DefaultDisplay ELSE 1

\* create_runtime_video_pump: enumeration may fail or find nothing, and the
\* encoder may not start.
PumpFor(config) ==
  LET asked == IF config = NoConfig THEN DefaultDisplay ELSE config.display
      codec == IF config = NoConfig THEN "H264" ELSE config.codec
      id    == Selected(asked)
  IN IF outputs = <<>> THEN {NoPump}
     ELSE {NoPump} \cup
       {[on |-> TRUE, config |-> config, display |-> id, size |-> outputs[id].size,
         session |-> NoSession, driver |-> d, next |-> 1, pending |-> <<>>,
         input |-> <<>>, force |-> TRUE, outputs |-> 0, sent |-> 0, asked |-> IF d.async THEN Slots ELSE 0] :
           d \in IF Startable(codec, outputs[id].size) THEN Selectable ELSE {}}

\* Mutant: the pump is made for the client although there is an override.
ClientFirst(hostOverride) == IF LatestConfig = NoConfig THEN hostOverride ELSE LatestConfig
Wanted(hostOverride) == IF hostOverride = NoConfig THEN LatestConfig ELSE hostOverride

NewPump(hostOverride) ==
  /\ pumps < MaxPumps
  /\ pumps' = pumps + 1
  /\ pump' \in PumpFor(Wanted(hostOverride))
  /\ unit' = NoUnit

\* A frame is captured, encoded and handed on; any error ends the pump.
VideoTick ==
  /\ pump.on /\ captured < MaxFrames
  /\ captured' = captured + 1
  /\ \E c \in CaptureOutcomes(pump.display, pump.session) :
       LET p == [pump EXCEPT !.session = c.session]
       IN \/ /\ ~c.ok
             /\ pump' = NoPump /\ unit' = NoUnit
          \/ /\ c.ok
             /\ \E e \in EncodeOutcomes(p, c.frame) :
                  IF e.at = "done"
                  THEN /\ pump' = [e.pump EXCEPT !.sent = e.unit.sequence]
                       /\ unit' = e.unit
                  ELSE pump' = NoPump /\ unit' = NoUnit
  /\ UNCHANGED <<outputs, clients, override, changes, pumps>>

\* An EncoderConfig of an approved client: a new pump, unless the operator has
\* set an override.
ClientConfigures(c, config) ==
  /\ clients' = [clients EXCEPT ![c] = config]
  /\ UNCHANGED <<outputs, override, captured, changes>>
  /\ IF override # NoConfig THEN unit' = NoUnit /\ UNCHANGED <<pump, pumps>>
     ELSE /\ pumps < MaxPumps
          /\ pumps' = pumps + 1
          /\ unit' = NoUnit
          /\ pump' \in PumpFor(LatestConfig')

\* The session is rejected or evicted: the pump stays as it is.
ClientLeaves(c) ==
  /\ clients[c] # NoConfig
  /\ clients' = [clients EXCEPT ![c] = NoConfig]
  /\ unit' = NoUnit
  /\ UNCHANGED <<outputs, override, pump, captured, changes, pumps>>

\* `encoder override`, `encoder preset apply`, and `encoder save` without an
\* override, which takes the configuration of a client.
OperatorOverrides(config) ==
  /\ override' = config
  /\ NewPump(config)
  /\ UNCHANGED <<outputs, clients, captured, changes>>

OperatorClears ==
  /\ override' = NoConfig
  /\ NewPump(NoConfig)
  /\ UNCHANGED <<outputs, clients, captured, changes>>

-----------------------------------------------------------------------------
(* The monitors *)

Change(new) ==
  /\ changes < MaxChanges
  /\ changes' = changes + 1
  /\ outputs' = new
  /\ unit' = NoUnit
  /\ UNCHANGED <<clients, override, pump, captured, pumps>>

Attached == {o.monitor : o \in ToSet(outputs)}

PlugIn == \E m \in Monitors \ Attached, size \in Sizes, at \in 0..Len(outputs) :
            Change(InsertAt(outputs, at + 1, [monitor |-> m, size |-> size]))
Unplug == \E at \in DOMAIN outputs : Change(RemoveAt(outputs, at))
ChangeMode == \E at \in DOMAIN outputs, size \in Sizes :
                size # outputs[at].size /\ Change([outputs EXCEPT ![at].size = size])

\* The host starts with what it has loaded and makes its first pump.
PipelineInit ==
  /\ outputs \in {<<[monitor |-> m, size |-> s]>> : m \in Monitors, s \in Sizes}
  /\ clients = [c \in Clients |-> NoConfig]
  /\ override \in Configs \cup {NoConfig}
  /\ pump \in PumpFor(override)
  /\ captured = 0 /\ unit = NoUnit
  /\ changes = 0 /\ pumps = 1

PumpStep ==
  \/ VideoTick
  \/ \E c \in Clients : ClientLeaves(c) \/ \E config \in Configs : ClientConfigures(c, config)
  \/ \E config \in Configs : OperatorOverrides(config)
  \/ OperatorClears
MonitorStep == PlugIn \/ Unplug \/ ChangeMode
PipelineNext == PumpStep \/ MonitorStep

PipelineSpec == PipelineInit /\ [][PipelineNext]_pipeline

-----------------------------------------------------------------------------
(* Properties *)

\* The types.  The transform never holds more frames than there are labels for
\* them, nor more than the one that is being encoded.
VideoTypeOK ==
  /\ ToSet(outputs) \subseteq Outputs
  /\ clients \in [Clients -> Configs \cup {NoConfig}]
  /\ override \in Configs \cup {NoConfig}
  /\ pump.on => /\ pump.driver \in Drivers \cup {Software}
                /\ pump.config \in Configs \cup {NoConfig}
                /\ pump.next \in 1..(MaxFrames * 2 + 1)
                /\ pump.input = <<>> /\ pump.pending = <<>>
  /\ captured \in 0..MaxFrames /\ changes \in 0..MaxChanges /\ pumps \in 1..MaxPumps

\* An access unit carries the capture time of the frame it shows, through
\* failures half way and the change of transforms: latency is computed from it.
LabelsMatch == unit # NoUnit => unit.stamp = unit.shows.stamp

\* What a pump sends has rising sequence numbers, across a fall-back to the
\* software encoder too: the client's reassembler tells frames by them.
SequencesIncrease ==
  [][unit' # unit /\ unit' # NoUnit /\ pump.on => unit'.sequence > pump.sent]_pipeline

\* The first access unit of a transform was asked for as a key frame: the
\* decoder can show nothing before it has one.
StartsWithKeyframe == unit # NoUnit /\ pump.outputs = 1 => unit.key

\* While the operator has an override, a running pump is the one made for it,
\* whatever clients send, leave or have sent before.
OverrideRules == override # NoConfig /\ pump.on => pump.config = override

\* What is streamed shows the monitor the capture session is open on, and it
\* was taken since that session was opened: no image of a lost monitor, or of
\* its old mode, comes back after access to it is lost.
ImageIsCurrent ==
  unit # NoUnit => /\ unit.shows.image.monitor = pump.session.monitor
                   /\ unit.shows.image.at >= pump.session.opened
=============================================================================
