---------------------------- MODULE ScreenProofs ----------------------------
(***************************************************************************)
(* What is seen of the screen, for all monitors, sizes, drivers, clients,  *)
(* configurations, panels and bounds: the safety of VideoPipeline,         *)
(* PictureIsUpright of DisplayGeometry, and what VideoNumbers promises for *)
(* every display, request and image.                                       *)
(*                                                                         *)
(* The properties of an access unit are about one step; the invariant says *)
(* what the pump holds between two: a transform and a list of labels that  *)
(* are empty, a request for a key frame until a transform has given one,   *)
(* and a capture session whose pixels are its own (Fit).                   *)
(***************************************************************************)
EXTENDS VideoPipeline, DisplayGeometry, VideoNumbers, TLAPS

(***************************************************************************)
(* Sequences of outputs.                                                   *)
(***************************************************************************)
LEMMA InsertAtType ==
  ASSUME NEW S, NEW s \in Seq(S), NEW e \in S, NEW at \in 0..Len(s)
  PROVE  InsertAt(s, at + 1, e) \in Seq(S)
<1>1. SubSeq(s, 1, at) \in Seq(S) /\ SubSeq(s, at + 1, Len(s)) \in Seq(S)
  OBVIOUS
<1>2. <<e>> \in Seq(S) OBVIOUS
<1>3. SubSeq(s, 1, at) \o <<e>> \in Seq(S) BY <1>1, <1>2
<1>4. (at + 1) - 1 = at OBVIOUS
<1> QED BY <1>1, <1>3, <1>4 DEF InsertAt

LEMMA ElementType ==
  ASSUME NEW S, NEW s \in Seq(S), NEW i \in DOMAIN s
  PROVE  i \in Nat /\ s[i] \in S
OBVIOUS

LEMMA RemoveAtType ==
  ASSUME NEW S, NEW s \in Seq(S), NEW at \in DOMAIN s
  PROVE  RemoveAt(s, at) \in Seq(S)
<1>1. SubSeq(s, 1, at - 1) \in Seq(S) /\ SubSeq(s, at + 1, Len(s)) \in Seq(S)
  OBVIOUS
<1> QED BY <1>1 DEF RemoveAt

(***************************************************************************)
(* Screen capture.                                                         *)
(***************************************************************************)
Pixels == [at : Nat, monitor : Monitors]
Sessions == [monitor : Monitors, size : Sizes, opened : Nat, last : {NoPixels} \cup Pixels]

Frames == [stamp : Nat, size : Sizes, image : Pixels]

\* A capture session at some time: its pixels are of its monitor and its own.
Owned(s, now) ==
  /\ s \in Sessions /\ s.opened <= now
  /\ s.last # NoPixels => s.last.monitor = s.monitor /\ s.last.at >= s.opened

\* The result of a capture that succeeds.
Current(c) ==
  /\ Owned(c.session, captured + 1) /\ c.frame \in Frames
  /\ c.frame.stamp = captured + 1
  /\ c.frame.image.monitor = c.session.monitor
  /\ c.frame.image.at >= c.session.opened

LEMMA OpenedOwned ==
  ASSUME outputs \in Seq(Outputs), captured \in Nat, NEW display, NEW s \in Opened(display)
  PROVE  Owned(s, captured + 1)
<1>1. display \in DOMAIN outputs
  <2>1. display \notin DOMAIN outputs => Opened(display) = {}
    BY DEF Opened
  <2> QED BY <2>1
<1>2. outputs[display].monitor \in Monitors /\ outputs[display].size \in Sizes
  <2>1. outputs[display] \in Outputs
    BY <1>1, ElementType
  <2> QED BY <2>1 DEF Outputs
<1>3. s = [monitor |-> outputs[display].monitor, size |-> outputs[display].size,
           opened |-> captured + 1, last |-> NoPixels]
  BY <1>1 DEF Opened
<1>4. captured + 1 \in Nat /\ captured + 1 <= captured + 1
  OBVIOUS
<1> QED BY <1>2, <1>3, <1>4 DEF Sessions, Owned

LEMMA AcquiredCurrent ==
  ASSUME captured \in Nat, NEW s, Owned(s, captured + 1), NEW c \in Acquired(s), c.ok = TRUE
  PROVE  Current(c)
<1>0. s \in Sessions /\ s.opened \in Nat /\ s.opened <= captured + 1 /\ captured + 1 \in Nat
  BY DEF Owned, Sessions
<1>1. Image(s) \in Pixels /\ Image(s).monitor = s.monitor /\ Image(s).at = captured + 1
  BY <1>0 DEF Image, Sessions, Pixels
<1>2. \A image \in Pixels : /\ Frame(s, image) \in Frames /\ Frame(s, image).stamp = captured + 1
                            /\ Frame(s, image).image = image
  BY <1>0 DEF Frame, Frames, Sessions
<1>3. CASE c = [ok |-> TRUE, frame |-> Frame(s, Image(s)), session |-> [s EXCEPT !.last = Image(s)]]
  <2>1. c.frame = Frame(s, Image(s)) /\ c.session = [s EXCEPT !.last = Image(s)]
    BY <1>3
  <2>2. /\ c.session \in Sessions /\ c.session.opened = s.opened
        /\ c.session.monitor = s.monitor /\ c.session.last = Image(s)
    BY <1>0, <1>1, <2>1 DEF Sessions
  <2> HIDE <1>3
  <2>3. Owned(c.session, captured + 1)
    BY <1>0, <1>1, <2>2 DEF Owned
  <2> QED BY <1>0, <1>1, <1>2, <2>1, <2>2, <2>3 DEF Current
<1>4. CASE /\ s.last # NoPixels
           /\ c = [ok |-> TRUE, frame |-> Frame(s, s.last), session |-> s]
  <2>1. c.frame = Frame(s, s.last) /\ c.session = s
    BY <1>4
  <2>2. s.last \in Pixels /\ s.last.monitor = s.monitor /\ s.last.at >= s.opened
    BY <1>0, <1>4 DEF Owned, Sessions
  <2> QED BY <1>2, <2>1, <2>2 DEF Current
<1>5. c # [ok |-> FALSE, session |-> s]
  OBVIOUS
<1> QED BY <1>3, <1>4, <1>5 DEF Acquired

LEMMA CaptureCurrent ==
  ASSUME outputs \in Seq(Outputs), captured \in Nat, NEW display, NEW session,
         session = NoSession \/ Owned(session, captured),
         NEW c \in CaptureOutcomes(display, session), c.ok = TRUE
  PROVE  Current(c)
<1> DEFINE at == IF session = NoSession THEN Opened(display) ELSE {session}
<1>1. c # [ok |-> FALSE, session |-> session] OBVIOUS
<1>2. PICK s \in at : c \in Again(display, s) \cup (IF Lost(s) THEN {} ELSE Acquired(s))
  BY <1>1 DEF CaptureOutcomes
<1>3. Owned(s, captured + 1)
  <2>1. CASE session = NoSession
    BY <1>2, <2>1, OpenedOwned
  <2>2. CASE Owned(session, captured)
    <3>1. session.opened \in Nat
      BY <2>2 DEF Owned, Sessions
    <3>2. session # NoSession => s = session
      BY <1>2
    <3>3. session # NoSession => Owned(session, captured + 1)
      BY <2>2, <3>1 DEF Owned
    <3> QED BY <2>1, <3>2, <3>3
  <2> QED BY <2>1, <2>2
<1>4. CASE c \in Acquired(s) BY <1>3, <1>4, AcquiredCurrent
<1>5. CASE c \in Again(display, s)
  <2>1. c # [ok |-> FALSE, session |-> s] OBVIOUS
  <2>2. PICK r \in Opened(display) : c \in Acquired(Replacement(r, s))
    BY <1>5, <2>1 DEF Again
  <2> QED BY <2>2, OpenedOwned, AcquiredCurrent DEF Replacement
<1> QED BY <1>2, <1>4, <1>5

(***************************************************************************)
(* The encoder.                                                            *)
(***************************************************************************)
Labels == [sequence : Nat, stamp : Nat]
Held == [frame : Frames, key : BOOLEAN]

PumpShape ==
  [on : {TRUE}, config : Configs \cup {NoConfig}, display : Nat, size : Sizes,
   session : {NoSession} \cup Sessions, driver : Drivers \cup {Software}, next : Nat,
   pending : Seq(Labels), input : Seq(Held), force : BOOLEAN, outputs : Nat, sent : Nat,
   asked : Nat]

Idle(p) == p.pending = <<>> /\ p.input = <<>>
SamePump(p, q) == q.config = p.config /\ q.session = p.session /\ q.sent = p.sent

\* The access unit shows the frame, and carries what the pump gives it.
Carries(u, p, frame) ==
  /\ u.sequence = p.next /\ u.stamp = frame.stamp
  /\ u.shows = frame /\ u.key = p.force

LEMMA Labelling ==
  ASSUME NEW p \in PumpShape, Idle(p), NEW frame \in Frames
  PROVE  /\ Asking(p) \in PumpShape /\ SamePump(p, Asking(p)) /\ Asking(p).next = p.next
         /\ Fed(p, frame) \in PumpShape /\ SamePump(p, Fed(p, frame)) /\ Fed(p, frame).next = p.next
         /\ Labelled(p, frame) \in PumpShape /\ SamePump(p, Labelled(p, frame))
         /\ Labelled(p, frame).next = p.next + 1 /\ Labelled(p, frame).outputs = p.outputs
         /\ Labelled(p, frame).input = <<[frame |-> frame, key |-> p.force]>>
         /\ Labelled(p, frame).pending = <<[sequence |-> p.next, stamp |-> frame.stamp]>>
<1> DEFINE held == [frame |-> frame, key |-> p.force]
           label == [sequence |-> p.next, stamp |-> frame.stamp]
<1>1. held \in Held /\ label \in Labels
  BY DEF PumpShape, Frames, Held, Labels
<1>2. Append(p.input, held) = <<held>> /\ Append(p.pending, label) = <<label>>
  BY DEF Idle
<1>3. <<held>> \in Seq(Held) /\ <<label>> \in Seq(Labels)
  BY <1>1
<1> HIDE DEF held, label
<1>4. Asking(p) \in PumpShape /\ SamePump(p, Asking(p)) /\ Asking(p).next = p.next
      /\ Asking(p).outputs = p.outputs /\ Asking(p).input = p.input /\ Asking(p).pending = p.pending
  BY DEF Asking, PumpShape, SamePump
<1>5. Fed(p, frame) = [Asking(p) EXCEPT !.input = <<held>>]
  BY <1>2, <1>4 DEF Fed, held, PumpShape
<1>6. /\ Fed(p, frame) \in PumpShape /\ SamePump(p, Fed(p, frame)) /\ Fed(p, frame).next = p.next
      /\ Fed(p, frame).outputs = p.outputs /\ Fed(p, frame).input = <<held>>
      /\ Fed(p, frame).pending = p.pending
  BY <1>3, <1>4, <1>5 DEF PumpShape, SamePump
<1>7. Labelled(p, frame) = [Fed(p, frame) EXCEPT !.pending = <<label>>, !.next = p.next + 1]
  BY <1>2, <1>6 DEF Labelled, label, PumpShape
<1>8. p.next + 1 \in Nat BY DEF PumpShape
<1>9. /\ Labelled(p, frame) \in PumpShape /\ SamePump(p, Labelled(p, frame))
      /\ Labelled(p, frame).next = p.next + 1 /\ Labelled(p, frame).outputs = p.outputs
      /\ Labelled(p, frame).input = <<held>> /\ Labelled(p, frame).pending = <<label>>
  BY <1>3, <1>6, <1>7, <1>8 DEF PumpShape, SamePump
<1> QED BY <1>4, <1>6, <1>9 DEF held, label

\* One attempt, of a pump that holds nothing.
Sound(r, p, frame) ==
  /\ r = [at |-> r.at, pump |-> r.pump, unit |-> r.unit]
  /\ r.pump \in PumpShape /\ SamePump(p, r.pump)
  /\ r.pump.next \in {p.next, p.next + 1}
  /\ r.at = "done" => /\ Idle(r.pump) /\ Carries(r.unit, p, frame)
                      /\ r.pump.next = p.next + 1 /\ r.pump.outputs = p.outputs + 1

LEMMA ResultSound ==
  ASSUME NEW p \in PumpShape, NEW frame, NEW q \in PumpShape, SamePump(p, q),
         q.next \in {p.next, p.next + 1}, NEW at, NEW r \in Result(p, frame, at, q),
         at = "done" => /\ Idle(q) /\ Carries(Produced(Labelled(p, frame)), p, frame)
                        /\ q.next = p.next + 1 /\ q.outputs = p.outputs + 1
  PROVE  Sound(r, p, frame)
<1>1. PICK a \in Waited(p.driver) :
        r = [at |-> at, pump |-> [q EXCEPT !.asked = a], unit |-> Produced(Labelled(p, frame))]
  BY DEF Result
<1>2. a \in Nat
  BY <1>1 DEF Waited
<1> DEFINE moved == [q EXCEPT !.asked = a]
           u == Produced(Labelled(p, frame))
<1>3. /\ moved \in PumpShape
      /\ moved.config = q.config /\ moved.session = q.session /\ moved.sent = q.sent
      /\ moved.next = q.next /\ moved.outputs = q.outputs
      /\ moved.pending = q.pending /\ moved.input = q.input
  BY <1>2 DEF PumpShape
<1>4. SamePump(p, moved)
  BY <1>3 DEF SamePump
<1>5. Idle(q) => Idle(moved)
  BY <1>3 DEF Idle
<1> HIDE DEF moved, u
<1>6. r = [at |-> at, pump |-> moved, unit |-> u]
  BY <1>1 DEF moved, u
<1>7. r.at = at /\ r.pump = moved /\ r.unit = u
  BY <1>6
<1>8. at = "done" => Carries(u, p, frame)
  BY DEF u
<1> QED BY <1>3, <1>4, <1>5, <1>6, <1>7, <1>8 DEF Sound

LEMMA AttemptSound ==
  ASSUME NEW p \in PumpShape, Idle(p), NEW frame \in Frames, NEW r \in EncodeOnce(p, frame)
  PROVE  Sound(r, p, frame)
<1> DEFINE labelled == Labelled(p, frame)
<1>1. /\ p \in PumpShape /\ SamePump(p, p)
      /\ Asking(p) \in PumpShape /\ SamePump(p, Asking(p)) /\ Asking(p).next = p.next
      /\ Fed(p, frame) \in PumpShape /\ SamePump(p, Fed(p, frame)) /\ Fed(p, frame).next = p.next
      /\ labelled \in PumpShape /\ SamePump(p, labelled)
      /\ labelled.next = p.next + 1 /\ labelled.outputs = p.outputs
      /\ labelled.input = <<[frame |-> frame, key |-> p.force]>>
      /\ labelled.pending = <<[sequence |-> p.next, stamp |-> frame.stamp]>>
  BY Labelling DEF SamePump
<1> HIDE DEF labelled
<1>2. ASSUME NEW q \in {p, Asking(p)}, r = [at |-> "failed", pump |-> q, unit |-> NoUnit]
      PROVE  Sound(r, p, frame)
  <2>1. q \in PumpShape /\ SamePump(p, q) /\ q.next = p.next
    BY <1>1
  <2>2. r.at = "failed" /\ r.pump = q /\ r.unit = NoUnit
    BY <1>2
  <2> QED BY <1>2, <2>1, <2>2 DEF Sound
<1>3. ASSUME NEW q \in Halfway(p, frame), r \in Result(p, frame, "failed", q)
      PROVE  Sound(r, p, frame)
  <2>1. q = Fed(p, frame) \/ q = labelled
    BY DEF Halfway, labelled
  <2>2. q \in PumpShape /\ SamePump(p, q) /\ q.next \in {p.next, p.next + 1}
    BY <1>1, <2>1
  <2> QED BY <1>3, <2>2, ResultSound
<1>4. CASE r \in Result(p, frame, "empty", labelled)
  BY <1>1, <1>4, ResultSound
<1>5. CASE r \in Result(p, frame, "done", Taken(labelled))
  <2>1. /\ Tail(labelled.input) = <<>> /\ Tail(labelled.pending) = <<>>
        /\ Head(labelled.input) = [frame |-> frame, key |-> p.force]
        /\ Head(labelled.pending) = [sequence |-> p.next, stamp |-> frame.stamp]
    BY <1>1
  <2>2. Taken(labelled) = [labelled EXCEPT !.input = <<>>, !.pending = <<>>,
                                           !.outputs = p.outputs + 1]
    BY <1>1, <2>1 DEF Taken
  <2>3. p.outputs + 1 \in Nat
    BY DEF PumpShape
  <2>4. <<>> \in Seq(Held) /\ <<>> \in Seq(Labels)
    OBVIOUS
  <2>5. /\ Taken(labelled) \in PumpShape
        /\ Taken(labelled).config = labelled.config /\ Taken(labelled).session = labelled.session
        /\ Taken(labelled).sent = labelled.sent /\ Taken(labelled).next = labelled.next
        /\ Taken(labelled).outputs = p.outputs + 1
        /\ Taken(labelled).input = <<>> /\ Taken(labelled).pending = <<>>
    <3>1. labelled \in PumpShape
      BY <1>1
    <3> HIDE DEF labelled
    <3>2. [labelled EXCEPT !.input = <<>>, !.pending = <<>>, !.outputs = p.outputs + 1] \in PumpShape
      BY <2>3, <2>4, <3>1 DEF PumpShape
    <3> QED BY <2>2, <3>1, <3>2 DEF PumpShape
  <2>6. SamePump(p, Taken(labelled)) /\ Idle(Taken(labelled))
    BY <1>1, <2>5 DEF SamePump, Idle
  <2>7. Carries(Produced(labelled), p, frame)
    BY <2>1 DEF Produced, Carries
  <2>8. Carries(Produced(Labelled(p, frame)), p, frame)
    BY <2>7 DEF labelled
  <2> QED BY <1>1, <1>5, <2>5, <2>6, <2>8, ResultSound
<1>6. \/ r \in {[at |-> "failed", pump |-> q, unit |-> NoUnit] : q \in {p, Asking(p)}}
      \/ \E q \in Halfway(p, frame) : r \in Result(p, frame, "failed", q)
      \/ r \in Result(p, frame, "empty", labelled)
      \/ r \in Result(p, frame, "done", Taken(labelled))
  <2>1. r \in BeforeFed(p) \/ r \in OnceFed(p, frame)
    BY DEF EncodeOnce
  <2>2. r \in OnceFed(p, frame) =>
          \/ \E q \in Halfway(p, frame) : r \in Result(p, frame, "failed", q)
          \/ r \in Result(p, frame, "empty", labelled)
          \/ r \in Result(p, frame, "done", Taken(labelled))
    <3> DEFINE one == Result(p, frame, "empty", labelled)
               two == Result(p, frame, "done", Taken(labelled))
               failed == UNION {Result(p, frame, "failed", q) : q \in Halfway(p, frame)}
    <3>1. OnceFed(p, frame) = failed \cup one \cup two
      BY DEF OnceFed, labelled
    <3>2. r \in failed => \E q \in Halfway(p, frame) : r \in Result(p, frame, "failed", q)
      OBVIOUS
    <3> HIDE DEF one, two, failed
    <3>3. r \in OnceFed(p, frame) => r \in failed \/ r \in one \/ r \in two
      BY <3>1
    <3> QED BY <3>2, <3>3 DEF one, two
  <2> QED BY <2>1, <2>2 DEF BeforeFed
<1> QED BY <1>2, <1>3, <1>4, <1>5, <1>6

LEMMA SwitchedShape ==
  ASSUME NEW q \in PumpShape
  PROVE  /\ Switched(q) \in PumpShape /\ SamePump(q, Switched(q)) /\ Idle(Switched(q))
         /\ Switched(q).next = q.next /\ Switched(q).outputs = 0 /\ Switched(q).force = TRUE
<1>1. <<>> \in Seq(Held) /\ <<>> \in Seq(Labels) OBVIOUS
<1>2. /\ Anew(q) \in PumpShape /\ Anew(q).config = q.config /\ Anew(q).session = q.session
      /\ Anew(q).sent = q.sent /\ Anew(q).next = q.next /\ Anew(q).outputs = 0
      /\ Anew(q).input = <<>>
  BY <1>1 DEF Anew, PumpShape
<1>3. /\ Switched(q) \in PumpShape /\ Switched(q).config = q.config
      /\ Switched(q).session = q.session /\ Switched(q).sent = q.sent
      /\ Switched(q).next = q.next /\ Switched(q).outputs = 0
      /\ Switched(q).input = <<>> /\ Switched(q).pending = <<>> /\ Switched(q).force = TRUE
  BY <1>1, <1>2 DEF Switched, PumpShape
<1> QED BY <1>3 DEF SamePump, Idle

\* A frame that is encoded, at the first attempt or at the second.
LEMMA EncodedSound ==
  ASSUME NEW p \in PumpShape, Idle(p), p.outputs = 0 => p.force = TRUE,
         NEW frame \in Frames, NEW r \in Encoded(p, frame), r.at = "done"
  PROVE  /\ r.pump \in PumpShape /\ SamePump(p, r.pump) /\ Idle(r.pump)
         /\ r.pump.next \in {p.next + 1, p.next + 2} /\ r.pump.outputs # 0
         /\ r.unit.sequence = r.pump.next - 1
         /\ r.unit.stamp = frame.stamp /\ r.unit.shows = frame
         /\ r.pump.outputs = 1 => r.unit.key = TRUE
<1>0. p.next \in Nat /\ p.outputs \in Nat BY DEF PumpShape
<1>1. PICK first \in EncodeOnce(p, frame) :
        r \in (IF FallsBack(p, first)
               THEN {[first EXCEPT !.pump = Switched(@)]} \cup EncodeOnce(Switched(first.pump), frame)
               ELSE {first})
  BY DEF Encoded
<1>sound. Sound(first, p, frame)
  BY AttemptSound
<1>2. /\ first = [at |-> first.at, pump |-> first.pump, unit |-> first.unit]
      /\ first.pump \in PumpShape /\ SamePump(p, first.pump)
      /\ first.pump.next \in {p.next, p.next + 1}
  BY <1>sound DEF Sound
<1>3. CASE r = first
  BY <1>0, <1>3, <1>sound DEF Sound, Carries
<1>4. CASE FallsBack(p, first) /\ r = [first EXCEPT !.pump = Switched(@)]
  <2>1. r.at = first.at BY <1>2, <1>4
  <2> QED BY <1>4, <2>1 DEF FallsBack
<1>5. CASE r \in EncodeOnce(Switched(first.pump), frame)
  <2> DEFINE q == Switched(first.pump)
  <2>1. /\ q \in PumpShape /\ SamePump(first.pump, q) /\ Idle(q)
        /\ q.next = first.pump.next /\ q.outputs = 0 /\ q.force = TRUE
    BY <1>2, SwitchedShape
  <2> HIDE DEF q
  <2>2. r \in EncodeOnce(q, frame) BY <1>5 DEF q
  <2>3. Sound(r, q, frame)
    BY <2>1, <2>2, AttemptSound
  <2>4. /\ r.pump \in PumpShape /\ SamePump(q, r.pump) /\ Idle(r.pump)
        /\ r.pump.next = q.next + 1 /\ r.pump.outputs = q.outputs + 1
        /\ r.unit.sequence = q.next /\ r.unit.stamp = frame.stamp
        /\ r.unit.shows = frame /\ r.unit.key = q.force
    BY <2>3 DEF Sound, Carries
  <2>5. SamePump(p, r.pump)
    BY <1>2, <2>1, <2>4 DEF SamePump
  <2>6. q.next \in {p.next, p.next + 1}
    BY <1>2, <2>1
  <2> QED BY <1>0, <2>1, <2>4, <2>5, <2>6
<1> QED BY <1>1, <1>3, <1>4, <1>5

(***************************************************************************)
(* The invariant.                                                          *)
(***************************************************************************)
FitAt(p, now, rule) ==
  /\ p \in PumpShape /\ Idle(p)
  /\ p.next \in 1..(2 * now + 1) /\ p.sent < p.next
  /\ p.outputs = 0 => p.force = TRUE
  /\ p.session = NoSession \/ Owned(p.session, now)
  /\ rule # NoConfig => p.config = rule

PumpFit(p) == FitAt(p, captured, override)

Fit ==
  /\ outputs \in Seq(Outputs)
  /\ clients \in [Clients -> Configs \cup {NoConfig}]
  /\ override \in Configs \cup {NoConfig}
  /\ captured \in 0..MaxFrames /\ changes \in 0..MaxChanges /\ pumps \in 1..MaxPumps
  /\ pump = NoPump \/ PumpFit(pump)

\* What is said of the access unit of a step.
UnitFit ==
  unit # NoUnit =>
    /\ unit.stamp = unit.shows.stamp
    /\ pump.outputs = 1 => unit.key = TRUE
    /\ unit.shows.image.monitor = pump.session.monitor
    /\ unit.shows.image.at >= pump.session.opened

PipelineInd == Fit /\ UnitFit

LatestOf(cs) ==
  LET with == {c \in Clients : cs[c] # NoConfig}
  IN IF with = {} THEN NoConfig
     ELSE cs[CHOOSE c \in with : \A d \in with : d <= c]

LEMMA LatestType ==
  ASSUME NEW cs \in [Clients -> Configs \cup {NoConfig}]
  PROVE  LatestOf(cs) \in Configs \cup {NoConfig}
<1> DEFINE with == {c \in Clients : cs[c] # NoConfig}
<1>1. CASE with = {} BY <1>1 DEF LatestOf
<1>2. CASE with # {}
  <2>1. PICK last \in with : \A d \in with : d <= last BY <1>2, OrderAssumption
  <2>2. (CHOOSE c \in with : \A d \in with : d <= c) \in with BY <2>1
  <2>3. LatestOf(cs) = cs[CHOOSE c \in with : \A d \in with : d <= c]
    BY <1>2 DEF LatestOf
  <2> QED BY <2>2, <2>3
<1> QED BY <1>1, <1>2

FreshPump(p, config) ==
  /\ p \in PumpShape /\ Idle(p) /\ p.config = config /\ p.session = NoSession
  /\ p.next = 1 /\ p.sent = 0 /\ p.force = TRUE

LEMMA PumpForFresh ==
  ASSUME outputs \in Seq(Outputs), NEW config \in Configs \cup {NoConfig}, NEW p \in PumpFor(config)
  PROVE  p = NoPump \/ FreshPump(p, config)
<1> SUFFICES ASSUME p # NoPump PROVE FreshPump(p, config)
  OBVIOUS
<1> DEFINE asked == IF config = NoConfig THEN DefaultDisplay ELSE config.display
           codec == IF config = NoConfig THEN "H264" ELSE config.codec
           id == Selected(asked)
<1>1. outputs # <<>> BY DEF PumpFor
<1>2. PICK d \in (IF Startable(codec, outputs[id].size) THEN Selectable ELSE {}) :
        p = [on |-> TRUE, config |-> config, display |-> id, size |-> outputs[id].size,
             session |-> NoSession, driver |-> d, next |-> 1, pending |-> <<>>,
             input |-> <<>>, force |-> TRUE, outputs |-> 0, sent |-> 0,
             asked |-> IF d.async THEN Slots ELSE 0]
  BY <1>1 DEF PumpFor
<1>3. id \in DOMAIN outputs
  <2>1. 1 \in DOMAIN outputs
    BY <1>1
  <2>2. \A n : Selected(n) \in DOMAIN outputs
    BY <2>1 DEF Selected
  <2> QED BY <2>2
<1> HIDE DEF asked, codec, id
<1>4. id \in Nat /\ outputs[id].size \in Sizes
  <2>1. id \in Nat /\ outputs[id] \in Outputs
    BY <1>3, ElementType
  <2> QED BY <2>1 DEF Outputs
<1>5. d \in Drivers \cup {Software} BY <1>2 DEF Selectable
<1>6. (IF d.async THEN Slots ELSE 0) \in Nat BY PipelineAssumption
<1>7. p \in PumpShape BY <1>2, <1>4, <1>5, <1>6 DEF PumpShape
<1> QED BY <1>2, <1>7 DEF FreshPump, Idle

\* A pump made for what is wanted now.
LEMMA FreshFits ==
  ASSUME NEW p, NEW config, NEW now \in Nat, NEW rule, FreshPump(p, config),
         rule # NoConfig => config = rule
  PROVE  FitAt(p, now, rule)
<1>1. /\ p \in PumpShape /\ Idle(p) /\ p.config = config /\ p.session = NoSession
      /\ p.next = 1 /\ p.sent = 0 /\ p.force = TRUE
  BY DEF FreshPump
<1>2. 1 \in 1..(2 * now + 1) /\ 0 < 1
  OBVIOUS
<1> QED BY <1>1, <1>2 DEF FitAt

(***************************************************************************)
(* The steps.                                                              *)
(***************************************************************************)
LEMMA TickFits ==
  ASSUME Fit, VideoTick
  PROVE  /\ Fit' /\ UnitFit'
         /\ unit' # NoUnit => unit'.sequence > pump.sent
<1>1. pump.on /\ captured < MaxFrames /\ captured' = captured + 1
      /\ UNCHANGED <<outputs, clients, override, changes, pumps>>
  BY DEF VideoTick
<1>2. PumpFit(pump) BY <1>1 DEF Fit, NoPump
<1>3. captured \in Nat /\ captured' \in 0..MaxFrames
  BY <1>1, PipelineAssumption DEF Fit
<1>4. CASE pump' = NoPump /\ unit' = NoUnit
  BY <1>1, <1>3, <1>4 DEF Fit, UnitFit
<1>5. ASSUME NEW c \in CaptureOutcomes(pump.display, pump.session), c.ok,
             NEW e \in EncodeOutcomes([pump EXCEPT !.session = c.session], c.frame),
             e.at = "done", pump' = [e.pump EXCEPT !.sent = e.unit.sequence], unit' = e.unit
      PROVE  Fit' /\ UnitFit' /\ unit'.sequence > pump.sent
  <2> DEFINE p == [pump EXCEPT !.session = c.session]
  <2>1. Current(c) /\ c.frame \in Frames
    <3>1. c.ok = TRUE BY <1>5
    <3>2. outputs \in Seq(Outputs)
      BY DEF Fit
    <3>3. pump.session = NoSession \/ Owned(pump.session, captured)
      BY <1>2 DEF PumpFit, FitAt
    <3>4. Current(c)
      BY <1>3, <1>5, <3>1, <3>2, <3>3, CaptureCurrent
    <3> QED BY <3>4 DEF Current
  <2>2. c.session \in Sessions BY <2>1 DEF Current, Owned
  <2>3. /\ p \in PumpShape /\ Idle(p) /\ p.outputs = pump.outputs /\ p.force = pump.force
        /\ p.next = pump.next /\ p.config = pump.config /\ p.session = c.session
    BY <1>2, <2>2 DEF PumpFit, FitAt, PumpShape, Idle
  <2> HIDE DEF p
  <2>4. e \in Encoded(p, c.frame)
    <3>1. e # [at |-> "size", pump |-> p, unit |-> NoUnit] BY <1>5
    <3> QED BY <1>5, <3>1 DEF EncodeOutcomes, p
  <2>5. p.outputs = 0 => p.force = TRUE BY <1>2, <2>3 DEF PumpFit, FitAt
  <2>6. /\ e.pump \in PumpShape /\ SamePump(p, e.pump) /\ Idle(e.pump)
        /\ e.pump.next \in {p.next + 1, p.next + 2} /\ e.pump.outputs # 0
        /\ e.unit.sequence = e.pump.next - 1
        /\ e.unit.stamp = c.frame.stamp /\ e.unit.shows = c.frame
        /\ e.pump.outputs = 1 => e.unit.key = TRUE
    BY <1>5, <2>1, <2>3, <2>4, <2>5, EncodedSound
  <2>7. pump.next \in 1..(2 * captured + 1) /\ pump.sent < pump.next /\ pump.sent \in Nat
    BY <1>2 DEF PumpFit, FitAt, PumpShape
  <2>8. e.unit.sequence \in Nat /\ e.unit.sequence > pump.sent
    BY <2>3, <2>6, <2>7
  <2>9. /\ pump' \in PumpShape /\ pump'.next = e.pump.next /\ pump'.sent = e.unit.sequence
        /\ pump'.outputs = e.pump.outputs /\ pump'.config = pump.config
        /\ pump'.session = c.session /\ Idle(pump')
    BY <1>5, <2>3, <2>6, <2>8 DEF PumpShape, SamePump, Idle
  <2>10. PumpFit(pump)'
    <3>1. pump'.next \in 1..(2 * captured' + 1) /\ pump'.sent < pump'.next
      BY <1>1, <1>3, <2>3, <2>6, <2>7, <2>9
    <3>2. Owned(pump'.session, captured')
      BY <1>1, <2>1, <2>9 DEF Current
    <3> QED BY <1>1, <1>2, <2>6, <2>9, <3>1, <3>2 DEF PumpFit, FitAt, Owned, Idle
  <2>11. UnitFit'
    BY <1>5, <2>1, <2>6, <2>9 DEF UnitFit, Current
  <2> QED BY <1>1, <1>3, <1>5, <2>8, <2>10, <2>11 DEF Fit
<1>6. \/ pump' = NoPump /\ unit' = NoUnit
      \/ \E c \in CaptureOutcomes(pump.display, pump.session) :
           /\ c.ok
           /\ \E e \in EncodeOutcomes([pump EXCEPT !.session = c.session], c.frame) :
                /\ e.at = "done"
                /\ pump' = [e.pump EXCEPT !.sent = e.unit.sequence] /\ unit' = e.unit
  BY DEF VideoTick
<1> QED BY <1>4, <1>5, <1>6

LEMMA PumpStepFits ==
  ASSUME Fit,
         \/ \E c \in Clients : ClientLeaves(c) \/ \E config \in Configs : ClientConfigures(c, config)
         \/ \E config \in Configs : OperatorOverrides(config)
         \/ OperatorClears
  PROVE  Fit' /\ unit' = NoUnit
<1>0. captured \in Nat /\ pumps \in 1..MaxPumps /\ MaxPumps \in Nat
  BY PipelineAssumption DEF Fit
<1>1. ASSUME NEW c \in Clients, ClientLeaves(c) PROVE Fit' /\ unit' = NoUnit
  BY <1>1 DEF ClientLeaves, Fit, PumpFit, FitAt
<1>2. ASSUME NEW c \in Clients, NEW config \in Configs, ClientConfigures(c, config)
      PROVE  Fit' /\ unit' = NoUnit
  <2>1. clients' \in [Clients -> Configs \cup {NoConfig}] /\ UNCHANGED <<outputs, override, captured, changes>>
        /\ unit' = NoUnit
    BY <1>2 DEF ClientConfigures, Fit
  <2>2. CASE override # NoConfig
    BY <1>2, <2>1, <2>2 DEF ClientConfigures, Fit, PumpFit, FitAt
  <2>3. CASE override = NoConfig
    <3>1. pumps' \in 1..MaxPumps /\ pump' \in PumpFor(LatestConfig')
      BY <1>0, <1>2, <2>3 DEF ClientConfigures
    <3>2. LatestConfig' \in Configs \cup {NoConfig}
      BY <2>1, LatestType DEF LatestConfig, LatestOf
    <3>3. pump' = NoPump \/ FreshPump(pump', LatestConfig')
      BY <3>1, <3>2, PumpForFresh DEF Fit
    <3>4. override' = NoConfig /\ captured' \in Nat
      BY <1>0, <2>1, <2>3
    <3>5. pump' = NoPump \/ PumpFit(pump)'
      <4>1. FreshPump(pump', LatestConfig') => FitAt(pump', captured', override')
        BY <3>4, FreshFits
      <4> QED BY <3>3, <4>1 DEF PumpFit
    <3> QED BY <2>1, <3>1, <3>5 DEF Fit
  <2> QED BY <2>2, <2>3
<1>3. ASSUME NEW new \in Configs \cup {NoConfig}, override' = new, NewPump(new),
             UNCHANGED <<outputs, clients, captured, changes>>
      PROVE  Fit' /\ unit' = NoUnit
  <2>1. pumps' \in 1..MaxPumps /\ pump' \in PumpFor(Wanted(new)) /\ unit' = NoUnit
    BY <1>0, <1>3 DEF NewPump
  <2>2. Wanted(new) \in Configs \cup {NoConfig} /\ (new # NoConfig => Wanted(new) = new)
    BY <1>3, LatestType DEF Wanted, Fit, LatestConfig, LatestOf
  <2>3. pump' = NoPump \/ FreshPump(pump', Wanted(new))
    BY <2>1, <2>2, PumpForFresh DEF Fit
  <2>4. pump' = NoPump \/ PumpFit(pump)'
    <3>1. FreshPump(pump', Wanted(new)) => FitAt(pump', captured', override')
      BY <1>0, <1>3, <2>2, FreshFits
    <3> QED BY <2>3, <3>1 DEF PumpFit
  <2> QED BY <1>3, <2>1, <2>4 DEF Fit
<1>4. ASSUME NEW config \in Configs, OperatorOverrides(config) PROVE Fit' /\ unit' = NoUnit
  BY <1>3, <1>4 DEF OperatorOverrides
<1>5. CASE OperatorClears BY <1>3, <1>5 DEF OperatorClears
<1> QED BY <1>1, <1>2, <1>4, <1>5

LEMMA MonitorStepFits ==
  ASSUME Fit, MonitorStep
  PROVE  Fit' /\ unit' = NoUnit
<1>1. ASSUME NEW new \in Seq(Outputs), Change(new) PROVE Fit' /\ unit' = NoUnit
  <2>1. changes' \in 0..MaxChanges
    BY <1>1, PipelineAssumption DEF Change, Fit
  <2> QED BY <1>1, <2>1 DEF Change, Fit, PumpFit, FitAt
<1>2. outputs \in Seq(Outputs) BY DEF Fit
<1>3. CASE PlugIn
  <2>1. PICK m \in Monitors \ Attached, size \in Sizes, at \in 0..Len(outputs) :
          Change(InsertAt(outputs, at + 1, [monitor |-> m, size |-> size]))
    BY <1>3 DEF PlugIn
  <2>2. [monitor |-> m, size |-> size] \in Outputs BY DEF Outputs
  <2> QED BY <1>1, <1>2, <2>1, <2>2, InsertAtType
<1>4. CASE Unplug BY <1>1, <1>2, <1>4, RemoveAtType DEF Unplug
<1>5. CASE ChangeMode
  <2>1. PICK at \in DOMAIN outputs, size \in Sizes : Change([outputs EXCEPT ![at].size = size])
    BY <1>5 DEF ChangeMode
  <2>2. outputs[at] \in Outputs BY <1>2
  <2>3. [outputs[at] EXCEPT !.size = size] \in Outputs BY <2>2 DEF Outputs
  <2>4. [outputs EXCEPT ![at].size = size] \in Seq(Outputs) BY <1>2, <2>3
  <2> QED BY <1>1, <2>1, <2>4
<1> QED BY <1>3, <1>4, <1>5 DEF MonitorStep

LEMMA PipelineStepFits ==
  ASSUME PipelineInd, [PipelineNext]_pipeline
  PROVE  PipelineInd'
<1>1. CASE VideoTick BY <1>1, TickFits DEF PipelineInd
<1>2. CASE \/ \E c \in Clients : ClientLeaves(c) \/ \E config \in Configs : ClientConfigures(c, config)
           \/ \E config \in Configs : OperatorOverrides(config)
           \/ OperatorClears
  BY <1>2, PumpStepFits DEF PipelineInd, UnitFit
<1>3. CASE MonitorStep BY <1>3, MonitorStepFits DEF PipelineInd, UnitFit
<1>4. CASE UNCHANGED pipeline
  BY <1>4 DEF pipeline, PipelineInd, Fit, UnitFit, PumpFit, FitAt
<1> QED BY <1>1, <1>2, <1>3, <1>4 DEF PipelineNext, PumpStep

LEMMA PipelineInitFits ==
  ASSUME PipelineInit
  PROVE  PipelineInd
<1>1. outputs \in Seq(Outputs)
  <2>1. PICK m \in Monitors, s \in Sizes : outputs = <<[monitor |-> m, size |-> s]>>
    BY DEF PipelineInit
  <2>2. [monitor |-> m, size |-> s] \in Outputs BY DEF Outputs
  <2> QED BY <2>1, <2>2
<1>2. pump = NoPump \/ FreshPump(pump, override)
  BY <1>1, PumpForFresh DEF PipelineInit
<1>3. pump = NoPump \/ PumpFit(pump)
  <2>1. captured \in Nat
    BY DEF PipelineInit
  <2>2. FreshPump(pump, override) => FitAt(pump, captured, override)
    BY <2>1, FreshFits
  <2> QED BY <1>2, <2>2 DEF PumpFit
<1>4. clients \in [Clients -> Configs \cup {NoConfig}] /\ override \in Configs \cup {NoConfig}
  BY DEF PipelineInit
<1>5. captured \in 0..MaxFrames /\ changes \in 0..MaxChanges /\ pumps \in 1..MaxPumps
  BY PipelineAssumption DEF PipelineInit
<1>6. unit = NoUnit
  BY DEF PipelineInit
<1> QED BY <1>1, <1>3, <1>4, <1>5, <1>6 DEF PipelineInd, Fit, UnitFit

THEOREM PipelineInvariance == PipelineSpec => []PipelineInd
BY PipelineInitFits, PipelineStepFits, PTL DEF PipelineSpec

(***************************************************************************)
(* The theorems about the pump.                                            *)
(***************************************************************************)
\* Every variable keeps its type, and between two steps neither the transform
\* nor the list of labels holds anything.
THEOREM VideoTypeCorrect == PipelineSpec => []VideoTypeOK
<1>1. ASSUME PipelineInd PROVE VideoTypeOK
  <2>1. ToSet(outputs) \subseteq Outputs BY <1>1 DEF PipelineInd, Fit, ToSet
  <2>2. CASE pump = NoPump
    <3>1. ~pump.on BY <2>2 DEF NoPump
    <3> QED BY <1>1, <2>1, <3>1 DEF PipelineInd, Fit, VideoTypeOK
  <2>3. CASE PumpFit(pump)
    <3>1. pump.next \in 1..(MaxFrames * 2 + 1)
      BY <1>1, <2>3, PipelineAssumption DEF PipelineInd, Fit, PumpFit, FitAt
    <3>2. pump.driver \in Drivers \cup {Software} /\ pump.config \in Configs \cup {NoConfig}
      BY <2>3 DEF PumpFit, FitAt, PumpShape
    <3> QED BY <1>1, <2>1, <2>3, <3>1, <3>2 DEF PipelineInd, Fit, VideoTypeOK, PumpFit, FitAt, Idle
  <2> QED BY <1>1, <2>2, <2>3 DEF PipelineInd, Fit
<1> QED BY <1>1, PipelineInvariance, PTL

\* An access unit carries the capture time of the frame it shows.
THEOREM UnitsAreLabelled == PipelineSpec => []LabelsMatch
<1>1. PipelineInd => LabelsMatch BY DEF PipelineInd, UnitFit, LabelsMatch
<1> QED BY <1>1, PipelineInvariance, PTL

\* The first access unit of every transform is a key frame.
THEOREM TransformsStartWithKeyframe == PipelineSpec => []StartsWithKeyframe
<1>1. PipelineInd => StartsWithKeyframe BY DEF PipelineInd, UnitFit, StartsWithKeyframe
<1> QED BY <1>1, PipelineInvariance, PTL

\* No image of a lost monitor, or of an old mode, is streamed.
THEOREM ImagesAreCurrent == PipelineSpec => []ImageIsCurrent
<1>1. PipelineInd => ImageIsCurrent BY DEF PipelineInd, UnitFit, ImageIsCurrent
<1> QED BY <1>1, PipelineInvariance, PTL

\* A pump that runs under an override is the one made for it.
THEOREM OverrideIsObeyed == PipelineSpec => []OverrideRules
<1>1. ASSUME PipelineInd PROVE OverrideRules
  <2>1. pump = NoPump => ~pump.on BY DEF NoPump
  <2> QED BY <1>1, <2>1 DEF PipelineInd, Fit, PumpFit, FitAt, OverrideRules
<1> QED BY <1>1, PipelineInvariance, PTL

\* Sequence numbers rise, through the fall-back to the software encoder too.
THEOREM SequencesRise == PipelineSpec => SequencesIncrease
<1>1. ASSUME PipelineInd, [PipelineNext]_pipeline
      PROVE  [unit' # unit /\ unit' # NoUnit /\ pump.on => unit'.sequence > pump.sent]_pipeline
  <2>1. CASE VideoTick BY <1>1, <2>1, TickFits DEF PipelineInd
  <2>2. CASE \/ \E c \in Clients : ClientLeaves(c) \/ \E config \in Configs : ClientConfigures(c, config)
             \/ \E config \in Configs : OperatorOverrides(config)
             \/ OperatorClears
    BY <1>1, <2>2, PumpStepFits DEF PipelineInd
  <2>3. CASE MonitorStep BY <1>1, <2>3, MonitorStepFits DEF PipelineInd
  <2>4. CASE UNCHANGED pipeline BY <2>4
  <2> QED BY <1>1, <2>1, <2>2, <2>3, <2>4 DEF PipelineNext, PumpStep
<1> QED BY <1>1, PipelineInvariance, PTL DEF PipelineSpec, SequencesIncrease

(***************************************************************************)
(* The picture and the pointer.                                            *)
(***************************************************************************)
\* The rotation of an image undoes what Windows did to the panel.
LEMMA RotationIsUndone ==
  ASSUME NEW w \in Nat, NEW h \in Nat, NEW rotation \in Angles,
         NEW p \in Area(RotatedSize([width |-> w, height |-> h], rotation))
  PROVE  InImage([width |-> w, height |-> h], rotation, p) = p
<1> DEFINE panel == [width |-> w, height |-> h]
<1>1. p.x \in Int /\ p.y \in Int /\ p = [x |-> p.x, y |-> p.y]
  BY DEF Area, RotatedSize, Sideways
<1>2. CASE rotation = 0
  BY <1>1, <1>2 DEF InImage, Rotated, OnPanel
<1>3. CASE rotation = 90
  BY <1>1, <1>3 DEF InImage, Rotated, OnPanel, Point, RotatedSize, Sideways
<1>4. CASE rotation = 180
  BY <1>1, <1>4 DEF InImage, Rotated, OnPanel, Point, RotatedSize, Sideways
<1>5. CASE rotation = 270
  BY <1>1, <1>5 DEF InImage, Rotated, OnPanel, Point, RotatedSize, Sideways
<1> QED BY <1>2, <1>3, <1>4, <1>5 DEF Angles

DisplaySet == [panel : Panels, rotation : Rotations, origin : {Origins[1], Origins[2]}]

\* What is seen at a pixel of the view is what an image never turned would show.
LEMMA SeenUpright ==
  ASSUME NEW d \in DisplaySet, NEW view, NEW at
  PROVE  Seen(d, view, at) =
           {Moved(p, d.origin) : p \in Under(view, Descriptor(d).size, at)}
<1> DEFINE size == Descriptor(d).size
           under == Under(view, size, at)
<1>1. PICK w \in Nat, h \in Nat : d.panel = [width |-> w, height |-> h]
  <2>1. d.panel \in [width : Nat \ {0}, height : Nat \ {0}]
    BY GeometryAssumption DEF DisplaySet
  <2> QED BY <2>1
<1>2. d.rotation \in Angles BY GeometryAssumption DEF DisplaySet
<1>3. size = RotatedSize(d.panel, d.rotation) BY DEF Descriptor
<1>4. \A p \in Area(size) : InImage(d.panel, d.rotation, p) = p
  BY <1>1, <1>2, <1>3, RotationIsUndone
<1>5. under \subseteq Area(size) BY DEF Under
<1>6. Seen(d, view, at) =
        {Moved(p, d.origin) : p \in {p \in Area(size) : InImage(d.panel, d.rotation, p) \in under}}
  BY DEF Seen
<1> HIDE DEF size, under
<1>7. {p \in Area(size) : InImage(d.panel, d.rotation, p) \in under} = under
  BY <1>4, <1>5
<1> QED BY <1>6, <1>7 DEF size, under

DesktopOK == desktop \in Seq(DisplaySet)
GeometryInd == DesktopOK /\ PictureIsUpright

LEMMA GeometryStepAgrees ==
  ASSUME GeometryInd, [GeometryNext]_geometry
  PROVE  GeometryInd'
<1>1. ASSUME NEW view, NEW at, PointAt(view, at) PROVE GeometryInd'
  <2> DEFINE d == desktop[shown]
  <2>1. d \in DisplaySet
    BY <1>1 DEF PointAt, GeometryInd, DesktopOK
  <2>2. pointed' = [happened |-> TRUE, display |-> d, view |-> view, at |-> at,
                    sees |-> Seen(d, view, at), lands |-> Lands(mapper, at)]
        /\ UNCHANGED <<desktop, mapper>>
    BY <1>1 DEF PointAt
  <2> HIDE DEF d
  <2>3. Seen(d, view, at) = {Moved(p, d.origin) : p \in Under(view, Descriptor(d).size, at)}
    BY <2>1, SeenUpright
  <2> QED BY <2>2, <2>3 DEF GeometryInd, DesktopOK, PictureIsUpright
<1>2. ASSUME NEW display, Show(display) PROVE GeometryInd'
  BY <1>2 DEF Show, NoEvent, GeometryInd, DesktopOK, PictureIsUpright
<1>3. ASSUME NEW display \in DOMAIN desktop, NEW rotation \in Rotations, ChangeDisplay(display, rotation)
      PROVE  GeometryInd'
  <2>1. [desktop[display] EXCEPT !.rotation = rotation] \in DisplaySet
    <3>1. desktop[display] \in DisplaySet
      BY DEF GeometryInd, DesktopOK
    <3> QED BY <3>1 DEF DisplaySet
  <2>2. desktop' \in Seq(DisplaySet)
    BY <1>3, <2>1 DEF ChangeDisplay, GeometryInd, DesktopOK
  <2> QED BY <1>3, <2>2 DEF ChangeDisplay, NoEvent, GeometryInd, DesktopOK, PictureIsUpright
<1>4. CASE UNCHANGED geometry
  BY <1>4 DEF geometry, GeometryInd, DesktopOK, PictureIsUpright
<1> QED BY <1>1, <1>2, <1>3, <1>4 DEF GeometryNext

LEMMA GeometryInitAgrees ==
  ASSUME GeometryInit
  PROVE  GeometryInd
<1>1. Displays(1) \subseteq DisplaySet /\ Displays(2) \subseteq DisplaySet
  BY DEF Displays, DisplaySet
<1>2. desktop \in Seq(DisplaySet)
  <2>1. CASE \E d \in Displays(1) : desktop = <<d>>
    BY <1>1, <2>1
  <2>2. CASE \E d \in Displays(1), e \in Displays(2) : desktop = <<d, e>>
    BY <1>1, <2>2
  <2> QED BY <2>1, <2>2 DEF GeometryInit
<1>3. pointed = NoEvent
  BY DEF GeometryInit
<1>4. PictureIsUpright
  BY <1>3 DEF NoEvent, PictureIsUpright
<1> QED BY <1>2, <1>4 DEF GeometryInd, DesktopOK

\* The picture is upright whatever the angle and the sizes of panel and view.
THEOREM PictureAlwaysUpright == GeometrySpec => []PictureIsUpright
<1>1. GeometryInd => PictureIsUpright BY DEF GeometryInd
<1> QED BY <1>1, GeometryInitAgrees, GeometryStepAgrees, PTL DEF GeometrySpec

(***************************************************************************)
(* The numbers of the video path: settings.                                *)
(***************************************************************************)
\* What is asked for: by a client, by the operator, by a saved file.
Requests ==
  [fps : Nat, kbps : Nat, keyframe_ms : Nat, codec : STRING, low_latency : BOOLEAN]
DisplaySizes == [width : Nat, height : Nat]

LEMMA Clamped ==
  ASSUME NEW n \in Int, NEW low \in Int, NEW high \in Int, low <= high
  PROVE  /\ Between(Clamp(n, low, high), low, high)
         /\ low <= n /\ n <= high => Clamp(n, low, high) = n
BY DEF Clamp, Between

LEMMA BitrateInRange ==
  ASSUME NEW pixels \in Nat
  PROVE  Between(BitrateFor(pixels), 4000, 60000)
<1>1. (5 * pixels + 288) \div 576 \in Int
  OBVIOUS
<1> QED BY <1>1, Clamped DEF BitrateFor

\* Key frames are 7 to 1200 frames apart.
LEMMA GopInRange ==
  ASSUME NEW fps \in Int, NEW ms \in Int, 30 <= fps, fps <= 120, 250 <= ms, ms <= 10000
  PROVE  Between((fps * ms) \div 1000, 7, 1200)
<1>1. fps * ms \in Int /\ fps * ms >= 7500 /\ fps * ms <= 1200000
  OBVIOUS
<1>2. ASSUME NEW n \in Int, n >= 7500, n <= 1200000
      PROVE  Between(n \div 1000, 7, 1200)
  BY <1>2 DEF Between
<1> QED BY <1>1, <1>2

\* Frames are 8333 to 33333 microseconds apart.
LEMMA IntervalInRange ==
  ASSUME NEW fps \in Int, 30 <= fps, fps <= 120
  PROVE  Between(FrameInterval(fps), 8333, 33333)
<1>1. Between(1000000 \div fps, 8333, 33333)
  BY DEF Between
<1> QED BY <1>1 DEF FrameInterval

\* Whatever a client, an operator or a saved file asks for, the encoder is
\* given a frame rate, a bit rate and a distance of key frames in their range,
\* and the size of the display (encoder_settings_for_display).
THEOREM SettingsAreInRange ==
  ASSUME NEW size \in DisplaySizes, NEW request \in Requests \cup {NoRequest}
  PROVE  InRange(SettingsFor(size, request)) /\ SettingsFor(size, request).size = size
<1> DEFINE s == SettingsFor(size, request)
<1>1. /\ Between(s.fps, 30, 120) /\ Between(s.kbps, 4000, 120000)
      /\ Between(s.keyframe_ms, 250, 10000) /\ s.size = size
  <2>1. CASE request = NoRequest
    <3>1. size.width * size.height \in Nat
      BY DEF DisplaySizes
    <3>2. Between(BitrateFor(size.width * size.height), 4000, 60000)
      BY <3>1, BitrateInRange
    <3>3. s = [size |-> size, codec |-> "H264", fps |-> 60,
               kbps |-> BitrateFor(size.width * size.height),
               keyframe_ms |-> 1000, low_latency |-> TRUE]
      BY <2>1 DEF SettingsFor, LowLatency
    <3> HIDE DEF s
    <3> QED BY <3>2, <3>3 DEF Between
  <2>2. CASE request # NoRequest
    <3>1. request.fps \in Int /\ request.kbps \in Int /\ request.keyframe_ms \in Int
      BY <2>2 DEF Requests
    <3>2. /\ Between(Clamp(request.fps, 30, 120), 30, 120)
          /\ Between(Clamp(request.kbps, 4000, 120000), 4000, 120000)
          /\ Between(Clamp(request.keyframe_ms, 250, 10000), 250, 10000)
      BY <3>1, Clamped
    <3>3. /\ s.fps = Clamp(request.fps, 30, 120)
          /\ s.kbps = Clamp(request.kbps, 4000, 120000)
          /\ s.keyframe_ms = Clamp(request.keyframe_ms, 250, 10000)
          /\ s.size = size
      BY <2>2 DEF SettingsFor
    <3> HIDE DEF s
    <3> QED BY <3>2, <3>3
  <2> QED BY <2>1, <2>2
<1> HIDE DEF s
<1>2. Between((s.fps * s.keyframe_ms) \div 1000, 7, 1200) /\ Between(FrameInterval(s.fps), 8333, 33333)
  BY <1>1, GopInRange, IntervalInRange DEF Between
<1>3. ASSUME NEW n, Between(n, 7, 1200) PROVE Clamp(n, 1, MostFrames) = n
  BY <1>3 DEF Clamp, Between, MostFrames
<1>4. GopFrames(s) = (s.fps * s.keyframe_ms) \div 1000
  BY <1>2, <1>3 DEF GopFrames
<1>5. InRange(s)
  BY <1>1, <1>2, <1>4 DEF InRange
<1> QED BY <1>1, <1>5 DEF s

(***************************************************************************)
(* Samples.                                                                *)
(***************************************************************************)
LEMMA Luminance ==
  ASSUME NEW r \in Int, NEW g \in Int, NEW b \in Int,
         0 <= r, r <= 255, 0 <= g, g <= 255, 0 <= b, b <= 255
  PROVE  Between(RawY(r, g, b), 16, 235)
<1>1. 47 * r + 157 * g + 16 * b + 128 >= 0 /\ 47 * r + 157 * g + 16 * b + 128 <= 56319
  OBVIOUS
<1>2. ASSUME NEW n \in Int, n >= 0, n <= 56319 PROVE Between(16 + (n \div 256), 16, 235)
  BY <1>2 DEF Between
<1> QED BY <1>1, <1>2 DEF RawY

LEMMA BlueDifference ==
  ASSUME NEW r \in Int, NEW g \in Int, NEW b \in Int,
         0 <= r, r <= 255, 0 <= g, g <= 255, 0 <= b, b <= 255
  PROVE  Between(RawU(r, g, b), 15, 240)
<1>1. /\ -26 * r - 87 * g + 112 * b + 128 >= -28928
      /\ -26 * r - 87 * g + 112 * b + 128 <= 28927
  OBVIOUS
<1>2. ASSUME NEW n \in Int, n >= -28928, n <= 28927 PROVE Between(128 + (n \div 256), 15, 240)
  BY <1>2 DEF Between
<1> QED BY <1>1, <1>2 DEF RawU

LEMMA RedDifference ==
  ASSUME NEW r \in Int, NEW g \in Int, NEW b \in Int,
         0 <= r, r <= 255, 0 <= g, g <= 255, 0 <= b, b <= 255
  PROVE  Between(RawV(r, g, b), 16, 240)
<1>1. /\ 112 * r - 102 * g - 10 * b + 128 >= -28672
      /\ 112 * r - 102 * g - 10 * b + 128 <= 28927
  OBVIOUS
<1>2. ASSUME NEW n \in Int, n >= -28672, n <= 28927 PROVE Between(128 + (n \div 256), 16, 240)
  BY <1>2 DEF Between
<1> QED BY <1>1, <1>2 DEF RawV

\* Of the three samples only one ever leaves the range of video: clamping
\* changes nothing but a blue difference of 15 (limited_y, limited_u, limited_v).
THEOREM SamplesAreInRange ==
  ASSUME NEW r \in Int, NEW g \in Int, NEW b \in Int,
         0 <= r, r <= 255, 0 <= g, g <= 255, 0 <= b, b <= 255
  PROVE  /\ LimitedY(r, g, b) = RawY(r, g, b)
         /\ LimitedU(r, g, b) = IF RawU(r, g, b) = 15 THEN 16 ELSE RawU(r, g, b)
         /\ LimitedV(r, g, b) = RawV(r, g, b)
<1>1. Between(RawY(r, g, b), 16, 235)
  BY Luminance
<1>2. Between(RawU(r, g, b), 15, 240)
  BY BlueDifference
<1>3. Between(RawV(r, g, b), 16, 240)
  BY RedDifference
<1> QED BY <1>1, <1>2, <1>3 DEF LimitedY, LimitedU, LimitedV, Clamp, Between
=============================================================================
