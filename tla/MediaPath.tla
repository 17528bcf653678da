----------------------------- MODULE MediaPath -----------------------------
(***************************************************************************)
(* A secure session carries the screen of the host to the client: the      *)
(* video pump and the replies of the router fill the outbound queues, the  *)
(* flush seals and sends them, the network does as it likes, and the       *)
(* client opens the datagrams and puts the video frames together again.    *)
(*                                                                         *)
(* A frame is named by the pump that encoded it and its sequence number.   *)
(* Every pump starts a new encoder, which numbers its frames from 1.       *)
(***************************************************************************)
EXTENDS SecureDatagrams, OutboundQueues

CONSTANTS
  Tails,        \* lengths the last fragment of a frame may have
  MaxCount,     \* bound on the fragments of a frame
  MaxFrames,    \* bound on the frames of one pump
  MaxPumps,     \* bound on the pumps started
  MaxReplies,   \* bound on the replies the router queues
  MaxCounter    \* bound on the counters taken

ASSUME MediaAssumption ==
  /\ Tails # {}
  /\ {MaxCount, MaxFrames, MaxPumps, MaxReplies, MaxCounter} \subseteq Nat
  /\ MaxPumps # 0   \* the first pump runs from the start

VARIABLES
  pump,      \* the running pump's number, or 0 when it has failed
  pumps,     \* pumps started so far
  frames,    \* frames the latest pump has encoded: next_sequence - 1
  override,  \* the operator has set an encoder configuration
  outbound,  \* the outbound queues
  metrics,   \* packets queued and sent
  attached,  \* the client's surface and decoder exist
  pending,   \* the reassembler: frames begun, by sequence number
  received,  \* history: fragments given to the reassembler since its last reset
  completed  \* history: access units put together, as lists of fragments

pumpVars == <<pump, pumps, frames, override>>
hostVars == <<pumpVars, outbound, metrics>>
clientVars == <<attached, pending, received, completed>>
mediaVars == <<hostVars, sealVars, windowVars, clientVars>>

MediaInit ==
  /\ pump = 1 /\ pumps = 1 /\ frames = 0 /\ override = FALSE
  /\ outbound = Empty
  /\ metrics = [queued |-> 0, sent |-> 0, replies |-> 0]
  /\ SealInit
  /\ attached = FALSE
  /\ pending = [sequence \in {} |-> {}]
  /\ received = {}
  /\ completed = <<>>

(***************************************************************************)
(* The host is one thread.  A flush is one of Flushes(q); where a call of  *)
(* poll_control flushes twice, what it queues goes in between.             *)
(***************************************************************************)
Fragment(sequence, index, count, tail) ==
  [channel |-> "Video", pump |-> pump, sequence |-> sequence,
   index |-> index, count |-> count, tail |-> tail]

Fragments(count, tail) == [i \in 1..count |-> Fragment(frames + 1, i, count, tail)]

Reply == [channel |-> "Control", id |-> metrics.replies + 1]

\* The queues become q, with ps queued, and are flushed.
FlushOnce(q, ps) ==
  \E f \in Flushes(q) :
    /\ sendCounter + Attempts(f) <= MaxCounter
    /\ Seal(Attempts(f), Popping(q, f), 1..f.n)
    /\ outbound' = Flushed(q, f)
    /\ metrics' = [metrics EXCEPT !.queued = @ + Len(ps), !.sent = @ + f.n]

\* A call of poll_control that handles a packet and answers it with ps.
FlushTwice(ps) ==
  \E f \in Flushes(outbound) :
    LET q == PushAll(Flushed(outbound, f), ps) IN
    \E g \in Flushes(q) :
      LET n == Attempts(f) + Attempts(g)
          packet == Popping(outbound, f) \o Popping(q, g)
          taken == 1..f.n \cup {Attempts(f) + i : i \in 1..g.n}
      IN /\ sendCounter + n <= MaxCounter
         /\ Seal(n, packet, taken)
         /\ outbound' = Flushed(q, g)
         /\ metrics' = [queued |-> metrics.queued + Len(ps), sent |-> metrics.sent + f.n + g.n,
                        replies |-> metrics.replies + Len(ps)]

\* poll_control with nothing to receive, or with a packet that is refused.
PollIdle == FlushOnce(outbound, <<>>) /\ UNCHANGED pumpVars

\* poll_control with a packet that is answered, a latency ping for one.
PollReplies ==
  /\ metrics.replies < MaxReplies
  /\ FlushTwice(<<Reply>>)
  /\ UNCHANGED pumpVars

\* The main loop's tick of the pump: capture, encode, packetize, queue, flush.
VideoTick ==
  /\ pump # 0 /\ frames < MaxFrames
  /\ \E count \in 1..MaxCount, tail \in Tails :
       FlushOnce(PushAll(outbound, Fragments(count, tail)), Fragments(count, tail))
  /\ frames' = frames + 1
  /\ UNCHANGED <<pump, pumps, override>>

\* Capturing or encoding fails, and the main loop drops the pump.
PumpFails ==
  /\ pump # 0
  /\ pump' = 0
  /\ UNCHANGED <<pumps, frames, override, outbound, metrics, sealVars>>

\* create_runtime_video_pump: another encoder, or none.
NewPump ==
  /\ pumps < MaxPumps
  /\ pumps' = pumps + 1
  /\ pump' \in {0, pumps + 1}
  /\ frames' = 0

\* poll_control with the client's EncoderConfig, which yields to an override.
ConfigReceived ==
  /\ FlushTwice(<<>>)
  /\ IF override THEN UNCHANGED <<pump, pumps, frames>> ELSE NewPump
  /\ UNCHANGED override

\* The operator sets an encoder configuration, or clears it.
OverrideChanges ==
  /\ NewPump
  /\ override' \in BOOLEAN
  /\ UNCHANGED <<outbound, metrics, sealVars>>

HostStep ==
  PollIdle \/ PollReplies \/ VideoTick \/ PumpFails \/ ConfigReceived \/ OverrideChanges

(***************************************************************************)
(* The client.                                                             *)
(***************************************************************************)
\* MUTANT of Begun: the reassembler has one place, not one per frame.
AnyBegun(x) == UNION {pending[s] : s \in DOMAIN pending}

\* The fragments at hand of the frame x belongs to.
Begun(x) == IF x.sequence \in DOMAIN pending THEN pending[x.sequence] ELSE {}

CountChanged(x) == \E y \in Begun(x) : y.count # x.count
Taken(x) == IF \E y \in Begun(x) : y.index = x.index THEN Begun(x) ELSE Begun(x) \cup {x}
IsWhole(ys, x) == Cardinality(ys) = x.count

\* MUTANT of Without: a complete frame clears the others.
WithoutAny(sequence) == [s \in {} |-> {}]

\* What is pending when a frame is complete.
Without(sequence) == [s \in DOMAIN pending \ {sequence} |-> pending[s]]
Joined(ys, x) == [i \in 1..x.count |-> CHOOSE y \in ys : y.index = i]

\* decodeAccessUnit: the length in the first fragment is that of the whole.
LengthMatches(unit) == unit[1].tail = unit[Len(unit)].tail

\* VideoFragmentReassembler.pushFragment; an exception leaves what it has done.
PushFragment(x) ==
  /\ received' = received \cup {x}
  /\ \/ /\ CountChanged(x)
        /\ UNCHANGED <<pending, completed>>
     \/ /\ ~CountChanged(x) /\ ~IsWhole(Taken(x), x)
        /\ pending' = [s \in DOMAIN pending \cup {x.sequence} |->
                         IF s = x.sequence THEN Taken(x) ELSE pending[s]]
        /\ UNCHANGED completed
     \/ /\ ~CountChanged(x) /\ IsWhole(Taken(x), x)
        /\ pending' = Without(x.sequence)
        /\ LET unit == Joined(Taken(x), x) IN
           completed' = IF LengthMatches(unit) THEN Append(completed, unit) ELSE completed

\* receiveTransportPacket and handleTransportPacket.  Video without a surface
\* has no controller to go to; replies are AndroidClient's.
ReceiveDatagram(d) ==
  /\ Open(d)
  /\ IF d.packet.channel = "Video" /\ attached
     THEN PushFragment(d.packet)
     ELSE UNCHANGED <<pending, received, completed>>
  /\ UNCHANGED attached

\* The surface is created or destroyed, and with it the decoder.
ResetReassembler ==
  /\ pending' = [sequence \in {} |-> {}]
  /\ received' = {}
  /\ UNCHANGED completed

SurfaceCreated == ~attached /\ attached' = TRUE /\ ResetReassembler
SurfaceDestroyed == attached /\ attached' = FALSE /\ ResetReassembler

ClientStep ==
  \/ \E d \in wire : ReceiveDatagram(d)
  \/ (SurfaceCreated \/ SurfaceDestroyed) /\ UNCHANGED windowVars

MediaNext ==
  \/ HostStep /\ UNCHANGED <<windowVars, clientVars>>
  \/ ClientStep /\ UNCHANGED <<hostVars, sealVars>>

MediaSpec == MediaInit /\ [][MediaNext]_mediaVars

(***************************************************************************)
(* Properties.                                                             *)
(***************************************************************************)
MediaTypeOK ==
  /\ SealTypeOK
  /\ pump \in {0, pumps} /\ pumps \in 1..MaxPumps /\ frames \in 0..MaxFrames
  /\ override \in BOOLEAN /\ attached \in BOOLEAN
  /\ \A c \in Channels : Len(outbound.queues[c]) <= QueueCap
  /\ \A c \in Channels, i \in 1..QueueCap :
       i <= Len(outbound.queues[c]) => outbound.queues[c][i].channel = c
  /\ outbound.cursor \in 0..Len(Schedule) - 1
  /\ \A s \in DOMAIN pending : \A x \in pending[s] :
       x.sequence = s /\ Cardinality(pending[s]) < x.count
  /\ ~attached => pending = [s \in {} |-> {}]

\* The counters of the health snapshot add up: every packet queued was sent,
\* was dropped from a full queue, or waits.  Being held up loses none.
MetricsAddUp == metrics.queued = metrics.sent + outbound.dropped + Total(outbound)

QueuedBefore(p, r) ==
  IF p.channel = "Control" THEN p.id < r.id
  ELSE \/ p.pump < r.pump
       \/ p.pump = r.pump /\ p.sequence < r.sequence
       \/ p.pump = r.pump /\ p.sequence = r.sequence /\ p.index < r.index

\* Each channel leaves in the order it was queued, no packet twice, through
\* every overflow and every packet put back.
ChannelsAreFifo ==
  \A d, e \in wire :
    d.packet.channel = e.packet.channel /\ d.counter < e.counter
      => QueuedBefore(d.packet, e.packet)

SameFrame(x, y) == x.pump = y.pump /\ x.sequence = y.sequence

\* Every access unit put together is one frame of the encoder.
UnitsAreFrames ==
  \A i \in DOMAIN completed : \A j, k \in DOMAIN completed[i] :
    SameFrame(completed[i][j], completed[i][k])

\* They are, as long as the pump is the first.
UnitsAreFramesOfOnePump == pumps = 1 => UnitsAreFrames

\* A frame all of whose fragments have arrived since the surface was created
\* has been put together once, unless another pump used its number.
FramesAreRebuilt ==
  \A x \in received :
    LET mine == {y \in received : SameFrame(x, y)} IN
    /\ Cardinality(mine) = x.count
    /\ \A y \in received : y.sequence = x.sequence => y.pump = x.pump
    => Cardinality({i \in DOMAIN completed : completed[i] = Joined(mine, x)}) = 1

=============================================================================
