--------------------------- MODULE FlushSchedule ---------------------------
(***************************************************************************)
(* The outbound queues of the host's backend with more packets than one    *)
(* flush may send: packets are queued and flushes happen in any order, and *)
(* the schedule and its cursor decide who is served.  A packet is known by *)
(* its channel only; order, counters and accounting are MediaPath's.       *)
(***************************************************************************)
EXTENDS OutboundQueues

CONSTANTS
  Sending,   \* channels on which packets are queued
  MaxDrops   \* bound on packets dropped by a full queue

ASSUME ScheduleAssumption == Sending \subseteq Channels /\ MaxDrops \in Nat

VARIABLES
  line,    \* OutboundPacketQueues
  flush    \* output port: whether the last step was a flush, whether the
           \* socket held it up, and the channels it sent packets of

scheduleVars == <<line, flush>>

NoFlush == [happened |-> FALSE, held |-> FALSE, served |-> {}]

\* OutboundPacketQueues::push.
Enqueue(c) ==
  /\ IsFull(line, c) => line.dropped < MaxDrops
  /\ line' = Push(line, [channel |-> c])
  /\ flush' = NoFlush

\* flush_outbound_control: each packet popped is accepted by the socket, but
\* the last one of a flush that is held up.
FlushOutbound ==
  \E f \in Flushes(line) :
    /\ line' = Flushed(line, f)
    /\ flush' = [happened |-> TRUE, held |-> f.held,
                 served |-> {Popping(line, f)[i].channel : i \in 1..f.n}]

FlushInit == line = Empty /\ flush = NoFlush
FlushNext == FlushOutbound \/ \E c \in Sending : Enqueue(c)
FlushSpec == FlushInit /\ [][FlushNext]_scheduleVars

-----------------------------------------------------------------------------
\* A flush that the socket does not hold up sends a packet of every channel
\* that waits, however many packets of the others are queued and wherever the
\* last flush has left the cursor.
NoChannelStarves ==
  [][flush'.happened /\ ~flush'.held
       => \A c \in Channels : line.queues[c] # <<>> => c \in flush'.served]_scheduleVars
=============================================================================
