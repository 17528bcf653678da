--------------------------- MODULE OutboundQueues ---------------------------
(***************************************************************************)
(* OutboundPacketQueues of the host's backend as operators on a record     *)
(*   [queues |-> a sequence of packets per channel,                        *)
(*    cursor |-> the next place in the schedule,                           *)
(*    dropped |-> packets dropped so far].                                 *)
(* A packet is a record with a field channel.  Only the flush reads them.  *)
(***************************************************************************)
EXTENDS Integers, Sequences, SequencesExt

CONSTANT QueueCap   \* packets per channel, 128 in the code

ASSUME QueueCapAssumption == QueueCap \in Nat \ {0}

Channels == {"Input", "Control", "Audio", "Video"}

\* OUTBOUND_QOS_SCHEDULE and OUTBOUND_FLUSH_BUDGET.
Schedule == <<"Input", "Control", "Input", "Audio", "Control", "Video", "Input", "Control">>
Budget == 8

Empty == [queues |-> [c \in Channels |-> <<>>], cursor |-> 0, dropped |-> 0]

Total(q) ==
  Len(q.queues["Input"]) + Len(q.queues["Control"]) + Len(q.queues["Audio"]) + Len(q.queues["Video"])

\* MUTANT of IsFull: the test comes one packet late.
IsFullLate(q, c) == Len(q.queues[c]) > QueueCap

IsFull(q, c) == Len(q.queues[c]) = QueueCap

\* A full queue drops its oldest packet to make room.
Push(q, p) ==
  LET c == p.channel
      kept == IF IsFull(q, c) THEN Tail(q.queues[c]) ELSE q.queues[c]
  IN [q EXCEPT !.queues[c] = Append(kept, p),
               !.dropped = IF IsFull(q, c) THEN @ + 1 ELSE @]

\* The packets ps, one after the other.
PushAll(q, ps) ==
  LET pushed[i \in 0..Len(ps)] == IF i = 0 THEN q ELSE Push(pushed[i-1], ps[i])
  IN pushed[Len(ps)]

\* MUTANT of PushFront: a packet put back goes to the end.
PushBack(q, p) == Push(q, p)

\* A packet put back goes first again, and the newest makes room.
PushFront(q, p) ==
  LET c == p.channel
      kept == IF IsFull(q, c) THEN Front(q.queues[c]) ELSE q.queues[c]
  IN [q EXCEPT !.queues[c] = <<p>> \o kept,
               !.dropped = IF IsFull(q, c) THEN @ + 1 ELSE @]

\* The first place of the schedule, from the cursor round, with a packet.
At(q, offset) == (q.cursor + offset) % Len(Schedule)
ChannelAt(q, offset) == Schedule[At(q, offset) + 1]
Waiting(q) == {k \in 0..Len(Schedule) - 1 : q.queues[ChannelAt(q, k)] # <<>>}
NextOffset(q) == CHOOSE k \in Waiting(q) : \A j \in Waiting(q) : k <= j

\* The packet a pop returns.
Popped(q) == Head(q.queues[ChannelAt(q, NextOffset(q))])

\* MUTANT of Rest: a pop does not move the cursor.
RestInPlace(q) == [q EXCEPT !.queues[Popped(q).channel] = Tail(@)]

\* The queues it leaves, with the cursor behind the place served.
Rest(q) ==
  [q EXCEPT !.queues[Popped(q).channel] = Tail(@),
            !.cursor = (At(q, NextOffset(q)) + 1) % Len(Schedule)]

\* The queues after k pops, for the k there are packets for.
After(q) ==
  LET f[k \in 0..Budget] ==
        IF k = 0 THEN q ELSE Rest(f[k-1])
  IN f

\* How many packets a flush that is never held up sends.
Reach(q) == IF Total(q) < Budget THEN Total(q) ELSE Budget

\* The flushes of q: n packets are accepted by the socket, and the next, if
\* the flush is held up, is popped and put back.
Flushes(q) == {f \in [n : 0..Budget, held : BOOLEAN] :
                 IF f.held THEN f.n < Reach(q) ELSE f.n = Reach(q)}

Attempts(f) == IF f.held THEN f.n + 1 ELSE f.n
Popping(q, f) == [i \in 1..Attempts(f) |-> Popped(After(q)[i-1])]

\* MUTANT of Flushed: the packet the socket turned down is gone.
FlushedAndGone(q, f) == After(q)[Attempts(f)]

\* The queues the flush leaves.
Flushed(q, f) ==
  IF f.held THEN PushFront(After(q)[f.n + 1], Popped(After(q)[f.n])) ELSE After(q)[f.n]

=============================================================================
