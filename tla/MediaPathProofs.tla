-------------------------- MODULE MediaPathProofs --------------------------
(***************************************************************************)
(* The media path, for every window, every capacity of the queues and      *)
(* every bound.  Three invariants hold it together:                        *)
(*   TransportInd - what was sealed and opened, of which a step of the     *)
(*                  queues or of the reassembler is no more than a Seal    *)
(*                  or an Open;                                            *)
(*   HostInd      - what is queued and what was sent stand in one line;    *)
(*   ClientInd    - what the reassembler keeps, of all it was given.       *)
(***************************************************************************)
EXTENDS MediaPath, QueueProofs

Seals == \E n \in Nat : \E taken \in SUBSET (1..n) : \E packet : Seal(n, packet, taken)

TransportNext ==
  \/ Seals /\ UNCHANGED windowVars
  \/ (\E d \in wire : Open(d)) /\ UNCHANGED sealVars

\* What the window remembers, of all that was opened.
WindowHolds ==
  /\ \A d \in opened : d.counter <= highest
  /\ opened = {} <=> highest = 0
  /\ seen = {n \in 1..highest : n + Window > highest /\ \E d \in opened : d.counter = n}

TransportInd == SealTypeOK /\ CountersUnique /\ WindowHolds

(***************************************************************************)
(* Every step of the media path is one of the transport, or none.          *)
(***************************************************************************)
LEMMA FlushCounts ==
  ASSUME NEW q, NEW f \in Flushes(q)
  PROVE  f.n \in Nat /\ Attempts(f) \in Nat /\ f.n <= Attempts(f)
BY DEF Flushes, Attempts, Budget

LEMMA FlushOnceSeals ==
  ASSUME NEW q, NEW ps, FlushOnce(q, ps) PROVE Seals
<1>1. PICK f \in Flushes(q) : Seal(Attempts(f), Popping(q, f), 1..f.n)
  BY DEF FlushOnce
<1>2. f.n \in Nat /\ Attempts(f) \in Nat /\ f.n <= Attempts(f)
  BY <1>1, FlushCounts
<1>3. 1..f.n \in SUBSET (1..Attempts(f))
  BY <1>2
<1> QED BY <1>1, <1>2, <1>3 DEF Seals

LEMMA FlushTwiceSeals ==
  ASSUME NEW ps, FlushTwice(ps) PROVE Seals
<1>1. PICK f \in Flushes(outbound) :
        \E g \in Flushes(PushAll(Flushed(outbound, f), ps)) :
          Seal(Attempts(f) + Attempts(g),
               Popping(outbound, f) \o Popping(PushAll(Flushed(outbound, f), ps), g),
               1..f.n \cup {Attempts(f) + i : i \in 1..g.n})
  BY DEF FlushTwice
<1> DEFINE q == PushAll(Flushed(outbound, f), ps)
<1>2. PICK g \in Flushes(q) :
        Seal(Attempts(f) + Attempts(g), Popping(outbound, f) \o Popping(q, g),
             1..f.n \cup {Attempts(f) + i : i \in 1..g.n})
  BY <1>1
<1>3. f.n \in Nat /\ Attempts(f) \in Nat /\ f.n <= Attempts(f)
  BY <1>1, FlushCounts
<1>4. g.n \in Nat /\ Attempts(g) \in Nat /\ g.n <= Attempts(g)
  BY <1>2, FlushCounts
<1>5. 1..f.n \cup {Attempts(f) + i : i \in 1..g.n} \in SUBSET (1..(Attempts(f) + Attempts(g)))
  BY <1>3, <1>4
<1> QED BY <1>2, <1>3, <1>4, <1>5 DEF Seals

LEMMA HostStepSeals ==
  ASSUME HostStep PROVE Seals \/ UNCHANGED sealVars
<1>1. CASE PollIdle
  BY <1>1, FlushOnceSeals DEF PollIdle
<1>2. CASE PollReplies
  BY <1>2, FlushTwiceSeals DEF PollReplies
<1>3. CASE VideoTick
  BY <1>3, FlushOnceSeals DEF VideoTick
<1>4. CASE PumpFails
  BY <1>4 DEF PumpFails
<1>5. CASE ConfigReceived
  BY <1>5, FlushTwiceSeals DEF ConfigReceived
<1>6. CASE OverrideChanges
  BY <1>6 DEF OverrideChanges
<1> QED BY <1>1, <1>2, <1>3, <1>4, <1>5, <1>6 DEF HostStep

LEMMA StepIsTransport ==
  ASSUME [MediaNext]_mediaVars
  PROVE  TransportNext \/ UNCHANGED <<sealVars, windowVars>>
<1>1. CASE HostStep /\ UNCHANGED <<windowVars, clientVars>>
  BY <1>1, HostStepSeals DEF TransportNext
<1>2. CASE ClientStep /\ UNCHANGED <<hostVars, sealVars>>
  BY <1>2 DEF ClientStep, ReceiveDatagram, TransportNext
<1>3. CASE UNCHANGED mediaVars
  BY <1>3 DEF mediaVars
<1> QED BY <1>1, <1>2, <1>3 DEF MediaNext

(***************************************************************************)
(* The invariant.                                                          *)
(***************************************************************************)
LEMMA TransportInit ==
  ASSUME MediaInit PROVE TransportInd
BY DEF MediaInit, SealInit, TransportInd, SealTypeOK, CountersUnique, WindowHolds

LEMMA SealKeeps ==
  ASSUME TransportInd, Seals, UNCHANGED windowVars
  PROVE  TransportInd'
<1>1. PICK n \in Nat : \E taken \in SUBSET (1..n) : \E packet : Seal(n, packet, taken)
  BY DEF Seals
<1>2. PICK taken \in SUBSET (1..n) : \E packet : Seal(n, packet, taken)
  BY <1>1
<1>3. PICK packet : Seal(n, packet, taken)
  BY <1>2
<1> DEFINE New == {[counter |-> sendCounter + i - 1, packet |-> packet[i]] : i \in taken}
<1>4. sendCounter' = sendCounter + n /\ wire' = wire \cup New
  BY <1>3 DEF Seal
<1>5. \A d \in New : d.counter \in sendCounter..sendCounter' - 1
  BY <1>2, <1>4 DEF TransportInd, SealTypeOK
<1>6. \A d, e \in New : d.counter = e.counter => d = e
  <2> SUFFICES ASSUME NEW d \in New, NEW e \in New, d.counter = e.counter
               PROVE  d = e
    BY Zenon
  <2>1. PICK i \in taken : d = [counter |-> sendCounter + i - 1, packet |-> packet[i]]
    OBVIOUS
  <2>2. PICK j \in taken : e = [counter |-> sendCounter + j - 1, packet |-> packet[j]]
    OBVIOUS
  <2>3. i \in Nat /\ j \in Nat /\ sendCounter \in Nat
    BY <1>2 DEF TransportInd, SealTypeOK
  <2>4. sendCounter + i - 1 = sendCounter + j - 1
    BY <2>1, <2>2
  <2>5. i = j
    BY <2>3, <2>4
  <2> HIDE DEF New
  <2> QED BY <2>1, <2>2, <2>5
<1>7. SealTypeOK'
  BY <1>4 DEF TransportInd, SealTypeOK, windowVars
<1>8. CountersUnique'
  <2>1. \A d \in wire' : d.counter \in 1..sendCounter' - 1
    BY <1>4, <1>5 DEF TransportInd, SealTypeOK, CountersUnique
  <2>2. \A d, e \in wire' : d.counter = e.counter => d = e
    BY <1>4, <1>5, <1>6 DEF TransportInd, SealTypeOK, CountersUnique
  <2> QED BY <2>1, <2>2 DEF CountersUnique
<1>9. WindowHolds'
  BY DEF TransportInd, WindowHolds, windowVars
<1> QED BY <1>7, <1>8, <1>9 DEF TransportInd

\* A datagram whose counter is fresh has not been opened.
LEMMA FreshIsNew ==
  ASSUME TransportInd, NEW d \in wire
  PROVE  Fresh(d.counter) <=> d \notin opened /\ d.counter + Window > highest
<1>1. d.counter \in Nat \ {0} /\ highest \in Nat
  BY DEF TransportInd, CountersUnique, SealTypeOK
<1>2. d.counter \in seen <=> d \in opened /\ d.counter + Window > highest
  BY <1>1, WindowAssumption DEF TransportInd, CountersUnique, SealTypeOK, WindowHolds
<1>3. highest = 0 => d.counter + Window > highest
  BY <1>1, WindowAssumption
<1> QED BY <1>1, <1>2, <1>3 DEF Fresh

LEMMA OpenKeeps ==
  ASSUME TransportInd, NEW d \in wire, Open(d), UNCHANGED sealVars
  PROVE  TransportInd' /\ d \notin opened
<1> DEFINE n == d.counter
<1>1. /\ n \in 1..sendCounter - 1 /\ highest \in 0..sendCounter - 1
      /\ sendCounter \in Nat \ {0}
  BY DEF TransportInd, CountersUnique, SealTypeOK
<1>2. d \notin opened
  BY FreshIsNew DEF Open
<1>3. /\ highest' \in 1..sendCounter - 1
      /\ highest' >= highest /\ highest' >= n /\ highest' \in {highest, n}
  BY <1>1 DEF Open, Higher
<1>4. highest' = Higher(n) /\ seen' = InWindow(seen \cup {n}, highest') /\ opened' = opened \cup {d}
  BY DEF Open
<1>5. SealTypeOK'
  <2>1. seen \subseteq 1..highest /\ opened \subseteq wire
    BY DEF TransportInd, SealTypeOK
  <2>2. seen' \subseteq seen \cup {n}
    BY <1>4 DEF InWindow
  <2>3. seen' \subseteq 1..highest'
    BY <1>1, <1>3, <2>1, <2>2
  <2>4. sendCounter' = sendCounter /\ wire' = wire
    BY DEF sealVars
  <2>5. opened' \subseteq wire'
    BY <1>4, <2>1, <2>4
  <2>6. highest' \in 0..sendCounter' - 1
    BY <1>1, <1>3, <2>4
  <2> QED BY <1>1, <2>3, <2>4, <2>5, <2>6 DEF SealTypeOK
<1>6. CountersUnique'
  BY DEF TransportInd, CountersUnique, sealVars
<1>7. WindowHolds'
  <2>1. \A e \in opened' : e.counter <= highest'
    BY <1>1, <1>3, <1>4 DEF TransportInd, WindowHolds, SealTypeOK, CountersUnique
  <2>2. opened' # {} /\ highest' # 0
    BY <1>3, <1>4
  <2>3. ASSUME NEW m
        PROVE  m \in seen' <=> m \in {k \in 1..highest' :
                 k + Window > highest' /\ \E e \in opened' : e.counter = k}
    BY <1>1, <1>3, <1>4, WindowAssumption
      DEF InWindow, TransportInd, WindowHolds, SealTypeOK, CountersUnique
  <2>4. seen' = {k \in 1..highest' : k + Window > highest' /\ \E e \in opened' : e.counter = k}
    BY <2>3
  <2> QED BY <2>1, <2>2, <2>4 DEF WindowHolds
<1> QED BY <1>2, <1>5, <1>6, <1>7 DEF TransportInd

LEMMA StepKeeps ==
  ASSUME TransportInd, [MediaNext]_mediaVars PROVE TransportInd'
<1>1. CASE Seals /\ UNCHANGED windowVars
  BY <1>1, SealKeeps
<1>2. CASE (\E d \in wire : Open(d)) /\ UNCHANGED sealVars
  BY <1>2, OpenKeeps
<1>3. CASE UNCHANGED <<sealVars, windowVars>>
  BY <1>3 DEF TransportInd, SealTypeOK, CountersUnique, WindowHolds, sealVars, windowVars
<1> QED BY <1>1, <1>2, <1>3, StepIsTransport DEF TransportNext

(***************************************************************************)
(* The theorems.                                                           *)
(***************************************************************************)
\* The invariant of the sealed transport (SecureDatagramCodec, ReplayGuard).
THEOREM TransportInvariance == MediaSpec => []TransportInd
<1>1. MediaInit => TransportInd
  BY TransportInit
<1>2. TransportInd /\ [MediaNext]_mediaVars => TransportInd'
  BY StepKeeps
<1> QED BY <1>1, <1>2, PTL DEF MediaSpec

\* SecureDatagramCodec.seal never uses a counter, so a nonce, for two
\* datagrams, however many attempts the socket turns down.
THEOREM CountersAreUnique == MediaSpec => []CountersUnique
<1>1. TransportInd => CountersUnique
  BY DEF TransportInd
<1> QED BY <1>1, TransportInvariance, PTL

\* ReplayGuard.accept, which forgets what lies behind its window, decides as
\* if it remembered everything.
THEOREM WindowDecidesExactly == MediaSpec => []WindowIsExact
<1>1. TransportInd => WindowIsExact
  BY FreshIsNew DEF WindowIsExact
<1> QED BY <1>1, TransportInvariance, PTL

\* The sealed transport implements a channel that delivers at most once.
THEOREM DeliversAtMostOnce == MediaSpec => AtMostOnce
<1>1. MediaInit => Channel!ChannelInit
  BY DEF MediaInit, SealInit, Channel!ChannelInit
<1>2. TransportInd /\ [MediaNext]_mediaVars
        => [Channel!Offer \/ Channel!Deliver]_(Channel!channelVars)
  <2> SUFFICES ASSUME TransportInd, [MediaNext]_mediaVars
               PROVE  [Channel!Offer \/ Channel!Deliver]_(Channel!channelVars)
    OBVIOUS
  <2>1. CASE Seals /\ UNCHANGED windowVars
    BY <2>1 DEF Seals, Seal, windowVars, Channel!Offer
  <2>2. CASE (\E d \in wire : Open(d)) /\ UNCHANGED sealVars
    <3>1. PICK d \in wire : Open(d)
      BY <2>2
    <3>2. d \notin opened
      BY <3>1, <2>2, OpenKeeps
    <3> QED BY <2>2, <3>1, <3>2 DEF Open, sealVars, Channel!Deliver
  <2>3. CASE UNCHANGED <<sealVars, windowVars>>
    BY <2>3 DEF sealVars, windowVars, Channel!channelVars
  <2> QED BY <2>1, <2>2, <2>3, StepIsTransport DEF TransportNext
<1> QED BY <1>1, <1>2, TransportInvariance, PTL DEF AtMostOnce, Channel!ChannelSpec, MediaSpec
(***************************************************************************)
(* The host: what is queued and what was sent stand in one line.  P are    *)
(* the packets made so far, q the queues, W the datagrams on the network   *)
(* and n the counter of the next one.                                      *)
(***************************************************************************)
Line(P, q, W, n) ==
  /\ WellFormed(P, q)
  /\ n \in Nat
  /\ \A d \in W : d.packet \in P /\ d.counter \in Nat /\ d.counter < n
  /\ \A d, e \in W : d.packet.channel = e.packet.channel /\ d.counter < e.counter
       => QueuedBefore(d.packet, e.packet)
  /\ \A d \in W : \A c \in Channels : \A i \in 1..Len(q.queues[c]) :
       d.packet.channel = c => QueuedBefore(d.packet, q.queues[c][i])
  /\ \A c \in Channels : \A i, j \in 1..Len(q.queues[c]) :
       i < j => QueuedBefore(q.queues[c][i], q.queues[c][j])

\* The packets of k pops of q, sealed from the counter n on.
Sent(q, k, n) ==
  {[counter |-> n + i - 1, packet |-> Popped(After(q)[i-1])] : i \in 1..k}

LEMMA LineGrows ==
  ASSUME NEW P, NEW q, NEW W, NEW n, Line(P, q, W, n),
         NEW Q, P \subseteq Q, NEW m \in Nat, m >= n
  PROVE  Line(Q, q, W, m)
<1>1. WellFormed(Q, q)
  <2>1. \A s : s \in Seq(P) => s \in Seq(Q)
    OBVIOUS
  <2> QED BY <2>1 DEF Line, WellFormed, Queues
<1>2. \A d \in W : d.packet \in Q /\ d.counter \in Nat /\ d.counter < m
  BY DEF Line
<1> QED BY <1>1, <1>2 DEF Line

\* Only the queues matter: not the schedule, not what was dropped.
LEMMA LineSameQueues ==
  ASSUME NEW P, NEW q, NEW W, NEW n, Line(P, q, W, n),
         NEW r, WellFormed(P, r), r.queues = q.queues
  PROVE  Line(P, r, W, n)
BY DEF Line

LEMMA LinePops ==
  ASSUME NEW P, NEW q, NEW W, NEW n, Line(P, q, W, n), Total(q) > 0
  PROVE  Line(P, Rest(q), W \cup {[counter |-> n, packet |-> Popped(q)]}, n + 1)
<1> DEFINE p == Popped(q)
           c == p.channel
           s == q.queues[c]
           r == Rest(q)
           new == [counter |-> n, packet |-> p]
           V == W \cup {new}
<1>1. WellFormed(P, q) /\ n \in Nat
  BY DEF Line
<1>2. /\ p \in P /\ c \in Channels /\ s # <<>> /\ p = Head(s)
      /\ r.queues = [q.queues EXCEPT ![c] = Tail(s)]
      /\ WellFormed(P, r)
  BY <1>1, PopFacts
<1>3. s \in Seq(P) /\ q.queues \in [Channels -> Seq(P)]
  BY <1>1, <1>2, QueueTypes
<1>4. new.counter = n /\ new.packet = p
  OBVIOUS
<1>5. \A d \in W : d.counter < n /\ d.counter \in Nat /\ d.packet \in P
  BY DEF Line
<1> HIDE DEF p, c, s, r, new
<1>6. /\ Len(s) \in Nat /\ Len(s) > 0 /\ p = s[1] /\ Len(Tail(s)) = Len(s) - 1
      /\ \A i \in 1..Len(Tail(s)) : Tail(s)[i] = s[i+1] /\ i + 1 \in 1..Len(s)
  BY <1>2, <1>3
<1>7. /\ r.queues[c] = Tail(s)
      /\ \A b \in Channels : b # c => r.queues[b] = q.queues[b]
  BY <1>2, <1>3
<1>8. \A d \in V : d.packet \in P /\ d.counter \in Nat /\ d.counter < n + 1
  BY <1>1, <1>2, <1>4, <1>5
<1>9. \A i \in 1..Len(s) : \A d \in W : d.packet.channel = c => QueuedBefore(d.packet, s[i])
  BY <1>2 DEF Line, s
<1>10. \A i, j \in 1..Len(s) : i < j => QueuedBefore(s[i], s[j])
  BY <1>2 DEF Line, s
<1>11. ASSUME NEW d \in V, NEW e \in V,
              d.packet.channel = e.packet.channel, d.counter < e.counter
       PROVE  QueuedBefore(d.packet, e.packet)
  <2>1. CASE e \in W
    <3>1. d \in W
      BY <1>1, <1>4, <1>5, <1>11, <2>1
    <3> QED BY <1>11, <2>1, <3>1 DEF Line
  <2>2. CASE e = new
    <3>1. d \in W
      BY <1>1, <1>4, <1>11, <2>2
    <3>2. d.packet.channel = c
      BY <1>4, <1>11, <2>2 DEF c
    <3>3. 1 \in 1..Len(s)
      BY <1>6
    <3> QED BY <1>4, <1>6, <1>9, <2>2, <3>1, <3>2, <3>3
  <2> QED BY <2>1, <2>2
<1>12. ASSUME NEW d \in V, NEW b \in Channels, NEW i \in 1..Len(r.queues[b]),
              d.packet.channel = b
       PROVE  QueuedBefore(d.packet, r.queues[b][i])
  <2>1. CASE b # c
    <3>1. d \in W
      BY <1>4, <1>12, <2>1 DEF c
    <3> QED BY <1>7, <1>12, <2>1, <3>1 DEF Line
  <2>2. CASE b = c
    <3>1. r.queues[b][i] = s[i+1] /\ i + 1 \in 1..Len(s) /\ i + 1 > 1
      BY <1>6, <1>7, <2>2
    <3>2. CASE d \in W
      BY <1>9, <1>12, <2>2, <3>1, <3>2
    <3>3. CASE d = new
      <4>1. 1 \in 1..Len(s) /\ 1 < i + 1
        BY <1>6, <3>1
      <4>2. QueuedBefore(s[1], s[i+1])
        BY <1>10, <3>1, <4>1
      <4> QED BY <1>4, <1>6, <3>1, <3>3, <4>2
    <3> QED BY <3>2, <3>3
  <2> QED BY <2>1, <2>2
<1>13. ASSUME NEW b \in Channels, NEW i \in 1..Len(r.queues[b]),
              NEW j \in 1..Len(r.queues[b]), i < j
       PROVE  QueuedBefore(r.queues[b][i], r.queues[b][j])
  <2>1. CASE b # c
    BY <1>7, <1>13, <2>1 DEF Line
  <2>2. CASE b = c
    <3>1. /\ r.queues[b][i] = s[i+1] /\ i + 1 \in 1..Len(s)
          /\ r.queues[b][j] = s[j+1] /\ j + 1 \in 1..Len(s)
      BY <1>6, <1>7, <2>2
    <3>2. i + 1 < j + 1
      BY <1>13
    <3> QED BY <1>10, <3>1, <3>2
  <2> QED BY <2>1, <2>2
<1> HIDE DEF V
<1>14. /\ \A d, e \in V : d.packet.channel = e.packet.channel /\ d.counter < e.counter
             => QueuedBefore(d.packet, e.packet)
       /\ \A d \in V : \A b \in Channels : \A i \in 1..Len(r.queues[b]) :
            d.packet.channel = b => QueuedBefore(d.packet, r.queues[b][i])
       /\ \A b \in Channels : \A i, j \in 1..Len(r.queues[b]) :
            i < j => QueuedBefore(r.queues[b][i], r.queues[b][j])
  BY <1>11, <1>12, <1>13
<1>15. Line(P, r, V, n + 1)
  <2> DEFINE m == n + 1
  <2>1. m \in Nat /\ \A d \in V : d.packet \in P /\ d.counter \in Nat /\ d.counter < m
    BY <1>1, <1>8
  <2> HIDE DEF m
  <2>2. Line(P, r, V, m)
    BY <1>2, <1>14, <2>1 DEF Line
  <2> QED BY <2>2 DEF m
<1> QED BY <1>15 DEF V, r, new, p

\* A flush of k packets leaves the line in order.
LEMMA LinePopsMany ==
  ASSUME NEW P, NEW q, NEW W, NEW n, Line(P, q, W, n)
  PROVE  \A k \in 0..Reach(q) : Line(P, After(q)[k], W \cup Sent(q, k, n), n + k)
<1>1. WellFormed(P, q) /\ n \in Nat
  BY DEF Line
<1>2. Reach(q) \in 0..8
  BY <1>1, ReachBounds
<1> DEFINE Good(k) == Line(P, After(q)[k], W \cup Sent(q, k, n), n + k)
           S == {k \in Nat : k <= Reach(q) => Good(k)}
<1>3. 0 \in S
  <2>1. After(q)[0] = q
    BY AfterUnfolds
  <2>2. Sent(q, 0, n) = {}
    BY DEF Sent
  <2>3. n + 0 = n /\ W \cup {} = W
    BY <1>1
  <2> QED BY <2>1, <2>2, <2>3
<1>4. ASSUME NEW k \in Nat, k \in S PROVE k + 1 \in S
  <2> SUFFICES ASSUME k + 1 <= Reach(q) PROVE Good(k + 1)
    OBVIOUS
  <2>1. Good(k) /\ k \in 0..Reach(q) /\ k < Reach(q)
    BY <1>2, <1>4
  <2>2. After(q)[k+1] = Rest(After(q)[k]) /\ Total(After(q)[k]) > 0
    BY <1>1, <2>1, AfterFacts
  <2> DEFINE new == [counter |-> n + k, packet |-> Popped(After(q)[k])]
  <2>3. Line(P, After(q)[k+1], (W \cup Sent(q, k, n)) \cup {new}, (n + k) + 1)
    BY <2>1, <2>2, LinePops
  <2>4. Sent(q, k + 1, n) = Sent(q, k, n) \cup {new}
    <3>1. \A i \in 1..(k + 1) : i \in 1..k \/ i = k + 1
      OBVIOUS
    <3>2. n + (k + 1) - 1 = n + k /\ (k + 1) - 1 = k /\ k + 1 \in 1..(k + 1)
      BY <1>1
    <3>3. \A i \in 1..k : i \in 1..(k + 1)
      OBVIOUS
    <3> QED BY <3>1, <3>2, <3>3 DEF Sent
  <2>5. (n + k) + 1 = n + (k + 1)
    BY <1>1
  <2>6. (W \cup Sent(q, k, n)) \cup {new} = W \cup Sent(q, k + 1, n)
    BY <2>4
  <2> QED BY <2>3, <2>5, <2>6
<1> HIDE DEF S
<1>5. Nat \subseteq S
  BY <1>3, <1>4, SetInduction
<1> QED BY <1>2, <1>5 DEF S

LEMMA LineFlushes ==
  ASSUME NEW P, NEW q, NEW W, NEW n, Line(P, q, W, n), NEW f \in Flushes(q)
  PROVE  Line(P, Flushed(q, f), W \cup Sent(q, f.n, n), n + Attempts(f))
<1>1. WellFormed(P, q) /\ n \in Nat
  BY DEF Line
<1>2. /\ f.n \in 0..Reach(q) /\ Attempts(f) \in 0..Reach(q) /\ Reach(q) \in 0..8
      /\ Attempts(f) = f.n \/ Attempts(f) = f.n + 1
      /\ WellFormed(P, Flushed(q, f)) /\ Flushed(q, f).queues = After(q)[f.n].queues
  BY <1>1, FlushFacts, ReachBounds
<1>3. Line(P, After(q)[f.n], W \cup Sent(q, f.n, n), n + f.n)
  BY <1>2, LinePopsMany
<1>4. Line(P, Flushed(q, f), W \cup Sent(q, f.n, n), n + f.n)
  BY <1>2, <1>3, LineSameQueues
<1>5. n + Attempts(f) \in Nat /\ n + Attempts(f) >= n + f.n
  BY <1>1, <1>2
<1> QED BY <1>4, <1>5, LineGrows

\* A packet made after all others of its channel goes to the end.
LEMMA LinePushes ==
  ASSUME NEW P, NEW q, NEW W, NEW n, Line(P, q, W, n), NEW p, p.channel \in Channels,
         \A r \in P : r.channel = p.channel => QueuedBefore(r, p)
  PROVE  Line(P \cup {p}, Push(q, p), W, n)
<1> DEFINE Q == P \cup {p}
           c == p.channel
           s == q.queues[c]
           kept == IF IsFull(q, c) THEN Tail(s) ELSE s
           r == Push(q, p)
<1>1. Line(Q, q, W, n)
  <2>1. n \in Nat BY DEF Line
  <2>2. n >= n BY <2>1
  <2> QED BY <2>1, <2>2, LineGrows
<1>2. WellFormed(Q, q) /\ WellFormed(P, q) /\ p \in Q
  BY <1>1 DEF Line
<1>3. /\ WellFormed(Q, r)
      /\ \A b \in Channels : b # c => r.queues[b] = q.queues[b]
      /\ r.queues[c] = Append(kept, p)
  BY <1>2, PushFacts
<1>4. s \in Seq(P) /\ Len(s) \in Nat /\ \A i \in 1..Len(s) : s[i] \in P /\ s[i].channel = c
  BY <1>2, QueueTypes
<1>5. IsFull(q, c) => s # <<>>
  BY <1>2, <1>4, QueueTypes DEF IsFull
<1>6. \A i \in 1..Len(s) : \A d \in W : d.packet.channel = c => QueuedBefore(d.packet, s[i])
  BY DEF Line
<1>7. \A i, j \in 1..Len(s) : i < j => QueuedBefore(s[i], s[j])
  BY DEF Line
<1> HIDE DEF s, c, r
<1>8. /\ kept \in Seq(P) /\ Len(kept) \in Nat
      /\ \A i \in 1..Len(kept) : kept[i] \in P /\ kept[i].channel = c
      /\ \A i \in 1..Len(kept) : \A d \in W : d.packet.channel = c => QueuedBefore(d.packet, kept[i])
      /\ \A i, j \in 1..Len(kept) : i < j => QueuedBefore(kept[i], kept[j])
  <2>1. CASE ~IsFull(q, c)
    BY <1>4, <1>6, <1>7, <2>1
  <2>2. CASE IsFull(q, c)
    <3>1. /\ Tail(s) \in Seq(P) /\ Len(Tail(s)) \in Nat
          /\ \A i \in 1..Len(Tail(s)) : Tail(s)[i] = s[i+1] /\ i + 1 \in 1..Len(s)
      BY <1>4, <1>5, <2>2
    <3>2. \A i, j \in 1..Len(Tail(s)) : i < j => i + 1 < j + 1
      OBVIOUS
    <3>3. kept = Tail(s)
      BY <2>2
    <3> HIDE DEF kept
    <3> QED BY <1>4, <1>6, <1>7, <3>1, <3>2, <3>3
  <2> QED BY <2>1, <2>2
<1> HIDE DEF kept
<1> DEFINE t == Append(kept, p)
<1>9. /\ Len(t) = Len(kept) + 1
      /\ \A i \in 1..Len(kept) : t[i] = kept[i]
      /\ t[Len(kept) + 1] = p
      /\ \A i \in 1..Len(t) : i \in 1..Len(kept) \/ i = Len(kept) + 1
  <2>1. kept \in Seq(Q) BY <1>8
  <2> QED BY <1>2, <1>8, <2>1
<1> HIDE DEF t
<1>10. ASSUME NEW i \in 1..Len(t), NEW d \in W, d.packet.channel = c
       PROVE  QueuedBefore(d.packet, t[i])
  <2>1. CASE i \in 1..Len(kept)
    BY <1>8, <1>9, <1>10, <2>1
  <2>2. CASE i = Len(kept) + 1
    <3>1. d.packet \in P BY DEF Line
    <3> QED BY <1>9, <1>10, <2>2, <3>1 DEF c
  <2> QED BY <1>9, <2>1, <2>2
<1>11. ASSUME NEW i \in 1..Len(t), NEW j \in 1..Len(t), i < j
       PROVE  QueuedBefore(t[i], t[j])
  <2>1. i \in 1..Len(kept)
    BY <1>8, <1>9, <1>11
  <2>2. CASE j \in 1..Len(kept)
    BY <1>8, <1>9, <1>11, <2>1, <2>2
  <2>3. CASE j = Len(kept) + 1
    BY <1>8, <1>9, <2>1, <2>3 DEF c
  <2> QED BY <1>9, <2>2, <2>3
<1>12. ASSUME NEW b \in Channels
       PROVE  /\ \A d \in W : \A i \in 1..Len(r.queues[b]) :
                    d.packet.channel = b => QueuedBefore(d.packet, r.queues[b][i])
              /\ \A i, j \in 1..Len(r.queues[b]) :
                    i < j => QueuedBefore(r.queues[b][i], r.queues[b][j])
  <2>1. CASE b = c
    BY <1>3, <1>10, <1>11, <2>1 DEF t
  <2>2. CASE b # c
    BY <1>3, <2>2 DEF Line
  <2> QED BY <2>1, <2>2
<1> HIDE DEF Q
<1>13. Line(Q, r, W, n)
  BY <1>1, <1>3, <1>12 DEF Line
<1> QED BY <1>13 DEF Q, r

(***************************************************************************)
(* The packets made so far, by rs replies and ps pumps, the last of which  *)
(* has encoded fs frames.                                                  *)
(***************************************************************************)
IsReply(p, rs) == p \in [channel : {"Control"}, id : Nat] /\ p.id \in 1..rs

IsVideo(p, ps, fs) ==
  /\ p \in [channel : {"Video"}, pump : Nat, sequence : Nat,
            index : Nat, count : Nat, tail : Tails]
  /\ p.index \in 1..p.count /\ p.pump \in 1..ps
  /\ p.pump = ps => p.sequence <= fs

\* The fragments of a frame agree on what it is.
OneFrame(p, r) ==
  p.channel = "Video" /\ r.channel = "Video" /\ SameFrame(p, r)
    => p.count = r.count /\ p.tail = r.tail

Made(P, rs, ps, fs) ==
  /\ \A p \in P : IsReply(p, rs) \/ IsVideo(p, ps, fs)
  /\ \A p, r \in P : OneFrame(p, r)

LEMMA MadeByReply ==
  ASSUME NEW P, NEW rs \in Nat, NEW ps, NEW fs, Made(P, rs, ps, fs),
         NEW p, p = [channel |-> "Control", id |-> rs + 1]
  PROVE  /\ Made(P \cup {p}, rs + 1, ps, fs)
         /\ p.channel \in Channels
         /\ \A r \in P : r.channel = p.channel => QueuedBefore(r, p)
<1>1. p.channel = "Control" /\ p.id = rs + 1 /\ IsReply(p, rs + 1)
  BY DEF IsReply
<1>2. ASSUME NEW r \in P PROVE IsReply(r, rs + 1) \/ IsVideo(r, ps, fs)
  BY DEF Made, IsReply
<1>3. \A r \in P : r.channel = "Control" => r.id \in 1..rs
  BY DEF Made, IsReply, IsVideo
<1>4. \A r \in P : r.channel = p.channel => QueuedBefore(r, p)
  BY <1>1, <1>3 DEF QueuedBefore
<1>5. \A r, s \in P \cup {p} : OneFrame(r, s)
  BY <1>1 DEF Made, OneFrame
<1> QED BY <1>1, <1>2, <1>4, <1>5 DEF Made, Channels

LEMMA MadeByNewPump ==
  ASSUME NEW P, NEW rs, NEW ps \in Nat, NEW fs, Made(P, rs, ps, fs)
  PROVE  Made(P, rs, ps + 1, 0)
<1>1. ASSUME NEW p \in P, IsVideo(p, ps, fs) PROVE IsVideo(p, ps + 1, 0)
  <2>1. p.pump \in 1..ps /\ ps + 1 \in Nat
    BY <1>1 DEF IsVideo
  <2>2. p.pump \in 1..(ps + 1) /\ p.pump # ps + 1
    BY <2>1
  <2> QED BY <1>1, <2>2 DEF IsVideo
<1> QED BY <1>1 DEF Made

\* The packets P and the pump's next frame, up to fragment k.
WithFragments(P, count, tail, k) ==
  P \cup {Fragment(frames + 1, j, count, tail) : j \in 1..k}

\* The pump's next frame, up to fragment k: each fragment is the latest
\* packet of the video channel.
LEMMA MadeByFrame ==
  ASSUME NEW P, NEW rs, Made(P, rs, pumps, frames), pump = pumps, pumps \in Nat \ {0},
         frames \in Nat, NEW count \in Nat, NEW tail \in Tails, NEW k \in 0..count
  PROVE  /\ Made(WithFragments(P, count, tail, k), rs, pumps, frames + 1)
         /\ \A r \in WithFragments(P, count, tail, k) : r.channel = "Video"
                => QueuedBefore(r, Fragment(frames + 1, k + 1, count, tail))
<1> DEFINE F(j) == Fragment(frames + 1, j, count, tail)
           Q == WithFragments(P, count, tail, k)
<1>1. ASSUME NEW j \in Nat
      PROVE  /\ F(j) \in [channel : {"Video"}, pump : Nat, sequence : Nat,
                           index : Nat, count : Nat, tail : Tails]
             /\ F(j).channel = "Video" /\ F(j).pump = pumps /\ F(j).sequence = frames + 1
             /\ F(j).index = j /\ F(j).count = count /\ F(j).tail = tail
  BY DEF Fragment
<1>2. k \in Nat /\ \A j \in 1..k : j \in Nat /\ j \in 1..count
  OBVIOUS
<1>3. ASSUME NEW p \in P, p.channel = "Video"
      PROVE  /\ IsVideo(p, pumps, frames)
             /\ p.pump < pumps \/ (p.pump = pumps /\ p.sequence < frames + 1)
  <2>1. IsVideo(p, pumps, frames)
    BY <1>3 DEF Made, IsReply
  <2>2. /\ p.pump \in Nat /\ p.sequence \in Nat /\ p.pump \in 1..pumps
        /\ p.pump = pumps => p.sequence <= frames
    BY <2>1 DEF IsVideo
  <2>3. p.pump < pumps \/ p.pump = pumps
    BY <2>2
  <2> QED BY <2>1, <2>2, <2>3
<1>4. ASSUME NEW p \in P PROVE IsReply(p, rs) \/ IsVideo(p, pumps, frames + 1)
  <2>1. CASE p.channel = "Video"
    <3>1. IsVideo(p, pumps, frames) BY <1>3, <2>1
    <3>2. p.pump = pumps => p.sequence <= frames + 1
      BY <3>1 DEF IsVideo
    <3> QED BY <3>1, <3>2 DEF IsVideo
  <2>2. CASE p.channel # "Video"
    BY <2>2 DEF Made, IsVideo
  <2> QED BY <2>1, <2>2
<1> HIDE DEF F
<1>5. ASSUME NEW j \in 1..k PROVE IsVideo(F(j), pumps, frames + 1)
  BY <1>1, <1>2 DEF IsVideo
<1>6. Q = P \cup {F(j) : j \in 1..k}
  BY DEF F, WithFragments
<1> HIDE DEF Q
<1>7. \A p, r \in Q : OneFrame(p, r)
  <2> SUFFICES ASSUME NEW p \in Q, NEW r \in Q,
                      p.channel = "Video", r.channel = "Video", SameFrame(p, r)
               PROVE  p.count = r.count /\ p.tail = r.tail
    BY DEF OneFrame
  <2>1. CASE p \in P /\ r \in P
    BY <2>1 DEF Made, OneFrame
  <2>2. ASSUME NEW s \in P, s.channel = "Video", NEW j \in 1..k
        PROVE  ~SameFrame(s, F(j)) /\ ~SameFrame(F(j), s)
    <3>1. s.pump \in Nat /\ s.sequence \in Nat /\ (s.pump < pumps \/ s.sequence < frames + 1)
      BY <1>3, <2>2 DEF IsVideo
    <3> QED BY <1>1, <1>2, <3>1 DEF SameFrame
  <2>3. ASSUME NEW i \in 1..k, NEW j \in 1..k
        PROVE  F(i).count = F(j).count /\ F(i).tail = F(j).tail
    BY <1>1, <1>2
  <2> QED BY <1>6, <2>1, <2>2, <2>3
<1>8. ASSUME NEW r \in Q, r.channel = "Video" PROVE QueuedBefore(r, F(k + 1))
  <2>1. k + 1 \in Nat /\ F(k + 1).pump = pumps /\ F(k + 1).sequence = frames + 1
        /\ F(k + 1).index = k + 1
    BY <1>1, <1>2
  <2>2. CASE r \in P
    BY <1>3, <1>8, <2>1, <2>2 DEF QueuedBefore
  <2>3. ASSUME NEW j \in 1..k PROVE QueuedBefore(F(j), F(k + 1))
    <3>1. j < k + 1 /\ F(j).index = j /\ F(j).pump = pumps /\ F(j).sequence = frames + 1
          /\ F(j).channel = "Video"
      BY <1>1, <1>2
    <3> QED BY <2>1, <3>1 DEF QueuedBefore
  <2> QED BY <1>6, <2>2, <2>3
<1>9. \A p \in Q : IsReply(p, rs) \/ IsVideo(p, pumps, frames + 1)
  BY <1>4, <1>5, <1>6
<1>10. Made(Q, rs, pumps, frames + 1)
  BY <1>7, <1>9 DEF Made
<1> QED BY <1>8, <1>10 DEF F, Q

\* A frame is queued in the order of its fragments.
LEMMA LinePushesFrame ==
  ASSUME NEW P, NEW rs, Made(P, rs, pumps, frames), pump = pumps, pumps \in Nat \ {0},
         frames \in Nat, NEW count \in Nat, NEW tail \in Tails,
         NEW q, NEW W, NEW n, Line(P, q, W, n)
  PROVE  /\ Line(WithFragments(P, count, tail, count), PushAll(q, Fragments(count, tail)), W, n)
         /\ Made(WithFragments(P, count, tail, count), rs, pumps, frames + 1)
<1> DEFINE F(j) == Fragment(frames + 1, j, count, tail)
           fs == Fragments(count, tail)
           Q(k) == WithFragments(P, count, tail, k)
<1>1. Len(fs) = count /\ \A i \in 1..count : fs[i] = F(i)
  BY DEF Fragments
<1>2. PICK g : /\ g[0] = q
               /\ \A i \in 1..count : g[i] = Push(g[i-1], fs[i])
               /\ PushAll(q, fs) = g[count]
  <2> HIDE DEF fs
  <2>1. Len(fs) = count
    BY <1>1
  <2>2. Len(fs) \in Nat
    BY <2>1
  <2>3. \E g : /\ g[0] = q
               /\ \A i \in 1..Len(fs) : g[i] = Push(g[i-1], fs[i])
               /\ PushAll(q, fs) = g[Len(fs)]
    BY ONLY <2>2, PushAllUnfolds
  <2> QED BY ONLY <2>1, <2>3
<1> HIDE DEF fs
<1> DEFINE S == {k \in Nat : k <= count => Line(Q(k), g[k], W, n)}
<1>3. 0 \in S
  <2>1. Q(0) = P BY DEF WithFragments
  <2> QED BY <1>2, <2>1
<1>4. ASSUME NEW k \in Nat, k \in S PROVE k + 1 \in S
  <2> SUFFICES ASSUME k + 1 <= count PROVE Line(Q(k + 1), g[k + 1], W, n)
    OBVIOUS
  <2>1. k \in 0..count /\ k + 1 \in 1..count /\ (k + 1) - 1 = k
    OBVIOUS
  <2>2. Line(Q(k), g[k], W, n)
    BY <1>4, <2>1
  <2>3. g[k + 1] = Push(g[k], F(k + 1))
    BY <1>1, <1>2, <2>1
  <2>4. \A r \in Q(k) : r.channel = "Video" => QueuedBefore(r, F(k + 1))
    BY <2>1, MadeByFrame
  <2>5. F(k + 1).channel = "Video"
    BY DEF Fragment
  <2>6. Q(k + 1) = Q(k) \cup {F(k + 1)}
    <3>1. \A j \in 1..(k + 1) : j \in 1..k \/ j = k + 1
      OBVIOUS
    <3>2. k + 1 \in 1..(k + 1) /\ \A j \in 1..k : j \in 1..(k + 1)
      OBVIOUS
    <3> HIDE DEF F
    <3>3. Q(k) = P \cup {F(j) : j \in 1..k} /\ Q(k + 1) = P \cup {F(j) : j \in 1..(k + 1)}
      BY DEF WithFragments, F
    <3> HIDE DEF Q
    <3> QED BY <3>1, <3>2, <3>3
  <2> HIDE DEF Q, F
  <2>7. Line(Q(k) \cup {F(k + 1)}, Push(g[k], F(k + 1)), W, n)
    BY <2>2, <2>4, <2>5, LinePushes DEF Channels
  <2> QED BY <2>3, <2>6, <2>7
<1> HIDE DEF S
<1>5. Nat \subseteq S
  BY <1>3, <1>4, SetInduction
<1>6. Line(Q(count), g[count], W, n)
  <2>1. count \in S /\ count <= count
    BY <1>5
  <2> QED BY <2>1 DEF S
<1>7. Made(Q(count), rs, pumps, frames + 1)
  <2>1. count \in 0..count
    OBVIOUS
  <2> QED BY <2>1, MadeByFrame
<1> QED BY <1>2, <1>6, <1>7 DEF fs

(***************************************************************************)
(* The flushes of the host.                                                *)
(***************************************************************************)
\* Every channel that waits in q has a packet among the datagrams just sent.
Serves(q) ==
  \A c \in Channels : q.queues[c] # <<>> => \E d \in wire' \ wire : d.packet.channel = c

\* What the packets ps add to the line: all Q, if it was P before.
Adds(P, ps, Q) ==
  \A q, W, n : Line(P, q, W, n) => Line(Q, PushAll(q, ps), W, n)

Counts == metrics \in [queued : Nat, sent : Nat, replies : Nat]

\* The books of a step that queues ps: m packets were sent.
Moves(ps, m) ==
  /\ m \in Nat /\ Counts'
  /\ metrics'.queued = metrics.queued + Len(ps) /\ metrics'.sent = metrics.sent + m
  /\ Total(outbound') + outbound'.dropped + m = Total(outbound) + outbound.dropped + Len(ps)
  /\ sendCounter' - sendCounter = m => Serves(outbound)

LEMMA PacketsFacts ==
  ASSUME NEW P, NEW q, WellFormed(P, q), NEW f \in Flushes(q)
  PROVE  /\ Popping(q, f) \in Seq(P) /\ Len(Popping(q, f)) = Attempts(f)
         /\ \A i \in 1..f.n : i \in 1..Attempts(f) /\ Popping(q, f)[i] = Popped(After(q)[i-1])
         /\ f.n \in Nat /\ Attempts(f) \in Nat /\ f.n <= Attempts(f)
<1>1. /\ f.n \in 0..Reach(q) /\ Attempts(f) \in 0..Reach(q) /\ Reach(q) \in 0..8
      /\ Attempts(f) = f.n \/ Attempts(f) = f.n + 1
  BY FlushFacts, ReachBounds
<1>2. ASSUME NEW i \in 1..Attempts(f) PROVE Popped(After(q)[i-1]) \in P
  <2>1. i - 1 \in 0..Reach(q) /\ i - 1 < Reach(q)
    BY <1>1
  <2>2. WellFormed(P, After(q)[i-1]) /\ Total(After(q)[i-1]) > 0
    BY <2>1, AfterFacts
  <2> QED BY <2>2, PopFacts
<1> DEFINE m == Attempts(f)
           s == [i \in 1..m |-> Popped(After(q)[i-1])]
<1>3. Popping(q, f) = s
  BY DEF Popping
<1>4. m \in Nat /\ f.n \in Nat /\ f.n <= m
  BY <1>1
<1> HIDE DEF m
<1>5. s \in Seq(P) /\ Len(s) = m /\ \A i \in 1..m : s[i] = Popped(After(q)[i-1])
  BY <1>2, <1>4 DEF m
<1>6. \A i \in 1..f.n : i \in 1..m
  BY <1>4
<1> HIDE DEF s
<1> QED BY <1>3, <1>4, <1>5, <1>6 DEF m

\* A flush that is not held up serves every channel that waits.
LEMMA SentServes ==
  ASSUME NEW P, NEW q, Line(P, q, wire, sendCounter), NEW f \in Flushes(q),
         Attempts(f) = f.n, Sent(q, f.n, sendCounter) \subseteq wire'
  PROVE  Serves(q)
<1>1. WellFormed(P, q) /\ sendCounter \in Nat
  BY DEF Line
<1>2. f.n = Reach(q)
  BY <1>1, FlushFacts
<1> SUFFICES ASSUME NEW c \in Channels, q.queues[c] # <<>>
             PROVE  \E d \in wire' \ wire : d.packet.channel = c
  BY DEF Serves
<1>3. PICK i \in 1..Reach(q) : Popped(After(q)[i-1]).channel = c
  BY <1>1, WaitingIsServed
<1> DEFINE d == [counter |-> sendCounter + i - 1, packet |-> Popped(After(q)[i-1])]
<1>4. d \in wire'
  <2>1. d \in Sent(q, f.n, sendCounter)
    BY <1>2, <1>3 DEF Sent
  <2> QED BY <2>1
<1>5. d.counter = sendCounter + i - 1 /\ d.packet.channel = c
  BY <1>3
<1> HIDE DEF d
<1>6. d \notin wire
  <2>1. \A e \in wire : e.counter < sendCounter
    BY DEF Line
  <2>2. ~(sendCounter + i - 1 < sendCounter)
    BY <1>1, <1>3, ReachBounds
  <2> QED BY <1>5, <2>1, <2>2
<1> QED BY <1>4, <1>5, <1>6

LEMMA FlushOnceFacts ==
  ASSUME NEW P, NEW q, NEW ps, Len(ps) \in Nat, Line(P, q, wire, sendCounter), Counts,
         Total(q) + q.dropped = Total(outbound) + outbound.dropped + Len(ps),
         \A c \in Channels : outbound.queues[c] # <<>> => q.queues[c] # <<>>,
         FlushOnce(q, ps)
  PROVE  /\ Line(P, outbound', wire', sendCounter')
         /\ metrics'.replies = metrics.replies
         /\ \E m : Moves(ps, m)
<1>1. PICK f \in Flushes(q) :
        /\ Seal(Attempts(f), Popping(q, f), 1..f.n)
        /\ outbound' = Flushed(q, f)
        /\ metrics' = [metrics EXCEPT !.queued = @ + Len(ps), !.sent = @ + f.n]
  BY DEF FlushOnce
<1>2. WellFormed(P, q) /\ sendCounter \in Nat
  BY DEF Line
<1>3. /\ \A i \in 1..f.n : Popping(q, f)[i] = Popped(After(q)[i-1])
      /\ f.n \in Nat /\ Attempts(f) \in Nat /\ f.n <= Attempts(f)
  BY <1>2, PacketsFacts
<1>4. wire' = wire \cup Sent(q, f.n, sendCounter) /\ sendCounter' = sendCounter + Attempts(f)
  BY <1>1, <1>3 DEF Seal, Sent
<1>5. Line(P, outbound', wire', sendCounter')
  BY <1>1, <1>4, LineFlushes
<1>6. /\ metrics'.queued = metrics.queued + Len(ps) /\ metrics'.sent = metrics.sent + f.n
      /\ metrics'.replies = metrics.replies /\ Counts'
  <2>1. metrics = [queued |-> metrics.queued, sent |-> metrics.sent, replies |-> metrics.replies]
        /\ metrics.queued \in Nat /\ metrics.sent \in Nat /\ metrics.replies \in Nat
    BY DEF Counts
  <2> DEFINE x == metrics.queued + Len(ps)
             y == metrics.sent + f.n
             z == metrics.replies
  <2>2. metrics' = [metrics EXCEPT !.queued = x, !.sent = y]
    BY <1>1, <2>1
  <2>3. x \in Nat /\ y \in Nat /\ z \in Nat
    BY <1>3, <2>1
  <2> HIDE DEF x, y, z
  <2>4. metrics' = [queued |-> x, sent |-> y, replies |-> z]
    BY <2>1, <2>2 DEF z
  <2>5. metrics' \in [queued : Nat, sent : Nat, replies : Nat]
    BY <2>3, <2>4
  <2> QED BY <2>4, <2>5 DEF x, y, z, Counts
<1>7. Total(outbound') + outbound'.dropped + f.n = Total(outbound) + outbound.dropped + Len(ps)
  <2>1. Total(Flushed(q, f)) = Total(q) - f.n /\ Flushed(q, f).dropped = q.dropped
    BY <1>2, FlushFacts
  <2>2. Total(q) \in Nat /\ q.dropped \in Nat
    BY <1>2, TotalFacts DEF WellFormed, Queues
  <2>3. Total(outbound') + outbound'.dropped + f.n = Total(q) + q.dropped
    BY <1>1, <1>3, <2>1, <2>2
  <2> QED BY <2>3
<1>8. ASSUME sendCounter' - sendCounter = f.n PROVE Serves(outbound)
  <2>1. Attempts(f) = f.n
    BY <1>2, <1>3, <1>4, <1>8
  <2>2. Serves(q)
    BY <1>4, <2>1, SentServes
  <2> QED BY <2>2 DEF Serves
<1>9. Moves(ps, f.n)
  BY <1>3, <1>6, <1>7, <1>8 DEF Moves
<1> QED BY <1>5, <1>6, <1>9

LEMMA FlushTwiceFacts ==
  ASSUME NEW P, NEW Q, NEW ps \in Seq(Q), \A i \in 1..Len(ps) : ps[i].channel \in Channels,
         P \subseteq Q, Adds(P, ps, Q),
         Line(P, outbound, wire, sendCounter), FlushTwice(ps), Counts
  PROVE  /\ Line(Q, outbound', wire', sendCounter')
         /\ metrics'.replies = metrics.replies + Len(ps)
         /\ \E m : Moves(ps, m)
<1>1. PICK f \in Flushes(outbound) :
        \E g \in Flushes(PushAll(Flushed(outbound, f), ps)) :
          /\ Seal(Attempts(f) + Attempts(g),
                  Popping(outbound, f) \o Popping(PushAll(Flushed(outbound, f), ps), g),
                  1..f.n \cup {Attempts(f) + i : i \in 1..g.n})
          /\ outbound' = Flushed(PushAll(Flushed(outbound, f), ps), g)
          /\ metrics' = [queued |-> metrics.queued + Len(ps), sent |-> metrics.sent + f.n + g.n,
                         replies |-> metrics.replies + Len(ps)]
  BY DEF FlushTwice
<1> DEFINE r == Flushed(outbound, f)
           q == PushAll(r, ps)
<1>2. PICK g \in Flushes(q) :
        /\ Seal(Attempts(f) + Attempts(g), Popping(outbound, f) \o Popping(q, g),
                1..f.n \cup {Attempts(f) + i : i \in 1..g.n})
        /\ outbound' = Flushed(q, g)
        /\ metrics' = [queued |-> metrics.queued + Len(ps), sent |-> metrics.sent + f.n + g.n,
                       replies |-> metrics.replies + Len(ps)]
  BY <1>1
<1>3. WellFormed(P, outbound) /\ sendCounter \in Nat
  BY DEF Line
<1>4. Line(P, r, wire \cup Sent(outbound, f.n, sendCounter), sendCounter + Attempts(f))
  BY LineFlushes
<1>5. Line(Q, q, wire \cup Sent(outbound, f.n, sendCounter), sendCounter + Attempts(f))
  BY <1>4 DEF Adds
<1> HIDE DEF r, q
<1>6. WellFormed(P, r) /\ WellFormed(Q, q) /\ WellFormed(Q, r) /\ WellFormed(Q, outbound)
  <2>1. sendCounter + Attempts(f) \in Nat /\ sendCounter >= sendCounter
    BY <1>3, PacketsFacts
  <2>2. WellFormed(P, r) /\ WellFormed(Q, q)
    BY <1>4, <1>5 DEF Line
  <2>3. Line(Q, outbound, wire, sendCounter)
    BY <1>3, <2>1, LineGrows
  <2>4. sendCounter + Attempts(f) >= sendCounter + Attempts(f)
    BY <2>1
  <2>5. Line(Q, r, wire \cup Sent(outbound, f.n, sendCounter), sendCounter + Attempts(f))
    BY <1>4, <2>1, <2>4, LineGrows
  <2> QED BY <2>2, <2>3, <2>5 DEF Line
<1> DEFINE A == Popping(outbound, f)
           B == Popping(q, g)
           a == Attempts(f)
           b == Attempts(g)
<1>7. /\ A \in Seq(Q) /\ Len(A) = a
      /\ \A i \in 1..f.n : i \in 1..a /\ A[i] = Popped(After(outbound)[i-1])
      /\ f.n \in Nat /\ a \in Nat /\ f.n <= a
  BY <1>6, PacketsFacts
<1>8. /\ B \in Seq(Q) /\ Len(B) = b
      /\ \A i \in 1..g.n : i \in 1..b /\ B[i] = Popped(After(q)[i-1])
      /\ g.n \in Nat /\ b \in Nat /\ g.n <= b
  BY <1>6, PacketsFacts
<1>9. /\ sendCounter' = sendCounter + (a + b)
      /\ wire' = wire \cup {[counter |-> sendCounter + i - 1, packet |-> (A \o B)[i]] :
                            i \in 1..f.n \cup {a + i : i \in 1..g.n}}
  BY <1>2 DEF Seal
<1> HIDE DEF A, B, a, b
<1>10. /\ \A i \in 1..f.n : (A \o B)[i] = Popped(After(outbound)[i-1])
       /\ \A i \in 1..g.n : (A \o B)[a + i] = Popped(After(q)[i-1])
  <2>1. \A i \in 1..a + b : (A \o B)[i] = IF i <= a THEN A[i] ELSE B[i - a]
    <3>1. A \in Seq(Q) /\ B \in Seq(Q) /\ Len(A) = a /\ Len(B) = b
      BY <1>7, <1>8
    <3>2. \A i \in 1..Len(A) + Len(B) : (A \o B)[i] = IF i <= Len(A) THEN A[i] ELSE B[i - Len(A)]
      BY <3>1, ConcatProperties
    <3> QED BY <3>1, <3>2
  <2>2. ASSUME NEW i \in 1..f.n PROVE (A \o B)[i] = Popped(After(outbound)[i-1])
    <3>1. i \in 1..a + b /\ i <= a
      BY <1>7, <1>8
    <3> QED BY <1>7, <2>1, <3>1
  <2>3. ASSUME NEW i \in 1..g.n PROVE (A \o B)[a + i] = Popped(After(q)[i-1])
    <3>1. a + i \in 1..a + b /\ ~(a + i <= a) /\ (a + i) - a = i
      BY <1>7, <1>8
    <3> QED BY <1>8, <2>1, <3>1
  <2> QED BY <2>2, <2>3
<1>11. wire' = (wire \cup Sent(outbound, f.n, sendCounter)) \cup Sent(q, g.n, sendCounter + a)
  <2> DEFINE D(i) == [counter |-> sendCounter + i - 1, packet |-> (A \o B)[i]]
  <2>1. wire' = wire \cup {D(i) : i \in 1..f.n \cup {a + i : i \in 1..g.n}}
    BY <1>9
  <2>2. \A i \in 1..f.n :
          D(i) = [counter |-> sendCounter + i - 1, packet |-> Popped(After(outbound)[i-1])]
    BY <1>10
  <2>3. \A i \in 1..g.n :
          D(a + i) = [counter |-> (sendCounter + a) + i - 1, packet |-> Popped(After(q)[i-1])]
    <3>1. \A i \in 1..g.n : sendCounter + (a + i) - 1 = (sendCounter + a) + i - 1
      BY <1>3, <1>7
    <3> QED BY <1>10, <3>1
  <2> HIDE DEF D
  <2>4. {D(i) : i \in 1..f.n \cup {a + i : i \in 1..g.n}}
          = {D(i) : i \in 1..f.n} \cup {D(a + i) : i \in 1..g.n}
    OBVIOUS
  <2>5. {D(i) : i \in 1..f.n} = Sent(outbound, f.n, sendCounter)
    BY <2>2 DEF Sent
  <2>6. {D(a + i) : i \in 1..g.n} = Sent(q, g.n, sendCounter + a)
    BY <2>3 DEF Sent
  <2> QED BY <2>1, <2>4, <2>5, <2>6
<1>12. Line(Q, outbound', wire', sendCounter')
  <2>1. Line(Q, Flushed(q, g),
             (wire \cup Sent(outbound, f.n, sendCounter)) \cup Sent(q, g.n, sendCounter + a),
             (sendCounter + a) + b)
    BY <1>5, LineFlushes DEF a, b
  <2>2. (sendCounter + a) + b = sendCounter'
    BY <1>3, <1>7, <1>8, <1>9
  <2> QED BY <1>2, <1>11, <2>1, <2>2
<1>13. Len(ps) \in Nat
  OBVIOUS
<1>14. /\ metrics'.queued = metrics.queued + Len(ps)
       /\ metrics'.sent = metrics.sent + (f.n + g.n)
       /\ metrics'.replies = metrics.replies + Len(ps)
       /\ Counts'
  <2> DEFINE x == metrics.queued + Len(ps)
             y == metrics.sent + f.n + g.n
             z == metrics.replies + Len(ps)
  <2>1. metrics' = [queued |-> x, sent |-> y, replies |-> z]
    BY <1>2
  <2>2. metrics.queued \in Nat /\ metrics.sent \in Nat /\ metrics.replies \in Nat
    BY DEF Counts
  <2>3. x \in Nat /\ y \in Nat /\ z \in Nat /\ y = metrics.sent + (f.n + g.n)
    <3>1. \A s, i, j \in Nat : s + i + j \in Nat /\ s + i + j = s + (i + j)
      OBVIOUS
    <3>2. metrics.sent \in Nat /\ f.n \in Nat /\ g.n \in Nat
      BY <1>7, <1>8, <2>2
    <3>3. y \in Nat /\ y = metrics.sent + (f.n + g.n)
      BY ONLY <3>1, <3>2
    <3> QED BY <1>13, <2>2, <3>3
  <2> HIDE DEF x, y, z
  <2>4. metrics' \in [queued : Nat, sent : Nat, replies : Nat]
    BY <2>1, <2>3
  <2> QED BY <2>1, <2>3, <2>4 DEF x, z, Counts
<1>15. Total(outbound') + outbound'.dropped + (f.n + g.n)
         = Total(outbound) + outbound.dropped + Len(ps)
  <2>1. Total(r) = Total(outbound) - f.n /\ r.dropped = outbound.dropped
    BY <1>3, FlushFacts DEF r
  <2>2. Total(q) + q.dropped = Total(r) + r.dropped + Len(ps)
    BY <1>6, PushAllFacts DEF q
  <2>3. Total(Flushed(q, g)) = Total(q) - g.n /\ Flushed(q, g).dropped = q.dropped
    BY <1>6, FlushFacts
  <2>4. /\ Total(outbound) \in Nat /\ outbound.dropped \in Nat
        /\ Total(q) \in Nat /\ q.dropped \in Nat
    BY <1>3, <1>6, TotalFacts DEF WellFormed, Queues
  <2>5. Total(outbound') = Total(q) - g.n /\ outbound'.dropped = q.dropped
    BY <1>2, <2>3
  <2> DEFINE x == Total(outbound')
             y == Total(q)
             z == Total(outbound)
             u == Total(r)
             v == outbound.dropped
             w == q.dropped
             l == Len(ps)
             i == f.n
             j == g.n
  <2>6. /\ x = y - j /\ y + w = u + v + l /\ u = z - i
        /\ y \in Nat /\ z \in Nat /\ v \in Nat /\ w \in Nat /\ l \in Nat
        /\ i \in Nat /\ j \in Nat
    BY <1>7, <1>8, <1>13, <2>1, <2>2, <2>4, <2>5
  <2> HIDE DEF x, y, z, u, v, w, l, i, j
  <2>7. x + w + (i + j) = z + v + l
    BY <2>6
  <2> QED BY <2>5, <2>7 DEF x, z, v, w, l, i, j
<1>16. ASSUME sendCounter' - sendCounter = f.n + g.n PROVE Serves(outbound)
  <2>1. a = f.n
    BY <1>3, <1>7, <1>8, <1>9, <1>16
  <2> QED BY <1>11, <2>1, SentServes DEF a
<1>17. f.n + g.n \in Nat
  BY <1>7, <1>8
<1>18. Moves(ps, f.n + g.n)
  BY <1>14, <1>15, <1>16, <1>17 DEF Moves
<1> QED BY <1>12, <1>14, <1>18

(***************************************************************************)
(* The invariant of the host.                                              *)
(***************************************************************************)
HostInd ==
  /\ pump \in {0, pumps} /\ pumps \in 1..MaxPumps /\ frames \in 0..MaxFrames
  /\ override \in BOOLEAN
  /\ Counts /\ MetricsAddUp
  /\ \E P : Made(P, metrics.replies, pumps, frames) /\ Line(P, outbound, wire, sendCounter)

\* What EveryWaiterIsServed says of a step.
StepServes ==
  sendCounter' > sendCounter /\ sendCounter' - sendCounter = metrics'.sent - metrics.sent
    => Serves(outbound)

LEMMA HostBounds ==
  /\ MaxCount \in Nat /\ MaxFrames \in Nat /\ MaxPumps \in Nat \ {0}
  /\ 1 \in 1..MaxPumps /\ 0 \in 0..MaxFrames
BY MediaAssumption DEF MediaAssumption

LEMMA HostInit ==
  ASSUME MediaInit PROVE HostInd
<1>1. /\ pump \in {0, pumps} /\ pumps \in 1..MaxPumps /\ frames \in 0..MaxFrames
      /\ override \in BOOLEAN
  BY HostBounds DEF MediaInit
<1>2. Counts /\ metrics.queued = 0 /\ metrics.sent = 0
  BY DEF MediaInit, Counts
<1>3. outbound = Empty /\ wire = {} /\ sendCounter = 1
  BY DEF MediaInit, SealInit
<1>4. MetricsAddUp
  BY <1>2, <1>3, EmptyWellFormed DEF MetricsAddUp
<1>5. Made({}, metrics.replies, pumps, frames)
  BY DEF Made
<1>6. Line({}, outbound, wire, sendCounter)
  <2>1. \A c \in Channels : Len(Empty.queues[c]) = 0
    BY DEF Empty
  <2> QED BY <1>3, <2>1, EmptyWellFormed DEF Line
<1> QED BY <1>1, <1>2, <1>4, <1>5, <1>6 DEF HostInd

\* The books of a step keep them adding up, and say whom it serves.
LEMMA MovesAddUp ==
  ASSUME NEW P, Line(P, outbound, wire, sendCounter), Counts, MetricsAddUp, NEW ps, Len(ps) \in Nat,
         NEW m, Moves(ps, m), NEW Q, WellFormed(Q, outbound')
  PROVE  Counts' /\ MetricsAddUp' /\ StepServes
<1> DEFINE x == Total(outbound)
           y == Total(outbound')
           u == outbound.dropped
           v == outbound'.dropped
           a == metrics.queued
           b == metrics.sent
           l == Len(ps)
<1>1. x \in Nat /\ u \in Nat /\ y \in Nat /\ v \in Nat /\ a \in Nat /\ b \in Nat
      /\ l \in Nat /\ m \in Nat
  <2>1. WellFormed(P, outbound)
    BY DEF Line
  <2> QED BY <2>1, TotalFacts DEF WellFormed, Queues, Counts, Moves
<1>2. /\ metrics'.queued = a + l /\ metrics'.sent = b + m /\ y + v + m = x + u + l
      /\ a = b + u + x
  BY DEF Moves, MetricsAddUp
<1>3. Counts' /\ (sendCounter' - sendCounter = m => Serves(outbound))
  BY DEF Moves
<1> HIDE DEF x, y, u, v, a, b, l
<1>4. a + l = (b + m) + v + y /\ (b + m) - b = m
  BY <1>1, <1>2
<1>5. MetricsAddUp'
  BY <1>2, <1>4 DEF MetricsAddUp, v, y
<1>6. StepServes
  BY <1>2, <1>3, <1>4 DEF StepServes, b
<1> QED BY <1>3, <1>5, <1>6

\* A poll that answers with nothing queues nothing, and one that answers with
\* a reply queues the latest packet of the control channel.
LEMMA NothingAdds ==
  ASSUME NEW P PROVE Adds(P, <<>>, P)
<1> SUFFICES ASSUME NEW q, NEW W, NEW n, Line(P, q, W, n) PROVE Line(P, PushAll(q, <<>>), W, n)
  BY DEF Adds
<1>1. PushAll(q, <<>>) = q
  <2> DEFINE ps == <<>>
  <2>1. Len(ps) = 0 /\ Len(ps) \in Nat OBVIOUS
  <2> HIDE DEF ps
  <2>2. PICK g : /\ g[0] = q
                 /\ \A i \in 1..Len(ps) : g[i] = Push(g[i-1], ps[i])
                 /\ PushAll(q, ps) = g[Len(ps)]
    BY <2>1, PushAllUnfolds
  <2> QED BY <2>1, <2>2 DEF ps
<1> QED BY <1>1

LEMMA ReplyAdds ==
  ASSUME NEW P, NEW p, p.channel \in Channels,
         \A r \in P : r.channel = p.channel => QueuedBefore(r, p)
  PROVE  Adds(P, <<p>>, P \cup {p})
<1> SUFFICES ASSUME NEW q, NEW W, NEW n, Line(P, q, W, n)
             PROVE  Line(P \cup {p}, PushAll(q, <<p>>), W, n)
  BY DEF Adds
<1>1. PushAll(q, <<p>>) = Push(q, p)
  <2> DEFINE ps == <<p>>
  <2>1. Len(ps) = 1 /\ ps[1] = p OBVIOUS
  <2> HIDE DEF ps
  <2>2. PICK g : /\ g[0] = q
                 /\ \A i \in 1..Len(ps) : g[i] = Push(g[i-1], ps[i])
                 /\ PushAll(q, ps) = g[Len(ps)]
    BY <2>1, PushAllUnfolds
  <2>3. g[1] = Push(g[1-1], ps[1]) /\ 1 - 1 = 0
    BY <2>1, <2>2
  <2> QED BY <2>1, <2>2, <2>3 DEF ps
<1> QED BY <1>1, LinePushes

LEMMA PollIdleKeeps ==
  ASSUME HostInd, PollIdle PROVE HostInd' /\ StepServes
<1>1. PICK P : Made(P, metrics.replies, pumps, frames) /\ Line(P, outbound, wire, sendCounter)
  BY DEF HostInd
<1>2. Len(<<>>) = 0 /\ Counts /\ MetricsAddUp
  BY DEF HostInd
<1>3. Total(outbound) + outbound.dropped = Total(outbound) + outbound.dropped + Len(<<>>)
  <2>1. WellFormed(P, outbound) BY <1>1 DEF Line
  <2> QED BY <1>2, <2>1, TotalFacts DEF WellFormed, Queues
<1>4. FlushOnce(outbound, <<>>) /\ UNCHANGED pumpVars
  BY DEF PollIdle
<1> DEFINE ps == <<>>
<1>5. Len(ps) \in Nat
  BY <1>2
<1> HIDE DEF ps
<1>6. /\ Line(P, outbound', wire', sendCounter')
      /\ metrics'.replies = metrics.replies
      /\ \E m : Moves(ps, m)
  BY <1>1, <1>2, <1>3, <1>4, <1>5, FlushOnceFacts DEF ps
<1>7. WellFormed(P, outbound')
  BY <1>6 DEF Line
<1>8. Counts' /\ MetricsAddUp' /\ StepServes
  BY <1>1, <1>2, <1>5, <1>6, <1>7, MovesAddUp
<1>9. Made(P, metrics'.replies, pumps', frames')
  BY <1>1, <1>4, <1>6 DEF pumpVars
<1> QED BY <1>4, <1>6, <1>8, <1>9 DEF HostInd, pumpVars

LEMMA PollRepliesKeeps ==
  ASSUME HostInd, PollReplies PROVE HostInd' /\ StepServes
<1>1. PICK P : Made(P, metrics.replies, pumps, frames) /\ Line(P, outbound, wire, sendCounter)
  BY DEF HostInd
<1>2. Counts /\ MetricsAddUp /\ metrics.replies \in Nat
  BY DEF HostInd, Counts
<1> DEFINE Q == P \cup {Reply}
           ps == <<Reply>>
<1>3. /\ Made(Q, metrics.replies + 1, pumps, frames)
      /\ Reply.channel \in Channels
      /\ \A r \in P : r.channel = Reply.channel => QueuedBefore(r, Reply)
  BY <1>1, <1>2, MadeByReply DEF Reply
<1>4. Adds(P, ps, Q)
  BY <1>3, ReplyAdds
<1>5. /\ ps \in Seq(Q) /\ Len(ps) = 1 /\ P \subseteq Q
      /\ \A i \in 1..Len(ps) : ps[i].channel \in Channels
  <2> DEFINE reply == Reply
  <2>1. reply \in Q /\ reply.channel \in Channels
    BY <1>3
  <2>2. ps = <<reply>>
    OBVIOUS
  <2> HIDE DEF reply, Q
  <2>3. ps \in Seq(Q) /\ Len(ps) = 1 /\ ps[1] = reply
    BY <2>1, <2>2
  <2>4. P \subseteq Q
    BY DEF Q
  <2> HIDE DEF ps
  <2> QED BY <2>1, <2>3, <2>4
<1>6. FlushTwice(ps) /\ UNCHANGED pumpVars
  BY DEF PollReplies
<1> HIDE DEF Q, ps
<1>7. /\ Line(Q, outbound', wire', sendCounter')
      /\ metrics'.replies = metrics.replies + Len(ps)
      /\ \E m : Moves(ps, m)
  BY <1>1, <1>2, <1>4, <1>5, <1>6, FlushTwiceFacts
<1>8. WellFormed(Q, outbound')
  BY <1>7 DEF Line
<1>9. Counts' /\ MetricsAddUp' /\ StepServes
  BY <1>1, <1>2, <1>5, <1>7, <1>8, MovesAddUp
<1>10. Made(Q, metrics'.replies, pumps', frames')
  BY <1>3, <1>5, <1>6, <1>7 DEF pumpVars
<1> QED BY <1>6, <1>7, <1>9, <1>10 DEF HostInd, pumpVars

LEMMA VideoTickKeeps ==
  ASSUME HostInd, VideoTick PROVE HostInd' /\ StepServes
<1>1. PICK P : Made(P, metrics.replies, pumps, frames) /\ Line(P, outbound, wire, sendCounter)
  BY DEF HostInd
<1>2. /\ Counts /\ MetricsAddUp /\ pump = pumps /\ pumps \in Nat \ {0} /\ frames \in Nat
      /\ frames < MaxFrames /\ frames' = frames + 1 /\ UNCHANGED <<pump, pumps, override>>
  BY HostBounds DEF HostInd, VideoTick
<1>3. PICK count \in 1..MaxCount, tail \in Tails :
        FlushOnce(PushAll(outbound, Fragments(count, tail)), Fragments(count, tail))
  BY DEF VideoTick
<1>4. count \in Nat
  BY HostBounds
<1> DEFINE F(j) == Fragment(frames + 1, j, count, tail)
           Q == WithFragments(P, count, tail, count)
           ps == Fragments(count, tail)
           q == PushAll(outbound, ps)
<1>5. Line(Q, q, wire, sendCounter) /\ Made(Q, metrics.replies, pumps, frames + 1)
  <2>1. pump = pumps /\ pumps \in Nat \ {0} /\ frames \in Nat
    BY <1>2
  <2> QED BY <1>1, <1>3, <1>4, <2>1, LinePushesFrame
<1>6. ps = [i \in 1..count |-> F(i)] /\ \A i \in 1..count : F(i).channel = "Video" /\ F(i) \in Q
  BY DEF Fragments, Fragment, WithFragments
<1>7. FlushOnce(q, ps)
  BY <1>3
<1> HIDE DEF F, q
<1>8. /\ ps \in Seq(Q) /\ Len(ps) = count
      /\ \A i \in 1..Len(ps) : ps[i].channel \in Channels
  <2> HIDE DEF Q, ps
  <2>1. ps \in Seq(Q) /\ Len(ps) = count /\ \A i \in 1..count : ps[i] = F(i)
    BY <1>4, <1>6
  <2>2. \A i \in 1..count : ps[i].channel = "Video"
    BY <1>6, <2>1
  <2> QED BY <2>1, <2>2 DEF Channels
<1>9. WellFormed(Q, outbound)
  <2>1. P \subseteq Q /\ sendCounter \in Nat /\ sendCounter >= sendCounter
    BY <1>1 DEF Line, WithFragments
  <2> HIDE DEF Q
  <2>2. Line(Q, outbound, wire, sendCounter)
    BY <1>1, <2>1, LineGrows
  <2> QED BY <2>2 DEF Line
<1> HIDE DEF Q, ps
<1>10. /\ Total(q) + q.dropped = Total(outbound) + outbound.dropped + Len(ps)
       /\ \A c \in Channels : outbound.queues[c] # <<>> => q.queues[c] # <<>>
  BY <1>8, <1>9, PushAllFacts DEF q
<1>11. /\ Line(Q, outbound', wire', sendCounter')
       /\ metrics'.replies = metrics.replies
       /\ \E m : Moves(ps, m)
  BY <1>2, <1>4, <1>5, <1>7, <1>8, <1>10, FlushOnceFacts
<1>12. WellFormed(Q, outbound')
  BY <1>11 DEF Line
<1>13. Counts' /\ MetricsAddUp' /\ StepServes
  BY <1>1, <1>2, <1>4, <1>8, <1>11, <1>12, MovesAddUp
<1>14. Made(Q, metrics'.replies, pumps', frames')
  BY <1>2, <1>5, <1>11
<1>15. frames' \in 0..MaxFrames
  BY <1>2, HostBounds
<1> QED BY <1>2, <1>11, <1>13, <1>14, <1>15 DEF HostInd

\* A new pump numbers its frames from 1 again, after all frames of the others.
LEMMA NewPumpKeeps ==
  ASSUME HostInd, NewPump
  PROVE  /\ pump' \in {0, pumps'} /\ pumps' \in 1..MaxPumps /\ frames' \in 0..MaxFrames
         /\ \A P, rs : Made(P, rs, pumps, frames) => Made(P, rs, pumps', frames')
<1>1. /\ pumps \in Nat /\ pumps < MaxPumps /\ pumps' = pumps + 1 /\ pump' \in {0, pumps + 1}
      /\ frames' = 0 /\ pumps \in 1..MaxPumps
  BY HostBounds DEF HostInd, NewPump
<1> QED BY <1>1, HostBounds, MadeByNewPump

LEMMA ConfigReceivedKeeps ==
  ASSUME HostInd, ConfigReceived PROVE HostInd' /\ StepServes
<1>1. PICK P : Made(P, metrics.replies, pumps, frames) /\ Line(P, outbound, wire, sendCounter)
  BY DEF HostInd
<1>2. Counts /\ MetricsAddUp /\ FlushTwice(<<>>) /\ UNCHANGED override
  BY DEF HostInd, ConfigReceived
<1> DEFINE ps == <<>>
<1>3. ps \in Seq(P) /\ Len(ps) = 0 /\ \A i \in 1..Len(ps) : ps[i].channel \in Channels
  OBVIOUS
<1>4. Adds(P, ps, P)
  BY NothingAdds
<1>5. FlushTwice(ps)
  BY <1>2
<1> HIDE DEF ps
<1>6. /\ Line(P, outbound', wire', sendCounter')
      /\ metrics'.replies = metrics.replies + Len(ps)
      /\ \E m : Moves(ps, m)
  BY <1>1, <1>2, <1>3, <1>4, <1>5, FlushTwiceFacts
<1>7. WellFormed(P, outbound') /\ metrics'.replies = metrics.replies
  BY <1>2, <1>3, <1>6 DEF Line, Counts
<1>8. Counts' /\ MetricsAddUp' /\ StepServes
  BY <1>1, <1>2, <1>3, <1>6, <1>7, MovesAddUp
<1>9. /\ pump' \in {0, pumps'} /\ pumps' \in 1..MaxPumps /\ frames' \in 0..MaxFrames
      /\ Made(P, metrics.replies, pumps', frames')
  <2>1. CASE override
    BY <1>1, <2>1 DEF HostInd, ConfigReceived
  <2>2. CASE ~override
    BY <1>1, <2>2, NewPumpKeeps DEF ConfigReceived
  <2> QED BY <2>1, <2>2
<1>10. override' \in BOOLEAN
  BY <1>2 DEF HostInd
<1> QED BY <1>6, <1>7, <1>8, <1>9, <1>10 DEF HostInd

LEMMA HostStepKeeps ==
  ASSUME HostInd, HostStep PROVE HostInd' /\ StepServes
<1>1. PICK P : Made(P, metrics.replies, pumps, frames) /\ Line(P, outbound, wire, sendCounter)
  BY DEF HostInd
<1>2. ASSUME UNCHANGED sealVars PROVE StepServes
  BY <1>1, <1>2 DEF StepServes, sealVars, Line
<1>3. CASE PumpFails
  <2>1. /\ pump' = 0 /\ UNCHANGED <<pumps, frames, override, outbound, metrics>>
        /\ UNCHANGED <<sendCounter, wire>>
    BY <1>3 DEF PumpFails, sealVars
  <2>2. HostInd'
    BY <2>1 DEF HostInd, Counts, MetricsAddUp
  <2> QED BY <1>2, <2>1, <2>2 DEF sealVars
<1>4. CASE OverrideChanges
  <2>1. NewPump /\ override' \in BOOLEAN /\ UNCHANGED <<outbound, metrics, sendCounter, wire>>
    BY <1>4 DEF OverrideChanges, sealVars
  <2>2. HostInd'
    BY <1>1, <2>1, NewPumpKeeps DEF HostInd, Counts, MetricsAddUp
  <2> QED BY <1>2, <2>1, <2>2 DEF sealVars
<1> QED BY <1>3, <1>4, PollIdleKeeps, PollRepliesKeeps, VideoTickKeeps, ConfigReceivedKeeps
      DEF HostStep

LEMMA HostKeeps ==
  ASSUME HostInd, [MediaNext]_mediaVars PROVE HostInd' /\ (StepServes \/ UNCHANGED sendCounter)
<1>1. CASE HostStep
  BY <1>1, HostStepKeeps
<1>2. CASE UNCHANGED <<hostVars, sealVars>>
  BY <1>2 DEF HostInd, Counts, MetricsAddUp, hostVars, pumpVars, sealVars
<1> QED BY <1>1, <1>2 DEF MediaNext, mediaVars

(***************************************************************************)
(* What the host promises.                                                 *)
(***************************************************************************)
THEOREM HostInvariance == MediaSpec => []HostInd
<1>1. MediaInit => HostInd
  BY HostInit
<1>2. HostInd /\ [MediaNext]_mediaVars => HostInd'
  BY HostKeeps
<1> QED BY <1>1, <1>2, PTL DEF MediaSpec

\* The health snapshot's counters of OutboundPacketQueues and of the flush
\* add up: every packet queued was sent, was dropped or waits.
THEOREM MetricsAlwaysAddUp == MediaSpec => []MetricsAddUp
<1>1. HostInd => MetricsAddUp
  BY DEF HostInd
<1> QED BY <1>1, HostInvariance, PTL

\* OutboundPacketQueues never reorders a channel and never sends a packet
\* twice, whatever push, push_front and the flush's budget do in between.
THEOREM ChannelsAreAlwaysFifo == MediaSpec => []ChannelsAreFifo
<1>1. HostInd => ChannelsAreFifo
  BY DEF HostInd, Line, ChannelsAreFifo
<1> QED BY <1>1, HostInvariance, PTL

\* A step whose flushes are not held up serves every channel that waits.
EveryWaiterIsServed ==
  [][sendCounter' > sendCounter /\ sendCounter' - sendCounter = metrics'.sent - metrics.sent
     => \A c \in Channels : outbound.queues[c] # <<>> =>
          \E d \in wire' \ wire : d.packet.channel = c]_mediaVars

\* OUTBOUND_QOS_SCHEDULE: a flush the socket does not hold up sends a packet
\* of every channel that has one.
THEOREM WaitersAreServed == MediaSpec => EveryWaiterIsServed
<1>1. HostInd /\ [MediaNext]_mediaVars
        => [sendCounter' > sendCounter /\ sendCounter' - sendCounter = metrics'.sent - metrics.sent
              => \A c \in Channels : outbound.queues[c] # <<>> =>
                   \E d \in wire' \ wire : d.packet.channel = c]_mediaVars
  <2> SUFFICES ASSUME HostInd, [MediaNext]_mediaVars,
                      sendCounter' > sendCounter,
                      sendCounter' - sendCounter = metrics'.sent - metrics.sent
               PROVE  Serves(outbound)
    BY DEF Serves
  <2>1. sendCounter \in Nat
    BY DEF HostInd, Line
  <2>2. sendCounter' # sendCounter
    BY <2>1
  <2> QED BY <2>2, HostKeeps DEF StepServes
<1> QED BY <1>1, HostInvariance, PTL DEF EveryWaiterIsServed, MediaSpec

(***************************************************************************)
(* The client: what the reassembler keeps, of all it was given.            *)
(***************************************************************************)
VideosOf(ds) == {p \in {d.packet : d \in ds} : p.channel = "Video"}

\* The fragments given to the reassembler for the frames numbered s.
OfSequence(s) == {y \in received : y.sequence = s}
OnePump(s) == \A y, z \in OfSequence(s) : y.pump = z.pump

\* Fragments of one count, each with an index of its own.
Alike(ys) == \A y, z \in ys : y.count = z.count /\ (y.index = z.index => y = z)

BegunHolds ==
  \A s \in DOMAIN pending :
    /\ pending[s] \subseteq OfSequence(s) /\ pending[s] # {} /\ Alike(pending[s])
    /\ \A y \in pending[s] : Cardinality(pending[s]) < y.count

UnitsHold ==
  /\ completed \in Seq(Seq(VideosOf(opened)))
  /\ \A i \in 1..Len(completed) : \A j, k \in 1..Len(completed[i]) :
       completed[i][j].sequence = completed[i][k].sequence

\* While one pump alone has used a number: a frame with that number that
\* has not all arrived is pending with all that has, and one that has was
\* put together once.
Rebuilt(x) ==
  LET ys == OfSequence(x.sequence) IN
  \/ /\ Cardinality(ys) < x.count
     /\ x.sequence \in DOMAIN pending /\ pending[x.sequence] = ys
  \/ /\ Cardinality(ys) = x.count
     /\ x.sequence \notin DOMAIN pending
     /\ \E i \in 1..Len(completed) :
          \A j \in 1..Len(completed) : completed[j] = Joined(ys, x) <=> j = i

RebuiltHolds == \A x \in received : OnePump(x.sequence) => Rebuilt(x)

ClientInd ==
  /\ attached \in BOOLEAN
  /\ ~attached => pending = [s \in {} |-> {}]
  /\ received \subseteq VideosOf(opened) /\ IsFiniteSet(received)
  /\ BegunHolds /\ UnitsHold /\ RebuiltHolds

(***************************************************************************)
(* The video packets on the network.                                       *)
(***************************************************************************)
LEMMA VideosAgree ==
  ASSUME HostInd
  PROVE  /\ \A p \in VideosOf(wire) :
              /\ p.channel = "Video" /\ p.count \in Nat /\ p.index \in 1..p.count
              /\ p.pump \in 1..pumps /\ p.sequence \in Nat
         /\ \A p, r \in VideosOf(wire) : SameFrame(p, r) =>
              p.count = r.count /\ p.tail = r.tail /\ (p.index = r.index => p = r)
<1>1. PICK P : Made(P, metrics.replies, pumps, frames) /\ Line(P, outbound, wire, sendCounter)
  BY DEF HostInd
<1>2. ASSUME NEW p \in VideosOf(wire)
      PROVE  p \in P /\ p.channel = "Video" /\ IsVideo(p, pumps, frames)
  <2>1. p \in P /\ p.channel = "Video"
    BY <1>1 DEF VideosOf, Line
  <2> QED BY <1>1, <2>1 DEF Made, IsReply
<1>3. ASSUME NEW p \in VideosOf(wire), NEW r \in VideosOf(wire), SameFrame(p, r)
      PROVE  p.count = r.count /\ p.tail = r.tail /\ (p.index = r.index => p = r)
  <2>1. p.count = r.count /\ p.tail = r.tail
    BY <1>1, <1>2, <1>3 DEF Made, OneFrame
  <2>2. ASSUME p.index = r.index PROVE p = r
    <3>1. /\ p.channel = r.channel /\ p.pump = r.pump /\ p.sequence = r.sequence
          /\ p.index = r.index /\ p.count = r.count /\ p.tail = r.tail
      BY <1>2, <1>3, <2>1, <2>2 DEF SameFrame
    <3>2. /\ p = [channel |-> p.channel, pump |-> p.pump, sequence |-> p.sequence,
                  index |-> p.index, count |-> p.count, tail |-> p.tail]
          /\ r = [channel |-> r.channel, pump |-> r.pump, sequence |-> r.sequence,
                  index |-> r.index, count |-> r.count, tail |-> r.tail]
      BY <1>2 DEF IsVideo
    <3> QED BY <3>1, <3>2
  <2> QED BY <2>1, <2>2
<1>4. ASSUME NEW p \in VideosOf(wire)
      PROVE  /\ p.channel = "Video" /\ p.count \in Nat /\ p.index \in 1..p.count
             /\ p.pump \in 1..pumps /\ p.sequence \in Nat
  BY <1>2 DEF IsVideo
<1> QED BY <1>3, <1>4

\* A datagram opened now holds a packet no other datagram opened held.
LEMMA OpenedIsNew ==
  ASSUME HostInd, TransportInd, NEW d \in wire, d \notin opened, d.packet.channel = "Video"
  PROVE  d.packet \in VideosOf(wire) /\ d.packet \notin VideosOf(opened)
<1>1. d.packet \in VideosOf(wire)
  BY DEF VideosOf
<1>2. ASSUME NEW e \in opened, e.packet = d.packet PROVE FALSE
  <2>1. e \in wire /\ e.counter # d.counter
    BY DEF TransportInd, SealTypeOK, CountersUnique
  <2>2. e.counter \in Nat /\ d.counter \in Nat
    BY <2>1 DEF TransportInd, SealTypeOK, CountersUnique
  <2>3. e.counter < d.counter \/ d.counter < e.counter
    BY <2>1, <2>2
  <2>4. QueuedBefore(d.packet, d.packet)
    BY <1>2, <2>1, <2>3 DEF HostInd, Line
  <2>5. d.packet.pump \in Nat /\ d.packet.sequence \in Nat /\ d.packet.index \in Nat
    BY <1>1, VideosAgree
  <2> QED BY <2>4, <2>5 DEF QueuedBefore
<1> QED BY <1>1, <1>2 DEF VideosOf

(***************************************************************************)
(* Fragments with indexes of their own.                                    *)
(***************************************************************************)
LEMMA IndexesFill ==
  ASSUME NEW n \in Nat, NEW ys, IsFiniteSet(ys), \A y \in ys : y.index \in 1..n,
         \A y, z \in ys : y.index = z.index => y = z
  PROVE  /\ Cardinality(ys) \in Nat /\ Cardinality(ys) <= n
         /\ Cardinality(ys) = n => \A i \in 1..n : \E y \in ys : y.index = i
<1> DEFINE f == [y \in ys |-> y.index]
<1>1. Cardinality(ys) \in Nat
  BY FS_CardinalityType
<1>2. IsFiniteSet(1..n) /\ Cardinality(1..n) = n
  <2>1. IsFiniteSet(1..n) /\ Cardinality(1..n) = IF 1 > n THEN 0 ELSE n - 1 + 1
    BY FS_Interval
  <2> QED BY <2>1
<1>3. ASSUME NEW T, \A y \in ys : y.index \in T, IsFiniteSet(T)
      PROVE  Cardinality(ys) <= Cardinality(T)
  <2>1. f \in Injection(ys, T)
    BY <1>3 DEF Injection, IsInjective
  <2> QED BY <1>3, <2>1, FS_Injection
<1>4. Cardinality(ys) <= n
  BY <1>2, <1>3
<1>5. ASSUME Cardinality(ys) = n, NEW i \in 1..n PROVE \E y \in ys : y.index = i
  <2> SUFFICES ASSUME \A y \in ys : y.index # i PROVE FALSE
    OBVIOUS
  <2>1. IsFiniteSet((1..n) \ {i}) /\ Cardinality((1..n) \ {i}) = n - 1
    BY <1>2, FS_RemoveElement
  <2>2. Cardinality(ys) <= n - 1
    BY <1>3, <2>1
  <2> QED BY <1>5, <2>2
<1> QED BY <1>1, <1>4, <1>5

LEMMA JoinedFacts ==
  ASSUME NEW ys, NEW x, x.count \in Nat, \A i \in 1..x.count : \E y \in ys : y.index = i
  PROVE  /\ Joined(ys, x) \in Seq(ys) /\ Len(Joined(ys, x)) = x.count
         /\ \A i \in 1..x.count : Joined(ys, x)[i] \in ys /\ Joined(ys, x)[i].index = i
<1> DEFINE n == x.count
           F(i) == CHOOSE y \in ys : y.index = i
           s == [i \in 1..n |-> F(i)]
<1>1. \A i \in 1..n : F(i) \in ys /\ F(i).index = i
  OBVIOUS
<1>2. Joined(ys, x) = s
  BY DEF Joined
<1> HIDE DEF F, n
<1>3. s \in Seq(ys) /\ Len(s) = n /\ \A i \in 1..n : s[i] = F(i)
  BY <1>1 DEF n
<1> HIDE DEF s
<1>4. \A i \in 1..n : s[i] \in ys /\ s[i].index = i
  BY <1>1, <1>3
<1> QED BY <1>2, <1>3, <1>4 DEF n

(***************************************************************************)
(* pushFragment of a fragment that was not there before.                   *)
(***************************************************************************)
\* x is given to a reassembler that holds what it should.
Arrives(x) ==
  /\ HostInd /\ ClientInd /\ opened \subseteq wire
  /\ x \in VideosOf(wire) /\ x \notin VideosOf(opened)

LEMMA ArrivalFacts ==
  ASSUME NEW x, Arrives(x)
  PROVE  /\ x.count \in Nat /\ x.index \in 1..x.count /\ x.sequence \in Nat
         /\ x \notin received /\ IsFiniteSet(received)
         /\ VideosOf(opened) \subseteq VideosOf(wire)
         /\ \A y \in OfSequence(x.sequence) \cup {x} : y \in VideosOf(wire) /\ y.sequence = x.sequence
         /\ IsFiniteSet(OfSequence(x.sequence))
         /\ Begun(x) \subseteq OfSequence(x.sequence) /\ IsFiniteSet(Begun(x)) /\ Alike(Begun(x))
         /\ \A y \in Begun(x) : Cardinality(Begun(x)) < y.count
<1> DEFINE s == x.sequence
<1>1. x.count \in Nat /\ x.index \in 1..x.count /\ s \in Nat
  BY VideosAgree DEF Arrives
<1>2. received \subseteq VideosOf(opened) /\ IsFiniteSet(received) /\ BegunHolds
  BY DEF Arrives, ClientInd
<1>3. VideosOf(opened) \subseteq VideosOf(wire)
  BY DEF Arrives, VideosOf
<1>4. x \notin received
  BY <1>2 DEF Arrives
<1>5. OfSequence(s) \subseteq received
  BY DEF OfSequence
<1>6. IsFiniteSet(OfSequence(s))
  BY <1>2, <1>5, FS_Subset
<1>7. \A y \in OfSequence(s) \cup {x} : y \in VideosOf(wire) /\ y.sequence = s
  BY <1>2, <1>3 DEF OfSequence, Arrives
<1>8. /\ Begun(x) \subseteq OfSequence(s) /\ Alike(Begun(x))
      /\ \A y \in Begun(x) : Cardinality(Begun(x)) < y.count
  BY <1>2 DEF Begun, BegunHolds, Alike
<1>9. IsFiniteSet(Begun(x))
  BY <1>6, <1>8, FS_Subset
<1> QED BY <1>1, <1>2, <1>3, <1>4, <1>6, <1>7, <1>8, <1>9

LEMMA TakenFacts ==
  ASSUME NEW x, Arrives(x), ~CountChanged(x)
  PROVE  /\ Taken(x) \subseteq OfSequence(x.sequence) \cup {x} /\ Taken(x) # {}
         /\ \A y \in Taken(x) : y.count = x.count /\ y.sequence = x.sequence
                                /\ y.index \in 1..x.count
         /\ Alike(Taken(x))
         /\ IsFiniteSet(Taken(x)) /\ Cardinality(Taken(x)) \in Nat
         /\ Cardinality(Taken(x)) <= x.count
         /\ IsWhole(Taken(x), x) => \A i \in 1..x.count : \E y \in Taken(x) : y.index = i
<1> DEFINE B == Begun(x)
           T == Taken(x)
<1>1. /\ x.count \in Nat /\ x.index \in 1..x.count
      /\ B \subseteq OfSequence(x.sequence) /\ IsFiniteSet(B) /\ Alike(B)
      /\ \A y \in OfSequence(x.sequence) \cup {x} : y \in VideosOf(wire) /\ y.sequence = x.sequence
  BY ArrivalFacts
<1>2. \A y \in B : y.count = x.count
  BY DEF CountChanged
<1>3. \/ T = B /\ (\E y \in B : y.index = x.index)
      \/ T = B \cup {x} /\ (\A y \in B : y.index # x.index)
  BY DEF Taken
<1> HIDE DEF B, T
<1>4. T \subseteq OfSequence(x.sequence) \cup {x} /\ T # {} /\ \A y \in T : y.count = x.count
  BY <1>1, <1>2, <1>3
<1>5. Alike(T)
  BY <1>1, <1>2, <1>3 DEF Alike
<1>6. IsFiniteSet(T)
  BY <1>1, <1>3, FS_AddElement
<1>7. \A y \in T : y.sequence = x.sequence /\ y.index \in 1..x.count
  <2>1. \A y \in VideosOf(wire) : y.index \in 1..y.count
    BY VideosAgree DEF Arrives
  <2> QED BY <1>1, <1>4, <2>1
<1>8. /\ Cardinality(T) \in Nat /\ Cardinality(T) <= x.count
      /\ Cardinality(T) = x.count => \A i \in 1..x.count : \E y \in T : y.index = i
  BY <1>1, <1>5, <1>6, <1>7, IndexesFill DEF Alike
<1> QED BY <1>4, <1>5, <1>6, <1>7, <1>8 DEF T, IsWhole

\* As long as one pump alone has used the number, the reassembler has all
\* the fragments of the frame that came before, and none of them is in the way.
LEMMA OnePumpTakes ==
  ASSUME NEW x, Arrives(x), \A y \in OfSequence(x.sequence) : y.pump = x.pump
  PROVE  /\ ~CountChanged(x)
         /\ Taken(x) = OfSequence(x.sequence) \cup {x}
         /\ \A y \in OfSequence(x.sequence) : y.count = x.count /\ y.tail = x.tail
<1> DEFINE R == OfSequence(x.sequence)
           B == Begun(x)
<1>1. /\ x.count \in Nat /\ x.index \in 1..x.count /\ x \notin received
      /\ IsFiniteSet(R) /\ B \subseteq R
      /\ \A y \in R \cup {x} : y \in VideosOf(wire) /\ y.sequence = x.sequence
  BY ArrivalFacts
<1>2. x \notin R /\ R \subseteq received
  BY <1>1 DEF OfSequence
<1>3. \A y, z \in R \cup {x} :
        y.count = z.count /\ y.tail = z.tail /\ (y.index = z.index => y = z)
  <2>1. \A y, z \in R \cup {x} : SameFrame(y, z)
    BY <1>1 DEF SameFrame
  <2>2. HostInd
    BY DEF Arrives
  <2> HIDE DEF R
  <2> QED BY <1>1, <2>1, <2>2, VideosAgree
<1>4. \A y \in R : y.index # x.index /\ y.count = x.count
  BY <1>2, <1>3
<1>5. Cardinality(R) + 1 <= x.count
  <2> DEFINE S == R \cup {x}
  <2>1. IsFiniteSet(S) /\ Cardinality(S) = Cardinality(R) + 1
    BY <1>1, <1>2, FS_AddElement
  <2>2. \A y \in S : y.index \in 1..x.count
    <3>1. \A y \in VideosOf(wire) : y.index \in 1..y.count
      BY VideosAgree DEF Arrives
    <3> QED BY <1>1, <1>3, <3>1
  <2>3. \A y, z \in S : y.index = z.index => y = z
    BY <1>3
  <2> HIDE DEF S
  <2>4. Cardinality(S) <= x.count
    BY <1>1, <2>1, <2>2, <2>3, IndexesFill
  <2> QED BY <2>1, <2>4
<1>6. B = R
  <2>1. CASE R = {}
    BY <1>1, <2>1
  <2>2. CASE R # {}
    <3>1. PICK y \in R : y.sequence = x.sequence
      BY <1>1, <2>2
    <3>2. OnePump(y.sequence) /\ y \in received
      BY <1>2, <3>1 DEF OnePump
    <3>3. Rebuilt(y)
      BY <3>2 DEF Arrives, ClientInd, RebuiltHolds
    <3>4. Cardinality(R) \in Nat /\ Cardinality(R) # y.count
      BY <1>1, <1>4, <1>5, <3>1, FS_CardinalityType
    <3>5. x.sequence \in DOMAIN pending /\ pending[x.sequence] = R
      BY <3>1, <3>3, <3>4 DEF Rebuilt
    <3> QED BY <3>5 DEF Begun
  <2> QED BY <2>1, <2>2
<1> HIDE DEF R, B
<1>7. ~CountChanged(x)
  BY <1>4, <1>6 DEF CountChanged, B
<1>8. Taken(x) = R \cup {x}
  BY <1>4, <1>6 DEF Taken, B
<1>9. \A y \in R : y.count = x.count /\ y.tail = x.tail
  BY <1>3
<1> QED BY <1>7, <1>8, <1>9 DEF R

\* A unit put together now was not put together before: it holds x.
LEMMA UnitIsNew ==
  ASSUME NEW x, Arrives(x), ~CountChanged(x), IsWhole(Taken(x), x)
  PROVE  /\ Joined(Taken(x), x) \in Seq(Taken(x)) /\ Len(Joined(Taken(x), x)) = x.count
         /\ \A i \in 1..x.count : Joined(Taken(x), x)[i] \in Taken(x)
         /\ \A j \in 1..Len(completed) : completed[j] # Joined(Taken(x), x)
<1> DEFINE T == Taken(x)
           u == Joined(T, x)
           A == Seq(VideosOf(opened))
<1>1. /\ x.count \in Nat /\ x.index \in 1..x.count /\ IsFiniteSet(Begun(x))
      /\ \A y \in Begun(x) : Cardinality(Begun(x)) < y.count
  BY ArrivalFacts
<1>2. \A i \in 1..x.count : \E y \in T : y.index = i
  BY TakenFacts
<1>3. Alike(T) /\ T # {} /\ \A y \in T : y.count = x.count
  BY TakenFacts
<1>4. x \in T
  <2> SUFFICES ASSUME T = Begun(x) PROVE FALSE
    BY DEF Taken
  <2>1. PICK y \in T : y.count = x.count
    BY <1>3
  <2>2. Cardinality(T) < x.count /\ Cardinality(T) = x.count
    BY <1>1, <2>1 DEF IsWhole
  <2> QED BY <1>1, <2>2
<1>5. /\ u \in Seq(T) /\ Len(u) = x.count
      /\ \A i \in 1..x.count : u[i] \in T /\ u[i].index = i
  <2> HIDE DEF T
  <2> QED BY <1>1, <1>2, JoinedFacts
<1>6. completed \in Seq(A)
  BY DEF Arrives, ClientInd, UnitsHold
<1> HIDE DEF T, u, A
<1>7. u[x.index] = x
  BY <1>1, <1>3, <1>4, <1>5 DEF Alike
<1>8. ASSUME NEW j \in 1..Len(completed), completed[j] = u PROVE FALSE
  <2>1. completed[j] \in A
    BY <1>6
  <2>2. x.index \in 1..Len(completed[j])
    BY <1>1, <1>5, <1>8
  <2>3. completed[j][x.index] \in VideosOf(opened)
    BY <2>1, <2>2 DEF A
  <2> QED BY <1>7, <1>8, <2>3 DEF Arrives
<1> QED BY <1>5, <1>8 DEF u, T

\* The units put together so far, with or without one more that holds x.
LEMMA UnitsGrow ==
  ASSUME NEW x, Arrives(x), VideosOf(opened)' = VideosOf(opened) \cup {x},
         \/ completed' = completed
         \/ /\ ~CountChanged(x) /\ IsWhole(Taken(x), x)
            /\ completed' = Append(completed, Joined(Taken(x), x))
  PROVE  UnitsHold'
<1> DEFINE V == VideosOf(opened)
           W == V \cup {x}
           u == Joined(Taken(x), x)
<1>1. completed \in Seq(Seq(V))
  BY DEF Arrives, ClientInd, UnitsHold
<1>2. \A i \in 1..Len(completed) : \A j, k \in 1..Len(completed[i]) :
        completed[i][j].sequence = completed[i][k].sequence
  BY DEF Arrives, ClientInd, UnitsHold
<1>3. completed \in Seq(Seq(W))
  <2> HIDE DEF V
  <2>1. \A s : s \in Seq(V) => s \in Seq(W)
    OBVIOUS
  <2> HIDE DEF W
  <2> DEFINE A == Seq(V)
             B == Seq(W)
  <2>2. A \subseteq B /\ completed \in Seq(A)
    BY <1>1, <2>1
  <2> HIDE DEF A, B
  <2>3. completed \in Seq(B)
    BY <2>2
  <2> QED BY <2>3 DEF B
<1>4. CASE completed' = completed
  BY <1>2, <1>3, <1>4 DEF UnitsHold
<1>5. CASE /\ ~CountChanged(x) /\ IsWhole(Taken(x), x)
           /\ completed' = Append(completed, u)
  <2>1. /\ x.count \in Nat /\ u \in Seq(Taken(x)) /\ Len(u) = x.count
        /\ \A i \in 1..x.count : u[i] \in Taken(x)
    BY <1>5, ArrivalFacts, UnitIsNew
  <2>2. Taken(x) \subseteq W /\ \A y \in Taken(x) : y.sequence = x.sequence
    <3>1. OfSequence(x.sequence) \subseteq V
      BY DEF Arrives, ClientInd, OfSequence
    <3> QED BY <1>5, <3>1, TakenFacts
  <2> HIDE DEF u, W
  <2>3. u \in Seq(W)
    BY <2>1, <2>2
  <2> DEFINE B == Seq(W)
             c == Append(completed, u)
             l == Len(completed)
  <2>4. completed \in Seq(B) /\ u \in B
    BY <1>3, <2>3
  <2> HIDE DEF B
  <2>5. /\ c \in Seq(B) /\ Len(c) = l + 1 /\ l \in Nat
        /\ \A i \in 1..l : c[i] = completed[i]
        /\ c[l + 1] = u
    BY <2>4
  <2> HIDE DEF c, l
  <2>6. ASSUME NEW i \in 1..Len(c), NEW j \in 1..Len(c[i]), NEW k \in 1..Len(c[i])
        PROVE  c[i][j].sequence = c[i][k].sequence
    <3>1. CASE i \in 1..l
      BY <1>2, <2>5, <3>1 DEF l
    <3>2. CASE i = l + 1
      <4>1. j \in 1..x.count /\ k \in 1..x.count /\ c[i] = u
        BY <2>1, <2>5, <3>2
      <4> QED BY <2>1, <2>2, <4>1
    <3> QED BY <2>5, <3>1, <3>2
  <2>7. completed' = c
    BY <1>5 DEF c
  <2> QED BY <2>5, <2>6, <2>7 DEF UnitsHold, B, W
<1> QED BY <1>4, <1>5

\* The frame x belongs to is pending, or was put together just now.
LEMMA OwnFrameRebuilt ==
  ASSUME NEW x, Arrives(x), PushFragment(x),
         \A y \in OfSequence(x.sequence) : y.pump = x.pump,
         NEW z \in OfSequence(x.sequence) \cup {x}
  PROVE  Rebuilt(z)'
<1> DEFINE s == x.sequence
           R == OfSequence(s)
           T == Taken(x)
           u == Joined(T, x)
<1>1. /\ ~CountChanged(x) /\ T = R \cup {x} /\ \A y \in R : y.count = x.count /\ y.tail = x.tail
  BY OnePumpTakes
<1>2. /\ x.count \in Nat /\ x.index \in 1..x.count
      /\ \A y \in R \cup {x} : y.sequence = s
  BY ArrivalFacts
<1>3. z.count = x.count /\ z.sequence = s
  BY <1>1, <1>2
<1>4. OfSequence(s)' = T
  BY <1>1, <1>2 DEF PushFragment, OfSequence
<1>5. Cardinality(T) \in Nat /\ Cardinality(T) <= x.count
  BY <1>1, TakenFacts
<1>6. Joined(T, z) = u
  BY <1>3 DEF Joined
<1>7. CASE ~IsWhole(T, x)
  <2>1. pending' = [r \in DOMAIN pending \cup {s} |-> IF r = s THEN T ELSE pending[r]]
    BY <1>1, <1>7 DEF PushFragment
  <2> HIDE DEF T
  <2>2. s \in DOMAIN pending' /\ pending'[s] = T
    BY <2>1
  <2>3. Cardinality(T) < z.count
    BY <1>2, <1>3, <1>5, <1>7 DEF IsWhole
  <2> QED BY <1>3, <1>4, <2>2, <2>3 DEF Rebuilt
<1>8. CASE IsWhole(T, x)
  <2>1. /\ pending' = Without(s)
        /\ completed' = IF LengthMatches(u) THEN Append(completed, u) ELSE completed
    BY <1>1, <1>8 DEF PushFragment
  <2>2. /\ u \in Seq(T) /\ Len(u) = x.count /\ \A i \in 1..x.count : u[i] \in T
        /\ \A j \in 1..Len(completed) : completed[j] # u
    BY <1>1, <1>8, UnitIsNew
  <2>3. LengthMatches(u)
    <3>1. 1 \in 1..x.count /\ Len(u) \in 1..x.count
      BY <1>2, <2>2
    <3>2. \A y \in T : y.tail = x.tail
      BY <1>1
    <3> HIDE DEF u, T
    <3> QED BY <2>2, <3>1, <3>2 DEF LengthMatches
  <2> HIDE DEF u, T
  <2>4. completed' = Append(completed, u)
    BY <2>1, <2>3
  <2> DEFINE l == Len(completed)
  <2>5. /\ l \in Nat /\ Len(completed') = l + 1 /\ completed'[l + 1] = u
        /\ \A j \in 1..l : completed'[j] = completed[j]
    <3>1. completed \in Seq(Seq(VideosOf(opened)))
      BY DEF Arrives, ClientInd, UnitsHold
    <3> DEFINE A == Seq(VideosOf(opened))
    <3> HIDE DEF A
    <3>2. completed \in Seq(A) BY <3>1 DEF A
    <3> QED BY <2>4, <3>2
  <2>6. \A j \in 1..Len(completed') : completed'[j] = u <=> j = l + 1
    <3> HIDE DEF l
    <3>1. \A j \in 1..(l + 1) : j \in 1..l \/ j = l + 1
      BY <2>5
    <3> QED BY <2>2, <2>5, <3>1 DEF l
  <2>7. l + 1 \in 1..Len(completed')
    BY <2>5
  <2>8. s \notin DOMAIN pending'
    BY <2>1 DEF Without
  <2>9. Cardinality(T) = z.count
    BY <1>3, <1>8 DEF IsWhole
  <2>10. Joined(T, z) = u
    BY <1>6 DEF u, T
  <2>11. \E i \in 1..Len(completed') :
           \A j \in 1..Len(completed') : completed'[j] = Joined(T, z) <=> j = i
    BY <2>6, <2>7, <2>10
  <2> QED BY <1>3, <1>4, <2>8, <2>9, <2>11 DEF Rebuilt
<1> QED BY <1>7, <1>8

\* The other frames are left as they are.
LEMMA OtherFramesRebuilt ==
  ASSUME NEW x, Arrives(x), PushFragment(x),
         NEW z \in received, z.sequence # x.sequence, Rebuilt(z)
  PROVE  Rebuilt(z)'
<1> DEFINE r == z.sequence
           R == OfSequence(r)
<1>1. OfSequence(r)' = R
  BY DEF PushFragment, OfSequence
<1>2. Rebuilt(z)
  OBVIOUS
<1>3. (r \in DOMAIN pending' <=> r \in DOMAIN pending) /\ (r \in DOMAIN pending => pending'[r] = pending[r])
  BY DEF PushFragment, Without
<1>4. \/ completed' = completed
      \/ /\ ~CountChanged(x) /\ IsWhole(Taken(x), x)
         /\ completed' = Append(completed, Joined(Taken(x), x))
  BY DEF PushFragment
<1> HIDE DEF R
<1>5. CASE Cardinality(R) < z.count /\ r \in DOMAIN pending /\ pending[r] = R
  BY <1>1, <1>3, <1>5 DEF Rebuilt
<1>6. CASE /\ Cardinality(R) = z.count /\ r \notin DOMAIN pending
           /\ \E i \in 1..Len(completed) :
                \A j \in 1..Len(completed) : completed[j] = Joined(R, z) <=> j = i
  <2>1. PICK i \in 1..Len(completed) :
          \A j \in 1..Len(completed) : completed[j] = Joined(R, z) <=> j = i
    BY <1>6
  <2>2. \E k \in 1..Len(completed') :
          \A j \in 1..Len(completed') : completed'[j] = Joined(R, z) <=> j = k
    <3>1. CASE completed' = completed
      BY <2>1, <3>1
    <3>2. CASE /\ ~CountChanged(x) /\ IsWhole(Taken(x), x)
               /\ completed' = Append(completed, Joined(Taken(x), x))
      <4> DEFINE u == Joined(Taken(x), x)
                 A == Seq(VideosOf(opened))
                 l == Len(completed)
      <4>1. completed \in Seq(A)
        BY DEF Arrives, ClientInd, UnitsHold
      <4>2. u # Joined(R, z)
        BY <2>1, <3>2, UnitIsNew
      <4> HIDE DEF u, A, l
      <4>3. completed' = Append(completed, u) /\ l \in Nat /\ Len(completed') = l + 1
            /\ completed'[l + 1] = u /\ \A j \in 1..l : completed'[j] = completed[j]
        BY <3>2, <4>1 DEF u, l
      <4>4. \A j \in 1..(l + 1) : j \in 1..l \/ j = l + 1
        BY <4>3
      <4>5. i \in 1..l /\ i \in 1..Len(completed') /\ i # l + 1
        BY <2>1, <4>3 DEF l
      <4>6. \A j \in 1..Len(completed') : completed'[j] = Joined(R, z) <=> j = i
        BY <2>1, <4>2, <4>3, <4>4, <4>5 DEF l
      <4> QED BY <4>5, <4>6
    <3> QED BY <1>4, <3>1, <3>2
  <2> QED BY <1>1, <1>3, <1>6, <2>2 DEF Rebuilt
<1> QED BY <1>2, <1>5, <1>6 DEF Rebuilt, R

LEMMA PushFragmentKeeps ==
  ASSUME NEW x, Arrives(x), PushFragment(x), VideosOf(opened)' = VideosOf(opened) \cup {x}
  PROVE  BegunHolds' /\ UnitsHold' /\ RebuiltHolds'
<1> DEFINE s == x.sequence
           T == Taken(x)
<1>1. received' = received \cup {x}
  BY DEF PushFragment
<1>2. \A r : OfSequence(r) \subseteq OfSequence(r)'
  BY <1>1 DEF OfSequence
<1>3. OfSequence(s)' = OfSequence(s) \cup {x}
  BY <1>1 DEF OfSequence
<1>4. BegunHolds'
  <2>1. BegunHolds
    BY DEF Arrives, ClientInd
  <2> SUFFICES ASSUME NEW r \in DOMAIN pending'
               PROVE  /\ pending'[r] \subseteq OfSequence(r)' /\ pending'[r] # {}
                      /\ Alike(pending'[r])
                      /\ \A y \in pending'[r] : Cardinality(pending'[r]) < y.count
    BY DEF BegunHolds, Alike
  <2>2. CASE r \in DOMAIN pending /\ pending'[r] = pending[r]
    BY <1>2, <2>1, <2>2 DEF BegunHolds
  <2>3. CASE ~CountChanged(x) /\ ~IsWhole(T, x) /\ r = s /\ pending'[r] = T
    <3>1. /\ T \subseteq OfSequence(s) \cup {x} /\ T # {} /\ Alike(T)
          /\ \A y \in T : y.count = x.count
          /\ Cardinality(T) \in Nat /\ Cardinality(T) <= x.count /\ x.count \in Nat
      BY <2>3, TakenFacts, ArrivalFacts
    <3> HIDE DEF T
    <3>2. Cardinality(T) < x.count
      BY <2>3, <3>1 DEF IsWhole
    <3> QED BY <1>3, <2>3, <3>1, <3>2
  <2> QED BY <2>2, <2>3 DEF PushFragment, Without
<1>5. UnitsHold'
  <2>1. \/ completed' = completed
        \/ /\ ~CountChanged(x) /\ IsWhole(T, x)
           /\ completed' = Append(completed, Joined(T, x))
    BY DEF PushFragment
  <2> QED BY <2>1, UnitsGrow
<1>6. RebuiltHolds'
  <2> SUFFICES ASSUME NEW z \in received', OnePump(z.sequence)' PROVE Rebuilt(z)'
    BY DEF RebuiltHolds
  <2>1. CASE z.sequence = s
    <3>1. \A y \in OfSequence(s) : y.pump = x.pump
      BY <1>3, <2>1 DEF OnePump
    <3>2. z \in OfSequence(s) \cup {x}
      BY <1>1, <2>1 DEF OfSequence
    <3> QED BY <3>1, <3>2, OwnFrameRebuilt
  <2>2. CASE z.sequence # s
    <3>1. z \in received
      BY <1>1, <2>2
    <3>2. OnePump(z.sequence)
      BY <1>2 DEF OnePump
    <3>3. Rebuilt(z)
      BY <3>1, <3>2 DEF Arrives, ClientInd, RebuiltHolds
    <3> QED BY <2>2, <3>1, <3>3, OtherFramesRebuilt
  <2> QED BY <2>1, <2>2
<1> QED BY <1>4, <1>5, <1>6

(***************************************************************************)
(* Every step keeps what the client holds.                                 *)
(***************************************************************************)
MediaInd == HostInd /\ TransportInd /\ ClientInd

LEMMA ClientInit ==
  ASSUME MediaInit PROVE ClientInd
<1>1. /\ attached = FALSE /\ pending = [s \in {} |-> {}] /\ received = {} /\ completed = <<>>
  BY DEF MediaInit
<1>2. IsFiniteSet(received)
  BY <1>1, FS_EmptySet
<1>3. BegunHolds /\ RebuiltHolds
  BY <1>1 DEF BegunHolds, RebuiltHolds
<1>4. UnitsHold
  <2> DEFINE A == Seq(VideosOf(opened))
  <2> HIDE DEF A
  <2>1. completed \in Seq(A) /\ Len(completed) = 0
    BY <1>1
  <2> QED BY <2>1 DEF A, UnitsHold
<1> QED BY <1>1, <1>2, <1>3, <1>4 DEF ClientInd

\* Opening a datagram that is not for the reassembler.
LEMMA OtherOpeningKeeps ==
  ASSUME ClientInd, NEW d, opened' = opened \cup {d},
         UNCHANGED <<attached, pending, received, completed>>
  PROVE  ClientInd'
<1> DEFINE V == VideosOf(opened)
           W == VideosOf(opened)'
<1>1. V \subseteq W
  BY DEF VideosOf
<1>2. received' \subseteq W /\ IsFiniteSet(received')
  BY <1>1 DEF ClientInd
<1>3. BegunHolds' /\ RebuiltHolds'
  BY DEF ClientInd, BegunHolds, RebuiltHolds, Rebuilt, OnePump, OfSequence, Alike, Joined
<1>4. UnitsHold'
  <2>1. completed \in Seq(Seq(V))
    BY DEF ClientInd, UnitsHold
  <2> DEFINE A == Seq(V)
             B == Seq(W)
  <2>2. A \subseteq B
    <3> HIDE DEF V, W
    <3> QED BY <1>1
  <2> HIDE DEF A, B
  <2>3. completed' \in Seq(B)
    BY <2>1, <2>2 DEF A
  <2> QED BY <2>3 DEF B, ClientInd, UnitsHold
<1> QED BY <1>2, <1>3, <1>4 DEF ClientInd

LEMMA ReceiveKeeps ==
  ASSUME MediaInd, NEW d \in wire, ReceiveDatagram(d), UNCHANGED sealVars
  PROVE  ClientInd'
<1>1. Open(d) /\ attached' = attached /\ opened' = opened \cup {d}
  BY DEF ReceiveDatagram, Open
<1>2. d \notin opened /\ opened \subseteq wire
  BY <1>1, OpenKeeps DEF MediaInd, TransportInd, SealTypeOK
<1>3. CASE d.packet.channel = "Video" /\ attached
  <2> DEFINE x == d.packet
  <2>1. PushFragment(x)
    BY <1>3 DEF ReceiveDatagram
  <2>2. Arrives(x)
    BY <1>2, <1>3, OpenedIsNew DEF Arrives, MediaInd
  <2>3. VideosOf(opened)' = VideosOf(opened) \cup {x}
    BY <1>1, <1>3 DEF VideosOf
  <2>4. BegunHolds' /\ UnitsHold' /\ RebuiltHolds'
    BY <2>1, <2>2, <2>3, PushFragmentKeeps
  <2>5. received' = received \cup {x}
    BY <2>1 DEF PushFragment
  <2>6. received' \subseteq VideosOf(opened)' /\ IsFiniteSet(received')
    BY <2>3, <2>5, FS_AddElement DEF MediaInd, ClientInd
  <2> QED BY <1>1, <1>3, <2>4, <2>6 DEF ClientInd
<1>4. CASE ~(d.packet.channel = "Video" /\ attached)
  BY <1>1, <1>4, OtherOpeningKeeps DEF ReceiveDatagram, MediaInd
<1> QED BY <1>3, <1>4

LEMMA SurfaceKeeps ==
  ASSUME ClientInd, SurfaceCreated \/ SurfaceDestroyed, UNCHANGED windowVars
  PROVE  ClientInd'
<1>1. /\ attached' \in BOOLEAN /\ pending' = [s \in {} |-> {}] /\ received' = {}
      /\ completed' = completed /\ opened' = opened
  BY DEF SurfaceCreated, SurfaceDestroyed, ResetReassembler, windowVars
<1>2. received' \subseteq VideosOf(opened)' /\ IsFiniteSet(received')
  BY <1>1, FS_EmptySet
<1>3. BegunHolds' /\ RebuiltHolds'
  BY <1>1 DEF BegunHolds, RebuiltHolds
<1>4. UnitsHold'
  <2>1. VideosOf(opened)' = VideosOf(opened)
    BY <1>1 DEF VideosOf
  <2> QED BY <1>1, <2>1 DEF ClientInd, UnitsHold
<1> QED BY <1>1, <1>2, <1>3, <1>4 DEF ClientInd

LEMMA ClientUnchanged ==
  ASSUME ClientInd, UNCHANGED <<windowVars, clientVars>> PROVE ClientInd'
<1>1. UNCHANGED <<attached, pending, received, completed, opened>>
  BY DEF windowVars, clientVars
<1>2. VideosOf(opened)' = VideosOf(opened)
  BY <1>1 DEF VideosOf
<1>3. BegunHolds' /\ RebuiltHolds'
  BY <1>1 DEF ClientInd, BegunHolds, RebuiltHolds, Rebuilt, OnePump, OfSequence, Alike, Joined
<1>4. UnitsHold'
  BY <1>1, <1>2 DEF ClientInd, UnitsHold
<1> QED BY <1>1, <1>2, <1>3, <1>4 DEF ClientInd

LEMMA MediaKeeps ==
  ASSUME MediaInd, [MediaNext]_mediaVars PROVE MediaInd'
<1>1. HostInd' /\ TransportInd'
  BY HostKeeps, StepKeeps DEF MediaInd
<1>2. ClientInd'
  <2>1. CASE HostStep /\ UNCHANGED <<windowVars, clientVars>>
    BY <2>1, ClientUnchanged DEF MediaInd
  <2>2. CASE ClientStep /\ UNCHANGED <<hostVars, sealVars>>
    <3>1. CASE \E d \in wire : ReceiveDatagram(d)
      BY <2>2, <3>1, ReceiveKeeps
    <3>2. CASE (SurfaceCreated \/ SurfaceDestroyed) /\ UNCHANGED windowVars
      BY <3>2, SurfaceKeeps DEF MediaInd
    <3> QED BY <2>2, <3>1, <3>2 DEF ClientStep
  <2>3. CASE UNCHANGED mediaVars
    BY <2>3, ClientUnchanged DEF mediaVars, MediaInd
  <2> QED BY <2>1, <2>2, <2>3 DEF MediaNext
<1> QED BY <1>1, <1>2 DEF MediaInd

THEOREM MediaInvariance == MediaSpec => []MediaInd
<1>1. MediaInit => MediaInd
  BY HostInit, TransportInit, ClientInit DEF MediaInd
<1>2. MediaInd /\ [MediaNext]_mediaVars => MediaInd'
  BY MediaKeeps
<1> QED BY <1>1, <1>2, PTL DEF MediaSpec

(***************************************************************************)
(* What the client is promised.                                            *)
(***************************************************************************)
\* The types of the path: the queues keep to their capacity and their
\* channel, and a frame that is pending is not complete.
THEOREM MediaTypesAreKept == MediaSpec => []MediaTypeOK
<1>1. ASSUME MediaInd PROVE MediaTypeOK
  <2>1. PICK P : WellFormed(P, outbound)
    BY <1>1 DEF MediaInd, HostInd, Line
  <2>2. outbound.cursor \in 0..Len(Schedule) - 1
    <3>1. Len(Schedule) - 1 = 7 BY DEF Schedule
    <3> QED BY <2>1, <3>1 DEF WellFormed, Queues
  <2>3. /\ \A c \in Channels : Len(outbound.queues[c]) <= QueueCap
        /\ \A c \in Channels, i \in 1..QueueCap :
             i <= Len(outbound.queues[c]) => outbound.queues[c][i].channel = c
    <3>1. ASSUME NEW c \in Channels, NEW i \in 1..QueueCap, i <= Len(outbound.queues[c])
          PROVE  outbound.queues[c][i].channel = c
      <4>1. Len(outbound.queues[c]) \in Nat
        BY <2>1, QueueTypes
      <4>2. i \in 1..Len(outbound.queues[c])
        BY <3>1, <4>1, QueueCapAssumption DEF QueueCapAssumption
      <4> QED BY <2>1, <4>2 DEF WellFormed
    <3> QED BY <2>1, <3>1 DEF WellFormed
  <2>4. \A s \in DOMAIN pending : \A x \in pending[s] :
          x.sequence = s /\ Cardinality(pending[s]) < x.count
    BY <1>1 DEF MediaInd, ClientInd, BegunHolds, OfSequence
  <2> QED BY <1>1, <2>2, <2>3, <2>4 DEF MediaTypeOK, MediaInd, HostInd, TransportInd, ClientInd
<1> QED BY <1>1, MediaInvariance, PTL

\* VideoFragmentReassembler never mixes two frames of one encoder: its
\* frames are told apart by sequence number, and only the encoder the pump
\* starts after the first repeats one.
THEOREM UnitsAreAlwaysFramesOfOnePump == MediaSpec => []UnitsAreFramesOfOnePump
<1>1. ASSUME MediaInd, pumps = 1 PROVE UnitsAreFrames
  <2>1. /\ completed \in Seq(Seq(VideosOf(opened)))
        /\ \A i \in 1..Len(completed) : \A j, k \in 1..Len(completed[i]) :
             completed[i][j].sequence = completed[i][k].sequence
    BY <1>1 DEF MediaInd, ClientInd, UnitsHold
  <2>2. \A p \in VideosOf(opened) : p.pump = 1
    <3>1. VideosOf(opened) \subseteq VideosOf(wire)
      BY <1>1 DEF MediaInd, TransportInd, SealTypeOK, VideosOf
    <3>2. \A p \in VideosOf(wire) : p.pump \in 1..pumps
      BY <1>1, VideosAgree DEF MediaInd
    <3> QED BY <1>1, <3>1, <3>2
  <2> SUFFICES ASSUME NEW i \in DOMAIN completed,
                      NEW j \in DOMAIN completed[i], NEW k \in DOMAIN completed[i]
               PROVE  SameFrame(completed[i][j], completed[i][k])
    BY DEF UnitsAreFrames
  <2> DEFINE V == VideosOf(opened)
             A == Seq(V)
  <2>3. i \in 1..Len(completed) /\ completed[i] \in A
    <3> HIDE DEF A
    <3>1. completed \in Seq(A) BY <2>1 DEF A
    <3> QED BY <3>1
  <2> HIDE DEF V
  <2>4. /\ j \in 1..Len(completed[i]) /\ k \in 1..Len(completed[i])
        /\ completed[i][j] \in V /\ completed[i][k] \in V
    BY <2>3
  <2> QED BY <2>1, <2>2, <2>3, <2>4 DEF SameFrame, V
<1>2. MediaInd => UnitsAreFramesOfOnePump
  BY <1>1 DEF UnitsAreFramesOfOnePump
<1> QED BY <1>2, MediaInvariance, PTL

\* pushFragment and the replay window together: whatever is lost, repeated
\* or reordered, a frame all of whose fragments arrive is put together once.
THEOREM FramesAreAlwaysRebuilt == MediaSpec => []FramesAreRebuilt
<1>1. ASSUME MediaInd, NEW x \in received,
             Cardinality({y \in received : SameFrame(x, y)}) = x.count,
             \A y \in received : y.sequence = x.sequence => y.pump = x.pump
      PROVE  Cardinality({i \in DOMAIN completed :
               completed[i] = Joined({y \in received : SameFrame(x, y)}, x)}) = 1
  <2> DEFINE R == OfSequence(x.sequence)
  <2>1. {y \in received : SameFrame(x, y)} = R
    BY <1>1 DEF OfSequence, SameFrame
  <2>2. OnePump(x.sequence)
    BY <1>1 DEF OnePump, OfSequence
  <2>3. Rebuilt(x)
    BY <1>1, <2>2 DEF MediaInd, ClientInd, RebuiltHolds
  <2>4. x.count \in Nat
    <3>1. x \in VideosOf(wire)
      BY <1>1 DEF MediaInd, ClientInd, TransportInd, SealTypeOK, VideosOf
    <3> QED BY <1>1, <3>1, VideosAgree DEF MediaInd
  <2>5. PICK i \in 1..Len(completed) :
          \A j \in 1..Len(completed) : completed[j] = Joined(R, x) <=> j = i
    <3>1. Cardinality(R) = x.count
      BY <1>1, <2>1
    <3>2. ~(Cardinality(R) < x.count)
      BY <2>4, <3>1
    <3> QED BY <2>3, <3>2 DEF Rebuilt
  <2>6. DOMAIN completed = 1..Len(completed)
    <3> DEFINE A == Seq(VideosOf(opened))
    <3> HIDE DEF A
    <3>1. completed \in Seq(A)
      BY <1>1 DEF MediaInd, ClientInd, UnitsHold, A
    <3> QED BY <3>1
  <2> HIDE DEF R
  <2>7. {j \in DOMAIN completed : completed[j] = Joined(R, x)} = {i}
    BY <2>5, <2>6
  <2> QED BY <2>1, <2>7, FS_Singleton
<1>2. MediaInd => FramesAreRebuilt
  BY <1>1 DEF FramesAreRebuilt
<1> QED BY <1>2, MediaInvariance, PTL
=============================================================================
