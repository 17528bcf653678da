----------------------------- MODULE QueueProofs -----------------------------
(***************************************************************************)
(* What the operators of OutboundQueues do, for every queue, capacity and  *)
(* packet, and that the schedule starves no channel.                       *)
(***************************************************************************)
EXTENDS FlushSchedule, SequenceTheorems, FiniteSetTheorems, TLAPS

(***************************************************************************)
(* Induction.  What holds of every number is a set of numbers here.        *)
(***************************************************************************)
LEMMA SetInduction ==
  ASSUME NEW S, 0 \in S, \A n \in Nat : n \in S => n + 1 \in S
  PROVE  Nat \subseteq S
<1> SUFFICES ASSUME NEW m \in Nat, m \notin S PROVE FALSE
  OBVIOUS
<1> DEFINE T == {x \in 0..m : x \in S}
           f == [x \in T |-> x + 1]
<1>1. IsFiniteSet(T) /\ IsFiniteSet(T \ {0}) /\ Cardinality(T \ {0}) = Cardinality(T) - 1
  <2>1. T \in SUBSET (0..m) /\ IsFiniteSet(0..m)
    BY FS_Interval
  <2>2. IsFiniteSet(T)
    BY <2>1, FS_Subset
  <2>3. 0 \in T
    OBVIOUS
  <2> HIDE DEF T
  <2> QED BY <2>2, <2>3, FS_RemoveElement
<1>2. \A x \in T : x + 1 \in T \ {0}
  OBVIOUS
<1>3. \A x, y \in T : x + 1 = y + 1 => x = y
  OBVIOUS
<1>4. Cardinality(T) \in Nat
  BY <1>1, FS_CardinalityType
<1> HIDE DEF T
<1>5. f \in Injection(T, T \ {0})
  BY <1>2, <1>3 DEF Injection, IsInjective
<1>6. Cardinality(T) <= Cardinality(T \ {0})
  BY <1>1, <1>5, FS_Injection
<1> QED BY <1>1, <1>4, <1>6

LEMMA LeastNumber ==
  ASSUME NEW S \in SUBSET Nat, S # {}
  PROVE  \E n \in S : \A m \in S : n <= m
<1> SUFFICES ASSUME \A n \in S : \E m \in S : m < n PROVE FALSE
  OBVIOUS
<1> DEFINE T == {n \in Nat : \A m \in S : n < m}
<1>1. 0 \in T
  OBVIOUS
<1>2. ASSUME NEW n \in Nat, n \in T PROVE n + 1 \in T
  <2>1. \A m \in S : n + 1 <= m
    BY <1>2
  <2>2. n + 1 \notin S
    BY <2>1
  <2> QED BY <2>1, <2>2
<1> HIDE DEF T
<1>3. Nat \subseteq T
  BY <1>1, <1>2, SetInduction
<1>4. PICK m \in S : m \in Nat
  OBVIOUS
<1> QED BY <1>3, <1>4 DEF T

(***************************************************************************)
(* The two recursive functions are what their equations say.               *)
(***************************************************************************)
LEMMA AfterUnfolds ==
  ASSUME NEW q
  PROVE  /\ DOMAIN After(q) = 0..Budget
         /\ After(q)[0] = q
         /\ \A k \in 1..Budget : After(q)[k] = Rest(After(q)[k-1])
<1> DEFINE Is(g, n) == g = [k \in 0..n |-> IF k = 0 THEN q ELSE Rest(g[k-1])]
           S == {n \in Nat : \E g : Is(g, n)}
<1>1. 0 \in S
  <2>1. Is([k \in 0..0 |-> q], 0)
    OBVIOUS
  <2> QED BY <2>1
<1>2. ASSUME NEW n \in Nat, n \in S PROVE n + 1 \in S
  <2>1. PICK g : Is(g, n)
    BY <1>2
  <2> DEFINE h == [k \in 0..(n + 1) |-> IF k = 0 THEN q ELSE Rest(g[k-1])]
  <2>2. ASSUME NEW k \in 1..(n + 1) PROVE g[k-1] = h[k-1]
    <3>1. k - 1 \in 0..n /\ k - 1 \in 0..(n + 1)
      OBVIOUS
    <3>2. g[k-1] = IF k - 1 = 0 THEN q ELSE Rest(g[(k-1)-1])
      BY <2>1, <3>1
    <3> QED BY <3>1, <3>2
  <2>3. \A k \in 0..(n + 1) : k = 0 \/ k \in 1..(n + 1)
    OBVIOUS
  <2>4. Is(h, n + 1)
    BY <2>2, <2>3
  <2> HIDE DEF h, Is
  <2> QED BY <2>4
<1>3. Budget \in S
  <2> HIDE DEF S
  <2> QED BY <1>1, <1>2, SetInduction DEF Budget
<1>4. \E g : Is(g, Budget)
  BY <1>3
<1>5. After(q) = CHOOSE g : Is(g, Budget)
  BY DEF After
<1>6. Is(After(q), Budget)
  <2> HIDE DEF Is
  <2> QED BY <1>4, <1>5
<1> QED BY <1>6 DEF Budget

\* PushAll, one packet at a time.
LEMMA PushAllUnfolds ==
  ASSUME NEW q, NEW ps, Len(ps) \in Nat
  PROVE  \E g : /\ g[0] = q
                /\ \A i \in 1..Len(ps) : g[i] = Push(g[i-1], ps[i])
                /\ PushAll(q, ps) = g[Len(ps)]
<1> DEFINE Is(g, n) == g = [i \in 0..n |-> IF i = 0 THEN q ELSE Push(g[i-1], ps[i])]
           S == {n \in Nat : \E g : Is(g, n)}
<1>1. 0 \in S
  <2>1. Is([i \in 0..0 |-> q], 0)
    OBVIOUS
  <2> QED BY <2>1
<1>2. ASSUME NEW n \in Nat, n \in S PROVE n + 1 \in S
  <2>1. PICK g : Is(g, n)
    BY <1>2
  <2> DEFINE h == [i \in 0..(n + 1) |-> IF i = 0 THEN q ELSE Push(g[i-1], ps[i])]
  <2>2. ASSUME NEW i \in 1..(n + 1) PROVE g[i-1] = h[i-1]
    <3>1. i - 1 \in 0..n /\ i - 1 \in 0..(n + 1)
      OBVIOUS
    <3>2. g[i-1] = IF i - 1 = 0 THEN q ELSE Push(g[(i-1)-1], ps[i-1])
      BY <2>1, <3>1
    <3> QED BY <3>1, <3>2
  <2>3. \A i \in 0..(n + 1) : i = 0 \/ i \in 1..(n + 1)
    OBVIOUS
  <2>4. Is(h, n + 1)
    BY <2>2, <2>3
  <2> HIDE DEF h, Is
  <2> QED BY <2>4
<1>3. Len(ps) \in S
  <2> HIDE DEF S
  <2> QED BY <1>1, <1>2, SetInduction
<1>4. \E g : Is(g, Len(ps))
  BY <1>3
<1> DEFINE pushed == CHOOSE g : Is(g, Len(ps))
<1>5. PushAll(q, ps) = pushed[Len(ps)]
  BY DEF PushAll
<1>6. Is(pushed, Len(ps))
  <2> HIDE DEF Is
  <2> QED BY <1>4
<1> HIDE DEF pushed
<1>7. /\ pushed[0] = q
      /\ \A i \in 1..Len(ps) : pushed[i] = Push(pushed[i-1], ps[i])
  BY <1>6
<1> QED BY <1>5, <1>7

(***************************************************************************)
(* Queues of packets of P.                                                 *)
(***************************************************************************)
Queues(P) == [queues : [Channels -> Seq(P)], cursor : 0..7, dropped : Nat]

WellFormed(P, q) ==
  /\ q \in Queues(P)
  /\ \A c \in Channels : Len(q.queues[c]) <= QueueCap
  /\ \A c \in Channels : \A i \in 1..Len(q.queues[c]) : q.queues[c][i].channel = c

LEMMA QueueTypes ==
  ASSUME NEW P, NEW q, WellFormed(P, q), NEW c \in Channels
  PROVE  /\ q.queues \in [Channels -> Seq(P)] /\ q.queues[c] \in Seq(P)
         /\ Len(q.queues[c]) \in Nat /\ Len(q.queues[c]) <= QueueCap
         /\ q.queues[c] # <<>> <=> Len(q.queues[c]) > 0
         /\ \A i \in 1..Len(q.queues[c]) : q.queues[c][i] \in P /\ q.queues[c][i].channel = c
         /\ q.cursor \in 0..7 /\ q.dropped \in Nat
         /\ QueueCap \in Nat \ {0}
<1>1. q.queues[c] \in Seq(P)
  BY DEF WellFormed, Queues
<1>2. \A i \in 1..Len(q.queues[c]) : q.queues[c][i] \in P
  BY <1>1
<1> QED BY <1>1, <1>2, QueueCapAssumption DEF WellFormed, Queues, QueueCapAssumption

LEMMA EmptyWellFormed ==
  ASSUME NEW P
  PROVE  WellFormed(P, Empty) /\ Total(Empty) = 0 /\ Empty.dropped = 0
BY QueueCapAssumption DEF Empty, WellFormed, Queues, Total, Channels, QueueCapAssumption

LEMMA TotalFacts ==
  ASSUME NEW P, NEW q, WellFormed(P, q)
  PROVE  /\ Total(q) \in Nat
         /\ \A c \in Channels : q.queues[c] # <<>> => Total(q) > 0
         /\ Total(q) > 0 => \E c \in Channels : q.queues[c] # <<>>
<1> DEFINE n(c) == Len(q.queues[c])
<1>1. \A c \in Channels : n(c) \in Nat /\ (q.queues[c] # <<>> <=> n(c) > 0)
  BY QueueTypes
<1>2. Total(q) = n("Input") + n("Control") + n("Audio") + n("Video")
  BY DEF Total
<1> HIDE DEF n
<1>3. /\ n("Input") \in Nat /\ n("Control") \in Nat /\ n("Audio") \in Nat /\ n("Video") \in Nat
  BY <1>1 DEF Channels
<1>4. ASSUME NEW c \in Channels, q.queues[c] # <<>> PROVE Total(q) > 0
  <2>1. n(c) > 0 BY <1>1, <1>4
  <2>2. c = "Input" \/ c = "Control" \/ c = "Audio" \/ c = "Video" BY DEF Channels
  <2> QED BY <1>2, <1>3, <2>1, <2>2
<1>5. ASSUME \A c \in Channels : q.queues[c] = <<>> PROVE ~(Total(q) > 0)
  <2>1. \A c \in Channels : n(c) = 0 BY <1>1, <1>5
  <2>2. n("Input") = 0 /\ n("Control") = 0 /\ n("Audio") = 0 /\ n("Video") = 0
    BY <2>1 DEF Channels
  <2> QED BY <1>2, <2>2
<1>6. Total(q) \in Nat BY <1>2, <1>3
<1> QED BY <1>4, <1>5, <1>6

\* What one channel gains or loses, the total does.
LEMMA TotalChanges ==
  ASSUME NEW P, NEW q, WellFormed(P, q), NEW r, NEW c \in Channels, NEW n \in Int,
         \A d \in Channels : d # c => r.queues[d] = q.queues[d],
         Len(r.queues[c]) = Len(q.queues[c]) + n
  PROVE  Total(r) = Total(q) + n
<1> DEFINE m(d) == Len(q.queues[d])
           k(d) == Len(r.queues[d])
<1>1. \A d \in Channels : m(d) \in Nat
  BY QueueTypes
<1>2. k(c) = m(c) + n /\ \A d \in Channels : d # c => k(d) = m(d)
  OBVIOUS
<1>3. /\ Total(q) = m("Input") + m("Control") + m("Audio") + m("Video")
      /\ Total(r) = k("Input") + k("Control") + k("Audio") + k("Video")
  BY DEF Total
<1> HIDE DEF m, k
<1>4. /\ m("Input") \in Nat /\ m("Control") \in Nat /\ m("Audio") \in Nat /\ m("Video") \in Nat
  BY <1>1 DEF Channels
<1>5. /\ c = "Input" \/ k("Input") = m("Input")
      /\ c = "Control" \/ k("Control") = m("Control")
      /\ c = "Audio" \/ k("Audio") = m("Audio")
      /\ c = "Video" \/ k("Video") = m("Video")
  BY <1>2 DEF Channels
<1>6. c = "Input" \/ c = "Control" \/ c = "Audio" \/ c = "Video"
  BY DEF Channels
<1>7. CASE c = "Input" BY <1>2, <1>3, <1>4, <1>5, <1>7
<1>8. CASE c = "Control" BY <1>2, <1>3, <1>4, <1>5, <1>8
<1>9. CASE c = "Audio" BY <1>2, <1>3, <1>4, <1>5, <1>9
<1>10. CASE c = "Video" BY <1>2, <1>3, <1>4, <1>5, <1>10
<1> QED BY <1>6, <1>7, <1>8, <1>9, <1>10

(***************************************************************************)
(* A pop.                                                                  *)
(***************************************************************************)
\* From any place of the schedule, each channel comes up within eight.
LEMMA EachIsScheduled ==
  ASSUME NEW c \in Channels, NEW q, q.cursor \in 0..7
  PROVE  \E k \in 0..7 : ChannelAt(q, k) = c
<1>1. Len(Schedule) = 8
  BY DEF Schedule
<1>2. ASSUME NEW at \in 0..7 PROVE \E k \in 0..7 : At(q, k) = at
  <2>1. CASE at >= q.cursor
    <3>1. at - q.cursor \in 0..7 /\ (q.cursor + (at - q.cursor)) % 8 = at
      BY <2>1
    <3> QED BY <1>1, <3>1 DEF At
  <2>2. CASE at < q.cursor
    <3>1. at + 8 - q.cursor \in 0..7 /\ (q.cursor + (at + 8 - q.cursor)) % 8 = at
      BY <2>2
    <3> QED BY <1>1, <3>1 DEF At
  <2> QED BY <2>1, <2>2
<1>3. \E at \in 0..7 : Schedule[at + 1] = c
  BY DEF Schedule, Channels
<1> QED BY <1>2, <1>3 DEF ChannelAt

LEMMA NextFacts ==
  ASSUME NEW P, NEW q, WellFormed(P, q), Total(q) > 0
  PROVE  /\ NextOffset(q) \in 0..7
         /\ At(q, NextOffset(q)) \in 0..7
         /\ ChannelAt(q, NextOffset(q)) \in Channels
         /\ q.queues[ChannelAt(q, NextOffset(q))] # <<>>
         /\ \A k \in 0..7 : q.queues[ChannelAt(q, k)] # <<>> => NextOffset(q) <= k
<1>1. Len(Schedule) = 8 /\ \A at \in 0..7 : Schedule[at + 1] \in Channels
  BY DEF Schedule, Channels
<1>2. q.cursor \in 0..7
  BY DEF WellFormed, Queues
<1>3. Waiting(q) = {k \in 0..7 : q.queues[ChannelAt(q, k)] # <<>>}
  BY <1>1 DEF Waiting
<1>4. Waiting(q) # {}
  BY <1>2, <1>3, TotalFacts, EachIsScheduled
<1>5. \E k \in Waiting(q) : \A j \in Waiting(q) : k <= j
  <2>1. Waiting(q) \in SUBSET Nat BY <1>3
  <2> QED BY <1>4, <2>1, LeastNumber
<1>6. NextOffset(q) \in Waiting(q) /\ \A j \in Waiting(q) : NextOffset(q) <= j
  BY <1>5 DEF NextOffset
<1>7. At(q, NextOffset(q)) \in 0..7
  <2>1. NextOffset(q) \in 0..7 BY <1>3, <1>6
  <2>2. q.cursor + NextOffset(q) \in Nat BY <1>2, <2>1
  <2> QED BY <1>1, <2>2 DEF At
<1> QED BY <1>1, <1>3, <1>6, <1>7 DEF ChannelAt

\* A pop takes the first packet of its channel and leaves the other channels.
LEMMA PopFacts ==
  ASSUME NEW P, NEW q, WellFormed(P, q), Total(q) > 0
  PROVE  /\ Popped(q) \in P /\ Popped(q).channel \in Channels
         /\ Popped(q).channel = ChannelAt(q, NextOffset(q))
         /\ q.queues[Popped(q).channel] # <<>>
         /\ Popped(q) = Head(q.queues[Popped(q).channel])
         /\ Rest(q).queues = [q.queues EXCEPT ![Popped(q).channel] = Tail(@)]
         /\ Rest(q).dropped = q.dropped
         /\ Rest(q).cursor = (At(q, NextOffset(q)) + 1) % 8
         /\ WellFormed(P, Rest(q))
         /\ Total(Rest(q)) = Total(q) - 1
<1> DEFINE c == ChannelAt(q, NextOffset(q))
           s == q.queues[c]
<1>1. /\ c \in Channels /\ s \in Seq(P) /\ s # <<>> /\ Len(s) \in Nat /\ Len(s) <= QueueCap
      /\ At(q, NextOffset(q)) \in 0..7
      /\ \A i \in 1..Len(s) : s[i] \in P /\ s[i].channel = c
  BY NextFacts, QueueTypes
<1>2. /\ q.queues \in [Channels -> Seq(P)] /\ q.cursor \in 0..7 /\ q.dropped \in Nat
      /\ q = [queues |-> q.queues, cursor |-> q.cursor, dropped |-> q.dropped]
  BY DEF WellFormed, Queues
<1>3. Popped(q) = Head(s)
  BY DEF Popped
<1> HIDE DEF c
<1> HIDE DEF s
<1>4. /\ Tail(s) \in Seq(P) /\ Len(Tail(s)) = Len(s) - 1 /\ Len(s) > 0
      /\ \A i \in 1..Len(Tail(s)) : Tail(s)[i] = s[i + 1]
      /\ Head(s) = s[1]
  BY <1>1
<1>5. Popped(q) \in P /\ Popped(q).channel = c
  BY <1>1, <1>3, <1>4
<1>6. Len(Schedule) = 8
  BY DEF Schedule
<1>7. /\ Rest(q) = [queues |-> [q.queues EXCEPT ![c] = Tail(s)],
                    cursor |-> (At(q, NextOffset(q)) + 1) % 8, dropped |-> q.dropped]
  <2>1. Rest(q) = [q EXCEPT !.queues = [q.queues EXCEPT ![c] = Tail(q.queues[c])],
                            !.cursor = (At(q, NextOffset(q)) + 1) % 8]
    BY <1>2, <1>5, <1>6 DEF Rest
  <2>2. Rest(q) = [q EXCEPT !.queues = [q.queues EXCEPT ![c] = Tail(s)],
                            !.cursor = (At(q, NextOffset(q)) + 1) % 8]
    BY <2>1 DEF s
  <2> DEFINE qs == [q.queues EXCEPT ![c] = Tail(s)]
             k == (At(q, NextOffset(q)) + 1) % 8
  <2>3. Rest(q) = [q EXCEPT !.queues = qs, !.cursor = k]
    BY <2>2
  <2> HIDE DEF qs, k
  <2>4. Rest(q) = [queues |-> qs, cursor |-> k, dropped |-> q.dropped]
    BY <1>2, <2>3
  <2> QED BY <2>4 DEF qs, k
<1>8. (At(q, NextOffset(q)) + 1) % 8 \in 0..7
  BY <1>1
<1>9. /\ Rest(q).queues = [q.queues EXCEPT ![c] = Tail(s)]
      /\ Rest(q).cursor = (At(q, NextOffset(q)) + 1) % 8
      /\ Rest(q).dropped = q.dropped
      /\ Rest(q) \in Queues(P)
  BY <1>1, <1>2, <1>4, <1>7, <1>8 DEF Queues
<1>10. /\ Rest(q).queues[c] = Tail(s)
       /\ \A d \in Channels : d # c => Rest(q).queues[d] = q.queues[d]
  BY <1>1, <1>2, <1>9
<1>11. WellFormed(P, Rest(q))
  <2>1. ASSUME NEW d \in Channels
        PROVE  /\ Len(Rest(q).queues[d]) <= QueueCap
               /\ \A i \in 1..Len(Rest(q).queues[d]) : Rest(q).queues[d][i].channel = d
    <3>1. CASE d = c
      <4>1. QueueCap \in Nat BY QueueCapAssumption DEF QueueCapAssumption
      <4>2. \A i \in 1..Len(Tail(s)) : i + 1 \in 1..Len(s)
        BY <1>1, <1>4
      <4> QED BY <1>1, <1>4, <1>10, <3>1, <4>1, <4>2
    <3>2. CASE d # c
      BY <1>10, <3>2 DEF WellFormed
    <3> QED BY <3>1, <3>2
  <2> QED BY <1>9, <2>1 DEF WellFormed
<1>12. Total(Rest(q)) = Total(q) - 1
  <2>2. Len(Rest(q).queues[c]) = Len(q.queues[c]) + (-1)
    BY <1>1, <1>4, <1>10 DEF s
  <2>3. Total(Rest(q)) = Total(q) + (-1)
    BY <1>1, <1>10, <2>2, TotalChanges
  <2>4. Total(q) \in Nat BY TotalFacts
  <2> QED BY <2>3, <2>4
<1> QED BY <1>1, <1>3, <1>5, <1>9, <1>11, <1>12 DEF c, s

\* A packet popped and put back is where it was; only the schedule moves on.
LEMMA PutBackFacts ==
  ASSUME NEW P, NEW q, WellFormed(P, q), Total(q) > 0
  PROVE  PushFront(Rest(q), Popped(q)) = [Rest(q) EXCEPT !.queues = q.queues]
<1> DEFINE c == Popped(q).channel
           s == q.queues[c]
           r == Rest(q)
<1>1. /\ c \in Channels /\ s # <<>> /\ Popped(q) = Head(s)
      /\ r.queues = [q.queues EXCEPT ![c] = Tail(s)]
      /\ r \in Queues(P)
  BY PopFacts DEF WellFormed
<1>2. /\ s \in Seq(P) /\ Len(s) \in Nat /\ Len(s) <= QueueCap /\ QueueCap \in Nat
      /\ q.queues \in [Channels -> Seq(P)]
  BY <1>1, QueueTypes
<1> HIDE DEF s, c, r
<1>3. /\ Tail(s) \in Seq(P) /\ Len(Tail(s)) = Len(s) - 1 /\ Len(s) > 0
      /\ <<Head(s)>> \o Tail(s) = s
  <2>1. /\ Tail(s) \in Seq(P) /\ Len(Tail(s)) = Len(s) - 1 /\ Len(s) > 0 /\ Head(s) \in P
        /\ \A i \in 1..Len(Tail(s)) : Tail(s)[i] = s[i + 1]
        /\ Head(s) = s[1]
    BY <1>1, <1>2
  <2> DEFINE t == <<Head(s)>> \o Tail(s)
  <2>2. <<Head(s)>> \in Seq(P) /\ Len(<<Head(s)>>) = 1
    BY <2>1
  <2>3. /\ t \in Seq(P) /\ Len(t) = Len(s)
        /\ \A i \in 1..Len(s) : t[i] = IF i = 1 THEN Head(s) ELSE Tail(s)[i - 1]
    BY <1>2, <2>1, <2>2, ConcatProperties
  <2>4. \A i \in 1..Len(s) : i # 1 => i - 1 \in 1..Len(Tail(s))
    BY <1>2, <2>1
  <2>5. \A i \in 1..Len(s) : t[i] = s[i]
    BY <1>2, <2>1, <2>3, <2>4
  <2> HIDE DEF t
  <2>6. t = s
    BY <1>2, <2>3, <2>5, SeqEqual
  <2> QED BY <2>1, <2>6 DEF t
<1>4. r.queues[c] = Tail(s)
  BY <1>1, <1>2
<1>5. ~IsFull(r, c)
  <2> DEFINE waiting == Len(s)
             left == Len(Tail(s))
  <2>1. waiting \in Nat /\ waiting <= QueueCap /\ QueueCap \in Nat /\ left = waiting - 1
    BY <1>2, <1>3
  <2> HIDE DEF waiting, left
  <2>2. left # QueueCap
    BY <2>1
  <2> QED BY <1>4, <2>2 DEF IsFull, left
<1>6. PushFront(r, Popped(q)) = [r EXCEPT !.queues[c] = s, !.dropped = r.dropped]
  BY <1>1, <1>3, <1>4, <1>5 DEF PushFront, c
<1>7. [r.queues EXCEPT ![c] = s] = q.queues
  BY <1>1, <1>2 DEF s
<1>8. r = [queues |-> r.queues, cursor |-> r.cursor, dropped |-> r.dropped]
  BY <1>1 DEF Queues
<1>9. PushFront(r, Popped(q)) = [r EXCEPT !.queues = [r.queues EXCEPT ![c] = s]]
  BY <1>6, <1>8
<1> QED BY <1>7, <1>9 DEF r

(***************************************************************************)
(* A push.                                                                 *)
(***************************************************************************)
\* A push adds its packet at the end of its channel, and drops the first of
\* a full one.
LEMMA PushFacts ==
  ASSUME NEW P, NEW q, WellFormed(P, q), NEW p \in P, p.channel \in Channels
  PROVE  /\ WellFormed(P, Push(q, p))
         /\ \A c \in Channels : c # p.channel => Push(q, p).queues[c] = q.queues[c]
         /\ Push(q, p).queues[p.channel] =
              Append(IF IsFull(q, p.channel) THEN Tail(q.queues[p.channel])
                     ELSE q.queues[p.channel], p)
         /\ Push(q, p).cursor = q.cursor
         /\ Total(Push(q, p)) + Push(q, p).dropped = Total(q) + q.dropped + 1
<1> DEFINE c == p.channel
           s == q.queues[c]
           kept == IF IsFull(q, c) THEN Tail(s) ELSE s
           lost == IF IsFull(q, c) THEN q.dropped + 1 ELSE q.dropped
           r == Push(q, p)
<1>1. /\ c \in Channels /\ s \in Seq(P) /\ Len(s) \in Nat /\ Len(s) <= QueueCap
      /\ \A i \in 1..Len(s) : s[i] \in P /\ s[i].channel = c
      /\ q.queues \in [Channels -> Seq(P)] /\ q.dropped \in Nat /\ q.cursor \in 0..7
      /\ QueueCap \in Nat \ {0}
  BY QueueTypes
<1>2. q = [queues |-> q.queues, cursor |-> q.cursor, dropped |-> q.dropped]
  BY DEF WellFormed, Queues
<1>3. IsFull(q, c) <=> Len(s) = QueueCap
  BY DEF IsFull
<1>4. r = [queues |-> [q.queues EXCEPT ![c] = Append(kept, p)], cursor |-> q.cursor,
           dropped |-> lost]
  <2> DEFINE t == Append(kept, p)
  <2>1. r = [q EXCEPT !.queues = [q.queues EXCEPT ![c] = t], !.dropped = lost]
    BY <1>2 DEF Push
  <2> HIDE DEF t, lost, c, r
  <2> QED BY <1>2, <2>1 DEF t
<1> HIDE DEF s, c, r
<1>5. /\ kept \in Seq(P) /\ Len(kept) < QueueCap
      /\ Len(kept) = IF IsFull(q, c) THEN Len(s) - 1 ELSE Len(s)
      /\ \A i \in 1..Len(kept) : kept[i] \in P /\ kept[i].channel = c
  <2>1. CASE IsFull(q, c)
    <3>1. s # <<>> BY <1>1, <1>3, <2>1
    <3>2. /\ Tail(s) \in Seq(P) /\ Len(Tail(s)) = Len(s) - 1
          /\ \A i \in 1..Len(Tail(s)) : i + 1 \in 1..Len(s) /\ Tail(s)[i] = s[i + 1]
      BY <1>1, <3>1
    <3> QED BY <1>1, <1>3, <2>1, <3>2
  <2>2. CASE ~IsFull(q, c)
    BY <1>1, <1>3, <2>2
  <2> QED BY <2>1, <2>2
<1> DEFINE t == Append(kept, p)
<1> HIDE DEF kept
<1>6. /\ t \in Seq(P) /\ Len(t) = Len(kept) + 1 /\ Len(kept) \in Nat
      /\ \A i \in 1..Len(t) : t[i].channel = c
  <2>1. /\ t \in Seq(P) /\ Len(t) = Len(kept) + 1 /\ Len(kept) \in Nat
        /\ \A i \in 1..Len(kept) : t[i] = kept[i]
        /\ t[Len(kept) + 1] = p
    BY <1>5
  <2>2. ASSUME NEW i \in 1..Len(t) PROVE t[i].channel = c
    <3>1. i \in 1..Len(kept) \/ i = Len(kept) + 1
      BY <2>1
    <3> QED BY <1>5, <2>1, <3>1 DEF c
  <2> QED BY <2>1, <2>2
<1>7. /\ r.queues = [q.queues EXCEPT ![c] = t] /\ r.cursor = q.cursor /\ r.dropped = lost
      /\ lost \in Nat
      /\ lost = IF IsFull(q, c) THEN q.dropped + 1 ELSE q.dropped
  BY <1>1, <1>4
<1> HIDE DEF t, lost
<1>8. /\ r.queues[c] = t /\ \A d \in Channels : d # c => r.queues[d] = q.queues[d]
  BY <1>1, <1>7
<1>9. r \in Queues(P)
  BY <1>1, <1>4, <1>6, <1>7 DEF Queues, t
<1>10. WellFormed(P, r)
  <2>1. ASSUME NEW d \in Channels
        PROVE  /\ Len(r.queues[d]) <= QueueCap
               /\ \A i \in 1..Len(r.queues[d]) : r.queues[d][i].channel = d
    <3>1. CASE d = c
      BY <1>1, <1>5, <1>6, <1>8, <3>1
    <3>2. CASE d # c
      BY <1>8, <3>2 DEF WellFormed
    <3> QED BY <3>1, <3>2
  <2> QED BY <1>9, <2>1 DEF WellFormed
<1>11. Total(r) + r.dropped = Total(q) + q.dropped + 1
  <2>1. Total(q) \in Nat BY TotalFacts
  <2>2. CASE IsFull(q, c)
    <3>1. Len(r.queues[c]) = Len(q.queues[c]) + 0
      BY <1>1, <1>5, <1>6, <1>8, <2>2 DEF s
    <3>2. Total(r) = Total(q) + 0
      BY <1>1, <1>8, <3>1, TotalChanges
    <3> QED BY <1>1, <1>7, <2>1, <2>2, <3>2
  <2>3. CASE ~IsFull(q, c)
    <3>1. Len(r.queues[c]) = Len(q.queues[c]) + 1
      BY <1>1, <1>5, <1>6, <1>8, <2>3 DEF s
    <3>2. Total(r) = Total(q) + 1
      BY <1>1, <1>8, <3>1, TotalChanges
    <3> QED BY <1>1, <1>7, <2>1, <2>3, <3>2
  <2> QED BY <2>2, <2>3
<1>12. r.queues[c] = Append(IF IsFull(q, c) THEN Tail(q.queues[c]) ELSE q.queues[c], p)
  BY <1>8 DEF t, kept, s
<1> QED BY <1>7, <1>8, <1>10, <1>11, <1>12 DEF r, c

(***************************************************************************)
(* A flush.                                                                *)
(***************************************************************************)
LEMMA ReachBounds ==
  ASSUME NEW P, NEW q, WellFormed(P, q)
  PROVE  Reach(q) \in 0..8 /\ Reach(q) <= Total(q) /\ Total(q) \in Nat
BY TotalFacts DEF Reach, Budget

\* The queues a flush goes through, and the packets it pops on the way.
LEMMA AfterFacts ==
  ASSUME NEW P, NEW q, WellFormed(P, q)
  PROVE  \A k \in 0..Reach(q) :
           /\ WellFormed(P, After(q)[k])
           /\ After(q)[k].dropped = q.dropped
           /\ Total(After(q)[k]) = Total(q) - k
           /\ k < Reach(q) => /\ After(q)[k+1] = Rest(After(q)[k])
                              /\ Total(After(q)[k]) > 0
<1> DEFINE Good(k) == /\ WellFormed(P, After(q)[k])
                      /\ After(q)[k].dropped = q.dropped
                      /\ Total(After(q)[k]) = Total(q) - k
           S == {k \in Nat : k <= Reach(q) => Good(k)}
<1>1. Reach(q) \in 0..8 /\ Reach(q) <= Total(q) /\ Total(q) \in Nat
  BY ReachBounds
<1>2. /\ After(q)[0] = q
      /\ \A k \in 0..7 : After(q)[k+1] = Rest(After(q)[k])
  <2>1. After(q)[0] = q /\ \A k \in 1..8 : After(q)[k] = Rest(After(q)[k-1])
    BY AfterUnfolds DEF Budget
  <2>2. \A k \in 0..7 : k + 1 \in 1..8 /\ (k + 1) - 1 = k
    OBVIOUS
  <2> QED BY <2>1, <2>2
<1>3. 0 \in S
  BY <1>1, <1>2
<1>4. ASSUME NEW k \in Nat, k \in S PROVE k + 1 \in S
  <2> SUFFICES ASSUME k + 1 <= Reach(q) PROVE Good(k + 1)
    OBVIOUS
  <2>1. Good(k) /\ k \in 0..7
    BY <1>1, <1>4
  <2>2. Total(After(q)[k]) > 0
    BY <1>1, <2>1
  <2>3. After(q)[k+1] = Rest(After(q)[k])
    BY <1>2, <2>1
  <2>4. /\ WellFormed(P, Rest(After(q)[k]))
        /\ Rest(After(q)[k]).dropped = After(q)[k].dropped
        /\ Total(Rest(After(q)[k])) = Total(After(q)[k]) - 1
    BY <2>1, <2>2, PopFacts
  <2> QED BY <1>1, <2>1, <2>3, <2>4
<1> HIDE DEF S
<1>5. Nat \subseteq S
  BY <1>3, <1>4, SetInduction
<1>6. \A k \in 0..Reach(q) : Good(k)
  BY <1>1, <1>5 DEF S
<1>7. ASSUME NEW k \in 0..Reach(q), k < Reach(q)
      PROVE  After(q)[k+1] = Rest(After(q)[k]) /\ Total(After(q)[k]) > 0
  BY <1>1, <1>2, <1>6, <1>7
<1> QED BY <1>6, <1>7

\* What a flush of n packets leaves, held up or not: the queues of n pops.
LEMMA FlushFacts ==
  ASSUME NEW P, NEW q, WellFormed(P, q), NEW f \in Flushes(q)
  PROVE  /\ f.n \in 0..Reach(q) /\ Attempts(f) \in 0..Reach(q)
         /\ Attempts(f) = f.n \/ Attempts(f) = f.n + 1
         /\ Attempts(f) = f.n => f.n = Reach(q)
         /\ WellFormed(P, Flushed(q, f))
         /\ Flushed(q, f).queues = After(q)[f.n].queues
         /\ Flushed(q, f).dropped = q.dropped
         /\ Total(Flushed(q, f)) = Total(q) - f.n
<1> DEFINE a == After(q)[f.n]
           r == Flushed(q, f)
<1>1. Reach(q) \in 0..8 /\ Total(q) \in Nat
  BY ReachBounds
<1>2. /\ f.n \in 0..8 /\ f.held \in BOOLEAN
      /\ f.held => f.n < Reach(q)
      /\ ~f.held => f.n = Reach(q)
  BY DEF Flushes, Budget
<1>3. f.n \in 0..Reach(q)
  BY <1>1, <1>2
<1>4. WellFormed(P, a) /\ a.dropped = q.dropped /\ Total(a) = Total(q) - f.n
  BY <1>3, AfterFacts
<1>5. CASE f.held
  <2>1. After(q)[f.n + 1] = Rest(a) /\ Total(a) > 0
    BY <1>2, <1>3, <1>5, AfterFacts
  <2> HIDE DEF a, r
  <2>2. r = PushFront(Rest(a), Popped(a))
    BY <1>5, <2>1 DEF Flushed, a, r
  <2>3. r = [Rest(a) EXCEPT !.queues = a.queues]
    BY <1>4, <2>1, <2>2, PutBackFacts
  <2>4. WellFormed(P, Rest(a)) /\ Rest(a).dropped = a.dropped
    BY <1>4, <2>1, PopFacts
  <2>5. /\ r.queues = a.queues /\ r.dropped = a.dropped /\ r \in Queues(P)
    BY <1>4, <2>3, <2>4 DEF WellFormed, Queues
  <2>6. WellFormed(P, r) /\ Total(r) = Total(a)
    BY <1>4, <2>5 DEF WellFormed, Total
  <2>7. Attempts(f) = f.n + 1 /\ f.n + 1 <= Reach(q)
    BY <1>1, <1>2, <1>5 DEF Attempts
  <2> QED BY <1>1, <1>2, <1>3, <1>4, <2>5, <2>6, <2>7 DEF a, r
<1>6. CASE ~f.held
  BY <1>2, <1>3, <1>4, <1>6 DEF Flushed, Attempts
<1> QED BY <1>2, <1>5, <1>6

LEMMA PlacesAddUp ==
  ASSUME NEW cursor \in 0..7, NEW o \in 0..7, NEW d \in 0..7, o < d
  PROVE  (((((cursor + o) % 8) + 1) % 8) + (d - o - 1)) % 8 = (cursor + d) % 8
OBVIOUS

\* A flush that is not held up sends a packet of every channel that waits:
\* the place where the channel comes up gets nearer with every pop.
LEMMA WaitingIsServed ==
  ASSUME NEW P, NEW q, WellFormed(P, q), NEW c \in Channels, q.queues[c] # <<>>
  PROVE  \E i \in 1..Reach(q) : Popped(After(q)[i-1]).channel = c
<1> SUFFICES ASSUME \A i \in 1..Reach(q) : Popped(After(q)[i-1]).channel # c PROVE FALSE
  OBVIOUS
<1>1. Reach(q) \in 0..8 /\ Total(q) \in Nat /\ Total(q) > 0
  BY ReachBounds, TotalFacts
<1>2. \A k \in 0..7 : k < Reach(q) => Popped(After(q)[k]).channel # c
  <2>1. \A k \in 0..7 : k < Reach(q) => k + 1 \in 1..Reach(q) /\ (k + 1) - 1 = k
    BY <1>1
  <2> QED BY <2>1
<1> DEFINE Waits(k) == After(q)[k].queues[c] # <<>>
           Near(k) == \E d \in 0..7 : d + k <= 7 /\ ChannelAt(After(q)[k], d) = c
           S == {k \in Nat : k <= Reach(q) => Waits(k) /\ (k <= 7 => Near(k))}
<1>3. 0 \in S
  <2>1. After(q)[0] = q
    BY AfterUnfolds
  <2>2. q.cursor \in 0..7
    BY DEF WellFormed, Queues
  <2>3. \E d \in 0..7 : ChannelAt(q, d) = c
    BY <2>2, EachIsScheduled
  <2> QED BY <2>1, <2>3
<1>4. ASSUME NEW k \in Nat, k \in S PROVE k + 1 \in S
  <2> SUFFICES ASSUME k + 1 <= Reach(q) PROVE Waits(k + 1) /\ (k + 1 <= 7 => Near(k + 1))
    OBVIOUS
  <2> DEFINE a == After(q)[k]
             o == NextOffset(a)
  <2>1. k \in 0..7 /\ k \in 0..Reach(q) /\ k < Reach(q)
    BY <1>1
  <2>2. Waits(k) /\ Near(k)
    BY <1>4, <2>1
  <2>3. WellFormed(P, a) /\ Total(a) > 0 /\ After(q)[k+1] = Rest(a)
    BY <2>1, AfterFacts
  <2>4. PICK d \in 0..7 : d + k <= 7 /\ ChannelAt(a, d) = c
    BY <2>2
  <2>5. a.queues[c] # <<>> /\ Popped(a).channel # c
    BY <1>2, <2>1, <2>2
  <2> HIDE DEF a
  <2>6. /\ Popped(a).channel = ChannelAt(a, o)
        /\ Rest(a).queues = [a.queues EXCEPT ![Popped(a).channel] = Tail(@)]
        /\ Rest(a).cursor = (At(a, o) + 1) % 8
    BY <2>3, PopFacts
  <2>7. o \in 0..7 /\ o <= d
    BY <2>3, <2>4, <2>5, NextFacts
  <2>8. o # d
    BY <2>4, <2>5, <2>6
  <2>9. Rest(a).queues[c] = a.queues[c]
    <3>1. a.queues \in [Channels -> Seq(P)] BY <2>3 DEF WellFormed, Queues
    <3> QED BY <2>5, <2>6, <3>1
  <2>10. At(Rest(a), d - o - 1) = At(a, d)
    <3>1. a.cursor \in 0..7 BY <2>3 DEF WellFormed, Queues
    <3>2. Len(Schedule) = 8 BY DEF Schedule
    <3>3. /\ At(a, o) = (a.cursor + o) % 8 /\ At(a, d) = (a.cursor + d) % 8
          /\ At(Rest(a), d - o - 1) = (((At(a, o) + 1) % 8) + (d - o - 1)) % 8
      BY <2>6, <3>2 DEF At
    <3> HIDE DEF o
    <3>4. o < d
      BY <2>7, <2>8
    <3> DEFINE cursor == a.cursor
    <3>5. cursor \in 0..7 /\ o \in 0..7 /\ d \in 0..7
      BY <2>4, <2>7, <3>1
    <3> HIDE DEF cursor
    <3>6. (((((cursor + o) % 8) + 1) % 8) + (d - o - 1)) % 8 = (cursor + d) % 8
      BY <3>4, <3>5, PlacesAddUp
    <3> QED BY <3>3, <3>6 DEF cursor
  <2>11. ChannelAt(Rest(a), d - o - 1) = c
    BY <2>4, <2>10 DEF ChannelAt
  <2>12. d - o - 1 \in 0..7 /\ (d - o - 1) + (k + 1) <= 7
    <3>1. o \in 0..7 /\ o <= d /\ o # d /\ d \in 0..7 /\ d + k <= 7 /\ k \in 0..7
      BY <2>1, <2>4, <2>7, <2>8
    <3> HIDE DEF o
    <3> QED BY ONLY <3>1
  <2> QED BY <2>3, <2>5, <2>9, <2>11, <2>12
<1> HIDE DEF S
<1>5. Nat \subseteq S
  BY <1>3, <1>4, SetInduction
<1>6. CASE Reach(q) = 8
  <2>1. 7 \in S /\ 7 <= Reach(q)
    BY <1>5, <1>6
  <2>2. Waits(7) /\ Near(7)
    BY <2>1 DEF S
  <2> DEFINE a == After(q)[7]
  <2>3. 7 \in 0..Reach(q) /\ 7 < Reach(q)
    BY <1>6
  <2>4. WellFormed(P, a) /\ Total(a) > 0
    BY <2>3, AfterFacts
  <2>5. a.queues[c] # <<>> /\ Popped(a).channel # c /\ ChannelAt(a, 0) = c
    BY <1>2, <2>2, <2>3
  <2> HIDE DEF a
  <2>6. NextOffset(a) \in 0..7 /\ NextOffset(a) <= 0
    BY <2>4, <2>5, NextFacts
  <2>7. Popped(a).channel = ChannelAt(a, 0)
    <3>1. NextOffset(a) = 0 BY <2>6
    <3> QED BY <2>4, <3>1, PopFacts
  <2> QED BY <2>5, <2>7
<1>7. CASE Reach(q) # 8
  <2>1. Reach(q) = Total(q)
    BY <1>1, <1>7 DEF Reach, Budget
  <2>2. Reach(q) \in S /\ Reach(q) \in 0..Reach(q)
    BY <1>1, <1>5
  <2>3. Waits(Reach(q))
    BY <1>1, <2>2 DEF S
  <2>4. WellFormed(P, After(q)[Reach(q)]) /\ Total(After(q)[Reach(q)]) = Total(q) - Reach(q)
    BY <2>2, AfterFacts
  <2>5. Total(After(q)[Reach(q)]) > 0
    BY <2>3, <2>4, TotalFacts
  <2> QED BY <1>1, <2>1, <2>4, <2>5
<1> QED BY <1>6, <1>7

(***************************************************************************)
(* Pushes.                                                                 *)
(***************************************************************************)
LEMMA PushAllFacts ==
  ASSUME NEW P, NEW q, WellFormed(P, q), NEW ps \in Seq(P),
         \A i \in 1..Len(ps) : ps[i].channel \in Channels
  PROVE  /\ WellFormed(P, PushAll(q, ps))
         /\ Total(PushAll(q, ps)) + PushAll(q, ps).dropped = Total(q) + q.dropped + Len(ps)
         /\ \A c \in Channels : q.queues[c] # <<>> => PushAll(q, ps).queues[c] # <<>>
<1>1. Len(ps) \in Nat /\ \A i \in 1..Len(ps) : ps[i] \in P
  OBVIOUS
<1>2. PICK g : /\ g[0] = q
               /\ \A i \in 1..Len(ps) : g[i] = Push(g[i-1], ps[i])
               /\ PushAll(q, ps) = g[Len(ps)]
  BY <1>1, PushAllUnfolds
<1> DEFINE Good(i) == /\ WellFormed(P, g[i])
                      /\ Total(g[i]) + g[i].dropped = Total(q) + q.dropped + i
                      /\ \A c \in Channels : q.queues[c] # <<>> => g[i].queues[c] # <<>>
           S == {i \in Nat : i <= Len(ps) => Good(i)}
<1>3. Total(q) \in Nat /\ q.dropped \in Nat
  BY TotalFacts DEF WellFormed, Queues
<1>4. 0 \in S
  BY <1>2, <1>3
<1>5. ASSUME NEW i \in Nat, i \in S PROVE i + 1 \in S
  <2> SUFFICES ASSUME i + 1 <= Len(ps) PROVE Good(i + 1)
    OBVIOUS
  <2> DEFINE p == ps[i + 1]
             r == g[i]
  <2>1. Good(i) /\ i + 1 \in 1..Len(ps) /\ (i + 1) - 1 = i
    BY <1>1, <1>5
  <2>2. g[i + 1] = Push(r, p) /\ p \in P /\ p.channel \in Channels
    BY <1>1, <1>2, <2>1
  <2>3. WellFormed(P, r) /\ Total(r) + r.dropped = Total(q) + q.dropped + i
    BY <2>1
  <2> HIDE DEF p, r
  <2>4. /\ WellFormed(P, Push(r, p))
        /\ Total(Push(r, p)) + Push(r, p).dropped = Total(r) + r.dropped + 1
        /\ \A c \in Channels : c # p.channel => Push(r, p).queues[c] = r.queues[c]
        /\ Push(r, p).queues[p.channel] =
             Append(IF IsFull(r, p.channel) THEN Tail(r.queues[p.channel])
                    ELSE r.queues[p.channel], p)
    BY <2>2, <2>3, PushFacts
  <2>5. Push(r, p).queues[p.channel] # <<>>
    <3>1. WellFormed(P, Push(r, p)) /\ r.queues[p.channel] \in Seq(P)
      BY <2>2, <2>3, <2>4, QueueTypes
    <3>2. IsFull(r, p.channel) => r.queues[p.channel] # <<>>
      BY <2>2, <2>3, QueueTypes DEF IsFull
    <3>3. (IF IsFull(r, p.channel) THEN Tail(r.queues[p.channel]) ELSE r.queues[p.channel])
            \in Seq(P)
      BY <3>1, <3>2
    <3> DEFINE kept == IF IsFull(r, p.channel) THEN Tail(r.queues[p.channel])
                       ELSE r.queues[p.channel]
    <3> HIDE DEF kept
    <3>4. Append(kept, p) # <<>>
      BY <2>2, <3>3 DEF kept
    <3> QED BY <2>4, <3>4 DEF kept
  <2>6. \A c \in Channels : q.queues[c] # <<>> => Push(r, p).queues[c] # <<>>
    BY <2>1, <2>4, <2>5 DEF r
  <2>7. Total(Push(r, p)) + Push(r, p).dropped = Total(q) + q.dropped + (i + 1)
    <3>1. Total(r) \in Nat /\ r.dropped \in Nat
      BY <2>3, TotalFacts DEF WellFormed, Queues
    <3> DEFINE x == Total(Push(r, p)) + Push(r, p).dropped
               y == Total(r)
               z == r.dropped
               v == Total(q) + q.dropped
    <3>2. x = y + z + 1 /\ y + z = v + i /\ y \in Nat /\ z \in Nat /\ v \in Nat
      BY <1>3, <2>3, <2>4, <3>1
    <3> HIDE DEF x, y, z, v
    <3>3. x = v + (i + 1)
      BY <3>2
    <3> QED BY <3>3 DEF x, v
  <2> QED BY <2>2, <2>4, <2>6, <2>7
<1> HIDE DEF S
<1>6. Nat \subseteq S
  BY <1>4, <1>5, SetInduction
<1>7. Good(Len(ps))
  BY <1>1, <1>6 DEF S
<1> QED BY <1>2, <1>7

(***************************************************************************)
(* The schedule.                                                           *)
(***************************************************************************)
OfChannels == [channel : Channels]
LineOK == WellFormed(OfChannels, line)

LEMMA FlushesServe ==
  ASSUME LineOK, FlushOutbound
  PROVE  /\ LineOK'
         /\ ~flush'.held => \A c \in Channels : line.queues[c] # <<>> => c \in flush'.served
<1>1. PICK f \in Flushes(line) :
        /\ line' = Flushed(line, f)
        /\ flush' = [happened |-> TRUE, held |-> f.held,
                     served |-> {Popping(line, f)[i].channel : i \in 1..f.n}]
  BY DEF FlushOutbound
<1>2. WellFormed(OfChannels, line')
  BY <1>1, FlushFacts DEF LineOK
<1>3. ASSUME ~f.held, NEW c \in Channels, line.queues[c] # <<>> PROVE c \in flush'.served
  <2>1. f.n = Reach(line) /\ Attempts(f) = f.n
    BY <1>3 DEF Flushes, Attempts
  <2>2. PICK i \in 1..Reach(line) : Popped(After(line)[i-1]).channel = c
    BY <1>3, WaitingIsServed DEF LineOK
  <2>3. Popping(line, f)[i] = Popped(After(line)[i-1])
    BY <2>1, <2>2 DEF Popping
  <2> QED BY <1>1, <2>1, <2>2, <2>3
<1> QED BY <1>1, <1>2, <1>3 DEF LineOK

LEMMA EnqueueKeeps ==
  ASSUME LineOK, NEW c \in Sending, Enqueue(c)
  PROVE  LineOK' /\ ~flush'.happened
<1>1. c \in Channels
  BY ScheduleAssumption DEF ScheduleAssumption
<1>2. [channel |-> c] \in OfChannels /\ [channel |-> c].channel \in Channels
  BY <1>1 DEF OfChannels
<1> QED BY <1>2, PushFacts DEF Enqueue, NoFlush, LineOK

\* OUTBOUND_QOS_SCHEDULE and its cursor: a flush the socket does not hold up
\* sends a packet of every channel that has one, for every capacity.
THEOREM NoChannelEverStarves == FlushSpec => NoChannelStarves
<1>1. FlushInit => LineOK
  BY EmptyWellFormed DEF FlushInit, LineOK
<1>2. LineOK /\ [FlushNext]_scheduleVars => LineOK'
  BY FlushesServe, EnqueueKeeps DEF FlushNext, scheduleVars, LineOK
<1>3. LineOK /\ [FlushNext]_scheduleVars
        => [flush'.happened /\ ~flush'.held
              => \A c \in Channels : line.queues[c] # <<>> => c \in flush'.served]_scheduleVars
  BY FlushesServe, EnqueueKeeps DEF FlushNext
<1> QED BY <1>1, <1>2, <1>3, PTL DEF FlushSpec, NoChannelStarves
=============================================================================
