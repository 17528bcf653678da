-------------------------- MODULE SecureDatagrams --------------------------
(***************************************************************************)
(* One direction of a sealed session: the sender's counter, the datagrams  *)
(* on the network, and the receiver's sliding replay window.  The host's   *)
(* ReplayGuard and the client's SecureDatagramCodec are the same window.   *)
(*                                                                         *)
(* The network keeps every datagram for ever, so it loses, reorders and    *)
(* repeats them as it likes.                                               *)
(***************************************************************************)
EXTENDS Integers, FiniteSets

CONSTANT Window   \* the replay window, 4096 in the code

ASSUME WindowAssumption == Window \in Nat \ {0}

VARIABLES
  sendCounter,  \* the counter of the next datagram to seal
  wire,         \* datagrams handed to the network, [counter, packet]
  highest,      \* the highest counter opened, 0 for none
  seen,         \* the counters the window remembers
  opened,       \* history: the datagrams opened
  openings      \* history: how often one was opened

sealVars == <<sendCounter, wire>>
windowVars == <<highest, seen, opened, openings>>

SealInit ==
  /\ sendCounter = 1
  /\ wire = {}
  /\ highest = 0
  /\ seen = {}
  /\ opened = {}
  /\ openings = 0

\* MUTANT of Seal: all packets of a flush share a counter.
SealOncePerFlush(n, packet, taken) ==
  /\ sendCounter' = IF n = 0 THEN sendCounter ELSE sendCounter + 1
  /\ wire' = wire \cup {[counter |-> sendCounter, packet |-> packet[i]] : i \in taken}

\* Seals packet[1], ..., packet[n] in this order.  Every attempt takes a
\* counter; the socket takes those in taken, and the rest is given up.
Seal(n, packet, taken) ==
  /\ sendCounter' = sendCounter + n
  /\ wire' = wire \cup {[counter |-> sendCounter + i - 1, packet |-> packet[i]] : i \in taken}

(***************************************************************************)
(* The receiver.                                                           *)
(***************************************************************************)
\* MUTANT of Fresh: one more counter counts as inside the window.
FreshBehind(n) == n \notin seen /\ (highest = 0 \/ n + Window >= highest)

\* Not remembered, and not too far behind to be remembered.
Fresh(n) == n \notin seen /\ (highest = 0 \/ n + Window > highest)

\* The upper end of the window once n is opened.
Higher(n) == IF n > highest THEN n ELSE highest

\* MUTANT of InWindow: the lowest counter is forgotten one step early.
InWindowShort(ns, high) == {n \in ns : n > high - Window + 1}

\* What stays in the window once its upper end is high.
InWindow(ns, high) == {n \in ns : n >= high - Window + 1}

\* Opens d.  A datagram that is not fresh is refused and changes nothing.
Open(d) ==
  /\ d \in wire
  /\ Fresh(d.counter)
  /\ highest' = Higher(d.counter)
  /\ seen' = InWindow(seen \cup {d.counter}, Higher(d.counter))
  /\ opened' = opened \cup {d}
  /\ openings' = openings + 1

(***************************************************************************)
(* Properties.                                                             *)
(***************************************************************************)
SealTypeOK ==
  /\ sendCounter \in Nat \ {0}
  /\ highest \in 0..sendCounter - 1
  /\ seen \subseteq 1..highest
  /\ opened \subseteq wire

\* No two datagrams share a counter (a GCM nonce), and the next one is unused.
CountersUnique ==
  /\ \A d \in wire : d.counter \in 1..sendCounter - 1
  /\ \A d, e \in wire : d.counter = e.counter => d = e

\* The window is as good as a memory of everything: it lets a datagram in if
\* and only if it was not opened before and lies less than Window behind.
WindowIsExact ==
  \A d \in wire : Fresh(d.counter) <=> d \notin opened /\ d.counter + Window > highest

Channel == INSTANCE AtMostOnceChannel WITH offered <- wire, delivered <- opened, deliveries <- openings

\* Duplicates of a datagram are never opened, whatever the order of arrival.
AtMostOnce == Channel!ChannelSpec

=============================================================================
