------------------------- MODULE HostSessionsProofs -------------------------
(***************************************************************************)
(* Theorems of HostSessions for every number of endpoints, devices, codes, *)
(* offers and queued packets, and for both permission policies.            *)
(*                                                                         *)
(* The safety properties share one inductive invariant, Ind.  Its heart is *)
(* Sound, a predicate of one session and of the counters it is compared    *)
(* with; every handler rewrites one session, so its proof is that the      *)
(* rewrite keeps Sound, that no other session's key moves, and that what   *)
(* it flushes was queued for secure peers.                                 *)
(***************************************************************************)
EXTENDS HostSessions, FiniteSetTheorems, TLAPS

Packets  == [to : Peers, kind : PacketKinds, id : Nat]
Accepted == [peer : Peers, salt : Nat, code : Nat]
Codes    == [gen : Nat \ {0}, expires : Nat]
Counters == [salt : Nat, auth : Nat, offer : Nat]

\* One session, against the code on display c, the counters n and the proofs
\* accepted so far acc.
Sound(s, c, n, acc) ==
  /\ s.secure # NoKeys => s.perm \in {"Approved", "Rejected"}
  /\ s.secure.sid <= n.offer
  /\ s.kex.sid <= n.offer
  /\ s.kex # NoKex => s.kex.sid > s.secure.sid
  /\ Policy = "RequireApproval" =>
       /\ s.perm = "Approved" /\ s.secure = NoKeys => s.kex # NoKex
       /\ s.perm = "Approved" \/ s.secure # NoKeys \/ s.verified => s.vouched
  /\ s.pair # NoPair =>
       /\ s.pair.gen = c.gen
       /\ s.pair.expires <= c.expires
       /\ s.pair.salt <= n.salt
       /\ \A a \in acc : a.salt # s.pair.salt

AllSound == \A q \in Peers : Sound(sessions[q], code, issued, accepted)

VideoForSecure == \A m \in queue : m.kind = "Video" => sessions[m.to].secure # NoKeys

SpentIsPast == \A a \in accepted : a.code < code.gen /\ a.salt <= issued.salt

Ind ==
  /\ TypeOK
  /\ AllSound
  /\ VideoForSecure
  /\ SpentIsPast
  /\ OneTimeCode

\* What a step may do to the key of a session.
KeyStep(k, kk) == k = NoKeys \/ kk = k \/ kk.sid > k.sid

(***************************************************************************)
(* One session.                                                            *)
(***************************************************************************)
LEMMA RequestedType ==
  ASSUME NEW s \in Session, NEW dev \in Devices, NEW key \in Devices \cup {NoDevice}
  PROVE  Requested(s, dev, key) \in Session
BY DEF Requested, Session, NameOf, DeviceIds, NoAuth

LEMMA RequestedSound ==
  ASSUME NEW s \in Session, NEW dev \in Devices, NEW key \in Devices \cup {NoDevice},
         NEW c, NEW n, NEW acc, Sound(s, c, n, acc)
  PROVE  Sound(Requested(s, dev, key), c, n, acc)
BY DEF Requested, Session, Sound

LEMMA RequestedFields ==
  ASSUME NEW s \in Session, NEW dev, NEW key
  PROVE  LET r == Requested(s, dev, key) IN
         /\ r.secure = s.secure /\ r.perm = s.perm /\ r.kex = s.kex /\ r.pair = s.pair
         /\ r.verified = s.verified /\ r.vouched = s.vouched
BY DEF Requested, Session

LEMMA RefreshType ==
  ASSUME NEW s \in Session, now \in Nat
  PROVE  RefreshWindow(s) \in Session
<1>1. 0 \in 0..AttemptLimit BY ConstantsAssumption DEF ConstantsAssumption
<1> QED BY <1>1 DEF RefreshWindow, Session

LEMMA RefreshSound ==
  ASSUME NEW s \in Session, NEW c, NEW n, NEW acc, Sound(s, c, n, acc)
  PROVE  Sound(RefreshWindow(s), c, n, acc)
BY DEF RefreshWindow, Session, Sound

LEMMA NewSessionType ==
  ASSUME now \in Nat
  PROVE  NewSession \in Session /\ NoSession \in Session
BY ConstantsAssumption
   DEF ConstantsAssumption, NewSession, NoSession, SessionAs, Session, NoId, NoAuth,
       NoPair, NoKex, NoKeys, DeviceIds

LEMMA NewSessionSound ==
  ASSUME NEW c, NEW n \in Counters, NEW acc
  PROVE  Sound(NewSession, c, n, acc) /\ Sound(NoSession, c, n, acc)
BY DEF NewSession, NoSession, SessionAs, Sound, NoKeys, NoKex, NoPair, Counters

\* Later counters keep a session sound.
LEMMA SoundLater ==
  ASSUME NEW s \in Session, NEW c, NEW n \in Counters, NEW nn \in Counters, NEW acc,
         n.salt <= nn.salt, n.offer <= nn.offer, Sound(s, c, n, acc)
  PROVE  Sound(s, c, nn, acc)
BY DEF Sound, Counters, Session, Keys, NoKeys, NoKex, NoPair

\* Without a pairing challenge, the code and the accepted proofs do not matter.
LEMMA SoundWithoutChallenge ==
  ASSUME NEW s \in Session, NEW c, NEW n, NEW acc, NEW cc, NEW bcc,
         Sound(s, c, n, acc)
  PROVE  Sound([s EXCEPT !.pair = NoPair], cc, n, bcc)
BY DEF Sound, Session

LEMMA WithoutChallengeType ==
  ASSUME NEW s \in Session
  PROVE  [s EXCEPT !.pair = NoPair] \in Session
BY DEF Session

LEMMA Types ==
  ASSUME Ind
  PROVE  /\ sessions \in [Peers -> Session]
         /\ code \in Codes /\ code.gen \in Nat \ {0} /\ code.expires \in Nat
         /\ store \in [Devices -> {"none", "allow", "deny"}]
         /\ issued \in Counters
         /\ issued.salt \in Nat /\ issued.auth \in Nat /\ issued.offer \in Nat
         /\ now \in Nat
         /\ queue \in SUBSET Packets
         /\ accepted \in SUBSET Accepted
BY DEF Ind, TypeOK, Codes, Counters, Packets, Accepted

(***************************************************************************)
(* The registry.                                                           *)
(***************************************************************************)
LEMMA EnsuredFacts ==
  ASSUME Ind, NEW p \in Peers, NEW ss \in Ensured(p)
  PROVE  /\ ss \in [Peers -> Session]
         /\ \A q \in Peers : /\ Sound(ss[q], code, issued, accepted)
                             /\ ss[q].secure = sessions[q].secure
<1>1. now \in Nat /\ sessions \in [Peers -> Session] /\ issued \in Counters
  BY DEF Ind, TypeOK, Counters
<1>2. /\ NewSession \in Session /\ NoSession \in Session
      /\ Sound(NewSession, code, issued, accepted) /\ Sound(NoSession, code, issued, accepted)
  BY <1>1, NewSessionType, NewSessionSound
<1>3. NewSession.secure = NoKeys /\ NoSession.secure = NoKeys
  BY DEF NewSession, NoSession, SessionAs
<1>4. \A q \in Peers : sessions[q].perm \in {"Absent", "Pending"} => sessions[q].secure = NoKeys
  BY <1>1 DEF Ind, AllSound, Sound
<1>5. CASE sessions[p].perm # "Absent"
  BY <1>1, <1>5 DEF Ensured, Ind, AllSound
<1>6. CASE sessions[p].perm = "Absent" /\ ~AtCap(sessions)
  BY <1>1, <1>2, <1>3, <1>4, <1>6 DEF Ensured, Ind, AllSound
<1>7. CASE sessions[p].perm = "Absent" /\ AtCap(sessions)
  <2>1. PICK v \in OldestPending(sessions) :
               ss = [sessions EXCEPT ![v] = NoSession, ![p] = NewSession]
    BY <1>7 DEF Ensured
  <2>2. v \in Peers /\ sessions[v].perm = "Pending"
    BY <2>1 DEF OldestPending, PendingPeers
  <2> QED BY <1>1, <1>2, <1>3, <1>4, <1>7, <2>1, <2>2 DEF Ind, AllSound
<1> QED BY <1>5, <1>6, <1>7

LEMMA SeenFacts ==
  ASSUME NEW s \in Session, now \in Nat, NEW c, NEW n, NEW acc, Sound(s, c, n, acc)
  PROVE  /\ [s EXCEPT !.lastSeen = now] \in Session
         /\ Sound([s EXCEPT !.lastSeen = now], c, n, acc)
         /\ [s EXCEPT !.lastSeen = now].secure = s.secure
BY DEF Session, Sound

LEMMA OpenedFacts ==
  ASSUME Ind, NEW p \in Peers, NEW ss \in Opened(p)
  PROVE  /\ ss \in [Peers -> Session]
         /\ ss[p] \in Session
         /\ \A q \in Peers : /\ Sound(ss[q], code, issued, accepted)
                             /\ ss[q].secure = sessions[q].secure
         /\ ss[p].perm = "Approved" =>
              sessions[p].perm = "Approved" /\ sessions[p].kex = ss[p].kex
<1>1. PICK es \in Ensured(p) : ss = [es EXCEPT ![p].lastSeen = now]
  BY DEF Opened
<1>2. /\ es \in [Peers -> Session]
      /\ \A q \in Peers : /\ Sound(es[q], code, issued, accepted)
                          /\ es[q].secure = sessions[q].secure
  BY EnsuredFacts
<1>3. now \in Nat /\ sessions \in [Peers -> Session] BY Types
<1>4. /\ [es[p] EXCEPT !.lastSeen = now] \in Session
      /\ Sound([es[p] EXCEPT !.lastSeen = now], code, issued, accepted)
      /\ [es[p] EXCEPT !.lastSeen = now].secure = es[p].secure
  BY <1>2, <1>3, SeenFacts
<1>5. ss[p].perm = "Approved" =>
        sessions[p].perm = "Approved" /\ sessions[p].kex = ss[p].kex
  <2>1. es[p] = sessions[p] \/ es[p] = NewSession
    BY <1>3, NewSessionType DEF Ensured
  <2>2. ss[p].perm = es[p].perm /\ ss[p].kex = es[p].kex
    BY <1>1, <1>2 DEF Session
  <2>3. NewSession.perm # "Approved"
    BY DEF NewSession, SessionAs
  <2> QED BY <2>1, <2>2, <2>3
<1> QED BY <1>1, <1>2, <1>4, <1>5

(***************************************************************************)
(* Ends of a step.                                                         *)
(***************************************************************************)
LEMMA FlushFacts ==
  ASSUME NEW ss \in [Peers -> Session],
         NEW q \in SUBSET Packets, NEW direct \in SUBSET Datagram,
         Flush(ss, q, direct),
         \A m \in q : m.kind = "Video" => ss[m.to].secure # NoKeys,
         \A m \in direct : m.kind # "Video"
  PROVE  /\ queue' \subseteq q
         /\ wire' \subseteq Datagram
         /\ \A m \in wire' : m.kind = "Video" => m.key # NoKeys
<1>1. PICK sent \in SUBSET q : /\ queue' = q \ sent
                               /\ wire' = direct \cup {Sealed(ss, m) : m \in sent}
  BY DEF Flush
<1>2. \A m \in q : /\ Sealed(ss, m) \in Datagram
                    /\ Sealed(ss, m).kind = m.kind
                    /\ Sealed(ss, m).key = ss[m.to].secure
  BY DEF Sealed, Datagram, Packets, Session
<1> QED BY <1>1, <1>2

PortsSafe ==
  /\ \A m \in wire' : m.kind = "Video" => m.key # NoKeys
  /\ Policy = "RequireApproval" => \A i \in injected' : i.key # NoKeys

KeysAdvance == \A q \in Peers : KeyStep(sessions[q].secure, sessions'[q].secure)

Good == Ind' /\ PortsSafe /\ KeysAdvance

\* The part of the type invariant every action but the flush leaves alone.
RestType ==
  /\ host \in {"running", "attempt limit", "key confirm", "system error"}
  /\ code \in Codes
  /\ store \in [Devices -> {"none", "allow", "deny"}]
  /\ issued \in Counters
  /\ now \in Nat
  /\ injected \subseteq [peer : Peers, key : {NoKeys} \cup Keys]
  /\ dialogs \subseteq Peers /\ prompted \subseteq Peers

\* A step that accepts no proof is good if it rewrites the sessions soundly,
\* moves keys forward only, and what it sends is safe.
LEMMA GoodStep ==
  ASSUME Ind, RestType', accepted' = accepted,
         code'.gen >= code.gen, issued'.salt >= issued.salt,
         sessions' \in [Peers -> Session],
         AllSound', KeysAdvance, VideoForSecure',
         queue' \in SUBSET Packets, wire' \in SUBSET Datagram, PortsSafe
  PROVE  Good
<1>1. TypeOK'
  BY DEF Ind, TypeOK, RestType, Packets, Codes, Counters
<1>2. SpentIsPast' /\ OneTimeCode'
  <2>1. /\ code \in Codes /\ code' \in Codes
        /\ issued \in Counters /\ issued' \in Counters
        /\ accepted \subseteq Accepted
        /\ \A a \in accepted : a.code < code.gen /\ a.salt <= issued.salt
    BY DEF Ind, SpentIsPast, TypeOK, RestType, Codes, Counters, Accepted
  <2>2. \A a \in accepted : a.code < code'.gen /\ a.salt <= issued'.salt
    BY <2>1 DEF Codes, Counters, Accepted
  <2> QED BY <2>2 DEF Ind, SpentIsPast, OneTimeCode
<1> QED BY <1>1, <1>2 DEF Good, Ind

\* Video stays queued for secure peers when no session's key is lost.
LEMMA VideoKept ==
  ASSUME Ind, NEW ss \in [Peers -> Session],
         \A q \in Peers : KeyStep(sessions[q].secure, ss[q].secure)
  PROVE  \A m \in queue : m.kind = "Video" => ss[m.to].secure # NoKeys
<1> SUFFICES ASSUME NEW m \in queue, m.kind = "Video"
             PROVE  ss[m.to].secure # NoKeys
  OBVIOUS
<1>1. m.to \in Peers BY DEF Ind, TypeOK
<1>2. sessions[m.to].secure # NoKeys BY DEF Ind, VideoForSecure
<1>3. sessions[m.to].secure \in Keys BY <1>1, <1>2 DEF Ind, TypeOK, Session
<1>4. CASE ss[m.to].secure = NoKeys
  <2>1. NoKeys.sid > sessions[m.to].secure.sid BY <1>1, <1>2, <1>4 DEF KeyStep
  <2> QED BY <1>3, <2>1 DEF NoKeys, Keys
<1> QED BY <1>4

\* A handler of a packet: it makes s of the session of its sender, may queue
\* packets that are not video, may send some directly, and flushes under the
\* sessions before (ss) or after it.
Handling(p, ss, s, fs, new, direct) ==
  /\ ss \in Opened(p) /\ s \in Session
  /\ sessions' = [ss EXCEPT ![p] = s]
  /\ Sound(s, code, issued', accepted) /\ KeyStep(ss[p].secure, s.secure)
  /\ host' = host /\ code' = code /\ store' = store /\ now' = now /\ accepted' = accepted
  /\ issued' \in Counters /\ issued'.salt >= issued.salt /\ issued'.offer >= issued.offer
  /\ dialogs' \subseteq Peers /\ prompted' \subseteq Peers
  /\ injected' \subseteq [peer : Peers, key : {NoKeys} \cup Keys]
  /\ Policy = "RequireApproval" => \A i \in injected' : i.key # NoKeys
  /\ fs = ss \/ fs = sessions'
  /\ new \subseteq Packets /\ direct \subseteq Datagram
  /\ \A m \in new \cup direct : m.kind # "Video"
  /\ Flush(fs, queue \cup new, direct)

LEMMA GoodHandler ==
  ASSUME Ind, NEW p \in Peers, NEW ss, NEW s, NEW fs, NEW new, NEW direct,
         Handling(p, ss, s, fs, new, direct)
  PROVE  Good
<1> USE DEF Handling
<1>1. /\ ss \in [Peers -> Session]
      /\ \A q \in Peers : /\ Sound(ss[q], code, issued, accepted)
                          /\ ss[q].secure = sessions[q].secure
  BY OpenedFacts
<1>2. \A q \in Peers : Sound(ss[q], code, issued', accepted)
  BY <1>1, Types, SoundLater DEF Counters
<1>3. /\ sessions' \in [Peers -> Session]
      /\ \A q \in Peers : /\ Sound(sessions'[q], code, issued', accepted)
                          /\ KeyStep(sessions[q].secure, sessions'[q].secure)
  <2>1. KeyStep(sessions[p].secure, s.secure) BY <1>1
  <2>2. \A q \in Peers : q # p => sessions'[q] = ss[q] BY <1>1
  <2>3. sessions'[p] = s /\ sessions' \in [Peers -> Session] BY <1>1
  <2>4. \A q \in Peers : Sound(sessions'[q], code, issued', accepted) BY <1>2, <2>2, <2>3
  <2>5. \A q \in Peers : q # p => sessions'[q].secure = sessions[q].secure BY <1>1, <2>2
  <2> HIDE DEF Handling
  <2>6. \A q \in Peers : KeyStep(sessions[q].secure, sessions'[q].secure)
    BY <2>1, <2>3, <2>5 DEF KeyStep
  <2> QED BY <2>3, <2>4, <2>6
<1>4. /\ \A m \in queue : m.kind = "Video" => sessions'[m.to].secure # NoKeys
      /\ \A m \in queue : m.kind = "Video" => ss[m.to].secure # NoKeys
  BY <1>1, <1>3, VideoKept DEF KeyStep
<1>5. /\ queue' \subseteq queue \cup new
      /\ wire' \subseteq Datagram
      /\ \A m \in wire' : m.kind = "Video" => m.key # NoKeys
  <2>1. fs \in [Peers -> Session] BY <1>1, <1>3
  <2>2. queue \cup new \in SUBSET Packets BY Types
  <2>3. \A m \in queue \cup new : m.kind = "Video" => fs[m.to].secure # NoKeys BY <1>4
  <2>4. direct \in SUBSET Datagram /\ \A m \in direct : m.kind # "Video"
    OBVIOUS
  <2>5. Flush(fs, queue \cup new, direct)
    OBVIOUS
  <2> HIDE DEF Handling
  <2> DEFINE q == queue \cup new
  <2>6. q \in SUBSET Packets /\ Flush(fs, q, direct)
        /\ \A m \in q : m.kind = "Video" => fs[m.to].secure # NoKeys
    BY <2>2, <2>3, <2>5
  <2> HIDE DEF q
  <2>7. /\ queue' \subseteq q
        /\ wire' \subseteq Datagram
        /\ \A m \in wire' : m.kind = "Video" => m.key # NoKeys
    BY <2>1, <2>4, <2>6, FlushFacts
  <2> QED BY <2>7 DEF q
<1>6. VideoForSecure' BY <1>4, <1>5 DEF VideoForSecure
<1>7. RestType' BY Types DEF Ind, TypeOK, RestType
<1>8. AllSound' /\ KeysAdvance BY <1>3 DEF AllSound, KeysAdvance
<1>9. PortsSafe BY <1>5 DEF PortsSafe
<1> QED BY <1>3, <1>5, <1>6, <1>7, <1>8, <1>9, Types, GoodStep

(***************************************************************************)
(* The handlers.                                                           *)
(***************************************************************************)
LEMMA SameSound ==
  ASSUME NEW s \in Session, NEW t \in Session, NEW c, NEW n, NEW acc, Sound(s, c, n, acc),
         t.secure = s.secure, t.perm = s.perm, t.kex = s.kex, t.pair = s.pair,
         t.verified = s.verified, t.vouched = s.vouched
  PROVE  Sound(t, c, n, acc)
BY DEF Sound

LEMMA ChallengeTrustedGood ==
  ASSUME Ind, NEW p \in Peers, NEW key, NEW dev \in Devices, ChallengeTrusted(p, key, dev)
  PROVE  Good
<1> DEFINE id == issued.auth + 1
           auth == [id |-> id, dev |-> dev, issued |-> now]
           m == Plain(Packet(p, "AuthChallenge", id))
<1>1. PICK ss \in Opened(p) :
        /\ sessions' = [ss EXCEPT ![p] = [Requested(ss[p], dev, dev) EXCEPT
                                            !.auth = auth, !.input = store[dev]]]
        /\ Flush(ss, queue \cup {}, {m})
  BY DEF ChallengeTrusted
<1> DEFINE r == Requested(ss[p], dev, dev)
           s == [r EXCEPT !.auth = auth, !.input = store[dev]]
<1>2. r \in Session /\ Sound(r, code, issued, accepted) /\ r.secure = ss[p].secure
  <2>1. ss[p] \in Session /\ Sound(ss[p], code, issued, accepted)
    BY OpenedFacts
  <2>2. dev \in Devices \cup {NoDevice}
    OBVIOUS
  <2> QED BY <2>1, <2>2, RequestedType, RequestedSound, RequestedFields
<1>3. /\ id \in Nat \ {0} /\ issued' \in Counters
      /\ issued'.salt = issued.salt /\ issued'.offer = issued.offer
      /\ auth \in [id : Nat \ {0}, dev : Devices, issued : Nat]
      /\ store[dev] \in {"allow", "deny"}
  BY Types DEF ChallengeTrusted, Counters
<1> HIDE DEF r, auth
<1>4. s \in Session
  BY <1>2, <1>3 DEF Session
<1>5. /\ s.secure = r.secure /\ s.perm = r.perm /\ s.kex = r.kex /\ s.pair = r.pair
      /\ s.verified = r.verified /\ s.vouched = r.vouched
  BY <1>2 DEF Session
<1> HIDE DEF s
<1>6. Sound(s, code, issued', accepted)
  <2>1. Sound(s, code, issued, accepted) BY <1>2, <1>4, <1>5, SameSound
  <2> QED BY <1>3, <1>4, <2>1, Types, SoundLater
<1>7. m \in Datagram /\ m.kind # "Video"
  BY <1>3 DEF Plain, Packet, Datagram, PacketKinds
<1> HIDE DEF m
<1>8. /\ host' = host /\ code' = code /\ store' = store /\ now' = now /\ accepted' = accepted
      /\ dialogs' = dialogs /\ prompted' = prompted /\ injected' = {}
  BY DEF ChallengeTrusted
<1>9. dialogs' \in SUBSET Peers /\ prompted' \in SUBSET Peers
  BY <1>8 DEF Ind, TypeOK
<1>10. KeyStep(ss[p].secure, s.secure) BY <1>2, <1>5 DEF KeyStep
<1>11. sessions' = [ss EXCEPT ![p] = s]
  BY <1>1 DEF s, r
<1>12. Flush(ss, queue \cup {}, {m})
  BY <1>1
<1>13. issued'.salt >= issued.salt /\ issued'.offer >= issued.offer
  BY <1>3, Types
<1>14. Handling(p, ss, s, ss, {}, {m})
  BY <1>3, <1>4, <1>6, <1>7, <1>8, <1>9, <1>10, <1>11, <1>12, <1>13 DEF Handling
<1> QED BY <1>14, GoodHandler

\* What DrawOffer draws, and that a session holding it is sound.
LEMMA DrawnOffer ==
  ASSUME Ind, DrawOffer
  PROVE  /\ issued' \in Counters /\ issued'.salt = issued.salt
         /\ issued'.offer >= issued.offer
         /\ OfferKex \in [sid : Nat \ {0}, expires : Nat]
         /\ NextOffer \in Nat
<1>1. issued \in Counters /\ now \in Nat /\ issued.offer \in Nat BY Types
<1>2. KexTTL \in Nat BY ConstantsAssumption DEF ConstantsAssumption
<1> QED BY <1>1, <1>2 DEF DrawOffer, NextOffer, OfferKex, Counters

LEMMA OfferedSound ==
  ASSUME Ind, DrawOffer, NEW s \in Session, Sound(s, code, issued, accepted),
         NEW t \in Session, t.kex = OfferKex, t.perm = "Approved",
         t.secure = s.secure, t.pair = s.pair,
         Policy = "RequireApproval" => t.vouched
  PROVE  Sound(t, code, issued', accepted)
<1>1. issued \in Counters /\ now \in Nat /\ issued.offer \in Nat BY Types
<1>2. KexTTL \in Nat BY ConstantsAssumption DEF ConstantsAssumption
<1>3. /\ t.kex.sid = issued.offer + 1 /\ t.kex # NoKex
      /\ issued'.offer = issued.offer + 1 /\ issued'.salt = issued.salt
  BY <1>1, <1>2 DEF DrawOffer, NextOffer, OfferKex, Counters, NoKex
<1>4. s.secure.sid \in Nat /\ s.secure.sid <= issued.offer
  BY DEF Sound, Session, Keys, NoKeys
<1>5. /\ t.secure.sid <= issued'.offer /\ t.kex.sid <= issued'.offer
      /\ t.kex.sid > t.secure.sid
  BY <1>1, <1>3, <1>4
<1> QED BY <1>3, <1>5 DEF Sound

\* Packets of the router are not video.
LEMMA Answers ==
  ASSUME NEW p \in Peers, NEW n \in Nat
  PROVE  /\ {Packet(p, "Accepted", 0), Packet(p, "Offer", n)} \subseteq Packets
         /\ {Packet(p, "Refused", 0)} \subseteq Packets
         /\ {Packet(p, "Pong", 0)} \subseteq Packets
         /\ {Packet(p, "DisplayInfo", 0)} \subseteq Packets
         /\ \A m \in {Packet(p, "Accepted", 0), Packet(p, "Offer", n), Packet(p, "Refused", 0),
                      Packet(p, "Pong", 0), Packet(p, "DisplayInfo", 0)} : m.kind # "Video"
BY DEF Packet, Packets, PacketKinds

LEMMA AutoApprovedFacts ==
  ASSUME NEW p \in Peers, NEW s \in Session, NEW c, NEW n, NEW acc, Sound(s, c, n, acc)
  PROVE  /\ AutoApproved(s, p) \in Session
         /\ Sound(AutoApproved(s, p), c, n, acc)
         /\ AutoApproved(s, p).secure = s.secure
         /\ AutoApproved(s, p).kex = s.kex
         /\ AutoApproved(s, p).pair = s.pair
         /\ Policy = "RequireApproval" => AutoApproved(s, p) = s
<1>1. DevPeerId(p) \in DeviceIds BY DEF DeviceIds
<1>2. AutoApproved(s, p) \in Session
  <2> DEFINE id == IF s.devId = NoId THEN DevPeerId(p) ELSE s.devId
  <2>1. id \in DeviceIds BY <1>1 DEF Session
  <2>2. AutoApproved(s, p) \in {s, [s EXCEPT !.perm = "Approved", !.devId = id]}
    BY DEF AutoApproved
  <2> HIDE DEF id
  <2>3. [s EXCEPT !.perm = "Approved", !.devId = id] \in Session
    BY <2>1 DEF Session
  <2> QED BY <2>2, <2>3
<1>3. CASE s.perm = "Pending" /\ Policy = "DevAutoApprove"
  BY <1>2, <1>3 DEF AutoApproved, Session, Sound
<1>4. CASE ~(s.perm = "Pending" /\ Policy = "DevAutoApprove")
  BY <1>2, <1>4 DEF AutoApproved
<1> QED BY <1>3, <1>4

LEMMA AutoApprovePairingGood ==
  ASSUME Ind, NEW p \in Peers, NEW key, NEW dev \in Devices, NEW pubkey \in Devices \cup {NoDevice},
         AutoApprovePairing(p, key, dev, pubkey)
  PROVE  Good
<1> DEFINE id == IF pubkey = NoDevice THEN AddrId(p) ELSE IdOf(dev)
           new == {Packet(p, "Accepted", 0), Packet(p, "Offer", NextOffer)}
<1>1. PICK ss \in Opened(p) :
        /\ sessions' = [ss EXCEPT ![p] = [Requested(ss[p], dev, pubkey) EXCEPT
                          !.perm = "Approved", !.devId = id, !.kex = OfferKex]]
        /\ Flush(ss, queue \cup new, {})
  BY DEF AutoApprovePairing
<1> DEFINE r == Requested(ss[p], dev, pubkey)
           s == [r EXCEPT !.perm = "Approved", !.devId = id, !.kex = OfferKex]
<1>2. r \in Session /\ Sound(r, code, issued, accepted) /\ r.secure = ss[p].secure
  BY OpenedFacts, RequestedType, RequestedSound, RequestedFields
<1>3. DrawOffer /\ Policy = "DevAutoApprove"
  BY DEF AutoApprovePairing
<1>4. id \in DeviceIds BY DEF DeviceIds
<1> HIDE DEF r, id
<1>5. /\ s \in Session /\ s.kex = OfferKex /\ s.perm = "Approved"
      /\ s.secure = r.secure /\ s.pair = r.pair
  BY <1>2, <1>3, <1>4, DrawnOffer DEF Session
<1> HIDE DEF s
<1>6. Sound(s, code, issued', accepted)
  BY <1>2, <1>3, <1>5, OfferedSound
<1>7. new \subseteq Packets /\ \A m \in new : m.kind # "Video"
  BY <1>3, DrawnOffer, Answers
<1>8. sessions' = [ss EXCEPT ![p] = s] /\ Flush(ss, queue \cup new, {})
  BY <1>1 DEF s, r
<1>9. /\ host' = host /\ code' = code /\ store' = store /\ now' = now /\ accepted' = accepted
      /\ injected' = {}
  BY DEF AutoApprovePairing
<1>10. dialogs' \subseteq Peers /\ prompted' \subseteq Peers
  BY DEF AutoApprovePairing, OpensDialog, Ind, TypeOK
<1>11. issued' \in Counters /\ issued'.salt >= issued.salt /\ issued'.offer >= issued.offer
  BY <1>3, DrawnOffer, Types
<1>12. KeyStep(ss[p].secure, s.secure) BY <1>2, <1>5 DEF KeyStep
<1> HIDE DEF new
<1>13. Handling(p, ss, s, ss, new, {})
  BY <1>5, <1>6, <1>7, <1>8, <1>9, <1>10, <1>11, <1>12 DEF Handling
<1> QED BY <1>13, GoodHandler

LEMMA AuthAcceptedGood ==
  ASSUME Ind, NEW p \in Peers, NEW key, NEW id, NEW dev \in Devices, AuthAccepted(p, key, id, dev)
  PROVE  Good
<1> DEFINE new == {Packet(p, "Accepted", 0), Packet(p, "Offer", NextOffer)}
<1>1. PICK ss \in Opened(p) :
        /\ sessions' = [ss EXCEPT ![p] = [ss[p] EXCEPT !.perm = "Approved", !.devId = IdOf(dev),
                          !.auth = NoAuth, !.kex = OfferKex, !.vouched = TRUE]]
        /\ Flush(ss, queue \cup new, {})
  BY DEF AuthAccepted
<1> DEFINE s == [ss[p] EXCEPT !.perm = "Approved", !.devId = IdOf(dev),
                          !.auth = NoAuth, !.kex = OfferKex, !.vouched = TRUE]
<1>2. ss[p] \in Session /\ Sound(ss[p], code, issued, accepted)
  BY OpenedFacts
<1>3. DrawOffer BY DEF AuthAccepted
<1>4. IdOf(dev) \in DeviceIds BY DEF DeviceIds
<1>5. /\ s \in Session /\ s.kex = OfferKex /\ s.perm = "Approved"
      /\ s.secure = ss[p].secure /\ s.pair = ss[p].pair /\ s.vouched
  BY <1>2, <1>3, <1>4, DrawnOffer DEF Session
<1> HIDE DEF s
<1>6. Sound(s, code, issued', accepted)
  BY <1>2, <1>3, <1>5, OfferedSound
<1>7. new \subseteq Packets /\ \A m \in new : m.kind # "Video"
  BY <1>3, DrawnOffer, Answers
<1>8. sessions' = [ss EXCEPT ![p] = s] /\ Flush(ss, queue \cup new, {})
  BY <1>1 DEF s
<1>9. /\ host' = host /\ code' = code /\ store' = store /\ now' = now /\ accepted' = accepted
      /\ dialogs' = dialogs /\ prompted' = prompted /\ injected' = {}
  BY DEF AuthAccepted
<1>10. dialogs' \subseteq Peers /\ prompted' \subseteq Peers
  BY <1>9 DEF Ind, TypeOK
<1>11. issued' \in Counters /\ issued'.salt >= issued.salt /\ issued'.offer >= issued.offer
  BY <1>3, DrawnOffer, Types
<1>12. KeyStep(ss[p].secure, s.secure) BY <1>5 DEF KeyStep
<1> HIDE DEF new
<1>13. Handling(p, ss, s, ss, new, {})
  BY <1>5, <1>6, <1>7, <1>8, <1>9, <1>10, <1>11, <1>12 DEF Handling
<1> QED BY <1>13, GoodHandler

LEMMA RejectedFacts ==
  ASSUME NEW s \in Session, NEW c, NEW n, NEW acc, Sound(s, c, n, acc)
  PROVE  LET t == [s EXCEPT !.perm = "Rejected", !.auth = NoAuth] IN
         t \in Session /\ t.secure = s.secure /\ Sound(t, c, n, acc)
<1> DEFINE t == [s EXCEPT !.perm = "Rejected", !.auth = NoAuth]
<1>1. t \in Session BY DEF Session
<1>2. /\ t.secure = s.secure /\ t.perm = "Rejected" /\ t.kex = s.kex /\ t.pair = s.pair
      /\ t.verified = s.verified /\ t.vouched = s.vouched
  BY DEF Session
<1> HIDE DEF t
<1>3. Sound(t, c, n, acc) BY <1>2 DEF Sound
<1> QED BY <1>1, <1>2, <1>3 DEF t

LEMMA AuthRefusedGood ==
  ASSUME Ind, NEW p \in Peers, NEW key, NEW id, NEW dev, AuthRefused(p, key, id, dev)
  PROVE  Good
<1> DEFINE new == {Packet(p, "Refused", 0)}
<1>1. PICK ss \in Opened(p) :
        /\ sessions' = [ss EXCEPT ![p] = [ss[p] EXCEPT !.perm = "Rejected", !.auth = NoAuth]]
        /\ Flush(ss, queue \cup new, {})
  BY DEF AuthRefused
<1> DEFINE s == [ss[p] EXCEPT !.perm = "Rejected", !.auth = NoAuth]
<1>2. ss[p] \in Session /\ Sound(ss[p], code, issued, accepted)
  BY OpenedFacts
<1>3. s \in Session /\ s.secure = ss[p].secure /\ Sound(s, code, issued, accepted)
  BY <1>2, RejectedFacts
<1> HIDE DEF s
<1>4. new \subseteq Packets /\ \A m \in new : m.kind # "Video"
  BY Answers
<1>5. sessions' = [ss EXCEPT ![p] = s] /\ Flush(ss, queue \cup new, {})
  BY <1>1 DEF s
<1>6. /\ host' = host /\ code' = code /\ store' = store /\ now' = now /\ accepted' = accepted
      /\ dialogs' = dialogs /\ prompted' = prompted /\ injected' = {} /\ issued' = issued
  BY DEF AuthRefused
<1>7. dialogs' \subseteq Peers /\ prompted' \subseteq Peers
  BY <1>6 DEF Ind, TypeOK
<1>8. issued' \in Counters /\ issued'.salt >= issued.salt /\ issued'.offer >= issued.offer
  BY <1>6, Types
<1>9. KeyStep(ss[p].secure, s.secure) BY <1>3 DEF KeyStep
<1> HIDE DEF new
<1>10. Handling(p, ss, s, ss, new, {})
  BY <1>3, <1>4, <1>5, <1>6, <1>7, <1>8, <1>9 DEF Handling
<1> QED BY <1>10, GoodHandler

LEMMA ProofRefusedGood ==
  ASSUME Ind, NEW p \in Peers, NEW key, NEW dev \in Devices, NEW pubkey \in Devices \cup {NoDevice},
         NEW proof, ProofRefused(p, key, dev, pubkey, proof)
  PROVE  Good
<1> DEFINE new == {Packet(p, "Refused", 0)}
           w(ss) == RefreshWindow(Requested(ss[p], dev, pubkey))
           u(ss) == [w(ss) EXCEPT !.verified = FALSE, !.pair = NoPair, !.attempts = @ + 1]
<1>1. PICK ss \in Opened(p) :
        /\ \/ sessions' = [ss EXCEPT ![p] = w(ss)]
           \/ ~Blocked(w(ss)) /\ sessions' = [ss EXCEPT ![p] = u(ss)]
        /\ Flush(ss, queue \cup new, {})
  BY DEF ProofRefused
<1> DEFINE r == Requested(ss[p], dev, pubkey)
<1>2. r \in Session /\ Sound(r, code, issued, accepted) /\ r.secure = ss[p].secure
  BY OpenedFacts, RequestedType, RequestedSound, RequestedFields
<1>3. /\ w(ss) \in Session /\ Sound(w(ss), code, issued, accepted)
      /\ w(ss).secure = ss[p].secure
  <2>1. now \in Nat BY Types
  <2> HIDE DEF r
  <2>2. RefreshWindow(r) \in Session /\ Sound(RefreshWindow(r), code, issued, accepted)
    BY <1>2, <2>1, RefreshType, RefreshSound
  <2>3. RefreshWindow(r).secure = r.secure BY <1>2 DEF RefreshWindow, Session
  <2> QED BY <1>2, <2>2, <2>3 DEF r
<1> HIDE DEF w, r
<1>4. ~Blocked(w(ss)) => /\ u(ss) \in Session /\ Sound(u(ss), code, issued, accepted)
                         /\ u(ss).secure = ss[p].secure
  <2> DEFINE t == w(ss)
  <2>1. AttemptLimit \in Nat BY ConstantsAssumption DEF ConstantsAssumption
  <2>2. ~Blocked(t) => t.attempts + 1 \in 0..AttemptLimit
    BY <1>3, <2>1 DEF Blocked, Session
  <2>3. t \in Session /\ Sound(t, code, issued, accepted) /\ t.secure = ss[p].secure
    BY <1>3
  <2> HIDE DEF t
  <2>4. ~Blocked(t) =>
           /\ [t EXCEPT !.verified = FALSE, !.pair = NoPair, !.attempts = @ + 1] \in Session
           /\ Sound([t EXCEPT !.verified = FALSE, !.pair = NoPair, !.attempts = @ + 1],
                    code, issued, accepted)
           /\ [t EXCEPT !.verified = FALSE, !.pair = NoPair, !.attempts = @ + 1].secure
                = ss[p].secure
    BY <2>2, <2>3 DEF Session, Sound
  <2> QED BY <2>4 DEF t
<1> HIDE DEF u
<1>5. PICK s : /\ s \in Session /\ Sound(s, code, issued, accepted)
               /\ s.secure = ss[p].secure /\ sessions' = [ss EXCEPT ![p] = s]
  BY <1>1, <1>3, <1>4
<1>6. new \subseteq Packets /\ \A m \in new : m.kind # "Video"
  BY Answers
<1>7. Flush(ss, queue \cup new, {}) BY <1>1
<1>8. /\ host' = host /\ code' = code /\ store' = store /\ now' = now /\ accepted' = accepted
      /\ dialogs' = dialogs /\ prompted' = prompted /\ injected' = {} /\ issued' = issued
  BY DEF ProofRefused
<1>9. dialogs' \subseteq Peers /\ prompted' \subseteq Peers
  BY <1>8 DEF Ind, TypeOK
<1>10. issued' \in Counters /\ issued'.salt >= issued.salt /\ issued'.offer >= issued.offer
  BY <1>8, Types
<1>11. KeyStep(ss[p].secure, s.secure) BY <1>5 DEF KeyStep
<1> HIDE DEF new
<1>12. Handling(p, ss, s, ss, new, {})
  BY <1>5, <1>6, <1>7, <1>8, <1>9, <1>10, <1>11 DEF Handling
<1> QED BY <1>12, GoodHandler

LEMMA UnapprovedGood ==
  ASSUME Ind, NEW p \in Peers, NEW key, NEW kind, Unapproved(p, key, kind)
  PROVE  Good
<1>1. PICK ss \in Opened(p) : sessions' = ss /\ Flush(ss, queue, {})
  BY DEF Unapproved
<1>2. /\ ss \in [Peers -> Session] /\ ss[p] \in Session
      /\ Sound(ss[p], code, issued, accepted)
  BY OpenedFacts
<1>3. sessions' = [ss EXCEPT ![p] = ss[p]] /\ Flush(ss, queue \cup {}, {})
  BY <1>1, <1>2
<1>4. /\ host' = host /\ code' = code /\ store' = store /\ now' = now /\ accepted' = accepted
      /\ dialogs' = dialogs /\ prompted' = prompted /\ injected' = {} /\ issued' = issued
  BY DEF Unapproved
<1>5. dialogs' \subseteq Peers /\ prompted' \subseteq Peers
  BY <1>4 DEF Ind, TypeOK
<1>6. issued' \in Counters /\ issued'.salt >= issued.salt /\ issued'.offer >= issued.offer
  BY <1>4, Types
<1>7. KeyStep(ss[p].secure, ss[p].secure) BY DEF KeyStep
<1>8. Handling(p, ss, ss[p], ss, {}, {})
  BY <1>2, <1>3, <1>4, <1>5, <1>6, <1>7 DEF Handling
<1> QED BY <1>8, GoodHandler

\* Approval, if any, and the answers: all a packet without input does.
LEMMA AnsweredGood ==
  ASSUME Ind, NEW p \in Peers, NEW new \in SUBSET Packets,
         \A m \in new : m.kind # "Video",
         \E ss \in Opened(p) : /\ sessions' = [ss EXCEPT ![p] = AutoApproved(ss[p], p)]
                               /\ Flush(ss, queue \cup new, {}),
         injected' = {},
         UNCHANGED <<host, code, store, issued, now, dialogs, prompted, accepted>>
  PROVE  Good
<1>1. PICK ss \in Opened(p) : /\ sessions' = [ss EXCEPT ![p] = AutoApproved(ss[p], p)]
                              /\ Flush(ss, queue \cup new, {})
  OBVIOUS
<1> DEFINE s == AutoApproved(ss[p], p)
<1>2. s \in Session /\ Sound(s, code, issued, accepted) /\ s.secure = ss[p].secure
  BY OpenedFacts, AutoApprovedFacts
<1>3. new \subseteq Packets /\ \A m \in new : m.kind # "Video"
  OBVIOUS
<1>4. /\ host' = host /\ code' = code /\ store' = store /\ now' = now /\ accepted' = accepted
      /\ dialogs' = dialogs /\ prompted' = prompted /\ injected' = {} /\ issued' = issued
  OBVIOUS
<1>5. dialogs' \subseteq Peers /\ prompted' \subseteq Peers
  BY <1>4 DEF Ind, TypeOK
<1>6. issued' \in Counters /\ issued'.salt >= issued.salt /\ issued'.offer >= issued.offer
  BY <1>4, Types
<1>7. KeyStep(ss[p].secure, s.secure) BY <1>2 DEF KeyStep
<1>8. sessions' = [ss EXCEPT ![p] = s] /\ Flush(ss, queue \cup new, {})
  BY <1>1
<1> HIDE DEF s
<1>9. Handling(p, ss, s, ss, new, {})
  BY <1>2, <1>3, <1>4, <1>5, <1>6, <1>7, <1>8 DEF Handling
<1> QED BY <1>9, GoodHandler

LEMMA ReceivePingGood ==
  ASSUME Ind, NEW p \in Peers, NEW key, ReceivePing(p, key)
  PROVE  Good
<1>1. {Packet(p, "Pong", 0)} \in SUBSET Packets
      /\ \A m \in {Packet(p, "Pong", 0)} : m.kind # "Video"
  BY Answers
<1> QED BY <1>1, AnsweredGood DEF ReceivePing

LEMMA ReceiveConfigGood ==
  ASSUME Ind, NEW p \in Peers, NEW key, ReceiveConfig(p, key)
  PROVE  Good
<1>1. PICK ss \in Opened(p) : /\ sessions' = [ss EXCEPT ![p] = AutoApproved(ss[p], p)]
                              /\ Flush(ss, queue, {})
  BY DEF ReceiveConfig
<1>2. Flush(ss, queue \cup {}, {})
  <2>1. queue \cup {} = queue
    OBVIOUS
  <2> QED BY <1>1, <2>1
<1>3. {} \in SUBSET Packets /\ \A m \in {} : m.kind # "Video"
  OBVIOUS
<1>4. /\ injected' = {}
      /\ UNCHANGED <<host, code, store, issued, now, dialogs, prompted, accepted>>
  BY DEF ReceiveConfig
<1> QED BY <1>1, <1>2, <1>3, <1>4, AnsweredGood

\* An approved session that is not secure yet has an offer pending, so the
\* transport check drops its plaintext input.
LEMMA ReceiveInputGood ==
  ASSUME Ind, NEW p \in Peers, NEW key \in SealsOf(p), ReceiveInput(p, key)
  PROVE  Good
<1>1. PICK ss \in Opened(p) :
        /\ Passes(p, key, "Input")
        /\ AutoApproved(ss[p], p).perm = "Approved"
        /\ sessions' = [ss EXCEPT ![p] = AutoApproved(ss[p], p)]
        /\ injected' \subseteq {[peer |-> p, key |-> key]}
        /\ Flush(ss, queue, {})
  BY DEF ReceiveInput
<1> DEFINE s == AutoApproved(ss[p], p)
<1>2. /\ s \in Session /\ Sound(s, code, issued, accepted) /\ s.secure = ss[p].secure
      /\ Policy = "RequireApproval" => s = ss[p]
  BY OpenedFacts, AutoApprovedFacts
<1>3. key \in {NoKeys} \cup Keys
  BY Types DEF SealsOf, Session
<1>4. Policy = "RequireApproval" => key # NoKeys
  <2> SUFFICES ASSUME Policy = "RequireApproval", ~IsSecure(p)
               PROVE  FALSE
    BY <1>1 DEF Passes, IsSecure
  <2>1. sessions[p].perm = "Approved" BY <1>1, <1>2, OpenedFacts
  <2>2. sessions[p].kex # NoKex BY <2>1 DEF Ind, AllSound, Sound, IsSecure
  <2>3. RequiresSecure(p) BY <2>1, <2>2 DEF RequiresSecure
  <2> QED BY <1>1, <2>3 DEF Passes
<1>5. /\ injected' \subseteq [peer : Peers, key : {NoKeys} \cup Keys]
      /\ Policy = "RequireApproval" => \A i \in injected' : i.key # NoKeys
  BY <1>1, <1>3, <1>4
<1>6. /\ host' = host /\ code' = code /\ store' = store /\ now' = now /\ accepted' = accepted
      /\ dialogs' = dialogs /\ prompted' = prompted /\ issued' = issued
  BY DEF ReceiveInput
<1>7. dialogs' \subseteq Peers /\ prompted' \subseteq Peers
  BY <1>6 DEF Ind, TypeOK
<1>8. issued' \in Counters /\ issued'.salt >= issued.salt /\ issued'.offer >= issued.offer
  BY <1>6, Types
<1>9. KeyStep(ss[p].secure, s.secure) BY <1>2 DEF KeyStep
<1>10. sessions' = [ss EXCEPT ![p] = s] /\ Flush(ss, queue \cup {}, {})
  BY <1>1
<1> HIDE DEF s
<1>11. Handling(p, ss, s, ss, {}, {})
  BY <1>2, <1>5, <1>6, <1>7, <1>8, <1>9, <1>10 DEF Handling
<1> QED BY <1>11, GoodHandler

LEMMA KeyConfirmedGood ==
  ASSUME Ind, NEW p \in Peers, NEW key, NEW sid, NEW eph \in Ephemerals, NEW dev,
         KeyConfirmed(p, key, sid, eph, dev)
  PROVE  Good
<1> DEFINE new == {Packet(p, "DisplayInfo", 0)}
<1>1. PICK ss \in Opened(p) :
        /\ AutoApproved(ss[p], p).perm = "Approved"
        /\ ConfirmHolds(AutoApproved(ss[p], p), sid, dev)
        /\ sessions' = [ss EXCEPT ![p] = [AutoApproved(ss[p], p) EXCEPT
                          !.kex = NoKex, !.secure = [sid |-> sid, eph |-> eph]]]
        /\ Flush(sessions', queue \cup new, {})
  BY DEF KeyConfirmed
<1> DEFINE r == AutoApproved(ss[p], p)
           s == [r EXCEPT !.kex = NoKex, !.secure = [sid |-> sid, eph |-> eph]]
<1>2. /\ r \in Session /\ Sound(r, code, issued, accepted) /\ r.secure = ss[p].secure
      /\ r.perm = "Approved"
  BY <1>1, OpenedFacts, AutoApprovedFacts
<1>3. r.kex # NoKex /\ r.kex.sid = sid BY <1>1 DEF ConfirmHolds
<1> HIDE DEF r
<1>4. /\ sid \in Nat \ {0} /\ sid <= issued.offer /\ sid > r.secure.sid
      /\ Policy = "RequireApproval" => r.vouched
  BY <1>2, <1>3 DEF Session, Sound
<1>5. /\ s \in Session /\ s.secure = [sid |-> sid, eph |-> eph] /\ s.kex = NoKex
      /\ s.perm = "Approved" /\ s.pair = r.pair /\ s.vouched = r.vouched
  BY <1>2, <1>4 DEF Session, Keys
<1> HIDE DEF s
<1>6. NoKex.sid = 0 /\ NoKeys.sid = 0 /\ s.secure.sid = sid /\ s.secure # NoKeys
  BY <1>4, <1>5 DEF NoKex, NoKeys
<1>7. Sound(s, code, issued, accepted)
  BY <1>2, <1>4, <1>5, <1>6, Types DEF Sound
<1>8. KeyStep(ss[p].secure, s.secure)
  BY <1>2, <1>4, <1>6 DEF KeyStep
<1>9. new \subseteq Packets /\ \A m \in new : m.kind # "Video"
  BY Answers
<1>10. /\ host' = host /\ code' = code /\ store' = store /\ now' = now /\ accepted' = accepted
       /\ dialogs' = dialogs /\ prompted' = prompted /\ injected' = {} /\ issued' = issued
  BY DEF KeyConfirmed
<1>11. dialogs' \subseteq Peers /\ prompted' \subseteq Peers
  BY <1>10 DEF Ind, TypeOK
<1>12. issued' \in Counters /\ issued'.salt >= issued.salt /\ issued'.offer >= issued.offer
  BY <1>10, Types
<1>13. sessions' = [ss EXCEPT ![p] = s] /\ Flush(sessions', queue \cup new, {})
  BY <1>1 DEF s, r
<1> HIDE DEF new
<1>14. Handling(p, ss, s, sessions', new, {})
  BY <1>5, <1>7, <1>8, <1>9, <1>10, <1>11, <1>12, <1>13 DEF Handling
<1> QED BY <1>14, GoodHandler

(***************************************************************************)
(* A new code: every pairing challenge of the old one is withdrawn.        *)
(***************************************************************************)
LEMMA ClearedFacts ==
  ASSUME NEW ss \in [Peers -> Session]
  PROVE  /\ ClearChallenges(ss) \in [Peers -> Session]
         /\ \A q \in Peers : /\ ClearChallenges(ss)[q].pair = NoPair
                             /\ ClearChallenges(ss)[q].secure = ss[q].secure
         /\ \A q \in Peers : \A c, n, acc, cc, bcc :
              Sound(ss[q], c, n, acc) => Sound(ClearChallenges(ss)[q], cc, n, bcc)
<1>1. \A q \in Peers : /\ ClearChallenges(ss)[q] = [ss[q] EXCEPT !.pair = NoPair]
                       /\ ss[q] \in Session
  BY DEF ClearChallenges
<1>2. \A q \in Peers : ClearChallenges(ss)[q] \in Session
  BY <1>1, WithoutChallengeType
<1>3. ClearChallenges(ss) \in [Peers -> Session]
  BY <1>2 DEF ClearChallenges
<1>4. ASSUME NEW q \in Peers, NEW c, NEW n, NEW acc, NEW cc, NEW bcc, Sound(ss[q], c, n, acc)
      PROVE  Sound(ClearChallenges(ss)[q], cc, n, bcc)
  <2> DEFINE s == ss[q]
  <2>1. s \in Session /\ Sound(s, c, n, acc) BY <1>4
  <2> HIDE DEF s
  <2>2. Sound([s EXCEPT !.pair = NoPair], cc, n, bcc) BY <2>1, SoundWithoutChallenge
  <2> QED BY <1>1, <2>2 DEF s
<1>5. ASSUME NEW q \in Peers
      PROVE  /\ ClearChallenges(ss)[q].pair = NoPair
             /\ ClearChallenges(ss)[q].secure = ss[q].secure
  <2> DEFINE s == ss[q]
             t == [s EXCEPT !.pair = NoPair]
  <2>1. s \in Session OBVIOUS
  <2> HIDE DEF s
  <2>2. t.pair = NoPair /\ t.secure = s.secure BY <2>1 DEF Session
  <2> HIDE DEF t
  <2>3. ClearChallenges(ss)[q] = t BY <1>1 DEF t, s
  <2> QED BY <2>2, <2>3 DEF s
<1> QED BY <1>3, <1>4, <1>5

LEMMA RotatedType ==
  ASSUME Ind
  PROVE  /\ RotatedCode \in Codes /\ RotatedCode.gen = code.gen + 1
         /\ RotatedCode.expires \in Nat
<1>1. CodeTTL \in Nat BY ConstantsAssumption DEF ConstantsAssumption
<1> QED BY <1>1, Types DEF RotatedCode, Codes

\* An accepted proof spends its code: the new one is later than every spent
\* code, and no challenge for a spent salt is left.
LEMMA ProofAcceptedGood ==
  ASSUME Ind, NEW p \in Peers, NEW key, NEW dev \in Devices, NEW pubkey \in Devices \cup {NoDevice},
         NEW proof \in Proofs, ProofAccepted(p, key, dev, pubkey, proof)
  PROVE  Good
<1> DEFINE w(ss) == RefreshWindow(Requested(ss[p], dev, pubkey))
           u(ss) == [w(ss) EXCEPT !.attempts = 0, !.verified = TRUE, !.vouched = TRUE]
<1>1. PICK ss \in Opened(p) :
        /\ ProofHolds(w(ss), proof)
        /\ sessions' = ClearChallenges([ss EXCEPT ![p] = u(ss)])
        /\ Flush([ss EXCEPT ![p] = u(ss)], queue, {})
  BY DEF ProofAccepted
<1> DEFINE a == [peer |-> p, salt |-> proof.salt, code |-> proof.code]
           r == Requested(ss[p], dev, pubkey)
<1>2. /\ ss \in [Peers -> Session]
      /\ \A q \in Peers : /\ Sound(ss[q], code, issued, accepted)
                          /\ ss[q].secure = sessions[q].secure
  BY OpenedFacts
<1>3. r \in Session /\ Sound(r, code, issued, accepted) /\ r.secure = ss[p].secure
  BY <1>2, RequestedType, RequestedSound, RequestedFields
<1>4. w(ss) \in Session /\ Sound(w(ss), code, issued, accepted) /\ w(ss).secure = ss[p].secure
  <2>1. now \in Nat BY Types
  <2> HIDE DEF r
  <2>2. RefreshWindow(r) \in Session /\ Sound(RefreshWindow(r), code, issued, accepted)
    BY <1>3, <2>1, RefreshType, RefreshSound
  <2>3. RefreshWindow(r).secure = r.secure BY <1>3 DEF RefreshWindow, Session
  <2> QED BY <1>3, <2>2, <2>3 DEF r
<1> HIDE DEF r
<1> DEFINE t == w(ss)
<1>5. /\ t \in Session /\ Sound(t, code, issued, accepted) /\ t.secure = ss[p].secure
      /\ ProofHolds(t, proof)
  BY <1>1, <1>4
<1> DEFINE v == [t EXCEPT !.attempts = 0, !.verified = TRUE, !.vouched = TRUE]
<1>6. /\ sessions' = ClearChallenges([ss EXCEPT ![p] = v])
      /\ Flush([ss EXCEPT ![p] = v], queue, {})
  BY <1>1
<1> HIDE DEF t, w, u
<1>7. 0 \in 0..AttemptLimit BY ConstantsAssumption DEF ConstantsAssumption
<1>8. /\ v \in Session /\ v.secure = t.secure /\ v.perm = t.perm /\ v.kex = t.kex
      /\ v.pair = t.pair /\ v.vouched
  BY <1>5, <1>7 DEF Session
<1> HIDE DEF v
<1>9. Sound(v, code, issued, accepted) BY <1>5, <1>8 DEF Sound
<1> DEFINE vs == [ss EXCEPT ![p] = v]
<1>10. /\ vs \in [Peers -> Session]
       /\ \A q \in Peers : /\ Sound(vs[q], code, issued, accepted)
                           /\ vs[q].secure = sessions[q].secure
  BY <1>2, <1>5, <1>8, <1>9
<1>11. sessions' = ClearChallenges(vs) /\ Flush(vs, queue, {})
  BY <1>6
<1> HIDE DEF vs
<1>12. /\ host' = host /\ code' = RotatedCode /\ store' = store /\ now' = now
       /\ accepted' = accepted \cup {a} /\ injected' = {} /\ issued' = issued
  BY DEF ProofAccepted
<1>13. dialogs' \subseteq Peers /\ prompted' \subseteq Peers
  BY DEF ProofAccepted, OpensDialog, Ind, TypeOK
<1>14. /\ sessions' \in [Peers -> Session]
       /\ \A q \in Peers : /\ Sound(sessions'[q], code', issued', accepted')
                           /\ sessions'[q].secure = sessions[q].secure
  BY <1>10, <1>11, <1>12, ClearedFacts
<1>15. \A m \in queue : m.kind = "Video" => /\ vs[m.to].secure # NoKeys
                                             /\ sessions'[m.to].secure # NoKeys
  BY <1>10, <1>14, VideoKept DEF KeyStep
<1>16. queue' \subseteq queue /\ wire' \subseteq Datagram /\ PortsSafe
  <2>1. {} \in SUBSET Datagram /\ \A m \in {} : m.kind # "Video"
    OBVIOUS
  <2>2. queue \in SUBSET Packets BY Types
  <2>3. \A m \in queue : m.kind = "Video" => vs[m.to].secure # NoKeys BY <1>15
  <2>4. /\ queue' \subseteq queue /\ wire' \subseteq Datagram
        /\ \A m \in wire' : m.kind = "Video" => m.key # NoKeys
    BY <1>10, <1>11, <2>1, <2>2, <2>3, FlushFacts
  <2> QED BY <1>12, <2>4 DEF PortsSafe
<1>17. a.salt = t.pair.salt /\ a.code = code.gen /\ t.pair # NoPair
  BY <1>5 DEF ProofHolds
<1>18. a \in Accepted /\ a.salt <= issued.salt /\ \A b \in accepted : b.salt # a.salt
  <2>1. a.salt \in Nat /\ a.salt <= issued.salt /\ \A b \in accepted : b.salt # a.salt
    BY <1>5, <1>17 DEF Sound, Session
  <2>2. a.code \in Nat BY <1>17, Types
  <2>3. a \in Accepted
    <3>1. a.salt = proof.salt /\ a.code = proof.code
      OBVIOUS
    <3> QED BY <2>1, <2>2, <3>1 DEF Accepted
  <2> QED BY <2>1, <2>3
<1> HIDE DEF a
<1>19. \A b \in accepted : /\ b \in Accepted
                           /\ b.code \in Nat /\ b.code < code.gen /\ b.salt <= issued.salt
  BY Types DEF Ind, SpentIsPast, Accepted
<1>20. SpentIsPast'
  <2>1. code'.gen = code.gen + 1 /\ code.gen \in Nat BY <1>12, RotatedType, Types
  <2>2. \A b \in accepted' : b.code \in Nat /\ b.code <= code.gen /\ b.salt <= issued.salt
    BY <1>12, <1>17, <1>18, <1>19, <2>1
  <2>3. \A b \in accepted' : b.code < code'.gen BY <2>1, <2>2
  <2> QED BY <1>12, <2>2, <2>3 DEF SpentIsPast
<1>21. OneTimeCode'
  <2>1. code.gen \in Nat BY Types
  <2>2. \A b \in accepted : b.code # a.code /\ b.salt # a.salt
    BY <1>17, <1>18, <1>19, <2>1
  <2> QED BY <1>12, <2>2 DEF OneTimeCode, Ind
<1>22. TypeOK'
  <2>1. code' \in Codes BY <1>12, RotatedType
  <2>2. accepted' \subseteq Accepted BY <1>12, <1>18, Types
  <2>3. queue' \subseteq Packets BY <1>16, Types
  <2> QED BY <1>12, <1>13, <1>14, <1>16, <2>1, <2>2, <2>3
       DEF Ind, TypeOK, Codes, Accepted, Packets
<1>23. AllSound' BY <1>14 DEF AllSound
<1>24. VideoForSecure' BY <1>15, <1>16 DEF VideoForSecure
<1>25. KeysAdvance BY <1>14 DEF KeysAdvance, KeyStep
<1> QED BY <1>16, <1>20, <1>21, <1>22, <1>23, <1>24, <1>25 DEF Good, Ind

(***************************************************************************)
(* Steps that flush nothing.                                               *)
(***************************************************************************)
\* The rest of a step that leaves code, queue and proofs alone and sends
\* nothing but direct, plaintext answers.
Quiet ==
  /\ code' = code /\ queue' = queue /\ accepted' = accepted /\ injected' = {}
  /\ host' \in {"running", "attempt limit", "key confirm", "system error"}
  /\ store' \in [Devices -> {"none", "allow", "deny"}]
  /\ issued' \in Counters /\ issued'.salt >= issued.salt
  /\ now' \in Nat
  /\ dialogs' \subseteq Peers /\ prompted' \subseteq Peers
  /\ wire' \subseteq Datagram /\ \A m \in wire' : m.kind # "Video"

LEMMA GoodQuiet ==
  ASSUME Ind, Quiet, sessions' \in [Peers -> Session],
         \A q \in Peers : Sound(sessions'[q], code, issued', accepted),
         \A q \in Peers : KeyStep(sessions[q].secure, sessions'[q].secure)
  PROVE  Good
<1>1. \A m \in queue : m.kind = "Video" => sessions'[m.to].secure # NoKeys
  BY VideoKept
<1>2. VideoForSecure' BY <1>1 DEF VideoForSecure, Quiet
<1>3. RestType' BY Types DEF RestType, Quiet
<1>4. AllSound' /\ KeysAdvance BY DEF AllSound, KeysAdvance, Quiet
<1>5. PortsSafe BY DEF PortsSafe, Quiet
<1>6. code'.gen >= code.gen /\ queue' \in SUBSET Packets
  <2>1. code' = code /\ queue' = queue BY DEF Quiet
  <2>2. code.gen \in Nat /\ code.gen >= code.gen BY Types
  <2> QED BY <2>1, <2>2, Types
<1> QED BY <1>2, <1>3, <1>4, <1>5, <1>6, GoodStep DEF Quiet

\* What Quiet asks of the variables a step keeps.
LEMMA Kept ==
  ASSUME Ind
  PROVE  /\ host \in {"running", "attempt limit", "key confirm", "system error"}
         /\ store \in [Devices -> {"none", "allow", "deny"}]
         /\ issued \in Counters /\ issued.salt >= issued.salt
         /\ issued.offer >= issued.offer
         /\ now \in Nat
         /\ dialogs \subseteq Peers /\ prompted \subseteq Peers
         /\ {} \subseteq Datagram /\ \A m \in {} : m.kind # "Video"
<1>1. issued.salt \in Nat /\ issued.offer \in Nat BY Types
<1>2. issued.salt >= issued.salt /\ issued.offer >= issued.offer BY <1>1
<1>3. /\ host \in {"running", "attempt limit", "key confirm", "system error"}
      /\ dialogs \subseteq Peers /\ prompted \subseteq Peers
  BY DEF Ind, TypeOK
<1> QED BY <1>2, <1>3, Types

LEMMA SessionsKept ==
  ASSUME Ind, Quiet, sessions' = sessions, issued' = issued
  PROVE  Good
<1>1. \A q \in Peers : /\ Sound(sessions'[q], code, issued', accepted)
                       /\ KeyStep(sessions[q].secure, sessions'[q].secure)
  BY DEF Ind, AllSound, KeyStep
<1> QED BY <1>1, Types, GoodQuiet

LEMMA ExitGood ==
  ASSUME Ind, NEW reason \in {"attempt limit", "key confirm", "system error"}, Exit(reason)
  PROVE  Good
<1>1. Quiet /\ sessions' = sessions /\ issued' = issued
  BY Kept DEF Exit, Quiet
<1> QED BY <1>1, SessionsKept

LEMMA TickGood ==
  ASSUME Ind, Tick
  PROVE  Good
<1>1. Quiet /\ sessions' = sessions /\ issued' = issued
  <2>1. now' \in Nat BY Types DEF Tick
  <2> QED BY <2>1, Kept DEF Tick, Quiet
<1> QED BY <1>1, SessionsKept

LEMMA ForgetGood ==
  ASSUME Ind, NEW ds, Forget(ds)
  PROVE  Good
<1>1. Quiet /\ sessions' = sessions /\ issued' = issued
  <2>1. store' \in [Devices -> {"none", "allow", "deny"}] BY Types DEF Forget
  <2> QED BY <2>1, Kept DEF Forget, Quiet
<1> QED BY <1>1, SessionsKept

LEMMA SetPermissionGood ==
  ASSUME Ind, NEW d \in Devices, NEW permission \in {"allow", "deny"}, NEW exactCase,
         SetPermission(d, permission, exactCase)
  PROVE  Good
<1>1. Quiet /\ issued' = issued
  <2>1. store' \in [Devices -> {"none", "allow", "deny"}] BY Types DEF SetPermission
  <2> QED BY <2>1, Kept DEF SetPermission, Quiet
<1>2. ASSUME NEW q \in Peers
      PROVE  /\ sessions'[q] \in Session
             /\ Sound(sessions'[q], code, issued', accepted)
             /\ KeyStep(sessions[q].secure, sessions'[q].secure)
  <2> DEFINE s == sessions[q]
             t == [s EXCEPT !.input = permission]
  <2>1. s \in Session /\ Sound(s, code, issued, accepted)
    BY Types DEF Ind, AllSound
  <2>2. sessions'[q] \in {s, t} BY DEF SetPermission
  <2> HIDE DEF s
  <2>3. /\ t \in Session /\ t.secure = s.secure /\ t.perm = s.perm /\ t.kex = s.kex
        /\ t.pair = s.pair /\ t.verified = s.verified /\ t.vouched = s.vouched
    BY <2>1 DEF Session
  <2> HIDE DEF t
  <2>4. Sound(t, code, issued, accepted) BY <2>1, <2>3, SameSound
  <2>5. KeyStep(s.secure, s.secure) /\ KeyStep(s.secure, t.secure) BY <2>3 DEF KeyStep
  <2> QED BY <1>1, <2>1, <2>2, <2>3, <2>4, <2>5 DEF s
<1>3. sessions' \in [Peers -> Session] BY <1>2 DEF SetPermission
<1> QED BY <1>1, <1>2, <1>3, GoodQuiet

\* A decision about p: its session becomes s, the others are those of ss.
LEMMA DecisionGood ==
  ASSUME Ind, Quiet, issued'.offer >= issued.offer,
         NEW p \in Peers, NEW ss \in Ensured(p), NEW s \in Session,
         sessions' = [ss EXCEPT ![p] = s],
         Sound(s, code, issued', accepted), s.secure = ss[p].secure
  PROVE  Good
<1>1. /\ ss \in [Peers -> Session]
      /\ \A q \in Peers : /\ Sound(ss[q], code, issued, accepted)
                          /\ ss[q].secure = sessions[q].secure
  BY EnsuredFacts
<1>2. issued \in Counters /\ issued' \in Counters /\ issued.salt <= issued'.salt
  BY Types DEF Quiet, Counters
<1>3. \A q \in Peers : Sound(ss[q], code, issued', accepted)
  BY <1>1, <1>2, SoundLater, Types DEF Counters
<1>4. sessions' \in [Peers -> Session] BY <1>1
<1>5. \A q \in Peers : /\ Sound(sessions'[q], code, issued', accepted)
                       /\ KeyStep(sessions[q].secure, sessions'[q].secure)
  BY <1>1, <1>3 DEF KeyStep
<1> QED BY <1>4, <1>5, GoodQuiet

LEMMA RejectGood ==
  ASSUME Ind, NEW p \in Peers, Reject(p), dialogs' \subseteq Peers
  PROVE  Good
<1>1. PICK ss \in Ensured(p) : sessions' = [ss EXCEPT ![p].perm = "Rejected"]
  BY DEF Reject
<1> DEFINE t == ss[p]
           s == [t EXCEPT !.perm = "Rejected"]
<1>2. t \in Session /\ Sound(t, code, issued, accepted)
  BY <1>1, EnsuredFacts
<1> HIDE DEF t
<1>3. /\ s \in Session /\ s.secure = t.secure /\ s.perm = "Rejected" /\ s.kex = t.kex
      /\ s.pair = t.pair /\ s.verified = t.verified /\ s.vouched = t.vouched
  BY <1>2 DEF Session
<1> HIDE DEF s
<1>4. Sound(s, code, issued, accepted) BY <1>2, <1>3 DEF Sound
<1>5. Quiet /\ issued' = issued
  <2>1. wire' \subseteq Datagram /\ \A m \in wire' : m.kind # "Video"
    BY DEF Reject, Plain, Packet, Datagram, PacketKinds
  <2> QED BY <2>1, Kept DEF Reject, Quiet
<1>6. sessions' = [ss EXCEPT ![p] = s] BY <1>1 DEF s, t
<1>7. issued'.offer >= issued.offer BY <1>5, Types
<1>8. Sound(s, code, issued', accepted) /\ s.secure = ss[p].secure BY <1>3, <1>4, <1>5 DEF t
<1> QED BY <1>3, <1>5, <1>6, <1>7, <1>8, DecisionGood

\* The operator approves a session only once its proof was verified, and a
\* verified session has been vouched for.
LEMMA ApproveGood ==
  ASSUME Ind, NEW p \in Peers, MayApprove(p), Approve(p), dialogs' \subseteq Peers
  PROVE  Good
<1> DEFINE t == sessions[p]
           id == IF t.key = NoDevice THEN AddrId(p) ELSE IdOf(t.key)
           s == [t EXCEPT !.perm = "Approved", !.devId = id, !.input = "allow",
                          !.kex = OfferKex]
<1>1. t \in Session /\ Sound(t, code, issued, accepted) /\ t.verified
  BY Types DEF Ind, AllSound, MayApprove
<1>2. sessions' = [sessions EXCEPT ![p] = s] /\ DrawOffer
  BY DEF Approve
<1>3. store' \in [Devices -> {"none", "allow", "deny"}]
  <2>1. t.key \in Devices \cup {NoDevice} BY <1>1 DEF Session
  <2>2. store' = store \/ \E d \in Devices : store' = [store EXCEPT ![d] = "allow"]
    BY <2>1 DEF Approve
  <2> QED BY <2>2, Types
<1>4. id \in DeviceIds
  <2>1. t.key \in Devices \cup {NoDevice} BY <1>1 DEF Session
  <2> QED BY <2>1 DEF DeviceIds
<1> HIDE DEF t, id
<1>5. /\ s \in Session /\ s.secure = t.secure /\ s.perm = "Approved" /\ s.kex = OfferKex
      /\ s.pair = t.pair /\ s.vouched = t.vouched
  BY <1>1, <1>2, <1>4, DrawnOffer DEF Session
<1> HIDE DEF s
<1>6. Sound(s, code, issued', accepted)
  <2>1. Policy = "RequireApproval" => s.vouched BY <1>1, <1>5 DEF Sound
  <2> QED BY <1>1, <1>2, <1>5, <2>1, OfferedSound
<1>7. Quiet
  <2>1. /\ issued' \in Counters /\ issued'.salt >= issued.salt /\ NextOffer \in Nat
    BY <1>2, DrawnOffer, Types
  <2>2. wire' \subseteq Datagram /\ \A m \in wire' : m.kind # "Video"
    BY <2>1 DEF Approve, Plain, Packet, Datagram, PacketKinds
  <2>3. /\ code' = code /\ queue' = queue /\ accepted' = accepted /\ injected' = {}
        /\ host' = host /\ now' = now /\ prompted' = prompted
    BY DEF Approve
  <2> QED BY <1>3, <2>1, <2>2, <2>3, Types DEF Quiet, Ind, TypeOK
<1>8. /\ issued' \in Counters /\ issued'.salt >= issued.salt /\ issued'.offer >= issued.offer
  BY <1>2, DrawnOffer, Types
<1>9. sessions' \in [Peers -> Session] BY <1>2, <1>5, Types
<1>10. ASSUME NEW q \in Peers
       PROVE  /\ Sound(sessions'[q], code, issued', accepted)
              /\ KeyStep(sessions[q].secure, sessions'[q].secure)
  <2>1. CASE q = p
    <3>1. sessions'[p] = s BY <1>2, Types
    <3> QED BY <1>5, <1>6, <2>1, <3>1 DEF KeyStep, t
  <2>2. CASE q # p
    <3>1. sessions'[q] = sessions[q] BY <1>2, <2>2, Types
    <3>2. Sound(sessions[q], code, issued, accepted) /\ sessions[q] \in Session
      BY Types DEF Ind, AllSound
    <3>3. issued \in Counters /\ issued.salt <= issued'.salt /\ issued.offer <= issued'.offer
      BY <1>8, Types DEF Counters
    <3>4. Sound(sessions[q], code, issued', accepted)
      BY <1>8, <3>2, <3>3, SoundLater
    <3> QED BY <3>1, <3>4 DEF KeyStep
  <2> QED BY <2>1, <2>2
<1> QED BY <1>7, <1>9, <1>10, GoodQuiet

LEMMA DialogAnsweredGood ==
  ASSUME Ind, NEW p \in Peers, NEW approves, DialogAnswered(p, approves)
  PROVE  Good
<1>1. dialogs' \subseteq Peers
  BY DEF DialogAnswered, Ind, TypeOK
<1>2. CASE IgnoreDialog
  <2>1. Quiet /\ sessions' = sessions /\ issued' = issued
    BY <1>1, <1>2, Kept DEF IgnoreDialog, Quiet
  <2> QED BY <2>1, SessionsKept
<1>3. CASE Reject(p) BY <1>1, <1>3, RejectGood
<1>4. CASE MayApprove(p) /\ Approve(p) BY <1>1, <1>4, ApproveGood
<1> QED BY <1>2, <1>3, <1>4 DEF DialogAnswered

LEMMA ConsoleGood ==
  ASSUME Ind, NEW p \in Peers, ConsoleApprove(p) \/ ConsoleReject(p)
  PROVE  Good
<1>1. dialogs' \subseteq Peers
  BY DEF ConsoleApprove, ConsoleReject, Ind, TypeOK
<1> QED BY <1>1, ApproveGood, RejectGood DEF ConsoleApprove, ConsoleReject

\* Beyond the attempt limit the host ends; below it the session takes a
\* fresh challenge for the code on display, which is a new one if it expired.
LEMMA IssuePairingCodeGood ==
  ASSUME Ind, NEW p \in Peers, NEW key, NEW dev \in Devices, NEW pubkey \in Devices \cup {NoDevice},
         IssuePairingCode(p, key, dev, pubkey)
  PROVE  Good
<1> DEFINE expired == now >= code.expires
           shown == IF expired THEN RotatedCode ELSE code
           salt == issued.salt + 1
           cleared(ss) == IF expired THEN ClearChallenges(ss) ELSE ss
           w(ss) == RefreshWindow(Requested(cleared(ss)[p], dev, pubkey))
           pair == [salt |-> salt, gen |-> shown.gen,
                    expires |-> Least(now + ChallengeTTL, shown.expires)]
           m == Plain(Packet(p, "PairingChallenge", salt))
<1>1. CASE Exit("attempt limit") BY <1>1, ExitGood
<1>2. CASE ~Exit("attempt limit")
  <2>1. PICK ss \in Opened(p) :
          /\ sessions' = [cleared(ss) EXCEPT ![p] = [w(ss) EXCEPT !.verified = FALSE, !.pair = pair]]
          /\ Flush(ss, queue, {m})
    BY <1>2 DEF IssuePairingCode
  <2>2. /\ host' = host /\ code' = shown /\ store' = store /\ now' = now
        /\ accepted' = accepted /\ dialogs' = dialogs /\ prompted' = prompted
        /\ injected' = {} /\ issued' = [issued EXCEPT !.salt = salt]
    BY <1>2 DEF IssuePairingCode
  <2>3. /\ shown \in Codes /\ shown.gen \in Nat \ {0} /\ shown.expires \in Nat
        /\ shown.gen >= code.gen
    BY RotatedType, Types
  <2>4. /\ salt \in Nat \ {0} /\ salt > issued.salt /\ issued' \in Counters
        /\ issued'.salt = salt /\ issued'.offer = issued.offer
    BY <2>2, Types DEF Counters
  <2>5. /\ pair \in [salt : Nat \ {0}, expires : Nat, gen : Nat]
        /\ pair.gen = shown.gen /\ pair.expires <= shown.expires /\ pair.salt = salt
    <3>1. ChallengeTTL \in Nat /\ now \in Nat
      BY Types, ConstantsAssumption DEF ConstantsAssumption
    <3>2. /\ Least(now + ChallengeTTL, shown.expires) \in Nat
          /\ Least(now + ChallengeTTL, shown.expires) <= shown.expires
      BY <2>3, <3>1 DEF Least
    <3> QED BY <2>3, <2>4, <3>2
  <2> DEFINE bs == cleared(ss)
  <2>6. /\ ss \in [Peers -> Session]
        /\ \A q \in Peers : /\ Sound(ss[q], code, issued, accepted)
                            /\ ss[q].secure = sessions[q].secure
    BY <2>1, OpenedFacts
  <2>7. /\ bs \in [Peers -> Session]
        /\ \A q \in Peers : /\ Sound(bs[q], shown, issued, accepted)
                            /\ bs[q].secure = sessions[q].secure
    <3>1. CASE expired
      <4>1. bs = ClearChallenges(ss) BY <3>1
      <4> QED BY <2>6, <4>1, ClearedFacts
    <3>2. CASE ~expired BY <2>6, <3>2
    <3> QED BY <3>1, <3>2
  <2> DEFINE t == w(ss)
  <2>8. t \in Session /\ Sound(t, shown, issued, accepted) /\ t.secure = sessions[p].secure
    <3> DEFINE b == bs[p]
               r == Requested(b, dev, pubkey)
    <3>1. b \in Session /\ Sound(b, shown, issued, accepted) /\ b.secure = sessions[p].secure
      BY <2>7
    <3> HIDE DEF b, shown
    <3>2. r \in Session /\ Sound(r, shown, issued, accepted) /\ r.secure = b.secure
      BY <3>1, RequestedType, RequestedSound, RequestedFields
    <3>3. t = RefreshWindow(r) BY DEF b
    <3> HIDE DEF r, t
    <3>4. now \in Nat BY Types
    <3>5. RefreshWindow(r) \in Session /\ Sound(RefreshWindow(r), shown, issued, accepted)
      BY <3>2, <3>4, RefreshType, RefreshSound
    <3>6. RefreshWindow(r).secure = r.secure BY <3>2 DEF RefreshWindow, Session
    <3> QED BY <3>1, <3>2, <3>3, <3>5, <3>6
  <2> DEFINE s == [t EXCEPT !.verified = FALSE, !.pair = pair]
  <2>9. sessions' = [bs EXCEPT ![p] = s] /\ Flush(ss, queue, {m})
    BY <2>1
  <2>10. m \in Datagram /\ m.kind # "Video"
    BY <2>4 DEF Plain, Packet, Datagram, PacketKinds
  <2> HIDE DEF bs, t, w, cleared, shown, pair, salt, m
  <2>11. /\ s \in Session /\ s.secure = t.secure /\ s.perm = t.perm /\ s.kex = t.kex
         /\ s.pair = pair /\ s.verified = FALSE /\ s.vouched = t.vouched
    BY <2>5, <2>8 DEF Session
  <2> HIDE DEF s
  <2>12. /\ issued \in Counters /\ issued' \in Counters
         /\ issued.salt <= issued'.salt /\ issued.offer <= issued'.offer
    BY <2>4, Types DEF Counters
  <2>13. \A q \in Peers : Sound(bs[q], shown, issued', accepted)
    BY <2>7, <2>12, SoundLater
  <2>14. Sound(s, shown, issued', accepted)
    <3>1. Sound(t, shown, issued', accepted) BY <2>8, <2>12, SoundLater
    <3>2. \A a \in accepted : a.salt # s.pair.salt
      BY <2>4, <2>5, <2>11, Types DEF Ind, SpentIsPast, Accepted
    <3>3. s.pair.salt <= issued'.salt BY <2>4, <2>5, <2>11
    <3> QED BY <2>5, <2>11, <3>1, <3>2, <3>3 DEF Sound
  <2>15. /\ sessions' \in [Peers -> Session]
         /\ \A q \in Peers : /\ Sound(sessions'[q], shown, issued', accepted)
                             /\ sessions'[q].secure = sessions[q].secure
    BY <2>7, <2>8, <2>9, <2>11, <2>13, <2>14
  <2>16. /\ \A q \in queue : q.kind = "Video" => ss[q.to].secure # NoKeys
         /\ \A q \in queue : q.kind = "Video" => sessions'[q.to].secure # NoKeys
    BY <2>6, <2>15, VideoKept DEF KeyStep
  <2>17. /\ queue' \subseteq queue /\ wire' \subseteq Datagram
         /\ \A d \in wire' : d.kind = "Video" => d.key # NoKeys
    <3>1. {m} \in SUBSET Datagram /\ \A d \in {m} : d.kind # "Video" BY <2>10
    <3>2. queue \in SUBSET Packets BY Types
    <3> QED BY <2>6, <2>9, <2>16, <3>1, <3>2, FlushFacts
  <2>18. RestType'
    BY <2>2, <2>3, <2>12, Kept DEF RestType
  <2>19. AllSound' /\ KeysAdvance
    BY <2>2, <2>15 DEF AllSound, KeysAdvance, KeyStep
  <2>20. VideoForSecure' BY <2>16, <2>17 DEF VideoForSecure
  <2>21. PortsSafe BY <2>2, <2>17 DEF PortsSafe
  <2>22. code'.gen >= code.gen /\ issued'.salt >= issued.salt
    BY <2>2, <2>3, <2>4, Types
  <2>23. queue' \in SUBSET Packets BY <2>17, Types
  <2> QED BY <2>2, <2>15, <2>17, <2>18, <2>19, <2>20, <2>21, <2>22, <2>23, GoodStep
<1> QED BY <1>1, <1>2

(***************************************************************************)
(* Polls and frames without a packet of a client.                          *)
(***************************************************************************)
LEMMA FlushGood ==
  ASSUME Ind, NEW new \in SUBSET Packets,
         \A m \in new : m.kind = "Video" => sessions[m.to].secure # NoKeys,
         Flush(sessions, queue \cup new, {}), injected' = {},
         UNCHANGED <<host, sessions, code, store, issued, now, dialogs, prompted, accepted>>
  PROVE  Good
<1> DEFINE q == queue \cup new
<1>1. q \in SUBSET Packets /\ \A m \in q : m.kind = "Video" => sessions[m.to].secure # NoKeys
  BY Types DEF Ind, VideoForSecure
<1>2. Flush(sessions, q, {})
  OBVIOUS
<1> HIDE DEF q
<1>3. {} \in SUBSET Datagram /\ \A m \in {} : m.kind # "Video"
  OBVIOUS
<1>4. /\ queue' \subseteq q /\ wire' \subseteq Datagram
      /\ \A m \in wire' : m.kind = "Video" => m.key # NoKeys
  BY <1>1, <1>2, <1>3, Types, FlushFacts
<1>5. /\ host' = host /\ sessions' = sessions /\ code' = code /\ store' = store
      /\ issued' = issued /\ now' = now /\ dialogs' = dialogs /\ prompted' = prompted
      /\ accepted' = accepted /\ injected' = {}
  OBVIOUS
<1>6. RestType'
  <2>1. code \in Codes BY Types
  <2> QED BY <1>5, <2>1, Kept DEF RestType
<1>7. AllSound' /\ KeysAdvance BY <1>5 DEF Ind, AllSound, KeysAdvance, KeyStep
<1>8. VideoForSecure' BY <1>1, <1>4, <1>5 DEF VideoForSecure
<1>9. PortsSafe BY <1>4, <1>5 DEF PortsSafe
<1>10. code'.gen >= code.gen /\ issued'.salt >= issued.salt
  <2>1. code.gen \in Nat /\ code.gen >= code.gen BY Types
  <2> QED BY <1>5, <2>1, Kept
<1>11. sessions' \in [Peers -> Session] /\ queue' \in SUBSET Packets
  BY <1>1, <1>4, <1>5, Types
<1> QED BY <1>4, <1>5, <1>6, <1>7, <1>8, <1>9, <1>10, <1>11, GoodStep

LEMMA PollIdleGood ==
  ASSUME Ind, PollIdle
  PROVE  Good
<1>1. Flush(sessions, queue \cup {}, {}) BY DEF PollIdle
<1> QED BY <1>1, FlushGood DEF PollIdle

LEMMA VideoFrameGood ==
  ASSUME Ind, VideoFrame
  PROVE  Good
<1> DEFINE new == {Packet(p, "Video", 0) : p \in SecurePeers}
<1>1. new \in SUBSET Packets
  BY DEF SecurePeers, Packet, Packets, PacketKinds
<1>2. \A m \in new : sessions[m.to].secure # NoKeys
  BY DEF SecurePeers, Packet, IsSecure
<1>3. Flush(sessions, queue \cup new, {}) BY DEF VideoFrame
<1> HIDE DEF new
<1> QED BY <1>1, <1>2, <1>3, FlushGood DEF VideoFrame

(***************************************************************************)
(* Steps and behaviours.                                                   *)
(***************************************************************************)
LEMMA NoSessionsSound ==
  ASSUME NEW c, NEW n \in Counters, NEW acc, now \in Nat
  PROVE  /\ [q \in Peers |-> NoSession] \in [Peers -> Session]
         /\ \A q \in Peers : Sound([r \in Peers |-> NoSession][q], c, n, acc)
BY NewSessionType, NewSessionSound

LEMMA InitInd == Init => Ind
<1> SUFFICES ASSUME Init PROVE Ind
  OBVIOUS
<1>1. now \in Nat /\ issued \in Counters BY DEF Init, Counters
<1>2. sessions \in [Peers -> Session] /\ AllSound
  BY <1>1, NoSessionsSound DEF Init, AllSound
<1>3. code \in Codes /\ host = "running"
  BY ConstantsAssumption DEF ConstantsAssumption, Init, Codes
<1>4. store \in [Devices -> {"none", "allow", "deny"}] BY DEF Init
<1>5. queue = {} /\ wire = {} /\ injected = {} /\ dialogs = {} /\ prompted = {} /\ accepted = {}
  BY DEF Init
<1>6. TypeOK
  BY <1>1, <1>2, <1>3, <1>4, <1>5 DEF TypeOK, Codes, Counters
<1> QED BY <1>2, <1>5, <1>6 DEF Ind, VideoForSecure, SpentIsPast, OneTimeCode

\* A restart empties the registry and the queue and shows a later code than
\* any proof was accepted for.
LEMMA RestartInd ==
  ASSUME Ind, Restart
  PROVE  Ind'
<1>1. /\ host' = "running" /\ sessions' = [p \in Peers |-> NoSession] /\ code' = RotatedCode
      /\ queue' = {} /\ wire' = {} /\ injected' = {} /\ dialogs' = {} /\ prompted' = {}
      /\ store' = store /\ issued' = issued /\ now' = now /\ accepted' = accepted
  BY DEF Restart
<1>2. sessions' \in [Peers -> Session] /\ AllSound'
  BY <1>1, Types, NoSessionsSound DEF AllSound
<1>3. code' \in Codes /\ code'.gen = code.gen + 1 BY <1>1, RotatedType
<1>4. TypeOK'
  BY <1>1, <1>2, <1>3, Types DEF TypeOK, Codes, Counters, Accepted
<1>5. SpentIsPast'
  <2>1. \A a \in accepted : a.code \in Nat /\ a.code < code.gen /\ a.salt <= issued.salt
    BY Types DEF Ind, SpentIsPast, Accepted
  <2>2. code.gen \in Nat BY Types
  <2>3. \A a \in accepted : a.code < code.gen + 1 BY <2>1, <2>2
  <2> QED BY <1>1, <1>3, <2>1, <2>3 DEF SpentIsPast
<1> QED BY <1>1, <1>2, <1>4, <1>5 DEF Ind, VideoForSecure, OneTimeCode

LEMMA PacketStepGood ==
  ASSUME Ind, NEW p \in Peers, PacketStep(p)
  PROVE  Good
<1> PICK key \in SealsOf(p) :
      \/ PairingStep(p, key) \/ AuthStep(p, key) \/ ConfirmStep(p, key)
      \/ \E kind \in Kinds : Unapproved(p, key, kind)
      \/ ReceiveInput(p, key) \/ ReceivePing(p, key) \/ ReceiveConfig(p, key)
  BY DEF PacketStep
<1>1. CASE PairingStep(p, key)
  <2>1. PICK dev \in Devices, withKey \in BOOLEAN :
          LET pubkey == IF withKey THEN dev ELSE NoDevice
          IN \/ withKey /\ ChallengeTrusted(p, key, dev)
             \/ IssuePairingCode(p, key, dev, pubkey)
             \/ AutoApprovePairing(p, key, dev, pubkey)
             \/ \E proof \in Proofs : \/ ProofAccepted(p, key, dev, pubkey, proof)
                                      \/ ProofRefused(p, key, dev, pubkey, proof)
    BY <1>1 DEF PairingStep
  <2> DEFINE pubkey == IF withKey THEN dev ELSE NoDevice
  <2>2. pubkey \in Devices \cup {NoDevice} OBVIOUS
  <2> HIDE DEF pubkey
  <2> QED BY <2>1, <2>2, ChallengeTrustedGood, IssuePairingCodeGood, AutoApprovePairingGood,
             ProofAcceptedGood, ProofRefusedGood DEF pubkey
<1>2. CASE AuthStep(p, key)
  BY <1>2, AuthAcceptedGood, AuthRefusedGood DEF AuthStep
<1>3. CASE ConfirmStep(p, key)
  BY <1>3, KeyConfirmedGood, ExitGood DEF ConfirmStep, KeyConfirmFails
<1>4. CASE \E kind \in Kinds : Unapproved(p, key, kind)
  BY <1>4, UnapprovedGood
<1>5. CASE ReceiveInput(p, key) \/ ReceivePing(p, key) \/ ReceiveConfig(p, key)
  BY <1>5, ReceiveInputGood, ReceivePingGood, ReceiveConfigGood
<1> QED BY <1>1, <1>2, <1>3, <1>4, <1>5

\* Every step but a restart is good.
LEMMA NextGood ==
  ASSUME Ind, Next, ~Restart
  PROVE  Good
<1>1. CASE \E p \in Peers : PacketStep(p) BY <1>1, PacketStepGood
<1>2. CASE PollIdle \/ VideoFrame BY <1>2, PollIdleGood, VideoFrameGood
<1>3. CASE OperatorStep
  BY <1>3, ConsoleGood, DialogAnsweredGood, ForgetGood, SetPermissionGood DEF OperatorStep
<1>4. CASE SystemError BY <1>4, ExitGood DEF SystemError
<1>5. CASE Tick BY <1>5, TickGood
<1> QED BY <1>1, <1>2, <1>3, <1>4, <1>5 DEF Next, HostStep

LEMMA StepInd == Ind /\ [Next]_vars => Ind'
<1> SUFFICES ASSUME Ind, [Next]_vars PROVE Ind'
  OBVIOUS
<1>1. CASE Restart BY <1>1, RestartInd
<1>2. CASE Next /\ ~Restart BY <1>2, NextGood DEF Good
<1>3. CASE UNCHANGED vars
  BY <1>3 DEF vars, Ind, TypeOK, AllSound, VideoForSecure, SpentIsPast, OneTimeCode
<1> QED BY <1>1, <1>2, <1>3

\* Ind is an invariant of every behaviour of the host.
THEOREM Invariance == Spec => []Ind
BY InitInd, StepInd, PTL DEF Spec

\* Every variable keeps its type for all endpoints, devices, limits and
\* times: in particular no interleaving drives a session's attempt counter
\* past MAX_PAIRING_CODE_ATTEMPTS (backend.rs record_pairing_code_attempt).
THEOREM TypeCorrect == Spec => []TypeOK
<1>1. Ind => TypeOK BY DEF Ind
<1> QED BY <1>1, Invariance, PTL

\* A displayed pairing code, and a salt, let at most one request through,
\* however many endpoints race and however long proofs are delayed.
THEOREM CodesAreOneTime == Spec => []OneTimeCode
<1>1. Ind => OneTimeCode BY DEF Ind
<1> QED BY <1>1, Invariance, PTL

\* Every pending pairing challenge is for the code on display and expires no
\* later than it, after any rotation.
THEOREM ChallengesAreCurrent == Spec => []ChallengesMatchCode
<1>1. Ind => ChallengesMatchCode BY DEF Ind, AllSound, Sound, ChallengesMatchCode
<1> QED BY <1>1, Invariance, PTL

\* No session is approved, or secure, without a code proof or a signature
\* accepted since it was created.
THEOREM ApprovalIsVouched == Spec => []ApprovedWasVouched
<1>1. Ind => ApprovedWasVouched BY DEF Ind, AllSound, Sound, ApprovedWasVouched, IsSecure
<1> QED BY <1>1, Invariance, PTL

\* Video leaves the host sealed: what waits in the queue is for sessions
\* that are secure, and no step takes a session's key away before the flush.
THEOREM MediaIsSealed == Spec => MediaSealed
<1>1. Ind /\ [Next]_vars =>
        [\A m \in wire' : m.kind = "Video" => m.key # NoKeys]_vars
  <2> SUFFICES ASSUME Ind, Next
               PROVE  \A m \in wire' : m.kind = "Video" => m.key # NoKeys
    OBVIOUS
  <2>1. CASE Restart BY <2>1 DEF Restart
  <2>2. CASE ~Restart BY <2>2, NextGood DEF Good, PortsSafe
  <2> QED BY <2>1, <2>2
<1> QED BY <1>1, Invariance, PTL DEF Spec, MediaSealed

\* Under RequireApproval no input that arrived in plaintext is injected.
THEOREM InputIsEncrypted == Spec => EncryptedInputOnly
<1>1. Ind /\ [Next]_vars =>
        [Policy = "RequireApproval" => \A i \in injected' : i.key # NoKeys]_vars
  <2> SUFFICES ASSUME Ind, Next, Policy = "RequireApproval"
               PROVE  \A i \in injected' : i.key # NoKeys
    OBVIOUS
  <2>1. CASE Restart BY <2>1 DEF Restart
  <2>2. CASE ~Restart BY <2>2, NextGood DEF Good, PortsSafe
  <2> QED BY <2>1, <2>2
<1> QED BY <1>1, Invariance, PTL DEF Spec, EncryptedInputOnly

\* While the process lives, a session's key only ever gives way to one of a
\* later offer.
THEOREM KeysOnlyAdvance == Spec => SecureKeyAdvances
<1>1. Ind /\ [Next]_vars =>
        [\A p \in Peers : IsSecure(p) /\ ~Restart =>
           \/ sessions'[p].secure = sessions[p].secure
           \/ sessions'[p].secure.sid > sessions[p].secure.sid]_vars
  BY NextGood DEF Good, KeysAdvance, KeyStep, IsSecure
<1> QED BY <1>1, Invariance, PTL DEF Spec, SecureKeyAdvances

(***************************************************************************)
(* The cap on pending sessions.  A handler keeps or decides the sessions   *)
(* it touches, so all that can add a pending one is ensure_pending, which  *)
(* evicts another when the registry is full.                               *)
(***************************************************************************)
Capped(ss) == IsFiniteSet(PendingPeers(ss)) /\ Cardinality(PendingPeers(ss)) <= MaxPending

LEMMA FewerStayCapped ==
  ASSUME NEW ss, NEW ts, Capped(ss), PendingPeers(ts) \subseteq PendingPeers(ss)
  PROVE  Capped(ts)
<1>1. MaxPending \in Nat BY ConstantsAssumption DEF ConstantsAssumption
<1>2. PendingPeers(ts) \in SUBSET PendingPeers(ss) OBVIOUS
<1>3. /\ IsFiniteSet(PendingPeers(ts))
      /\ Cardinality(PendingPeers(ts)) <= Cardinality(PendingPeers(ss))
  BY <1>2, FS_Subset DEF Capped
<1>4. Cardinality(PendingPeers(ts)) \in Nat /\ Cardinality(PendingPeers(ss)) \in Nat
  BY <1>3, FS_CardinalityType DEF Capped
<1> QED BY <1>1, <1>3, <1>4 DEF Capped

\* ensure_pending stays below the cap: at the cap one pending session leaves
\* before the new one enters.
LEMMA EnsuredCapped ==
  ASSUME Ind, Capped(sessions), NEW p \in Peers, NEW ss \in Ensured(p)
  PROVE  Capped(ss)
<1>1. /\ sessions \in [Peers -> Session] /\ MaxPending \in Nat \ {0}
      /\ Cardinality(PendingPeers(sessions)) \in Nat
  BY Types, ConstantsAssumption, FS_CardinalityType DEF ConstantsAssumption, Capped
<1>2. NoSession.perm = "Absent" /\ NewSession.perm = "Pending"
  BY DEF NoSession, NewSession, SessionAs
<1>3. CASE sessions[p].perm # "Absent"
  BY <1>3 DEF Ensured
<1>4. CASE sessions[p].perm = "Absent" /\ ~AtCap(sessions)
  <2>1. ss = [sessions EXCEPT ![p] = NewSession] BY <1>4 DEF Ensured
  <2>2. PendingPeers(ss) = PendingPeers(sessions) \cup {p}
    BY <1>1, <1>2, <2>1 DEF PendingPeers
  <2>3. p \notin PendingPeers(sessions) BY <1>4 DEF PendingPeers
  <2>4. Cardinality(PendingPeers(sessions)) < MaxPending
    BY <1>1, <1>4 DEF AtCap
  <2>5. /\ IsFiniteSet(PendingPeers(ss))
        /\ Cardinality(PendingPeers(ss)) = Cardinality(PendingPeers(sessions)) + 1
    BY <2>2, <2>3, FS_AddElement DEF Capped
  <2> QED BY <1>1, <2>4, <2>5 DEF Capped
<1>5. CASE sessions[p].perm = "Absent" /\ AtCap(sessions)
  <2>1. PICK v \in OldestPending(sessions) :
               ss = [sessions EXCEPT ![v] = NoSession, ![p] = NewSession]
    BY <1>5 DEF Ensured
  <2>2. v \in PendingPeers(sessions) /\ v # p
    BY <1>5, <2>1 DEF OldestPending, PendingPeers
  <2> DEFINE rest == PendingPeers(sessions) \ {v}
  <2>3. PendingPeers(ss) = rest \cup {p}
    BY <1>1, <1>2, <2>1, <2>2 DEF PendingPeers
  <2>4. p \notin rest BY <1>5 DEF PendingPeers
  <2>5. IsFiniteSet(rest) /\ Cardinality(rest) = Cardinality(PendingPeers(sessions)) - 1
    BY <2>2, FS_RemoveElement DEF Capped
  <2> HIDE DEF rest
  <2>6. IsFiniteSet(PendingPeers(ss)) /\ Cardinality(PendingPeers(ss)) = Cardinality(rest) + 1
    BY <2>3, <2>4, <2>5, FS_AddElement
  <2> QED BY <1>1, <2>5, <2>6 DEF Capped
<1> QED BY <1>3, <1>4, <1>5

\* A handler leaves its sender's session pending only if it was.
LEMMA HandledCapped ==
  ASSUME Ind, Capped(sessions), NEW p \in Peers, NEW ss \in Opened(p), NEW ts,
         \A q \in Peers : ts[q].perm = "Pending" => ss[q].perm = "Pending"
  PROVE  Capped(ts)
<1>1. PICK es \in Ensured(p) : ss = [es EXCEPT ![p].lastSeen = now]
  BY DEF Opened
<1>2. es \in [Peers -> Session] BY EnsuredFacts
<1>3. \A q \in Peers : ss[q].perm = es[q].perm
  BY <1>1, <1>2 DEF Session
<1>4. PendingPeers(ts) \subseteq PendingPeers(es) BY <1>3 DEF PendingPeers
<1> QED BY <1>4, EnsuredCapped, FewerStayCapped

\* What a request writes is no decision.
LEMMA RequestedPerm ==
  ASSUME NEW s \in Session, NEW dev, NEW key
  PROVE  /\ Requested(s, dev, key).perm = s.perm
         /\ RefreshWindow(Requested(s, dev, key)).perm = s.perm
         /\ DOMAIN RefreshWindow(Requested(s, dev, key)) = DOMAIN s
BY DEF Requested, RefreshWindow, Session

LEMMA PairingCapped ==
  ASSUME Ind, Capped(sessions), NEW p \in Peers, NEW key, PairingStep(p, key)
  PROVE  Capped(sessions')
<1> PICK dev \in Devices, withKey \in BOOLEAN :
      LET pubkey == IF withKey THEN dev ELSE NoDevice
      IN \/ withKey /\ ChallengeTrusted(p, key, dev)
         \/ IssuePairingCode(p, key, dev, pubkey)
         \/ AutoApprovePairing(p, key, dev, pubkey)
         \/ \E proof \in Proofs : \/ ProofAccepted(p, key, dev, pubkey, proof)
                                  \/ ProofRefused(p, key, dev, pubkey, proof)
  BY DEF PairingStep
<1> DEFINE pubkey == IF withKey THEN dev ELSE NoDevice
<1>1. pubkey \in Devices \cup {NoDevice} OBVIOUS
<1> HIDE DEF pubkey
<1>2. \A ss \in Opened(p) : ss \in [Peers -> Session] BY OpenedFacts
<1>3. CASE ChallengeTrusted(p, key, dev)
  <2>1. PICK ss \in Opened(p) : \E auth :
          sessions' = [ss EXCEPT ![p] = [Requested(ss[p], dev, dev) EXCEPT
                                           !.auth = auth, !.input = store[dev]]]
    BY <1>3 DEF ChallengeTrusted
  <2>2. \A q \in Peers : sessions'[q].perm = ss[q].perm
    BY <1>2, <2>1 DEF Requested, Session
  <2> QED BY <2>2, HandledCapped
<1>4. CASE IssuePairingCode(p, key, dev, pubkey)
  <2>1. CASE sessions' = sessions BY <2>1
  <2>2. CASE sessions' # sessions
    <3> DEFINE cl(ss) == IF now >= code.expires THEN ClearChallenges(ss) ELSE ss
               shown  == IF now >= code.expires THEN RotatedCode ELSE code
               pair   == [salt |-> issued.salt + 1, gen |-> shown.gen,
                          expires |-> Least(now + ChallengeTTL, shown.expires)]
    <3>0. PICK ss \in Opened(p) :
            sessions' = [cl(ss) EXCEPT ![p] =
              [RefreshWindow(Requested(cl(ss)[p], dev, pubkey)) EXCEPT
                 !.verified = FALSE, !.pair = pair]]
      BY <1>4, <2>2 DEF IssuePairingCode, Exit
    <3> HIDE DEF shown, pair
    <3> DEFINE cleared == cl(ss)
    <3>1. /\ cleared \in {ss, ClearChallenges(ss)}
          /\ sessions' = [cleared EXCEPT ![p] =
               [RefreshWindow(Requested(cleared[p], dev, pubkey)) EXCEPT
                  !.verified = FALSE, !.pair = pair]]
      BY <3>0
    <3> HIDE DEF cl, cleared
    <3>2. cleared \in [Peers -> Session] /\ \A q \in Peers : cleared[q].perm = ss[q].perm
      BY <1>2, <3>1, WithoutChallengeType DEF ClearChallenges, Session
    <3>3. /\ Requested(cleared[p], dev, pubkey).perm = cleared[p].perm
          /\ RefreshWindow(Requested(cleared[p], dev, pubkey)).perm = cleared[p].perm
      BY <3>2 DEF RefreshWindow, Requested, Session
    <3>4. \A q \in Peers : sessions'[q].perm = ss[q].perm
      BY <3>1, <3>2, <3>3 DEF RefreshWindow, Requested, Session
    <3> QED BY <3>4, HandledCapped
  <2> QED BY <2>1, <2>2
<1>5. CASE AutoApprovePairing(p, key, dev, pubkey)
  <2>1. PICK ss \in Opened(p) : \E id :
          sessions' = [ss EXCEPT ![p] = [Requested(ss[p], dev, pubkey) EXCEPT
                         !.perm = "Approved", !.devId = id, !.kex = OfferKex]]
    BY <1>5 DEF AutoApprovePairing
  <2>2. \A q \in Peers : q # p => sessions'[q] = ss[q] BY <1>2, <2>1
  <2>3. sessions'[p].perm = "Approved"
    BY <1>2, <2>1 DEF Requested, Session
  <2> QED BY <2>2, <2>3, HandledCapped
<1>6. ASSUME NEW proof, ProofAccepted(p, key, dev, pubkey, proof)
      PROVE  Capped(sessions')
  <2> DEFINE w(ss) == RefreshWindow(Requested(ss[p], dev, pubkey))
             u(ss) == [w(ss) EXCEPT !.attempts = 0, !.verified = TRUE, !.vouched = TRUE]
  <2>1. PICK ss \in Opened(p) : sessions' = ClearChallenges([ss EXCEPT ![p] = u(ss)])
    BY <1>6 DEF ProofAccepted
  <2>2. w(ss).perm = ss[p].perm /\ DOMAIN w(ss) = DOMAIN ss[p] /\ ss[p] \in Session
    BY <1>2, RequestedPerm
  <2> HIDE DEF w
  <2>3. u(ss).perm = ss[p].perm /\ DOMAIN u(ss) = DOMAIN ss[p]
    BY <2>2 DEF Session
  <2> HIDE DEF u
  <2>4. \A q \in Peers : sessions'[q].perm = ss[q].perm
    BY <1>2, <2>1, <2>3 DEF ClearChallenges, Session
  <2> QED BY <2>4, HandledCapped
<1>7. ASSUME NEW proof, ProofRefused(p, key, dev, pubkey, proof)
      PROVE  Capped(sessions')
  <2> DEFINE w(ss) == RefreshWindow(Requested(ss[p], dev, pubkey))
             u(ss) == [w(ss) EXCEPT !.verified = FALSE, !.pair = NoPair, !.attempts = @ + 1]
  <2>1. PICK ss \in Opened(p) : \E s \in {w(ss), u(ss)} : sessions' = [ss EXCEPT ![p] = s]
    BY <1>7 DEF ProofRefused
  <2>2. w(ss).perm = ss[p].perm /\ DOMAIN w(ss) = DOMAIN ss[p] /\ ss[p] \in Session
    BY <1>2, RequestedPerm
  <2> HIDE DEF w
  <2>3. u(ss).perm = ss[p].perm
    BY <2>2 DEF Session
  <2> HIDE DEF u
  <2>4. \A q \in Peers : sessions'[q].perm = ss[q].perm
    BY <1>2, <2>1, <2>2, <2>3
  <2> QED BY <2>4, HandledCapped
<1> QED BY <1>3, <1>4, <1>5, <1>6, <1>7 DEF pubkey

LEMMA AnswerCapped ==
  ASSUME Ind, Capped(sessions), NEW p \in Peers, NEW key,
         AuthStep(p, key) \/ ConfirmStep(p, key)
  PROVE  Capped(sessions')
<1>1. \A ss \in Opened(p) : ss \in [Peers -> Session] BY OpenedFacts
<1>2. ASSUME NEW id, NEW dev, AuthAccepted(p, key, id, dev) \/ AuthRefused(p, key, id, dev)
      PROVE  Capped(sessions')
  <2>1. PICK ss \in Opened(p) :
          \/ sessions' = [ss EXCEPT ![p] = [ss[p] EXCEPT !.perm = "Approved", !.devId = IdOf(dev),
                            !.auth = NoAuth, !.kex = OfferKex, !.vouched = TRUE]]
          \/ sessions' = [ss EXCEPT ![p] = [ss[p] EXCEPT !.perm = "Rejected", !.auth = NoAuth]]
    BY <1>2 DEF AuthAccepted, AuthRefused
  <2>2. \A q \in Peers : q # p => sessions'[q] = ss[q] BY <1>1, <2>1
  <2>3. "perm" \in DOMAIN ss[p] BY <1>1 DEF Session
  <2>4. sessions'[p].perm \in {"Approved", "Rejected"}
    BY <1>1, <2>1, <2>3
  <2> QED BY <2>2, <2>4, HandledCapped
<1>3. ASSUME NEW sid, NEW eph, NEW dev, KeyConfirmed(p, key, sid, eph, dev)
      PROVE  Capped(sessions')
  <2>1. PICK ss \in Opened(p) :
          /\ AutoApproved(ss[p], p).perm = "Approved"
          /\ sessions' = [ss EXCEPT ![p] = [AutoApproved(ss[p], p) EXCEPT !.kex = NoKex,
                                              !.secure = [sid |-> sid, eph |-> eph]]]
    BY <1>3 DEF KeyConfirmed
  <2>2. \A q \in Peers : q # p => sessions'[q] = ss[q] BY <1>1, <2>1
  <2> DEFINE s == AutoApproved(ss[p], p)
  <2>3. DOMAIN s = DOMAIN ss[p] BY DEF AutoApproved
  <2> HIDE DEF s
  <2>4. sessions'[p] = [s EXCEPT !.kex = NoKex, !.secure = [sid |-> sid, eph |-> eph]]
    BY <1>1, <2>1 DEF s
  <2>5. s.perm = "Approved" /\ "perm" \in DOMAIN s
    BY <1>1, <2>1, <2>3 DEF s, Session
  <2>6. sessions'[p].perm = "Approved"
    BY <2>4, <2>5
  <2> QED BY <2>2, <2>6, HandledCapped
<1>4. ASSUME NEW sid, NEW dev, KeyConfirmFails(p, key, sid, dev)
      PROVE  Capped(sessions')
  BY <1>4 DEF KeyConfirmFails, Exit
<1> QED BY <1>2, <1>3, <1>4 DEF AuthStep, ConfirmStep

LEMMA DataCapped ==
  ASSUME Ind, Capped(sessions), NEW p \in Peers, NEW key,
         \/ \E kind \in Kinds : Unapproved(p, key, kind)
         \/ ReceiveInput(p, key) \/ ReceivePing(p, key) \/ ReceiveConfig(p, key)
  PROVE  Capped(sessions')
<1>1. PICK ss \in Opened(p) :
        \/ sessions' = ss
        \/ /\ AutoApproved(ss[p], p).perm = "Approved"
           /\ sessions' = [ss EXCEPT ![p] = AutoApproved(ss[p], p)]
  BY DEF Unapproved, ReceiveInput, ReceivePing, ReceiveConfig
<1>2. ss \in [Peers -> Session] BY OpenedFacts
<1>3. \A q \in Peers : sessions'[q].perm = "Pending" => ss[q].perm = "Pending"
  BY <1>1, <1>2
<1> QED BY <1>3, HandledCapped

LEMMA OperatorCapped ==
  ASSUME Ind, Capped(sessions), OperatorStep
  PROVE  Capped(sessions')
<1>1. sessions \in [Peers -> Session] BY Types
<1>2. ASSUME NEW p \in Peers, Approve(p) PROVE Capped(sessions')
  <2>1. PICK id :
          sessions' = [sessions EXCEPT ![p] = [sessions[p] EXCEPT !.perm = "Approved",
                         !.devId = id, !.input = "allow", !.kex = OfferKex]]
    BY <1>2 DEF Approve
  <2>2. \A q \in Peers : sessions'[q].perm = "Pending" => sessions[q].perm = "Pending"
    BY <1>1, <2>1 DEF Session
  <2>3. PendingPeers(sessions') \subseteq PendingPeers(sessions)
    BY <2>2 DEF PendingPeers
  <2> QED BY <2>3, FewerStayCapped
<1>3. ASSUME NEW p \in Peers, Reject(p) PROVE Capped(sessions')
  <2>1. PICK ss \in Ensured(p) : sessions' = [ss EXCEPT ![p].perm = "Rejected"]
    BY <1>3 DEF Reject
  <2>2. ss \in [Peers -> Session] BY EnsuredFacts
  <2>3. PendingPeers(sessions') \subseteq PendingPeers(ss)
    BY <2>1, <2>2 DEF PendingPeers, Session
  <2> QED BY <2>3, EnsuredCapped, FewerStayCapped
<1>4. ASSUME NEW p \in Peers, NEW answer \in BOOLEAN, DialogAnswered(p, answer)
      PROVE  Capped(sessions')
  BY <1>2, <1>3, <1>4 DEF DialogAnswered, IgnoreDialog
<1>5. ASSUME NEW d \in Devices, NEW permission \in {"allow", "deny"}, NEW exactCase \in BOOLEAN,
             SetPermission(d, permission, exactCase)
      PROVE  Capped(sessions')
  <2>1. sessions' = [q \in Peers |->
          IF exactCase /\ sessions[q].devId = IdOf(d)
          THEN [sessions[q] EXCEPT !.input = permission] ELSE sessions[q]]
    BY <1>5 DEF SetPermission
  <2>2. \A q \in Peers : sessions'[q].perm = sessions[q].perm
    BY <1>1, <2>1 DEF Session
  <2>3. PendingPeers(sessions') \subseteq PendingPeers(sessions)
    BY <2>2 DEF PendingPeers
  <2> QED BY <2>3, FewerStayCapped
<1>6. ASSUME NEW ds, Forget(ds) PROVE Capped(sessions')
  BY <1>6 DEF Forget
<1> QED BY <1>2, <1>3, <1>4, <1>5, <1>6 DEF OperatorStep, ConsoleApprove, ConsoleReject

LEMMA StepCapped == Ind /\ Capped(sessions) /\ [Next]_vars => Capped(sessions')
<1> SUFFICES ASSUME Ind, Capped(sessions), [Next]_vars PROVE Capped(sessions')
  OBVIOUS
<1>1. CASE \E p \in Peers : PacketStep(p)
  BY <1>1, PairingCapped, AnswerCapped, DataCapped DEF PacketStep
<1>2. CASE PollIdle \/ VideoFrame \/ SystemError \/ Tick \/ UNCHANGED vars
  BY <1>2 DEF PollIdle, VideoFrame, SystemError, Exit, Tick, vars
<1>3. CASE OperatorStep BY <1>3, OperatorCapped
<1>4. CASE Restart
  <2>1. PendingPeers(sessions') = {}
    BY <1>4 DEF Restart, PendingPeers, NoSession, SessionAs
  <2> QED BY <2>1, FS_EmptySet, ConstantsAssumption DEF Capped, ConstantsAssumption
<1> QED BY <1>1, <1>2, <1>3, <1>4 DEF Next, HostStep

\* The registry holds at most MAX_PENDING_SESSIONS pending sessions, for any
\* number of endpoints (even endlessly many) and any mix of packets, operator
\* decisions and restarts (backend.rs ensure_pending).
THEOREM PendingIsCapped == Spec => []PendingCapped
<1>1. Init => Capped(sessions)
  <2> SUFFICES ASSUME Init PROVE Capped(sessions)
    OBVIOUS
  <2>1. PendingPeers(sessions) = {}
    BY DEF Init, PendingPeers, NoSession, SessionAs
  <2> QED BY <2>1, FS_EmptySet, ConstantsAssumption DEF Capped, ConstantsAssumption
<1>2. Ind /\ Capped(sessions) /\ [Next]_vars => Capped(sessions)'
  <2> SUFFICES ASSUME Ind, Capped(sessions), [Next]_vars PROVE Capped(sessions')
    BY DEF Capped, PendingPeers
  <2> QED BY StepCapped
<1>3. Capped(sessions) => PendingCapped BY DEF Capped, PendingCapped
<1> QED BY <1>1, <1>2, <1>3, Invariance, PTL DEF Spec
=============================================================================
