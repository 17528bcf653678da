------------------------ MODULE SessionSystemProofs ------------------------
(***************************************************************************)
(* SessionSystem implements HostSessions: whatever the Android client and  *)
(* the network do, the host behaves as it may among arbitrary clients, so  *)
(* the theorems of HostSessionsProofs hold of the whole system.            *)
(*                                                                         *)
(* A datagram of the client is one that HostSessions lets arrive only if   *)
(* it names challenges, offers and codes the host has drawn.  That is the  *)
(* invariant SystemInd: the client's tasks, its datagrams and the host's   *)
(* queue name nothing else, and what was drawn only grows.                 *)
(*                                                                         *)
(* The second half of the module proves KeyAgreement and HostSurvives.     *)
(***************************************************************************)
EXTENDS SessionSystem, HostSessionsProofs, SequenceTheorems

QueueIssued == \A m \in queue : IssuedAs(m)

SystemInd == Ind /\ QueueIssued /\ SystemTypeOK

Grows ==
  /\ issued' \in Counters /\ code'.gen \in Nat
  /\ issued.salt <= issued'.salt /\ issued.auth <= issued'.auth
  /\ issued.offer <= issued'.offer /\ code.gen <= code'.gen

\* What a step of the host may do to the client's assumptions.
Honest == Grows /\ QueueIssued' /\ \A d \in wire' : IssuedAs(d)'

(***************************************************************************)
(* The host sends nothing it has not drawn.                                *)
(***************************************************************************)
LEMMA IssuedLater ==
  ASSUME Ind, Grows, NEW d, IssuedAs(d)
  PROVE  IssuedAs(d)'
BY Types DEF Grows, IssuedAs, Counters

\* The handler of a packet queues new, sends direct and flushes.
LEMMA HonestHandler ==
  ASSUME Ind, QueueIssued, Grows, NEW fs, NEW new, NEW direct,
         Flush(fs, queue \cup new, direct),
         \A m \in new \cup direct : IssuedAs(m)'
  PROVE  Honest
<1>1. \A m \in queue \cup new : IssuedAs(m)' BY IssuedLater DEF QueueIssued
<1>2. PICK out \in SUBSET (queue \cup new) :
             /\ queue' = (queue \cup new) \ out
             /\ wire' = direct \cup {Sealed(fs, m) : m \in out}
  BY DEF Flush
<1>3. \A m \in out : IssuedAs(Sealed(fs, m))' BY <1>1 DEF IssuedAs, Sealed
<1> QED BY <1>1, <1>2, <1>3 DEF Honest, QueueIssued

LEMMA NothingDrawn ==
  ASSUME Ind, issued' = issued, code' = code
  PROVE  Grows
BY Types DEF Grows

LEMMA HonestFlush ==
  ASSUME Ind, QueueIssued, issued' = issued, code' = code, NEW fs, NEW new,
         Flush(fs, queue \cup new, {}),
         \A m \in new : m.kind \in PacketKinds \ {"PairingChallenge", "AuthChallenge", "Offer"}
  PROVE  Honest
<1>1. \A m \in new \cup {} : IssuedAs(m)' BY DEF IssuedAs
<1> QED BY <1>1, NothingDrawn, HonestHandler

\* Steps that leave the queue and send direct.
LEMMA HonestDirect ==
  ASSUME Ind, QueueIssued, Grows, queue' = queue, \A d \in wire' : IssuedAs(d)'
  PROVE  Honest
BY IssuedLater DEF Honest, QueueIssued

LEMMA HonestExit ==
  ASSUME Ind, QueueIssued, NEW reason, Exit(reason)
  PROVE  Honest
BY NothingDrawn, HonestDirect DEF Exit

(***************************************************************************)
(* The handlers.                                                           *)
(***************************************************************************)
LEMMA HonestChallengeTrusted ==
  ASSUME Ind, QueueIssued, NEW p, NEW key, NEW dev, ChallengeTrusted(p, key, dev)
  PROVE  Honest
<1> DEFINE n == issued.auth + 1
           m == Plain(Packet(p, "AuthChallenge", n))
<1>1. PICK ss \in Opened(p) : Flush(ss, queue, {m})
  BY DEF ChallengeTrusted
<1>2. issued' = [issued EXCEPT !.auth = n] /\ code' = code
  BY DEF ChallengeTrusted
<1>3. Grows /\ n \in 1..issued'.auth
  BY <1>2, Types DEF Grows, Counters
<1>4. \A d \in {} \cup {m} : IssuedAs(d)'
  BY <1>3 DEF IssuedAs, Plain, Packet, PacketKinds
<1>5. queue \cup {} = queue
  OBVIOUS
<1> HIDE DEF m
<1> QED BY <1>1, <1>3, <1>4, <1>5, HonestHandler

LEMMA HonestIssuePairingCode ==
  ASSUME Ind, QueueIssued, NEW p, NEW key, NEW dev, NEW pubkey,
         IssuePairingCode(p, key, dev, pubkey)
  PROVE  Honest
<1> DEFINE salt == issued.salt + 1
           m    == Plain(Packet(p, "PairingChallenge", salt))
<1>1. CASE Exit("attempt limit") BY <1>1, HonestExit
<1>2. CASE ~Exit("attempt limit")
  <2>1. PICK ss \in Opened(p) : Flush(ss, queue, {m})
    BY <1>2 DEF IssuePairingCode
  <2>2. issued' = [issued EXCEPT !.salt = salt] /\ code' \in {code, RotatedCode}
    BY <1>2 DEF IssuePairingCode
  <2>3. code'.gen \in Nat /\ code.gen <= code'.gen
    BY <2>2, Types DEF RotatedCode
  <2>4. Grows /\ salt \in 1..issued'.salt
    BY <2>2, <2>3, Types DEF Grows, Counters
  <2>5. \A d \in {} \cup {m} : IssuedAs(d)'
    BY <2>4 DEF IssuedAs, Plain, Packet, PacketKinds
  <2>6. queue \cup {} = queue
    OBVIOUS
  <2> HIDE DEF m
  <2> QED BY <2>1, <2>4, <2>5, <2>6, HonestHandler
<1> QED BY <1>1, <1>2

LEMMA HonestProofAccepted ==
  ASSUME Ind, QueueIssued, NEW p, NEW key, NEW dev, NEW pubkey, NEW proof,
         ProofAccepted(p, key, dev, pubkey, proof)
  PROVE  Honest
<1>1. PICK fs : Flush(fs, queue, {})
  BY DEF ProofAccepted
<1>2. Grows
  BY Types DEF ProofAccepted, RotatedCode, Grows
<1>3. Flush(fs, queue \cup {}, {}) /\ \A m \in {} \cup {} : IssuedAs(m)'
  <2>1. queue \cup {} = queue
    OBVIOUS
  <2> QED BY <1>1, <2>1
<1> QED BY <1>2, <1>3, HonestHandler

\* The handlers that draw nothing.
LEMMA HonestAnswer ==
  ASSUME Ind, QueueIssued, NEW p, NEW key,
         \/ \E dev, pubkey, proof : ProofRefused(p, key, dev, pubkey, proof)
         \/ \E id, dev : AuthRefused(p, key, id, dev)
         \/ \E id, eph, dev : KeyConfirmed(p, key, id, eph, dev)
         \/ ReceivePing(p, key)
  PROVE  Honest
<1>1. PICK kind \in {"Refused", "DisplayInfo", "Pong"} :
        \E fs : Flush(fs, queue \cup {Packet(p, kind, 0)}, {})
  <2>1. CASE \E dev, pubkey, proof : ProofRefused(p, key, dev, pubkey, proof)
    <3>1. \E fs : Flush(fs, queue \cup {Packet(p, "Refused", 0)}, {})
      BY <2>1 DEF ProofRefused
    <3> QED BY <3>1
  <2>2. CASE \E id, dev : AuthRefused(p, key, id, dev)
    <3>1. \E fs : Flush(fs, queue \cup {Packet(p, "Refused", 0)}, {})
      BY <2>2 DEF AuthRefused
    <3> QED BY <3>1
  <2>3. CASE \E id, eph, dev : KeyConfirmed(p, key, id, eph, dev)
    <3>1. \E fs : Flush(fs, queue \cup {Packet(p, "DisplayInfo", 0)}, {})
      BY <2>3 DEF KeyConfirmed
    <3> QED BY <3>1
  <2>4. CASE ReceivePing(p, key)
    <3>1. \E fs : Flush(fs, queue \cup {Packet(p, "Pong", 0)}, {})
      BY <2>4 DEF ReceivePing
    <3> QED BY <3>1
  <2> QED BY <2>1, <2>2, <2>3, <2>4
<1>2. issued' = issued /\ code' = code
  BY DEF ProofRefused, AuthRefused, KeyConfirmed, ReceivePing
<1>3. \A m \in {Packet(p, kind, 0)} :
        m.kind \in PacketKinds \ {"PairingChallenge", "AuthChallenge", "Offer"}
  BY DEF Packet, PacketKinds
<1> QED BY <1>1, <1>2, <1>3, HonestFlush

LEMMA HonestSilence ==
  ASSUME Ind, QueueIssued, NEW p, NEW key,
         \/ \E kind : Unapproved(p, key, kind)
         \/ ReceiveInput(p, key) \/ ReceiveConfig(p, key) \/ PollIdle
  PROVE  Honest
<1>1. PICK fs : Flush(fs, queue, {})
  BY DEF Unapproved, ReceiveInput, ReceiveConfig, PollIdle
<1>2. issued' = issued /\ code' = code
  BY DEF Unapproved, ReceiveInput, ReceiveConfig, PollIdle
<1>3. queue \cup {} = queue
  OBVIOUS
<1> QED BY <1>1, <1>2, <1>3, HonestFlush

\* The two packets that answer an approval.
LEMMA OfferIssued ==
  ASSUME Ind, DrawOffer, code' = code
  PROVE  /\ Grows
         /\ \A p : \A m \in {Packet(p, "Accepted", 0), Packet(p, "Offer", NextOffer)} :
              IssuedAs(m)' /\ \A d \in {Plain(m)} : IssuedAs(d)'
<1>1. issued' = [issued EXCEPT !.offer = NextOffer] /\ NextOffer = issued.offer + 1
  BY DEF DrawOffer, NextOffer
<1> HIDE DEF NextOffer
<1>2. Grows /\ NextOffer \in 1..issued'.offer
  BY <1>1, Types DEF Grows, Counters
<1> QED BY <1>2 DEF IssuedAs, Plain, Packet, PacketKinds

LEMMA HonestAuthAccepted ==
  ASSUME Ind, QueueIssued, NEW p, NEW key, NEW id, NEW dev, AuthAccepted(p, key, id, dev)
  PROVE  Honest
<1> DEFINE new == {Packet(p, "Accepted", 0), Packet(p, "Offer", NextOffer)}
<1>1. PICK ss \in Opened(p) : Flush(ss, queue \cup new, {})
  BY DEF AuthAccepted
<1>2. DrawOffer /\ code' = code
  BY DEF AuthAccepted
<1>3. Grows /\ \A m \in new \cup {} : IssuedAs(m)'
  BY <1>2, OfferIssued
<1> HIDE DEF new
<1> QED BY <1>1, <1>3, HonestHandler

LEMMA HonestApprove ==
  ASSUME Ind, QueueIssued, NEW p, Approve(p)
  PROVE  Honest
<1>1. /\ DrawOffer /\ code' = code /\ queue' = queue
      /\ wire' = {Plain(Packet(p, "Accepted", 0)), Plain(Packet(p, "Offer", NextOffer))}
  BY DEF Approve
<1> QED BY <1>1, OfferIssued, HonestDirect

LEMMA HonestReject ==
  ASSUME Ind, QueueIssued, NEW p, Reject(p)
  PROVE  Honest
<1>1. /\ issued' = issued /\ code' = code /\ queue' = queue
      /\ wire' = {Plain(Packet(p, "Refused", 0))}
  BY DEF Reject
<1>2. \A d \in wire' : IssuedAs(d)'
  BY <1>1 DEF IssuedAs, Plain, Packet, PacketKinds
<1> QED BY <1>1, <1>2, NothingDrawn, HonestDirect

LEMMA HonestOperator ==
  ASSUME Ind, QueueIssued, OperatorStep
  PROVE  Honest
<1>1. CASE \E p : Approve(p) BY <1>1, HonestApprove
<1>2. CASE \E p : Reject(p) BY <1>2, HonestReject
<1>3. CASE IgnoreDialog BY <1>3, NothingDrawn, HonestDirect DEF IgnoreDialog
<1>4. CASE \E d, permission, exactCase : SetPermission(d, permission, exactCase)
  BY <1>4, NothingDrawn, HonestDirect DEF SetPermission
<1>5. CASE \E ds : Forget(ds) BY <1>5, NothingDrawn, HonestDirect DEF Forget
<1> QED BY <1>1, <1>2, <1>3, <1>4, <1>5
        DEF OperatorStep, ConsoleApprove, ConsoleReject, DialogAnswered
(***************************************************************************)
(* What the client sends, HostSessions lets arrive.                        *)
(***************************************************************************)
LEMMA PassesSeals ==
  ASSUME NEW p, NEW key, NEW kind, Passes(p, key, kind)
  PROVE  key \in SealsOf(p)
BY DEF Passes, SealsOf

LEMMA HonestPacket ==
  ASSUME Ind, QueueIssued, NEW p, PacketStep(p), Policy = "RequireApproval"
  PROVE  Honest
<1> PICK key \in SealsOf(p) :
      \/ PairingStep(p, key) \/ AuthStep(p, key) \/ ConfirmStep(p, key)
      \/ \E kind \in Kinds : Unapproved(p, key, kind)
      \/ ReceiveInput(p, key) \/ ReceivePing(p, key) \/ ReceiveConfig(p, key)
  BY DEF PacketStep
<1>1. CASE PairingStep(p, key)
  <2>1. ~\E dev, pubkey : AutoApprovePairing(p, key, dev, pubkey)
    BY DEF AutoApprovePairing
  <2> QED BY <1>1, <2>1, HonestChallengeTrusted, HonestIssuePairingCode,
             HonestProofAccepted, HonestAnswer DEF PairingStep
<1>2. CASE AuthStep(p, key)
  BY <1>2, HonestAuthAccepted, HonestAnswer DEF AuthStep
<1>3. CASE ConfirmStep(p, key)
  BY <1>3, HonestAnswer, HonestExit DEF ConfirmStep, KeyConfirmFails
<1>4. CASE \E kind \in Kinds : Unapproved(p, key, kind)
  BY <1>4, HonestSilence
<1>5. CASE ReceiveInput(p, key) \/ ReceivePing(p, key) \/ ReceiveConfig(p, key)
  BY <1>5, HonestSilence, HonestAnswer
<1> QED BY <1>1, <1>2, <1>3, <1>4, <1>5

LEMMA RoutesStep ==
  ASSUME NEW m, AnswersHost(m), Routes(m)
  PROVE  m.from \in Peers /\ (PacketStep(m.from) \/ PollIdle)
<1> DEFINE p == m.from
<1>1. p \in Peers /\ Me \in Devices /\ m.kind \in Kinds
  BY SystemAssumption DEF AnswersHost, SystemAssumption
<1> HIDE DEF p
<1>2. CASE /\ m.kind = "PairingRequest" /\ m.proof = NoCode
           /\ ChallengeTrusted(p, m.key, Me) \/ IssuePairingCode(p, m.key, Me, Me)
  <2>1. m.key \in SealsOf(p)
    BY <1>2, PassesSeals DEF ChallengeTrusted, IssuePairingCode
  <2>2. PairingStep(p, m.key)
    <3>1. \E withKey \in BOOLEAN : withKey = TRUE
      OBVIOUS
    <3> QED BY <1>1, <1>2, <3>1 DEF PairingStep
  <2> QED BY <1>1, <2>1, <2>2 DEF PacketStep, p
<1>3. CASE /\ m.kind = "PairingRequest" /\ m.proof # NoCode
           /\ \/ ProofAccepted(p, m.key, Me, Me, m.proof)
              \/ ProofRefused(p, m.key, Me, Me, m.proof)
  <2>1. m.key \in SealsOf(p)
    BY <1>3, PassesSeals DEF ProofAccepted, ProofRefused
  <2>2. m.proof \in Proofs BY <1>3 DEF AnswersHost
  <2>3. PairingStep(p, m.key)
    <3>1. \E withKey \in BOOLEAN : withKey = TRUE
      OBVIOUS
    <3> QED BY <1>1, <1>3, <2>2, <3>1 DEF PairingStep
  <2> QED BY <1>1, <2>1, <2>3 DEF PacketStep, p
<1>4. CASE /\ m.kind = "AuthResponse"
           /\ AuthAccepted(p, m.key, m.id, Me) \/ AuthRefused(p, m.key, m.id, Me)
  <2>1. m.key \in SealsOf(p)
    BY <1>4, PassesSeals DEF AuthAccepted, AuthRefused
  <2>2. AuthStep(p, m.key) BY <1>1, <1>4 DEF AuthStep, AnswersHost
  <2> QED BY <1>1, <2>1, <2>2 DEF PacketStep, p
<1>5. CASE /\ m.kind = "KeyConfirm"
           /\ KeyConfirmed(p, m.key, m.id, m.eph, Me) \/ KeyConfirmFails(p, m.key, m.id, Me)
  <2>1. m.key \in SealsOf(p)
    BY <1>5, PassesSeals DEF KeyConfirmed, KeyConfirmFails
  <2>2. m.id \in 1..issued.offer /\ m.eph \in Ephemerals
    BY <1>5, SystemAssumption DEF AnswersHost, SystemAssumption
  <2>3. ConfirmStep(p, m.key) BY <1>1, <1>5, <2>2 DEF ConfirmStep
  <2> QED BY <1>1, <2>1, <2>3 DEF PacketStep, p
<1>6. CASE ReceiveInput(p, m.key) \/ ReceivePing(p, m.key) \/ ReceiveConfig(p, m.key)
  <2>1. m.key \in SealsOf(p)
    BY <1>6, PassesSeals DEF ReceiveInput, ReceivePing, ReceiveConfig
  <2> QED BY <1>1, <1>6, <2>1 DEF PacketStep, p
<1>7. CASE Unapproved(p, m.key, m.kind)
  <2>1. m.key \in SealsOf(p) BY <1>7, PassesSeals DEF Unapproved
  <2> QED BY <1>1, <1>7, <2>1 DEF PacketStep, p
<1>8. CASE PollIdle BY <1>1, <1>8 DEF p
<1> QED BY <1>2, <1>3, <1>4, <1>5, <1>6, <1>7, <1>8 DEF Routes, p
(***************************************************************************)
(* The client names only what it was told.                                 *)
(***************************************************************************)
\* The queues of tasks.
LEMMA Queued ==
  ASSUME NEW S, NEW s \in Seq(S), NEW t \in S
  PROVE  Append(s, t) \in Seq(S)
OBVIOUS

LEMMA Dequeued ==
  ASSUME NEW S, NEW s \in Seq(S), s # <<>>
  PROVE  Head(s) \in S /\ Tail(s) \in Seq(S)
BY HeadTailProperties

LEMMA Named ==
  ASSUME Ind
  PROVE  /\ \A op \in {"Connect", "Pair", "Ping", "Config", "Input"} :
              Task(op, 0) \in ClientTasks
         /\ \A n \in 0..code.gen : Task("Submit", n) \in ClientTasks
         /\ \A n \in 1..issued.auth : Task("Auth", n) \in ClientTasks
         /\ \A n \in 1..issued.offer : Task("Kex", n) \in ClientTasks
         /\ 0 \in Shown
BY Types DEF Task, ClientTasks, Shown

\* What the host has drawn stands still while the client moves.
LEMMA NothingNew ==
  ASSUME UNCHANGED <<issued, code>>
  PROVE  /\ ClientTasks' = ClientTasks /\ ClientKeys' = ClientKeys /\ Shown' = Shown
         /\ \A d : IssuedAs(d)' <=> IssuedAs(d)
         /\ \A m : AnswersHost(m)' <=> AnswersHost(m)
BY DEF ClientTasks, ClientKeys, Shown, IssuedAs, AnswersHost, Proofs

\* What a step of the client keeps.
Keeps == ClientTypeOK' /\ \A m \in sent' : AnswersHost(m)

LEMMA TapsKeep ==
  ASSUME Ind, ClientTypeOK, UNCHANGED <<issued, code>>,
         \/ TapConnect \/ PostRest \/ TapRequest \/ UserSubmits
         \/ \E kind \in {"Config", "Input"} : TapApply(kind)
  PROVE  Keeps
<1>1. CASE TapConnect
  <2>1. ui' \in Seq(ClientTasks) /\ tasks' \in Seq(ClientTasks)
    BY <1>1, Named, Queued DEF TapConnect, ClientTypeOK
  <2> QED BY <1>1, <2>1, NothingNew DEF TapConnect, ClientTypeOK, Keeps
<1>2. CASE PostRest
  <2>1. ui' \in Seq(ClientTasks) /\ tasks' \in Seq(ClientTasks)
    BY <1>2, Dequeued, Queued DEF PostRest, ClientTypeOK
  <2> QED BY <1>2, <2>1, NothingNew DEF PostRest, ClientTypeOK, Keeps
<1>3. CASE TapRequest \/ UserSubmits \/ \E kind \in {"Config", "Input"} : TapApply(kind)
  <2>1. PICK task \in ClientTasks : \E button : Tapped(button, task)
    <3>1. code.gen \in 0..code.gen /\ 0 \in 0..code.gen BY Types
    <3> QED BY <1>3, <3>1, Named DEF TapRequest, UserSubmits, TapSubmit, TapApply
  <2>2. tasks' \in Seq(ClientTasks)
    BY <2>1, Queued DEF Tapped, ClientTypeOK
  <2> QED BY <2>1, <2>2, NothingNew DEF Tapped, ClientTypeOK, Keeps
<1> QED BY <1>1, <1>2, <1>3

LEMMA SendControlKeeps ==
  ASSUME Ind, ClientTypeOK, UNCHANGED <<issued, code>>, tasks # <<>>,
         NEW datagrams, SendControl(datagrams),
         open => \A m \in datagrams : AnswersHost(m)
  PROVE  Keeps
<1>1. tasks' \in Seq(ClientTasks)
  BY Dequeued DEF SendControl, ClientTypeOK
<1>2. busy' \in [at : {"copy"}, shown : Shown, refused : BOOLEAN]
  BY DEF SendControl, ClientTypeOK, Copying
<1>3. \A m \in sent' : AnswersHost(m)
  BY DEF SendControl
<1> QED BY <1>1, <1>2, <1>3, NothingNew DEF SendControl, ClientTypeOK, Keeps

LEMMA SendsKeep ==
  ASSUME Ind, ClientTypeOK, UNCHANGED <<issued, code>>,
         RunPair \/ RunSend \/ RunSubmit \/ RunInput \/ RunAuth
  PROVE  Keeps
<1> DEFINE task == Head(tasks)
<1>1. tasks # <<>> /\ task \in ClientTasks
  BY Dequeued DEF RunPair, RunSend, RunSubmit, RunInput, RunAuth, Starts, ClientTypeOK
<1>2. open => conn \in 1..MaxConnects
  BY ClientAssumption DEF ClientTypeOK, ClientAssumption
<1>3. open => \A kind \in {"PairingRequest", "Ping", "Config", "Input"} :
                AnswersHost(Message(kind, codec, 0, 0, NoCode))
  BY <1>2 DEF Message, AnswersHost, Kinds
<1>4. CASE RunPair
  BY <1>1, <1>3, <1>4, SendControlKeeps DEF RunPair
<1>5. CASE RunSend
  BY <1>1, <1>3, <1>5, SendControlKeeps DEF RunSend
<1>6. CASE RunInput
  BY <1>1, <1>3, <1>6, SendControlKeeps DEF RunInput
<1>7. CASE RunSubmit
  <2> DEFINE proof == [salt |-> shown, code |-> task.arg]
  <2>1. task.arg \in 0..code.gen
    BY <1>1, <1>7 DEF RunSubmit, Starts, ClientTasks
  <2>2. shown # 0 => proof \in Proofs
    BY <2>1, Types DEF ClientTypeOK, Shown, Proofs
  <2> HIDE DEF proof
  <2>3. open /\ shown # 0 => AnswersHost(Message("PairingRequest", codec, 0, 0, proof))
    BY <1>2, <2>2 DEF Message, AnswersHost, Kinds
  <2> QED BY <1>1, <1>7, <2>3, SendControlKeeps DEF RunSubmit, proof
<1>8. CASE RunAuth
  <2>1. task.arg \in 1..issued.auth
    BY <1>1, <1>8 DEF RunAuth, Starts, ClientTasks
  <2>2. open => AnswersHost(Message("AuthResponse", codec, task.arg, 0, NoCode))
    BY <1>2, <2>1 DEF Message, AnswersHost, Kinds
  <2> QED BY <1>1, <1>8, <2>2, SendControlKeeps DEF RunAuth
<1> QED BY <1>4, <1>5, <1>6, <1>7, <1>8

LEMMA ExecutorKeeps ==
  ASSUME Ind, ClientTypeOK, UNCHANGED <<issued, code>>,
         \/ RunConnect \/ ConnectFails \/ SubmitExpired
         \/ ConfirmOffer \/ DropOffer \/ InstallCodec \/ FinishCopy
  PROVE  Keeps
<1>1. 0 \in Shown BY Named
<1>2. CASE RunConnect
  <2>1. tasks' \in Seq(ClientTasks)
    BY <1>2, Dequeued DEF RunConnect, Starts, ClientTypeOK
  <2>2. busy' \in [at : {"copy"}, shown : Shown, refused : BOOLEAN]
    BY <1>1, <1>2 DEF RunConnect, Copying, ClientTypeOK
  <2>3. conn' \in 0..MaxConnects /\ conn' > 0
    BY <1>2, ClientAssumption DEF RunConnect, ClientTypeOK, ClientAssumption
  <2> QED BY <1>2, <2>1, <2>2, <2>3, NothingNew DEF RunConnect, ClientTypeOK, Keeps
<1>7. CASE ConnectFails
  <2>1. tasks' \in Seq(ClientTasks)
    BY <1>7, Dequeued DEF ConnectFails, Starts, ClientTypeOK
  <2>2. busy' \in [at : {"copy"}, shown : Shown, refused : BOOLEAN]
    BY <1>1, <1>7 DEF ConnectFails, Copying, ClientTypeOK
  <2> QED BY <1>7, <2>1, <2>2, NothingNew DEF ConnectFails, ClientTypeOK, Keeps
<1>8. CASE SubmitExpired
  <2>1. tasks' \in Seq(ClientTasks)
    BY <1>8, Dequeued DEF SubmitExpired, Starts, ClientTypeOK
  <2>2. busy' \in [at : {"copy"}, shown : Shown, refused : BOOLEAN]
    BY <1>1, <1>8 DEF SubmitExpired, Copying, ClientTypeOK
  <2> QED BY <1>8, <2>1, <2>2, NothingNew DEF SubmitExpired, ClientTypeOK, Keeps
<1>3. CASE ConfirmOffer
  <2> DEFINE id  == Head(tasks).arg
             eph == drawn + 1
             key == [sid |-> id, eph |-> eph]
  <2>1. Head(tasks) \in ClientTasks /\ tasks' \in Seq(ClientTasks)
    BY <1>3, Dequeued DEF ConfirmOffer, Starts, ClientTypeOK
  <2>2. id \in 1..issued.offer
    BY <1>3, <2>1 DEF ConfirmOffer, Starts, ClientTasks
  <2>3. conn \in 1..MaxConnects /\ eph \in 1..MaxDrawn
    BY <1>3, ClientAssumption DEF ConfirmOffer, ClientTypeOK, ClientAssumption
  <2>4. AnswersHost(Message("KeyConfirm", NoCodec, id, eph, NoCode))
    BY <2>2, <2>3 DEF Message, AnswersHost, Kinds
  <2>5. busy' \in [at : {"install"}, key : ClientKeys]
    BY <1>3, <2>2, <2>3 DEF ConfirmOffer, Installing, ClientKeys
  <2>6. drawn' \in 0..MaxDrawn /\ sent' = {Message("KeyConfirm", NoCodec, id, eph, NoCode)}
    BY <1>3, <2>3 DEF ConfirmOffer
  <2>7. /\ UNCHANGED <<conn, open, codec, shown, refused, ui, hand>>
        /\ pinned' = "host" /\ seq' = seq + 1
    BY <1>3 DEF ConfirmOffer
  <2> HIDE DEF id, eph, key
  <2> QED BY <2>1, <2>3, <2>4, <2>5, <2>6, <2>7, NothingNew DEF ClientTypeOK, Keeps
<1>4. CASE DropOffer
  <2>1. tasks' \in Seq(ClientTasks)
    BY <1>4, Dequeued DEF DropOffer, Starts, ClientTypeOK
  <2>2. busy' \in [at : {"copy"}, shown : Shown, refused : BOOLEAN]
    BY <1>4 DEF DropOffer, Copying, ClientTypeOK
  <2> QED BY <1>4, <2>1, <2>2, NothingNew DEF DropOffer, ClientTypeOK, Keeps
<1>5. CASE InstallCodec
  <2>1. busy \in [at : {"install"}, key : ClientKeys]
    BY <1>5 DEF InstallCodec, ClientTypeOK, Idle
  <2>2. busy' \in [at : {"copy"}, shown : Shown, refused : BOOLEAN]
    BY <1>5 DEF InstallCodec, Copying, ClientTypeOK
  <2>3. conn \in 1..MaxConnects
    BY <1>5, ClientAssumption DEF InstallCodec, ClientTypeOK, ClientAssumption
  <2>4. AnswersHost(Message("Config", busy.key, 0, 0, NoCode))
    BY <2>3 DEF Message, AnswersHost, Kinds
  <2> QED BY <1>5, <2>1, <2>2, <2>3, <2>4, NothingNew DEF InstallCodec, ClientTypeOK, Keeps
<1>6. CASE FinishCopy
  <2>1. busy \in [at : {"copy"}, shown : Shown, refused : BOOLEAN]
    BY <1>6 DEF FinishCopy, ClientTypeOK, Idle
  <2>2. Idle.at = "idle"
    BY DEF Idle
  <2> QED BY <1>6, <2>1, <2>2, NothingNew DEF FinishCopy, ClientTypeOK, Keeps
<1> QED BY <1>2, <1>3, <1>4, <1>5, <1>6, <1>7, <1>8

LEMMA ReceiverKeeps ==
  ASSUME Ind, ClientTypeOK, UNCHANGED <<issued, code>>,
         HandleReceived \/ \E m : IssuedAs(m) /\ Receive(m)
  PROVE  Keeps
<1>1. CASE \E m : IssuedAs(m) /\ Receive(m)
  BY <1>1, NothingNew DEF Receive, ClientTypeOK, Keeps
<1>2. CASE HandleReceived
  <2>1. IssuedAs(hand)
    BY <1>2 DEF HandleReceived, HandleChallenge, HandleResult, HandleOnExecutor, HandleOther,
                ClientTypeOK, Nothing
  <2>2. tasks' \in Seq(ClientTasks)
    <3>1. CASE HandleOnExecutor
      <4>1. PICK t \in ClientTasks : tasks' = Append(tasks, t)
        <5>1. CASE hand.kind = "AuthChallenge" /\ tasks' = Append(tasks, Task("Auth", hand.id))
          BY <2>1, <5>1, Named DEF IssuedAs
        <5>2. CASE hand.kind = "Offer" /\ tasks' = Append(tasks, Task("Kex", hand.id))
          BY <2>1, <5>2, Named DEF IssuedAs
        <5> QED BY <3>1, <5>1, <5>2 DEF HandleOnExecutor
      <4> QED BY <4>1, Queued DEF ClientTypeOK
    <3>2. CASE tasks' = tasks BY <3>2 DEF ClientTypeOK
    <3> QED BY <1>2, <3>1, <3>2
            DEF HandleReceived, HandleChallenge, HandleResult, HandleOther
  <2>3. shown' \in Shown /\ refused' \in BOOLEAN
    <3>1. CASE HandleChallenge
      <4>1. hand.id \in 1..issued.salt BY <2>1, <3>1 DEF HandleChallenge, IssuedAs
      <4>2. 1..issued.salt \subseteq Shown BY Types DEF Shown
      <4> QED BY <3>1, <4>1, <4>2 DEF HandleChallenge
    <3>2. CASE HandleResult BY <3>2, Named DEF HandleResult
    <3>3. CASE UNCHANGED <<shown, refused>> BY <3>3 DEF ClientTypeOK
    <3> QED BY <1>2, <3>1, <3>2, <3>3 DEF HandleReceived, HandleOnExecutor, HandleOther
  <2>4. Handled
    BY <1>2 DEF HandleReceived, HandleChallenge, HandleResult, HandleOnExecutor, HandleOther
  <2> QED BY <2>2, <2>3, <2>4, NothingNew DEF Handled, ClientTypeOK, Keeps
<1> QED BY <1>1, <1>2

(***************************************************************************)
(* What the host draws later leaves the client's names good.               *)
(***************************************************************************)
LEMMA SeqLater ==
  ASSUME NEW S, NEW T, S \subseteq T, NEW s \in Seq(S)
  PROVE  s \in Seq(T)
<1>1. /\ Len(s) \in Nat /\ s \in [1..Len(s) -> S]
  OBVIOUS
<1>2. s \in [1..Len(s) -> T]
  BY <1>1
<1> QED BY <1>1, <1>2, SeqDef

LEMMA NamesLater ==
  ASSUME Ind, Grows
  PROVE  /\ ClientTasks \subseteq ClientTasks' /\ ClientKeys \subseteq ClientKeys'
         /\ Shown \subseteq Shown'
         /\ \A m : AnswersHost(m) => AnswersHost(m)'
<1>1. /\ 0..code.gen \subseteq 0..code'.gen /\ 0..issued.salt \subseteq 0..issued'.salt
      /\ 1..issued.salt \subseteq 1..issued'.salt /\ 1..issued.auth \subseteq 1..issued'.auth
      /\ 1..issued.offer \subseteq 1..issued'.offer
  BY Types DEF Grows, Counters
<1>2. ClientTasks \subseteq ClientTasks' /\ Shown \subseteq Shown'
  BY <1>1 DEF ClientTasks, Shown
<1>3. ClientKeys \subseteq ClientKeys'
  BY <1>1 DEF ClientKeys
<1>4. Proofs \subseteq Proofs'
  BY <1>1 DEF Proofs
<1> QED BY <1>1, <1>2, <1>3, <1>4 DEF AnswersHost

LEMMA HostKeeps ==
  ASSUME SystemInd, Honest, HostSends, uplink' \subseteq uplink, copies' \in 0..MaxCopies
  PROVE  QueueIssued' /\ SystemTypeOK'
<1>1. Ind /\ Grows
  BY DEF SystemInd, Honest
<1>2. ui' \in Seq(ClientTasks') /\ tasks' \in Seq(ClientTasks')
  BY <1>1, NamesLater, SeqLater DEF HostSends, clientVars, SystemInd, SystemTypeOK, ClientTypeOK
<1>3. /\ shown' \in Shown' /\ codec' \in {NoCodec} \cup ClientKeys'
      /\ busy' \in {Idle} \cup [at : {"copy"}, shown : Shown', refused : BOOLEAN]
                     \cup [at : {"install"}, key : ClientKeys']
  BY <1>1, NamesLater DEF HostSends, clientVars, SystemInd, SystemTypeOK, ClientTypeOK
<1>4. hand' = Nothing \/ IssuedAs(hand)'
  <2>1. hand' = hand /\ (hand = Nothing \/ IssuedAs(hand))
    BY DEF HostSends, clientVars, SystemInd, SystemTypeOK, ClientTypeOK
  <2>2. \A d : IssuedAs(d) => IssuedAs(d)'
    BY <1>1, IssuedLater
  <2> QED BY <2>1, <2>2
<1>5. ClientTypeOK'
  BY <1>2, <1>3, <1>4 DEF HostSends, clientVars, SystemInd, SystemTypeOK, ClientTypeOK
<1>6. \A m \in uplink' : AnswersHost(m)'
  BY <1>1, NamesLater DEF SystemInd, SystemTypeOK
<1>7. \A d \in downlink' : IssuedAs(d)'
  BY <1>1, IssuedLater DEF Honest, HostSends, SystemInd, SystemTypeOK
<1> QED BY <1>5, <1>6, <1>7 DEF Honest, SystemTypeOK

LEMMA ClientKeeps ==
  ASSUME SystemInd, ClientActs \/ \E m \in downlink : ClientReceives(m)
  PROVE  QueueIssued' /\ SystemTypeOK' /\ UNCHANGED vars
<1>1. Ind /\ ClientTypeOK
  BY DEF SystemInd, SystemTypeOK
<1>2. UNCHANGED vars
  BY DEF ClientActs, ClientSends, ClientReceives
<1>3. UNCHANGED <<issued, code, queue>>
  BY <1>2 DEF vars
<1>4. QueueIssued'
  BY <1>3, NothingNew DEF SystemInd, QueueIssued
<1>5. CASE ClientActs
  <2>1. Keeps
    BY <1>1, <1>3, <1>5, TapsKeep, SendsKeep, ExecutorKeeps, ReceiverKeeps
       DEF ClientActs, ClientStep, Execute
  <2> QED BY <1>2, <1>3, <1>4, <1>5, <2>1, NothingNew
          DEF ClientActs, ClientSends, Keeps, SystemInd, SystemTypeOK
<1>6. CASE \E m \in downlink : ClientReceives(m)
  <2>1. PICK m \in downlink : ClientReceives(m)
    BY <1>6
  <2>2. IssuedAs(m) BY DEF SystemInd, SystemTypeOK
  <2>3. Keeps
    BY <1>1, <1>3, <2>1, <2>2, ReceiverKeeps DEF ClientReceives
  <2>4. copies' \in 0..MaxCopies /\ downlink' \subseteq downlink
    BY <2>1, SystemAssumption
       DEF ClientReceives, Takes, SystemInd, SystemTypeOK, SystemAssumption
  <2> QED BY <1>2, <1>3, <1>4, <2>1, <2>3, <2>4, NothingNew
          DEF ClientReceives, Keeps, SystemInd, SystemTypeOK
<1> QED BY <1>5, <1>6

\* Every step of the system is one of the host as HostSessions specifies it,
\* or leaves the host alone.
LEMMA SystemStep ==
  SystemInd /\ [SystemNext]_systemVars => SystemInd' /\ [Next]_vars
<1> SUFFICES ASSUME SystemInd, [SystemNext]_systemVars PROVE SystemInd' /\ [Next]_vars
  OBVIOUS
<1>1. Ind /\ QueueIssued /\ SystemTypeOK
  BY DEF SystemInd
<1>2. SUFFICES QueueIssued' /\ SystemTypeOK' /\ [Next]_vars
  BY <1>1, StepInd DEF SystemInd
<1>3. CASE ClientActs \/ \E m \in downlink : ClientReceives(m)
  BY <1>3, ClientKeeps
<1>4. CASE \E m \in uplink : HostReceives(m)
  <2>1. PICK m \in uplink : HostReceives(m)
    BY <1>4
  <2>2. m.from \in Peers /\ (PacketStep(m.from) \/ PollIdle)
    BY <1>1, <2>1, RoutesStep DEF HostReceives, SystemTypeOK
  <2>3. Honest
    BY <1>1, <2>2, HonestPacket, HonestSilence, SystemAssumption DEF SystemAssumption
  <2>4. uplink' \subseteq uplink /\ copies' \in 0..MaxCopies
    BY <1>1, <2>1, SystemAssumption DEF HostReceives, Takes, SystemTypeOK, SystemAssumption
  <2>5. Next BY <2>1, <2>2 DEF HostReceives, Next, HostStep
  <2>6. HostSends BY <2>1 DEF HostReceives
  <2> QED BY <2>3, <2>4, <2>5, <2>6, HostKeeps
<1>5. CASE HostActs
  <2>1. Honest BY <1>1, <1>5, HonestSilence, HonestOperator DEF HostActs
  <2>2. uplink' \subseteq uplink /\ copies' \in 0..MaxCopies /\ HostSends
    BY <1>1, <1>5 DEF HostActs, SystemTypeOK
  <2>3. Next BY <1>5 DEF HostActs, Next, HostStep
  <2> QED BY <2>1, <2>2, <2>3, HostKeeps
<1>6. CASE UNCHANGED systemVars
  <2>1. UNCHANGED vars /\ UNCHANGED <<issued, code, queue>>
    BY <1>6 DEF systemVars, vars
  <2>2. QueueIssued' BY <1>1, <2>1, NothingNew DEF QueueIssued
  <2>3. ClientTypeOK'
    BY <1>1, <1>6, <2>1, NothingNew DEF systemVars, clientVars, SystemTypeOK, ClientTypeOK
  <2> QED BY <1>1, <1>6, <2>1, <2>2, <2>3, NothingNew DEF systemVars, SystemTypeOK
<1> QED BY <1>3, <1>4, <1>5, <1>6 DEF SystemNext

LEMMA SystemStarts == SystemInit => SystemInd
<1> SUFFICES ASSUME SystemInit PROVE SystemInd
  OBVIOUS
<1>1. Ind BY InitInd DEF SystemInit
<1>2. QueueIssued BY DEF SystemInit, Init, QueueIssued
<1>3. ClientTypeOK
  <2>1. 0 \in Shown BY <1>1, Named
  <2>2. ClientInit BY DEF SystemInit
  <2>3. conn \in 0..MaxConnects /\ drawn \in 0..MaxDrawn
    BY <2>2, ClientAssumption DEF ClientInit, ClientAssumption
  <2>4. ui \in Seq(ClientTasks) /\ tasks \in Seq(ClientTasks)
    BY <2>2 DEF ClientInit
  <2>5. busy = Idle /\ busy.at # "install"
    BY <2>2 DEF ClientInit, Idle
  <2> QED BY <2>1, <2>2, <2>3, <2>4, <2>5 DEF ClientInit, ClientTypeOK
<1> QED BY <1>1, <1>2, <1>3, SystemAssumption
        DEF SystemInit, SystemInd, SystemTypeOK, SystemAssumption

(***************************************************************************)
(* Theorems.                                                               *)
(***************************************************************************)
LEMMA SystemInvariance == SystemSpec => []SystemInd
BY SystemStarts, SystemStep, PTL DEF SystemSpec

\* The host inside the system behaves as HostSessions says, for any bound on
\* taps, keys and duplicated datagrams: every datagram the client can produce,
\* in any order and any number of times, is one its environment may produce.
THEOREM SystemImplementsHost == SystemSpec => Spec
<1>1. SystemInit => Init BY DEF SystemInit
<1> QED BY <1>1, SystemInvariance, SystemStep, PTL DEF SystemSpec, Spec

\* The client answers only challenges, offers and codes the host has drawn,
\* however its three threads interleave and the network reorders.
THEOREM SystemTypeCorrect == SystemSpec => []SystemTypeOK
<1>1. SystemInd => SystemTypeOK BY DEF SystemInd
<1> QED BY <1>1, SystemInvariance, PTL

\* What is proved of the host therefore holds of it in the system: video
\* leaves it sealed, plaintext input is not injected, a code is spent once,
\* approval is vouched for, and a session's key only advances.
THEOREM SystemIsSafe ==
  SystemSpec => /\ MediaSealed /\ EncryptedInputOnly /\ SecureKeyAdvances
                /\ []OneTimeCode /\ []ApprovedWasVouched
BY SystemImplementsHost, MediaIsSealed, InputIsEncrypted, KeysOnlyAdvance,
   CodesAreOneTime, ApprovalIsVouched, PTL

(***************************************************************************)
(* Keys agree, and the host survives its client, as long as the user       *)
(* submits one code and asks for no other, the network makes no copies, and*)
(* the operator neither approves at the console nor forgets a device.      *)
(*                                                                         *)
(* The confirmation of an offer must find the offer pending, so the        *)
(* invariant, Orderly, follows everything that could replace the offer or  *)
(* be answered twice: requests and proofs that wait in the queue of the    *)
(* executor or on the network (OneRequest, OneProof), the one place where  *)
(* each offer is (OneOffer), and what was left over from an earlier        *)
(* connection, which finds the session of the present one without an offer *)
(* and without a way to get one (StaleOffers, StaleConfirms).              *)
(***************************************************************************)
\* One session: what is offered or in use belongs to the client's device, and
\* a session has at most one of a challenge, an offer and a key.
SessionHolds(s) ==
  /\ s.auth # NoAuth \/ s.verified => s.key = Me
  /\ s.verified => s.auth = NoAuth
  /\ s.kex # NoKex \/ s.secure # NoKeys =>
       s.auth = NoAuth /\ s.perm \in {"Approved", "Rejected"}
  /\ s.secure # NoKeys => s.kex = NoKex
  /\ s.perm = "Approved" /\ s.secure = NoKeys => s.devId = IdOf(Me) /\ s.key = Me
  /\ s.attempts <= 1

\* The host has answered a pairing request of this session.
Engaged(s) ==
  \/ s.auth # NoAuth \/ s.pair # NoPair \/ s.verified
  \/ s.kex # NoKex \/ s.secure # NoKeys

OffersApart ==
  \A p, q \in Peers :
    sessions[p].kex # NoKex /\ sessions[p].kex.sid = sessions[q].kex.sid => p = q

SessionsHold ==
  /\ now = 0
  /\ \A p \in Peers : SessionHolds(sessions[p])
  /\ \A p \in Peers \ 1..conn : ~Engaged(sessions[p])
  /\ OffersApart

\* Tasks up to place i run on the present connection.
Now(i) == \A k \in 1..(i - 1) : tasks[k].op # "Connect"
Last   == Len(tasks) + 1

IsPair(i)   == tasks[i].op = "Pair"
IsSubmit(i) == tasks[i].op = "Submit"
IsKex(i)    == tasks[i].op = "Kex"
Asks(m)     == m.kind = "PairingRequest" /\ m.proof = NoCode
Proves(m)   == m.kind = "PairingRequest" /\ m.proof # NoCode
IsOffer(d)  == d.kind = "Offer"
IsConfirm(m) == m.kind = "KeyConfirm"

\* Each connection asks once.
Posting == ui = <<Task("Pair", 0), Task("Ping", 0)>>

OnePair ==
  /\ ui \in {<<>>, <<Task("Ping", 0)>>, <<Task("Pair", 0), Task("Ping", 0)>>}
  /\ \A i, j \in DOMAIN tasks : i < j /\ IsPair(i) /\ IsPair(j) =>
       \E k \in i..j : tasks[k].op = "Connect"
  /\ Posting => \A i \in DOMAIN tasks : IsPair(i) =>
       \E k \in i..Len(tasks) : tasks[k].op = "Connect"

Due == (\E i \in DOMAIN tasks : IsPair(i) /\ Now(i)) \/ (Posting /\ Now(Last))

OneRequest ==
  /\ \A m \in uplink : m.from <= conn
  /\ \A m, n \in uplink : Asks(m) /\ Asks(n) /\ m.from = n.from => m = n
  /\ \A m \in uplink : Asks(m) => ~Engaged(sessions[m.from])
  /\ open /\ Due => /\ ~Engaged(sessions[conn])
                    /\ \A m \in uplink : Asks(m) => m.from # conn

\* One proof is on its way, and then no signature was asked for and no offer made.
Outstanding == (\E i \in DOMAIN tasks : IsSubmit(i)) \/ (\E m \in uplink : Proves(m))

Untrusted == store[Me] = "none" /\ issued.auth = 0 /\ issued.offer = 0
Uncoded   == store[Me] # "none" /\ issued.salt = 0

OneProof ==
  /\ \A m, n \in uplink : Proves(m) /\ Proves(n) => m = n
  /\ \A i, j \in DOMAIN tasks : IsSubmit(i) /\ IsSubmit(j) => i = j
  /\ \A i \in DOMAIN tasks, m \in uplink : ~(IsSubmit(i) /\ Proves(m))
  /\ Outstanding => taps.submit = 1 /\ Untrusted
  /\ taps.submit = 0 \/ Outstanding =>
       /\ Untrusted \/ Uncoded
       /\ \A p \in Peers : ~sessions[p].verified /\ sessions[p].attempts = 0
  /\ \A p \in Peers : sessions[p].verified /\ sessions[p].perm = "Pending" => Untrusted
  /\ \A p, q \in Peers : sessions[p].verified /\ sessions[q].verified => p = q

\* Each offer is in one place.
Handed(id) == IsOffer(hand) /\ hand.id = id
Tasked(id) == \E i \in DOMAIN tasks : IsKex(i) /\ tasks[i].arg = id
Told(id)   == \E m \in uplink : IsConfirm(m) /\ m.id = id

OneOffer ==
  /\ downlink \subseteq Datagram
  /\ \A m \in queue : IsOffer(m) => sessions[m.to].kex.sid = m.id
  /\ \A d \in downlink : IsOffer(d) => d.key = NoKeys /\ sessions[d.to].kex.sid = d.id
  /\ \A m \in queue, d \in downlink : IsOffer(m) /\ IsOffer(d) => m.id # d.id
  /\ \A m \in queue \cup downlink :
       IsOffer(m) => ~Handed(m.id) /\ ~Tasked(m.id) /\ ~Told(m.id)
  /\ \A i, j \in DOMAIN tasks : IsKex(i) /\ IsKex(j) /\ tasks[i].arg = tasks[j].arg => i = j
  /\ \A m, n \in uplink : IsConfirm(m) /\ IsConfirm(n) /\ m.id = n.id => m = n
  /\ IsOffer(hand) => ~Tasked(hand.id) /\ ~Told(hand.id)
  /\ \A i \in DOMAIN tasks : IsKex(i) => ~Told(tasks[i].arg)

\* Offers of earlier connections find the session of the present one bare.
LiveAuth(c) ==
  /\ sessions[c].auth # NoAuth
  /\ \E m \in uplink : /\ m.kind = "AuthResponse" /\ m.from = c /\ m.key = NoKeys
                       /\ m.id = sessions[c].auth.id

Unoffered(c) == sessions[c].kex = NoKex /\ sessions[c].secure = NoKeys /\ ~LiveAuth(c)

Bare(i) ==
  /\ Unoffered(conn)
  /\ sessions[conn].auth # NoAuth =>
       \A k \in 1..(i - 1) : tasks[k] # Task("Auth", sessions[conn].auth.id)

Stale(id) == sessions[conn].kex.sid # id

StaleOffers ==
  open =>
  /\ \A i \in DOMAIN tasks : IsKex(i) /\ Now(i) /\ Stale(tasks[i].arg) => Bare(i)
  /\ IsOffer(hand) /\ Now(Last) /\ Stale(hand.id) => Bare(Last)

\* So do their confirmations, and the client answers in plaintext no more.
Installs == busy.at = "install"

Silenced(c) == conn > c \/ codec # NoCodec \/ Installs

StaleConfirms ==
  \A m \in uplink : IsConfirm(m) =>
    /\ m.key = NoKeys
    /\ sessions[m.from].secure = NoKeys /\ sessions[m.from].kex.sid # m.id =>
         Unoffered(m.from) /\ Silenced(m.from)

ClientHas(key) == IF Installs THEN busy.key = key ELSE codec = key

SameKeys ==
  conn > 0 =>
  /\ \A m \in uplink : IsConfirm(m) /\ m.from = conn /\ sessions[conn].kex.sid = m.id =>
       ClientHas([sid |-> m.id, eph |-> m.eph])
  /\ IsSecure(conn) => ClientHas(sessions[conn].secure)

Orderly ==
  /\ SessionsHold /\ OnePair /\ OneRequest /\ OneProof
  /\ OneOffer /\ StaleOffers /\ StaleConfirms /\ SameKeys

(***************************************************************************)
(* The queue of the executor.                                              *)
(***************************************************************************)
LEMMA Places ==
  ASSUME ClientTypeOK
  PROVE  /\ Len(tasks) \in Nat /\ DOMAIN tasks = 1..Len(tasks)
         /\ \A i \in 1..Len(tasks) : tasks[i] \in ClientTasks
<1>1. tasks \in Seq(ClientTasks) BY DEF ClientTypeOK
<1> QED BY <1>1

LEMMA Appended ==
  ASSUME ClientTypeOK, NEW t \in ClientTasks, tasks' = Append(tasks, t)
  PROVE  /\ DOMAIN tasks' = 1..(Len(tasks) + 1) /\ Len(tasks') = Len(tasks) + 1
         /\ \A i \in 1..Len(tasks) : tasks'[i] = tasks[i]
         /\ tasks'[Len(tasks) + 1] = t
         /\ \A i \in 1..(Len(tasks) + 1) : Now(i)' <=> Now(i)
         /\ Last' = Last + 1
         /\ Now(Last)' => Now(Last) /\ t.op # "Connect"
<1>1. Len(tasks) \in Nat BY Places
<1>2. /\ DOMAIN tasks' = 1..(Len(tasks) + 1) /\ Len(tasks') = Len(tasks) + 1
      /\ \A i \in 1..Len(tasks) : tasks'[i] = tasks[i]
      /\ tasks'[Len(tasks) + 1] = t
  <2>1. tasks \in Seq(ClientTasks) BY DEF ClientTypeOK
  <2>2. \A S : \A s \in Seq(S), x \in S :
          /\ DOMAIN Append(s, x) = 1..(Len(s) + 1) /\ Len(Append(s, x)) = Len(s) + 1
          /\ \A i \in 1..Len(s) : Append(s, x)[i] = s[i]
          /\ Append(s, x)[Len(s) + 1] = x
    OBVIOUS
  <2> QED BY <2>1, <2>2
<1>3. \A i \in 1..(Len(tasks) + 1) : Now(i)' <=> Now(i)
  BY <1>1, <1>2 DEF Now
<1>4. Last' = Last + 1
  BY <1>1, <1>2 DEF Last
<1>5. Now(Last)' => Now(Last) /\ t.op # "Connect"
  BY <1>1, <1>2 DEF Last, Now
<1> QED BY <1>2, <1>3, <1>4, <1>5

LEMMA Popped ==
  ASSUME ClientTypeOK, tasks # <<>>, tasks' = Tail(tasks)
  PROVE  /\ Len(tasks) \in Nat \ {0} /\ DOMAIN tasks' = 1..(Len(tasks) - 1)
         /\ Len(tasks') = Len(tasks) - 1
         /\ \A i \in 1..(Len(tasks) - 1) : tasks'[i] = tasks[i + 1]
         /\ tasks[1] = Head(tasks) /\ tasks[1] \in ClientTasks
         /\ Last' = Last - 1
         /\ Head(tasks).op # "Connect" => \A i \in 1..Len(tasks) : Now(i)' => Now(i + 1)
<1>1. /\ Len(tasks) \in Nat \ {0} /\ DOMAIN tasks' = 1..(Len(tasks) - 1)
      /\ Len(tasks') = Len(tasks) - 1
      /\ \A i \in 1..(Len(tasks) - 1) : tasks'[i] = tasks[i + 1]
      /\ tasks[1] = Head(tasks) /\ tasks[1] \in ClientTasks
  <2>1. tasks \in Seq(ClientTasks) BY DEF ClientTypeOK
  <2>2. \A S : \A s \in Seq(S) : s # <<>> =>
          /\ Len(s) \in Nat \ {0} /\ DOMAIN Tail(s) = 1..(Len(s) - 1)
          /\ Len(Tail(s)) = Len(s) - 1
          /\ \A i \in 1..(Len(s) - 1) : Tail(s)[i] = s[i + 1]
          /\ s[1] = Head(s) /\ s[1] \in S
    OBVIOUS
  <2> QED BY <2>1, <2>2
<1>2. Last' = Last - 1
  BY <1>1 DEF Last
<1>3. ASSUME Head(tasks).op # "Connect", NEW i \in 1..Len(tasks), Now(i)'
      PROVE  Now(i + 1)
  <2> SUFFICES ASSUME NEW k \in 1..i PROVE tasks[k].op # "Connect"
    BY <1>1 DEF Now
  <2>1. CASE k = 1 BY <1>1, <1>3, <2>1
  <2>2. CASE k # 1
    <3>1. k - 1 \in 1..(i - 1) /\ k - 1 \in 1..(Len(tasks) - 1) /\ (k - 1) + 1 = k
      BY <1>1, <2>2
    <3>2. tasks'[k - 1].op # "Connect" BY <1>3, <3>1 DEF Now
    <3> QED BY <1>1, <3>1, <3>2
  <2> QED BY <2>1, <2>2
<1> QED BY <1>1, <1>2, <1>3

(***************************************************************************)
(* Sessions of the host.                                                   *)
(***************************************************************************)
\* A session that was no more than seen, refused, evicted or begun.
Tame(s, t) ==
  /\ t.kex = s.kex /\ t.secure = s.secure
  /\ t.auth \in {s.auth, NoAuth} /\ t.pair \in {s.pair, NoPair}
  /\ t.verified => s.verified
  /\ t.verified /\ t.perm = "Pending" => s.perm = "Pending"
  /\ t.attempts \in {s.attempts, 0}
  /\ SessionHolds(t)

LEMMA TameTwice ==
  ASSUME NEW s, NEW t, NEW u, Tame(s, t), Tame(t, u)
  PROVE  Tame(s, u)
BY DEF Tame

LEMMA TameSame ==
  ASSUME NEW s, SessionHolds(s)
  PROVE  Tame(s, s)
BY DEF Tame

LEMMA TameEngaged ==
  ASSUME NEW s, NEW t, Tame(s, t), Engaged(t)
  PROVE  Engaged(s)
BY DEF Tame, Engaged

LEMMA TameNew ==
  ASSUME NEW s, SessionHolds(s), s.perm \in {"Absent", "Pending"}
  PROVE  Tame(s, NewSession) /\ Tame(s, NoSession)
BY DEF Tame, SessionHolds, NewSession, NoSession, SessionAs, NoAuth, NoKex, NoKeys, NoPair

LEMMA TameSeen ==
  ASSUME NEW s \in Session, SessionHolds(s)
  PROVE  Tame(s, [s EXCEPT !.lastSeen = now])
BY DEF Tame, SessionHolds, Session

LEMMA EnsuredTame ==
  ASSUME Ind, SessionsHold, NEW p \in Peers, NEW ss \in Ensured(p)
  PROVE  /\ ss \in [Peers -> Session]
         /\ \A q \in Peers : Tame(sessions[q], ss[q])
<1>1. ss \in [Peers -> Session] BY EnsuredFacts
<1>2. sessions \in [Peers -> Session] /\ \A q \in Peers : SessionHolds(sessions[q])
  BY Types DEF SessionsHold
<1>3. \A q \in Peers : ss[q] # sessions[q] =>
        sessions[q].perm \in {"Absent", "Pending"} /\ ss[q] \in {NewSession, NoSession}
  <2>1. CASE sessions[p].perm # "Absent" BY <2>1 DEF Ensured
  <2>2. CASE sessions[p].perm = "Absent" /\ ~AtCap(sessions)
    BY <1>2, <2>2 DEF Ensured
  <2>3. CASE sessions[p].perm = "Absent" /\ AtCap(sessions)
    <3>1. PICK v \in OldestPending(sessions) :
                 ss = [sessions EXCEPT ![v] = NoSession, ![p] = NewSession]
      BY <2>3 DEF Ensured
    <3>2. v \in Peers /\ sessions[v].perm = "Pending"
      BY <3>1 DEF OldestPending, PendingPeers
    <3> QED BY <1>2, <2>3, <3>1, <3>2
  <2> QED BY <2>1, <2>2, <2>3
<1> QED BY <1>1, <1>2, <1>3, TameSame, TameNew

LEMMA OpenedTame ==
  ASSUME Ind, SessionsHold, NEW p \in Peers, NEW ss \in Opened(p)
  PROVE  /\ ss \in [Peers -> Session] /\ ss[p] \in Session
         /\ \A q \in Peers : Tame(sessions[q], ss[q])
<1>1. PICK es \in Ensured(p) : ss = [es EXCEPT ![p].lastSeen = now]
  BY DEF Opened
<1>2. es \in [Peers -> Session] /\ \A q \in Peers : Tame(sessions[q], es[q])
  BY EnsuredTame
<1>3. es[p] \in Session /\ SessionHolds(es[p])
  BY <1>2 DEF Tame
<1>4. Tame(es[p], [es[p] EXCEPT !.lastSeen = now])
  BY <1>3, TameSeen
<1>5. ss[p] = [es[p] EXCEPT !.lastSeen = now] /\ \A q \in Peers : q # p => ss[q] = es[q]
  BY <1>1, <1>2
<1>6. \A q \in Peers : Tame(sessions[q], ss[q])
  BY <1>2, <1>4, <1>5, TameTwice
<1> QED BY <1>6, OpenedFacts

\* What the handlers of a pairing request write first.
LEMMA RequestedHolds ==
  ASSUME NEW s \in Session, now \in Nat
  PROVE  LET r == RefreshWindow(Requested(s, Me, Me)) IN
         /\ r \in Session
         /\ r.kex = s.kex /\ r.secure = s.secure /\ r.perm = s.perm
         /\ r.auth = NoAuth /\ r.pair = s.pair /\ r.verified = s.verified
         /\ r.attempts \in {s.attempts, 0} /\ r.key = Me
<1>1. 0 \in 0..AttemptLimit BY ConstantsAssumption DEF ConstantsAssumption
<1>2. Requested(s, Me, Me) \in Session
  BY RequestedType, SystemAssumption DEF SystemAssumption
<1>3. RefreshWindow(Requested(s, Me, Me)) \in Session
  BY <1>2, RefreshType
<1> QED BY <1>1, <1>3 DEF RefreshWindow, Requested, Session

(***************************************************************************)
(* The numbers drawn.                                                      *)
(***************************************************************************)
LEMMA Drawn ==
  ASSUME SystemInd
  PROVE  /\ \A q \in Peers : /\ sessions[q].kex.sid \in 0..issued.offer
                             /\ sessions[q].kex = NoKex <=> sessions[q].kex.sid = 0
         /\ \A m \in queue : IsOffer(m) => m.id \in 1..issued.offer
         /\ \A d \in downlink : IsOffer(d) => d.id \in 1..issued.offer
         /\ \A m \in uplink : /\ m.from \in Peers
                              /\ IsConfirm(m) => m.id \in 1..issued.offer
                              /\ m.kind = "AuthResponse" => m.id \in 1..issued.auth
         /\ \A i \in DOMAIN tasks : /\ IsKex(i) => tasks[i].arg \in 1..issued.offer
                                    /\ tasks[i].op = "Auth" => tasks[i].arg \in 1..issued.auth
         /\ IsOffer(hand) => hand.id \in 1..issued.offer
         /\ conn \in 0..MaxConnects /\ (conn > 0 => conn \in Peers) /\ (open => conn > 0)
<1>1. Ind /\ QueueIssued /\ SystemTypeOK /\ ClientTypeOK
  BY DEF SystemInd, SystemTypeOK
<1>2. ASSUME NEW q \in Peers
      PROVE  /\ sessions[q].kex.sid \in 0..issued.offer
             /\ sessions[q].kex = NoKex <=> sessions[q].kex.sid = 0
  <2>1. sessions[q] \in Session /\ issued.offer \in Nat BY <1>1, Types
  <2>2. sessions[q].kex \in {NoKex} \cup [sid : Nat \ {0}, expires : Nat]
    BY <2>1 DEF Session
  <2>3. sessions[q].kex.sid <= issued.offer BY <1>1 DEF Ind, AllSound, Sound
  <2> QED BY <2>1, <2>2, <2>3 DEF NoKex
<1>3. /\ \A m \in queue : IsOffer(m) => m.id \in 1..issued.offer
      /\ \A d \in downlink : IsOffer(d) => d.id \in 1..issued.offer
  BY <1>1 DEF QueueIssued, SystemTypeOK, IssuedAs, IsOffer
<1>4. \A m \in uplink : /\ m.from \in Peers
                        /\ IsConfirm(m) => m.id \in 1..issued.offer
                        /\ m.kind = "AuthResponse" => m.id \in 1..issued.auth
  BY <1>1, SystemAssumption DEF SystemTypeOK, AnswersHost, IsConfirm, SystemAssumption
<1>5. \A i \in DOMAIN tasks : /\ IsKex(i) => tasks[i].arg \in 1..issued.offer
                              /\ tasks[i].op = "Auth" => tasks[i].arg \in 1..issued.auth
  BY <1>1, Places DEF ClientTasks, IsKex
<1>6. IsOffer(hand) => hand.id \in 1..issued.offer
  BY <1>1 DEF ClientTypeOK, IssuedAs, IsOffer, Nothing
<1>7. conn \in 0..MaxConnects /\ (conn > 0 => conn \in Peers) /\ (open => conn > 0)
  BY <1>1, SystemAssumption, ClientAssumption
     DEF ClientTypeOK, SystemAssumption, ClientAssumption
<1> QED BY <1>2, <1>3, <1>4, <1>5, <1>6, <1>7

(***************************************************************************)
(* What a step of the host does to the network.                            *)
(***************************************************************************)
\* Offers leave the queue for the network, and new ones join them.
Moves(new) ==
  /\ downlink' \subseteq Datagram
  /\ \A m \in queue' : IsOffer(m) => m \in queue \cup new
  /\ \A d \in downlink' : IsOffer(d) =>
       \/ d \in downlink
       \/ d.key = NoKeys /\ Packet(d.to, "Offer", d.id) \in (queue \cup new) \ queue'

HostMoves == UNCHANGED clientVars /\ uplink' \subseteq uplink

LEMMA OneOfferKept ==
  ASSUME SystemInd, SystemInd', OneOffer, OffersApart', HostMoves,
         NEW new \in SUBSET Packets, Moves(new),
         \A m \in new : IsOffer(m) => m.id > issued.offer,
         \A m \in queue \cup new \cup downlink : IsOffer(m) => sessions'[m.to].kex.sid = m.id
  PROVE  OneOffer'
<1>1. /\ UNCHANGED <<tasks, hand>>
      /\ \A id : (Handed(id)' <=> Handed(id)) /\ (Tasked(id)' <=> Tasked(id))
                 /\ (Told(id)' => Told(id))
  BY DEF HostMoves, clientVars, Handed, Tasked, IsKex, Told
<1>2. queue \in SUBSET Packets /\ queue' \in SUBSET Packets
  BY Types DEF SystemInd, Ind, TypeOK, Packets
<1>3. \A m \in queue \cup new \cup downlink :
        IsOffer(m) => ~Handed(m.id) /\ ~Tasked(m.id) /\ ~Told(m.id)
  <2>1. \A m \in new : IsOffer(m) => ~Handed(m.id) /\ ~Tasked(m.id) /\ ~Told(m.id)
    <3> SUFFICES ASSUME NEW m \in new, IsOffer(m)
                 PROVE  ~Handed(m.id) /\ ~Tasked(m.id) /\ ~Told(m.id)
      OBVIOUS
    <3>1. m.id \notin 1..issued.offer BY Types DEF SystemInd
    <3> QED BY <3>1, Drawn DEF Handed, Tasked, Told
  <2> QED BY <2>1 DEF OneOffer
<1>4. /\ downlink' \subseteq Datagram
      /\ \A m \in queue' : IsOffer(m) => m \in queue \cup new
      /\ \A d \in downlink' : IsOffer(d) =>
           \/ d \in downlink
           \/ d.key = NoKeys /\ Packet(d.to, "Offer", d.id) \in (queue \cup new) \ queue'
  BY DEF Moves
<1>5. \A d \in downlink' : IsOffer(d) =>
        /\ d.key = NoKeys /\ sessions'[d.to].kex.sid = d.id
        /\ ~Handed(d.id) /\ ~Tasked(d.id) /\ ~Told(d.id)
  <2> SUFFICES ASSUME NEW d \in downlink', IsOffer(d)
               PROVE  /\ d.key = NoKeys /\ sessions'[d.to].kex.sid = d.id
                      /\ ~Handed(d.id) /\ ~Tasked(d.id) /\ ~Told(d.id)
    OBVIOUS
  <2>1. CASE d \in downlink BY <1>3, <2>1 DEF OneOffer
  <2>2. CASE d \notin downlink
    <3> DEFINE m == Packet(d.to, "Offer", d.id)
    <3>1. m \in queue \cup new /\ d.key = NoKeys BY <1>4, <2>2
    <3>2. m.to = d.to /\ m.id = d.id /\ IsOffer(m) BY DEF Packet, IsOffer
    <3> HIDE DEF m
    <3> QED BY <1>3, <3>1, <3>2
  <2> QED BY <2>1, <2>2
<1>6. \A m \in queue' : IsOffer(m) =>
        /\ sessions'[m.to].kex.sid = m.id
        /\ ~Handed(m.id) /\ ~Tasked(m.id) /\ ~Told(m.id)
  BY <1>3, <1>4
<1>7. ASSUME NEW m \in queue', NEW d \in downlink', IsOffer(m), IsOffer(d)
      PROVE  m.id # d.id
  <2>1. m \in queue \cup new BY <1>4, <1>7
  <2>2. CASE d \in downlink
    <3>1. d.id \in 1..issued.offer BY <1>7, <2>2, Drawn
    <3>2. CASE m \in queue BY <1>7, <2>2, <3>2 DEF OneOffer
    <3>3. CASE m \in new
      <4>1. m.id > issued.offer BY <1>7, <3>3
      <4>2. issued.offer \in Nat BY Types DEF SystemInd
      <4> QED BY <3>1, <4>1, <4>2
    <3> QED BY <2>1, <3>2, <3>3
  <2>3. CASE d \notin downlink
    <3> SUFFICES ASSUME m.id = d.id PROVE FALSE
      OBVIOUS
    <3>1. Packet(d.to, "Offer", d.id) \notin queue' BY <1>4, <1>7, <2>3
    <3>2. m.to \in Peers /\ m = [to |-> m.to, kind |-> "Offer", id |-> m.id]
      BY <1>2, <1>7 DEF Packets, IsOffer
    <3>3. d.to \in Peers BY <1>4 DEF Datagram
    <3>4. sessions'[m.to].kex.sid = m.id /\ sessions'[d.to].kex.sid = m.id
      BY <1>5, <1>6, <1>7
    <3>5. m.id # 0
      BY <1>7 DEF SystemInd, QueueIssued, IssuedAs, IsOffer
    <3>6. sessions'[m.to].kex # NoKex BY <3>4, <3>5 DEF NoKex
    <3>7. m.to = d.to BY <3>2, <3>3, <3>4, <3>6 DEF OffersApart
    <3> QED BY <3>1, <3>2, <3>7 DEF Packet
  <2> QED BY <2>2, <2>3
<1> QED
  <2>1. /\ \A i, j \in DOMAIN tasks' : (IsKex(i) /\ IsKex(j))' /\ tasks'[i].arg = tasks'[j].arg => i = j
        /\ \A m, n \in uplink' : IsConfirm(m) /\ IsConfirm(n) /\ m.id = n.id => m = n
    BY <1>1 DEF OneOffer, HostMoves, IsKex
  <2>2. IsOffer(hand)' => ~Tasked(hand.id)' /\ ~Told(hand.id)'
    BY <1>1 DEF OneOffer
  <2>3. \A i \in DOMAIN tasks' : IsKex(i)' => ~Told(tasks[i].arg)'
    BY <1>1 DEF OneOffer, IsKex
  <2> HIDE DEF HostMoves
  <2> QED BY <1>1, <1>4, <1>5, <1>6, <1>7, <2>1, <2>2, <2>3 DEF OneOffer, IsOffer

\* A session whose keys stand still, and whose challenge does, too, is spent,
\* or is a new one.
Steady(q) ==
  /\ sessions'[q].kex = sessions[q].kex /\ sessions'[q].secure = sessions[q].secure
  /\ sessions'[q].auth \in {sessions[q].auth, NoAuth} \/ sessions'[q].auth.id > issued.auth

\* The client has no offer at hand and no confirmation on its way to p.
Clear(p) ==
  /\ \A m \in uplink' : IsConfirm(m) => m.from # p
  /\ open /\ conn = p => /\ \A i \in DOMAIN tasks : ~(IsKex(i) /\ Now(i))
                         /\ ~(IsOffer(hand) /\ Now(Last))

LEMMA UnofferedKept ==
  ASSUME SystemInd, HostMoves, NEW q \in Peers, Steady(q), Unoffered(q)
  PROVE  Unoffered(q)'
<1>1. SUFFICES ASSUME LiveAuth(q)' PROVE FALSE
  BY DEF Unoffered, Steady
<1>2. PICK m \in uplink' : /\ m.kind = "AuthResponse" /\ m.from = q /\ m.key = NoKeys
                           /\ m.id = sessions'[q].auth.id
  BY <1>1 DEF LiveAuth
<1>3. m \in uplink /\ m.id \in 1..issued.auth
  BY <1>2, Drawn DEF HostMoves
<1>4. issued.auth \in Nat BY Types DEF SystemInd
<1>5. sessions'[q].auth = sessions[q].auth /\ sessions[q].auth # NoAuth
  BY <1>1, <1>2, <1>3, <1>4 DEF LiveAuth, Steady
<1> QED BY <1>2, <1>3, <1>5 DEF Unoffered, LiveAuth

LEMMA BareKept ==
  ASSUME SystemInd, HostMoves, conn \in Peers, Steady(conn),
         NEW i \in 1..Last, Bare(i)
  PROVE  Bare(i)'
<1>1. Unoffered(conn)' /\ UNCHANGED <<tasks, conn>>
  <2>1. UNCHANGED <<tasks, conn>> BY DEF HostMoves, clientVars
  <2>2. \A q : Unoffered(q)' /\ q = conn => Unoffered(conn)' BY <2>1 DEF Unoffered, LiveAuth
  <2> QED BY <2>1, <2>2, UnofferedKept DEF Bare
<1>2. SUFFICES ASSUME sessions'[conn].auth # NoAuth, NEW k \in 1..(i - 1)
               PROVE  tasks[k] # Task("Auth", sessions'[conn].auth.id)
  BY <1>1 DEF Bare
<1>3. CASE sessions'[conn].auth = sessions[conn].auth
  BY <1>2, <1>3 DEF Bare
<1>4. CASE sessions'[conn].auth.id > issued.auth
  <2>1. Len(tasks) \in Nat /\ DOMAIN tasks = 1..Len(tasks)
    BY Places DEF SystemInd, SystemTypeOK
  <2>2. k \in DOMAIN tasks BY <1>2, <2>1 DEF Last
  <2>3. tasks[k].op = "Auth" => tasks[k].arg \in 1..issued.auth BY <2>2, Drawn
  <2>4. issued.auth \in Nat BY Types DEF SystemInd
  <2> QED BY <1>4, <2>3, <2>4 DEF Task
<1> QED BY <1>2, <1>3, <1>4 DEF Steady

LEMMA KeysKept ==
  ASSUME SystemInd, HostMoves, StaleOffers, StaleConfirms, SameKeys,
         NEW P \in SUBSET Peers,
         \A q \in Peers \ P : Steady(q),
         \A p \in P : Clear(p),
         conn \in P /\ sessions'[conn].secure # NoKeys => ClientHas(sessions'[conn].secure)
  PROVE  StaleOffers' /\ StaleConfirms' /\ SameKeys'
<1>1. /\ UNCHANGED <<tasks, hand, conn, open, busy, codec>> /\ uplink' \subseteq uplink
      /\ \A i : Now(i)' <=> Now(i)
      /\ Last' = Last
      /\ \A c : Silenced(c)' <=> Silenced(c)
      /\ \A key : ClientHas(key)' <=> ClientHas(key)
  BY DEF HostMoves, clientVars, Now, Last, Silenced, ClientHas, Installs
<1>2. Len(tasks) \in Nat /\ DOMAIN tasks = 1..Len(tasks) /\ Last = Len(tasks) + 1
  BY Places DEF SystemInd, SystemTypeOK, Last
<1>3. /\ open => conn \in Peers
      /\ conn > 0 => conn \in Peers
      /\ \A m \in uplink : m.from \in Peers
  BY Drawn
<1>4. StaleOffers'
  <2>1. SUFFICES ASSUME open
                 PROVE  /\ \A i \in DOMAIN tasks : (IsKex(i) /\ Now(i) /\ Stale(tasks[i].arg))' => Bare(i)'
                        /\ (IsOffer(hand) /\ Now(Last) /\ Stale(hand.id))' => Bare(Last)'
    BY <1>1 DEF StaleOffers
  <2>2. CASE conn \in P
    BY <1>1, <2>1, <2>2 DEF Clear, IsKex, IsOffer
  <2>3. CASE conn \notin P
    <3>1. conn \in Peers /\ Steady(conn) BY <1>3, <2>1, <2>3
    <3>2. \A id : Stale(id)' => Stale(id) BY <1>1, <3>1 DEF Stale, Steady
    <3>3. \A i \in 1..Last : Bare(i) => Bare(i)' BY <3>1, BareKept
    <3>4. \A i \in DOMAIN tasks : (IsKex(i) /\ Now(i) /\ Stale(tasks[i].arg))' => Bare(i)'
      BY <1>1, <1>2, <2>1, <3>2, <3>3 DEF StaleOffers, IsKex
    <3>5. (IsOffer(hand) /\ Now(Last) /\ Stale(hand.id))' => Bare(Last)'
      <4>1. (IsOffer(hand) /\ Now(Last) /\ Stale(hand.id))' => IsOffer(hand) /\ Now(Last) /\ Stale(hand.id)
        BY <1>1, <3>2
      <4>2. Last \in 1..Last /\ (Bare(Last)' <=> \A i \in {Last} : Bare(i)')
        BY <1>1, <1>2 DEF Bare
      <4> QED BY <2>1, <3>3, <4>1, <4>2 DEF StaleOffers
    <3> QED BY <3>4, <3>5
  <2> QED BY <2>2, <2>3
<1>5. StaleConfirms'
  <2>1. SUFFICES ASSUME NEW m \in uplink', IsConfirm(m)
                 PROVE  /\ m.key = NoKeys
                        /\ sessions'[m.from].secure = NoKeys /\ sessions'[m.from].kex.sid # m.id =>
                             Unoffered(m.from)' /\ Silenced(m.from)'
    BY DEF StaleConfirms, IsConfirm
  <2>2. m \in uplink /\ m.from \in Peers BY <1>1, <1>3
  <2>3. m.from \notin P BY <2>1 DEF Clear
  <2>4. Steady(m.from) BY <2>2, <2>3
  <2>5. Unoffered(m.from) => \A q \in {m.from} : Unoffered(q)' BY <2>2, <2>4, UnofferedKept
  <2>6. (\A q \in {m.from} : Unoffered(q)') => Unoffered(m.from)' BY DEF Unoffered, LiveAuth
  <2> QED BY <1>1, <2>1, <2>2, <2>4, <2>5, <2>6 DEF StaleConfirms, Steady
<1>6. SameKeys'
  <2>1. SUFFICES ASSUME conn > 0
                 PROVE  /\ \A m \in uplink' :
                             IsConfirm(m) /\ m.from = conn /\ sessions'[conn].kex.sid = m.id =>
                               ClientHas([sid |-> m.id, eph |-> m.eph])'
                        /\ IsSecure(conn)' => ClientHas(sessions[conn].secure)'
    BY <1>1 DEF SameKeys, IsConfirm
  <2>2. conn \in Peers BY <1>3, <2>1
  <2>3. CASE conn \in P
    BY <1>1, <2>3 DEF Clear, IsSecure, ClientHas, Installs
  <2>4. CASE conn \notin P
    <3>1. Steady(conn) BY <2>2, <2>4
    <3> QED BY <1>1, <2>1, <3>1 DEF SameKeys, Steady, IsSecure, ClientHas, Installs
  <2> QED BY <2>3, <2>4
<1> QED BY <1>4, <1>5, <1>6

LEMMA RequestsKept ==
  ASSUME SystemInd, OneRequest, HostMoves,
         \A q \in Peers : Engaged(sessions'[q]) =>
           Engaged(sessions[q]) \/ \E m \in uplink \ uplink' : Asks(m) /\ m.from = q
  PROVE  OneRequest'
<1>1. /\ UNCHANGED <<conn, open>> /\ uplink' \subseteq uplink /\ (Due' => Due)
  BY DEF HostMoves, clientVars, Due, IsPair, Now, Posting, Last
<1>2. (open => conn \in Peers) /\ \A m \in uplink : m.from \in Peers
  BY Drawn
<1>3. \A m \in uplink' : Asks(m) => ~Engaged(sessions'[m.from])
  <2> SUFFICES ASSUME NEW m \in uplink', Asks(m), Engaged(sessions'[m.from])
               PROVE  FALSE
    OBVIOUS
  <2>1. ~Engaged(sessions[m.from]) BY <1>1 DEF OneRequest
  <2>2. PICK n \in uplink \ uplink' : Asks(n) /\ n.from = m.from BY <1>1, <1>2, <2>1
  <2> QED BY <1>1, <2>2 DEF OneRequest
<1>4. open /\ Due => ~Engaged(sessions'[conn])
  BY <1>2 DEF OneRequest
<1> QED BY <1>1, <1>3, <1>4 DEF OneRequest, Asks

LEMMA ProofKept ==
  ASSUME OneProof, HostMoves,
         Untrusted => Untrusted', Uncoded => Uncoded',
         \A q \in Peers : /\ sessions'[q].verified => sessions[q].verified
                          /\ sessions'[q].attempts \in {sessions[q].attempts, 0}
                          /\ sessions'[q].verified /\ sessions'[q].perm = "Pending" =>
                               sessions[q].perm = "Pending"
  PROVE  OneProof'
<1>1. /\ UNCHANGED <<tasks, taps>> /\ uplink' \subseteq uplink
  BY DEF HostMoves, clientVars
<1>2. Outstanding' => Outstanding
  BY <1>1 DEF Outstanding, IsSubmit, Proves
<1>3. /\ \A m, n \in uplink' : Proves(m) /\ Proves(n) => m = n
      /\ \A i, j \in DOMAIN tasks : IsSubmit(i) /\ IsSubmit(j) => i = j
      /\ \A i \in DOMAIN tasks, m \in uplink' : ~(IsSubmit(i) /\ Proves(m))
      /\ \A i : IsSubmit(i)' <=> IsSubmit(i)
  BY <1>1 DEF OneProof, IsSubmit
<1>4. Outstanding => taps.submit = 1 /\ Untrusted
  BY DEF OneProof
<1>5. taps.submit = 0 \/ Outstanding =>
        /\ Untrusted \/ Uncoded
        /\ \A p \in Peers : ~sessions'[p].verified /\ sessions'[p].attempts = 0
  BY DEF OneProof
<1>6. \A p \in Peers : sessions'[p].verified /\ sessions'[p].perm = "Pending" => Untrusted
  BY DEF OneProof
<1>7. \A p, q \in Peers : sessions'[p].verified /\ sessions'[q].verified => p = q
  BY DEF OneProof
<1> HIDE DEF Untrusted, Uncoded, Outstanding
<1> QED BY <1>1, <1>2, <1>3, <1>4, <1>5, <1>6, <1>7 DEF OneProof, Proves

LEMMA ApartKept ==
  ASSUME SystemInd, OffersApart, NEW p \in Peers,
         \A q \in Peers \ {p} : sessions'[q].kex = sessions[q].kex,
         sessions'[p].kex \in {sessions[p].kex, NoKex} \/ sessions'[p].kex.sid > issued.offer
  PROVE  OffersApart'
<1>1. issued.offer \in Nat BY Types DEF SystemInd
<1>2. \A q \in Peers : /\ sessions[q].kex.sid \in 0..issued.offer
                       /\ sessions[q].kex = NoKex <=> sessions[q].kex.sid = 0
  BY Drawn
<1>3. NoKex.sid = 0 BY DEF NoKex
<1>4. ASSUME NEW a \in Peers, NEW b \in Peers, sessions'[a].kex # NoKex,
             sessions'[a].kex.sid = sessions'[b].kex.sid
      PROVE  a = b
  <2>1. CASE a # p /\ b # p BY <1>4, <2>1 DEF OffersApart
  <2>2. CASE a = p /\ b # p
    BY <1>1, <1>2, <1>3, <1>4, <2>2 DEF OffersApart
  <2>3. CASE a # p /\ b = p
    BY <1>1, <1>2, <1>3, <1>4, <2>3 DEF OffersApart
  <2> QED BY <2>1, <2>2, <2>3
<1> QED BY <1>4 DEF OffersApart

\* A step of the host that keeps every session but those in P steady.
LEMMA HostKeepsOrder ==
  ASSUME SystemInd, SystemInd', Orderly, HostMoves, now' = now,
         OffersApart', OneProof',
         \A q \in Peers : SessionHolds(sessions'[q]),
         \A q \in Peers : Engaged(sessions'[q]) =>
           Engaged(sessions[q]) \/ \E m \in uplink \ uplink' : Asks(m) /\ m.from = q,
         NEW P \in SUBSET Peers,
         \A q \in Peers \ P : Steady(q),
         \A p \in P : Clear(p),
         conn \in P /\ sessions'[conn].secure # NoKeys => ClientHas(sessions'[conn].secure),
         NEW new \in SUBSET Packets, Moves(new),
         \A m \in new : IsOffer(m) => m.id > issued.offer,
         \A m \in queue \cup new \cup downlink : IsOffer(m) => sessions'[m.to].kex.sid = m.id
  PROVE  Orderly'
<1>1. SessionsHold /\ OnePair /\ OneRequest /\ OneProof
      /\ OneOffer /\ StaleOffers /\ StaleConfirms /\ SameKeys
  BY DEF Orderly
<1>2. SessionsHold'
  <2>1. UNCHANGED conn BY DEF HostMoves, clientVars
  <2>2. ASSUME NEW q \in Peers \ 1..conn, Engaged(sessions'[q])
        PROVE  FALSE
    <3>1. ~Engaged(sessions[q]) BY <1>1, <2>2 DEF SessionsHold
    <3>2. PICK m \in uplink : m.from = q BY <2>2, <3>1
    <3>3. m.from \in 1..MaxConnects BY DEF SystemInd, SystemTypeOK, AnswersHost
    <3>4. m.from <= conn BY <1>1 DEF OneRequest
    <3>5. conn \in 0..MaxConnects /\ MaxConnects \in Nat
      BY Drawn, ClientAssumption DEF ClientAssumption
    <3> QED BY <2>2, <3>2, <3>3, <3>4, <3>5
  <2> QED BY <1>1, <2>1, <2>2 DEF SessionsHold
<1>3. OnePair'
  BY <1>1 DEF HostMoves, clientVars, OnePair, IsPair, Posting
<1>4. OneRequest' BY <1>1, RequestsKept
<1>5. OneOffer' BY <1>1, OneOfferKept
<1>6. StaleOffers' /\ StaleConfirms' /\ SameKeys' BY <1>1, KeysKept
<1> QED BY <1>2, <1>3, <1>4, <1>5, <1>6 DEF Orderly

LEMMA OffersArePlain ==
  ASSUME SystemInd, Orderly, NEW m \in queue, IsOffer(m)
  PROVE  m.to \in Peers /\ sessions[m.to].kex # NoKex /\ sessions[m.to].secure = NoKeys
<1>1. m.to \in Peers BY Types DEF SystemInd, Packets
<1>2. sessions[m.to].kex.sid = m.id BY DEF Orderly, OneOffer
<1>3. m.id \in 1..issued.offer BY Drawn
<1>4. sessions[m.to].kex # NoKex BY <1>1, <1>2, <1>3, Drawn
<1>5. SessionHolds(sessions[m.to]) BY <1>1 DEF Orderly, SessionsHold
<1> QED BY <1>1, <1>4, <1>5 DEF SessionHolds

LEMMA WireMoves ==
  ASSUME SystemInd, SystemInd', Orderly, HostSends, NEW new \in SUBSET Packets,
         \A m \in queue' : IsOffer(m) => m \in queue \cup new,
         \A d \in wire' : IsOffer(d) =>
           d.key = NoKeys /\ Packet(d.to, "Offer", d.id) \in (queue \cup new) \ queue'
  PROVE  Moves(new)
<1>1. wire' \subseteq Datagram BY DEF SystemInd, Ind, TypeOK, Datagram
<1>2. downlink \subseteq Datagram BY DEF Orderly, OneOffer
<1> QED BY <1>1, <1>2 DEF Moves, HostSends

LEMMA FlushMoves ==
  ASSUME SystemInd, SystemInd', Orderly, HostSends,
         NEW fs, NEW new \in SUBSET Packets, NEW direct,
         Flush(fs, queue \cup new, direct),
         \A d \in direct : ~IsOffer(d),
         \A m \in queue \cup new : IsOffer(m) => fs[m.to].secure = NoKeys
  PROVE  Moves(new)
<1>1. PICK out \in SUBSET (queue \cup new) :
             /\ queue' = (queue \cup new) \ out
             /\ wire' = direct \cup {Sealed(fs, m) : m \in out}
  BY DEF Flush
<1>2. ASSUME NEW d \in wire', IsOffer(d)
      PROVE  d.key = NoKeys /\ Packet(d.to, "Offer", d.id) \in (queue \cup new) \ queue'
  <2>1. PICK m \in out : d = Sealed(fs, m) BY <1>1, <1>2
  <2>2. /\ d.to = m.to /\ d.id = m.id /\ d.kind = m.kind /\ d.key = fs[m.to].secure
    BY <2>1 DEF Sealed
  <2>3. m \in Packets BY <2>1, Types DEF SystemInd
  <2>4. m = Packet(d.to, "Offer", d.id)
    BY <1>2, <2>2, <2>3 DEF Packets, Packet, IsOffer
  <2> QED BY <1>1, <1>2, <2>1, <2>2, <2>4 DEF IsOffer
<1> QED BY <1>1, <1>2, WireMoves

\* A step that makes no offer and uses none.
LEMMA StillKeepsOrder ==
  ASSUME SystemInd, SystemInd', Orderly, HostMoves, now' = now,
         \A q \in Peers : Steady(q) /\ SessionHolds(sessions'[q]),
         \A q \in Peers : Engaged(sessions'[q]) =>
           Engaged(sessions[q]) \/ \E m \in uplink \ uplink' : Asks(m) /\ m.from = q,
         OneProof',
         NEW new \in SUBSET Packets, Moves(new), \A m \in new : ~IsOffer(m)
  PROVE  Orderly'
<1>1. OffersApart'
  BY DEF Orderly, SessionsHold, OffersApart, Steady
<1>2. \A m \in queue \cup new \cup downlink : IsOffer(m) => sessions'[m.to].kex.sid = m.id
  <2> SUFFICES ASSUME NEW m \in queue \cup downlink, IsOffer(m)
               PROVE  sessions'[m.to].kex.sid = m.id
    OBVIOUS
  <2>1. m.to \in Peers
    <3>1. queue \subseteq Packets BY Types DEF SystemInd
    <3> QED BY <3>1 DEF Packets, Datagram, Orderly, OneOffer
  <2>2. sessions[m.to].kex.sid = m.id BY DEF Orderly, OneOffer
  <2> QED BY <2>1, <2>2 DEF Steady
<1>3. /\ {} \in SUBSET Peers /\ \A q \in Peers \ {} : Steady(q)
      /\ \A p \in {} : Clear(p)
      /\ conn \in {} /\ sessions'[conn].secure # NoKeys => ClientHas(sessions'[conn].secure)
      /\ \A m \in new : IsOffer(m) => m.id > issued.offer
  OBVIOUS
<1> QED BY <1>1, <1>2, <1>3, HostKeepsOrder

LEMMA TameKeepsOrder ==
  ASSUME SystemInd, SystemInd', Orderly, HostMoves, now' = now,
         Untrusted => Untrusted', Uncoded => Uncoded',
         \A q \in Peers : Tame(sessions[q], sessions'[q]),
         NEW new \in SUBSET Packets, Moves(new), \A m \in new : ~IsOffer(m)
  PROVE  Orderly'
<1>1. \A q \in Peers : Steady(q) /\ SessionHolds(sessions'[q]) BY DEF Tame, Steady
<1>2. OneProof' BY ProofKept DEF Orderly, Tame
<1>3. \A q \in Peers : Engaged(sessions'[q]) =>
           Engaged(sessions[q]) \/ \E m \in uplink \ uplink' : Asks(m) /\ m.from = q
  BY TameEngaged
<1> QED BY <1>1, <1>2, <1>3, StillKeepsOrder

(***************************************************************************)
(* The handlers that leave the keys alone.                                 *)
(***************************************************************************)
LEMMA SessionsTyped ==
  ASSUME SystemInd, Orderly
  PROVE  Ind /\ SessionsHold /\ now = 0 /\ now \in Nat
BY DEF SystemInd, Orderly, SessionsHold

LEMMA OtherPacket ==
  ASSUME NEW p \in Peers, NEW kind \in PacketKinds, kind # "Offer"
  PROVE  /\ {Packet(p, kind, 0)} \in SUBSET Packets
         /\ \A m \in {Packet(p, kind, 0)} : ~IsOffer(m)
BY DEF Packet, Packets, IsOffer

\* A datagram of p that changes at most its permission and drops its challenge.
LEMMA SeenKeepsOrder ==
  ASSUME SystemInd, SystemInd', Orderly, HostMoves, HostSends,
         UNCHANGED <<now, issued, store>>,
         NEW p \in Peers, NEW ss \in Opened(p), NEW t \in Session,
         Tame(ss[p], t), sessions' = [ss EXCEPT ![p] = t],
         NEW new \in SUBSET Packets, \A m \in new : ~IsOffer(m),
         Flush(ss, queue \cup new, {})
  PROVE  Orderly'
<1>1. Ind /\ SessionsHold BY SessionsTyped
<1>2. /\ ss \in [Peers -> Session]
      /\ \A q \in Peers : Tame(sessions[q], ss[q])
  BY <1>1, OpenedTame
<1>3. sessions'[p] = t /\ \A q \in Peers : q # p => sessions'[q] = ss[q] BY <1>2
<1>4. \A q \in Peers : Tame(sessions[q], sessions'[q]) BY <1>2, <1>3, TameTwice
<1>5. \A m \in queue \cup new : IsOffer(m) => ss[m.to].secure = NoKeys
  BY <1>2, OffersArePlain DEF Tame
<1>6. \A d \in {} : ~IsOffer(d) OBVIOUS
<1>7. Moves(new) BY <1>5, <1>6, FlushMoves
<1>8. (Untrusted => Untrusted') /\ (Uncoded => Uncoded') BY DEF Untrusted, Uncoded
<1> QED BY <1>4, <1>7, <1>8, TameKeepsOrder

LEMMA RefusedTame ==
  ASSUME NEW s \in Session, SessionHolds(s)
  PROVE  /\ [s EXCEPT !.perm = "Rejected", !.auth = NoAuth] \in Session
         /\ [s EXCEPT !.perm = "Rejected"] \in Session
         /\ Tame(s, [s EXCEPT !.perm = "Rejected", !.auth = NoAuth])
         /\ Tame(s, [s EXCEPT !.perm = "Rejected"])
<1> DEFINE t == [s EXCEPT !.perm = "Rejected", !.auth = NoAuth]
           u == [s EXCEPT !.perm = "Rejected"]
<1>1. t \in Session /\ u \in Session
  <2>1. t \in Session BY DEF Session
  <2>2. u \in Session BY DEF Session
  <2> QED BY <2>1, <2>2
<1>2. /\ t.perm = "Rejected" /\ t.auth = NoAuth /\ t.key = s.key /\ t.verified = s.verified
      /\ t.kex = s.kex /\ t.secure = s.secure /\ t.pair = s.pair /\ t.attempts = s.attempts
  BY DEF Session
<1>3. /\ u.perm = "Rejected" /\ u.auth = s.auth /\ u.key = s.key /\ u.verified = s.verified
      /\ u.kex = s.kex /\ u.secure = s.secure /\ u.pair = s.pair /\ u.attempts = s.attempts
  BY DEF Session
<1> HIDE DEF t, u
<1>4. Tame(s, t) BY <1>2 DEF Tame, SessionHolds
<1>5. Tame(s, u) BY <1>3 DEF Tame, SessionHolds
<1> QED BY <1>1, <1>4, <1>5 DEF t, u

LEMMA QuietKeepsOrder ==
  ASSUME SystemInd, SystemInd', Orderly, HostMoves, HostSends,
         NEW p \in Peers, NEW key,
         \/ \E kind : Unapproved(p, key, kind)
         \/ ReceiveInput(p, key) \/ ReceivePing(p, key) \/ ReceiveConfig(p, key)
         \/ \E id, dev : AuthRefused(p, key, id, dev)
  PROVE  Orderly'
<1>1. Ind /\ SessionsHold /\ Policy = "RequireApproval"
  BY SessionsTyped, SystemAssumption DEF SystemAssumption
<1>2. \A ss \in Opened(p) : /\ ss \in [Peers -> Session] /\ ss[p] \in Session
                            /\ SessionHolds(ss[p])
  BY <1>1, OpenedTame DEF Tame
<1>3. PICK ss \in Opened(p), kind \in {"Pong", "Refused"} :
        /\ \/ sessions' = ss
           \/ sessions' = [ss EXCEPT ![p] = ss[p]]
           \/ sessions' = [ss EXCEPT ![p] = [ss[p] EXCEPT !.perm = "Rejected", !.auth = NoAuth]]
        /\ Flush(ss, queue, {}) \/ Flush(ss, queue \cup {Packet(p, kind, 0)}, {})
  <2>1. CASE \E kind : Unapproved(p, key, kind) BY <2>1 DEF Unapproved
  <2>2. CASE ReceiveInput(p, key) BY <1>1, <2>2 DEF ReceiveInput, AutoApproved
  <2>3. CASE ReceivePing(p, key) BY <1>1, <2>3 DEF ReceivePing, AutoApproved
  <2>4. CASE ReceiveConfig(p, key) BY <1>1, <2>4 DEF ReceiveConfig, AutoApproved
  <2>5. CASE \E id, dev : AuthRefused(p, key, id, dev) BY <2>5 DEF AuthRefused
  <2> QED BY <2>1, <2>2, <2>3, <2>4, <2>5
<1>4. UNCHANGED <<now, issued, store>>
  BY DEF Unapproved, ReceiveInput, ReceivePing, ReceiveConfig, AuthRefused
<1>5. PICK t \in Session : Tame(ss[p], t) /\ sessions' = [ss EXCEPT ![p] = t]
  <2>1. ss = [ss EXCEPT ![p] = ss[p]] BY <1>2
  <2> QED BY <1>2, <1>3, <2>1, RefusedTame, TameSame
<1>6. PICK new \in SUBSET Packets :
        (\A m \in new : ~IsOffer(m)) /\ Flush(ss, queue \cup new, {})
  <2>1. {} \in SUBSET Packets /\ (\A m \in {} : ~IsOffer(m)) /\ queue \cup {} = queue
    OBVIOUS
  <2>2. /\ {Packet(p, kind, 0)} \in SUBSET Packets
        /\ \A m \in {Packet(p, kind, 0)} : ~IsOffer(m)
    BY OtherPacket DEF PacketKinds
  <2> QED BY <1>3, <2>1, <2>2
<1> QED BY <1>4, <1>5, <1>6, SeenKeepsOrder

LEMMA IdleKeepsOrder ==
  ASSUME SystemInd, SystemInd', Orderly, HostMoves, HostSends, PollIdle
  PROVE  Orderly'
<1>1. Flush(sessions, queue \cup {}, {}) /\ UNCHANGED <<sessions, store, issued, now>>
  <2>1. queue \cup {} = queue
    OBVIOUS
  <2> QED BY <2>1 DEF PollIdle
<1>2. \A q \in Peers : Tame(sessions[q], sessions'[q])
  BY <1>1, TameSame DEF Orderly, SessionsHold
<1>3. Moves({})
  <2>1. {} \in SUBSET Packets /\ \A d \in {} : ~IsOffer(d)
    OBVIOUS
  <2>2. \A m \in queue \cup {} : IsOffer(m) => sessions[m.to].secure = NoKeys
    BY OffersArePlain
  <2> QED BY <1>1, <2>1, <2>2, FlushMoves
<1>4. (Untrusted => Untrusted') /\ (Uncoded => Uncoded') BY <1>1 DEF Untrusted, Uncoded
<1> QED BY <1>1, <1>2, <1>3, <1>4, TameKeepsOrder

\* Steps that leave the queue alone and send no offer.
LEMMA NoOfferMoves ==
  ASSUME SystemInd, SystemInd', Orderly, HostSends, queue' = queue,
         \A d \in wire' : ~IsOffer(d)
  PROVE  Moves({})
BY WireMoves

LEMMA RejectKeepsOrder ==
  ASSUME SystemInd, SystemInd', Orderly, HostMoves, HostSends, NEW p \in Peers, Reject(p)
  PROVE  Orderly'
<1>1. Ind /\ SessionsHold BY SessionsTyped
<1>2. PICK ss \in Ensured(p) : sessions' = [ss EXCEPT ![p].perm = "Rejected"]
  BY DEF Reject
<1>3. ss \in [Peers -> Session] /\ \A q \in Peers : Tame(sessions[q], ss[q])
  BY <1>1, EnsuredTame
<1>4. Tame(ss[p], [ss[p] EXCEPT !.perm = "Rejected"])
  BY <1>3, RefusedTame DEF Tame
<1>5. /\ sessions'[p] = [ss[p] EXCEPT !.perm = "Rejected"]
      /\ \A q \in Peers : q # p => sessions'[q] = ss[q]
  BY <1>2, <1>3
<1>6. \A q \in Peers : Tame(sessions[q], sessions'[q])
  BY <1>3, <1>4, <1>5, TameTwice
<1>7. /\ UNCHANGED <<store, issued, now, queue>>
      /\ wire' = {Plain(Packet(p, "Refused", 0))}
  BY DEF Reject
<1>8. \A d \in wire' : ~IsOffer(d) BY <1>7 DEF Plain, Packet, IsOffer
<1>9. Moves({}) BY <1>7, <1>8, NoOfferMoves
<1>10. (Untrusted => Untrusted') /\ (Uncoded => Uncoded') BY <1>7 DEF Untrusted, Uncoded
<1> QED BY <1>6, <1>7, <1>9, <1>10, TameKeepsOrder

LEMMA SetPermissionKeepsOrder ==
  ASSUME SystemInd, SystemInd', Orderly, HostMoves, HostSends,
         NEW d \in Devices, NEW permission \in {"allow", "deny"}, NEW exactCase,
         SetPermission(d, permission, exactCase)
  PROVE  Orderly'
<1>1. sessions \in [Peers -> Session] /\ store \in [Devices -> {"none", "allow", "deny"}]
  BY Types DEF SystemInd
<1>2. ASSUME NEW q \in Peers
      PROVE  Tame(sessions[q], sessions'[q])
  <2>1. SessionHolds(sessions[q]) /\ sessions[q] \in Session
    BY <1>1 DEF Orderly, SessionsHold
  <2>2. Tame(sessions[q], [sessions[q] EXCEPT !.input = permission])
    BY <2>1 DEF Tame, SessionHolds, Session
  <2>3. sessions'[q] \in {sessions[q], [sessions[q] EXCEPT !.input = permission]}
    BY DEF SetPermission
  <2> QED BY <2>1, <2>2, <2>3, TameSame
<1>3. UNCHANGED <<issued, now, queue>> /\ wire' = {} /\ store' = [store EXCEPT ![d] = permission]
      /\ store[d] # "none"
  BY DEF SetPermission
<1>4. Moves({}) BY <1>3, NoOfferMoves
<1>5. store'[Me] = "none" <=> store[Me] = "none"
  BY <1>1, <1>3, SystemAssumption DEF SystemAssumption
<1>6. (Untrusted => Untrusted') /\ (Uncoded => Uncoded') BY <1>3, <1>5 DEF Untrusted, Uncoded
<1> QED BY <1>2, <1>3, <1>4, <1>6, TameKeepsOrder

LEMMA IgnoreKeepsOrder ==
  ASSUME SystemInd, SystemInd', Orderly, HostMoves, HostSends, IgnoreDialog
  PROVE  Orderly'
<1>1. UNCHANGED <<sessions, store, issued, now, queue>> /\ wire' = {} BY DEF IgnoreDialog
<1>2. \A q \in Peers : Tame(sessions[q], sessions'[q])
  BY <1>1, TameSame DEF Orderly, SessionsHold
<1>3. Moves({}) BY <1>1, NoOfferMoves
<1>4. (Untrusted => Untrusted') /\ (Uncoded => Uncoded') BY <1>1 DEF Untrusted, Uncoded
<1> QED BY <1>1, <1>2, <1>3, <1>4, TameKeepsOrder

(***************************************************************************)
(* The handlers of a pairing request.                                      *)
(***************************************************************************)
\* What is asked of the instance: the network makes no copies, one refused code
\* does not block a session, and the operator answers dialogs and changes
\* permissions, but does not approve twice at the console or forget a device.
OneAtATime ==
  /\ MaxCopies = 0 /\ AttemptLimit > 1
  /\ "approve" \notin Commands /\ "forget" \notin Commands

Consumes(m) == m \in uplink /\ uplink' = uplink \ {m}

\* A session that was not answered is not approved either.
LEMMA AskedSession ==
  ASSUME SystemInd, Orderly, NEW m \in uplink, Asks(m), NEW ss \in Opened(m.from)
  PROVE  /\ ~Engaged(ss[m.from]) /\ ss[m.from].perm # "Approved"
         /\ SessionHolds(ss[m.from]) /\ ss[m.from] \in Session
<1> DEFINE p == m.from
<1>1. p \in Peers /\ Ind /\ SessionsHold BY Drawn, SessionsTyped
<1>2. ~Engaged(sessions[p]) BY DEF Orderly, OneRequest
<1>3. Tame(sessions[p], ss[p]) /\ ss[p] \in Session BY <1>1, OpenedTame
<1>4. ~Engaged(ss[p]) BY <1>2, <1>3, TameEngaged
<1>5. Sound(ss[p], code, issued, accepted) BY <1>1, OpenedFacts
<1>6. Policy = "RequireApproval" BY SystemAssumption DEF SystemAssumption
<1> QED BY <1>3, <1>4, <1>5, <1>6 DEF Tame, Engaged, Sound

\* The step of a request that is answered with a challenge: the sessions but
\* that of the request are tame, and that one becomes t.
LEMMA AnsweredKeepsOrder ==
  ASSUME SystemInd, SystemInd', Orderly, HostMoves, HostSends, now' = now,
         NEW m \in uplink, Consumes(m), Asks(m),
         Untrusted => Untrusted', Uncoded => Uncoded',
         \A q \in Peers \ {m.from} : Tame(sessions[q], sessions'[q]),
         NEW ss \in Opened(m.from), NEW t, sessions'[m.from] = t,
         t.kex = ss[m.from].kex, t.secure = ss[m.from].secure,
         t.auth = NoAuth \/ (t.auth.id > issued.auth /\ t.key = Me),
         ~t.verified, t.attempts \in {ss[m.from].attempts, 0}, t.perm = ss[m.from].perm,
         Moves({})
  PROVE  Orderly'
<1> DEFINE p == m.from
<1>1. p \in Peers /\ Ind /\ SessionsHold BY Drawn, SessionsTyped
<1>2. Tame(sessions[p], ss[p]) BY <1>1, OpenedTame
<1>3. ~Engaged(ss[p]) /\ ss[p].perm # "Approved" /\ SessionHolds(ss[p]) BY AskedSession
<1>4. SessionHolds(t) BY <1>3 DEF SessionHolds, Engaged
<1>5. Steady(p) BY <1>2 DEF Steady, Tame
<1>6. \A q \in Peers : Steady(q) /\ SessionHolds(sessions'[q])
  BY <1>4, <1>5 DEF Steady, Tame
<1>7. OneProof'
  <2>1. \A q \in Peers : /\ sessions'[q].verified => sessions[q].verified
                         /\ sessions'[q].attempts \in {sessions[q].attempts, 0}
                         /\ sessions'[q].verified /\ sessions'[q].perm = "Pending" =>
                              sessions[q].perm = "Pending"
    BY <1>2 DEF Tame
  <2> QED BY <2>1, ProofKept DEF Orderly
<1>8. \A q \in Peers : Engaged(sessions'[q]) =>
           Engaged(sessions[q]) \/ \E n \in uplink \ uplink' : Asks(n) /\ n.from = q
  BY TameEngaged DEF Consumes
<1>9. {} \in SUBSET Packets /\ \A n \in {} : ~IsOffer(n)
  OBVIOUS
<1> QED BY <1>6, <1>7, <1>8, <1>9, StillKeepsOrder

LEMMA ChallengeTrustedKeepsOrder ==
  ASSUME SystemInd, SystemInd', Orderly, HostMoves, HostSends,
         NEW m \in uplink, Consumes(m), Asks(m), ChallengeTrusted(m.from, m.key, Me)
  PROVE  Orderly'
<1> DEFINE p == m.from
           n == issued.auth + 1
           a == [id |-> n, dev |-> Me, issued |-> now]
           d == Plain(Packet(p, "AuthChallenge", n))
<1>1. p \in Peers /\ Ind /\ SessionsHold BY Drawn, SessionsTyped
<1>2. PICK ss \in Opened(p) :
        /\ sessions' = [ss EXCEPT ![p] = [Requested(ss[p], Me, Me) EXCEPT
                                            !.auth = a, !.input = store[Me]]]
        /\ Flush(ss, queue, {d})
  BY DEF ChallengeTrusted
<1>3. /\ ss \in [Peers -> Session] /\ ss[p] \in Session
      /\ \A q \in Peers : Tame(sessions[q], ss[q])
  BY <1>1, OpenedTame
<1> DEFINE t == [Requested(ss[p], Me, Me) EXCEPT !.auth = a, !.input = store[Me]]
<1>4. /\ t.kex = ss[p].kex /\ t.secure = ss[p].secure /\ t.auth = a /\ t.key = Me
      /\ t.verified = ss[p].verified /\ t.attempts = ss[p].attempts /\ t.perm = ss[p].perm
  BY <1>3 DEF Requested, Session
<1>5. a.id > issued.auth /\ issued.auth \in Nat BY <1>1, Types
<1>6. sessions'[p] = t /\ \A q \in Peers \ {p} : sessions'[q] = ss[q]
  <2>1. sessions' = [ss EXCEPT ![p] = t] BY <1>2
  <2> HIDE DEF t
  <2> QED BY <1>1, <1>3, <2>1
<1>7. ~t.verified BY <1>4, AskedSession DEF Engaged
<1>8. Moves({})
  <2>1. \A x \in {d} : ~IsOffer(x) BY DEF Plain, Packet, IsOffer
  <2>2. \A x \in queue \cup {} : IsOffer(x) => ss[x.to].secure = NoKeys
    BY <1>3, OffersArePlain DEF Tame
  <2>3. {} \in SUBSET Packets /\ queue \cup {} = queue
    OBVIOUS
  <2> HIDE DEF d
  <2> QED BY <1>2, <2>1, <2>2, <2>3, FlushMoves
<1>9. now' = now /\ (Untrusted => Untrusted') /\ (Uncoded => Uncoded')
  BY <1>1, Types DEF ChallengeTrusted, Untrusted, Uncoded, Counters
<1>10. \A q \in Peers \ {p} : Tame(sessions[q], sessions'[q]) BY <1>3, <1>6
<1>11. t.auth.id > issued.auth /\ t.key = Me BY <1>4, <1>5
<1> HIDE DEF t, a
<1> QED BY <1>4, <1>6, <1>7, <1>8, <1>9, <1>10, <1>11, AnsweredKeepsOrder

LEMMA NotBlocked ==
  ASSUME Ind, SessionsHold, OneAtATime, NEW s, NEW t, SessionHolds(t), t \in Session,
         s.attempts \in {t.attempts, 0}
  PROVE  ~Blocked(s)
<1>1. t.attempts \in Nat /\ t.attempts <= 1 BY DEF SessionHolds, Session
<1>2. AttemptLimit \in Nat /\ AttemptLimit > 1
  BY ConstantsAssumption DEF ConstantsAssumption, OneAtATime
<1> QED BY <1>1, <1>2 DEF Blocked

LEMMA ClearedTame ==
  ASSUME NEW ss, \A q \in Peers : SessionHolds(ss[q]) /\ ss[q] \in Session
  PROVE  \A q \in Peers : /\ ClearChallenges(ss)[q] \in Session
                          /\ Tame(ss[q], ClearChallenges(ss)[q])
<1> SUFFICES ASSUME NEW q \in Peers
             PROVE  ClearChallenges(ss)[q] \in Session /\ Tame(ss[q], ClearChallenges(ss)[q])
  OBVIOUS
<1> DEFINE s == ss[q]
           u == ClearChallenges(ss)[q]
<1>1. u = [s EXCEPT !.pair = NoPair] /\ s \in Session /\ SessionHolds(s)
  BY DEF ClearChallenges
<1> HIDE DEF s, u
<1>2. u \in Session BY <1>1 DEF Session
<1>3. /\ u.perm = s.perm /\ u.devId = s.devId /\ u.key = s.key /\ u.auth = s.auth
      /\ u.pair = NoPair /\ u.attempts = s.attempts /\ u.verified = s.verified
      /\ u.kex = s.kex /\ u.secure = s.secure
  BY <1>1 DEF Session
<1>4. Tame(s, u) BY <1>1, <1>3 DEF Tame, SessionHolds
<1> QED BY <1>2, <1>4 DEF s, u

LEMMA IssuePairingCodeKeepsOrder ==
  ASSUME SystemInd, SystemInd', Orderly, HostMoves, HostSends, OneAtATime,
         NEW m \in uplink, Consumes(m), Asks(m), IssuePairingCode(m.from, m.key, Me, Me)
  PROVE  Orderly' /\ host' = host
<1> DEFINE p == m.from
           salt == issued.salt + 1
           d == Plain(Packet(p, "PairingChallenge", salt))
           first(cs) == RefreshWindow(Requested(cs[p], Me, Me))
<1>1. p \in Peers /\ Ind /\ SessionsHold /\ now \in Nat BY Drawn, SessionsTyped
<1>2. PICK ss \in Opened(p) :
        \E cs \in {ss, ClearChallenges(ss)}, c \in {code, RotatedCode} :
          \/ Blocked(first(cs))
          \/ /\ sessions' = [cs EXCEPT ![p] =
                  [first(cs) EXCEPT !.verified = FALSE,
                      !.pair = [salt |-> salt, gen |-> c.gen,
                                expires |-> Least(now + ChallengeTTL, c.expires)]]]
             /\ issued' = [issued EXCEPT !.salt = salt]
             /\ Flush(ss, queue, {d})
             /\ UNCHANGED <<host, store, now>>
  BY DEF IssuePairingCode
<1> PICK cs \in {ss, ClearChallenges(ss)}, c \in {code, RotatedCode} :
        \/ Blocked(first(cs))
        \/ /\ sessions' = [cs EXCEPT ![p] =
                [first(cs) EXCEPT !.verified = FALSE,
                    !.pair = [salt |-> salt, gen |-> c.gen,
                              expires |-> Least(now + ChallengeTTL, c.expires)]]]
           /\ issued' = [issued EXCEPT !.salt = salt]
           /\ Flush(ss, queue, {d})
           /\ UNCHANGED <<host, store, now>>
  BY <1>2
<1>3. /\ ss \in [Peers -> Session] /\ ss[p] \in Session
      /\ \A q \in Peers : Tame(sessions[q], ss[q])
  BY <1>1, OpenedTame
<1>4. \A q \in Peers : /\ cs[q] \in Session /\ Tame(ss[q], cs[q])
  <2>1. \A q \in Peers : SessionHolds(ss[q]) /\ ss[q] \in Session BY <1>3 DEF Tame
  <2>2. CASE cs = ss BY <2>1, <2>2, TameSame
  <2>3. CASE cs = ClearChallenges(ss) BY <2>1, <2>3, ClearedTame
  <2> QED BY <2>2, <2>3
<1>5. cs \in [Peers -> Session] BY <1>3, <1>4 DEF ClearChallenges
<1> DEFINE s == first(cs)
           pair == [salt |-> salt, gen |-> c.gen,
                    expires |-> Least(now + ChallengeTTL, c.expires)]
           t == [s EXCEPT !.verified = FALSE, !.pair = pair]
<1>6. /\ s \in Session
      /\ s.kex = cs[p].kex /\ s.secure = cs[p].secure /\ s.perm = cs[p].perm
      /\ s.auth = NoAuth /\ s.attempts \in {cs[p].attempts, 0} /\ s.key = Me
  BY <1>1, <1>4, RequestedHolds
<1>7. ~Blocked(s)
  BY <1>1, <1>4, <1>6, NotBlocked DEF Tame
<1> HIDE DEF s
<1>8. /\ t.kex = cs[p].kex /\ t.secure = cs[p].secure /\ t.perm = cs[p].perm
      /\ t.auth = NoAuth /\ t.attempts \in {cs[p].attempts, 0} /\ ~t.verified
  BY <1>6 DEF Session
<1>9. /\ t.kex = ss[p].kex /\ t.secure = ss[p].secure
      /\ t.auth = NoAuth /\ t.attempts \in {ss[p].attempts, 0} /\ ~t.verified
  BY <1>1, <1>4, <1>8 DEF Tame
<1>10. t.perm = ss[p].perm
  <2>1. cs[p].perm = ss[p].perm BY <1>1, <1>2, <1>3 DEF ClearChallenges, Session
  <2> QED BY <1>8, <2>1
<1>11. /\ sessions' = [cs EXCEPT ![p] = t]
       /\ issued' = [issued EXCEPT !.salt = salt]
       /\ Flush(ss, queue, {d})
       /\ UNCHANGED <<host, store, now>>
  BY <1>2, <1>7 DEF s
<1> HIDE DEF t
<1>12. sessions'[p] = t /\ \A q \in Peers \ {p} : sessions'[q] = cs[q] BY <1>1, <1>5, <1>11
<1>13. \A q \in Peers \ {p} : Tame(sessions[q], sessions'[q]) BY <1>3, <1>4, <1>12, TameTwice
<1>14. Moves({})
  <2>1. \A x \in {d} : ~IsOffer(x) BY DEF Plain, Packet, IsOffer
  <2>2. \A x \in queue \cup {} : IsOffer(x) => ss[x.to].secure = NoKeys
    BY <1>3, OffersArePlain DEF Tame
  <2>3. {} \in SUBSET Packets /\ queue \cup {} = queue
    OBVIOUS
  <2> HIDE DEF d
  <2> QED BY <1>11, <2>1, <2>2, <2>3, FlushMoves
<1>15. store[Me] = "none"
  BY SystemAssumption, ConstantsAssumption
     DEF IssuePairingCode, SystemAssumption, ConstantsAssumption
<1>16. (Untrusted => Untrusted') /\ (Uncoded => Uncoded')
  BY <1>1, <1>11, <1>15, Types DEF Untrusted, Uncoded, Counters
<1>17. now' = now /\ host' = host BY <1>11
<1> HIDE DEF first, pair, salt, d
<1> QED BY <1>9, <1>10, <1>12, <1>13, <1>14, <1>16, <1>17, AnsweredKeepsOrder

\* Before an offer is made no session is approved or secure.
LEMMA NotYetOffered ==
  ASSUME SystemInd, issued.offer = 0, NEW q \in Peers
  PROVE  /\ sessions[q].kex = NoKex /\ sessions[q].secure = NoKeys
         /\ sessions[q].perm # "Approved"
<1>1. sessions[q].kex = NoKex BY Drawn
<1>2. sessions[q] \in Session /\ Sound(sessions[q], code, issued, accepted)
  BY Types DEF SystemInd, Ind, AllSound
<1>3. sessions[q].secure = NoKeys BY <1>2 DEF Sound, Session, Keys
<1> QED BY <1>1, <1>2, <1>3, SystemAssumption DEF Sound, SystemAssumption

\* Once the code was sent, none is on its way.
LEMMA ProofSpent ==
  ASSUME OneProof, HostMoves, NEW m \in uplink, Consumes(m), Proves(m),
         UNCHANGED <<store, issued>>,
         \A q \in Peers \ {m.from} : sessions'[q].verified => sessions[q].verified
  PROVE  OneProof'
<1>1. UNCHANGED <<tasks, taps>> BY DEF HostMoves, clientVars
<1>2. Outstanding BY DEF Outstanding
<1>3. taps.submit = 1 /\ Untrusted /\ \A p \in Peers : ~sessions[p].verified
  BY <1>2 DEF OneProof
<1>4. ~\E n \in uplink' : Proves(n) BY DEF OneProof, Consumes
<1>5. \A i \in DOMAIN tasks : ~IsSubmit(i) BY DEF OneProof
<1>6. ~Outstanding' BY <1>1, <1>4, <1>5 DEF Outstanding, IsSubmit, Proves
<1>7. Untrusted' BY <1>3 DEF Untrusted
<1>8. \A i : IsSubmit(i)' <=> IsSubmit(i) BY <1>1 DEF IsSubmit
<1>9. \A p, q \in Peers : sessions'[p].verified /\ sessions'[q].verified => p = q
  BY <1>3
<1> HIDE DEF Untrusted, Outstanding
<1> QED BY <1>1, <1>3, <1>4, <1>5, <1>6, <1>7, <1>8, <1>9 DEF OneProof, Proves

\* The step of a code that was typed: the sessions but that of the request are
\* tame, and that one becomes t.
LEMMA ProvedTyped ==
  ASSUME NEW s \in Session
  PROVE  [s EXCEPT !.attempts = 0, !.verified = TRUE, !.vouched = TRUE] \in Session
<1>1. 0 \in 0..AttemptLimit BY ConstantsAssumption DEF ConstantsAssumption
<1> QED BY <1>1 DEF Session

LEMMA ProvedKeepsOrder ==
  ASSUME SystemInd, SystemInd', Orderly, HostMoves, HostSends, UNCHANGED <<now, store, issued>>,
         NEW m \in uplink, Consumes(m), Proves(m),
         \A q \in Peers \ {m.from} : Tame(sessions[q], sessions'[q]),
         NEW t, sessions'[m.from] = t,
         t.kex = NoKex, t.secure = NoKeys, t.auth = NoAuth, t.key = Me,
         t.pair = NoPair, t.attempts <= 1, t.perm # "Approved",
         t.verified => Engaged(sessions[m.from]),
         NEW new \in SUBSET Packets, Moves(new), \A n \in new : ~IsOffer(n)
  PROVE  Orderly'
<1> DEFINE p == m.from
<1>1. p \in Peers BY Drawn
<1>2. SessionHolds(t) BY DEF SessionHolds
<1>3. issued.offer = 0 BY DEF Orderly, OneProof, Outstanding, Untrusted
<1>4. Steady(p) BY <1>1, <1>3, NotYetOffered DEF Steady
<1>5. \A q \in Peers : Steady(q) /\ SessionHolds(sessions'[q])
  BY <1>2, <1>4 DEF Steady, Tame
<1>6. OneProof'
  <2>1. \A q \in Peers \ {m.from} : sessions'[q].verified => sessions[q].verified BY DEF Tame
  <2> QED BY <2>1, ProofSpent DEF Orderly
<1>7. \A q \in Peers : Engaged(sessions'[q]) =>
           Engaged(sessions[q]) \/ \E n \in uplink \ uplink' : Asks(n) /\ n.from = q
  <2>1. Engaged(t) => Engaged(sessions[p])
    BY ONLY t.kex = NoKex, t.secure = NoKeys, t.auth = NoAuth, t.pair = NoPair,
            t.verified => Engaged(sessions[m.from]) DEF Engaged
  <2> QED BY <2>1, TameEngaged
<1> QED BY <1>5, <1>6, <1>7, StillKeepsOrder

LEMMA ProofFacts ==
  ASSUME SystemInd, Orderly, NEW m \in uplink, Proves(m), NEW ss \in Opened(m.from)
  PROVE  /\ m.from \in Peers
         /\ ss \in [Peers -> Session] /\ ss[m.from] \in Session
         /\ \A q \in Peers : /\ Tame(sessions[q], ss[q])
                             /\ ss[q].kex = NoKex /\ ss[q].secure = NoKeys
         /\ ss[m.from].perm # "Approved" /\ ss[m.from].attempts = 0
         /\ LET s == RefreshWindow(Requested(ss[m.from], Me, Me)) IN
            /\ s \in Session
            /\ s.kex = NoKex /\ s.secure = NoKeys /\ s.perm # "Approved"
            /\ s.auth = NoAuth /\ s.pair = ss[m.from].pair
            /\ s.attempts = 0 /\ s.key = Me
            /\ s.pair # NoPair => Engaged(sessions[m.from])
<1>1. m.from \in Peers /\ Ind /\ SessionsHold /\ now \in Nat BY Drawn, SessionsTyped
<1>2. issued.offer = 0 /\ \A q \in Peers : sessions[q].attempts = 0
  BY DEF Orderly, OneProof, Outstanding, Untrusted
<1>3. /\ ss \in [Peers -> Session] /\ ss[m.from] \in Session
      /\ \A q \in Peers : Tame(sessions[q], ss[q])
  BY <1>1, OpenedTame
<1>4. \A q \in Peers : ss[q].kex = NoKex /\ ss[q].secure = NoKeys
  BY <1>2, <1>3, NotYetOffered DEF Tame
<1>5. ss[m.from].perm # "Approved"
  BY <1>1, <1>2, OpenedFacts, NotYetOffered
<1>6. ss[m.from].attempts = 0 BY <1>1, <1>2, <1>3 DEF Tame
<1> DEFINE s == RefreshWindow(Requested(ss[m.from], Me, Me))
<1>7. /\ s \in Session
      /\ s.kex = ss[m.from].kex /\ s.secure = ss[m.from].secure /\ s.perm = ss[m.from].perm
      /\ s.auth = NoAuth /\ s.pair = ss[m.from].pair
      /\ s.attempts \in {ss[m.from].attempts, 0} /\ s.key = Me
  BY <1>1, <1>3, RequestedHolds
<1>8. ss[m.from].pair # NoPair => Engaged(sessions[m.from])
  BY <1>1, <1>3 DEF Tame, Engaged
<1> HIDE DEF s
<1>9. /\ s \in Session
      /\ s.kex = NoKex /\ s.secure = NoKeys /\ s.perm # "Approved"
      /\ s.auth = NoAuth /\ s.pair = ss[m.from].pair
      /\ s.attempts = 0 /\ s.key = Me
      /\ s.pair # NoPair => Engaged(sessions[m.from])
  BY <1>1, <1>4, <1>5, <1>6, <1>7, <1>8
<1> QED BY <1>1, <1>3, <1>4, <1>5, <1>6, <1>9 DEF s

LEMMA ProofRefusedKeepsOrder ==
  ASSUME SystemInd, SystemInd', Orderly, HostMoves, HostSends, OneAtATime,
         NEW m \in uplink, Consumes(m), Proves(m), NEW proof,
         ProofRefused(m.from, m.key, Me, Me, proof)
  PROVE  Orderly'
<1> DEFINE p == m.from
           first(ss) == RefreshWindow(Requested(ss[p], Me, Me))
<1>1. PICK ss \in Opened(p) :
        /\ \/ Blocked(first(ss))
           \/ sessions' = [ss EXCEPT ![p] =
                [first(ss) EXCEPT !.verified = FALSE, !.pair = NoPair, !.attempts = @ + 1]]
        /\ Flush(ss, queue \cup {Packet(p, "Refused", 0)}, {})
  BY DEF ProofRefused
<1>2. /\ p \in Peers /\ ss \in [Peers -> Session]
      /\ \A q \in Peers : Tame(sessions[q], ss[q]) /\ ss[q].secure = NoKeys
  BY ProofFacts
<1> DEFINE s == first(ss)
           t == [s EXCEPT !.verified = FALSE, !.pair = NoPair, !.attempts = @ + 1]
<1>3. /\ s \in Session /\ s.kex = NoKex /\ s.secure = NoKeys /\ s.perm # "Approved"
      /\ s.auth = NoAuth /\ s.attempts = 0 /\ s.key = Me
  BY ProofFacts
<1>4. ~Blocked(s)
  BY <1>3, ConstantsAssumption DEF Blocked, ConstantsAssumption
<1>5. sessions' = [ss EXCEPT ![p] = t] BY <1>1, <1>4
<1> HIDE DEF s
<1>6. /\ t.kex = NoKex /\ t.secure = NoKeys /\ t.perm # "Approved" /\ t.pair = NoPair
      /\ t.auth = NoAuth /\ t.attempts <= 1 /\ t.key = Me /\ ~t.verified
  BY <1>3 DEF Session
<1> HIDE DEF t
<1>7. sessions'[p] = t /\ \A q \in Peers \ {p} : Tame(sessions[q], sessions'[q])
  BY <1>2, <1>5
<1> DEFINE new == {Packet(p, "Refused", 0)}
<1>8. new \in SUBSET Packets /\ \A n \in new : ~IsOffer(n)
  BY <1>2, OtherPacket DEF PacketKinds
<1>9. Flush(ss, queue \cup new, {}) BY <1>1
<1> HIDE DEF new, first
<1>10. Moves(new)
  <2>1. \A n \in queue \cup new : IsOffer(n) => ss[n.to].secure = NoKeys
    BY <1>2, <1>8, OffersArePlain
  <2>2. \A d \in {} : ~IsOffer(d)
    OBVIOUS
  <2> QED BY <1>8, <1>9, <2>1, <2>2, FlushMoves
<1>11. UNCHANGED <<now, store, issued>> BY DEF ProofRefused
<1> QED BY <1>6, <1>7, <1>8, <1>10, <1>11, ProvedKeepsOrder

LEMMA ProofAcceptedKeepsOrder ==
  ASSUME SystemInd, SystemInd', Orderly, HostMoves, HostSends,
         NEW m \in uplink, Consumes(m), Proves(m), NEW proof,
         ProofAccepted(m.from, m.key, Me, Me, proof)
  PROVE  Orderly'
<1> DEFINE p == m.from
           first(ss) == RefreshWindow(Requested(ss[p], Me, Me))
           proved(ss) == [ss EXCEPT ![p] = [first(ss) EXCEPT !.attempts = 0, !.verified = TRUE,
                                                             !.vouched = TRUE]]
<1>1. PICK ss \in Opened(p) :
        /\ first(ss).pair # NoPair
        /\ sessions' = ClearChallenges(proved(ss))
        /\ Flush(proved(ss), queue, {})
  BY DEF ProofAccepted, ProofHolds
<1>2. /\ p \in Peers /\ ss \in [Peers -> Session]
      /\ \A q \in Peers : Tame(sessions[q], ss[q]) /\ ss[q].secure = NoKeys
  BY ProofFacts
<1> DEFINE s == first(ss)
           v == [s EXCEPT !.attempts = 0, !.verified = TRUE, !.vouched = TRUE]
           t == [v EXCEPT !.pair = NoPair]
<1>3. /\ s \in Session /\ s.kex = NoKex /\ s.secure = NoKeys /\ s.perm # "Approved"
      /\ s.auth = NoAuth /\ s.key = Me /\ Engaged(sessions[p])
  BY <1>1, ProofFacts
<1>4. proved(ss) = [ss EXCEPT ![p] = v]
  OBVIOUS
<1> HIDE DEF s, proved, first
<1>6. /\ v \in Session /\ v.kex = NoKex /\ v.secure = NoKeys /\ v.perm # "Approved"
      /\ v.auth = NoAuth /\ v.attempts = 0 /\ v.key = Me
  <2>1. v \in Session BY <1>3, ProvedTyped DEF v
  <2>2. /\ v.kex = s.kex /\ v.secure = s.secure /\ v.perm = s.perm /\ v.auth = s.auth
        /\ v.attempts = 0 /\ v.key = s.key
    BY <1>3 DEF Session
  <2> QED BY <1>3, <2>1, <2>2
<1> HIDE DEF v
<1>7. /\ t.kex = NoKex /\ t.secure = NoKeys /\ t.perm # "Approved" /\ t.pair = NoPair
      /\ t.auth = NoAuth /\ t.attempts <= 1 /\ t.key = Me
  BY <1>6 DEF Session
<1>8. sessions'[p] = t /\ \A q \in Peers \ {p} : sessions'[q] = [ss[q] EXCEPT !.pair = NoPair]
  BY <1>1, <1>2, <1>4 DEF ClearChallenges
<1> HIDE DEF t
<1>9. \A q \in Peers \ {p} : Tame(sessions[q], sessions'[q])
  <2>1. \A q \in Peers : SessionHolds(ss[q]) /\ ss[q] \in Session BY <1>2 DEF Tame
  <2>2. ASSUME NEW x \in Session, SessionHolds(x)
        PROVE  Tame(x, [x EXCEPT !.pair = NoPair])
    BY <2>2 DEF Tame, SessionHolds, Session
  <2> QED BY <1>2, <1>8, <2>1, <2>2, TameTwice
<1>10. {} \in SUBSET Packets /\ (\A n \in {} : ~IsOffer(n)) /\ queue \cup {} = queue
  OBVIOUS
<1>11. Moves({})
  <2>1. \A n \in queue \cup {} : IsOffer(n) => proved(ss)[n.to].secure = NoKeys
    BY <1>2, <1>4, <1>6, OffersArePlain
  <2>2. Flush(proved(ss), queue \cup {}, {}) BY <1>1, <1>10
  <2> QED BY <1>10, <2>1, <2>2, FlushMoves
<1>12. UNCHANGED <<now, store, issued>> BY DEF ProofAccepted
<1>13. t.verified => Engaged(sessions[p]) BY <1>3
<1> QED BY <1>7, <1>8, <1>9, <1>10, <1>11, <1>12, <1>13, ProvedKeepsOrder

(***************************************************************************)
(* The handlers that make and use offers.                                  *)
(***************************************************************************)
LEMMA ClearBy ==
  ASSUME SystemInd, Orderly, HostMoves, NEW p \in Peers,
         sessions[p].kex = NoKex, sessions[p].secure = NoKeys, ~Unoffered(p)
  PROVE  Clear(p)
<1>1. sessions[p].kex.sid = 0 BY DEF NoKex
<1>2. \A m \in uplink' : IsConfirm(m) => m.from # p
  <2> SUFFICES ASSUME NEW m \in uplink, IsConfirm(m), m.from = p PROVE FALSE
    BY DEF HostMoves
  <2>1. m.id # 0 BY Drawn
  <2> QED BY <1>1, <2>1 DEF Orderly, StaleConfirms
<1>3. ASSUME open, conn = p
      PROVE  /\ \A i \in DOMAIN tasks : ~(IsKex(i) /\ Now(i))
             /\ ~(IsOffer(hand) /\ Now(Last))
  <2>1. ~\E i : Bare(i) BY <1>3 DEF Bare
  <2>2. \A i \in DOMAIN tasks : IsKex(i) => Stale(tasks[i].arg)
    BY <1>1, <1>3, Drawn DEF Stale
  <2>3. IsOffer(hand) => Stale(hand.id) BY <1>1, <1>3, Drawn DEF Stale
  <2> QED BY <1>3, <2>1, <2>2, <2>3 DEF Orderly, StaleOffers
<1> QED BY <1>2, <1>3 DEF Clear

\* The step that makes an offer to p: the other sessions are tame.
LEMMA OfferKeepsOrder ==
  ASSUME SystemInd, SystemInd', Orderly, HostMoves, now' = now, NEW p \in Peers,
         \A q \in Peers \ {p} : Tame(sessions[q], sessions'[q]),
         sessions[p].kex = NoKex, Engaged(sessions[p]), SessionHolds(sessions'[p]),
         sessions'[p].kex = OfferKex, sessions'[p].secure = NoKeys,
         OneProof', Clear(p),
         Moves({Packet(p, "Accepted", 0), Packet(p, "Offer", NextOffer)})
  PROVE  Orderly'
<1> DEFINE new == {Packet(p, "Accepted", 0), Packet(p, "Offer", NextOffer)}
<1>1. issued.offer \in Nat /\ NextOffer = issued.offer + 1 /\ OfferKex.sid = NextOffer
  BY Types DEF SystemInd, NextOffer, OfferKex
<1> HIDE DEF NextOffer
<1>2. /\ new \in SUBSET Packets
      /\ \A m \in new : IsOffer(m) => m.to = p /\ m.id = NextOffer
  BY <1>1 DEF Packets, Packet, PacketKinds, IsOffer
<1>3. OffersApart'
  <2>1. \A q \in Peers \ {p} : sessions'[q].kex = sessions[q].kex BY DEF Tame
  <2>2. sessions'[p].kex.sid > issued.offer BY <1>1
  <2> QED BY <2>1, <2>2, ApartKept DEF Orderly, SessionsHold
<1>4. \A q \in Peers \ {p} : Steady(q) BY DEF Tame, Steady
<1>5. \A q \in Peers : SessionHolds(sessions'[q]) BY DEF Tame
<1>6. \A q \in Peers : Engaged(sessions'[q]) =>
           Engaged(sessions[q]) \/ \E m \in uplink \ uplink' : Asks(m) /\ m.from = q
  BY TameEngaged
<1>7. \A m \in queue \cup new \cup downlink : IsOffer(m) => sessions'[m.to].kex.sid = m.id
  <2> SUFFICES ASSUME NEW m \in queue \cup new \cup downlink, IsOffer(m)
               PROVE  sessions'[m.to].kex.sid = m.id
    OBVIOUS
  <2>1. CASE m \in new BY <1>1, <1>2, <2>1
  <2>2. CASE m \in queue \cup downlink
    <3>1. m.to \in Peers
      <4>1. queue \subseteq Packets BY Types DEF SystemInd
      <4> QED BY <2>2, <4>1 DEF Packets, Datagram, Orderly, OneOffer
    <3>2. sessions[m.to].kex.sid = m.id BY <2>2 DEF Orderly, OneOffer
    <3>3. m.id # 0 BY <2>2, Drawn
    <3>4. m.to # p BY <3>2, <3>3 DEF NoKex
    <3> QED BY <1>4, <3>1, <3>2, <3>4 DEF Steady
  <2> QED BY <2>1, <2>2
<1>8. /\ {p} \in SUBSET Peers /\ \A q \in {p} : Clear(q)
      /\ conn \in {p} /\ sessions'[conn].secure # NoKeys => ClientHas(sessions'[conn].secure)
      /\ \A m \in new : IsOffer(m) => m.id > issued.offer
  BY <1>1, <1>2
<1> HIDE DEF new
<1>9. Moves(new) BY DEF new
<1> QED BY <1>2, <1>3, <1>4, <1>5, <1>6, <1>7, <1>8, <1>9, HostKeepsOrder

LEMMA AuthAcceptedKeepsOrder ==
  ASSUME SystemInd, SystemInd', Orderly, HostMoves, HostSends,
         NEW m \in uplink, Consumes(m), m.kind = "AuthResponse",
         AuthAccepted(m.from, m.key, m.id, Me)
  PROVE  Orderly'
<1> DEFINE p == m.from
           new == {Packet(p, "Accepted", 0), Packet(p, "Offer", NextOffer)}
<1>1. p \in Peers /\ Ind /\ SessionsHold BY Drawn, SessionsTyped
<1>2. PICK ss \in Opened(p) :
        /\ Passes(p, m.key, "AuthResponse")
        /\ AuthHolds(ss[p], m.id, Me)
        /\ sessions' = [ss EXCEPT ![p] =
               [ss[p] EXCEPT !.perm = "Approved", !.devId = IdOf(Me), !.auth = NoAuth,
                             !.kex = OfferKex, !.vouched = TRUE]]
        /\ Flush(ss, queue \cup new, {})
  BY DEF AuthAccepted
<1>3. /\ ss \in [Peers -> Session] /\ ss[p] \in Session
      /\ \A q \in Peers : Tame(sessions[q], ss[q])
  BY <1>1, OpenedTame
<1>4. sessions[p].auth = ss[p].auth /\ ss[p].auth # NoAuth /\ ss[p].auth.id = m.id
  BY <1>1, <1>2, <1>3 DEF AuthHolds, Tame
<1>5. sessions[p].kex = NoKex /\ sessions[p].secure = NoKeys /\ Engaged(sessions[p])
  BY <1>1, <1>4 DEF SessionsHold, SessionHolds, Engaged
<1>6. SessionHolds(ss[p]) /\ ss[p].key = Me /\ ss[p].secure = NoKeys /\ ~ss[p].verified
  BY <1>1, <1>3, <1>4, <1>5 DEF Tame, SessionHolds
<1>7. ~Unoffered(p)
  <2>1. m.key = NoKeys BY <1>2, <1>5 DEF Passes, IsSecure
  <2> QED BY <1>4, <2>1 DEF Unoffered, LiveAuth
<1>8. Clear(p) BY <1>1, <1>5, <1>7, ClearBy
<1> DEFINE t == [ss[p] EXCEPT !.perm = "Approved", !.devId = IdOf(Me), !.auth = NoAuth,
                              !.kex = OfferKex, !.vouched = TRUE]
<1>9. /\ t.perm = "Approved" /\ t.devId = IdOf(Me) /\ t.auth = NoAuth /\ t.kex = OfferKex
      /\ t.key = Me /\ t.secure = NoKeys /\ ~t.verified /\ t.attempts = ss[p].attempts
  BY <1>3, <1>6 DEF Session
<1>10. sessions' = [ss EXCEPT ![p] = t] BY <1>2
<1> HIDE DEF t
<1>11. SessionHolds(t) BY <1>6, <1>9 DEF SessionHolds
<1>12. sessions'[p] = t /\ \A q \in Peers \ {p} : Tame(sessions[q], sessions'[q])
  BY <1>1, <1>3, <1>10
<1>13. OneProof'
  <2>1. m.id \in 1..issued.auth BY Drawn
  <2>2. ~Untrusted BY <2>1 DEF Untrusted
  <2>3. Uncoded => Uncoded'
    BY <1>1, Types DEF AuthAccepted, DrawOffer, Uncoded, Counters
  <2>4. ss[p].attempts \in {sessions[p].attempts, 0} BY <1>1, <1>3 DEF Tame
  <2>5. \A q \in Peers : /\ sessions'[q].verified => sessions[q].verified
                         /\ sessions'[q].attempts \in {sessions[q].attempts, 0}
                         /\ sessions'[q].verified /\ sessions'[q].perm = "Pending" =>
                              sessions[q].perm = "Pending"
    BY <1>9, <1>12, <2>4 DEF Tame
  <2> QED BY <2>2, <2>3, <2>5, ProofKept DEF Orderly
<1>14. Moves(new)
  <2>1. \A n \in queue \cup new : IsOffer(n) => ss[n.to].secure = NoKeys
    <3>1. \A n \in queue : IsOffer(n) => ss[n.to].secure = NoKeys
      BY <1>3, OffersArePlain DEF Tame
    <3>2. \A n \in new : n.to = p BY DEF Packet
    <3> QED BY <1>6, <3>1, <3>2
  <2>2. new \in SUBSET Packets
    BY <1>1, Types DEF Packets, Packet, PacketKinds, NextOffer
  <2>3. \A d \in {} : ~IsOffer(d)
    OBVIOUS
  <2> HIDE DEF new
  <2> QED BY <1>2, <2>1, <2>2, <2>3, FlushMoves
<1>15. now' = now BY DEF AuthAccepted
<1> QED BY <1>1, <1>5, <1>8, <1>9, <1>11, <1>12, <1>13, <1>14, <1>15, OfferKeepsOrder

\* A dialog approves a session whose code was typed, so no offer is out.
LEMMA ApproveKeepsOrder ==
  ASSUME SystemInd, SystemInd', Orderly, HostMoves, HostSends, NEW p \in Peers,
         sessions[p].perm = "Pending", MayApprove(p), Approve(p)
  PROVE  Orderly'
<1> DEFINE new == {Packet(p, "Accepted", 0), Packet(p, "Offer", NextOffer)}
           s   == sessions[p]
           t   == [s EXCEPT !.perm = "Approved", !.devId = IdOf(Me), !.input = "allow",
                            !.kex = OfferKex]
<1>1. /\ Ind /\ SessionsHold /\ sessions \in [Peers -> Session] /\ s \in Session
      /\ SessionHolds(s) /\ s.verified
  BY SessionsTyped, Types DEF SessionsHold, MayApprove
<1>2. /\ s.key = Me /\ s.auth = NoAuth /\ s.kex = NoKex /\ s.secure = NoKeys /\ Engaged(s)
  BY <1>1 DEF SessionHolds, Engaged
<1>3. Untrusted /\ ~Outstanding /\ taps.submit # 0
  BY <1>1 DEF Orderly, OneProof
<1>4. issued.offer = 0 BY <1>3 DEF Untrusted
<1>5. Clear(p)
  <2>1. \A i \in DOMAIN tasks : ~IsKex(i) BY <1>4, Drawn
  <2>2. ~IsOffer(hand) BY <1>4, Drawn
  <2>3. \A m \in uplink : ~IsConfirm(m) BY <1>4, Drawn
  <2> QED BY <2>1, <2>2, <2>3 DEF Clear, HostMoves
<1>6. s.key # NoDevice
  BY <1>2, SystemAssumption, ConstantsAssumption DEF SystemAssumption, ConstantsAssumption
<1>7. sessions' = [sessions EXCEPT ![p] = t]
  BY <1>2, <1>6 DEF Approve
<1>8. /\ t.perm = "Approved" /\ t.devId = IdOf(Me) /\ t.auth = NoAuth /\ t.kex = OfferKex
      /\ t.key = Me /\ t.secure = NoKeys /\ t.attempts = s.attempts /\ t.verified = s.verified
  BY <1>1, <1>2 DEF Session
<1> HIDE DEF t
<1>9. SessionHolds(t) BY <1>1, <1>8 DEF SessionHolds
<1>10. /\ sessions'[p] = t
       /\ \A q \in Peers \ {p} : sessions'[q] = sessions[q]
  BY <1>1, <1>7
<1>11. \A q \in Peers \ {p} : Tame(sessions[q], sessions'[q])
  BY <1>1, <1>10, TameSame DEF SessionsHold
<1>12. OneProof'
  <2>1. UNCHANGED <<tasks, taps>> /\ uplink' \subseteq uplink BY DEF HostMoves, clientVars
  <2>2. ~Outstanding' BY <1>3, <2>1 DEF Outstanding, IsSubmit, Proves
  <2>3. \A q, r \in Peers : sessions'[q].verified /\ sessions'[r].verified => q = r
    BY <1>8, <1>10 DEF Orderly, OneProof
  <2>4. \A q \in Peers : ~(sessions'[q].verified /\ sessions'[q].perm = "Pending")
    <3>1. \A q \in Peers \ {p} : ~sessions[q].verified BY <1>1 DEF Orderly, OneProof
    <3> QED BY <1>8, <1>10, <3>1
  <2>5. /\ \A m, n \in uplink' : Proves(m) /\ Proves(n) => m = n
        /\ \A i, j \in DOMAIN tasks : IsSubmit(i) /\ IsSubmit(j) => i = j
        /\ \A i \in DOMAIN tasks, m \in uplink' : ~(IsSubmit(i) /\ Proves(m))
        /\ \A i : IsSubmit(i)' <=> IsSubmit(i)
    BY <2>1 DEF Orderly, OneProof, IsSubmit
  <2> HIDE DEF Outstanding
  <2> QED BY <1>3, <2>1, <2>2, <2>3, <2>4, <2>5 DEF OneProof, Proves
<1>13. Moves(new)
  <2>1. queue' = queue /\ wire' = {Plain(Packet(p, "Accepted", 0)), Plain(Packet(p, "Offer", NextOffer))}
    BY DEF Approve
  <2>2. \A d \in wire' : IsOffer(d) =>
          d.key = NoKeys /\ Packet(d.to, "Offer", d.id) = Packet(p, "Offer", NextOffer)
    BY <2>1 DEF Plain, Packet, IsOffer
  <2>3. NextOffer = 1 BY <1>4 DEF NextOffer
  <2> HIDE DEF NextOffer
  <2>4. Packet(p, "Offer", NextOffer) \notin queue
    <3>1. Packet(p, "Offer", NextOffer).id = 1 /\ IsOffer(Packet(p, "Offer", NextOffer))
      BY <2>3 DEF Packet, IsOffer
    <3> QED BY <1>4, <3>1, Drawn
  <2>5. new \in SUBSET Packets BY <2>3 DEF Packets, Packet, PacketKinds
  <2> QED BY <2>1, <2>2, <2>4, <2>5, WireMoves
<1>14. now' = now BY DEF Approve
<1> HIDE DEF new
<1>15. Moves({Packet(p, "Accepted", 0), Packet(p, "Offer", NextOffer)}) BY <1>13 DEF new
<1> QED BY <1>2, <1>5, <1>8, <1>9, <1>10, <1>11, <1>12, <1>14, <1>15, OfferKeepsOrder

\* What a confirmation finds at the host when its session is approved.
LEMMA ConfirmFacts ==
  ASSUME SystemInd, Orderly, NEW m \in uplink, IsConfirm(m), NEW ss \in Opened(m.from),
         Passes(m.from, m.key, "KeyConfirm"), ss[m.from].perm = "Approved"
  PROVE  /\ m.from \in Peers /\ ss \in [Peers -> Session] /\ ss[m.from] \in Session
         /\ \A q \in Peers : Tame(sessions[q], ss[q])
         /\ sessions[m.from].kex # NoKex /\ sessions[m.from].kex.sid = m.id
         /\ sessions[m.from].secure = NoKeys
         /\ ConfirmHolds(ss[m.from], m.id, Me)
<1> DEFINE p == m.from
<1>1. p \in Peers /\ Ind /\ SessionsHold /\ now = 0 BY Drawn, SessionsTyped
<1>2. /\ ss \in [Peers -> Session] /\ ss[p] \in Session
      /\ \A q \in Peers : Tame(sessions[q], ss[q])
  BY <1>1, OpenedTame
<1>3. m.key = NoKeys BY DEF Orderly, StaleConfirms
<1>4. sessions[p].secure = NoKeys BY <1>3 DEF Passes, IsSecure
<1>5. ss[p].secure = NoKeys /\ ss[p].kex = sessions[p].kex BY <1>1, <1>2, <1>4 DEF Tame
<1>6. sessions[p].kex # NoKex
  <2>1. Sound(ss[p], code, issued, accepted) BY <1>1, OpenedFacts
  <2> QED BY <1>5, <2>1, SystemAssumption DEF Sound, SystemAssumption
<1>7. sessions[p].kex.sid = m.id
  BY <1>4, <1>6 DEF Orderly, StaleConfirms, Unoffered
<1>8. ss[p].devId = IdOf(Me) /\ ss[p].key = Me
  BY <1>1, <1>2, <1>5 DEF Tame, SessionHolds
<1>9. now <= ss[p].kex.expires
  BY <1>1, <1>2, <1>5, <1>6 DEF Session
<1>10. ConfirmHolds(ss[p], m.id, Me)
  BY <1>5, <1>6, <1>7, <1>8, <1>9 DEF ConfirmHolds
<1> QED BY <1>1, <1>2, <1>4, <1>6, <1>7, <1>10

LEMMA ConfirmNeverFails ==
  ASSUME SystemInd, Orderly, NEW m \in uplink, IsConfirm(m)
  PROVE  ~KeyConfirmFails(m.from, m.key, m.id, Me)
<1> SUFFICES ASSUME KeyConfirmFails(m.from, m.key, m.id, Me) PROVE FALSE
  OBVIOUS
<1>1. Policy = "RequireApproval" BY SystemAssumption DEF SystemAssumption
<1>2. PICK ss \in Opened(m.from) :
        /\ Passes(m.from, m.key, "KeyConfirm") /\ ss[m.from].perm = "Approved"
        /\ ~ConfirmHolds(ss[m.from], m.id, Me)
  BY <1>1 DEF KeyConfirmFails, AutoApproved
<1> QED BY <1>2, ConfirmFacts

LEMMA KeyConfirmedKeepsOrder ==
  ASSUME SystemInd, SystemInd', Orderly, HostMoves, HostSends,
         NEW m \in uplink, Consumes(m), IsConfirm(m),
         KeyConfirmed(m.from, m.key, m.id, m.eph, Me)
  PROVE  Orderly'
<1> DEFINE p == m.from
           k == [sid |-> m.id, eph |-> m.eph]
           new == {Packet(p, "DisplayInfo", 0)}
           secured(ss) == [ss EXCEPT ![p] = [ss[p] EXCEPT !.kex = NoKex, !.secure = k]]
<1>1. Policy = "RequireApproval" BY SystemAssumption DEF SystemAssumption
<1>2. PICK ss \in Opened(p) :
        /\ Passes(p, m.key, "KeyConfirm") /\ ss[p].perm = "Approved"
        /\ sessions' = secured(ss)
        /\ Flush(secured(ss), queue \cup new, {})
  BY <1>1 DEF KeyConfirmed, AutoApproved
<1>3. /\ p \in Peers /\ ss \in [Peers -> Session] /\ ss[p] \in Session
      /\ \A q \in Peers : Tame(sessions[q], ss[q])
      /\ sessions[p].kex # NoKex /\ sessions[p].kex.sid = m.id
      /\ sessions[p].secure = NoKeys
  BY <1>2, ConfirmFacts
<1> DEFINE t == [ss[p] EXCEPT !.kex = NoKex, !.secure = k]
<1>4. /\ t.kex = NoKex /\ t.secure = k /\ t.perm = ss[p].perm /\ t.auth = ss[p].auth
      /\ t.verified = ss[p].verified /\ t.attempts = ss[p].attempts /\ t.key = ss[p].key
      /\ t.devId = ss[p].devId
  BY <1>3 DEF Session
<1>5. secured(ss) = [ss EXCEPT ![p] = t]
  OBVIOUS
<1> HIDE DEF t, secured
<1>6. m.id # 0 /\ k # NoKeys
  <2>1. m.id # 0 BY Drawn
  <2> QED BY <2>1 DEF NoKeys
<1>7. SessionHolds(t)
  <2>1. SessionHolds(ss[p]) /\ ss[p].kex # NoKex BY <1>3 DEF Tame
  <2> QED BY <1>2, <1>4, <1>6, <2>1 DEF SessionHolds
<1>8. sessions'[p] = t /\ \A q \in Peers \ {p} : sessions'[q] = ss[q]
  BY <1>2, <1>3, <1>5
<1>9. \A q \in Peers \ {p} : Tame(sessions[q], sessions'[q]) BY <1>3, <1>8
<1>10. \A n \in queue \cup downlink : IsOffer(n) => n.id # m.id
  BY DEF Orderly, OneOffer, Told
<1>11. \A n \in queue \cup new \cup downlink : IsOffer(n) =>
         n \in queue \cup downlink /\ n.to \in Peers \ {p} /\ sessions'[n.to].kex.sid = n.id
  <2> SUFFICES ASSUME NEW n \in queue \cup downlink, IsOffer(n)
               PROVE  n.to \in Peers \ {p} /\ sessions'[n.to].kex.sid = n.id
    BY DEF Packet, IsOffer
  <2>1. n.to \in Peers
    <3>1. queue \subseteq Packets BY Types DEF SystemInd
    <3> QED BY <3>1 DEF Packets, Datagram, Orderly, OneOffer
  <2>2. sessions[n.to].kex.sid = n.id BY DEF Orderly, OneOffer
  <2>3. n.to # p BY <1>3, <1>10, <2>2
  <2> QED BY <1>9, <2>1, <2>2, <2>3 DEF Tame
<1>12. Moves(new)
  <2>1. \A n \in queue \cup new : IsOffer(n) => secured(ss)[n.to].secure = NoKeys
    <3> SUFFICES ASSUME NEW n \in queue \cup new, IsOffer(n)
                 PROVE  secured(ss)[n.to].secure = NoKeys
      OBVIOUS
    <3>1. n \in queue /\ n.to \in Peers \ {p}
      <4>1. \A x \in new : ~IsOffer(x) BY DEF Packet, IsOffer
      <4> QED BY <1>11, <4>1
    <3>2. sessions[n.to].secure = NoKeys BY <3>1, OffersArePlain
    <3> QED BY <1>3, <1>5, <3>1, <3>2 DEF Tame
  <2>2. new \in SUBSET Packets BY <1>3, OtherPacket DEF PacketKinds
  <2>3. \A d \in {} : ~IsOffer(d)
    OBVIOUS
  <2> HIDE DEF new
  <2> QED BY <1>2, <2>1, <2>2, <2>3, FlushMoves
<1>13. Clear(p)
  <2>1. ~Unoffered(p) BY <1>3 DEF Unoffered
  <2>2. \A n \in uplink' : IsConfirm(n) => n.from # p
    <3> SUFFICES ASSUME NEW n \in uplink, n # m, IsConfirm(n), n.from = p PROVE FALSE
      BY DEF Consumes
    <3>1. CASE n.id = m.id BY <3>1 DEF Orderly, OneOffer
    <3>2. CASE n.id # m.id BY <1>3, <2>1, <3>2 DEF Orderly, StaleConfirms
    <3> QED BY <3>1, <3>2
  <2>3. ASSUME open, conn = p
        PROVE  /\ \A i \in DOMAIN tasks : ~(IsKex(i) /\ Now(i))
               /\ ~(IsOffer(hand) /\ Now(Last))
    <3>1. ~\E i : Bare(i) BY <2>1, <2>3 DEF Bare
    <3>2. \A i \in DOMAIN tasks : IsKex(i) => Stale(tasks[i].arg)
      BY <1>3, <2>3 DEF Stale, Orderly, OneOffer, Told
    <3>3. IsOffer(hand) => Stale(hand.id)
      BY <1>3, <2>3 DEF Stale, Orderly, OneOffer, Told
    <3> QED BY <2>3, <3>1, <3>2, <3>3 DEF Orderly, StaleOffers
  <2> QED BY <2>2, <2>3 DEF Clear
<1>14. conn = p => ClientHas(k)
  <2>1. m.from \in 1..MaxConnects BY DEF SystemInd, SystemTypeOK, AnswersHost
  <2> QED BY <1>3, <2>1 DEF Orderly, SameKeys
<1>15. OffersApart'
  <2>1. \A q \in Peers \ {p} : sessions'[q].kex = sessions[q].kex BY <1>9 DEF Tame
  <2> QED BY <1>3, <1>4, <1>8, <2>1, ApartKept DEF Orderly, SessionsHold
<1>16. OneProof'
  <2>1. UNCHANGED <<store, issued>> BY DEF KeyConfirmed
  <2>2. (Untrusted => Untrusted') /\ (Uncoded => Uncoded') BY <2>1 DEF Untrusted, Uncoded
  <2>3. \A q \in Peers : /\ sessions'[q].verified => sessions[q].verified
                         /\ sessions'[q].attempts \in {sessions[q].attempts, 0}
                         /\ sessions'[q].verified /\ sessions'[q].perm = "Pending" =>
                              sessions[q].perm = "Pending"
    BY <1>2, <1>3, <1>4, <1>8, <1>9 DEF Tame
  <2> QED BY <2>2, <2>3, ProofKept DEF Orderly
<1>17. \A q \in Peers : Engaged(sessions'[q]) =>
           Engaged(sessions[q]) \/ \E n \in uplink \ uplink' : Asks(n) /\ n.from = q
  <2>1. Engaged(sessions[p]) BY <1>3 DEF Engaged
  <2> QED BY <1>9, <2>1, TameEngaged
<1>18. /\ {p} \in SUBSET Peers
       /\ \A q \in Peers \ {p} : Steady(q)
       /\ \A q \in {p} : Clear(q)
       /\ conn \in {p} /\ sessions'[conn].secure # NoKeys => ClientHas(sessions'[conn].secure)
       /\ \A q \in Peers : SessionHolds(sessions'[q])
  BY <1>3, <1>4, <1>7, <1>8, <1>9, <1>13, <1>14 DEF Tame, Steady
<1>19. /\ new \in SUBSET Packets
       /\ \A n \in new : IsOffer(n) => n.id > issued.offer
  BY <1>3, OtherPacket DEF PacketKinds
<1>20. now' = now BY DEF KeyConfirmed
<1> HIDE DEF new, k, p
<1> QED BY <1>11, <1>12, <1>15, <1>16, <1>17, <1>18, <1>19, <1>20, HostKeepsOrder

(***************************************************************************)
(* The steps of the host.                                                  *)
(***************************************************************************)
LEMMA HostReceivesKeepsOrder ==
  ASSUME SystemInd, SystemInd', Orderly, OneAtATime, NEW m \in uplink, HostReceives(m)
  PROVE  Orderly' /\ host' = host
<1>1. HostSends /\ Routes(m) BY DEF HostReceives
<1>2. Consumes(m)
  <2>1. copies \in 0..0 BY DEF SystemInd, SystemTypeOK, OneAtATime
  <2> QED BY <2>1 DEF HostReceives, Takes, OneAtATime, Consumes
<1>3. HostMoves BY <1>1, <1>2 DEF HostMoves, HostSends, Consumes
<1>4. m.from \in Peers BY Drawn
<1>5. CASE /\ m.kind = "PairingRequest" /\ m.proof = NoCode
           /\ ChallengeTrusted(m.from, m.key, Me)
  BY <1>1, <1>2, <1>3, <1>5, ChallengeTrustedKeepsOrder DEF Asks, ChallengeTrusted
<1>6. CASE /\ m.kind = "PairingRequest" /\ m.proof = NoCode
           /\ IssuePairingCode(m.from, m.key, Me, Me)
  BY <1>1, <1>2, <1>3, <1>6, IssuePairingCodeKeepsOrder DEF Asks
<1>7. CASE /\ m.kind = "PairingRequest" /\ m.proof # NoCode
           /\ ProofAccepted(m.from, m.key, Me, Me, m.proof)
  BY <1>1, <1>2, <1>3, <1>7, ProofAcceptedKeepsOrder DEF Proves, ProofAccepted
<1>8. CASE /\ m.kind = "PairingRequest" /\ m.proof # NoCode
           /\ ProofRefused(m.from, m.key, Me, Me, m.proof)
  BY <1>1, <1>2, <1>3, <1>8, ProofRefusedKeepsOrder DEF Proves, ProofRefused
<1>9. CASE m.kind = "AuthResponse" /\ AuthAccepted(m.from, m.key, m.id, Me)
  BY <1>1, <1>2, <1>3, <1>9, AuthAcceptedKeepsOrder DEF AuthAccepted
<1>10. CASE m.kind = "AuthResponse" /\ AuthRefused(m.from, m.key, m.id, Me)
  BY <1>1, <1>3, <1>4, <1>10, QuietKeepsOrder DEF AuthRefused
<1>11. CASE m.kind = "KeyConfirm" /\ KeyConfirmed(m.from, m.key, m.id, m.eph, Me)
  BY <1>1, <1>2, <1>3, <1>11, KeyConfirmedKeepsOrder DEF IsConfirm, KeyConfirmed
<1>12. CASE m.kind = "KeyConfirm" /\ KeyConfirmFails(m.from, m.key, m.id, Me)
  BY <1>12, ConfirmNeverFails DEF IsConfirm
<1>13. CASE \/ ReceiveInput(m.from, m.key) \/ ReceivePing(m.from, m.key)
            \/ ReceiveConfig(m.from, m.key) \/ Unapproved(m.from, m.key, m.kind)
  <2>1. host' = host
    BY <1>13 DEF ReceiveInput, ReceivePing, ReceiveConfig, Unapproved
  <2> QED BY <1>1, <1>3, <1>4, <1>13, <2>1, QuietKeepsOrder
<1>14. CASE PollIdle
  BY <1>1, <1>3, <1>14, IdleKeepsOrder DEF PollIdle
<1> QED BY <1>1, <1>5, <1>6, <1>7, <1>8, <1>9, <1>10, <1>11, <1>12, <1>13, <1>14 DEF Routes

LEMMA HostActsKeepsOrder ==
  ASSUME SystemInd, SystemInd', Orderly, OneAtATime, HostActs
  PROVE  Orderly' /\ host' = host
<1>1. HostSends /\ HostMoves BY DEF HostActs, HostSends, HostMoves
<1>2. CASE PollIdle BY <1>1, <1>2, IdleKeepsOrder DEF PollIdle
<1>3. CASE OperatorStep
  <2>1. CASE \E p \in Peers : ConsoleApprove(p) BY <2>1 DEF ConsoleApprove, OneAtATime
  <2>2. CASE \E p \in Peers : Reject(p) BY <1>1, <2>2, RejectKeepsOrder DEF Reject
  <2>3. CASE IgnoreDialog BY <1>1, <2>3, IgnoreKeepsOrder DEF IgnoreDialog
  <2>4. CASE \E p \in Peers : sessions[p].perm = "Pending" /\ MayApprove(p) /\ Approve(p)
    BY <1>1, <2>4, ApproveKeepsOrder DEF Approve
  <2>5. CASE \E d \in Devices, permission \in {"allow", "deny"}, exactCase \in BOOLEAN :
               SetPermission(d, permission, exactCase)
    <3>1. PICK d \in Devices, permission \in {"allow", "deny"}, exactCase \in BOOLEAN :
            SetPermission(d, permission, exactCase)
      BY <2>5
    <3>2. Orderly' BY <1>1, <3>1, SetPermissionKeepsOrder
    <3>3. host' = host BY <3>1 DEF SetPermission
    <3> QED BY <3>2, <3>3
  <2>6. CASE \E ds : Forget(ds) BY <2>6 DEF Forget, OneAtATime
  <2>7. CASE \E p \in Peers, answer \in BOOLEAN : DialogAnswered(p, answer)
    BY <2>2, <2>3, <2>4, <2>7 DEF DialogAnswered
  <2> QED BY <1>3, <2>1, <2>2, <2>5, <2>6, <2>7 DEF OperatorStep, ConsoleReject
<1> QED BY <1>2, <1>3 DEF HostActs

(***************************************************************************)
(* The steps of the client that post a task.                               *)
(***************************************************************************)
\* One more task is posted, by a button, by the rest of "Start session", or
\* for the datagram in hand.
Posted(t) ==
  \/ t.op = "Connect" /\ Posting' /\ UNCHANGED <<hand, taps.submit>>
  \/ ui # <<>> /\ t = Head(ui) /\ ui' = Tail(ui) /\ UNCHANGED <<hand, taps.submit>>
  \/ t.op \in {"Config", "Input"} /\ ui' = <<>> /\ UNCHANGED <<hand, taps.submit>>
  \/ /\ t.op = "Submit" /\ shown # 0 /\ taps.submit = 0 /\ taps'.submit = 1
     /\ ui' = <<>> /\ UNCHANGED hand
  \/ /\ t.op = "Auth" \/ (IsOffer(hand) /\ t = Task("Kex", hand.id))
     /\ hand' = Nothing /\ UNCHANGED <<ui, taps.submit>>

Posts(t) ==
  /\ tasks' = Append(tasks, t) /\ t \in ClientTasks
  /\ Posted(t)
  /\ UNCHANGED <<vars, uplink, downlink, conn, open, codec, busy>>

LEMMA PostOnePair ==
  ASSUME ClientTypeOK, OnePair, NEW t, Posts(t)
  PROVE  OnePair'
<1>1. /\ Len(tasks) \in Nat /\ DOMAIN tasks = 1..Len(tasks)
      /\ DOMAIN tasks' = 1..(Len(tasks) + 1) /\ Len(tasks') = Len(tasks) + 1
      /\ \A i \in 1..Len(tasks) : tasks'[i] = tasks[i]
      /\ tasks'[Len(tasks) + 1] = t
  BY Places, Appended DEF Posts
<1>2. t.op = "Pair" =>
        Posting /\ ui' = Tail(ui)
  <2>1. ASSUME t.op = "Pair" PROVE ui # <<>> /\ t = Head(ui) /\ ui' = Tail(ui)
    BY <2>1 DEF Posts, Posted, Task
  <2>2. \A a, b : Head(<<a, b>>) = a /\ Head(<<a>>) = a
    OBVIOUS
  <2> QED BY <2>1, <2>2 DEF OnePair, Posting, Task
<1>3. ui' \in {<<>>, <<Task("Ping", 0)>>, <<Task("Pair", 0), Task("Ping", 0)>>}
  <2>1. \A a, b : Tail(<<a, b>>) = <<b>> /\ Tail(<<a>>) = <<>>
    OBVIOUS
  <2> QED BY <2>1 DEF OnePair, Posts, Posted, Posting
<1>4. Posting' => t.op = "Connect" \/ (Posting /\ t.op # "Pair")
  <2>1. \A a, b : Tail(<<a, b>>) = <<b>> /\ Tail(<<a>>) = <<>> /\ <<a, b>> # <<b>> /\ <<a, b>> # <<>>
    OBVIOUS
  <2>2. ui # <<>> /\ ui' = Tail(ui) => ~Posting' BY <2>1 DEF OnePair, Posting
  <2>3. ui' = <<>> => ~Posting' BY <2>1 DEF Posting
  <2>4. UNCHANGED ui /\ Posting' => Posting BY DEF Posting
  <2> QED BY <2>2, <2>3, <2>4 DEF Posts, Posted, Task
<1>5. ASSUME NEW i \in DOMAIN tasks', NEW j \in DOMAIN tasks', i < j, IsPair(i)', IsPair(j)'
      PROVE  \E k \in i..j : tasks'[k].op = "Connect"
  <2>1. i \in 1..Len(tasks) /\ IsPair(i) BY <1>1, <1>5 DEF IsPair
  <2>2. CASE j \in 1..Len(tasks)
    <3>1. PICK k \in i..j : tasks[k].op = "Connect"
      BY <1>1, <1>5, <2>1, <2>2 DEF OnePair, IsPair
    <3> QED BY <1>1, <2>1, <2>2, <3>1
  <2>3. CASE j = Len(tasks) + 1
    <3>1. Posting BY <1>1, <1>2, <1>5, <2>3 DEF IsPair
    <3>2. PICK k \in i..Len(tasks) : tasks[k].op = "Connect"
      BY <1>1, <2>1, <3>1 DEF OnePair
    <3> QED BY <1>1, <2>1, <2>3, <3>2
  <2> QED BY <1>1, <2>2, <2>3
<1>6. ASSUME Posting', NEW i \in DOMAIN tasks', IsPair(i)'
      PROVE  \E k \in i..Len(tasks') : tasks'[k].op = "Connect"
  <2>1. CASE t.op = "Connect"
    <3>1. Len(tasks) + 1 \in i..Len(tasks') BY <1>1, <1>6
    <3> QED BY <1>1, <2>1, <3>1
  <2>2. CASE Posting /\ t.op # "Pair"
    <3>1. i \in 1..Len(tasks) /\ IsPair(i) BY <1>1, <1>6, <2>2 DEF IsPair
    <3>2. PICK k \in i..Len(tasks) : tasks[k].op = "Connect"
      BY <1>1, <2>2, <3>1 DEF OnePair
    <3> QED BY <1>1, <3>1, <3>2
  <2> QED BY <1>4, <1>6, <2>1, <2>2
<1> QED BY <1>3, <1>5, <1>6 DEF OnePair

LEMMA PostOneRequest ==
  ASSUME ClientTypeOK, OnePair, OneRequest, NEW t, Posts(t)
  PROVE  OneRequest'
<1>1. /\ Len(tasks) \in Nat /\ DOMAIN tasks = 1..Len(tasks)
      /\ DOMAIN tasks' = 1..(Len(tasks) + 1)
      /\ \A i \in 1..Len(tasks) : tasks'[i] = tasks[i]
      /\ tasks'[Len(tasks) + 1] = t
      /\ \A i \in 1..(Len(tasks) + 1) : Now(i)' <=> Now(i)
      /\ Now(Last)' => Now(Last) /\ t.op # "Connect"
  BY Places, Appended DEF Posts
<1>2. t.op = "Pair" => Posting
  <2>1. ASSUME t.op = "Pair" PROVE ui # <<>> /\ t = Head(ui)
    BY <2>1 DEF Posts, Posted, Task
  <2>2. \A a, b : Head(<<a, b>>) = a /\ Head(<<a>>) = a
    OBVIOUS
  <2> QED BY <2>1, <2>2 DEF OnePair, Posting, Task
<1>3. Posting' => t.op = "Connect" \/ Posting
  <2>1. \A a, b : Tail(<<a, b>>) = <<b>> /\ Tail(<<a>>) = <<>> /\ <<a, b>> # <<b>> /\ <<a, b>> # <<>>
    OBVIOUS
  <2>2. ui # <<>> /\ ui' = Tail(ui) => ~Posting' BY <2>1 DEF OnePair, Posting
  <2>3. ui' = <<>> => ~Posting' BY <2>1 DEF Posting
  <2>4. UNCHANGED ui /\ Posting' => Posting BY DEF Posting
  <2> QED BY <2>2, <2>3, <2>4 DEF Posts, Posted, Task
<1>4. Due' => Due
  <2>1. ASSUME NEW i \in DOMAIN tasks', IsPair(i)', Now(i)'
        PROVE  Due
    <3>1. CASE i \in 1..Len(tasks) BY <1>1, <2>1, <3>1 DEF Due, IsPair
    <3>2. CASE i = Len(tasks) + 1 BY <1>1, <1>2, <2>1, <3>2 DEF Due, IsPair, Last
    <3> QED BY <1>1, <3>1, <3>2
  <2>2. ASSUME Posting', Now(Last)' PROVE Due
    BY <1>1, <1>3, <2>2 DEF Due
  <2> QED BY <2>1, <2>2 DEF Due
<1> QED BY <1>4 DEF OneRequest, Posts, vars, Asks

LEMMA PostOneProof ==
  ASSUME ClientTypeOK, Ind, OnePair, OneProof, NEW t, Posts(t)
  PROVE  OneProof'
<1>1. /\ Len(tasks) \in Nat /\ DOMAIN tasks = 1..Len(tasks)
      /\ DOMAIN tasks' = 1..(Len(tasks) + 1)
      /\ \A i \in 1..Len(tasks) : tasks'[i] = tasks[i]
      /\ tasks'[Len(tasks) + 1] = t
  BY Places, Appended DEF Posts
<1>2. /\ UNCHANGED <<uplink, sessions, store, issued>>
      /\ \A i \in DOMAIN tasks' : IsSubmit(i)' =>
           (i \in DOMAIN tasks /\ IsSubmit(i)) \/ (i = Len(tasks) + 1 /\ t.op = "Submit")
      /\ Untrusted' <=> Untrusted
      /\ Uncoded' <=> Uncoded
  BY <1>1 DEF Posts, vars, IsSubmit, Untrusted, Uncoded
<1>3. CASE t.op # "Submit"
  <2>1. taps'.submit = taps.submit BY <1>3 DEF Posts, Posted
  <2>2. \A i \in DOMAIN tasks' : IsSubmit(i)' => i \in DOMAIN tasks /\ IsSubmit(i)
    BY <1>2, <1>3
  <2>3. Outstanding' => Outstanding BY <1>2, <2>2 DEF Outstanding, Proves
  <2> HIDE DEF Untrusted, Uncoded, Outstanding
  <2> QED BY <1>2, <2>1, <2>2, <2>3 DEF OneProof, Proves
<1>4. CASE t.op = "Submit"
  <2>1. shown # 0 /\ taps.submit = 0 /\ taps'.submit = 1
    <3>1. ui # <<>> => Head(ui).op # "Submit"
      <4>1. \A a, b : Head(<<a, b>>) = a /\ Head(<<a>>) = a
        OBVIOUS
      <4> QED BY <4>1 DEF OnePair, Task
    <3> QED BY <1>4, <3>1 DEF Posts, Posted, Task
  <2>2. ~Outstanding BY <2>1 DEF OneProof
  <2>3. issued.salt # 0 BY <2>1, Types DEF ClientTypeOK, Shown
  <2>4. Untrusted /\ \A p \in Peers : ~sessions[p].verified /\ sessions[p].attempts = 0
    BY <2>1, <2>3 DEF OneProof, Uncoded
  <2>5. /\ \A m \in uplink : ~Proves(m)
        /\ \A i \in DOMAIN tasks' : IsSubmit(i)' => i = Len(tasks) + 1
    BY <1>2, <2>2 DEF Outstanding
  <2> HIDE DEF Untrusted, Uncoded, Outstanding
  <2> QED BY <1>2, <2>1, <2>4, <2>5 DEF OneProof, Proves
<1> QED BY <1>3, <1>4

LEMMA PostOneOffer ==
  ASSUME ClientTypeOK, OnePair, OneOffer, NEW t, Posts(t)
  PROVE  OneOffer'
<1>1. /\ Len(tasks) \in Nat /\ DOMAIN tasks = 1..Len(tasks)
      /\ DOMAIN tasks' = 1..(Len(tasks) + 1)
      /\ \A i \in 1..Len(tasks) : tasks'[i] = tasks[i]
      /\ tasks'[Len(tasks) + 1] = t
  BY Places, Appended DEF Posts
<1>2. /\ UNCHANGED <<uplink, downlink, sessions, queue>>
      /\ \A i \in DOMAIN tasks' : IsKex(i)' =>
           \/ i \in DOMAIN tasks /\ IsKex(i) /\ tasks'[i] = tasks[i]
           \/ i = Len(tasks) + 1 /\ t.op = "Kex" /\ tasks'[i] = t
      /\ \A id : Told(id)' <=> Told(id)
  BY <1>1 DEF Posts, vars, IsKex, Told
<1>3. t.op = "Kex" => IsOffer(hand) /\ t.arg = hand.id /\ hand' = Nothing
  <2>1. ui # <<>> => Head(ui).op # "Kex"
    <3>1. \A a, b : Head(<<a, b>>) = a /\ Head(<<a>>) = a
      OBVIOUS
    <3> QED BY <3>1 DEF OnePair, Task
  <2> QED BY <2>1 DEF Posts, Posted, Task
<1>4. IsOffer(hand)' => hand' = hand /\ t.op # "Kex"
  BY <1>3 DEF Posts, Posted, IsOffer, Nothing
<1>5. /\ \A id : Handed(id)' => Handed(id)
      /\ \A id : Tasked(id)' => Tasked(id) \/ (t.op = "Kex" /\ Handed(id))
  BY <1>2, <1>3, <1>4 DEF Handed, Tasked
<1>6. /\ downlink' \subseteq Datagram
      /\ \A m \in queue' : IsOffer(m) => sessions'[m.to].kex.sid = m.id
      /\ \A d \in downlink' : IsOffer(d) => d.key = NoKeys /\ sessions'[d.to].kex.sid = d.id
      /\ \A m \in queue', d \in downlink' : IsOffer(m) /\ IsOffer(d) => m.id # d.id
      /\ \A m, n \in uplink' : IsConfirm(m) /\ IsConfirm(n) /\ m.id = n.id => m = n
  BY <1>2 DEF OneOffer
<1>7. \A m \in queue' \cup downlink' :
        IsOffer(m) => ~Handed(m.id)' /\ ~Tasked(m.id)' /\ ~Told(m.id)'
  BY <1>2, <1>5 DEF OneOffer
<1>8. ASSUME NEW i \in DOMAIN tasks', NEW j \in DOMAIN tasks',
             IsKex(i)', IsKex(j)', tasks'[i].arg = tasks'[j].arg
      PROVE  i = j
  BY <1>2, <1>3, <1>8 DEF OneOffer, Tasked
<1>9. IsOffer(hand)' => ~Tasked(hand.id)' /\ ~Told(hand.id)'
  BY <1>2, <1>4, <1>5 DEF OneOffer
<1>10. \A i \in DOMAIN tasks' : IsKex(i)' => ~Told(tasks[i].arg)'
  BY <1>2, <1>3 DEF OneOffer
<1> HIDE DEF Handed, Tasked, Told
<1> QED BY <1>6, <1>7, <1>8, <1>9, <1>10 DEF OneOffer, IsOffer, IsConfirm

LEMMA PostStaleOffers ==
  ASSUME ClientTypeOK, OnePair, StaleOffers, NEW t, Posts(t)
  PROVE  StaleOffers'
<1>1. /\ Len(tasks) \in Nat /\ DOMAIN tasks = 1..Len(tasks)
      /\ DOMAIN tasks' = 1..(Len(tasks) + 1)
      /\ \A i \in 1..Len(tasks) : tasks'[i] = tasks[i]
      /\ tasks'[Len(tasks) + 1] = t
      /\ \A i \in 1..(Len(tasks) + 1) : Now(i)' <=> Now(i)
      /\ Now(Last)' => Now(Last) /\ t.op # "Connect"
      /\ Last' = Last + 1 /\ Last = Len(tasks) + 1
  BY Places, Appended DEF Posts, Last
<1>2. /\ UNCHANGED <<open, conn, sessions, uplink>>
      /\ \A id : Stale(id)' <=> Stale(id)
      /\ Unoffered(conn)' <=> Unoffered(conn)
  BY DEF Posts, vars, Stale, Unoffered, LiveAuth
<1>3. \A i \in 1..(Len(tasks) + 1) : Bare(i) => Bare(i)'
  <2> SUFFICES ASSUME NEW i \in 1..(Len(tasks) + 1), Bare(i) PROVE Bare(i)'
    OBVIOUS
  <2>1. \A k \in 1..(i - 1) : tasks'[k] = tasks[k] BY <1>1
  <2> QED BY <1>2, <2>1 DEF Bare
<1>4. t.op = "Kex" => IsOffer(hand) /\ t.arg = hand.id
  <2>1. ui # <<>> => Head(ui).op # "Kex"
    <3>1. \A a, b : Head(<<a, b>>) = a /\ Head(<<a>>) = a
      OBVIOUS
    <3> QED BY <3>1 DEF OnePair, Task
  <2> QED BY <2>1 DEF Posts, Posted, Task
<1>5. ASSUME open, NEW i \in DOMAIN tasks', IsKex(i)', Now(i)', Stale(tasks[i].arg)'
      PROVE  Bare(i)'
  <2>1. CASE i \in 1..Len(tasks)
    BY <1>1, <1>2, <1>3, <1>5, <2>1 DEF StaleOffers, IsKex
  <2>2. CASE i = Len(tasks) + 1
    <3>1. IsOffer(hand) /\ Stale(hand.id) /\ Now(Last)
      BY <1>1, <1>2, <1>4, <1>5, <2>2 DEF IsKex
    <3>2. Bare(Last) BY <1>5, <3>1 DEF StaleOffers
    <3>3. i = Last /\ i \in 1..(Len(tasks) + 1) BY <1>1, <2>2
    <3> QED BY <1>3, <3>2, <3>3
  <2> QED BY <1>1, <2>1, <2>2
<1>6. ASSUME open, IsOffer(hand)', Now(Last)', Stale(hand.id)'
      PROVE  Bare(Last)'
  <2>1. hand' = hand /\ t.op \in {"Connect", "Pair", "Ping", "Config", "Input", "Submit"}
    <3>1. ui # <<>> => Head(ui).op \in {"Pair", "Ping"}
      <4>1. \A a, b : Head(<<a, b>>) = a /\ Head(<<a>>) = a
        OBVIOUS
      <4> QED BY <4>1 DEF OnePair, Task
    <3> QED BY <1>6, <3>1 DEF Posts, Posted, IsOffer, Nothing
  <2>2. Bare(Last) BY <1>1, <1>2, <1>6, <2>1 DEF StaleOffers, IsOffer
  <2>3. Unoffered(conn)' BY <1>2, <2>2 DEF Bare
  <2>4. ASSUME sessions[conn].auth # NoAuth, NEW k \in 1..(Last' - 1)
        PROVE  tasks'[k] # Task("Auth", sessions[conn].auth.id)
    <3>1. CASE k \in 1..Len(tasks) BY <1>1, <2>2, <2>4, <3>1 DEF Bare
    <3>2. CASE k = Len(tasks) + 1 BY <1>1, <2>1, <3>2 DEF Task
    <3> QED BY <1>1, <3>1, <3>2
  <2>5. \A n : n = Last' => (Unoffered(conn)' /\ (sessions'[conn].auth # NoAuth =>
                \A k \in 1..(n - 1) : tasks'[k] # Task("Auth", sessions'[conn].auth.id)) => Bare(Last)')
    BY <1>2 DEF Bare
  <2> QED BY <1>2, <2>3, <2>4, <2>5
<1> QED BY <1>2, <1>5, <1>6 DEF StaleOffers

LEMMA PostKeepsOrder ==
  ASSUME SystemInd, Orderly, NEW t, Posts(t)
  PROVE  Orderly'
<1>1. /\ SessionsHold /\ OnePair /\ OneRequest /\ OneProof
      /\ OneOffer /\ StaleOffers /\ StaleConfirms /\ SameKeys /\ ClientTypeOK /\ Ind
  BY DEF Orderly, SystemInd, SystemTypeOK
<1>2. SessionsHold' BY <1>1 DEF Posts, vars, SessionsHold, OffersApart
<1>3. StaleConfirms'
  BY <1>1 DEF Posts, vars, StaleConfirms, IsConfirm, Unoffered, LiveAuth, Silenced, Installs
<1>4. SameKeys'
  BY <1>1 DEF Posts, vars, SameKeys, IsConfirm, IsSecure, ClientHas, Installs
<1> QED BY <1>1, <1>2, <1>3, <1>4, PostOnePair, PostOneRequest, PostOneProof, PostOneOffer,
           PostStaleOffers DEF Orderly

\* The taps are counted.
Tapping == taps \in [connect : Nat, request : Nat, submit : Nat, apply : Nat]

LEMMA TapsCount ==
  ASSUME Tapping, [SystemNext]_systemVars
  PROVE  Tapping' /\ taps.submit <= taps'.submit /\ taps.request <= taps'.request
<1>1. CASE taps' = taps BY <1>1 DEF Tapping
<1>2. CASE \E button \in {"connect", "request", "submit", "apply"} :
             taps' = [taps EXCEPT ![button] = @ + 1]
  <2>1. PICK button \in {"connect", "request", "submit", "apply"} :
             taps' = [taps EXCEPT ![button] = @ + 1]
    BY <1>2
  <2> QED BY <2>1 DEF Tapping
<1>3. ASSUME ClientActs, taps' # taps
      PROVE  \E button \in {"connect", "request", "submit", "apply"} :
               taps' = [taps EXCEPT ![button] = @ + 1]
  <2>1. CASE TapConnect BY <2>1 DEF TapConnect
  <2>2. CASE \E button \in {"request", "submit", "apply"} : \E t : Tapped(button, t)
    BY <2>2 DEF Tapped
  <2>3. ASSUME ~TapConnect, ~\E button \in {"request", "submit", "apply"} : \E t : Tapped(button, t)
        PROVE  taps' = taps
    <3>1. ~TapRequest /\ ~UserSubmits /\ ~(\E kind \in {"Config", "Input"} : TapApply(kind))
      BY <2>3 DEF TapRequest, UserSubmits, TapSubmit, TapApply
    <3>2. \/ PostRest \/ RunConnect \/ RunPair \/ RunSend \/ RunSubmit \/ RunInput \/ RunAuth
          \/ ConfirmOffer \/ DropOffer \/ InstallCodec \/ FinishCopy
          \/ ConnectFails \/ SubmitExpired \/ HandleReceived
      BY <1>3, <2>3, <3>1 DEF ClientActs, ClientStep, Execute
    <3>3. CASE RunPair \/ RunSend \/ RunSubmit \/ RunInput \/ RunAuth
      BY <3>3 DEF RunPair, RunSend, RunSubmit, RunInput, RunAuth, SendControl
    <3>4. CASE HandleReceived
      BY <3>4 DEF HandleReceived, HandleChallenge, HandleResult, HandleOnExecutor, HandleOther,
                  Handled
    <3> QED BY <3>2, <3>3, <3>4 DEF PostRest, RunConnect, ConfirmOffer, DropOffer, InstallCodec,
               FinishCopy, ConnectFails, SubmitExpired
  <2> QED BY <1>3, <2>1, <2>2, <2>3
<1>4. taps' # taps => ClientActs
  BY DEF SystemNext, ClientReceives, Receive, HostReceives, HostActs, HostSends, clientVars,
         systemVars
<1> QED BY <1>1, <1>2, <1>3, <1>4

LEMMA PostingSteps ==
  ASSUME SystemInd, Tapping, Once, Once', ClientSends,
         \/ TapConnect \/ PostRest \/ TapRequest \/ UserSubmits
         \/ \E kind \in {"Config", "Input"} : TapApply(kind)
         \/ HandleOnExecutor
  PROVE  \E t : Posts(t)
<1>1. Ind /\ ClientTypeOK BY DEF SystemInd, SystemTypeOK
<1>2. sent' = {} =>
        UNCHANGED <<vars, uplink, downlink>>
  BY DEF ClientSends
<1>3. CASE TapConnect
  <2>1. Task("Connect", 0) \in ClientTasks BY <1>1, Named
  <2>2. taps'.submit = taps.submit BY <1>3 DEF TapConnect, Tapping
  <2> QED BY <1>2, <1>3, <2>1, <2>2 DEF TapConnect, Posts, Posted, Posting, Task
<1>4. CASE PostRest
  <2>1. Head(ui) \in ClientTasks BY <1>1, <1>4, Dequeued DEF PostRest, ClientTypeOK
  <2> QED BY <1>2, <1>4, <2>1 DEF PostRest, Posts, Posted
<1>5. CASE TapRequest
  <2>1. taps'.request = taps.request + 1 /\ taps.request \in Nat
    BY <1>5 DEF TapRequest, Tapped, Tapping
  <2> QED BY <2>1 DEF Once
<1>6. CASE UserSubmits
  <2>1. PICK digits \in {0, code.gen} : TapSubmit(digits) BY <1>6 DEF UserSubmits
  <2>2. Task("Submit", digits) \in ClientTasks BY <1>1, Named, Types
  <2>3. taps'.submit = taps.submit + 1 /\ taps.submit \in Nat
    BY <2>1 DEF TapSubmit, Tapped, Tapping
  <2>4. taps.submit = 0 /\ taps'.submit = 1 BY <2>3 DEF Once
  <2> QED BY <1>2, <2>1, <2>2, <2>4 DEF TapSubmit, Tapped, Posts, Posted, Task
<1>7. CASE \E kind \in {"Config", "Input"} : TapApply(kind)
  <2>1. PICK kind \in {"Config", "Input"} : TapApply(kind) BY <1>7
  <2>2. Task(kind, 0) \in ClientTasks BY <1>1, Named
  <2>3. taps'.submit = taps.submit BY <2>1 DEF TapApply, Tapped, Tapping
  <2> QED BY <1>2, <2>1, <2>2, <2>3 DEF TapApply, Tapped, Posts, Posted, Task
<1>8. CASE HandleOnExecutor
  <2>1. PICK t : /\ tasks' = Append(tasks, t)
                 /\ \/ hand.kind = "AuthChallenge" /\ t = Task("Auth", hand.id)
                    \/ hand.kind = "Offer" /\ t = Task("Kex", hand.id)
    BY <1>8 DEF HandleOnExecutor
  <2>2. IssuedAs(hand) BY <1>1, <2>1 DEF ClientTypeOK, Nothing
  <2>3. t \in ClientTasks BY <1>1, <2>1, <2>2, Named DEF IssuedAs
  <2>4. Posted(t) BY <1>8, <2>1 DEF HandleOnExecutor, Handled, Posted, IsOffer, Task
  <2> QED BY <1>2, <1>8, <2>1, <2>3, <2>4 DEF HandleOnExecutor, Handled, Posts
<1> QED BY <1>3, <1>4, <1>5, <1>6, <1>7, <1>8

(***************************************************************************)
(* The steps of the executor that run a task.                              *)
(***************************************************************************)
\* A message the task at the head of the queue may send.
Reply(m) ==
  /\ open /\ m.from = conn
  /\ \/ Asks(m) /\ Head(tasks).op = "Pair"
     \/ Proves(m) /\ Head(tasks).op = "Submit"
     \/ m.kind = "AuthResponse" /\ m.key = codec /\ Head(tasks) = Task("Auth", m.id)
     \/ /\ IsConfirm(m) /\ m.key = NoKeys /\ Head(tasks) = Task("Kex", m.id)
        /\ Installs' /\ busy'.key = [sid |-> m.id, eph |-> m.eph]
     \/ m.kind \in {"Ping", "Config", "Input"}

\* The task at the head of the queue sends what is in new.
Runs(new) ==
  /\ tasks # <<>> /\ tasks' = Tail(tasks)
  /\ uplink' = uplink \cup new
  /\ \A m \in new : Reply(m)
  /\ \A m, n \in new : m = n
  /\ UNCHANGED <<vars, downlink, ui, hand, taps>>

\* It is not a connect, or one that fails.
Pops(new) ==
  /\ Runs(new)
  /\ busy = Idle
  /\ open' => open /\ Head(tasks).op # "Connect"
  /\ Installs' => \E m \in new : IsConfirm(m)
  /\ UNCHANGED <<conn, codec>>

LEMMA Shifted ==
  ASSUME ClientTypeOK, NEW new, Runs(new)
  PROVE  /\ Len(tasks) \in Nat \ {0} /\ DOMAIN tasks = 1..Len(tasks)
         /\ DOMAIN tasks' = 1..(Len(tasks) - 1)
         /\ Len(tasks') = Len(tasks) - 1
         /\ \A i \in DOMAIN tasks' : i + 1 \in DOMAIN tasks /\ i + 1 # 1 /\ tasks'[i] = tasks[i + 1]
         /\ tasks[1] = Head(tasks) /\ 1 \in DOMAIN tasks
         /\ Last = Len(tasks) + 1 /\ Last' = Len(tasks)
         /\ Head(tasks).op # "Connect" => \A i \in 1..Len(tasks) : Now(i)' => Now(i + 1)
<1>1. tasks # <<>> /\ tasks' = Tail(tasks) BY DEF Runs
<1>2. Last = Len(tasks) + 1 BY DEF Last
<1>3. /\ Len(tasks) \in Nat \ {0} /\ DOMAIN tasks' = 1..(Len(tasks) - 1)
      /\ Len(tasks') = Len(tasks) - 1
      /\ \A i \in 1..(Len(tasks) - 1) : tasks'[i] = tasks[i + 1]
      /\ tasks[1] = Head(tasks) /\ DOMAIN tasks = 1..Len(tasks)
      /\ Last' = Last - 1
      /\ Head(tasks).op # "Connect" => \A i \in 1..Len(tasks) : Now(i)' => Now(i + 1)
  BY <1>1, Popped, Places
<1> QED BY <1>2, <1>3

LEMMA PopOnePair ==
  ASSUME ClientTypeOK, OnePair, NEW new, Runs(new)
  PROVE  OnePair'
<1>1. /\ Len(tasks) \in Nat \ {0} /\ DOMAIN tasks = 1..Len(tasks)
      /\ DOMAIN tasks' = 1..(Len(tasks) - 1)
      /\ Len(tasks') = Len(tasks) - 1
      /\ \A i \in DOMAIN tasks' : i + 1 \in DOMAIN tasks /\ tasks'[i] = tasks[i + 1]
  BY Shifted
<1>2. \A i \in DOMAIN tasks' : IsPair(i)' => IsPair(i + 1) BY <1>1 DEF IsPair
<1>3. ui' = ui /\ (Posting' <=> Posting) BY DEF Runs, Posting
<1>4. ASSUME NEW i \in DOMAIN tasks', NEW j \in DOMAIN tasks', i < j, IsPair(i)', IsPair(j)'
      PROVE  \E k \in i..j : tasks'[k].op = "Connect"
  <2>1. i + 1 < j + 1 /\ i + 1 \in DOMAIN tasks /\ j + 1 \in DOMAIN tasks BY <1>1, <1>4
  <2>2. PICK k \in (i + 1)..(j + 1) : tasks[k].op = "Connect" BY <1>2, <1>4, <2>1 DEF OnePair
  <2>3. k - 1 \in i..j /\ k - 1 \in DOMAIN tasks' /\ (k - 1) + 1 = k BY <1>1, <1>4, <2>2
  <2> QED BY <1>1, <2>2, <2>3
<1>5. ASSUME Posting, NEW i \in DOMAIN tasks', IsPair(i)'
      PROVE  \E k \in i..Len(tasks') : tasks'[k].op = "Connect"
  <2>1. i + 1 \in DOMAIN tasks BY <1>1, <1>5
  <2>2. PICK k \in (i + 1)..Len(tasks) : tasks[k].op = "Connect" BY <1>2, <1>5, <2>1 DEF OnePair
  <2>3. k - 1 \in i..Len(tasks') /\ k - 1 \in DOMAIN tasks' /\ (k - 1) + 1 = k
    BY <1>1, <1>5, <2>2
  <2> QED BY <1>1, <2>2, <2>3
<1> QED BY <1>3, <1>4, <1>5 DEF OnePair

LEMMA PopOneRequest ==
  ASSUME SystemInd, OnePair, OneRequest, NEW new, Pops(new)
  PROVE  OneRequest'
<1>0. ClientTypeOK /\ conn \in Nat
  BY ClientAssumption DEF SystemInd, SystemTypeOK, ClientTypeOK, ClientAssumption
<1>1. /\ Len(tasks) \in Nat \ {0} /\ DOMAIN tasks = 1..Len(tasks)
      /\ DOMAIN tasks' = 1..(Len(tasks) - 1)
      /\ \A i \in DOMAIN tasks' : i + 1 \in DOMAIN tasks /\ tasks'[i] = tasks[i + 1]
      /\ tasks[1] = Head(tasks) /\ 1 \in DOMAIN tasks
      /\ Last = Len(tasks) + 1 /\ Last' = Len(tasks)
      /\ open' => \A i \in 1..Len(tasks) : Now(i)' => Now(i + 1)
  BY <1>0, Shifted DEF Pops
<1>2. /\ UNCHANGED <<sessions, conn, ui>> /\ uplink' = uplink \cup new
      /\ \A m \in new : m.from = conn /\ open
      /\ \A m, n \in new : m = n
      /\ open' => open
  BY DEF Pops, Runs, Reply, vars
<1>3. \A m \in new : Asks(m) => Head(tasks).op = "Pair"
  BY DEF Pops, Runs, Reply, Asks, Proves, IsConfirm
<1>4. \A m \in new : Asks(m) => Due
  <2>1. Now(1) BY DEF Now
  <2> QED BY <1>1, <1>3, <2>1 DEF Due, IsPair
<1>5. open' /\ Due' => Due /\ \A m \in new : ~Asks(m)
  <2> SUFFICES ASSUME open', Due' PROVE Due /\ Head(tasks).op # "Pair"
    BY <1>3
  <2>1. ASSUME NEW i \in DOMAIN tasks', IsPair(i)', Now(i)'
        PROVE  Due /\ Head(tasks).op # "Pair"
    <3>1. i \in 1..Len(tasks) /\ i + 1 \in DOMAIN tasks /\ IsPair(i + 1)
      BY <1>1, <2>1 DEF IsPair
    <3>2. Now(i + 1) BY <1>1, <2>1, <3>1
    <3>3. ASSUME Head(tasks).op = "Pair" PROVE FALSE
      <4>1. 1 < i + 1 /\ IsPair(1) BY <1>1, <3>1, <3>3 DEF IsPair
      <4>2. PICK k \in 1..(i + 1) : tasks[k].op = "Connect" BY <1>1, <3>1, <4>1 DEF OnePair
      <4>3. k = i + 1 \/ k \in 1..((i + 1) - 1) BY <4>2, <3>1
      <4> QED BY <3>1, <3>2, <4>2, <4>3 DEF Now, IsPair
    <3> QED BY <3>1, <3>2, <3>3 DEF Due
  <2>2. ASSUME Posting', Now(Last)'
        PROVE  Due /\ Head(tasks).op # "Pair"
    <3>1. Posting BY <1>2, <2>2 DEF Posting
    <3>2. \A i : i = Last' /\ Now(Last)' => Now(i)' BY DEF Now
    <3>3. Len(tasks) \in 1..Len(tasks) /\ \A i : i = Len(tasks) => Now(i)' BY <1>1, <2>2, <3>2
    <3>4. Now(Last) BY <1>1, <3>3
    <3>5. ASSUME Head(tasks).op = "Pair" PROVE FALSE
      <4>1. PICK k \in 1..Len(tasks) : tasks[k].op = "Connect"
        BY <1>1, <3>1, <3>5 DEF OnePair, IsPair
      <4> QED BY <1>1, <3>4, <4>1 DEF Now
    <3> QED BY <3>1, <3>4, <3>5 DEF Due
  <2> QED BY <2>1, <2>2 DEF Due
<1>6. \A m \in uplink : m.from <= conn BY DEF OneRequest
<1>7. \A m \in new : Asks(m) => /\ ~Engaged(sessions[conn])
                                /\ \A n \in uplink : Asks(n) => n.from # conn
  BY <1>2, <1>4 DEF OneRequest
<1>8. \A m, n \in uplink' : Asks(m) /\ Asks(n) /\ m.from = n.from => m = n
  BY <1>2, <1>7 DEF OneRequest
<1>9. \A m \in uplink' : Asks(m) => ~Engaged(sessions[m.from])
  BY <1>2, <1>7 DEF OneRequest
<1>10. open' /\ Due' => /\ ~Engaged(sessions[conn])
                        /\ \A m \in uplink' : Asks(m) => m.from # conn
  BY <1>2, <1>5 DEF OneRequest
<1>11. \A m \in uplink' : m.from <= conn BY <1>0, <1>2, <1>6
<1> HIDE DEF Due
<1> QED BY <1>2, <1>8, <1>9, <1>10, <1>11 DEF OneRequest, Asks

LEMMA PopOneProof ==
  ASSUME ClientTypeOK, OneProof, NEW new, Runs(new)
  PROVE  OneProof'
<1>1. /\ \A i \in DOMAIN tasks' : i + 1 \in DOMAIN tasks /\ i + 1 # 1 /\ tasks'[i] = tasks[i + 1]
      /\ DOMAIN tasks' \subseteq Int
      /\ tasks[1] = Head(tasks) /\ 1 \in DOMAIN tasks
  BY Shifted
<1>2. /\ UNCHANGED <<sessions, store, issued, taps>> /\ uplink' = uplink \cup new
      /\ \A m, n \in new : m = n
      /\ Untrusted' <=> Untrusted
      /\ Uncoded' <=> Uncoded
  BY DEF Runs, vars, Untrusted, Uncoded
<1>3. \A m \in new : Proves(m) => IsSubmit(1)
  BY <1>1 DEF Runs, Reply, Asks, Proves, IsConfirm, IsSubmit
<1>4. \A i \in DOMAIN tasks' : IsSubmit(i)' => IsSubmit(i + 1) BY <1>1 DEF IsSubmit
<1>5. Outstanding' => Outstanding BY <1>1, <1>2, <1>3, <1>4 DEF Outstanding, Proves
<1>6. \A m, n \in uplink' : Proves(m) /\ Proves(n) => m = n
  BY <1>1, <1>2, <1>3 DEF OneProof
<1>7. \A i, j \in DOMAIN tasks' : IsSubmit(i)' /\ IsSubmit(j)' => i = j
  <2> TAKE i, j \in DOMAIN tasks'
  <2> HAVE IsSubmit(i)' /\ IsSubmit(j)'
  <2>1. i + 1 = j + 1 BY <1>1, <1>4 DEF OneProof
  <2> QED BY <1>1, <2>1
<1>8. \A i \in DOMAIN tasks', m \in uplink' : ~(IsSubmit(i)' /\ Proves(m))
  BY <1>1, <1>2, <1>3, <1>4 DEF OneProof
<1> HIDE DEF Outstanding, Untrusted, Uncoded
<1> QED BY <1>2, <1>5, <1>6, <1>7, <1>8 DEF OneProof, Proves

LEMMA PopOneOffer ==
  ASSUME ClientTypeOK, OneOffer, NEW new, Runs(new)
  PROVE  OneOffer'
<1>1. /\ \A i \in DOMAIN tasks' : i + 1 \in DOMAIN tasks /\ i + 1 # 1 /\ tasks'[i] = tasks[i + 1]
      /\ DOMAIN tasks' \subseteq Int
      /\ tasks[1] = Head(tasks) /\ 1 \in DOMAIN tasks
  BY Shifted
<1>2. /\ UNCHANGED <<sessions, queue, downlink, hand>> /\ uplink' = uplink \cup new
      /\ \A m, n \in new : m = n
      /\ \A id : Handed(id)' <=> Handed(id)
  BY DEF Runs, vars, Handed
<1>3. \A m \in new : IsConfirm(m) => IsKex(1) /\ tasks[1].arg = m.id
  <2>1. \A m \in new : IsConfirm(m) => Head(tasks) = Task("Kex", m.id)
    BY DEF Runs, Reply, Asks, Proves, IsConfirm
  <2> QED BY <1>1, <2>1 DEF IsKex, Task
<1>4. \A i \in DOMAIN tasks' : IsKex(i)' => IsKex(i + 1) BY <1>1 DEF IsKex
<1>5. /\ \A id : Tasked(id)' => Tasked(id)
      /\ \A id : Told(id)' => Told(id) \/ (IsKex(1) /\ tasks[1].arg = id /\ Tasked(id))
  BY <1>1, <1>2, <1>3, <1>4 DEF Tasked, Told, IsConfirm
<1>6. \A m, n \in uplink' : IsConfirm(m) /\ IsConfirm(n) /\ m.id = n.id => m = n
  <2>1. \A m \in new : IsConfirm(m) => ~Told(m.id) BY <1>1, <1>3 DEF OneOffer
  <2> QED BY <1>2, <2>1 DEF OneOffer, Told
<1>7. \A i, j \in DOMAIN tasks' : IsKex(i)' /\ IsKex(j)' /\ tasks'[i].arg = tasks'[j].arg => i = j
  <2> TAKE i, j \in DOMAIN tasks'
  <2> HAVE IsKex(i)' /\ IsKex(j)' /\ tasks'[i].arg = tasks'[j].arg
  <2>1. i + 1 = j + 1 BY <1>1, <1>4 DEF OneOffer
  <2> QED BY <1>1, <2>1
<1>8. \A i \in DOMAIN tasks' : IsKex(i)' => ~Told(tasks[i].arg)'
  BY <1>1, <1>4, <1>5 DEF OneOffer
<1>9. \A m \in queue' \cup downlink' :
        IsOffer(m) => ~Handed(m.id)' /\ ~Tasked(m.id)' /\ ~Told(m.id)'
  BY <1>2, <1>5 DEF OneOffer
<1>10. IsOffer(hand)' => ~Tasked(hand.id)' /\ ~Told(hand.id)'
  <2>1. \A id : IsOffer(hand) /\ id = hand.id => ~Tasked(id)' /\ ~Told(id)'
    BY <1>5 DEF OneOffer
  <2>2. (\A id : id = hand.id => ~Tasked(id)' /\ ~Told(id)') => ~Tasked(hand.id)' /\ ~Told(hand.id)'
    BY <1>2 DEF Tasked, Told
  <2> QED BY <1>2, <2>1, <2>2 DEF IsOffer
<1>11. /\ downlink' \subseteq Datagram
       /\ \A m \in queue' : IsOffer(m) => sessions'[m.to].kex.sid = m.id
       /\ \A d \in downlink' : IsOffer(d) => d.key = NoKeys /\ sessions'[d.to].kex.sid = d.id
       /\ \A m \in queue', d \in downlink' : IsOffer(m) /\ IsOffer(d) => m.id # d.id
  BY <1>2 DEF OneOffer
<1> HIDE DEF Tasked, Told, Handed
<1> QED BY <1>2, <1>6, <1>7, <1>8, <1>9, <1>10, <1>11 DEF OneOffer, IsOffer, IsConfirm

LEMMA PopBare ==
  ASSUME ClientTypeOK, NEW new, Pops(new), open', NEW i \in 1..Len(tasks), Bare(i + 1)
  PROVE  Bare(i)'
<1>1. /\ Len(tasks) \in Nat \ {0} /\ DOMAIN tasks' = 1..(Len(tasks) - 1)
      /\ \A k \in DOMAIN tasks' : tasks'[k] = tasks[k + 1]
      /\ tasks[1] = Head(tasks)
  BY Shifted DEF Pops
<1>2. /\ UNCHANGED <<sessions, conn>> /\ uplink' = uplink \cup new
      /\ \A m \in new : m.kind = "AuthResponse" => tasks[1] = Task("Auth", m.id)
  BY <1>1 DEF Pops, Runs, Reply, Asks, Proves, IsConfirm, vars
<1>3. sessions[conn].auth # NoAuth =>
        \A k \in 1..i : tasks[k] # Task("Auth", sessions[conn].auth.id)
  BY <1>1 DEF Bare
<1>4. ~LiveAuth(conn)'
  <2>1. 1 \in 1..i OBVIOUS
  <2> QED BY <1>2, <1>3, <2>1 DEF LiveAuth, Bare, Unoffered
<1>5. Unoffered(conn)' BY <1>2, <1>4 DEF Unoffered, Bare
<1>6. sessions'[conn].auth # NoAuth =>
        \A k \in 1..(i - 1) : tasks'[k] # Task("Auth", sessions'[conn].auth.id)
  <2>1. \A k \in 1..(i - 1) : tasks'[k] = tasks[k + 1] /\ k + 1 \in 1..i BY <1>1
  <2> QED BY <1>2, <1>3, <2>1
<1> QED BY <1>2, <1>5, <1>6 DEF Bare

LEMMA PopStaleOffers ==
  ASSUME ClientTypeOK, StaleOffers, NEW new, Pops(new)
  PROVE  StaleOffers'
<1> SUFFICES ASSUME open' PROVE StaleOffers'
  BY DEF StaleOffers
<1>1. /\ Len(tasks) \in Nat \ {0} /\ DOMAIN tasks = 1..Len(tasks)
      /\ DOMAIN tasks' = 1..(Len(tasks) - 1)
      /\ \A i \in DOMAIN tasks' : i + 1 \in DOMAIN tasks /\ tasks'[i] = tasks[i + 1]
      /\ Last = Len(tasks) + 1 /\ Last' = Len(tasks)
      /\ \A i \in 1..Len(tasks) : Now(i)' => Now(i + 1)
  BY Shifted DEF Pops
<1>2. open /\ UNCHANGED <<sessions, conn, hand>> /\ \A id : Stale(id)' => Stale(id)
  BY DEF Pops, Runs, vars, Stale
<1>3. ASSUME NEW i \in DOMAIN tasks', IsKex(i)', Now(i)', Stale(tasks[i].arg)'
      PROVE  Bare(i)'
  <2>1. /\ i \in 1..Len(tasks) /\ i + 1 \in DOMAIN tasks /\ IsKex(i + 1) /\ Now(i + 1)
        /\ Stale(tasks[i + 1].arg)
    BY <1>1, <1>2, <1>3 DEF IsKex, Stale
  <2>2. Bare(i + 1) BY <1>2, <2>1 DEF StaleOffers
  <2> QED BY <2>1, <2>2, PopBare
<1>4. ASSUME IsOffer(hand)', Now(Last)', Stale(hand.id)'
      PROVE  Bare(Last)'
  <2>1. IsOffer(hand) /\ Stale(hand.id) BY <1>2, <1>4 DEF IsOffer, Stale
  <2>2. \A i : i = Last' => Now(i)' BY <1>4 DEF Now
  <2>3. Now(Last)
    <3>1. Len(tasks) \in 1..Len(tasks) BY <1>1
    <3> QED BY <1>1, <2>2, <3>1
  <2>4. Bare(Len(tasks) + 1) BY <1>1, <1>2, <2>1, <2>3 DEF StaleOffers
  <2>5. \A i \in {Len(tasks)} : Bare(i)'
    <3>1. Len(tasks) \in 1..Len(tasks) BY <1>1
    <3> QED BY <2>4, <3>1, PopBare
  <2>6. (\A i \in {Last'} : Bare(i)') => Bare(Last)' BY DEF Bare
  <2> QED BY <1>1, <2>5, <2>6
<1> QED BY <1>3, <1>4 DEF StaleOffers

LEMMA PopConfirms ==
  ASSUME SystemInd, StaleOffers, StaleConfirms, NEW new, Pops(new),
         NEW m \in new, IsConfirm(m)
  PROVE  /\ m.from = conn /\ m.key = NoKeys /\ conn \in Peers /\ m.id # 0
         /\ IsKex(1) /\ tasks[1].arg = m.id /\ 1 \in DOMAIN tasks
         /\ Installs' /\ busy'.key = [sid |-> m.id, eph |-> m.eph]
         /\ Stale(m.id) => Unoffered(conn) /\ \A n \in new : n.kind # "AuthResponse"
<1>1. ClientTypeOK BY DEF SystemInd, SystemTypeOK
<1>2. tasks[1] = Head(tasks) /\ 1 \in DOMAIN tasks BY <1>1, Shifted DEF Pops
<1>3. /\ m.from = conn /\ open /\ m.key = NoKeys /\ Head(tasks) = Task("Kex", m.id)
      /\ Installs' /\ busy'.key = [sid |-> m.id, eph |-> m.eph]
  BY DEF Pops, Runs, Reply, Asks, Proves, IsConfirm
<1>4. IsKex(1) /\ tasks[1].arg = m.id BY <1>2, <1>3 DEF IsKex, Task
<1>5. tasks[1].arg \in 1..issued.offer /\ conn \in Peers
  BY <1>2, <1>3, <1>4, Drawn
<1>6. m.id # 0 BY <1>4, <1>5
<1>7. ASSUME Stale(m.id) PROVE Unoffered(conn)
  <2>1. Now(1) BY DEF Now
  <2>2. Bare(1) BY <1>2, <1>3, <1>4, <1>7, <2>1 DEF StaleOffers
  <2> QED BY <2>2 DEF Bare
<1>8. \A n \in new : n.kind # "AuthResponse" BY DEF Pops, Runs, IsConfirm
<1> QED BY <1>2, <1>3, <1>4, <1>5, <1>6, <1>7, <1>8

LEMMA PopStaleConfirms ==
  ASSUME SystemInd, StaleOffers, StaleConfirms, NEW new, Pops(new)
  PROVE  StaleConfirms'
<1>1. /\ UNCHANGED <<sessions, conn, codec>> /\ uplink' = uplink \cup new
      /\ busy = Idle /\ conn \in Nat
  BY ClientAssumption
     DEF Pops, Runs, vars, SystemInd, SystemTypeOK, ClientTypeOK, ClientAssumption
<1>2. ASSUME NEW c, Unoffered(c), Silenced(c) PROVE Unoffered(c)' /\ Silenced(c)'
  <2>1. conn > c \/ codec # NoCodec BY <1>1, <1>2 DEF Silenced, Installs, Idle
  <2>2. \A n \in new : n.kind = "AuthResponse" => n.from # c \/ n.key # NoKeys
    <3>1. \A n \in new : n.kind = "AuthResponse" => n.from = conn /\ n.key = codec
      BY DEF Pops, Runs, Reply, Asks, Proves, IsConfirm
    <3> QED BY <1>1, <2>1, <3>1 DEF NoCodec, NoKeys
  <2>3. ~LiveAuth(c)' BY <1>1, <1>2, <2>2 DEF LiveAuth, Unoffered
  <2> QED BY <1>1, <1>2, <2>1, <2>3 DEF Unoffered, Silenced
<1> SUFFICES ASSUME NEW m \in uplink', IsConfirm(m)
             PROVE  /\ m.key = NoKeys
                    /\ sessions[m.from].secure = NoKeys /\ sessions[m.from].kex.sid # m.id =>
                         Unoffered(m.from)' /\ Silenced(m.from)'
  BY <1>1 DEF StaleConfirms, IsConfirm
<1>3. CASE m \in uplink BY <1>2, <1>3 DEF StaleConfirms
<1>4. CASE m \in new
  <2>1. /\ m.from = conn /\ m.key = NoKeys /\ Installs'
        /\ Stale(m.id) => Unoffered(conn) /\ \A n \in new : n.kind # "AuthResponse"
    BY <1>4, PopConfirms
  <2>2. Stale(m.id) => Unoffered(conn)'
    BY <1>1, <2>1 DEF Unoffered, LiveAuth
  <2> QED BY <1>1, <2>1, <2>2 DEF Stale, Silenced, Unoffered, LiveAuth
<1> QED BY <1>1, <1>3, <1>4

LEMMA PopSameKeys ==
  ASSUME SystemInd, SessionsHold, OneOffer, StaleOffers, StaleConfirms, SameKeys,
         NEW new, Pops(new)
  PROVE  SameKeys'
<1>1. /\ UNCHANGED <<sessions, conn, codec>> /\ uplink' = uplink \cup new /\ busy = Idle
      /\ \A m, n \in new : m = n
      /\ Installs' => \E m \in new : IsConfirm(m)
  BY DEF Pops, Runs, vars
<1> SUFFICES ASSUME conn > 0
             PROVE  /\ \A m \in uplink' :
                         IsConfirm(m) /\ m.from = conn /\ sessions[conn].kex.sid = m.id =>
                           ClientHas([sid |-> m.id, eph |-> m.eph])'
                    /\ IsSecure(conn) => ClientHas(sessions[conn].secure)'
  BY <1>1 DEF SameKeys, IsConfirm, IsSecure
<1>2. \A key : ClientHas(key) <=> codec = key
  BY <1>1 DEF ClientHas, Installs, Idle
<1>3. CASE ~\E n \in new : IsConfirm(n)
  <2>1. ~Installs' /\ \A m \in uplink' : IsConfirm(m) => m \in uplink BY <1>1, <1>3
  <2> QED BY <1>1, <1>2, <2>1 DEF SameKeys, ClientHas
<1>4. CASE \E n \in new : IsConfirm(n)
  <2>1. PICK n \in new : IsConfirm(n) BY <1>4
  <2>2. /\ conn \in Peers /\ n.id # 0 /\ IsKex(1) /\ tasks[1].arg = n.id /\ 1 \in DOMAIN tasks
        /\ Installs' /\ busy'.key = [sid |-> n.id, eph |-> n.eph]
        /\ Stale(n.id) => Unoffered(conn)
    BY <2>1, PopConfirms
  <2>3. \A m \in uplink : IsConfirm(m) => m.id # n.id
    BY <2>2 DEF OneOffer, Told
  <2>4. \A m \in uplink : IsConfirm(m) => m.id # 0 BY Drawn
  <2>5. SessionHolds(sessions[conn]) BY <2>2 DEF SessionsHold
  <2>6. ASSUME NEW m \in uplink', IsConfirm(m), sessions[conn].kex.sid = m.id
        PROVE  m = n
    <3>1. CASE m \in uplink
      <4>1. Stale(n.id) BY <2>3, <2>6, <3>1 DEF Stale
      <4> QED BY <2>2, <2>4, <2>6, <3>1, <4>1 DEF Unoffered, NoKex
    <3> QED BY <1>1, <2>1, <3>1
  <2>7. ~IsSecure(conn)
    <3>1. ASSUME IsSecure(conn) PROVE Stale(n.id)
      BY <2>2, <2>5, <3>1 DEF IsSecure, SessionHolds, Stale, NoKex
    <3> QED BY <2>2, <3>1 DEF IsSecure, Unoffered
  <2> QED BY <2>2, <2>6, <2>7 DEF ClientHas
<1> QED BY <1>3, <1>4

LEMMA PopKeepsOrder ==
  ASSUME SystemInd, Orderly, NEW new, Pops(new)
  PROVE  Orderly'
<1>1. /\ SessionsHold /\ OnePair /\ OneRequest /\ OneProof
      /\ OneOffer /\ StaleOffers /\ StaleConfirms /\ SameKeys /\ ClientTypeOK
  BY DEF Orderly, SystemInd, SystemTypeOK
<1>2. SessionsHold' BY <1>1 DEF Pops, Runs, vars, SessionsHold, OffersApart
<1> QED BY <1>1, <1>2, PopOnePair, PopOneRequest, PopOneProof, PopOneOffer, PopStaleOffers,
           PopStaleConfirms, PopSameKeys DEF Orderly, Pops

\* The executor's steps as such, with what they send.
LEMMA SendRuns ==
  ASSUME SystemInd, ClientSends, busy = Idle, tasks # <<>>, Head(tasks).op # "Connect",
         NEW datagrams, SendControl(datagrams),
         \A m, n \in datagrams : m = n,
         open => \A m \in datagrams : Reply(m)
  PROVE  \E new : Pops(new)
<1> DEFINE new == IF open THEN datagrams ELSE {}
<1>1. /\ \A m \in new : Reply(m)
      /\ \A m, n \in new : m = n
  OBVIOUS
<1>2. sent' = new BY DEF SendControl
<1> HIDE DEF new
<1>3. Runs(new) BY <1>1, <1>2 DEF Runs, SendControl, ClientSends
<1>4. ~Installs' BY DEF SendControl, Copying, Installs
<1> QED BY <1>3, <1>4 DEF Pops, SendControl

LEMMA PoppingSteps ==
  ASSUME SystemInd, ClientSends,
         \/ RunPair \/ RunSend \/ RunSubmit \/ RunInput \/ RunAuth
         \/ ConnectFails \/ SubmitExpired \/ ConfirmOffer \/ DropOffer
  PROVE  \E new : Pops(new)
<1>1. ASSUME NEW kind, NEW id, NEW eph, NEW proof
      PROVE  LET m == Message(kind, codec, id, eph, proof)
             IN  m.from = conn /\ m.kind = kind /\ m.id = id /\ m.proof = proof /\ m.key = codec
  BY DEF Message
<1>2. Idle.at = "idle" BY DEF Idle
<1>3. CASE RunPair
  <2>1. Starts("Pair") /\ SendControl({Message("PairingRequest", codec, 0, 0, NoCode)})
    BY <1>3 DEF RunPair
  <2>2. open => Reply(Message("PairingRequest", codec, 0, 0, NoCode))
    BY <1>1, <2>1 DEF Reply, Asks, Starts
  <2> QED BY <2>1, <2>2, SendRuns DEF Starts
<1>4. CASE RunSend
  <2>1. PICK kind \in {"Ping", "Config"} :
          Starts(kind) /\ SendControl({Message(kind, codec, 0, 0, NoCode)})
    BY <1>4 DEF RunSend
  <2>2. open => Reply(Message(kind, codec, 0, 0, NoCode))
    BY <1>1, <2>1 DEF Reply
  <2> QED BY <2>1, <2>2, SendRuns DEF Starts
<1>5. CASE RunSubmit
  <2> DEFINE m == Message("PairingRequest", codec, 0, 0, [salt |-> shown, code |-> Head(tasks).arg])
  <2>1. Starts("Submit") /\ SendControl(IF shown = 0 THEN {} ELSE {m})
    BY <1>5 DEF RunSubmit
  <2>2. shown # 0 => [salt |-> shown, code |-> Head(tasks).arg] # NoCode BY DEF NoCode
  <2>3. open /\ shown # 0 => Reply(m)
    BY <1>1, <2>1, <2>2 DEF Reply, Proves, Starts
  <2> HIDE DEF m
  <2> QED BY <2>1, <2>3, SendRuns DEF Starts
<1>6. CASE RunInput
  <2> DEFINE m == Message("Input", codec, 0, 0, NoCode)
  <2>1. Starts("Input") /\ SendControl(IF codec = NoCodec THEN {} ELSE {m})
    BY <1>6 DEF RunInput
  <2>2. open => Reply(m) BY <1>1 DEF Reply
  <2> HIDE DEF m
  <2> QED BY <2>1, <2>2, SendRuns DEF Starts
<1>7. CASE RunAuth
  <2> DEFINE m == Message("AuthResponse", codec, Head(tasks).arg, 0, NoCode)
  <2>1. Starts("Auth") /\ SendControl({m}) BY <1>7 DEF RunAuth
  <2>2. Head(tasks) = Task("Auth", Head(tasks).arg)
    <3>1. Head(tasks) \in ClientTasks
      BY <2>1, Dequeued DEF Starts, SystemInd, SystemTypeOK, ClientTypeOK
    <3> QED BY <2>1, <3>1 DEF ClientTasks, Task, Starts
  <2>3. open => Reply(m) BY <1>1, <2>2 DEF Reply
  <2> HIDE DEF m
  <2> QED BY <2>1, <2>3, SendRuns DEF Starts
<1>8. CASE ConnectFails \/ SubmitExpired \/ DropOffer
  <2>1. /\ busy = Idle /\ tasks # <<>> /\ tasks' = Tail(tasks) /\ sent' = {}
        /\ UNCHANGED <<conn, codec, ui, hand, taps>>
        /\ open' => open /\ Head(tasks).op # "Connect"
    BY <1>8 DEF ConnectFails, SubmitExpired, DropOffer, Starts
  <2>2. ~Installs' BY <1>8 DEF ConnectFails, SubmitExpired, DropOffer, Copying, Installs
  <2>3. Runs({}) BY <2>1 DEF Runs, ClientSends
  <2>4. Pops({}) BY <2>1, <2>2, <2>3 DEF Pops
  <2> QED BY <2>4
<1>9. CASE ConfirmOffer
  <2> DEFINE id  == Head(tasks).arg
             eph == drawn + 1
             m   == Message("KeyConfirm", NoCodec, id, eph, NoCode)
  <2>1. /\ busy = Idle /\ tasks # <<>> /\ Head(tasks).op = "Kex" /\ open
        /\ sent' = {m} /\ busy' = Installing([sid |-> id, eph |-> eph])
        /\ tasks' = Tail(tasks)
        /\ UNCHANGED <<conn, open, codec, ui, hand, taps>>
    BY <1>9 DEF ConfirmOffer, Starts
  <2>2. Head(tasks) = Task("Kex", id)
    <3>1. Head(tasks) \in ClientTasks
      BY <2>1, Dequeued DEF SystemInd, SystemTypeOK, ClientTypeOK
    <3> QED BY <2>1, <3>1 DEF ClientTasks, Task
  <2>3. m.from = conn /\ m.kind = "KeyConfirm" /\ m.id = id /\ m.eph = eph /\ m.key = NoKeys
    BY DEF Message, NoCodec, NoKeys
  <2>4. Installs' /\ busy'.key = [sid |-> m.id, eph |-> m.eph]
    BY <2>1, <2>3 DEF Installs, Installing
  <2> HIDE DEF m, id, eph
  <2>5. Reply(m) BY <2>1, <2>2, <2>3, <2>4 DEF Reply, IsConfirm
  <2>6. Runs({m}) BY <2>1, <2>5 DEF Runs, ClientSends
  <2>7. Pops({m}) BY <2>1, <2>3, <2>6 DEF Pops, IsConfirm
  <2> QED BY <2>7
<1> QED BY <1>3, <1>4, <1>5, <1>6, <1>7, <1>8, <1>9

\* A new connection starts with nothing offered.
LEMMA ConnectKeepsOrder ==
  ASSUME SystemInd, Orderly, ClientSends, RunConnect
  PROVE  Orderly'
<1>1. /\ SessionsHold /\ OnePair /\ OneRequest /\ OneProof
      /\ OneOffer /\ StaleOffers /\ StaleConfirms /\ SameKeys /\ ClientTypeOK
  BY DEF Orderly, SystemInd, SystemTypeOK
<1>2. Runs({}) /\ uplink' = uplink /\ conn' = conn + 1
  BY DEF RunConnect, Starts, Runs, ClientSends
<1>3. conn \in Nat /\ conn + 1 \in Peers \ 1..conn
  BY <1>1, SystemAssumption, ClientAssumption
     DEF RunConnect, ClientTypeOK, SystemAssumption, ClientAssumption
<1>4. UNCHANGED vars /\ sessions' = sessions BY DEF ClientSends, vars
<1>5. ~Engaged(sessions[conn + 1]) BY <1>1, <1>3 DEF SessionsHold
<1>6. \A m \in uplink : m.from <= conn /\ m.from \in Nat
  BY <1>1 DEF OneRequest, SystemInd, SystemTypeOK, AnswersHost
<1>7. SessionsHold'
  <2>1. \A p \in Peers \ 1..(conn + 1) : p \in Peers \ 1..conn BY <1>3
  <2> QED BY <1>1, <1>2, <1>4, <2>1 DEF SessionsHold, OffersApart, vars
<1>8. OneRequest'
  <2>1. \A m \in uplink : m.from <= conn + 1 /\ m.from # conn + 1 BY <1>3, <1>6
  <2> HIDE DEF Due
  <2> QED BY <1>1, <1>2, <1>4, <1>5, <2>1 DEF OneRequest, Asks
<1>9. ~LiveAuth(conn)' /\ Unoffered(conn)' /\ sessions'[conn'].auth = NoAuth
  BY <1>2, <1>4, <1>5 DEF Unoffered, LiveAuth, Engaged
<1>10. StaleOffers'
  <2>1. \A i : Bare(i)' BY <1>9 DEF Bare
  <2>2. (\A i : Bare(i)') => Bare(Last)' BY DEF Bare
  <2> QED BY <2>1, <2>2 DEF StaleOffers
<1>11. StaleConfirms'
  <2>1. \A m \in uplink : Silenced(m.from)' BY <1>2, <1>3, <1>6 DEF Silenced
  <2>2. \A c : Unoffered(c)' <=> Unoffered(c) BY <1>2, <1>4 DEF Unoffered, LiveAuth
  <2> QED BY <1>1, <1>2, <1>4, <2>1, <2>2 DEF StaleConfirms, IsConfirm, Unoffered, LiveAuth, Silenced
<1>12. SameKeys'
  <2>1. \A m \in uplink : m.from # conn + 1 BY <1>3, <1>6
  <2>2. ~IsSecure(conn)' BY <1>2, <1>4, <1>5 DEF IsSecure, Engaged
  <2> QED BY <1>2, <2>1, <2>2 DEF SameKeys
<1>13. OnePair' /\ OneProof' /\ OneOffer' BY <1>1, <1>2, PopOnePair, PopOneProof, PopOneOffer
<1> QED BY <1>7, <1>8, <1>10, <1>11, <1>12, <1>13 DEF Orderly

(***************************************************************************)
(* The steps of the client that leave its tasks alone.                     *)
(***************************************************************************)
\* The codec is installed, or nothing is done to it.
Settles ==
  \/ codec' = codec /\ (Installs' <=> Installs) /\ (Installs => busy' = busy)
  \/ Installs /\ ~Installs' /\ codec' = busy.key

LEMMA SettledKeepsOrder ==
  ASSUME SystemInd, Orderly, Settles, UNCHANGED <<vars, downlink, conn, open, ui, tasks, hand, taps>>,
         uplink \subseteq uplink',
         \A m \in uplink' \ uplink : m.kind = "Config" /\ m.from = conn
  PROVE  Orderly'
<1>1. /\ SessionsHold /\ OnePair /\ OneRequest /\ OneProof
      /\ OneOffer /\ StaleOffers /\ StaleConfirms /\ SameKeys /\ ClientTypeOK /\ conn \in Nat
  BY ClientAssumption
     DEF Orderly, SystemInd, SystemTypeOK, ClientTypeOK, ClientAssumption
<1>2. /\ UNCHANGED <<sessions, now, queue, store, issued>>
      /\ \A m \in uplink' : m.kind # "Config" => m \in uplink
      /\ uplink \subseteq uplink'
  BY DEF vars
<1>3. /\ \A id : Told(id)' <=> Told(id)
      /\ \A id : (Tasked(id)' <=> Tasked(id)) /\ (Handed(id)' <=> Handed(id))
      /\ \A c : Unoffered(c)' <=> Unoffered(c)
      /\ Outstanding' <=> Outstanding
      /\ Untrusted' <=> Untrusted
      /\ Uncoded' <=> Uncoded
      /\ Due' <=> Due
  BY <1>2 DEF Told, Tasked, Handed, Unoffered, LiveAuth, Outstanding, Untrusted, Uncoded, Due,
              IsConfirm, Proves, IsKex, IsSubmit, IsPair, Now, Last, Posting
<1>4. SessionsHold' BY <1>1, <1>2 DEF SessionsHold, OffersApart
<1>5. OnePair' BY <1>1 DEF OnePair, IsPair, Posting
<1>6. OneRequest'
  <2>1. \A m \in uplink' : m.from <= conn BY <1>1 DEF OneRequest
  <2> HIDE DEF Due
  <2> QED BY <1>1, <1>2, <1>3, <2>1 DEF OneRequest, Asks
<1>7. OneProof'
  <2> HIDE DEF Outstanding, Untrusted, Uncoded
  <2> QED BY <1>1, <1>2, <1>3 DEF OneProof, Proves, IsSubmit
<1>8. OneOffer'
  <2> HIDE DEF Told, Tasked, Handed
  <2>1. /\ \A m, n \in uplink' : IsConfirm(m) /\ IsConfirm(n) /\ m.id = n.id => m = n
        /\ IsOffer(hand) => ~Tasked(hand.id)' /\ ~Told(hand.id)'
        /\ \A i \in DOMAIN tasks : IsKex(i) => ~Told(tasks[i].arg)'
    BY <1>1, <1>2 DEF OneOffer, IsConfirm, Told, Tasked, IsKex
  <2> QED BY <1>1, <1>2, <1>3, <2>1 DEF OneOffer, IsOffer, IsConfirm, IsKex
<1>9. StaleOffers'
  <2>1. \A i : Bare(i)' <=> Bare(i)
    BY <1>2 DEF Bare, Unoffered, LiveAuth
  <2>2. Last' = Last /\ (Bare(Last)' <=> \A i \in {Last} : Bare(i)') BY DEF Last, Bare
  <2> QED BY <1>1, <1>2, <2>1, <2>2 DEF StaleOffers, IsKex, IsOffer, Now, Last, Stale
<1>10. StaleConfirms'
  <2>1. \A c : Silenced(c) => Silenced(c)'
    <3>1. CASE codec' = codec /\ (Installs' <=> Installs) BY <3>1 DEF Silenced
    <3>2. CASE Installs /\ codec' = busy.key
      <4>1. busy.key \in ClientKeys BY <1>1, <3>2 DEF ClientTypeOK, Installs, Idle
      <4>2. busy.key # NoCodec BY <4>1 DEF ClientKeys, NoCodec
      <4> QED BY <3>2, <4>2 DEF Silenced
    <3> QED BY <3>1, <3>2 DEF Settles
  <2> QED BY <1>1, <1>2, <1>3, <2>1
          DEF StaleConfirms, IsConfirm, Unoffered, LiveAuth, Silenced
<1>11. SameKeys'
  <2>1. \A key : ClientHas(key) => ClientHas(key)' BY DEF ClientHas, Settles
  <2> QED BY <1>1, <1>2, <2>1 DEF SameKeys, IsConfirm, IsSecure, ClientHas, Installs
<1> QED BY <1>4, <1>5, <1>6, <1>7, <1>8, <1>9, <1>10, <1>11 DEF Orderly

\* The receiver thread takes a datagram from the network, or is done with one.
LEMMA ReceiverKeepsOrder ==
  ASSUME SystemInd, Orderly, UNCHANGED <<vars, uplink, conn, open, codec, ui, tasks, busy, taps>>,
         \/ hand' = Nothing /\ downlink' \subseteq downlink
         \/ \E m \in downlink : Opens(m) /\ hand' = m /\ downlink' = downlink \ {m}
  PROVE  Orderly'
<1>1. /\ SessionsHold /\ OnePair /\ OneRequest /\ OneProof
      /\ OneOffer /\ StaleOffers /\ StaleConfirms /\ SameKeys
  BY DEF Orderly
<1>2. UNCHANGED <<sessions, now, queue, store, issued>> BY DEF vars
<1>3. SessionsHold' /\ OnePair' /\ OneRequest' /\ OneProof' /\ StaleConfirms' /\ SameKeys'
  <2>1. SessionsHold' BY <1>1, <1>2 DEF SessionsHold, OffersApart
  <2>2. OnePair' BY <1>1 DEF OnePair, IsPair, Posting
  <2>3. Due' <=> Due BY DEF Due, IsPair, Now, Last, Posting
  <2>4. OneRequest' BY <1>1, <1>2, <2>3 DEF OneRequest
  <2>5. OneProof' BY <1>1, <1>2 DEF OneProof, Outstanding, Untrusted, Uncoded, IsSubmit
  <2>6. StaleConfirms'
    BY <1>1, <1>2 DEF StaleConfirms, IsConfirm, Unoffered, LiveAuth, Silenced, Installs
  <2>7. SameKeys' BY <1>1, <1>2 DEF SameKeys, IsConfirm, IsSecure, ClientHas, Installs
  <2> QED BY <2>1, <2>2, <2>4, <2>5, <2>6, <2>7
<1>4. /\ \A id : (Told(id)' <=> Told(id)) /\ (Tasked(id)' <=> Tasked(id))
      /\ downlink' \subseteq downlink
  BY DEF Told, Tasked, IsKex
<1>5. \A id : Handed(id)' => /\ \E m \in downlink \ downlink' : IsOffer(m) /\ m.id = id /\ m.to = conn
                             /\ IsOffer(hand') /\ hand'.id = id
  BY DEF Handed, IsOffer, Nothing, Opens
<1>6. \A m, n \in downlink : IsOffer(m) /\ IsOffer(n) /\ m.id = n.id => m = n
  <2> TAKE m, n \in downlink
  <2> HAVE IsOffer(m) /\ IsOffer(n) /\ m.id = n.id
  <2>1. m \in Datagram /\ n \in Datagram /\ m.key = NoKeys /\ n.key = NoKeys
    BY <1>1 DEF OneOffer
  <2>2. m.to \in Peers /\ n.to \in Peers BY <2>1 DEF Datagram
  <2>3. sessions[m.to].kex.sid = m.id /\ sessions[n.to].kex.sid = n.id BY <1>1 DEF OneOffer
  <2>4. m.id # 0 BY Drawn
  <2>5. sessions[m.to].kex # NoKex BY <2>3, <2>4 DEF NoKex
  <2>6. m.to = n.to BY <1>1, <2>2, <2>3, <2>5 DEF SessionsHold, OffersApart
  <2> QED BY <2>1, <2>6 DEF Datagram, IsOffer
<1>7. OneOffer'
  <2> HIDE DEF Told, Tasked, Handed
  <2>1. \A m \in queue \cup downlink' :
          IsOffer(m) => ~Handed(m.id)' /\ ~Tasked(m.id)' /\ ~Told(m.id)'
    BY <1>1, <1>4, <1>5, <1>6 DEF OneOffer
  <2>2. IsOffer(hand)' => ~Tasked(hand.id)' /\ ~Told(hand.id)'
    <3>1. \A id : Handed(id)' => ~Tasked(id)' /\ ~Told(id)' BY <1>1, <1>4, <1>5 DEF OneOffer
    <3>2. IsOffer(hand)' => \E id : id = hand'.id /\ Handed(id)' BY DEF Handed, IsOffer
    <3>3. \A id : id = hand'.id /\ ~Tasked(id)' /\ ~Told(id)' => ~Tasked(hand.id)' /\ ~Told(hand.id)'
      BY DEF Tasked, Told
    <3> QED BY <3>1, <3>2, <3>3
  <2>3. \A i \in DOMAIN tasks' : IsKex(i)' => ~Told(tasks[i].arg)'
    BY <1>1, <1>4 DEF OneOffer, IsKex, Told
  <2>4. /\ \A i, j \in DOMAIN tasks' : IsKex(i)' /\ IsKex(j)' /\ tasks'[i].arg = tasks'[j].arg => i = j
        /\ \A m, n \in uplink' : IsConfirm(m) /\ IsConfirm(n) /\ m.id = n.id => m = n
    BY <1>1 DEF OneOffer, IsKex
  <2> QED BY <1>1, <1>2, <1>4, <2>1, <2>2, <2>3, <2>4 DEF OneOffer, IsOffer, IsConfirm
<1>8. StaleOffers'
  <2>1. \A i : Bare(i)' <=> Bare(i)
    BY <1>2 DEF Bare, Unoffered, LiveAuth
  <2>2. ~(IsOffer(hand)' /\ Stale(hand.id)')
    <3>1. IsOffer(hand)' => \E m \in downlink : IsOffer(m) /\ m.id = hand'.id /\ m.to = conn
      BY DEF IsOffer, Nothing, Opens
    <3> QED BY <1>1, <1>2, <3>1 DEF OneOffer, Stale
  <2> QED BY <1>1, <1>2, <2>1, <2>2 DEF StaleOffers, IsKex, Now, Stale
<1> QED BY <1>3, <1>7, <1>8 DEF Orderly

(***************************************************************************)
(* The invariant.                                                          *)
(***************************************************************************)
\* A codec is that of a connection.
Connected == codec # NoCodec => conn > 0

OrderInd ==
  /\ SystemInd /\ Tapping /\ Connected
  /\ Once => Orderly /\ host \notin {"key confirm", "attempt limit"}

LEMMA StaysConnected ==
  ASSUME SystemInd, Connected, [SystemNext]_systemVars
  PROVE  Connected'
<1>1. conn \in Nat /\ (busy.at = "install" => conn > 0)
  BY ClientAssumption DEF SystemInd, SystemTypeOK, ClientTypeOK, ClientAssumption
<1>2. CASE UNCHANGED <<conn, codec>> BY <1>2 DEF Connected
<1>3. CASE RunConnect BY <1>3 DEF RunConnect, Connected
<1>4. CASE InstallCodec BY <1>1, <1>4 DEF InstallCodec, Connected
<1>5. ASSUME ClientActs, ~RunConnect, ~InstallCodec
      PROVE  UNCHANGED <<conn, codec>>
  <2>1. CASE \/ TapConnect \/ PostRest \/ TapRequest \/ UserSubmits
             \/ \E kind \in {"Config", "Input"} : TapApply(kind)
    BY <2>1 DEF TapConnect, PostRest, TapRequest, UserSubmits, TapSubmit, TapApply, Tapped
  <2>2. CASE RunPair \/ RunSend \/ RunSubmit \/ RunInput \/ RunAuth
    BY <2>2 DEF RunPair, RunSend, RunSubmit, RunInput, RunAuth, SendControl
  <2>3. CASE ConfirmOffer \/ DropOffer \/ FinishCopy \/ ConnectFails \/ SubmitExpired
    BY <2>3 DEF ConfirmOffer, DropOffer, FinishCopy, ConnectFails, SubmitExpired
  <2>4. CASE HandleReceived
    BY <2>4 DEF HandleReceived, HandleChallenge, HandleResult, HandleOnExecutor, HandleOther,
                Handled
  <2> QED BY <1>5, <2>1, <2>2, <2>3, <2>4 DEF ClientActs, ClientStep, Execute
<1>6. ~ClientActs => UNCHANGED <<conn, codec>>
  BY DEF SystemNext, ClientReceives, Receive, HostReceives, HostActs, HostSends, clientVars,
         systemVars
<1> QED BY <1>2, <1>3, <1>4, <1>5, <1>6

LEMMA OrderStarts == SystemInit => OrderInd
<1> SUFFICES ASSUME SystemInit PROVE OrderInd
  OBVIOUS
<1>1. SystemInd BY SystemStarts
<1>2. Init /\ ClientInit /\ uplink = {} /\ downlink = {} BY DEF SystemInit
<1>3. Tapping /\ Connected BY <1>2 DEF ClientInit, Tapping, Connected
<1>4. \A p \in Peers : sessions[p] = NoSession BY <1>2 DEF Init
<1>5. SessionsHold
  <2>1. SessionHolds(NoSession) /\ ~Engaged(NoSession) /\ NoSession.kex = NoKex
    BY DEF SessionHolds, Engaged, NoSession, SessionAs
  <2> QED BY <1>2, <1>4, <2>1 DEF SessionsHold, OffersApart, Init
<1>6. tasks = <<>> /\ DOMAIN tasks = {} /\ ui = <<>> /\ ~Posting
  <2>1. \A a, b : <<a, b>> # <<>> OBVIOUS
  <2> QED BY <1>2, <2>1 DEF ClientInit, Posting
<1>7. OnePair /\ OneRequest BY <1>2, <1>6 DEF OnePair, OneRequest, Due, ClientInit
<1>8. OneProof
  <2>1. ~Outstanding BY <1>2, <1>6 DEF Outstanding
  <2>2. Untrusted \/ Uncoded BY <1>2 DEF Init, Untrusted, Uncoded
  <2>3. ~NoSession.verified /\ NoSession.attempts = 0 BY DEF NoSession, SessionAs
  <2> QED BY <1>2, <1>4, <1>6, <2>1, <2>2, <2>3 DEF OneProof
<1>9. OneOffer /\ StaleOffers /\ StaleConfirms /\ SameKeys
  BY <1>2, <1>6 DEF OneOffer, StaleOffers, StaleConfirms, SameKeys, Init, ClientInit, IsOffer,
                    Nothing
<1>10. host = "running" BY <1>2 DEF Init
<1> QED BY <1>1, <1>3, <1>5, <1>7, <1>8, <1>9, <1>10 DEF OrderInd, Orderly

LEMMA ClientKeepsOrder ==
  ASSUME SystemInd, Tapping, Once, Once', Orderly, ClientActs
  PROVE  Orderly'
<1>1. ClientSends BY DEF ClientActs
<1>2. CASE \/ TapConnect \/ PostRest \/ TapRequest \/ UserSubmits
           \/ \E kind \in {"Config", "Input"} : TapApply(kind)
           \/ HandleOnExecutor
  BY <1>1, <1>2, PostingSteps, PostKeepsOrder
<1>3. CASE \/ RunPair \/ RunSend \/ RunSubmit \/ RunInput \/ RunAuth
           \/ ConnectFails \/ SubmitExpired \/ ConfirmOffer \/ DropOffer
  BY <1>1, <1>3, PoppingSteps, PopKeepsOrder
<1>4. CASE RunConnect BY <1>1, <1>4, ConnectKeepsOrder
<1>5. CASE InstallCodec
  <2> DEFINE m == Message("Config", busy.key, 0, 0, NoCode)
  <2>1. Settles BY <1>5 DEF InstallCodec, Settles, Installs, Copying
  <2>2. m.kind = "Config" /\ m.from = conn BY DEF Message
  <2>3. uplink' = uplink \cup {m} BY <1>1, <1>5 DEF InstallCodec, ClientSends
  <2>4. UNCHANGED <<vars, downlink, conn, open, ui, tasks, hand, taps>>
    BY <1>1, <1>5 DEF InstallCodec, ClientSends
  <2> HIDE DEF m
  <2> QED BY <2>1, <2>2, <2>3, <2>4, SettledKeepsOrder
<1>6. CASE FinishCopy
  <2>1. Settles BY <1>6 DEF FinishCopy, Settles, Installs, Idle
  <2>2. uplink' = uplink BY <1>1, <1>6 DEF FinishCopy, ClientSends
  <2>3. UNCHANGED <<vars, downlink, conn, open, ui, tasks, hand, taps>>
    BY <1>1, <1>6 DEF FinishCopy, ClientSends
  <2> QED BY <2>1, <2>2, <2>3, SettledKeepsOrder
<1>7. CASE HandleChallenge \/ HandleResult \/ HandleOther
  <2>1. /\ hand' = Nothing /\ downlink' \subseteq downlink
        /\ UNCHANGED <<vars, uplink, conn, open, codec, ui, tasks, busy, taps>>
    BY <1>1, <1>7 DEF HandleChallenge, HandleResult, HandleOther, Handled, ClientSends
  <2> QED BY <2>1, ReceiverKeepsOrder
<1> QED BY <1>2, <1>3, <1>4, <1>5, <1>6, <1>7
        DEF ClientActs, ClientStep, Execute, HandleReceived

LEMMA OrderStep ==
  ASSUME OneAtATime, OrderInd, [SystemNext]_systemVars
  PROVE  OrderInd'
<1>1. SystemInd /\ SystemInd' /\ Connected' BY SystemStep, StaysConnected DEF OrderInd
<1>2. Tapping /\ Tapping' /\ taps.submit <= taps'.submit /\ taps.request <= taps'.request
  BY TapsCount DEF OrderInd
<1> SUFFICES ASSUME Once' PROVE Orderly' /\ host' \notin {"key confirm", "attempt limit"}
  BY <1>1, <1>2 DEF OrderInd
<1>3. Once
  <2>1. /\ taps.submit \in Nat /\ taps.request \in Nat
        /\ taps'.submit \in Nat /\ taps'.request \in Nat
    BY <1>2 DEF Tapping
  <2> QED BY <1>2, <2>1 DEF Once
<1>4. Orderly /\ host \notin {"key confirm", "attempt limit"} BY <1>3 DEF OrderInd
<1>5. SUFFICES Orderly' /\ host' = host
  BY <1>4
<1>6. CASE ClientActs
  BY <1>1, <1>2, <1>3, <1>4, <1>6, ClientKeepsOrder DEF ClientActs, ClientSends, vars
<1>7. ASSUME NEW m \in downlink, ClientReceives(m) PROVE Orderly' /\ host' = host
  <2>1. downlink' = downlink \ {m}
    <3>1. copies \in 0..0 BY <1>1 DEF SystemInd, SystemTypeOK, OneAtATime
    <3> QED BY <1>7, <3>1 DEF ClientReceives, Takes, OneAtATime
  <2>2. /\ UNCHANGED <<vars, uplink, conn, open, codec, ui, tasks, busy, taps>>
        /\ hand' = Nothing \/ (Opens(m) /\ hand' = m)
    BY <1>7 DEF ClientReceives, Receive
  <2>3. host' = host BY <2>2 DEF vars
  <2> QED BY <1>1, <1>4, <2>1, <2>2, <2>3, ReceiverKeepsOrder
<1>8. ASSUME NEW m \in uplink, HostReceives(m) PROVE Orderly' /\ host' = host
  BY <1>1, <1>4, <1>8, HostReceivesKeepsOrder
<1>9. CASE HostActs BY <1>1, <1>4, <1>9, HostActsKeepsOrder
<1>10. CASE UNCHANGED systemVars
  <2>1. /\ UNCHANGED <<vars, downlink, conn, open, ui, tasks, hand, taps, codec, busy>>
        /\ uplink' = uplink
    BY <1>10 DEF systemVars, clientVars
  <2>2. Settles BY <2>1 DEF Settles, Installs
  <2>3. host' = host BY <2>1 DEF vars
  <2> QED BY <1>1, <1>4, <2>1, <2>2, <2>3, SettledKeepsOrder
<1> QED BY <1>6, <1>7, <1>8, <1>9, <1>10 DEF SystemNext

LEMMA OrderInvariance ==
  ASSUME OneAtATime
  PROVE  SystemSpec => []OrderInd
BY OrderStarts, OrderStep, PTL DEF SystemSpec

\* While the user submits one code and asks for no further one, no datagram of
\* the client ends the host, through any number of connections: each
\* confirmation that the host reads finds its offer pending (poll_control in
\* main.rs propagates the error of one that does not), and no pairing request
\* finds the attempts of its session used up.
THEOREM HostAlwaysSurvives ==
  ASSUME OneAtATime
  PROVE  SystemSpec => []HostSurvives
<1>1. OrderInd => HostSurvives BY DEF OrderInd, Once, HostSurvives
<1> QED BY <1>1, OrderInvariance, PTL

\* Nor do the ends of a connection ever hold different keys: the session that
\* verify_client_key_confirm has accepted and the codec that
\* establishSecureSession has installed come from the same offer and the same
\* ephemeral key, whatever an earlier connection has left in the executor's
\* queue, in the receiver's hand and on the network.
THEOREM KeysAlwaysAgree ==
  ASSUME OneAtATime
  PROVE  SystemSpec => []KeyAgreement
<1>1. OrderInd => KeyAgreement
  <2> SUFFICES ASSUME OrderInd, Once, codec # NoCodec, IsSecure(conn), busy.at # "install"
               PROVE  sessions[conn].secure = codec
    BY DEF KeyAgreement
  <2>1. SameKeys BY DEF OrderInd, Orderly
  <2>2. conn > 0 BY DEF OrderInd, Connected
  <2> QED BY <2>1, <2>2 DEF SameKeys, ClientHas, Installs
<1> QED BY <1>1, OrderInvariance, PTL
=============================================================================
