--------------------------- MODULE SessionSystem ---------------------------
(***************************************************************************)
(* One Android client, the Windows host, and the UDP network between them. *)
(*                                                                         *)
(* The network reorders freely and delays without bound: a datagram that   *)
(* is lost is one that is never received.  It may also deliver a datagram  *)
(* again, MaxCopies times; only plaintext ones, because the replay window  *)
(* of the sealed transport refuses the second copy of the others.          *)
(*                                                                         *)
(* Every step is one step of the client (AndroidClient) or of the host     *)
(* (HostSessions, whose endpoints are here the client's connections).      *)
(***************************************************************************)
EXTENDS HostSessions, AndroidClient

CONSTANTS
  Me,          \* the client's device
  MaxCopies    \* bound on duplicated datagrams

ASSUME SystemAssumption ==
  /\ Me \in Devices
  /\ MaxCopies \in Nat
  /\ 1..MaxConnects \subseteq Peers
  /\ 1..MaxDrawn \subseteq Ephemerals
  /\ Policy = "RequireApproval"

VARIABLES
  uplink,    \* datagrams on their way to the host
  downlink,  \* datagrams on their way to the client
  copies     \* datagrams duplicated so far

systemVars == <<vars, clientVars, uplink, downlink, copies>>

\* Receiving m from a link takes it out, unless the network has another copy.
Takes(m, before, after) ==
  \/ after = before \ {m} /\ UNCHANGED copies
  \/ /\ m.key = NoKeys /\ copies < MaxCopies
     /\ copies' = copies + 1
     /\ after = before

(***************************************************************************)
(* The client.                                                             *)
(***************************************************************************)
ClientSends ==
  /\ uplink' = uplink \cup sent'
  /\ UNCHANGED <<vars, downlink, copies>>

\* The user types the code on display, or another one.
UserSubmits == \E digits \in {0, code.gen} : TapSubmit(digits)

ClientActs == (ClientStep \/ UserSubmits) /\ ClientSends

ClientReceives(m) ==
  /\ Receive(m)
  /\ Takes(m, downlink, downlink')
  /\ UNCHANGED <<vars, uplink>>

(***************************************************************************)
(* The host.  What it sends enters the network; frames are left out of it, *)
(* the client's session does not depend on them.                           *)
(***************************************************************************)
HostSends ==
  /\ downlink' = downlink \cup {d \in wire' : d.kind # "Video"}
  /\ UNCHANGED clientVars

\* The handler of each datagram of the client.
Routes(m) ==
  LET p == m.from IN
  \/ /\ m.kind = "PairingRequest" /\ m.proof = NoCode
     /\ ChallengeTrusted(p, m.key, Me) \/ IssuePairingCode(p, m.key, Me, Me)
  \/ /\ m.kind = "PairingRequest" /\ m.proof # NoCode
     /\ ProofAccepted(p, m.key, Me, Me, m.proof) \/ ProofRefused(p, m.key, Me, Me, m.proof)
  \/ /\ m.kind = "AuthResponse"
     /\ AuthAccepted(p, m.key, m.id, Me) \/ AuthRefused(p, m.key, m.id, Me)
  \/ /\ m.kind = "KeyConfirm"
     /\ KeyConfirmed(p, m.key, m.id, m.eph, Me) \/ KeyConfirmFails(p, m.key, m.id, Me)
  \/ m.kind = "Input" /\ ReceiveInput(p, m.key)
  \/ m.kind = "Ping" /\ ReceivePing(p, m.key)
  \/ m.kind = "Config" /\ ReceiveConfig(p, m.key)
  \/ Unapproved(p, m.key, m.kind)
  \/ ~Passes(p, m.key, m.kind) /\ PollIdle

HostReceives(m) ==
  /\ host = "running"
  /\ Routes(m)
  /\ Takes(m, uplink, uplink')
  /\ HostSends

\* A poll without a datagram, and the operator.  The clock stands still, and
\* errors of the operating system and restarts are left to HostSessions.
HostActs ==
  /\ host = "running" /\ (PollIdle \/ OperatorStep)
  /\ HostSends /\ UNCHANGED <<uplink, copies>>

SystemInit ==
  /\ Init /\ ClientInit
  /\ uplink = {} /\ downlink = {} /\ copies = 0

SystemNext ==
  \/ ClientActs
  \/ \E m \in downlink : ClientReceives(m)
  \/ \E m \in uplink : HostReceives(m)
  \/ HostActs

(***************************************************************************)
(* Fairness: the client's threads run, the host polls, and what is sent is *)
(* delivered.  Nothing is asked of the user, the operator or the capture.  *)
(***************************************************************************)
Flushes == host = "running" /\ PollIdle /\ queue' # queue

Fairness ==
  /\ WF_systemVars(PostRest /\ ClientSends)
  /\ WF_systemVars(Execute /\ ClientSends)
  /\ WF_systemVars(HandleReceived /\ ClientSends)
  /\ WF_systemVars(\E m \in downlink : ClientReceives(m))
  /\ WF_systemVars(\E m \in uplink : HostReceives(m))
  /\ WF_systemVars(Flushes /\ HostSends /\ UNCHANGED <<uplink, copies>>)

SystemSpec == SystemInit /\ [][SystemNext]_systemVars

FairSystemSpec == SystemSpec /\ Fairness

(***************************************************************************)
(* Properties.                                                             *)
(***************************************************************************)
\* Every number the client acts on is one the host has drawn.
ClientTasks ==
  [op : {"Connect", "Pair", "Ping", "Config", "Input"}, arg : {0}]
    \cup [op : {"Submit"}, arg : 0..code.gen]
    \cup [op : {"Auth"}, arg : 1..issued.auth]
    \cup [op : {"Kex"}, arg : 1..issued.offer]

Shown == 0..issued.salt

ClientKeys == [sid : 1..issued.offer, eph : 1..MaxDrawn]

\* What the host has sent names things the host has drawn.
IssuedAs(d) ==
  /\ d.kind \in PacketKinds
  /\ d.kind = "PairingChallenge" => d.id \in 1..issued.salt
  /\ d.kind = "AuthChallenge" => d.id \in 1..issued.auth
  /\ d.kind = "Offer" => d.id \in 1..issued.offer

\* What the client has sent answers what it was sent.
AnswersHost(m) ==
  /\ m.from \in 1..MaxConnects /\ m.kind \in Kinds
  /\ m.kind = "PairingRequest" => m.proof = NoCode \/ m.proof \in Proofs
  /\ m.kind = "AuthResponse" => m.id \in 1..issued.auth
  /\ m.kind = "KeyConfirm" => m.id \in 1..issued.offer /\ m.eph \in 1..MaxDrawn

ClientTypeOK ==
  /\ conn \in 0..MaxConnects /\ open \in BOOLEAN /\ seq \in Nat
  /\ open \/ busy.at = "install" => conn > 0
  /\ codec \in {NoCodec} \cup ClientKeys
  /\ drawn \in 0..MaxDrawn
  /\ pinned \in {"none", "host", "other"}
  /\ shown \in Shown /\ refused \in BOOLEAN
  /\ ui \in Seq(ClientTasks) /\ tasks \in Seq(ClientTasks)
  /\ busy \in {Idle} \cup [at : {"copy"}, shown : Shown, refused : BOOLEAN]
                \cup [at : {"install"}, key : ClientKeys]
  /\ hand = Nothing \/ IssuedAs(hand)

\* Challenges, offers and codes named anywhere in the client or on its links
\* exist: nothing is answered that was not asked (the null and state checks
\* of SessionControlController.kt submitPairingCode and sendControl).
SystemTypeOK ==
  /\ ClientTypeOK
  /\ \A m \in uplink : AnswersHost(m)
  /\ \A d \in downlink : IssuedAs(d)
  /\ copies \in 0..MaxCopies

\* The user submits one code and asks for no other.  What follows is false
\* without this, also on a network without copies: a pairing request replaces
\* the id of its session, and one that arrives after the approval makes the
\* confirmation of the pending offer fail, or the host offer another key.  Such
\* a request is the second submission of a code, and that of "Request new code",
\* which connect leaves on screen when an earlier connection was refused.
Once == taps.submit <= 1 /\ taps.request = 0

\* docs/PROTOCOL.md: "Both peers hash the same transcript and derive
\* independent `host-to-client` and `client-to-host` AES-256-GCM keys."  Ends of
\* a connection that both hold keys hold the same ones, unless the client is
\* changing its keys and the confirmation of the new ones is on its way.
Confirms(m, key) == m.kind = "KeyConfirm" /\ [sid |-> m.id, eph |-> m.eph] = key

KeyAgreement ==
  Once /\ codec # NoCodec /\ IsSecure(conn) /\ busy.at # "install" =>
    \/ sessions[conn].secure = codec
    \/ \E m \in uplink : Confirms(m, codec)

\* The datagrams of this client never end the host: its confirmation of an
\* offer finds that offer pending, whatever is reordered, lost or left over
\* from an earlier connection (main.rs: every error of poll_control is
\* propagated).  The operator answers dialogs: one who approves a session twice
\* at the console replaces the offer that the client is confirming.
HostSurvives == Once => host \notin {"key confirm", "attempt limit"}

Secured == codec # NoCodec /\ sessions[conn].secure = codec

\* A trusted device that connects once ends up with the key the host holds,
\* in whatever order its datagrams arrive, as long as they arrive (the
\* handlers of AuthChallenge, SessionKeyExchange and SessionKeyConfirm).
TrustedDeviceConnects ==
  [](host = "running" /\ pinned # "other" /\ store[Me] = "allow" /\ taps.connect <= 1)
    => (conn = 1 /\ open ~> Secured)
=============================================================================
