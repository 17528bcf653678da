---------------------------- MODULE HostSessions ----------------------------
(***************************************************************************)
(* Session control of the Windows host (hosts/windows-host/src): the       *)
(* SessionRegistry and HostPacketRouter of backend.rs, the poll step of    *)
(* HostBackendRuntime, and the part of the main loop of main.rs that       *)
(* reacts to a pairing request, runs operator commands and collects the    *)
(* permission dialogs.                                                     *)
(*                                                                         *)
(* The host is one thread: an action is one call of poll_control together  *)
(* with the main loop's reaction to its events, one operator command, or   *)
(* one video frame.  Clients are an arbitrary environment: any datagram a  *)
(* client could have produced from what it has been shown may arrive, at   *)
(* any time, any number of times, from any endpoint.                       *)
(*                                                                         *)
(* Cryptography is symbolic.  A device is its Keystore key: the key, its   *)
(* fingerprint and the trusted id derived from it are in bijection.  A     *)
(* signature by d over a challenge is a record naming both.  A session key *)
(* is the pair (offer, client ephemeral) it was derived from.              *)
(***************************************************************************)
EXTENDS Integers, FiniteSets

CONSTANTS
  Peers,            \* client UDP endpoints (SocketAddr)
  Devices,          \* client identities
  NoDevice,         \* a request that carries no public key
  Ephemerals,       \* client ephemeral keys, positive integers
  Policy,           \* PermissionPolicy
  DialogsEnabled,   \* GLYPHRAY_ENABLE_PERMISSION_DIALOG
  Commands,         \* the operator commands this instance explores
  MaxPending,       \* MAX_PENDING_SESSIONS
  FlushBudget,      \* OUTBOUND_FLUSH_BUDGET
  AttemptLimit,     \* MAX_PAIRING_CODE_ATTEMPTS
  AttemptWindow,    \* PAIRING_ATTEMPT_WINDOW_MS
  CodeTTL,          \* PAIRING_CODE_TTL_MS
  ChallengeTTL,     \* PAIRING_CHALLENGE_TTL_MS
  AuthTTL,          \* TRUSTED_AUTH_CHALLENGE_TTL_MS
  KexTTL,           \* SESSION_KEY_EXCHANGE_TTL_MS
  MaxTime, MaxCodes, MaxSalts, MaxChallenges, MaxOffers, MaxQueued
                    \* exploration bounds

ASSUME ConstantsAssumption ==
  /\ NoDevice \notin Devices
  /\ Ephemerals \subseteq Nat \ {0}
  /\ Policy \in {"RequireApproval", "DevAutoApprove"}
  /\ DialogsEnabled \in BOOLEAN
  /\ MaxPending \in Nat \ {0}
  /\ FlushBudget \in Nat \ {0}
  /\ AttemptLimit \in Nat \ {0}
  /\ AttemptWindow \in Nat /\ CodeTTL \in Nat /\ ChallengeTTL \in Nat
  /\ AuthTTL \in Nat /\ KexTTL \in Nat
  /\ MaxTime \in Nat /\ MaxCodes \in Nat /\ MaxSalts \in Nat
  /\ MaxChallenges \in Nat /\ MaxOffers \in Nat /\ MaxQueued \in Nat

VARIABLES
  host,      \* "running", or why the process ended
  sessions,  \* SessionRegistry.sessions; an endpoint not in the map is "Absent"
  code,      \* the displayed pairing code (its generation) and its expiry
  store,     \* trusted devices on disk, with one input permission
  issued,    \* how many salts, auth challenges and offers were drawn so far
  now,       \* the clock
  queue,     \* packets waiting in OutboundPacketQueues
  wire,      \* output port: the datagrams this step handed to the socket
  injected,  \* output port: the input this step handed to the OS
  dialogs,   \* endpoints whose permission dialog is open
  prompted,  \* PermissionDialogCoordinator.active_prompts
  accepted   \* history: the pairing proofs accepted so far

vars == <<host, sessions, code, store, issued, now, queue, wire, injected,
          dialogs, prompted, accepted>>

Least(a, b) == IF a <= b THEN a ELSE b

(***************************************************************************)
(* Device ids, packets and sessions.                                       *)
(***************************************************************************)
NoId        == <<"none", "none">>
NameOf(d)   == <<"name", d>>           \* the device_name of a PairingRequest
IdOf(d)     == <<"trusted-key", d>>    \* derived from the key fingerprint
AddrId(p)   == <<"trusted-addr", p>>   \* derived from the endpoint
DevPeerId(p) == <<"dev-peer", p>>

DeviceIds == {NoId} \cup {NameOf(d) : d \in Devices} \cup {IdOf(d) : d \in Devices}
               \cup {AddrId(p) : p \in Peers} \cup {DevPeerId(p) : p \in Peers}

\* A session key is the pair it is derived from; NoKeys seals nothing: a
\* datagram under NoKeys is plaintext.
NoKeys == [sid |-> 0, eph |-> 0]
Keys   == [sid : Nat \ {0}, eph : Ephemerals]

NoPair  == [salt |-> 0, expires |-> 0, gen |-> 0]
NoAuth  == [id |-> 0, dev |-> NoDevice, issued |-> 0]
NoKex   == [sid |-> 0, expires |-> 0]
NoProof == [salt |-> 0, code |-> 0]

Session ==
  [perm        : {"Absent", "Pending", "Approved", "Rejected"},
   devId       : DeviceIds,
   key         : Devices \cup {NoDevice},
   auth        : {NoAuth} \cup [id : Nat \ {0}, dev : Devices, issued : Nat],
   pair        : {NoPair} \cup [salt : Nat \ {0}, expires : Nat, gen : Nat],
   attempts    : 0..AttemptLimit,
   windowStart : Nat,
   verified    : BOOLEAN,     \* pairing_code_verified
   kex         : {NoKex} \cup [sid : Nat \ {0}, expires : Nat],
   secure      : {NoKeys} \cup Keys,
   input       : {"allow", "deny"},  \* input_permissions, for one kind of input
   lastSeen    : Nat,
   vouched     : BOOLEAN]     \* history: a code proof or a signature was accepted

SessionAs(perm, at) ==
  [perm |-> perm, devId |-> NoId, key |-> NoDevice, auth |-> NoAuth,
   pair |-> NoPair, attempts |-> 0, windowStart |-> at, verified |-> FALSE,
   kex |-> NoKex, secure |-> NoKeys, input |-> "allow", lastSeen |-> at,
   vouched |-> FALSE]

NoSession  == SessionAs("Absent", 0)
NewSession == SessionAs("Pending", now)

Packet(p, kind, id) == [to |-> p, kind |-> kind, id |-> id]
Plain(m)      == [to |-> m.to, kind |-> m.kind, id |-> m.id, key |-> NoKeys]
Sealed(ss, m) == [to |-> m.to, kind |-> m.kind, id |-> m.id, key |-> ss[m.to].secure]

\* What clients send: the kinds the router tells apart, with one for all input.
Kinds == {"PairingRequest", "AuthResponse", "KeyConfirm", "Input", "Ping", "Config"}

PacketKinds == {"PairingChallenge", "AuthChallenge", "Accepted", "Refused",
                "Offer", "DisplayInfo", "Pong", "Video"}

(***************************************************************************)
(* The registry.                                                           *)
(***************************************************************************)
PendingPeers(ss) == {q \in Peers : ss[q].perm = "Pending"}

\* Mutant: any session may be evicted.
OldestOfAll(ss) ==
  {q \in Peers : /\ ss[q].perm # "Absent"
                 /\ \A r \in Peers : ss[r].perm # "Absent" => ss[q].lastSeen <= ss[r].lastSeen}

OldestPending(ss) ==
  {q \in PendingPeers(ss) : \A r \in PendingPeers(ss) : ss[q].lastSeen <= ss[r].lastSeen}

\* Mutant: eviction starts one session above the cap.
AtCapAfterInsert(ss) == Cardinality(PendingPeers(ss)) > MaxPending

AtCap(ss) == Cardinality(PendingPeers(ss)) >= MaxPending

\* What ensure_pending may leave: a known endpoint is kept; a new one takes
\* a fresh session, after the oldest pending one is evicted at the cap.
Ensured(p) ==
  IF sessions[p].perm # "Absent" THEN {sessions}
  ELSE IF AtCap(sessions)
       THEN {[sessions EXCEPT ![v] = NoSession, ![p] = NewSession] :
               v \in OldestPending(sessions)}
       ELSE {[sessions EXCEPT ![p] = NewSession]}

\* Every routed packet refreshes last_seen of the session it belongs to.
Opened(p) == {[ss EXCEPT ![p].lastSeen = now] : ss \in Ensured(p)}

IsSecure(p) == sessions[p].secure # NoKeys

RequiresSecure(p) ==
  /\ sessions[p].perm = "Approved"
  /\ sessions[p].kex # NoKex
  /\ ~IsSecure(p)

\* The transport check of poll_control.  A sealed datagram opens only under
\* the session's own key (the freshness of its counter is left out).
Passes(p, key, kind) ==
  IF IsSecure(p)
  THEN key = sessions[p].secure
  ELSE /\ key = NoKeys
       /\ RequiresSecure(p) => kind \in {"PairingRequest", "AuthResponse", "KeyConfirm"}

SealsOf(p) == {NoKeys, sessions[p].secure}

(***************************************************************************)
(* Ends of a step.  Flushing sends some of the queued packets, at most     *)
(* FlushBudget, each sealed iff its peer is secure when it is sent; which  *)
(* ones the QoS queues pick, and what backpressure holds, is left open.    *)
(***************************************************************************)
Flush(ss, q, direct) ==
  \E sent \in SUBSET q :
    /\ Cardinality(sent) <= FlushBudget
    /\ queue' = q \ sent
    /\ Cardinality(queue') <= MaxQueued
    /\ wire' = direct \cup {Sealed(ss, m) : m \in sent}

Exit(reason) ==
  /\ host' = reason
  /\ wire' = {}
  /\ injected' = {}
  /\ UNCHANGED <<sessions, code, store, issued, now, queue, dialogs, prompted, accepted>>

OpensDialog(p) ==
  IF DialogsEnabled /\ p \notin prompted
  THEN prompted' = prompted \cup {p} /\ dialogs' = dialogs \cup {p}
  ELSE UNCHANGED <<prompted, dialogs>>

\* begin_session_key_exchange: a fresh offer replaces any pending one.
NextOffer == issued.offer + 1
OfferKex  == [sid |-> NextOffer, expires |-> now + KexTTL]
DrawOffer ==
  /\ issued.offer < MaxOffers
  /\ issued' = [issued EXCEPT !.offer = NextOffer]

(***************************************************************************)
(* Pairing requests.                                                       *)
(***************************************************************************)
\* Mutant: a pairing request starts a session of its own.
RequestedAnew(s, dev, key) == [NewSession EXCEPT !.devId = NameOf(dev), !.key = key]

\* What a PairingRequest writes before anything about it is checked, on a
\* session of any permission but Rejected.
Requested(s, dev, key) ==
  [s EXCEPT !.devId = NameOf(dev), !.key = key, !.auth = NoAuth]

RefreshWindow(s) ==
  IF now - s.windowStart >= AttemptWindow
  THEN [s EXCEPT !.attempts = 0, !.windowStart = now]
  ELSE s

\* Mutant: the attempt limit is not looked at.
NeverBlocked(s) == FALSE

Blocked(s) == s.attempts >= AttemptLimit

\* Mutant: other sessions keep the challenges of the previous code.
KeepChallenges(ss) == ss

ClearChallenges(ss) == [q \in Peers |-> [ss[q] EXCEPT !.pair = NoPair]]

\* Mutant: the code stays on display and only its expiry moves.
ExtendedCode == [gen |-> code.gen, expires |-> now + CodeTTL]

RotatedCode == [gen |-> code.gen + 1, expires |-> now + CodeTTL]

\* A request without a proof from a device that is on disk: it is sent a
\* challenge to sign, and takes the stored permissions.
ChallengeTrusted(p, key, dev) ==
  /\ Policy = "RequireApproval"
  /\ store[dev] # "none"
  /\ issued.auth < MaxChallenges
  /\ \E ss \in Opened(p) :
       LET id == issued.auth + 1
           s  == [Requested(ss[p], dev, dev) EXCEPT
                    !.auth = [id |-> id, dev |-> dev, issued |-> now],
                    !.input = store[dev]]
       IN /\ Passes(p, key, "PairingRequest")
          /\ ss[p].perm # "Rejected"
          /\ sessions' = [ss EXCEPT ![p] = s]
          /\ issued' = [issued EXCEPT !.auth = id]
          /\ Flush(ss, queue, {Plain(Packet(p, "AuthChallenge", id))})
  /\ injected' = {}
  /\ UNCHANGED <<host, code, store, now, dialogs, prompted, accepted>>

\* A request without a proof from an unknown device: the code is rotated if
\* it has expired, and a salt is issued for it.  Past the attempt limit the
\* router returns an error, which the main loop propagates: the host ends.
IssuePairingCode(p, key, dev, pubkey) ==
  /\ Policy = "RequireApproval"
  /\ pubkey = NoDevice \/ store[dev] = "none"
  /\ \E ss \in Opened(p) :
       LET expired == now >= code.expires
           shown   == IF expired THEN RotatedCode ELSE code
           cleared == IF expired THEN ClearChallenges(ss) ELSE ss
           s       == RefreshWindow(Requested(cleared[p], dev, pubkey))
           salt    == issued.salt + 1
       IN /\ Passes(p, key, "PairingRequest")
          /\ ss[p].perm # "Rejected"
          /\ \/ Blocked(s) /\ Exit("attempt limit")
             \/ /\ ~Blocked(s)
                /\ salt <= MaxSalts /\ shown.gen <= MaxCodes
                /\ code' = shown
                /\ issued' = [issued EXCEPT !.salt = salt]
                /\ sessions' = [cleared EXCEPT ![p] =
                     [s EXCEPT !.verified = FALSE,
                               !.pair = [salt |-> salt, gen |-> shown.gen,
                                         expires |-> Least(now + ChallengeTTL, shown.expires)]]]
                /\ Flush(ss, queue, {Plain(Packet(p, "PairingChallenge", salt))})
                /\ injected' = {}
                /\ UNCHANGED <<host, store, now, dialogs, prompted, accepted>>

\* The check of verify_pairing_code_for_peer, on the session as it stands.
ProofHolds(s, proof) ==
  /\ s.pair # NoPair
  /\ now <= s.pair.expires
  /\ now <= code.expires
  /\ proof.salt = s.pair.salt
  /\ proof.code = code.gen

ProofAccepted(p, key, dev, pubkey, proof) ==
  /\ Policy = "RequireApproval"
  /\ code.gen < MaxCodes
  /\ \E ss \in Opened(p) :
       LET s == RefreshWindow(Requested(ss[p], dev, pubkey))
           verified == [ss EXCEPT ![p] = [s EXCEPT !.attempts = 0, !.verified = TRUE,
                                                   !.vouched = TRUE]]
       IN /\ Passes(p, key, "PairingRequest")
          /\ ss[p].perm # "Rejected"
          /\ ~Blocked(s)
          /\ ProofHolds(s, proof)
          /\ sessions' = ClearChallenges(verified)
          /\ Flush(verified, queue, {})
  /\ code' = RotatedCode
  /\ accepted' = accepted \cup {[peer |-> p, salt |-> proof.salt, code |-> proof.code]}
  /\ OpensDialog(p)
  /\ injected' = {}
  /\ UNCHANGED <<host, store, issued, now>>

\* A refused proof consumes the challenge and one attempt; past the limit it
\* is refused unread.  Either way the client is told.
ProofRefused(p, key, dev, pubkey, proof) ==
  /\ Policy = "RequireApproval"
  /\ \E ss \in Opened(p) :
       LET s == RefreshWindow(Requested(ss[p], dev, pubkey))
           told == queue \cup {Packet(p, "Refused", 0)}
       IN /\ Passes(p, key, "PairingRequest")
          /\ ss[p].perm # "Rejected"
          /\ \/ /\ Blocked(s)
                /\ sessions' = [ss EXCEPT ![p] = s]
             \/ /\ ~Blocked(s)
                /\ ~ProofHolds(s, proof)
                /\ sessions' = [ss EXCEPT ![p] =
                     [s EXCEPT !.verified = FALSE, !.pair = NoPair, !.attempts = @ + 1]]
          /\ Flush(ss, told, {})
  /\ injected' = {}
  /\ UNCHANGED <<host, code, store, issued, now, dialogs, prompted, accepted>>

\* DevAutoApprove: every pairing request approves and starts a key exchange.
AutoApprovePairing(p, key, dev, pubkey) ==
  /\ Policy = "DevAutoApprove"
  /\ \E ss \in Opened(p) :
       LET id == IF pubkey = NoDevice THEN AddrId(p) ELSE IdOf(dev)
           s  == [Requested(ss[p], dev, pubkey) EXCEPT
                    !.perm = "Approved", !.devId = id, !.kex = OfferKex]
       IN /\ Passes(p, key, "PairingRequest")
          /\ ss[p].perm # "Rejected"
          /\ sessions' = [ss EXCEPT ![p] = s]
          /\ Flush(ss, queue \cup {Packet(p, "Accepted", 0), Packet(p, "Offer", NextOffer)}, {})
  /\ DrawOffer
  /\ OpensDialog(p)
  /\ injected' = {}
  /\ UNCHANGED <<host, code, store, now, accepted>>

(***************************************************************************)
(* The other packets.                                                      *)
(***************************************************************************)
\* verify_pending_auth_response: the response answers this session's
\* challenge, for the device it was issued to, in time.
AuthHolds(s, id, dev) ==
  /\ s.auth # NoAuth
  /\ s.auth.id = id
  /\ s.auth.dev = dev
  /\ now - s.auth.issued <= AuthTTL

AuthAccepted(p, key, id, dev) ==
  /\ \E ss \in Opened(p) :
       LET s == ss[p]
       IN /\ Passes(p, key, "AuthResponse")
          /\ s.perm # "Rejected"
          /\ AuthHolds(s, id, dev)
          /\ sessions' = [ss EXCEPT ![p] =
               [s EXCEPT !.perm = "Approved", !.devId = IdOf(dev), !.auth = NoAuth,
                         !.kex = OfferKex, !.vouched = TRUE]]
          /\ Flush(ss, queue \cup {Packet(p, "Accepted", 0), Packet(p, "Offer", NextOffer)}, {})
  /\ DrawOffer
  /\ injected' = {}
  /\ UNCHANGED <<host, code, store, now, dialogs, prompted, accepted>>

\* Any response that does not verify rejects the session, whatever its
\* permission was: also a second copy of one that did verify.
AuthRefused(p, key, id, dev) ==
  /\ \E ss \in Opened(p) :
       LET s == ss[p]
       IN /\ Passes(p, key, "AuthResponse")
          /\ s.perm # "Rejected"
          /\ ~AuthHolds(s, id, dev)
          /\ sessions' = [ss EXCEPT ![p] = [s EXCEPT !.perm = "Rejected", !.auth = NoAuth]]
          /\ Flush(ss, queue \cup {Packet(p, "Refused", 0)}, {})
  /\ injected' = {}
  /\ UNCHANGED <<host, code, store, issued, now, dialogs, prompted, accepted>>

\* A rejected session is only seen.  So is a pending one, by every kind of
\* packet that needs approval, unless auto-approval grants it.
Unapproved(p, key, kind) ==
  /\ \E ss \in Opened(p) :
       /\ Passes(p, key, kind)
       /\ \/ ss[p].perm = "Rejected"
          \/ /\ ss[p].perm = "Pending"
             /\ Policy = "RequireApproval"
             /\ kind \notin {"PairingRequest", "AuthResponse"}
       /\ sessions' = ss
       /\ Flush(ss, queue, {})
  /\ injected' = {}
  /\ UNCHANGED <<host, code, store, issued, now, dialogs, prompted, accepted>>

AutoApproved(s, p) ==
  IF s.perm = "Pending" /\ Policy = "DevAutoApprove"
  THEN [s EXCEPT !.perm = "Approved", !.devId = IF @ = NoId THEN DevPeerId(p) ELSE @]
  ELSE s

ConfirmHolds(s, sid, dev) ==
  /\ s.kex # NoKex
  /\ s.kex.sid = sid
  /\ now <= s.kex.expires
  /\ s.devId = IdOf(dev)
  /\ s.key = dev

\* A confirmation of the pending offer makes the session secure; under an
\* established key it may be sealed, and replaces that key.
KeyConfirmed(p, key, sid, eph, dev) ==
  /\ \E ss \in Opened(p) :
       LET s       == AutoApproved(ss[p], p)
           secured == [ss EXCEPT ![p] = [s EXCEPT !.kex = NoKex,
                                                  !.secure = [sid |-> sid, eph |-> eph]]]
       IN /\ Passes(p, key, "KeyConfirm")
          /\ s.perm = "Approved"
          /\ ConfirmHolds(s, sid, dev)
          /\ sessions' = secured
          /\ Flush(secured, queue \cup {Packet(p, "DisplayInfo", 0)}, {})
  /\ injected' = {}
  /\ UNCHANGED <<host, code, store, issued, now, dialogs, prompted, accepted>>

\* Mutant: the error is reported and the loop goes on.
KeyConfirmIgnored(p, key, sid, dev) ==
  /\ \E ss \in Opened(p) :
       LET s == AutoApproved(ss[p], p)
       IN /\ Passes(p, key, "KeyConfirm")
          /\ s.perm = "Approved"
          /\ ~ConfirmHolds(s, sid, dev)
          /\ sessions' = [ss EXCEPT ![p] = [s EXCEPT !.kex = NoKex]]
          /\ Flush(ss, queue, {})
  /\ injected' = {}
  /\ UNCHANGED <<host, code, store, issued, now, dialogs, prompted, accepted>>

\* A confirmation that does not match the pending offer is an error that
\* route_packet, poll_control and the main loop propagate: the host ends.
KeyConfirmFails(p, key, sid, dev) ==
  /\ \E ss \in Opened(p) :
       LET s == AutoApproved(ss[p], p)
       IN /\ Passes(p, key, "KeyConfirm")
          /\ s.perm = "Approved"
          /\ ~ConfirmHolds(s, sid, dev)
  /\ Exit("key confirm")

\* Input its session has not permitted, or that is older than what it has
\* already sent, is dropped.
ReceiveInput(p, key) ==
  /\ \E ss \in Opened(p) :
       LET s == AutoApproved(ss[p], p)
       IN /\ Passes(p, key, "Input")
          /\ s.perm = "Approved"
          /\ sessions' = [ss EXCEPT ![p] = s]
          /\ injected' \in SUBSET (IF s.input = "allow" THEN {[peer |-> p, key |-> key]} ELSE {})
          /\ Flush(ss, queue, {})
  /\ UNCHANGED <<host, code, store, issued, now, dialogs, prompted, accepted>>

ReceivePing(p, key) ==
  /\ \E ss \in Opened(p) :
       LET s == AutoApproved(ss[p], p)
       IN /\ Passes(p, key, "Ping")
          /\ s.perm = "Approved"
          /\ sessions' = [ss EXCEPT ![p] = s]
          /\ Flush(ss, queue \cup {Packet(p, "Pong", 0)}, {})
  /\ injected' = {}
  /\ UNCHANGED <<host, code, store, issued, now, dialogs, prompted, accepted>>

\* An encoder configuration is kept for the video pipeline; packets of a kind
\* the host has no use for leave the same mark.
ReceiveConfig(p, key) ==
  /\ \E ss \in Opened(p) :
       LET s == AutoApproved(ss[p], p)
       IN /\ Passes(p, key, "Config")
          /\ s.perm = "Approved"
          /\ sessions' = [ss EXCEPT ![p] = s]
          /\ Flush(ss, queue, {})
  /\ injected' = {}
  /\ UNCHANGED <<host, code, store, issued, now, dialogs, prompted, accepted>>

\* A poll without a datagram, or whose datagram the transport check or the
\* rate limiter drops: the flush is all it does.
PollIdle ==
  /\ Flush(sessions, queue, {})
  /\ injected' = {}
  /\ UNCHANGED <<host, sessions, code, store, issued, now, dialogs, prompted, accepted>>

(***************************************************************************)
(* The rest of the main loop.                                              *)
(***************************************************************************)
\* Mutant: media goes to every approved peer.
ApprovedPeers == {p \in Peers : sessions[p].perm = "Approved"}

SecurePeers == {p \in Peers : sessions[p].perm = "Approved" /\ IsSecure(p)}

\* queue_video_packets_for_approved_peers, then a flush.
VideoFrame ==
  /\ Flush(sessions, queue \cup {Packet(p, "Video", 0) : p \in SecurePeers}, {})
  /\ injected' = {}
  /\ UNCHANGED <<host, sessions, code, store, issued, now, dialogs, prompted, accepted>>

\* Mutant: the operator may approve whoever is pending.
MayApprovePending(p) == sessions[p].perm = "Pending"

MayApprove(p) == sessions[p].verified

\* approve_peer_and_record_trust: the session is approved under the id of the
\* key it holds now, both packets are sent at once and in plaintext, and the
\* record is saved, unless saving fails.
Approve(p) ==
  /\ LET s  == sessions[p]
         id == IF s.key = NoDevice THEN AddrId(p) ELSE IdOf(s.key)
     IN /\ sessions' = [sessions EXCEPT ![p] =
             [s EXCEPT !.perm = "Approved", !.devId = id, !.input = "allow", !.kex = OfferKex]]
        /\ store' \in {store} \cup {[store EXCEPT ![d] = "allow"] : d \in {s.key} \ {NoDevice}}
  /\ wire' = {Plain(Packet(p, "Accepted", 0)), Plain(Packet(p, "Offer", NextOffer))}
  /\ DrawOffer
  /\ injected' = {}
  /\ UNCHANGED <<host, code, now, queue, prompted, accepted>>

Reject(p) ==
  /\ \E ss \in Ensured(p) : sessions' = [ss EXCEPT ![p].perm = "Rejected"]
  /\ wire' = {Plain(Packet(p, "Refused", 0))}
  /\ injected' = {}
  /\ UNCHANGED <<host, code, store, issued, now, queue, prompted, accepted>>

IgnoreDialog ==
  /\ wire' = {} /\ injected' = {}
  /\ UNCHANGED <<host, sessions, code, store, issued, now, queue, prompted, accepted>>

ConsoleApprove(p) == "approve" \in Commands /\ MayApprove(p) /\ Approve(p) /\ UNCHANGED dialogs
ConsoleReject(p)  == "reject" \in Commands /\ Reject(p) /\ UNCHANGED dialogs

\* The dialog thread's answer, drained by the main loop.  It is ignored when
\* the session is no longer pending, or approves one without a valid proof.
DialogAnswered(p, approves) ==
  /\ p \in dialogs
  /\ dialogs' = dialogs \ {p}
  /\ IF sessions[p].perm # "Pending" THEN IgnoreDialog
     ELSE IF ~approves THEN Reject(p)
     ELSE IF MayApprove(p) THEN Approve(p)
     ELSE IgnoreDialog

\* `trust permission <id> <kind> on|off`: the stored record, found by its id in
\* any letter case, and the sessions whose device id is exactly the id typed.
SetPermission(d, permission, exactCase) ==
  /\ "permission" \in Commands
  /\ store[d] # "none"
  /\ store' = [store EXCEPT ![d] = permission]
  /\ sessions' = [q \in Peers |->
       IF exactCase /\ sessions[q].devId = IdOf(d) THEN [sessions[q] EXCEPT !.input = permission]
       ELSE sessions[q]]
  /\ wire' = {} /\ injected' = {}
  /\ UNCHANGED <<host, code, issued, now, queue, dialogs, prompted, accepted>>

\* `trust forget <id>` and `trust clear`: the records only.
Forget(ds) ==
  /\ "forget" \in Commands
  /\ store' = [d \in Devices |-> IF d \in ds THEN "none" ELSE store[d]]
  /\ wire' = {} /\ injected' = {}
  /\ UNCHANGED <<host, sessions, code, issued, now, queue, dialogs, prompted, accepted>>

\* poll_recv_datagram, a direct send_to or an injector reports an error of the
\* operating system, or a payload does not decode: it too is propagated.
SystemError == Exit("system error")

Tick ==
  /\ now < MaxTime
  /\ now' = now + 1
  /\ wire' = {} /\ injected' = {}
  /\ UNCHANGED <<host, sessions, code, store, issued, queue, dialogs, prompted, accepted>>

\* The process is started again: everything but the trust store is new.
Restart ==
  /\ "restart" \in Commands
  /\ code.gen < MaxCodes
  /\ host' = "running"
  /\ sessions' = [p \in Peers |-> NoSession]
  /\ code' = RotatedCode
  /\ queue' = {} /\ wire' = {} /\ injected' = {}
  /\ dialogs' = {} /\ prompted' = {}
  /\ UNCHANGED <<store, issued, now, accepted>>

Init ==
  /\ host = "running"
  /\ sessions = [p \in Peers |-> NoSession]
  /\ code = [gen |-> 1, expires |-> CodeTTL]
  /\ store \in [Devices -> {"none", "allow"}]
  /\ issued = [salt |-> 0, auth |-> 0, offer |-> 0]
  /\ now = 0
  /\ queue = {} /\ wire = {} /\ injected = {}
  /\ dialogs = {} /\ prompted = {}
  /\ accepted = {}

\* Proofs a client can compute: any salt it was sent, with any code ever
\* displayed, or with a mistyped one (0).
Proofs == [salt : 1..issued.salt, code : 0..code.gen]

PairingStep(p, key) ==
  \E dev \in Devices, withKey \in BOOLEAN :
    LET pubkey == IF withKey THEN dev ELSE NoDevice
    IN \/ withKey /\ ChallengeTrusted(p, key, dev)
       \/ IssuePairingCode(p, key, dev, pubkey)
       \/ AutoApprovePairing(p, key, dev, pubkey)
       \/ \E proof \in Proofs : \/ ProofAccepted(p, key, dev, pubkey, proof)
                                \/ ProofRefused(p, key, dev, pubkey, proof)

AuthStep(p, key) ==
  \E id \in 1..issued.auth, dev \in Devices : AuthAccepted(p, key, id, dev) \/ AuthRefused(p, key, id, dev)

ConfirmStep(p, key) ==
  \E sid \in 1..issued.offer, dev \in Devices :
    \/ \E eph \in Ephemerals : KeyConfirmed(p, key, sid, eph, dev)
    \/ KeyConfirmFails(p, key, sid, dev)

PacketStep(p) ==
  \E key \in SealsOf(p) :
    \/ PairingStep(p, key) \/ AuthStep(p, key) \/ ConfirmStep(p, key)
    \/ \E kind \in Kinds : Unapproved(p, key, kind)
    \/ ReceiveInput(p, key) \/ ReceivePing(p, key) \/ ReceiveConfig(p, key)

OperatorStep ==
  \/ \E p \in Peers : \/ ConsoleApprove(p) \/ ConsoleReject(p)
                      \/ \E answer \in BOOLEAN : DialogAnswered(p, answer)
  \/ \E d \in Devices : \/ Forget({d})
                        \/ \E permission \in {"allow", "deny"}, exactCase \in BOOLEAN :
                             SetPermission(d, permission, exactCase)
  \/ Forget(Devices)

HostStep == (\E p \in Peers : PacketStep(p)) \/ PollIdle \/ VideoFrame \/ OperatorStep \/ SystemError

Next == (host = "running" /\ HostStep) \/ Tick \/ Restart

Spec == Init /\ [][Next]_vars

(***************************************************************************)
(* Properties.                                                             *)
(***************************************************************************)
Datagram == [to : Peers, kind : PacketKinds, id : Nat, key : {NoKeys} \cup Keys]

\* Every variable keeps its shape: in particular the attempt counter never
\* passes the limit, however requests, refusals and window resets interleave.
TypeOK ==
  /\ host \in {"running", "attempt limit", "key confirm", "system error"}
  /\ sessions \in [Peers -> Session]
  /\ code \in [gen : Nat \ {0}, expires : Nat]
  /\ store \in [Devices -> {"none", "allow", "deny"}]
  /\ issued \in [salt : Nat, auth : Nat, offer : Nat]
  /\ now \in Nat
  /\ queue \subseteq [to : Peers, kind : PacketKinds, id : Nat]
  /\ wire \subseteq Datagram
  /\ injected \subseteq [peer : Peers, key : {NoKeys} \cup Keys]
  /\ dialogs \subseteq Peers /\ prompted \subseteq Peers
  /\ accepted \subseteq [peer : Peers, salt : Nat, code : Nat]

\* No video packet leaves the host in plaintext.  Video is queued for secure
\* peers but sealed only when flushed, by a lookup of the session at that
\* time: a session evicted or replaced while its packets wait under
\* backpressure would leak them (backend.rs flush_outbound_control).
MediaSealed == [][\A m \in wire' : m.kind = "Video" => m.key # NoKeys]_vars

\* Nothing a client sent in plaintext reaches an input injector.  The router
\* never asks for a secure session before it injects: it relies on approval
\* always coming with a pending offer, and on a failed confirmation, which
\* consumes the offer, ending the host.
EncryptedInputOnly ==
  [][Policy = "RequireApproval" => \A i \in injected' : i.key # NoKeys]_vars

\* One displayed code lets one request through, and one salt too: a proof
\* repeated, delayed or sent from a second endpoint verifies nothing
\* (verify_pairing_code_for_peer, rotate_pairing_code).
OneTimeCode ==
  \A a, b \in accepted : a # b => a.code # b.code /\ a.salt # b.salt

\* A pending pairing challenge belongs to the code on display and does not
\* outlive it, through every rotation by any other session.
ChallengesMatchCode ==
  \A p \in Peers : sessions[p].pair # NoPair =>
    /\ sessions[p].pair.gen = code.gen
    /\ sessions[p].pair.expires <= code.expires

\* Approved, and secured, sessions have shown a code proof or a signature
\* since the session was created, whichever of console, dialog and packets
\* decided, and in whatever order (main.rs drain_console_commands).
ApprovedWasVouched ==
  Policy = "RequireApproval" =>
  \A p \in Peers : sessions[p].perm = "Approved" \/ IsSecure(p) => sessions[p].vouched

\* The registry never holds more pending sessions than the cap.
PendingCapped == Cardinality(PendingPeers(sessions)) <= MaxPending

\* A secure session never falls back to plaintext and never returns to an
\* earlier key, whatever approvals, offers, evictions and confirmations arrive
\* meanwhile: counters restart at 1 with a session key, so a key must not be
\* taken up twice.  Only the end of the process forgets it.
SecureKeyAdvances ==
  [][\A p \in Peers : IsSecure(p) /\ ~Restart =>
       \/ sessions'[p].secure = sessions[p].secure
       \/ sessions'[p].secure.sid > sessions[p].secure.sid]_vars

\* docs/PROTOCOL.md: "Five failed proofs within two minutes temporarily block
\* further attempts."  Blocking is all the limit should do.
LimitOnlyBlocks == host # "attempt limit"

\* docs/SECURITY.md: "Windows enforces persisted per-device ... permissions
\* before decoding or injecting input; operators can change them with
\* `trust permission`".
PersistedPermissionHolds ==
  \A p \in Peers, d \in Devices :
    sessions[p].perm = "Approved" /\ sessions[p].devId = IdOf(d) /\ store[d] = "deny"
      => sessions[p].input = "deny"
=============================================================================
