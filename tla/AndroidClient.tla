--------------------------- MODULE AndroidClient ---------------------------
(***************************************************************************)
(* Session control of the Android client: SessionControlController and     *)
(* ControlUdpClient (network/SessionControlController.kt), the key         *)
(* handshake of SecureSessionCodec.kt, and the buttons of GlyphRayApp.kt   *)
(* and Screens.kt that drive them.                                         *)
(*                                                                         *)
(* Three threads share the controller: the UI thread posts tasks, a single *)
(* executor runs them in order, and a single receiver thread handles       *)
(* datagrams and posts tasks of its own.  A task acts on whatever client   *)
(* object is current when it runs.  Each connect makes a new client object *)
(* with a new socket, so connection c is also the endpoint c the host sees.*)
(*                                                                         *)
(* The host is left open: whoever composes this module hands datagrams to  *)
(* Receive and takes them from the output port sent.                       *)
(***************************************************************************)
EXTENDS Integers, Sequences

CONSTANTS
  MaxConnects, MaxRequests, MaxSubmits, MaxApplies,  \* bounds on taps, by button
  MaxDrawn                                           \* bound on ephemeral keys

ASSUME ClientAssumption ==
  /\ MaxConnects \in Nat /\ MaxRequests \in Nat
  /\ MaxSubmits \in Nat /\ MaxApplies \in Nat
  /\ MaxDrawn \in Nat

VARIABLES
  conn,     \* the current client object: how many were made
  open,     \* isOpen of the current client object
  codec,    \* its secureCodec
  seq,      \* its nextTransportSequence
  drawn,    \* ephemeral keys drawn so far, by every handshake
  pinned,   \* TrustedHostIdentityStore: the fingerprint kept for this host
  shown,    \* state.pairingChallenge: its salt, 0 for null
  refused,  \* state.lastPairingAccepted == false
  ui,       \* tasks a tap has still to post
  tasks,    \* the queue of the executor
  busy,     \* how far the executor is with the task it runs
  hand,     \* the datagram the receiver thread has opened and not handled
  taps,     \* taps so far, by button
  sent      \* output port: the datagrams this step sent

clientVars == <<conn, open, codec, seq, drawn, pinned, shown, refused, ui,
                tasks, busy, hand, taps, sent>>

NoCodec == [sid |-> 0, eph |-> 0]
NoCode  == [salt |-> 0, code |-> 0]    \* an empty pairing_code_hash

Task(op, arg) == [op |-> op, arg |-> arg]
Idle    == [at |-> "idle"]
Nothing == [kind |-> "nothing"]

\* What a state.copy will write back of the fields the buttons depend on.
Copying(s, r)   == [at |-> "copy", shown |-> s, refused |-> r]
Installing(key) == [at |-> "install", key |-> key]

(***************************************************************************)
(* The UI thread.                                                          *)
(***************************************************************************)
\* Mutant: the request is posted once more, in case the first is lost.
TapConnectInsists ==
  /\ ui = <<>> /\ taps.connect < MaxConnects
  /\ taps' = [taps EXCEPT !.connect = @ + 1]
  /\ tasks' = Append(tasks, Task("Connect", 0))
  /\ ui' = <<Task("Pair", 0), Task("Pair", 0), Task("Ping", 0)>>
  /\ sent' = {}
  /\ UNCHANGED <<conn, open, codec, seq, drawn, pinned, shown, refused, busy, hand>>

\* "Start session" posts three tasks one after the other.
TapConnect ==
  /\ ui = <<>> /\ taps.connect < MaxConnects
  /\ taps' = [taps EXCEPT !.connect = @ + 1]
  /\ tasks' = Append(tasks, Task("Connect", 0))
  /\ ui' = <<Task("Pair", 0), Task("Ping", 0)>>
  /\ sent' = {}
  /\ UNCHANGED <<conn, open, codec, seq, drawn, pinned, shown, refused, busy, hand>>

PostRest ==
  /\ ui # <<>>
  /\ tasks' = Append(tasks, Head(ui))
  /\ ui' = Tail(ui)
  /\ sent' = {}
  /\ UNCHANGED <<conn, open, codec, seq, drawn, pinned, shown, refused, busy, hand, taps>>

Tapped(button, task) ==
  /\ ui = <<>>
  /\ taps' = [taps EXCEPT ![button] = @ + 1]
  /\ tasks' = Append(tasks, task)
  /\ sent' = {}
  /\ UNCHANGED <<conn, open, codec, seq, drawn, pinned, shown, refused, ui, busy, hand>>

\* "Request new code" is on screen after a refusal, until a challenge comes.
CanRequestCode == refused /\ shown = 0

TapRequest == taps.request < MaxRequests /\ CanRequestCode /\ Tapped("request", Task("Pair", 0))

\* "Verify code", with six digits typed.
TapSubmit(digits) ==
  taps.submit < MaxSubmits /\ shown # 0 /\ Tapped("submit", Task("Submit", digits))

\* "Apply" of the video settings, and a key of the special key row.
TapApply(kind) == taps.apply < MaxApplies /\ Tapped("apply", Task(kind, 0))

(***************************************************************************)
(* The executor.                                                           *)
(***************************************************************************)
Starts(op) == busy = Idle /\ tasks # <<>> /\ Head(tasks).op = op

\* connect: the old socket is closed and a new client object takes over.  Like
\* every task it ends with a copy of the state, which is written back later,
\* over what the receiver thread wrote meanwhile.
RunConnect ==
  /\ Starts("Connect") /\ conn < MaxConnects
  /\ tasks' = Tail(tasks)
  /\ conn' = conn + 1 /\ open' = TRUE /\ codec' = NoCodec /\ seq' = 1
  /\ busy' = Copying(0, refused)
  /\ sent' = {}
  /\ UNCHANGED <<drawn, pinned, shown, refused, ui, hand, taps>>

\* No socket to be had: the old one is closed, and nothing else changes.
ConnectFails ==
  /\ Starts("Connect")
  /\ tasks' = Tail(tasks)
  /\ open' = FALSE
  /\ busy' = Copying(shown, refused)
  /\ sent' = {}
  /\ UNCHANGED <<conn, codec, seq, drawn, pinned, shown, refused, ui, hand, taps>>

Message(kind, key, id, eph, proof) ==
  [from |-> conn, n |-> seq, kind |-> kind, key |-> key, id |-> id, eph |-> eph,
   proof |-> proof]

\* sendControl, without an open client too.
SendControl(datagrams) ==
  /\ tasks' = Tail(tasks)
  /\ sent' = IF open THEN datagrams ELSE {}
  /\ seq' = seq + 1
  /\ busy' = Copying(shown, refused)
  /\ UNCHANGED <<conn, open, codec, drawn, pinned, shown, refused, ui, hand, taps>>

RunPair == Starts("Pair") /\ SendControl({Message("PairingRequest", codec, 0, 0, NoCode)})

RunSend ==
  \E kind \in {"Ping", "Config"} :
    Starts(kind) /\ SendControl({Message(kind, codec, 0, 0, NoCode)})

\* Mutant: a code is sent without asking for a challenge.
SubmitUnasked ==
  /\ Starts("Submit")
  /\ SendControl({Message("PairingRequest", codec, 0, 0,
                          [salt |-> shown, code |-> Head(tasks).arg])})

\* submitPairingCode answers the challenge that is shown when it runs.
RunSubmit ==
  /\ Starts("Submit")
  /\ SendControl(IF shown = 0 THEN {}
                 ELSE {Message("PairingRequest", codec, 0, 0,
                                [salt |-> shown, code |-> Head(tasks).arg])})

\* The challenge has expired on the client's clock.
SubmitExpired ==
  /\ Starts("Submit") /\ shown # 0
  /\ tasks' = Tail(tasks)
  /\ busy' = Copying(0, refused)
  /\ sent' = {}
  /\ UNCHANGED <<conn, open, codec, seq, drawn, pinned, shown, refused, ui, hand, taps>>

\* Input is sent under a codec or not at all.
RunInput ==
  /\ Starts("Input")
  /\ SendControl(IF codec = NoCodec THEN {} ELSE {Message("Input", codec, 0, 0, NoCode)})

RunAuth ==
  /\ Starts("Auth")
  /\ SendControl({Message("AuthResponse", codec, Head(tasks).arg, 0, NoCode)})

FinishCopy ==
  /\ busy.at = "copy"
  /\ busy' = Idle
  /\ shown' = busy.shown /\ refused' = busy.refused
  /\ sent' = {}
  /\ UNCHANGED <<conn, open, codec, seq, drawn, pinned, ui, tasks, hand, taps>>

\* Mutant: the codec is set before the confirmation is sent, and seals it.
ConfirmSealed ==
  /\ Starts("Kex") /\ open /\ pinned # "other" /\ drawn < MaxDrawn
  /\ LET eph == drawn + 1
         key == [sid |-> Head(tasks).arg, eph |-> eph]
     IN /\ drawn' = eph
        /\ sent' = {Message("KeyConfirm", key, Head(tasks).arg, eph, NoCode)}
        /\ busy' = Installing(key)
  /\ pinned' = "host"
  /\ tasks' = Tail(tasks) /\ seq' = seq + 1
  /\ UNCHANGED <<conn, open, codec, shown, refused, ui, hand, taps>>

\* establishSecureSession up to its send: the confirmation, under a fresh
\* ephemeral key, goes out in plaintext whatever codec is installed.  (An
\* offer that has expired on the client's clock is dropped like a lost one.)
ConfirmOffer ==
  /\ Starts("Kex") /\ open /\ pinned # "other" /\ drawn < MaxDrawn
  /\ LET eph == drawn + 1
     IN /\ drawn' = eph
        /\ sent' = {Message("KeyConfirm", NoCodec, Head(tasks).arg, eph, NoCode)}
        /\ busy' = Installing([sid |-> Head(tasks).arg, eph |-> eph])
  /\ pinned' = "host"
  /\ tasks' = Tail(tasks) /\ seq' = seq + 1
  /\ UNCHANGED <<conn, open, codec, shown, refused, ui, hand, taps>>

\* The pinned identity is another host's, or the socket is closed by now.
DropOffer ==
  /\ Starts("Kex") /\ (~open \/ pinned = "other")
  /\ pinned' = IF pinned = "none" THEN "host" ELSE pinned
  /\ tasks' = Tail(tasks)
  /\ busy' = Copying(shown, refused)
  /\ sent' = {}
  /\ UNCHANGED <<conn, open, codec, seq, drawn, shown, refused, ui, hand, taps>>

\* The rest of the task: the codec is installed and the encoder
\* configuration is sent under it.
InstallCodec ==
  /\ busy.at = "install"
  /\ codec' = busy.key
  /\ sent' = {Message("Config", busy.key, 0, 0, NoCode)}
  /\ seq' = seq + 1
  /\ busy' = Copying(shown, refused)
  /\ UNCHANGED <<conn, open, drawn, pinned, shown, refused, ui, tasks, hand, taps>>

Execute ==
  \/ RunConnect \/ RunPair \/ RunSend \/ RunSubmit \/ RunInput \/ RunAuth
  \/ ConfirmOffer \/ DropOffer \/ InstallCodec \/ FinishCopy

(***************************************************************************)
(* The receiver thread.  It serves one client object; that of the next     *)
(* connection takes its place once the datagram in hand is handled.        *)
(***************************************************************************)
\* receiveTransportPacket takes plaintext until the codec is set, then only
\* what opens under it.
Opens(m) == open /\ m.to = conn /\ m.key = codec

Receive(m) ==
  /\ hand = Nothing
  /\ hand' = IF Opens(m) THEN m ELSE Nothing
  /\ sent' = {}
  /\ UNCHANGED <<conn, open, codec, seq, drawn, pinned, shown, refused, ui, tasks, busy, taps>>

Handled ==
  /\ hand' = Nothing
  /\ sent' = {}
  /\ UNCHANGED <<conn, open, codec, seq, drawn, pinned, ui, busy, taps>>

HandleChallenge ==
  /\ hand.kind = "PairingChallenge"
  /\ shown' = hand.id /\ refused' = FALSE
  /\ Handled /\ UNCHANGED tasks

HandleResult ==
  /\ hand.kind \in {"Accepted", "Refused"}
  /\ shown' = 0 /\ refused' = (hand.kind = "Refused")
  /\ Handled /\ UNCHANGED tasks

\* Mutant: what the host waits for overtakes the tasks already queued.
HandleAheadOfQueue ==
  /\ \/ hand.kind = "AuthChallenge" /\ tasks' = <<Task("Auth", hand.id)>> \o tasks
     \/ hand.kind = "Offer" /\ tasks' = <<Task("Kex", hand.id)>> \o tasks
  /\ Handled /\ UNCHANGED <<shown, refused>>

\* The answers to these are computed on the executor, in its order.
HandleOnExecutor ==
  /\ \/ hand.kind = "AuthChallenge" /\ tasks' = Append(tasks, Task("Auth", hand.id))
     \/ hand.kind = "Offer" /\ tasks' = Append(tasks, Task("Kex", hand.id))
  /\ Handled /\ UNCHANGED <<shown, refused>>

\* A pong, the list of displays or a frame: nothing the session depends on.
HandleOther ==
  /\ hand.kind \in {"Pong", "DisplayInfo", "Video"}
  /\ Handled /\ UNCHANGED <<shown, refused, tasks>>

HandleReceived == HandleChallenge \/ HandleResult \/ HandleOnExecutor \/ HandleOther

ClientInit ==
  /\ conn = 0 /\ open = FALSE /\ codec = NoCodec /\ seq = 0 /\ drawn = 0
  /\ pinned \in {"none", "other"}
  /\ shown = 0 /\ refused = FALSE
  /\ ui = <<>> /\ tasks = <<>> /\ busy = Idle /\ hand = Nothing
  /\ taps = [connect |-> 0, request |-> 0, submit |-> 0, apply |-> 0]
  /\ sent = {}

\* Every step but Receive and TapSubmit, whose inputs come from outside.
ClientStep ==
  \/ TapConnect \/ PostRest \/ TapRequest
  \/ \E kind \in {"Config", "Input"} : TapApply(kind)
  \/ Execute \/ ConnectFails \/ SubmitExpired
  \/ HandleReceived
=============================================================================
