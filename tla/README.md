# GlyphRay: TLA+ specifications

GlyphRay turns an Android tablet into a pen display: a Windows (or macOS) host
streams its screen over UDP and injects the pen, touch, keyboard, mouse and
gamepad input the tablet sends back. This directory holds TLA+ modules
translated from the source, TLC configurations that check them on small
instances, and proofs that TLAPS checks for every instance. `PROJECT.json` maps
every definition to the lines it models and lists runs, mutants, findings,
hazards and theorems.

    tlc -workers 2 -config sessions.cfg MC_HostSessions
    tlc -workers 2 -config reconnect.cfg MC_SessionSystem
    tlc -workers 2 -config media.cfg MC_MediaPath
    tlc -workers 2 -config store.cfg MC_HostStore
    tlc -workers 2 -config devices.cfg MC_HostDevices
    tlc -workers 2 -config ink_position.cfg MC_DisplayGeometry
    tlapm HostSessionsProofs.tla

and likewise `SessionSystemProofs`, `QueueProofs`, `MediaPathProofs`, `HostStoreProofs`,
`ScreenProofs`, `InputPathProofs` and `WireFormatsProofs`.

## 1. Inventory

| Part | State it keeps | Operations | What is hard about it | Module |
|---|---|---|---|---|
| Session registry and packet router (`hosts/windows-host/src/backend.rs`) | one session per endpoint: permission, ids, pending auth / pairing / key-exchange challenges, attempt window, secure session, permissions, watermark; attempts per address; the displayed code | route a packet of each kind, approve, reject, evict, rotate the code | any order of packets of several endpoints, expiries, errors that end the process | `HostSessions`, `PendingAdmission` |
| Main loop, console, dialogs (`main.rs`, `permission_ui.rs`) | open prompts, command queue, override, video pump | poll, drain commands, react to pairing requests, restart the pump | decisions that race packets and evictions | `HostSessions`, `HostStore`, `VideoPipeline` |
| Settings and identity (`settings.rs`, `persistence.rs`, `secrets.rs`) | two files, temporary and quarantined ones | load, edit, save, recover | crashes between two calls, failing calls, damage | `HostSettings`, `HostStore`, `DurableSettings` |
| Outbound queues (`backend.rs` `OutboundPacketQueues`) | a FIFO per channel and a cursor | push with caps, pop by schedule, put back under backpressure | starvation, order, loss at the cap | `OutboundQueues`, `FlushSchedule` |
| Secure transport (`crates/security`, `crates/transport/secure.rs`, `udp.rs`) | keys, counters, replay window | seal, open | reordering, duplicates, key changes | `SecureDatagrams`, `AtMostOnceChannel` |
| Screen capture, encoder and pump (`streaming.rs`, `capture/`, `encoder/`, `main.rs`) | capture session, transform, labels, key-frame request, sequence | capture, encode, fall back to software, restart | monitors and drivers that change or fail at any call | `VideoPipeline`, `VideoNumbers`, `AccessUnits` |
| Video in pieces (`crates/transport/fragment.rs`, `video.rs`) | pending frames | packetise, reassemble, reset | loss, sequence reuse | `MediaPath` |
| Input bridges and injectors (`input/`, `backend.rs`) | watermark, pressure per pointer, last mouse flags | permit, drop, smooth, inject | reordering, several clients on one injector, errors half way | `InputPath` |
| Coordinates (`crates/core/mapping.rs`, `capture/`, `main.rs`) | a mapper made at the start | rotate the image, map the pointer | displays that are turned, change or are not the default, views of another size | `DisplayGeometry` |
| Formats (`crates/protocol`, `udp.rs`, `secure.rs`, `fragment.rs`, `video.rs`) | none | encode, decode | lengths at their limits | `WireFormats` |
| Android session (`SessionControlController.kt`, `SecureSessionCodec.kt`) | client socket, codec, pairing state | connect, pair, verify the offer, confirm, disconnect | threads, callbacks of an old connection, lost confirmations | `AndroidClient` |
| Android input (`StylusLanBridgeController.kt`, ...) | executor, numbers, clocks | stamp, number, send | two executors and two clocks behind one watermark | `InputPath` |
| Android media (`RemoteVideoStreamController.kt`, ...) | decoder, pending frames | attach, detach, feed | surfaces that come and go | `MediaPath` |
| Reconnect, bitrate, relay (`crates/transport`) | delay, attempts, bitrate | step, reset | no caller | - |
| macOS host (`hosts/macos-host`) | sessions, capture, publisher | the same protocol in Swift | actor and callback interleavings | - |
| Audio, telemetry, UI | none that decides anything | - | - | - |

How they interact: datagrams (`GLYT` packets, sealed as `GLYE` once a session is
secure) between client and host; inside the host one thread calls
`poll_control` (receive one datagram, route it, flush the outbound queues),
hands the returned events to the dialog coordinator and to
`maybe_challenge_trusted_pairing`, drains the commands of the console and dialog
threads from a channel, and pushes a video frame to every secure peer. The files
are read and written, the screen captured and the input injected by that thread only.

What makes each part correct:

- registry and router: approval only after a proof or a signature; one request
  per code; secure keys that only advance; nothing sensitive in plaintext; a
  bounded number of pending sessions and of attempts per address;
- main loop: decisions never apply to a session other than the one they were
  asked for; an error of one client does not concern the others;
- files: a crash leaves either the old file or the new one; what the operator was
  told is stored; no identity that clients have pinned is lost; a host that is
  started again runs again;
- queues: order within a channel, bounded memory, no starvation;
- secure transport: each counter accepted at most once, late ones within the window;
- capture and encoder: what is sent is labelled with the frame it shows, starts
  with a key frame, has rising numbers and shows the display as it is now;
- video in pieces: a frame is complete and made of one frame's fragments;
- input: nothing goes back, nothing is left pressed, the pen lands where it points;
- formats: a decoder returns what was encoded, or nothing;
- client: it uses a key only with the host that has the same one, and callbacks
  of an earlier connection do not touch a later one.

## 2. Plan

1. `HostSessions`, `HostSessionsProofs`: the core (done).
2. `AndroidClient`, and `SessionSystem` composing it with the host over
   a network that loses, duplicates and reorders: key agreement, and, without
   loss, eventually secure. `SessionSystemProofs`: the system implements
   `HostSessions`; its ends agree on their keys and the client does not end the host (done).
3. `SecureDatagrams` against `AtMostOnceChannel`, an abstract at-most-once
   delivery; `OutboundQueues`; `MediaPath` composing video pump, queues, sealed
   transport and reassembler; `FlushSchedule`, queues longer than a flush;
   `QueueProofs`, `MediaPathProofs` (done).
4. `HostSettings`, `HostStore` against `DurableSettings`, an abstract store that
   changes in one step; `HostStoreProofs` (done).
5. `VideoPipeline`, `DisplayGeometry`, `VideoNumbers`, `ScreenProofs`;
   `AccessUnits` (done).
6. `InputPath`, `InputPathProofs`; `PendingAdmission` (done).
7. `WireFormats`, `WireFormatsProofs` (done).
8. The macOS runtime: control sessions, publisher, live capture (left).

Twelve runs, forty properties in the passing ones and eight modules of proofs are
the size this project keeps to, so the parts of the host that share no state are
explored side by side in one run, `devices`. Worth having next: key agreement of
`SessionSystem` where the operator forgets a device, and how many packets of each
channel a flush sends when all of them wait.

## 3. HostSessions

### State and actions

`sessions` is `SessionRegistry.sessions`, a total function whose value `Absent`
stands for a missing entry; `code` the displayed code by generation; `store` the
trusted devices with one kind of input; `queue` the content of
`OutboundPacketQueues`; `dialogs` and `prompted` the open dialogs and
`active_prompts`; `issued` counts the salts, challenges and offers drawn, so that
each is fresh as the random values of the code are; `host` says whether the
process runs or why it ended. `accepted` and the field `vouched` are history.

The host is one thread. A step of `PacketStep` is one call of `poll_control`
with a datagram and everything the main loop does with its events, so a
`PairingRequest` from a stored device is `ChallengeTrusted`, one without a proof
`IssuePairingCode`, one with a proof `ProofAccepted` or `ProofRefused`, and under
the development policy `AutoApprovePairing`. `AuthAccepted`, `AuthRefused`,
`KeyConfirmed`, `KeyConfirmFails`, `ReceiveInput`, `ReceivePing`, `ReceiveConfig` and
`Unapproved` are the other kinds. `poll_control` flushes before it receives and after it routes;
the flush before is a `PollIdle` step of its own, the flush after belongs to the
action. `PollIdle` is also every datagram that is dropped. `OperatorStep` holds
console commands and dialog answers. `Exit` is the `?` with which every error
of `poll_control` and of the main loop ends the process; `Restart` starts it
again with nothing but the store.

Clients are the environment: at any time any endpoint may send any packet built
from salts, challenges and offers already drawn, under no key or under the key of
its session. Loss, delay, duplication and reordering are therefore all included.

Cryptography is symbolic: a device is its key; a signature names the challenge
and the device; a session key is the pair (offer, client ephemeral); a sealed
datagram opens under the key that sealed it. What is left out: counters and the
replay window (`SecureDatagrams`), the admission limit per address
(`PendingAdmission`) and the input watermark (`InputPath`), each of which only
drops more packets (`PollIdle` and an empty `injected` stand for the drop), the order and caps of the queues (`Flush` sends any subset within
`OUTBOUND_FLUSH_BUDGET` and holds the rest, which includes every backpressure),
audio (queued and flushed as video is), and the permissions other than one kind.

`wire` and `injected` are output ports: what the step sent and injected. Nothing
reads them, so the runs leave them out of the fingerprint (`VIEW WithoutPorts`)
and state properties of them as action properties, which TLC evaluates on every
step it generates, also one that leads to a known state.

### Properties

- `TypeOK`: with the attempt counter in `0..AttemptLimit`.
- `OneTimeCode`, `ChallengesMatchCode`: a code and a salt let one request
  through; no pending challenge is for an earlier code. `sessions` checks the second;
  the first is checked in `reconnect` (section 4), where a code outlives its issue, two
  connections hold challenges for it and proofs for both arrive.
- `ApprovedWasVouched`: approved or secured sessions have shown a proof or a
  signature since they were created.
- `PendingCapped`: at most `MAX_PENDING_SESSIONS` pending sessions.
- `MediaSealed`: no video leaves in plaintext.
- `EncryptedInputOnly`: under `RequireApproval` no plaintext input is injected.
  The code does not test for it; it follows from two facts in other functions.
- `SecureKeyAdvances`: a secure session never falls back and never returns to an
  earlier key while the process lives.

Each is broken by a plausible slip in the code, kept in the module as a mutant
(`PROJECT.json` `mutants`).

### Runs

| Run | Instance | Shows |
|---|---|---|
| `sessions` | `RequireApproval`: 2 endpoints, 1 device, 1 pending slot, 3 codes, 2 salts, 1 challenge, 1 offer, time 0..1, approve, reject and restart | the session properties, and that no challenge outlives its code, while two endpoints race for codes and for the slot, with expiry, eviction and dialogs |
| `autoapprove` | `DevAutoApprove`: 2 offers, 2 codes, 1 salt, permission and forget commands | sealed video and advancing keys where approval comes first, and a key gives way to that of a second offer |
| `attempt_limit` | 1 endpoint, the limit of 5 | violated, see findings |
| `stale_permission` | 1 endpoint | violated |

Why the bounds suffice for the cases: two endpoints are a newcomer at the cap and the
session it evicts, or one that holds a challenge while the other's request rotates the code;
one pending slot makes every second request an eviction; two offers are a key and its
successor; three codes are a spent code, a current one and a rotation. The deadlines are 0,
so time 0 is at a deadline and time 1 past it, and every issue of a code rotates it:
these runs never have two proofs for one code, which is why `OneTimeCode` is not
among their properties. `MaxQueued` 1 still lets one packet of any
kind wait over any number of steps. Endpoints are symmetric. Deadlock is not checked
because an ended host and exhausted bounds stop on purpose. The runs check safety only,
so no fairness is assumed.

A second verified request of an endpoint opens no dialog, because the endpoint never
leaves `active_prompts`: the operator has to approve it from the console. The step is
modelled; no property asks for a prompt.

### Proofs

`HostSessionsProofs` proves, for all values of the constants that satisfy
`ConstantsAssumption` (whose bounds may be any numbers), every property above,
each as `Spec => ...`. All but `PendingCapped` follow from one invariant
`Ind`: `TypeOK`, `OneTimeCode` and

- `AllSound`: of each session, the offer pending is later than the key in use, an
  approved session without a key has an offer pending, what is approved, secured
  or verified is vouched, only decided sessions hold keys, and a challenge is
  for the displayed code and an unspent salt;
- `VideoForSecure`: queued video is for sessions that are secure;
- `SpentIsPast`: accepted codes and salts are earlier than the current ones.

None of the properties is inductive without these: `EncryptedInputOnly` needs the
pending offer of an approved session, `SecureKeyAdvances` that offers are later
than keys and that evicted sessions hold none, `MediaSealed` both that and
`VideoForSecure`, `OneTimeCode` that challenges are for unspent salts. The proof
has a lemma per action; a packet's handler is an instance of `Handling`: it
rewrites one session, queues no video and flushes, and `GoodHandler` shows once
that this preserves `Ind`, advances keys and keeps the ports safe.

`PendingIsCapped` has an invariant of its own, `Capped`: the pending sessions are
finitely many, also when there are endpoints without number, and at most
`MaxPending`. Only `Ensured` adds one, and `EnsuredCapped` shows that it has evicted
another first; every other step keeps the set or makes it smaller.

The theorem behind `SecureKeyAdvances` covers what `autoapprove` does not reach: evictions and
repeated offers under `RequireApproval`, for any number of endpoints.

## 4. AndroidClient and SessionSystem

### State and actions

`AndroidClient` is `SessionControlController` with its `ControlUdpClient`. Three
threads share it. The UI thread posts tasks: "Start session" posts three
(`TapConnect`, `PostRest`), each other button one (`TapRequest`, `TapSubmit`,
`TapApply`), and a button can be tapped only when its screen shows it
(`CanRequestCode`). The executor takes the tasks in order (`Execute`); `busy` says
how far it is with one. A task is split where another thread can see it half
done: `establishSecureSession` sends its confirmation (`ConfirmOffer`) before it
sets the codec (`InstallCodec`), and every task ends in `state = state.copy(...)`,
which reads the state (`Copying`) and writes it back (`FinishCopy`) with no lock
against the receiver thread. The receiver opens a datagram (`Receive`) and
handles it (`HandleChallenge`, `HandleResult`, `HandleOnExecutor`, `HandleOther`);
between the two, in `hand`, the executor may connect again. `HandleOnExecutor` posts
the answer to an offer or a challenge as a task, which runs on whatever client
object is current by then.

| Variable | Code |
|---|---|
| `conn`, `open`, `codec`, `seq` | the current `ControlUdpClient`: which one, `isOpen`, `secureCodec`, `nextTransportSequence` |
| `pinned` | the fingerprint in `TrustedHostIdentityStore` |
| `shown`, `refused` | `pairingChallenge` and `lastPairingAccepted == false` |
| `ui`, `tasks`, `busy`, `hand` | what the three threads have still to do |
| `drawn`, `taps`, `sent` | ephemeral keys drawn, taps so far, what the step sent |

Left out: key store failures, audio and the counters of the state; `disconnect()`,
which no screen calls; `seq` also counts tasks that send nothing, because it is
there only to tell datagrams apart. A special key sends two datagrams, modelled as
one. An offer or a challenge that expires on the client's clock is `SubmitExpired`,
or is as good as lost.

`SessionSystem` puts the client, the host and two sets of datagrams together. Every
step of the host is an action of `HostSessions`, reached from the datagram it
handles (`Routes`); every connection of the client is an endpoint of the host.
Delay, reordering and loss (a datagram that is never received) are in every run,
duplication up to `MaxCopies`, and only of plaintext: the replay window refuses the
second copy of a sealed datagram. The clock stands still (`MaxTime` 0), and errors of
the operating system and restarts are left to `HostSessions`.

### Properties, runs and bounds

- `SystemTypeOK`: all that the client acts on, and all that is on the wire, answers
  something the host has drawn.
- `OneTimeCode` (of the host): one proof for a code is ever accepted.
- `KeyAgreement`: two ends that hold keys hold the same, unless a confirmation is
  still on its way.
- `HostSurvives`: no datagram of the client ends the host.
  Like `KeyAgreement` it assumes `Once`: the user has submitted one code at most and
  asked for no other.
- `TrustedDeviceConnects`: a trusted device that connects once, to the host it has
  pinned, ends up with the key of the host.

| Run | Instance | Shows |
|---|---|---|
| `reconnect` | 2 connections, 2 submissions of a code, no request for another, 3 ephemeral keys and offers | one proof for two challenges of one code, and agreement and survival although tasks and datagrams of the first connection outlive it |
| `connects` | 1 connection, 1 tap of each other button | every datagram answers another, and liveness, in any order of arrival |
| `duplicated_offer` | 1 connection, 1 copy | violated, see findings |

Two connections are an old and a new one; two submissions are a proof for the challenge
of each, and three offers are more than two connections draw unless something is wrong.
`OneTimeCode` speaks of every state of `reconnect`, the other two of those with
one submission or none. The executor's order is what makes them pass: the mutant that lets
answers overtake the queue breaks `KeyAgreement`, and a second pairing request per
connection (`TapConnectInsists`) breaks `HostSurvives`.

`Once` (`taps.submit <= 1` and `taps.request = 0`) is in both because without it they
are false. A pairing request that reaches the host in plaintext after the approval replaces
the id of the session (`backend.rs:1001-1012`), and the confirmation of the pending offer
then ends the host; or the approved session is asked for a second signature and offered a second
key, and when the two offers arrive in the other order the ends hold different keys. Two
things send such a request:

- A second code: a double tap on "Verify code", an answer to a challenge left over from an
  earlier connection, or a first request that arrives last. TLC finds it with two
  submissions and two connections.
- "Request new code", which a refusal puts on the screen and which stays there, because
  `connect` does not clear `lastPairingAccepted` (`SessionControlController.kt:88`). The refusal
  may be the operator's, but it need not be: the challenge of the first connection,
  answered on the second, is refused as well. The third connection then shows the
  button while it is being authenticated, and a tap between its `AuthResponse` and
  "Accepted" is enough. With `taps.submit <= 1` alone in the place of `Once`, three connections,
  one request, no copies and no command of the operator, TLC finds `HostSurvives` violated
  after 50 steps, in 5.3 million states and eight minutes, which is more than one of
  the runs here takes.

A second approval at the console (`Commands = {"approve"}`) ends the host as well: the second
offer replaces the one that the client is confirming.
A second offer on a secure session is never taken up either: the client confirms in
plaintext, which a secure host drops. No document says what should happen in any of these, so
they are hazards in `PROJECT.json` and not findings.

Fairness (`FairSystemSpec`): the threads of the client run, the host polls, flushes
and receives, and what is sent arrives. All of it is weak: each of these steps stays
possible until it is taken. Datagrams are consumed one at a time by loops that
never block for ever (`poll_control` every 5 ms, `receiveTransportPacket` with a
time-out of 250 ms), and the links hold finitely many. That they arrive is an
assumption about the network, which UDP does not make true; the property says what
holds when it does. Nothing is asked of the user or the operator.

### Proofs

`SessionSystemProofs` proves `SystemSpec => Spec`: inside the system the host
refines `HostSessions`, for every bound on taps, connections, keys and copies that
`SystemAssumption` and `ClientAssumption` allow. So an arbitrary environment of
clients includes this client on this network, and the theorems of section 3 hold of
the host in the system (`SystemIsSafe`). The step that is not obvious is that a
datagram of the client names only salts, challenges, offers and codes the host has
drawn, as the environment of `HostSessions` must. That takes an invariant of the
whole system, `SystemInd`: `Ind`, `SystemTypeOK` (which says it of the client's
tasks, of what it shows, of its half-done task, of the datagram in hand and of both
links) and `QueueIssued` (of what the host has queued). Steps of the host only
let the counters grow (`Grows`) and send what they have drawn (`Honest`, a lemma per
handler); steps of the client leave the host alone and pass on what they were told
(`Keeps`, a lemma per group of tasks).

`HostAlwaysSurvives` and `KeysAlwaysAgree` state `HostSurvives` and `KeyAgreement`
for all other bounds and any number of connections, under `OneAtATime`. What they ask for:

| Hypothesis | Why |
|---|---|
| `Once` (in both properties) | a pairing request after the approval ends the host, as above |
| `MaxCopies = 0` | with a copy of an offer the ends disagree (`duplicated_offer`, see findings) |
| `"approve" \notin Commands` | so does a second approval at the console |
| `AttemptLimit > 1` | one refused code must not be the limit already; the code has 5 |
| `"forget" \notin Commands` | a limit of the proof, not known to be needed: `OneProof` tells a device that was in the store from the start from one that is stored once |

Loss, delay, reordering, dialogs answered, ignored or left open, rejections and permission
changes at the console, a wrong code, and everything an earlier connection leaves
behind are included. The invariant is `OrderInd`: `SystemInd` and, as long as no more
than one code is submitted and no other asked for, `Orderly`, whose parts are

- `SessionsHold`: an entry of the registry has at most one of a challenge, an offer and a
  key, and no two entries have the same offer;
- `OnePair`, `OneRequest`: each connection asks once, and while its request is still in
  the client or on the network the host has not answered it;
- `OneProof`: the code is a task or on its way, never both, and then no device was
  asked for a signature and no offer was made;
- `OneOffer`: an offer is in one place: queued, on its way down, in the receiver's hand,
  a task, or answered by a confirmation on its way up; while it is on its way down it is the one its
  session has pending;
- `StaleOffers`, `StaleConfirms`: an offer left over from an earlier connection, and the
  confirmation that the client sends for it over the present one, find the session
  of the present one with neither an offer nor a key, and with no signature on its way that
  could get it one, so that the confirmation is dropped and the client, which then has
  a codec, answers nothing more in plaintext;
- `SameKeys`: the client has the key that its session is secured with, or that of its
  confirmation of the pending offer, installed or about to be.

That a confirmation finds its offer needs `OneOffer`; that no other offer replaces it
meanwhile, `OnePair`, `OneRequest` and `OneProof`; that an old offer does no harm, the
order of the executor's tasks, which `StaleOffers` follows through the queue. The proof
has a lemma for each group of client steps and one for each handler of the host;
`Tame` and `Moves` stand for the steps that change nothing the parts depend on. The
keys turn out equal also while a confirmation is on its way: a session that
is secure is offered no other key.

Only model-checked: `TrustedDeviceConnects`, which is liveness.

## 5. MediaPath, OutboundQueues, FlushSchedule and SecureDatagrams

### State and actions

`MediaPath` follows what a host sends to one client over one secure session.

| Variable | Code |
|---|---|
| `pump`, `pumps`, `frames`, `override` | `video_pump` (0 is `None`), how many were created, `next_sequence - 1` of its encoder, whether `host_encoder_override` is set |
| `outbound` | `OutboundPacketQueues`: the four queues, `qos_cursor`, `dropped_packets_total` |
| `metrics` | `queued_outbound_packets`, `sent_outbound_packets`, and the replies queued, which names them |
| `sendCounter`, `wire` | `send_counter` of the host's `SecureDatagramCodec`, and the datagrams its socket has accepted |
| `highest`, `seen` | the client's `highestReceived` (0 is `null`) and `receivedCounters` |
| `attached`, `pending` | decoder and controller exist; the map of `VideoFragmentReassembler` |
| `opened`, `openings`, `received`, `completed` | history: datagrams opened and how often one was, fragments pushed since the last reset, access units put together |

`OutboundQueues` has no state of its own: its operators take the record `outbound`.
A flush is a choice of how many packets the socket accepts, and whether it then
turns one down (`Flushes`): that one has been popped and sealed, is put back in
front, and its counter is spent (`Seal` counts attempts). `poll_control` flushes
before it receives and, when it has handled the packet, once more (`FlushTwice`);
with nothing to receive, or a packet that it refuses, only once (`PollIdle`).
`VideoTick` is a frame captured, encoded, cut into fragments, queued and flushed;
`PumpFails` the error that drops the pump; `ConfigReceived` and `OverrideChanges` the
two ways to a new pump, whose encoder counts frames from 1. Only control and video
packets are queued, because the host binary queues no others.

`FlushSchedule` has the same queues by themselves, so that more packets can wait than
a flush sends: they are queued (`Enqueue`) and flushed (`FlushOutbound`) in any
order, and a packet is known by its channel alone. In `MediaPath` an unheld flush empties the
queues, and neither the schedule nor the cursor decides anything.

The network keeps every datagram, so it loses, delays, reorders and repeats them.
`ReceiveDatagram` opens one and handles it; one that is not `Fresh` is refused, which
changes nothing and is a stuttering step. The surface's callbacks run on another
thread than the receiver; they and `PushFragment` are one step each, because whatever
their interleaving a fragment ends up as if it had come before the reset or after it,
and one that lands in a detached controller is cleared when the next decoder attaches.

A frame is named by its pump and number; a fragment carries this name, which the code
does not see, its index and count, and `tail`, the length of the frame's last
fragment, on which the length check of `decodeAccessUnit` depends. The decoder
itself, audio, and other peers in the same queues are left out.

### Properties, runs and bounds

- `MediaTypeOK`: with the caps of the queues, each packet in the queue of its channel,
  and pending frames incomplete and filed under their number.
- `CountersUnique`: no counter is used for two datagrams.
- `WindowIsExact`: the pruned window decides as a memory of everything would.
- `AtMostOnce`: the transport implements `AtMostOnceChannel`.
- `MetricsAddUp`: what was queued was sent, dropped, or waits.
- `ChannelsAreFifo`: through overflow and put-back each channel keeps its order, and
  nothing is sent twice.
- `NoChannelStarves` (of `FlushSchedule`): eight slots and a budget of eight serve each waiting
  channel in every flush that is not held up, wherever the last one has left the cursor.
- `FramesAreRebuilt`: a frame whose fragments have all arrived is put together exactly
  once, unless its number was used by another pump.
- `UnitsAreFramesOfOnePump`, `UnitsAreFrames`: an access unit is one frame, as long as
  the pump is the first; or always, which is false.

| Run | Instance | Shows |
|---|---|---|
| `media` | 2 pumps, 2 frames each of 1 or 2 fragments, 1 reply, 6 counters, queues of 2, a window of 2 | all of the above but `NoChannelStarves` and `UnitsAreFrames` |
| `media_restart` | the same, with two lengths of the last fragment | `UnitsAreFrames` violated, see findings |
| `devices`, part `queues` | queues of 9, packets of `Control` and `Video`, 1 packet dropped | `NoChannelStarves` |

Queues of two overflow with a frame of two fragments and one more; a window of two has
datagrams inside, at the edge and behind with three counters; two frames of two
fragments interleave in all orders; a second pump is what it takes to use a
number again. `MaxCounter` bounds the attempts to send and with them everything else.
Budget and schedule are those of the code; the queues of 9 in `devices` hold more than the
budget of 8, so a channel is left out unless the schedule comes to its slot: the mutant
`RestInPlace`, where a pop does not move the cursor, starves one. Deadlock is not checked because the
bounds stop the host. Only safety is checked: a flush is held up as often as the
network likes, and under this nothing must eventually be sent.

### Proofs

`MediaPathProofs` proves every property of `MediaPath` but `UnitsAreFrames`, which is false,
for every window, capacity and bound, and that its flushes serve every waiter
(`WaitersAreServed`). `MediaInd` is the conjunction of three invariants,
of the transport, the host and the client:

- `TransportInd` makes `CountersUnique`, `WindowIsExact` and `AtMostOnce`, a
  refinement, inductive: `WindowHolds` says that `seen` is exactly the counters of
  `opened` that are not behind the window, and that none is above `highest`. Nothing
  about the queues is needed: `StepIsTransport` shows that every step seals packets under
  the next counters, opens one datagram, or leaves the transport alone.
- `HostInd` says that all packets on the wire and in the queues belong to one set of
  packets made by the host, whose fragments agree on their frame (`Made`), and that they stand
  in line (`Line`): on each channel the wire is in the order in which the packets were queued, and
  what was sent was queued before what waits. `MetricsAddUp` and `ChannelsAreFifo` follow.
- `ClientInd` says of the reassembler that a pending frame holds fragments received under
  its number, too few to be complete (`BegunHolds`), that the pieces of a unit were received and
  have one number (`UnitsHold`), and, while one pump alone has used a number, that a frame is
  pending with all that has arrived of it, or was put together once (`RebuiltHolds`).

`QueueProofs` has the lemmas about the operators of `OutboundQueues`. The pushes of a
frame and the pops of a flush are recursive functions, whose induction over the numbers
is carried by sets: the set of the numbers of pops for which the claim holds contains 0
and with each number its successor (`SetInduction`). So it is proved for any flush that
the packets taken are the fronts of the queues in order, that a put-back restores its
queue, that each overflow is counted, and that eight pops from the present cursor serve
every channel that waits. From the last, `NoChannelEverStarves` is `NoChannelStarves` for every
capacity and any channels that packets are queued on.

`MediaAssumption` asks for at least one pump (`MaxPumps # 0`), the one that runs when the
model begins.

## 6. HostSettings, HostStore and DurableSettings

### State and actions

`HostSettings` is what the settings file holds and what each edit makes of it
(`Edited`), as operators; `HostStore` what happens to the two files. An operation on a
file is a `job` that is taken in the steps of `atomic_write` and `quarantine_file`:

| Step | Code |
|---|---|
| `WriteTemp` | `create_new`, write and sync of the temporary file; a name that is taken, or an error, leads to its removal |
| `ReplaceFile`, `ReplaceFails` | the rename over the old file, and what follows in memory (`Succeeds`) |
| `RemoveTemp` | removal after an error, whose own error is ignored; then the command is refused, or the start ends (`Fails`) |
| `Quarantine` | an unreadable file is renamed, and a new one written (`Recovery`) |

`StartProcess`, `ReadIdentity`, `RecoverIdentity`, `ReadHostSettings`, `RecoverSettings`
and `SettingsUnreadable` are the start; `Update`, `UpdateUnreadable`, `SetOverride` and
`ApplyPreset` the commands and approvals of a running host. `Crash` may fall between any
two of these steps, each call of the system may fail, and `DamageFile` makes a file
unreadable from outside. Temporary files are known by their names, which are
made of a process id and a counter that starts again with the process: a later
process with the same id meets the leftovers of an earlier one.

Names of presets keep their letter case (`Spellings`); of a configuration the one number
that is clamped when it is read; of a device its presence and one permission. `told`,
`announced`, `destroyed`, `unsaved` and `damages` are history: what the operator and the
clients know.

### Properties, run and bounds

- `StoreTypeOK`: with at most one preset of a name, whatever its letter case.
- `ToldIsStored`: what the operator was told is saved is what a reading finds.
- `OverrideIsStored`: the override in memory is the one the next start loads, unless
  the operator was told otherwise.
- `IdentityIsStored`: a running host shows the key that is on disk.
- `IdentityNeverDestroyed`: no key that clients have seen is removed by the host.
- `SettingsAreDurable`: `HostStore` implements `DurableSettings`, where a value changes
  by whole edits, and is lost only by damage from outside.
- `HostComesBack`: once failures stop, the host runs for good.

`store` checks all of them with one device, one preset name in two spellings, one
configuration that is clamped when read, two process ids, two commands, and three
faults. Two process ids are one that is new and one that was used before. Three
faults are a crash that leaves a temporary file, one that leaves a file
set aside, and damage; `MaxKeys` is more than three recoveries can use. Deadlock is not
checked because nothing is left to do once commands and faults are spent.

Fairness (`FairStoreSpec`) is weak: the thread goes on with an operation it has begun
(`FileStep`), and someone starts the host again and lets it start (`StartStep`). A crash
or a failing call is not fair, and the bound on them is what "once failures stop" means:
without a bound a disk that is always full would keep the host down.

### Proofs

`HostStoreProofs` proves all but `HostComesBack` for every set of names, devices,
configurations and process ids and all bounds. What a replacement makes of a file
was decided when the operation began, so the invariant `Inv` says of each operation under
way what it will leave: `JobOnIdentity` (an identity is written only during a start, after
the old file was moved away), `JobOnSettings` (what is to be written is the edit of what
the operator was told), `KeyHolds`, `ToldHolds` and `OverrideHolds` (the properties, also
while an operation is under way). Of the refinement, `StepRefines` shows that only
`ReplaceFile`, `Quarantine` and `DamageFile` change what a reader finds.

After a crash between the quarantine of an identity and its replacement the next start
finds none and makes a new one without a warning: no property is broken, since the old
key is kept, but clients that pinned it refuse the host until the file is put back.

## 7. VideoPipeline, VideoNumbers and AccessUnits

### State and actions

| Variable | Code |
|---|---|
| `outputs` | the attached outputs in the order of `enumerate_outputs`, with their size |
| `clients`, `override` | `encoder_config` of the approved sessions; `host_encoder_override` |
| `pump` | `video_pump`: its configuration and display, the `DuplicationSession`, the transform (`driver`, what it holds, the inputs it has asked for), `pending_frames` (`pending`), `force_keyframe` (`force`), `next_sequence` |
| `unit` | output port: the access unit of the step |

`VideoTick` is `capture_encode_packetize`: capture, encode, hand on; any error ends the pump, and
nothing makes a new one before the next configuration or override.
Capture (`CaptureOutcomes`) opens a session when there is none, takes a new image or,
after a time-out, the last one again, and replaces a session that has lost access, once.
Access is lost for good when the monitor or its mode is another, and may be lost at any call
without a trace in the model, as when Windows shows another desktop.
Encoding (`EncodeOutcomes`) can fail before the transform has the frame, while the host
waits for its output, or when the output is taken; in Auto mode a hardware encoder that
fails gives way to the software encoder, which tries the same frame once (`Encoded`).
`ClientConfigures`, `ClientLeaves`, `OperatorOverrides` and `OperatorClears` decide which
pump there is; `PlugIn`, `Unplug` and `ChangeMode` happen between any two steps.
Direct3D and Media Foundation are external: a call is a set of outcomes. An
asynchronous encoder asks for up to `Slots` inputs ahead; one event may be
thrown away while the host waits for another (`Waited`).

`VideoNumbers` has the arithmetic of the settings and of the conversion to NV12;
`AccessUnits` the rewriting of units with lengths to units with start codes.

### Properties

- `VideoTypeOK`: between two steps the transform holds no frame and no label is left.
- `LabelsMatch`: a unit carries the capture time of the frame it shows.
- `StartsWithKeyframe`: the first unit of a transform is a key frame.
- `SequencesIncrease`: the numbers of a pump rise, also when the encoder changes.
- `OverrideRules`: while there is an override a running pump is the one made for it. It
  says nothing of a pump that could not be made: the host then streams nothing until the
  next command, since configurations of clients are ignored.
- `ImageIsCurrent`: no image of before access was lost is streamed after it.

## 8. InputPath, PendingAdmission and DisplayGeometry

`InputPath` follows events of a client's two executors (`SendTask` numbers them under the
client's lock) through a network that loses and reorders to the permissions
(`Deny`), the watermark (`DropLate`) and the injectors (`Accept`): smoothing of the
pressure, edges of the buttons, and an error of the system, of which a mouse
event may have taken a part (`Refuse`), and which ends the host. Events carry the
uptime; touches, special keys and gamepads the time since boot, which includes sleep
(`Slept`). Coordinates, tilt, touch contacts and the wheel are left out.

- `InputTypeOK`, the type invariant, is part of the proved invariant.
- `NothingGoesBack`: a watermark moves only with an input that is taken, and forward
  in both orders.
- `ButtonsMirror`: the buttons held down are those of the last mouse input injected,
  of whichever client.
- `PressureInRange`: a smoothed pressure lies between those reported since the pen was
  lifted, though all clients share one state.

One input of the clock that runs ahead makes all later ones of the other late: after a
special key of a device that has slept, its mouse is dropped. The model does this
(`Stamp`, `Late`); no document says what should happen.

`PendingAdmission` is `allow_new_pending_peer`; `AdmissionIsExact` compares the window it
keeps with the log of all attempts.

`DisplayGeometry` follows a point from the panel to the pen. A panel is turned by an angle
(`OnPanel` is what Windows does with it); the image is turned back (`Rotated`); the client shows
it stretched over a view that has a size of its own (`Under`, `Seen`: the decoder and its
surface, external) and sends the pixel of the view that was touched, not scaled (`PointAt`); and
the mapper, made once for the default display and from a rectangle of its size, says where
that `Lands`.

- `PictureIsUpright`: at each pixel of the view the points of the display at that place are
  seen, for all angles and sizes.
- `InkLandsWherePointed`: the pen lands on one of the points seen under it; violated, see
  findings.

The second is about the display the mapper was made for (`MapperFits`); a display that
turns later, or another one that is shown, is reachable and has no such promise.

### The runs `devices` and `ink_position`

`VideoPipeline`, `InputPath`, `PendingAdmission`, `DisplayGeometry` and `FlushSchedule` share
no variable, so that every behaviour of the host interleaves behaviours of each without changing any of
them. `MC_HostDevices` explores them side by side, not as a product: a state says which
`part` moves, and the others stand still in one state.

| Part | Instance | Why it is enough |
|---|---|---|
| video | 2 monitors, 2 sizes that can be encoded and one odd, 2 clients, 2 displays asked for, a synchronous and an asynchronous driver, 2 changes of monitors, 2 captures, 2 pumps | a lost session needs a frame before and after one change; numbers of displays shift with the second monitor; the second frame is the one that meets what the first left behind |
| input | 2 clients, a stylus pointer, one mouse button, special keys, pressures in and above the range, 3 events, 1 unit of sleep, 1 of time or 1 change of permissions (`OneChange`) | a press, a release and an event of the other client or executor, in all orders and with all losses; with all bridges or none |
| admission | 2 addresses, 2 attempts in 2 units of time, instants 0..4, 5 tries | attempts inside, at the edge and past the window, after refusals |
| geometry | a panel of 4 by 2, views of its size, larger and smaller, all angles, 1 change | every point of every picture, stretched and shrunk |
| queues | queues of 9, `Control` and `Video`, 1 packet dropped | more packets than the budget of 8, with the cursor at every slot |

In `devices` the pure functions are tried as assumptions: `AccessUnitsAreNormalized` on
all pairs of short units and at the lengths that read as start codes, `FormatsAreRead` and
`HandshakesAreRead` on good and bad messages, cut short, longer by a byte, or with a byte
changed, `SettingsFit` on requests at and beyond the limits, and `ImagesFillTheBuffer`
on small images. A first unit of 256 to 511 bytes reads as a start code and is passed on
with its lengths: `NormalizesUnits` says exactly when.

All of this is safety; the parts stop at their bounds, so deadlock is not checked. No
progress is promised by this code: every tick may fail.

### Proofs

`ScreenProofs` proves the six properties of the pump for all monitors, sizes, drivers,
configurations and bounds. They are about single steps; the invariant `PipelineInd`
is what the pump holds between two: `Fit` says that transform and labels
are empty, that a key frame is asked for until a transform has given one,
that the pixels of the capture session are its own, and that what was sent is
below the next number; `UnitFit` says of the last unit what the properties say. The
lemmas `CaptureCurrent`, `AttemptSound` and `EncodedSound` follow one frame through all
its outcomes. `PictureAlwaysUpright` is `PictureIsUpright` for panels and views of all
sizes: it rests on `RotationIsUndone`, that turning the image undoes turning the panel.

`InputPathProofs` proves `ButtonsMirror`, `PressureInRange` and `NothingGoesBack` for all
clients, pointers, pressures and clocks. The invariant `InputInd` adds to the types that
the injector remembers what the system holds (`ButtonsKept`), and that a kept pressure
lies within the range of its pointer (`PressureKept`); `SmoothedBetween` shows that a step
of 0.45, rounded either way, does not leave the range.

`ScreenProofs` also proves that settings keep their bounds for all displays and requests,
and that the integer color conversion stays in the range of its format before it is
clamped for every pixel (`VideoNumbers`).

`InputPathProofs` also proves `AdmissionIsExact`, for all addresses, limits and windows.
The window forgets what has expired, and the log remembers everything, so the invariant
`AdmissionInd` relates the two: `Remembers` gives for each instant kept the attempt
of the log that left it, one to one, and says that an admitted attempt without one has
expired. Then there are as many unexpired instants as attempts admitted within the window,
and their number is what decides; `ExactFor` is the property for one log.

`WireFormatsProofs` proves that every decoder returns what was encoded, for all six
framed formats and both handshake messages, all bodies, and all functions in the place of
the checksum, of bincode and of the text encoding (`FramesRoundTrip`, `HandshakesRoundTrip`),
and that a packet of the largest size still fits into a sealed datagram
(`EveryPacketCanBeSealed`). The formats are rows of one table, so that one
argument serves them all: a frame is cut at the lengths of its parts (`PartsOfAFrame`),
and a number is read back from two or four bytes (`TwoBytes`, `FourBytes`).

Only model-checked: `AccessUnits`, whose loops are recursive operators; what is refused by
a decoder is tried on the instances of `FormatsAreRead`.

## 9. Findings

`LimitOnlyBlocks` and `PersistedPermissionHolds` state
what `docs/PROTOCOL.md` and `docs/SECURITY.md` say; the code
does otherwise, and each run ends in a short counterexample: the attempt limit
ends the process, and a live session keeps permissions the store has taken back.

`KeyAgreement` states what `docs/PROTOCOL.md` says of the handshake. The run
`duplicated_offer` shows it fail when the network delivers one key offer twice and the
client reads both copies before it has answered the first: it confirms both, each
under a fresh ephemeral key, and keeps the last, while the host took the first and
drops the second, which is plaintext. Neither end can read the other from then on,
and neither retries.

`UnitsAreFrames` states what `docs/PROTOCOL.md` says of reassembly. The run
`media_restart` shows it fail when the pump restarts while a frame is incomplete: the new
encoder numbers its frames from 1, and the reassembler takes their fragments for the
missing ones.

`InkLandsWherePointed` states what `docs/INITIAL_PROMPT.md` asks of coordinates and
rotation. The run `ink_position` shows it fail, for two causes that are independent of each
other. The client sends the pixels of its view as they are, and the host takes them for pixels of
the display, so the pen misses on every view of another size than the display: the run
fails with `Rotations = {0}` alone. And on a display whose panel is turned the descriptor's size
is that on the desktop, rotated already, and the mapper turns the point once more: the run
fails for each of the three angles with a view as large as the panel. With
neither, an angle of 0 and a view of the panel's size, it passes.

## 10. Not modelled

- The reconnect, bitrate and relay policies of the transport crate, the other modes of
  the coordinate mapper, calibration and the pressure curve: no program of the repository
  calls them, so there is no state they act on.
- The gamepad driver, which this build cannot open; tilt, touch contacts and the wheel,
  which keep no state that one of the properties tells apart.
- The macOS host: the same protocol on another code base, with the Windows host as its
  reference. It is the last step of the plan.
- Audio, which the Windows host describes and does not send; telemetry, user interfaces
  and printing; the Kotlin codecs, whose formats are those of `WireFormats`.
- Cryptography, Direct3D, Media Foundation, the file system and the network are external.

Of `PROJECT.json` `components` each entry says what is modelled of it, and `hazards` has
with each hazard the properties that would notice it, or why none does.
