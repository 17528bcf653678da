----------------------------- MODULE InputPath -----------------------------
(***************************************************************************)
(* Input from Android clients to the operating system of the Windows host: *)
(* the two executors of a client that send it, the network, the            *)
(* permissions and the watermark of the session (backend.rs), and the      *)
(* bridges and injectors (input/).                                         *)
(*                                                                         *)
(* The sessions are approved and secure, and a sealed datagram is taken at *)
(* most once (SecureDatagrams): the network loses and reorders.  What an   *)
(* input says is reduced to the buttons of a mouse and, for a stylus, to   *)
(* one sample; coordinates are left out.                                   *)
(***************************************************************************)
EXTENDS Integers, Sequences, FiniteSets

CONSTANTS
  Peers,       \* endpoints with a session
  Kinds,       \* kinds of input in use, a subset of AllKinds
  Buttons,     \* of a mouse
  Pointers,    \* ids of stylus pointers, chosen by each client for itself
  Raw,         \* pressures a client may report
  Full,        \* the full pressure; smoothed ones are rounded to 0..Full
  Disabled,    \* GLYPHRAY_DISABLE_*_INJECTION: groups without a bridge
  Slept,       \* time a client's device has spent asleep since it was started
  MaxInputs, MaxTime, MaxToggles  \* bounds: events, the clock, commands

AllKinds == {"stylus", "touch", "mouse", "key", "special", "gamepad"}
Groups == {"pen", "touch", "keyboard", "mouse", "gamepad"}

ASSUME InputAssumption ==
  /\ Kinds \subseteq AllKinds
  /\ Raw \subseteq Int /\ Full \in Nat
  /\ Disabled \subseteq Groups
  /\ {Slept, MaxInputs, MaxTime, MaxToggles} \subseteq Nat

VARIABLES
  clock,     \* the client's uptime
  tasks,     \* per client and executor: inputs waiting to be sent
  sequence,  \* per client: next_transport_sequence
  events,    \* events captured so far
  flight,    \* datagrams sent and not received; one may never be, and is lost
  permits,   \* per session: input_permissions
  mark,      \* per session: last_input_sequence and last_input_timestamp_us
  bridges,   \* the bridges that exist
  lastButtons, \* of the mouse injector
  state,     \* pressure_state of the stylus bridge, by pointer
  os,        \* the operating system: buttons and keys held down, pen pressure
  toggles,
  running,   \* FALSE once an injection error has ended the host
  admitted,  \* history: per session, the last input that was not refused
  mouse,     \* history: the buttons of the last mouse input injected
  range      \* history: per pointer, pressures reported since it was lifted

clientVars == <<clock, tasks, sequence, events>>
inputVars == <<clientVars, flight, permits, mark, bridges, lastButtons, state, os,
               toggles, running, admitted, mouse, range>>

NoMark == [sequence |-> 0, time |-> 0]

-----------------------------------------------------------------------------
(* The client *)

Group(kind) ==
  CASE kind = "stylus" -> "pen"
    [] kind \in {"key", "special"} -> "keyboard"
    [] OTHER -> kind

\* The session controller sends keys and gamepads, the stylus bridge the rest.
Executor(kind) == IF kind \in {"key", "special", "gamepad"} THEN "session" ELSE "bridge"

Inputs ==
  [kind : {"mouse"} \cap Kinds, buttons : SUBSET Buttons]
    \cup [kind : {"stylus"} \cap Kinds, pointer : Pointers, contact : BOOLEAN, pressure : Raw]
    \cup [kind : {"key"} \cap Kinds, pressed : BOOLEAN]
    \cup [kind : {"touch", "special", "gamepad"} \cap Kinds]

\* Events of the system carry their uptime; a touch is stamped when it is
\* encoded, a special key and a gamepad when they are sent, with the time
\* since the device was started.
Stamp(input) == IF input.kind \in {"stylus", "mouse", "key"} THEN clock ELSE clock + Slept
AtSending(input) == input.kind \in {"special", "gamepad"}

Capture(c, input) ==
  /\ events < MaxInputs
  /\ events' = events + 1
  /\ tasks' = [tasks EXCEPT ![c][Executor(input.kind)] =
                 Append(@, [input |-> input, time |-> Stamp(input)])]
  /\ UNCHANGED <<clock, sequence, flight, permits, mark, bridges, lastButtons, state, os,
                 toggles, running, admitted, mouse, range>>

\* A special key is pressed and released by one task.
Packets(input) ==
  IF input.kind = "special"
  THEN <<[kind |-> "key", pressed |-> TRUE], [kind |-> "key", pressed |-> FALSE]>>
  ELSE <<input>>

SentAt(task) == IF AtSending(task.input) THEN clock + Slept ELSE task.time
Sent(c, task) ==
  {[peer |-> c, sequence |-> sequence[c] + i - 1, time |-> SentAt(task),
    input |-> Packets(task.input)[i]] : i \in DOMAIN Packets(task.input)}

\* A task: the packets get their numbers under the client's lock.
SendTask(c, e) ==
  /\ tasks[c][e] # <<>>
  /\ LET task == Head(tasks[c][e])
     IN /\ flight' = flight \cup Sent(c, task)
        /\ sequence' = [sequence EXCEPT ![c] = @ + Len(Packets(task.input))]
  /\ tasks' = [tasks EXCEPT ![c][e] = Tail(@)]
  /\ UNCHANGED <<clock, events, permits, mark, bridges, lastButtons, state, os,
                 toggles, running, admitted, mouse, range>>

TimePasses ==
  /\ clock < MaxTime
  /\ clock' = clock + 1
  /\ UNCHANGED <<tasks, sequence, events, flight, permits, mark, bridges, lastButtons, state,
                 os, toggles, running, admitted, mouse, range>>

-----------------------------------------------------------------------------
(* The injectors *)

\* Mutant: the first sample of a contact starts from no pressure.
PreviousOfNone(p, raw) == IF p \in DOMAIN state THEN state[p] ELSE 0
Previous(p, raw) == IF p \in DOMAIN state THEN state[p] ELSE raw

Clamped(pressure) == IF pressure < 0 THEN 0 ELSE IF pressure > Full THEN Full ELSE pressure

\* A step of 0.45 of the way towards the new pressure, rounded either way.
Smoothed(previous, raw) ==
  LET exact == 20 * previous + 9 * (raw - previous)
  IN {exact \div 20, (exact + 19) \div 20}

Without(f, p) == [q \in DOMAIN f \ {p} |-> f[q]]
With(f, p, value) == [q \in DOMAIN f \cup {p} |-> IF q = p THEN value ELSE f[q]]

\* The range of what was reported since the pen was last out of contact.
Widened(p, raw) ==
  With(range, p, IF p \notin DOMAIN range THEN [low |-> raw, high |-> raw]
                 ELSE [low |-> IF raw < range[p].low THEN raw ELSE range[p].low,
                       high |-> IF raw > range[p].high THEN raw ELSE range[p].high])

\* StylusInputBridge: the pressure of a pointer in contact is smoothed, any
\* other sample forgets it.  The bridge has one state for all sessions.
InjectPen(s) ==
  LET raw == Clamped(s.pressure) IN
  /\ IF s.contact
     THEN /\ \E smoothed \in Smoothed(Previous(s.pointer, raw), raw) :
               /\ state' = With(state, s.pointer, smoothed)
               /\ os' = [os EXCEPT !.pressure = smoothed, !.pointer = {s.pointer}]
          /\ range' = Widened(s.pointer, raw)
     ELSE /\ state' = Without(state, s.pointer)
          /\ os' = [os EXCEPT !.pressure = raw, !.pointer = {}]
          /\ range' = Without(range, s.pointer)
  /\ UNCHANGED <<lastButtons, mouse>>

\* PlatformMouseInjector: one event for each button that has changed.
\* Mutant: the buttons are not remembered.
Forgotten(flags) == lastButtons
Remembered(flags) == flags

Changed(flags) == (lastButtons \ flags) \cup (flags \ lastButtons)
Toggled(changed, flags) == (os.buttons \ (changed \ flags)) \cup (changed \cap flags)

InjectMouse(flags) ==
  /\ os' = [os EXCEPT !.buttons = Toggled(Changed(flags), flags)]
  /\ lastButtons' = Remembered(flags)
  /\ mouse' = flags
  /\ UNCHANGED <<state, range>>

InjectKey(pressed) ==
  /\ os' = [os EXCEPT !.key = pressed]
  /\ UNCHANGED <<lastButtons, mouse, state, range>>

Inject(input) ==
  CASE input.kind = "stylus" -> InjectPen(input)
    [] input.kind = "mouse" -> InjectMouse(input.buttons)
    [] input.kind = "key" -> InjectKey(input.pressed)
    [] OTHER -> UNCHANGED <<lastButtons, mouse, state, os, range>>

\* The system refuses; of a mouse input it may have taken some events.  The
\* host ends with the error, and what the injectors remember with it.
Refuse(input) ==
  /\ IF input.kind = "mouse"
     THEN \E sent \in SUBSET Changed(input.buttons) :
            os' = [os EXCEPT !.buttons = Toggled(sent, input.buttons)]
     ELSE UNCHANGED os
  /\ UNCHANGED <<lastButtons, mouse, state, range>>

-----------------------------------------------------------------------------
(* The host *)

\* accept_input_watermark.
\* Mutant: the stamps are not compared.
LateByNumber(m, packet) == packet.sequence <= m.sequence
Late(m, packet) == packet.sequence <= m.sequence \/ packet.time < m.time

Allowed(c, packet) == Group(packet.input.kind) \in permits[c]

Receive(packet) ==
  /\ running
  /\ packet \in flight
  /\ flight' = flight \ {packet}
  /\ UNCHANGED <<clientVars, permits, bridges, toggles>>

\* denied by trusted-device permissions
Deny(c, packet) ==
  /\ Receive(packet) /\ packet.peer = c
  /\ ~Allowed(c, packet)
  /\ UNCHANGED <<mark, lastButtons, state, os, running, admitted, mouse, range>>

DropLate(c, packet) ==
  /\ Receive(packet) /\ packet.peer = c
  /\ Allowed(c, packet) /\ Late(mark[c], packet)
  /\ UNCHANGED <<mark, lastButtons, state, os, running, admitted, mouse, range>>

\* The input is accepted: without a bridge it is only decoded, and an error of
\* the system goes up through poll_control and ends the host.
Accept(c, packet) ==
  /\ Receive(packet) /\ packet.peer = c
  /\ Allowed(c, packet) /\ ~Late(mark[c], packet)
  /\ LET at == [sequence |-> packet.sequence, time |-> packet.time]
     IN mark' = [mark EXCEPT ![c] = at] /\ admitted' = [admitted EXCEPT ![c] = at]
  /\ IF Group(packet.input.kind) \notin bridges
     THEN UNCHANGED <<lastButtons, state, os, running, mouse, range>>
     ELSE \/ /\ Inject(packet.input)
             /\ UNCHANGED running
          \/ /\ Refuse(packet.input)
             /\ running' = FALSE

\* `trust permission`, and a new approval, which allows everything.  The
\* watermark stays.
SetPermissions(c, allowed) ==
  /\ running /\ toggles < MaxToggles
  /\ toggles' = IF allowed = permits[c] THEN toggles ELSE toggles + 1
  /\ permits' = [permits EXCEPT ![c] = allowed]
  /\ UNCHANGED <<clientVars, flight, mark, bridges, lastButtons, state, os, running, admitted,
                 mouse, range>>

Permit(c, group) == SetPermissions(c, permits[c] \cup {group})
Forbid(c, group) == SetPermissions(c, permits[c] \ {group})
ApproveAgain(c) == SetPermissions(c, Groups)

-----------------------------------------------------------------------------
\* A bridge exists if its injector could be opened, which depends on the
\* system; that of a gamepad never can, for want of a driver's bindings.
CanOpen == Groups \ {"gamepad"}
RuntimeBridges == SUBSET (CanOpen \ Disabled)

InputInit ==
  /\ clock = 0 /\ events = 0 /\ toggles = 0 /\ running = TRUE
  /\ tasks = [c \in Peers |-> [e \in {"session", "bridge"} |-> <<>>]]
  /\ sequence = [c \in Peers |-> 1]
  /\ flight = {}
  /\ permits = [c \in Peers |-> Groups]
  /\ mark = [c \in Peers |-> NoMark] /\ admitted = mark
  /\ bridges \in RuntimeBridges
  /\ lastButtons = {} /\ mouse = {}
  /\ state = [p \in {} |-> 0] /\ range = [p \in {} |-> [low |-> 0, high |-> 0]]
  /\ os = [buttons |-> {}, key |-> FALSE, pressure |-> 0, pointer |-> {}]

ClientStep ==
  \/ \E c \in Peers, input \in Inputs : Capture(c, input)
  \/ \E c \in Peers, e \in {"session", "bridge"} : SendTask(c, e)
  \/ TimePasses
HostInputStep ==
  \E c \in Peers :
    \/ \E packet \in flight : Deny(c, packet) \/ DropLate(c, packet) \/ Accept(c, packet)
    \/ ApproveAgain(c)
    \/ \E group \in {Group(k) : k \in Kinds} : Permit(c, group) \/ Forbid(c, group)

InputNext == ClientStep \/ HostInputStep
InputSpec == InputInit /\ [][InputNext]_inputVars

-----------------------------------------------------------------------------
(* Properties *)

PacketInputs == Inputs \cup [kind : {"key"}, pressed : BOOLEAN]
Packet == [peer : Peers, sequence : Nat \ {0}, time : Nat, input : PacketInputs]

\* The types; a pointer is in contact exactly while its pressure is kept.
InputTypeOK ==
  /\ clock \in 0..MaxTime /\ events \in 0..MaxInputs /\ toggles \in 0..MaxToggles
  /\ tasks \in [Peers -> [{"session", "bridge"} -> Seq([input : Inputs, time : Nat])]]
  /\ sequence \in [Peers -> Nat \ {0}]
  /\ flight \subseteq Packet /\ \A packet \in flight : packet.sequence < sequence[packet.peer]
  /\ permits \in [Peers -> SUBSET Groups]
  /\ mark \in [Peers -> [sequence : Nat, time : Nat]]
  /\ \A c \in Peers : mark[c].sequence < sequence[c]
  /\ bridges \subseteq Groups /\ lastButtons \subseteq Buttons
  /\ state \in [DOMAIN state -> 0..Full] /\ DOMAIN state \subseteq Pointers
  /\ os \in [buttons : SUBSET Buttons, key : BOOLEAN, pressure : 0..Full,
             pointer : SUBSET DOMAIN state]
  /\ running \in BOOLEAN

\* The watermark of a session moves only with an input that is taken, and only
\* forward, in the order of sending and in that of the stamps: through
\* reordering, losses and new approvals no late packet moves the pen back, and
\* an input the operator has denied cannot make one of another kind late.
NothingGoesBack ==
  [][\A c \in Peers : mark'[c] # mark[c] =>
       /\ admitted'[c] = mark'[c] /\ admitted'[c] # admitted[c]
       /\ mark'[c].sequence > mark[c].sequence
       /\ mark'[c].time >= mark[c].time]_inputVars

\* The buttons the system holds down are those of the last mouse input that
\* was injected, of whichever client: a lost press or release is made good by
\* the next packet, and no edge is sent twice.
ButtonsMirror == running => os.buttons = mouse

\* A smoothed pressure lies between the pressures the pen has reported since
\* it was last lifted, whatever was lost in between.
PressureInRange ==
  \A p \in os.pointer : os.pressure \in range[p].low..range[p].high
=============================================================================
