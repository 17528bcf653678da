--------------------------- MODULE InputPathProofs ---------------------------
(***************************************************************************)
(* The safety of InputPath for all clients, pointers, pressures, clocks    *)
(* and bounds, and of PendingAdmission for all addresses, limits and       *)
(* windows.                                                                *)
(*                                                                         *)
(* ButtonsMirror is made inductive by what the injector remembers: it is   *)
(* what the system holds down.  PressureInRange needs that a pressure is   *)
(* kept for exactly the pointers in contact, and that it lies in their     *)
(* range (PressureKept).  AdmissionIsExact is made inductive by naming,    *)
(* for every instant an address still has, the attempt it came from        *)
(* (Remembers).                                                            *)
(***************************************************************************)
EXTENDS InputPath, PendingAdmission, SequenceTheorems, FiniteSetTheorems, TLAPS

(***************************************************************************)
(* The pressure.                                                           *)
(***************************************************************************)
LEMMA ClampedType ==
  ASSUME NEW pressure \in Int
  PROVE  Clamped(pressure) \in 0..Full
BY InputAssumption DEF Clamped

\* A step of 0.45 stays between where it starts and what it is drawn to.
LEMMA SmoothedBetween ==
  ASSUME NEW previous \in Int, NEW raw \in Int, NEW low \in Int, NEW high \in Int,
         previous \in low..high, raw \in low..high, NEW s \in Smoothed(previous, raw)
  PROVE  s \in low..high
<1> DEFINE exact == 20 * previous + 9 * (raw - previous)
<1>1. exact \in Int /\ 20 * low <= exact /\ exact <= 20 * high
  OBVIOUS
<1>2. s = exact \div 20 \/ s = (exact + 19) \div 20
  BY DEF Smoothed
<1> HIDE DEF exact
<1>3. /\ exact \div 20 \in Int /\ (exact + 19) \div 20 \in Int
      /\ 20 * (exact \div 20) <= exact /\ exact <= 20 * (exact \div 20) + 19
      /\ 20 * ((exact + 19) \div 20) <= exact + 19 /\ exact <= 20 * ((exact + 19) \div 20)
  BY <1>1
<1> QED BY <1>1, <1>2, <1>3

(***************************************************************************)
(* The invariant.                                                          *)
(***************************************************************************)
\* What the injector remembers is what the system holds down.
ButtonsKept == running => os.buttons = mouse /\ lastButtons = mouse

\* A pressure is kept for the pointers in contact, within what they reported.
PressureKept ==
  /\ DOMAIN range = DOMAIN state
  /\ \A p \in DOMAIN range : range[p] \in [low : Int, high : Int]
  /\ \A p \in DOMAIN state : state[p] \in range[p].low..range[p].high
  /\ \A p \in os.pointer : p \in DOMAIN state /\ os.pressure = state[p]

InputInd == InputTypeOK /\ ButtonsKept /\ PressureKept /\ admitted = mark

injected == <<lastButtons, state, os, mouse, range>>

(***************************************************************************)
(* The injectors.                                                          *)
(***************************************************************************)
Injectors ==
  /\ lastButtons \subseteq Buttons
  /\ state \in [DOMAIN state -> 0..Full] /\ DOMAIN state \subseteq Pointers
  /\ os \in [buttons : SUBSET Buttons, key : BOOLEAN, pressure : 0..Full,
             pointer : SUBSET DOMAIN state]

LEMMA PacketInput ==
  ASSUME NEW input \in PacketInputs
  PROVE  \/ input.kind = "mouse" /\ input.buttons \subseteq Buttons
         \/ /\ input.kind = "stylus" /\ input.pointer \in Pointers
            /\ input.contact \in BOOLEAN /\ input.pressure \in Int
         \/ input.kind = "key" /\ input.pressed \in BOOLEAN
         \/ input.kind \in {"touch", "special", "gamepad"}
BY InputAssumption DEF PacketInputs, Inputs

LEMMA PenInjects ==
  ASSUME Injectors, PressureKept, NEW s, s.pointer \in Pointers, s.pressure \in Int,
         s.contact \in BOOLEAN, InjectPen(s)
  PROVE  Injectors' /\ PressureKept' /\ os'.buttons = os.buttons
<1> DEFINE raw == Clamped(s.pressure)
           p == s.pointer
<1>1. raw \in 0..Full /\ raw \in Int
  BY ClampedType, InputAssumption
<1> HIDE DEF raw
<1>2. CASE s.contact
  <2>1. PICK smoothed \in Smoothed(Previous(p, raw), raw) :
          /\ state' = With(state, p, smoothed)
          /\ os' = [os EXCEPT !.pressure = smoothed, !.pointer = {p}]
    BY <1>2 DEF InjectPen, raw
  <2>2. range' = Widened(p, raw) /\ UNCHANGED lastButtons
    BY <1>2 DEF InjectPen, raw
  <2>3. Previous(p, raw) \in 0..Full
    BY <1>1 DEF Previous, Injectors
  <2>4. smoothed \in 0..Full
    BY <1>1, <2>3, SmoothedBetween, InputAssumption
  <2>5. DOMAIN state' = DOMAIN state \cup {p} /\ DOMAIN range' = DOMAIN range \cup {p}
    BY <2>1, <2>2 DEF With, Widened
  <2>6. state'[p] = smoothed /\ \A q \in DOMAIN state \ {p} : state'[q] = state[q]
    BY <2>1 DEF With
  <2>7. Injectors'
    BY <2>1, <2>2, <2>4, <2>5, <2>6 DEF Injectors, With
  <2>8. \A q \in DOMAIN range \ {p} : range'[q] = range[q]
    BY <2>2 DEF Widened, With
  <2>9. /\ range'[p] \in [low : Int, high : Int]
        /\ raw \in range'[p].low..range'[p].high
        /\ Previous(p, raw) \in range'[p].low..range'[p].high
    <3>1. CASE p \notin DOMAIN range
      BY <1>1, <2>2, <3>1 DEF Widened, With, Previous, PressureKept
    <3>2. CASE p \in DOMAIN range
      <4> DEFINE low == range[p].low
                 high == range[p].high
      <4>1. low \in Int /\ high \in Int /\ state[p] \in low..high /\ Previous(p, raw) = state[p]
        BY <3>2 DEF PressureKept, Previous
      <4>2. range'[p] = [low |-> IF raw < low THEN raw ELSE low,
                         high |-> IF raw > high THEN raw ELSE high]
        BY <2>2, <3>2 DEF Widened, With
      <4> HIDE DEF low, high
      <4> QED BY <1>1, <4>1, <4>2
    <3> QED BY <3>1, <3>2
  <2>10. smoothed \in range'[p].low..range'[p].high
    <3>1. range'[p].low \in Int /\ range'[p].high \in Int
      BY <2>9
    <3> QED BY <1>1, <2>3, <2>9, <3>1, SmoothedBetween, InputAssumption
  <2>11. PressureKept'
    BY <2>1, <2>5, <2>6, <2>8, <2>9, <2>10 DEF PressureKept, Injectors
  <2> QED BY <2>1, <2>7, <2>11 DEF Injectors
<1>3. CASE ~s.contact
  <2>1. /\ state' = Without(state, p) /\ range' = Without(range, p)
        /\ os' = [os EXCEPT !.pressure = raw, !.pointer = {}] /\ UNCHANGED lastButtons
    BY <1>3 DEF InjectPen, raw
  <2>2. Injectors'
    BY <1>1, <2>1 DEF Injectors, Without
  <2>3. PressureKept'
    BY <2>1 DEF PressureKept, Without, Injectors
  <2> QED BY <2>1, <2>2, <2>3 DEF Injectors
<1> QED BY <1>2, <1>3

LEMMA MouseInjects ==
  ASSUME Injectors, PressureKept, NEW flags \in SUBSET Buttons, InjectMouse(flags),
         os.buttons = lastButtons
  PROVE  /\ Injectors' /\ PressureKept'
         /\ os'.buttons = flags /\ lastButtons' = flags /\ mouse' = flags
<1>1. os' = [os EXCEPT !.buttons = Toggled(Changed(flags), flags)]
  BY DEF InjectMouse
<1>2. Toggled(Changed(flags), flags) = flags
  BY DEF Toggled, Changed
<1>3. os'.buttons = flags /\ os'.pressure = os.pressure /\ os'.pointer = os.pointer
  BY <1>1, <1>2 DEF Injectors
<1> QED BY <1>1, <1>2, <1>3 DEF InjectMouse, Remembered, Injectors, PressureKept

LEMMA KeyInjects ==
  ASSUME Injectors, PressureKept, NEW pressed \in BOOLEAN, InjectKey(pressed)
  PROVE  Injectors' /\ PressureKept' /\ os'.buttons = os.buttons
BY DEF InjectKey, Injectors, PressureKept

LEMMA InjectionKeeps ==
  ASSUME Injectors, PressureKept, ButtonsKept, running,
         NEW input \in PacketInputs, Inject(input), UNCHANGED running
  PROVE  Injectors' /\ PressureKept' /\ ButtonsKept'
<1> USE PacketInput
<1>1. CASE input.kind = "stylus"
  <2>1. InjectPen(input) BY <1>1 DEF Inject
  <2>2. /\ input.pointer \in Pointers /\ input.contact \in BOOLEAN /\ input.pressure \in Int
    BY <1>1
  <2>3. UNCHANGED <<lastButtons, mouse>> BY <2>1 DEF InjectPen
  <2> QED BY <2>1, <2>2, <2>3, PenInjects DEF ButtonsKept
<1>2. CASE input.kind = "mouse"
  <2>1. InjectMouse(input.buttons) /\ input.buttons \in SUBSET Buttons
    BY <1>2 DEF Inject
  <2> QED BY <2>1, MouseInjects DEF ButtonsKept
<1>3. CASE input.kind = "key"
  <2>1. InjectKey(input.pressed) /\ input.pressed \in BOOLEAN
    BY <1>3 DEF Inject
  <2>2. UNCHANGED <<lastButtons, mouse>> BY <2>1 DEF InjectKey
  <2> QED BY <2>1, <2>2, KeyInjects DEF ButtonsKept
<1>4. CASE input.kind \in {"touch", "special", "gamepad"}
  BY <1>4 DEF Inject, Injectors, PressureKept, ButtonsKept
<1> QED BY <1>1, <1>2, <1>3, <1>4

LEMMA RefusalKeeps ==
  ASSUME Injectors, PressureKept, NEW input \in PacketInputs, Refuse(input)
  PROVE  Injectors' /\ PressureKept'
<1>1. CASE input.kind = "mouse"
  <2>1. input.buttons \subseteq Buttons BY <1>1, PacketInput
  <2>2. PICK sent \in SUBSET Changed(input.buttons) :
          os' = [os EXCEPT !.buttons = Toggled(sent, input.buttons)]
    BY <1>1 DEF Refuse
  <2>3. Toggled(sent, input.buttons) \subseteq Buttons
    BY <2>1 DEF Toggled, Changed, Injectors
  <2>4. UNCHANGED <<lastButtons, mouse, state, range>> BY DEF Refuse
  <2> QED BY <2>2, <2>3, <2>4 DEF Injectors, PressureKept
<1>2. CASE input.kind # "mouse"
  BY <1>2 DEF Refuse, Injectors, PressureKept
<1> QED BY <1>1, <1>2

(***************************************************************************)
(* The steps of the clients.                                               *)
(***************************************************************************)
Task == [input : Inputs, time : Nat]

LEMMA TasksUpdated ==
  ASSUME NEW T, NEW P, NEW E, NEW f \in [P -> [E -> T]], NEW c \in P, NEW e \in E, NEW v \in T
  PROVE  [f EXCEPT ![c][e] = v] \in [P -> [E -> T]]
OBVIOUS

LEMMA FirstAndRest ==
  ASSUME NEW T, NEW s \in Seq(T), s # <<>>
  PROVE  Head(s) \in T /\ Tail(s) \in Seq(T)
OBVIOUS

LEMMA PacketsAreInputs ==
  ASSUME NEW input \in Inputs
  PROVE  /\ Len(Packets(input)) \in {1, 2} /\ DOMAIN Packets(input) = 1..Len(Packets(input))
         /\ \A i \in DOMAIN Packets(input) : Packets(input)[i] \in PacketInputs
<1>1. /\ [kind |-> "key", pressed |-> TRUE] \in PacketInputs
      /\ [kind |-> "key", pressed |-> FALSE] \in PacketInputs /\ input \in PacketInputs
  BY DEF PacketInputs
<1>2. CASE input.kind = "special"
  <2> DEFINE down == [kind |-> "key", pressed |-> TRUE]
             up == [kind |-> "key", pressed |-> FALSE]
  <2>1. Packets(input) = <<down, up>>
    BY <1>2 DEF Packets
  <2> HIDE DEF down, up
  <2>2. down \in PacketInputs /\ up \in PacketInputs
    BY <1>1 DEF down, up
  <2> QED BY <2>1, <2>2
<1>3. CASE input.kind # "special"
  <2>1. Packets(input) = <<input>>
    BY <1>3 DEF Packets
  <2> QED BY <1>1, <2>1
<1> QED BY <1>2, <1>3

LEMMA CaptureKeeps ==
  ASSUME InputInd, NEW c \in Peers, NEW input \in Inputs, Capture(c, input)
  PROVE  InputInd'
<1> DEFINE e == Executor(input.kind)
           task == [input |-> input, time |-> Stamp(input)]
           queue == Append(tasks[c][e], task)
<1>1. e \in {"session", "bridge"}
  BY DEF Executor
<1>2. Stamp(input) \in Nat
  <2>1. clock \in 0..MaxTime
    BY DEF InputInd, InputTypeOK
  <2>2. Slept \in Nat /\ MaxTime \in Nat
    BY InputAssumption DEF InputAssumption
  <2> QED BY <2>1, <2>2 DEF Stamp
<1>3. task \in Task
  BY <1>2 DEF Task
<1>4. tasks' = [tasks EXCEPT ![c][e] = queue]
  BY DEF Capture
<1> HIDE DEF e, task
<1>5. tasks \in [Peers -> [{"session", "bridge"} -> Seq(Task)]]
  BY DEF InputInd, InputTypeOK, Task
<1>6. queue \in Seq(Task)
  BY <1>1, <1>3, <1>5
<1> HIDE DEF queue
<1>7. tasks' \in [Peers -> [{"session", "bridge"} -> Seq(Task)]]
  BY <1>1, <1>4, <1>5, <1>6, TasksUpdated
<1>8. /\ events' \in 0..MaxInputs
      /\ UNCHANGED <<clock, sequence, flight, permits, mark, bridges, lastButtons, state, os,
                     toggles, running, admitted, mouse, range>>
  <2>1. events \in 0..MaxInputs /\ MaxInputs \in Nat
    BY InputAssumption DEF InputAssumption, InputInd, InputTypeOK
  <2> QED BY <2>1 DEF Capture
<1> QED BY <1>7, <1>8 DEF InputInd, InputTypeOK, ButtonsKept, PressureKept, Task

LEMMA SendKeeps ==
  ASSUME InputInd, NEW c \in Peers, NEW e \in {"session", "bridge"}, SendTask(c, e)
  PROVE  InputInd'
<1> DEFINE task == Head(tasks[c][e])
           ps == Packets(task.input)
           new == Sent(c, task)
<1>1. /\ flight' = flight \cup new
      /\ sequence' = [sequence EXCEPT ![c] = @ + Len(ps)]
      /\ tasks' = [tasks EXCEPT ![c][e] = Tail(tasks[c][e])]
  BY DEF SendTask
<1>2. tasks[c][e] \in Seq(Task) /\ tasks[c][e] # <<>>
  <2>1. tasks[c][e] # <<>>
    BY DEF SendTask
  <2>2. tasks \in [Peers -> [{"session", "bridge"} -> Seq(Task)]]
    BY DEF InputInd, InputTypeOK, Task
  <2> QED BY <2>1, <2>2
<1>3. task \in Task /\ Tail(tasks[c][e]) \in Seq(Task)
  BY <1>2, FirstAndRest
<1> HIDE DEF task
<1>4. task.input \in Inputs /\ task.time \in Nat
  BY <1>3 DEF Task
<1>5. SentAt(task) \in Nat
  <2>1. clock \in Nat /\ Slept \in Nat
    BY InputAssumption DEF InputInd, InputTypeOK
  <2>2. clock + Slept \in Nat
    BY ONLY <2>1
  <2>3. SentAt(task) = clock + Slept \/ SentAt(task) = task.time
    BY DEF SentAt
  <2> QED BY ONLY <1>4, <2>2, <2>3
<1>6. /\ Len(ps) \in {1, 2} /\ DOMAIN ps = 1..Len(ps)
      /\ \A i \in DOMAIN ps : ps[i] \in PacketInputs
  BY <1>4, PacketsAreInputs, Zenon
<1>7. sequence[c] \in Nat \ {0} BY DEF InputInd, InputTypeOK
<1>8. \A packet \in new : /\ packet \in Packet /\ packet.peer = c
                          /\ packet.sequence < sequence[c] + Len(ps)
  <2> SUFFICES ASSUME NEW packet \in new
               PROVE  /\ packet \in Packet /\ packet.peer = c
                      /\ packet.sequence < sequence[c] + Len(ps)
    OBVIOUS
  <2>1. PICK i \in DOMAIN ps :
          packet = [peer |-> c, sequence |-> sequence[c] + i - 1, time |-> SentAt(task),
                    input |-> ps[i]]
    BY DEF Sent
  <2>2. i \in Nat /\ 1 <= i /\ i <= Len(ps) /\ Len(ps) \in Nat
    BY <1>6
  <2> HIDE DEF ps, new
  <2>3. /\ sequence[c] + i - 1 \in Nat \ {0}
        /\ sequence[c] + i - 1 < sequence[c] + Len(ps)
    BY <1>7, <2>2
  <2>4. ps[i] \in PacketInputs
    BY <1>6
  <2> QED BY <1>5, <2>1, <2>3, <2>4 DEF Packet
<1> HIDE DEF ps, new
<1>9. sequence' \in [Peers -> Nat \ {0}] /\ sequence'[c] = sequence[c] + Len(ps)
      /\ \A d \in Peers : sequence'[d] >= sequence[d]
  <2>1. sequence \in [Peers -> Nat \ {0}]
    BY DEF InputInd, InputTypeOK
  <2>2. sequence[c] + Len(ps) \in Nat \ {0} /\ sequence[c] + Len(ps) >= sequence[c]
    BY <1>6, <1>7
  <2>3. sequence' = [sequence EXCEPT ![c] = sequence[c] + Len(ps)]
    BY <1>1
  <2>4. /\ sequence' \in [Peers -> Nat \ {0}] /\ sequence'[c] = sequence[c] + Len(ps)
        /\ \A d \in Peers \ {c} : sequence'[d] = sequence[d]
    BY <2>1, <2>2, <2>3
  <2>5. \A d \in Peers : sequence'[d] >= sequence[d]
    BY <2>1, <2>2, <2>4
  <2> QED BY <2>4, <2>5
<1>10. flight' \subseteq Packet /\ \A packet \in flight' : packet.sequence < sequence'[packet.peer]
  <2> SUFFICES ASSUME NEW packet \in flight'
               PROVE  packet \in Packet /\ packet.sequence < sequence'[packet.peer]
    OBVIOUS
  <2>1. CASE packet \in new BY <1>8, <1>9, <2>1
  <2>2. CASE packet \in flight
    <3>1. packet \in Packet /\ packet.sequence < sequence[packet.peer]
      BY <2>2 DEF InputInd, InputTypeOK
    <3>2. packet.peer \in Peers /\ packet.sequence \in Nat BY <3>1 DEF Packet
    <3>3. sequence[packet.peer] \in Nat BY <3>2 DEF InputInd, InputTypeOK
    <3> QED BY <1>9, <3>1, <3>2, <3>3
  <2> QED BY <1>1, <2>1, <2>2
<1>11. tasks' \in [Peers -> [{"session", "bridge"} -> Seq(Task)]]
  BY <1>1, <1>3, TasksUpdated DEF InputInd, InputTypeOK, Task
<1>12. \A d \in Peers : mark[d].sequence < sequence'[d]
  <2> TAKE d \in Peers
  <2>1. mark[d].sequence \in Nat /\ mark[d].sequence < sequence[d] /\ sequence[d] \in Nat
    BY DEF InputInd, InputTypeOK
  <2> QED BY <1>9, <2>1
<1>13. UNCHANGED <<clock, events, permits, mark, bridges, lastButtons, state, os,
                   toggles, running, admitted, mouse, range>>
  BY DEF SendTask
<1> QED BY <1>9, <1>10, <1>11, <1>12, <1>13
        DEF InputInd, InputTypeOK, ButtonsKept, PressureKept, Task

LEMMA TimeKeeps ==
  ASSUME InputInd, TimePasses
  PROVE  InputInd'
<1>1. /\ clock' \in 0..MaxTime
      /\ UNCHANGED <<tasks, sequence, events, flight, permits, mark, bridges, lastButtons, state,
                     os, toggles, running, admitted, mouse, range>>
  BY InputAssumption DEF TimePasses, InputInd, InputTypeOK
<1> QED BY <1>1 DEF InputInd, InputTypeOK, ButtonsKept, PressureKept

(***************************************************************************)
(* The steps of the host.                                                  *)
(***************************************************************************)
LEMMA ReceiveKeeps ==
  ASSUME InputInd, NEW packet, Receive(packet)
  PROVE  /\ packet \in Packet /\ packet.sequence < sequence[packet.peer]
         /\ flight' \subseteq Packet
         /\ \A q \in flight' : q.sequence < sequence[q.peer]
BY DEF Receive, InputInd, InputTypeOK

LEMMA DropKeeps ==
  ASSUME InputInd, NEW c \in Peers, NEW packet \in flight,
         Deny(c, packet) \/ DropLate(c, packet)
  PROVE  InputInd'
<1>1. Receive(packet) /\ UNCHANGED <<mark, lastButtons, state, os, running, admitted, mouse, range>>
  BY DEF Deny, DropLate
<1>2. UNCHANGED <<clock, tasks, sequence, events, permits, bridges, toggles>>
  BY <1>1 DEF Receive, clientVars
<1>3. flight' \subseteq Packet /\ \A q \in flight' : q.sequence < sequence[q.peer]
  BY <1>1, ReceiveKeeps
<1> QED BY <1>1, <1>2, <1>3 DEF InputInd, InputTypeOK, ButtonsKept, PressureKept

LEMMA AcceptMarks ==
  ASSUME InputInd, NEW c \in Peers, NEW packet \in flight, Accept(c, packet)
  PROVE  /\ mark' \in [Peers -> [sequence : Nat, time : Nat]] /\ admitted' = mark'
         /\ \A d \in Peers : mark'[d].sequence < sequence[d]
         /\ \A d \in Peers \ {c} : mark'[d] = mark[d]
         /\ mark'[c].sequence > mark[c].sequence /\ mark'[c].time >= mark[c].time
<1> DEFINE at == [sequence |-> packet.sequence, time |-> packet.time]
<1>1. Receive(packet) /\ packet.peer = c /\ ~Late(mark[c], packet)
  BY DEF Accept
<1>2. mark' = [mark EXCEPT ![c] = at] /\ admitted' = [admitted EXCEPT ![c] = at]
  BY DEF Accept
<1>3. packet \in Packet /\ packet.sequence < sequence[c]
  BY <1>1, ReceiveKeeps
<1>4. packet.sequence \in Nat /\ packet.time \in Nat BY <1>3 DEF Packet
<1>5. mark \in [Peers -> [sequence : Nat, time : Nat]] /\ admitted = mark
  BY DEF InputInd, InputTypeOK
<1>6. packet.sequence > mark[c].sequence /\ packet.time >= mark[c].time
  BY <1>1, <1>4, <1>5 DEF Late
<1>7. at \in [sequence : Nat, time : Nat] BY <1>4
<1>8. \A d \in Peers : mark[d].sequence < sequence[d] BY DEF InputInd, InputTypeOK
<1> QED BY <1>2, <1>3, <1>5, <1>6, <1>7, <1>8

LEMMA AcceptKeeps ==
  ASSUME InputInd, NEW c \in Peers, NEW packet \in flight, Accept(c, packet)
  PROVE  InputInd'
<1>1. Receive(packet) /\ running BY DEF Accept, Receive
<1>2. packet \in Packet /\ flight' \subseteq Packet /\ \A q \in flight' : q.sequence < sequence[q.peer]
  BY <1>1, ReceiveKeeps
<1>3. packet.input \in PacketInputs BY <1>2 DEF Packet
<1>4. UNCHANGED <<clock, tasks, sequence, events, permits, bridges, toggles>>
  BY <1>1 DEF Receive, clientVars
<1>5. Injectors /\ PressureKept /\ ButtonsKept
  BY DEF InputInd, InputTypeOK, Injectors
<1>6. Injectors' /\ PressureKept' /\ ButtonsKept' /\ running' \in BOOLEAN
  <2>1. CASE UNCHANGED <<lastButtons, state, os, running, mouse, range>>
    BY <1>1, <1>5, <2>1 DEF Injectors, PressureKept, ButtonsKept
  <2>2. CASE Inject(packet.input) /\ UNCHANGED running
    BY <1>1, <1>3, <1>5, <2>2, InjectionKeeps
  <2>3. CASE Refuse(packet.input) /\ running' = FALSE
    BY <1>3, <1>5, <2>3, RefusalKeeps DEF ButtonsKept
  <2> QED BY <2>1, <2>2, <2>3 DEF Accept
<1> QED BY <1>2, <1>4, <1>6, AcceptMarks DEF InputInd, InputTypeOK, Injectors

LEMMA PermissionKeeps ==
  ASSUME InputInd, NEW c \in Peers, NEW allowed \in SUBSET Groups, SetPermissions(c, allowed)
  PROVE  InputInd'
<1>1. toggles' \in 0..MaxToggles
  <2>1. MaxToggles \in Nat /\ toggles \in 0..MaxToggles /\ toggles < MaxToggles
    BY InputAssumption DEF SetPermissions, InputInd, InputTypeOK
  <2>2. toggles' = toggles \/ toggles' = toggles + 1
    BY DEF SetPermissions
  <2> QED BY <2>1, <2>2
<1>2. permits' \in [Peers -> SUBSET Groups]
  BY DEF SetPermissions, InputInd, InputTypeOK
<1> QED BY <1>1, <1>2 DEF SetPermissions, clientVars, InputInd, InputTypeOK, ButtonsKept, PressureKept

LEMMA StepKeeps ==
  ASSUME InputInd, [InputNext]_inputVars
  PROVE  InputInd'
<1>1. ASSUME NEW c \in Peers, NEW input \in Inputs, Capture(c, input) PROVE InputInd'
  BY <1>1, CaptureKeeps
<1>2. ASSUME NEW c \in Peers, NEW e \in {"session", "bridge"}, SendTask(c, e) PROVE InputInd'
  BY <1>2, SendKeeps
<1>3. CASE TimePasses BY <1>3, TimeKeeps
<1>4. ASSUME NEW c \in Peers, NEW packet \in flight, Deny(c, packet) \/ DropLate(c, packet)
      PROVE  InputInd'
  BY <1>4, DropKeeps
<1>5. ASSUME NEW c \in Peers, NEW packet \in flight, Accept(c, packet) PROVE InputInd'
  BY <1>5, AcceptKeeps
<1>6. ASSUME NEW c \in Peers, ApproveAgain(c) PROVE InputInd'
  BY <1>6, PermissionKeeps DEF ApproveAgain
<1>7. ASSUME NEW c \in Peers, NEW k \in Kinds, Permit(c, Group(k)) \/ Forbid(c, Group(k))
      PROVE  InputInd'
  <2>1. Group(k) \in Groups BY InputAssumption DEF Group, Groups, AllKinds
  <2>2. permits[c] \subseteq Groups BY DEF InputInd, InputTypeOK
  <2>3. permits[c] \cup {Group(k)} \subseteq Groups /\ permits[c] \ {Group(k)} \subseteq Groups
    BY <2>1, <2>2
  <2> QED BY <1>7, <2>3, PermissionKeeps DEF Permit, Forbid
<1>8. CASE UNCHANGED inputVars
  BY <1>8 DEF inputVars, clientVars, InputInd, InputTypeOK, ButtonsKept, PressureKept
<1> QED
  BY <1>1, <1>2, <1>3, <1>4, <1>5, <1>6, <1>7, <1>8 DEF InputNext, ClientStep, HostInputStep

LEMMA InitKeeps ==
  ASSUME InputInit
  PROVE  InputInd
<1> USE InputAssumption DEF InputInit
<1>1. tasks \in [Peers -> [{"session", "bridge"} -> Seq([input : Inputs, time : Nat])]]
  OBVIOUS
<1>2. mark \in [Peers -> [sequence : Nat, time : Nat]]
      /\ \A c \in Peers : mark[c].sequence < sequence[c]
  BY DEF NoMark
<1>3. bridges \subseteq Groups BY DEF RuntimeBridges, CanOpen, Groups
<1>4. state \in [DOMAIN state -> 0..Full] /\ DOMAIN state = {} /\ DOMAIN range = {}
  OBVIOUS
<1>5. os \in [buttons : SUBSET Buttons, key : BOOLEAN, pressure : 0..Full,
              pointer : SUBSET DOMAIN state]
  BY <1>4
<1> QED BY <1>1, <1>2, <1>3, <1>4, <1>5 DEF InputInd, InputTypeOK, ButtonsKept, PressureKept

THEOREM InputInvariance == InputSpec => []InputInd
BY InitKeeps, StepKeeps, PTL DEF InputSpec

(***************************************************************************)
(* The theorems.                                                           *)
(***************************************************************************)
\* The system holds down the buttons of the last mouse input injected, for any
\* set of buttons and clients, however packets are lost or reordered.
THEOREM ButtonsAreMirrored == InputSpec => []ButtonsMirror
<1>1. InputInd => ButtonsMirror BY DEF InputInd, ButtonsKept, ButtonsMirror
<1> QED BY <1>1, InputInvariance, PTL

\* A smoothed pressure lies between pressures reported, for every scale.
THEOREM PressureIsInRange == InputSpec => []PressureInRange
<1>1. InputInd => PressureInRange BY DEF InputInd, PressureKept, PressureInRange
<1> QED BY <1>1, InputInvariance, PTL

\* The watermark moves forward only, and only with an input that is taken.
THEOREM InputNeverGoesBack == InputSpec => NothingGoesBack
<1>1. ASSUME InputInd, [InputNext]_inputVars
      PROVE  [\A c \in Peers : mark'[c] # mark[c] =>
                /\ admitted'[c] = mark'[c] /\ admitted'[c] # admitted[c]
                /\ mark'[c].sequence > mark[c].sequence
                /\ mark'[c].time >= mark[c].time]_inputVars
  <2>1. CASE UNCHANGED mark BY <2>1
  <2>2. ASSUME NEW c \in Peers, NEW packet \in flight, Accept(c, packet)
        PROVE  \A d \in Peers : mark'[d] # mark[d] =>
                 /\ admitted'[d] = mark'[d] /\ admitted'[d] # admitted[d]
                 /\ mark'[d].sequence > mark[d].sequence
                 /\ mark'[d].time >= mark[d].time
    <3>1. admitted = mark BY <1>1 DEF InputInd
    <3> QED BY <1>1, <2>2, <3>1, AcceptMarks
  <2>3. \/ UNCHANGED mark
        \/ \E c \in Peers, packet \in flight : Accept(c, packet)
    BY <1>1 DEF InputNext, ClientStep, HostInputStep, Capture, SendTask, TimePasses, Deny, DropLate,
       ApproveAgain, Permit, Forbid, SetPermissions, inputVars
  <2> QED BY <2>1, <2>2, <2>3
<1> QED BY <1>1, InputInvariance, PTL DEF InputSpec, NothingGoesBack

(***************************************************************************)
(* The attempts of an address.                                             *)
(***************************************************************************)
Answers == [at : Nat, allowed : BOOLEAN]

AdmissionType ==
  /\ now \in Nat
  /\ attempts \in [Addresses -> Seq(Nat)]
  /\ log \in [Addresses -> Seq(Answers)]

\* At the time t, the kept instants ks, oldest first, are those of the admitted
\* attempts of the history as: g names them, and an admitted one without a
\* name has expired.
Remembers(t, ks, as, g) ==
  /\ g \in [1..Len(ks) -> 1..Len(as)]
  /\ \A i, j \in 1..Len(ks) : g[i] = g[j] => i = j
  /\ \A i \in 1..Len(ks) : as[g[i]].allowed /\ as[g[i]].at = ks[i] /\ ks[i] <= t
  /\ \A i, j \in 1..Len(ks) : i <= j => ks[i] <= ks[j]
  /\ \A j \in 1..Len(as) :
       as[j].allowed /\ (\A i \in 1..Len(ks) : g[i] # j) => t - as[j].at > AttemptSpan

\* Each answer was right when it was given.
InSpan(as, i) == {j \in 1..(i - 1) : as[j].allowed /\ as[i].at - as[j].at <= AttemptSpan}
ExactFor(as) == \A i \in DOMAIN as : as[i].allowed <=> Cardinality(InSpan(as, i)) < MaxAttempts

AdmissionInd ==
  /\ AdmissionType
  /\ \A ip \in Addresses : \E g : Remembers(now, attempts[ip], log[ip], g)
  /\ \A ip \in Addresses : ExactFor(log[ip])

\* A set that holds what lies before each of its elements is a beginning.
LEMMA BeginningIsInterval ==
  ASSUME NEW n \in Nat, NEW S \in SUBSET (1..n), \A i \in S : 1..i \subseteq S
  PROVE  Cardinality(S) \in 0..n /\ S = 1..Cardinality(S)
<1> DEFINE m == Cardinality(S)
<1>1. IsFiniteSet(1..n) /\ Cardinality(1..n) = n
  BY FS_Interval
<1>2. IsFiniteSet(S) /\ m \in Nat /\ m <= n
  <2>1. IsFiniteSet(S) /\ Cardinality(S) <= Cardinality(1..n)
    BY <1>1, FS_Subset
  <2>2. Cardinality(S) <= n
    BY <1>1, <2>1
  <2> QED BY <2>1, <2>2, FS_CardinalityType
<1>3. ASSUME NEW i \in S PROVE i <= m
  <2>1. i \in Nat \ {0} /\ 1..i \in SUBSET S
    BY <1>3
  <2>2. Cardinality(1..i) = i
    BY <2>1, FS_Interval
  <2>3. Cardinality(1..i) <= m
    BY <1>2, <2>1, FS_Subset
  <2> QED BY <2>2, <2>3
<1>4. S \in SUBSET (1..m)
  BY <1>2, <1>3
<1>5. IsFiniteSet(1..m) /\ Cardinality(1..m) = m
  BY <1>2, FS_Interval
<1> HIDE DEF m
<1>6. Cardinality(S) = m BY DEF m
<1>7. S = 1..m
  BY <1>4, <1>5, <1>6, FS_Subset
<1> QED BY <1>2, <1>6, <1>7

\* Dropping from the front drops every expired instant, and no other.
LEMMA RecentFacts ==
  ASSUME AdmissionInd, NEW ip \in Addresses
  PROVE  \E m \in 0..Len(attempts[ip]) :
           /\ Recent(ip) = SubSeq(attempts[ip], m + 1, Len(attempts[ip]))
           /\ \A i \in 1..Len(attempts[ip]) : Expired(attempts[ip][i]) <=> i <= m
<1> DEFINE ks == attempts[ip]
           old == {i \in DOMAIN ks : \A j \in 1..i : Expired(ks[j])}
           m == Cardinality(old)
<1>1. /\ ks \in Seq(Nat) /\ Len(ks) \in Nat /\ DOMAIN ks = 1..Len(ks)
      /\ \A i \in 1..Len(ks) : ks[i] \in Nat
      /\ now \in Nat /\ AttemptSpan \in Nat
  BY AdmissionAssumption DEF AdmissionInd, AdmissionType, AdmissionAssumption
<1>2. old \in SUBSET (1..Len(ks)) /\ \A i \in old : 1..i \subseteq old
  BY <1>1
<1>3. m \in 0..Len(ks) /\ old = 1..m
  <2> HIDE DEF old
  <2> QED BY <1>1, <1>2, BeginningIsInterval
<1>4. \A i, j \in 1..Len(ks) : i <= j => ks[i] <= ks[j]
  BY DEF AdmissionInd, Remembers
<1>5. ASSUME NEW i \in 1..Len(ks) PROVE Expired(ks[i]) <=> i <= m
  <2>1. CASE i <= m
    BY <1>1, <1>3, <2>1
  <2>2. CASE i > m
    <3>1. i \notin old
      <4> HIDE DEF m, old
      <4> QED BY <1>1, <1>3, <2>2
    <3>2. PICK j \in 1..i : ~Expired(ks[j])
      BY <1>1, <3>1
    <3>3. j \in 1..Len(ks) /\ ks[j] <= ks[i]
      BY <1>1, <1>4, <3>2
    <3>4. ks[i] \in Nat /\ ks[j] \in Nat
      BY <1>1, <3>3
    <3>5. ~Expired(ks[i])
      <4>1. now \in Nat /\ AttemptSpan \in Nat BY <1>1
      <4> HIDE DEF ks
      <4> QED BY <3>2, <3>3, <3>4, <4>1 DEF Expired
    <3>6. ~(i <= m)
      <4> HIDE DEF m
      <4> QED BY <1>3, <2>2
    <3> QED BY <3>5, <3>6
  <2> HIDE DEF m
  <2>3. i <= m \/ i > m
    BY <1>3
  <2> QED BY <2>1, <2>2, <2>3
<1>6. Recent(ip) = SubSeq(ks, m + 1, Len(ks))
  BY DEF Recent
<1> HIDE DEF m
<1> QED BY <1>3, <1>5, <1>6

\* What is kept after that is counted by the history.
LEMMA RecentCounts ==
  ASSUME AdmissionInd, NEW ip \in Addresses, NEW g, NEW m \in 0..Len(attempts[ip]),
         Remembers(now, attempts[ip], log[ip], g),
         \A i \in 1..Len(attempts[ip]) : Expired(attempts[ip][i]) <=> i <= m
  PROVE  Cardinality({j \in 1..Len(log[ip]) : /\ log[ip][j].allowed
                                              /\ now - log[ip][j].at <= AttemptSpan})
           = Len(attempts[ip]) - m
<1> DEFINE ks == attempts[ip]
           as == log[ip]
           n == Len(ks)
           T == {j \in 1..Len(as) : as[j].allowed /\ now - as[j].at <= AttemptSpan}
           f == [i \in (m + 1)..n |-> g[i]]
<1>1. /\ n \in Nat /\ Len(as) \in Nat /\ now \in Nat /\ AttemptSpan \in Nat
      /\ \A j \in 1..Len(as) : as[j].at \in Nat
  <2>1. now \in Nat /\ AttemptSpan \in Nat
    BY AdmissionAssumption DEF AdmissionInd, AdmissionType, AdmissionAssumption
  <2>2. ks \in Seq(Nat) /\ as \in Seq(Answers)
    BY DEF AdmissionInd, AdmissionType
  <2>3. \A j \in 1..Len(as) : as[j] \in Answers
    BY <2>2
  <2> QED BY <2>1, <2>2, <2>3 DEF Answers
<1>2. \A j \in 1..Len(as) : Expired(as[j].at) <=> ~(now - as[j].at <= AttemptSpan)
  BY <1>1 DEF Expired
<1>3. \A i \in (m + 1)..n : i \in 1..n /\ ~Expired(ks[i])
  BY <1>1
<1>4. \A i \in (m + 1)..n : g[i] \in T
  BY <1>2, <1>3 DEF Remembers
<1>5. \A j \in T : \E i \in (m + 1)..n : g[i] = j
  <2> SUFFICES ASSUME NEW j \in T PROVE \E i \in (m + 1)..n : g[i] = j
    OBVIOUS
  <2>1. PICK i \in 1..n : g[i] = j
    BY <1>1 DEF Remembers
  <2>2. ~Expired(ks[i])
    BY <1>2, <2>1 DEF Remembers
  <2> QED BY <1>1, <2>1, <2>2
<1>6. \A i, j \in (m + 1)..n : g[i] = g[j] => i = j
  BY <1>3 DEF Remembers
<1> HIDE DEF T
<1>7. f \in Bijection((m + 1)..n, T)
  BY <1>4, <1>5, <1>6 DEF Bijection, Injection, IsInjective, Surjection
<1>8. ExistsBijection((m + 1)..n, T)
  BY <1>7 DEF ExistsBijection
<1>9. IsFiniteSet((m + 1)..n) /\ Cardinality((m + 1)..n) = n - m
  <2>1. m + 1 \in Int /\ n \in Int /\ m <= n
    BY <1>1
  <2> HIDE DEF n
  <2>2. /\ IsFiniteSet((m + 1)..n)
        /\ Cardinality((m + 1)..n) = IF m + 1 > n THEN 0 ELSE n - (m + 1) + 1
    BY <2>1, FS_Interval
  <2> QED BY <2>1, <2>2
<1>10. Cardinality(T) = n - m
  BY <1>8, <1>9, FS_Bijection
<1> QED BY <1>10 DEF T

LEMMA AppendedAnswer ==
  ASSUME NEW as \in Seq(Answers), NEW entry \in Answers
  PROVE  /\ Append(as, entry) \in Seq(Answers)
         /\ Len(Append(as, entry)) = Len(as) + 1
         /\ \A j \in 1..Len(as) : Append(as, entry)[j] = as[j]
         /\ Append(as, entry)[Len(as) + 1] = entry
<1>1. \A S : \A s \in Seq(S), x \in S :
        Append(s, x) \in Seq(S) /\ Len(Append(s, x)) = Len(s) + 1
  OBVIOUS
<1>2. \A S : \A s \in Seq(S), x \in S : \A j \in 1..Len(s) : Append(s, x)[j] = s[j]
  OBVIOUS
<1>3. \A S : \A s \in Seq(S), x \in S : Append(s, x)[Len(s) + 1] = x
  OBVIOUS
<1> QED BY <1>1, <1>2, <1>3

LEMMA AttemptKeeps ==
  ASSUME AdmissionInd, NEW ip \in Addresses, Attempt(ip)
  PROVE  AdmissionInd'
<1> DEFINE ks == attempts[ip]
           as == log[ip]
           n == Len(ks)
           allowed == Len(Recent(ip)) < MaxAttempts
           entry == [at |-> now, allowed |-> allowed]
           bs == Append(as, entry)
<1>1. /\ now \in Nat /\ ks \in Seq(Nat) /\ as \in Seq(Answers) /\ n \in Nat /\ Len(as) \in Nat
      /\ attempts \in [Addresses -> Seq(Nat)] /\ log \in [Addresses -> Seq(Answers)]
      /\ \A i \in 1..n : ks[i] \in Nat
  BY DEF AdmissionInd, AdmissionType
<1>2. PICK g : Remembers(now, ks, as, g)
  BY DEF AdmissionInd
<1>3. PICK m \in 0..n : /\ Recent(ip) = SubSeq(ks, m + 1, n)
                        /\ \A i \in 1..n : Expired(ks[i]) <=> i <= m
  BY RecentFacts
<1> DEFINE rs == SubSeq(ks, m + 1, n)
           ls == IF allowed THEN Append(rs, now) ELSE rs
<1>4. /\ rs \in Seq(Nat) /\ Len(rs) = n - m /\ \A i \in 1..Len(rs) : rs[i] = ks[m + i]
  <2>1. m + 1 \in Int /\ n \in Int /\ \A i \in (m + 1)..n : ks[i] \in Nat
    BY <1>1
  <2> HIDE DEF ks, n
  <2>2. /\ SubSeq(ks, m + 1, n) \in Seq(Nat)
        /\ Len(SubSeq(ks, m + 1, n)) = IF m + 1 <= n THEN n - (m + 1) + 1 ELSE 0
        /\ \A i \in 1..(n - (m + 1) + 1) : SubSeq(ks, m + 1, n)[i] = ks[m + 1 + i - 1]
    BY <2>1, SubSeqProperties
  <2>3. m \in Nat /\ n \in Nat /\ m <= n
    BY <1>1 DEF n
  <2> QED BY <2>2, <2>3
<1>5. /\ entry \in Answers /\ bs \in Seq(Answers) /\ Len(bs) = Len(as) + 1
      /\ \A j \in 1..Len(as) : bs[j] = as[j]
      /\ bs[Len(as) + 1] = entry
  <2>1. entry \in Answers
    BY <1>1 DEF Answers
  <2>2. as \in Seq(Answers)
    BY <1>1
  <2> HIDE DEF entry, as
  <2>3. /\ bs \in Seq(Answers) /\ Len(bs) = Len(as) + 1
        /\ \A j \in 1..Len(as) : bs[j] = as[j]
        /\ bs[Len(as) + 1] = entry
    BY <2>1, <2>2, AppendedAnswer
  <2> QED BY <2>1, <2>3
<1>6. /\ ls \in Seq(Nat) /\ Len(ls) = IF allowed THEN n - m + 1 ELSE n - m
      /\ \A i \in 1..Len(ls) : ls[i] = IF i <= n - m THEN ks[m + i] ELSE now
  <2> HIDE DEF rs, allowed
  <2>0. now \in Nat /\ rs \in Seq(Nat) /\ Len(rs) = n - m /\ n - m \in Nat
        /\ \A i \in 1..Len(rs) : rs[i] = ks[m + i]
    BY <1>1, <1>4
  <2> HIDE DEF n, ks
  <2>1. CASE allowed
    <3>1. ls = Append(rs, now) BY <2>1
    <3> QED BY ONLY <2>0, <2>1, <3>1
  <2>2. CASE ~allowed
    <3>1. ls = rs BY <2>2
    <3> QED BY ONLY <2>0, <2>2, <3>1
  <2> QED BY <2>1, <2>2
<1>7. /\ attempts' = [attempts EXCEPT ![ip] = ls]
      /\ log' = [log EXCEPT ![ip] = bs]
      /\ now' = now
  BY <1>3 DEF Attempt
<1> HIDE DEF ls, bs, entry, rs, allowed
<1>8. AdmissionType'
  BY <1>1, <1>5, <1>6, <1>7 DEF AdmissionType
<1>9. \E h : Remembers(now, ls, bs, h)
  <2> DEFINE r == n - m
             h == [i \in 1..Len(ls) |-> IF i <= r THEN g[m + i] ELSE Len(as) + 1]
  <2>1. /\ \A i \in 1..n : g[i] \in 1..Len(as) /\ ks[i] <= now
        /\ \A i \in 1..n : as[g[i]].allowed /\ as[g[i]].at = ks[i]
        /\ \A i, j \in 1..n : g[i] = g[j] => i = j
        /\ \A i, j \in 1..n : i <= j => ks[i] <= ks[j]
    BY <1>2 DEF Remembers
  <2>2. r \in Nat /\ r <= Len(ls) /\ Len(ls) \in Nat /\ (allowed => Len(ls) = r + 1)
        /\ (~allowed => Len(ls) = r)
    BY <1>1, <1>6
  <2>3. /\ \A i \in 1..Len(ls) : i <= r =>
             m + i \in 1..n /\ ls[i] = ks[m + i] /\ h[i] = g[m + i]
        /\ \A i \in 1..Len(ls) : ~(i <= r) =>
             i = r + 1 /\ allowed /\ ls[i] = now /\ h[i] = Len(as) + 1
    <3> SUFFICES ASSUME NEW i \in 1..Len(ls)
                 PROVE  /\ i <= r => m + i \in 1..n /\ ls[i] = ks[m + i] /\ h[i] = g[m + i]
                        /\ ~(i <= r) => /\ i = r + 1 /\ allowed /\ ls[i] = now
                                        /\ h[i] = Len(as) + 1
      OBVIOUS
    <3>1. i <= r => m + i \in 1..n
      BY <1>1
    <3>2. ~(i <= r) => i = r + 1 /\ allowed
      BY <2>2
    <3>3. ls[i] = IF i <= r THEN ks[m + i] ELSE now
      BY <1>6
    <3>4. h[i] = IF i <= r THEN g[m + i] ELSE Len(as) + 1
      OBVIOUS
    <3> HIDE DEF h, r
    <3> QED BY <3>1, <3>2, <3>3, <3>4
  <2>4. \A i \in 1..n : i > m => i - m \in 1..Len(ls) /\ h[i - m] = g[i]
    BY <1>1, <1>6, <2>2
  <2>5. allowed => r + 1 \in 1..Len(ls) /\ h[r + 1] = Len(as) + 1
    BY <2>2
  <2>6. DOMAIN h = 1..Len(ls) /\ h = [i \in 1..Len(ls) |-> h[i]]
    OBVIOUS
  <2> HIDE DEF h, r
  <2>7. h \in [1..Len(ls) -> 1..Len(bs)]
    <3>1. ASSUME NEW i \in 1..Len(ls) PROVE h[i] \in 1..(Len(as) + 1)
      <4>1. i <= r => h[i] \in 1..Len(as)
        BY <2>1, <2>3
      <4>2. ~(i <= r) => h[i] = Len(as) + 1
        BY <2>3
      <4> QED BY <1>1, <4>1, <4>2
    <3> QED BY <1>5, <2>6, <3>1
  <2>8. ASSUME NEW i \in 1..Len(ls), NEW j \in 1..Len(ls), h[i] = h[j]
        PROVE  i = j
    <3>1. CASE i <= r /\ j <= r
      <4>1. m + i \in 1..n /\ m + j \in 1..n /\ g[m + i] = g[m + j]
        BY ONLY <2>3, <2>8, <3>1, i \in 1..Len(ls), j \in 1..Len(ls)
      <4>2. m + i = m + j BY <2>1, <4>1
      <4> QED BY <1>1, <4>2
    <3>2. CASE ~(i <= r /\ j <= r)
      <4>1. ASSUME NEW k \in 1..Len(ls), k <= r PROVE h[k] # Len(as) + 1
        <5>1. h[k] \in 1..Len(as) BY <2>1, <2>3, <4>1
        <5> QED BY <1>1, <5>1
      <4>2. i = r + 1 \/ j = r + 1
        BY <2>2, <2>3, <3>2
      <4>3. h[i] = Len(as) + 1 /\ h[j] = Len(as) + 1
        BY <2>2, <2>3, <2>8, <4>2
      <4> QED BY <2>3, <4>1, <4>3
    <3> QED BY <3>1, <3>2
  <2>9. ASSUME NEW i \in 1..Len(ls)
        PROVE  bs[h[i]].allowed /\ bs[h[i]].at = ls[i] /\ ls[i] <= now
    <3>1. CASE i <= r
      <4>1. m + i \in 1..n /\ ls[i] = ks[m + i] /\ h[i] = g[m + i]
        BY <2>2, <2>3, <3>1
      <4>2. bs[h[i]] = as[g[m + i]]
        BY <1>5, <2>1, <4>1
      <4> QED BY <2>1, <4>1, <4>2
    <3>2. CASE ~(i <= r)
      <4>1. allowed /\ ls[i] = now /\ bs[h[i]] = entry
        BY <1>5, <2>3, <3>2
      <4>2. entry.allowed /\ entry.at = now
        BY <4>1 DEF entry
      <4> QED BY <1>1, <4>1, <4>2
    <3> QED BY <3>1, <3>2
  <2>10. ASSUME NEW i \in 1..Len(ls), NEW j \in 1..Len(ls), i <= j
         PROVE  ls[i] <= ls[j]
    <3>1. CASE j <= r
      <4>0. i <= r
        BY <1>1, <2>2, <2>10, <3>1
      <4>1. m + i \in 1..n /\ m + j \in 1..n /\ ls[i] = ks[m + i] /\ ls[j] = ks[m + j]
        BY ONLY <2>3, <3>1, <4>0, i \in 1..Len(ls), j \in 1..Len(ls)
      <4>2. m + i <= m + j BY <1>1, <2>10
      <4> QED BY <2>1, <4>1, <4>2
    <3>2. CASE ~(j <= r)
      BY <2>3, <2>9, <3>2
    <3> QED BY <3>1, <3>2
  <2>11. ASSUME NEW j \in 1..Len(bs), bs[j].allowed, \A i \in 1..Len(ls) : h[i] # j
         PROVE  now - bs[j].at > AttemptSpan
    <3>1. CASE j = Len(as) + 1
      <4>1. allowed BY <1>5, <2>11, <3>1 DEF entry
      <4> QED BY <2>5, <2>11, <3>1, <4>1
    <3>2. CASE j # Len(as) + 1
      <4>1. j \in 1..Len(as) /\ bs[j] = as[j]
        BY <1>1, <1>5, <3>2
      <4>2. CASE \E i \in 1..n : g[i] = j
        <5>1. PICK i \in 1..n : g[i] = j BY <4>2
        <5>2. ~(i > m) BY <2>4, <2>11, <5>1
        <5>3. Expired(ks[i]) BY <1>1, <1>3, <5>2
        <5> QED BY <2>1, <4>1, <5>1, <5>3 DEF Expired
      <4>3. CASE ~\E i \in 1..n : g[i] = j
        BY <1>2, <2>11, <4>1, <4>3 DEF Remembers
      <4> QED BY <4>2, <4>3
    <3> QED BY <3>1, <3>2
  <2>12. Remembers(now, ls, bs, h)
    BY <2>7, <2>8, <2>9, <2>10, <2>11 DEF Remembers
  <2> QED BY <2>12
<1>10. ExactFor(bs)
  <2> SUFFICES ASSUME NEW i \in DOMAIN bs
               PROVE  bs[i].allowed <=> Cardinality(InSpan(bs, i)) < MaxAttempts
    BY DEF ExactFor
  <2>1. i \in 1..(Len(as) + 1) /\ \A j \in 1..(i - 1) : j \in 1..Len(as) /\ bs[j] = as[j]
    BY <1>1, <1>5
  <2>2. CASE i # Len(as) + 1
    <3>1. i \in DOMAIN as /\ bs[i] = as[i]
      <4>1. DOMAIN as = 1..Len(as) BY <1>1
      <4>2. i \in 1..Len(as) BY <1>1, <2>1, <2>2
      <4> QED BY <1>5, <4>1, <4>2
    <3>2. InSpan(bs, i) = InSpan(as, i)
      BY <2>1, <3>1 DEF InSpan
    <3> QED BY <3>1, <3>2 DEF AdmissionInd, ExactFor
  <2>3. CASE i = Len(as) + 1
    <3> DEFINE T == {j \in 1..Len(as) : as[j].allowed /\ now - as[j].at <= AttemptSpan}
    <3>1. bs[i].at = now /\ 1..(i - 1) = 1..Len(as)
      BY <1>1, <1>5, <2>3 DEF entry
    <3>2. InSpan(bs, i) = T
      <4>1. InSpan(bs, i) = {j \in 1..(i - 1) : bs[j].allowed /\ bs[i].at - bs[j].at <= AttemptSpan}
        BY DEF InSpan
      <4>2. \A j \in 1..Len(as) : bs[j] = as[j]
        BY <1>5
      <4> HIDE DEF as
      <4> QED BY ONLY <3>1, <4>1, <4>2
    <3>3. Cardinality(T) = n - m
      BY <1>2, <1>3, RecentCounts
    <3>4. Len(Recent(ip)) = n - m
      BY <1>3, <1>4 DEF rs
    <3> HIDE DEF T
    <3>5. bs[i].allowed <=> Len(Recent(ip)) < MaxAttempts
      <4>1. bs[i].allowed = allowed BY <1>5, <2>3 DEF entry
      <4> QED BY <4>1 DEF allowed
    <3> QED BY <3>2, <3>3, <3>4, <3>5
  <2> QED BY <2>2, <2>3
<1> HIDE DEF ks, as
<1>11. ASSUME NEW ap \in Addresses
       PROVE  (\E h : Remembers(now', attempts'[ap], log'[ap], h)) /\ ExactFor(log'[ap])
  <2>1. CASE ap = ip
    BY <1>1, <1>7, <1>9, <1>10, <2>1
  <2>2. CASE ap # ip
    <3>1. attempts'[ap] = attempts[ap] /\ log'[ap] = log[ap]
      BY <1>1, <1>7, <2>2
    <3> QED BY <1>7, <3>1 DEF AdmissionInd
  <2> QED BY <2>1, <2>2
<1> QED BY <1>8, <1>11 DEF AdmissionInd

LEMMA InstantKeeps ==
  ASSUME AdmissionInd, InstantPasses
  PROVE  AdmissionInd'
<1>1. now \in Nat /\ now' = now + 1 /\ attempts' = attempts /\ log' = log
  BY DEF AdmissionInd, AdmissionType, InstantPasses
<1>2. AttemptSpan \in Nat
  BY AdmissionAssumption DEF AdmissionAssumption
<1>3. ASSUME NEW ip \in Addresses
      PROVE  \E g : Remembers(now', attempts'[ip], log'[ip], g)
  <2> DEFINE ks == attempts[ip]
             as == log[ip]
  <2>1. PICK g : Remembers(now, ks, as, g)
    BY DEF AdmissionInd
  <2>2. ks \in Seq(Nat) /\ as \in Seq(Answers)
    BY DEF AdmissionInd, AdmissionType
  <2>3. /\ \A i \in 1..Len(ks) : ks[i] \in Nat
        /\ \A j \in 1..Len(as) : as[j] \in Answers
    BY <2>2
  <2>4. /\ \A i \in 1..Len(ks) : ks[i] <= now => ks[i] <= now'
        /\ \A j \in 1..Len(as) : now - as[j].at > AttemptSpan => now' - as[j].at > AttemptSpan
    BY <1>1, <1>2, <2>3 DEF Answers
  <2>5. Remembers(now', ks, as, g)
    BY <2>1, <2>4 DEF Remembers
  <2> QED BY <1>1, <2>5
<1>4. AdmissionType' BY <1>1 DEF AdmissionInd, AdmissionType
<1> QED BY <1>1, <1>3, <1>4 DEF AdmissionInd

\* An address is admitted exactly when fewer attempts than the limit were
\* admitted in the window before it, for every limit, window and number of
\* addresses: forgetting from the front loses nothing that still counts
\* (backend.rs allow_new_pending_peer).
THEOREM AdmissionIsAlwaysExact == AdmissionSpec => []AdmissionIsExact
<1>1. AdmissionInit => AdmissionInd
  <2> SUFFICES ASSUME AdmissionInit PROVE AdmissionInd
    OBVIOUS
  <2>1. AdmissionType
    BY DEF AdmissionInit, AdmissionType
  <2>2. ASSUME NEW ip \in Addresses
        PROVE  Remembers(now, attempts[ip], log[ip], <<>>) /\ ExactFor(log[ip])
    BY DEF AdmissionInit, Remembers, ExactFor
  <2> QED BY <2>1, <2>2 DEF AdmissionInd
<1>2. AdmissionInd /\ [AdmissionNext]_admission => AdmissionInd'
  <2> SUFFICES ASSUME AdmissionInd, [AdmissionNext]_admission PROVE AdmissionInd'
    OBVIOUS
  <2>1. CASE UNCHANGED admission
    BY <2>1 DEF admission, AdmissionInd, AdmissionType
  <2> QED BY <2>1, AttemptKeeps, InstantKeeps DEF AdmissionNext
<1>3. AdmissionInd => AdmissionIsExact
  BY DEF AdmissionInd, ExactFor, InSpan, AdmissionIsExact
<1> QED BY <1>1, <1>2, <1>3, PTL DEF AdmissionSpec
=============================================================================
