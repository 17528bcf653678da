---------------------------- MODULE HostSettings ----------------------------
(***************************************************************************)
(* What the settings file of the Windows host holds, what an edit makes of *)
(* it and what reading it back gives (settings.rs).  Pure operators; the   *)
(* file itself, its writes and failures, are in HostStore.                 *)
(*                                                                         *)
(* An encoder configuration is the one field whose range matters, a rate:  *)
(* it is written as it is and clamped when read (30..120 frames, 4000 to   *)
(* 120000 kbps, 250..10000 ms).  A preset is known by its word, whatever   *)
(* the letter case; a trusted device by its id and one input permission.   *)
(***************************************************************************)
EXTENDS Integers

CONSTANTS
  Words,       \* preset names up to letter case
  Devices,     \* ids of trusted devices
  Configs,     \* encoder configurations of clients and of the console
  MinConfig, MaxConfig,
  NoConfig     \* Option::None

ASSUME SettingsAssumption ==
  /\ Configs \subseteq Int /\ MinConfig \in Int /\ MaxConfig \in Int
  /\ MinConfig <= MaxConfig
  /\ NoConfig \notin Int

Spellings == [word: Words, upper: BOOLEAN]

\* What a file can hold: configurations as given, or clamped by a reading.
Stored == Configs \cup MinConfig .. MaxConfig
Preset == [name: Spellings, config: Stored]
Settings == [encoder: Stored \cup {NoConfig}, presets: SUBSET Preset,
             trust: [Devices -> {"absent", "allowed", "denied"}]]

Default == [encoder |-> NoConfig, presets |-> {},
            trust |-> [d \in Devices |-> "absent"]]

-----------------------------------------------------------------------------
(* Reading *)

ReadConfig(c) == IF c < MinConfig THEN MinConfig
                 ELSE IF c > MaxConfig THEN MaxConfig ELSE c

ReadEncoder(c) == IF c = NoConfig THEN NoConfig ELSE ReadConfig(c)

ReadPresets(presets) ==
  {[name |-> p.name, config |-> ReadConfig(p.config)] : p \in presets}

ReadSettings(s) == [s EXCEPT !.encoder = ReadEncoder(@),
                             !.presets = ReadPresets(@)]

-----------------------------------------------------------------------------
(* Editing *)

\* Mutant: names compared letter by letter.
SameSpelling(a, b) == a = b
SameName(a, b) == a.word = b.word

Upserted(presets, p) == {q \in presets : ~SameName(q.name, p.name)} \cup {p}

WithoutPreset(presets, name) == {q \in presets : ~SameName(q.name, name)}

\* The changes the console and an approval make.  Approving a device writes
\* its record anew, with every permission; a permission of a device that is
\* not there is not written.
Edits ==
  [kind: {"save"}, config: Stored]
    \cup [kind: {"savePreset"}, name: Spellings, config: Stored]
    \cup [kind: {"deletePreset"}, name: Spellings]
    \cup [kind: {"clear", "forgetAll"}]
    \cup [kind: {"approve", "forget", "allow", "deny"}, device: Devices]

Edited(s, e) ==
  CASE e.kind = "save" -> [s EXCEPT !.encoder = e.config]
    [] e.kind = "clear" -> [s EXCEPT !.encoder = NoConfig]
    [] e.kind = "savePreset" ->
         [s EXCEPT !.presets = Upserted(@, [name |-> e.name, config |-> e.config])]
    [] e.kind = "deletePreset" -> [s EXCEPT !.presets = WithoutPreset(@, e.name)]
    [] e.kind \in {"approve", "allow"} -> [s EXCEPT !.trust[e.device] = "allowed"]
    [] e.kind = "deny" -> [s EXCEPT !.trust[e.device] = "denied"]
    [] e.kind = "forget" -> [s EXCEPT !.trust[e.device] = "absent"]
    [] e.kind = "forgetAll" -> [s EXCEPT !.trust = Default.trust]

\* Whether the edit is written at all: update_trusted_device_permission
\* returns before it saves when there is no such device.
IsWritten(s, e) ==
  e.kind \in {"allow", "deny"} => s.trust[e.device] # "absent"

OnePerName(s) == \A p, q \in s.presets : p.name.word = q.name.word => p = q
=============================================================================
