--------------------------- MODULE HostStoreProofs ---------------------------
(***************************************************************************)
(* The safety of HostStore, and its refinement of DurableSettings, for all *)
(* words, devices, configurations, process ids and bounds.                 *)
(*                                                                         *)
(* The properties are not inductive: what a replacement makes of a file    *)
(* was decided when the operation began, steps and faults earlier.  Inv    *)
(* says of every operation under way what it will leave (Job...), and that *)
(* what can be read is what the operator was told even while it is under   *)
(* way (ToldHolds).                                                        *)
(***************************************************************************)
EXTENDS HostStore, TLAPS

(***************************************************************************)
(* Reading and editing.                                                    *)
(***************************************************************************)
LEMMA ReadConfigInRange ==
  ASSUME NEW c \in Stored
  PROVE  /\ ReadConfig(c) \in Stored
         /\ ReadConfig(ReadConfig(c)) = ReadConfig(c)
         /\ ReadConfig(c) # NoConfig
BY SettingsAssumption DEF Stored, ReadConfig

LEMMA ReadEncoderTwice ==
  ASSUME NEW c \in Stored \cup {NoConfig}
  PROVE  /\ ReadEncoder(c) \in Stored \cup {NoConfig}
         /\ ReadEncoder(ReadEncoder(c)) = ReadEncoder(c)
BY ReadConfigInRange DEF ReadEncoder

LEMMA SettingsFields ==
  ASSUME NEW s \in Settings
  PROVE  /\ s.encoder \in Stored \cup {NoConfig}
         /\ s.presets \in SUBSET Preset
         /\ s.trust \in [Devices -> {"absent", "allowed", "denied"}]
BY DEF Settings

LEMMA DefaultIsSettings ==
  /\ Default \in Settings /\ OnePerName(Default)
  /\ Default.encoder = NoConfig
BY DEF Default, Settings, OnePerName

LEMMA ReadPresetsTyped ==
  ASSUME NEW presets \in SUBSET Preset
  PROVE  ReadPresets(presets) \in SUBSET Preset
BY ReadConfigInRange DEF ReadPresets, Preset

LEMMA ReadSettingsTyped ==
  ASSUME NEW s \in Settings
  PROVE  /\ ReadSettings(s) \in Settings
         /\ ReadSettings(s).encoder = ReadEncoder(s.encoder)
         /\ ReadSettings(s).presets = ReadPresets(s.presets)
<1>1. s.encoder \in Stored \cup {NoConfig} /\ s.presets \in SUBSET Preset
  BY SettingsFields
<1>2. ReadEncoder(s.encoder) \in Stored \cup {NoConfig}
  BY <1>1, ReadEncoderTwice
<1>3. ReadPresets(s.presets) \in SUBSET Preset
  BY <1>1, ReadPresetsTyped
<1> QED BY <1>2, <1>3 DEF ReadSettings, Settings

LEMMA ReadDefault == ReadSettings(Default) = Default
<1>1. ReadPresets({}) = {} BY DEF ReadPresets
<1>2. ReadEncoder(NoConfig) = NoConfig BY DEF ReadEncoder
<1>3. Default.encoder = NoConfig /\ Default.presets = {}
  BY DEF Default
<1>4. ReadSettings(Default) = [Default EXCEPT !.encoder = NoConfig, !.presets = {}]
  BY <1>1, <1>2, <1>3 DEF ReadSettings
<1> QED BY <1>4 DEF Default

LEMMA ReadKeepsNames ==
  ASSUME NEW s \in Settings, OnePerName(s)
  PROVE  OnePerName(ReadSettings(s))
<1>1. ReadSettings(s).presets = ReadPresets(s.presets)
  BY ReadSettingsTyped
<1>2. \A p, q \in ReadPresets(s.presets) : p.name.word = q.name.word => p = q
  <2> SUFFICES ASSUME NEW a \in s.presets, NEW b \in s.presets, a.name.word = b.name.word
               PROVE  a = b
    BY DEF ReadPresets
  <2> QED BY DEF OnePerName
<1> QED BY <1>1, <1>2 DEF OnePerName

LEMMA UpsertedTyped ==
  ASSUME NEW presets \in SUBSET Preset, NEW p \in Preset,
         \A a, b \in presets : a.name.word = b.name.word => a = b
  PROVE  /\ Upserted(presets, p) \in SUBSET Preset
         /\ \A a, b \in Upserted(presets, p) : a.name.word = b.name.word => a = b
BY DEF Upserted, SameName

LEMMA EditedTyped ==
  ASSUME NEW s \in Settings, NEW e \in Edits
  PROVE  /\ Edited(s, e) \in Settings
         /\ OnePerName(s) => OnePerName(Edited(s, e))
         /\ Edited(s, e).encoder = CASE e.kind = "save" -> e.config
                                     [] e.kind = "clear" -> NoConfig
                                     [] OTHER -> s.encoder
<1> USE SettingsFields
<1>1. CASE e \in [kind: {"save"}, config: Stored]
  BY <1>1 DEF Edited, Settings, OnePerName
<1>2. CASE e \in [kind: {"savePreset"}, name: Spellings, config: Stored]
  <2> DEFINE p == [name |-> e.name, config |-> e.config]
  <2>1. p \in Preset /\ e.kind = "savePreset" BY <1>2 DEF Preset
  <2>2. Edited(s, e) = [s EXCEPT !.presets = Upserted(@, p)]
    BY <2>1 DEF Edited
  <2>3. Upserted(s.presets, p) \in SUBSET Preset
    BY <2>1 DEF Upserted
  <2>4. OnePerName(s) => \A a, b \in Upserted(s.presets, p) : a.name.word = b.name.word => a = b
    BY <2>1, UpsertedTyped DEF OnePerName
  <2> QED BY <2>1, <2>2, <2>3, <2>4 DEF Settings, OnePerName
<1>3. CASE e \in [kind: {"deletePreset"}, name: Spellings]
  <2>1. Edited(s, e) = [s EXCEPT !.presets = WithoutPreset(@, e.name)] /\ e.kind = "deletePreset"
    BY <1>3 DEF Edited
  <2>2. WithoutPreset(s.presets, e.name) \subseteq s.presets
    BY DEF WithoutPreset
  <2> QED BY <2>1, <2>2 DEF Settings, OnePerName
<1>4. CASE e \in [kind: {"clear", "forgetAll"}]
  BY <1>4, DefaultIsSettings DEF Edited, Settings, OnePerName
<1>5. CASE e \in [kind: {"approve", "forget", "allow", "deny"}, device: Devices]
  BY <1>5 DEF Edited, Settings, OnePerName
<1> QED BY <1>1, <1>2, <1>3, <1>4, <1>5 DEF Edits

(***************************************************************************)
(* The invariant.                                                          *)
(***************************************************************************)
Writing == job.at \in {"write", "replace", "remove"}

\* An identity is written only while the host starts, and after the file it
\* replaces was moved away.
JobOnIdentity ==
  job.at # "idle" /\ job.file = "identity" =>
    /\ proc = "identity"
    /\ key \in 1..MaxKeys
    /\ Writing => status["identity"] = "absent"

\* Settings are written either by a start that found them unreadable, or by a
\* command, and then as the edit of what the operator was told.
JobOnSettings ==
  job.at # "idle" /\ job.file = "settings" =>
    \/ /\ proc = "settings"
       /\ job.at = "quarantine" => status["settings"] = "corrupt"
       /\ Writing => status["settings"] = "absent" /\ job.new = Default
    \/ /\ proc = "running" /\ Writing
       /\ job.edit \in Edits
       /\ job.new = Edited(told, job.edit)
       /\ job.edit.kind = "clear" => override = NoConfig

\* A key taken up is in the file or was damaged there.
KeyHolds ==
  /\ status["identity"] = "whole" => savedKey \in 1..MaxKeys
  /\ proc \in {"settings", "running"} =>
       \/ status["identity"] = "whole" /\ savedKey = key
       \/ status["identity"] = "corrupt" /\ key \in destroyed

\* Also while an operation is under way, and also of a damaged file.
ToldHolds ==
  /\ Loaded = told
  /\ ReadEncoder(told.encoder) = told.encoder

Clearing == Writing /\ job.file = "settings" /\ job.edit.kind = "clear"

OverrideHolds ==
  proc = "running" /\ ~unsaved /\ ~Clearing => ReadEncoder(override) = told.encoder

Inv == /\ StoreTypeOK
       /\ JobOnIdentity /\ JobOnSettings
       /\ KeyHolds /\ IdentityNeverDestroyed
       /\ ToldHolds /\ OverrideHolds

LEMMA InvInit == StoreInit => Inv
<1> SUFFICES ASSUME StoreInit PROVE Inv
  OBVIOUS
<1> USE DefaultIsSettings, StoreAssumption DEF StoreInit, NoJob
<1>1. StoreTypeOK
  <2>1. saved \in Settings /\ told \in Settings /\ OnePerName(saved)
    BY DefaultIsSettings
  <2>2. job \in Jobs /\ status \in [Files -> {"absent", "whole", "corrupt"}]
    BY DEF Jobs
  <2>3. 0 \in 0..MaxKeys /\ 0 \in 0..MaxCommands /\ 0 \in 0..MaxFaults
    BY StoreAssumption
  <2> QED BY <2>1, <2>2, <2>3 DEF StoreTypeOK
<1>2. JobOnIdentity /\ JobOnSettings /\ KeyHolds /\ IdentityNeverDestroyed /\ OverrideHolds
  BY DEF JobOnIdentity, JobOnSettings, KeyHolds, IdentityNeverDestroyed, OverrideHolds, Files
<1>3. ToldHolds
  BY DEF ToldHolds, Loaded, Files, ReadEncoder
<1> QED BY <1>1, <1>2, <1>3 DEF Inv

(***************************************************************************)
(* What the invariant gives the properties.                                *)
(***************************************************************************)
LEMMA InvGives ==
  Inv => /\ StoreTypeOK /\ ToldIsStored /\ IdentityIsStored
         /\ IdentityNeverDestroyed /\ OverrideIsStored
<1> SUFFICES ASSUME Inv PROVE ToldIsStored /\ IdentityIsStored /\ OverrideIsStored
  BY DEF Inv
<1>1. ToldIsStored BY DEF Inv, ToldHolds, ToldIsStored
<1>2. IdentityIsStored BY DEF Inv, KeyHolds, IdentityIsStored
<1>3. OverrideIsStored
  BY DEF Inv, ToldHolds, OverrideHolds, OverrideIsStored, Clearing, Writing, Idle, NoJob
<1> QED BY <1>1, <1>2, <1>3

(***************************************************************************)
(* Every action keeps the invariant.  First the types.                     *)
(***************************************************************************)
LEMMA JobFields ==
  ASSUME StoreTypeOK
  PROVE  /\ job.at \in {"idle", "quarantine", "write", "replace", "remove"}
         /\ job.at = "idle" => job = NoJob
         /\ job.at # "idle" => job.file \in Files
         /\ Writing /\ job.file = "settings" =>
              /\ job.new \in Settings
              /\ job.edit \in {NoConfig} \cup Edits
              /\ \A a \in {"write", "replace", "remove"} : [job EXCEPT !.at = a] \in Jobs
         /\ Writing /\ job.file = "identity" =>
              \A a \in {"write", "replace", "remove"} : [job EXCEPT !.at = a] \in Jobs
BY DEF StoreTypeOK, Jobs, NoJob, Files, Writing

\* What every saved or told value is.
LEMMA ToldTyped ==
  ASSUME Inv
  PROVE  /\ told \in Settings /\ Loaded \in Settings
         /\ OnePerName(told) /\ OnePerName(Loaded)
<1>1. saved \in Settings /\ OnePerName(saved) /\ told \in Settings
  BY DEF Inv, StoreTypeOK
<1>2. Loaded \in Settings /\ OnePerName(Loaded)
  BY <1>1, DefaultIsSettings, ReadSettingsTyped, ReadKeepsNames DEF Loaded
<1> QED BY <1>1, <1>2 DEF Inv, ToldHolds

LEMMA WriteTempKeeps == Inv /\ WriteTemp => Inv'
<1> SUFFICES ASSUME Inv, WriteTemp PROVE Inv'
  OBVIOUS
<1>0. StoreTypeOK BY DEF Inv
<1>1. PICK a \in {"replace", "remove"} : job' = [job EXCEPT !.at = a]
  BY DEF WriteTemp
<1>2. job.at = "write" /\ job.file \in Files /\ Writing
  BY <1>0, JobFields DEF WriteTemp, Writing
<1>3. job' \in Jobs
  BY <1>0, <1>1, <1>2, JobFields DEF Files
<1>4. TempName \in Files \X Pids \X Nat
  BY <1>0, <1>2 DEF TempName, StoreTypeOK
<1>5. temps' \subseteq Files \X Pids \X Nat /\ faults' \in 0..MaxFaults
  BY <1>0, <1>4, StoreAssumption DEF WriteTemp, Fault, NoFault, StoreTypeOK
<1>6. StoreTypeOK'
  BY <1>0, <1>3, <1>5 DEF WriteTemp, StoreTypeOK, memory, history
<1>7. /\ job'.at = a /\ job'.file = job.file
      /\ job.file = "settings" => job'.new = job.new /\ job'.edit = job.edit
  BY <1>0, <1>1, <1>2 DEF StoreTypeOK, Jobs, NoJob
<1>8. JobOnIdentity' /\ JobOnSettings'
  BY <1>2, <1>7 DEF Inv, JobOnIdentity, JobOnSettings, Writing, WriteTemp, memory, history
<1>9. (KeyHolds /\ IdentityNeverDestroyed /\ ToldHolds)'
  BY DEF Inv, KeyHolds, IdentityNeverDestroyed, ToldHolds, Loaded, WriteTemp, memory, history
<1>10. OverrideHolds'
  BY <1>2, <1>7 DEF Inv, OverrideHolds, Clearing, Writing, WriteTemp, memory, history
<1> QED BY <1>6, <1>8, <1>9, <1>10 DEF Inv

LEMMA ReplaceFailsKeeps == Inv /\ ReplaceFails => Inv'
<1> SUFFICES ASSUME Inv, ReplaceFails PROVE Inv'
  OBVIOUS
<1>0. StoreTypeOK BY DEF Inv
<1>1. job' = [job EXCEPT !.at = "remove"]
  BY DEF ReplaceFails
<1>2. job.at = "replace" /\ job.file \in Files /\ Writing
  BY <1>0, JobFields DEF ReplaceFails, Writing
<1>3. job' \in Jobs
  BY <1>0, <1>1, <1>2, JobFields DEF Files
<1>4. StoreTypeOK'
  BY <1>0, <1>3, StoreAssumption DEF ReplaceFails, Fault, StoreTypeOK, disk, memory, history
<1>5. /\ job'.at = "remove" /\ job'.file = job.file
      /\ job.file = "settings" => job'.new = job.new /\ job'.edit = job.edit
  BY <1>0, <1>1, <1>2 DEF StoreTypeOK, Jobs, NoJob
<1>6. JobOnIdentity' /\ JobOnSettings'
  BY <1>2, <1>5 DEF Inv, JobOnIdentity, JobOnSettings, Writing, ReplaceFails, disk, memory, history
<1>7. (KeyHolds /\ IdentityNeverDestroyed /\ ToldHolds)'
  BY DEF Inv, KeyHolds, IdentityNeverDestroyed, ToldHolds, Loaded, ReplaceFails, disk, memory, history
<1>8. OverrideHolds'
  BY <1>2, <1>5 DEF Inv, OverrideHolds, Clearing, Writing, ReplaceFails, disk, memory, history
<1> QED BY <1>4, <1>6, <1>7, <1>8 DEF Inv

\* What an operation that succeeds or fails leaves.
LEMMA ReplaceFileKeeps == Inv /\ ReplaceFile => Inv'
<1> SUFFICES ASSUME Inv, ReplaceFile PROVE Inv'
  OBVIOUS
<1>0. StoreTypeOK BY DEF Inv
<1>1. job.at = "replace" /\ Writing /\ job.file \in Files /\ job' = NoJob
  BY <1>0, JobFields DEF ReplaceFile, Writing
<1>2. job'.at = "idle" BY <1>1 DEF NoJob
<1>3. JobOnIdentity' /\ JobOnSettings'
  BY <1>2 DEF JobOnIdentity, JobOnSettings
<1>4. /\ temps' \subseteq Files \X Pids \X Nat /\ job' \in Jobs /\ seq' \in Nat
      /\ status' = [status EXCEPT ![job.file] = "whole"]
      /\ status' \in [Files -> {"absent", "whole", "corrupt"}]
      /\ UNCHANGED <<kept, pid, key, destroyed, damages, commands, faults>>
  BY <1>0, <1>1 DEF ReplaceFile, StoreTypeOK, Jobs, Replaced, NoFault
<1>a. CASE job.file = "identity"
  <2>1. proc = "identity" /\ key \in 1..MaxKeys /\ status["identity"] = "absent"
    BY <1>a, <1>1 DEF Inv, JobOnIdentity
  <2>2. /\ proc' = "settings" /\ savedKey' = key
        /\ UNCHANGED <<saved, override, told, unsaved, announced>>
    BY <1>a, <2>1 DEF ReplaceFile, Succeeds
  <2>3. status'["identity"] = "whole" /\ status'["settings"] = status["settings"]
    BY <1>a, <1>0, <1>4 DEF StoreTypeOK, Files
  <2>4. StoreTypeOK'
    BY <1>0, <1>4, <2>1, <2>2 DEF StoreTypeOK
  <2>5. KeyHolds' /\ IdentityNeverDestroyed'
    BY <1>4, <2>1, <2>2, <2>3 DEF Inv, KeyHolds, IdentityNeverDestroyed
  <2>6. ToldHolds' /\ OverrideHolds'
    BY <2>2, <2>3 DEF Inv, ToldHolds, OverrideHolds, Loaded
  <2> QED BY <1>3, <2>4, <2>5, <2>6 DEF Inv
<1>b. CASE job.file = "settings"
  <2>1. /\ saved' = job.new /\ savedKey' = savedKey
        /\ status'["settings"] = "whole" /\ status'["identity"] = status["identity"]
    BY <1>b, <1>0, <1>4 DEF ReplaceFile, StoreTypeOK, Files
  <2>2. Loaded' = ReadSettings(job.new)
    BY <2>1 DEF Loaded
  <2>a. CASE proc = "settings"
    <3>1. job.new = Default /\ status["settings"] = "absent"
      BY <1>b, <1>1, <2>a DEF Inv, JobOnSettings
    <3>2. /\ proc' = "running" /\ override' = NoConfig
          /\ announced' = announced \cup {key}
          /\ UNCHANGED <<told, unsaved>>
      BY <2>a DEF ReplaceFile, Succeeds
    <3>3. told = Default
      BY <3>1 DEF Inv, ToldHolds, Loaded
    <3>4. key \in 1..MaxKeys
      BY <1>0, <2>a DEF Inv, KeyHolds, StoreTypeOK
    <3>5. StoreTypeOK'
      BY <1>0, <1>4, <2>1, <3>1, <3>2, <3>4, DefaultIsSettings DEF StoreTypeOK
    <3>6. KeyHolds' /\ IdentityNeverDestroyed'
      BY <1>4, <2>1, <2>a, <3>2 DEF Inv, KeyHolds, IdentityNeverDestroyed
    <3>7. ToldHolds' /\ OverrideHolds'
      BY <2>2, <3>1, <3>2, <3>3, ReadDefault, DefaultIsSettings
      DEF Inv, ToldHolds, OverrideHolds, ReadEncoder
    <3> QED BY <1>3, <3>5, <3>6, <3>7 DEF Inv
  <2>b. CASE proc = "running"
    <3> DEFINE e == job.edit
    <3>1. /\ e \in Edits /\ job.new = Edited(told, e)
          /\ e.kind = "clear" => override = NoConfig
      BY <1>b, <1>1, <2>b DEF Inv, JobOnSettings
    <3>2. /\ told' = ReadSettings(Edited(told, e))
          /\ override' = IF e.kind = "save" THEN e.config ELSE override
          /\ unsaved' = IF e.kind \in {"save", "clear"} THEN FALSE ELSE unsaved
          /\ UNCHANGED <<proc, announced>>
      BY <2>b DEF ReplaceFile, Succeeds
    <3>3. /\ job.new \in Settings /\ OnePerName(job.new)
          /\ job.new.encoder = CASE e.kind = "save" -> e.config
                                 [] e.kind = "clear" -> NoConfig
                                 [] OTHER -> told.encoder
      BY <3>1, EditedTyped, ToldTyped
    <3>4. e.kind = "save" => e.config \in Stored
      BY <3>1 DEF Edits
    <3>5. told'.encoder = ReadEncoder(job.new.encoder) /\ told' \in Settings
      BY <3>1, <3>2, <3>3, ReadSettingsTyped
    <3>6. StoreTypeOK'
      BY <1>0, <1>4, <2>1, <3>2, <3>3, <3>4, <3>5 DEF StoreTypeOK
    <3>7. KeyHolds' /\ IdentityNeverDestroyed'
      BY <1>4, <2>1, <3>2 DEF Inv, KeyHolds, IdentityNeverDestroyed
    <3>8. ToldHolds'
      <4>1. Loaded' = told' BY <2>2, <3>1, <3>2
      <4>2. job.new.encoder \in Stored \cup {NoConfig} BY <3>3, SettingsFields
      <4> QED BY <4>1, <4>2, <3>5, ReadEncoderTwice DEF ToldHolds
    <3>9. OverrideHolds'
      <4>1. CASE e.kind \in {"save", "clear"}
        BY <4>1, <3>1, <3>2, <3>3, <3>5 DEF OverrideHolds
      <4>2. CASE e.kind \notin {"save", "clear"}
        <5>1. told'.encoder = told.encoder
          BY <4>2, <3>3, <3>5 DEF Inv, ToldHolds
        <5> QED BY <4>2, <5>1, <3>2 DEF Inv, OverrideHolds, Clearing
      <4> QED BY <4>1, <4>2
    <3> QED BY <1>3, <3>6, <3>7, <3>8, <3>9 DEF Inv
  <2> QED BY <1>b, <1>1, <2>a, <2>b DEF Inv, JobOnSettings
<1> QED BY <1>1, <1>a, <1>b DEF Files

\* The process ends: what is on disk and what the operator was told stay.
LEMMA DownKeeps ==
  ASSUME Inv, Down, UNCHANGED <<status, savedKey, saved, kept, told, announced, destroyed>>,
         (temps \subseteq Files \X Pids \X Nat)', pid' \in Pids, seq' \in Nat,
         damages' \in Nat, commands' \in 0..MaxCommands, faults' \in 0..MaxFaults
  PROVE  Inv'
<1>0. StoreTypeOK BY DEF Inv
<1>1. job' = NoJob /\ job'.at = "idle" /\ NoJob \in Jobs
  BY DEF Down, NoJob, Jobs
<1>a. unsaved' \in BOOLEAN /\ proc' = "down" /\ override' = NoConfig /\ key' = 0
  BY DEF Down
<1>b. key' \in 0..MaxKeys
  BY <1>a, StoreAssumption
<1>2. StoreTypeOK'
  BY <1>0, <1>1, <1>a, <1>b DEF StoreTypeOK
<1>3. JobOnIdentity' /\ JobOnSettings'
  BY <1>1 DEF JobOnIdentity, JobOnSettings
<1>4. (KeyHolds /\ IdentityNeverDestroyed /\ ToldHolds /\ OverrideHolds)'
  BY DEF Inv, KeyHolds, IdentityNeverDestroyed, ToldHolds, Loaded, OverrideHolds, Down
<1> QED BY <1>2, <1>3, <1>4 DEF Inv

LEMMA RemoveTempKeeps == Inv /\ RemoveTemp => Inv'
<1> SUFFICES ASSUME Inv, RemoveTemp PROVE Inv'
  OBVIOUS
<1>0. StoreTypeOK BY DEF Inv
<1>1. /\ (temps \subseteq Files \X Pids \X Nat)' /\ seq' \in Nat /\ pid' \in Pids
      /\ damages' \in Nat /\ commands' \in 0..MaxCommands /\ faults' \in 0..MaxFaults
      /\ UNCHANGED <<status, savedKey, saved, kept, announced, destroyed>>
  BY <1>0, StoreAssumption DEF RemoveTemp, StoreTypeOK, Fault, NoFault
<1>2. Writing /\ job.file \in Files
  BY <1>0, JobFields DEF RemoveTemp, Writing
<1>3. CASE proc # "running"
  BY <1>1, <1>3, DownKeeps DEF RemoveTemp, Fails
<1>4. CASE proc = "running"
  <2>1. /\ job' = NoJob /\ job'.at = "idle" /\ job' \in Jobs
        /\ unsaved' = (unsaved \/ job.edit.kind = "clear")
        /\ UNCHANGED <<proc, key, override, told>>
    BY <1>4 DEF RemoveTemp, Fails, NoJob, Jobs
  <2>2. unsaved' \in BOOLEAN
    BY <2>1
  <2>3. StoreTypeOK'
    BY <1>0, <1>1, <2>1, <2>2 DEF StoreTypeOK
  <2>4. JobOnIdentity' /\ JobOnSettings'
    BY <2>1 DEF JobOnIdentity, JobOnSettings
  <2>5. (KeyHolds /\ IdentityNeverDestroyed /\ ToldHolds)'
    BY <1>1, <2>1 DEF Inv, KeyHolds, IdentityNeverDestroyed, ToldHolds, Loaded
  <2>6. OverrideHolds'
    BY <2>1 DEF Inv, OverrideHolds, Clearing
  <2> QED BY <2>3, <2>4, <2>5, <2>6 DEF Inv
<1> QED BY <1>3, <1>4

LEMMA QuarantineKeeps == Inv /\ Quarantine => Inv'
<1> SUFFICES ASSUME Inv, Quarantine PROVE Inv'
  OBVIOUS
<1>0. StoreTypeOK BY DEF Inv
<1>1. job.at = "quarantine" /\ job.file \in Files /\ ~Writing
  BY <1>0, JobFields DEF Quarantine, Writing
<1>2. UNCHANGED <<savedKey, saved, temps, pid, announced, destroyed, damages, commands>>
  BY DEF Quarantine
<1>3. CASE /\ Fault /\ Down /\ UNCHANGED <<status, kept, told, seq>>
  <2>1. faults' \in 0..MaxFaults BY <1>0, <1>3, StoreAssumption DEF Fault, StoreTypeOK
  <2> QED BY <1>0, <1>2, <1>3, <2>1, DownKeeps DEF StoreTypeOK
<1>4. CASE /\ status' = [status EXCEPT ![job.file] = "absent"]
           /\ kept' = IF job.file = "identity" /\ status["identity"] = "whole"
                      THEN kept \cup {savedKey} ELSE kept
           /\ told' = IF job.file = "settings" THEN Default ELSE told
           /\ job' = Recovery(job.file)
           /\ seq' = IF status[job.file] = "absent" THEN seq ELSE seq + 1
           /\ NoFault
           /\ UNCHANGED <<proc, key, override, unsaved>>
  <2>1. Recovery(job.file) \in Jobs /\ Recovery(job.file).at = "write"
        /\ Recovery(job.file).file = job.file
    BY <1>1, DefaultIsSettings DEF Recovery, Jobs, Files
  <2>2. /\ seq' \in Nat /\ status' \in [Files -> {"absent", "whole", "corrupt"}]
        /\ kept' \subseteq 1..MaxKeys /\ told' \in Settings
    BY <1>0, <1>1, <1>4, DefaultIsSettings DEF StoreTypeOK, Files, Inv, KeyHolds
  <2>3. StoreTypeOK'
    BY <1>0, <1>2, <1>4, <2>1, <2>2 DEF StoreTypeOK, NoFault
  <2>a. CASE job.file = "identity"
    <3>1. proc = "identity" /\ key \in 1..MaxKeys
      BY <1>1, <2>a DEF Inv, JobOnIdentity
    <3>2. status'["identity"] = "absent" /\ status'["settings"] = status["settings"]
      BY <1>0, <1>4, <2>a DEF StoreTypeOK, Files
    <3>3. JobOnIdentity' /\ JobOnSettings'
      BY <1>4, <2>1, <2>a, <3>1, <3>2 DEF JobOnIdentity, JobOnSettings
    <3>4. KeyHolds' /\ IdentityNeverDestroyed'
      BY <1>2, <1>4, <2>a, <3>1, <3>2 DEF Inv, KeyHolds, IdentityNeverDestroyed
    <3>5. ToldHolds' /\ OverrideHolds'
      BY <1>2, <1>4, <2>a, <3>1, <3>2 DEF Inv, ToldHolds, OverrideHolds, Loaded
    <3> QED BY <2>3, <3>3, <3>4, <3>5 DEF Inv
  <2>b. CASE job.file = "settings"
    <3>1. proc = "settings"
      BY <1>1, <2>b DEF Inv, JobOnSettings
    <3>2. status'["settings"] = "absent" /\ status'["identity"] = status["identity"]
      BY <1>0, <1>4, <2>b DEF StoreTypeOK, Files
    <3>3. Recovery(job.file).new = Default
      BY <2>b DEF Recovery
    <3>4. JobOnIdentity' /\ JobOnSettings'
      BY <1>4, <2>1, <2>b, <3>1, <3>2, <3>3 DEF JobOnIdentity, JobOnSettings
    <3>5. KeyHolds' /\ IdentityNeverDestroyed'
      BY <1>2, <1>4, <2>b, <3>2 DEF Inv, KeyHolds, IdentityNeverDestroyed
    <3>6. ToldHolds' /\ OverrideHolds'
      BY <1>4, <2>b, <3>1, <3>2, DefaultIsSettings
      DEF ToldHolds, OverrideHolds, Loaded, ReadEncoder
    <3> QED BY <2>3, <3>4, <3>5, <3>6 DEF Inv
  <2> QED BY <1>1, <2>a, <2>b DEF Files
<1> QED BY <1>3, <1>4 DEF Quarantine

(***************************************************************************)
(* Start-up.                                                               *)
(***************************************************************************)
LEMMA IdleSteps ==
  ASSUME job = NoJob, job' = NoJob
  PROVE  /\ JobOnIdentity' /\ JobOnSettings' /\ ~Clearing /\ ~Clearing'
         /\ job' \in Jobs
BY DEF JobOnIdentity, JobOnSettings, Clearing, Writing, NoJob, Jobs

LEMMA DownIsIdle == ASSUME Inv, proc = "down" PROVE job = NoJob
BY JobFields DEF Inv, JobOnIdentity, JobOnSettings, Files

LEMMA StartProcessKeeps == Inv /\ StartProcess => Inv'
<1> SUFFICES ASSUME Inv, StartProcess PROVE Inv'
  OBVIOUS
<1>1. job = NoJob /\ job' = NoJob
  BY DownIsIdle DEF StartProcess
<1>2. StoreTypeOK'
  BY DEF Inv, StoreTypeOK, StartProcess, disk, history
<1>3. (KeyHolds /\ IdentityNeverDestroyed /\ ToldHolds /\ OverrideHolds)'
  BY DEF Inv, KeyHolds, IdentityNeverDestroyed, ToldHolds, Loaded, OverrideHolds, StartProcess,
         disk, history
<1> QED BY <1>1, <1>2, <1>3, IdleSteps DEF Inv

LEMMA ReadIdentityKeeps == Inv /\ ReadIdentity => Inv'
<1> SUFFICES ASSUME Inv, ReadIdentity PROVE Inv'
  OBVIOUS
<1>1. job = NoJob /\ job' = NoJob
  BY DEF ReadIdentity, Idle
<1>2. StoreTypeOK'
  BY DEF Inv, StoreTypeOK, ReadIdentity, disk, history
<1>3. (KeyHolds /\ IdentityNeverDestroyed /\ ToldHolds /\ OverrideHolds)'
  BY DEF Inv, KeyHolds, IdentityNeverDestroyed, ToldHolds, Loaded, OverrideHolds, ReadIdentity,
         disk, history
<1> QED BY <1>1, <1>2, <1>3, IdleSteps DEF Inv

LEMMA RecoverIdentityKeeps == Inv /\ RecoverIdentity => Inv'
<1> SUFFICES ASSUME Inv, RecoverIdentity PROVE Inv'
  OBVIOUS
<1>1. /\ key' \in 1..MaxKeys /\ proc = "identity"
      /\ job' = [at |-> "quarantine", file |-> "identity"] /\ job' \in Jobs
      /\ UNCHANGED <<disk, proc, pid, seq, override, history, commands>>
  BY DEF RecoverIdentity, Jobs, Files
<1>2. faults' \in 0..MaxFaults
  BY StoreAssumption DEF Inv, StoreTypeOK, RecoverIdentity, Fault, NoFault
<1>3. StoreTypeOK'
  BY <1>1, <1>2 DEF Inv, StoreTypeOK, disk, history
<1>4. JobOnIdentity' /\ JobOnSettings'
  BY <1>1 DEF JobOnIdentity, JobOnSettings, Writing
<1>5. (KeyHolds /\ IdentityNeverDestroyed /\ ToldHolds /\ OverrideHolds)'
  BY <1>1 DEF Inv, KeyHolds, IdentityNeverDestroyed, ToldHolds, Loaded, OverrideHolds,
              disk, history
<1> QED BY <1>3, <1>4, <1>5 DEF Inv

LEMMA ReadHostSettingsKeeps == Inv /\ ReadHostSettings => Inv'
<1> SUFFICES ASSUME Inv, ReadHostSettings PROVE Inv'
  OBVIOUS
<1>1. job = NoJob /\ job' = NoJob
  BY DEF ReadHostSettings, Idle
<1>2. Loaded.encoder \in Stored \cup {NoConfig} /\ Loaded = told
  BY ToldTyped, SettingsFields DEF Inv, ToldHolds
<1>3. key \in 1..MaxKeys
  BY DEF Inv, StoreTypeOK, KeyHolds, ReadHostSettings
<1>4. StoreTypeOK'
  BY <1>2, <1>3 DEF Inv, StoreTypeOK, ReadHostSettings, disk
<1>5. (KeyHolds /\ IdentityNeverDestroyed)'
  BY DEF Inv, KeyHolds, IdentityNeverDestroyed, ReadHostSettings, disk
<1>6. (ToldHolds /\ OverrideHolds)'
  BY <1>2 DEF Inv, ToldHolds, Loaded, OverrideHolds, ReadHostSettings, disk
<1> QED BY <1>1, <1>4, <1>5, <1>6, IdleSteps DEF Inv

LEMMA RecoverSettingsKeeps == Inv /\ RecoverSettings => Inv'
<1> SUFFICES ASSUME Inv, RecoverSettings PROVE Inv'
  OBVIOUS
<1>1. /\ proc = "settings" /\ status["settings"] = "corrupt"
      /\ job' = [at |-> "quarantine", file |-> "settings"] /\ job' \in Jobs
      /\ UNCHANGED <<disk, proc, memory, history, commands, faults>>
  BY DEF RecoverSettings, Loads, Jobs, Files
<1>2. StoreTypeOK'
  BY <1>1 DEF Inv, StoreTypeOK, disk, memory, history
<1>3. JobOnIdentity' /\ JobOnSettings'
  BY <1>1 DEF JobOnIdentity, JobOnSettings, Writing, disk
<1>4. (KeyHolds /\ IdentityNeverDestroyed /\ ToldHolds /\ OverrideHolds)'
  BY <1>1 DEF Inv, KeyHolds, IdentityNeverDestroyed, ToldHolds, Loaded, OverrideHolds,
              disk, memory, history
<1> QED BY <1>2, <1>3, <1>4 DEF Inv

LEMMA SettingsUnreadableKeeps == Inv /\ SettingsUnreadable => Inv'
<1> SUFFICES ASSUME Inv, SettingsUnreadable PROVE Inv'
  OBVIOUS
<1>1. faults' \in 0..MaxFaults
  BY StoreAssumption DEF Inv, StoreTypeOK, SettingsUnreadable, Fault
<1>2. Down /\ UNCHANGED <<disk, pid, seq, told, announced, destroyed, damages, commands>>
  BY DEF SettingsUnreadable
<1> QED BY <1>1, <1>2, DownKeeps DEF Inv, StoreTypeOK, disk

(***************************************************************************)
(* Commands, crashes and damage.                                           *)
(***************************************************************************)
LEMMA UpdateKeeps == ASSUME NEW e \in Edits PROVE Inv /\ Update(e) => Inv'
<1> SUFFICES ASSUME Inv, Update(e) PROVE Inv'
  OBVIOUS
<1>0. StoreTypeOK BY DEF Inv
<1> DEFINE new == [at |-> "write", file |-> "settings", edit |-> e, new |-> Edited(Loaded, e)]
<1>1. /\ proc = "running" /\ job = NoJob /\ job' = new
      /\ override' = Cleared(e)
      /\ UNCHANGED <<disk, proc, pid, seq, key, history, faults>>
  BY DEF Update, Command, Idle
<1>2. Edited(Loaded, e) \in Settings /\ Loaded = told
  BY ToldTyped, EditedTyped DEF Inv, ToldHolds
<1>3. job' \in Jobs
  BY <1>1, <1>2 DEF Jobs, Files
<1>4. commands' \in 0..MaxCommands
  BY <1>0, StoreAssumption DEF Update, Command, StoreTypeOK
<1>5. override' \in Stored \cup {NoConfig}
  BY <1>0, <1>1 DEF Cleared, StoreTypeOK
<1>6. StoreTypeOK'
  BY <1>0, <1>1, <1>3, <1>4, <1>5 DEF StoreTypeOK, disk, history
<1>7. JobOnIdentity' /\ JobOnSettings'
  BY <1>1, <1>2 DEF JobOnIdentity, JobOnSettings, Writing, Cleared, history
<1>8. (KeyHolds /\ IdentityNeverDestroyed /\ ToldHolds)'
  BY <1>1 DEF Inv, KeyHolds, IdentityNeverDestroyed, ToldHolds, Loaded, disk, history
<1>9. OverrideHolds'
  BY <1>1 DEF Inv, OverrideHolds, Clearing, Writing, Cleared, NoJob, history
<1> QED BY <1>6, <1>7, <1>8, <1>9 DEF Inv

\* A command that only touches the memory, or nothing.
LEMMA MemoryKeeps ==
  ASSUME Inv, Command, override' \in Stored \cup {NoConfig}, unsaved' \in BOOLEAN,
         (override' = override /\ unsaved' = unsaved) \/ unsaved',
         faults' \in 0..MaxFaults,
         UNCHANGED <<disk, proc, job, pid, seq, key, told, announced, destroyed, damages>>
  PROVE  Inv'
<1>1. job = NoJob /\ job' = NoJob
  BY DEF Command, Idle
<1>2. commands' \in 0..MaxCommands
  BY StoreAssumption DEF Inv, Command, StoreTypeOK
<1>3. StoreTypeOK'
  BY <1>2 DEF Inv, StoreTypeOK, disk
<1>4. (KeyHolds /\ IdentityNeverDestroyed /\ ToldHolds)'
  BY DEF Inv, KeyHolds, IdentityNeverDestroyed, ToldHolds, Loaded, disk
<1>5. OverrideHolds'
  BY <1>1, IdleSteps DEF Inv, OverrideHolds
<1> QED BY <1>1, <1>3, <1>4, <1>5, IdleSteps DEF Inv

LEMMA UpdateUnreadableKeeps == ASSUME NEW e \in Edits PROVE Inv /\ UpdateUnreadable(e) => Inv'
<1> SUFFICES ASSUME Inv, UpdateUnreadable(e) PROVE Inv'
  OBVIOUS
<1>1. faults' \in 0..MaxFaults
  BY StoreAssumption DEF Inv, StoreTypeOK, UpdateUnreadable, Fault, NoFault
<1>2. unsaved' \in BOOLEAN
  BY DEF UpdateUnreadable
<1>3. override' \in Stored \cup {NoConfig}
  BY DEF Inv, StoreTypeOK, UpdateUnreadable, Cleared
<1>4. (override' = override /\ unsaved' = unsaved) \/ unsaved'
  <2>1. CASE e.kind = "clear" BY <2>1 DEF UpdateUnreadable
  <2>2. CASE e.kind # "clear"
    <3>1. override' = override BY <2>2 DEF UpdateUnreadable, Cleared
    <3>2. unsaved \in BOOLEAN BY DEF Inv, StoreTypeOK
    <3>3. unsaved' = unsaved BY <2>2, <3>2 DEF UpdateUnreadable
    <3> QED BY <3>1, <3>3
  <2> QED BY <2>1, <2>2
<1> QED BY <1>1, <1>2, <1>3, <1>4, MemoryKeeps DEF UpdateUnreadable

LEMMA SetOverrideKeeps == Inv /\ SetOverride => Inv'
<1> SUFFICES ASSUME Inv, SetOverride PROVE Inv'
  OBVIOUS
<1>1. override' \in Stored
  BY ReadConfigInRange DEF SetOverride, Stored
<1>2. unsaved' \in BOOLEAN /\ unsaved' /\ faults' \in 0..MaxFaults
  BY DEF SetOverride, Inv, StoreTypeOK
<1> QED BY <1>1, <1>2, MemoryKeeps DEF SetOverride

LEMMA ApplyPresetKeeps == Inv /\ ApplyPreset => Inv'
<1> SUFFICES ASSUME Inv, ApplyPreset PROVE Inv'
  OBVIOUS
<1>1. override' \in Stored
  BY ToldTyped, SettingsFields DEF ApplyPreset, Preset
<1>2. unsaved' \in BOOLEAN /\ unsaved' /\ faults' \in 0..MaxFaults
  BY DEF ApplyPreset, Inv, StoreTypeOK
<1> QED BY <1>1, <1>2, MemoryKeeps DEF ApplyPreset

LEMMA CrashKeeps == Inv /\ Crash => Inv'
<1> SUFFICES ASSUME Inv, Crash PROVE Inv'
  OBVIOUS
<1>1. faults' \in 0..MaxFaults
  BY StoreAssumption DEF Inv, StoreTypeOK, Crash, Fault
<1> QED BY <1>1, DownKeeps DEF Crash, Inv, StoreTypeOK, disk

LEMMA DamageKeeps == ASSUME NEW f \in Files PROVE Inv /\ DamageFile(f) => Inv'
<1> SUFFICES ASSUME Inv, DamageFile(f) PROVE Inv'
  OBVIOUS
<1>0. StoreTypeOK BY DEF Inv
<1>1. /\ status[f] = "whole" /\ status' = [status EXCEPT ![f] = "corrupt"]
      /\ UNCHANGED <<savedKey, saved, temps, kept, proc, job, memory, told, announced,
                     unsaved, commands>>
  BY DEF DamageFile
<1>2. /\ faults' \in 0..MaxFaults /\ damages' \in Nat
      /\ destroyed' \subseteq 1..MaxKeys
      /\ destroyed' = IF f = "identity" THEN destroyed \cup {savedKey} ELSE destroyed
  BY <1>0, StoreAssumption DEF DamageFile, Fault, StoreTypeOK, Inv, KeyHolds
<1>3. StoreTypeOK'
  BY <1>0, <1>1, <1>2 DEF StoreTypeOK, memory
<1>4. /\ status'[f] = "corrupt"
      /\ \A g \in Files : g # f => status'[g] = status[g]
  BY <1>0, <1>1 DEF StoreTypeOK
<1>5. JobOnIdentity' /\ JobOnSettings'
  BY <1>1, <1>4 DEF Inv, JobOnIdentity, JobOnSettings, Writing, Files, memory
<1>6. KeyHolds' /\ IdentityNeverDestroyed'
  BY <1>1, <1>2, <1>4 DEF Inv, KeyHolds, IdentityNeverDestroyed, Files, memory
<1>7. ToldHolds' /\ OverrideHolds'
  BY <1>1, <1>4 DEF Inv, ToldHolds, Loaded, OverrideHolds, Clearing, Writing, Files, memory
<1> QED BY <1>3, <1>5, <1>6, <1>7 DEF Inv

(***************************************************************************)
(* The theorems.                                                           *)
(***************************************************************************)
LEMMA InvNext == Inv /\ [StoreNext]_vars => Inv'
<1> SUFFICES ASSUME Inv, [StoreNext]_vars PROVE Inv'
  OBVIOUS
<1>1. CASE FileStep
  BY <1>1, WriteTempKeeps, ReplaceFileKeeps, ReplaceFailsKeeps, RemoveTempKeeps, QuarantineKeeps
  DEF FileStep
<1>2. CASE StartStep
  BY <1>2, StartProcessKeeps, ReadIdentityKeeps, RecoverIdentityKeeps, ReadHostSettingsKeeps,
     RecoverSettingsKeeps, SettingsUnreadableKeeps
  DEF StartStep
<1>3. CASE CommandStep
  BY <1>3, UpdateKeeps, UpdateUnreadableKeeps, SetOverrideKeeps, ApplyPresetKeeps
  DEF CommandStep
<1>4. CASE Crash \/ \E f \in Files : DamageFile(f)
  BY <1>4, CrashKeeps, DamageKeeps
<1>5. CASE UNCHANGED vars
  <2> USE <1>5 DEF vars, disk, memory, history
  <2>1. StoreTypeOK' BY DEF Inv, StoreTypeOK
  <2>2. JobOnIdentity' /\ JobOnSettings'
    BY DEF Inv, JobOnIdentity, JobOnSettings, Writing
  <2>3. (KeyHolds /\ IdentityNeverDestroyed /\ ToldHolds /\ OverrideHolds)'
    BY DEF Inv, KeyHolds, IdentityNeverDestroyed, ToldHolds, Loaded, OverrideHolds, Clearing, Writing
  <2> QED BY <2>1, <2>2, <2>3 DEF Inv
<1> QED BY <1>1, <1>2, <1>3, <1>4, <1>5 DEF StoreNext

\* The invariant holds in every behaviour.
THEOREM StoreInvariance == StoreSpec => []Inv
<1>1. StoreInit => Inv BY InvInit
<1>2. Inv /\ [StoreNext]_vars => Inv' BY InvNext
<1> QED BY <1>1, <1>2, PTL DEF StoreSpec

\* The types, and one preset per name, whatever was edited and read back.
THEOREM StoreTypeCorrect == StoreSpec => []StoreTypeOK
BY StoreInvariance, InvGives, PTL

\* What the operator was told is stored is stored, after every failed command
\* and every crash, for any settings and any number of faults.
THEOREM WhatWasToldIsStored == StoreSpec => []ToldIsStored
BY StoreInvariance, InvGives, PTL

\* A running host shows clients only a key its next start will find.
THEOREM ShownIdentityIsStored == StoreSpec => []IdentityIsStored
BY StoreInvariance, InvGives, PTL

\* The host itself destroys no key that it has ever shown.
THEOREM NoIdentityDestroyed == StoreSpec => []IdentityNeverDestroyed
BY StoreInvariance, InvGives, PTL

\* The override in memory is the stored one unless the operator was told so.
THEOREM OverrideIsTheStoredOne == StoreSpec => []OverrideIsStored
BY StoreInvariance, InvGives, PTL

(***************************************************************************)
(* The refinement.                                                         *)
(***************************************************************************)
Readable == status["settings"] # "corrupt"

\* DurableSettings extends HostSettings, too: its operators are these.
LEMMA SameEdits == DS!Edits = Edits
BY DEF DS!Edits, Edits, DS!Spellings, Spellings, DS!Stored, Stored

LEMMA SameReading == \A s : DS!ReadSettings(s) = ReadSettings(s)
BY DEF DS!ReadSettings, ReadSettings, DS!ReadEncoder, ReadEncoder, DS!ReadPresets, ReadPresets,
       DS!ReadConfig, ReadConfig

LEMMA SameEditing == \A s, e : DS!Edited(s, e) = Edited(s, e)
BY DEF DS!Edited, Edited, DS!Upserted, Upserted, DS!WithoutPreset, WithoutPreset,
       DS!SameName, SameName, DS!Default, Default

LEMMA SameValue ==
  ASSUME UNCHANGED <<status, saved, damages>>
  PROVE  UNCHANGED <<Loaded, Readable, damages>>
BY DEF Loaded, Readable

LEMMA StepRefines ==
  ASSUME Inv, [StoreNext]_vars
  PROVE  [DS!Next]_<<Loaded, Readable, damages>>
<1> USE DEF Readable
<1>0. StoreTypeOK BY DEF Inv
<1>1. CASE ReplaceFile
  <2>1. job.at = "replace" /\ Writing /\ job.file \in Files
    BY <1>0, <1>1, JobFields DEF ReplaceFile, Writing
  <2>2. status' = [status EXCEPT ![job.file] = "whole"] /\ UNCHANGED damages
    BY <1>1 DEF ReplaceFile, Replaced
  <2>a. CASE job.file = "identity"
    <3>1. status'["settings"] = status["settings"] /\ UNCHANGED saved
      BY <1>0, <1>1, <2>2, <2>a DEF StoreTypeOK, Files, ReplaceFile
    <3> QED BY <2>2, <3>1 DEF Loaded
  <2>b. CASE job.file = "settings"
    <3>1. status'["settings"] = "whole" /\ saved' = job.new
      BY <1>0, <1>1, <2>2, <2>b DEF StoreTypeOK, Files, ReplaceFile
    <3>2. Loaded' = ReadSettings(job.new) /\ Readable'
      BY <3>1 DEF Loaded
    <3>3. CASE proc = "settings"
      <4>1. status["settings"] = "absent" /\ job.new = Default
        BY <2>1, <2>b, <3>3 DEF Inv, JobOnSettings
      <4>2. Loaded = Default /\ Readable /\ Loaded' = Default
        BY <4>1, <3>2, ReadDefault DEF Loaded
      <4> QED BY <4>2, <3>2, <2>2
    <3>4. CASE proc = "running"
      <4>1. job.edit \in Edits /\ job.new = Edited(Loaded, job.edit)
        BY <2>1, <2>b, <3>4 DEF Inv, JobOnSettings, ToldHolds
      <4>2. Loaded' = DS!ReadSettings(DS!Edited(Loaded, job.edit))
        BY <4>1, <3>2, SameReading, SameEditing
      <4>3. job.edit \in DS!Edits
        BY <4>1, SameEdits
      <4>4. DS!Edit
        BY <4>2, <4>3, <3>2, <2>2 DEF DS!Edit
      <4> QED BY <4>4 DEF DS!Next
    <3> QED BY <2>1, <2>b, <3>3, <3>4 DEF Inv, JobOnSettings
  <2> QED BY <2>1, <2>a, <2>b DEF Files
<1>2. CASE Quarantine
  <2>1. job.at = "quarantine" /\ job.file \in Files
    BY <1>0, <1>2, JobFields DEF Quarantine
  <2>2. UNCHANGED <<saved, damages>>
    BY <1>2 DEF Quarantine
  <2>3. CASE UNCHANGED status
    BY <2>2, <2>3, SameValue
  <2>4. CASE status' = [status EXCEPT ![job.file] = "absent"]
    <3>a. CASE job.file = "identity"
      <4>1. status'["settings"] = status["settings"]
        BY <1>0, <2>4, <3>a DEF StoreTypeOK, Files
      <4> QED BY <2>2, <4>1 DEF Loaded
    <3>b. CASE job.file = "settings"
      <4>1. ~Readable
        BY <2>1, <3>b DEF Inv, JobOnSettings, Writing
      <4>2. status'["settings"] = "absent"
        BY <1>0, <2>4, <3>b DEF StoreTypeOK, Files
      <4>3. Loaded' = Default /\ Readable'
        BY <4>2 DEF Loaded
      <4> QED BY <2>2, <4>1, <4>3 DEF DS!Next, DS!Reset, DS!Default, Default
    <3> QED BY <2>1, <3>a, <3>b DEF Files
  <2> QED BY <1>2, <2>3, <2>4 DEF Quarantine
<1>3. CASE \E f \in Files : DamageFile(f)
  <2>1. PICK f \in Files : DamageFile(f)
    BY <1>3
  <2>2. /\ status[f] = "whole" /\ status' = [status EXCEPT ![f] = "corrupt"]
        /\ damages' = IF f = "settings" THEN damages + 1 ELSE damages
        /\ UNCHANGED saved
    BY <2>1 DEF DamageFile
  <2>a. CASE f = "identity"
    <3>1. status'["settings"] = status["settings"]
      BY <1>0, <2>2, <2>a DEF StoreTypeOK, Files
    <3> QED BY <2>2, <2>a, <3>1 DEF Loaded
  <2>b. CASE f = "settings"
    <3>1. status'["settings"] = "corrupt"
      BY <1>0, <2>2, <2>b DEF StoreTypeOK, Files
    <3>2. Loaded' = Loaded /\ ~Readable'
      BY <2>2, <2>b, <3>1 DEF Loaded
    <3> QED BY <2>2, <2>b, <3>2 DEF DS!Next, DS!Damage
  <2> QED BY <2>a, <2>b DEF Files
<1>4. CASE WriteTemp \/ ReplaceFails \/ RemoveTemp \/ StartStep \/ CommandStep \/ Crash
           \/ UNCHANGED vars
  <2>1. UNCHANGED <<status, saved, damages>>
    BY <1>4 DEF WriteTemp, ReplaceFails, RemoveTemp, StartStep, StartProcess, ReadIdentity,
      RecoverIdentity, ReadHostSettings, RecoverSettings, SettingsUnreadable, CommandStep,
      Update, UpdateUnreadable, SetOverride, ApplyPreset, Crash, vars, disk, memory, history
  <2> QED BY <2>1, SameValue
<1> QED BY <1>1, <1>2, <1>3, <1>4 DEF StoreNext, FileStep

LEMMA InitRefines == StoreInit => DS!Init
BY DEF StoreInit, DS!Init, DS!Default, Default, Loaded, Files

\* The settings file implements a value that changes by whole edits: no crash
\* and no failing call between the steps of atomic_write ever shows.
THEOREM StoreImplementsDurable == StoreSpec => SettingsAreDurable
<1>1. StoreInit => DS!Init BY InitRefines
<1>2. Inv /\ [StoreNext]_vars => [DS!Next]_<<Loaded, status["settings"] # "corrupt", damages>>
  BY StepRefines DEF Readable
<1> QED BY <1>1, <1>2, StoreInvariance, PTL DEF StoreSpec, SettingsAreDurable, DS!Spec
=============================================================================
