----------------------------- MODULE HostStore -----------------------------
(***************************************************************************)
(* The files of the Windows host, its identity and its settings, through   *)
(* start-up, console commands, failing calls, damaged files and crashes    *)
(* (persistence.rs, secrets.rs, settings.rs, main.rs).                     *)
(*                                                                         *)
(* One thread reads and writes both files, one operation at a time.  An    *)
(* operation is split where a crash can fall between two calls: the        *)
(* temporary file, its replacement of the old one, its removal after an    *)
(* error, the renaming of an unreadable file.  A leftover temporary file   *)
(* is known by the process id and sequence number in its name, which a     *)
(* later process can meet again.                                           *)
(***************************************************************************)
EXTENDS HostSettings, FiniteSets

CONSTANTS
  Pids,         \* process ids the system hands out, again and again
  MaxKeys,      \* bound: identities generated
  MaxCommands,  \* bound: console commands and approvals
  MaxFaults     \* bound: crashes, failing calls and damaged files

ASSUME StoreAssumption == MaxKeys \in Nat /\ MaxCommands \in Nat /\ MaxFaults \in Nat

VARIABLES
  status,       \* of each file: "absent", "whole" or "corrupt"
  savedKey,     \* the key in the identity file (0: none was ever written)
  saved,        \* the settings in the settings file
  temps,        \* names of temporary files on disk
  kept,         \* keys in quarantined identity files
  proc,         \* "down", "identity" and "settings" while starting, "running"
  pid, seq,     \* process id, TEMP_SEQUENCE
  job,          \* the operation on a file in progress
  key,          \* host_identity in memory (0: none)
  override,     \* host_encoder_override in memory
  told,         \* history: the settings the operator was told are stored
  announced,    \* history: keys a running host has shown to clients
  destroyed,    \* history: keys in identity files damaged from outside
  unsaved,      \* history: the operator was told that override is not stored
  damages,      \* history: how often the settings file was damaged
  commands, faults

disk == <<status, savedKey, saved, temps, kept>>
memory == <<pid, seq, key, override>>
history == <<told, announced, destroyed, unsaved, damages>>
vars == <<disk, proc, job, memory, history, commands, faults>>

Files == {"identity", "settings"}
NoJob == [at |-> "idle"]

\* At "quarantine" the file is still in place; "write" creates, fills and
\* syncs the temporary file, "replace" renames it, "remove" follows an error.
Jobs == {NoJob}
  \cup [at: {"quarantine"}, file: Files]
  \cup [at: {"write", "replace", "remove"}, file: {"identity"}]
  \cup [at: {"write", "replace", "remove"}, file: {"settings"},
        new: Settings, edit: {NoConfig} \cup Edits]

StoreTypeOK ==
  /\ status \in [Files -> {"absent", "whole", "corrupt"}]
  /\ savedKey \in 0..MaxKeys /\ key \in 0..MaxKeys
  /\ saved \in Settings /\ told \in Settings /\ OnePerName(saved)
  /\ temps \subseteq Files \X Pids \X Nat
  /\ kept \cup announced \cup destroyed \subseteq 1..MaxKeys
  /\ proc \in {"down", "identity", "settings", "running"}
  /\ pid \in Pids /\ seq \in Nat
  /\ job \in Jobs
  /\ override \in Stored \cup {NoConfig}
  /\ unsaved \in BOOLEAN
  /\ damages \in Nat /\ commands \in 0..MaxCommands /\ faults \in 0..MaxFaults

StoreInit ==
  /\ status = [f \in Files |-> "absent"] /\ savedKey = 0 /\ saved = Default
  /\ temps = {} /\ kept = {}
  /\ proc = "down" /\ pid \in Pids /\ seq = 1 /\ job = NoJob
  /\ key = 0 /\ override = NoConfig
  /\ told = Default /\ announced = {} /\ destroyed = {} /\ unsaved = FALSE
  /\ damages = 0 /\ commands = 0 /\ faults = 0

-----------------------------------------------------------------------------
(* Helpers *)

Fault == faults < MaxFaults /\ faults' = faults + 1
NoFault == UNCHANGED faults
Idle == job = NoJob

\* HostSettingsStore::load: an absent file reads as the default.
Loaded == IF status["settings"] = "absent" THEN Default ELSE ReadSettings(saved)
Loads == status["settings"] # "corrupt"

TempName == <<job.file, pid, seq>>

\* The process ends with an error while it starts, or by a crash.
Down == /\ proc' = "down" /\ job' = NoJob
        /\ key' = 0 /\ override' = NoConfig /\ unsaved' = FALSE

-----------------------------------------------------------------------------
(* atomic_write and quarantine_file *)

\* Mutant: std::fs::write on the file itself.
WriteInPlace ==
  /\ job.at = "write"
  /\ status' = [status EXCEPT ![job.file] = "corrupt"]
  /\ job' = [job EXCEPT !.at = "replace"]
  /\ NoFault
  /\ UNCHANGED <<temps, savedKey, saved, kept, proc, memory, history, commands>>

\* create_new fails on a name that is taken; that, or a failing write or
\* sync, goes on to remove whatever has the name.
WriteTemp ==
  /\ job.at = "write"
  /\ \/ /\ TempName \notin temps
        /\ temps' = temps \cup {TempName}
        /\ job' = [job EXCEPT !.at = "replace"]
        /\ NoFault
     \/ /\ TempName \in temps
        /\ job' = [job EXCEPT !.at = "remove"]
        /\ UNCHANGED temps /\ NoFault
     \/ /\ \E created \in BOOLEAN :
             temps' = IF created THEN temps \cup {TempName} ELSE temps
        /\ job' = [job EXCEPT !.at = "remove"]
        /\ Fault
  /\ UNCHANGED <<status, savedKey, saved, kept, proc, memory, history, commands>>

\* What follows a write that succeeded: start-up goes on, or the operator is
\* told, and `encoder save` makes the configuration the override in memory.
Succeeds ==
  CASE proc = "identity" ->
         /\ proc' = "settings"
         /\ UNCHANGED <<override, told, unsaved, announced>>
    [] proc = "settings" ->
         /\ proc' = "running" /\ override' = NoConfig
         /\ announced' = announced \cup {key}
         /\ UNCHANGED <<told, unsaved>>
    [] OTHER ->
         /\ told' = ReadSettings(Edited(told, job.edit))
         /\ override' = IF job.edit.kind = "save" THEN job.edit.config ELSE override
         /\ unsaved' = IF job.edit.kind \in {"save", "clear"} THEN FALSE ELSE unsaved
         /\ UNCHANGED <<proc, announced>>

\* The old file stays until the rename, which is atomic.
Replaced(f) == [status EXCEPT ![f] = "whole"]

ReplaceFile ==
  /\ job.at = "replace"
  /\ temps' = temps \ {TempName}
  /\ status' = Replaced(job.file)
  /\ savedKey' = IF job.file = "identity" THEN key ELSE savedKey
  /\ saved' = IF job.file = "settings" THEN job.new ELSE saved
  /\ Succeeds
  /\ job' = NoJob /\ seq' = seq + 1 /\ NoFault
  /\ UNCHANGED <<kept, pid, key, destroyed, damages, commands>>

ReplaceFails ==
  /\ job.at = "replace" /\ Fault
  /\ job' = [job EXCEPT !.at = "remove"]
  /\ UNCHANGED <<disk, proc, memory, history, commands>>

\* Mutants: the host goes on with the key it could not write; the result of
\* a save is thrown away.
FailsButStarts ==
  IF proc \in {"running", "identity"}
  THEN /\ job' = NoJob
       /\ proc' = IF proc = "identity" THEN "settings" ELSE proc
       /\ unsaved' = (unsaved \/ (proc = "running" /\ job.edit.kind = "clear"))
       /\ UNCHANGED <<key, override, told>>
  ELSE Down /\ UNCHANGED told
FailsSilently ==
  IF proc = "running"
  THEN /\ job' = NoJob
       /\ told' = ReadSettings(Edited(told, job.edit))
       /\ UNCHANGED <<proc, key, override, unsaved>>
  ELSE Down /\ UNCHANGED told

\* An error while starting ends the process; one of a command is printed.
Fails ==
  IF proc = "running"
  THEN /\ job' = NoJob
       /\ unsaved' = (unsaved \/ job.edit.kind = "clear")
       /\ UNCHANGED <<proc, key, override, told>>
  ELSE Down /\ UNCHANGED told

\* Mutant: a failed write leaves its temporary file behind.
KeepTemp ==
  /\ job.at = "remove"
  /\ Fails
  /\ seq' = seq + 1
  /\ UNCHANGED <<disk, pid, announced, destroyed, damages, commands, faults>>

\* The error of remove_file is ignored.
RemoveTemp ==
  /\ job.at = "remove"
  /\ \/ temps' = temps \ {TempName} /\ NoFault
     \/ UNCHANGED temps /\ Fault
  /\ Fails
  /\ seq' = seq + 1
  /\ UNCHANGED <<status, savedKey, saved, kept, pid, announced, destroyed,
                 damages, commands>>

\* What replaces an unreadable file: a key just generated, or the default.
Recovery(f) ==
  IF f = "identity" THEN [at |-> "write", file |-> f]
  ELSE [at |-> "write", file |-> f, new |-> Default, edit |-> NoConfig]

Quarantine ==
  /\ job.at = "quarantine"
  /\ \/ /\ status' = [status EXCEPT ![job.file] = "absent"]
        /\ kept' = IF job.file = "identity" /\ status["identity"] = "whole"
                   THEN kept \cup {savedKey} ELSE kept
        /\ told' = IF job.file = "settings" THEN Default ELSE told
        /\ job' = Recovery(job.file)
        /\ seq' = IF status[job.file] = "absent" THEN seq ELSE seq + 1
        /\ NoFault
        /\ UNCHANGED <<proc, key, override, unsaved>>
     \/ /\ status[job.file] # "absent" /\ Fault /\ Down
        /\ UNCHANGED <<status, kept, told, seq>>
  /\ UNCHANGED <<savedKey, saved, temps, pid, announced, destroyed, damages,
                 commands>>

-----------------------------------------------------------------------------
(* Start-up: bind, identity, settings *)

StartProcess ==
  /\ proc = "down"
  /\ proc' = "identity" /\ pid' \in Pids /\ seq' = 1
  /\ UNCHANGED <<disk, job, key, override, history, commands, faults>>

ReadIdentity ==
  /\ proc = "identity" /\ Idle
  /\ status["identity"] = "whole"
  /\ key' = savedKey /\ proc' = "settings"
  /\ UNCHANGED <<disk, job, pid, seq, override, history, commands, faults>>

\* Mutant: the new key is written over the file that could not be read.
OverwriteIdentity ==
  /\ proc = "identity" /\ Idle
  /\ IF status["identity"] = "whole" THEN Fault ELSE NoFault
  /\ \E k \in 1..MaxKeys :
       /\ k \notin kept \cup announced \cup destroyed \cup {savedKey}
       /\ key' = k
  /\ job' = Recovery("identity")
  /\ UNCHANGED <<disk, proc, pid, seq, override, history, commands>>

\* Absent, unreadable, or any error of the call that reads it.
RecoverIdentity ==
  /\ proc = "identity" /\ Idle
  /\ IF status["identity"] = "whole" THEN Fault ELSE NoFault
  /\ \E k \in 1..MaxKeys :
       /\ k \notin kept \cup announced \cup destroyed \cup {savedKey}
       /\ key' = k
  /\ job' = [at |-> "quarantine", file |-> "identity"]
  /\ UNCHANGED <<disk, proc, pid, seq, override, history, commands>>

ReadHostSettings ==
  /\ proc = "settings" /\ Idle /\ Loads
  /\ proc' = "running"
  /\ override' = Loaded.encoder
  /\ announced' = announced \cup {key}
  /\ UNCHANGED <<disk, job, pid, seq, key, told, destroyed, unsaved, damages,
                 commands, faults>>

RecoverSettings ==
  /\ proc = "settings" /\ Idle /\ ~Loads
  /\ job' = [at |-> "quarantine", file |-> "settings"]
  /\ UNCHANGED <<disk, proc, memory, history, commands, faults>>

\* An error of the call that is not about the content ends the process.
SettingsUnreadable ==
  /\ proc = "settings" /\ Idle /\ Fault
  /\ Down
  /\ UNCHANGED <<disk, pid, seq, told, announced, destroyed, damages, commands>>

-----------------------------------------------------------------------------
(* Console commands and approvals of a running host *)

Command == /\ proc = "running" /\ Idle /\ commands < MaxCommands
           /\ commands' = commands + 1

\* `encoder save` and `preset save` take the override, or else what an
\* approved client has configured; an approval is any device.
Offered(e) ==
  e.kind \in {"save", "savePreset"} =>
    IF override = NoConfig THEN e.config \in Configs ELSE e.config = override

\* Mutant: `encoder save` sets the memory, too, before it tries the file.
Assigned(e) == CASE e.kind = "clear" -> NoConfig
                 [] e.kind = "save" -> e.config
                 [] OTHER -> override

\* `encoder clear` clears the memory before it tries the file.
Cleared(e) == IF e.kind = "clear" THEN NoConfig ELSE override

Update(e) ==
  /\ Command /\ Offered(e) /\ Loads /\ IsWritten(Loaded, e)
  /\ job' = [at |-> "write", file |-> "settings", edit |-> e,
             new |-> Edited(Loaded, e)]
  /\ override' = Cleared(e)
  /\ UNCHANGED <<disk, proc, pid, seq, key, history, faults>>

UpdateUnreadable(e) ==
  /\ Command /\ Offered(e)
  /\ IF Loads THEN Fault ELSE NoFault
  /\ override' = Cleared(e)
  /\ unsaved' = (unsaved \/ e.kind = "clear")
  /\ UNCHANGED <<disk, proc, job, pid, seq, key, told, announced, destroyed,
                 damages>>

\* `encoder override`, whose numbers are clamped when the line is parsed.
SetOverride ==
  /\ Command
  /\ \E c \in Configs : override' = ReadConfig(c)
  /\ unsaved' = TRUE
  /\ UNCHANGED <<disk, proc, job, pid, seq, key, told, announced, destroyed,
                 damages, faults>>

ApplyPreset ==
  /\ Command /\ Loads
  /\ \E p \in Loaded.presets : override' = p.config
  /\ unsaved' = TRUE
  /\ UNCHANGED <<disk, proc, job, pid, seq, key, told, announced, destroyed,
                 damages, faults>>

-----------------------------------------------------------------------------
(* What happens to the host and its disk *)

Crash ==
  /\ proc # "down" /\ Fault
  /\ Down
  /\ UNCHANGED <<disk, pid, seq, told, announced, destroyed, damages, commands>>

DamageFile(f) ==
  /\ status[f] = "whole" /\ Fault
  /\ status' = [status EXCEPT ![f] = "corrupt"]
  /\ destroyed' = IF f = "identity" THEN destroyed \cup {savedKey} ELSE destroyed
  /\ damages' = IF f = "settings" THEN damages + 1 ELSE damages
  /\ UNCHANGED <<savedKey, saved, temps, kept, proc, job, memory, told,
                 announced, unsaved, commands>>

FileStep == WriteTemp \/ ReplaceFile \/ ReplaceFails \/ RemoveTemp \/ Quarantine
StartStep == \/ StartProcess \/ ReadIdentity \/ RecoverIdentity
             \/ ReadHostSettings \/ RecoverSettings \/ SettingsUnreadable
CommandStep == \/ \E e \in Edits : Update(e) \/ UpdateUnreadable(e)
               \/ SetOverride \/ ApplyPreset
StoreNext == \/ FileStep \/ StartStep \/ CommandStep
             \/ Crash \/ \E f \in Files : DamageFile(f)

StoreSpec == StoreInit /\ [][StoreNext]_vars

\* The host's one thread goes on, and whoever uses the host starts it again.
FairStoreSpec == StoreSpec /\ WF_vars(FileStep) /\ WF_vars(StartStep)

-----------------------------------------------------------------------------
(* Properties *)

\* The settings that can be read change by whole edits only, of which none is
\* lost, and become unreadable only by damage from outside: no crash and no
\* failing call of atomic_write leaves a file in between.
DS == INSTANCE DurableSettings WITH
        value <- Loaded, readable <- status["settings"] # "corrupt"
SettingsAreDurable == DS!Spec

\* What the operator was told is stored is stored, however many commands
\* failed, and however often the host ended or crashed since.
ToldIsStored == status["settings"] # "corrupt" => Loaded = told

\* A host that runs shows a key that the next start will find, unless the
\* file was damaged meanwhile: a start that cannot store its key ends.
IdentityIsStored ==
  proc = "running" =>
    \/ status["identity"] = "whole" /\ savedKey = key
    \/ status["identity"] = "corrupt" /\ key \in destroyed

\* No key that clients have pinned is lost by the host itself: it is in
\* place, in a quarantined file, or was damaged from outside.
IdentityNeverDestroyed ==
  \A k \in announced :
    \/ k \in kept \cup destroyed
    \/ status["identity"] = "whole" /\ savedKey = k

\* The override in memory is the one the next start will load, unless the
\* operator knows better, although memory and file are written by two steps
\* that fail separately and files are clamped when they are read.
OverrideIsStored ==
  proc = "running" /\ Idle /\ ~unsaved /\ status["settings"] # "corrupt" =>
    ReadEncoder(override) = Loaded.encoder

\* Once failures stop, the host runs, whatever state they left its files in:
\* corrupt files are replaced and leftover temporary files cleared.
HostComesBack == <>[](proc = "running")
=============================================================================
