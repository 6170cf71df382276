------------------------------ MODULE PresetPick ------------------------------
(***************************************************************************)
(* How midi_task picks a preset, between the notes of VoicePulse: program  *)
(* changes and the soft pedal move current_preset_index, and load what the *)
(* bank's header admits; the editor or a reset may replace the bank by one *)
(* with more or fewer presets.  Nothing looks at the header's num_presets: *)
(* it may claim more than a bank holds, and more than the flash has room   *)
(* for, where the read fails and its unwrap halts core0 for good.          *)
(* `at` and `from` tell which index the working preset was loaded from and *)
(* whether that bank is still there, and `reset` is 1 from a reset to the  *)
(* next load: the code records none.                                       *)
(***************************************************************************)
EXTENDS VoicePulse

CONSTANTS
  MaxPresets,    \* MAX_PRESETS, what a bank holds (128)
  RegionRoom,    \* presets that lie between the header and the end of the flash (327)
  FactoryCount,  \* presets of the factory bank (128)
  EditedCounts,  \* what num_presets may be in the editor's banks: any u32
  BootIndex,     \* the preset picked at boot (4)
  Programs       \* data bytes of a program change (0..127)

ASSUME RoomAssumption   == MaxPresets \in Nat /\ RegionRoom \in Nat /\ MaxPresets <= RegionRoom
ASSUME CountsAssumption == FactoryCount \in 1..MaxPresets /\ EditedCounts \subseteq Nat
ASSUME IndexAssumption  == {BootIndex} \union Programs \subseteq 0..(MaxPresets - 1)

VARIABLES
  build,           \* "dev" checks arithmetic for overflow, "release" does not
  core0,           \* "runs", or "halted" by a panic
  numPresets,      \* StorageHeader.num_presets
  idx,             \* current_preset_index
  pedal,           \* soft_pedal_held: "down" or "up"
  at, from, reset

pick  == <<build, core0, numPresets, idx, pedal, at, from, reset>>
pvars == <<vvars, pick>>

\* load_preset of index i under a header that claims n presets.  It panics where
\* the read runs past the end of the flash, and in a dev build where the message
\* that i is out of bounds computes n - 1 for an empty bank.
Found(i, n) == i < n /\ i < RegionRoom
Halts(i, n) == IF i < n THEN i >= RegionRoom ELSE n = 0 /\ build = "dev"

\* Behind the bank's last place lies what no preset was ever written to.
Place(i) == IF i < MaxPresets THEN "bank" ELSE "beyond"

HaltIf(p) == core0' = IF p THEN "halted" ELSE core0

Take(i) == at' = i /\ from' = Place(i) /\ reset' = 0

\* load_and_apply_preset: a preset that is not found changes nothing.
Load(i) == /\ HaltIf(Halts(i, numPresets))
           /\ IF Found(i, numPresets) THEN Take(i) ELSE UNCHANGED <<at, from, reset>>

\* An empty bank halts a dev build in main, before there is a midi_task.
PInit == /\ VInit
         /\ build \in {"dev", "release"} /\ core0 = "runs"
         /\ numPresets \in {FactoryCount} \union EditedCounts
         /\ ~Halts(BootIndex, numPresets)
         /\ idx = BootIndex /\ pedal = "up"
         /\ at = BootIndex /\ reset = 0
         /\ from = IF Found(BootIndex, numPresets) THEN "bank" ELSE "default"

\* midi_task is at its select.
Free == core0 = "runs" /\ pc = "ready" /\ due = "none"

------------------------------------------------------------------------------
(* Mutations of the handlers below: each is a bug one of the runs must find. *)

\* Mutation: the index wraps only behind the bank's last preset.
NextWrapsAtLast == IF idx + 1 = numPresets THEN 0 ELSE idx + 1

\* Mutation: the editor's bank is written, but no preset is loaded again.
EditorWritesOnly(c) == /\ Free
                       /\ numPresets' = c /\ from' = "gone" /\ reset' = 0
                       /\ UNCHANGED <<vvars, build, core0, idx, pedal, at>>

------------------------------------------------------------------------------
(* midi_task *)

\* PROGRAM_CHANGE: the index is kept even if the bank has no such preset.
ProgramChange(p) == /\ Free
                    /\ idx' = p /\ Load(p)
                    /\ UNCHANGED <<vvars, build, numPresets, pedal>>

SoftPedalDown == /\ Free /\ pedal' = "down"
                 /\ UNCHANGED <<vvars, build, core0, numPresets, idx, at, from, reset>>

NextIndex == (idx + 1) % numPresets

\* Only letting go of a pressed pedal counts; an empty bank has nothing to step to.
\* The index has moved before the load that may not return.
SoftPedalUp == /\ Free /\ pedal' = "up"
               /\ IF pedal = "down" /\ numPresets > 0
                    THEN idx' = NextIndex /\ Load(idx')
                    ELSE UNCHANGED <<core0, idx, at, from, reset>>
               /\ UNCHANGED <<vvars, build, numPresets>>

\* A bank from the editor replaces the one the working preset came from, and the
\* current preset is loaded from the new one if it is there.
EditorWrites(c) == /\ Free
                   /\ numPresets' = c /\ HaltIf(Halts(idx, c))
                   /\ IF Found(idx, c) THEN Take(idx)
                                       ELSE from' = "gone" /\ reset' = 0 /\ UNCHANGED at
                   /\ UNCHANGED <<vvars, build, idx, pedal>>

\* The "reset" command brings the factory bank back and loads nothing.
ResetBank == /\ Free
             /\ numPresets' = FactoryCount /\ from' = "gone" /\ reset' = 1
             /\ UNCHANGED <<vvars, build, core0, idx, pedal, at>>

PickStep == \/ \E p \in Programs : ProgramChange(p)
            \/ SoftPedalDown \/ SoftPedalUp
            \/ \E c \in EditedCounts : EditorWrites(c)
            \/ ResetBank

\* core1 renders on when core0 has halted.
PNext == \/ core0 = "runs" /\ MidiTask /\ UNCHANGED pick
         \/ Render /\ UNCHANGED pick
         \/ PickStep

PSpec == PInit /\ [][PNext]_pvars

------------------------------------------------------------------------------
(* Properties *)

Tap == pedal = "down" /\ pedal' = "up" /\ numPresets > 0

\* A tap on the pedal leads to an index that the header admits, even from one that
\* a program change, a smaller bank or a reset has left outside it, and loads it.
\* It finds no preset of the bank only if the header claims more than a bank holds,
\* and halts the firmware only if it claims more than the flash has room for.
PedalInBank ==
  [][Tap => /\ idx' < numPresets
            /\ numPresets <= RegionRoom => core0' = "runs"
            /\ numPresets <= MaxPresets => from' = "bank"
            /\ core0' = "runs" => at' = idx']_pvars

\* A header with 1 to RegionRoom presets never halts the firmware, and until it
\* halts no index it could not read is left standing, whatever bank comes.
HaltsAreTheHeaders ==
  /\ core0 = "halted" => numPresets > RegionRoom \/ (numPresets = 0 /\ build = "dev")
  /\ core0 = "runs" => idx < RegionRoom

\* The working preset is the one the index names in the bank that is there now,
\* unless the bank has no such preset or was reset under it; and the firmware halts
\* in a load only under a header that no bank can have.
PickedIsLoaded ==
  /\ HaltsAreTheHeaders
  /\ core0 = "runs" /\ reset = 0 /\ idx < numPresets => at = idx /\ from = Place(idx)
===============================================================================
