------------------------------- MODULE PresetFlow -------------------------------
(***************************************************************************)
(* How an edit reaches the sound.  midi_task keeps the working preset and  *)
(* writes continuous parameters straight into the live slots the voice     *)
(* reads; a structural edit or a program change hands a copy of the preset *)
(* to core1 over PRESET_CHANNEL (capacity 1, a copy that does not fit is   *)
(* dropped), and core1 rebuilds the voice from it, which seeds every live  *)
(* slot again.  Both cores store into the slots one at a time.  `cause`    *)
(* and `raced` record what the code does not: why the voice may be built   *)
(* from another preset than the working one, and which slots were edited   *)
(* while a seeding from an older copy still had to store into them.        *)
(***************************************************************************)
EXTENDS Naturals, Sequences

CONSTANTS
  Slots,       \* the continuous parameters
  Portamento,  \* the one that core1 stores before it builds
  Values,      \* values of a continuous parameter
  Shapes       \* values of the structural parameters, taken together

ASSUME PortamentoAssumption == Portamento \in Slots

Presets == [cont : [Slots -> Values], shape : Shapes]

VARIABLES
  work,      \* midi_task's working_preset
  toSeed0,   \* slots midi_task still has to seed from it
  mpc,       \* midi_task: "ready" for a message, or "loading" a preset
  live,      \* MidiControl's slots
  chan,      \* PRESET_CHANNEL
  pc1,       \* core1: "run", "switch" (before the build) or "seed"
  building,  \* the preset core1 builds or has built last
  toSeed1,   \* slots core1 still has to seed from it
  cause, raced

midiTask == <<work, toSeed0, mpc>>
core1    == <<pc1, building, toSeed1>>
ghosts   == <<cause, raced>>
vars     == <<midiTask, live, chan, core1, ghosts>>

(***************************************************************************)
(* core1 is about to build the boot preset, which main() took from the     *)
(* bank or from the factory presets.  midi_task loads the same preset as   *)
(* its working preset, or the default one when the bank is too short.      *)
(***************************************************************************)
Init ==
  /\ building \in Presets /\ pc1 = "switch" /\ toSeed1 = {}
  /\ \/ cause = "none"       /\ work = building
     \/ cause = "short_bank" /\ work \in Presets
  /\ mpc = "ready" /\ toSeed0 = {}
  /\ live \in [Slots -> Values] /\ chan = <<>> /\ raced = {}

\* The voice is not being rebuilt, and no message is being handled.
Settled == mpc = "ready" /\ chan = <<>> /\ pc1 = "run"

------------------------------------------------------------------------------
(* Mutations of the handlers below: each is a bug one of the runs must find. *)

\* Mutation: a continuous edit is not written back to the working preset.
TweakOnlyLive(s, v) ==
  /\ mpc = "ready"
  /\ live' = [live EXCEPT ![s] = v]
  /\ raced' = IF chan # <<>> \/ pc1 = "switch" \/ s \in toSeed1 THEN raced \union {s} ELSE raced
  /\ UNCHANGED <<midiTask, chan, core1, cause>>

\* Mutation: core1 builds the preset it already has.
TakePresetKeepsOld ==
  /\ pc1 = "run" /\ chan # <<>>
  /\ chan' = Tail(chan) /\ pc1' = "switch"
  /\ UNCHANGED <<midiTask, live, building, toSeed1, ghosts>>

------------------------------------------------------------------------------
(* midi_task on core0 *)

\* PRESET_CHANNEL.try_send
Offer(p) == IF chan = <<>>
              THEN chan' = <<p>> /\ cause' = "none" /\ raced' = {}
              ELSE cause' = "dropped" /\ UNCHANGED <<chan, raced>>

\* apply_cc with a continuous parameter: working preset and live slot.
Tweak(s, v) ==
  /\ mpc = "ready"
  /\ work' = [work EXCEPT !.cont[s] = v]
  /\ live' = [live EXCEPT ![s] = v]
  /\ raced' = IF chan # <<>> \/ pc1 = "switch" \/ s \in toSeed1 THEN raced \union {s} ELSE raced
  /\ UNCHANGED <<toSeed0, mpc, chan, core1, cause>>

\* apply_cc with a structural parameter: working preset, and a copy to core1.
Reshape(x) ==
  /\ mpc = "ready"
  /\ work' = [work EXCEPT !.shape = x]
  /\ Offer(work')
  /\ UNCHANGED <<toSeed0, mpc, live, core1>>

\* load_and_apply_preset: the live slots are seeded one after the other ...
LoadPreset(p) ==
  /\ mpc = "ready"
  /\ mpc' = "loading" /\ work' = p /\ toSeed0' = Slots
  /\ UNCHANGED <<live, chan, core1, ghosts>>

SeedLive ==
  /\ mpc = "loading"
  /\ \E s \in toSeed0 : /\ live' = [live EXCEPT ![s] = work.cont[s]]
                        /\ toSeed0' = toSeed0 \ {s}
  /\ UNCHANGED <<work, mpc, chan, core1, ghosts>>

\* ... and then core1 is offered the preset.
OfferLoaded ==
  /\ mpc = "loading" /\ toSeed0 = {}
  /\ mpc' = "ready" /\ Offer(work)
  /\ UNCHANGED <<work, toSeed0, live, core1>>

------------------------------------------------------------------------------
(* core1_task *)

\* PRESET_CHANNEL.try_receive; the old synth is dropped, and the status messages
\* that core1 sends now may hold it up.
TakePreset ==
  /\ pc1 = "run" /\ chan # <<>>
  /\ building' = Head(chan) /\ chan' = Tail(chan) /\ pc1' = "switch"
  /\ UNCHANGED <<midiTask, live, toSeed1, ghosts>>

StartBuild ==
  /\ pc1 = "switch"
  /\ pc1' = "seed" /\ toSeed1' = Slots
  /\ live' = [live EXCEPT ![Portamento] = building.cont[Portamento]]
  /\ UNCHANGED <<midiTask, chan, building, ghosts>>

\* build_synth: new_moog_voice seeds the live slots.
SeedBuild ==
  /\ pc1 = "seed"
  /\ \E s \in toSeed1 : /\ live' = [live EXCEPT ![s] = building.cont[s]]
                        /\ toSeed1' = toSeed1 \ {s}
  /\ UNCHANGED <<midiTask, chan, pc1, building, ghosts>>

EndBuild ==
  /\ pc1 = "seed" /\ toSeed1 = {}
  /\ pc1' = "run"
  /\ UNCHANGED <<midiTask, live, chan, building, toSeed1, ghosts>>

Core1Step == TakePreset \/ StartBuild \/ SeedBuild \/ EndBuild

Next == \/ \E s \in Slots, v \in Values : Tweak(s, v)
        \/ \E x \in Shapes : Reshape(x)
        \/ \E p \in Presets : LoadPreset(p)
        \/ SeedLive \/ OfferLoaded
        \/ Core1Step

Spec == Init /\ [][Next]_vars

\* core1 loops for ever; FlashGate shows that neither the gate nor a full channel
\* stops it for good.
FairSpec == Spec /\ WF_vars(Core1Step)

------------------------------------------------------------------------------
(* Properties *)

TypeOK ==
  /\ work \in Presets /\ toSeed0 \subseteq Slots /\ mpc \in {"ready", "loading"}
  /\ live \in [Slots -> Values]
  /\ chan \in Seq(Presets) /\ Len(chan) <= 1
  /\ pc1 \in {"run", "switch", "seed"} /\ building \in Presets /\ toSeed1 \subseteq Slots
  /\ cause \in {"none", "dropped", "short_bank"} /\ raced \subseteq Slots

\* What the voice plays is what the editor shows: unless the last copy offered to
\* core1 was dropped, the settled voice is built from the working preset, and
\* every live slot holds its value, except the slots edited while a seeding from
\* an older copy was still to come, whatever order the two cores' stores take.
VoiceFollowsWork ==
  Settled /\ cause = "none" =>
    /\ building.shape = work.shape
    /\ \A s \in Slots \ raced : live[s] = work.cont[s]

\* A copy that the channel accepted is never lost: some time later the running
\* voice is the one built from it, whatever arrives meanwhile.
AcceptedIsBuilt == \A p \in Presets : (chan = <<p>>) ~> (pc1 = "run" /\ building = p)

\* An edit that arrives while core1 still has an older copy to seed from survives in
\* the live slot.  cc_map.rs: "a later structural rebuild re-seeds the live slots to the values the
\* user dialled in, never snapping back to the stored preset".
NothingSnapsBack == Settled /\ cause = "none" => live = work.cont
==============================================================================
