------------------------------ MODULE VoicePulse ------------------------------
(***************************************************************************)
(* The gate between the cores.  On core0 midi_task closes it in two        *)
(* stores, the gate and then the pulse gate_reset, by which a release is   *)
(* still heard when the next note has opened the gate again.  On core1 two *)
(* MidiGate readers, of the filter's envelope and then of the amplifier's, *)
(* load the gate and then swap the pulse, and share that one pulse.  The   *)
(* two cores' accesses interleave, each core's own in program order.       *)
(* `owed` is 1 after a release, 2 once a read has begun after it, and 0    *)
(* when an envelope has been taken low for it or a panic message has       *)
(* withdrawn it.                                                           *)
(***************************************************************************)
EXTENDS NoteStack

VARIABLES
  pulse,      \* MidiControl.gate_reset
  due,        \* what midi_task has still to store in it: "none", "raise" or "clear"
  reader,     \* the envelope whose MidiGate runs, or runs next: "filter" or "amp"
  rpc, seen,  \* that MidiGate: before its "load" or its "swap"; the gate it loaded
  owed

pulseVars == <<pulse, due>>
readVars  == <<reader, rpc, seen>>
vvars     == <<vars, pulseVars, readVars, owed>>

VInit == /\ Init
         /\ pulse = 0 /\ due = "none"
         /\ reader = "filter" /\ rpc = "load" /\ seen = 0
         /\ owed = 0

------------------------------------------------------------------------------
(* A mutation of the handlers below: a bug the run must find. *)

\* Mutation: a note-off leaves the pulse alone.
DueUnraised == due' = "none"

------------------------------------------------------------------------------
(* core0: midi_task *)

\* set_gate: closing the gate leaves the pulse to be raised, opening it does not.
SetGateDue == due' = IF gate' = 0 THEN "raise" ELSE "none"

Release == gate = 1 /\ gate' = 0

\* A note-off, or the end of a pedal release, as far as the gate's store.
Lower == /\ due = "none"
         /\ (\E n \in Notes : NoteOff(n)) \/ SustainEnds
         /\ SetGateDue
         /\ owed' = IF Release /\ owed = 0 THEN 1 ELSE owed
         /\ UNCHANGED <<pulse, readVars>>

\* A panic message as far as the gate's store: what is released is no longer owed.
Silence == /\ due = "none"
           /\ Panic
           /\ due' = "clear" /\ owed' = 0
           /\ UNCHANGED <<pulse, readVars>>

\* The second store of set_gate(false) or of reset().
StorePulse == /\ due # "none"
              /\ pulse' = (IF due = "raise" THEN 1 ELSE 0) /\ due' = "none"
              /\ UNCHANGED <<vars, readVars, owed>>

\* The messages that touch neither.
Other == /\ due = "none"
         /\ (\E n \in Notes : NoteOn(n)) \/ SustainDown \/ SustainUp \/ ReleaseNext
         /\ UNCHANGED <<pulseVars, readVars, owed>>

------------------------------------------------------------------------------
(* core1: MidiGate::process, once for each envelope in every block *)

LoadGate == /\ rpc = "load"
            /\ seen' = gate /\ rpc' = "swap"
            /\ owed' = IF owed = 1 THEN 2 ELSE owed
            /\ UNCHANGED <<vars, pulseVars, reader>>

\* The envelope is taken low by a closed gate for the whole block, by the pulse
\* for the block's first samples.
Heard == seen = 0 \/ pulse = 1

TakePulse == /\ rpc = "swap"
             /\ pulse' = 0 /\ rpc' = "load"
             /\ reader' = IF reader = "filter" THEN "amp" ELSE "filter"
             /\ owed' = IF Heard THEN 0 ELSE owed
             /\ UNCHANGED <<vars, due, seen>>

MidiTask == Lower \/ Silence \/ StorePulse \/ Other
Render   == LoadGate \/ TakePulse

VNext == MidiTask \/ Render

VSpec == VInit /\ [][VNext]_vvars

------------------------------------------------------------------------------
(* The property *)

\* No release is lost to a note struck right after it: the first MidiGate that
\* starts after the release takes its envelope low, unless the one under way when
\* the release came has done so, or a panic message has withdrawn the pulse.
ReleaseHeard == owed = 2 => rpc = "swap"
===============================================================================
