------------------------------- MODULE NoteStack -------------------------------
(***************************************************************************)
(* The mono voice as midi_task drives it: the stack of held notes, the     *)
(* note-offs the sustain pedal defers, and the gate and target frequency   *)
(* that core1 renders.  Messages arrive in any order, from USB and from    *)
(* BLE alike.  `keys` and `unheard` record what the code does not keep:    *)
(* which keys are down by the message stream, and which of them the stack  *)
(* dropped because it was full or was cleared by a panic message.          *)
(***************************************************************************)
EXTENDS Naturals, Sequences

CONSTANTS
  Notes,      \* the note numbers in play
  MaxNotes    \* capacity of NoteStack.notes and of pending_off (16)

ASSUME MaxNotesAssumption == MaxNotes \in Nat \ {0}

VARIABLES
  notes,      \* NoteStack.notes, oldest first
  pendingOff, \* NoteStack.pending_off; its order is never used
  sustain,    \* NoteStack.sustain_active: "down" or "up"
  gate,       \* MidiControl.gate as get_gate reads it
  freq,       \* the note whose frequency is in MidiControl.target_freq_bits
  pc,         \* "ready" for a message or "releasing" deferred note-offs
  keys, unheard

stack == <<notes, pendingOff, sustain>>
voice == <<gate, freq>>
vars  == <<stack, voice, pc, keys, unheard>>

Elements(s) == {s[i] : i \in 1..Len(s)}

\* Vec::remove of the position at which n is found, if it is found.
Without(s, n) ==
  IF n \in Elements(s)
    THEN LET pos == CHOOSE i \in 1..Len(s) : s[i] = n
         IN  [j \in 1..(Len(s) - 1) |-> IF j < pos THEN s[j] ELSE s[j + 1]]
    ELSE s

Init == /\ notes = <<>> /\ pendingOff = {} /\ sustain = "up"
        /\ gate = 0 /\ freq \in Notes
        /\ pc = "ready" /\ keys = {} /\ unheard = {}

\* After a release the voice falls back to the most recently pushed note, or stops.
FallBack == IF notes' = <<>>
              THEN gate' = 0 /\ UNCHANGED freq
              ELSE gate' = 1 /\ freq' = notes'[Len(notes')]

------------------------------------------------------------------------------
(* Mutations of the handlers below: each is a bug one of the runs must find. *)

\* Mutation: a note struck again keeps its deferred note-off.
NoteOnKeepsPending(n) ==
  /\ pc = "ready"
  /\ IF n \notin Elements(notes) /\ Len(notes) < MaxNotes
       THEN notes' = Append(notes, n) ELSE UNCHANGED notes
  /\ gate' = 1 /\ freq' = n
  /\ keys' = keys \union {n}
  /\ unheard' = IF n \in Elements(notes') THEN unheard \ {n} ELSE unheard \union {n}
  /\ UNCHANGED <<pendingOff, sustain, pc>>

\* Mutation: the voice keeps the frequency of the released note.
NoteOffKeepsFreq(n) ==
  /\ pc = "ready"
  /\ IF sustain = "down"
       THEN /\ pendingOff' = IF n \in Elements(notes) THEN pendingOff \union {n} ELSE pendingOff
            /\ UNCHANGED notes
       ELSE notes' = Without(notes, n) /\ UNCHANGED pendingOff
  /\ gate' = (IF notes' = <<>> THEN 0 ELSE 1) /\ UNCHANGED freq
  /\ keys' = keys \ {n} /\ unheard' = unheard \ {n}
  /\ UNCHANGED <<sustain, pc>>

\* Mutation: a panic message resets the controls but not the stack.
PanicKeepsStack ==
  /\ pc = "ready"
  /\ gate' = 0 /\ unheard' = keys
  /\ UNCHANGED <<stack, freq, pc, keys>>

\* Mutation: pedal up does not update the voice.
SustainEndsSilently ==
  /\ pc = "releasing" /\ pendingOff = {}
  /\ pc' = "ready"
  /\ UNCHANGED <<stack, voice, keys, unheard>>

\* Mutation: pedal up forgets the deferred note-offs without carrying them out.
SustainUpForgets ==
  /\ pc = "ready"
  /\ sustain' = "up" /\ pendingOff' = {} /\ pc' = "releasing"
  /\ UNCHANGED <<notes, voice, keys, unheard>>

------------------------------------------------------------------------------
(* The handlers of midi_task *)

\* NOTE_ON with a velocity.  A note that does not fit sounds but is not stacked.
NoteOn(n) ==
  /\ pc = "ready"
  /\ pendingOff' = pendingOff \ {n}
  /\ IF n \notin Elements(notes) /\ Len(notes) < MaxNotes
       THEN notes' = Append(notes, n) ELSE UNCHANGED notes
  /\ gate' = 1 /\ freq' = n
  /\ keys' = keys \union {n}
  /\ unheard' = IF n \in Elements(notes') THEN unheard \ {n} ELSE unheard \union {n}
  /\ UNCHANGED <<sustain, pc>>

\* NOTE_OFF, or NOTE_ON with velocity zero.
NoteOff(n) ==
  /\ pc = "ready"
  /\ IF sustain = "down"
       THEN /\ pendingOff' = IF n \in Elements(notes) THEN pendingOff \union {n} ELSE pendingOff
            /\ UNCHANGED notes
       ELSE notes' = Without(notes, n) /\ UNCHANGED pendingOff
  /\ FallBack
  /\ keys' = keys \ {n} /\ unheard' = unheard \ {n}
  /\ UNCHANGED <<sustain, pc>>

SustainDown ==
  /\ pc = "ready"
  /\ sustain' = "down"
  /\ UNCHANGED <<notes, pendingOff, voice, pc, keys, unheard>>

\* Pedal up: set_sustain(false) removes the deferred notes one after the other ...
SustainUp ==
  /\ pc = "ready"
  /\ sustain' = "up" /\ pc' = "releasing"
  /\ UNCHANGED <<notes, pendingOff, voice, keys, unheard>>

ReleaseNext ==
  /\ pc = "releasing"
  /\ \E n \in pendingOff : /\ notes' = Without(notes, n)
                           /\ pendingOff' = pendingOff \ {n}
  /\ UNCHANGED <<sustain, voice, pc, keys, unheard>>

\* ... and the voice follows when the last one is gone.
SustainEnds ==
  /\ pc = "releasing" /\ pendingOff = {}
  /\ pc' = "ready"
  /\ UNCHANGED notes /\ FallBack
  /\ UNCHANGED <<pendingOff, sustain, keys, unheard>>

\* CC120 and CC123: NoteStack::clear and MidiControl::reset.
Panic ==
  /\ pc = "ready"
  /\ notes' = <<>> /\ pendingOff' = {} /\ sustain' = "up"
  /\ gate' = 0 /\ unheard' = keys
  /\ UNCHANGED <<freq, pc, keys>>

Next == \/ \E n \in Notes : NoteOn(n) \/ NoteOff(n)
        \/ SustainDown \/ SustainUp \/ ReleaseNext \/ SustainEnds \/ Panic

Spec == Init /\ [][Next]_vars

------------------------------------------------------------------------------
(* Properties *)

TypeOK ==
  /\ notes \in Seq(Notes) /\ Len(notes) <= MaxNotes
  /\ pendingOff \in SUBSET Notes
  /\ sustain \in {"up", "down"} /\ pc \in {"ready", "releasing"}
  /\ gate \in {0, 1} /\ freq \in Notes
  /\ keys \in SUBSET Notes /\ unheard \in SUBSET Notes

\* No note is stacked twice; only stacked notes whose key is up have a deferred
\* note-off (so pending_off has room for the next), and only while the pedal is down;
\* a stacked note has its key down or its note-off deferred; and a closed gate
\* means an empty stack even in the middle of a pedal release.
StackInv ==
  /\ \A i, j \in 1..Len(notes) : notes[i] = notes[j] => i = j
  /\ pendingOff \subseteq Elements(notes) /\ pendingOff \intersect keys = {}
  /\ pendingOff # {} => sustain = "down" \/ pc = "releasing"
  /\ Elements(notes) \subseteq keys \union pendingOff
  /\ gate = 0 => notes = <<>>

\* Between two messages the gate is open exactly while a note is stacked.
GateFollowsStack == pc = "ready" => (gate = 1 <=> notes # <<>>)

\* Nothing sticks: with every key up and the pedal up the voice is silent,
\* whatever came before (a full stack, a note struck twice, a panic message).
NoStuckNote == pc = "ready" /\ keys = {} /\ sustain = "up" => gate = 0

\* Nothing is lost: a key that is down and was neither dropped by a full stack
\* nor silenced by a panic message is still stacked, even when it was struck
\* again while the pedal held its earlier note-off back.
HeldKeyStacked == keys \ unheard \subseteq Elements(notes)

\* An open gate plays a stacked note, or a key struck while the stack was full.
PlaysHeldNote ==
  pc = "ready" /\ gate = 1 =>
    freq \in Elements(notes) \/ (Len(notes) = MaxNotes /\ freq \in unheard)

\* Only striking a key opens the gate: a note-off, a pedal or a panic message
\* that follows a panic message never revives a note.
OnlyStrikeOpens == [][gate = 0 /\ gate' = 1 => \E n \in Notes : NoteOn(n)]_vars
==============================================================================
