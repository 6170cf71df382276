---------------------------- MODULE NoteStackProofs ----------------------------
(***************************************************************************)
(* The note stack is correct for every set of notes and every capacity.    *)
(* With its stores split and read by core1, the voice still behaves as     *)
(* NoteStack says, so all that is proved of NoteStack holds of it; and no  *)
(* release is lost.  Picking a preset leaves all of that alone, and ends   *)
(* at the preset picked, for every size of the banks and every index.      *)
(***************************************************************************)
EXTENDS PresetPick, TLAPS

NoRepeats(s) == \A i, j \in 1..Len(s) : s[i] = s[j] => i = j

\* Removing a note from a stack without repetitions leaves a stack without
\* repetitions that has exactly the other notes, and is no longer.
LEMMA WithoutRemoves ==
  ASSUME NEW S, NEW s \in Seq(S), NoRepeats(s), NEW n
  PROVE  /\ Without(s, n) \in Seq(S)
         /\ NoRepeats(Without(s, n))
         /\ Elements(Without(s, n)) = Elements(s) \ {n}
         /\ Len(Without(s, n)) <= Len(s)
<1>1. CASE n \notin Elements(s)
  BY <1>1 DEF Without, Elements
<1>2. CASE n \in Elements(s)
  <2> DEFINE pos == CHOOSE i \in 1..Len(s) : s[i] = n
             t   == [j \in 1..(Len(s) - 1) |-> IF j < pos THEN s[j] ELSE s[j + 1]]
  <2>1. pos \in 1..Len(s) /\ s[pos] = n
    BY <1>2 DEF Elements
  <2>2. Without(s, n) = t
    BY <1>2 DEF Without
  <2> HIDE DEF pos
  <2>3. Len(s) - 1 \in Nat
    BY <2>1
  <2>4. t \in Seq(S) /\ Len(t) = Len(s) - 1
    <3>1. \A j \in 1..(Len(s) - 1) : t[j] \in S
      BY <2>1
    <3>2. t \in [1..(Len(s) - 1) -> S]
      BY <3>1
    <3>3. QED BY <2>3, <3>2
  <2>5. NoRepeats(t)
    BY <2>1, <2>4 DEF NoRepeats
  <2>6. Elements(t) \subseteq Elements(s) \ {n}
    <3>1. ASSUME NEW j \in 1..(Len(s) - 1) PROVE t[j] \in Elements(s) \ {n}
      <4>1. CASE j < pos
        BY <2>1, <4>1 DEF NoRepeats, Elements
      <4>2. CASE ~(j < pos)
        BY <2>1, <4>2 DEF NoRepeats, Elements
      <4>3. QED BY <4>1, <4>2
    <3>2. QED BY <2>4, <3>1 DEF Elements
  <2>7. Elements(s) \ {n} \subseteq Elements(t)
    <3>1. ASSUME NEW i \in 1..Len(s), s[i] # n PROVE s[i] \in Elements(t)
      <4>1. CASE i < pos
        <5>1. i \in 1..Len(t) /\ t[i] = s[i]
          BY <2>1, <2>4, <4>1
        <5>2. QED BY <5>1 DEF Elements
      <4>2. CASE i > pos
        <5>1. i - 1 \in 1..Len(t) /\ t[i - 1] = s[i]
          BY <2>1, <2>4, <4>2
        <5>2. QED BY <5>1 DEF Elements
      <4>3. QED BY <2>1, <3>1, <4>1, <4>2
    <3>2. QED BY <3>1 DEF Elements
  <2>8. Len(t) <= Len(s)
    BY <2>3, <2>4
  <2> HIDE DEF t
  <2>9. QED BY <2>2, <2>4, <2>5, <2>6, <2>7, <2>8
<1>3. QED BY <1>1, <1>2

\* Pushing a new note keeps the stack free of repetitions and adds that note.
LEMMA PushAdds ==
  ASSUME NEW S, NEW s \in Seq(S), NoRepeats(s), NEW n \in S, n \notin Elements(s)
  PROVE  /\ Append(s, n) \in Seq(S)
         /\ NoRepeats(Append(s, n))
         /\ Elements(Append(s, n)) = Elements(s) \union {n}
         /\ Len(Append(s, n)) = Len(s) + 1
<1> DEFINE t == Append(s, n)
<1>1. /\ t \in Seq(S) /\ Len(t) = Len(s) + 1
      /\ \A i \in 1..Len(s) : t[i] = s[i]
      /\ t[Len(s) + 1] = n
  OBVIOUS
<1> HIDE DEF t
<1>2. NoRepeats(t)
  BY <1>1 DEF NoRepeats, Elements
<1>3. Elements(t) \subseteq Elements(s) \union {n}
  BY <1>1 DEF Elements
<1>4. Elements(s) \subseteq Elements(t)
  BY <1>1 DEF Elements
<1>5. n \in Elements(t)
  <2>1. Len(s) + 1 \in 1..Len(t)
    BY <1>1
  <2>2. QED BY <1>1, <2>1 DEF Elements
<1>6. QED BY <1>1, <1>2, <1>3, <1>4, <1>5 DEF t

\* The top of a non-empty stack is stacked.
LEMMA TopStacked ==
  ASSUME NEW S, NEW s \in Seq(S), s # <<>>
  PROVE  s[Len(s)] \in Elements(s) /\ s[Len(s)] \in S
<1>1. Len(s) \in 1..Len(s)
  OBVIOUS
<1>2. QED BY <1>1 DEF Elements

\* Nothing is stacked exactly on the empty stack.
LEMMA EmptyElements ==
  ASSUME NEW S, NEW s \in Seq(S)
  PROVE  Elements(s) = {} <=> s = <<>>
<1>1. ASSUME s # <<>> PROVE Elements(s) # {}
  BY <1>1, TopStacked
<1>2. QED BY <1>1 DEF Elements

\* The inductive invariant.
IInv == TypeOK /\ StackInv /\ GateFollowsStack /\ HeldKeyStacked /\ PlaysHeldNote

\* Before the first message nothing is held and the voice is silent.
THEOREM InitInv == Init => IInv
<1> SUFFICES ASSUME Init PROVE IInv
  OBVIOUS
<1>1. notes = <<>> /\ Elements(notes) = {} /\ Len(notes) = 0
  BY DEF Init, Elements
<1>2. QED
  BY <1>1, MaxNotesAssumption
  DEF Init, IInv, TypeOK, StackInv, GateFollowsStack, HeldKeyStacked, PlaysHeldNote

\* Every handler of midi_task keeps the invariant.
THEOREM StepInv == IInv /\ [Next]_vars => IInv'
<1> SUFFICES ASSUME IInv, [Next]_vars PROVE IInv'
  OBVIOUS
<1> USE MaxNotesAssumption DEF stack, voice
<1>0. notes \in Seq(Notes) /\ NoRepeats(notes) /\ Len(notes) \in Nat
  BY DEF IInv, TypeOK, StackInv, NoRepeats
<1>1. ASSUME NEW n \in Notes, NoteOn(n) PROVE IInv'
  <2>1. CASE n \notin Elements(notes) /\ Len(notes) < MaxNotes
    <3>1. notes' = Append(notes, n)
      BY <1>1, <2>1 DEF NoteOn
    <3>2. /\ notes' \in Seq(Notes) /\ NoRepeats(notes')
          /\ Elements(notes') = Elements(notes) \union {n} /\ Len(notes') <= MaxNotes
      BY <1>0, <2>1, <3>1, PushAdds
    <3>3. notes' # <<>>
      BY <3>2 DEF Elements
    <3>4. QED
      BY <1>1, <3>2, <3>3
      DEF NoteOn, IInv, TypeOK, StackInv, GateFollowsStack, HeldKeyStacked,
          PlaysHeldNote, NoRepeats, Elements
  <2>2. CASE ~(n \notin Elements(notes) /\ Len(notes) < MaxNotes)
    <3>1. notes' = notes
      BY <1>1, <2>2 DEF NoteOn
    <3>2. notes # <<>> /\ (n \in Elements(notes) \/ Len(notes) = MaxNotes)
      <4>1. CASE n \in Elements(notes)
        BY <4>1, <1>0, EmptyElements
      <4>2. CASE ~(Len(notes) < MaxNotes)
        BY <4>2, <1>0 DEF IInv, TypeOK
      <4>3. QED BY <2>2, <4>1, <4>2
    <3>3. Elements(notes') = Elements(notes)
      BY <3>1
    <3>4. QED
      BY <1>1, <3>1, <3>2, <3>3
      DEF NoteOn, IInv, TypeOK, StackInv, GateFollowsStack, HeldKeyStacked, PlaysHeldNote
  <2>3. QED BY <2>1, <2>2
<1>2. ASSUME NEW n \in Notes, NoteOff(n) PROVE IInv'
  <2>1. CASE sustain = "down"
    <3>1. notes' = notes /\ Elements(notes') = Elements(notes)
      BY <1>2, <2>1 DEF NoteOff
    <3>2. notes # <<>> => freq' \in Elements(notes') /\ freq' \in Notes
      BY <1>0, <1>2, <3>1, TopStacked DEF NoteOff, FallBack
    <3>3. QED
      BY <1>2, <2>1, <3>1, <3>2
      DEF NoteOff, FallBack, IInv, TypeOK, StackInv, GateFollowsStack, HeldKeyStacked, PlaysHeldNote
  <2>2. CASE sustain # "down"
    <3>1. notes' = Without(notes, n) /\ pendingOff' = pendingOff /\ pendingOff = {}
      BY <1>2, <2>2 DEF NoteOff, IInv, StackInv
    <3>2. /\ notes' \in Seq(Notes) /\ NoRepeats(notes')
          /\ Elements(notes') = Elements(notes) \ {n} /\ Len(notes') <= Len(notes)
      BY <1>0, <3>1, WithoutRemoves
    <3>3. Len(notes') \in Nat /\ Len(notes') <= MaxNotes
      BY <1>0, <3>2 DEF IInv, TypeOK
    <3>4. notes' # <<>> => freq' \in Elements(notes') /\ freq' \in Notes
      BY <1>2, <3>2, TopStacked DEF NoteOff, FallBack
    <3>5. QED
      BY <1>2, <2>2, <3>1, <3>2, <3>3, <3>4
      DEF NoteOff, FallBack, IInv, TypeOK, StackInv, GateFollowsStack, HeldKeyStacked,
          PlaysHeldNote, NoRepeats
  <2>3. QED BY <2>1, <2>2
<1>3. CASE SustainDown
  BY <1>3 DEF SustainDown, IInv, TypeOK, StackInv, GateFollowsStack, HeldKeyStacked,
              PlaysHeldNote, Elements
<1>4. CASE SustainUp
  BY <1>4 DEF SustainUp, IInv, TypeOK, StackInv, GateFollowsStack, HeldKeyStacked,
              PlaysHeldNote, Elements
<1>5. CASE ReleaseNext
  <2>1. PICK n \in pendingOff : notes' = Without(notes, n) /\ pendingOff' = pendingOff \ {n}
    BY <1>5 DEF ReleaseNext
  <2>2. /\ notes' \in Seq(Notes) /\ NoRepeats(notes')
        /\ Elements(notes') = Elements(notes) \ {n} /\ Len(notes') <= Len(notes)
    BY <1>0, <2>1, WithoutRemoves
  <2>3. Len(notes') <= MaxNotes
    BY <1>0, <2>2 DEF IInv, TypeOK
  <2>4. n \notin keys
    BY <2>1 DEF IInv, StackInv
  <2>5. QED
    BY <1>5, <2>1, <2>2, <2>3, <2>4
    DEF ReleaseNext, IInv, TypeOK, StackInv, GateFollowsStack, HeldKeyStacked,
        PlaysHeldNote, NoRepeats
<1>6. CASE SustainEnds
  <2>1. notes' = notes /\ Elements(notes') = Elements(notes)
    BY <1>6 DEF SustainEnds
  <2>2. notes # <<>> => freq' \in Elements(notes') /\ freq' \in Notes
    BY <1>0, <1>6, <2>1, TopStacked DEF SustainEnds, FallBack
  <2>3. QED
    BY <1>6, <2>1, <2>2
    DEF SustainEnds, FallBack, IInv, TypeOK, StackInv, GateFollowsStack, HeldKeyStacked, PlaysHeldNote
<1>7. CASE Panic
  <2>1. notes' = <<>> /\ Elements(notes') = {} /\ Len(notes') = 0
    BY <1>7 DEF Panic, Elements
  <2>2. QED
    BY <1>7, <2>1 DEF Panic, IInv, TypeOK, StackInv, GateFollowsStack, HeldKeyStacked, PlaysHeldNote
<1>8. CASE UNCHANGED vars
  BY <1>8 DEF vars, IInv, TypeOK, StackInv, GateFollowsStack, HeldKeyStacked,
              PlaysHeldNote, Elements
<1>9. QED
  BY <1>1, <1>2, <1>3, <1>4, <1>5, <1>6, <1>7, <1>8 DEF Next

\* The inductive invariant holds of the specification.
THEOREM Invariance == Spec => []IInv
BY InitInv, StepInv, PTL DEF Spec

\* Every reachable state is well typed; the stack never outgrows its capacity.
THEOREM TypeCorrect == Spec => []TypeOK
<1>1. IInv => TypeOK
  BY DEF IInv
<1>2. QED BY <1>1, Invariance, PTL

\* The gate is open exactly while a note is stacked.
THEOREM GateCorrect == Spec => []GateFollowsStack
<1>1. IInv => GateFollowsStack
  BY DEF IInv
<1>2. QED BY <1>1, Invariance, PTL

\* With every key and the pedal up the voice is silent.
THEOREM NothingSticks == Spec => []NoStuckNote
<1>1. IInv => NoStuckNote
  <2> SUFFICES ASSUME IInv, pc = "ready", keys = {}, sustain = "up" PROVE gate = 0
    BY DEF NoStuckNote
  <2>1. Elements(notes) = {}
    BY DEF IInv, StackInv
  <2>2. notes = <<>>
    BY <2>1, EmptyElements DEF IInv, TypeOK
  <2>3. QED BY <2>2 DEF IInv, TypeOK, GateFollowsStack
<1>2. QED BY <1>1, Invariance, PTL

\* A key that is down stays stacked unless the stack was full or was cleared.
THEOREM NothingLost == Spec => []HeldKeyStacked
<1>1. IInv => HeldKeyStacked
  BY DEF IInv
<1>2. QED BY <1>1, Invariance, PTL

\* An open gate plays a stacked note or one that found the stack full.
THEOREM PitchCorrect == Spec => []PlaysHeldNote
<1>1. IInv => PlaysHeldNote
  BY DEF IInv
<1>2. QED BY <1>1, Invariance, PTL

\* The stack and the deferred note-offs keep to their relation with the keys.
THEOREM StackCorrect == Spec => []StackInv
<1>1. IInv => StackInv
  BY DEF IInv
<1>2. QED BY <1>1, Invariance, PTL

\* What a release falls back to never opens a closed gate.
LEMMA ReleaseOpensNothing ==
  ASSUME IInv, (\E n \in Notes : NoteOff(n)) \/ SustainEnds, gate = 0
  PROVE  gate' = 0
<1>1. notes = <<>>
  BY DEF IInv, StackInv
<1>2. ASSUME NEW n \in Notes, NoteOff(n) PROVE gate' = 0
  <2>1. notes' = <<>>
    BY <1>1, <1>2 DEF NoteOff, Without, Elements
  <2>2. QED BY <1>2, <2>1 DEF NoteOff, FallBack
<1>3. CASE SustainEnds
  <2>1. notes' = <<>>
    BY <1>1, <1>3 DEF SustainEnds
  <2>2. QED BY <1>3, <2>1 DEF SustainEnds, FallBack
<1>4. QED BY <1>2, <1>3

\* No step other than a key strike opens a closed gate.
THEOREM StrikeOpens == Spec => OnlyStrikeOpens
<1>1. IInv /\ [Next]_vars =>
        [gate = 0 /\ gate' = 1 => \E n \in Notes : NoteOn(n)]_vars
  <2> SUFFICES ASSUME IInv, [Next]_vars, gate = 0, gate' = 1
               PROVE  \E n \in Notes : NoteOn(n)
    OBVIOUS
  <2>1. ~((\E n \in Notes : NoteOff(n)) \/ SustainEnds)
    BY ReleaseOpensNothing
  <2>2. CASE SustainDown \/ SustainUp \/ ReleaseNext \/ Panic \/ UNCHANGED vars
    BY <2>2 DEF SustainDown, SustainUp, ReleaseNext, Panic, vars, stack, voice
  <2>3. QED BY <2>1, <2>2 DEF Next
<1>2. QED BY <1>1, Invariance, PTL DEF Spec, OnlyStrikeOpens

------------------------------------------------------------------------------
(* VoicePulse and PresetPick *)

\* Every step of either core is a step of NoteStack or leaves the voice alone.
THEOREM StackImplemented == VSpec => Spec
<1>1. VInit => Init
  BY DEF VInit
<1>2. [VNext]_vvars => [Next]_vars
  <2> SUFFICES ASSUME [VNext]_vvars PROVE [Next]_vars
    OBVIOUS
  <2>1. CASE Lower \/ Silence \/ Other
    BY <2>1 DEF Lower, Silence, Other, Next
  <2>2. CASE StorePulse \/ Render \/ UNCHANGED vvars
    BY <2>2 DEF StorePulse, Render, LoadGate, TakePulse, vvars
  <2>3. QED BY <2>1, <2>2 DEF VNext, MidiTask
<1>3. QED BY <1>1, <1>2, PTL DEF VSpec, Spec

(***************************************************************************)
(* While a release is owed the pulse is up or still to be raised, and it is *)
(* raised before the gate can open again; a read that began after the       *)
(* release has seen the gate closed or will take the pulse.                 *)
(***************************************************************************)
PulseInv ==
  /\ pulse \in {0, 1} /\ seen \in {0, 1} /\ owed \in {0, 1, 2}
  /\ due \in {"none", "raise", "clear"} /\ rpc \in {"load", "swap"}
  /\ due # "none" => gate = 0
  /\ due = "clear" => owed = 0
  /\ owed # 0 => pulse = 1 \/ due = "raise"
  /\ owed = 2 => rpc = "swap" /\ (seen = 0 \/ pulse = 1)

LEMMA PulseStep == IInv /\ PulseInv /\ [VNext]_vvars => PulseInv'
<1> SUFFICES ASSUME IInv, PulseInv, [VNext]_vvars PROVE PulseInv'
  OBVIOUS
<1>0. gate \in {0, 1}
  BY DEF IInv, TypeOK
<1>1. CASE Lower
  <2>1. (\E n \in Notes : NoteOff(n)) \/ SustainEnds
    BY <1>1 DEF Lower
  <2>2. gate' \in {0, 1}
    BY <2>1, <1>0 DEF NoteOff, SustainEnds, FallBack
  <2>3. gate = 0 => gate' = 0
    BY <2>1, ReleaseOpensNothing
  <2>4. /\ due = "none" /\ due' = IF gate' = 0 THEN "raise" ELSE "none"
        /\ owed' = IF gate = 1 /\ gate' = 0 /\ owed = 0 THEN 1 ELSE owed
        /\ UNCHANGED <<pulse, rpc, seen>>
    BY <1>1 DEF Lower, SetGateDue, Release, readVars
  <2>5. QED BY <1>0, <2>2, <2>3, <2>4 DEF PulseInv
<1>2. CASE Silence
  <2>1. gate' = 0 /\ due' = "clear" /\ owed' = 0 /\ UNCHANGED <<pulse, rpc, seen>>
    BY <1>2 DEF Silence, Panic, readVars
  <2>2. QED BY <2>1 DEF PulseInv
<1>3. CASE StorePulse
  <2>1. /\ due # "none" /\ due' = "none" /\ pulse' = IF due = "raise" THEN 1 ELSE 0
        /\ UNCHANGED <<gate, rpc, seen, owed>>
    BY <1>3 DEF StorePulse, vars, voice, readVars
  <2>2. QED BY <2>1 DEF PulseInv
<1>4. CASE Other
  <2>1. due = "none" /\ UNCHANGED <<due, pulse, rpc, seen, owed>>
    BY <1>4 DEF Other, pulseVars, readVars
  <2>2. gate' = 1 \/ gate' = gate
    BY <1>4 DEF Other, NoteOn, SustainDown, SustainUp, ReleaseNext, voice
  <2>3. QED BY <1>0, <2>1, <2>2 DEF PulseInv
<1>5. CASE LoadGate
  <2>1. /\ seen' = gate /\ rpc' = "swap" /\ owed' = IF owed = 1 THEN 2 ELSE owed
        /\ UNCHANGED <<gate, pulse, due>>
    BY <1>5 DEF LoadGate, vars, voice, pulseVars
  <2>2. rpc = "load"
    BY <1>5 DEF LoadGate
  <2>3. QED BY <1>0, <2>1, <2>2 DEF PulseInv
<1>6. CASE TakePulse
  <2>1. /\ rpc' = "load" /\ pulse' = 0
        /\ owed' = IF seen = 0 \/ pulse = 1 THEN 0 ELSE owed
        /\ UNCHANGED <<gate, due, seen>>
    BY <1>6 DEF TakePulse, Heard, vars, voice
  <2>2. QED BY <1>0, <2>1 DEF PulseInv
<1>7. CASE UNCHANGED vvars
  BY <1>7 DEF PulseInv, vvars, vars, voice, pulseVars, readVars
<1>8. QED BY <1>1, <1>2, <1>3, <1>4, <1>5, <1>6, <1>7 DEF VNext, MidiTask, Render

\* The first MidiGate that starts after a release takes its envelope low for it.
THEOREM EveryReleaseHeard == VSpec => []ReleaseHeard
<1>1. VInit => PulseInv
  BY DEF VInit, Init, PulseInv
<1>2. PulseInv => ReleaseHeard
  BY DEF PulseInv, ReleaseHeard
<1>3. QED BY <1>1, <1>2, PulseStep, StackImplemented, Invariance, PTL DEF VSpec

------------------------------------------------------------------------------
(* PresetPick *)

\* What moves the preset index does not touch the voice, and a halted core0 only
\* takes steps away.
THEOREM PulseImplemented == PSpec => VSpec
<1>1. PInit => VInit
  BY DEF PInit
<1>2. [PNext]_pvars => [VNext]_vvars
  BY DEF PNext, PickStep, ProgramChange, SoftPedalDown, SoftPedalUp, EditorWrites, ResetBank,
         pvars, VNext
<1>3. QED BY <1>1, <1>2, PTL DEF PSpec, VSpec

(***************************************************************************)
(* What keeps the bank's uploads from halting core0: an index that stands  *)
(* is below RegionRoom, because a program change only names one of the     *)
(* first MaxPresets, and a tap that goes further does not return.          *)
(***************************************************************************)
PickInv == numPresets \in Nat /\ idx \in Nat /\ core0 \in {"runs", "halted"} /\ PickedIsLoaded

\* The next index is one of the bank's, if the bank has any.
LEMMA NextInBank ==
  ASSUME numPresets \in Nat \ {0}, idx \in Nat
  PROVE  NextIndex \in Nat /\ NextIndex < numPresets
<1>1. idx + 1 \in Nat
  OBVIOUS
<1>2. \A x \in Nat, m \in Nat \ {0} : x % m \in 0..(m - 1)
  OBVIOUS
<1>3. NextIndex \in 0..(numPresets - 1)
  BY <1>1, <1>2 DEF NextIndex
<1>4. QED BY <1>3

\* A load of an index that may halt leaves the working preset picked, or core0 halted.
LEMMA LoadPicks ==
  ASSUME PickInv, core0 = "runs", NEW i \in Nat, idx' = i, numPresets' = numPresets,
         build' = build, Load(i), i < numPresets \/ i < RegionRoom
  PROVE  PickInv'
<1>1. numPresets \in Nat /\ MaxPresets \in Nat /\ RegionRoom \in Nat /\ MaxPresets <= RegionRoom
  BY RoomAssumption DEF PickInv
<1>2. HaltIf(Halts(i, numPresets))
  BY DEF Load
<1>3. CASE Found(i, numPresets)
  <2>1. Take(i)
    BY <1>3 DEF Load
  <2>2. ~Halts(i, numPresets)
    BY <1>1, <1>3 DEF Found, Halts
  <2> QED
    BY <1>1, <1>2, <1>3, <2>1, <2>2 DEF PickInv, PickedIsLoaded, HaltsAreTheHeaders, HaltIf, Take, Found, Place
<1>4. CASE ~Found(i, numPresets) /\ i < numPresets
  <2>1. i >= RegionRoom /\ numPresets > RegionRoom
    BY <1>1, <1>4 DEF Found
  <2>2. core0' = "halted"
    BY <1>2, <1>4, <2>1 DEF HaltIf, Halts
  <2> QED BY <1>1, <2>1, <2>2 DEF PickInv, PickedIsLoaded, HaltsAreTheHeaders
<1>5. CASE ~(i < numPresets)
  <2>1. i < RegionRoom /\ i >= numPresets
    BY <1>1, <1>5
  <2>2. core0' = "runs" \/ (core0' = "halted" /\ numPresets = 0 /\ build = "dev")
    BY <1>2, <1>5 DEF HaltIf, Halts
  <2> QED BY <1>1, <2>1, <2>2 DEF PickInv, PickedIsLoaded, HaltsAreTheHeaders
<1>6. QED BY <1>3, <1>4, <1>5

\* Every pick, and every change of the bank, keeps the working preset the picked one.
LEMMA PickStepKeeps == PickInv /\ [PNext]_pvars => PickInv'
<1> SUFFICES ASSUME PickInv, [PNext]_pvars PROVE PickInv'
  OBVIOUS
<1>0. /\ MaxPresets \in Nat /\ RegionRoom \in Nat /\ MaxPresets <= RegionRoom
      /\ FactoryCount \in Nat /\ FactoryCount > 0 /\ FactoryCount <= RegionRoom
      /\ \A p \in Programs : p \in Nat /\ p < RegionRoom
      /\ EditedCounts \subseteq Nat
  BY RoomAssumption, CountsAssumption, IndexAssumption
<1>1. CASE UNCHANGED pick
  BY <1>1 DEF pick, PickInv, PickedIsLoaded, HaltsAreTheHeaders
<1>2. ASSUME NEW p \in Programs, ProgramChange(p) PROVE PickInv'
  <2>1. /\ core0 = "runs" /\ idx' = p /\ numPresets' = numPresets /\ build' = build
        /\ Load(p)
    BY <1>2 DEF ProgramChange, Free
  <2>2. p \in Nat /\ p < RegionRoom
    BY <1>0
  <2> QED BY <2>1, <2>2, LoadPicks
<1>3. CASE SoftPedalDown
  BY <1>3 DEF SoftPedalDown, PickInv, PickedIsLoaded, HaltsAreTheHeaders
<1>4. CASE SoftPedalUp
  <2>1. CASE pedal = "down" /\ numPresets > 0
    <3>1. /\ core0 = "runs" /\ idx' = NextIndex /\ numPresets' = numPresets /\ build' = build
          /\ Load(idx')
      BY <1>4, <2>1 DEF SoftPedalUp, Free
    <3>2. NextIndex \in Nat /\ NextIndex < numPresets
      BY <2>1, NextInBank DEF PickInv
    <3>3. Load(NextIndex)
      BY <3>1
    <3> QED BY <3>1, <3>2, <3>3, LoadPicks
  <2>2. CASE ~(pedal = "down" /\ numPresets > 0)
    BY <1>4, <2>2 DEF SoftPedalUp, PickInv, PickedIsLoaded, HaltsAreTheHeaders
  <2> QED BY <2>1, <2>2
<1>5. ASSUME NEW c \in EditedCounts, EditorWrites(c) PROVE PickInv'
  <2>1. /\ core0 = "runs" /\ numPresets' = c /\ idx' = idx /\ build' = build
        /\ core0' = IF Halts(idx, c) THEN "halted" ELSE "runs"
    BY <1>5 DEF EditorWrites, Free, HaltIf
  <2>2. c \in Nat /\ idx \in Nat /\ idx < RegionRoom
    BY <1>0, <2>1 DEF PickInv, PickedIsLoaded, HaltsAreTheHeaders
  <2>3. core0' = "halted" => c = 0 /\ build = "dev"
    BY <1>0, <2>1, <2>2 DEF Halts
  <2>4. idx < c => at' = idx /\ from' = Place(idx)
    BY <1>5, <2>2 DEF EditorWrites, Found, Take
  <2> QED BY <2>1, <2>2, <2>3, <2>4 DEF PickInv, PickedIsLoaded, HaltsAreTheHeaders, Place
<1>6. CASE ResetBank
  <2>1. core0 = "runs" /\ core0' = "runs" /\ numPresets' = FactoryCount /\ idx' = idx /\ reset' = 1
    BY <1>6 DEF ResetBank, Free
  <2> QED BY <1>0, <2>1 DEF PickInv, PickedIsLoaded, HaltsAreTheHeaders
<1>7. QED BY <1>1, <1>2, <1>3, <1>4, <1>5, <1>6 DEF PNext, PickStep, pvars, pick

\* The bank and the index that midi_task starts with.
LEMMA PickInit == PInit => PickInv
<1> SUFFICES ASSUME PInit PROVE PickInv
  OBVIOUS
<1>1. /\ MaxPresets \in Nat /\ RegionRoom \in Nat /\ BootIndex \in Nat
      /\ BootIndex < MaxPresets /\ BootIndex < RegionRoom
  BY RoomAssumption, IndexAssumption
<1>2. numPresets \in Nat
  BY CountsAssumption DEF PInit
<1>3. core0 = "runs" /\ idx = BootIndex /\ at = BootIndex
  BY DEF PInit
<1>4. BootIndex < numPresets => from = Place(BootIndex)
  BY <1>1, <1>2 DEF PInit, Found, Place
<1>5. QED BY <1>1, <1>2, <1>3, <1>4 DEF PickInv, PickedIsLoaded, HaltsAreTheHeaders

\* Whatever the editor's header claims: the working preset is the one the index names,
\* unless there is none or the bank was reset, and a load halts the firmware only
\* under a header that claims more than the flash has room for, or no preset at all.
THEOREM PickedCorrect == PSpec => []PickedIsLoaded
<1>1. PickInv => PickedIsLoaded
  BY DEF PickInv
<1>2. QED BY <1>1, PickInit, PickStepKeeps, PTL DEF PSpec

\* A tap on the pedal leads to an index that the header admits and loads it, unless the
\* header claims more than the flash has room for, and then to a preset of the bank,
\* unless it claims more than a bank holds.
THEOREM PedalCorrect == PSpec => PedalInBank
<1> DEFINE Goal == Tap => /\ idx' < numPresets
                          /\ numPresets <= RegionRoom => core0' = "runs"
                          /\ numPresets <= MaxPresets => from' = "bank"
                          /\ core0' = "runs" => at' = idx'
<1>1. PickInv /\ [PNext]_pvars => [Goal]_pvars
  <2> SUFFICES ASSUME PickInv, PNext, Tap
               PROVE  /\ idx' < numPresets
                      /\ numPresets <= RegionRoom => core0' = "runs"
                      /\ numPresets <= MaxPresets => from' = "bank"
                      /\ core0' = "runs" => at' = idx'
    BY DEF pvars
  <2>1. SoftPedalUp
    BY DEF Tap, PNext, PickStep, ProgramChange, SoftPedalDown, EditorWrites, ResetBank, pick
  <2>2. core0 = "runs" /\ idx' = NextIndex /\ Load(idx')
    BY <2>1 DEF Tap, SoftPedalUp, Free
  <2>3. numPresets \in Nat /\ numPresets > 0 /\ idx' \in Nat /\ idx' < numPresets
    BY <2>2, NextInBank DEF PickInv, Tap
  <2>4. MaxPresets \in Nat /\ RegionRoom \in Nat /\ MaxPresets <= RegionRoom
    BY RoomAssumption
  <2>5. CASE idx' < RegionRoom
    <3>1. core0' = "runs" /\ at' = idx' /\ from' = Place(idx')
      BY <2>2, <2>3, <2>4, <2>5 DEF Load, HaltIf, Halts, Found, Take
    <3> QED BY <2>3, <2>4, <3>1 DEF Place
  <2>6. CASE ~(idx' < RegionRoom)
    <3>1. core0' = "halted" /\ numPresets > RegionRoom
      BY <2>2, <2>3, <2>4, <2>6 DEF Load, HaltIf, Halts
    <3> QED BY <2>3, <2>4, <3>1
  <2> QED BY <2>5, <2>6
<1>2. QED BY <1>1, PickInit, PickStepKeeps, PTL DEF PSpec, PedalInBank
===============================================================================
