---------------------------- MODULE PresetFlowProofs ----------------------------
(* Proofs about PresetFlow for every set of slots, values and shapes. *)
EXTENDS PresetFlow, TLAPS

\* The newest copy core1 was given, and the slots it has still to be stored into.
Newest       == IF chan # <<>> THEN chan[1] ELSE building
Outstanding(s) == chan # <<>> \/ pc1 = "switch" \/ s \in toSeed1

\* The newest copy has the working preset's shape; of the slots not edited too
\* late, those still to be seeded have the working value in the copy, and the
\* others have it already.
CopyInv ==
  mpc = "ready" /\ cause = "none" =>
    /\ Newest.shape = work.shape
    /\ \A s \in Slots \ raced :
         /\ Outstanding(s)  => Newest.cont[s] = work.cont[s]
         /\ ~Outstanding(s) => live[s] = work.cont[s]

SeedInv == pc1 # "seed" => toSeed1 = {}

IInv == TypeOK /\ SeedInv /\ CopyInv

\* A preset is a pair of its two parts.
LEMMA PresetParts ==
  \A p \in Presets : p.cont \in [Slots -> Values] /\ p.shape \in Shapes
  BY DEF Presets

\* The two ways in which midi_task edits its working preset.
LEMMA EditTyped ==
  ASSUME work \in Presets
  PROVE  /\ \A s \in Slots, v \in Values :
              LET w == [work EXCEPT !.cont[s] = v]
              IN  w \in Presets /\ w.shape = work.shape /\ w.cont = [work.cont EXCEPT ![s] = v]
         /\ \A x \in Shapes :
              LET w == [work EXCEPT !.shape = x]
              IN  w \in Presets /\ w.shape = x /\ w.cont = work.cont
  BY DEF Presets

\* The boot preset is the newest copy before anything is seeded.
THEOREM InitInv == Init => IInv
<1> SUFFICES ASSUME Init PROVE IInv
  OBVIOUS
<1>1. TypeOK
  BY DEF Init, TypeOK
<1>2. CopyInv
  BY DEF Init, CopyInv, Newest, Outstanding
<1> QED BY <1>1, <1>2 DEF IInv, SeedInv, Init

\* Offering the working preset: accepted, it is the newest copy; refused, CopyInv
\* says nothing any more.
LEMMA OfferKeeps ==
  ASSUME TypeOK, work' \in Presets, Offer(work'), UNCHANGED <<live, core1>>
  PROVE  /\ chan' \in Seq(Presets) /\ Len(chan') <= 1
         /\ cause' \in {"none", "dropped"} /\ raced' \subseteq Slots
         /\ CopyInv'
<1>1. CASE chan = <<>>
  <2>1. chan' = <<work'>> /\ cause' = "none" /\ raced' = {}
    BY <1>1 DEF Offer
  <2>2. chan' \in Seq(Presets) /\ Len(chan') = 1 /\ chan' # <<>> /\ chan'[1] = work'
    BY <2>1
  <2>3. Newest' = work' /\ \A s \in Slots : Outstanding(s)'
    BY <2>2 DEF Newest, Outstanding
  <2> QED BY <2>1, <2>2, <2>3 DEF CopyInv
<1>2. CASE chan # <<>>
  BY <1>2 DEF Offer, TypeOK, CopyInv
<1> QED BY <1>1, <1>2

\* Every step of the two cores keeps the invariant.
THEOREM StepInv == IInv /\ [Next]_vars => IInv'
<1> SUFFICES ASSUME IInv, [Next]_vars PROVE IInv'
  OBVIOUS
<1> USE DEF IInv
<1>1. ASSUME NEW s \in Slots, NEW v \in Values, Tweak(s, v) PROVE IInv'
  <2>1. /\ work' \in Presets /\ work'.shape = work.shape
        /\ work'.cont = [work.cont EXCEPT ![s] = v] /\ work.cont \in [Slots -> Values]
    BY <1>1, EditTyped, PresetParts DEF Tweak, TypeOK
  <2>2. /\ live' = [live EXCEPT ![s] = v] /\ live \in [Slots -> Values]
        /\ UNCHANGED <<toSeed0, mpc, chan, core1, cause>>
        /\ raced' = IF Outstanding(s) THEN raced \union {s} ELSE raced
    BY <1>1 DEF Tweak, TypeOK, Outstanding
  <2>3. TypeOK'
    BY <2>1, <2>2 DEF TypeOK, core1
  <2>4. Newest' = Newest /\ \A t \in Slots : Outstanding(t)' <=> Outstanding(t)
    BY <2>2 DEF Newest, Outstanding, core1
  <2>5. \A t \in Slots \ raced' : t # s => work'.cont[t] = work.cont[t] /\ live'[t] = live[t] /\ t \notin raced
    BY <2>1, <2>2
  <2>6. s \notin raced' => ~Outstanding(s) /\ work'.cont[s] = v /\ live'[s] = v
    BY <2>1, <2>2
  <2>7. CopyInv'
    BY <2>1, <2>2, <2>4, <2>5, <2>6 DEF CopyInv
  <2> QED BY <2>2, <2>3, <2>7 DEF SeedInv, core1
<1>2. ASSUME NEW x \in Shapes, Reshape(x) PROVE IInv'
  <2>1. work' \in Presets /\ Offer(work') /\ UNCHANGED <<toSeed0, mpc, live, core1>>
    BY <1>2, EditTyped DEF Reshape, TypeOK
  <2> QED BY <2>1, OfferKeeps DEF TypeOK, SeedInv, core1
<1>3. ASSUME NEW p \in Presets, LoadPreset(p) PROVE IInv'
  BY <1>3 DEF LoadPreset, TypeOK, SeedInv, CopyInv, core1, ghosts
<1>4. CASE SeedLive
  <2>1. PICK s \in toSeed0 : live' = [live EXCEPT ![s] = work.cont[s]] /\ toSeed0' = toSeed0 \ {s}
    BY <1>4 DEF SeedLive
  <2>2. s \in Slots /\ work.cont[s] \in Values
    BY <2>1, PresetParts DEF TypeOK
  <2> QED BY <1>4, <2>1, <2>2 DEF SeedLive, TypeOK, SeedInv, CopyInv, core1, ghosts
<1>5. CASE OfferLoaded
  <2>1. work' = work /\ work' \in Presets /\ Offer(work') /\ mpc' = "ready"
        /\ UNCHANGED <<toSeed0, live, core1>>
    BY <1>5 DEF OfferLoaded, TypeOK
  <2> QED BY <2>1, OfferKeeps DEF TypeOK, SeedInv, core1
<1>6. CASE TakePreset
  <2>1. /\ chan # <<>> /\ building' = chan[1] /\ chan' = Tail(chan) /\ pc1' = "switch" /\ pc1 = "run"
        /\ UNCHANGED <<midiTask, live, toSeed1, ghosts>>
    BY <1>6 DEF TakePreset, TypeOK
  <2>2. chan' = <<>> /\ chan[1] \in Presets
    BY <2>1 DEF TypeOK
  <2>3. TypeOK'
    BY <2>1, <2>2 DEF TypeOK, midiTask, ghosts
  <2>4. Newest' = Newest /\ \A s \in Slots : Outstanding(s) /\ Outstanding(s)'
    BY <2>1, <2>2 DEF Newest, Outstanding
  <2>5. CopyInv'
    BY <2>1, <2>4 DEF CopyInv, midiTask, ghosts
  <2> QED BY <2>1, <2>3, <2>5 DEF SeedInv
<1>7. CASE StartBuild
  <2>1. /\ pc1 = "switch" /\ pc1' = "seed" /\ toSeed1' = Slots
        /\ live' = [live EXCEPT ![Portamento] = building.cont[Portamento]]
        /\ UNCHANGED <<midiTask, chan, building, ghosts>>
    BY <1>7 DEF StartBuild
  <2>2. TypeOK'
    BY <2>1, PresetParts, PortamentoAssumption DEF TypeOK, midiTask, ghosts
  <2>3. Newest' = Newest /\ \A s \in Slots : Outstanding(s) /\ Outstanding(s)'
    BY <2>1 DEF Newest, Outstanding
  <2>4. CopyInv'
    BY <2>1, <2>3 DEF CopyInv, midiTask, ghosts
  <2> QED BY <2>1, <2>2, <2>4 DEF SeedInv
<1>8. CASE SeedBuild
  <2>1. PICK s \in toSeed1 : live' = [live EXCEPT ![s] = building.cont[s]] /\ toSeed1' = toSeed1 \ {s}
    BY <1>8 DEF SeedBuild
  <2>2. pc1 = "seed" /\ UNCHANGED <<midiTask, chan, pc1, building, ghosts>>
    BY <1>8 DEF SeedBuild
  <2>3. s \in Slots /\ building.cont[s] \in Values /\ live'[s] = building.cont[s]
        /\ \A t \in Slots : t # s => live'[t] = live[t]
    BY <2>1, PresetParts DEF TypeOK
  <2>4. TypeOK'
    BY <2>1, <2>2, <2>3 DEF TypeOK, midiTask, ghosts
  <2>5. Newest' = Newest
    BY <2>2 DEF Newest
  <2>6. \A t \in Slots : t # s => (Outstanding(t)' <=> Outstanding(t))
    BY <2>1, <2>2 DEF Outstanding
  <2>7. Outstanding(s) /\ (~Outstanding(s)' => Newest = building)
    BY <2>1, <2>2 DEF Outstanding, Newest
  <2>8. CopyInv'
    BY <2>2, <2>3, <2>5, <2>6, <2>7 DEF CopyInv, midiTask, ghosts
  <2> QED BY <2>2, <2>4, <2>8 DEF SeedInv
<1>9. CASE EndBuild
  <2>1. pc1 = "seed" /\ toSeed1 = {} /\ pc1' = "run"
        /\ UNCHANGED <<midiTask, live, chan, building, toSeed1, ghosts>>
    BY <1>9 DEF EndBuild
  <2> QED BY <2>1 DEF TypeOK, SeedInv, CopyInv, Newest, Outstanding, midiTask, ghosts
<1>10. CASE UNCHANGED vars
  BY <1>10 DEF vars, midiTask, core1, ghosts, TypeOK, SeedInv, CopyInv, Newest, Outstanding
<1> QED BY <1>1, <1>2, <1>3, <1>4, <1>5, <1>6, <1>7, <1>8, <1>9, <1>10 DEF Next, Core1Step

\* The inductive invariant holds of the specification.
THEOREM Invariance == Spec => []IInv
  BY InitInv, StepInv, PTL DEF Spec

\* Type correctness.
THEOREM TypeCorrect == Spec => []TypeOK
  BY Invariance, PTL DEF IInv

\* However the two cores' stores into the live slots interleave, the settled voice
\* is the working preset, short of a dropped copy and of edits made during a build.
THEOREM VoiceCorrect == Spec => []VoiceFollowsWork
<1>1. IInv => VoiceFollowsWork
  BY DEF IInv, SeedInv, CopyInv, Newest, Outstanding, VoiceFollowsWork, Settled
<1> QED BY <1>1, Invariance, PTL
==============================================================================
