------------------------------ MODULE BootProofs ------------------------------
(***************************************************************************)
(* The two rings never meet, at any build, whatever the sizes: so a delay  *)
(* line hears its own channel only, and neither the allocator nor the      *)
(* sample loop panics; and an echo is as old as its delay says.  All of it *)
(* holds of the boot too, whose steps are the delay lines' or leave them   *)
(* alone.  Of the boot's sweep: the flash is never run on a timing that    *)
(* was not validated, nor faster than its limit, and the sample point it   *)
(* settles on is the middle of the widest window.                          *)
(***************************************************************************)
EXTENDS Boot, SetInduction, TLAPS

\* A remainder lies below its divisor, also for a negative position.
LEMMA ModRange ==
  ASSUME NEW x \in Int, NEW m \in Nat \ {0}
  PROVE  x % m \in Int /\ x % m \in 0..(m - 1)
OBVIOUS

\* Rounding to an f32 keeps integers integers, and naturals naturals.
LEMMA F32Type ==
  /\ \A x \in Int : F32(x) \in Int
  /\ \A x \in Nat : F32(x) \in Nat
BY DEF F32

\* DELAY_TIME gives either channel a delay that is not negative.
LEMMA DelayType == \A c \in Channels, t \in Times : DelayOf(c, t) \in Nat
<1> SUFFICES ASSUME NEW c \in Channels, NEW t \in Times PROVE DelayOf(c, t) \in Nat
  OBVIOUS
<1>1. (IF c = "R" THEN (23 * t) \div 20 ELSE t) \in Nat
  BY TimesAssumption
<1> QED BY <1>1, F32Type DEF DelayOf

\* The position of a read, in whole cells, is in the ring.
LEMMA ReadInRing ==
  ASSUME NEW w \in Nat, NEW d \in Nat
  PROVE  ReadPos(w, d) \div 4 \in 0..(RingLen - 1)
<1> DEFINE m == 4 * RingLen
           x == F32(4 * w - d)
           y == F32(x % m)
<1>1. m \in Nat \ {0}
  BY RingAssumption
<1>2. x \in Int
  BY F32Type
<1>3. x % m \in Int
  BY <1>1, <1>2, ModRange
<1>4. y \in Int
  BY <1>3, F32Type
<1>5. y % m \in 0..(m - 1)
  <2> HIDE DEF m, y
  <2> QED BY <1>1, <1>4, ModRange
<1>6. ReadPos(w, d) = y % m
  BY DEF ReadPos
<1>7. ASSUME NEW z \in 0..(4 * RingLen - 1) PROVE z \div 4 \in 0..(RingLen - 1)
  BY RingAssumption
<1> QED
  BY <1>5, <1>6, <1>7

(***************************************************************************)
(* The inductive invariant.  Placed: every build puts the rings at the     *)
(* same two places, one after the other.  Filled: once a ring is allotted, *)
(* its cells carry its channel and the build, which is what makes what is  *)
(* heard the channel's own.                                                *)
(***************************************************************************)
Running == {"loop", "L", "R"}

Placed ==
  /\ cpc # "panic"
  /\ cpc \notin {"selftest", "refused"} => base = 1
  /\ cpc = "allocL" => next = 1
  /\ cpc = "allocR" => next = RingLen + 1
  /\ cpc \in Running \union {"allocR"} => ring["L"] = 1
  /\ cpc \in Running => ring["R"] = RingLen + 1

Own(c, start) == \A a \in start..(start + RingLen - 1) : mem[a].by = c /\ mem[a].build = build

Filled ==
  /\ cpc \in Running \union {"allocR"} => Own("L", 1)
  /\ cpc \in Running => Own("R", RingLen + 1)

HeardOwn == OwnEcho /\ (cpc \notin Channels => heard = {})

IInv == TypeOK /\ Placed /\ Filled /\ HeardOwn

LEMMA InitInv == Init => IInv
BY RingAssumption, RegionAssumption, BlockAssumption
   DEF Init, IInv, TypeOK, Placed, Filled, HeardOwn, OwnEcho, Running, Channels, Stamps, Cells

\* The allocator's check holds: both rings fit.
LEMMA AllocFits ==
  /\ IInv /\ AllocLeft => /\ Fill("L", 1) /\ cpc' = "allocR" /\ next' = RingLen + 1
                          /\ ring' = [ring EXCEPT !["L"] = 1] /\ pos' = [pos EXCEPT !["L"] = 0]
                          /\ count' = [count EXCEPT !["L"] = 0]
                          /\ UNCHANGED <<base, build, enabled, block, heard>>
  /\ IInv /\ AllocRight => /\ Fill("R", RingLen + 1) /\ cpc' = "loop" /\ next' = 2 * RingLen + 1
                           /\ ring' = [ring EXCEPT !["R"] = RingLen + 1] /\ pos' = [pos EXCEPT !["R"] = 0]
                           /\ count' = [count EXCEPT !["R"] = 0]
                           /\ UNCHANGED <<base, build, enabled, block, heard>>
<1>1. CASE IInv /\ AllocLeft
  <2>1. next = 1 BY <1>1 DEF IInv, Placed, AllocLeft
  <2>2. next # 0 /\ next + RingLen <= RegionLen + 1
    BY <2>1, RingAssumption, RegionAssumption
  <2>3. next + RingLen = RingLen + 1 BY <2>1, RingAssumption
  <2> QED BY <1>1, <2>1, <2>2, <2>3 DEF AllocLeft, AllocRight, Alloc
<1>2. CASE IInv /\ AllocRight
  <2>1. next = RingLen + 1 BY <1>2 DEF IInv, Placed, AllocRight
  <2>2. next # 0 /\ next + RingLen <= RegionLen + 1
    BY <2>1, RingAssumption, RegionAssumption
  <2>3. next + RingLen = 2 * RingLen + 1 BY <2>1, RingAssumption
  <2> QED BY <1>2, <2>1, <2>2, <2>3 DEF AllocLeft, AllocRight, Alloc
<1> QED BY <1>1, <1>2

\* The sample loop's indices are in the ring.
LEMMA SampleInRing ==
  ASSUME IInv, NEW c \in Channels, Sample(c)
  PROVE  /\ cpc = c /\ left > 0
         /\ \E used \in SUBSET (0..(RingLen - 1)) : heard' = Hear(c, used)
         /\ mem'   = [mem EXCEPT ![ring[c] + pos[c]] = WriteStamp(c)]
         /\ pos'   = [pos EXCEPT ![c] = Advance(@)]
         /\ count' = [count EXCEPT ![c] = @ + 1]
         /\ left'  = left - 1
         /\ UNCHANGED <<cpc, alloc, build, enabled, ring, delay>>
<1> DEFINE read == ReadPos(pos[c], delay)
           a    == read \div 4
           b    == (a + 1) % RingLen
           used == IF read % 4 = 0 THEN {a} ELSE {a, b}
<1>1. pos[c] \in 0..(RingLen - 1) /\ delay \in Nat
  BY DEF IInv, TypeOK
<1>2. a \in 0..(RingLen - 1)
  <2>1. pos[c] \in Nat BY <1>1, RingAssumption
  <2> QED BY <1>1, <2>1, ReadInRing
<1>3. b \in 0..(RingLen - 1)
  <2>1. ASSUME NEW i \in Int PROVE i % RingLen \in 0..(RingLen - 1)
    BY ModRange, RingAssumption
  <2>2. a + 1 \in Int BY <1>2, RingAssumption
  <2> QED BY <2>1, <2>2
<1>4. used \in SUBSET (0..(RingLen - 1))
  <2> HIDE DEF a, b, read
  <2> QED BY <1>2, <1>3
<1>5. a < RingLen /\ pos[c] < RingLen
  <2> HIDE DEF a
  <2> QED BY <1>1, <1>2, RingAssumption
<1>6. heard' = Hear(c, used)
  BY <1>5 DEF Sample
<1>7. /\ cpc = c /\ left > 0
      /\ mem'   = [mem EXCEPT ![ring[c] + pos[c]] = WriteStamp(c)]
      /\ pos'   = [pos EXCEPT ![c] = Advance(@)]
      /\ count' = [count EXCEPT ![c] = @ + 1]
      /\ left'  = left - 1
      /\ UNCHANGED <<cpc, alloc, build, enabled, ring, delay>>
  BY <1>5 DEF Sample
<1> QED
  <2> HIDE DEF used
  <2> QED BY <1>4, <1>6, <1>7

\* Where core1 is, and where its rings are.
LEMMA PlacedStep == IInv /\ [Next]_vars => Placed'
<1> SUFFICES ASSUME IInv, [Next]_vars PROVE Placed'
  OBVIOUS
<1> USE DEF Placed, Running
<1>1. CASE SelfTest BY <1>1 DEF SelfTest, alloc, lines, block, hist
<1>2. CASE Reset BY <1>2 DEF IInv, Reset, lines, block, hist
<1>3. CASE AllocLeft
  <2>1. ring'["L"] = 1 BY <1>3, AllocFits DEF IInv, TypeOK, Channels
  <2>2. base' = 1 BY <1>3, AllocFits DEF IInv, AllocLeft
  <2> QED BY <1>3, <2>1, <2>2, AllocFits
<1>4. CASE AllocRight
  <2>1. ring'["R"] = RingLen + 1 /\ ring'["L"] = 1
    BY <1>4, AllocFits DEF IInv, TypeOK, Channels, AllocRight
  <2>2. base' = 1 BY <1>4, AllocFits DEF IInv, AllocRight
  <2> QED BY <1>4, <2>1, <2>2, AllocFits
<1>5. CASE Rebuild BY <1>5 DEF IInv, Rebuild, alloc, lines, block, hist
<1>6. CASE BeginLeft \/ BeginRight BY <1>6 DEF IInv, BeginLeft, BeginRight, Begin, alloc, lines
<1>7. CASE EndBlock BY <1>7 DEF IInv, EndBlock, alloc, lines
<1>8. ASSUME NEW c \in Channels, Sample(c) PROVE Placed'
  BY <1>8, SampleInRing DEF IInv, alloc
<1>9. CASE UNCHANGED vars BY <1>9 DEF IInv, vars, alloc, lines
<1> QED BY <1>1, <1>2, <1>3, <1>4, <1>5, <1>6, <1>7, <1>8, <1>9 DEF Next

\* What Fill writes.
LEMMA FillOwn ==
  ASSUME NEW c \in Channels, NEW start \in Nat, build \in Nat, mem \in [Cells -> Stamps],
         start >= 1, start + RingLen - 1 <= RegionLen, Fill(c, start), build' = build
  PROVE  /\ mem' \in [Cells -> Stamps]
         /\ Own(c, start)'
         /\ \A a \in Cells : a \notin start..(start + RingLen - 1) => mem'[a] = mem[a]
<1>1. [by |-> c, build |-> build, n |-> 0] \in Stamps
  BY DEF Stamps
<1>2. \A a \in start..(start + RingLen - 1) : a \in Cells
  BY RingAssumption, RegionAssumption DEF Cells
<1>3. mem' \in [Cells -> Stamps]
  BY <1>1 DEF Fill
<1>4. Own(c, start)'
  BY <1>2 DEF Fill, Own
<1>5. \A a \in Cells : a \notin start..(start + RingLen - 1) => mem'[a] = mem[a]
  BY DEF Fill
<1> QED BY <1>3, <1>4, <1>5

\* Nothing but a cell of the channel's own ring is written.
LEMMA SampleOwn ==
  ASSUME IInv, NEW c \in Channels, Sample(c)
  PROVE  /\ WriteStamp(c) \in Stamps
         /\ ring[c] + pos[c] \in Cells
         /\ c = "L" => ring[c] = 1
         /\ c = "R" => ring[c] = RingLen + 1
<1>1. cpc = c BY SampleInRing
<1>2. WriteStamp(c) \in Stamps
  BY DEF WriteStamp, Stamps, IInv, TypeOK
<1>3. (c = "L" => ring[c] = 1) /\ (c = "R" => ring[c] = RingLen + 1)
  BY <1>1 DEF IInv, Placed, Running
<1>4. pos[c] \in 0..(RingLen - 1) BY DEF IInv, TypeOK
<1>5. ring[c] + pos[c] \in Cells
  BY <1>3, <1>4, RingAssumption, RegionAssumption DEF Cells, Channels
<1> QED BY <1>2, <1>3, <1>5

LEMMA FilledStep == IInv /\ [Next]_vars => Filled'
<1> SUFFICES ASSUME IInv, [Next]_vars PROVE Filled'
  OBVIOUS
<1> USE DEF Filled, Running
<1>0. build \in Nat /\ mem \in [Cells -> Stamps] BY DEF IInv, TypeOK
<1>1. CASE SelfTest BY <1>1 DEF SelfTest
<1>2. CASE Reset BY <1>2 DEF Reset
<1>3. CASE AllocLeft
  <2>1. Fill("L", 1) /\ build' = build /\ cpc' = "allocR" BY <1>3, AllocFits
  <2>2. Own("L", 1)' BY <1>0, <2>1, FillOwn, RingAssumption, RegionAssumption DEF Channels
  <2> QED BY <2>1, <2>2
<1>4. CASE AllocRight
  <2>1. Fill("R", RingLen + 1) /\ build' = build BY <1>4, AllocFits
  <2>2. RingLen + 1 \in Nat /\ RingLen + 1 >= 1 /\ RingLen + 1 + RingLen - 1 <= RegionLen
    BY RingAssumption, RegionAssumption
  <2>3. /\ Own("R", RingLen + 1)'
        /\ \A a \in Cells : a \notin (RingLen + 1)..(RingLen + 1 + RingLen - 1) => mem'[a] = mem[a]
    BY <1>0, <2>1, <2>2, FillOwn DEF Channels
  <2>4. \A a \in 1..(1 + RingLen - 1) : mem'[a] = mem[a]
    BY <2>3, RingAssumption, RegionAssumption DEF Cells
  <2>5. Own("L", 1) BY <1>4 DEF IInv, AllocRight
  <2>6. Own("L", 1)' BY <2>1, <2>4, <2>5 DEF Own
  <2> QED BY <2>3, <2>6
<1>5. CASE Rebuild BY <1>5 DEF Rebuild
<1>6. CASE BeginLeft \/ BeginRight BY <1>6 DEF IInv, BeginLeft, BeginRight, Begin, Own
<1>7. CASE EndBlock BY <1>7 DEF IInv, EndBlock, Own
<1>8. ASSUME NEW c \in Channels, Sample(c) PROVE Filled'
  <2>1. /\ cpc = c /\ cpc' = cpc /\ build' = build
        /\ mem' = [mem EXCEPT ![ring[c] + pos[c]] = WriteStamp(c)]
    BY <1>8, SampleInRing
  <2>2. /\ WriteStamp(c).by = c /\ WriteStamp(c).build = build BY DEF WriteStamp
  <2>3. Own("L", 1) /\ Own("R", RingLen + 1) BY <2>1 DEF IInv, Channels
  <2>4. pos[c] \in 0..(RingLen - 1) BY DEF IInv, TypeOK
  <2>5. CASE c = "L"
    <3>1. ring[c] + pos[c] \in 1..RingLen BY <1>8, <2>4, <2>5, SampleOwn, RingAssumption
    <3>2. Own("L", 1)'
      BY <1>0, <2>1, <2>2, <2>3, <2>5, RingAssumption, RegionAssumption DEF Own, Cells
    <3>3. \A a \in (RingLen + 1)..(RingLen + 1 + RingLen - 1) : mem'[a] = mem[a]
      BY <1>0, <2>1, <3>1, RingAssumption, RegionAssumption DEF Cells
    <3>4. Own("R", RingLen + 1)' BY <2>1, <2>3, <3>3 DEF Own
    <3> QED BY <3>2, <3>4
  <2>6. CASE c = "R"
    <3>1. ring[c] + pos[c] \in (RingLen + 1)..(2 * RingLen)
      BY <1>8, <2>4, <2>6, SampleOwn, RingAssumption
    <3>2. Own("R", RingLen + 1)'
      BY <1>0, <2>1, <2>2, <2>3, <2>6, RingAssumption, RegionAssumption DEF Own, Cells
    <3>3. \A a \in 1..(1 + RingLen - 1) : mem'[a] = mem[a]
      BY <1>0, <2>1, <3>1, RingAssumption, RegionAssumption DEF Cells
    <3>4. Own("L", 1)' BY <2>1, <2>3, <3>3 DEF Own
    <3> QED BY <3>2, <3>4
  <2> QED BY <2>5, <2>6 DEF Channels
<1>9. CASE UNCHANGED vars BY <1>9 DEF IInv, vars, Own
<1> QED BY <1>1, <1>2, <1>3, <1>4, <1>5, <1>6, <1>7, <1>8, <1>9 DEF Next

\* What a sample hears lies in the channel's own ring.
LEMMA HeardStep == IInv /\ [Next]_vars => HeardOwn'
<1> SUFFICES ASSUME IInv, [Next]_vars PROVE HeardOwn'
  OBVIOUS
<1> USE DEF HeardOwn, OwnEcho
<1>1. CASE SelfTest BY <1>1 DEF SelfTest, IInv, hist, Channels
<1>2. CASE Reset BY <1>2 DEF IInv, Reset, hist, Channels
<1>3. CASE AllocLeft \/ AllocRight
  <2>1. cpc \notin Channels BY <1>3 DEF AllocLeft, AllocRight, Channels
  <2> QED BY <1>3, <2>1, AllocFits DEF IInv
<1>4. CASE Rebuild BY <1>4 DEF Rebuild
<1>5. CASE BeginLeft \/ BeginRight BY <1>5 DEF BeginLeft, BeginRight, Begin
<1>6. CASE EndBlock BY <1>6 DEF EndBlock
<1>7. ASSUME NEW c \in Channels, Sample(c) PROVE HeardOwn'
  <2>1. cpc = c /\ cpc' = c /\ build' = build BY <1>7, SampleInRing
  <2>2. PICK used \in SUBSET (0..(RingLen - 1)) : heard' = Hear(c, used)
    BY <1>7, SampleInRing
  <2>3. Own(c, ring[c])
    BY <1>7, <2>1, SampleOwn DEF IInv, Filled, Running, Channels
  <2>4. ring[c] \in Nat BY DEF IInv, TypeOK
  <2>5. \A i \in used : mem[ring[c] + i].by = c /\ mem[ring[c] + i].build = build
    <3> SUFFICES ASSUME NEW i \in used
                 PROVE  mem[ring[c] + i].by = c /\ mem[ring[c] + i].build = build
      OBVIOUS
    <3>1. ring[c] + i \in ring[c]..(ring[c] + RingLen - 1) BY <2>4, RingAssumption
    <3> QED BY <2>3, <3>1 DEF Own
  <2>6. \A h \in heard' : h.by = c /\ h.build = build BY <2>2, <2>5 DEF Hear
  <2> QED BY <2>1, <2>6
<1>8. CASE UNCHANGED vars BY <1>8 DEF IInv, vars, hist
<1> QED BY <1>1, <1>2, <1>3, <1>4, <1>5, <1>6, <1>7, <1>8 DEF Next

LEMMA TypeStep == IInv /\ [Next]_vars => TypeOK'
<1> SUFFICES ASSUME IInv, [Next]_vars PROVE TypeOK'
  OBVIOUS
<1>0. TypeOK BY DEF IInv
<1>1. CASE SelfTest BY <1>0, <1>1, RegionAssumption DEF TypeOK, SelfTest, alloc, lines, block, hist
<1>2. CASE Reset
  BY <1>0, <1>2, RegionAssumption DEF TypeOK, Reset, lines, block, hist
<1>3. CASE AllocLeft
  <2>1. mem' \in [Cells -> Stamps]
    BY <1>0, <1>3, AllocFits, FillOwn, RingAssumption, RegionAssumption DEF TypeOK, Channels
  <2>2. next' \in 0..(RegionLen + 1) /\ 1 \in 0..RegionLen /\ 0 \in 0..(RingLen - 1)
    BY <1>3, AllocFits, RingAssumption, RegionAssumption
  <2>3. /\ ring' \in [Channels -> 0..RegionLen] /\ pos' \in [Channels -> 0..(RingLen - 1)]
        /\ count' \in [Channels -> Nat]
    BY <1>0, <1>3, <2>2, AllocFits DEF TypeOK
  <2> QED BY <1>0, <1>3, <2>1, <2>2, <2>3, AllocFits DEF TypeOK, block
<1>4. CASE AllocRight
  <2>1. RingLen + 1 \in Nat /\ RingLen + 1 >= 1 /\ RingLen + 1 + RingLen - 1 <= RegionLen
    BY RingAssumption, RegionAssumption
  <2>2. mem' \in [Cells -> Stamps]
    BY <1>0, <1>4, <2>1, AllocFits, FillOwn DEF TypeOK, Channels
  <2>3. next' \in 0..(RegionLen + 1) /\ RingLen + 1 \in 0..RegionLen /\ 0 \in 0..(RingLen - 1)
    BY <1>4, AllocFits, RingAssumption, RegionAssumption
  <2>4. /\ ring' \in [Channels -> 0..RegionLen] /\ pos' \in [Channels -> 0..(RingLen - 1)]
        /\ count' \in [Channels -> Nat]
    BY <1>0, <1>4, <2>3, AllocFits DEF TypeOK
  <2> QED BY <1>0, <1>4, <2>2, <2>3, <2>4, AllocFits DEF TypeOK, block
<1>5. CASE Rebuild BY <1>0, <1>5 DEF TypeOK, Rebuild, alloc, lines, block
<1>6. CASE BeginLeft \/ BeginRight
  <2>1. PICK c \in Channels : Begin(c) BY <1>6 DEF BeginLeft, BeginRight, Channels
  <2>2. delay' \in Nat BY <2>1, DelayType DEF Begin
  <2>3. left' \in 0..BlockLen BY <2>1, BlockAssumption DEF Begin
  <2>4. cpc' \in {"L", "R"} BY <2>1 DEF Begin, Channels
  <2> QED BY <1>0, <2>1, <2>2, <2>3, <2>4 DEF TypeOK, Begin, alloc, lines
<1>7. CASE EndBlock BY <1>0, <1>7 DEF TypeOK, EndBlock, alloc, lines, block
<1>8. ASSUME NEW c \in Channels, Sample(c) PROVE TypeOK'
  <2>1. PICK used \in SUBSET (0..(RingLen - 1)) : heard' = Hear(c, used)
    BY <1>8, SampleInRing
  <2>2. mem' \in [Cells -> Stamps] BY <1>0, <1>8, SampleInRing, SampleOwn DEF TypeOK
  <2>3. heard' \subseteq Stamps
    <3> SUFFICES ASSUME NEW i \in used PROVE mem[ring[c] + i] \in Stamps
      BY <2>1 DEF Hear
    <3>1. ring[c] \in {1, RingLen + 1} BY <1>8, SampleOwn DEF Channels
    <3>2. ring[c] + i \in Cells BY <3>1, RingAssumption, RegionAssumption DEF Cells
    <3> QED BY <1>0, <3>2 DEF TypeOK
  <2>4. pos' \in [Channels -> 0..(RingLen - 1)]
    <3>1. ASSUME NEW i \in Int PROVE i % RingLen \in 0..(RingLen - 1)
      BY ModRange, RingAssumption
    <3>2. pos[c] + 1 \in Int BY <1>0, RingAssumption DEF TypeOK
    <3>3. Advance(pos[c]) \in 0..(RingLen - 1) BY <3>1, <3>2 DEF Advance
    <3> QED BY <1>0, <1>8, <3>3, SampleInRing DEF TypeOK
  <2>5. count' \in [Channels -> Nat]
    <3>1. count[c] + 1 \in Nat BY <1>0 DEF TypeOK
    <3> QED BY <1>0, <1>8, <3>1, SampleInRing DEF TypeOK
  <2>6. left' \in 0..BlockLen
    BY <1>0, <1>8, SampleInRing, BlockAssumption DEF TypeOK
  <2> QED BY <1>0, <1>8, <2>2, <2>3, <2>4, <2>5, <2>6, SampleInRing DEF TypeOK, alloc
<1>9. CASE UNCHANGED vars BY <1>0, <1>9 DEF TypeOK, vars, alloc, lines, block, hist
<1> QED BY <1>1, <1>2, <1>3, <1>4, <1>5, <1>6, <1>7, <1>8, <1>9 DEF Next

THEOREM InductiveInvariant == Spec => []IInv
<1>1. IInv /\ [Next]_vars => IInv'
  BY PlacedStep, FilledStep, HeardStep, TypeStep DEF IInv
<1> QED BY InitInv, <1>1, PTL DEF Spec

\* The variables have their types: no write pointer and no ring leaves its range.
THEOREM TypeCorrect == Spec => []TypeOK
<1>1. IInv => TypeOK BY DEF IInv
<1> QED BY InductiveInvariant, <1>1, PTL

\* The allocator never runs out and the sample loop never indexes past its
\* ring, however often the synth is built, for every delay and every region
\* that holds two rings.
THEOREM AllocationsFit == Spec => []NeverPanics
<1>1. IInv => NeverPanics BY DEF IInv, Placed, NeverPanics
<1> QED BY InductiveInvariant, <1>1, PTL

\* A delay line sounds nothing but its own channel's past since the synth was
\* built, for rings, blocks and delays of every size.
THEOREM NoBleed == Spec => []OwnEcho
<1>1. IInv => OwnEcho BY DEF IInv, HeardOwn
<1> QED BY InductiveInvariant, <1>1, PTL

------------------------------------------------------------------------------
(***************************************************************************)
(* How old an echo is.  A channel's counter and its write pointer agree up *)
(* to whole rounds of the ring, and so do a cell's place and the number of *)
(* the sample in it; a cell is still silent only if the pointer has not    *)
(* come to it since the build.  A read, on the other hand, looks less than *)
(* a cell beside where the delay puts it, whatever the two roundings do.   *)
(***************************************************************************)
\* Cell i is less than a cell away from the place d behind cell w.
Near(i, w, d) == \E z \in -3..3, t \in Int : 4 * w - d = 4 * i + z + t * (4 * RingLen)

RoundOf(c, i) ==
  LET n == mem[ring[c] + i].n
  IN  IF n = 0 THEN count[c] <= i ELSE n <= count[c] /\ \E p \in Int : n = i + 1 + p * RingLen

Rounds(c) == /\ \E s \in Int : count[c] = pos[c] + s * RingLen
             /\ \A i \in 0..(RingLen - 1) : RoundOf(c, i)

RoundsInv ==
  /\ cpc \in Running \union {"allocR"} => Rounds("L")
  /\ cpc \in Running => Rounds("R")
  /\ DelayKept

\* A number decides its remainder, and a remainder its number up to a multiple.
LEMMA ModUnique ==
  ASSUME NEW m \in Nat \ {0}, NEW x \in Int, NEW t \in Int, NEW r \in 0..(m - 1), x = r + t * m
  PROVE  x % m = r
<1> DEFINE q == x \div m
           u == x % m
<1>1. q \in Int /\ u \in 0..(m - 1) /\ x = m * q + u
  OBVIOUS
<1> HIDE DEF q, u
<1>2. m * (q - t) = r - u
  BY <1>1
<1>3. q - t \in Int /\ r - u < m /\ r - u > -m
  BY <1>1
<1>4. ~(q - t >= 1)
  <2>1. ASSUME q - t >= 1 PROVE m * (q - t) >= m
    BY <1>3, <2>1
  <2>2. QED BY <1>2, <1>3, <2>1
<1>5. ~(q - t <= -1)
  <2>1. ASSUME q - t <= -1 PROVE m * (q - t) <= -m
    BY <1>3, <2>1
  <2>2. QED BY <1>2, <1>3, <2>1
<1>6. q - t = 0
  BY <1>3, <1>4, <1>5
<1>7. u = r
  BY <1>1, <1>2, <1>6
<1>8. QED BY <1>7 DEF u

LEMMA ModSplit ==
  ASSUME NEW m \in Nat \ {0}, NEW x \in Int
  PROVE  \E t \in Int : x = (x % m) + t * m
<1> DEFINE q == x \div m
           u == x % m
<1>1. q \in Int /\ u \in 0..(m - 1) /\ x = m * q + u
  OBVIOUS
<1> HIDE DEF q, u
<1>2. x = u + q * m
  BY <1>1
<1>3. QED BY <1>1, <1>2 DEF u

\* An f32 rounds up by a quarter or not at all, and then to a half.
LEMMA F32Rounds ==
  ASSUME NEW x \in Int
  PROVE  /\ F32(x) \in Int
         /\ F32(x) = x \/ (F32(x) = x + 1 /\ F32(x) % 2 = 0)
         /\ x % 2 = 0 => F32(x) = x
BY DEF F32

\* Of the two roundings on the way to a read's position one at most takes place.
LEMMA ReadPosRounds ==
  ASSUME NEW w \in Nat, NEW d \in Nat
  PROVE  LET read == ReadPos(w, d)
         IN  /\ read \in 0..(4 * RingLen - 1)
             /\ \E e \in {0, 1}, t \in Int :
                  4 * w - d + e = read + t * (4 * RingLen) /\ (e = 1 => read % 2 = 0)
<1> DEFINE m == 4 * RingLen
           x == F32(4 * w - d)
           y == x % m
           read == F32(y) % m
<1>1. m \in Nat \ {0} /\ m = 2 * (2 * RingLen) /\ 2 * RingLen \in Nat \ {0} /\ 4 * w - d \in Int
  BY RingAssumption
<1>2. /\ x \in Int
      /\ x = 4 * w - d \/ (x = 4 * w - d + 1 /\ x % 2 = 0)
  BY <1>1, F32Rounds
<1> HIDE DEF x, m
<1>3. y \in 0..(m - 1) /\ \E t \in Int : x = y + t * m
  BY <1>1, <1>2, ModSplit, ModRange
<1>4. PICK t1 \in Int : x = y + t1 * m
  BY <1>3
<1>5. x % 2 = 0 <=> y % 2 = 0
  <2>1. t1 * m = 2 * (t1 * (2 * RingLen)) /\ t1 * (2 * RingLen) \in Int
    BY <1>1
  <2>2. ASSUME NEW k \in Int, NEW i \in Int PROVE (i + 2 * k) % 2 = i % 2
    OBVIOUS
  <2>3. QED BY <1>3, <1>4, <2>1, <2>2
<1>6. y \in Int
  BY <1>1, <1>3
<1> HIDE DEF y
<1>7. /\ F32(y) \in Int
      /\ F32(y) = y \/ (F32(y) = y + 1 /\ F32(y) % 2 = 0)
      /\ y % 2 = 0 => F32(y) = y
  BY <1>6, F32Rounds
<1>8. read \in 0..(m - 1) /\ \E t \in Int : F32(y) = read + t * m
  BY <1>1, <1>7, ModSplit, ModRange
<1>9. PICK t2 \in Int : F32(y) = read + t2 * m
  BY <1>8
<1>10. F32(y) % 2 = 0 <=> read % 2 = 0
  <2>1. t2 * m = 2 * (t2 * (2 * RingLen)) /\ t2 * (2 * RingLen) \in Int
    BY <1>1
  <2>2. ASSUME NEW k \in Int, NEW i \in Int PROVE (i + 2 * k) % 2 = i % 2
    OBVIOUS
  <2>3. read \in Int
    BY <1>1, <1>8
  <2> HIDE DEF read
  <2>4. QED BY <1>9, <2>1, <2>2, <2>3
<1>11. t1 + t2 \in Int /\ (t1 + t2) * m = t1 * m + t2 * m
  BY <1>1
<1>12. read \in Int
  BY <1>1, <1>8
<1> HIDE DEF read
<1> DEFINE p1 == t1 * m
           p2 == t2 * m
<1>13. /\ p1 \in Int /\ p2 \in Int /\ (t1 + t2) * m = p1 + p2
      /\ x = y + p1 /\ F32(y) = read + p2
  BY <1>1, <1>4, <1>9, <1>11
<1> HIDE DEF p1, p2
<1>14. \E e \in {0, 1} : 4 * w - d + e = read + (t1 + t2) * m /\ (e = 1 => read % 2 = 0)
  <2>2. CASE x = 4 * w - d /\ F32(y) = y
    <3>1. 4 * w - d + 0 = read + (t1 + t2) * m
      BY <1>13, <1>1, <1>6, <1>12, <2>2
    <3>2. QED BY <3>1
  <2>3. CASE x = 4 * w - d /\ F32(y) = y + 1 /\ F32(y) % 2 = 0
    <3>1. 4 * w - d + 1 = read + (t1 + t2) * m
      BY <1>13, <1>1, <1>6, <1>12, <2>3
    <3>2. QED BY <1>10, <2>3, <3>1
  <2>4. CASE x = 4 * w - d + 1 /\ x % 2 = 0
    <3>1. F32(y) = y /\ read % 2 = 0
      BY <1>5, <1>7, <1>10, <2>4
    <3>2. 4 * w - d + 1 = read + (t1 + t2) * m
      BY <1>13, <1>1, <1>6, <1>12, <2>4, <3>1
    <3>3. QED BY <3>1, <3>2
  <2>5. QED BY <1>2, <1>7, <2>2, <2>3, <2>4
<1>15. ReadPos(w, d) = read
  BY DEF ReadPos, read, y, x, m
<1>16. QED BY <1>8, <1>11, <1>14, <1>15 DEF m

\* Both cells a read looks at are near, the second only where it has weight.
LEMMA ReadNear ==
  ASSUME NEW w \in Nat, NEW d \in Nat
  PROVE  LET read == ReadPos(w, d)
             a    == read \div 4
         IN  /\ Near(a, w, d)
             /\ read % 4 # 0 => Near((a + 1) % RingLen, w, d)
<1> DEFINE m == 4 * RingLen
           read == ReadPos(w, d)
           a == read \div 4
           k == read % 4
<1>1. /\ read \in 0..(m - 1)
      /\ \E e \in {0, 1}, t \in Int : 4 * w - d + e = read + t * m /\ (e = 1 => read % 2 = 0)
  BY ReadPosRounds
<1>2. PICK e \in {0, 1}, t \in Int : 4 * w - d + e = read + t * m /\ (e = 1 => read % 2 = 0)
  BY <1>1
<1>3. m \in Nat \ {0} /\ t * m \in Int /\ RingLen \in Nat \ {0} /\ m = 4 * RingLen
  BY RingAssumption
<1> HIDE DEF read, m
<1>4. /\ a \in 0..(RingLen - 1) /\ k \in 0..3 /\ read = 4 * a + k
      /\ e = 1 => k \in {0, 2}
  BY <1>1, <1>2, <1>3
<1> HIDE DEF a, k
<1>5. Near(a, w, d)
  <2>1. k - e \in -3..3 /\ 4 * w - d = 4 * a + (k - e) + t * m
    BY <1>2, <1>3, <1>4
  <2>2. QED BY <1>3, <2>1 DEF Near
<1>6. ASSUME k # 0 PROVE Near((a + 1) % RingLen, w, d)
  <2>1. k - 4 - e \in -3..3 /\ 4 * w - d = 4 * (a + 1) + (k - 4 - e) + t * m
    BY <1>2, <1>3, <1>4, <1>6
  <2>2. CASE a + 1 < RingLen
    <3>1. (a + 1) % RingLen = a + 1
      <4>1. a + 1 \in 0..(RingLen - 1) /\ a + 1 = (a + 1) + 0 * RingLen /\ a + 1 \in Int
        BY <1>3, <1>4, <2>2
      <4>2. QED BY <1>3, <4>1, ModUnique
    <3>2. QED BY <1>3, <2>1, <3>1 DEF Near
  <2>3. CASE a + 1 = RingLen
    <3>1. (a + 1) % RingLen = 0
      <4>1. 0 \in 0..(RingLen - 1) /\ a + 1 = 0 + 1 * RingLen /\ a + 1 \in Int
        BY <1>3, <1>4, <2>3
      <4>2. QED BY <1>3, <4>1, ModUnique
    <3>2. t + 1 \in Int /\ (t + 1) * m = t * m + m
      BY <1>3
    <3>3. 4 * w - d = 4 * 0 + (k - 4 - e) + (t + 1) * m
      BY <1>2, <1>3, <1>4, <2>1, <2>3, <3>2
    <3>4. QED BY <1>3, <2>1, <3>1, <3>2, <3>3 DEF Near
  <2>4. QED BY <1>3, <1>4, <2>2, <2>3
<1>7. QED BY <1>5, <1>6 DEF a, k, read

\* The cells that go into a sample, among those of the ring.
LEMMA SampleHears ==
  ASSUME IInv, NEW c \in Channels, Sample(c)
  PROVE  \A h \in heard' : \E i \in 0..(RingLen - 1) : h = mem[ring[c] + i] /\ Near(i, pos[c], delay)
<1> DEFINE read == ReadPos(pos[c], delay)
           a    == read \div 4
           b    == (a + 1) % RingLen
           used == IF read % 4 = 0 THEN {a} ELSE {a, b}
<1>1. pos[c] \in 0..(RingLen - 1) /\ pos[c] \in Nat /\ delay \in Nat
  BY RingAssumption DEF IInv, TypeOK
<1>2. /\ a \in 0..(RingLen - 1) /\ Near(a, pos[c], delay)
      /\ read % 4 # 0 => Near(b, pos[c], delay)
  BY <1>1, ReadInRing, ReadNear
<1>3. b \in 0..(RingLen - 1)
  <2>1. ASSUME NEW i \in Int PROVE i % RingLen \in 0..(RingLen - 1)
    BY ModRange, RingAssumption
  <2>2. a + 1 \in Int
    BY <1>2, RingAssumption
  <2>3. QED BY <2>1, <2>2
<1>4. heard' = Hear(c, used)
  <2>1. a < RingLen /\ pos[c] < RingLen
    <3> HIDE DEF a
    <3>1. QED BY <1>1, <1>2, RingAssumption
  <2>2. QED BY <2>1 DEF Sample
<1> HIDE DEF a, b
<1>5. QED BY <1>2, <1>3, <1>4 DEF Hear

\* A cell this near sounds as old as the delay says.
LEMMA EchoAge ==
  ASSUME NEW w \in Nat, NEW d \in Nat, NEW i \in 0..(RingLen - 1), Near(i, w, d),
         NEW n \in Nat, NEW s \in Int, n = w + s * RingLen,
         NEW h \in Nat, NEW p \in Int, h = i + 1 + p * RingLen
  PROVE  LET off == (4 * (n + 1 - h) - d) % (4 * RingLen)
         IN  off < 4 \/ off > 4 * RingLen - 4
<1> DEFINE m == 4 * RingLen
           x == 4 * (n + 1 - h) - d
<1>1. PICK z \in -3..3, t \in Int : 4 * w - d = 4 * i + z + t * m
  BY DEF Near
<1>2. m \in Nat \ {0} /\ m >= 4 /\ RingLen \in Nat \ {0}
  BY RingAssumption
<1>3. /\ (t + s - p) \in Int /\ (t + s - p) * m = t * m + 4 * (s * RingLen) - 4 * (p * RingLen)
      /\ (t + s - p - 1) * m = (t + s - p) * m - m
      /\ s * RingLen \in Int /\ p * RingLen \in Int /\ t * m \in Int
  BY <1>2
<1> DEFINE sr == s * RingLen
           pr == p * RingLen
           tm == t * m
           um == (t + s - p) * m
<1>4. /\ sr \in Int /\ pr \in Int /\ tm \in Int /\ um = tm + 4 * sr - 4 * pr
      /\ n = w + sr /\ h = i + 1 + pr /\ 4 * w - d = 4 * i + z + tm
  BY <1>1, <1>3
<1>5. x = z + um /\ x \in Int
  <2> HIDE DEF sr, pr, tm, um, m
  <2>1. QED BY <1>4
<1>6. CASE z >= 0
  <2>1. z \in 0..(m - 1) /\ x = z + (t + s - p) * m
    BY <1>2, <1>5, <1>6
  <2> HIDE DEF m, x
  <2>2. x % m = z
    BY <1>2, <1>3, <1>5, <2>1, ModUnique
  <2>3. QED BY <1>6, <2>2 DEF m, x
<1>7. CASE z < 0
  <2>1. m + z \in 0..(m - 1) /\ x = (m + z) + (t + s - p - 1) * m /\ t + s - p - 1 \in Int
    <3>1. m + z \in 0..(m - 1) /\ t + s - p - 1 \in Int
      BY <1>2, <1>7
    <3>2. um \in Int /\ (t + s - p - 1) * m = um - m
      BY <1>3, <1>4
    <3> HIDE DEF um, x, m
    <3>3. QED BY <1>2, <1>5, <3>1, <3>2
  <2> HIDE DEF m, x
  <2>2. x % m = m + z
    BY <1>2, <1>3, <1>5, <2>1, ModUnique
  <2>3. m + z > m - 4
    BY <1>2
  <2>4. QED BY <2>2, <2>3 DEF m, x
<1>8. QED BY <1>6, <1>7

\* A fresh ring is silent throughout, and its counter and pointer start together.
LEMMA RoundsFresh ==
  ASSUME NEW c \in Channels, NEW start \in Nat, start >= 1, start + RingLen - 1 <= RegionLen,
         TypeOK, Fill(c, start), ring' = [ring EXCEPT ![c] = start],
         pos' = [pos EXCEPT ![c] = 0], count' = [count EXCEPT ![c] = 0]
  PROVE  Rounds(c)'
<1>1. ring'[c] = start /\ pos'[c] = 0 /\ count'[c] = 0
  BY DEF TypeOK
<1>2. count'[c] = pos'[c] + 0 * RingLen
  BY <1>1, RingAssumption
<1>3. ASSUME NEW i \in 0..(RingLen - 1) PROVE RoundOf(c, i)'
  <2>1. start + i \in Cells /\ start + i \in start..(start + RingLen - 1) /\ i >= 0
    BY RingAssumption, RegionAssumption DEF Cells
  <2>2. mem'[start + i].n = 0
    BY <2>1 DEF Fill
  <2>3. QED BY <1>1, <2>1, <2>2 DEF RoundOf
<1>4. QED BY <1>2, <1>3 DEF Rounds

\* The counter, the pointer and the cell written go on together.
LEMMA RoundsAdvance ==
  ASSUME IInv, NEW c \in Channels, Sample(c), Rounds(c)
  PROVE  Rounds(c)'
<1> DEFINE w == pos[c]
           n == count[c]
<1>1. /\ w \in 0..(RingLen - 1) /\ n \in Nat /\ RingLen \in Nat \ {0}
      /\ ring' = ring /\ count'[c] = n + 1 /\ pos'[c] = (w + 1) % RingLen
      /\ mem' = [mem EXCEPT ![ring[c] + w] = WriteStamp(c)]
  BY SampleInRing, RingAssumption DEF IInv, TypeOK, Advance
<1>2. /\ mem \in [Cells -> Stamps] /\ ring[c] \in Nat /\ ring[c] + w \in Cells
      /\ \A i \in 0..(RingLen - 1) : ring[c] + i \in Cells
  <2>1. ring[c] \in {1, RingLen + 1}
    BY SampleOwn DEF Channels
  <2>2. \A i \in 0..(RingLen - 1) : ring[c] + i \in Cells
    BY <1>1, <2>1, RegionAssumption DEF Cells
  <2>3. mem \in [Cells -> Stamps] /\ ring[c] \in Nat
    BY <1>1, <2>1 DEF IInv, TypeOK
  <2> HIDE DEF w
  <2>4. QED BY <1>1, <2>2, <2>3
<1> HIDE DEF w, n
<1>3. PICK s \in Int : n = w + s * RingLen
  BY DEF Rounds, w, n
<1>4. \E t \in Int : n + 1 = ((w + 1) % RingLen) + t * RingLen
  <2>1. CASE w + 1 < RingLen
    <3>1. w + 1 \in 0..(RingLen - 1) /\ w + 1 = (w + 1) + 0 * RingLen /\ w + 1 \in Int
      BY <1>1, <2>1
    <3>2. (w + 1) % RingLen = w + 1
      BY <1>1, <3>1, ModUnique
    <3>3. n + 1 = (w + 1) + s * RingLen
      BY <1>1, <1>3
    <3>4. QED BY <3>2, <3>3
  <2>2. CASE w + 1 = RingLen
    <3>1. 0 \in 0..(RingLen - 1) /\ w + 1 = 0 + 1 * RingLen /\ w + 1 \in Int
      BY <1>1, <2>2
    <3>2. (w + 1) % RingLen = 0
      BY <1>1, <3>1, ModUnique
    <3>3. n + 1 = 0 + (s + 1) * RingLen /\ s + 1 \in Int
      BY <1>1, <1>3, <2>2
    <3>4. QED BY <3>2, <3>3
  <2>3. QED BY <1>1, <2>1, <2>2
<1>5. ASSUME NEW i \in 0..(RingLen - 1) PROVE RoundOf(c, i)'
  <2>1. CASE i = w
    <3>1. mem'[ring[c] + i].n = n + 1
      BY <1>1, <1>2, <2>1 DEF WriteStamp, n
    <3>2. n + 1 = i + 1 + s * RingLen
      BY <1>1, <1>3, <2>1
    <3>3. n + 1 # 0 /\ n + 1 <= n + 1 /\ \E p \in Int : n + 1 = i + 1 + p * RingLen
      BY <1>1, <1>3, <3>2
    <3>4. ring'[c] = ring[c]
      BY <1>1
    <3>5. QED BY <1>1, <3>1, <3>3, <3>4 DEF RoundOf
  <2>2. CASE i # w
    <3>1. mem'[ring[c] + i] = mem[ring[c] + i]
      BY <1>1, <1>2, <2>2
    <3>2. RoundOf(c, i) /\ mem[ring[c] + i].n \in Nat
      BY <1>2 DEF Rounds, Stamps
    <3>3. CASE mem[ring[c] + i].n = 0
      <4>1. n <= i
        BY <3>2, <3>3 DEF RoundOf, n
      <4>2. s = 0
        <5>1. ASSUME s >= 1 PROVE FALSE
          <6>1. s * RingLen >= RingLen
            BY <1>1, <5>1
          <6>2. QED BY <1>1, <1>3, <4>1, <6>1
        <5>2. ASSUME s <= -1 PROVE FALSE
          <6>1. s * RingLen <= -RingLen
            BY <1>1, <5>2
          <6>2. QED BY <1>1, <1>3, <6>1
        <5>3. QED BY <5>1, <5>2
      <4>3. n = w
        BY <1>1, <1>3, <4>2
      <4>4. n + 1 <= i
        BY <1>1, <2>2, <4>1, <4>3
      <4>5. QED BY <1>1, <3>1, <3>3, <4>4 DEF RoundOf
    <3>4. CASE mem[ring[c] + i].n # 0
      <4>1. /\ mem[ring[c] + i].n <= n
            /\ \E p \in Int : mem[ring[c] + i].n = i + 1 + p * RingLen
        BY <3>2, <3>4 DEF RoundOf, n
      <4>2. mem[ring[c] + i].n <= n + 1
        BY <1>1, <3>2, <4>1
      <4>3. QED BY <1>1, <3>1, <3>4, <4>1, <4>2 DEF RoundOf
    <3>5. QED BY <3>3, <3>4
  <2>3. QED BY <2>1, <2>2
<1>6. QED BY <1>1, <1>4, <1>5 DEF Rounds, w

\* A channel's n samples, and sample h sounded at delay d.
OffBy(n, h, d) == (4 * (n - h) - d) % (4 * RingLen)

AgeKept(n, h, d) ==
  IF h = 0 THEN n <= RingLen
           ELSE h < n /\ (OffBy(n, h, d) < 4 \/ OffBy(n, h, d) > 4 * RingLen - 4)

\* What is sounded in the process is as old as it should be.
LEMMA SampleKept ==
  ASSUME IInv, NEW c \in Channels, Sample(c), Rounds(c)
  PROVE  DelayKept'
<1>1. /\ cpc' = c /\ delay' = delay /\ delay \in Nat
      /\ pos[c] \in 0..(RingLen - 1) /\ pos[c] \in Nat
      /\ count[c] \in Nat /\ count'[c] = count[c] + 1
  BY SampleInRing, RingAssumption DEF IInv, TypeOK
<1> SUFFICES ASSUME NEW h \in heard' PROVE AgeKept(count[c] + 1, h.n, delay)
  <2>1. (\A h \in heard' : AgeKept(count'[cpc'], h.n, delay')) => DelayKept'
    BY DEF DelayKept, AgeKept, OffBy
  <2>2. QED BY <1>1, <2>1, Zenon
<1>2. PICK i \in 0..(RingLen - 1) : h = mem[ring[c] + i] /\ Near(i, pos[c], delay)
  BY SampleHears
<1>3. RoundOf(c, i) /\ \E s \in Int : count[c] = pos[c] + s * RingLen
  BY DEF Rounds
<1>4. h.n \in Nat
  <2>1. ring[c] \in {1, RingLen + 1}
    BY SampleOwn DEF Channels
  <2>2. ring[c] + i \in Cells
    BY <2>1, RingAssumption, RegionAssumption DEF Cells
  <2>3. QED BY <1>2, <2>2 DEF IInv, TypeOK, Stamps
<1>5. CASE h.n = 0
  BY <1>1, <1>2, <1>3, <1>5, RingAssumption DEF RoundOf, AgeKept
<1>6. CASE h.n # 0
  <2>1. PICK p \in Int : h.n = i + 1 + p * RingLen
    BY <1>2, <1>3, <1>6 DEF RoundOf
  <2>2. h.n <= count[c]
    BY <1>2, <1>3, <1>6 DEF RoundOf
  <2>3. PICK s \in Int : count[c] = pos[c] + s * RingLen
    BY <1>3
  <2>4. LET off == OffBy(count[c] + 1, h.n, delay) IN off < 4 \/ off > 4 * RingLen - 4
    BY <1>1, <1>2, <1>4, <2>1, <2>3, EchoAge DEF OffBy
  <2>5. h.n < count[c] + 1
    BY <1>1, <1>4, <2>2
  <2>6. QED BY <1>6, <2>4, <2>5 DEF AgeKept
<1>7. QED BY <1>5, <1>6

\* The cells of one ring keep what they are while the other is written.
LEMMA RoundsUntouched ==
  ASSUME NEW c \in Channels, Rounds(c), ring'[c] = ring[c], pos'[c] = pos[c], count'[c] = count[c],
         \A i \in 0..(RingLen - 1) : mem'[ring[c] + i] = mem[ring[c] + i]
  PROVE  Rounds(c)'
BY DEF Rounds, RoundOf

LEMMA RoundsStep == IInv /\ RoundsInv /\ [Next]_vars => RoundsInv'
<1> SUFFICES ASSUME IInv, RoundsInv, [Next]_vars PROVE RoundsInv'
  OBVIOUS
<1> USE DEF RoundsInv, Running
<1>0. /\ ring \in [Channels -> 0..RegionLen] /\ pos \in [Channels -> 0..(RingLen - 1)]
      /\ count \in [Channels -> Nat] /\ mem \in [Cells -> Stamps]
      /\ RingLen \in Nat \ {0} /\ RegionLen \in Nat /\ RegionLen >= 2 * RingLen
      /\ TypeOK
  BY RingAssumption, RegionAssumption DEF IInv, TypeOK
<1>1. CASE SelfTest \/ Reset
  <2>1. cpc \notin Channels /\ heard' = heard
    BY <1>1 DEF SelfTest, Reset, hist, Channels
  <2>2. heard' = {}
    BY <2>1 DEF IInv, HeardOwn
  <2>3. QED BY <1>1, <2>2 DEF SelfTest, Reset, DelayKept
<1>2. CASE AllocLeft
  <2>1. heard' = {} /\ cpc' = "allocR"
    BY <1>2, AllocFits DEF IInv, HeardOwn, AllocLeft, Channels
  <2>2. Rounds("L")'
    BY <1>0, <1>2, AllocFits, RoundsFresh DEF Channels
  <2>3. QED BY <2>1, <2>2 DEF DelayKept
<1>3. CASE AllocRight
  <2>1. heard' = {} /\ Rounds("L") /\ ring["L"] = 1
    BY <1>3, AllocFits DEF IInv, HeardOwn, Placed, AllocRight, Channels
  <2>2. RingLen + 1 \in Nat /\ RingLen + 1 >= 1 /\ RingLen + 1 + RingLen - 1 <= RegionLen
    BY <1>0
  <2>3. Rounds("R")'
    BY <1>0, <1>3, <2>2, AllocFits, RoundsFresh DEF Channels
  <2>4. Rounds("L")'
    <3>1. ASSUME NEW i \in 0..(RingLen - 1) PROVE mem'[1 + i] = mem[1 + i]
      <4>1. 1 + i \in Cells /\ 1 + i \notin (RingLen + 1)..(RingLen + 1 + RingLen - 1)
        BY <1>0 DEF Cells
      <4>2. Fill("R", RingLen + 1)
        BY <1>3, AllocFits
      <4>3. QED BY <4>1, <4>2 DEF Fill
    <3>2. ring'["L"] = ring["L"] /\ pos'["L"] = pos["L"] /\ count'["L"] = count["L"]
      BY <1>0, <1>3, AllocFits DEF Channels
    <3>3. QED BY <2>1, <3>1, <3>2, RoundsUntouched DEF Channels
  <2>5. QED BY <2>1, <2>3, <2>4 DEF DelayKept
<1>4. CASE Rebuild
  BY <1>4 DEF Rebuild, DelayKept
<1>5. CASE BeginLeft \/ BeginRight \/ EndBlock
  <2>1. /\ heard' = {} /\ cpc \in Running /\ cpc' \in Running
        /\ UNCHANGED <<mem, ring, pos, count>>
    BY <1>5 DEF BeginLeft, BeginRight, Begin, EndBlock, lines
  <2>2. \A c \in Channels : Rounds(c)'
    BY <2>1 DEF Channels, Rounds, RoundOf
  <2>3. QED BY <2>1, <2>2 DEF Channels, DelayKept
<1>6. ASSUME NEW c \in Channels, Sample(c) PROVE RoundsInv'
  <2>1. cpc = c /\ cpc' = c /\ \A e \in Channels : Rounds(e)
    BY <1>6, SampleInRing DEF Channels
  <2>2. Rounds(c)'
    BY <1>6, <2>1, RoundsAdvance
  <2>3. DelayKept'
    BY <1>6, <2>1, SampleKept
  <2>4. ASSUME NEW e \in Channels, e # c PROVE Rounds(e)'
    <3>1. /\ mem' = [mem EXCEPT ![ring[c] + pos[c]] = WriteStamp(c)]
          /\ ring' = ring /\ pos'[e] = pos[e] /\ count'[e] = count[e]
      BY <1>0, <1>6, <2>4, SampleInRing
    <3>2. ring["L"] = 1 /\ ring["R"] = RingLen + 1
      BY <2>1 DEF IInv, Placed, Channels
    <3>3. pos[c] \in 0..(RingLen - 1)
      BY <1>0
    <3>4. ASSUME NEW i \in 0..(RingLen - 1) PROVE mem'[ring[e] + i] = mem[ring[e] + i]
      <4>1. ring[e] + i \in Cells /\ ring[e] + i # ring[c] + pos[c]
        BY <1>0, <2>4, <3>2, <3>3 DEF Channels, Cells
      <4>2. QED BY <1>0, <3>1, <4>1
    <3>5. QED BY <2>1, <3>1, <3>4, RoundsUntouched
  <2>5. QED BY <2>1, <2>2, <2>3, <2>4 DEF Channels
<1>7. CASE UNCHANGED vars
  BY <1>7 DEF vars, lines, block, hist, Rounds, RoundOf, DelayKept
<1>8. QED BY <1>1, <1>2, <1>3, <1>4, <1>5, <1>6, <1>7 DEF Next

\* An echo is as old as the delay says, less than a cell more or less, for rings,
\* blocks and delays of every size.
THEOREM EchoKeepsItsDelay == Spec => []DelayKept
<1>1. Init => RoundsInv
  BY DEF Init, RoundsInv, Running, DelayKept
<1>2. RoundsInv => DelayKept
  BY DEF RoundsInv
<1>3. QED BY <1>1, <1>2, RoundsStep, InductiveInvariant, PTL DEF Spec


------------------------------------------------------------------------------
\* The sweep and what it leaves are no part of the delay lines: the boot
\* implements DelayLine, so that the theorems above hold of it.
THEOREM DelayLineImplemented == BSpec => Spec
<1>1. BInit => Init
  BY DEF BInit
<1>2. [BNext]_bvars => [Next]_vars
  BY DEF BNext, Sweep, NoSweep, StartSweep, TryCandidate, NothingPassed, ApplyCentre, Recheck, bvars
<1> QED BY <1>1, <1>2, PTL DEF BSpec, Spec

\* Flash-resident code never runs on a timing that was not validated after it
\* was last set, whichever candidates pass, fail, or pass only once.
THEOREM SweepIsSafe == BSpec => []FlashReadable
<1>1. BInit => FlashReadable
  BY DEF BInit, FlashReadable
<1>2. FlashReadable /\ [BNext]_bvars => FlashReadable'
  BY DEF FlashReadable, BNext, Sweep, NoSweep, StartSweep, TryCandidate, NothingPassed, ApplyCentre,
         Recheck, GiveUp, Restore, Finished, bvars
<1> QED BY <1>1, <1>2, PTL DEF BSpec

(***************************************************************************)
(* The clock the sweep settles on.  Every timing it has in force is the    *)
(* bootrom's, or has the divisor it wants, and it only starts to try       *)
(* candidates where that divisor is below the bootrom's.                   *)
(***************************************************************************)
Slower == orig.div = 0 \/ orig.div > TargetClkdiv

Retimed == timing = orig \/ (timing.div = TargetClkdiv /\ Slower)

ClockInv ==
  /\ sys \in Nat \ {0} /\ sys <= 255 * MaxSck
  /\ orig \in Timings /\ Retimed
  /\ spc = "start" => timing = orig
  /\ spc \in {"sweep", "recheck"} => Slower

\* The division rounds up: the divisor it gives keeps to the limit.
LEMMA RoundedUp ==
  ASSUME NEW n \in Nat \ {0}, NEW m \in Nat \ {0}, n <= 255 * m
  PROVE  /\ (n + m - 1) \div m \in Nat /\ (n + m - 1) \div m <= 255
         /\ n <= m * ((n + m - 1) \div m)
<1> DEFINE x == n + m - 1
           q == x \div m
           r == x % m
<1>1. x \in Nat
  OBVIOUS
<1>2. q \in Int /\ r \in 0..(m - 1) /\ x = m * q + r
  BY <1>1
<1> HIDE DEF q, r
<1>3. n <= m * q
  BY <1>2
<1>4. q >= 1
  BY <1>2, <1>3
<1>5. q <= 255
  <2>1. SUFFICES ASSUME q >= 256 PROVE FALSE
    BY <1>2
  <2>2. m * q >= m * 256
    BY <1>2, <2>1
  <2>3. QED BY <1>2, <2>2
<1>6. QED BY <1>2, <1>3, <1>4, <1>5 DEF q

\* The divisor the sweep wants is a field's, and within the limit.
LEMMA TargetFits ==
  ASSUME sys \in Nat \ {0}, sys <= 255 * MaxSck
  PROVE  TargetClkdiv \in 2..255 /\ sys <= MaxSck * TargetClkdiv
<1> DEFINE up == (sys + MaxSck - 1) \div MaxSck
<1>1. MaxSck \in Nat \ {0} /\ up \in Nat /\ up <= 255 /\ sys <= MaxSck * up
  BY RoundedUp, MaxSckAssumption
<1>2. TargetClkdiv = IF up < 2 THEN 2 ELSE IF up > 255 THEN 255 ELSE up
  BY DEF TargetClkdiv, MIN_CLKDIV
<1> HIDE DEF up
<1>3. CASE up < 2
  <2>1. MaxSck * up <= MaxSck * 2
    BY <1>1, <1>3
  <2>2. QED BY <1>1, <1>2, <1>3, <2>1
<1>4. CASE ~(up < 2)
  BY <1>1, <1>2, <1>4
<1>5. QED BY <1>3, <1>4

LEMMA ClockStep == ClockInv /\ [BNext]_bvars => ClockInv'
<1> SUFFICES ASSUME ClockInv, [BNext]_bvars PROVE ClockInv'
  OBVIOUS
<1>1. UNCHANGED clock /\ TargetClkdiv' = TargetClkdiv
  BY DEF BNext, Sweep, NoSweep, StartSweep, TryCandidate, NothingPassed, ApplyCentre, Recheck,
         bvars, clock, TargetClkdiv
<1>2. /\ spc' = "start" => spc = "start" /\ timing' = timing
      /\ spc' \in {"sweep", "recheck"} => Slower
      /\ timing' = timing \/ timing' = orig \/ (Slower /\ timing'.div = TargetClkdiv)
  BY DEF BNext, Sweep, NoSweep, StartSweep, TryCandidate, NothingPassed, ApplyCentre, Recheck,
         bvars, clock, ClockInv, Slower, Candidate, Restore, GiveUp, Finished
<1>3. Slower' <=> Slower
  BY <1>1 DEF Slower, clock
<1>4. Retimed'
  BY <1>1, <1>2, <1>3 DEF Retimed, ClockInv, clock
<1>5. QED BY <1>1, <1>2, <1>3, <1>4 DEF ClockInv, clock

\* The flash ends up faster than the bootrom left it, and then within the limit,
\* or as the bootrom left it, for every clock, limit and bootrom timing.
THEOREM FlashWithinLimit == BSpec => []ClockWithinLimit
<1>1. BInit => ClockInv
  BY ClocksAssumption, ClockRangeAssumption DEF BInit, ClockInv, Retimed
<1>2. ClockInv => ClockWithinLimit
  <2> SUFFICES ASSUME ClockInv, timing # orig
               PROVE  sys <= MaxSck * Divisor(timing.div) /\ Divisor(timing.div) < Divisor(orig.div)
    BY DEF ClockWithinLimit
  <2>1. timing.div = TargetClkdiv /\ Slower /\ orig.div \in 0..255
    BY DEF ClockInv, Retimed, Timings
  <2>2. TargetClkdiv \in 2..255 /\ sys <= MaxSck * TargetClkdiv
    BY TargetFits DEF ClockInv
  <2>3. Divisor(timing.div) = TargetClkdiv
    BY <2>1, <2>2 DEF Divisor
  <2>4. TargetClkdiv < Divisor(orig.div)
    BY <2>1, <2>2 DEF Divisor, Slower
  <2>5. QED BY <2>2, <2>3, <2>4
<1>3. QED BY <1>1, <1>2, ClockStep, PTL DEF BSpec

(***************************************************************************)
(* The centre of the widest run.  After each candidate the search knows    *)
(* the run that ends there, whole, and the centre of a run that no other   *)
(* so far is longer than.                                                  *)
(***************************************************************************)
Scans == [from : Int, run : Int, best : Int, centre : Int]
Start == [from |-> 0, run |-> 0, best |-> 0, centre |-> 0]

\* The candidates a to a + n - 1, all below k, have passed.
Passed(a, n, k) == 0 <= a /\ a + n <= k /\ \A r \in a..(a + n - 1) : r \in pass

ScanInv(p, k) ==
  /\ p \in Scans
  /\ p.run >= 0 /\ Passed(k - p.run, p.run, k)
  /\ p.run > 0 => p.from = k - p.run
  /\ k - p.run > 0 => k - p.run - 1 \notin pass
  /\ p.best >= 0
  /\ p.best > 0 => \E a \in Int : Passed(a, p.best, k) /\ p.centre = a + (p.best - 1) \div 2
  /\ \A a, n \in Nat : Passed(a, n, k) => n <= p.best

\* The scan is defined, and BestCentre what it ends with.
LEMMA ScanExists ==
  \E f \in [0..(RxMax + 1) -> Scans] :
    /\ f[0] = Start /\ \A k \in 1..(RxMax + 1) : f[k] = Step(f[k - 1], k - 1)
    /\ BestCentre = f[RxMax + 1].centre
<1> DEFINE N == RxMax + 1
           scan[i \in 0..N] == IF i = 0 THEN Start ELSE Step(scan[i - 1], i - 1)
           G == [k \in 1..N |-> [p \in Scans |-> Step(p, k - 1)]]
<1>1. N \in Nat /\ Start \in Scans
  BY RxMaxAssumption DEF Start, Scans
<1>2. G \in [1..N -> [Scans -> Scans]]
  <2> SUFFICES ASSUME NEW k \in 1..N, NEW p \in Scans PROVE Step(p, k - 1) \in Scans
    OBVIOUS
  <2> DEFINE j == k - 1
  <2>1. j \in Int
    BY <1>1
  <2> HIDE DEF j
  <2>2. [p EXCEPT !.run = 0] \in Scans
    BY DEF Scans
  <2>3. Longer(p, j) \in Scans
    <3> DEFINE from == IF p.run = 0 THEN j ELSE p.from
               run  == p.run + 1
    <3>1. from \in Int /\ run \in Int /\ p.best \in Int /\ p.centre \in Int
      BY <2>1 DEF Scans
    <3>2. from + (run - 1) \div 2 \in Int
      BY <3>1
    <3>3. Longer(p, j) = IF run > p.best
                           THEN [from |-> from, run |-> run, best |-> run,
                                 centre |-> from + (run - 1) \div 2]
                           ELSE [p EXCEPT !.from = from, !.run = run]
      BY DEF Longer
    <3> HIDE DEF from, run
    <3>4. [from |-> from, run |-> run, best |-> run, centre |-> from + (run - 1) \div 2] \in Scans
      BY <3>1, <3>2 DEF Scans
    <3>5. [p EXCEPT !.from = from, !.run = run] \in Scans
      BY <3>1 DEF Scans
    <3>6. QED BY <3>3, <3>4, <3>5
  <2>4. Step(p, j) \in Scans
    BY <2>2, <2>3 DEF Step
  <2>5. QED BY <2>4 DEF j
<1>3. \E f \in [0..N -> Scans] : f[0] = Start /\ \A k \in 1..N : f[k] = G[k][f[k - 1]]
  <2> HIDE DEF N, G
  <2>1. QED BY <1>1, <1>2, Recursion
<1>4. PICK f \in [0..N -> Scans] : f[0] = Start /\ \A k \in 1..N : f[k] = G[k][f[k - 1]]
  BY <1>3
<1>5. \A k \in 1..N : f[k] = Step(f[k - 1], k - 1)
  <2> SUFFICES ASSUME NEW k \in 1..N PROVE f[k] = Step(f[k - 1], k - 1)
    OBVIOUS
  <2>1. k - 1 \in 0..N
    BY <1>1
  <2>2. QED BY <1>4, <2>1
<1>6. f = [i \in 0..N |-> IF i = 0 THEN Start ELSE Step(f[i - 1], i - 1)]
  BY <1>1, <1>4, <1>5
<1>7. scan = [i \in 0..N |-> IF i = 0 THEN Start ELSE Step(scan[i - 1], i - 1)]
  <2> HIDE DEF N
  <2>1. \E g : g = [i \in 0..N |-> IF i = 0 THEN Start ELSE Step(g[i - 1], i - 1)]
    BY <1>6
  <2>2. QED BY <2>1
<1>8. BestCentre = scan[N].centre
  BY DEF BestCentre, Start
<1> HIDE DEF scan
<1>9. scan \in [0..N -> Scans]
  <2> DEFINE T == {k \in 0..N : scan[k] \in Scans}
  <2>1. 0 \in T
    BY <1>1, <1>7
  <2>2. ASSUME NEW k \in 1..N, k - 1 \in T PROVE k \in T
    <3>1. k \in 0..N /\ k # 0
      BY <1>1
    <3>2. scan[k] = Step(scan[k - 1], k - 1)
      BY <1>7, <3>1
    <3>3. G[k][scan[k - 1]] \in Scans
      BY <1>2, <2>2
    <3>4. QED BY <2>2, <3>1, <3>2, <3>3
  <2>3. 0..N \subseteq T
    <3> HIDE DEF T, N
    <3>1. QED BY <1>1, <2>1, <2>2, UpTo
  <2>4. QED BY <1>7, <2>3
<1>10. QED
  <2>1. scan[0] = Start /\ \A k \in 1..N : scan[k] = Step(scan[k - 1], k - 1)
    BY <1>1, <1>7
  <2>2. QED BY <1>8, <1>9, <2>1

\* Each turn of the scan keeps what it knows.
LEMMA ScanKeeps ==
  ASSUME NEW p \in Scans, NEW k \in Nat, ScanInv(p, k)
  PROVE  ScanInv(Step(p, k), k + 1)
<1>1. /\ p.from \in Int /\ p.run \in Nat /\ p.best \in Nat /\ p.centre \in Int
      /\ p.run <= k /\ \A r \in (k - p.run)..(k - 1) : r \in pass
  BY DEF ScanInv, Scans, Passed
<1>2. CASE k \notin pass
  <2> DEFINE q == [p EXCEPT !.run = 0]
  <2>1. /\ Step(p, k) = q /\ q \in Scans
        /\ q.run = 0 /\ q.best = p.best /\ q.centre = p.centre
    BY <1>2 DEF Step, Scans
  <2> HIDE DEF q
  <2>2. Passed(k + 1 - q.run, q.run, k + 1)
    BY <2>1 DEF Passed
  <2>3. ASSUME NEW a \in Nat, NEW n \in Nat, Passed(a, n, k + 1) PROVE n <= q.best
    <3>1. CASE n = 0
      BY <1>1, <2>1, <3>1
    <3>2. CASE n > 0
      <4>1. a + n <= k
        BY <1>2, <2>3, <3>2 DEF Passed
      <4>2. Passed(a, n, k)
        BY <2>3, <4>1 DEF Passed
      <4>3. QED BY <2>1, <4>2 DEF ScanInv
    <3>3. QED BY <3>1, <3>2
  <2>4. ASSUME q.best > 0
        PROVE  \E a \in Int : Passed(a, q.best, k + 1) /\ q.centre = a + (q.best - 1) \div 2
    <3>1. PICK a \in Int : Passed(a, p.best, k) /\ p.centre = a + (p.best - 1) \div 2
      BY <2>1, <2>4 DEF ScanInv
    <3>2. Passed(a, p.best, k + 1)
      BY <1>1, <3>1 DEF Passed
    <3>3. QED BY <2>1, <3>1, <3>2
  <2>5. QED BY <1>1, <1>2, <2>1, <2>2, <2>3, <2>4 DEF ScanInv
<1>3. CASE k \in pass
  <2> DEFINE from == k - p.run
             run  == p.run + 1
             q    == Longer(p, k)
  <2>1. /\ Step(p, k) = q
        /\ q = IF run > p.best
                 THEN [from |-> from, run |-> run, best |-> run, centre |-> from + (run - 1) \div 2]
                 ELSE [p EXCEPT !.from = from, !.run = run]
    <3>1. (IF p.run = 0 THEN k ELSE p.from) = from
      BY <1>1 DEF ScanInv
    <3>2. QED BY <1>3, <3>1 DEF Step, Longer
  <2> HIDE DEF q
  <2>2. /\ from \in Nat /\ run \in Nat /\ run > 0 /\ from = k + 1 - run
        /\ Passed(from, run, k + 1)
        /\ from > 0 => from - 1 \notin pass
    <3>1. from \in Nat /\ run \in Nat /\ run > 0 /\ from = k + 1 - run
      BY <1>1
    <3>2. from > 0 => from - 1 \notin pass
      BY DEF ScanInv
    <3>3. \A r \in from..(from + run - 1) : r \in pass
      BY <1>1, <1>3
    <3> HIDE DEF from, run
    <3>4. QED BY <3>1, <3>2, <3>3 DEF Passed
  <2> HIDE DEF from, run
  <2>3. ASSUME NEW a \in Nat, NEW n \in Nat, Passed(a, n, k + 1) PROVE n <= p.best \/ n <= run
    <3>1. CASE a + n <= k
      <4>1. Passed(a, n, k)
        BY <2>3, <3>1 DEF Passed
      <4>2. QED BY <4>1 DEF ScanInv
    <3>2. CASE a + n = k + 1
      <4>1. ASSUME a < from PROVE FALSE
        <5>1. from - 1 \in a..(a + n - 1)
          BY <2>2, <3>2, <4>1
        <5>2. QED BY <2>2, <2>3, <4>1, <5>1 DEF Passed
      <4>2. QED BY <2>2, <3>2, <4>1
    <3>3. QED BY <2>3, <3>1, <3>2 DEF Passed
  <2>4. CASE run > p.best
    <3>1. q = [from |-> from, run |-> run, best |-> run, centre |-> from + (run - 1) \div 2]
      BY <2>1, <2>4
    <3>2. /\ q.from = from /\ q.run = run /\ q.best = run /\ q.centre = from + (run - 1) \div 2
          /\ q \in Scans
      <4>1. from + (run - 1) \div 2 \in Int
        BY <2>2
      <4>2. QED BY <2>2, <3>1, <4>1 DEF Scans
    <3>3. \A a, n \in Nat : Passed(a, n, k + 1) => n <= q.best
      BY <1>1, <2>2, <2>3, <2>4, <3>2
    <3>4. QED BY <2>1, <2>2, <3>2, <3>3 DEF ScanInv
  <2>5. CASE ~(run > p.best)
    <3>1. q = [p EXCEPT !.from = from, !.run = run]
      BY <2>1, <2>5
    <3>2. /\ q.from = from /\ q.run = run /\ q.best = p.best /\ q.centre = p.centre
          /\ q \in Scans
      <4>1. from \in Int /\ run \in Int
        BY <2>2
      <4>2. q \in Scans
        BY <3>1, <4>1 DEF Scans
      <4>3. QED BY <3>1, <4>2 DEF Scans
    <3>3. \A a, n \in Nat : Passed(a, n, k + 1) => n <= q.best
      BY <1>1, <2>2, <2>3, <2>5, <3>2
    <3>4. \E a \in Int : Passed(a, q.best, k + 1) /\ q.centre = a + (q.best - 1) \div 2
      <4>1. PICK a \in Int : Passed(a, p.best, k) /\ p.centre = a + (p.best - 1) \div 2
        BY <1>1, <2>2, <2>5 DEF ScanInv
      <4>2. Passed(a, p.best, k + 1)
        BY <1>1, <4>1 DEF Passed
      <4>3. QED BY <3>2, <4>1, <4>2
    <3>5. QED BY <1>1, <2>1, <2>2, <3>2, <3>3, <3>4 DEF ScanInv
  <2>6. QED BY <2>4, <2>5
<1>4. QED BY <1>2, <1>3

\* The centre is that of a run that passed, and no run that passed is longer.
LEMMA CentreOfWidest ==
  ASSUME pass \subseteq RxDelays
  PROVE  \E best \in Nat :
           /\ best > 0 => \E a \in Int : /\ \A r \in a..(a + best - 1) : r \in pass
                                        /\ BestCentre = a + (best - 1) \div 2
           /\ \A a, n \in Nat : (\A r \in a..(a + n - 1) : r \in pass) => n <= best
<1> DEFINE N == RxMax + 1
<1>1. PICK f \in [0..N -> Scans] :
         /\ f[0] = Start /\ \A k \in 1..N : f[k] = Step(f[k - 1], k - 1)
         /\ BestCentre = f[N].centre
  BY ScanExists
<1>2. N \in Nat
  BY RxMaxAssumption
<1> DEFINE T == {k \in 0..N : ScanInv(f[k], k)}
<1>3. 0 \in T
  <2>1. Start \in Scans /\ Start.run = 0 /\ Start.best = 0
    BY DEF Start, Scans
  <2>2. ASSUME NEW a \in Nat, NEW n \in Nat, Passed(a, n, 0) PROVE n <= 0
    BY <2>2 DEF Passed
  <2>3. ScanInv(Start, 0)
    BY <2>1, <2>2 DEF ScanInv, Passed
  <2>4. QED BY <1>1, <1>2, <2>3
<1>4. ASSUME NEW k \in 1..N, k - 1 \in T PROVE k \in T
  <2>1. k - 1 \in Nat /\ k - 1 \in 0..N /\ (k - 1) + 1 = k /\ ScanInv(f[k - 1], k - 1)
    BY <1>2, <1>4
  <2>2. f[k - 1] \in Scans /\ f[k] = Step(f[k - 1], k - 1)
    BY <1>1, <2>1
  <2>3. ScanInv(f[k], k)
    BY <2>1, <2>2, ScanKeeps
  <2>4. QED BY <1>2, <2>3
<1>5. ScanInv(f[N], N)
  <2> HIDE DEF T, N
  <2>1. 0..N \subseteq T
    BY <1>2, <1>3, <1>4, UpTo
  <2>2. N \in T
    BY <1>2, <2>1
  <2>3. QED BY <2>2 DEF T
<1> DEFINE best == f[N].best
<1>6. best \in Nat
  BY <1>5 DEF ScanInv, Scans
<1>7. ASSUME best > 0
      PROVE  \E a \in Int : /\ \A r \in a..(a + best - 1) : r \in pass
                           /\ BestCentre = a + (best - 1) \div 2
  BY <1>1, <1>5, <1>7 DEF ScanInv, Passed
<1>8. ASSUME NEW a \in Nat, NEW n \in Nat, \A r \in a..(a + n - 1) : r \in pass PROVE n <= best
  <2>1. CASE n = 0
    BY <1>6, <2>1
  <2>2. CASE n > 0
    <3>1. a + n - 1 \in RxDelays
      BY <1>8, <2>2
    <3>2. Passed(a, n, N)
      BY <1>8, <3>1, RxMaxAssumption DEF Passed, RxDelays
    <3>3. QED BY <1>5, <3>2 DEF ScanInv
  <2>3. QED BY <2>1, <2>2
<1>9. QED BY <1>6, <1>7, <1>8

(***************************************************************************)
(* What the sweep settles on.                                              *)
(***************************************************************************)
EyeInv ==
  /\ rx \in Nat /\ pass \subseteq RxDelays
  /\ spc = "recheck" => timing.rx = BestCentre

LEMMA EyeStep == EyeInv /\ [BNext]_bvars => EyeInv'
<1> SUFFICES ASSUME EyeInv, [BNext]_bvars PROVE EyeInv'
  OBVIOUS
<1>1. CASE TryCandidate
  <2>1. rx \in RxDelays
    BY <1>1, RxMaxAssumption DEF TryCandidate, EyeInv, RxDelays
  <2>2. QED BY <1>1, <2>1 DEF TryCandidate, EyeInv
<1>2. CASE ApplyCentre
  <2>1. pass' = pass /\ rx' = rx /\ timing'.rx = BestCentre
    BY <1>2 DEF ApplyCentre, Candidate
  <2>2. BestCentre' = BestCentre
    BY <2>1 DEF BestCentre, Step
  <2>3. QED BY <2>1, <2>2 DEF EyeInv
<1>3. CASE NoSweep \/ StartSweep \/ NothingPassed \/ Recheck
  BY <1>3 DEF NoSweep, StartSweep, NothingPassed, Recheck, Finished, EyeInv
<1>4. CASE UNCHANGED <<spc, timing, rx, pass>>
  <2>1. BestCentre' = BestCentre
    BY <1>4 DEF BestCentre, Step
  <2>2. QED BY <1>4, <2>1 DEF EyeInv
<1>5. QED BY <1>1, <1>2, <1>3, <1>4 DEF BNext, Sweep, bvars

\* No sample point has more margin on both sides than the one the sweep settles
\* on, whichever candidates read correctly, for every range of delays.
THEOREM SettlesInEye == BSpec => []CentredInEye
<1>1. BInit => EyeInv
  BY DEF BInit, EyeInv
<1>2. EyeInv => CentredInEye
  <2> SUFFICES ASSUME EyeInv, spc = "recheck", NEW r \in RxDelays, NEW m \in Margin(r)
               PROVE  m \in Margin(timing.rx)
    BY DEF CentredInEye
  <2>1. m \in 0..RxMax /\ m \in Nat /\ r \in Nat /\ \A k \in (r - m)..(r + m) : k \in pass
    BY RxMaxAssumption DEF Margin, RxDelays
  <2>2. r - m \in Nat
    BY <2>1 DEF EyeInv, RxDelays
  <2>3. PICK best \in Nat :
          /\ best > 0 => \E a \in Int : /\ \A k \in a..(a + best - 1) : k \in pass
                                       /\ BestCentre = a + (best - 1) \div 2
          /\ \A a, n \in Nat : (\A k \in a..(a + n - 1) : k \in pass) => n <= best
    BY CentreOfWidest DEF EyeInv
  <2>4. 2 * m + 1 <= best
    <3>1. 2 * m + 1 \in Nat /\ (r - m) + (2 * m + 1) - 1 = r + m
      BY <2>1
    <3>2. QED BY <2>1, <2>2, <2>3, <3>1
  <2>5. PICK a \in Int : /\ \A k \in a..(a + best - 1) : k \in pass
                        /\ BestCentre = a + (best - 1) \div 2
    BY <2>1, <2>3, <2>4
  <2>6. (best - 1) \div 2 >= m /\ 2 * ((best - 1) \div 2) <= best - 1
    BY <2>1, <2>4
  <2>7. \A k \in (BestCentre - m)..(BestCentre + m) : k \in pass
    BY <2>1, <2>5, <2>6
  <2>8. QED BY <2>1, <2>7 DEF EyeInv, Margin
<1>3. QED BY <1>1, <1>2, EyeStep, PTL DEF BSpec
==============================================================================
