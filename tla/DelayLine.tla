------------------------------- MODULE DelayLine -------------------------------
(***************************************************************************)
(* The delay lines in PSRAM: the self test at boot, the bump allocator,    *)
(* core1's builds of the synth, each with a ring for the left and one for  *)
(* the right channel at the addresses the last build's rings had, and the  *)
(* sample loop of PsramDelay.  The region's cells are numbered from 1, as  *)
(* its base address is not 0.  A cell is modelled by who wrote it: the     *)
(* channel (or the self test), the build, and the number of the sample, 0  *)
(* for the zeroes it was filled with.  `count` and `heard` record what the *)
(* code does not: the samples a channel has processed since the build, and *)
(* the cells that went into the last one.                                  *)
(***************************************************************************)
EXTENDS Integers

CONSTANTS
  RingLen,     \* cells of a ring (0.3 s, 14400)
  RegionLen,   \* cells of the region (8 MiB, 2097152)
  BlockLen,    \* samples of a block and channel (128)
  Times,       \* what DELAY_TIME may hold, in quarters of a cell
  MaxBuilds,   \* bound on the builds
  MaxSamples   \* bound on the samples a channel processes between builds

ASSUME RingAssumption   == RingLen \in Nat \ {0}
ASSUME RegionAssumption == RegionLen \in Nat /\ RegionLen >= 2 * RingLen
ASSUME BlockAssumption  == BlockLen \in Nat \ {0}
ASSUME TimesAssumption  == Times \subseteq Nat
ASSUME BoundsAssumption == MaxBuilds \in Nat /\ MaxSamples \in Nat

Channels == {"L", "R"}
Cells    == 1..RegionLen
Stamps   == [by : Channels \union {"test"}, build : Nat, n : Nat]

VARIABLES
  mem,         \* the region
  base, next,  \* ALLOC_BASE and ALLOC_NEXT; ALLOC_END is set with the base
  cpc,         \* where core1 (at first main) is
  build,       \* the number of the synth's build
  enabled,     \* delay.enabled of its preset
  ring, pos,   \* first cell and write_ptr of each channel's line
  delay, left, \* delay_samples and the samples left of the block being processed
  count, heard

alloc == <<base, next>>
lines == <<ring, pos>>
block == <<delay, left>>
hist  == <<count, heard>>
vars  == <<mem, alloc, cpc, build, enabled, lines, block, hist>>

Init == /\ mem = [a \in Cells |-> [by |-> "test", build |-> 0, n |-> 0]]
        /\ base = 0 /\ next = 0 /\ cpc = "selftest"
        /\ build = 0 /\ enabled = 0
        /\ ring = [c \in Channels |-> 0] /\ pos = [c \in Channels |-> 0]
        /\ delay = 0 /\ left = 0
        /\ count = [c \in Channels |-> 0] /\ heard = {}

(***************************************************************************)
(* Positions are in quarters of a cell.  An f32 holds a quarter below one  *)
(* cell and, from there on, only halves: the real cut is at a 1024th of a  *)
(* cell near the end of the ring, and finer and finer towards its start.   *)
(***************************************************************************)
F32(x) == IF x \in -3..3 THEN x ELSE 2 * ((x + 1) \div 2)

\* time_mult is 1.15 on the right.
DelayOf(c, t) == F32(IF c = "R" THEN (23 * t) \div 20 ELSE t)

------------------------------------------------------------------------------
(* Mutations of the operators below: each is a bug one of the runs must find. *)

\* Mutation: a read position that was rounded up to the end of the ring is not wrapped.
ReadPosUnwrapped(w, d) == F32(F32(4 * w - d) % (4 * RingLen))

\* Mutation: a fresh ring is not zeroed.
FillNothing(c, start) == UNCHANGED mem

\* Mutation: the write comes before the reads.
WriteStamp(c) == [by |-> c, build |-> build, n |-> count[c] + 1]
HearAfter(c, used) == {[mem EXCEPT ![ring[c] + pos[c]] = WriteStamp(c)][ring[c] + i] : i \in used}

------------------------------------------------------------------------------
(* main *)

\* self_test fills the region with its pattern; main goes no further if it fails,
\* else it arms the allocator and core1 starts.
SelfTest == /\ cpc = "selftest"
            /\ \/ /\ cpc' = "reset" /\ build' = 1 /\ base' = 1 /\ next' = 1
                  /\ enabled' \in {0, 1}
               \/ cpc' = "refused" /\ UNCHANGED <<alloc, build, enabled>>
            /\ UNCHANGED <<mem, lines, block, hist>>

------------------------------------------------------------------------------
(* core1: build_synth *)

Reset == /\ cpc = "reset"
         /\ next' = base /\ cpc' = "allocL"
         /\ UNCHANGED <<mem, base, build, enabled, lines, block, hist>>

\* slice.fill(0.0).
Fill(c, start) ==
  mem' = [a \in Cells |-> IF a \in start..(start + RingLen - 1)
                            THEN [by |-> c, build |-> build, n |-> 0] ELSE mem[a]]

\* alloc_f32_slice takes the cells before it looks whether they are there.
Alloc(c, then) ==
  /\ next' = next + RingLen
  /\ IF next # 0 /\ next + RingLen <= RegionLen + 1
       THEN /\ Fill(c, next) /\ cpc' = then
            /\ ring' = [ring EXCEPT ![c] = next] /\ pos' = [pos EXCEPT ![c] = 0]
            /\ count' = [count EXCEPT ![c] = 0]
       ELSE cpc' = "panic" /\ UNCHANGED <<mem, lines, count>>
  /\ UNCHANGED <<base, build, enabled, block, heard>>

AllocLeft  == cpc = "allocL" /\ Alloc("L", "allocR")
AllocRight == cpc = "allocR" /\ Alloc("R", "loop")

\* A preset switch drops the synth and builds another.
Rebuild == /\ cpc = "loop" /\ build < MaxBuilds
           /\ build' = build + 1 /\ enabled' \in {0, 1}
           /\ cpc' = "reset" /\ heard' = {}
           /\ UNCHANGED <<mem, alloc, lines, block, count>>

------------------------------------------------------------------------------
(* core1: PsramDelay::process, for the left channel, then the right *)

\* Each channel loads DELAY_TIME itself, whatever midi_task has stored since.
\* Bypass leaves the lines alone if the preset has no delay.
Begin(c) == /\ \E t \in Times : delay' = DelayOf(c, t)
            /\ left' = BlockLen /\ cpc' = c /\ heard' = {}
            /\ UNCHANGED <<mem, alloc, build, enabled, lines, count>>

BeginLeft  == cpc = "loop" /\ enabled = 1 /\ count["L"] + BlockLen <= MaxSamples /\ Begin("L")
BeginRight == cpc = "L" /\ left = 0 /\ Begin("R")

EndBlock == /\ cpc = "R" /\ left = 0
            /\ cpc' = "loop" /\ heard' = {}
            /\ UNCHANGED <<mem, alloc, build, enabled, lines, block, count>>

\* The ring's length is added until the position is not negative, and taken
\* away while it is past the end.
ReadPos(w, d) == F32(F32(4 * w - d) % (4 * RingLen)) % (4 * RingLen)

Advance(w) == (w + 1) % RingLen

Hear(c, used) == {mem[ring[c] + i] : i \in used}

\* Two reads, of which the second has no weight when the position is a whole
\* cell, one write, and the next cell.  An index past the ring panics.
Sample(c) ==
  LET read == ReadPos(pos[c], delay)
      a    == read \div 4
      b    == (a + 1) % RingLen
      used == IF read % 4 = 0 THEN {a} ELSE {a, b}
  IN  /\ cpc = c /\ left > 0
      /\ IF a < RingLen /\ pos[c] < RingLen
           THEN /\ heard' = Hear(c, used)
                /\ mem'   = [mem EXCEPT ![ring[c] + pos[c]] = WriteStamp(c)]
                /\ pos'   = [pos EXCEPT ![c] = Advance(@)]
                /\ count' = [count EXCEPT ![c] = @ + 1]
                /\ left'  = left - 1 /\ UNCHANGED cpc
           ELSE cpc' = "panic" /\ UNCHANGED <<mem, pos, left, hist>>
      /\ UNCHANGED <<alloc, build, enabled, ring, delay>>

------------------------------------------------------------------------------
Next == \/ SelfTest \/ Reset \/ AllocLeft \/ AllocRight \/ Rebuild
        \/ BeginLeft \/ BeginRight \/ EndBlock
        \/ \E c \in Channels : Sample(c)

Spec == Init /\ [][Next]_vars

------------------------------------------------------------------------------
(* The types of the variables. *)
TypeOK ==
  /\ mem \in [Cells -> Stamps]
  /\ base \in {0, 1} /\ next \in 0..(RegionLen + 1)
  /\ cpc \in {"selftest", "refused", "reset", "allocL", "allocR", "loop", "L", "R", "panic"}
  /\ build \in Nat /\ enabled \in {0, 1}
  /\ ring \in [Channels -> 0..RegionLen] /\ pos \in [Channels -> 0..(RingLen - 1)]
  /\ delay \in Nat /\ left \in 0..BlockLen
  /\ count \in [Channels -> Nat] /\ heard \subseteq Stamps

\* No assertion of the allocator and no index check of the sample loop fails,
\* however many times the synth is built and whatever the delay is.
NeverPanics == cpc # "panic"

\* What a delay line sounds is its own channel's past since the synth was
\* built: nothing of the other ring, of the last preset, or of the self test.
OwnEcho == \A h \in heard : h.by = cpc /\ h.build = build

\* What a delay line sounds is as old as the delay says, a whole number of
\* rings less where the delay does not fit the ring: a cell heard is less
\* than a cell away from it.  It is never the sample going in, and silent only
\* in the first round of the ring.
DelayKept ==
  \A h \in heard :
    LET off == (4 * (count[cpc] - h.n) - delay) % (4 * RingLen)
    IN  IF h.n = 0 THEN count[cpc] <= RingLen
                   ELSE h.n < count[cpc] /\ (off < 4 \/ off > 4 * RingLen - 4)
==============================================================================
