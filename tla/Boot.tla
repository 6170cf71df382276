--------------------------------- MODULE Boot ---------------------------------
(***************************************************************************)
(* The boot before core1 runs, on top of DelayLine: with interrupts masked *)
(* speed_up_flash_xip tries every receive delay at the divisor it wants    *)
(* for the flash, keeps the centre of the widest run that read correctly,  *)
(* or goes back to the bootrom's timing; only then does main bring up the  *)
(* PSRAM.  `reads` records what the code does not: 1 if the timing in      *)
(* force has read the golden copy since it was set, or is the bootrom's.   *)
(***************************************************************************)
EXTENDS DelayLine

CONSTANTS
  RxMax,    \* RXDELAY_MAX (7)
  MaxSck,   \* MAX_FLASH_SCK_HZ, in MHz (100)
  Clocks    \* clk_sys in MHz and the bootrom's timing, with which main may start

ASSUME RxMaxAssumption  == RxMax \in Nat
ASSUME MaxSckAssumption == MaxSck \in Nat \ {0}

RxDelays   == 0..RxMax
Timings    == [div : 0..255, rx : RxDelays]
MIN_CLKDIV == 2

VARIABLES
  spc,         \* "start", "sweep", "recheck" or "swept"
  sys, orig,   \* clk_sys and the bootrom's timing
  timing,      \* the timing of CS0 in force
  rx, pass,    \* the next candidate, and those that read correctly
  reads

clock == <<sys, orig>>
bvars == <<vars, spc, clock, timing, rx, pass, reads>>

ASSUME ClocksAssumption == Clocks \subseteq [sys : Nat \ {0}, orig : Timings]

\* clk_sys is a u32 in Hz, at most 43 times the limit: the clamp to the
\* field's 255 never undoes it.
ASSUME ClockRangeAssumption == \A k \in Clocks : k.sys <= 255 * MaxSck

BInit == /\ Init
         /\ \E k \in Clocks : sys = k.sys /\ orig = k.orig
         /\ spc = "start" /\ timing = orig /\ rx = 0 /\ pass = {} /\ reads = 1

\* A field of 0 divides by 256.
Divisor(d) == IF d = 0 THEN 256 ELSE d

\* Candidate k lengthens the run p.from, p.from + 1, ... of p.run candidates.
Longer(p, k) ==
  LET from == IF p.run = 0 THEN k ELSE p.from
      run  == p.run + 1
  IN  IF run > p.best
        THEN [from |-> from, run |-> run, best |-> run, centre |-> from + (run - 1) \div 2]
        ELSE [p EXCEPT !.from = from, !.run = run]

------------------------------------------------------------------------------
(* Mutations of the operators below: each is a bug one of the runs must find. *)

\* Mutation: the division rounds down.
DivisorBelow == IF sys \div MaxSck < MIN_CLKDIV THEN MIN_CLKDIV ELSE sys \div MaxSck

\* Mutation: a failing candidate does not end the run.
StepOver(p, k) ==
  IF k \notin pass THEN p ELSE Longer(p, k)

\* Mutation: a centre that fails the second time is kept.
GiveUpLate == UNCHANGED timing /\ reads' = 0

------------------------------------------------------------------------------
(* speed_up_flash_xip *)

\* The smallest divisor that keeps the flash at or below MaxSck.
TargetClkdiv == LET up == (sys + MaxSck - 1) \div MaxSck
                IN  IF up < MIN_CLKDIV THEN MIN_CLKDIV ELSE IF up > 255 THEN 255 ELSE up

Candidate(r) == [div |-> TargetClkdiv, rx |-> r]

Restore == timing' = orig /\ reads' = 1

Finished == spc' = "swept" /\ rx' = 0 /\ pass' = {}

\* Already as fast: nothing to do.
NoSweep == /\ spc = "start" /\ orig.div # 0 /\ orig.div <= TargetClkdiv
           /\ Finished /\ UNCHANGED <<vars, clock, timing, reads>>

StartSweep == /\ spc = "start" /\ (orig.div = 0 \/ orig.div > TargetClkdiv)
              /\ spc' = "sweep" /\ UNCHANGED <<vars, clock, timing, rx, pass, reads>>

\* apply(c), then validate().
TryCandidate == /\ spc = "sweep" /\ rx <= RxMax
                /\ timing' = Candidate(rx) /\ rx' = rx + 1
                /\ \E ok \in {0, 1} : /\ reads' = ok
                                      /\ pass' = IF ok = 1 THEN pass \union {rx} ELSE pass
                /\ UNCHANGED <<vars, spc, clock>>

\* One round of the loop that looks for the longest run.
Step(p, k) ==
  IF k \notin pass THEN [p EXCEPT !.run = 0] ELSE Longer(p, k)

BestCentre ==
  LET scan[i \in 0..(RxMax + 1)] ==
        IF i = 0 THEN [from |-> 0, run |-> 0, best |-> 0, centre |-> 0] ELSE Step(scan[i - 1], i - 1)
  IN  scan[RxMax + 1].centre

NothingPassed == /\ spc = "sweep" /\ rx > RxMax /\ pass = {}
                 /\ Restore /\ Finished /\ UNCHANGED <<vars, clock>>

ApplyCentre == /\ spc = "sweep" /\ rx > RxMax /\ pass # {}
               /\ timing' = Candidate(BestCentre) /\ reads' = 0 /\ spc' = "recheck"
               /\ UNCHANGED <<vars, clock, rx, pass>>

\* The second validation of the centre decides.
GiveUp  == Restore
Recheck == /\ spc = "recheck"
           /\ \/ reads' = 1 /\ UNCHANGED timing
              \/ GiveUp
           /\ Finished /\ UNCHANGED <<vars, clock>>

------------------------------------------------------------------------------
Sweep == NoSweep \/ StartSweep \/ TryCandidate \/ NothingPassed \/ ApplyCentre \/ Recheck

BNext == \/ Sweep
         \/ spc = "swept" /\ Next /\ UNCHANGED <<spc, clock, timing, rx, pass, reads>>

BSpec == BInit /\ [][BNext]_bvars

------------------------------------------------------------------------------
\* Whenever flash-resident code runs, the flash can be read: the timing is
\* the bootrom's, or was validated after it was last set.
FlashReadable == spc \in {"start", "swept"} => reads = 1

\* The flash ends up faster than the bootrom left it, and then within the
\* limit, or as the bootrom left it.
ClockWithinLimit ==
  spc = "swept" =>
    \/ timing = orig
    \/ sys <= MaxSck * Divisor(timing.div) /\ Divisor(timing.div) < Divisor(orig.div)

\* How many sample points on each side of r have passed, r among them.
Margin(r) == {m \in 0..RxMax : (r - m)..(r + m) \subseteq pass}

\* No sample point has more margin on both sides than the one the sweep settles on.
CentredInEye ==
  spc = "recheck" => \A r \in RxDelays : Margin(r) \subseteq Margin(timing.rx)
==============================================================================
