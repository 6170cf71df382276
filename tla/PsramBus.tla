------------------------------- MODULE PsramBus -------------------------------
(***************************************************************************)
(* What the firmware promises about the QMI bus, which the flash chip and  *)
(* the external PSRAM share: a bank write is a sequence of sectors, each   *)
(* sector is programmed while nobody is in the PSRAM, and the DSP enters   *)
(* the PSRAM only while no sector is being programmed.  Nothing is said of *)
(* how the two cores agree; FlashGate is shown to implement this module.   *)
(***************************************************************************)
EXTENDS Naturals

CONSTANT NSectors

VARIABLES
  writer,   \* "out", "waiting" for the DSP to leave, or "in" a sector
  dsp,      \* "out" of or "in" the PSRAM
  sector    \* sectors of the current bank write already programmed

vars == <<writer, dsp, sector>>

Init == writer = "out" /\ dsp = "out" /\ sector = 0

DspEnter == /\ dsp = "out" /\ writer # "in"
            /\ dsp' = "in"
            /\ UNCHANGED <<writer, sector>>

DspLeave == /\ dsp = "in"
            /\ dsp' = "out"
            /\ UNCHANGED <<writer, sector>>

WriterAsks == /\ writer = "out"
              /\ writer' = "waiting" /\ sector' = 0
              /\ UNCHANGED dsp

WriterEnters == /\ writer = "waiting" /\ dsp = "out"
                /\ writer' = "in"
                /\ UNCHANGED <<dsp, sector>>

WriterLeaves == /\ writer = "in"
                /\ sector' = sector + 1
                /\ writer' = IF sector' < NSectors THEN "waiting" ELSE "out"
                /\ UNCHANGED dsp

Next == DspEnter \/ DspLeave \/ WriterAsks \/ WriterEnters \/ WriterLeaves

\* The safety half of the promise.
SafeSpec == Init /\ [][Next]_vars

\* Every bank write that was asked for is carried out, sector after sector.
Spec == SafeSpec /\ WF_vars(WriterLeaves) /\ SF_vars(WriterEnters)
===============================================================================
