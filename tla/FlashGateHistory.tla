--------------------------- MODULE FlashGateHistory ---------------------------
(***************************************************************************)
(* FlashGate with one history variable: whether core1 has left the gate's  *)
(* spin since the previous sector was released.                            *)
(***************************************************************************)
EXTENDS FlashGate

VARIABLE leftSpin

HInit == Init /\ leftSpin = TRUE

HNext == /\ Next
         /\ leftSpin' = IF fpc = "unlock" THEN pc1 # "spin"
                        ELSE leftSpin \/ (pc1 = "spin" /\ pc1' # "spin")

HSpec == HInit /\ [][HNext]_<<vars, leftSpin>>

\* storage.rs: "Releasing core1 between sectors returns it to a known-good
\* thread-mode state".  When a sector is about to be erased, core1 must have
\* left the gate spin of the sector before.
ReleasedBetweenSectors == fpc = "erase" /\ off > 0 => leftSpin
==============================================================================
