------------------------------- MODULE BlockPipe -------------------------------
(***************************************************************************)
(* What the way from core1 to the DAC promises: every block that core1     *)
(* sends is played once, in the order sent, at most Depth blocks later.    *)
(***************************************************************************)
EXTENDS Naturals

CONSTANT Depth   \* blocks that may be under way

VARIABLES sent, played   \* the number of the last block sent, of the last one played

vars == <<sent, played>>

Init == sent = 0 /\ played = 0

Send == /\ sent - played < Depth
        /\ sent' = sent + 1 /\ UNCHANGED played

Play == /\ played < sent
        /\ played' = played + 1 /\ UNCHANGED sent

Next == Send \/ Play

Spec == Init /\ [][Next]_vars
==============================================================================
