-------------------------------- MODULE MCBoot --------------------------------
(* Boot with the real eight receive delays, started with divisors that leave   *)
(* nothing to do, that can be lowered, and 256 (a field of 0), below, at and   *)
(* above clocks that MaxSck divides.  Rings of seven cells hold blocks of four *)
(* unevenly; 16 samples go round them twice, three builds reuse their cells.   *)
(* The delays are all quarters below two cells, half cells around the ring's   *)
(* length (28), and longer than it.                                            *)
EXTENDS Boot

AllClocks == {[sys |-> f, orig |-> [div |-> d, rx |-> 2]] : f \in {200, 264}, d \in {0, 2, 4}}
AllTimes  == (0..8) \union {24, 25, 26, 27, 28, 29, 31, 40, 57}
==============================================================================
