----------------------------- MODULE MCAudioPath -----------------------------
(* AudioPath with the sizes of the channels halved, and blocks of 8 and      *)
(* packets of 3 frames: the real 128 and 48 divided by 16, so that a packet    *)
(* ends inside a block and begins in it, or spans two, as in the program.      *)
EXTENDS AudioPath
==============================================================================
