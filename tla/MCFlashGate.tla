----------------------------- MODULE MCFlashGate -----------------------------
(* FlashGate on a small instance: two sectors, so that an acknowledgement can *)
(* be left over from the first, a short audio queue and the real status queue. *)
EXTENDS FlashGate
==============================================================================
