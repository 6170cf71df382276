------------------------------- MODULE MCBleLink -------------------------------
(* BleLink, with packets of up to two messages and the LED on top, for two     *)
(* keys, a channel of two messages and one of one LED state: each overflows    *)
(* with a key message and with a panic message, the second message of a packet *)
(* can be the one that finds no room, and the panic message of one link can be *)
(* queued together with the key messages of the next.                          *)
EXTENDS NoteLed
==============================================================================
