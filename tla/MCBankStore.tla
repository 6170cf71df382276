------------------------------ MODULE MCBankStore ------------------------------
(* EditorLink on BankStore with three sectors of two pages, the header in one  *)
(* of two pages, and three power losses: a format can be interrupted, resumed  *)
(* by the next boot and interrupted again, with an editor's write torn in      *)
(* between.  The image is two bytes long, which tells their order and a nibble *)
(* left over apart; with two pulls a message may be spliced to the rest of     *)
(* another one.                                                                *)
EXTENDS EditorLink
==============================================================================
