----------------------------- MODULE MCNoteStack -----------------------------
(* NoteStack with one key more than the stack holds, under the two stores and  *)
(* the two readers of VoicePulse and the picking of presets; a bank may have   *)
(* fewer presets than a program change names, or none.                         *)
EXTENDS PresetPick, TLC

Symmetry == Permutations(Notes)
==============================================================================
