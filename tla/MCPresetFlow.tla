------------------------------ MODULE MCPresetFlow ------------------------------
(* PresetFlow with portamento and one more slot, two values and two shapes: two *)
(* presets can differ in every slot and in their shape.                        *)
EXTENDS PresetFlow
==============================================================================
