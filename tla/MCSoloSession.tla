--------------------------- MODULE MCSoloSession ---------------------------
(* SoloSession for TLC: slots and panoramas are interchangeable.            *)
EXTENDS SoloSession

Symmetry == Permutations(Slot) \cup Permutations(Pano)

=============================================================================
