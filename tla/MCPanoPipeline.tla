--------------------------- MODULE MCPanoPipeline ---------------------------
(* PanoPipeline for TLC: workers and tiles are interchangeable.             *)
EXTENDS PanoPipeline, TLC

Symmetry == Permutations(Worker) \cup Permutations(Tile)

=============================================================================
