--------------------------- MODULE MCLongTextSync ---------------------------
(* Instances of LongTextSync for TLC. Clients are interchangeable and so are *)
(* edits, which makes both symmetry sets sound for the safety properties.    *)
EXTENDS LongTextSync, TLC

Symmetry == Permutations(Client) \cup Permutations(Edit)
=============================================================================
