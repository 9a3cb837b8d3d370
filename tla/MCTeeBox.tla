------------------------------ MODULE MCTeeBox ------------------------------
(* Small instances of TeeBox for TLC. *)
EXTENDS TeeBox, TLC

CallerSymmetry == Permutations(Callers)
Symmetry == CallerSymmetry \cup Permutations(Sandboxes)
=============================================================================
