---------------------------- MODULE MCTeeEgress ----------------------------
(* Small instances of TeeEgress for TLC. *)
EXTENDS TeeEgress, TLC

SandboxSymmetry == Permutations(Sandboxes)
=============================================================================
