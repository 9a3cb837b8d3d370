------------------------------ MODULE MCLend --------------------------------
(***************************************************************************)
(* Lend for TLC.  Creates are interchangeable; guests are not once one of  *)
(* them is named in the config file.                                       *)
(***************************************************************************)
EXTENDS Lend, TLC

CreateSymmetry == Permutations(Creates)

=============================================================================
