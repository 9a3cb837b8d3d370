---------------------------- MODULE MCMinerUpdate ---------------------------
(***************************************************************************)
(* Small instances of MinerUpdate.  The host runs image a, which has no    *)
(* label, from its own launcher.  The release take takes that image over;  *)
(* b1 and b2 are labelled images b and c of one schema; up raises it.      *)
(***************************************************************************)
EXTENDS MinerUpdate, TLC

CONSTANTS take, b1, b2, up, a, b, c, d

MCImageOf == take :> a @@ b1 :> b @@ b2 :> c @@ up :> d
MCSchema == a :> 1 @@ b :> 2 @@ c :> 2 @@ d :> 3
MCDeclared == take :> {2} @@ b1 :> {2} @@ b2 :> {2} @@ up :> {3}
=============================================================================
