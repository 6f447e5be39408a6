--------------------------- MODULE MCActivateCase ---------------------------
(***************************************************************************)
(* Instances of ActivateCase: the second iteration is the first that can   *)
(* differ from the first, the second command the first that finds what     *)
(* another one left. Branches differ in nothing but their names.           *)
(***************************************************************************)
EXTENDS ActivateCase, TLC

MCOwn == {"own"}
MCGiven == {"given"}
MCSymmetry == Permutations(Branches)
=============================================================================
