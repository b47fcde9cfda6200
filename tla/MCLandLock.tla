------------------------------ MODULE MCLandLock ------------------------------
(***************************************************************************)
(* TLC instances of LandLock.                                              *)
(***************************************************************************)
EXTENDS LandLock, TLC

Symmetry == Permutations(Landing)
=============================================================================
