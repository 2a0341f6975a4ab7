----------------------------- MODULE MCProfile ------------------------------
(***************************************************************************)
(* Users are interchangeable: nothing in module Profile tells them apart.  *)
(***************************************************************************)
EXTENDS Profile, TLC

UserSymmetry == Permutations(Users)
=============================================================================
