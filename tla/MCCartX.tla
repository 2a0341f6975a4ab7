------------------------------ MODULE MCCartX -------------------------------
(***************************************************************************)
(* CartX for TLC: the users are interchangeable.                           *)
(***************************************************************************)
EXTENDS CartX, TLC

UserSymmetry == Permutations(Users)
=============================================================================
