----------------------------- MODULE MCCheckout -----------------------------
(***************************************************************************)
(* Instances of Checkout for TLC, over products of the real catalogue.     *)
(***************************************************************************)
EXTENDS Checkout, Catalog

OneProduct == {demoProducts[1]}
TwoProducts == {demoProducts[1], demoProducts[2]}
=============================================================================
