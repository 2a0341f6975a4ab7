---------------------------- MODULE AbstractCart ----------------------------
(***************************************************************************)
(* What the shopping cart promises, without its list: a count per product. *)
(* Add to Cart raises the count of the product whose page is open by the   *)
(* amount chosen there; a delete button takes one product out altogether;  *)
(* an order or a restart empties the cart.  No step lowers a count part of *)
(* the way or touches a second product.  The list globalCart and its       *)
(* handlers implement this, see CartBag in module Checkout.                *)
(***************************************************************************)
EXTENDS Naturals

CONSTANTS Products, MaxQuantity

VARIABLES
  count,    \* how many of each product
  open,     \* the product whose description page is open, if it is one
  amount    \* the quantity chosen on that page

Empty == [p \in Products |-> 0]

Browse == UNCHANGED count

Put ==
  /\ open \in Products
  /\ count[open] + amount <= MaxQuantity
  /\ count' = [count EXCEPT ![open] = @ + amount]
  /\ UNCHANGED <<open, amount>>

TakeOut(p) ==
  /\ count' = [count EXCEPT ![p] = 0]
  /\ UNCHANGED <<open, amount>>

Clear == count' = Empty

Next == Browse \/ Put \/ Clear \/ \E p \in Products : TakeOut(p)

Spec == count = Empty /\ [][Next]_<<count, open, amount>>
=============================================================================
