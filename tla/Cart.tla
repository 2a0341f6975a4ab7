-------------------------------- MODULE Cart --------------------------------
(***************************************************************************)
(* The shopping cart as a data structure: the list globalCart of           *)
(* lib/Waseq/cart_manager.dart, and the list algorithms the pages run on   *)
(* it.  A cart is a sequence of lines; positions are 1-based here, 0-based *)
(* in the code.                                                            *)
(***************************************************************************)
EXTENDS Naturals, FiniteSets, SequencesExt

CONSTANTS
  Products,     \* the products on sale, records of Catalog!Product
  MaxQuantity   \* bound on the quantity of a line (unbounded in the code)

ASSUME ProductsAssumption ==
  /\ IsFiniteSet(Products)
  /\ \A p, q \in Products : p.name = q.name => p = q

ASSUME MaxQuantityAssumption == MaxQuantity \in Nat \ {0}

CartItem == [product : Products, quantity : 1..MaxQuantity]

(***************************************************************************)
(* Every cart a device can hold: no product has two lines, so a cart has   *)
(* at most as many lines as there are products.                            *)
(***************************************************************************)
OneLinePerProduct(cart) ==
  \A i, j \in DOMAIN cart : cart[i].product = cart[j].product => i = j

Carts == SeqOf(CartItem, Cardinality(Products))

(***************************************************************************)
(* globalCart.indexWhere: the first line whose product has the name of p,  *)
(* 0 when there is none.                                                   *)
(***************************************************************************)
IndexWhere(cart, p) ==
  SelectInSeq(cart, LAMBDA item : item.product.name = p.name)

QuantityOf(cart, p) ==
  LET i == IndexWhere(cart, p) IN IF i > 0 THEN cart[i].quantity ELSE 0

\* Mutant: a line that is found by name is not the one that is raised.
WithItemFirstLine(cart, p, n) ==
  IF IndexWhere(cart, p) > 0
    THEN [cart EXCEPT ![1].quantity = @ + n]
    ELSE Append(cart, [product |-> p, quantity |-> n])

(***************************************************************************)
(* _addToCart: a product already in the cart gets its quantity raised in   *)
(* place, any other product gets a new last line.                          *)
(***************************************************************************)
WithItem(cart, p, n) ==
  LET i == IndexWhere(cart, p)
  IN  IF i > 0
        THEN [cart EXCEPT ![i].quantity = @ + n]
        ELSE Append(cart, [product |-> p, quantity |-> n])

\* cartTotal: the fold of price times quantity over the lines.
CartTotal(cart) ==
  FoldLeft(LAMBDA total, item : total + item.product.price * item.quantity,
           0, cart)
=============================================================================
