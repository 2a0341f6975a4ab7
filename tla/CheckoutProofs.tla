--------------------------- MODULE CheckoutProofs ---------------------------
(***************************************************************************)
(* Type correctness and the safety properties of module Checkout, proved   *)
(* for any products, users, payment methods and any number of orders and   *)
(* pages.                                                                  *)
(***************************************************************************)
EXTENDS Checkout, CartProofs

(***************************************************************************)
(* The type invariant is inductive together with one line per product:     *)
(* without it a cart could outgrow the bound of Carts.                     *)
(***************************************************************************)
TypeInv == TypeOK /\ OneLinePerProduct(globalCart)

-----------------------------------------------------------------------------
(***************************************************************************)
(* Lemmas on the sequence of orders.                                       *)
(***************************************************************************)

\* Leaving a page changes nothing of a call but its host.
LEMMA LeavingChangesHost ==
  ASSUME NEW os \in Seq(Order)
  PROVE  /\ Leaving(os) \in Seq(Order)
         /\ Len(Leaving(os)) = Len(os)
         /\ DOMAIN Leaving(os) = DOMAIN os
         /\ \A i \in DOMAIN os :
              /\ Leaving(os)[i].amount = os[i].amount
              /\ Leaving(os)[i].items = os[i].items
              /\ Leaving(os)[i].future = os[i].future
              /\ Leaving(os)[i].write = os[i].write
              /\ Leaving(os)[i].changed = os[i].changed
              /\ Leaving(os)[i].host # "shown"
<1>1. DOMAIN os = 1..Len(os) /\ \A i \in DOMAIN os : os[i] \in Order
  BY LenProperties
<1>2. \A i \in DOMAIN os :
        Leaving(os)[i] = [os[i] EXCEPT !.host = IF @ = "shown" THEN "leaving" ELSE @]
  BY DEF Leaving
<1>3. ASSUME NEW i \in DOMAIN os
      PROVE  Leaving(os)[i] \in Order
  <2>1. os[i] \in Order
    BY <1>1
  <2>2. CASE os[i].host = "shown"
    <3>1. Leaving(os)[i] = [os[i] EXCEPT !.host = "leaving"]
      BY <1>2, <2>2
    <3>2. QED
      BY <2>1, <3>1 DEF Order
  <2>3. CASE os[i].host # "shown"
    <3>1. Leaving(os)[i] = [os[i] EXCEPT !.host = os[i].host]
      BY <1>2, <2>3
    <3>2. QED
      BY <2>1, <3>1 DEF Order
  <2>4. QED
    BY <2>2, <2>3
<1>4. Leaving(os) = [i \in DOMAIN os |-> Leaving(os)[i]]
  BY DEF Leaving
<1>5. /\ Leaving(os) \in Seq(Order)
      /\ Len(Leaving(os)) = Len(os)
      /\ DOMAIN Leaving(os) = DOMAIN os
  BY <1>3, <1>4, EveryElementChanges
<1>6. QED
  BY <1>1, <1>2, <1>5 DEF Order

\* A change of the cart marks the calls that wait and changes nothing else.
LEMMA CartChangedMarks ==
  ASSUME orders \in Seq(Order), CartChanged
  PROVE  /\ orders' \in Seq(Order)
         /\ Len(orders') = Len(orders)
         /\ DOMAIN orders' = DOMAIN orders
         /\ \A i \in DOMAIN orders :
              /\ orders'[i].amount = orders[i].amount
              /\ orders'[i].items = orders[i].items
              /\ orders'[i].future = orders[i].future
              /\ orders'[i].write = orders[i].write
              /\ orders'[i].host = orders[i].host
              /\ orders'[i].future = "pending" => orders'[i].changed
<1>1. DOMAIN orders = 1..Len(orders) /\ \A i \in DOMAIN orders : orders[i] \in Order
  BY LenProperties
<1>2. \A i \in DOMAIN orders :
        orders'[i] = IF orders[i].future = "pending"
                       THEN [orders[i] EXCEPT !.changed = TRUE] ELSE orders[i]
  BY DEF CartChanged
<1>3. \A i \in DOMAIN orders : [orders[i] EXCEPT !.changed = TRUE] \in Order
  BY <1>1 DEF Order
<1>4. \A i \in DOMAIN orders : orders'[i] \in Order
  BY <1>1, <1>2, <1>3
<1>5. orders' = [i \in DOMAIN orders |-> orders'[i]]
  BY DEF CartChanged
<1>6. /\ orders' \in Seq(Order)
      /\ Len(orders') = Len(orders)
      /\ DOMAIN orders' = DOMAIN orders
  BY <1>4, <1>5, EveryElementChanges
<1>7. QED
  BY <1>1, <1>2, <1>6 DEF Order

-----------------------------------------------------------------------------
(***************************************************************************)
(* Lemmas on the stack of pages.                                           *)
(***************************************************************************)

\* The page on top is the last one and a page.
LEMMA TopIsLast ==
  ASSUME stack \in Seq(Page)
  PROVE  /\ Len(stack) \in Nat
         /\ DOMAIN stack = 1..Len(stack)
         /\ \A k \in DOMAIN stack : stack[k] \in Page
         /\ Top = stack[Len(stack)]
         /\ stack # <<>> => Len(stack) > 0 /\ Len(stack) \in DOMAIN stack /\ Top \in Page
<1>1. /\ Len(stack) \in Nat /\ DOMAIN stack = 1..Len(stack)
      /\ \A k \in DOMAIN stack : stack[k] \in Page
  BY LenProperties
<1>2. stack # <<>> => Len(stack) # 0
  BY EmptySeq
<1>3. Top = stack[Len(stack)]
  BY DEF Top, Last
<1>4. QED
  BY <1>1, <1>2, <1>3

\* What the pages hold, by their kind.
LEMMA PageFields ==
  ASSUME NEW pg \in Page
  PROVE  /\ pg.kind = "Desc" =>
              pg \in [kind : {"Desc"}, product : Products, quantity : 1..MaxQuantity]
         /\ pg.kind = "Cart" => pg \in [kind : {"Cart"}, rows : Carts]
         /\ pg.kind = "Checkout" =>
              pg \in [kind : {"Checkout"}, totalAmount : Amounts,
                      selectedPaymentMethod : PaymentMethods]
BY DEF Page

\* A page is put on top.
LEMMA PushAddsTop ==
  ASSUME stack \in Seq(Page), NEW pg \in Page, stack' = Append(stack, pg)
  PROVE  /\ stack' \in Seq(Page)
         /\ Len(stack') = Len(stack) + 1
         /\ DOMAIN stack' = 1..(Len(stack) + 1)
         /\ \A k \in DOMAIN stack : k \in DOMAIN stack' /\ stack'[k] = stack[k]
         /\ stack'[Len(stack) + 1] = pg
BY OneElementIsAdded

\* The page on top is taken off.
LEMMA FrontIsBelow ==
  ASSUME stack \in Seq(Page), stack # <<>>
  PROVE  /\ Front(stack) \in Seq(Page)
         /\ Len(Front(stack)) = Len(stack) - 1
         /\ DOMAIN Front(stack) = 1..(Len(stack) - 1)
         /\ \A k \in DOMAIN Front(stack) : k \in DOMAIN stack /\ Front(stack)[k] = stack[k]
<1>1. Len(stack) \in Nat /\ Len(stack) > 0 /\ DOMAIN stack = 1..Len(stack)
  BY TopIsLast
<1>2. Front(stack) = SubSeq(stack, 1, Len(stack) - 1)
  BY DEF Front
<1>3. /\ Len(stack) - 1 \in Nat /\ Len(stack) - 1 <= Len(stack)
      /\ 1 <= Len(stack) - 1 + 1 /\ Len(stack) - 1 + 1 - 1 = Len(stack) - 1
  BY <1>1
<1>4. /\ SubSeq(stack, 1, Len(stack) - 1) \in Seq(Page)
      /\ Len(SubSeq(stack, 1, Len(stack) - 1)) = Len(stack) - 1
      /\ DOMAIN SubSeq(stack, 1, Len(stack) - 1) = 1..(Len(stack) - 1)
      /\ \A i \in 1..(Len(stack) - 1) : SubSeq(stack, 1, Len(stack) - 1)[i] = stack[1 + i - 1]
  BY <1>3, PartIs
<1>5. QED
  BY <1>1, <1>2, <1>4

\* The page on top gives way to another one.
LEMMA ReplacingChangesTop ==
  ASSUME stack \in Seq(Page), stack # <<>>, NEW pg \in Page,
         stack' = Append(Front(stack), pg)
  PROVE  /\ stack' \in Seq(Page)
         /\ Len(stack') = Len(stack)
         /\ DOMAIN stack' = DOMAIN stack
         /\ \A k \in DOMAIN stack : stack'[k] = IF k = Len(stack) THEN pg ELSE stack[k]
<1>1. Len(stack) \in Nat /\ Len(stack) > 0 /\ DOMAIN stack = 1..Len(stack)
  BY TopIsLast
<1>2. /\ Front(stack) \in Seq(Page)
      /\ Len(Front(stack)) = Len(stack) - 1
      /\ DOMAIN Front(stack) = 1..(Len(stack) - 1)
      /\ \A k \in DOMAIN Front(stack) : Front(stack)[k] = stack[k]
  BY FrontIsBelow
<1>3. /\ stack' \in Seq(Page)
      /\ Len(stack') = Len(Front(stack)) + 1
      /\ DOMAIN stack' = 1..(Len(Front(stack)) + 1)
      /\ \A k \in DOMAIN Front(stack) : stack'[k] = Front(stack)[k]
      /\ stack'[Len(Front(stack)) + 1] = pg
  BY <1>2, OneElementIsAdded
<1>4. Len(stack') = Len(stack) /\ DOMAIN stack' = DOMAIN stack
  <2>1. Len(Front(stack)) + 1 = Len(stack)
    BY <1>1, <1>2
  <2>2. QED
    BY <1>1, <1>3, <2>1
<1>5. ASSUME NEW k \in DOMAIN stack
      PROVE  stack'[k] = IF k = Len(stack) THEN pg ELSE stack[k]
  <2>1. CASE k = Len(stack)
    <3>1. k = Len(Front(stack)) + 1
      BY <1>1, <1>2, <2>1
    <3>2. QED
      BY <1>3, <2>1, <3>1
  <2>2. CASE k # Len(stack)
    <3>1. k \in DOMAIN Front(stack)
      BY <1>1, <1>2, <2>2
    <3>2. QED
      BY <1>2, <1>3, <2>2, <3>1
  <2>3. QED
    BY <2>1, <2>2
<1>6. QED
  BY <1>3, <1>4, <1>5

\* The page on top changes its State.
LEMMA RebuildChangesTop ==
  ASSUME stack \in Seq(Page), stack # <<>>, NEW pg \in Page, Rebuild(pg)
  PROVE  /\ stack' \in Seq(Page)
         /\ Len(stack') = Len(stack)
         /\ DOMAIN stack' = DOMAIN stack
         /\ \A k \in DOMAIN stack : stack'[k] = IF k = Len(stack) THEN pg ELSE stack[k]
BY TopIsLast, OneElementChanges DEF Rebuild

\* One page is a stack.
LEMMA OnePageIsStack ==
  ASSUME NEW pg \in Page
  PROVE  /\ <<pg>> \in Seq(Page) /\ Len(<<pg>>) = 1
         /\ DOMAIN <<pg>> = 1..1 /\ <<pg>>[1] = pg
OBVIOUS

-----------------------------------------------------------------------------
(***************************************************************************)
(* Type correctness.                                                       *)
(***************************************************************************)

\* A total of a cart is an amount.
LEMMA TotalsAreAmounts ==
  ASSUME NEW cart \in Carts
  PROVE  CartTotal(cart) \in Amounts
BY DEF Amounts

\* The pages that handlers open are pages.
LEMMA NewPagesAreTyped ==
  /\ BrowsePage \in Page
  /\ SuccessDialog \in Page
  /\ \A p \in Products : [kind |-> "Desc", product |-> p, quantity |-> 1] \in Page
  /\ \A c \in Carts : [kind |-> "Cart", rows |-> c] \in Page
  /\ \A a \in Amounts : CheckoutPage(a) \in Page
BY MaxQuantityAssumption, MethodAssumption
   DEF Page, BrowsePage, SuccessDialog, CheckoutPage

\* The navigator's operations keep the stack, what is buried and the orders in
\* their types.
LEMMA NavigationTyped ==
  ASSUME TypeInv
  PROVE  /\ \A pg \in Page : Push(pg) => stack' \in Seq(Page) /\ buried' \in 0..Len(stack')
         /\ stack # <<>> /\ Pop =>
              /\ stack' \in Seq(Page) /\ buried' \in 0..Len(stack')
              /\ orders' \in Seq(Order) /\ Len(orders') = Len(orders)
         /\ \A pg \in Page : RemoveAllAndPush(pg) =>
              /\ stack' \in Seq(Page) /\ buried' \in 0..Len(stack')
              /\ orders' \in Seq(Order) /\ Len(orders') = Len(orders)
<1> USE DEF TypeInv, TypeOK
<1>1. Len(stack) \in Nat
  BY TopIsLast
<1>2. Leaving(orders) \in Seq(Order) /\ Len(Leaving(orders)) = Len(orders)
  BY LeavingChangesHost
<1>3. ASSUME NEW pg \in Page, Push(pg)
      PROVE  stack' \in Seq(Page) /\ buried' \in 0..Len(stack')
  <2>1. stack' \in Seq(Page) /\ Len(stack') = Len(stack) + 1
    BY <1>3, PushAddsTop DEF Push
  <2>2. QED
    BY <1>1, <1>3, <2>1 DEF Push
<1>4. ASSUME stack # <<>>, Pop
      PROVE  /\ stack' \in Seq(Page) /\ buried' \in 0..Len(stack')
             /\ orders' \in Seq(Order) /\ Len(orders') = Len(orders)
  <2>1. stack' \in Seq(Page) /\ Len(stack') = Len(stack) - 1 /\ Len(stack) > 0
    BY <1>4, FrontIsBelow, TopIsLast DEF Pop
  <2>2. buried' \in 0..Len(stack')
    BY <1>1, <1>4, <2>1 DEF Pop
  <2>3. orders' \in Seq(Order) /\ Len(orders') = Len(orders)
    BY <1>2, <1>4 DEF Pop, OrdersWithoutTop
  <2>4. QED
    BY <2>1, <2>2, <2>3
<1>5. ASSUME NEW pg \in Page, RemoveAllAndPush(pg)
      PROVE  /\ stack' \in Seq(Page) /\ buried' \in 0..Len(stack')
             /\ orders' \in Seq(Order) /\ Len(orders') = Len(orders)
  <2>1. stack' \in Seq(Page) /\ Len(stack') = 1
    BY <1>5, OnePageIsStack DEF RemoveAllAndPush
  <2>2. QED
    BY <1>2, <1>5, <2>1 DEF RemoveAllAndPush
<1>6. QED
  BY <1>3, <1>4, <1>5

\* The invariant holds when the app has started.
LEMMA InitTyped == Init => TypeInv
<1>1. SUFFICES ASSUME Init PROVE TypeInv
  OBVIOUS
<1>2. <<>> \in Carts /\ OneLinePerProduct(<<>>)
  BY CartsAreSequences
<1>3. <<BrowsePage>> \in Seq(Page) /\ Len(<<BrowsePage>>) = 1
  BY NewPagesAreTyped, OnePageIsStack
<1>4. <<>> \in Seq(Order) /\ Len(<<>>) <= MaxOrders
  BY EmptySeq, BoundsAssumption
<1>5. QED
  BY <1>1, <1>2, <1>3, <1>4 DEF Init, TypeInv, TypeOK

\* Every handler and every step of the environment keeps it.
LEMMA NextTyped == TypeInv /\ [Next]_vars => TypeInv'
<1> SUFFICES ASSUME TypeInv, [Next]_vars PROVE TypeInv'
  OBVIOUS
<1> USE DEF TypeInv, TypeOK
<1>a. globalCart \in Seq(CartItem) /\ <<>> \in Carts /\ OneLinePerProduct(<<>>)
  BY CartsAreSequences
<1>b. DOMAIN orders = 1..Len(orders) /\ \A i \in DOMAIN orders : orders[i] \in Order
  BY LenProperties
<1>c. ASSUME NEW kind, On(kind)
      PROVE  stack # <<>> /\ Top \in Page /\ Top.kind = kind
  BY <1>c, TopIsLast DEF On
<1>d. ASSUME NEW pg \in Page, stack # <<>>, Rebuild(pg)
      PROVE  stack' \in Seq(Page) /\ Len(stack') = Len(stack)
  BY <1>d, RebuildChangesTop
<1>1. ASSUME NEW p \in Products, OpenProduct(p) PROVE TypeInv'
  <2>1. [kind |-> "Desc", product |-> p, quantity |-> 1] \in Page
    BY NewPagesAreTyped
  <2>2. QED
    BY <1>1, <2>1, NavigationTyped DEF OpenProduct
<1>2. CASE OpenCart
  <2>1. [kind |-> "Cart", rows |-> globalCart] \in Page
    BY NewPagesAreTyped
  <2>2. QED
    BY <1>2, <2>1, NavigationTyped DEF OpenCart
<1>3. CASE OpenTab \/ BackToHome \/ SignupDone \/ LogoutDone
  <2>1. RemoveAllAndPush(BrowsePage) /\ UNCHANGED <<globalCart, currentUser>>
    BY <1>3 DEF OpenTab, BackToHome, SignupDone, LogoutDone
  <2>2. QED
    BY <2>1, NavigationTyped, NewPagesAreTyped
<1>4. CASE Back \/ SaveDone
  <2>1. Pop /\ stack # <<>> /\ UNCHANGED <<globalCart, currentUser>>
    <3>1. CASE Back
      BY <3>1, EmptySeq DEF Back
    <3>2. CASE SaveDone
      BY <3>2 DEF SaveDone
    <3>3. QED
      BY <1>4, <3>1, <3>2
  <2>2. QED
    BY <2>1, NavigationTyped
<1>5. CASE IncQuantity \/ DecQuantity
  <2>1. /\ On("Desc")
        /\ \/ Top.quantity < MaxQuantity /\ Rebuild([Top EXCEPT !.quantity = @ + 1])
           \/ Top.quantity > 1 /\ Rebuild([Top EXCEPT !.quantity = @ - 1])
        /\ UNCHANGED <<globalCart, currentUser, orders, buried>>
    BY <1>5 DEF IncQuantity, DecQuantity
  <2>2. Top \in [kind : {"Desc"}, product : Products, quantity : 1..MaxQuantity]
    BY <1>c, <2>1, PageFields
  <2>3. /\ Top.quantity < MaxQuantity => [Top EXCEPT !.quantity = @ + 1] \in Page
        /\ Top.quantity > 1 => [Top EXCEPT !.quantity = @ - 1] \in Page
    BY <2>2, MaxQuantityAssumption DEF Page
  <2>4. stack' \in Seq(Page) /\ Len(stack') = Len(stack)
    BY <1>c, <1>d, <2>1, <2>3
  <2>5. QED
    BY <2>1, <2>4
<1>6. CASE AddToCart
  <2>1. Top.product \in Products /\ Top.quantity \in 1..MaxQuantity
    BY <1>c, <1>6, PageFields DEF AddToCart
  <2>2. /\ globalCart' \in Seq(CartItem)
        /\ OneLinePerProduct(globalCart')
    BY <1>a, <1>6, <2>1, WithItemAdds DEF AddToCart
  <2>3. globalCart' \in Carts
    BY <2>2, OneLineFits
  <2>4. orders' \in Seq(Order) /\ Len(orders') = Len(orders)
    BY <1>6, CartChangedMarks DEF AddToCart
  <2>5. QED
    BY <1>6, <2>2, <2>3, <2>4 DEF AddToCart
<1>7. ASSUME NEW i \in DOMAIN globalCart, RemoveItem(i) PROVE TypeInv'
  <2>1. i \in 1..Len(globalCart)
    BY <1>a, LenProperties
  <2>2. /\ globalCart' \in Seq(CartItem)
        /\ OneLinePerProduct(globalCart')
    BY <1>a, <1>7, <2>1, RemoveAtTakesOut DEF RemoveItem
  <2>3. globalCart' \in Carts
    BY <2>2, OneLineFits
  <2>4. orders' \in Seq(Order) /\ Len(orders') = Len(orders)
    BY <1>7, CartChangedMarks DEF RemoveItem
  <2>5. Top \in [kind : {"Cart"}, rows : Carts] /\ stack # <<>>
    BY <1>c, <1>7, PageFields DEF RemoveItem
  <2>6. [Top EXCEPT !.rows = globalCart'] \in Page
    BY <2>3, <2>5 DEF Page
  <2>7. stack' \in Seq(Page) /\ Len(stack') = Len(stack)
    BY <1>d, <1>7, <2>5, <2>6 DEF RemoveItem
  <2>8. QED
    BY <1>7, <2>2, <2>3, <2>4, <2>7, TopIsLast DEF RemoveItem
<1>8. CASE ProceedToCheckout
  <2>1. CheckoutPage(CartTotal(globalCart)) \in Page
    BY NewPagesAreTyped, TotalsAreAmounts
  <2>2. QED
    BY <1>8, <2>1, NavigationTyped DEF ProceedToCheckout
<1>9. ASSUME NEW m \in PaymentMethods, SelectPayment(m) PROVE TypeInv'
  <2>1. /\ stack # <<>>
        /\ Top \in [kind : {"Checkout"}, totalAmount : Amounts,
                    selectedPaymentMethod : PaymentMethods]
    BY <1>c, <1>9, PageFields DEF SelectPayment
  <2>2. [Top EXCEPT !.selectedPaymentMethod = m] \in Page
    BY <2>1 DEF Page
  <2>3. stack' \in Seq(Page) /\ Len(stack') = Len(stack)
    BY <1>d, <1>9, <2>1, <2>2 DEF SelectPayment
  <2>4. QED
    BY <1>9, <2>3 DEF SelectPayment
<1>10. CASE PlaceOrder
  <2> DEFINE o == [buyer |-> BuyerId, amount |-> Top.totalAmount,
                   items |-> Len(globalCart), write |-> "queued",
                   future |-> "pending", host |-> "shown",
                   changed |-> Len(stack) <= buried]
  <2>1. Len(globalCart) \in 0..Cardinality(Products)
    <3>1. \E m \in 0..Cardinality(Products) : globalCart \in [1..m -> CartItem]
      BY DEF Carts, SeqOf
    <3>2. Len(globalCart) \in Nat /\ DOMAIN globalCart = 1..Len(globalCart)
      BY <1>a, LenProperties
    <3>3. Cardinality(Products) \in Nat
      BY ProductsAssumption, FS_CardinalityType
    <3>4. QED
      BY <3>1, <3>2, <3>3
  <2>2. Top.totalAmount \in Amounts
    BY <1>c, <1>10, PageFields DEF PlaceOrder
  <2>3. (Len(stack) <= buried) \in BOOLEAN
    OBVIOUS
  <2>4. o \in Order
    BY <2>1, <2>2, <2>3 DEF Order, BuyerId
  <2>5. orders' = Append(orders, o) /\ Len(orders) < MaxOrders
    BY <1>10 DEF PlaceOrder
  <2> HIDE DEF o
  <2>6. orders' \in Seq(Order) /\ Len(orders') = Len(orders) + 1
    BY <2>4, <2>5, AppendProperties
  <2>7. Len(orders') <= MaxOrders
    BY <2>5, <2>6, <1>b, LenProperties, BoundsAssumption
  <2>8. QED
    BY <1>10, <2>6, <2>7 DEF PlaceOrder
<1>11. ASSUME NEW i \in DOMAIN orders, OrderDone(i) PROVE TypeInv'
  <2>1. [orders[i] EXCEPT !.future = "done"] \in Order
    BY <1>b DEF Order
  <2>2. orders' \in Seq(Order) /\ Len(orders') = Len(orders)
    BY <1>11, <2>1, OneElementChanges DEF OrderDone
  <2>3. stack' \in Seq(Page) /\ buried' \in 0..Len(stack')
    BY <1>11, NavigationTyped, NewPagesAreTyped DEF OrderDone, ShowDialog
  <2>4. QED
    BY <1>a, <1>11, <2>2, <2>3 DEF OrderDone
<1>12. ASSUME NEW i \in DOMAIN orders,
              OrderFailed(i) \/ Dispose(i) \/ FirestoreStore(i) \/ FirestoreReject(i)
       PROVE  TypeInv'
  <2>1. /\ [orders[i] EXCEPT !.future = "failed"] \in Order
        /\ [orders[i] EXCEPT !.host = "disposed"] \in Order
        /\ [orders[i] EXCEPT !.write = "stored"] \in Order
        /\ [orders[i] EXCEPT !.write = "rejected"] \in Order
    BY <1>b DEF Order
  <2>2. PICK e \in Order : orders' = [orders EXCEPT ![i] = e]
    BY <1>12, <2>1 DEF OrderFailed, Dispose, FirestoreStore, FirestoreReject
  <2>3. orders' \in Seq(Order) /\ Len(orders') = Len(orders)
    BY <2>2, OneElementChanges
  <2>4. QED
    BY <1>12, <2>3 DEF OrderFailed, Dispose, FirestoreStore, FirestoreReject
<1>13. CASE LoginDone
  <2>1. stack' \in Seq(Page) /\ Len(stack') = Len(stack) /\ Len(stack) \in Nat /\ Len(stack) > 0
    BY <1>13, ReplacingChangesTop, NewPagesAreTyped, TopIsLast DEF LoginDone
  <2>2. orders' \in Seq(Order) /\ Len(orders') = Len(orders)
    BY <1>13, LeavingChangesHost DEF LoginDone, OrdersWithoutTop
  <2>3. QED
    BY <1>13, <2>1, <2>2 DEF LoginDone
<1>14. ASSUME NEW u \in Users \cup {NoUser}, UserChanges(u) PROVE TypeInv'
  BY <1>14 DEF UserChanges
<1>15. CASE Restart
  <2>1. \A i \in DOMAIN orders :
          [orders[i] EXCEPT !.host = "disposed",
                            !.future = IF @ = "pending" THEN "lost" ELSE @] \in Order
    BY <1>b DEF Order
  <2>2. /\ orders' = [i \in DOMAIN orders |-> orders'[i]]
        /\ \A i \in DOMAIN orders : orders'[i] \in Order
    BY <1>15, <2>1 DEF Restart
  <2>3. orders' \in Seq(Order) /\ Len(orders') = Len(orders)
    BY <2>2, EveryElementChanges
  <2>4. stack' \in Seq(Page) /\ Len(stack') = 1
    BY <1>15, NewPagesAreTyped, OnePageIsStack DEF Restart
  <2>5. globalCart' = <<>> /\ currentUser' = currentUser /\ buried' = 0
    BY <1>15 DEF Restart
  <2>6. buried' \in 0..Len(stack')
    BY <2>4, <2>5
  <2>7. QED
    BY <1>a, <2>3, <2>4, <2>5, <2>6
<1>16. CASE UNCHANGED vars
  BY <1>16 DEF vars
<1>17. QED
  BY <1>1, <1>2, <1>3, <1>4, <1>5, <1>6, <1>7, <1>8, <1>9, <1>10, <1>11, <1>12,
     <1>13, <1>14, <1>15, <1>16 DEF Next

(***************************************************************************)
(* Every value the app keeps stays in its type: in particular a cart never *)
(* has two lines for one product, however taps, answers of Firestore,      *)
(* session changes and restarts interleave.                                *)
(***************************************************************************)
THEOREM TypeCorrect == Spec => []TypeOK
<1>1. Spec => []TypeInv
  BY InitTyped, NextTyped, PTL DEF Spec
<1>2. TypeInv => TypeOK
  BY DEF TypeInv
<1>3. QED
  BY <1>1, <1>2, PTL

-----------------------------------------------------------------------------
(***************************************************************************)
(* Safety.  PagesStacked is the shape of the stack: the cart page is the   *)
(* first page, the checkout page the second, over a cart page that showed  *)
(* a line, and only a late login gets any page but a dialog over them, or  *)
(* over a dialog.  So whoever fills the cart has buried whatever knows of  *)
(* it.  RowsHaveCause is why an empty cart on the checkout page means that *)
(* an order went through.  The three after it are what a call of           *)
(* _placeOrder that waits knows of the cart.                               *)
(***************************************************************************)
CartPages == {"Cart", "Checkout", "Dialog"}

PagesStacked ==
  /\ \A k \in DOMAIN stack : stack[k].kind = "Cart" => k = 1
  /\ \A k \in DOMAIN stack :
       stack[k].kind = "Checkout" =>
         k = 2 /\ stack[1].kind = "Cart" /\ stack[1].rows # <<>>
  /\ \A k, m \in DOMAIN stack :
       stack[k].kind \in CartPages /\ k < m =>
         stack[m].kind \in {"Checkout", "Dialog"} \/ k <= buried

RowsHaveCause ==
  \A k \in DOMAIN stack :
    stack[k].kind = "Cart" /\ stack[k].rows # <<>> => globalCart # <<>> \/ SomeOrderDone

ShownOnCheckout ==
  \A i \in DOMAIN orders :
    orders[i].host = "shown" => 2 \in DOMAIN stack /\ stack[2].kind = "Checkout"

PendingIsCharged ==
  \A i \in DOMAIN orders :
    orders[i].future = "pending" /\ globalCart # <<>> =>
      \/ orders[i].amount = CartTotal(globalCart) /\ orders[i].items = Len(globalCart)
      \/ orders[i].changed

ChangedIsBuried ==
  \A i \in DOMAIN orders :
    orders[i].future = "pending" /\ orders[i].host = "shown" /\ orders[i].changed
      => 2 <= buried

DoneIsStored ==
  \A i \in DOMAIN orders : orders[i].future = "done" => orders[i].write = "stored"

PagesInv == /\ PagesStacked
            /\ RowsHaveCause
            /\ RowsMatchCart
            /\ ChargedTotalIsCartTotal
            /\ SuccessDialogIsTrue

OrdersInv == /\ ShownOnCheckout
             /\ PendingIsCharged
             /\ ChangedIsBuried
             /\ DoneIsStored
             /\ EmptyOrderOnlyAfterSuccess

SafetyInv == PagesInv /\ OrdersInv

(***************************************************************************)
(* What no step undoes: a call is never forgotten, what it ordered never   *)
(* changes, one that ended stays ended, a stored write stays stored, and a *)
(* page that was left does not come back.                                  *)
(***************************************************************************)
OrdersKept ==
  \A i \in DOMAIN orders :
    /\ i \in DOMAIN orders'
    /\ orders'[i].amount = orders[i].amount
    /\ orders'[i].items = orders[i].items
    /\ orders[i].future = "done" => orders'[i].future = "done"
    /\ orders'[i].future = "pending" => orders[i].future = "pending"
    /\ orders[i].write = "stored" => orders'[i].write = "stored"
    /\ orders'[i].host = "shown" => orders[i].host = "shown"

\* A step of the checkout keeps the orders, or adds one at the end.
LEMMA NextKeepsOrders == TypeInv /\ [Next]_vars => OrdersKept
<1> SUFFICES ASSUME TypeInv, [Next]_vars PROVE OrdersKept
  OBVIOUS
<1>a. /\ orders \in Seq(Order)
      /\ DOMAIN orders = 1..Len(orders) /\ Len(orders) \in Nat
      /\ \A i \in DOMAIN orders : orders[i] \in Order
  BY LenProperties DEF TypeInv, TypeOK
<1>1. CASE UNCHANGED orders
  BY <1>1 DEF OrdersKept
<1>2. CASE orders' = Leaving(orders)
  BY <1>a, <1>2 DEF OrdersKept, Leaving, Order
<1>3. CASE PlaceOrder
  <2>1. PICK o : orders' = Append(orders, o)
    BY <1>3 DEF PlaceOrder
  <2>2. \A i \in DOMAIN orders : i \in DOMAIN orders' /\ orders'[i] = orders[i]
    BY <1>a, <2>1
  <2>3. QED
    BY <2>2 DEF OrdersKept
<1>4. ASSUME NEW k \in DOMAIN orders,
             \/ OrderDone(k) \/ OrderFailed(k) \/ Dispose(k)
             \/ FirestoreStore(k) \/ FirestoreReject(k)
      PROVE  OrdersKept
  <2>1. CASE OrderDone(k)
    BY <1>a, <2>1 DEF OrderDone, OrdersKept, Order
  <2>2. CASE OrderFailed(k)
    BY <1>a, <2>2 DEF OrderFailed, OrdersKept, Order
  <2>3. CASE Dispose(k)
    BY <1>a, <2>3 DEF Dispose, OrdersKept, Order
  <2>4. CASE FirestoreStore(k)
    BY <1>a, <2>4 DEF FirestoreStore, AtFront, OrdersKept, Order
  <2>5. CASE FirestoreReject(k)
    BY <1>a, <2>5 DEF FirestoreReject, AtFront, OrdersKept, Order
  <2>6. QED
    BY <1>4, <2>1, <2>2, <2>3, <2>4, <2>5
<1>5. CASE Restart
  BY <1>a, <1>5 DEF Restart, OrdersKept, Order
<1>6. CASE CartChanged
  BY <1>a, <1>6, CartChangedMarks DEF OrdersKept
<1>7. QED
  BY <1>1, <1>2, <1>3, <1>4, <1>5, <1>6
  DEF Next, vars, OpenProduct, OpenCart, OpenTab, Back, IncQuantity, DecQuantity,
      AddToCart, RemoveItem, ProceedToCheckout, SelectPayment, BackToHome, LoginDone,
      SignupDone, LogoutDone, SaveDone, UserChanges, Pop, RemoveAllAndPush,
      OrdersWithoutTop

\* A step that adds no call leaves standing what is said of orders alone.
LEMMA OrderPartsKept ==
  ASSUME TypeInv, SafetyInv, OrdersKept, DOMAIN orders' = DOMAIN orders
  PROVE  EmptyOrderOnlyAfterSuccess'
<1>1. DOMAIN orders = 1..Len(orders) /\ Len(orders) \in Nat
  BY LenProperties DEF TypeInv, TypeOK
<1>2. SUFFICES ASSUME NEW i \in DOMAIN orders', orders'[i].items = 0
               PROVE  \E j \in 1..(i-1) : orders'[j].future = "done"
  BY DEF EmptyOrderOnlyAfterSuccess
<1>3. i \in DOMAIN orders /\ orders[i].items = 0
  BY <1>2 DEF OrdersKept
<1>4. PICK j \in 1..(i-1) : orders[j].future = "done"
  BY <1>3 DEF SafetyInv, OrdersInv, EmptyOrderOnlyAfterSuccess
<1>5. j \in DOMAIN orders
  BY <1>1, <1>3
<1>6. QED
  BY <1>4, <1>5 DEF OrdersKept

\* An order that is done stays done and stored.
LEMMA DoneStays ==
  ASSUME OrdersKept
  PROVE  /\ SomeOrderDone => SomeOrderDone'
         /\ (\E i \in DOMAIN orders : orders[i].future = "done" /\ orders[i].write = "stored")
            => (\E i \in DOMAIN orders' :
                  orders'[i].future = "done" /\ orders'[i].write = "stored")
BY DEF OrdersKept, SomeOrderDone

(***************************************************************************)
(* A step carries the pages over: each page of the new stack neither shows *)
(* nor charges a cart, or it was at the same place before, with the same   *)
(* rows or total, and is buried if it was.                                 *)
(***************************************************************************)
SamePage(p, q) ==
  /\ p.kind = q.kind
  /\ p.kind = "Cart" => p.rows = q.rows
  /\ p.kind = "Checkout" => p.totalAmount = q.totalAmount

PagesCarried ==
  \A k \in DOMAIN stack' :
    \/ stack'[k].kind \in {"Browse", "Desc"}
    \/ /\ k \in DOMAIN stack /\ SamePage(stack'[k], stack[k])
       /\ k <= buried => k <= buried'

\* Pages that are carried over know as much of the cart as before.
LEMMA CarriedPagesMatch ==
  ASSUME SafetyInv, OrdersKept, PagesCarried, globalCart' = globalCart
  PROVE  RowsHaveCause' /\ RowsMatchCart' /\ ChargedTotalIsCartTotal' /\ SuccessDialogIsTrue'
<1> USE DEF SafetyInv, PagesInv, PagesCarried, SamePage
<1>1. RowsHaveCause'
  BY DoneStays DEF RowsHaveCause
<1>2. RowsMatchCart'
  BY DoneStays DEF RowsMatchCart
<1>3. ChargedTotalIsCartTotal'
  BY DEF ChargedTotalIsCartTotal
<1>4. SuccessDialogIsTrue'
  BY DoneStays DEF SuccessDialogIsTrue
<1>5. QED
  BY <1>1, <1>2, <1>3, <1>4

CheckoutStays ==
  2 \in DOMAIN stack /\ stack[2].kind = "Checkout" =>
    /\ 2 \in DOMAIN stack' /\ stack'[2].kind = "Checkout"
    /\ 2 <= buried => 2 <= buried'

\* The calls see the same cart, and the checkout page stays or no call is shown.
LEMMA CarriedOrdersMatch ==
  ASSUME TypeInv, SafetyInv, OrdersKept, DOMAIN orders' = DOMAIN orders,
         globalCart' = globalCart,
         \A i \in DOMAIN orders :
           /\ orders'[i].changed = orders[i].changed
           /\ orders'[i].future = "done" => orders[i].future = "done"
           /\ orders'[i].host # "shown" \/ CheckoutStays
  PROVE  OrdersInv'
<1> USE DEF SafetyInv, OrdersInv, OrdersKept, CheckoutStays
<1>1. EmptyOrderOnlyAfterSuccess'
  BY OrderPartsKept
<1>2. ShownOnCheckout'
  BY DEF ShownOnCheckout
<1>3. PendingIsCharged'
  BY DEF PendingIsCharged
<1>4. ChangedIsBuried'
  BY DEF ChangedIsBuried, ShownOnCheckout
<1>5. DoneIsStored'
  BY DEF DoneIsStored
<1>6. QED
  BY <1>1, <1>2, <1>3, <1>4, <1>5

\* The invariant holds when the app has started.
LEMMA InitSafe == Init => SafetyInv
<1>1. SUFFICES ASSUME Init PROVE SafetyInv
  OBVIOUS
<1>2. /\ globalCart = <<>> /\ orders = <<>> /\ buried = 0
      /\ DOMAIN stack = 1..1 /\ stack[1].kind = "Browse"
  BY <1>1, NewPagesAreTyped, OnePageIsStack DEF Init, BrowsePage
<1>3. DOMAIN orders = {}
  BY <1>2
<1>4. PagesInv
  BY <1>2 DEF PagesInv, PagesStacked, CartPages, RowsHaveCause, RowsMatchCart,
     ChargedTotalIsCartTotal, SuccessDialogIsTrue
<1>5. OrdersInv
  BY <1>3 DEF OrdersInv, ShownOnCheckout, PendingIsCharged, ChangedIsBuried, DoneIsStored,
     EmptyOrderOnlyAfterSuccess
<1>6. QED
  BY <1>4, <1>5 DEF SafetyInv

\* All pages give way to one that neither shows nor changes the cart.
LEMMA RemoveAllSafe ==
  ASSUME TypeInv, SafetyInv, OrdersKept,
         RemoveAllAndPush(BrowsePage), UNCHANGED globalCart
  PROVE  SafetyInv'
<1>1. /\ DOMAIN stack' = 1..1 /\ stack'[1].kind = "Browse"
  BY NewPagesAreTyped, OnePageIsStack DEF RemoveAllAndPush, BrowsePage
<1>2. PagesStacked'
  BY <1>1 DEF PagesStacked, CartPages
<1>3. PagesCarried
  BY <1>1 DEF PagesCarried
<1>4. OrdersInv'
  BY CarriedOrdersMatch, LeavingChangesHost DEF RemoveAllAndPush, TypeInv, TypeOK
<1>5. QED
  BY <1>2, <1>3, <1>4, CarriedPagesMatch DEF SafetyInv, PagesInv

\* The cart page is built with the cart as it is.
LEMMA OpenCartSafe ==
  ASSUME TypeInv, SafetyInv, OrdersKept, OpenCart
  PROVE  SafetyInv'
<1>1. /\ DOMAIN stack' = 1..1 /\ stack'[1].kind = "Cart" /\ stack'[1].rows = globalCart
      /\ globalCart' = globalCart
  BY OnePageIsStack, NewPagesAreTyped DEF OpenCart, RemoveAllAndPush, TypeInv, TypeOK
<1>2. PagesInv'
  BY <1>1 DEF PagesInv, PagesStacked, CartPages, RowsHaveCause, RowsMatchCart,
     ChargedTotalIsCartTotal, SuccessDialogIsTrue
<1>3. OrdersInv'
  BY <1>1, CarriedOrdersMatch, LeavingChangesHost DEF OpenCart, RemoveAllAndPush, TypeInv, TypeOK
<1>4. QED
  BY <1>2, <1>3 DEF SafetyInv

\* A description page comes over a page that has nothing to do with the cart.
LEMMA OpenProductSafe ==
  ASSUME TypeInv, SafetyInv, OrdersKept, NEW p \in Products, OpenProduct(p)
  PROVE  SafetyInv'
<1> DEFINE n == Len(stack)
<1>1. /\ n \in Nat /\ n > 0 /\ DOMAIN stack = 1..n /\ stack[n].kind = "Browse"
  BY TopIsLast DEF OpenProduct, On, TypeInv, TypeOK
<1>2. /\ DOMAIN stack' = 1..(n + 1)
      /\ \A k \in 1..n : stack'[k] = stack[k]
      /\ stack'[n + 1].kind = "Desc"
      /\ UNCHANGED <<globalCart, orders, buried>>
  BY <1>1, NewPagesAreTyped, PushAddsTop DEF OpenProduct, Push, TypeInv, TypeOK
<1> HIDE DEF n
<1>3. PagesStacked'
  BY <1>1, <1>2 DEF SafetyInv, PagesInv, PagesStacked, CartPages
<1>4. PagesCarried
  BY <1>1, <1>2 DEF PagesCarried, SamePage
<1>5. OrdersInv'
  <2>1. CheckoutStays
    BY <1>1, <1>2 DEF CheckoutStays
  <2>2. QED
    BY <1>2, <2>1, CarriedOrdersMatch
<1>6. QED
  BY <1>2, <1>3, <1>4, <1>5, CarriedPagesMatch DEF SafetyInv, PagesInv

\* The calls after the page on top has gone.
LEMMA OrdersOfTopLeave ==
  ASSUME TypeInv, orders' = OrdersWithoutTop
  PROVE  /\ DOMAIN orders' = DOMAIN orders
         /\ \A i \in DOMAIN orders :
              /\ orders'[i].changed = orders[i].changed
              /\ orders'[i].future = orders[i].future
              /\ Top.kind = "Checkout" => orders'[i].host # "shown"
BY LeavingChangesHost DEF OrdersWithoutTop, TypeInv, TypeOK

\* The page on top goes; the one below is as it was.
LEMMA PopSafe ==
  ASSUME TypeInv, SafetyInv, OrdersKept, stack # <<>>, Pop, UNCHANGED globalCart
  PROVE  SafetyInv'
<1> DEFINE n == Len(stack)
<1>1. n \in Nat /\ n > 0 /\ DOMAIN stack = 1..n /\ Top = stack[n] /\ buried \in 0..n
  BY TopIsLast DEF TypeInv, TypeOK
<1>2. /\ DOMAIN stack' = 1..(n - 1)
      /\ \A k \in 1..(n - 1) : stack'[k] = stack[k]
      /\ \A k \in 1..(n - 1) : k <= buried => k <= buried'
  <2>1. /\ DOMAIN stack' = 1..(n - 1)
        /\ \A k \in 1..(n - 1) : stack'[k] = stack[k]
    BY FrontIsBelow DEF Pop, TypeInv, TypeOK
  <2>2. buried' = IF buried = n THEN buried - 1 ELSE buried
    BY DEF Pop
  <2> HIDE DEF n
  <2>3. \A k \in 1..(n - 1) : k <= buried => k <= buried'
    BY <1>1, <2>2
  <2>4. QED
    BY <2>1, <2>3
<1> HIDE DEF n
<1>3. PagesStacked'
  <2>1. \A k \in DOMAIN stack' : k \in DOMAIN stack /\ stack'[k] = stack[k]
    BY <1>1, <1>2
  <2>2. \A k \in DOMAIN stack' : k = 2 => 1 \in DOMAIN stack'
    BY <1>1, <1>2
  <2>3. QED
    BY <1>2, <2>1, <2>2 DEF SafetyInv, PagesInv, PagesStacked
<1>4. PagesCarried
  BY <1>1, <1>2 DEF PagesCarried, SamePage
<1>5. OrdersInv'
  <2>1. Top.kind = "Checkout" \/ CheckoutStays
    BY <1>1, <1>2 DEF CheckoutStays
  <2>2. QED
    BY <2>1, CarriedOrdersMatch, OrdersOfTopLeave DEF Pop
<1>6. QED
  BY <1>3, <1>4, <1>5, CarriedPagesMatch DEF SafetyInv, PagesInv

\* A late login: the home page takes the place of the page on top, and all below
\* are buried.
LEMMA LoginSafe ==
  ASSUME TypeInv, SafetyInv, OrdersKept, LoginDone
  PROVE  SafetyInv'
<1> DEFINE n == Len(stack)
<1>1. n \in Nat /\ n > 0 /\ DOMAIN stack = 1..n /\ Top = stack[n] /\ buried \in 0..n
  BY TopIsLast DEF TypeInv, TypeOK, LoginDone
<1>2. /\ DOMAIN stack' = 1..n
      /\ \A k \in 1..n : stack'[k] = IF k = n THEN BrowsePage ELSE stack[k]
      /\ buried' = n - 1
      /\ globalCart' = globalCart
  BY <1>1, ReplacingChangesTop, NewPagesAreTyped DEF LoginDone, TypeInv, TypeOK
<1> HIDE DEF n
<1>3. /\ stack'[n].kind = "Browse"
      /\ \A k \in 1..n : k # n => stack'[k] = stack[k] /\ k <= buried'
  BY <1>1, <1>2 DEF BrowsePage
<1>4. PagesStacked'
  <2>1. \A k \in DOMAIN stack' : k # n => k \in DOMAIN stack /\ stack'[k] = stack[k]
    BY <1>1, <1>2, <1>3
  <2>2. \A k \in DOMAIN stack' : k = 2 /\ k # n => 1 \in DOMAIN stack' /\ 1 # n
    BY <1>1, <1>2
  <2>3. \A k, m \in DOMAIN stack' : k < m => k <= buried'
    BY <1>1, <1>2
  <2>4. QED
    BY <1>3, <2>1, <2>2, <2>3 DEF SafetyInv, PagesInv, PagesStacked
<1>5. PagesCarried
  BY <1>1, <1>2, <1>3 DEF PagesCarried, SamePage
<1>6. OrdersInv'
  <2>1. Top.kind = "Checkout" \/ CheckoutStays
    BY <1>1, <1>2, <1>3 DEF CheckoutStays
  <2>2. QED
    BY <1>2, <2>1, CarriedOrdersMatch, OrdersOfTopLeave DEF LoginDone
<1>7. QED
  BY <1>2, <1>4, <1>5, <1>6, CarriedPagesMatch DEF SafetyInv, PagesInv

\* The quantity of a description page or the payment method changes.
LEMMA RebuildSafe ==
  ASSUME TypeInv, SafetyInv, OrdersKept, stack # <<>>,
         NEW pg \in Page, Rebuild(pg), SamePage(pg, Top), pg.kind # "Cart",
         UNCHANGED <<globalCart, orders, buried>>
  PROVE  SafetyInv'
<1>1. /\ Len(stack) \in Nat /\ Len(stack) > 0 /\ DOMAIN stack = 1..Len(stack)
      /\ Top = stack[Len(stack)]
  BY TopIsLast DEF TypeInv, TypeOK
<1>2. /\ DOMAIN stack' = DOMAIN stack
      /\ \A k \in DOMAIN stack : stack'[k] = IF k = Len(stack) THEN pg ELSE stack[k]
  BY RebuildChangesTop DEF TypeInv, TypeOK
<1>3. \A k \in DOMAIN stack : SamePage(stack'[k], stack[k])
  BY <1>1, <1>2 DEF SamePage
<1>4. \A k \in DOMAIN stack : stack[k].kind = "Cart" => stack'[k] = stack[k]
  BY <1>1, <1>2 DEF SamePage
<1>5. PagesStacked'
  <2>1. \A k \in DOMAIN stack : k = 2 => 1 \in DOMAIN stack
    BY <1>1
  <2>2. \A k \in DOMAIN stack : stack'[k].kind = stack[k].kind
    BY <1>3 DEF SamePage
  <2>3. QED
    BY <1>2, <1>4, <2>1, <2>2 DEF SafetyInv, PagesInv, PagesStacked
<1>6. PagesCarried
  BY <1>2, <1>3 DEF PagesCarried
<1>7. OrdersInv'
  <2>1. CheckoutStays
    BY <1>2, <1>3 DEF CheckoutStays, SamePage
  <2>2. QED
    BY <2>1, CarriedOrdersMatch
<1>8. QED
  BY <1>5, <1>6, <1>7, CarriedPagesMatch DEF SafetyInv, PagesInv

\* An empty list is the empty bag.
LEMMA EmptyCartIsEmptyBag ==
  ASSUME NEW p \in Products
  PROVE  QuantityOf(<<>>, p) = 0
<1>1. <<>> \in Seq(CartItem) /\ Len(<<>>) = 0
  BY EmptySeq
<1>2. QED
  BY <1>1, CartsAreSequences, QuantityOfLine

\* Who fills the cart does it on a description page, and that lies over buried
\* pages only, as far as they know of the cart.
LEMMA AddToCartSafe ==
  ASSUME TypeInv, SafetyInv, OrdersKept, AddToCart
  PROVE  SafetyInv'
<1>1. /\ Len(stack) \in Nat /\ Len(stack) > 0 /\ DOMAIN stack = 1..Len(stack)
      /\ Len(stack) \in DOMAIN stack
      /\ Top = stack[Len(stack)] /\ Top \in Page /\ Top.kind = "Desc"
  BY TopIsLast DEF AddToCart, On, TypeInv, TypeOK
<1>2. UNCHANGED <<stack, buried>>
  BY DEF AddToCart
<1>3. \A k \in DOMAIN stack : stack[k].kind \in CartPages => k <= buried
  <2>1. SUFFICES ASSUME NEW k \in DOMAIN stack, stack[k].kind \in CartPages
                 PROVE  k <= buried
    OBVIOUS
  <2>2. k # Len(stack)
    BY <1>1, <2>1 DEF CartPages
  <2>3. k < Len(stack)
    BY <1>1, <2>2
  <2>4. QED
    BY <1>1, <2>1, <2>3 DEF SafetyInv, PagesInv, PagesStacked
<1>4. globalCart' # <<>>
  <2>1. Top.product \in Products /\ Top.quantity \in 1..MaxQuantity
    BY <1>1, PageFields
  <2>2. globalCart \in Seq(CartItem) /\ OneLinePerProduct(globalCart)
    BY CartsAreSequences DEF TypeInv, TypeOK
  <2>3. QuantityOf(globalCart', Top.product) = QuantityOf(globalCart, Top.product) + Top.quantity
    BY <2>1, <2>2, WithItemAdds DEF AddToCart
  <2>4. QuantityOf(globalCart, Top.product) \in Nat
    <3>1. IndexWhere(globalCart, Top.product) \in 0..Len(globalCart)
      BY <2>2, IndexWhereFinds
    <3>2. \A i \in 1..Len(globalCart) : globalCart[i].quantity \in Nat
      <4>1. \A i \in 1..Len(globalCart) : globalCart[i] \in CartItem
        BY <2>2, ElementOfSeq
      <4>2. QED
        BY <4>1, MaxQuantityAssumption DEF CartItem
    <3>3. QED
      BY <2>2, <3>1, <3>2, LenProperties DEF QuantityOf
  <2>5. QuantityOf(globalCart', Top.product) # 0
    BY <2>1, <2>3, <2>4, MaxQuantityAssumption
  <2>6. QED
    BY <2>1, <2>5, EmptyCartIsEmptyBag
<1>5. PagesInv'
  <2>1. PagesStacked' /\ RowsHaveCause'
    BY <1>2, <1>4 DEF SafetyInv, PagesInv, PagesStacked, RowsHaveCause
  <2>2. RowsMatchCart' /\ ChargedTotalIsCartTotal'
    BY <1>2, <1>3 DEF RowsMatchCart, ChargedTotalIsCartTotal, CartPages
  <2>3. SuccessDialogIsTrue'
    BY <1>2, <1>3, DoneStays DEF SafetyInv, PagesInv, SuccessDialogIsTrue, CartPages
  <2>4. QED
    BY <2>1, <2>2, <2>3 DEF PagesInv
<1>6. OrdersInv'
  <2>1. /\ DOMAIN orders' = DOMAIN orders
        /\ \A i \in DOMAIN orders :
             /\ orders'[i].future = orders[i].future
             /\ orders'[i].write = orders[i].write
             /\ orders'[i].host = orders[i].host
             /\ orders'[i].future = "pending" => orders'[i].changed
    BY CartChangedMarks DEF AddToCart, TypeInv, TypeOK
  <2>2. EmptyOrderOnlyAfterSuccess'
    BY <2>1, OrderPartsKept
  <2>3. ShownOnCheckout' /\ PendingIsCharged' /\ DoneIsStored'
    BY <1>2, <2>1
    DEF SafetyInv, OrdersInv, ShownOnCheckout, PendingIsCharged, DoneIsStored
  <2>4. ChangedIsBuried'
    BY <1>2, <1>3, <2>1 DEF SafetyInv, OrdersInv, ShownOnCheckout, ChangedIsBuried, CartPages
  <2>5. QED
    BY <2>2, <2>3, <2>4 DEF OrdersInv
<1>7. QED
  BY <1>5, <1>6 DEF SafetyInv

\* While the cart page is on top it is the only page, and no call is shown.
LEMMA CartIsAlone ==
  ASSUME TypeInv, SafetyInv, On("Cart")
  PROVE  /\ Len(stack) = 1 /\ DOMAIN stack = 1..1 /\ 2 \notin DOMAIN stack
         /\ Top = stack[1] /\ Top \in Page
         /\ \A i \in DOMAIN orders : orders[i].host # "shown"
<1>1. /\ Len(stack) \in Nat /\ DOMAIN stack = 1..Len(stack) /\ Len(stack) \in DOMAIN stack
      /\ Top = stack[Len(stack)] /\ Top \in Page /\ Top.kind = "Cart"
  BY TopIsLast DEF On, TypeInv, TypeOK
<1>2. Len(stack) = 1
  BY <1>1 DEF SafetyInv, PagesInv, PagesStacked
<1>3. 2 \notin DOMAIN stack
  BY <1>1, <1>2
<1>4. QED
  BY <1>1, <1>2, <1>3 DEF SafetyInv, OrdersInv, ShownOnCheckout

\* A row goes and the cart page is built anew.
LEMMA RemoveItemSafe ==
  ASSUME TypeInv, TypeInv', SafetyInv, OrdersKept,
         NEW i \in DOMAIN globalCart, RemoveItem(i)
  PROVE  SafetyInv'
<1>1. /\ Len(stack) = 1 /\ DOMAIN stack = 1..1 /\ Top \in Page /\ Top.kind = "Cart"
      /\ \A j \in DOMAIN orders : orders[j].host # "shown"
  BY CartIsAlone DEF RemoveItem, On
<1>2. Top \in [kind : {"Cart"}, rows : Carts]
  BY <1>1, PageFields
<1>3. /\ DOMAIN stack' = 1..1
      /\ stack'[1].kind = "Cart" /\ stack'[1].rows = globalCart'
  <2>1. stack' = [stack EXCEPT ![1] = [Top EXCEPT !.rows = globalCart']]
    BY <1>1 DEF RemoveItem, Rebuild
  <2>2. DOMAIN stack' = 1..1 /\ stack'[1] = [Top EXCEPT !.rows = globalCart']
    BY <1>1, <2>1
  <2>3. QED
    BY <1>2, <2>2
<1>4. PagesInv'
  BY <1>3 DEF PagesInv, PagesStacked, CartPages, RowsHaveCause, RowsMatchCart,
     ChargedTotalIsCartTotal, SuccessDialogIsTrue
<1>5. OrdersInv'
  <2>1. /\ DOMAIN orders' = DOMAIN orders
        /\ \A j \in DOMAIN orders :
             /\ orders'[j].future = orders[j].future
             /\ orders'[j].write = orders[j].write
             /\ orders'[j].host # "shown"
             /\ orders'[j].future = "pending" => orders'[j].changed
    BY <1>1, CartChangedMarks DEF RemoveItem, TypeInv, TypeOK
  <2>2. EmptyOrderOnlyAfterSuccess'
    BY <2>1, OrderPartsKept
  <2>3. QED
    BY <2>1, <2>2 DEF SafetyInv, OrdersInv, ShownOnCheckout, PendingIsCharged,
       ChangedIsBuried, DoneIsStored
<1>6. QED
  BY <1>4, <1>5 DEF SafetyInv

\* The checkout page is opened with the total of the cart, over rows that are
\* there.
LEMMA ProceedSafe ==
  ASSUME TypeInv, SafetyInv, OrdersKept, ProceedToCheckout
  PROVE  SafetyInv'
<1>1. /\ Len(stack) = 1 /\ DOMAIN stack = 1..1 /\ Top = stack[1]
      /\ stack[1].kind = "Cart" /\ stack[1].rows # <<>>
      /\ \A i \in DOMAIN orders : orders[i].host # "shown"
  BY CartIsAlone DEF ProceedToCheckout, On
<1>2. UNCHANGED <<globalCart, orders, buried>>
  BY DEF ProceedToCheckout, Push
<1>3. /\ DOMAIN stack' = 1..2 /\ stack'[1] = stack[1]
      /\ stack'[2] = CheckoutPage(CartTotal(globalCart))
  <2>1. CheckoutPage(CartTotal(globalCart)) \in Page
    BY NewPagesAreTyped, TotalsAreAmounts DEF TypeInv, TypeOK
  <2>2. QED
    BY <1>1, <2>1, PushAddsTop DEF ProceedToCheckout, Push, TypeInv, TypeOK
<1>4. stack'[2].kind = "Checkout" /\ stack'[2].totalAmount = CartTotal(globalCart)
  BY <1>3 DEF CheckoutPage
<1>5. PagesInv'
  <2>1. \A k \in DOMAIN stack' : k = 1 \/ k = 2
    BY <1>3
  <2>2. PagesStacked'
    BY <1>1, <1>3, <1>4, <2>1 DEF PagesStacked
  <2>3. RowsHaveCause' /\ RowsMatchCart'
    BY <1>1, <1>2, <1>3, <1>4, <2>1, DoneStays
    DEF SafetyInv, PagesInv, RowsHaveCause, RowsMatchCart
  <2>4. ChargedTotalIsCartTotal' /\ SuccessDialogIsTrue'
    BY <1>1, <1>2, <1>3, <1>4, <2>1 DEF ChargedTotalIsCartTotal, SuccessDialogIsTrue
  <2>5. QED
    BY <2>2, <2>3, <2>4 DEF PagesInv
<1>6. OrdersInv'
  BY <1>1, <1>2, CarriedOrdersMatch
<1>7. QED
  BY <1>5, <1>6 DEF SafetyInv

\* A tap on Confirm Order: what is charged is what is in the cart, or the page
\* was buried before.
LEMMA PlaceOrderSafe ==
  ASSUME TypeInv, SafetyInv, OrdersKept, PlaceOrder
  PROVE  SafetyInv'
<1>1. /\ Len(stack) \in Nat /\ DOMAIN stack = 1..Len(stack) /\ Len(stack) \in DOMAIN stack
      /\ Top = stack[Len(stack)] /\ stack[Len(stack)].kind = "Checkout"
  BY TopIsLast DEF PlaceOrder, On, TypeInv, TypeOK
<1>2. /\ Len(stack) = 2
      /\ 1 \in DOMAIN stack /\ stack[1].kind = "Cart" /\ stack[1].rows # <<>>
  BY <1>1 DEF SafetyInv, PagesInv, PagesStacked
<1>3. UNCHANGED <<globalCart, stack, buried>>
  BY DEF PlaceOrder
<1>4. /\ orders \in Seq(Order)
      /\ DOMAIN orders = 1..Len(orders) /\ Len(orders) \in Nat
  BY LenProperties DEF TypeInv, TypeOK
<1>5. PICK o : /\ orders' = Append(orders, o)
               /\ o.amount = Top.totalAmount
               /\ o.items = Len(globalCart)
               /\ o.future = "pending"
               /\ o.changed = (Len(stack) <= buried)
  BY DEF PlaceOrder
<1>6. /\ DOMAIN orders' = 1..(Len(orders) + 1)
      /\ \A i \in DOMAIN orders : orders'[i] = orders[i]
      /\ orders'[Len(orders) + 1] = o
  BY <1>4, <1>5
<1>7. PagesInv'
  <2>1. PagesStacked' /\ ChargedTotalIsCartTotal'
    BY <1>3 DEF SafetyInv, PagesInv, PagesStacked, ChargedTotalIsCartTotal
  <2>2. RowsHaveCause' /\ RowsMatchCart' /\ SuccessDialogIsTrue'
    BY <1>3, DoneStays DEF SafetyInv, PagesInv, RowsHaveCause, RowsMatchCart, SuccessDialogIsTrue
  <2>3. QED
    BY <2>1, <2>2 DEF PagesInv
<1>8. ASSUME Len(globalCart) = 0
      PROVE  \E j \in 1..Len(orders) : orders[j].future = "done"
  <2>1. globalCart = <<>>
    BY <1>8, CartsAreSequences, EmptySeq DEF TypeInv, TypeOK
  <2>2. QED
    BY <1>2, <1>4, <2>1 DEF SafetyInv, PagesInv, RowsHaveCause, SomeOrderDone
<1>9. EmptyOrderOnlyAfterSuccess'
  <2>1. SUFFICES ASSUME NEW i \in DOMAIN orders', orders'[i].items = 0
                 PROVE  \E j \in 1..(i-1) : orders'[j].future = "done"
    BY DEF EmptyOrderOnlyAfterSuccess
  <2>2. CASE i \in DOMAIN orders
    <3>1. PICK j \in 1..(i-1) : orders[j].future = "done"
      BY <1>6, <2>1, <2>2 DEF SafetyInv, OrdersInv, EmptyOrderOnlyAfterSuccess
    <3>2. j \in DOMAIN orders
      BY <1>4, <2>2
    <3>3. QED
      BY <1>6, <3>1, <3>2
  <2>3. CASE i = Len(orders) + 1
    <3>1. PICK j \in 1..Len(orders) : orders[j].future = "done"
      BY <1>5, <1>6, <1>8, <2>1, <2>3
    <3>2. j \in 1..(i-1) /\ orders'[j] = orders[j]
      BY <1>4, <1>6, <2>3
    <3>3. QED
      BY <3>1, <3>2
  <2>4. QED
    BY <1>4, <1>6, <2>2, <2>3
<1>10. ShownOnCheckout'
  BY <1>1, <1>2, <1>3 DEF ShownOnCheckout
<1>11. PendingIsCharged' /\ ChangedIsBuried' /\ DoneIsStored'
  <2>1. globalCart # <<>> => o.amount = CartTotal(globalCart) \/ o.changed
    BY <1>1, <1>5 DEF SafetyInv, PagesInv, ChargedTotalIsCartTotal
  <2>2. o.changed => 2 <= buried
    BY <1>2, <1>5
  <2>3. \A i \in DOMAIN orders' : i \in DOMAIN orders \/ orders'[i] = o
    BY <1>4, <1>6
  <2>4. QED
    BY <1>3, <1>5, <1>6, <2>1, <2>2, <2>3
    DEF SafetyInv, OrdersInv, PendingIsCharged, ChangedIsBuried, DoneIsStored
<1>12. QED
  BY <1>7, <1>9, <1>10, <1>11 DEF SafetyInv, OrdersInv

\* An order goes through: the cart is empty, whatever a page shows.
LEMMA OrderDoneSafe ==
  ASSUME TypeInv, SafetyInv, OrdersKept, NEW i \in DOMAIN orders, OrderDone(i)
  PROVE  SafetyInv'
<1> DEFINE n == Len(stack)
<1>1. n \in Nat /\ DOMAIN stack = 1..n
  BY TopIsLast DEF TypeInv, TypeOK
<1>2. /\ \A j \in DOMAIN orders : orders[j] \in Order
      /\ DOMAIN orders' = DOMAIN orders
      /\ globalCart' = <<>>
  BY LenProperties DEF OrderDone, TypeInv, TypeOK
<1>3. orders'[i].future = "done" /\ orders'[i].write = "stored"
  BY <1>2 DEF OrderDone, Order
<1>4. \A j \in DOMAIN orders :
        /\ j # i => orders'[j] = orders[j]
        /\ orders'[j].changed = orders[j].changed
        /\ orders'[j].host = orders[j].host
  BY <1>2 DEF OrderDone, Order
<1>5. /\ buried' = buried
      /\ \A k \in DOMAIN stack : k \in DOMAIN stack' /\ stack'[k] = stack[k]
      /\ \A k \in DOMAIN stack' : \/ k \in DOMAIN stack
                                  \/ k = n + 1 /\ stack'[k].kind = "Dialog"
  <2>1. CASE Push(SuccessDialog)
    BY <1>1, <2>1, NewPagesAreTyped, PushAddsTop DEF Push, SuccessDialog, TypeInv, TypeOK
  <2>2. CASE UNCHANGED <<stack, buried>>
    BY <2>2
  <2>3. QED
    BY <2>1, <2>2 DEF OrderDone, ShowDialog
<1> HIDE DEF n
<1>6. PagesInv'
  <2>1. PagesStacked'
    <3>1. \A k \in DOMAIN stack : k = 2 => 1 \in DOMAIN stack
      BY <1>1
    <3>2. \A k, m \in DOMAIN stack' : k < m /\ m \in DOMAIN stack => k \in DOMAIN stack
      BY <1>1, <1>5
    <3>3. \A k, m \in DOMAIN stack' : k < m /\ m \notin DOMAIN stack => stack'[m].kind = "Dialog"
      BY <1>5
    <3>4. QED
      BY <1>5, <3>1, <3>2, <3>3 DEF SafetyInv, PagesInv, PagesStacked
  <2>2. SomeOrderDone'
    BY <1>2, <1>3 DEF SomeOrderDone
  <2>3. QED
    BY <1>2, <1>3, <2>1, <2>2 DEF PagesInv, RowsHaveCause, RowsMatchCart,
       ChargedTotalIsCartTotal, SuccessDialogIsTrue
<1>7. OrdersInv'
  <2>1. EmptyOrderOnlyAfterSuccess'
    BY <1>2, OrderPartsKept
  <2>2. ShownOnCheckout' /\ PendingIsCharged'
    BY <1>2, <1>4, <1>5 DEF SafetyInv, OrdersInv, ShownOnCheckout, PendingIsCharged
  <2>3. ChangedIsBuried' /\ DoneIsStored'
    BY <1>2, <1>3, <1>4, <1>5 DEF SafetyInv, OrdersInv, ChangedIsBuried, DoneIsStored
  <2>4. QED
    BY <2>1, <2>2, <2>3 DEF OrdersInv
<1>8. QED
  BY <1>6, <1>7 DEF SafetyInv

\* The pages and the cart stay, and no call completes.
LEMMA PagesStaySafe ==
  ASSUME TypeInv, SafetyInv, OrdersKept, UNCHANGED <<globalCart, stack, buried>>,
         DOMAIN orders' = DOMAIN orders,
         \A i \in DOMAIN orders :
           /\ orders'[i].changed = orders[i].changed
           /\ orders'[i].future = "done" => orders[i].future = "done"
  PROVE  SafetyInv'
<1>1. PagesStacked'
  BY DEF SafetyInv, PagesInv, PagesStacked
<1>2. PagesCarried
  BY DEF PagesCarried, SamePage
<1>3. OrdersInv'
  <2>1. CheckoutStays
    BY DEF CheckoutStays
  <2>2. QED
    BY <2>1, CarriedOrdersMatch
<1>4. QED
  BY <1>1, <1>2, <1>3, CarriedPagesMatch DEF SafetyInv, PagesInv

\* Everything in memory is gone.
LEMMA RestartSafe ==
  ASSUME TypeInv, SafetyInv, OrdersKept, Restart
  PROVE  SafetyInv'
<1>1. /\ DOMAIN stack' = 1..1 /\ stack'[1].kind = "Browse" /\ globalCart' = <<>>
  BY NewPagesAreTyped, OnePageIsStack DEF Restart, BrowsePage
<1>2. PagesInv'
  BY <1>1 DEF PagesInv, PagesStacked, CartPages, RowsHaveCause, RowsMatchCart,
     ChargedTotalIsCartTotal, SuccessDialogIsTrue
<1>3. /\ DOMAIN orders' = DOMAIN orders
      /\ \A i \in DOMAIN orders :
           /\ orders'[i].host # "shown"
           /\ orders'[i].future # "pending"
           /\ orders'[i].future = "done" => orders[i].future = "done"
  <2>1. \A i \in DOMAIN orders : orders[i] \in Order
    BY LenProperties DEF TypeInv, TypeOK
  <2>2. QED
    BY <2>1 DEF Restart, Order
<1>4. OrdersInv'
  <2>1. EmptyOrderOnlyAfterSuccess'
    BY <1>3, OrderPartsKept
  <2>2. QED
    BY <1>3, <2>1 DEF SafetyInv, OrdersInv, OrdersKept, ShownOnCheckout, PendingIsCharged,
       ChangedIsBuried, DoneIsStored
<1>5. QED
  BY <1>2, <1>4 DEF SafetyInv

\* Every handler and every step of the environment keeps it.
LEMMA NextSafe == TypeInv /\ SafetyInv /\ [Next]_vars => SafetyInv'
<1> SUFFICES ASSUME TypeInv, SafetyInv, [Next]_vars PROVE SafetyInv'
  OBVIOUS
<1>a. OrdersKept /\ TypeInv'
  BY NextKeepsOrders, NextTyped
<1>b. /\ stack \in Seq(Page)
      /\ \A i \in DOMAIN orders : orders[i] \in Order
  BY LenProperties DEF TypeInv, TypeOK
<1>1. ASSUME NEW p \in Products, OpenProduct(p) PROVE SafetyInv'
  BY <1>a, <1>1, OpenProductSafe
<1>2. CASE OpenCart
  BY <1>a, <1>2, OpenCartSafe
<1>3. CASE OpenTab \/ BackToHome \/ SignupDone \/ LogoutDone
  BY <1>a, <1>3, RemoveAllSafe DEF OpenTab, BackToHome, SignupDone, LogoutDone
<1>4. CASE Back \/ SaveDone
  <2>1. Pop /\ stack # <<>> /\ UNCHANGED globalCart
    <3>1. CASE Back
      BY <3>1, EmptySeq DEF Back
    <3>2. CASE SaveDone
      BY <3>2 DEF SaveDone
    <3>3. QED
      BY <1>4, <3>1, <3>2
  <2>2. QED
    BY <1>a, <2>1, PopSafe
<1>5. CASE IncQuantity \/ DecQuantity
  <2>1. /\ On("Desc")
        /\ \/ Top.quantity < MaxQuantity /\ Rebuild([Top EXCEPT !.quantity = @ + 1])
           \/ Top.quantity > 1 /\ Rebuild([Top EXCEPT !.quantity = @ - 1])
        /\ UNCHANGED <<globalCart, orders, buried>>
    BY <1>5 DEF IncQuantity, DecQuantity
  <2>2. /\ stack # <<>>
        /\ Top \in [kind : {"Desc"}, product : Products, quantity : 1..MaxQuantity]
    BY <1>b, <2>1, TopIsLast, PageFields DEF On
  <2>3. \A q \in 1..MaxQuantity : [Top EXCEPT !.quantity = q] \in Page
    BY <2>2 DEF Page
  <2>4. \A q \in 1..MaxQuantity :
          /\ SamePage([Top EXCEPT !.quantity = q], Top)
          /\ [Top EXCEPT !.quantity = q].kind # "Cart"
    BY <2>2 DEF SamePage
  <2>5. CASE Top.quantity < MaxQuantity /\ Rebuild([Top EXCEPT !.quantity = @ + 1])
    <3>1. Top.quantity + 1 \in 1..MaxQuantity
      BY <2>2, <2>5, MaxQuantityAssumption
    <3>2. QED
      BY <1>a, <2>1, <2>2, <2>3, <2>4, <2>5, <3>1, RebuildSafe
  <2>6. CASE Top.quantity > 1 /\ Rebuild([Top EXCEPT !.quantity = @ - 1])
    <3>1. Top.quantity - 1 \in 1..MaxQuantity
      BY <2>2, <2>6, MaxQuantityAssumption
    <3>2. QED
      BY <1>a, <2>1, <2>2, <2>3, <2>4, <2>6, <3>1, RebuildSafe
  <2>7. QED
    BY <2>1, <2>5, <2>6
<1>6. CASE AddToCart
  BY <1>a, <1>6, AddToCartSafe
<1>7. ASSUME NEW i \in DOMAIN globalCart, RemoveItem(i) PROVE SafetyInv'
  BY <1>a, <1>7, RemoveItemSafe
<1>8. CASE ProceedToCheckout
  BY <1>a, <1>8, ProceedSafe
<1>9. ASSUME NEW m \in PaymentMethods, SelectPayment(m) PROVE SafetyInv'
  <2>1. /\ stack # <<>>
        /\ Top \in [kind : {"Checkout"}, totalAmount : Amounts,
                    selectedPaymentMethod : PaymentMethods]
    BY <1>b, <1>9, TopIsLast, PageFields DEF SelectPayment, On
  <2>2. /\ [Top EXCEPT !.selectedPaymentMethod = m] \in Page
        /\ SamePage([Top EXCEPT !.selectedPaymentMethod = m], Top)
        /\ [Top EXCEPT !.selectedPaymentMethod = m].kind # "Cart"
    BY <2>1 DEF Page, SamePage
  <2>3. QED
    BY <1>a, <1>9, <2>1, <2>2, RebuildSafe DEF SelectPayment
<1>10. CASE PlaceOrder
  BY <1>a, <1>10, PlaceOrderSafe
<1>11. ASSUME NEW i \in DOMAIN orders, OrderDone(i) PROVE SafetyInv'
  BY <1>a, <1>11, OrderDoneSafe
<1>12. ASSUME NEW i \in DOMAIN orders,
              OrderFailed(i) \/ Dispose(i) \/ FirestoreStore(i) \/ FirestoreReject(i)
       PROVE  SafetyInv'
  <2>1. /\ DOMAIN orders' = DOMAIN orders
        /\ UNCHANGED <<globalCart, stack, buried>>
    BY <1>12 DEF OrderFailed, Dispose, FirestoreStore, FirestoreReject
  <2>2. \A j \in DOMAIN orders :
          /\ orders'[j].changed = orders[j].changed
          /\ orders'[j].future = "done" => orders[j].future = "done"
    <3>1. CASE OrderFailed(i)
      BY <1>b, <3>1 DEF OrderFailed, Order
    <3>2. CASE Dispose(i)
      BY <1>b, <3>2 DEF Dispose, Order
    <3>3. CASE FirestoreStore(i) \/ FirestoreReject(i)
      BY <1>b, <3>3 DEF FirestoreStore, FirestoreReject, Order
    <3>4. QED
      BY <1>12, <3>1, <3>2, <3>3
  <2>3. QED
    BY <1>a, <2>1, <2>2, PagesStaySafe
<1>13. CASE LoginDone
  BY <1>a, <1>13, LoginSafe
<1>14. ASSUME NEW u \in Users \cup {NoUser}, UserChanges(u) PROVE SafetyInv'
  BY <1>a, <1>14, PagesStaySafe DEF UserChanges
<1>15. CASE Restart
  BY <1>a, <1>15, RestartSafe
<1>16. CASE UNCHANGED vars
  BY <1>a, <1>16, PagesStaySafe DEF vars
<1>17. QED
  BY <1>1, <1>2, <1>3, <1>4, <1>5, <1>6, <1>7, <1>8, <1>9, <1>10, <1>11, <1>12,
     <1>13, <1>14, <1>15, <1>16 DEF Next

\* The two invariants together hold in every reachable state.
LEMMA AlwaysSafe == Spec => [](TypeInv /\ SafetyInv)
<1>1. Init => TypeInv /\ SafetyInv
  BY InitTyped, InitSafe
<1>2. TypeInv /\ SafetyInv /\ [Next]_vars => (TypeInv /\ SafetyInv)'
  BY NextTyped, NextSafe
<1>3. QED
  BY <1>1, <1>2, PTL DEF Spec

(***************************************************************************)
(* The row a user taps on the cart page is the line that goes, or an order *)
(* has emptied the cart, or a late login has buried the page.              *)
(***************************************************************************)
THEOREM RowsAlwaysMatchCart == Spec => []RowsMatchCart
<1>1. TypeInv /\ SafetyInv => RowsMatchCart
  BY DEF SafetyInv, PagesInv
<1>2. QED
  BY <1>1, AlwaysSafe, PTL

(***************************************************************************)
(* The amount a checkout page was opened with stays the total of the cart  *)
(* until an order empties it, unless a late login has buried the page.     *)
(***************************************************************************)
THEOREM ChargedTotalAlwaysIsCartTotal == Spec => []ChargedTotalIsCartTotal
<1>1. TypeInv /\ SafetyInv => ChargedTotalIsCartTotal
  BY DEF SafetyInv, PagesInv
<1>2. QED
  BY <1>1, AlwaysSafe, PTL

(***************************************************************************)
(* An order without items is never sent before some order has gone         *)
(* through.                                                                *)
(***************************************************************************)
THEOREM EmptyOrdersFollowSuccess == Spec => []EmptyOrderOnlyAfterSuccess
<1>1. TypeInv /\ SafetyInv => EmptyOrderOnlyAfterSuccess
  BY DEF SafetyInv, OrdersInv
<1>2. QED
  BY <1>1, AlwaysSafe, PTL

(***************************************************************************)
(* The success dialog is only up for a stored order, and over an empty     *)
(* cart unless a late login has buried it.                                 *)
(***************************************************************************)
THEOREM SuccessDialogIsAlwaysTrue == Spec => []SuccessDialogIsTrue
<1>1. TypeInv /\ SafetyInv => SuccessDialogIsTrue
  BY DEF SafetyInv, PagesInv
<1>2. QED
  BY <1>1, AlwaysSafe, PTL

(***************************************************************************)
(* A call of _placeOrder clears exactly the cart it charged, unless the    *)
(* cart was changed while it waited; with its page still on the stack that *)
(* takes a late login that buried the page.                                *)
(***************************************************************************)
THEOREM OnlyChargedItemsAreCleared == Spec => ClearsWhatWasCharged
<1> DEFINE Clears ==
      \A i \in DOMAIN orders :
        /\ orders[i].future = "pending"
        /\ orders'[i].future = "done"
        /\ globalCart # <<>>
        => \/ /\ orders[i].amount = CartTotal(globalCart)
              /\ orders[i].items = Len(globalCart)
           \/ /\ orders[i].changed
              /\ orders[i].host = "shown" =>
                   \E k \in 1..buried : stack[k].kind = "Checkout"
<1>1. TypeInv /\ SafetyInv /\ [Next]_vars => [Clears]_vars
  <2>1. SUFFICES ASSUME TypeInv, SafetyInv, NEW i \in DOMAIN orders,
                        orders[i].future = "pending", globalCart # <<>>, orders[i].changed,
                        orders[i].host = "shown"
                 PROVE  \E k \in 1..buried : stack[k].kind = "Checkout"
    BY DEF SafetyInv, OrdersInv, PendingIsCharged
  <2>2. 2 <= buried /\ stack[2].kind = "Checkout"
    BY <2>1 DEF SafetyInv, OrdersInv, ChangedIsBuried, ShownOnCheckout
  <2>3. buried \in Nat
    BY <2>1, TopIsLast DEF TypeInv, TypeOK
  <2>4. QED
    BY <2>2, <2>3
<1>2. QED
  BY <1>1, AlwaysSafe, PTL DEF Spec, ClearsWhatWasCharged

-----------------------------------------------------------------------------
(***************************************************************************)
(* Refinement: the list implements a count per product.                    *)
(***************************************************************************)
OpenProductOnTop == IF On("Desc") THEN Top.product ELSE NoProduct
AmountOnTop == IF On("Desc") THEN Top.quantity ELSE 0

\* Every step is a step of the bag or leaves it alone.
LEMMA NextIsBagStep ==
  TypeInv /\ SafetyInv /\ [Next]_vars =>
    [Bag!Next]_<<[p \in Products |-> QuantityOf(globalCart, p)],
                 IF On("Desc") THEN Top.product ELSE NoProduct,
                 IF On("Desc") THEN Top.quantity ELSE 0>>
<1> DEFINE bag == [p \in Products |-> QuantityOf(globalCart, p)]
           Step == \/ bag' = bag
                   \/ /\ OpenProductOnTop \in Products
                      /\ bag[OpenProductOnTop] + AmountOnTop <= MaxQuantity
                      /\ bag' = [bag EXCEPT ![OpenProductOnTop] = @ + AmountOnTop]
                      /\ UNCHANGED <<OpenProductOnTop, AmountOnTop>>
                   \/ bag' = [p \in Products |-> 0]
                   \/ \E p \in Products :
                        /\ bag' = [bag EXCEPT ![p] = 0]
                        /\ UNCHANGED <<OpenProductOnTop, AmountOnTop>>
<1> SUFFICES ASSUME TypeInv, SafetyInv, [Next]_vars PROVE Step
  BY DEF Bag!Next, Bag!Browse, Bag!Put, Bag!TakeOut, Bag!Clear, Bag!Empty,
         OpenProductOnTop, AmountOnTop
<1>a. globalCart \in Seq(CartItem) /\ OneLinePerProduct(globalCart)
  BY CartsAreSequences DEF TypeInv, TypeOK
<1>1. CASE UNCHANGED globalCart
  BY <1>1
<1>2. CASE globalCart' = <<>>
  BY <1>2, EmptyCartIsEmptyBag
<1>3. CASE AddToCart
  <2> DEFINE product == Top.product
             quantity == Top.quantity
  <2>1. /\ product \in Products /\ quantity \in 1..MaxQuantity
        /\ OpenProductOnTop = product /\ AmountOnTop = quantity
    BY <1>3, TopIsLast, PageFields
    DEF AddToCart, On, TypeInv, TypeOK, OpenProductOnTop, AmountOnTop
  <2>2. /\ QuantityOf(globalCart, product) + quantity <= MaxQuantity
        /\ globalCart' = WithItem(globalCart, product, quantity)
    BY <1>3 DEF AddToCart
  <2>3. UNCHANGED <<OpenProductOnTop, AmountOnTop>>
    BY <1>3 DEF AddToCart, OpenProductOnTop, AmountOnTop, On, Top
  <2> HIDE DEF product, quantity
  <2>4. \A q \in Products :
          QuantityOf(globalCart', q) = IF q = product
                                         THEN QuantityOf(globalCart, product) + quantity
                                         ELSE QuantityOf(globalCart, q)
    BY <1>a, <2>1, <2>2, WithItemAdds
  <2>5. /\ bag[product] + quantity <= MaxQuantity
        /\ bag' = [bag EXCEPT ![product] = @ + quantity]
    BY <2>1, <2>2, <2>4
  <2> HIDE DEF bag
  <2>6. QED
    BY <2>1, <2>3, <2>5
<1>4. ASSUME NEW i \in DOMAIN globalCart, RemoveItem(i) PROVE Step
  <2>1. i \in 1..Len(globalCart) /\ globalCart' = RemoveAt(globalCart, i)
    BY <1>a, <1>4, LenProperties DEF RemoveItem
  <2>2. globalCart[i].product \in Products
    <3>1. globalCart[i] \in CartItem
      BY <1>a, <2>1, ElementOfSeq
    <3>2. QED
      BY <3>1 DEF CartItem
  <2>3. \A q \in Products :
          QuantityOf(globalCart', q) = IF q = globalCart[i].product
                                         THEN 0 ELSE QuantityOf(globalCart, q)
    BY <1>a, <2>1, RemoveAtTakesOut
  <2>4. UNCHANGED <<OpenProductOnTop, AmountOnTop>>
    <3>1. /\ Len(stack) = 1 /\ DOMAIN stack = 1..1 /\ Top.kind = "Cart" /\ Top \in Page
          /\ Top = stack[1]
      BY <1>4, CartIsAlone DEF RemoveItem, On
    <3>2. Top \in [kind : {"Cart"}, rows : Carts]
      BY <3>1, PageFields
    <3>3. /\ stack' = [stack EXCEPT ![1] = [Top EXCEPT !.rows = globalCart']]
          /\ Len(stack') = 1
      <4>1. stack' = [stack EXCEPT ![1] = [Top EXCEPT !.rows = globalCart']]
        BY <1>4, <3>1 DEF RemoveItem, Rebuild
      <4>2. stack' \in Seq(Page) /\ DOMAIN stack' = 1..1
        BY <3>1, <4>1, NextTyped DEF TypeInv, TypeOK
      <4>3. QED
        BY <4>1, <4>2, LenProperties
    <3>4. stack'[1].kind = "Cart"
      BY <3>1, <3>2, <3>3
    <3>5. On("Desc")' = FALSE /\ On("Desc") = FALSE
      BY <3>1, <3>3, <3>4 DEF On, Top, Last
    <3>6. QED
      BY <3>5 DEF OpenProductOnTop, AmountOnTop
  <2>5. bag' = [bag EXCEPT ![globalCart[i].product] = 0]
    BY <2>2, <2>3
  <2> HIDE DEF bag
  <2>6. QED
    BY <2>2, <2>4, <2>5
<1>5. QED
  BY <1>1, <1>2, <1>3, <1>4
  DEF Next, vars, OpenProduct, OpenCart, OpenTab, Back, IncQuantity, DecQuantity,
      ProceedToCheckout, SelectPayment, PlaceOrder, OrderDone, OrderFailed, BackToHome,
      LoginDone, SignupDone, LogoutDone, SaveDone, Dispose, UserChanges, FirestoreStore,
      FirestoreReject, Restart

(***************************************************************************)
(* The list with its index arithmetic implements the abstract cart.        *)
(***************************************************************************)
THEOREM CartImplementsBag == Spec => CartBag
<1>1. Init => [p \in Products |-> QuantityOf(globalCart, p)] = Bag!Empty
  BY EmptyCartIsEmptyBag DEF Init, Bag!Empty
<1>2. QED
  BY <1>1, AlwaysSafe, NextIsBagStep, PTL DEF Spec, CartBag, Bag!Spec
=============================================================================
