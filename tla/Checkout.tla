------------------------------ MODULE Checkout ------------------------------
(***************************************************************************)
(* The cart, the pages that show and change it, and the placing of an      *)
(* order: lib/Waseq/cart_page.dart, lib/Waseq/checkout_page.dart and the   *)
(* cart half of lib/Hasnine/product_description.dart, with Firestore and   *)
(* the session as the environment.                                         *)
(*                                                                         *)
(* Handlers run on one Dart isolate, so whatever lies between two awaits   *)
(* is one action.  _placeOrder awaits once: its first half is PlaceOrder,  *)
(* its second half OrderDone or OrderFailed, and any tap, answer, session  *)
(* change or crash may come between.                                       *)
(***************************************************************************)
EXTENDS Cart

CONSTANTS
  Users,            \* uids of Firebase accounts
  NoUser,           \* FirebaseAuth.instance.currentUser = null
  Unknown,          \* the buyerId "unknown" of an order placed signed out
  PaymentMethods,   \* the values of the radio buttons of the checkout page
  DefaultMethod,    \* 'Cash on Delivery'
  NoProduct,        \* no description page is on top
  MaxOrders,        \* bound on the taps on Confirm Order
  MaxPages          \* bound on the stack of pages when a product is opened

ASSUME UsersAssumption == NoUser \notin Users /\ Unknown \notin Users
ASSUME MethodAssumption == DefaultMethod \in PaymentMethods
ASSUME BoundsAssumption == MaxOrders \in Nat /\ MaxPages \in Nat
ASSUME NoProductAssumption == NoProduct \notin Products

VARIABLES
  globalCart,   \* the cart, a global list
  currentUser,  \* FirebaseAuth.instance.currentUser?.uid
  orders,       \* every call of _placeOrder, in the order of the taps
  stack,        \* the navigator's pages, the one on top last
  buried        \* auxiliary: a late login has put the home page over the
                \*   lowest so many pages

vars == <<globalCart, currentUser, orders, stack, buried>>

(***************************************************************************)
(* The pages, each with what its State and its widget hold.  Browse stands *)
(* for any pages that neither show nor change the cart: home, search,      *)
(* categories, profile, login and so on.                                   *)
(***************************************************************************)
Amounts == {CartTotal(c) : c \in Carts}

Page == [kind : {"Browse", "Dialog"}]
        \cup [kind : {"Desc"}, product : Products, quantity : 1..MaxQuantity]
        \cup [kind : {"Cart"}, rows : Carts]     \* as its last build showed them
        \cup [kind : {"Checkout"}, totalAmount : Amounts,
              selectedPaymentMethod : PaymentMethods]

BrowsePage == [kind |-> "Browse"]
SuccessDialog == [kind |-> "Dialog"]

(***************************************************************************)
(* One call of _placeOrder.  items is the number of lines its summary      *)
(* tells ("n Items Ordered", 0 for "Order Details"); write is what became  *)
(* of the document handed to Firestore; future is the awaiting handler     *)
(* (lost: its process died); host is the page the handler runs in: shown   *)
(* as long as it is on the stack, leaving during the transition that       *)
(* removes it, disposed once that has ended.  Only then mounted is false.  *)
(* changed is auxiliary: since the tap the cart was added to or taken      *)
(* from, or the page had been buried before the tap.                       *)
(***************************************************************************)
Order == [buyer   : Users \cup {Unknown},
          amount  : Amounts,
          items   : 0..Cardinality(Products),
          write   : {"queued", "stored", "rejected"},
          future  : {"pending", "done", "failed", "lost"},
          host    : {"shown", "leaving", "disposed"},
          changed : BOOLEAN]

TypeOK ==
  /\ globalCart \in Carts
  /\ currentUser \in Users \cup {NoUser}
  /\ orders \in Seq(Order)
  /\ Len(orders) <= MaxOrders
  /\ stack \in Seq(Page)
  /\ buried \in 0..Len(stack)

Init ==
  /\ globalCart = <<>>
  /\ currentUser = NoUser
  /\ orders = <<>>
  /\ stack = <<BrowsePage>>
  /\ buried = 0

-----------------------------------------------------------------------------
(***************************************************************************)
(* The navigator.  A page that is left keeps its State until the           *)
(* transition has ended, so a call of _placeOrder goes on in it.           *)
(***************************************************************************)
Top == Last(stack)
On(kind) == stack # <<>> /\ Top.kind = kind

Leaving(os) ==
  [i \in DOMAIN os |->
     [os[i] EXCEPT !.host = IF @ = "shown" THEN "leaving" ELSE @]]

OrdersWithoutTop == IF Top.kind = "Checkout" THEN Leaving(orders) ELSE orders

Push(pg) == stack' = Append(stack, pg) /\ UNCHANGED buried

\* The State of the page on top changes.
Rebuild(pg) == stack' = [stack EXCEPT ![Len(stack)] = pg]

Pop ==
  /\ stack' = Front(stack)
  /\ buried' = IF buried = Len(stack) THEN buried - 1 ELSE buried
  /\ orders' = OrdersWithoutTop

\* pushAndRemoveUntil(pg, false): pg is the only page left.
RemoveAllAndPush(pg) ==
  /\ stack' = <<pg>>
  /\ buried' = 0
  /\ orders' = Leaving(orders)

\* A tap on a product, on whichever page lists it, opens its description.
OpenProduct(p) ==
  /\ On("Browse")
  /\ Len(stack) < MaxPages
  /\ Push([kind |-> "Desc", product |-> p, quantity |-> 1])
  /\ UNCHANGED <<globalCart, currentUser, orders>>

\* The cart tab of the navigation bar, which the cart page itself ignores.
OpenCart ==
  /\ On("Browse") \/ On("Desc")
  /\ RemoveAllAndPush([kind |-> "Cart", rows |-> globalCart])
  /\ UNCHANGED <<globalCart, currentUser>>

\* Any other tab.
OpenTab ==
  /\ On("Browse") \/ On("Desc") \/ On("Cart")
  /\ RemoveAllAndPush(BrowsePage)
  /\ UNCHANGED <<globalCart, currentUser>>

\* Back, on any page; it closes a dialog, too (only its barrier is locked).
\* The page it uncovers is not rebuilt.
Back ==
  /\ Len(stack) > 1
  /\ Pop
  /\ UNCHANGED <<globalCart, currentUser>>

-----------------------------------------------------------------------------
(***************************************************************************)
(* ProductDescriptionPage: the quantity buttons and Add to Cart.           *)
(***************************************************************************)
IncQuantity ==
  /\ On("Desc")
  /\ Top.quantity < MaxQuantity
  /\ Rebuild([Top EXCEPT !.quantity = @ + 1])
  /\ UNCHANGED <<globalCart, currentUser, orders, buried>>

\* Mutant: the minus button stays enabled at quantity 1.
DecQuantityUnguarded ==
  /\ On("Desc")
  /\ Rebuild([Top EXCEPT !.quantity = @ - 1])
  /\ UNCHANGED <<globalCart, currentUser, orders, buried>>

\* The minus button is disabled (onPressed is null) at quantity 1.
DecQuantity ==
  /\ On("Desc")
  /\ Top.quantity > 1
  /\ Rebuild([Top EXCEPT !.quantity = @ - 1])
  /\ UNCHANGED <<globalCart, currentUser, orders, buried>>

\* The calls that wait see another cart than they charged.
CartChanged ==
  orders' = [i \in DOMAIN orders |->
               IF orders[i].future = "pending"
                 THEN [orders[i] EXCEPT !.changed = TRUE] ELSE orders[i]]

AddToCart ==
  /\ On("Desc")
  /\ QuantityOf(globalCart, Top.product) + Top.quantity <= MaxQuantity
  /\ globalCart' = WithItem(globalCart, Top.product, Top.quantity)
  /\ CartChanged
  /\ UNCHANGED <<currentUser, stack, buried>>

-----------------------------------------------------------------------------
\* Mutant: removeAt outside setState, the page is not rebuilt.
RemoveItemNoRebuild(i) ==
  /\ On("Cart")
  /\ i \in DOMAIN Top.rows \cap DOMAIN globalCart
  /\ globalCart' = RemoveAt(globalCart, i)
  /\ CartChanged
  /\ UNCHANGED <<currentUser, stack, buried>>

(***************************************************************************)
(* CartPage.  Its rows are those of its last build, and only _removeItem   *)
(* rebuilds it: the clear() of _placeOrder does not.  A tap on the delete  *)
(* button of a row the cart no longer has makes removeAt throw before      *)
(* setState marks the page for a rebuild, so it changes nothing.           *)
(***************************************************************************)
RemoveItem(i) ==
  /\ On("Cart")
  /\ i \in DOMAIN Top.rows \cap DOMAIN globalCart
  /\ globalCart' = RemoveAt(globalCart, i)
  /\ Rebuild([Top EXCEPT !.rows = globalCart'])
  /\ buried' = 0
  /\ CartChanged
  /\ UNCHANGED currentUser

CheckoutPage(amount) == [kind |-> "Checkout", totalAmount |-> amount,
                         selectedPaymentMethod |-> DefaultMethod]

\* Mutant: the total forgets the quantities.
ProceedWithUnitPrices ==
  /\ On("Cart")
  /\ Top.rows # <<>>
  /\ Push(CheckoutPage(FoldLeft(LAMBDA t, item : t + item.product.price, 0, globalCart)))
  /\ UNCHANGED <<globalCart, currentUser, orders>>

\* Mutant: the button is there for an empty cart too.
ProceedUnguarded ==
  /\ On("Cart")
  /\ Push(CheckoutPage(CartTotal(globalCart)))
  /\ UNCHANGED <<globalCart, currentUser, orders>>

\* The button is part of the page as last built; the total is taken now.
ProceedToCheckout ==
  /\ On("Cart")
  /\ Top.rows # <<>>
  /\ Push(CheckoutPage(CartTotal(globalCart)))
  /\ UNCHANGED <<globalCart, currentUser, orders>>

-----------------------------------------------------------------------------
(***************************************************************************)
(* CheckoutPage.                                                           *)
(***************************************************************************)
SelectPayment(m) ==
  /\ On("Checkout")
  /\ Rebuild([Top EXCEPT !.selectedPaymentMethod = m])
  /\ UNCHANGED <<globalCart, currentUser, orders, buried>>

\* currentUser?.uid ?? "unknown"
BuyerId == IF currentUser = NoUser THEN Unknown ELSE currentUser

(***************************************************************************)
(* _placeOrder up to its await.  The button stays enabled while an earlier *)
(* call is in flight.  The order is built from the total the page was      *)
(* opened with and from the cart as it is now.                             *)
(***************************************************************************)
PlaceOrder ==
  /\ On("Checkout")
  /\ Len(orders) < MaxOrders
  /\ orders' = Append(orders, [buyer   |-> BuyerId,
                               amount  |-> Top.totalAmount,
                               items   |-> Len(globalCart),
                               write   |-> "queued",
                               future  |-> "pending",
                               host    |-> "shown",
                               changed |-> Len(stack) <= buried])
  /\ UNCHANGED <<globalCart, currentUser, stack, buried>>

\* The dialog comes up over whatever page is on top.
ShowDialog(i) ==
  IF orders[i].host # "disposed" THEN Push(SuccessDialog)
                                 ELSE UNCHANGED <<stack, buried>>

\* Mutant: the success is announced without awaiting the write.
OrderDoneUnawaited(i) ==
  /\ orders[i].future = "pending"
  /\ orders' = [orders EXCEPT ![i].future = "done"]
  /\ globalCart' = <<>>
  /\ ShowDialog(i)
  /\ UNCHANGED currentUser

\* Mutant: clear() moved into the mounted check.
OrderDoneClearsIfMounted(i) ==
  /\ orders[i].future = "pending"
  /\ orders[i].write = "stored"
  /\ orders' = [orders EXCEPT ![i].future = "done"]
  /\ globalCart' = IF orders[i].host # "disposed" THEN <<>> ELSE globalCart
  /\ ShowDialog(i)
  /\ UNCHANGED currentUser

\* _placeOrder after its await: empty the cart, announce the success.
OrderDone(i) ==
  /\ orders[i].future = "pending"
  /\ orders[i].write = "stored"
  /\ orders' = [orders EXCEPT ![i].future = "done"]
  /\ globalCart' = <<>>
  /\ ShowDialog(i)
  /\ UNCHANGED currentUser

\* The await throws: nothing catches it, the rest of _placeOrder never runs.
OrderFailed(i) ==
  /\ orders[i].future = "pending"
  /\ orders[i].write = "rejected"
  /\ orders' = [orders EXCEPT ![i].future = "failed"]
  /\ UNCHANGED <<globalCart, currentUser, stack, buried>>

\* Mutant: the home page is pushed on top of the pages.
BackToHomePushes ==
  /\ On("Dialog")
  /\ Push(BrowsePage)
  /\ UNCHANGED <<globalCart, currentUser, orders>>

\* 'Back to Home' of the success dialog removes every page.
BackToHome ==
  /\ On("Dialog")
  /\ RemoveAllAndPush(BrowsePage)
  /\ UNCHANGED <<globalCart, currentUser>>

-----------------------------------------------------------------------------
(***************************************************************************)
(* The handlers of the other pages that change the stack after an await.   *)
(* Their page is a Browse page, but by the time they go on it may be on    *)
(* its way out under any other page, where it still is mounted.  When they *)
(* run is left open here (module CartX has the calls they belong to): at   *)
(* any time, any number of times.                                          *)
(***************************************************************************)

\* _login: pushReplacement takes away the page on top, whichever it is, and
\* leaves those below under the home page.
LoginDone ==
  /\ stack # <<>>
  /\ stack' = Append(Front(stack), BrowsePage)
  /\ buried' = Len(stack) - 1
  /\ orders' = OrdersWithoutTop
  /\ UNCHANGED <<globalCart, currentUser>>

\* _signup opens the home page, _logout the login page.
SignupDone == RemoveAllAndPush(BrowsePage) /\ UNCHANGED <<globalCart, currentUser>>
LogoutDone == RemoveAllAndPush(BrowsePage) /\ UNCHANGED <<globalCart, currentUser>>

\* _updateData: pop takes away the page on top, even if it is the only one.
SaveDone ==
  /\ stack # <<>>
  /\ Pop
  /\ UNCHANGED <<globalCart, currentUser>>

-----------------------------------------------------------------------------
(***************************************************************************)
(* The environment.  A transition ends.  Firebase signs a user in or out.  *)
(* Firestore keeps a write in its queue on disk, across restarts of the    *)
(* app, until the server has answered it; it sends the queue of the user   *)
(* who is signed in, front first.                                          *)
(***************************************************************************)
Dispose(i) ==
  /\ orders[i].host = "leaving"
  /\ orders' = [orders EXCEPT ![i].host = "disposed"]
  /\ UNCHANGED <<globalCart, currentUser, stack, buried>>

UserChanges(u) ==
  /\ currentUser' = u
  /\ UNCHANGED <<globalCart, orders, stack, buried>>

AtFront(i) ==
  /\ orders[i].write = "queued"
  /\ orders[i].buyer = BuyerId
  /\ \A j \in 1..(i-1) :
       orders[j].write = "queued" => orders[j].buyer # orders[i].buyer

FirestoreStore(i) ==
  /\ AtFront(i)
  /\ orders' = [orders EXCEPT ![i].write = "stored"]
  /\ UNCHANGED <<globalCart, currentUser, stack, buried>>

FirestoreReject(i) ==
  /\ AtFront(i)
  /\ orders' = [orders EXCEPT ![i].write = "rejected"]
  /\ UNCHANGED <<globalCart, currentUser, stack, buried>>

\* The process dies and the app is started again: everything in memory is
\* gone, the session and the queued writes are on disk.
Restart ==
  /\ globalCart' = <<>>
  /\ stack' = <<BrowsePage>>
  /\ buried' = 0
  /\ orders' = [i \in DOMAIN orders |->
                  [orders[i] EXCEPT
                     !.host = "disposed",
                     !.future = IF @ = "pending" THEN "lost" ELSE @]]
  /\ UNCHANGED currentUser

Next ==
  \/ \E p \in Products : OpenProduct(p)
  \/ OpenCart
  \/ OpenTab
  \/ Back
  \/ IncQuantity
  \/ DecQuantity
  \/ AddToCart
  \/ \E i \in DOMAIN globalCart : RemoveItem(i)
  \/ ProceedToCheckout
  \/ \E m \in PaymentMethods : SelectPayment(m)
  \/ PlaceOrder
  \/ \E i \in DOMAIN orders : OrderDone(i)
  \/ \E i \in DOMAIN orders : OrderFailed(i)
  \/ BackToHome
  \/ LoginDone
  \/ SignupDone
  \/ LogoutDone
  \/ SaveDone
  \/ \E i \in DOMAIN orders : Dispose(i)
  \/ \E u \in Users \cup {NoUser} : UserChanges(u)
  \/ \E i \in DOMAIN orders : FirestoreStore(i)
  \/ \E i \in DOMAIN orders : FirestoreReject(i)
  \/ Restart

Spec == Init /\ [][Next]_vars

(***************************************************************************)
(* The event loop runs a completed future's continuation, and Firestore    *)
(* sooner or later gets an answer for the front of the signed-in user's    *)
(* queue (the device does not stay offline for ever).  Nothing is assumed  *)
(* of the user: whoever placed an order may sign out and never come back.  *)
(***************************************************************************)
FairSpec ==
  /\ Spec
  /\ \A i \in 1..MaxOrders :
       /\ WF_vars(i \in DOMAIN orders /\ OrderDone(i))
       /\ WF_vars(i \in DOMAIN orders /\ OrderFailed(i))
       /\ WF_vars(i \in DOMAIN orders /\ (FirestoreStore(i) \/ FirestoreReject(i)))

-----------------------------------------------------------------------------
(***************************************************************************)
(* Properties.                                                             *)
(***************************************************************************)
SomeOrderDone == \E i \in DOMAIN orders : orders[i].future = "done"

(***************************************************************************)
(* The row a user taps is the line that goes: as long as the cart page is  *)
(* on the stack, the cart is the one its last build showed, or a completed *)
(* order has emptied it (then the delete button throws and does nothing),  *)
(* or a late login has buried the page under a home page, from where the   *)
(* cart can be filled.  _removeItem removes by the index of the build, the *)
(* cart is global and _placeOrder clears it without a rebuild.             *)
(***************************************************************************)
RowsMatchCart ==
  \A k \in DOMAIN stack :
    stack[k].kind = "Cart" =>
      \/ globalCart = stack[k].rows
      \/ globalCart = <<>> /\ SomeOrderDone
      \/ k <= buried

(***************************************************************************)
(* The amount the checkout page shows and charges, computed once when it   *)
(* is opened, is the total of the cart for as long as there is a cart,     *)
(* unless a late login has buried the page.                                *)
(***************************************************************************)
ChargedTotalIsCartTotal ==
  \A k \in DOMAIN stack :
    stack[k].kind = "Checkout" /\ globalCart # <<>> =>
      stack[k].totalAmount = CartTotal(globalCart) \/ k <= buried

(***************************************************************************)
(* globalCart.clear() in _placeOrder throws away exactly what the order    *)
(* was charged for, or else the cart was changed while the call was        *)
(* waiting.  That takes a user who has left the checkout page; as long as  *)
(* the page is on the stack, it takes a late login that buried it.         *)
(***************************************************************************)
ClearsWhatWasCharged ==
  [][\A i \in DOMAIN orders :
       /\ orders[i].future = "pending"
       /\ orders'[i].future = "done"
       /\ globalCart # <<>>
       => \/ /\ orders[i].amount = CartTotal(globalCart)
             /\ orders[i].items = Len(globalCart)
          \/ /\ orders[i].changed
             /\ orders[i].host = "shown" =>
                  \E k \in 1..buried : stack[k].kind = "Checkout"]_vars

(***************************************************************************)
(* Firestore gets an order without items only from a further tap on        *)
(* Confirm Order, or a checkout from stale rows, after some earlier order  *)
(* has gone through: never as a user's first order.                        *)
(***************************************************************************)
EmptyOrderOnlyAfterSuccess ==
  \A i \in DOMAIN orders :
    orders[i].items = 0 => \E j \in 1..(i-1) : orders[j].future = "done"

(***************************************************************************)
(* "Order Placed Successfully!" is never shown for an order the server did *)
(* not take, and the cart behind the dialog is empty, also when the dialog *)
(* is a second one or came up over a later page; only a dialog that a late *)
(* login has buried may come back over a cart filled since.                *)
(***************************************************************************)
SuccessDialogIsTrue ==
  \A k \in DOMAIN stack :
    stack[k].kind = "Dialog" =>
      /\ globalCart = <<>> \/ k <= buried
      /\ \E i \in DOMAIN orders :
           orders[i].future = "done" /\ orders[i].write = "stored"

(***************************************************************************)
(* The list and its handlers implement a count per product: indexWhere     *)
(* finds the one line of a product, removeAt of a row takes that product   *)
(* out, and no handler touches any other product.                          *)
(***************************************************************************)
Bag == INSTANCE AbstractCart
         WITH count  <- [p \in Products |-> QuantityOf(globalCart, p)],
              open   <- IF On("Desc") THEN Top.product ELSE NoProduct,
              amount <- IF On("Desc") THEN Top.quantity ELSE 0

CartBag == Bag!Spec

(***************************************************************************)
(* A confirmed order empties the cart, unless the server refuses it, the   *)
(* process dies first, or somebody other than its buyer is signed in again *)
(* and again, so that Firestore never gets to send it.                     *)
(***************************************************************************)
ConfirmedOrderEmptiesCart ==
  \A i \in 1..MaxOrders :
    LET Call(fs) == i \in DOMAIN orders /\ orders[i].future \in fs
    IN  \/ []<>(i \in DOMAIN orders /\ orders[i].buyer # BuyerId)
        \/ Call({"pending"}) ~> (globalCart = <<>> \/ Call({"failed", "lost"}))
=============================================================================
