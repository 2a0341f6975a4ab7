------------------------------- MODULE CartX --------------------------------
(***************************************************************************)
(* The app put together: the sessions and pages of module Session with the *)
(* cart, the checkout and the pages that show somebody's data.             *)
(*                                                                         *)
(* Module Checkout leaves open when the ends of _login, _signup and        *)
(* _logout come.  Here they end calls that were begun on a page, and the   *)
(* stack says for whom each page was built.                                *)
(***************************************************************************)
EXTENDS Session

CONSTANTS
  Visited,    \* the pages that are visited in this instance
  MaxLines,   \* bound on the lines of the cart
  MaxOrders   \* bound on the taps on Confirm Order

ASSUME VisitedAssumption == Visited \subseteq StartPages \cup ShopPages
ASSUME ShopBoundsAssumption == MaxLines \in Nat /\ MaxOrders \in Nat

VARIABLES
  builtFor,     \* for every page of the stack, who was signed in when it was built
  globalCart,   \* who was signed in when the line was put in, line by line
  rows,         \* the lines as the cart page last showed them
  totalAmount,  \* the lines whose prices the open checkout page will charge
  orders        \* every call of _placeOrder since the app was started

shop == <<globalCart, rows, totalAmount, orders>>
session == <<stack, isLoading, currentUser, accounts, profiles, calls>>
allVars == <<session, builtFor, shop>>

(***************************************************************************)
(* The pages that read currentUser when they are built: headers, the order *)
(* history, the wishlist, the heart of a product and the profile form.     *)
(***************************************************************************)
PersonalPages == {"Home", "Profile", "Orders", "Wishlist", "Desc", "Edit"}

Lines == Seq(Users \cup {NoUser})

Order == [buyer  : Users \cup {NoUser},
          lines  : Lines,
          amount : Lines,
          phase  : {"queued", "stored", "refused", "done", "failed"},
          host   : {"shown", "leaving", "disposed"},
          ended  : {"no", "shown", "leaving", "disposed"}]  \* host, when it was done

Count(pg) == Cardinality({k \in DOMAIN stack : stack[k] = pg})

ShopTypeOK ==
  /\ stack \in Seq(StartPages \cup ShopPages \cup {"Dialog"})
  /\ Len(builtFor) = Len(stack)
  /\ \A k \in DOMAIN builtFor : builtFor[k] \in Users \cup {NoUser}
  /\ globalCart \in Lines /\ rows \in Lines /\ totalAmount \in Lines
  /\ orders \in Seq(Order)
  /\ Count("Cart") <= 1 /\ Count("Checkout") <= 1
  /\ "Cart" \notin Range(stack) => rows = <<>>
  /\ "Checkout" \notin Range(stack) => totalAmount = <<>>

ShopInit ==
  /\ Init
  /\ builtFor = <<currentUser>>
  /\ globalCart = <<>>
  /\ rows = <<>>
  /\ totalAmount = <<>>
  /\ orders = <<>>

-----------------------------------------------------------------------------
(***************************************************************************)
(* What a change of the stack does to the rest.                            *)
(***************************************************************************)

\* The page on top is a new one; those below are still there.
NewTop == builtFor' = Append(SubSeq(builtFor, 1, Len(stack') - 1), currentUser)

Shortened == builtFor' = SubSeq(builtFor, 1, Len(stack'))

LeavingCheckout ==
  [i \in DOMAIN orders |->
     IF orders[i].host = "shown" /\ "Checkout" \notin Range(stack')
       THEN [orders[i] EXCEPT !.host = "leaving"] ELSE orders[i]]

PagesGone ==
  /\ rows' = IF "Cart" \in Range(stack') THEN rows ELSE <<>>
  /\ totalAmount' = IF "Checkout" \in Range(stack') THEN totalAmount ELSE <<>>
  /\ orders' = LeavingCheckout
  /\ UNCHANGED globalCart

-----------------------------------------------------------------------------
(***************************************************************************)
(* Pages.  Session's 'Back to Home' of a placed order is BackToHome here.  *)
(***************************************************************************)
StartUp ==
  /\ (\E ok \in BOOLEAN : FirebaseReady(ok)) \/ SplashDone
  /\ NewTop
  /\ UNCHANGED shop

OpenPage(pg) ==
  /\ pg # "Checkout"
  /\ Open(pg)
  /\ NewTop
  /\ UNCHANGED shop

\* The button is there if the rows are; the total is that of the cart now.
ProceedToCheckout ==
  /\ rows # <<>>
  /\ Open("Checkout")
  /\ NewTop
  /\ totalAmount' = globalCart
  /\ UNCHANGED <<globalCart, rows, orders>>

\* Back, also out of the dialog.
GoBack ==
  /\ Back
  /\ Shortened
  /\ PagesGone

\* The cart page is built with the cart as it is.
OpenTab(t) ==
  /\ navPages[t] \in Visited
  /\ Tab(t)
  /\ NewTop
  /\ rows' = IF navPages[t] = "Cart" THEN globalCart ELSE <<>>
  /\ totalAmount' = <<>>
  /\ orders' = LeavingCheckout
  /\ UNCHANGED globalCart

BackToHome ==
  /\ On("Dialog")
  /\ RemoveAllAndPush("Home", calls)
  /\ NewTop
  /\ PagesGone
  /\ UNCHANGED <<currentUser, accounts, profiles>>

\* A handler goes on after its await; if its page is mounted, it opens one.
HandlerOpens(i) ==
  /\ LoginDone(i) \/ SignupDone(i) \/ LogoutDone(i)
  /\ IF Mounted(i) /\ stack' # <<>> THEN NewTop ELSE UNCHANGED builtFor
  /\ PagesGone

HandlerPops(i) ==
  /\ SaveDone(i)
  /\ Shortened
  /\ PagesGone

\* The steps of Session that leave the stack alone.
SessionStep ==
  /\ \/ \E u \in Users : TapLogin(u) \/ TapSignup(u)
     \/ TapLogout
     \/ TapSave
     \/ \E i \in DOMAIN calls :
          \/ LoginFailed(i) \/ SignupFailed(i) \/ LogoutFailed(i) \/ SaveFailed(i)
          \/ SignupWritesProfile(i) \/ ProfileStored(i) \/ ProfileRefused(i)
          \/ AuthOk(i) \/ RequestFails(i) \/ Dispose(i)
  /\ UNCHANGED <<builtFor, shop>>

\* Mutant: the cart is kept on disk.
RestartAppKeepsCart ==
  /\ Restart
  /\ NewTop
  /\ rows' = <<>> /\ totalAmount' = <<>> /\ orders' = <<>>
  /\ UNCHANGED globalCart

RestartApp ==
  /\ Restart
  /\ NewTop
  /\ globalCart' = <<>> /\ rows' = <<>> /\ totalAmount' = <<>> /\ orders' = <<>>

-----------------------------------------------------------------------------
(***************************************************************************)
(* Cart and checkout, as in module Checkout.                               *)
(***************************************************************************)
AddToCart ==
  /\ On("Desc")
  /\ Len(globalCart) < MaxLines
  /\ globalCart' = Append(globalCart, currentUser)
  /\ UNCHANGED <<session, builtFor, rows, totalAmount, orders>>

\* Mutant: the line is removed outside of setState.
RemoveItemNoRebuild(k) ==
  /\ On("Cart")
  /\ k \in DOMAIN rows \cap DOMAIN globalCart
  /\ globalCart' = RemoveAt(globalCart, k)
  /\ UNCHANGED <<session, builtFor, rows, totalAmount, orders>>

RemoveItem(k) ==
  /\ On("Cart")
  /\ k \in DOMAIN rows \cap DOMAIN globalCart
  /\ globalCart' = RemoveAt(globalCart, k)
  /\ rows' = globalCart'
  /\ UNCHANGED <<session, builtFor, totalAmount, orders>>

\* A buyer who is signed out is stored as "unknown", here NoUser.
PlaceOrder ==
  /\ On("Checkout")
  /\ Len(orders) < MaxOrders
  /\ orders' = Append(orders, [buyer |-> currentUser, lines |-> globalCart,
                               amount |-> totalAmount, phase |-> "queued",
                               host |-> "shown", ended |-> "no"])
  /\ UNCHANGED <<session, builtFor, globalCart, rows, totalAmount>>

\* Firestore answers for the orders of the signed-in user.
OrderAnswered(i, answer) ==
  /\ orders[i].phase = "queued" /\ orders[i].buyer = currentUser
  /\ orders' = [orders EXCEPT ![i].phase = answer]
  /\ UNCHANGED <<session, builtFor, globalCart, rows, totalAmount>>

\* The cart is emptied; the dialog comes up over whatever page is on top.
OrderDone(i) ==
  /\ orders[i].phase = "stored"
  /\ orders' = [orders EXCEPT ![i].phase = "done", ![i].ended = orders[i].host]
  /\ globalCart' = <<>>
  /\ IF orders[i].host # "disposed"
       THEN /\ stack' = Append(stack, "Dialog")
            /\ NewTop
       ELSE UNCHANGED <<stack, builtFor>>
  /\ UNCHANGED <<isLoading, currentUser, accounts, profiles, calls, rows, totalAmount>>

OrderFailed(i) ==
  /\ orders[i].phase = "refused"
  /\ orders' = [orders EXCEPT ![i].phase = "failed"]
  /\ UNCHANGED <<session, builtFor, globalCart, rows, totalAmount>>

DisposeCheckout(i) ==
  /\ orders[i].host = "leaving"
  /\ orders' = [orders EXCEPT ![i].host = "disposed"]
  /\ UNCHANGED <<session, builtFor, globalCart, rows, totalAmount>>

ShopNext ==
  \/ StartUp
  \/ \E pg \in Visited : OpenPage(pg)
  \/ ProceedToCheckout
  \/ GoBack
  \/ \E t \in DOMAIN navPages : OpenTab(t)
  \/ BackToHome
  \/ \E i \in DOMAIN calls : HandlerOpens(i)
  \/ \E i \in DOMAIN calls : HandlerPops(i)
  \/ SessionStep
  \/ RestartApp
  \/ AddToCart
  \/ \E k \in 1..MaxLines : RemoveItem(k)
  \/ PlaceOrder
  \/ \E i \in DOMAIN orders, answer \in {"stored", "refused"} : OrderAnswered(i, answer)
  \/ \E i \in DOMAIN orders : OrderDone(i)
  \/ \E i \in DOMAIN orders : OrderFailed(i)
  \/ \E i \in DOMAIN orders : DisposeCheckout(i)

ShopSpec == ShopInit /\ [][ShopNext]_allVars

-----------------------------------------------------------------------------
(***************************************************************************)
(* The user changes without the pages following: by a logout, from signOut *)
(* until _logout goes on, and for ever if its page has gone by then; and   *)
(* by a login or signup whose page was left.                               *)
(***************************************************************************)
LogoutUnfollowed(hosts) ==
  \E i \in DOMAIN calls :
    calls[i].kind = "logout" /\ (calls[i].phase = "ok" \/ calls[i].ended \in hosts)

SilentLogout == LogoutUnfollowed({"disposed"})

SilentSignIn ==
  \E i \in DOMAIN calls :
    /\ calls[i].kind \in {"login", "signup"}
    /\ \/ calls[i].phase \in {"ok", "sentDoc", "docOk", "docError"} /\ calls[i].host # "shown"
       \/ calls[i].ended \in {"leaving", "disposed"}

\* The dialog of a placed order came up during the transition away from the
\* checkout page, over any page; its 'Back to Home' leads into the shop.
LateDialog == \E j \in DOMAIN orders : orders[j].ended = "leaving"

(***************************************************************************)
(* A page that shows somebody's profile, orders or wishlist, or the heart  *)
(* that somebody gave a product, shows it to that person, unless the user  *)
(* changed silently, or a late dialog led from the login or signup page,   *)
(* where a sign-in was still going on, into the shop.                      *)
(***************************************************************************)
PagesShowTheirUser ==
  \A k \in DOMAIN stack :
    stack[k] \in PersonalPages /\ builtFor[k] # currentUser
      => SilentLogout \/ SilentSignIn \/ LateDialog

(***************************************************************************)
(* An order is stored under "unknown", where no order history finds it,    *)
(* only while or after the pages did not follow the user, or when a late   *)
(* dialog led from the login page into the shop: never when the logout was *)
(* awaited on the profile page and every dialog on the checkout page.      *)
(***************************************************************************)
UnknownBuyerHasCause ==
  \A i \in DOMAIN orders :
    orders[i].buyer = NoUser
      => LogoutUnfollowed({"leaving", "disposed"}) \/ SilentSignIn \/ LateDialog

(***************************************************************************)
(* What one person put in the cart is ordered by another only if, since    *)
(* the app was started, a logout went before, which leaves globalCart as   *)
(* it is, or a silent sign-in, or two people have signed in one after the  *)
(* other: a login that comes back while the signup page is open leaves the *)
(* login page under the shop, and Back leads there.  (A signup that fails  *)
(* to write the profile has signed in, too.)                               *)
(***************************************************************************)
SignedInAgain ==
  \E i, j \in DOMAIN calls :
    /\ calls[i].kind = "login" /\ calls[i].phase = "done"
    /\ calls[j].kind \in {"login", "signup"} /\ calls[j].phase \in {"done", "failed"}
    /\ calls[i].user # calls[j].user

ForeignLineHasCause ==
  \A i \in DOMAIN orders :
    Range(orders[i].lines) \cup Range(orders[i].amount) \subseteq {orders[i].buyer}
      \/ SilentSignIn \/ SignedInAgain
      \/ \E j \in DOMAIN calls : calls[j].kind = "logout" /\ calls[j].phase \in {"ok", "done"}

(***************************************************************************)
(* The cart page shows, and the checkout page charges, the cart there is,  *)
(* unless an order has emptied it or a late login put the home page over   *)
(* them, from where the cart can be filled.                                *)
(***************************************************************************)
StaleCartHasCause ==
  \/ /\ "Cart" \in Range(stack) => rows = globalCart
     /\ "Checkout" \in Range(stack) => totalAmount = globalCart
  \/ \E i \in DOMAIN orders : orders[i].phase = "done"
  \/ \E i \in DOMAIN calls : calls[i].kind = "login" /\ calls[i].ended = "leaving"
=============================================================================
