---------------------------- MODULE CartXProofs -----------------------------
(***************************************************************************)
(* Type correctness and the safety properties of module CartX, proved for  *)
(* any users and any number of calls, lines and orders.  What is known of  *)
(* sessions and pages is in module SessionProofs.                          *)
(***************************************************************************)
EXTENDS CartX, SessionProofs

-----------------------------------------------------------------------------
(***************************************************************************)
(* The inductive invariant.                                                *)
(***************************************************************************)
Owners == Users \cup {NoUser}

BuiltTyped == builtFor \in Seq(Owners) /\ Len(builtFor) = Len(stack)

ShopTyped ==
  /\ globalCart \in Seq(Owners) /\ rows \in Seq(Owners) /\ totalAmount \in Seq(Owners)
  /\ orders \in Seq(Order)
  /\ "Cart" \notin Range(stack) => rows = <<>>
  /\ "Checkout" \notin Range(stack) => totalAmount = <<>>

AnOrderDone == \E i \in DOMAIN orders : orders[i].phase = "done"
LateLogin == \E i \in DOMAIN calls : calls[i].kind = "login" /\ calls[i].ended = "leaving"

(***************************************************************************)
(* Where pages lie: cart and profile at the bottom, the checkout page over *)
(* the cart, the signup page over the login page.  Above the signup page   *)
(* only a late dialog can have put something, and another dialog has the   *)
(* cart page below.                                                        *)
(***************************************************************************)
ShopShape ==
  \A k \in DOMAIN stack :
    /\ stack[k] \in {"Cart", "Profile"} => k = 1
    /\ stack[k] = "Checkout" => k = 2 /\ stack[1] = "Cart"
    /\ stack[k] = "Signup" => k = 2 /\ stack[1] = "Login" /\ (LateDialog \/ Len(stack) = 2)
    /\ stack[k] = "Dialog" => AnOrderDone /\ (LateDialog \/ (k > 1 /\ stack[1] = "Cart"))

SignInDone ==
  \E i \in DOMAIN calls : calls[i].kind \in {"login", "signup"} /\ calls[i].phase = "done"

OrderInv ==
  /\ \A i \in DOMAIN orders :
       /\ orders[i].host = "shown" => "Checkout" \in Range(stack)
       /\ orders[i].ended # "no" => orders[i].phase = "done"
  /\ orders # <<>> => SignInDone

\* Over a cart page that is up to date lies a checkout page or nothing.
CartTrue ==
  \/ AnOrderDone \/ LateLogin
  \/ /\ "Cart" \in Range(stack) =>
          rows = globalCart /\ \A k \in DOMAIN stack : k > 1 => stack[k] = "Checkout"
     /\ "Checkout" \in Range(stack) => totalAmount = globalCart

\* While a login is under way on its page, nobody else opens the shop over it.
SpinningAlone == Spinning # {} /\ OnStack(ShopPages) => LateLogin

\* A logout that has gone through with its page left, or will end so.
LogoutLeft ==
  \E i \in DOMAIN calls :
    /\ calls[i].kind = "logout"
    /\ \/ calls[i].phase = "ok" /\ calls[i].host # "shown"
       \/ calls[i].ended \in {"leaving", "disposed"}

BuyerInv ==
  \A i \in DOMAIN orders :
    orders[i].buyer = NoUser => LogoutLeft \/ SilentSignIn \/ LateDialog

SignedOutUnlessLate == LateDialog \/ SignedOutInv

StartInv ==
  stack # <<>> /\ stack[1] \in Screens =>
    /\ globalCart = <<>> /\ orders = <<>>
    /\ \A i \in DOMAIN calls : calls[i].phase \in {"failed", "lost", "past"}

(***************************************************************************)
(* Whose lines there are.  While the login page is on the stack, nothing   *)
(* was ordered yet, and who has put something in the cart has logged in.   *)
(* After that, all lines are those of who is signed in.                    *)
(***************************************************************************)
Between == {"ok", "sentDoc", "docOk", "docError"}

LogoutThrough ==
  \E i \in DOMAIN calls : calls[i].kind = "logout" /\ calls[i].phase \in {"ok", "done"}

ForeignCause == SilentSignIn \/ SignedInAgain \/ LogoutThrough

OwnOrders ==
  \A i \in DOMAIN orders :
    Range(orders[i].lines) \cup Range(orders[i].amount) \subseteq {orders[i].buyer}

OwnLines ==
  "Login" \notin Range(stack) =>
    Range(globalCart) \cup Range(rows) \cup Range(totalAmount) \subseteq {currentUser}

LoggedIn(o) ==
  \E i \in DOMAIN calls :
    calls[i].kind = "login" /\ calls[i].phase = "done" /\ calls[i].user = o

LinesUnderLogin ==
  "Login" \in Range(stack) =>
    /\ orders = <<>>
    /\ \A o \in Range(globalCart) : LoggedIn(o)
    /\ \A i \in DOMAIN calls : ~ (calls[i].kind = "signup" /\ calls[i].phase = "done")

UserSignedIn ==
  (\E i \in DOMAIN calls :
     calls[i].kind \in {"login", "signup"} /\ calls[i].phase \in Between \cup {"done"})
  => \E i \in DOMAIN calls :
       /\ calls[i].kind \in {"login", "signup"}
       /\ calls[i].phase \in Between \cup {"done", "failed"}
       /\ calls[i].user = currentUser

ForeignInv ==
  ForeignCause \/ (OwnOrders /\ OwnLines /\ LinesUnderLogin /\ UserSignedIn)

PagesPart == SessionInv /\ BuiltTyped /\ ShopTyped /\ ShopShape /\ OrderInv
CausePart == /\ CartTrue /\ SpinningAlone /\ PagesShowTheirUser /\ BuyerInv
             /\ SignedOutUnlessLate /\ StartInv /\ ForeignInv

ShopInv == PagesPart /\ CausePart

-----------------------------------------------------------------------------
(***************************************************************************)
(* What the steps of the running app have in common.  Go(n, pg): the first *)
(* n pages stay and pg comes on top of them unless it is "none".           *)
(***************************************************************************)
Advances(c, d) ==
  /\ d.kind = c.kind /\ d.user = c.user
  /\ c.host # "shown" => d.host # "shown"
  /\ \/ d.phase = c.phase /\ d.ended = c.ended
     \/ /\ d.ended = c.ended
        /\ \/ c.phase = "sent" /\ d.phase \in {"ok", "error"}
           \/ c.phase = "ok" /\ c.kind = "signup" /\ d.phase = "sentDoc"
           \/ c.phase = "sentDoc" /\ d.phase \in {"docOk", "docError"}
           \/ c.phase = "error" /\ c.kind \in {"logout", "save"} /\ d.phase = "failed"
     \/ /\ d.ended = c.host
        /\ \/ c.phase \in {"ok", "docOk"} /\ d.phase = "done"
           \/ c.phase \in {"error", "docError"} /\ d.phase = "failed"

CallsGo ==
  /\ DOMAIN calls \subseteq DOMAIN calls'
  /\ \A j \in DOMAIN calls : Advances(calls[j], calls'[j])
  /\ \A j \in DOMAIN calls' \ DOMAIN calls :
       /\ calls'[j].phase = "sent" /\ calls'[j].host = "shown" /\ calls'[j].ended = "no"
       /\ On(PageOf(calls'[j].kind)) /\ UNCHANGED stack

OrderAdvances(o, p) ==
  /\ p.buyer = o.buyer /\ p.lines = o.lines /\ p.amount = o.amount
  /\ o.host # "shown" => p.host # "shown"
  /\ o.phase = "done" => p.phase = "done"
  /\ o.ended # "no" => p.ended = o.ended
  /\ p.ended # "no" => p.phase = "done"

OrdersGo ==
  /\ orders' \in Seq(Order)
  /\ DOMAIN orders \subseteq DOMAIN orders'
  /\ \A j \in DOMAIN orders : /\ OrderAdvances(orders[j], orders'[j])
                              /\ orders'[j].host = "shown" => "Checkout" \in Range(stack')
  /\ \A j \in DOMAIN orders' \ DOMAIN orders :
       /\ On("Checkout") /\ UNCHANGED <<stack, calls, currentUser>>
       /\ orders'[j].buyer = currentUser
       /\ orders'[j].lines = globalCart /\ orders'[j].amount = totalAmount
       /\ orders'[j].host = "shown" /\ orders'[j].ended = "no"

\* The pages that other pages of the shop open.
Opened == {"Search", "List", "Desc", "Orders", "Wishlist", "Edit", "Settings", "Contact"}

Comes(n, pg) ==
  /\ pg \in {"Cart", "Category", "Profile", "Login"} \cup Screens => n = 0
  /\ pg = "Login" => (stack # <<>> /\ stack[1] \in Screens) \/ LogoutThrough'
  /\ pg = "Checkout" => n = 1 /\ Len(stack) = 1 /\ stack[1] = "Cart"
  /\ pg = "Signup" => n = 1 /\ Len(stack) = 1 /\ stack[1] = "Login"
  /\ pg = "Dialog" => /\ AnOrderDone' /\ n = Len(stack)
                      /\ LateDialog' \/ "Checkout" \in Range(stack)
  /\ pg \in Opened => /\ n = Len(stack) /\ n > 0
                      /\ stack[n] \in ShopPages \ {"Cart", "Checkout"}
  /\ pg = "Home" /\ n > 0 => /\ n < Len(stack)
                             /\ LateLogin' \/ (stack[1] = "Login" /\ Spinning' = {})
  /\ pg \in Screens => stack # <<>> /\ stack[1] \in Screens

PagesGo(n, pg) ==
  /\ StackMoved(n, pg) /\ pg \in Pages \cup {"none"}
  /\ Comes(n, pg)
  /\ builtFor' \in Seq(Owners) /\ Len(builtFor') = Len(stack')
  /\ \A k \in 1..n : builtFor'[k] = builtFor[k]
  /\ pg # "none" => builtFor'[n + 1] = currentUser

CartGo(n, pg) ==
  /\ globalCart' \in Seq(Owners) /\ rows' \in Seq(Owners) /\ totalAmount' \in Seq(Owners)
  /\ \/ globalCart' = globalCart
     \/ On("Desc") /\ Range(globalCart') \subseteq Range(globalCart) \cup {currentUser}
                   /\ UNCHANGED <<stack, calls, currentUser>>
     \/ On("Cart") /\ Range(globalCart') \subseteq Range(globalCart) /\ rows' = globalCart'
                   /\ UNCHANGED <<stack, calls, currentUser>>
     \/ globalCart' = <<>> /\ AnOrderDone'
  /\ \/ "Cart" \notin Range(stack') /\ rows' = <<>>
     \/ "Cart" \in Range(stack') /\ rows' = globalCart'
     \/ "Cart" \in Range(stack') /\ pg # "Cart" /\ rows' = rows
  /\ \/ "Checkout" \notin Range(stack') /\ totalAmount' = <<>>
     \/ "Checkout" \in Range(stack') /\ totalAmount' = globalCart'
     \/ "Checkout" \in Range(stack') /\ pg # "Checkout" /\ totalAmount' = totalAmount

UserGo ==
  /\ \A i \in DOMAIN calls :
       calls[i].kind \in {"login", "signup"} /\ calls[i].phase = "sent" /\ calls'[i].phase = "ok"
         => currentUser' = calls[i].user
  /\ \/ currentUser' = currentUser
     \/ /\ UNCHANGED <<stack, builtFor, globalCart, rows, totalAmount, orders>>
        /\ \E i \in DOMAIN calls :
             /\ calls[i].phase = "sent" /\ calls'[i].phase = "ok"
             /\ calls[i].kind \in {"login", "signup", "logout"}

\* What the ends of handlers do.
EndsGo(n, pg) ==
  \A j \in DOMAIN calls : calls[j].phase \notin Ended /\ calls'[j].phase = "done" =>
    /\ calls[j].kind = "logout" => calls[j].host = "disposed" \/ (n = 0 /\ pg = "Login")
    /\ calls[j].kind = "signup" => calls[j].host = "disposed" \/ (n = 0 /\ pg = "Home")

Go(n, pg) ==
  /\ SessionInv' /\ (LateDialog' \/ KeepsSignedOut)
  /\ PagesGo(n, pg) /\ CallsGo /\ OrdersGo /\ CartGo(n, pg) /\ UserGo /\ EndsGo(n, pg)

-----------------------------------------------------------------------------
(***************************************************************************)
(* The causes stay until the app is started again.                         *)
(***************************************************************************)

\* A call that goes on, once more with its type.
LEMMA CallGoes ==
  ASSUME SessionInv, CallsGo, NEW j \in DOMAIN calls
  PROVE  /\ j \in DOMAIN calls' /\ Advances(calls[j], calls'[j])
         /\ calls[j].host \in {"shown", "leaving", "disposed"}
         /\ calls[j].ended # "no" => calls[j].phase \in Ended
BY Typed, CallFields DEF CallsGo, SessionInv, AccountInv, PageInv, EndsOnce

\* A late login has been late.
LEMMA LateLoginStays ==
  ASSUME SessionInv, CallsGo, LateLogin
  PROVE  LateLogin'
<1>1. PICK j \in DOMAIN calls : calls[j].kind = "login" /\ calls[j].ended = "leaving"
  BY DEF LateLogin
<1>2. calls'[j].kind = "login" /\ calls'[j].ended = "leaving" /\ j \in DOMAIN calls'
  BY <1>1, CallGoes DEF Advances, Ended
<1>3. QED
  BY <1>2 DEF LateLogin

\* A sign-in whose page was left stays one, also when it ends.
LEMMA SilentSignInStays ==
  ASSUME SessionInv, CallsGo, SilentSignIn
  PROVE  SilentSignIn'
<1>1. PICK j \in DOMAIN calls :
        /\ calls[j].kind \in {"login", "signup"}
        /\ \/ calls[j].phase \in {"ok", "sentDoc", "docOk", "docError"} /\ calls[j].host # "shown"
           \/ calls[j].ended \in {"leaving", "disposed"}
  BY DEF SilentSignIn
<1>2. /\ calls'[j].kind \in {"login", "signup"} /\ j \in DOMAIN calls'
      /\ \/ calls'[j].phase \in {"ok", "sentDoc", "docOk", "docError"} /\ calls'[j].host # "shown"
         \/ calls'[j].ended \in {"leaving", "disposed"}
  BY <1>1, CallGoes DEF Advances, Ended
<1>3. QED
  BY <1>2 DEF SilentSignIn

\* Two people have signed in.
LEMMA SignedInAgainStays ==
  ASSUME SessionInv, CallsGo, SignedInAgain
  PROVE  SignedInAgain'
<1>1. PICK i, j \in DOMAIN calls :
        /\ calls[i].kind = "login" /\ calls[i].phase = "done"
        /\ calls[j].kind \in {"login", "signup"} /\ calls[j].phase \in {"done", "failed"}
        /\ calls[i].user # calls[j].user
  BY DEF SignedInAgain
<1>2. /\ calls'[i].kind = "login" /\ calls'[i].phase = "done" /\ i \in DOMAIN calls'
      /\ calls'[i].user = calls[i].user
  BY <1>1, CallGoes DEF Advances
<1>3. /\ calls'[j].kind \in {"login", "signup"} /\ calls'[j].phase \in {"done", "failed"}
      /\ j \in DOMAIN calls' /\ calls'[j].user = calls[j].user
  BY <1>1, CallGoes DEF Advances
<1>4. QED
  BY <1>1, <1>2, <1>3 DEF SignedInAgain

\* A logout has gone through.
LEMMA LogoutThroughStays ==
  ASSUME SessionInv, CallsGo, LogoutThrough
  PROVE  LogoutThrough'
<1>1. PICK j \in DOMAIN calls : calls[j].kind = "logout" /\ calls[j].phase \in {"ok", "done"}
  BY DEF LogoutThrough
<1>2. calls'[j].kind = "logout" /\ calls'[j].phase \in {"ok", "done"} /\ j \in DOMAIN calls'
  BY <1>1, CallGoes DEF Advances
<1>3. QED
  BY <1>2 DEF LogoutThrough

\* A logout whose page was left stays one, also when it ends.
LEMMA LogoutLeftStays ==
  ASSUME SessionInv, CallsGo, LogoutLeft
  PROVE  LogoutLeft'
<1>1. PICK j \in DOMAIN calls :
        /\ calls[j].kind = "logout"
        /\ \/ calls[j].phase = "ok" /\ calls[j].host # "shown"
           \/ calls[j].ended \in {"leaving", "disposed"}
  BY DEF LogoutLeft
<1>2. /\ calls'[j].kind = "logout" /\ j \in DOMAIN calls'
      /\ \/ calls'[j].phase = "ok" /\ calls'[j].host # "shown"
         \/ calls'[j].ended \in {"leaving", "disposed"}
  BY <1>1, CallGoes DEF Advances, Ended
<1>3. QED
  BY <1>2 DEF LogoutLeft

\* Somebody has signed in.
LEMMA SignInDoneStays ==
  ASSUME SessionInv, CallsGo, SignInDone
  PROVE  SignInDone'
<1>1. PICK j \in DOMAIN calls : calls[j].kind \in {"login", "signup"} /\ calls[j].phase = "done"
  BY DEF SignInDone
<1>2. /\ calls'[j].kind \in {"login", "signup"} /\ calls'[j].phase = "done"
      /\ j \in DOMAIN calls'
  BY <1>1, CallGoes DEF Advances
<1>3. QED
  BY <1>2 DEF SignInDone

\* An order was placed, and its dialog came late.
LEMMA OrderCausesStay ==
  ASSUME OrdersGo
  PROVE  (AnOrderDone => AnOrderDone') /\ (LateDialog => LateDialog')
<1>1. AnOrderDone => AnOrderDone'
  <2> SUFFICES ASSUME AnOrderDone PROVE AnOrderDone'
    OBVIOUS
  <2>1. PICK j \in DOMAIN orders : orders[j].phase = "done"
    BY DEF AnOrderDone
  <2>2. j \in DOMAIN orders' /\ orders'[j].phase = "done"
    BY <2>1 DEF OrdersGo, OrderAdvances
  <2>3. QED
    BY <2>2 DEF AnOrderDone
<1>2. LateDialog => LateDialog'
  <2> SUFFICES ASSUME LateDialog PROVE LateDialog'
    OBVIOUS
  <2>1. PICK j \in DOMAIN orders : orders[j].ended = "leaving"
    BY DEF LateDialog
  <2>2. j \in DOMAIN orders' /\ orders'[j].ended = "leaving"
    BY <2>1 DEF OrdersGo, OrderAdvances
  <2>3. QED
    BY <2>2 DEF LateDialog
<1>3. QED
  BY <1>1, <1>2

-----------------------------------------------------------------------------
(***************************************************************************)
(* The pages.                                                              *)
(***************************************************************************)

\* Every page of the new stack is an old one in its place, or the new one.
LEMMA PagesAfter ==
  ASSUME StateTyped, NEW n, NEW pg, StackMoved(n, pg)
  PROVE  /\ n \in Nat /\ n <= Len(stack) /\ Len(stack) \in Nat /\ DOMAIN stack = 1..Len(stack)
         /\ Len(stack') \in Nat /\ DOMAIN stack' = 1..Len(stack')
         /\ Len(stack') = IF pg = "none" THEN n ELSE n + 1
         /\ \A k \in DOMAIN stack' :
              \/ k <= n /\ k \in DOMAIN stack /\ stack'[k] = stack[k]
              \/ pg # "none" /\ k = n + 1 /\ stack'[k] = pg
         /\ \A k \in 1..n : k \in DOMAIN stack /\ k \in DOMAIN stack' /\ stack'[k] = stack[k]
<1>1. Len(stack) \in Nat /\ DOMAIN stack = 1..Len(stack)
  BY Typed
<1>2. /\ n \in Nat /\ n <= Len(stack) /\ stack' \in Seq(Pages)
      /\ Len(stack') = IF pg = "none" THEN n ELSE n + 1
      /\ \A k \in 1..n : stack'[k] = stack[k]
      /\ pg # "none" => stack'[n + 1] = pg
  BY DEF StackMoved
<1>3. Len(stack') \in Nat /\ DOMAIN stack' = 1..Len(stack')
  BY <1>2, LenProperties
<1>4. QED
  BY <1>1, <1>2, <1>3

\* A page that is still there was there, or is the new one.
LEMMA StillThere ==
  ASSUME StateTyped, NEW n, NEW pg, StackMoved(n, pg), NEW p, p \in Range(stack'), p # pg
  PROVE  p \in Range(stack)
<1>1. PICK k \in DOMAIN stack' : stack'[k] = p
  BY InRange
<1>2. k \in DOMAIN stack /\ stack[k] = p
  BY <1>1, PagesAfter
<1>3. QED
  BY <1>2, InRange

\* Where pages lie.
LEMMA GoKeepsShape ==
  ASSUME PagesPart, NEW n, NEW pg, Go(n, pg)
  PROVE  ShopShape'
<1>1. /\ StateTyped /\ SessionInv /\ ShopShape /\ StackMoved(n, pg) /\ Comes(n, pg) /\ OrdersGo
  BY DEF PagesPart, SessionInv, AccountInv, Go, PagesGo
<1>2. (AnOrderDone => AnOrderDone') /\ (LateDialog => LateDialog')
  BY <1>1, OrderCausesStay
<1>3. /\ n \in Nat /\ n <= Len(stack) /\ Len(stack) \in Nat /\ DOMAIN stack = 1..Len(stack)
      /\ Len(stack') \in Nat /\ DOMAIN stack' = 1..Len(stack')
      /\ Len(stack') = IF pg = "none" THEN n ELSE n + 1
      /\ \A k \in 1..n : k \in DOMAIN stack /\ k \in DOMAIN stack' /\ stack'[k] = stack[k]
  BY <1>1, PagesAfter
<1>4. SUFFICES ASSUME NEW k \in DOMAIN stack'
      PROVE  /\ stack'[k] \in {"Cart", "Profile"} => k = 1
             /\ stack'[k] = "Checkout" => k = 2 /\ stack'[1] = "Cart"
             /\ stack'[k] = "Signup" =>
                  k = 2 /\ stack'[1] = "Login" /\ (LateDialog' \/ Len(stack') = 2)
             /\ stack'[k] = "Dialog" =>
                  AnOrderDone' /\ (LateDialog' \/ (k > 1 /\ stack'[1] = "Cart"))
  BY DEF ShopShape
<1>5. CASE k <= n /\ k \in DOMAIN stack /\ stack'[k] = stack[k]
  <2>1. /\ stack[k] \in {"Cart", "Profile"} => k = 1
        /\ stack[k] = "Checkout" => k = 2 /\ stack[1] = "Cart"
        /\ stack[k] = "Signup" => k = 2 /\ stack[1] = "Login" /\ (LateDialog \/ Len(stack) = 2)
        /\ stack[k] = "Dialog" => AnOrderDone /\ (LateDialog \/ (k > 1 /\ stack[1] = "Cart"))
    BY <1>1, <1>5 DEF ShopShape
  <2>2. stack'[1] = stack[1] /\ k \in Nat
    BY <1>3, <1>5
  <2>3. stack[k] = "Signup" => LateDialog' \/ Len(stack') = 2
    <3> SUFFICES ASSUME stack[k] = "Signup", ~LateDialog' PROVE Len(stack') = 2
      OBVIOUS
    <3>1. k = 2 /\ n = 2 /\ Len(stack) = 2 /\ stack[1] = "Login"
      BY <1>2, <1>3, <1>5, <2>1
    <3>2. pg = "none"
      <4>1. "Checkout" \notin Range(stack)
        BY <1>1, <3>1, InRange DEF ShopShape
      <4>2. stack[2] \notin ShopPages
        BY <3>1 DEF ShopPages
      <4>3. pg \notin {"Cart", "Category", "Profile", "Login", "Checkout", "Signup", "Dialog",
                       "Home"} \cup Screens \cup Opened
        BY <1>1, <3>1, <4>1, <4>2 DEF Comes
      <4>4. pg \in Pages \cup {"none"}
        BY DEF Go, PagesGo
      <4>5. QED
        BY <4>3, <4>4 DEF Pages, StartPages, ShopPages, Screens, Opened
    <3>3. QED
      BY <1>3, <3>1, <3>2
  <2>4. QED
    BY <1>2, <1>5, <2>1, <2>2, <2>3
<1>6. CASE pg # "none" /\ k = n + 1 /\ stack'[k] = pg
  <2>1. pg \in {"Cart", "Profile"} => k = 1
    <3>1. pg \in {"Cart", "Profile"} => n = 0
      BY <1>1 DEF Comes
    <3>2. QED
      BY <1>6, <3>1
  <2>2. pg = "Checkout" => k = 2 /\ stack'[1] = "Cart"
    BY <1>1, <1>3, <1>6 DEF Comes
  <2>3. pg = "Signup" => k = 2 /\ stack'[1] = "Login" /\ Len(stack') = 2
    BY <1>1, <1>3, <1>6 DEF Comes
  <2>4. pg = "Dialog" => AnOrderDone' /\ (LateDialog' \/ (k > 1 /\ stack'[1] = "Cart"))
    <3> SUFFICES ASSUME pg = "Dialog", ~LateDialog'
                 PROVE  AnOrderDone' /\ k > 1 /\ stack'[1] = "Cart"
      BY <1>1 DEF Comes
    <3>1. AnOrderDone' /\ n = Len(stack) /\ "Checkout" \in Range(stack)
      BY <1>1 DEF Comes
    <3>2. PICK c \in DOMAIN stack : stack[c] = "Checkout"
      BY <3>1, InRange
    <3>3. c = 2 /\ stack[1] = "Cart"
      BY <1>1, <3>2 DEF ShopShape
    <3>4. QED
      BY <1>3, <1>6, <3>1, <3>2, <3>3
  <2>5. QED
    BY <1>6, <2>1, <2>2, <2>3, <2>4
<1>7. QED
  BY <1>1, <1>5, <1>6, PagesAfter

\* Types, orders, and what is known of pages that are not there.
LEMMA GoKeepsPages ==
  ASSUME PagesPart, NEW n, NEW pg, Go(n, pg)
  PROVE  PagesPart'
<1>1. SessionInv /\ OrderInv /\ CallsGo /\ OrdersGo /\ PagesGo(n, pg) /\ CartGo(n, pg) /\ StateTyped
  BY DEF PagesPart, Go, SessionInv, AccountInv
<1>2. SessionInv' /\ ShopShape'
  BY GoKeepsShape DEF Go
<1>3. BuiltTyped'
  BY <1>1 DEF BuiltTyped, PagesGo
<1>4. ShopTyped'
  <2>1. /\ globalCart' \in Seq(Owners) /\ rows' \in Seq(Owners) /\ totalAmount' \in Seq(Owners)
        /\ "Cart" \notin Range(stack') => rows' = <<>>
        /\ "Checkout" \notin Range(stack') => totalAmount' = <<>>
    BY <1>1 DEF CartGo
  <2>2. orders' \in Seq(Order)
    BY <1>1 DEF OrdersGo
  <2>3. QED
    BY <2>1, <2>2 DEF ShopTyped
<1>5. OrderInv'
  <2>1. ASSUME NEW i \in DOMAIN orders'
        PROVE  /\ orders'[i].host = "shown" => "Checkout" \in Range(stack')
               /\ orders'[i].ended # "no" => orders'[i].phase = "done"
    <3>1. CASE i \in DOMAIN orders
      BY <1>1, <3>1 DEF OrdersGo, OrderAdvances
    <3>2. CASE i \notin DOMAIN orders
      <4>1. On("Checkout") /\ UNCHANGED stack /\ orders'[i].ended = "no"
        BY <1>1, <2>1, <3>2 DEF OrdersGo
      <4>2. Len(stack) \in Nat /\ Len(stack) # 0 /\ DOMAIN stack = 1..Len(stack)
        BY <1>1, <4>1, Typed, EmptySeq DEF On, StateTyped
      <4>3. "Checkout" \in Range(stack)
        BY <4>1, <4>2, InRange DEF On, Top
      <4>4. QED
        BY <4>1, <4>3
    <3>3. QED
      BY <3>1, <3>2
  <2>2. orders' # <<>> => SignInDone'
    <3>1. CASE orders # <<>>
      BY <1>1, <3>1, SignInDoneStays DEF OrderInv
    <3>2. CASE orders = <<>> /\ orders' # <<>>
      <4>1. PICK i \in DOMAIN orders' : TRUE
        BY <1>1, <3>2, LenProperties, EmptySeq DEF OrdersGo
      <4>2. i \notin DOMAIN orders
        BY <3>2
      <4>3. On("Checkout") /\ UNCHANGED <<stack, calls>>
        BY <1>1, <4>1, <4>2 DEF OrdersGo
      <4>4. Len(stack) \in Nat /\ Len(stack) > 0 /\ Top \in ShopPages
        BY <1>1, <4>3, Typed, EmptySeq DEF On, StateTyped, ShopPages
      <4>5. OnStack(ShopPages)
        BY <1>1, <4>4, TopOnStack
      <4>6. SignInDone
        BY <1>1, <4>5 DEF SessionInv, PageInv, ShopOnlyAfterSignIn, SignInDone
      <4>7. QED
        BY <4>3, <4>6 DEF SignInDone
    <3>3. QED
      BY <3>1, <3>2
  <2>3. QED
    BY <2>1, <2>2 DEF OrderInv
<1>6. QED
  BY <1>2, <1>3, <1>4, <1>5 DEF PagesPart

\* The page on top is on the stack.
LEMMA TopIs ==
  ASSUME StateTyped, NEW p, On(p)
  PROVE  /\ Len(stack) \in DOMAIN stack /\ stack[Len(stack)] = p /\ p \in Range(stack)
         /\ Len(stack) \in Nat /\ Len(stack) > 0
<1>1. Len(stack) \in Nat /\ Len(stack) # 0 /\ DOMAIN stack = 1..Len(stack)
  BY Typed, EmptySeq DEF On, StateTyped
<1>2. Len(stack) \in DOMAIN stack /\ stack[Len(stack)] = p
  BY <1>1 DEF On, Top
<1>3. QED
  BY <1>1, <1>2, InRange

\* Cart, profile and login page are at the bottom.
CartIsBelow ==
  /\ "Cart" \in Range(stack) => 1 \in DOMAIN stack /\ stack[1] = "Cart"
  /\ "Checkout" \in Range(stack) =>
       /\ 1 \in DOMAIN stack /\ stack[1] = "Cart" /\ "Cart" \in Range(stack)
       /\ 2 \in DOMAIN stack /\ stack[2] = "Checkout"
  /\ "Profile" \in Range(stack) => 1 \in DOMAIN stack /\ stack[1] = "Profile"
  /\ "Signup" \in Range(stack) =>
       /\ 1 \in DOMAIN stack /\ stack[1] = "Login" /\ (LateDialog \/ Len(stack) = 2)
       /\ 2 \in DOMAIN stack /\ stack[2] = "Signup"
  /\ "Login" \in Range(stack) => 1 \in DOMAIN stack /\ stack[1] = "Login"

\* Said of pages on the stack instead of places.
LEMMA CartBelow == StateTyped /\ ShopShape /\ StackShape => CartIsBelow
<1> SUFFICES ASSUME StateTyped, ShopShape, StackShape PROVE CartIsBelow
  OBVIOUS
<1>1. DOMAIN stack = 1..Len(stack) /\ Len(stack) \in Nat
  BY Typed
<1>2. ASSUME "Cart" \in Range(stack) PROVE 1 \in DOMAIN stack /\ stack[1] = "Cart"
  <2>1. PICK k \in DOMAIN stack : stack[k] = "Cart"
    BY <1>2, InRange
  <2>2. QED
    BY <2>1 DEF ShopShape
<1>3. ASSUME "Profile" \in Range(stack) PROVE 1 \in DOMAIN stack /\ stack[1] = "Profile"
  <2>1. PICK k \in DOMAIN stack : stack[k] = "Profile"
    BY <1>3, InRange
  <2>2. QED
    BY <2>1 DEF ShopShape
<1>4. ASSUME "Checkout" \in Range(stack)
      PROVE  /\ 1 \in DOMAIN stack /\ stack[1] = "Cart" /\ "Cart" \in Range(stack)
             /\ 2 \in DOMAIN stack /\ stack[2] = "Checkout"
  <2>1. PICK k \in DOMAIN stack : stack[k] = "Checkout"
    BY <1>4, InRange
  <2>2. k = 2 /\ stack[1] = "Cart"
    BY <2>1 DEF ShopShape
  <2>3. 1 \in DOMAIN stack /\ 2 \in DOMAIN stack /\ stack[2] = "Checkout"
    BY <1>1, <2>1, <2>2
  <2>4. QED
    BY <2>2, <2>3, InRange
<1>5. ASSUME "Signup" \in Range(stack)
      PROVE  /\ 1 \in DOMAIN stack /\ stack[1] = "Login" /\ (LateDialog \/ Len(stack) = 2)
             /\ 2 \in DOMAIN stack /\ stack[2] = "Signup"
  <2>1. PICK k \in DOMAIN stack : stack[k] = "Signup"
    BY <1>5, InRange
  <2>2. k = 2 /\ stack[1] = "Login" /\ (LateDialog \/ Len(stack) = 2)
    BY <2>1 DEF ShopShape
  <2>3. 1 \in DOMAIN stack
    BY <1>1, <2>1, <2>2
  <2>4. QED
    BY <2>1, <2>2, <2>3
<1>6. ASSUME "Login" \in Range(stack) PROVE 1 \in DOMAIN stack /\ stack[1] = "Login"
  <2>1. PICK k \in DOMAIN stack : stack[k] = "Login"
    BY <1>6, InRange
  <2>2. k = 1
    BY <1>1, <2>1 DEF StackShape
  <2>3. QED
    BY <2>1, <2>2
<1>7. QED
  BY <1>2, <1>3, <1>4, <1>5, <1>6 DEF CartIsBelow

\* So they are before and after a step.
LEMMA BelowAndBelow ==
  ASSUME PagesPart, PagesPart'
  PROVE  CartIsBelow /\ CartIsBelow'
<1>1. StateTyped /\ ShopShape /\ StackShape
  BY DEF PagesPart, SessionInv, AccountInv, PageInv
<1>2. StateTyped' /\ ShopShape' /\ StackShape'
  BY DEF PagesPart, SessionInv, AccountInv, PageInv
<1>3. CartIsBelow
  BY <1>1, CartBelow
<1>4. (StateTyped /\ ShopShape /\ StackShape => CartIsBelow)'
  BY CartBelow, PTL
<1>5. CartIsBelow'
  BY <1>2, <1>4
<1>6. QED
  BY <1>3, <1>5

\* The cart pages are true unless there is a cause.
LEMMA GoKeepsCart ==
  ASSUME PagesPart, PagesPart', CartTrue, NEW n, NEW pg, Go(n, pg)
  PROVE  CartTrue'
<1>1. /\ StateTyped /\ SessionInv /\ ShopShape /\ StackMoved(n, pg) /\ Comes(n, pg) /\ OrdersGo
      /\ CallsGo /\ CartGo(n, pg) /\ pg \in Pages \cup {"none"}
      /\ StateTyped' /\ ShopShape'
  BY DEF PagesPart, SessionInv, AccountInv, Go, PagesGo
<1>2. SUFFICES ASSUME ~AnOrderDone', ~LateLogin'
      PROVE  /\ "Cart" \in Range(stack') =>
                  /\ rows' = globalCart'
                  /\ \A k \in DOMAIN stack' : k > 1 => stack'[k] = "Checkout"
             /\ "Checkout" \in Range(stack') => totalAmount' = globalCart'
  BY DEF CartTrue
<1>3. /\ "Cart" \in Range(stack) =>
           rows = globalCart /\ \A k \in DOMAIN stack : k > 1 => stack[k] = "Checkout"
      /\ "Checkout" \in Range(stack) => totalAmount = globalCart
  BY <1>1, <1>2, LateLoginStays, OrderCausesStay DEF CartTrue
<1>4. /\ n \in Nat /\ n <= Len(stack) /\ Len(stack) \in Nat /\ DOMAIN stack = 1..Len(stack)
      /\ Len(stack') \in Nat /\ DOMAIN stack' = 1..Len(stack')
      /\ Len(stack') = IF pg = "none" THEN n ELSE n + 1
      /\ \A k \in 1..n : k \in DOMAIN stack /\ k \in DOMAIN stack' /\ stack'[k] = stack[k]
      /\ \A k \in DOMAIN stack' : k <= n \/ (k = n + 1 /\ stack'[k] = pg)
  BY <1>1, PagesAfter
<1>5. "Cart" \in Range(stack) =>
        \/ globalCart' = globalCart
        \/ On("Cart") /\ rows' = globalCart'
  <2> SUFFICES ASSUME "Cart" \in Range(stack), On("Desc") PROVE FALSE
    BY <1>1, <1>2 DEF CartGo
  <2>1. stack[1] = "Cart"
    BY BelowAndBelow DEF CartIsBelow
  <2>2. Len(stack) \in DOMAIN stack /\ stack[Len(stack)] = "Desc" /\ Len(stack) > 0
    BY <1>1, TopIs
  <2>3. Len(stack) > 1
    BY <1>4, <2>1, <2>2
  <2>4. QED
    BY <1>3, <2>2, <2>3
<1>6. ASSUME "Cart" \in Range(stack')
      PROVE  /\ rows' = globalCart'
             /\ \A k \in DOMAIN stack' : k > 1 => stack'[k] = "Checkout"
  <2>1. 1 \in DOMAIN stack' /\ stack'[1] = "Cart"
    BY <1>6, BelowAndBelow DEF CartIsBelow
  <2>2. CASE n = 0
    <3>1. pg = "Cart" /\ Len(stack') = 1
      BY <1>4, <2>1, <2>2
    <3>2. rows' = globalCart'
      BY <1>1, <1>6, <3>1 DEF CartGo
    <3>3. DOMAIN stack' = 1..Len(stack')
      BY <1>4
    <3>4. DOMAIN stack' = 1..1
      BY <3>1, <3>3
    <3>5. \A k \in DOMAIN stack' : ~ (k > 1)
      BY <3>4
    <3>6. QED
      BY <3>2, <3>5
  <2>3. CASE n > 0
    <3>1. 1 \in DOMAIN stack /\ stack[1] = "Cart"
      BY <1>4, <2>1, <2>3
    <3>2. "Cart" \in Range(stack)
      BY <3>1, InRange
    <3>3. stack[n] \in {"Cart", "Checkout"}
      <4>1. n \in DOMAIN stack
        BY <1>4, <2>3
      <4>2. QED
        BY <1>3, <1>4, <2>3, <3>1, <3>2, <4>1
    <3>4. pg \in {"Checkout", "none"}
      <4>1. pg \notin {"Cart", "Category", "Profile", "Login", "Signup", "Dialog",
                       "Home"} \cup Screens \cup Opened
        BY <1>1, <1>2, <2>3, <3>1, <3>3 DEF Comes
      <4>2. QED
        BY <1>1, <4>1 DEF Pages, StartPages, ShopPages, Screens, Opened
    <3>5. rows' = globalCart'
      <4>1. rows' = globalCart' \/ rows' = rows
        BY <1>1, <1>6 DEF CartGo
      <4>2. QED
        BY <1>3, <1>5, <3>2, <4>1
    <3>6. ASSUME NEW k \in DOMAIN stack', k > 1 PROVE stack'[k] = "Checkout"
      <4>1. CASE k <= n
        <5>1. k \in 1..n
          BY <1>4, <3>6, <4>1
        <5>2. QED
          BY <1>3, <1>4, <3>2, <3>6, <5>1
      <4>2. CASE ~ (k <= n)
        <5>1. k = n + 1 /\ stack'[k] = pg
          BY <1>4, <3>6, <4>2
        <5>2. pg # "none"
          BY <1>4, <3>6, <5>1
        <5>3. QED
          BY <3>4, <5>1, <5>2
      <4>3. QED
        BY <4>1, <4>2
    <3>7. QED
      BY <3>5, <3>6
  <2>4. QED
    BY <1>4, <2>2, <2>3
<1>7. ASSUME "Checkout" \in Range(stack') PROVE totalAmount' = globalCart'
  <2>1. CASE pg # "Checkout" /\ totalAmount' = totalAmount
    <3>1. "Checkout" \in Range(stack)
      BY <1>1, <1>7, <2>1, StillThere
    <3>2. 2 \in DOMAIN stack /\ stack[2] = "Checkout" /\ "Cart" \in Range(stack)
      BY <3>1, BelowAndBelow DEF CartIsBelow
    <3>3. ~On("Cart")
      <4> SUFFICES ASSUME On("Cart") PROVE FALSE
        OBVIOUS
      <4>1. Len(stack) \in DOMAIN stack /\ stack[Len(stack)] = "Cart"
        BY <1>1, TopIs
      <4>2. Len(stack) = 1
        BY <1>1, <4>1 DEF ShopShape
      <4>3. QED
        BY <1>4, <3>2, <4>2
    <3>4. QED
      BY <1>3, <1>5, <2>1, <3>1, <3>2, <3>3
  <2>2. QED
    BY <1>1, <1>7, <2>1 DEF CartGo
<1>8. QED
  BY <1>6, <1>7

\* A login page under the shop does not spin unless a login came late.
LEMMA GoKeepsSpinning ==
  ASSUME PagesPart, PagesPart', SpinningAlone, NEW n, NEW pg, Go(n, pg)
  PROVE  SpinningAlone'
<1>1. /\ StateTyped /\ SessionInv /\ StackMoved(n, pg) /\ Comes(n, pg) /\ StackShape
      /\ CallsGo /\ pg \in Pages \cup {"none"} /\ ShownOnStack'
  BY DEF PagesPart, SessionInv, AccountInv, PageInv, Go, PagesGo
<1>2. SUFFICES ASSUME Spinning' # {}, OnStack(ShopPages)', ~LateLogin' PROVE FALSE
  BY DEF SpinningAlone
<1>3. PICK j \in DOMAIN calls' : /\ calls'[j].kind = "login" /\ calls'[j].host = "shown"
                                 /\ calls'[j].phase \notin Ended
  BY <1>2 DEF Spinning
<1>4. 1 \in DOMAIN stack' /\ stack'[1] = "Login"
  <2>1. "Login" \in Range(stack')
    BY <1>1, <1>3, PageOfIs DEF ShownOnStack
  <2>2. QED
    BY <2>1, BelowAndBelow DEF CartIsBelow
<1>5. PICK k \in DOMAIN stack' : stack'[k] \in ShopPages
  BY <1>2, InRange DEF OnStack
<1>6. /\ n \in Nat /\ n <= Len(stack) /\ Len(stack) \in Nat /\ DOMAIN stack = 1..Len(stack)
      /\ Len(stack') \in Nat /\ DOMAIN stack' = 1..Len(stack')
      /\ Len(stack') = IF pg = "none" THEN n ELSE n + 1
      /\ \A c \in 1..n : c \in DOMAIN stack /\ c \in DOMAIN stack' /\ stack'[c] = stack[c]
      /\ \A c \in DOMAIN stack' : c <= n \/ (pg # "none" /\ c = n + 1 /\ stack'[c] = pg)
  BY <1>1, PagesAfter
<1>7. k # 1 /\ "Login" \notin ShopPages
  BY <1>4, <1>5 DEF ShopPages
<1>8. n > 0
  BY <1>5, <1>6, <1>7
<1>9. stack[1] = "Login"
  BY <1>4, <1>6, <1>8
<1>10. OnStack(ShopPages)
  <2>1. CASE k <= n
    <3>1. k \in DOMAIN stack /\ stack[k] \in ShopPages
      BY <1>5, <1>6, <2>1
    <3>2. QED
      BY <3>1, InRange DEF OnStack
  <2>2. CASE pg \in ShopPages
    <3>1. pg \notin {"Cart", "Category", "Profile", "Checkout", "Home"}
      BY <1>1, <1>2, <1>8, <1>9 DEF Comes
    <3>2. pg \in Opened
      BY <2>2, <3>1 DEF ShopPages, Opened
    <3>3. n = Len(stack) /\ stack[n] \in ShopPages
      BY <1>1, <3>2 DEF Comes
    <3>4. n \in DOMAIN stack
      BY <1>6, <1>8
    <3>5. QED
      BY <3>3, <3>4, InRange DEF OnStack
  <2>3. QED
    BY <1>5, <1>6, <2>1, <2>2
<1>11. CASE j \in DOMAIN calls
  <2>1. calls[j].kind = "login" /\ calls[j].host = "shown" /\ calls[j].phase \notin Ended
    BY <1>1, <1>3, <1>11, CallGoes DEF Advances, Ended
  <2>2. Spinning # {}
    BY <1>11, <2>1 DEF Spinning
  <2>3. QED
    BY <1>1, <1>2, <1>10, <2>2, LateLoginStays DEF SpinningAlone
<1>12. CASE j \notin DOMAIN calls
  <2>1. On("Login") /\ stack' = stack
    BY <1>1, <1>3, <1>12, PageOfIs DEF CallsGo
  <2>2. Len(stack) \in DOMAIN stack /\ stack[Len(stack)] = "Login"
    BY <1>1, <2>1, TopIs
  <2>3. ~ (Len(stack) > 1)
    BY <1>1, <2>2 DEF StackShape
  <2>4. k \in 1..Len(stack) /\ Len(stack) \in Nat
    BY <1>1, <2>1, Typed
  <2>5. QED
    BY <1>7, <2>3, <2>4
<1>13. QED
  BY <1>11, <1>12

\* The pages follow the user unless there is a cause.
LEMMA GoKeepsShown ==
  ASSUME PagesPart, PagesPart', SpinningAlone, PagesShowTheirUser, NEW n, NEW pg, Go(n, pg)
  PROVE  PagesShowTheirUser'
<1>1. /\ StateTyped /\ SessionInv /\ PagesGo(n, pg) /\ StackMoved(n, pg)
      /\ OrdersGo /\ CallsGo /\ UserGo /\ EndsGo(n, pg) /\ ShownOnStack'
  BY DEF PagesPart, SessionInv, AccountInv, PageInv, Go, PagesGo
<1>2. SUFFICES ASSUME NEW k \in DOMAIN stack', stack'[k] \in PersonalPages,
                      ~SilentLogout', ~SilentSignIn', ~LateDialog'
               PROVE  builtFor'[k] = currentUser'
  BY DEF PagesShowTheirUser
<1>3. ~SilentSignIn /\ ~LateDialog
  BY <1>1, <1>2, SilentSignInStays, OrderCausesStay
<1>4. /\ n \in Nat /\ DOMAIN stack' = 1..Len(stack')
      /\ \/ k <= n /\ k \in DOMAIN stack /\ stack'[k] = stack[k]
         \/ pg # "none" /\ k = n + 1 /\ stack'[k] = pg
  BY <1>1, PagesAfter
<1>5. CASE currentUser' = currentUser
  <2>1. CASE pg # "none" /\ k = n + 1 /\ stack'[k] = pg
    BY <1>1, <1>5, <2>1 DEF PagesGo
  <2>2. CASE k <= n /\ k \in DOMAIN stack /\ stack'[k] = stack[k]
    <3>1. k \in 1..n
      BY <1>4, <2>2
    <3>2. builtFor'[k] = builtFor[k]
      BY <1>1, <3>1 DEF PagesGo
    <3>3. ~SilentLogout
      <4> SUFFICES ASSUME SilentLogout PROVE FALSE
        OBVIOUS
      <4>1. PICK i \in DOMAIN calls :
              /\ calls[i].kind = "logout"
              /\ calls[i].phase = "ok" \/ calls[i].ended \in {"disposed"}
        BY DEF SilentLogout, LogoutUnfollowed
      <4>2. i \in DOMAIN calls' /\ Advances(calls[i], calls'[i])
            /\ (calls[i].ended # "no" => calls[i].phase \in Ended)
        BY <1>1, CallGoes
      <4>3. calls'[i].kind = "logout"
        BY <4>1, <4>2 DEF Advances
      <4>4. calls'[i].phase # "ok" /\ calls'[i].ended # "disposed"
        BY <1>2, <4>2, <4>3 DEF SilentLogout, LogoutUnfollowed
      <4>5. calls[i].phase = "ok" /\ calls'[i].phase = "done" /\ calls'[i].ended = calls[i].host
        BY <4>1, <4>2, <4>4 DEF Advances, Ended
      <4>6. n = 0
        BY <1>1, <4>1, <4>4, <4>5 DEF EndsGo, Ended
      <4>7. QED
        BY <3>1, <4>6
    <3>4. builtFor[k] = currentUser
      BY <1>2, <1>3, <2>2, <3>3 DEF PagesShowTheirUser
    <3>5. QED
      BY <1>5, <3>2, <3>4
  <2>3. QED
    BY <1>4, <2>1, <2>2
<1>6. CASE currentUser' # currentUser
  <2>1. stack' = stack
    BY <1>1, <1>6 DEF UserGo
  <2>2. PICK i \in DOMAIN calls :
          /\ calls[i].phase = "sent" /\ calls'[i].phase = "ok"
          /\ calls[i].kind \in {"login", "signup", "logout"}
    BY <1>1, <1>6 DEF UserGo
  <2>3. i \in DOMAIN calls' /\ Advances(calls[i], calls'[i]) /\ calls'[i].kind = calls[i].kind
    BY <1>1, CallGoes DEF Advances
  <2>4. calls[i].kind # "logout"
    BY <1>2, <2>2, <2>3 DEF SilentLogout, LogoutUnfollowed
  <2>5. calls'[i].host = "shown"
    BY <1>2, <2>2, <2>3, <2>4 DEF SilentSignIn
  <2>6. calls[i].host = "shown"
    BY <2>3, <2>5 DEF Advances
  <2>7. PageOf(calls[i].kind) \in Range(stack)
    BY <1>1, <2>1, <2>3, <2>5 DEF ShownOnStack
  <2>8. stack[k] \in PersonalPages /\ k \in DOMAIN stack
    BY <1>2, <2>1
  <2>9. CASE calls[i].kind = "login"
    <3>1. Spinning # {}
      BY <2>2, <2>6, <2>9 DEF Spinning, Ended
    <3>2. OnStack(ShopPages)
      BY <2>8, InRange DEF OnStack, ShopPages, PersonalPages
    <3>3. LateLogin
      BY <3>1, <3>2 DEF SpinningAlone
    <3>4. SilentSignIn
      BY <3>3 DEF LateLogin, SilentSignIn
    <3>5. QED
      BY <1>3, <3>4
  <2>10. CASE calls[i].kind = "signup"
    <3>1. "Signup" \in Range(stack)
      BY <2>7, <2>10, PageOfIs
    <3>2. Len(stack) = 2 /\ stack[1] = "Login" /\ stack[2] = "Signup"
      BY <1>3, <3>1, BelowAndBelow DEF CartIsBelow
    <3>3. DOMAIN stack = 1..2
      BY <1>1, <3>2, Typed
    <3>4. k = 1 \/ k = 2
      BY <2>8, <3>3
    <3>5. QED
      BY <2>8, <3>2, <3>4 DEF PersonalPages
  <2>11. QED
    BY <2>2, <2>4, <2>9, <2>10
<1>7. QED
  BY <1>5, <1>6

\* An order of somebody who is signed out has its cause from the start.
LEMMA GoKeepsBuyers ==
  ASSUME PagesPart, PagesPart', BuyerInv, SignedOutUnlessLate, NEW n, NEW pg, Go(n, pg)
  PROVE  BuyerInv'
<1>1. /\ StateTyped /\ SessionInv /\ OrdersGo /\ CallsGo /\ ShownOnStack
  BY DEF PagesPart, SessionInv, AccountInv, PageInv, Go
<1>2. SUFFICES ASSUME NEW i \in DOMAIN orders', orders'[i].buyer = NoUser
               PROVE  LogoutLeft \/ SilentSignIn \/ LateDialog
  BY <1>1, LogoutLeftStays, SilentSignInStays, OrderCausesStay DEF BuyerInv
<1>3. CASE i \in DOMAIN orders
  BY <1>1, <1>2, <1>3 DEF OrdersGo, OrderAdvances, BuyerInv
<1>4. CASE i \notin DOMAIN orders /\ ~LateDialog
  <2>1. On("Checkout") /\ currentUser = NoUser
    BY <1>1, <1>2, <1>4 DEF OrdersGo
  <2>2. "Checkout" \in Range(stack)
    BY <1>1, <2>1, TopIs
  <2>3. stack[1] = "Cart" /\ OnStack(ShopPages)
    BY <2>2, BelowAndBelow DEF CartIsBelow, OnStack, ShopPages
  <2>4. SignedOutCause
    BY <1>4, <2>1, <2>3 DEF SignedOutUnlessLate, SignedOutInv
  <2>5. PICK c \in DOMAIN calls :
          \/ calls[c].kind = "logout" /\ (calls[c].phase = "ok" \/ calls[c].ended = "disposed")
          \/ calls[c].kind \in {"login", "signup"} /\ calls[c].ended = "leaving"
    BY <2>4 DEF SignedOutCause
  <2>6. CASE calls[c].kind = "logout" /\ calls[c].phase = "ok"
    <3>1. calls[c].host # "shown"
      <4> SUFFICES ASSUME calls[c].host = "shown" PROVE FALSE
        OBVIOUS
      <4>1. "Profile" \in Range(stack)
        BY <1>1, <2>6, PageOfIs DEF ShownOnStack
      <4>2. QED
        BY <2>3, <4>1, BelowAndBelow DEF CartIsBelow
    <3>2. QED
      BY <2>6, <3>1 DEF LogoutLeft
  <2>7. CASE calls[c].kind = "logout" /\ calls[c].ended = "disposed"
    BY <2>7 DEF LogoutLeft
  <2>8. CASE calls[c].kind \in {"login", "signup"} /\ calls[c].ended = "leaving"
    BY <2>8 DEF SilentSignIn
  <2>9. QED
    BY <2>5, <2>6, <2>7, <2>8
<1>5. QED
  BY <1>3, <1>4

\* Somebody who is signed out sees the shop for a reason.
LEMMA GoKeepsSignedOut ==
  ASSUME SignedOutUnlessLate, NEW n, NEW pg, Go(n, pg)
  PROVE  SignedOutUnlessLate'
<1>1. OrdersGo /\ (LateDialog' \/ KeepsSignedOut)
  BY DEF Go
<1>2. QED
  BY <1>1, OrderCausesStay DEF SignedOutUnlessLate, KeepsSignedOut

\* On the start screens nothing happens but that they go.
LEMMA GoKeepsStart ==
  ASSUME PagesPart, PagesPart', StartInv, NEW n, NEW pg, Go(n, pg)
  PROVE  StartInv'
<1>1. /\ StateTyped /\ SessionInv /\ StackMoved(n, pg) /\ Comes(n, pg) /\ OrdersGo /\ CallsGo
      /\ CartGo(n, pg) /\ NothingRunsAtStart /\ NothingRunsAtStart' /\ stack' \in Seq(Pages)
      /\ orders' \in Seq(Order)
  BY DEF PagesPart, SessionInv, AccountInv, StateTyped, PageInv, Go, PagesGo, OrdersGo
<1>2. SUFFICES ASSUME stack' # <<>>, stack'[1] \in Screens
      PROVE  /\ globalCart' = <<>> /\ orders' = <<>>
             /\ \A i \in DOMAIN calls' : calls'[i].phase \in {"failed", "lost", "past"}
  BY DEF StartInv
<1>3. stack # <<>> /\ stack[1] \in Screens
  <2>1. /\ n \in Nat /\ n <= Len(stack) /\ DOMAIN stack' = 1..Len(stack') /\ Len(stack') \in Nat
        /\ \A c \in 1..n : c \in DOMAIN stack /\ stack'[c] = stack[c]
        /\ \A c \in DOMAIN stack' : c <= n \/ (pg # "none" /\ c = n + 1 /\ stack'[c] = pg)
    BY <1>1, PagesAfter
  <2>2. Len(stack') # 0
    BY <1>1, <1>2, EmptySeq
  <2>3. 1 \in DOMAIN stack'
    BY <2>1, <2>2
  <2>4. CASE n > 0
    <3>1. stack'[1] = stack[1] /\ 1 \in DOMAIN stack
      BY <2>1, <2>4
    <3>2. QED
      BY <1>2, <3>1
  <2>5. CASE n = 0
    <3>1. pg \in Screens
      BY <1>2, <2>1, <2>3, <2>5
    <3>2. QED
      BY <1>1, <3>1 DEF Comes
  <2>6. QED
    BY <2>1, <2>4, <2>5
<1>4. /\ globalCart = <<>> /\ orders = <<>>
      /\ \A i \in DOMAIN calls : calls[i].phase \in {"failed", "lost", "past"}
      /\ Len(stack) = 1
  BY <1>1, <1>3 DEF StartInv, NothingRunsAtStart
<1>5. ~On("Checkout") /\ ~On("Desc") /\ ~On("Cart")
  BY <1>3, <1>4 DEF On, Top, Screens
<1>6. globalCart' = <<>>
  BY <1>1, <1>4, <1>5 DEF CartGo
<1>7. orders' = <<>>
  <2>1. DOMAIN orders = {}
    BY <1>4
  <2>2. \A j \in DOMAIN orders' : j \in DOMAIN orders
    BY <1>1, <1>5 DEF OrdersGo
  <2>3. DOMAIN orders' = {}
    BY <2>1, <2>2
  <2>4. QED
    BY <1>1, <2>3, LenProperties, EmptySeq
<1>8. ASSUME NEW i \in DOMAIN calls' PROVE calls'[i].phase \in {"failed", "lost", "past"}
  <2>1. i \in DOMAIN calls
    <3>1. calls'[i].host = "disposed"
      BY <1>1, <1>2, <1>8 DEF NothingRunsAtStart
    <3>2. QED
      BY <1>1, <1>8, <3>1 DEF CallsGo
  <2>2. QED
    BY <1>1, <1>4, <2>1, CallGoes DEF Advances
<1>9. QED
  BY <1>6, <1>7, <1>8

-----------------------------------------------------------------------------
(***************************************************************************)
(* Whose lines there are.                                                  *)
(***************************************************************************)
LinesPart == OwnOrders /\ OwnLines /\ LinesUnderLogin /\ UserSignedIn

\* What a step without a cause starts from and ends with.
NoCauseStep(n, pg) ==
  /\ PagesPart /\ PagesPart' /\ SpinningAlone /\ StartInv /\ LinesPart /\ Go(n, pg)
  /\ ~SilentSignIn' /\ ~SignedInAgain' /\ ~LogoutThrough'

\* A cause that is not there after a step was not there before.
LEMMA NoCauseBefore ==
  ASSUME NEW n, NEW pg, NoCauseStep(n, pg)
  PROVE  /\ ~SilentSignIn /\ ~SignedInAgain /\ ~LogoutThrough /\ ~LateLogin
         /\ StateTyped /\ SessionInv /\ StackMoved(n, pg) /\ Comes(n, pg)
         /\ OrdersGo /\ CallsGo /\ CartGo(n, pg) /\ UserGo /\ EndsGo(n, pg)
         /\ ShownOnStack /\ ShownOnStack' /\ CartIsBelow /\ CartIsBelow'
         /\ OwnOrders /\ OwnLines /\ LinesUnderLogin /\ UserSignedIn
<1>1. /\ PagesPart /\ PagesPart' /\ SessionInv /\ SessionInv' /\ CallsGo
      /\ ~SilentSignIn' /\ ~SignedInAgain' /\ ~LogoutThrough'
  BY DEF NoCauseStep, PagesPart, Go
<1>2. ~SilentSignIn /\ ~SignedInAgain /\ ~LogoutThrough
  BY <1>1, SilentSignInStays, SignedInAgainStays, LogoutThroughStays
<1>3. ~LateLogin
  BY <1>2 DEF LateLogin, SilentSignIn
<1>4. StateTyped /\ ShownOnStack /\ ShownOnStack'
  BY <1>1 DEF SessionInv, AccountInv, PageInv
<1>5. CartIsBelow /\ CartIsBelow'
  BY <1>1, BelowAndBelow
<1>6. /\ StackMoved(n, pg) /\ Comes(n, pg) /\ OrdersGo /\ CartGo(n, pg) /\ UserGo
      /\ EndsGo(n, pg)
  BY DEF NoCauseStep, Go, PagesGo
<1>7. OwnOrders /\ OwnLines /\ LinesUnderLogin /\ UserSignedIn
  BY DEF NoCauseStep, LinesPart
<1>8. QED
  BY <1>1, <1>2, <1>3, <1>4, <1>5, <1>6, <1>7

\* A sign-in that went through but has not ended has its page, and so the
\* login page, on the stack.
LEMMA SignInBelow ==
  ASSUME NEW n, NEW pg, NoCauseStep(n, pg), NEW i \in DOMAIN calls',
         calls'[i].kind \in {"login", "signup"}, calls'[i].phase \in Between
  PROVE  "Login" \in Range(stack')
<1>1. calls'[i].host = "shown"
  BY DEF NoCauseStep, SilentSignIn, Between
<1>2. PageOf(calls'[i].kind) \in Range(stack')
  BY <1>1, NoCauseBefore DEF ShownOnStack
<1>3. "Login" \in Range(stack') \/ "Signup" \in Range(stack')
  BY <1>2, PageOfIs
<1>4. "Signup" \in Range(stack') => 1 \in DOMAIN stack' /\ stack'[1] = "Login"
  BY NoCauseBefore DEF CartIsBelow
<1>5. QED
  BY <1>3, <1>4, InRange

\* Once somebody has signed in, who is signed in is one of them.
LEMMA GoKeepsUserSignedIn ==
  ASSUME NEW n, NEW pg, NoCauseStep(n, pg)
  PROVE  UserSignedIn'
<1>1. SessionInv /\ CallsGo /\ UserGo /\ UserSignedIn /\ ~LogoutThrough'
  BY NoCauseBefore DEF NoCauseStep
<1>2. SUFFICES ASSUME NEW j \in DOMAIN calls', calls'[j].kind \in {"login", "signup"},
                      calls'[j].phase \in Between \cup {"done"}
      PROVE  \E i \in DOMAIN calls' : /\ calls'[i].kind \in {"login", "signup"}
                                      /\ calls'[i].phase \in Between \cup {"done", "failed"}
                                      /\ calls'[i].user = currentUser'
  BY DEF UserSignedIn
<1>3. j \in DOMAIN calls
  BY <1>1, <1>2 DEF CallsGo, Between
<1>4. Advances(calls[j], calls'[j]) /\ calls[j].kind \in {"login", "signup"}
  BY <1>1, <1>2, <1>3, CallGoes DEF Advances
<1>5. ASSUME NEW i \in DOMAIN calls, calls[i].kind \in {"login", "signup"},
             calls[i].phase = "sent", calls'[i].phase = "ok"
      PROVE  \E c \in DOMAIN calls' : /\ calls'[c].kind \in {"login", "signup"}
                                      /\ calls'[c].phase \in Between \cup {"done", "failed"}
                                      /\ calls'[c].user = currentUser'
  <2>1. currentUser' = calls[i].user
    BY <1>1, <1>5 DEF UserGo
  <2>2. i \in DOMAIN calls' /\ Advances(calls[i], calls'[i])
    BY <1>1, CallGoes
  <2>3. QED
    BY <1>5, <2>1, <2>2 DEF Advances, Between
<1>6. CASE calls[j].phase = "sent"
  <2>1. calls'[j].phase = "ok"
    BY <1>2, <1>4, <1>6 DEF Advances, Between
  <2>2. QED
    BY <1>3, <1>4, <1>5, <1>6, <2>1
<1>7. CASE calls[j].phase # "sent" /\ currentUser' = currentUser
  <2>1. calls[j].phase \in Between \cup {"done"}
    BY <1>2, <1>4, <1>7 DEF Advances, Between
  <2>2. PICK i \in DOMAIN calls : /\ calls[i].kind \in {"login", "signup"}
                                  /\ calls[i].phase \in Between \cup {"done", "failed"}
                                  /\ calls[i].user = currentUser
    BY <1>1, <1>3, <1>4, <2>1 DEF UserSignedIn
  <2>3. i \in DOMAIN calls' /\ Advances(calls[i], calls'[i])
    BY <1>1, CallGoes
  <2>4. /\ calls'[i].kind \in {"login", "signup"} /\ calls'[i].user = currentUser
        /\ calls'[i].phase \in Between \cup {"done", "failed"}
    BY <2>2, <2>3 DEF Advances, Between
  <2>5. QED
    BY <1>7, <2>3, <2>4
<1>8. CASE currentUser' # currentUser
  <2>1. PICK i \in DOMAIN calls : /\ calls[i].phase = "sent" /\ calls'[i].phase = "ok"
                                  /\ calls[i].kind \in {"login", "signup", "logout"}
    BY <1>1, <1>8 DEF UserGo
  <2>2. calls[i].kind # "logout"
    <3>1. i \in DOMAIN calls' /\ Advances(calls[i], calls'[i])
      BY <1>1, CallGoes
    <3>2. QED
      BY <1>1, <2>1, <3>1 DEF Advances, LogoutThrough
  <2>3. QED
    BY <1>5, <2>1, <2>2
<1>9. QED
  BY <1>6, <1>7, <1>8

\* Who has logged in has done so until the app is started again.
LEMMA LoggedInStays ==
  ASSUME SessionInv, CallsGo, NEW o, LoggedIn(o)
  PROVE  LoggedIn(o)'
<1>1. PICK j \in DOMAIN calls :
        calls[j].kind = "login" /\ calls[j].phase = "done" /\ calls[j].user = o
  BY DEF LoggedIn
<1>2. /\ calls'[j].kind = "login" /\ calls'[j].phase = "done" /\ calls'[j].user = o
      /\ j \in DOMAIN calls'
  BY <1>1, CallGoes DEF Advances
<1>3. QED
  BY <1>2 DEF LoggedIn

\* A signup that ends with its page mounted leaves no login page.
LEMMA NoSignupDone ==
  ASSUME NEW n, NEW pg, NoCauseStep(n, pg), "Login" \in Range(stack'),
         \A i \in DOMAIN calls : ~ (calls[i].kind = "signup" /\ calls[i].phase = "done")
  PROVE  \A i \in DOMAIN calls' : ~ (calls'[i].kind = "signup" /\ calls'[i].phase = "done")
<1>1. /\ SessionInv /\ CallsGo /\ EndsGo(n, pg) /\ StackMoved(n, pg) /\ CartIsBelow'
      /\ ~SilentSignIn'
  BY NoCauseBefore DEF NoCauseStep
<1>2. SUFFICES ASSUME NEW i \in DOMAIN calls', calls'[i].kind = "signup", calls'[i].phase = "done"
               PROVE  FALSE
  OBVIOUS
<1>3. i \in DOMAIN calls
  BY <1>1, <1>2 DEF CallsGo
<1>4. Advances(calls[i], calls'[i])
  BY <1>1, <1>3, CallGoes
<1>5. /\ calls[i].kind = "signup" /\ calls[i].phase \in {"ok", "docOk"}
      /\ calls'[i].ended = calls[i].host
  BY <1>2, <1>3, <1>4 DEF Advances
<1>6. calls[i].host # "disposed"
  BY <1>1, <1>2, <1>5 DEF SilentSignIn
<1>7. n = 0 /\ pg = "Home"
  BY <1>1, <1>2, <1>3, <1>5, <1>6 DEF EndsGo, Ended
<1>8. stack'[1] = "Home"
  BY <1>1, <1>7 DEF StackMoved
<1>9. stack'[1] = "Login"
  BY <1>1 DEF CartIsBelow
<1>10. QED
  BY <1>8, <1>9

\* Who adds to the cart with a login page below is who logged in.
LEMMA NewLineIsLoggedIn ==
  ASSUME NEW n, NEW pg, NoCauseStep(n, pg), "Login" \in Range(stack), On("Desc")
  PROVE  LoggedIn(currentUser)
<1>1. /\ StateTyped /\ SessionInv /\ ~SilentSignIn /\ ~SignedInAgain /\ ~LateLogin
      /\ LinesUnderLogin /\ UserSignedIn /\ ShownOnStack /\ CartIsBelow
  BY NoCauseBefore
<1>2. SpinningAlone
  BY DEF NoCauseStep
<1>3. Len(stack) \in DOMAIN stack /\ stack[Len(stack)] = "Desc" /\ "Desc" \in Range(stack)
  BY <1>1, TopIs
<1>4. OnStack(ShopPages)
  BY <1>3 DEF OnStack, ShopPages
<1>5. PICK d \in DOMAIN calls : calls[d].kind \in {"login", "signup"} /\ calls[d].phase = "done"
  BY <1>1, <1>4 DEF SessionInv, PageInv, ShopOnlyAfterSignIn
<1>6. calls[d].kind = "login"
  BY <1>1, <1>5 DEF LinesUnderLogin
<1>7. PICK w \in DOMAIN calls : /\ calls[w].kind \in {"login", "signup"}
                                /\ calls[w].phase \in Between \cup {"done", "failed"}
                                /\ calls[w].user = currentUser
  BY <1>1, <1>5 DEF UserSignedIn
<1>8. CASE calls[w].phase \in {"done", "failed"}
  <2>1. calls[d].user = calls[w].user
    BY <1>1, <1>5, <1>6, <1>7, <1>8 DEF SignedInAgain
  <2>2. QED
    BY <1>5, <1>6, <1>7, <2>1 DEF LoggedIn
<1>9. CASE calls[w].phase \in Between
  <2>1. calls[w].host = "shown"
    BY <1>1, <1>7, <1>9 DEF SilentSignIn, Between
  <2>2. CASE calls[w].kind = "login"
    <3>1. Spinning # {}
      BY <1>9, <2>1, <2>2 DEF Spinning, Ended, Between
    <3>2. QED
      BY <1>1, <1>2, <1>4, <3>1 DEF SpinningAlone
  <2>3. CASE calls[w].kind = "signup"
    <3>1. "Signup" \in Range(stack)
      BY <1>1, <2>1, <2>3, PageOfIs DEF ShownOnStack
    <3>2. ~LateDialog
      BY <1>1 DEF LinesUnderLogin, LateDialog
    <3>3. Len(stack) = 2 /\ stack[2] = "Signup"
      BY <1>1, <3>1, <3>2 DEF CartIsBelow
    <3>4. QED
      BY <1>3, <3>3
  <2>4. QED
    BY <1>7, <2>2, <2>3
<1>10. QED
  BY <1>7, <1>8, <1>9

\* Orders, lines and signups while there is a login page.
LEMMA GoKeepsLinesUnderLogin ==
  ASSUME NEW n, NEW pg, NoCauseStep(n, pg)
  PROVE  LinesUnderLogin'
<1>1. /\ StateTyped /\ SessionInv /\ StackMoved(n, pg) /\ Comes(n, pg) /\ OrdersGo /\ CallsGo
      /\ CartGo(n, pg) /\ LinesUnderLogin /\ CartIsBelow /\ ~LogoutThrough' /\ StartInv
      /\ NothingRunsAtStart /\ orders' \in Seq(Order)
  BY NoCauseBefore DEF NoCauseStep, OrdersGo, SessionInv, PageInv
<1>2. SUFFICES ASSUME "Login" \in Range(stack')
      PROVE  /\ orders' = <<>>
             /\ \A o \in Range(globalCart') : LoggedIn(o)'
             /\ \A i \in DOMAIN calls' : ~ (calls'[i].kind = "signup" /\ calls'[i].phase = "done")
  BY DEF LinesUnderLogin, LoggedIn
<1>3. ASSUME orders = <<>>, ~On("Checkout") PROVE orders' = <<>>
  <2>1. DOMAIN orders = {}
    BY <1>3
  <2>2. \A j \in DOMAIN orders' : j \in DOMAIN orders
    BY <1>1, <1>3 DEF OrdersGo
  <2>3. DOMAIN orders' = {}
    BY <2>1, <2>2
  <2>4. QED
    BY <1>1, <2>3, LenProperties, EmptySeq
<1>4. CASE "Login" \in Range(stack)
  <2>1. stack[1] = "Login"
    BY <1>1, <1>4 DEF CartIsBelow
  <2>2. /\ orders = <<>> /\ \A o \in Range(globalCart) : LoggedIn(o)
        /\ \A i \in DOMAIN calls : ~ (calls[i].kind = "signup" /\ calls[i].phase = "done")
    BY <1>1, <1>4 DEF LinesUnderLogin
  <2>3. ~On("Checkout")
    BY <1>1, <2>1, TopIs DEF CartIsBelow
  <2>4. orders' = <<>>
    BY <1>3, <2>2, <2>3
  <2>5. ASSUME NEW o \in Range(globalCart') PROVE LoggedIn(o)'
    <3>1. CASE o \in Range(globalCart)
      BY <1>1, <2>2, <3>1, LoggedInStays
    <3>2. CASE On("Desc") /\ o = currentUser
      <4>1. LoggedIn(currentUser)
        BY <1>4, <3>2, NewLineIsLoggedIn
      <4>2. LoggedIn(o)
        BY <3>2, <4>1 DEF LoggedIn
      <4>3. QED
        BY <1>1, <4>2, LoggedInStays
    <3>3. globalCart' # <<>>
      BY <2>5, InRange
    <3>4. QED
      BY <1>1, <2>5, <3>1, <3>2, <3>3 DEF CartGo
  <2>6. QED
    BY <1>2, <2>2, <2>4, <2>5, NoSignupDone
<1>5. CASE "Login" \notin Range(stack)
  <2>1. pg = "Login"
    BY <1>1, <1>2, <1>5, StillThere
  <2>2. stack # <<>> /\ stack[1] \in Screens
    BY <1>1, <2>1 DEF Comes
  <2>3. /\ globalCart = <<>> /\ orders = <<>> /\ Len(stack) = 1
        /\ \A i \in DOMAIN calls : calls[i].phase \in {"failed", "lost", "past"}
    BY <1>1, <2>2 DEF StartInv, NothingRunsAtStart
  <2>4. ~On("Checkout") /\ ~On("Desc") /\ ~On("Cart")
    BY <2>2, <2>3 DEF On, Top, Screens
  <2>5. orders' = <<>>
    BY <1>3, <2>3, <2>4
  <2>6. globalCart' = <<>>
    BY <1>1, <2>3, <2>4 DEF CartGo
  <2>7. \A o \in Range(globalCart') : LoggedIn(o)'
    BY <2>6, InRange
  <2>8. \A i \in DOMAIN calls : ~ (calls[i].kind = "signup" /\ calls[i].phase = "done")
    BY <2>3
  <2>9. QED
    BY <1>2, <2>5, <2>7, <2>8, NoSignupDone
<1>6. QED
  BY <1>4, <1>5

\* Without a login page on the stack, nobody signs in.
LEMMA SameUser ==
  ASSUME NEW n, NEW pg, NoCauseStep(n, pg), "Login" \notin Range(stack')
  PROVE  currentUser' = currentUser
<1>1. SessionInv /\ CallsGo /\ UserGo /\ ~LogoutThrough'
  BY NoCauseBefore DEF NoCauseStep
<1>2. SUFFICES ASSUME currentUser' # currentUser PROVE FALSE
  OBVIOUS
<1>3. PICK i \in DOMAIN calls : /\ calls[i].phase = "sent" /\ calls'[i].phase = "ok"
                                /\ calls[i].kind \in {"login", "signup", "logout"}
  BY <1>1, <1>2 DEF UserGo
<1>4. i \in DOMAIN calls' /\ calls'[i].kind = calls[i].kind
  BY <1>1, CallGoes DEF Advances
<1>5. calls[i].kind # "logout"
  BY <1>1, <1>3, <1>4 DEF LogoutThrough
<1>6. QED
  BY <1>3, <1>4, <1>5, SignInBelow DEF Between

\* Who has logged in is who is signed in.
LEMMA LoggedInIsUser ==
  ASSUME NEW n, NEW pg, NoCauseStep(n, pg), "Login" \notin Range(stack'), NEW o, LoggedIn(o)
  PROVE  o = currentUser
<1>1. SessionInv /\ CallsGo /\ UserSignedIn /\ ~SignedInAgain'
  BY NoCauseBefore DEF NoCauseStep
<1>2. PICK d \in DOMAIN calls :
        calls[d].kind = "login" /\ calls[d].phase = "done" /\ calls[d].user = o
  BY DEF LoggedIn
<1>3. PICK w \in DOMAIN calls : /\ calls[w].kind \in {"login", "signup"}
                                /\ calls[w].phase \in Between \cup {"done", "failed"}
                                /\ calls[w].user = currentUser
  BY <1>1, <1>2 DEF UserSignedIn
<1>4. /\ d \in DOMAIN calls' /\ calls'[d].kind = "login" /\ calls'[d].phase = "done"
      /\ calls'[d].user = o
  BY <1>1, <1>2, CallGoes DEF Advances
<1>5. /\ w \in DOMAIN calls' /\ calls'[w].kind \in {"login", "signup"}
      /\ calls'[w].phase \in Between \cup {"done", "failed"} /\ calls'[w].user = currentUser
  BY <1>1, <1>3, CallGoes DEF Advances, Between
<1>6. calls'[w].phase \in {"done", "failed"}
  BY <1>5, SignInBelow
<1>7. QED
  BY <1>1, <1>4, <1>5, <1>6 DEF SignedInAgain

\* The lines of the cart, of its page and of the checkout page.
LEMMA GoKeepsOwnLines ==
  ASSUME NEW n, NEW pg, NoCauseStep(n, pg)
  PROVE  OwnLines'
<1>1. /\ StateTyped /\ CartGo(n, pg) /\ LinesUnderLogin /\ OwnLines /\ CartIsBelow /\ ShopTyped
  BY NoCauseBefore DEF NoCauseStep, PagesPart
<1>2. SUFFICES ASSUME "Login" \notin Range(stack')
      PROVE  Range(globalCart') \cup Range(rows') \cup Range(totalAmount') \subseteq {currentUser'}
  BY DEF OwnLines
<1>3. currentUser' = currentUser
  BY <1>2, SameUser
<1>4. Range(globalCart) \cup Range(rows) \cup Range(totalAmount) \subseteq {currentUser}
  <2>1. CASE "Login" \notin Range(stack)
    BY <1>1, <2>1 DEF OwnLines
  <2>2. CASE "Login" \in Range(stack)
    <3>1. rows = <<>> /\ totalAmount = <<>>
      BY <1>1, <2>2 DEF CartIsBelow, ShopTyped
    <3>2. \A o \in Range(globalCart) : o = currentUser
      BY <1>1, <1>2, <2>2, LoggedInIsUser DEF LinesUnderLogin
    <3>3. Range(rows) = {} /\ Range(totalAmount) = {}
      BY <3>1, InRange
    <3>4. QED
      BY <3>2, <3>3
  <2>3. QED
    BY <2>1, <2>2
<1>5. Range(globalCart') \subseteq {currentUser}
  <2>1. globalCart' = <<>> => Range(globalCart') = {}
    BY InRange
  <2>2. QED
    BY <1>1, <1>4, <2>1 DEF CartGo
<1>6. Range(rows') \subseteq {currentUser}
  <2>1. rows' = <<>> => Range(rows') = {}
    BY InRange
  <2>2. QED
    BY <1>1, <1>4, <1>5, <2>1 DEF CartGo
<1>7. Range(totalAmount') \subseteq {currentUser}
  <2>1. totalAmount' = <<>> => Range(totalAmount') = {}
    BY InRange
  <2>2. QED
    BY <1>1, <1>4, <1>5, <2>1 DEF CartGo
<1>8. QED
  BY <1>3, <1>5, <1>6, <1>7

\* An order takes the lines there are.
LEMMA GoKeepsOwnOrders ==
  ASSUME NEW n, NEW pg, NoCauseStep(n, pg)
  PROVE  OwnOrders'
<1>1. /\ StateTyped /\ OrdersGo /\ OwnLines /\ OwnOrders /\ CartIsBelow
  BY NoCauseBefore
<1>2. SUFFICES ASSUME NEW i \in DOMAIN orders'
      PROVE  Range(orders'[i].lines) \cup Range(orders'[i].amount) \subseteq {orders'[i].buyer}
  BY DEF OwnOrders
<1>3. CASE i \in DOMAIN orders
  <2>1. OrderAdvances(orders[i], orders'[i])
    BY <1>1, <1>3 DEF OrdersGo
  <2>2. Range(orders[i].lines) \cup Range(orders[i].amount) \subseteq {orders[i].buyer}
    BY <1>1, <1>3 DEF OwnOrders
  <2>3. QED
    BY <2>1, <2>2 DEF OrderAdvances
<1>4. CASE i \notin DOMAIN orders
  <2>1. /\ On("Checkout") /\ orders'[i].buyer = currentUser
        /\ orders'[i].lines = globalCart /\ orders'[i].amount = totalAmount
    BY <1>1, <1>2, <1>4 DEF OrdersGo
  <2>2. "Checkout" \in Range(stack)
    BY <1>1, <2>1, TopIs
  <2>3. "Login" \notin Range(stack)
    BY <1>1, <2>2 DEF CartIsBelow
  <2>4. QED
    BY <1>1, <2>1, <2>3 DEF OwnLines
<1>5. QED
  BY <1>3, <1>4

\* Lines and orders are of one person unless there is a cause.
LEMMA GoKeepsForeign ==
  ASSUME PagesPart, PagesPart', SpinningAlone, StartInv, ForeignInv, NEW n, NEW pg, Go(n, pg)
  PROVE  ForeignInv'
<1>1. SUFFICES ASSUME ~ForeignCause' PROVE LinesPart'
  BY DEF ForeignInv, LinesPart
<1>2. ~SilentSignIn' /\ ~SignedInAgain' /\ ~LogoutThrough'
  BY <1>1 DEF ForeignCause
<1>3. SessionInv /\ CallsGo
  BY DEF PagesPart, Go
<1>4. ~ForeignCause
  BY <1>2, <1>3, SilentSignInStays, SignedInAgainStays, LogoutThroughStays DEF ForeignCause
<1>5. NoCauseStep(n, pg)
  BY <1>2, <1>4 DEF NoCauseStep, LinesPart, ForeignInv
<1>6. QED
  BY <1>5, GoKeepsOwnOrders, GoKeepsOwnLines, GoKeepsLinesUnderLogin, GoKeepsUserSignedIn
     DEF LinesPart

\* The steps of the running app keep the invariant.
LEMMA GoKeeps ==
  ASSUME ShopInv, NEW n, NEW pg, Go(n, pg)
  PROVE  ShopInv'
<1>1. /\ PagesPart /\ CartTrue /\ SpinningAlone /\ PagesShowTheirUser /\ BuyerInv
      /\ SignedOutUnlessLate /\ StartInv /\ ForeignInv
  BY DEF ShopInv, CausePart
<1>2. PagesPart'
  BY <1>1, GoKeepsPages
<1>3. CartTrue' /\ SpinningAlone' /\ PagesShowTheirUser' /\ BuyerInv'
  BY <1>1, <1>2, GoKeepsCart, GoKeepsSpinning, GoKeepsShown, GoKeepsBuyers
<1>4. SignedOutUnlessLate' /\ StartInv' /\ ForeignInv'
  BY <1>1, <1>2, GoKeepsSignedOut, GoKeepsStart, GoKeepsForeign
<1>5. QED
  BY <1>2, <1>3, <1>4 DEF ShopInv, CausePart

-----------------------------------------------------------------------------
(***************************************************************************)
(* The start of the app, the first and every other one.                    *)
(***************************************************************************)
JustStarted ==
  /\ SessionInv /\ SignedOutInv /\ BuiltTyped
  /\ stack = <<"Loading">> /\ globalCart = <<>> /\ rows = <<>> /\ totalAmount = <<>>
  /\ orders = <<>>
  /\ \A i \in DOMAIN calls : calls[i].phase \in {"failed", "lost", "past"}

\* The start screen of an app with nothing under way.
LEMMA JustStartedIsFine == JustStarted => ShopInv
<1> SUFFICES ASSUME JustStarted PROVE ShopInv
  OBVIOUS
<1>1. /\ SessionInv /\ SignedOutInv /\ BuiltTyped /\ stack = <<"Loading">>
      /\ globalCart = <<>> /\ rows = <<>> /\ totalAmount = <<>> /\ orders = <<>>
      /\ \A i \in DOMAIN calls : calls[i].phase \in {"failed", "lost", "past"}
  BY DEF JustStarted
<1>2. DOMAIN stack = {1} /\ stack[1] = "Loading"
  BY <1>1
<1>3. DOMAIN orders = {} /\ DOMAIN globalCart = {}
  BY <1>1
<1>4. Range(stack) = {"Loading"} /\ Range(globalCart) = {} /\ Range(rows) = {}
      /\ Range(totalAmount) = {}
  BY <1>1, <1>2, <1>3, InRange
<1>5. ShopTyped
  BY <1>1, EmptySeq DEF ShopTyped
<1>6. ShopShape
  BY <1>2 DEF ShopShape
<1>7. OrderInv
  BY <1>1, <1>3 DEF OrderInv
<1>8. ~OnStack(ShopPages)
  BY <1>4 DEF OnStack, ShopPages
<1>9. CartTrue /\ SpinningAlone
  BY <1>4, <1>8 DEF CartTrue, SpinningAlone
<1>10. PagesShowTheirUser
  BY <1>2 DEF PagesShowTheirUser, PersonalPages
<1>11. BuyerInv /\ SignedOutUnlessLate /\ StartInv
  BY <1>1, <1>3 DEF BuyerInv, SignedOutUnlessLate, StartInv
<1>12. OwnOrders /\ OwnLines /\ LinesUnderLogin
  BY <1>3, <1>4 DEF OwnOrders, OwnLines, LinesUnderLogin
<1>13. UserSignedIn
  <2>1. \A i \in DOMAIN calls : calls[i].phase \notin Between \cup {"done"}
    BY <1>1 DEF Between
  <2>2. QED
    BY <2>1 DEF UserSignedIn
<1>14. PagesPart
  BY <1>1, <1>5, <1>6, <1>7 DEF PagesPart
<1>15. CausePart
  BY <1>9, <1>10, <1>11, <1>12, <1>13 DEF CausePart, ForeignInv
<1>16. QED
  BY <1>14, <1>15 DEF ShopInv

\* The first start.
LEMMA ShopInitKeeps == ShopInit => ShopInv
<1> SUFFICES ASSUME ShopInit PROVE ShopInv
  OBVIOUS
<1>1. Init /\ builtFor = <<currentUser>> /\ globalCart = <<>> /\ rows = <<>>
      /\ totalAmount = <<>> /\ orders = <<>>
  BY DEF ShopInit
<1>2. SessionInv /\ SignedOutInv /\ StateTyped
  BY <1>1, InitKeeps DEF SessionInv, AccountInv
<1>3. stack = <<"Loading">> /\ calls = <<>>
  BY <1>1 DEF Init
<1>4. currentUser \in Owners
  BY <1>2 DEF StateTyped, Owners
<1>5. BuiltTyped
  BY <1>1, <1>3, <1>4 DEF BuiltTyped
<1>6. DOMAIN calls = {}
  BY <1>3
<1>7. JustStarted
  BY <1>1, <1>2, <1>3, <1>5, <1>6 DEF JustStarted
<1>8. QED
  BY <1>7, JustStartedIsFine

\* Who each page was built for, after a page has come on top.
LEMMA NewTopIs ==
  ASSUME StateTyped, BuiltTyped, NEW n, NEW pg, StackMoved(n, pg), pg # "none", NewTop
  PROVE  /\ builtFor' \in Seq(Owners) /\ Len(builtFor') = Len(stack')
         /\ \A k \in 1..n : builtFor'[k] = builtFor[k]
         /\ builtFor'[n + 1] = currentUser
<1>1. /\ n \in Nat /\ n <= Len(stack) /\ Len(stack') = n + 1 /\ Len(stack) \in Nat
      /\ currentUser \in Owners /\ builtFor \in Seq(Owners) /\ Len(builtFor) = Len(stack)
  BY Typed DEF StackMoved, StateTyped, Owners, BuiltTyped
<1>2. Len(stack') - 1 = n
  BY <1>1
<1>3. builtFor' = Append(SubSeq(builtFor, 1, n), currentUser)
  BY <1>2 DEF NewTop
<1>4. PICK s : s = SubSeq(builtFor, 1, n)
  OBVIOUS
<1>5. /\ s \in Seq(Owners) /\ Len(s) = n /\ DOMAIN s = 1..n
      /\ \A k \in 1..n : s[k] = builtFor[k]
  <2>1. /\ s \in Seq(Owners) /\ Len(s) = n + 1 - 1 /\ DOMAIN s = 1..(n + 1 - 1)
        /\ \A k \in 1..(n + 1 - 1) : s[k] = builtFor[1 + k - 1]
    BY <1>1, <1>4, PartIs
  <2>2. n + 1 - 1 = n /\ \A k \in 1..n : 1 + k - 1 = k
    BY <1>1
  <2>3. QED
    BY <2>1, <2>2
<1>6. QED
  BY <1>1, <1>3, <1>4, <1>5, OneElementIsAdded

\* The same after pages have gone.
LEMMA ShortenedIs ==
  ASSUME StateTyped, BuiltTyped, NEW n, StackMoved(n, "none"), Shortened
  PROVE  /\ builtFor' \in Seq(Owners) /\ Len(builtFor') = Len(stack')
         /\ \A k \in 1..n : builtFor'[k] = builtFor[k]
<1>1. /\ n \in Nat /\ n <= Len(stack) /\ Len(stack') = n /\ Len(stack) \in Nat
      /\ builtFor \in Seq(Owners) /\ Len(builtFor) = Len(stack)
  BY Typed DEF StackMoved, BuiltTyped
<1>2. builtFor' = SubSeq(builtFor, 1, n)
  BY <1>1 DEF Shortened
<1>3. /\ builtFor' \in Seq(Owners) /\ Len(builtFor') = n + 1 - 1
      /\ \A k \in 1..(n + 1 - 1) : builtFor'[k] = builtFor[1 + k - 1]
  BY <1>1, <1>2, PartIs
<1>4. n + 1 - 1 = n /\ \A k \in 1..n : 1 + k - 1 = k
  BY <1>1
<1>5. QED
  BY <1>1, <1>3, <1>4

\* Every other start: the cart and the orders under way are lost.
LEMMA RestartAppKeeps == ShopInv /\ RestartApp => ShopInv'
<1> SUFFICES ASSUME ShopInv, RestartApp PROVE ShopInv'
  OBVIOUS
<1>1. /\ SessionInv /\ StateTyped /\ BuiltTyped /\ Restart /\ NewTop
      /\ globalCart' = <<>> /\ rows' = <<>> /\ totalAmount' = <<>> /\ orders' = <<>>
  BY DEF ShopInv, PagesPart, SessionInv, AccountInv, RestartApp
<1>2. SessionInv' /\ SignedOutInv'
  BY <1>1, RestartKeeps
<1>3. stack' = <<"Loading">>
  BY <1>1 DEF Restart
<1>4. StackMoved(0, "Loading")
  BY <1>1, <1>3, RemovesAll DEF Pages, StartPages
<1>5. BuiltTyped'
  BY <1>1, <1>4, NewTopIs DEF BuiltTyped
<1>6. ASSUME NEW i \in DOMAIN calls' PROVE calls'[i].phase \in {"failed", "lost", "past"}
  <2>1. i \in DOMAIN calls
        /\ calls'[i].phase = IF calls[i].phase = "done" THEN "past"
                             ELSE IF calls[i].phase \in Ended THEN calls[i].phase ELSE "lost"
    BY <1>1, <1>6, RestartEnds
  <2>2. QED
    BY <2>1 DEF Ended
<1>7. JustStarted'
  BY <1>1, <1>2, <1>3, <1>5, <1>6 DEF JustStarted
<1>8. (JustStarted => ShopInv)'
  BY JustStartedIsFine, PTL
<1>9. QED
  BY <1>7, <1>8

-----------------------------------------------------------------------------
(***************************************************************************)
(* Every step of the running app goes.  First its parts.                   *)
(***************************************************************************)
GoesOn(i, ph, e) ==
  \/ /\ e = calls[i].ended
     /\ \/ calls[i].phase = "sent" /\ ph \in {"ok", "error"}
        \/ calls[i].phase = "ok" /\ calls[i].kind = "signup" /\ ph = "sentDoc"
        \/ calls[i].phase = "sentDoc" /\ ph \in {"docOk", "docError"}
        \/ calls[i].phase = "error" /\ calls[i].kind \in {"logout", "save"} /\ ph = "failed"
  \/ /\ e = calls[i].host
     /\ \/ calls[i].phase \in {"ok", "docOk"} /\ ph = "done"
        \/ calls[i].phase \in {"error", "docError"} /\ ph = "failed"

\* One call goes on, or none does, and pages leave.
LEMMA MovedGoes ==
  ASSUME StateTyped, NEW i, NEW ph, NEW e, NEW gone, Moved(calls, calls', i, ph, e, gone),
         i \in DOMAIN calls => GoesOn(i, ph, e)
  PROVE  CallsGo
<1>1. DOMAIN calls' = DOMAIN calls
  BY DEF Moved
<1>2. ASSUME NEW j \in DOMAIN calls PROVE Advances(calls[j], calls'[j])
  <2>1. /\ calls'[j].kind = calls[j].kind /\ calls'[j].user = calls[j].user
        /\ calls'[j].phase = IF j = i THEN ph ELSE calls[j].phase
        /\ calls'[j].ended = IF j = i THEN e ELSE calls[j].ended
        /\ calls[j].host # "shown" => calls'[j].host # "shown"
    BY DEF Moved
  <2>2. CASE j = i
    BY <2>1, <2>2 DEF Advances, GoesOn
  <2>3. CASE j # i
    BY <2>1, <2>3 DEF Advances
  <2>4. QED
    BY <2>2, <2>3
<1>3. QED
  BY <1>1, <1>2 DEF CallsGo

\* The user stays when no sign-in or logout is answered.
LEMMA UserStays ==
  ASSUME NEW i, NEW ph, NEW e, NEW gone, Moved(calls, calls', i, ph, e, gone),
         i \in DOMAIN calls => ph # "ok" \/ calls[i].kind = "save", currentUser' = currentUser
  PROVE  UserGo
BY DEF Moved, UserGo

\* What a step without the end of a logout or signup need not say.
LEMMA NoEnd ==
  ASSUME NEW i, NEW ph, NEW e, NEW gone, Moved(calls, calls', i, ph, e, gone), NEW n, NEW pg,
         i \in DOMAIN calls => ph # "done" \/ calls[i].kind \in {"login", "save"}
  PROVE  EndsGo(n, pg)
<1> SUFFICES ASSUME NEW j \in DOMAIN calls, calls[j].phase \notin Ended, calls'[j].phase = "done"
             PROVE  calls[j].kind \notin {"logout", "signup"}
  BY DEF EndsGo
<1>1. j = i
  BY DEF Moved, Ended
<1>2. ph = "done"
  BY <1>1 DEF Moved
<1>3. QED
  BY <1>1, <1>2

\* Steps in which no call goes on.
LEMMA CallsRest ==
  ASSUME StateTyped, NEW gone, Moved(calls, calls', 0, "sent", "no", gone),
         currentUser' = currentUser, NEW n, NEW pg
  PROVE  CallsGo /\ UserGo /\ EndsGo(n, pg)
<1>1. 0 \notin DOMAIN calls
  BY Typed
<1>2. QED
  BY <1>1, MovedGoes, UserStays, NoEnd

\* No call goes on.
LEMMA CallsSame ==
  ASSUME StateTyped, UNCHANGED calls
  PROVE  Moved(calls, calls', 0, "sent", "no", {})
<1>1. \A j \in DOMAIN calls : j # 0
  BY Typed
<1>2. QED
  BY <1>1 DEF Moved, StateTyped

\* The pages that stay.
LEMMA NoneGone ==
  ASSUME StateTyped, NEW n, NEW pg, StackMoved(n, pg), n = Len(stack), NEW p, p \in Range(stack)
  PROVE  p \in Range(stack')
<1>1. PICK k \in DOMAIN stack : stack[k] = p
  BY InRange
<1>2. k \in DOMAIN stack' /\ stack'[k] = stack[k]
  BY <1>1, PagesAfter, Typed
<1>3. QED
  BY <1>1, <1>2, InRange

\* Orders and what the cart pages show, in a step that does not touch them.
LEMMA ShopRests ==
  ASSUME PagesPart, UNCHANGED shop, NEW n, NEW pg, pg \notin {"Cart", "Checkout"},
         "Cart" \in Range(stack) => "Cart" \in Range(stack'),
         "Checkout" \in Range(stack) => "Checkout" \in Range(stack')
  PROVE  OrdersGo /\ CartGo(n, pg)
<1>1. ShopTyped /\ OrderInv
  BY DEF PagesPart
<1>2. orders' = orders /\ globalCart' = globalCart /\ rows' = rows /\ totalAmount' = totalAmount
  BY DEF shop
<1>3. OrdersGo
  BY <1>1, <1>2 DEF OrdersGo, OrderAdvances, ShopTyped, OrderInv
<1>4. CartGo(n, pg)
  BY <1>1, <1>2 DEF CartGo, ShopTyped
<1>5. QED
  BY <1>3, <1>4

\* An order and its fields.
LEMMA OrderFields ==
  ASSUME NEW o \in Order
  PROVE  /\ o.buyer \in Owners /\ o.lines \in Seq(Owners) /\ o.amount \in Seq(Owners)
         /\ o.phase \in {"queued", "stored", "refused", "done", "failed"}
         /\ o.host \in {"shown", "leaving", "disposed"}
         /\ o.ended \in {"no", "shown", "leaving", "disposed"}
BY DEF Order, Lines, Owners

\* Pages go, and orders lose the checkout page with it.
LEMMA OrdersLeave ==
  ASSUME PagesPart, orders' = LeavingCheckout
  PROVE  OrdersGo
<1>1. orders \in Seq(Order) /\ OrderInv
  BY DEF PagesPart, ShopTyped
<1>2. orders' = [j \in DOMAIN orders |-> orders'[j]]
  BY DEF LeavingCheckout
<1>3. ASSUME NEW j \in DOMAIN orders
      PROVE  /\ orders'[j] \in Order /\ OrderAdvances(orders[j], orders'[j])
             /\ orders'[j].host = "shown" => "Checkout" \in Range(stack')
  <2>1. orders[j] \in Order
    BY <1>1, LenProperties, ElementOfSeq
  <2>2. orders[j].ended # "no" => orders[j].phase = "done"
    BY <1>1 DEF OrderInv
  <2>3. CASE orders[j].host = "shown" /\ "Checkout" \notin Range(stack')
    <3>1. orders'[j] = [orders[j] EXCEPT !.host = "leaving"]
      BY <2>3 DEF LeavingCheckout
    <3>2. /\ orders'[j] \in Order /\ orders'[j].host = "leaving"
          /\ orders'[j].buyer = orders[j].buyer /\ orders'[j].lines = orders[j].lines
          /\ orders'[j].amount = orders[j].amount /\ orders'[j].phase = orders[j].phase
          /\ orders'[j].ended = orders[j].ended
      BY <2>1, <3>1 DEF Order
    <3>3. QED
      BY <2>2, <3>2 DEF OrderAdvances
  <2>4. CASE ~ (orders[j].host = "shown" /\ "Checkout" \notin Range(stack'))
    <3>1. orders'[j] = orders[j]
      BY <2>4 DEF LeavingCheckout
    <3>2. QED
      BY <2>1, <2>2, <2>4, <3>1 DEF OrderAdvances
  <2>5. QED
    BY <2>3, <2>4
<1>4. orders' \in Seq(Order) /\ DOMAIN orders' = DOMAIN orders
  BY <1>1, <1>2, <1>3, EveryElementChanges
<1>5. QED
  BY <1>3, <1>4 DEF OrdersGo

\* The cart after pages have gone.
LEMMA PagesGoneGoes ==
  ASSUME PagesPart, PagesGone, NEW n, NEW pg, pg \notin {"Cart", "Checkout"}
  PROVE  OrdersGo /\ CartGo(n, pg)
<1>1. ShopTyped
  BY DEF PagesPart
<1>2. /\ rows' = IF "Cart" \in Range(stack') THEN rows ELSE <<>>
      /\ totalAmount' = IF "Checkout" \in Range(stack') THEN totalAmount ELSE <<>>
      /\ orders' = LeavingCheckout /\ globalCart' = globalCart
  BY DEF PagesGone
<1>3. OrdersGo
  BY <1>2, OrdersLeave
<1>4. CartGo(n, pg)
  BY <1>1, <1>2, EmptySeq DEF CartGo, ShopTyped
<1>5. QED
  BY <1>3, <1>4

\* One order goes on.
LEMMA OneOrderGoes ==
  ASSUME PagesPart, NEW i \in DOMAIN orders, NEW o \in Order, orders' = [orders EXCEPT ![i] = o],
         OrderAdvances(orders[i], o),
         "Checkout" \in Range(stack) => "Checkout" \in Range(stack')
  PROVE  OrdersGo
<1>1. orders \in Seq(Order) /\ OrderInv
  BY DEF PagesPart, ShopTyped
<1>2. /\ orders' \in Seq(Order) /\ DOMAIN orders' = DOMAIN orders
      /\ \A j \in DOMAIN orders : orders'[j] = IF j = i THEN o ELSE orders[j]
  BY <1>1, OneElementChanges
<1>3. ASSUME NEW j \in DOMAIN orders
      PROVE  /\ OrderAdvances(orders[j], orders'[j])
             /\ orders'[j].host = "shown" => "Checkout" \in Range(stack')
  <2>1. /\ orders[j].host = "shown" => "Checkout" \in Range(stack)
        /\ orders[j].ended # "no" => orders[j].phase = "done"
    BY <1>1 DEF OrderInv
  <2>2. OrderAdvances(orders[j], orders'[j])
    BY <1>2, <2>1 DEF OrderAdvances
  <2>3. QED
    BY <2>1, <2>2 DEF OrderAdvances
<1>4. QED
  BY <1>2, <1>3 DEF OrdersGo

Goes == \E n, pg : Go(n, pg)

\* Pages that stay as they are.
LEMMA PagesRest ==
  ASSUME StateTyped, BuiltTyped, UNCHANGED <<stack, builtFor>>
  PROVE  PagesGo(Len(stack), "none")
<1>1. StackMoved(Len(stack), "none")
  BY StaysOnStack
<1>2. Comes(Len(stack), "none")
  BY DEF Comes, Screens, Opened
<1>3. QED
  BY <1>1, <1>2 DEF PagesGo, BuiltTyped

\* A step of the session alone.
LEMMA StillGoes ==
  ASSUME PagesPart, SessionInv', KeepsSignedOut, UNCHANGED <<stack, builtFor, shop>>,
         CallsGo, UserGo, EndsGo(Len(stack), "none")
  PROVE  Goes
<1>1. StateTyped /\ BuiltTyped
  BY DEF PagesPart, SessionInv, AccountInv
<1>2. PagesGo(Len(stack), "none")
  BY <1>1, PagesRest
<1>3. OrdersGo /\ CartGo(Len(stack), "none")
  BY ShopRests
<1>4. QED
  BY <1>2, <1>3 DEF Go, Goes

\* A handler is called.
LEMMA TapGoes ==
  ASSUME PagesPart, SessionInv', KeepsSignedOut, UNCHANGED <<stack, builtFor, shop, currentUser>>,
         NEW kind \in {"login", "signup", "logout", "save"}, NEW u \in Users \cup {NoUser},
         calls' = Tapped(kind, u), On(PageOf(kind))
  PROVE  Goes
<1>1. StateTyped
  BY DEF PagesPart, SessionInv, AccountInv
<1> DEFINE c == [kind |-> kind, user |-> u, phase |-> "sent", host |-> "shown", ended |-> "no"]
<1>2. /\ c \in Call /\ c.kind = kind /\ c.phase = "sent" /\ c.host = "shown" /\ c.ended = "no"
  BY DEF Call
<1>3. calls' = Append(calls, c) /\ calls \in Seq(Call)
  BY <1>1 DEF Tapped, StateTyped
<1> HIDE DEF c
<1>4. /\ \A j \in DOMAIN calls : j \in DOMAIN calls' /\ calls'[j] = calls[j]
      /\ \A j \in DOMAIN calls' \ DOMAIN calls : calls'[j] = c
  <2>1. /\ \A j \in DOMAIN calls : j \in DOMAIN calls' /\ calls'[j] = calls[j]
        /\ DOMAIN calls = 1..Len(calls) /\ DOMAIN calls' = 1..(Len(calls) + 1)
        /\ calls'[Len(calls) + 1] = c /\ Len(calls) \in Nat
    BY <1>2, <1>3, OneElementIsAdded
  <2>2. \A j \in DOMAIN calls' \ DOMAIN calls : j = Len(calls) + 1
    BY <2>1
  <2>3. QED
    BY <2>1, <2>2
<1>5. CallsGo
  <2>1. \A j \in DOMAIN calls : Advances(calls[j], calls'[j])
    BY <1>4 DEF Advances
  <2>2. \A j \in DOMAIN calls' \ DOMAIN calls :
          /\ calls'[j].phase = "sent" /\ calls'[j].host = "shown" /\ calls'[j].ended = "no"
          /\ On(PageOf(calls'[j].kind)) /\ UNCHANGED stack
    BY <1>2, <1>4
  <2>3. QED
    BY <1>4, <2>1, <2>2 DEF CallsGo
<1>6. UserGo /\ EndsGo(Len(stack), "none")
  BY <1>4 DEF UserGo, EndsGo, Ended
<1>7. QED
  BY <1>5, <1>6, StillGoes

\* A handler goes on or ends, and opens nothing.
LEMMA AnswerGoes ==
  ASSUME PagesPart, SessionInv', KeepsSignedOut, UNCHANGED <<stack, builtFor, shop>>,
         NEW i \in DOMAIN calls, NEW ph, NEW e, Moved(calls, calls', i, ph, e, {}),
         GoesOn(i, ph, e), UserGo, ph # "done"
  PROVE  Goes
<1>1. StateTyped
  BY DEF PagesPart, SessionInv, AccountInv
<1>2. CallsGo
  BY <1>1, MovedGoes
<1>3. EndsGo(Len(stack), "none")
  BY NoEnd
<1>4. QED
  BY <1>2, <1>3, StillGoes

\* The steps of Session that leave the stack alone.
LEMMA SessionStepGoes == PagesPart /\ SessionStep => Goes
<1> SUFFICES ASSUME PagesPart, SessionStep PROVE Goes
  OBVIOUS
<1>1. StateTyped /\ SessionInv /\ UNCHANGED <<builtFor, shop>>
  BY DEF PagesPart, SessionInv, AccountInv, SessionStep
<1>2. ASSUME NEW u \in Users, TapLogin(u) \/ TapSignup(u) PROVE Goes
  <2>1. SessionInv' /\ KeepsSignedOut
    BY <1>1, <1>2, TapKeeps
  <2>2. CASE TapLogin(u)
    BY <1>1, <2>1, <2>2, TapGoes, PageOfIs DEF TapLogin
  <2>3. CASE TapSignup(u)
    BY <1>1, <2>1, <2>3, TapGoes, PageOfIs DEF TapSignup
  <2>4. QED
    BY <1>2, <2>2, <2>3
<1>3. ASSUME TapLogout \/ TapSave PROVE Goes
  <2>1. SessionInv' /\ KeepsSignedOut
    BY <1>1, <1>3, TapUserKeeps
  <2>2. currentUser \in Users \cup {NoUser}
    BY <1>1 DEF StateTyped
  <2>3. CASE TapLogout
    BY <1>1, <2>1, <2>2, <2>3, TapGoes, PageOfIs DEF TapLogout
  <2>4. CASE TapSave
    BY <1>1, <2>1, <2>2, <2>4, TapGoes, PageOfIs DEF TapSave
  <2>5. QED
    BY <1>3, <2>3, <2>4
<1>4. ASSUME NEW i \in DOMAIN calls, LoginFailed(i) \/ SignupFailed(i) PROVE Goes
  <2>1. SessionInv' /\ KeepsSignedOut
    BY <1>1, <1>4, HandlerEndKeeps
  <2>2. /\ calls[i].phase \in {"error", "docError"} /\ calls' = Over(i, "failed")
        /\ UNCHANGED <<stack, currentUser>>
    BY <1>4 DEF LoginFailed, SignupFailed
  <2>3. "failed" \in Ended
    BY DEF Ended
  <2>4. Moved(calls, calls', i, "failed", calls[i].host, {})
    BY <1>1, <2>2, <2>3, OverMoves
  <2>5. GoesOn(i, "failed", calls[i].host)
    BY <2>2 DEF GoesOn
  <2>6. UserGo
    BY <2>2, <2>4, UserStays
  <2>7. QED
    BY <1>1, <2>1, <2>2, <2>4, <2>5, <2>6, AnswerGoes
<1>5. ASSUME NEW i \in DOMAIN calls,
             NEW ph \in {"ok", "error", "sentDoc", "docOk", "docError", "failed"},
             SessionInv', KeepsSignedOut, calls' = At(i, ph), UNCHANGED stack, UserGo,
             \/ calls[i].phase = "sent" /\ ph \in {"ok", "error"}
             \/ calls[i].phase = "ok" /\ calls[i].kind = "signup" /\ ph = "sentDoc"
             \/ calls[i].phase = "sentDoc" /\ ph \in {"docOk", "docError"}
             \/ calls[i].phase = "error" /\ calls[i].kind \in {"logout", "save"} /\ ph = "failed"
      PROVE  Goes
  <2>1. Moved(calls, calls', i, ph, calls[i].ended, {})
    BY <1>1, <1>5, AtMoves
  <2>2. GoesOn(i, ph, calls[i].ended)
    BY <1>5 DEF GoesOn
  <2>3. ph # "done"
    OBVIOUS
  <2>4. QED
    BY <1>1, <1>5, <2>1, <2>2, <2>3, AnswerGoes
<1>6. ASSUME NEW i \in DOMAIN calls,
             \/ RequestFails(i) \/ SignupWritesProfile(i) \/ ProfileStored(i) \/ ProfileRefused(i)
             \/ LogoutFailed(i) \/ SaveFailed(i)
      PROVE  Goes
  <2>1. SessionInv' /\ KeepsSignedOut
    BY <1>1, <1>6, AnswerKeeps
  <2>2. PICK ph \in {"error", "sentDoc", "docOk", "docError", "failed"} :
          /\ calls' = At(i, ph) /\ UNCHANGED <<stack, currentUser>>
          /\ \/ calls[i].phase = "sent" /\ ph = "error"
             \/ calls[i].phase = "ok" /\ calls[i].kind = "signup" /\ ph = "sentDoc"
             \/ calls[i].phase = "sentDoc" /\ ph \in {"docOk", "docError"}
             \/ calls[i].phase = "error" /\ calls[i].kind \in {"logout", "save"} /\ ph = "failed"
    <3>1. CASE RequestFails(i)
      BY <3>1 DEF RequestFails
    <3>2. CASE SignupWritesProfile(i)
      BY <3>2 DEF SignupWritesProfile
    <3>3. CASE ProfileStored(i)
      BY <3>3 DEF ProfileStored
    <3>4. CASE ProfileRefused(i)
      BY <3>4 DEF ProfileRefused
    <3>5. CASE LogoutFailed(i) \/ SaveFailed(i)
      BY <3>5 DEF LogoutFailed, SaveFailed
    <3>6. QED
      BY <1>6, <3>1, <3>2, <3>3, <3>4, <3>5
  <2>3. Moved(calls, calls', i, ph, calls[i].ended, {})
    BY <1>1, <2>2, AtMoves
  <2>4. UserGo
    BY <2>2, <2>3, UserStays
  <2>5. QED
    BY <1>5, <2>1, <2>2, <2>4
<1>7. ASSUME NEW i \in DOMAIN calls, AuthOk(i) PROVE Goes
  <2>1. SessionInv' /\ KeepsSignedOut
    BY <1>1, <1>7, AuthOkKeeps
  <2>2. calls[i].phase = "sent" /\ calls' = At(i, "ok") /\ UNCHANGED stack
    BY <1>7 DEF AuthOk
  <2>3. Moved(calls, calls', i, "ok", calls[i].ended, {})
    BY <1>1, <2>2, AtMoves
  <2>4. calls[i].kind \in {"login", "signup", "logout", "save"}
    BY <1>1, Typed, CallFields
  <2>5. calls[i].kind \in {"login", "signup"} => currentUser' = calls[i].user
    BY <1>7, <2>4 DEF AuthOk
  <2>6. calls[i].kind = "save" => currentUser' = currentUser
    BY <1>7 DEF AuthOk
  <2>7. UserGo
    <3>1. \A j \in DOMAIN calls : calls[j].phase = "sent" /\ calls'[j].phase = "ok" => j = i
      BY <2>3 DEF Moved
    <3>2. calls'[i].phase = "ok"
      BY <2>3 DEF Moved
    <3>3. UNCHANGED <<stack, builtFor, globalCart, rows, totalAmount, orders>>
      BY <1>1, <2>2 DEF shop
    <3>4. QED
      BY <2>2, <2>4, <2>5, <2>6, <3>1, <3>2, <3>3 DEF UserGo
  <2>8. QED
    BY <1>5, <2>1, <2>2, <2>7
<1>8. ASSUME NEW i \in DOMAIN calls, Dispose(i) PROVE Goes
  <2>1. SessionInv' /\ KeepsSignedOut
    BY <1>1, <1>8, DisposeKeeps
  <2>2. /\ calls[i].host = "leaving" /\ calls' = [calls EXCEPT ![i].host = "disposed"]
        /\ UNCHANGED <<stack, currentUser>>
    BY <1>8 DEF Dispose
  <2>3. DOMAIN calls' = DOMAIN calls
    BY <2>2
  <2>4. \A j \in DOMAIN calls : /\ Advances(calls[j], calls'[j])
                                /\ calls'[j].phase = calls[j].phase
    <3> SUFFICES ASSUME NEW j \in DOMAIN calls
                 PROVE  /\ Advances(calls[j], calls'[j]) /\ calls'[j].phase = calls[j].phase
      OBVIOUS
    <3>1. calls[j] \in Call
      BY <1>1, Typed
    <3>2. calls'[j] = IF j = i THEN [calls[j] EXCEPT !.host = "disposed"] ELSE calls[j]
      BY <2>2
    <3>3. QED
      BY <3>1, <3>2 DEF Advances, Call
  <2>5. CallsGo
    BY <2>3, <2>4 DEF CallsGo
  <2>6. UserGo /\ EndsGo(Len(stack), "none")
    BY <2>2, <2>4 DEF UserGo, EndsGo, Ended
  <2>7. QED
    BY <1>1, <2>1, <2>2, <2>5, <2>6, StillGoes
<1>9. QED
  BY <1>2, <1>3, <1>4, <1>6, <1>7, <1>8 DEF SessionStep

\* A page comes on top.
LEMMA NewPageGoes ==
  ASSUME PagesPart, SessionInv', LateDialog' \/ KeepsSignedOut, NEW n, NEW pg \in Pages,
         pg # "none", StackMoved(n, pg), Comes(n, pg), NewTop,
         CallsGo, UserGo, EndsGo(n, pg), OrdersGo, CartGo(n, pg)
  PROVE  Goes
<1>1. StateTyped /\ BuiltTyped
  BY DEF PagesPart, SessionInv, AccountInv
<1>2. PagesGo(n, pg)
  BY <1>1, NewTopIs DEF PagesGo
<1>3. QED
  BY <1>2 DEF Go, Goes

\* Pages go, and none comes.
LEMMA PopGoes ==
  ASSUME PagesPart, SessionInv', KeepsSignedOut, NEW n, StackMoved(n, "none"), Shortened,
         CallsGo, UserGo, EndsGo(n, "none"), PagesGone
  PROVE  Goes
<1>1. StateTyped /\ BuiltTyped
  BY DEF PagesPart, SessionInv, AccountInv
<1>2. Comes(n, "none")
  BY DEF Comes, Screens, Opened
<1>3. PagesGo(n, "none")
  BY <1>1, <1>2, ShortenedIs DEF PagesGo
<1>4. OrdersGo /\ CartGo(n, "none")
  BY PagesGoneGoes
<1>5. QED
  BY <1>3, <1>4 DEF Go, Goes

\* What a step of the navigator alone keeps.
LEMMA NavigatorStep ==
  ASSUME SessionInv, (\E ok \in BOOLEAN : FirebaseReady(ok)) \/ SplashDone \/ Back
                     \/ (\E t \in DOMAIN navPages : Tab(t))
                     \/ (\E p \in StartPages \cup ShopPages : Open(p))
  PROVE  SessionInv' /\ KeepsSignedOut
<1>1. TRUE \in BOOLEAN /\ "Login" \in StartPages \cup ShopPages /\ 1 \in DOMAIN navPages
  BY DEF StartPages, navPages
<1>2. CASE \E ok \in BOOLEAN : FirebaseReady(ok)
  <2>1. PICK ok \in BOOLEAN : FirebaseReady(ok)
    BY <1>2
  <2>2. QED
    BY <1>1, <2>1, NavigatorKeeps
<1>3. CASE SplashDone \/ Back
  BY <1>1, <1>3, NavigatorKeeps
<1>4. CASE \E t \in DOMAIN navPages : Tab(t)
  <2>1. PICK t \in DOMAIN navPages : Tab(t)
    BY <1>4
  <2>2. QED
    BY <1>1, <2>1, NavigatorKeeps
<1>5. CASE \E p \in StartPages \cup ShopPages : Open(p)
  <2>1. PICK p \in StartPages \cup ShopPages : Open(p)
    BY <1>5
  <2>2. QED
    BY <1>1, <2>1, NavigatorKeeps
<1>6. QED
  BY <1>2, <1>3, <1>4, <1>5

\* The start screens.
LEMMA StartUpGoes == ShopInv /\ StartUp => Goes
<1> SUFFICES ASSUME ShopInv, StartUp PROVE Goes
  OBVIOUS
<1>1. /\ PagesPart /\ StateTyped /\ SessionInv /\ StackShape /\ NothingRunsAtStart
      /\ ((\E ok \in BOOLEAN : FirebaseReady(ok)) \/ SplashDone) /\ NewTop /\ UNCHANGED shop
  BY DEF ShopInv, PagesPart, SessionInv, AccountInv, PageInv, StartUp
<1>2. SessionInv' /\ KeepsSignedOut
  BY <1>1, NavigatorStep
<1>3. On("Loading") \/ On("Splash")
  BY <1>1 DEF FirebaseReady, SplashDone
<1>4. stack # <<>> /\ stack[1] \in Screens /\ Len(stack) = 1
  <2>1. stack # <<>> /\ Len(stack) \in DOMAIN stack /\ stack[Len(stack)] \in Screens
        /\ Len(stack) \in Nat /\ Len(stack) > 0
    BY <1>1, <1>3, TopIs DEF On, Screens
  <2>2. ~ (Len(stack) > 1)
    BY <1>1, <2>1 DEF StackShape
  <2>3. QED
    BY <2>1, <2>2
<1>5. PICK pg \in {"Splash", "Error", "Login"} :
        /\ StackMoved(0, pg) /\ UNCHANGED currentUser
        /\ \E gone : Moved(calls, calls', 0, "sent", "no", gone)
  <2>1. CASE \E ok \in BOOLEAN : FirebaseReady(ok)
    <3>1. PICK pg \in {"Splash", "Error"} : stack' = <<pg>>
      BY <2>1 DEF FirebaseReady
    <3>2. StackMoved(0, pg)
      BY <1>1, <3>1, RemovesAll DEF Pages, StartPages
    <3>3. UNCHANGED <<calls, currentUser>>
      BY <2>1 DEF FirebaseReady
    <3>4. Moved(calls, calls', 0, "sent", "no", {})
      BY <1>1, <3>3, CallsSame
    <3>5. QED
      BY <3>2, <3>3, <3>4
  <2>2. CASE SplashDone
    <3>1. /\ stack' = Append(Front(stack), "Login") /\ calls' = Leaving(calls, {Top})
          /\ UNCHANGED currentUser
      BY <2>2 DEF SplashDone, ReplaceTop
    <3>2. "Login" \in Pages
      BY DEF Pages, StartPages
    <3>3. StackMoved(Len(stack) - 1, "Login")
      BY <1>1, <1>4, <3>1, <3>2, ReplacesTop
    <3>4. Len(stack) - 1 = 0
      BY <1>4
    <3>5. Moved(calls, calls', 0, "sent", "no", {Top})
      BY <1>1, <3>1, LeavingMoves DEF StateTyped
    <3>6. StackMoved(0, "Login")
      BY <3>3, <3>4
    <3>7. QED
      BY <3>1, <3>5, <3>6
  <2>3. QED
    BY <1>1, <2>1, <2>2
<1>6. CallsGo /\ UserGo /\ EndsGo(0, pg)
  BY <1>1, <1>5, CallsRest
<1>7. Comes(0, pg)
  BY <1>4 DEF Comes, Opened
<1>8. "Cart" \notin Range(stack) /\ "Checkout" \notin Range(stack)
  <2>1. DOMAIN stack = 1..Len(stack)
    BY <1>1, Typed
  <2>2. \A k \in DOMAIN stack : stack[k] \in Screens
    BY <1>4, <2>1
  <2>3. QED
    BY <2>2, InRange DEF Screens
<1>9. OrdersGo /\ CartGo(0, pg)
  BY <1>1, <1>8, ShopRests
<1>10. pg \in Pages /\ pg # "none"
  BY DEF Pages, StartPages
<1>11. QED
  BY <1>1, <1>2, <1>5, <1>6, <1>7, <1>9, <1>10, NewPageGoes

\* What opens what.
LEMMA OpensWhat ==
  ASSUME NEW pg \in Opens(Top)
  PROVE  \/ pg = "Signup" /\ Top = "Login"
         \/ pg = "Checkout" /\ Top = "Cart"
         \/ pg \in Opened /\ Top \in ShopPages \ {"Cart", "Checkout"}
BY DEF Opens, LoginOpens, HomeOpens, SearchOpens, CategoryOpens, ListOpens, CartOpens,
       ProfileOpens, WishlistOpens, ShopPages, Opened

\* A page opens another; from the cart page, the checkout page.
LEMMA OpenPageGoes ==
  ASSUME ShopInv, NEW pg \in StartPages \cup ShopPages,
         OpenPage(pg) \/ (pg = "Checkout" /\ ProceedToCheckout)
  PROVE  Goes
<1>1. /\ PagesPart /\ StateTyped /\ SessionInv /\ StackShape /\ ShopShape /\ ShopTyped /\ OrderInv
  BY DEF ShopInv, PagesPart, SessionInv, AccountInv, PageInv
<1>2. /\ stack # <<>> /\ pg \in Opens(Top) /\ stack' = Append(stack, pg) /\ NewTop /\ Open(pg)
      /\ UNCHANGED <<calls, currentUser, globalCart, rows, orders>>
  BY DEF OpenPage, ProceedToCheckout, Open, shop
<1>3. SessionInv' /\ KeepsSignedOut
  BY <1>1, <1>2, NavigatorStep
<1>4. pg \in Pages /\ pg # "none"
  BY DEF Pages, StartPages, ShopPages
<1>5. PICK n : n = Len(stack)
  OBVIOUS
<1>6. StackMoved(n, pg)
  BY <1>1, <1>2, <1>4, <1>5, Pushes
<1>7. n \in Nat /\ n > 0 /\ n \in DOMAIN stack /\ stack[n] = Top
  BY <1>1, <1>2, <1>5, TopIs DEF On, Top
<1>8. Moved(calls, calls', 0, "sent", "no", {})
  BY <1>1, <1>2, CallsSame
<1>9. CallsGo /\ UserGo /\ EndsGo(n, pg)
  BY <1>1, <1>2, <1>8, CallsRest
<1>10. /\ "Cart" \in Range(stack) => "Cart" \in Range(stack')
       /\ "Checkout" \in Range(stack) => "Checkout" \in Range(stack')
  BY <1>1, <1>5, <1>6, NoneGone
<1>11. CASE pg = "Checkout" /\ ProceedToCheckout
  <2>1. Top = "Cart"
    BY <1>2, <1>11, OpensWhat DEF Opened
  <2>2. n = 1
    BY <1>1, <1>7, <2>1 DEF ShopShape
  <2>3. Comes(n, "Checkout")
    BY <1>5, <1>7, <2>1, <2>2 DEF Comes, Screens, Opened
  <2>4. "Cart" \in Range(stack) /\ "Checkout" \in Range(stack')
    <3>1. "Cart" \in Range(stack)
      BY <1>7, <2>1, InRange
    <3>2. n + 1 \in DOMAIN stack' /\ stack'[n + 1] = "Checkout"
      <4>1. stack' \in Seq(Pages) /\ Len(stack') = n + 1 /\ stack'[n + 1] = "Checkout"
        BY <1>6, <1>11 DEF StackMoved
      <4>2. DOMAIN stack' = 1..(n + 1)
        BY <4>1, LenProperties
      <4>3. QED
        BY <1>7, <4>1, <4>2
    <3>3. QED
      BY <3>1, <3>2, InRange
  <2>5. totalAmount' = globalCart
    BY <1>11 DEF ProceedToCheckout
  <2>6. OrdersGo
    BY <1>1, <1>2, <1>10 DEF OrdersGo, OrderAdvances, ShopTyped, OrderInv
  <2>7. CartGo(n, "Checkout")
    BY <1>1, <1>2, <1>10, <2>4, <2>5 DEF CartGo, ShopTyped
  <2>8. QED
    BY <1>1, <1>2, <1>3, <1>4, <1>6, <1>9, <1>11, <2>3, <2>6, <2>7, NewPageGoes
<1>12. CASE OpenPage(pg)
  <2>1. pg # "Checkout" /\ UNCHANGED shop
    BY <1>12 DEF OpenPage
  <2>2. \/ pg = "Signup" /\ Top = "Login"
        \/ pg \in Opened /\ Top \in ShopPages \ {"Cart", "Checkout"}
    BY <1>2, <2>1, OpensWhat
  <2>3. pg # "Cart"
    BY <2>2 DEF Opened
  <2>4. OrdersGo /\ CartGo(n, pg)
    BY <1>1, <1>10, <2>1, <2>3, ShopRests
  <2>5. Comes(n, pg)
    <3>1. CASE pg = "Signup" /\ Top = "Login"
      <4>1. n = 1
        BY <1>1, <1>7, <3>1 DEF StackShape
      <4>2. QED
        BY <1>5, <1>7, <3>1, <4>1 DEF Comes, Screens, Opened
    <3>2. CASE pg \in Opened /\ Top \in ShopPages \ {"Cart", "Checkout"}
      <4>1. pg \notin {"Cart", "Category", "Profile", "Login", "Checkout", "Signup", "Dialog",
                       "Home"} \cup Screens
        BY <3>2 DEF Opened, Screens
      <4>2. QED
        BY <1>5, <1>7, <3>2, <4>1 DEF Comes
    <3>3. QED
      BY <2>2, <3>1, <3>2
  <2>6. QED
    BY <1>1, <1>2, <1>3, <1>4, <1>6, <1>9, <2>4, <2>5, NewPageGoes
<1>13. QED
  BY <1>11, <1>12

\* Back.
LEMMA GoBackGoes == ShopInv /\ GoBack => Goes
<1> SUFFICES ASSUME ShopInv, GoBack PROVE Goes
  OBVIOUS
<1>1. PagesPart /\ StateTyped /\ SessionInv /\ Back /\ Shortened /\ PagesGone
  BY DEF ShopInv, PagesPart, SessionInv, AccountInv, GoBack
<1>2. SessionInv' /\ KeepsSignedOut
  BY <1>1, NavigatorStep
<1>3. /\ Len(stack) > 1 /\ stack' = Front(stack) /\ calls' = Leaving(calls, {Top})
      /\ UNCHANGED currentUser
  BY <1>1 DEF Back, Pop
<1>4. stack # <<>>
  BY <1>1, <1>3, Typed, EmptySeq DEF StateTyped
<1>5. PICK n : n = Len(stack) - 1
  OBVIOUS
<1>6. StackMoved(n, "none")
  BY <1>1, <1>3, <1>4, <1>5, Pops
<1>7. Moved(calls, calls', 0, "sent", "no", {Top})
  BY <1>1, <1>3, LeavingMoves DEF StateTyped
<1>8. CallsGo /\ UserGo /\ EndsGo(n, "none")
  BY <1>1, <1>3, <1>7, CallsRest
<1>9. QED
  BY <1>1, <1>2, <1>6, <1>8, PopGoes

\* Nothing is below a page that took the place of all.
LEMMA OnlyPage ==
  ASSUME NEW pg, stack' = <<pg>>
  PROVE  Range(stack') = {pg}
<1>1. DOMAIN stack' = {1} /\ stack'[1] = pg
  OBVIOUS
<1>2. QED
  BY <1>1, InRange

\* The navigation bar.
LEMMA OpenTabGoes ==
  ASSUME ShopInv, NEW t \in DOMAIN navPages, OpenTab(t)
  PROVE  Goes
<1>1. PagesPart /\ StateTyped /\ SessionInv /\ Tab(t) /\ NewTop /\ ShopTyped
  BY DEF ShopInv, PagesPart, SessionInv, AccountInv, OpenTab
<1>2. SessionInv' /\ KeepsSignedOut
  BY <1>1, NavigatorStep
<1>3. PICK pg \in {"Home", "Category", "Cart", "Profile"} : pg = navPages[t]
  BY DEF navPages
<1>4. /\ stack' = <<pg>> /\ calls' = Leaving(calls, Range(stack)) /\ UNCHANGED currentUser
      /\ rows' = (IF pg = "Cart" THEN globalCart ELSE <<>>) /\ totalAmount' = <<>>
      /\ orders' = LeavingCheckout /\ globalCart' = globalCart
  BY <1>1, <1>3 DEF Tab, RemoveAllAndPush, OpenTab
<1>5. pg \in Pages /\ pg # "none"
  BY DEF Pages, ShopPages
<1>6. StackMoved(0, pg)
  BY <1>1, <1>4, <1>5, RemovesAll
<1>7. Moved(calls, calls', 0, "sent", "no", Range(stack))
  BY <1>1, <1>4, LeavingMoves DEF StateTyped
<1>8. CallsGo /\ UserGo /\ EndsGo(0, pg)
  BY <1>1, <1>4, <1>7, CallsRest
<1>9. Comes(0, pg)
  BY DEF Comes, Screens, Opened
<1>10. Range(stack') = {pg}
  BY <1>4, OnlyPage
<1>11. OrdersGo
  BY <1>1, <1>4, OrdersLeave
<1>12. CartGo(0, pg)
  BY <1>1, <1>4, <1>10, EmptySeq DEF CartGo, ShopTyped
<1>13. QED
  BY <1>1, <1>2, <1>5, <1>6, <1>8, <1>9, <1>11, <1>12, NewPageGoes

\* The dialog leads into the shop, also when a late one lies over the login page.
LEMMA BackToHomeGoes == ShopInv /\ BackToHome => Goes
<1> SUFFICES ASSUME ShopInv, BackToHome PROVE Goes
  OBVIOUS
<1>1. /\ PagesPart /\ StateTyped /\ SessionInv /\ ShopShape /\ OrderInv /\ PagesGone /\ NewTop
      /\ On("Dialog") /\ RemoveAllAndPush("Home", calls)
      /\ UNCHANGED <<currentUser, accounts, profiles>>
  BY DEF ShopInv, PagesPart, SessionInv, AccountInv, BackToHome
<1>2. stack' = <<"Home">> /\ isLoading' = FALSE /\ calls' = Leaving(calls, Range(stack))
  BY <1>1 DEF RemoveAllAndPush
<1>3. "Home" \in Pages /\ "Home" # "none"
  BY DEF Pages, ShopPages
<1>4. StackMoved(0, "Home") /\ Above(0) = Range(stack)
  BY <1>1, <1>2, <1>3, RemovesAll
<1>5. Moved(calls, calls', 0, "sent", "no", Range(stack))
  BY <1>1, <1>2, LeavingMoves DEF StateTyped
<1>6. CallsGo /\ UserGo /\ EndsGo(0, "Home")
  BY <1>1, <1>5, CallsRest
<1>7. Comes(0, "Home")
  BY DEF Comes, Screens, Opened
<1>8. OrdersGo /\ CartGo(0, "Home")
  BY <1>1, PagesGoneGoes
<1>9. PICK k \in DOMAIN stack : stack[k] = "Dialog"
  BY <1>1, TopIs
<1>10. AnOrderDone /\ (LateDialog \/ (k > 1 /\ stack[1] = "Cart"))
  BY <1>1, <1>9 DEF ShopShape
<1>11. PageInv' /\ (LateDialog' \/ KeepsSignedOut)
  <2>1. CASE OnStack(ShopPages)
    BY <1>1, <2>1, ShopKeepsPages
  <2>2. CASE ~OnStack(ShopPages)
    <3>1. LateDialog'
      <4>1. stack[1] = "Cart" => OnStack(ShopPages)
        <5>1. DOMAIN stack = 1..Len(stack) /\ Len(stack) \in Nat
          BY <1>1, Typed
        <5>2. 1 \in DOMAIN stack
          BY <1>9, <5>1
        <5>3. QED
          BY <5>2, InRange DEF OnStack, ShopPages
      <4>2. QED
        BY <1>8, <1>10, <2>2, <4>1, OrderCausesStay
    <3>2. Step(0, "sent", "no", 0, "Home")
      <4>1. 0 \notin DOMAIN calls
        BY <1>1, Typed
      <4>2. Moved(calls, calls', 0, "sent", "no", Above(0))
        BY <1>4, <1>5
      <4>3. QED
        BY <1>4, <4>1, <4>2 DEF Step
    <3>3. PageFits(0, 0, "Home")
      BY DEF PageFits, Bottoms, Screens
    <3>4. StackShape' /\ NothingRunsAtStart' /\ ShownOnStack' /\ EndsOnce'
      BY <1>1, <3>2, <3>3, PagesKept
    <3>5. SpinnerInv'
      BY <1>1, <1>3, <3>2, SpinnerStays
    <3>6. EmptyStackHasCause'
      BY <1>2 DEF EmptyStackHasCause
    <3>7. SignInDone
      BY <1>1, <1>10 DEF OrderInv, AnOrderDone
    <3>8. SignInDone'
      BY <1>1, <1>6, <3>7, SignInDoneStays
    <3>9. ShopOnlyAfterSignIn'
      BY <3>8 DEF SignInDone, ShopOnlyAfterSignIn
    <3>10. QED
      BY <3>1, <3>4, <3>5, <3>6, <3>9 DEF PageInv
  <2>3. QED
    BY <2>1, <2>2
<1>12. SessionInv'
  <2>1. stack' \in Seq(Pages) /\ isLoading' \in BOOLEAN
    BY <1>2, <1>4 DEF StackMoved
  <2>2. QED
    BY <1>1, <1>5, <1>11, <2>1, NavigationKeeps
<1>13. QED
  BY <1>1, <1>3, <1>4, <1>6, <1>7, <1>8, <1>11, <1>12, NewPageGoes

\* The end of a handler that leaves the pages alone.
LEMMA QuietEndGoes ==
  ASSUME PagesPart, SessionInv', KeepsSignedOut, UNCHANGED <<stack, builtFor>>, PagesGone,
         CallsGo, UserGo, EndsGo(Len(stack), "none")
  PROVE  Goes
<1>1. StateTyped /\ BuiltTyped
  BY DEF PagesPart, SessionInv, AccountInv
<1>2. PagesGo(Len(stack), "none")
  BY <1>1, PagesRest
<1>3. OrdersGo /\ CartGo(Len(stack), "none")
  BY PagesGoneGoes
<1>4. QED
  BY <1>2, <1>3 DEF Go, Goes

\* The call that ends.
LEMMA EndGoes ==
  ASSUME StateTyped, NEW i \in DOMAIN calls, calls[i].phase \in {"ok", "docOk"}, NEW gone,
         Moved(calls, calls', i, "done", calls[i].host, gone), currentUser' = currentUser
  PROVE  CallsGo /\ UserGo
<1>1. GoesOn(i, "done", calls[i].host)
  BY DEF GoesOn
<1>2. QED
  BY <1>1, MovedGoes, UserStays

\* A save comes back and pops the page on top.
LEMMA HandlerPopsGoes ==
  ASSUME ShopInv, NEW i \in DOMAIN calls, HandlerPops(i)
  PROVE  Goes
<1>1. PagesPart /\ StateTyped /\ SessionInv /\ SaveDone(i) /\ Shortened /\ PagesGone
  BY DEF ShopInv, PagesPart, SessionInv, AccountInv, HandlerPops
<1>2. SessionInv' /\ KeepsSignedOut
  BY <1>1, HandlerEndKeeps
<1>3. calls[i].kind = "save" /\ calls[i].phase = "ok" /\ UNCHANGED currentUser
  BY <1>1 DEF SaveDone
<1>4. "done" \in Ended
  BY DEF Ended
<1>5. CASE Mounted(i) /\ stack # <<>>
  <2>1. stack' = Front(stack) /\ calls' = Leaving(Over(i, "done"), {Top})
    BY <1>1, <1>5 DEF SaveDone, Pop
  <2>2. PICK n : n = Len(stack) - 1
    OBVIOUS
  <2>3. StackMoved(n, "none")
    BY <1>1, <1>5, <2>1, <2>2, Pops
  <2>4. Moved(calls, calls', i, "done", calls[i].host, {Top})
    BY <1>1, <1>4, <2>1, OverLeavingMoves
  <2>5. CallsGo /\ UserGo /\ EndsGo(n, "none")
    BY <1>1, <1>3, <2>4, EndGoes, NoEnd
  <2>6. QED
    BY <1>1, <1>2, <2>3, <2>5, PopGoes
<1>6. CASE ~ (Mounted(i) /\ stack # <<>>)
  <2>1. stack' = stack /\ calls' = Over(i, "done")
    BY <1>1, <1>6 DEF SaveDone
  <2>2. StackMoved(Len(stack), "none")
    BY <1>1, <2>1, StaysOnStack
  <2>3. Moved(calls, calls', i, "done", calls[i].host, {})
    BY <1>1, <1>4, <2>1, OverMoves
  <2>4. CallsGo /\ UserGo /\ EndsGo(Len(stack), "none")
    BY <1>1, <1>3, <2>3, EndGoes, NoEnd
  <2>5. QED
    BY <1>1, <1>2, <2>2, <2>4, PopGoes
<1>7. QED
  BY <1>5, <1>6

\* One logout or signup ends.
LEMMA OneEnd ==
  ASSUME NEW i, NEW e, NEW gone, Moved(calls, calls', i, "done", e, gone), NEW n, NEW pg,
         calls[i].kind = "logout" => calls[i].host = "disposed" \/ (n = 0 /\ pg = "Login"),
         calls[i].kind = "signup" => calls[i].host = "disposed" \/ (n = 0 /\ pg = "Home")
  PROVE  EndsGo(n, pg)
<1> SUFFICES ASSUME NEW j \in DOMAIN calls, calls[j].phase \notin Ended, calls'[j].phase = "done"
             PROVE  j = i
  BY DEF EndsGo
<1>1. QED
  BY DEF Moved, Ended

\* A login comes back: on its own page or, late, on another.
LEMMA LoginDoneGoes ==
  ASSUME ShopInv, NEW i \in DOMAIN calls, HandlerOpens(i), LoginDone(i)
  PROVE  Goes
<1>1. PagesPart /\ StateTyped /\ SessionInv /\ PagesGone /\ SpinnerInv /\ ShownOnStack
  BY DEF ShopInv, PagesPart, SessionInv, AccountInv, PageInv, HandlerOpens
<1>2. SessionInv' /\ KeepsSignedOut
  BY <1>1, HandlerEndKeeps
<1>3. calls[i].kind = "login" /\ calls[i].phase = "ok" /\ UNCHANGED currentUser
  BY DEF LoginDone
<1>4. "done" \in Ended
  BY DEF Ended
<1>5. CASE Mounted(i) /\ stack # <<>>
  <2>1. stack' = Append(Front(stack), "Home") /\ calls' = Leaving(Over(i, "done"), {Top})
    BY <1>5 DEF LoginDone, ReplaceTop
  <2>2. "Home" \in Pages /\ "Home" # "none"
    BY DEF Pages, ShopPages
  <2>3. PICK n : n = Len(stack) - 1
    OBVIOUS
  <2>4. StackMoved(n, "Home")
    BY <1>1, <1>5, <2>1, <2>2, <2>3, ReplacesTop
  <2>5. Moved(calls, calls', i, "done", calls[i].host, {Top})
    BY <1>1, <1>4, <2>1, OverLeavingMoves
  <2>6. CallsGo /\ UserGo /\ EndsGo(n, "Home")
    BY <1>1, <1>3, <2>5, EndGoes, NoEnd
  <2>7. NewTop
    <3>1. Len(stack') = n + 1 /\ n \in Nat /\ stack' \in Seq(Pages)
      BY <2>2, <2>4 DEF StackMoved
    <3>2. stack' # <<>>
      BY <3>1
    <3>3. QED
      BY <1>5, <3>2 DEF HandlerOpens
  <2>8. LateLogin' \/ (stack[1] = "Login" /\ Spinning' = {})
    <3>1. calls[i].host \in {"shown", "leaving"}
      BY <1>1, <1>5, Typed, CallFields DEF Mounted
    <3>2. CASE calls[i].host = "leaving"
      <4>1. i \in DOMAIN calls' /\ calls'[i].kind = "login" /\ calls'[i].ended = "leaving"
        BY <1>3, <2>5, <3>2 DEF Moved
      <4>2. QED
        BY <4>1 DEF LateLogin
    <3>3. CASE calls[i].host = "shown"
      <4>1. "Login" \in Range(stack)
        BY <1>1, <1>3, <3>3, PageOfIs DEF ShownOnStack
      <4>2. stack[1] = "Login"
        <5>1. ShopShape /\ StackShape
          BY <1>1 DEF PagesPart, SessionInv, PageInv
        <5>2. QED
          BY <1>1, <4>1, <5>1, CartBelow DEF CartIsBelow
      <4>3. i \in Spinning
        BY <1>3, <3>3 DEF Spinning, Ended
      <4>4. ASSUME NEW j \in Spinning' PROVE FALSE
        <5>1. j \in DOMAIN calls' /\ calls'[j].kind = "login" /\ calls'[j].host = "shown"
              /\ calls'[j].phase \notin Ended
          BY <4>4 DEF Spinning
        <5>2. j # i
          BY <1>4, <2>5, <5>1 DEF Moved
        <5>3. j \in DOMAIN calls /\ calls[j].kind = "login" /\ calls[j].host = "shown"
              /\ calls[j].phase \notin Ended
          BY <2>5, <5>1, <5>2 DEF Moved
        <5>4. j \in Spinning
          BY <5>3 DEF Spinning
        <5>5. QED
          BY <1>1, <4>3, <5>2, <5>4 DEF SpinnerInv
      <4>5. QED
        BY <4>2, <4>4
    <3>4. QED
      BY <3>1, <3>2, <3>3
  <2>9. n < Len(stack)
    BY <1>1, <2>3, Typed
  <2>10. Comes(n, "Home")
    BY <2>8, <2>9 DEF Comes, Screens, Opened
  <2>11. OrdersGo /\ CartGo(n, "Home")
    BY <1>1, PagesGoneGoes
  <2>12. QED
    BY <1>1, <1>2, <2>2, <2>4, <2>6, <2>7, <2>10, <2>11, NewPageGoes
<1>6. CASE ~ (Mounted(i) /\ stack # <<>>)
  <2>1. stack' = stack /\ calls' = Over(i, "done")
    BY <1>6 DEF LoginDone
  <2>2. UNCHANGED builtFor
    BY <1>6, <2>1 DEF HandlerOpens
  <2>3. Moved(calls, calls', i, "done", calls[i].host, {})
    BY <1>1, <1>4, <2>1, OverMoves
  <2>4. CallsGo /\ UserGo /\ EndsGo(Len(stack), "none")
    BY <1>1, <1>3, <2>3, EndGoes, NoEnd
  <2>5. QED
    BY <1>1, <1>2, <2>1, <2>2, <2>4, QuietEndGoes
<1>7. QED
  BY <1>5, <1>6

\* A signup or logout ends; its page is the only one left if it is mounted.
LEMMA AllReplacedGoes ==
  ASSUME ShopInv, NEW i \in DOMAIN calls, HandlerOpens(i), SignupDone(i) \/ LogoutDone(i)
  PROVE  Goes
<1>1. PagesPart /\ StateTyped /\ SessionInv /\ PagesGone /\ CallUsers
  BY DEF ShopInv, PagesPart, SessionInv, AccountInv, HandlerOpens
<1>2. SessionInv' /\ KeepsSignedOut
  BY <1>1, HandlerEndKeeps
<1>3. PICK pg \in {"Home", "Login"} :
        /\ calls[i].phase \in {"ok", "docOk"} /\ UNCHANGED currentUser
        /\ calls[i].kind = IF pg = "Home" THEN "signup" ELSE "logout"
        /\ IF Mounted(i) THEN RemoveAllAndPush(pg, Over(i, "done"))
                         ELSE calls' = Over(i, "done") /\ UNCHANGED stack
  <2>1. CASE SignupDone(i)
    <3>1. calls[i].kind = "signup"
      BY <1>1, <2>1 DEF SignupDone, CallUsers, IsSignup
    <3>2. QED
      BY <2>1, <3>1 DEF SignupDone
  <2>2. CASE LogoutDone(i)
    BY <2>2 DEF LogoutDone
  <2>3. QED
    BY <2>1, <2>2
<1>4. "done" \in Ended
  BY DEF Ended
<1>5. CASE Mounted(i)
  <2>1. stack' = <<pg>> /\ calls' = Leaving(Over(i, "done"), Range(stack))
    BY <1>3, <1>5 DEF RemoveAllAndPush
  <2>2. pg \in Pages /\ pg # "none"
    BY DEF Pages, ShopPages, StartPages
  <2>3. StackMoved(0, pg)
    BY <1>1, <2>1, <2>2, RemovesAll
  <2>4. Moved(calls, calls', i, "done", calls[i].host, Range(stack))
    BY <1>1, <1>4, <2>1, OverLeavingMoves
  <2>5. CallsGo /\ UserGo
    BY <1>1, <1>3, <2>4, EndGoes
  <2>6. EndsGo(0, pg)
    BY <1>3, <2>4, OneEnd
  <2>7. NewTop
    BY <1>5, <2>1 DEF HandlerOpens
  <2>8. pg = "Login" => LogoutThrough'
    <3>1. i \in DOMAIN calls' /\ calls'[i].kind = calls[i].kind /\ calls'[i].phase = "done"
      BY <2>4 DEF Moved
    <3>2. QED
      BY <1>3, <3>1 DEF LogoutThrough
  <2>9. Comes(0, pg)
    BY <2>8 DEF Comes, Screens, Opened
  <2>10. OrdersGo /\ CartGo(0, pg)
    BY <1>1, PagesGoneGoes
  <2>11. QED
    BY <1>1, <1>2, <2>2, <2>3, <2>5, <2>6, <2>7, <2>9, <2>10, NewPageGoes
<1>6. CASE ~Mounted(i)
  <2>1. stack' = stack /\ calls' = Over(i, "done")
    BY <1>3, <1>6
  <2>2. UNCHANGED builtFor
    BY <1>6 DEF HandlerOpens
  <2>3. Moved(calls, calls', i, "done", calls[i].host, {})
    BY <1>1, <1>4, <2>1, OverMoves
  <2>4. CallsGo /\ UserGo
    BY <1>1, <1>3, <2>3, EndGoes
  <2>5. EndsGo(Len(stack), "none")
    BY <1>6, <2>3, OneEnd DEF Mounted
  <2>6. QED
    BY <1>1, <1>2, <2>1, <2>2, <2>4, <2>5, QuietEndGoes
<1>7. QED
  BY <1>5, <1>6

\* Steps of cart and checkout that leave session and pages alone.
LEMMA CartStepGoes ==
  ASSUME PagesPart, UNCHANGED <<session, builtFor>>, OrdersGo, CartGo(Len(stack), "none")
  PROVE  Goes
<1>1. StateTyped /\ BuiltTyped /\ SessionInv
  BY DEF PagesPart, SessionInv, AccountInv
<1>2. UNCHANGED <<stack, calls, currentUser>> /\ UNCHANGED vars
  BY DEF session, vars
<1>3. SessionInv' /\ KeepsSignedOut
  BY <1>1, <1>2, StutterKeeps
<1>4. PagesGo(Len(stack), "none")
  BY <1>1, <1>2, PagesRest
<1>5. Moved(calls, calls', 0, "sent", "no", {})
  BY <1>1, <1>2, CallsSame
<1>6. CallsGo /\ UserGo /\ EndsGo(Len(stack), "none")
  BY <1>1, <1>2, <1>5, CallsRest
<1>7. QED
  BY <1>3, <1>4, <1>6 DEF Go, Goes

\* What is left when a line is removed was there.
LEMMA RemovedFrom ==
  ASSUME NEW s \in Seq(Owners), NEW k \in DOMAIN s
  PROVE  RemoveAt(s, k) \in Seq(Owners) /\ Range(RemoveAt(s, k)) \subseteq Range(s)
<1>1. DOMAIN s = 1..Len(s) /\ Len(s) \in Nat /\ k \in Nat /\ k > 0 /\ k <= Len(s)
  BY LenProperties
<1>2. PICK m \in Nat : m = k - 1
  BY <1>1, PredIsNat
<1>3. PICK a, b : a = SubSeq(s, 1, m) /\ b = SubSeq(s, k + 1, Len(s))
  OBVIOUS
<1>4. RemoveAt(s, k) = a \o b
  BY <1>2, <1>3 DEF RemoveAt
<1>5. /\ a \in Seq(Owners) /\ Len(a) = m + 1 - 1 /\ \A i \in 1..(m + 1 - 1) : a[i] = s[1 + i - 1]
  BY <1>1, <1>2, <1>3, PartIs
<1>6. /\ b \in Seq(Owners) /\ Len(b) = Len(s) + 1 - (k + 1)
      /\ \A i \in 1..(Len(s) + 1 - (k + 1)) : b[i] = s[k + 1 + i - 1]
  BY <1>1, <1>3, PartIs
<1>7. a \in Seq(Owners) /\ b \in Seq(Owners)
  BY <1>5, <1>6
<1>8. ASSUME NEW x \in Range(a \o b) PROVE x \in Range(s)
  <2>1. PICK j \in DOMAIN (a \o b) : (a \o b)[j] = x
    BY <1>8, InRange
  <2>2. /\ DOMAIN (a \o b) = 1..(Len(a) + Len(b)) /\ Len(a) \in Nat /\ Len(b) \in Nat
        /\ DOMAIN a = 1..Len(a) /\ DOMAIN b = 1..Len(b)
        /\ \A i \in DOMAIN a : (a \o b)[i] = a[i]
        /\ \A i \in DOMAIN b : (a \o b)[Len(a) + i] = b[i]
    BY <1>7, SequencesAreJoined
  <2>3. CASE j \in DOMAIN a
    <3>1. x = s[1 + j - 1] /\ 1 + j - 1 \in DOMAIN s
      BY <1>1, <1>2, <1>5, <2>1, <2>2, <2>3
    <3>2. QED
      BY <3>1, InRange
  <2>4. CASE j \notin DOMAIN a
    <3>1. PICK i \in Nat : j = Len(a) + i
      <4>1. j \in Nat /\ j > Len(a)
        BY <2>1, <2>2, <2>4
      <4>2. j - Len(a) \in Nat /\ j = Len(a) + (j - Len(a))
        BY <2>2, <4>1
      <4>3. QED
        BY <4>2
    <3>2. i \in DOMAIN b
      BY <2>1, <2>2, <2>4, <3>1
    <3>3. x = b[i]
      BY <2>1, <2>2, <3>1, <3>2
    <3>4. x = s[k + 1 + i - 1] /\ k + 1 + i - 1 \in DOMAIN s
      BY <1>1, <1>6, <2>2, <3>2, <3>3
    <3>5. QED
      BY <3>4, InRange
  <2>5. QED
    BY <2>3, <2>4
<1>9. a \o b \in Seq(Owners)
  BY <1>7, SequencesAreJoined
<1>10. QED
  BY <1>4, <1>8, <1>9

\* A line of who is signed in is added.
LEMMA AddToCartGoes == ShopInv /\ AddToCart => Goes
<1> SUFFICES ASSUME ShopInv, AddToCart PROVE Goes
  OBVIOUS
<1>1. PagesPart /\ StateTyped /\ ShopTyped /\ OrderInv
  BY DEF ShopInv, PagesPart, SessionInv, AccountInv
<1>2. /\ On("Desc") /\ globalCart' = Append(globalCart, currentUser)
      /\ UNCHANGED <<session, builtFor>> /\ UNCHANGED <<rows, totalAmount, orders>>
  BY DEF AddToCart
<1>3. UNCHANGED <<stack, calls, currentUser>>
  BY <1>2 DEF session
<1>4. globalCart \in Seq(Owners) /\ currentUser \in Owners
  BY <1>1 DEF ShopTyped, StateTyped, Owners
<1>5. /\ globalCart' \in Seq(Owners)
      /\ Range(globalCart') \subseteq Range(globalCart) \cup {currentUser}
  <2>1. /\ globalCart' \in Seq(Owners) /\ DOMAIN globalCart = 1..Len(globalCart)
        /\ DOMAIN globalCart' = 1..(Len(globalCart) + 1) /\ Len(globalCart) \in Nat
        /\ \A i \in DOMAIN globalCart : globalCart'[i] = globalCart[i]
        /\ globalCart'[Len(globalCart) + 1] = currentUser
    BY <1>2, <1>4, OneElementIsAdded
  <2>2. ASSUME NEW x \in Range(globalCart') PROVE x \in Range(globalCart) \cup {currentUser}
    <3>1. PICK j \in DOMAIN globalCart' : globalCart'[j] = x
      BY <2>2, InRange
    <3>2. j \in DOMAIN globalCart \/ j = Len(globalCart) + 1
      BY <2>1, <3>1
    <3>3. QED
      BY <2>1, <3>1, <3>2, InRange
  <2>3. QED
    BY <2>1, <2>2
<1>6. OrdersGo
  BY <1>1, <1>2, <1>3 DEF OrdersGo, OrderAdvances, ShopTyped, OrderInv
<1>7. CartGo(Len(stack), "none")
  BY <1>1, <1>2, <1>3, <1>5 DEF CartGo, ShopTyped
<1>8. QED
  BY <1>1, <1>2, <1>6, <1>7, CartStepGoes

\* A line is removed, and the cart page shows it.
LEMMA RemoveItemGoes ==
  ASSUME ShopInv, NEW k, RemoveItem(k)
  PROVE  Goes
<1>1. PagesPart /\ StateTyped /\ ShopTyped /\ OrderInv
  BY DEF ShopInv, PagesPart, SessionInv, AccountInv
<1>2. /\ On("Cart") /\ k \in DOMAIN globalCart /\ globalCart' = RemoveAt(globalCart, k)
      /\ rows' = globalCart' /\ UNCHANGED <<session, builtFor>> /\ UNCHANGED <<totalAmount, orders>>
  BY DEF RemoveItem
<1>3. UNCHANGED <<stack, calls, currentUser>>
  BY <1>2 DEF session
<1>4. globalCart' \in Seq(Owners) /\ Range(globalCart') \subseteq Range(globalCart)
  BY <1>1, <1>2, RemovedFrom DEF ShopTyped
<1>5. "Cart" \in Range(stack)
  BY <1>1, <1>2, TopIs
<1>6. OrdersGo
  BY <1>1, <1>2, <1>3 DEF OrdersGo, OrderAdvances, ShopTyped, OrderInv
<1>7. CartGo(Len(stack), "none")
  BY <1>1, <1>2, <1>3, <1>4, <1>5 DEF CartGo, ShopTyped
<1>8. QED
  BY <1>1, <1>2, <1>6, <1>7, CartStepGoes

\* Cart and pages stay while an order goes on.
LEMMA OrderStepGoes ==
  ASSUME PagesPart, OrdersGo, UNCHANGED <<session, builtFor>>,
         UNCHANGED <<globalCart, rows, totalAmount>>
  PROVE  Goes
<1>1. ShopTyped
  BY DEF PagesPart
<1>2. UNCHANGED stack
  BY DEF session
<1>3. CartGo(Len(stack), "none")
  BY <1>1, <1>2 DEF CartGo, ShopTyped
<1>4. QED
  BY <1>3, CartStepGoes

\* An order of who is signed in, with the cart and the total there are.
LEMMA PlaceOrderGoes == ShopInv /\ PlaceOrder => Goes
<1> SUFFICES ASSUME ShopInv, PlaceOrder PROVE Goes
  OBVIOUS
<1>1. PagesPart /\ StateTyped /\ ShopTyped /\ OrderInv
  BY DEF ShopInv, PagesPart, SessionInv, AccountInv
<1> DEFINE o == [buyer |-> currentUser, lines |-> globalCart, amount |-> totalAmount,
                 phase |-> "queued", host |-> "shown", ended |-> "no"]
<1>2. /\ On("Checkout") /\ orders' = Append(orders, o)
      /\ UNCHANGED <<session, builtFor>> /\ UNCHANGED <<globalCart, rows, totalAmount>>
  BY DEF PlaceOrder
<1>3. UNCHANGED <<stack, calls, currentUser>>
  BY <1>2 DEF session
<1>4. /\ o \in Order /\ o.buyer = currentUser /\ o.lines = globalCart /\ o.amount = totalAmount
      /\ o.host = "shown" /\ o.ended = "no"
  BY <1>1 DEF Order, Lines, ShopTyped, StateTyped, Owners
<1> HIDE DEF o
<1>5. orders \in Seq(Order)
  BY <1>1 DEF ShopTyped
<1>6. /\ orders' \in Seq(Order) /\ DOMAIN orders \subseteq DOMAIN orders'
      /\ \A j \in DOMAIN orders : orders'[j] = orders[j]
      /\ \A j \in DOMAIN orders' \ DOMAIN orders : orders'[j] = o
  <2>1. /\ orders' \in Seq(Order) /\ DOMAIN orders = 1..Len(orders) /\ Len(orders) \in Nat
        /\ DOMAIN orders' = 1..(Len(orders) + 1)
        /\ \A j \in DOMAIN orders : j \in DOMAIN orders' /\ orders'[j] = orders[j]
        /\ orders'[Len(orders) + 1] = o
    BY <1>2, <1>4, <1>5, OneElementIsAdded
  <2>2. \A j \in DOMAIN orders' \ DOMAIN orders : j = Len(orders) + 1
    BY <2>1
  <2>3. QED
    BY <2>1, <2>2
<1>7. OrdersGo
  <2>1. \A j \in DOMAIN orders : /\ OrderAdvances(orders[j], orders'[j])
                                 /\ orders'[j].host = "shown" => "Checkout" \in Range(stack')
    BY <1>1, <1>3, <1>6 DEF OrderAdvances, OrderInv
  <2>2. QED
    BY <1>2, <1>3, <1>4, <1>6, <2>1 DEF OrdersGo
<1>8. QED
  BY <1>1, <1>2, <1>7, OrderStepGoes

\* An order is answered, fails, or loses its page.
LEMMA OrderStepsGo ==
  ASSUME ShopInv, NEW i \in DOMAIN orders,
         \/ OrderAnswered(i, "stored") \/ OrderAnswered(i, "refused")
         \/ OrderFailed(i) \/ DisposeCheckout(i)
  PROVE  Goes
<1>1. PagesPart /\ ShopTyped /\ OrderInv
  BY DEF ShopInv, PagesPart
<1>2. orders[i] \in Order /\ (orders[i].ended # "no" => orders[i].phase = "done")
  BY <1>1, LenProperties, ElementOfSeq DEF ShopTyped, OrderInv
<1>3. /\ UNCHANGED <<session, builtFor>> /\ UNCHANGED stack
      /\ UNCHANGED <<globalCart, rows, totalAmount>>
  BY DEF OrderAnswered, OrderFailed, DisposeCheckout, session
<1>4. PICK o \in Order : orders' = [orders EXCEPT ![i] = o] /\ OrderAdvances(orders[i], o)
  <2>1. ASSUME NEW ph \in {"stored", "refused", "failed"},
               orders[i].phase \in {"queued", "refused"},
               orders' = [orders EXCEPT ![i].phase = ph]
        PROVE  \E o \in Order : orders' = [orders EXCEPT ![i] = o] /\ OrderAdvances(orders[i], o)
    <3> DEFINE o == [orders[i] EXCEPT !.phase = ph]
    <3>1. /\ o \in Order /\ o.buyer = orders[i].buyer /\ o.lines = orders[i].lines
          /\ o.amount = orders[i].amount /\ o.host = orders[i].host /\ o.ended = orders[i].ended
      BY <1>2 DEF Order
    <3>2. orders' = [orders EXCEPT ![i] = o]
      BY <2>1
    <3> HIDE DEF o
    <3>3. OrderAdvances(orders[i], o)
      BY <1>2, <2>1, <3>1 DEF OrderAdvances
    <3>4. QED
      BY <3>1, <3>2, <3>3
  <2>2. ASSUME orders[i].host = "leaving", orders' = [orders EXCEPT ![i].host = "disposed"]
        PROVE  \E o \in Order : orders' = [orders EXCEPT ![i] = o] /\ OrderAdvances(orders[i], o)
    <3> DEFINE o == [orders[i] EXCEPT !.host = "disposed"]
    <3>1. /\ o \in Order /\ o.buyer = orders[i].buyer /\ o.lines = orders[i].lines
          /\ o.amount = orders[i].amount /\ o.host = "disposed" /\ o.ended = orders[i].ended
          /\ o.phase = orders[i].phase
      BY <1>2 DEF Order
    <3>2. orders' = [orders EXCEPT ![i] = o]
      BY <2>2
    <3> HIDE DEF o
    <3>3. OrderAdvances(orders[i], o)
      BY <1>2, <2>2, <3>1 DEF OrderAdvances
    <3>4. QED
      BY <3>1, <3>2, <3>3
  <2>3. CASE OrderAnswered(i, "stored") \/ OrderAnswered(i, "refused")
    BY <2>1, <2>3 DEF OrderAnswered
  <2>4. CASE OrderFailed(i)
    BY <2>1, <2>4 DEF OrderFailed
  <2>5. CASE DisposeCheckout(i)
    BY <2>2, <2>5 DEF DisposeCheckout
  <2>6. QED
    BY <2>3, <2>4, <2>5
<1>5. OrdersGo
  BY <1>1, <1>3, <1>4, OneOrderGoes
<1>6. QED
  BY <1>1, <1>3, <1>5, OrderStepGoes

\* The cart is emptied, and the dialog comes over whatever page is on top.
LEMMA OrderDoneGoes ==
  ASSUME ShopInv, NEW i \in DOMAIN orders, OrderDone(i)
  PROVE  Goes
<1>1. PagesPart /\ StateTyped /\ SessionInv /\ ShopTyped /\ OrderInv /\ BuiltTyped /\ StartInv
  BY DEF ShopInv, PagesPart, CausePart, SessionInv, AccountInv
<1>2. orders[i] \in Order /\ (orders[i].ended # "no" => orders[i].phase = "done")
      /\ (orders[i].host = "shown" => "Checkout" \in Range(stack))
  BY <1>1, LenProperties, ElementOfSeq DEF ShopTyped, OrderInv
<1>3. /\ orders[i].phase = "stored" /\ globalCart' = <<>>
      /\ orders' = [orders EXCEPT ![i].phase = "done", ![i].ended = orders[i].host]
      /\ UNCHANGED <<isLoading, currentUser, accounts, profiles, calls, rows, totalAmount>>
  BY DEF OrderDone
<1> DEFINE o == [orders[i] EXCEPT !.phase = "done", !.ended = orders[i].host]
<1>4. /\ o \in Order /\ o.buyer = orders[i].buyer /\ o.lines = orders[i].lines
      /\ o.amount = orders[i].amount /\ o.host = orders[i].host /\ o.ended = orders[i].host
      /\ o.phase = "done"
  BY <1>2 DEF Order
<1>5. orders' = [orders EXCEPT ![i] = o]
  BY <1>3
<1> HIDE DEF o
<1>6. OrderAdvances(orders[i], o)
  BY <1>2, <1>3, <1>4 DEF OrderAdvances
<1>7. i \in DOMAIN orders' /\ orders'[i] = o
  BY <1>5
<1>8. AnOrderDone' /\ (orders[i].host = "leaving" => LateDialog')
  BY <1>4, <1>7 DEF AnOrderDone, LateDialog
<1>9. Moved(calls, calls', 0, "sent", "no", {})
  BY <1>1, <1>3, CallsSame
<1>10. \A n, pg : CallsGo /\ UserGo /\ EndsGo(n, pg)
  BY <1>1, <1>3, <1>9, CallsRest
<1>11. ASSUME NEW n, NEW pg, StackMoved(n, pg), n = Len(stack), pg \in {"Dialog", "none"}
       PROVE  OrdersGo /\ CartGo(n, pg)
  <2>1. /\ "Cart" \in Range(stack) => "Cart" \in Range(stack')
        /\ "Checkout" \in Range(stack) => "Checkout" \in Range(stack')
    BY <1>1, <1>11, NoneGone
  <2>2. OrdersGo
    BY <1>1, <1>4, <1>5, <1>6, <2>1, OneOrderGoes
  <2>3. CartGo(n, pg)
    BY <1>1, <1>3, <1>8, <1>11, <2>1, EmptySeq DEF CartGo, ShopTyped
  <2>4. QED
    BY <2>2, <2>3
<1>12. CASE orders[i].host # "disposed"
  <2>1. stack' = Append(stack, "Dialog") /\ NewTop
    BY <1>12 DEF OrderDone
  <2>2. PICK n \in Nat : n = Len(stack)
    BY <1>1, Typed
  <2>3. "Dialog" \in Pages /\ "Dialog" # "none" /\ "Dialog" \notin ShopPages
    BY DEF Pages, ShopPages
  <2>4. StackMoved(n, "Dialog") /\ Above(n) = {}
    BY <1>1, <2>1, <2>2, <2>3, Pushes
  <2>5. n > 0 => stack[1] \notin Screens
    <3> SUFFICES ASSUME n > 0, stack[1] \in Screens PROVE FALSE
      OBVIOUS
    <3>1. stack # <<>>
      BY <2>2
    <3>2. orders = <<>>
      BY <1>1, <3>1 DEF StartInv
    <3>3. QED
      BY <3>2
  <2>6. PageFits(0, n, "Dialog")
    BY <2>5 DEF PageFits, Bottoms, Screens
  <2>7. Moved(calls, calls', 0, "sent", "no", Above(n))
    BY <1>9, <2>4
  <2>8. PageInv' /\ KeepsSignedOut
    BY <1>1, <1>3, <2>3, <2>4, <2>6, <2>7, NavigationKeepsPages
  <2>9. SessionInv'
    <3>1. stack' \in Seq(Pages) /\ isLoading' \in BOOLEAN
      BY <1>1, <1>3, <2>4 DEF StackMoved, StateTyped
    <3>2. QED
      BY <1>1, <1>3, <2>8, <3>1, NavigationKeeps
  <2>10. Comes(n, "Dialog")
    <3>1. LateDialog' \/ "Checkout" \in Range(stack)
      BY <1>2, <1>8, <1>12, OrderFields
    <3>2. QED
      BY <1>8, <2>2, <3>1 DEF Comes, Screens, Opened
  <2>11. OrdersGo /\ CartGo(n, "Dialog")
    BY <1>11, <2>2, <2>4
  <2>12. QED
    BY <1>1, <1>10, <2>1, <2>3, <2>4, <2>8, <2>9, <2>10, <2>11, NewPageGoes
<1>13. CASE orders[i].host = "disposed"
  <2>1. UNCHANGED <<stack, builtFor>>
    BY <1>13 DEF OrderDone
  <2>2. StackMoved(Len(stack), "none")
    BY <1>1, <2>1, StaysOnStack
  <2>3. OrdersGo /\ CartGo(Len(stack), "none")
    BY <1>11, <2>2
  <2>4. PagesGo(Len(stack), "none")
    BY <1>1, <2>1, PagesRest
  <2>5. SessionInv' /\ KeepsSignedOut
    BY <1>1, <1>3, <2>1, StutterKeeps DEF vars
  <2>6. QED
    BY <1>10, <2>3, <2>4, <2>5 DEF Go, Goes
<1>14. QED
  BY <1>12, <1>13

-----------------------------------------------------------------------------
(***************************************************************************)
(* The invariant and what follows from it.                                 *)
(***************************************************************************)

\* A step that changes nothing.
LEMMA ShopStutterGoes == ShopInv /\ UNCHANGED allVars => Goes
<1> SUFFICES ASSUME ShopInv, UNCHANGED allVars PROVE Goes
  OBVIOUS
<1>1. PagesPart
  BY DEF ShopInv
<1>2. UNCHANGED <<session, builtFor>> /\ UNCHANGED shop /\ UNCHANGED stack
  BY DEF allVars, session
<1>3. OrdersGo /\ CartGo(Len(stack), "none")
  BY <1>1, <1>2, ShopRests
<1>4. QED
  BY <1>1, <1>2, <1>3, CartStepGoes

\* Every step of the app keeps the invariant.
LEMMA ShopNextKeeps == ShopInv /\ [ShopNext]_allVars => ShopInv'
<1> SUFFICES ASSUME ShopInv, [ShopNext]_allVars PROVE ShopInv'
  OBVIOUS
<1>1. ASSUME Goes PROVE ShopInv'
  BY <1>1, GoKeeps DEF Goes
<1>2. ASSUME NEW pg \in Visited, OpenPage(pg) PROVE Goes
  <2>1. pg \in StartPages \cup ShopPages
    BY VisitedAssumption
  <2>2. QED
    BY <1>2, <2>1, OpenPageGoes
<1>3. ASSUME ProceedToCheckout PROVE Goes
  <2>1. "Checkout" \in StartPages \cup ShopPages
    BY DEF ShopPages
  <2>2. QED
    BY <1>3, <2>1, OpenPageGoes
<1>4. ASSUME StartUp \/ GoBack \/ BackToHome \/ SessionStep \/ AddToCart \/ PlaceOrder PROVE Goes
  <2>1. PagesPart
    BY DEF ShopInv
  <2>2. QED
    BY <1>4, <2>1, StartUpGoes, GoBackGoes, BackToHomeGoes, SessionStepGoes, AddToCartGoes,
       PlaceOrderGoes
<1>5. ASSUME NEW t \in DOMAIN navPages, OpenTab(t) PROVE Goes
  BY <1>5, OpenTabGoes
<1>6. ASSUME NEW i \in DOMAIN calls, HandlerOpens(i) PROVE Goes
  <2>1. LoginDone(i) \/ SignupDone(i) \/ LogoutDone(i)
    BY <1>6 DEF HandlerOpens
  <2>2. QED
    BY <1>6, <2>1, LoginDoneGoes, AllReplacedGoes
<1>7. ASSUME NEW i \in DOMAIN calls, HandlerPops(i) PROVE Goes
  BY <1>7, HandlerPopsGoes
<1>8. ASSUME NEW k \in 1..MaxLines, RemoveItem(k) PROVE Goes
  BY <1>8, RemoveItemGoes
<1>9. ASSUME NEW i \in DOMAIN orders, NEW answer \in {"stored", "refused"}, OrderAnswered(i, answer)
      PROVE  Goes
  BY <1>9, OrderStepsGo
<1>10. ASSUME NEW i \in DOMAIN orders, OrderDone(i) PROVE Goes
  BY <1>10, OrderDoneGoes
<1>11. ASSUME NEW i \in DOMAIN orders, OrderFailed(i) \/ DisposeCheckout(i) PROVE Goes
  BY <1>11, OrderStepsGo
<1>12. CASE ShopNext
  BY <1>1, <1>2, <1>3, <1>4, <1>5, <1>6, <1>7, <1>8, <1>9, <1>10, <1>11, <1>12, RestartAppKeeps
     DEF ShopNext
<1>13. CASE UNCHANGED allVars
  BY <1>1, <1>13, ShopStutterGoes
<1>14. QED
  BY <1>12, <1>13

\* The invariant holds.
LEMMA ShopInvariant == ShopSpec => []ShopInv
<1>1. ShopInit => ShopInv
  BY ShopInitKeeps
<1>2. ShopInv /\ [ShopNext]_allVars => ShopInv'
  BY ShopNextKeeps
<1>3. QED
  BY <1>1, <1>2, PTL DEF ShopSpec

\* A page whose places are all the same is there once at most.
LEMMA OnceAtMost ==
  ASSUME NEW pg, NEW m, \A k \in DOMAIN stack : stack[k] = pg => k = m
  PROVE  Count(pg) <= 1
<1>1. PICK S : S = {k \in DOMAIN stack : stack[k] = pg}
  OBVIOUS
<1>2. S \subseteq {m}
  BY <1>1
<1>3. Cardinality(S) <= Cardinality({m})
  BY <1>2, FS_Singleton, FS_Subset
<1>4. QED
  BY <1>1, <1>3, FS_Singleton DEF Count

(***************************************************************************)
(* Types: there is one cart page and one checkout page at most, whatever   *)
(* late handlers and dialogs have done to the stack, every page knows who  *)
(* it was built for, and what the two pages show goes with them.           *)
(***************************************************************************)
THEOREM ShopTypeCorrect == ShopSpec => []ShopTypeOK
<1>1. ShopInv => ShopTypeOK
  <2> SUFFICES ASSUME ShopInv PROVE ShopTypeOK
    OBVIOUS
  <2>1. StateTyped /\ BuiltTyped /\ ShopTyped /\ ShopShape
    BY DEF ShopInv, PagesPart, SessionInv, AccountInv
  <2>2. Count("Cart") <= 1
    BY <2>1, OnceAtMost DEF ShopShape
  <2>3. Count("Checkout") <= 1
    BY <2>1, OnceAtMost DEF ShopShape
  <2>4. stack \in Seq(StartPages \cup ShopPages \cup {"Dialog"})
    BY <2>1 DEF StateTyped, Pages
  <2>5. Len(builtFor) = Len(stack) /\ \A k \in DOMAIN builtFor : builtFor[k] \in Users \cup {NoUser}
    BY <2>1, LenProperties, ElementOfSeq DEF BuiltTyped, Owners
  <2>6. QED
    BY <2>1, <2>2, <2>3, <2>4, <2>5 DEF ShopTypeOK, ShopTyped, Lines, Owners
<1>2. QED
  BY <1>1, ShopInvariant, PTL

(***************************************************************************)
(* A page that shows somebody's data shows it to that person, unless the   *)
(* user changed silently or a late dialog opened the shop: for any people  *)
(* and any interleaving of _login, _signup, _logout, saves and orders.     *)
(***************************************************************************)
THEOREM PagesTrue == ShopSpec => []PagesShowTheirUser
<1>1. ShopInv => PagesShowTheirUser
  BY DEF ShopInv, CausePart
<1>2. QED
  BY <1>1, ShopInvariant, PTL

(***************************************************************************)
(* The cart page shows, and the checkout page charges, the cart there is,  *)
(* unless an order emptied it or a late login put the home page over them. *)
(***************************************************************************)
THEOREM CartPagesTrue == ShopSpec => []StaleCartHasCause
<1>1. ShopInv => StaleCartHasCause
  BY DEF ShopInv, CausePart, CartTrue, StaleCartHasCause, AnOrderDone, LateLogin
<1>2. QED
  BY <1>1, ShopInvariant, PTL

(***************************************************************************)
(* _placeOrder stores no order under "unknown" but after a logout whose    *)
(* page was left, a silent sign-in or a late dialog.                       *)
(***************************************************************************)
THEOREM BuyersKnown == ShopSpec => []UnknownBuyerHasCause
<1>1. LogoutLeft => LogoutUnfollowed({"leaving", "disposed"})
  BY DEF LogoutLeft, LogoutUnfollowed
<1>2. ShopInv => UnknownBuyerHasCause
  BY <1>1 DEF ShopInv, CausePart, BuyerInv, UnknownBuyerHasCause
<1>3. QED
  BY <1>2, ShopInvariant, PTL

(***************************************************************************)
(* What one person put in the global cart is ordered by another only after *)
(* a logout, a silent sign-in or two sign-ins of this run of the app.      *)
(***************************************************************************)
THEOREM ForeignLines == ShopSpec => []ForeignLineHasCause
<1>1. ForeignCause =>
        \/ SilentSignIn \/ SignedInAgain
        \/ \E j \in DOMAIN calls : calls[j].kind = "logout" /\ calls[j].phase \in {"ok", "done"}
  BY DEF ForeignCause, LogoutThrough
<1>2. ShopInv => ForeignLineHasCause
  BY <1>1 DEF ShopInv, CausePart, ForeignInv, OwnOrders, ForeignLineHasCause
<1>3. QED
  BY <1>2, ShopInvariant, PTL

(***************************************************************************)
(* The carts, orders and dialogs of the whole app take nothing from what   *)
(* module Session promises: the login page spins for one login, the shop   *)
(* opens only after a sign-in, no account lacks its profile and the        *)
(* navigator does not run out of pages without the causes given there.     *)
(***************************************************************************)
THEOREM SessionPromisesKept ==
  ShopSpec => [](/\ SpinnerIsOneLogin /\ ShopOnlyAfterSignIn
                 /\ MissingProfileHasCause /\ EmptyStackHasCause)
<1>1. ShopInv => /\ SpinnerIsOneLogin /\ ShopOnlyAfterSignIn
                 /\ MissingProfileHasCause /\ EmptyStackHasCause
  BY SpinnerCount DEF ShopInv, PagesPart, SessionInv, PageInv, AccountInv
<1>2. QED
  BY <1>1, ShopInvariant, PTL

(***************************************************************************)
(* In the whole app somebody who is signed out sees the shop for the       *)
(* reasons module Session gives, or because of a late dialog, whose 'Back  *)
(* to Home' leads from the login page into the shop.                       *)
(***************************************************************************)
THEOREM SignedOutInTheApp == ShopSpec => [](LateDialog \/ SignedOutInShopHasCause)
<1>1. ShopInv => LateDialog \/ SignedOutInShopHasCause
  BY DEF ShopInv, CausePart, SignedOutUnlessLate, SignedOutInv, SignedOutCause,
         SignedOutInShopHasCause
<1>2. QED
  BY <1>1, ShopInvariant, PTL
=============================================================================
