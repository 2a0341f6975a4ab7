--------------------------- MODULE WishlistProofs ---------------------------
(***************************************************************************)
(* Type correctness of module Wishlist and the truth of the heart, proved  *)
(* for any products and users and any number of calls.                     *)
(***************************************************************************)
EXTENDS Wishlist, CommonLemmas

(***************************************************************************)
(* Firestore's view once more, as a function of the calls cs and the       *)
(* documents items: ViewIn is the view when of the calls those in Q are    *)
(* the queued writes, ViewWithout the view if call i had not been made.    *)
(***************************************************************************)
QueueIn(cs, u, p) ==
  {i \in DOMAIN cs : /\ cs[i].op # "get" /\ cs[i].request = "queued"
                     /\ cs[i].user = u /\ cs[i].product = p}

ViewIn(Q, cs, items, u, p) ==
  IF Q = {} THEN p \in items[u] ELSE cs[Max(Q)].op = "set"

View(cs, items, u, p) == ViewIn(QueueIn(cs, u, p), cs, items, u, p)

ViewWithout(i, cs, items, u, p) == ViewIn(QueueIn(cs, u, p) \ {i}, cs, items, u, p)

(***************************************************************************)
(* Calls are of the page on top only while it is a description page; the   *)
(* handler of such a call has not been lost, and goes on only after the    *)
(* request was answered.                                                   *)
(***************************************************************************)
ShownCalls ==
  \A i \in DOMAIN calls : calls[i].host = "shown" =>
    /\ page = "Desc"
    /\ calls[i].future # "lost"
    /\ calls[i].future # "pending" => calls[i].request # "queued"

(***************************************************************************)
(* Of an undisturbed page: its calls are for its product and user, and the *)
(* last call is the only one that may be under way.  While it is, a load   *)
(* that was answered knows what the view holds, and a toggle leaves the    *)
(* heart as the view is without it, or was before it was served.           *)
(***************************************************************************)
LoadKnows(i) ==
  /\ \A j \in DOMAIN calls : calls[j].host = "shown" => j = i
  /\ calls[i].request = "served" => calls[i].exists = View(calls, my_items, currentUser, product)

ToggleKnows(i) ==
  /\ calls[i].op = IF isWishlisted THEN "delete" ELSE "set"
  /\ calls[i].request = "queued" =>
       isWishlisted = ViewWithout(i, calls, my_items, currentUser, product)
  /\ calls[i].request = "served" => isWishlisted = ~View(calls, my_items, currentUser, product)
  /\ calls[i].request = "refused" => isWishlisted = View(calls, my_items, currentUser, product)

Undisturbed ==
  page = "Desc" /\ undisturbed =>
    /\ currentUser \in Users
    /\ \A i \in DOMAIN calls : calls[i].host = "shown" =>
         calls[i].user = currentUser /\ calls[i].product = product
    /\ \A i \in Waiting :
         /\ i = Len(calls)
         /\ calls[i].op = "get" => LoadKnows(i)
         /\ calls[i].op # "get" => ToggleKnows(i)
    /\ Waiting = {} => isWishlisted = View(calls, my_items, currentUser, product)

HeartInv == TypeOK /\ ShownCalls /\ Undisturbed

-----------------------------------------------------------------------------
(***************************************************************************)
(* Type correctness.                                                       *)
(***************************************************************************)

\* A step that advances one call by a record of the same type.
LEMMA CallChanges ==
  ASSUME TypeOK, NEW i \in DOMAIN calls, NEW c \in Call, calls' = [calls EXCEPT ![i] = c]
  PROVE  /\ calls' \in Seq(Call) /\ Len(calls') = Len(calls)
         /\ DOMAIN calls' = DOMAIN calls
         /\ \A j \in DOMAIN calls : calls'[j] = IF j = i THEN c ELSE calls[j]
BY OneElementChanges DEF TypeOK

\* Leaving a description page leaves its calls behind.
LEMMA LeftChangesHost ==
  ASSUME TypeOK
  PROVE  /\ Left(calls) \in Seq(Call) /\ Len(Left(calls)) = Len(calls)
         /\ DOMAIN Left(calls) = DOMAIN calls
         /\ \A j \in DOMAIN calls : Left(calls)[j] = [calls[j] EXCEPT !.host = "left"]
<1>1. \A j \in DOMAIN calls : Left(calls)[j] = [calls[j] EXCEPT !.host = "left"]
  BY DEF Left
<1>2. \A j \in DOMAIN calls : calls[j] \in Call
  BY LenProperties DEF TypeOK
<1>3. \A j \in DOMAIN calls : Left(calls)[j] \in Call
  BY <1>1, <1>2 DEF Call
<1>4. Left(calls) = [j \in DOMAIN calls |-> Left(calls)[j]]
  BY DEF Left
<1>5. QED
  BY <1>1, <1>3, <1>4, EveryElementChanges DEF TypeOK

\* A new call of a signed-in user has its type.
LEMMA NewCallTyped ==
  ASSUME TypeOK, currentUser # NoUser, NEW op \in {"get", "set", "delete"},
         NEW p \in Products, Len(calls) < MaxCalls, calls' = Append(calls, NewCall(op, p))
  PROVE  /\ NewCall(op, p) \in Call
         /\ calls' \in Seq(Call) /\ Len(calls') <= MaxCalls
<1>1. NewCall(op, p) \in Call
  BY DEF NewCall, Call, TypeOK
<1>2. QED
  BY <1>1, OneElementIsAdded, MaxCallsAssumption DEF TypeOK

\* The view holds a product or it does not.
LEMMA InViewIsBoolean == \A u, p : InView(u, p) \in BOOLEAN
<1>1. TAKE u, p
<1>2. CASE QueuedOn(u, p) = {}
  <2>1. InView(u, p) = (p \in my_items[u])
    BY <1>2 DEF InView
  <2>2. QED
    BY <2>1
<1>3. CASE QueuedOn(u, p) # {}
  BY <1>3, Zenon DEF InView
<1>4. QED
  BY <1>2, <1>3

\* The app starts in a state of the type.
LEMMA InitTyped == Init => TypeOK
<1>1. <<>> \in Seq(Call) /\ Len(<<>>) <= MaxCalls
  BY EmptySeq, MaxCallsAssumption
<1>2. QED
  BY <1>1 DEF Init, TypeOK, Pages

\* Every step keeps the type.
LEMMA NextTyped == TypeOK /\ [Next]_vars => TypeOK'
<1> SUFFICES ASSUME TypeOK, [Next]_vars PROVE TypeOK'
  OBVIOUS
<1>a. \A j \in DOMAIN calls : calls[j] \in Call
  BY LenProperties DEF TypeOK
<1>1. CASE OpenWishlist
  BY <1>1 DEF OpenWishlist, TypeOK, Pages
<1>2. ASSUME NEW p \in Products, OpenProduct(p) PROVE TypeOK'
  <2>1. CASE currentUser = NoUser
    BY <1>2, <2>1, ProductAssumption DEF OpenProduct, TypeOK, Pages
  <2>2. CASE currentUser # NoUser
    <3>1. calls' \in Seq(Call) /\ Len(calls') <= MaxCalls
      BY <1>2, <2>2, NewCallTyped DEF OpenProduct
    <3>2. QED
      BY <1>2, <2>2, <3>1, ProductAssumption DEF OpenProduct, TypeOK, Pages
  <2>3. QED
    BY <2>1, <2>2
<1>3. CASE Leave
  BY <1>3, LeftChangesHost DEF Leave, ShowBrowse, TypeOK, Pages
<1>4. CASE BackToWishlist
  BY <1>4, LeftChangesHost DEF BackToWishlist, TypeOK, Pages
<1>5. CASE ToggleWishlist
  <2>1. product \in Products
    BY <1>5 DEF ToggleWishlist, TypeOK
  <2>2. calls' \in Seq(Call) /\ Len(calls') <= MaxCalls
    BY <1>5, <2>1, NewCallTyped DEF ToggleWishlist
  <2>3. QED
    BY <1>5, <2>2 DEF ToggleWishlist, TypeOK
<1>6. ASSUME NEW i \in DOMAIN calls, LoadDone(i) PROVE TypeOK'
  <2>1. [calls[i] EXCEPT !.future = "done"] \in Call /\ calls[i].exists \in BOOLEAN
    BY <1>a DEF Call
  <2>2. calls' = [calls EXCEPT ![i] = [calls[i] EXCEPT !.future = "done"]]
    BY <1>6 DEF LoadDone
  <2>3. QED
    BY <1>6, <2>1, <2>2, CallChanges DEF LoadDone, TypeOK
<1>7. ASSUME NEW i \in DOMAIN calls, ToggleDone(i) PROVE TypeOK'
  <2>1. [calls[i] EXCEPT !.future = "done"] \in Call
    BY <1>a DEF Call
  <2>2. calls' = [calls EXCEPT ![i] = [calls[i] EXCEPT !.future = "done"]]
    BY <1>7 DEF ToggleDone
  <2>3. QED
    BY <1>7, <2>1, <2>2, CallChanges DEF ToggleDone, TypeOK
<1>8. ASSUME NEW i \in DOMAIN calls, CallFailed(i) PROVE TypeOK'
  <2>1. [calls[i] EXCEPT !.future = "failed"] \in Call
    BY <1>a DEF Call
  <2>2. calls' = [calls EXCEPT ![i] = [calls[i] EXCEPT !.future = "failed"]]
    BY <1>8 DEF CallFailed
  <2>3. QED
    BY <1>8, <2>1, <2>2, CallChanges DEF CallFailed, TypeOK
<1>9. ASSUME NEW i \in DOMAIN calls, ServeGet(i) PROVE TypeOK'
  <2> DEFINE x == InView(calls[i].user, calls[i].product)
  <2>1. x \in BOOLEAN
    BY InViewIsBoolean
  <2>2. [calls[i] EXCEPT !.request = "served", !.exists = x] \in Call
    <3> HIDE DEF x
    <3> QED
      BY <1>a, <2>1 DEF Call
  <2>3. calls' = [calls EXCEPT ![i] = [calls[i] EXCEPT !.request = "served", !.exists = x]]
    BY <1>9 DEF ServeGet
  <2>4. calls' \in Seq(Call) /\ Len(calls') = Len(calls)
    BY <2>2, <2>3, CallChanges
  <2>5. QED
    BY <1>9, <2>4 DEF ServeGet, TypeOK
<1>10. ASSUME NEW i \in DOMAIN calls, ServeWrite(i) PROVE TypeOK'
  <2>1. [calls[i] EXCEPT !.request = "served"] \in Call
        /\ calls[i].user \in Users /\ calls[i].product \in Products
    BY <1>a DEF Call
  <2>2. calls' = [calls EXCEPT ![i] = [calls[i] EXCEPT !.request = "served"]]
    BY <1>10 DEF ServeWrite
  <2>3. my_items' \in [Users -> SUBSET Products]
    BY <1>10, <2>1 DEF ServeWrite, TypeOK
  <2>4. QED
    BY <1>10, <2>1, <2>2, <2>3, CallChanges DEF ServeWrite, TypeOK
<1>11. ASSUME NEW i \in DOMAIN calls, Refuse(i) PROVE TypeOK'
  <2>1. [calls[i] EXCEPT !.request = "refused"] \in Call
    BY <1>a DEF Call
  <2>2. calls' = [calls EXCEPT ![i] = [calls[i] EXCEPT !.request = "refused"]]
    BY <1>11 DEF Refuse
  <2>3. QED
    BY <1>11, <2>1, <2>2, CallChanges DEF Refuse, TypeOK
<1>12. ASSUME NEW u \in Users \cup {NoUser}, SessionChange(u) PROVE TypeOK'
  BY <1>12, LeftChangesHost DEF SessionChange, ShowBrowse, TypeOK, Pages
<1>13. CASE Restart
  <2>1. calls' = [j \in DOMAIN calls |-> calls'[j]]
    BY <1>13 DEF Restart
  <2>2. \A j \in DOMAIN calls : calls'[j] \in Call
    BY <1>13, <1>a DEF Restart, Call
  <2>3. calls' \in Seq(Call) /\ Len(calls') = Len(calls)
    BY <2>1, <2>2, EveryElementChanges DEF TypeOK
  <2>4. QED
    BY <1>13, <2>3 DEF Restart, TypeOK, Pages
<1>14. CASE UNCHANGED vars
  BY <1>14 DEF vars, TypeOK
<1>15. QED
  BY <1>1, <1>2, <1>3, <1>4, <1>5, <1>6, <1>7, <1>8, <1>9, <1>10, <1>11, <1>12, <1>13,
     <1>14 DEF Next

(***************************************************************************)
(* The pages, the calls of the heart and the documents on the server keep  *)
(* their types whatever the user, Firestore and restarts do.               *)
(***************************************************************************)
THEOREM WishlistTypeCorrect == Spec => []TypeOK
<1>1. QED
  BY InitTyped, NextTyped, PTL DEF Spec

-----------------------------------------------------------------------------
(***************************************************************************)
(* Lemmas on the view.                                                     *)
(***************************************************************************)

\* The view of the model is the view as a function of calls and documents.
LEMMA InViewIsView ==
  ASSUME NEW u, NEW p
  PROVE  /\ InView(u, p) = View(calls, my_items, u, p)
         /\ QueuedOn(u, p) = QueueIn(calls, u, p)
<1>1. QueuedOn(u, p) = QueueIn(calls, u, p)
  BY DEF QueuedOn, QueuedWrites, QueueIn
<1>2. QED
  BY <1>1 DEF InView, View, ViewIn

\* Only the operations of the queued calls matter for it.
LEMMA ViewDependsOnQueue ==
  ASSUME NEW cs \in Seq(Call), NEW ds, NEW Q, Q \subseteq DOMAIN cs,
         \A j \in Q : ds[j].op = cs[j].op, NEW items, NEW u, NEW p
  PROVE  ViewIn(Q, ds, items, u, p) = ViewIn(Q, cs, items, u, p)
<1>1. CASE Q = {}
  BY <1>1 DEF ViewIn
<1>2. CASE Q # {}
  <2>1. DOMAIN cs = 1..Len(cs) /\ Len(cs) \in Nat
    BY LenProperties
  <2>2. Q \subseteq Nat /\ \A j \in Q : j <= Len(cs)
    BY <2>1
  <2>3. Max(Q) \in Q
    BY <1>2, <2>1, <2>2, MaxIsGreatest
  <2>4. ds[Max(Q)].op = cs[Max(Q)].op
    BY <2>3
  <2>5. QED
    BY <1>2, <2>4 DEF ViewIn
<1>3. QED
  BY <1>1, <1>2

(***************************************************************************)
(* When the server takes the first of the queued writes and does what it   *)
(* says, the view stays as it is.                                          *)
(***************************************************************************)
LEMMA ServingKeepsTheView ==
  ASSUME NEW cs \in Seq(Call), NEW Q, Q \subseteq DOMAIN cs, NEW i \in Q,
         \A j \in Q : i <= j, NEW items, NEW new, NEW u, NEW p,
         p \in new[u] <=> cs[i].op = "set"
  PROVE  ViewIn(Q \ {i}, cs, new, u, p) = ViewIn(Q, cs, items, u, p)
<1>1. DOMAIN cs = 1..Len(cs) /\ Len(cs) \in Nat
  BY LenProperties
<1>2. Q \subseteq Nat /\ \A j \in Q : j <= Len(cs)
  BY <1>1
<1>3. CASE Q \ {i} = {}
  <2>1. Q = {i}
    BY <1>3
  <2>2. Max(Q) = i
    BY <1>2, <2>1, MaxIs
  <2>3. ViewIn(Q, cs, items, u, p) = (cs[i].op = "set")
    BY <2>1, <2>2 DEF ViewIn
  <2>4. ViewIn(Q \ {i}, cs, new, u, p) = (p \in new[u])
    BY <1>3 DEF ViewIn
  <2>5. QED
    BY <2>3, <2>4
<1>4. CASE Q \ {i} # {}
  <2>1. PICK k \in Q : k # i
    BY <1>4
  <2>2. Max(Q) \in Q /\ \A j \in Q : j <= Max(Q)
    BY <1>1, <1>2, MaxIsGreatest
  <2>3. Max(Q) # i
    <3>1. i < k /\ k <= Max(Q)
      BY <1>2, <2>1, <2>2
    <3>2. QED
      BY <1>2, <2>2, <3>1
  <2>4. Max(Q \ {i}) = Max(Q)
    <3> DEFINE R == Q \ {i}
    <3>1. R \subseteq Nat /\ Max(Q) \in R /\ \A j \in R : j <= Max(Q)
      BY <1>2, <2>2, <2>3
    <3> HIDE DEF R
    <3>2. Max(R) = Max(Q)
      BY <3>1, MaxIs
    <3>3. QED
      BY <3>2 DEF R
  <2>5. QED
    BY <1>4, <2>4 DEF ViewIn
<1>5. QED
  BY <1>3, <1>4

\* The calls cs and ds are the same writes, in the same state.
SameWrites(cs, ds) ==
  /\ DOMAIN ds = DOMAIN cs
  /\ \A j \in DOMAIN cs :
       /\ ds[j].op = cs[j].op
       /\ ds[j].user = cs[j].user
       /\ ds[j].product = cs[j].product
       /\ cs[j].op # "get" => ds[j].request = cs[j].request

\* A step that leaves the queued writes and the server alone keeps the view.
LEMMA SameQueueSameView ==
  ASSUME NEW cs \in Seq(Call), NEW ds, SameWrites(cs, ds), NEW items, NEW u, NEW p, NEW i
  PROVE  /\ View(ds, items, u, p) = View(cs, items, u, p)
         /\ ViewWithout(i, ds, items, u, p) = ViewWithout(i, cs, items, u, p)
<1>1. QueueIn(ds, u, p) = QueueIn(cs, u, p) /\ QueueIn(cs, u, p) \subseteq DOMAIN cs
  BY DEF QueueIn, SameWrites
<1>a. \A j \in DOMAIN cs : ds[j].op = cs[j].op
  BY DEF SameWrites
<1>2. View(ds, items, u, p) = View(cs, items, u, p)
  BY <1>1, <1>a, ViewDependsOnQueue DEF View
<1>3. ViewWithout(i, ds, items, u, p) = ViewWithout(i, cs, items, u, p)
  <2> DEFINE Q == QueueIn(cs, u, p) \ {i}
  <2>1. Q \subseteq DOMAIN cs
    BY <1>1
  <2>2. ViewIn(Q, ds, items, u, p) = ViewIn(Q, cs, items, u, p)
    <3> HIDE DEF Q
    <3> QED
      BY <1>a, <2>1, ViewDependsOnQueue
  <2>3. QED
    BY <1>1, <2>2 DEF ViewWithout
<1>4. QED
  BY <1>2, <1>3

\* A load that starts changes nothing of the view.
LEMMA NewLoadSameView ==
  ASSUME NEW cs \in Seq(Call), NEW e \in Call, e.op = "get", NEW items, NEW u, NEW p
  PROVE  View(Append(cs, e), items, u, p) = View(cs, items, u, p)
<1> DEFINE ds == Append(cs, e)
<1>1. /\ DOMAIN ds = DOMAIN cs \cup {Len(cs) + 1}
      /\ ds[Len(cs) + 1] = e
      /\ \A j \in DOMAIN cs : ds[j] = cs[j] /\ j # Len(cs) + 1
  BY OneElementIsAdded
<1> HIDE DEF ds
<1>2. QueueIn(ds, u, p) = QueueIn(cs, u, p) /\ QueueIn(cs, u, p) \subseteq DOMAIN cs
  BY <1>1 DEF QueueIn
<1>3. View(ds, items, u, p) = View(cs, items, u, p)
  BY <1>1, <1>2, ViewDependsOnQueue DEF View
<1>4. QED
  BY <1>3 DEF ds

\* Without a toggle that was just tapped the view is what it was.
LEMMA NewToggleOverView ==
  ASSUME NEW cs \in Seq(Call), NEW e \in Call, e.op # "get", e.request = "queued",
         NEW items
  PROVE  ViewWithout(Len(cs) + 1, Append(cs, e), items, e.user, e.product)
           = View(cs, items, e.user, e.product)
<1> DEFINE ds == Append(cs, e)
           k  == Len(cs) + 1
           u  == e.user
           p  == e.product
<1>1. /\ DOMAIN ds = DOMAIN cs \cup {k}
      /\ ds[k] = e
      /\ \A j \in DOMAIN cs : ds[j] = cs[j] /\ j # k
  BY OneElementIsAdded
<1> HIDE DEF ds, k
<1>2. QueueIn(ds, u, p) \ {k} = QueueIn(cs, u, p) /\ QueueIn(cs, u, p) \subseteq DOMAIN cs
  BY <1>1 DEF QueueIn
<1>3. \A j \in QueueIn(cs, u, p) : ds[j].op = cs[j].op
  BY <1>1, <1>2
<1> HIDE DEF u, p
<1>4. ViewIn(QueueIn(cs, u, p), ds, items, u, p) = ViewIn(QueueIn(cs, u, p), cs, items, u, p)
  BY <1>2, <1>3, ViewDependsOnQueue
<1>5. ViewWithout(k, ds, items, u, p) = View(cs, items, u, p)
  BY <1>2, <1>4 DEF View, ViewWithout
<1>6. QED
  BY <1>5 DEF ds, k, u, p

-----------------------------------------------------------------------------
(***************************************************************************)
(* The heart.                                                              *)
(***************************************************************************)

\* The calls are records of their type.
LEMMA CallsTyped ==
  ASSUME TypeOK
  PROVE  /\ calls \in Seq(Call) /\ DOMAIN calls = 1..Len(calls) /\ Len(calls) \in Nat
         /\ \A j \in DOMAIN calls : calls[j] \in Call
BY LenProperties DEF TypeOK

\* Taking a description page off the top leaves nothing to be true of it.
LEMMA PageGone ==
  ASSUME TypeOK', page' # "Desc", \A j \in DOMAIN calls' : calls'[j].host = "left"
  PROVE  HeartInv'
BY DEF HeartInv, ShownCalls, Undisturbed

\* The calls once a page was left.
LEMMA AllLeft ==
  ASSUME TypeOK, calls' = Left(calls)
  PROVE  \A j \in DOMAIN calls' : calls'[j].host = "left"
BY LeftChangesHost, CallsTyped DEF Call

(***************************************************************************)
(* The handler of call i goes on for the last time.  The view stays, and   *)
(* so does all that is known of the other calls of the page.               *)
(***************************************************************************)
WaitIsOver(i) ==
  /\ DOMAIN calls' = DOMAIN calls /\ Len(calls') = Len(calls)
  /\ \A j \in DOMAIN calls :
       /\ calls'[j].op = calls[j].op
       /\ calls'[j].user = calls[j].user
       /\ calls'[j].product = calls[j].product
       /\ calls'[j].request = calls[j].request
       /\ calls'[j].exists = calls[j].exists
       /\ calls'[j].host = calls[j].host
  /\ Waiting' = Waiting \ {i}
  /\ View(calls', my_items', currentUser', product')
       = View(calls, my_items, currentUser, product)
  /\ \A k : ViewWithout(k, calls', my_items', currentUser', product')
            = ViewWithout(k, calls, my_items, currentUser, product)

\* The three handlers after their await do that.
LEMMA HandlerGoesOn ==
  ASSUME HeartInv, NEW i \in DOMAIN calls, NEW ph \in {"done", "failed"},
         calls[i].request # "queued",
         calls' = [calls EXCEPT ![i].future = ph],
         UNCHANGED <<my_items, currentUser, page, product>>
  PROVE  WaitIsOver(i) /\ ShownCalls'
<1> DEFINE c == [calls[i] EXCEPT !.future = ph]
<1>a. calls \in Seq(Call) /\ \A j \in DOMAIN calls : calls[j] \in Call
  BY CallsTyped DEF HeartInv
<1>1. c \in Call /\ c.op = calls[i].op /\ c.user = calls[i].user
      /\ c.product = calls[i].product /\ c.request = calls[i].request
      /\ c.future = ph /\ c.host = calls[i].host /\ c.exists = calls[i].exists
  BY <1>a DEF Call
<1>2. /\ DOMAIN calls' = DOMAIN calls /\ Len(calls') = Len(calls)
      /\ \A j \in DOMAIN calls : calls'[j] = IF j = i THEN c ELSE calls[j]
  <2>1. calls' = [calls EXCEPT ![i] = c]
    OBVIOUS
  <2> HIDE DEF c
  <2>2. QED
    BY <1>1, <2>1, CallChanges DEF HeartInv
<1> HIDE DEF c
<1>3. \A j \in DOMAIN calls :
        /\ calls'[j].op = calls[j].op
        /\ calls'[j].user = calls[j].user
        /\ calls'[j].product = calls[j].product
        /\ calls'[j].request = calls[j].request
        /\ calls'[j].exists = calls[j].exists
        /\ calls'[j].host = calls[j].host
  BY <1>1, <1>2
<1>4. ShownCalls'
  BY <1>1, <1>2 DEF HeartInv, ShownCalls
<1>5. Waiting' = Waiting \ {i}
  BY <1>1, <1>2 DEF Waiting
<1>6. /\ View(calls', my_items, currentUser, product)
           = View(calls, my_items, currentUser, product)
      /\ \A k : ViewWithout(k, calls', my_items, currentUser, product)
                = ViewWithout(k, calls, my_items, currentUser, product)
  <2>1. SameWrites(calls, calls')
    BY <1>2, <1>3 DEF SameWrites
  <2>3. View(calls', my_items, currentUser, product)
           = View(calls, my_items, currentUser, product)
    BY <1>a, <2>1, SameQueueSameView
  <2>4. ASSUME NEW k PROVE ViewWithout(k, calls', my_items, currentUser, product)
                = ViewWithout(k, calls, my_items, currentUser, product)
    BY <1>a, <2>1, SameQueueSameView
  <2>2. QED
    BY <2>3, <2>4
<1>7. QED
  BY <1>2, <1>3, <1>4, <1>5, <1>6 DEF WaitIsOver

(***************************************************************************)
(* What is known of an undisturbed page stays known in a step that changes *)
(* neither its page, product, user and heart nor the view, and none of its *)
(* waiting calls.                                                          *)
(***************************************************************************)
LEMMA NothingSeen ==
  ASSUME HeartInv, UNCHANGED <<currentUser, page, product, isWishlisted>>,
         undisturbed' => undisturbed,
         DOMAIN calls' = DOMAIN calls, Len(calls') = Len(calls),
         \A j \in DOMAIN calls : /\ calls'[j].user = calls[j].user
                                 /\ calls'[j].product = calls[j].product
                                 /\ calls'[j].host = calls[j].host,
         Waiting' = Waiting,
         \A k \in Waiting : /\ calls'[k].op = calls[k].op
                            /\ calls'[k].request = calls[k].request
                            /\ calls'[k].exists = calls[k].exists,
         View(calls', my_items', currentUser', product')
           = View(calls, my_items, currentUser, product),
         \A k \in Waiting : ViewWithout(k, calls', my_items', currentUser', product')
                              = ViewWithout(k, calls, my_items, currentUser, product)
  PROVE  Undisturbed'
<1>1. SUFFICES ASSUME page = "Desc", undisturbed PROVE Undisturbed'
  BY DEF Undisturbed
<1>2. ASSUME NEW k \in Waiting
      PROVE  /\ k = Len(calls')
             /\ calls'[k].op = "get" => LoadKnows(k)'
             /\ calls'[k].op # "get" => ToggleKnows(k)'
  <2>1. k = Len(calls)
    BY <1>1 DEF HeartInv, Undisturbed
  <2>2. CASE calls[k].op = "get"
    <3>1. LoadKnows(k)
      BY <1>1, <2>2 DEF HeartInv, Undisturbed
    <3>2. QED
      BY <2>1, <2>2, <3>1 DEF LoadKnows
  <2>3. CASE calls[k].op # "get"
    <3>1. ToggleKnows(k)
      BY <1>1, <2>3 DEF HeartInv, Undisturbed
    <3>2. QED
      BY <2>1, <2>3, <3>1 DEF ToggleKnows
  <2>4. QED
    BY <2>2, <2>3
<1>3. QED
  BY <1>1, <1>2 DEF HeartInv, Undisturbed

(***************************************************************************)
(* A load that was answered is the only call of its page, and sets the     *)
(* heart to what the view holds.                                           *)
(***************************************************************************)
LEMMA LoadDoneKeeps ==
  ASSUME HeartInv, NEW i \in DOMAIN calls, LoadDone(i)
  PROVE  ShownCalls' /\ Undisturbed'
<1>1. /\ calls' = [calls EXCEPT ![i].future = "done"] /\ calls[i].request = "served"
      /\ UNCHANGED <<my_items, currentUser, page, product, undisturbed>>
  BY DEF LoadDone
<1>2. WaitIsOver(i) /\ ShownCalls'
  BY <1>1, HandlerGoesOn
<1> USE DEF WaitIsOver
<1>3. CASE calls[i].host = "shown"
  <2>1. SUFFICES ASSUME page = "Desc", undisturbed PROVE Undisturbed'
    BY <1>1, <1>2 DEF Undisturbed
  <2>2. i \in Waiting /\ calls[i].op = "get"
    BY <1>3 DEF LoadDone, Waiting
  <2>3. /\ \A k \in Waiting : k = i
        /\ calls[i].exists = View(calls, my_items, currentUser, product)
    BY <1>1, <2>1, <2>2 DEF HeartInv, Undisturbed, LoadKnows
  <2>4. Waiting' = {} /\ isWishlisted' = View(calls, my_items, currentUser, product)
    BY <1>2, <1>3, <2>3 DEF LoadDone
  <2>5. QED
    BY <1>1, <1>2, <2>1, <2>4 DEF HeartInv, Undisturbed
<1>4. CASE calls[i].host # "shown"
  <2>1. Waiting' = Waiting /\ isWishlisted' = isWishlisted
    BY <1>2, <1>4 DEF Waiting, LoadDone
  <2>2. Waiting \subseteq DOMAIN calls
    BY DEF Waiting
  <2>3. QED
    BY <1>1, <1>2, <2>1, <2>2, NothingSeen
<1>5. QED
  BY <1>3, <1>4

(***************************************************************************)
(* A toggle that was served flips the heart, which showed the opposite of  *)
(* the view.                                                               *)
(***************************************************************************)
LEMMA ToggleDoneKeeps ==
  ASSUME HeartInv, NEW i \in DOMAIN calls, ToggleDone(i)
  PROVE  ShownCalls' /\ Undisturbed'
<1>1. /\ calls' = [calls EXCEPT ![i].future = "done"] /\ calls[i].request = "served"
      /\ UNCHANGED <<my_items, currentUser, page, product, undisturbed>>
  BY DEF ToggleDone
<1>2. WaitIsOver(i) /\ ShownCalls'
  BY <1>1, HandlerGoesOn
<1> USE DEF WaitIsOver
<1>3. CASE calls[i].host = "shown"
  <2>1. SUFFICES ASSUME page = "Desc", undisturbed PROVE Undisturbed'
    BY <1>1, <1>2 DEF Undisturbed
  <2>2. i \in Waiting /\ calls[i].op # "get"
    BY <1>3 DEF ToggleDone, Waiting
  <2>3. /\ \A k \in Waiting : k = i
        /\ isWishlisted = ~View(calls, my_items, currentUser, product)
    BY <1>1, <2>1, <2>2 DEF HeartInv, Undisturbed, ToggleKnows
  <2>4. View(calls, my_items, currentUser, product) \in BOOLEAN
    BY InViewIsBoolean, InViewIsView
  <2>5. Waiting' = {} /\ isWishlisted' = View(calls, my_items, currentUser, product)
    BY <1>2, <1>3, <2>3, <2>4 DEF ToggleDone
  <2>6. QED
    BY <1>1, <1>2, <2>1, <2>5 DEF HeartInv, Undisturbed
<1>4. CASE calls[i].host # "shown"
  <2>1. Waiting' = Waiting /\ isWishlisted' = isWishlisted
    BY <1>2, <1>4 DEF Waiting, ToggleDone
  <2>2. Waiting \subseteq DOMAIN calls
    BY DEF Waiting
  <2>3. QED
    BY <1>1, <1>2, <2>1, <2>2, NothingSeen
<1>5. QED
  BY <1>3, <1>4

\* A toggle that was refused leaves the heart, and the view is what it was.
LEMMA CallFailedKeeps ==
  ASSUME HeartInv, NEW i \in DOMAIN calls, CallFailed(i)
  PROVE  ShownCalls' /\ Undisturbed'
<1>1. /\ calls' = [calls EXCEPT ![i].future = "failed"] /\ calls[i].request = "refused"
      /\ UNCHANGED <<my_items, currentUser, page, product, isWishlisted>>
  BY DEF CallFailed
<1>2. WaitIsOver(i) /\ ShownCalls'
  BY <1>1, HandlerGoesOn
<1> USE DEF WaitIsOver
<1>a. undisturbed' => undisturbed
  BY DEF CallFailed
<1>3. CASE calls[i].host = "shown"
  <2>1. SUFFICES ASSUME page = "Desc", undisturbed, undisturbed' PROVE Undisturbed'
    BY <1>1, <1>2, <1>a DEF Undisturbed
  <2>2. i \in Waiting /\ calls[i].op # "get"
    BY <1>3, <2>1 DEF CallFailed, Waiting
  <2>3. /\ \A k \in Waiting : k = i
        /\ isWishlisted = View(calls, my_items, currentUser, product)
    BY <1>1, <2>1, <2>2 DEF HeartInv, Undisturbed, ToggleKnows
  <2>4. Waiting' = {}
    BY <1>2, <2>3
  <2>5. QED
    BY <1>1, <1>2, <2>1, <2>3, <2>4 DEF HeartInv, Undisturbed
<1>4. CASE calls[i].host # "shown"
  <2>1. Waiting' = Waiting
    BY <1>2, <1>4 DEF Waiting
  <2>2. Waiting \subseteq DOMAIN calls
    BY DEF Waiting
  <2>3. QED
    BY <1>1, <1>2, <1>a, <2>1, <2>2, NothingSeen
<1>5. QED
  BY <1>3, <1>4

-----------------------------------------------------------------------------
(***************************************************************************)
(* The answers of Firestore.  One call's request or answer changes.        *)
(***************************************************************************)

\* What an answer leaves alone.
RequestChanges(i, c) ==
  /\ c \in Call /\ c.op = calls[i].op /\ c.user = calls[i].user
  /\ c.product = calls[i].product /\ c.future = calls[i].future /\ c.host = calls[i].host
  /\ calls' \in Seq(Call) /\ DOMAIN calls' = DOMAIN calls /\ Len(calls') = Len(calls)
  /\ \A j \in DOMAIN calls : calls'[j] = IF j = i THEN c ELSE calls[j]
  /\ \A j \in DOMAIN calls : /\ calls'[j].op = calls[j].op
                             /\ calls'[j].user = calls[j].user
                             /\ calls'[j].product = calls[j].product
                             /\ calls'[j].future = calls[j].future
                             /\ calls'[j].host = calls[j].host
                             /\ j # i => calls'[j] = calls[j]
  /\ Waiting' = Waiting

\* Replacing a call by one that differs in its request and answer does that.
LEMMA AnswerArrives ==
  ASSUME TypeOK, NEW i \in DOMAIN calls, NEW c \in Call,
         c.op = calls[i].op, c.user = calls[i].user, c.product = calls[i].product,
         c.future = calls[i].future, c.host = calls[i].host,
         calls' = [calls EXCEPT ![i] = c]
  PROVE  RequestChanges(i, c)
<1>1. /\ calls' \in Seq(Call) /\ DOMAIN calls' = DOMAIN calls /\ Len(calls') = Len(calls)
      /\ \A j \in DOMAIN calls : calls'[j] = IF j = i THEN c ELSE calls[j]
  BY CallChanges
<1>2. \A j \in DOMAIN calls : /\ calls'[j].op = calls[j].op
                              /\ calls'[j].user = calls[j].user
                              /\ calls'[j].product = calls[j].product
                              /\ calls'[j].future = calls[j].future
                              /\ calls'[j].host = calls[j].host
                              /\ j # i => calls'[j] = calls[j]
  BY <1>1
<1>3. Waiting' = Waiting
  BY <1>1, <1>2 DEF Waiting
<1>4. QED
  BY <1>1, <1>2, <1>3 DEF RequestChanges

\* An answer takes its write out of the queue.
LEMMA AnswerShortensQueue ==
  ASSUME NEW i \in DOMAIN calls, NEW c \in Call, RequestChanges(i, c), c.request # "queued",
         NEW u, NEW p
  PROVE  /\ QueueIn(calls', u, p) = QueueIn(calls, u, p) \ {i}
         /\ QueueIn(calls, u, p) \subseteq DOMAIN calls
         /\ \A j \in DOMAIN calls : calls'[j].op = calls[j].op
<1>1. calls'[i].request # "queued" /\ DOMAIN calls' = DOMAIN calls
  BY DEF RequestChanges
<1>2. \A j \in DOMAIN calls : /\ calls'[j].op = calls[j].op
                              /\ calls'[j].user = calls[j].user
                              /\ calls'[j].product = calls[j].product
                              /\ j # i => calls'[j].request = calls[j].request
  BY DEF RequestChanges
<1>3. QueueIn(calls, u, p) \subseteq DOMAIN calls /\ QueueIn(calls', u, p) \subseteq DOMAIN calls
  BY <1>1 DEF QueueIn
<1>4. \A j \in DOMAIN calls :
        j \in QueueIn(calls', u, p) <=> j \in QueueIn(calls, u, p) /\ j # i
  BY <1>1, <1>2 DEF QueueIn
<1>5. QueueIn(calls', u, p) = QueueIn(calls, u, p) \ {i}
  BY <1>3, <1>4
<1>6. QED
  BY <1>2, <1>3, <1>5

\* The load of the page gets what the view holds.
LEMMA ServeGetKeeps ==
  ASSUME HeartInv, NEW i \in DOMAIN calls, ServeGet(i)
  PROVE  ShownCalls' /\ Undisturbed'
<1> DEFINE x == InView(calls[i].user, calls[i].product)
           c == [calls[i] EXCEPT !.request = "served", !.exists = x]
<1>1. x \in BOOLEAN /\ x = View(calls, my_items, calls[i].user, calls[i].product)
  BY InViewIsBoolean, InViewIsView
<1>2. /\ calls' = [calls EXCEPT ![i].request = "served", ![i].exists = x]
      /\ calls[i].op = "get" /\ calls[i].future = "pending"
  BY DEF ServeGet
<1>a. UNCHANGED <<my_items, currentUser, page, product, isWishlisted, undisturbed>>
  BY DEF ServeGet
<1>3. /\ c.request = "served" /\ c.exists = x
      /\ c \in Call /\ c.op = calls[i].op /\ c.user = calls[i].user
      /\ c.product = calls[i].product /\ c.future = calls[i].future
      /\ c.host = calls[i].host
  <2>1. calls[i] \in Call
    BY CallsTyped DEF HeartInv
  <2> HIDE DEF x
  <2>2. QED
    BY <1>1, <2>1 DEF Call
<1> HIDE DEF x
<1>b. calls' = [calls EXCEPT ![i] = c]
  BY <1>2
<1> HIDE DEF c
<1>4. RequestChanges(i, c)
  BY <1>3, <1>b, AnswerArrives DEF HeartInv
<1>5. ShownCalls'
  BY <1>a, <1>2, <1>3, <1>4 DEF RequestChanges, ShownCalls, HeartInv
<1>6. SameWrites(calls, calls') /\ calls \in Seq(Call)
  BY <1>2, <1>4, CallsTyped DEF SameWrites, RequestChanges, HeartInv
<1>7. View(calls', my_items', currentUser', product')
        = View(calls, my_items, currentUser, product)
  BY <1>a, <1>6, SameQueueSameView
<1>8. \A k : ViewWithout(k, calls', my_items', currentUser', product')
            = ViewWithout(k, calls, my_items, currentUser, product)
  BY <1>a, <1>6, SameQueueSameView
<1>9. CASE calls[i].host = "shown"
  <2>1. SUFFICES ASSUME page = "Desc", undisturbed PROVE Undisturbed'
    BY <1>a, <1>5 DEF Undisturbed
  <2>2. i \in Waiting
    BY <1>2, <1>9 DEF Waiting
  <2>3. /\ \A k \in Waiting : k = i
        /\ i = Len(calls)
        /\ LoadKnows(i) /\ calls[i].user = currentUser /\ calls[i].product = product
    BY <1>2, <1>9, <2>1, <2>2 DEF HeartInv, Undisturbed
  <2>4. LoadKnows(i)'
    BY <1>1, <1>a, <1>3, <1>4, <1>7, <2>3 DEF LoadKnows, RequestChanges
  <2>5. QED
    BY <1>a, <1>2, <1>4, <2>1, <2>2, <2>3, <2>4 DEF HeartInv, Undisturbed, RequestChanges
<1>10. CASE calls[i].host # "shown"
  <2>1. i \notin Waiting /\ Waiting \subseteq DOMAIN calls
    BY <1>10 DEF Waiting
  <2>2. QED
    BY <1>a, <1>4, <1>5, <1>7, <1>8, <2>1, NothingSeen DEF RequestChanges
<1>11. QED
  BY <1>5, <1>9, <1>10

\* The write that is answered is the first one its user has queued.
LEMMA FirstInQueue ==
  ASSUME TypeOK, NEW i \in DOMAIN calls, NextToSend(i)
  PROVE  /\ calls[i].op # "get" /\ calls[i].request = "queued" /\ calls[i].user = currentUser
         /\ \A p : /\ \A j \in QueueIn(calls, currentUser, p) : i <= j
                   /\ i \in QueueIn(calls, currentUser, p) <=> calls[i].product = p
<1>1. calls[i].op # "get" /\ calls[i].request = "queued" /\ calls[i].user = currentUser
  BY DEF NextToSend, QueuedWrites
<1>2. QueuedWrites(currentUser) \subseteq Nat /\ i = Min(QueuedWrites(currentUser))
      /\ QueuedWrites(currentUser) # {}
  BY CallsTyped DEF NextToSend, QueuedWrites
<1>3. \A j \in QueuedWrites(currentUser) : i <= j
  BY <1>2, MinIsLeast
<1>4. \A p : QueueIn(calls, currentUser, p) \subseteq QueuedWrites(currentUser)
  BY DEF QueueIn, QueuedWrites
<1>5. \A p : i \in QueueIn(calls, currentUser, p) <=> calls[i].product = p
  BY <1>1 DEF QueueIn
<1>6. QED
  BY <1>1, <1>3, <1>4, <1>5

(***************************************************************************)
(* Serving the first write of the queue keeps the view of every product,   *)
(* and the view without any other queued write.                            *)
(***************************************************************************)
LEMMA ServeWriteKeepsView ==
  ASSUME TypeOK, NEW i \in DOMAIN calls, ServeWrite(i), NEW p \in Products,
         NEW k, k # i
  PROVE  /\ View(calls', my_items', currentUser, p) = View(calls, my_items, currentUser, p)
         /\ ViewWithout(k, calls', my_items', currentUser, p)
              = ViewWithout(k, calls, my_items, currentUser, p)
<1> DEFINE c == [calls[i] EXCEPT !.request = "served"]
           u == currentUser
           Q == QueueIn(calls, u, p)
<1>1. calls \in Seq(Call) /\ calls[i] \in Call
  BY CallsTyped
<1>2. /\ c \in Call /\ c.op = calls[i].op /\ c.user = calls[i].user
      /\ c.product = calls[i].product /\ c.future = calls[i].future
      /\ c.host = calls[i].host
  BY <1>1 DEF Call
<1>3. calls' = [calls EXCEPT ![i] = c] /\ NextToSend(i)
  BY DEF ServeWrite
<1>4. RequestChanges(i, c)
  <2> HIDE DEF c
  <2> QED
    BY <1>2, <1>3, AnswerArrives
<1>5. /\ calls[i].op # "get" /\ calls[i].user = u
      /\ \A j \in Q : i <= j
      /\ i \in Q <=> calls[i].product = p
  BY <1>3, FirstInQueue
<1>6. /\ QueueIn(calls', u, p) = Q \ {i} /\ Q \subseteq DOMAIN calls
      /\ \A j \in DOMAIN calls : calls'[j].op = calls[j].op
  <2>1. c.request = "served"
    BY <1>1 DEF Call
  <2> HIDE DEF c
  <2>2. QED
    BY <1>2, <1>4, <2>1, AnswerShortensQueue
<1>7. p \in my_items'[u] <=>
        IF calls[i].product = p THEN calls[i].op = "set" ELSE p \in my_items[u]
  <2>1. u \in Users
    BY <1>1, <1>5 DEF Call
  <2>2. my_items'[u] = IF calls[i].op = "set" THEN my_items[u] \cup {calls[i].product}
                                             ELSE my_items[u] \ {calls[i].product}
    BY <1>5, <2>1 DEF ServeWrite, TypeOK
  <2>3. QED
    BY <2>2
<1> HIDE DEF c, u, Q
<1>8. ASSUME NEW R, R \subseteq Q, i \in Q => i \in R
      PROVE  ViewIn(R \ {i}, calls', my_items', u, p) = ViewIn(R, calls, my_items, u, p)
  <2>1. R \ {i} \subseteq DOMAIN calls /\ R \subseteq DOMAIN calls
    BY <1>6, <1>8
  <2>2. ViewIn(R \ {i}, calls', my_items', u, p) = ViewIn(R \ {i}, calls, my_items', u, p)
    <3> DEFINE S == R \ {i}
    <3>1. S \subseteq DOMAIN calls /\ \A j \in S : calls'[j].op = calls[j].op
      BY <1>6, <2>1
    <3> HIDE DEF S
    <3>2. ViewIn(S, calls', my_items', u, p) = ViewIn(S, calls, my_items', u, p)
      BY <1>1, <3>1, ViewDependsOnQueue
    <3>3. QED
      BY <3>2 DEF S
  <2>3. CASE i \in Q
    <3>1. i \in R /\ \A j \in R : i <= j
      BY <1>5, <1>8, <2>3
    <3>2. p \in my_items'[u] <=> calls[i].op = "set"
      BY <1>5, <1>7, <2>3
    <3>3. ViewIn(R \ {i}, calls, my_items', u, p) = ViewIn(R, calls, my_items, u, p)
      BY <1>1, <2>1, <3>1, <3>2, ServingKeepsTheView
    <3>4. QED
      BY <2>2, <3>3
  <2>4. CASE i \notin Q
    <3>1. R \ {i} = R /\ (p \in my_items'[u] <=> p \in my_items[u])
      BY <1>5, <1>7, <1>8, <2>4
    <3>2. ViewIn(R, calls, my_items', u, p) = ViewIn(R, calls, my_items, u, p)
      BY <3>1 DEF ViewIn
    <3>3. QED
      BY <2>2, <3>1, <3>2
  <2>5. QED
    BY <2>3, <2>4
<1>9. View(calls', my_items', u, p) = View(calls, my_items, u, p)
  <2>1. ViewIn(Q \ {i}, calls', my_items', u, p) = ViewIn(Q, calls, my_items, u, p)
    BY <1>8
  <2>2. QED
    BY <1>6, <2>1 DEF View, Q
<1>10. ViewWithout(k, calls', my_items', u, p) = ViewWithout(k, calls, my_items, u, p)
  <2>1. ViewIn((Q \ {k}) \ {i}, calls', my_items', u, p)
          = ViewIn(Q \ {k}, calls, my_items, u, p)
    BY <1>8
  <2>2. (Q \ {k}) \ {i} = QueueIn(calls', u, p) \ {k}
    BY <1>6
  <2>3. QED
    BY <2>1, <2>2 DEF ViewWithout, Q
<1>11. QED
  BY <1>9, <1>10 DEF u

(***************************************************************************)
(* A write is served.  If it is the toggle that the page waits for, the    *)
(* heart now shows the opposite of the view; if it is of an earlier page,  *)
(* nothing changes for this one.                                           *)
(***************************************************************************)
LEMMA ServeWriteKeeps ==
  ASSUME HeartInv, NEW i \in DOMAIN calls, ServeWrite(i)
  PROVE  ShownCalls' /\ Undisturbed'
<1> DEFINE c == [calls[i] EXCEPT !.request = "served"]
<1>1. calls \in Seq(Call) /\ calls[i] \in Call /\ TypeOK
  BY CallsTyped DEF HeartInv
<1>2. /\ c \in Call /\ c.op = calls[i].op /\ c.user = calls[i].user
      /\ c.product = calls[i].product /\ c.future = calls[i].future
      /\ c.host = calls[i].host /\ c.request = "served"
  BY <1>1 DEF Call
<1>3. /\ calls' = [calls EXCEPT ![i] = c] /\ NextToSend(i)
      /\ UNCHANGED <<currentUser, page, product, isWishlisted, undisturbed>>
  BY DEF ServeWrite
<1> HIDE DEF c
<1>4. RequestChanges(i, c)
  BY <1>1, <1>2, <1>3, AnswerArrives
<1>5. ShownCalls'
  BY <1>2, <1>3, <1>4 DEF RequestChanges, ShownCalls, HeartInv
<1>6. SUFFICES ASSUME page = "Desc", undisturbed PROVE Undisturbed'
  BY <1>3, <1>5 DEF Undisturbed
<1>7. product \in Products
  BY <1>1, <1>6 DEF TypeOK
<1>8. /\ calls[i].op # "get" /\ calls[i].request = "queued" /\ calls[i].user = currentUser
      /\ i \in QueueIn(calls, currentUser, product) <=> calls[i].product = product
  BY <1>1, <1>3, FirstInQueue
<1>9. View(calls', my_items', currentUser, product)
        = View(calls, my_items, currentUser, product)
  <2>1. \E k : k # i
    <3>1. i + 1 # i
      BY <1>1, CallsTyped
    <3>2. QED
      BY <3>1
  <2>2. QED
    BY <1>1, <1>7, <2>1, ServeWriteKeepsView
<1>10. CASE i \in Waiting
  <2>1. /\ \A k \in Waiting : k = i
        /\ i = Len(calls) /\ ToggleKnows(i) /\ calls[i].product = product
    BY <1>6, <1>8, <1>10 DEF HeartInv, Undisturbed, Waiting
  <2>2. Max(QueueIn(calls, currentUser, product)) = i
    <3> DEFINE Q == QueueIn(calls, currentUser, product)
    <3>1. Q \subseteq Nat /\ i \in Q /\ \A j \in Q : j <= i
      BY <1>1, <1>8, <2>1, CallsTyped DEF QueueIn
    <3> HIDE DEF Q
    <3>2. QED
      BY <3>1, MaxIs DEF Q
  <2>3. View(calls, my_items, currentUser, product) = (calls[i].op = "set")
    BY <1>8, <2>1, <2>2 DEF View, ViewIn
  <2>4. calls[i].op = "set" <=> ~isWishlisted
    BY <2>1 DEF ToggleKnows
  <2>5. isWishlisted = ~View(calls, my_items, currentUser, product)
    BY <1>1, <2>3, <2>4 DEF TypeOK
  <2>6. ToggleKnows(i)'
    BY <1>2, <1>3, <1>4, <1>9, <2>1, <2>5 DEF ToggleKnows, RequestChanges
  <2>7. QED
    BY <1>3, <1>4, <1>6, <1>8, <1>10, <2>1, <2>6
       DEF HeartInv, Undisturbed, RequestChanges
<1>11. CASE i \notin Waiting
  <2>1. \A k \in Waiting : k \in DOMAIN calls /\ k # i
    BY <1>11 DEF Waiting
  <2>2. \A k \in Waiting :
          ViewWithout(k, calls', my_items', currentUser, product)
            = ViewWithout(k, calls, my_items, currentUser, product)
    BY <1>1, <1>7, <2>1, ServeWriteKeepsView
  <2>3. QED
    BY <1>3, <1>4, <1>9, <2>1, <2>2, NothingSeen DEF RequestChanges
<1>12. QED
  BY <1>10, <1>11

(***************************************************************************)
(* A request is refused.  If it is the toggle that the page waits for, the *)
(* view goes back to what the heart shows; a refused load, and a refused   *)
(* write of an earlier page to the same document, end the claim.           *)
(***************************************************************************)
LEMMA RefuseKeeps ==
  ASSUME HeartInv, NEW i \in DOMAIN calls, Refuse(i)
  PROVE  ShownCalls' /\ Undisturbed'
<1> DEFINE c == [calls[i] EXCEPT !.request = "refused"]
<1>1. calls \in Seq(Call) /\ calls[i] \in Call /\ TypeOK
  BY CallsTyped DEF HeartInv
<1>2. /\ c \in Call /\ c.op = calls[i].op /\ c.user = calls[i].user
      /\ c.product = calls[i].product /\ c.future = calls[i].future
      /\ c.host = calls[i].host /\ c.request = "refused"
  BY <1>1 DEF Call
<1>3. /\ calls' = [calls EXCEPT ![i] = c]
      /\ UNCHANGED <<my_items, currentUser, page, product, isWishlisted>>
      /\ undisturbed' => undisturbed
  BY DEF Refuse
<1> HIDE DEF c
<1>4. RequestChanges(i, c)
  BY <1>1, <1>2, <1>3, AnswerArrives
<1>5. ShownCalls'
  BY <1>2, <1>3, <1>4 DEF RequestChanges, ShownCalls, HeartInv
<1>6. SUFFICES ASSUME page = "Desc", undisturbed, undisturbed' PROVE Undisturbed'
  BY <1>3, <1>5 DEF Undisturbed
<1>7. CASE calls[i].op = "get"
  <2>1. SameWrites(calls, calls')
    BY <1>2, <1>4, <1>7 DEF SameWrites, RequestChanges
  <2>2. View(calls', my_items', currentUser', product')
          = View(calls, my_items, currentUser, product)
    BY <1>1, <1>3, <2>1, SameQueueSameView
  <2>3. \A k : ViewWithout(k, calls', my_items', currentUser', product')
              = ViewWithout(k, calls, my_items, currentUser, product)
    BY <1>1, <1>3, <2>1, SameQueueSameView
  <2>4. CASE i \in Waiting
    <3>1. /\ \A k \in Waiting : k = i
          /\ i = Len(calls) /\ LoadKnows(i)
      BY <1>6, <1>7, <2>4 DEF HeartInv, Undisturbed
    <3>2. LoadKnows(i)'
      BY <1>2, <1>4, <3>1 DEF LoadKnows, RequestChanges
    <3>3. QED
      BY <1>3, <1>4, <1>6, <1>7, <2>4, <3>1, <3>2 DEF HeartInv, Undisturbed, RequestChanges
  <2>5. CASE i \notin Waiting
    <3>1. \A k \in Waiting : k \in DOMAIN calls /\ k # i
      BY <2>5 DEF Waiting
    <3>2. QED
      BY <1>3, <1>4, <2>2, <2>3, <3>1, NothingSeen DEF RequestChanges
  <2>6. QED
    BY <2>4, <2>5
<1>8. CASE calls[i].op # "get"
  <2>1. NextToSend(i)
    BY <1>8 DEF Refuse
  <2>2. /\ calls[i].request = "queued" /\ calls[i].user = currentUser
        /\ i \in QueueIn(calls, currentUser, product) <=> calls[i].product = product
    BY <1>1, <2>1, FirstInQueue
  <2>3. /\ QueueIn(calls', currentUser, product) = QueueIn(calls, currentUser, product) \ {i}
        /\ QueueIn(calls, currentUser, product) \subseteq DOMAIN calls
        /\ \A j \in DOMAIN calls : calls'[j].op = calls[j].op
    BY <1>2, <1>4, AnswerShortensQueue
  <2>4. View(calls', my_items, currentUser, product)
          = ViewWithout(i, calls, my_items, currentUser, product)
    <3> DEFINE S == QueueIn(calls, currentUser, product) \ {i}
    <3>1. S \subseteq DOMAIN calls /\ \A j \in S : calls'[j].op = calls[j].op
      BY <2>3
    <3>2. QueueIn(calls', currentUser, product) = S
      BY <2>3
    <3> HIDE DEF S
    <3>3. ViewIn(S, calls', my_items, currentUser, product)
            = ViewIn(S, calls, my_items, currentUser, product)
      BY <1>1, <3>1, ViewDependsOnQueue
    <3>4. QED
      BY <3>2, <3>3 DEF View, ViewWithout, S
  <2>5. CASE i \in Waiting
    <3>1. /\ \A k \in Waiting : k = i
          /\ i = Len(calls) /\ ToggleKnows(i)
      BY <1>6, <1>8, <2>5 DEF HeartInv, Undisturbed
    <3>2. ToggleKnows(i)'
      BY <1>2, <1>3, <1>4, <2>2, <2>4, <3>1 DEF ToggleKnows, RequestChanges
    <3>3. QED
      BY <1>3, <1>4, <1>6, <1>8, <2>5, <3>1, <3>2 DEF HeartInv, Undisturbed, RequestChanges
  <2>6. CASE i \notin Waiting
    <3>1. calls[i].host = "left"
      BY <1>1, <2>2, <2>6 DEF HeartInv, ShownCalls, Waiting, Call
    <3>2. calls[i].product # product
      BY <1>6, <1>8, <3>1 DEF Refuse
    <3>3. QueueIn(calls, currentUser, product) \ {i} = QueueIn(calls, currentUser, product)
      BY <2>2, <3>2
    <3>4. View(calls', my_items, currentUser, product)
            = View(calls, my_items, currentUser, product)
      BY <2>4, <3>3 DEF View, ViewWithout
    <3>5. ASSUME NEW k
          PROVE  ViewWithout(k, calls', my_items, currentUser, product)
                   = ViewWithout(k, calls, my_items, currentUser, product)
      <4> DEFINE S == QueueIn(calls, currentUser, product) \ {k}
      <4>1. S \subseteq DOMAIN calls /\ \A j \in S : calls'[j].op = calls[j].op
        BY <2>3
      <4>2. QueueIn(calls', currentUser, product) \ {k} = S
        BY <2>3, <3>3
      <4> HIDE DEF S
      <4>3. ViewIn(S, calls', my_items, currentUser, product)
              = ViewIn(S, calls, my_items, currentUser, product)
        BY <1>1, <4>1, ViewDependsOnQueue
      <4>4. QED
        BY <4>2, <4>3 DEF ViewWithout, S
    <3>6. \A k \in Waiting : k \in DOMAIN calls /\ k # i
      BY <2>6 DEF Waiting
    <3>7. QED
      BY <1>3, <1>4, <3>4, <3>5, <3>6, NothingSeen DEF RequestChanges
  <2>7. QED
    BY <2>5, <2>6
<1>9. QED
  BY <1>7, <1>8

-----------------------------------------------------------------------------
(***************************************************************************)
(* The page and its taps.                                                  *)
(***************************************************************************)

\* The load of a new page is the only call under way on it.
LEMMA OpenProductKeeps ==
  ASSUME HeartInv, NEW p \in Products, OpenProduct(p)
  PROVE  ShownCalls' /\ Undisturbed'
<1>1. /\ calls \in Seq(Call) /\ DOMAIN calls = 1..Len(calls) /\ Len(calls) \in Nat
      /\ \A j \in DOMAIN calls : calls[j] \in Call
  BY CallsTyped DEF HeartInv
<1>2. page # "Desc" /\ page' = "Desc" /\ product' = p /\ UNCHANGED currentUser
  BY DEF OpenProduct
<1>3. \A j \in DOMAIN calls : calls[j].host # "shown"
  BY <1>2 DEF HeartInv, ShownCalls
<1>4. CASE currentUser = NoUser
  BY <1>3, <1>4 DEF OpenProduct, ShownCalls, Undisturbed
<1>5. CASE currentUser # NoUser
  <2> DEFINE e == NewCall("get", p)
  <2>a. PICK k \in Nat : k = Len(calls) + 1
    BY <1>1
  <2>1. calls' = Append(calls, e) /\ Len(calls) < MaxCalls /\ currentUser \in Users
    BY <1>5 DEF OpenProduct, HeartInv, TypeOK
  <2>2. e \in Call
    BY <1>5, <2>1, NewCallTyped DEF HeartInv
  <2>3. e.op = "get" /\ e.request = "queued" /\ e.future = "pending" /\ e.host = "shown"
        /\ e.user = currentUser /\ e.product = p
    BY DEF NewCall
  <2> HIDE DEF e
  <2>4. /\ Len(calls') = k /\ DOMAIN calls' = DOMAIN calls \cup {k} /\ calls'[k] = e
        /\ \A j \in DOMAIN calls : calls'[j] = calls[j]
    BY <1>1, <2>a, <2>1, <2>2, OneElementIsAdded
  <2>5. ShownCalls'
    BY <1>2, <1>3, <2>3, <2>4 DEF ShownCalls
  <2>6. Waiting' = {k}
    BY <1>3, <2>3, <2>4 DEF Waiting
  <2>7. LoadKnows(k)'
    BY <1>3, <2>3, <2>4 DEF LoadKnows
  <2>8. QED
    BY <1>2, <1>3, <2>1, <2>3, <2>4, <2>5, <2>6, <2>7 DEF Undisturbed
<1>6. QED
  BY <1>4, <1>5

\* A toggle on a quiet page writes the opposite of what the view holds.
LEMMA ToggleKeeps ==
  ASSUME HeartInv, ToggleWishlist
  PROVE  ShownCalls' /\ Undisturbed'
<1> DEFINE e == NewCall(IF isWishlisted THEN "delete" ELSE "set", product)
<1>1. /\ calls \in Seq(Call) /\ DOMAIN calls = 1..Len(calls) /\ Len(calls) \in Nat
  BY CallsTyped DEF HeartInv
<1>a. PICK k \in Nat : k = Len(calls) + 1
  BY <1>1
<1>2. /\ calls' = Append(calls, e) /\ page = "Desc" /\ currentUser \in Users
      /\ product \in Products /\ Len(calls) < MaxCalls /\ currentUser # NoUser
      /\ undisturbed' = (undisturbed /\ Waiting = {})
      /\ UNCHANGED <<my_items, currentUser, page, product, isWishlisted>>
  BY UsersAssumption DEF ToggleWishlist, HeartInv, TypeOK
<1>3. e \in Call
  BY <1>2, NewCallTyped DEF HeartInv
<1>4. /\ e.op = (IF isWishlisted THEN "delete" ELSE "set") /\ e.op # "get"
      /\ e.request = "queued" /\ e.future = "pending" /\ e.host = "shown"
      /\ e.user = currentUser /\ e.product = product
  BY DEF NewCall
<1> HIDE DEF e
<1>5. /\ Len(calls') = k /\ DOMAIN calls' = DOMAIN calls \cup {k} /\ calls'[k] = e
      /\ \A j \in DOMAIN calls : calls'[j] = calls[j] /\ j # k
  BY <1>1, <1>a, <1>2, <1>3, OneElementIsAdded
<1>6. ViewWithout(k, calls', my_items, currentUser, product)
        = View(calls, my_items, currentUser, product)
  BY <1>1, <1>a, <1>2, <1>3, <1>4, NewToggleOverView
<1>7. ShownCalls'
  BY <1>2, <1>4, <1>5 DEF ShownCalls, HeartInv
<1>8. SUFFICES ASSUME undisturbed, Waiting = {} PROVE Undisturbed'
  BY <1>2, <1>7 DEF Undisturbed
<1>9. Waiting' = {k}
  BY <1>4, <1>5, <1>8 DEF Waiting
<1>10. isWishlisted = View(calls, my_items, currentUser, product)
  BY <1>2, <1>8 DEF HeartInv, Undisturbed
<1>11. ToggleKnows(k)'
  BY <1>2, <1>4, <1>5, <1>6, <1>10 DEF ToggleKnows
<1>12. \A j \in DOMAIN calls' : calls'[j].host = "shown" =>
         calls'[j].user = currentUser /\ calls'[j].product = product
  BY <1>2, <1>4, <1>5, <1>8 DEF HeartInv, Undisturbed
<1>13. QED
  BY <1>2, <1>4, <1>5, <1>9, <1>11, <1>12 DEF Undisturbed

\* No page is open at first.
LEMMA InitHeart == Init => HeartInv
<1>1. SUFFICES ASSUME Init PROVE HeartInv
  OBVIOUS
<1>2. DOMAIN calls = {}
  BY <1>1 DEF Init
<1>3. QED
  BY <1>1, <1>2, InitTyped DEF Init, HeartInv, ShownCalls, Undisturbed

\* Every step keeps the invariant.
LEMMA NextHeart == HeartInv /\ [Next]_vars => HeartInv'
<1> SUFFICES ASSUME HeartInv, [Next]_vars PROVE HeartInv'
  OBVIOUS
<1>a. TypeOK /\ TypeOK'
  BY NextTyped DEF HeartInv
<1>1. CASE OpenWishlist
  <2>1. \A j \in DOMAIN calls : calls[j].host = "left"
    BY <1>a, <1>1, CallsTyped DEF OpenWishlist, HeartInv, ShownCalls, Call
  <2>2. QED
    BY <1>a, <1>1, <2>1, PageGone DEF OpenWishlist
<1>2. ASSUME NEW p \in Products, OpenProduct(p) PROVE HeartInv'
  BY <1>a, <1>2, OpenProductKeeps DEF HeartInv
<1>3. CASE Leave
  BY <1>a, <1>3, AllLeft, PageGone DEF Leave, ShowBrowse
<1>4. CASE BackToWishlist
  BY <1>a, <1>4, AllLeft, PageGone DEF BackToWishlist
<1>5. CASE ToggleWishlist
  BY <1>a, <1>5, ToggleKeeps DEF HeartInv
<1>6. ASSUME NEW i \in DOMAIN calls, LoadDone(i) PROVE HeartInv'
  BY <1>a, <1>6, LoadDoneKeeps DEF HeartInv
<1>7. ASSUME NEW i \in DOMAIN calls, ToggleDone(i) PROVE HeartInv'
  BY <1>a, <1>7, ToggleDoneKeeps DEF HeartInv
<1>8. ASSUME NEW i \in DOMAIN calls, CallFailed(i) PROVE HeartInv'
  BY <1>a, <1>8, CallFailedKeeps DEF HeartInv
<1>9. ASSUME NEW i \in DOMAIN calls, ServeGet(i) PROVE HeartInv'
  BY <1>a, <1>9, ServeGetKeeps DEF HeartInv
<1>10. ASSUME NEW i \in DOMAIN calls, ServeWrite(i) PROVE HeartInv'
  BY <1>a, <1>10, ServeWriteKeeps DEF HeartInv
<1>11. ASSUME NEW i \in DOMAIN calls, Refuse(i) PROVE HeartInv'
  BY <1>a, <1>11, RefuseKeeps DEF HeartInv
<1>12. ASSUME NEW u \in Users \cup {NoUser}, SessionChange(u) PROVE HeartInv'
  <2>1. CASE UNCHANGED <<calls, wishlistOf, page, product, isWishlisted>>
    BY <1>a, <1>12, <2>1 DEF SessionChange, HeartInv, ShownCalls, Undisturbed
  <2>2. CASE ShowBrowse
    BY <1>a, <2>2, AllLeft, PageGone DEF ShowBrowse
  <2>3. QED
    BY <1>12, <2>1, <2>2 DEF SessionChange
<1>13. CASE Restart
  <2>1. \A j \in DOMAIN calls' : calls'[j].host = "left"
    BY <1>a, <1>13, CallsTyped DEF Restart, Call
  <2>2. QED
    BY <1>a, <1>13, <2>1, PageGone DEF Restart
<1>14. CASE UNCHANGED vars
  BY <1>a, <1>14 DEF vars, HeartInv, ShownCalls, Undisturbed, Waiting, LoadKnows, ToggleKnows
<1>15. QED
  BY <1>1, <1>2, <1>3, <1>4, <1>5, <1>6, <1>7, <1>8, <1>9, <1>10, <1>11, <1>12, <1>13,
     <1>14 DEF Next

(***************************************************************************)
(* The heart of a description page that nothing disturbs tells whether the *)
(* product is in the wishlist, whenever nothing of the page is under way:  *)
(* for any number of pages, taps and queued, served or refused writes, and *)
(* any other users and products.                                           *)
(***************************************************************************)
THEOREM HeartIsTrue == Spec => []QuietHeartIsTrue
<1>1. HeartInv => QuietHeartIsTrue
  BY InViewIsView DEF HeartInv, Undisturbed, QuietHeartIsTrue
<1>2. QED
  BY <1>1, InitHeart, NextHeart, PTL DEF Spec
=============================================================================
