------------------------------ MODULE Wishlist ------------------------------
(***************************************************************************)
(* The wishlist: the heart button of lib/Hasnine/product_description.dart  *)
(* and the list of lib/Tahmid/wishlist_page.dart, over the documents       *)
(* wishlist/<uid>/my_items/<product id> in Firestore.                      *)
(*                                                                         *)
(* Both handlers await once: _loadWishlistState starts with the page and   *)
(* sets the heart when the answer is there, _toggleWishlist picks set or   *)
(* delete by the heart at the tap and flips the heart when the write is    *)
(* through.  Neither knows of the other.                                   *)
(***************************************************************************)
EXTENDS Naturals, Sequences, FiniteSetsExt

CONSTANTS
  Products,   \* the products on sale
  Users,      \* uids of Firebase accounts
  NoUser,     \* nobody is signed in
  NoProduct,  \* no description page is open
  MaxCalls    \* bound on the calls of the two handlers

ASSUME UsersAssumption == NoUser \notin Users
ASSUME ProductAssumption == NoProduct \notin Products
ASSUME MaxCallsAssumption == MaxCalls \in Nat

VARIABLES
  my_items,      \* the documents on the server: product ids per uid
  currentUser,   \* FirebaseAuth.instance.currentUser?.uid
  calls,         \* every call of the two handlers, oldest first
  wishlistOf,    \* the uid an open WishlistPage was built with
  page,          \* the topmost page
  product,       \* ProductDescriptionPage.product
  isWishlisted,  \* _ProductDescriptionPageState.isWishlisted, the heart
  undisturbed    \* auxiliary, see below

vars == <<my_items, currentUser, calls, wishlistOf, page, product, isWishlisted,
          undisturbed>>

Pages == {"Browse", "Wishlist", "Desc"}

(***************************************************************************)
(* One call.  request is what became of the read or write in Firestore,    *)
(* future the awaiting handler, host its page: on top, or left (a setState *)
(* on a page that is leaving changes nothing that is seen, so when it is   *)
(* unmounted does not matter here); exists is the answer of a get.         *)
(***************************************************************************)
Call == [op      : {"get", "set", "delete"},
         user    : Users,
         product : Products,
         request : {"queued", "served", "refused"},
         exists  : BOOLEAN,
         future  : {"pending", "done", "failed", "lost"},
         host    : {"shown", "left"}]

TypeOK ==
  /\ my_items \in [Users -> SUBSET Products]
  /\ currentUser \in Users \cup {NoUser}
  /\ calls \in Seq(Call)
  /\ Len(calls) <= MaxCalls
  /\ wishlistOf \in Users \cup {NoUser}
  /\ page \in Pages
  /\ product \in Products \cup {NoProduct}
  /\ page = "Desc" <=> product # NoProduct
  /\ isWishlisted \in BOOLEAN
  /\ undisturbed \in BOOLEAN

(***************************************************************************)
(* Firestore applies a write to its local view at once and keeps it queued *)
(* until the server has answered, across restarts; a get and a snapshot    *)
(* read the view: the server's documents under the queued writes.          *)
(***************************************************************************)
QueuedWrites(u) ==
  {i \in DOMAIN calls :
     calls[i].op # "get" /\ calls[i].request = "queued" /\ calls[i].user = u}

QueuedOn(u, p) == {i \in QueuedWrites(u) : calls[i].product = p}

InView(u, p) ==
  IF QueuedOn(u, p) = {} THEN p \in my_items[u]
                         ELSE calls[Max(QueuedOn(u, p))].op = "set"

NewCall(op, p) == [op |-> op, user |-> currentUser, product |-> p,
                   request |-> "queued", exists |-> FALSE,
                   future |-> "pending", host |-> "shown"]

\* The calls of the page on top that still wait.
Waiting == {i \in DOMAIN calls :
              calls[i].host = "shown" /\ calls[i].future = "pending"}

Left(cs) == [i \in DOMAIN cs |-> [cs[i] EXCEPT !.host = "left"]]

Init ==
  /\ my_items \in [Users -> SUBSET Products]
  /\ currentUser \in Users \cup {NoUser}
  /\ calls = <<>>
  /\ wishlistOf = NoUser
  /\ page = "Browse"
  /\ product = NoProduct
  /\ isWishlisted = FALSE
  /\ undisturbed = FALSE

-----------------------------------------------------------------------------
(***************************************************************************)
(* Pages.  The wishlist page shows the view of the user it was built for;  *)
(* without one it reads a document nobody writes and stays empty.  It is   *)
(* still under a description page opened from it.                          *)
(***************************************************************************)
OpenWishlist ==
  /\ page = "Browse"
  /\ page' = "Wishlist"
  /\ wishlistOf' = currentUser
  /\ UNCHANGED <<my_items, currentUser, calls, product, isWishlisted, undisturbed>>

(***************************************************************************)
(* initState starts _loadWishlistState, which returns at once when nobody  *)
(* is signed in.  undisturbed says of the page on top that its calls came  *)
(* one after the other, that it did not fail to load, that the user has    *)
(* not changed under it, and that no write of an earlier page, queued when *)
(* this one was opened, was refused meanwhile.                             *)
(***************************************************************************)
OpenProduct(p) ==
  /\ \/ page = "Browse"
     \/ page = "Wishlist" /\ wishlistOf # NoUser /\ InView(wishlistOf, p)
  /\ page' = "Desc"
  /\ product' = p
  /\ isWishlisted' = FALSE
  /\ IF currentUser = NoUser
       THEN /\ undisturbed' = FALSE
            /\ UNCHANGED calls
       ELSE /\ Len(calls) < MaxCalls
            /\ calls' = Append(calls, NewCall("get", p))
            /\ undisturbed' = TRUE
  /\ UNCHANGED <<my_items, currentUser, wishlistOf>>

ShowBrowse ==
  /\ page' = "Browse"
  /\ product' = NoProduct
  /\ wishlistOf' = NoUser
  /\ isWishlisted' = FALSE
  /\ undisturbed' = FALSE
  /\ calls' = Left(calls)

\* A tab of the navigation bar, or back to a page that is not the wishlist.
Leave ==
  /\ page # "Browse"
  /\ ShowBrowse
  /\ UNCHANGED <<my_items, currentUser>>

\* Back from a description page opened from the wishlist page.
BackToWishlist ==
  /\ page = "Desc"
  /\ wishlistOf # NoUser
  /\ page' = "Wishlist"
  /\ product' = NoProduct
  /\ isWishlisted' = FALSE
  /\ undisturbed' = FALSE
  /\ calls' = Left(calls)
  /\ UNCHANGED <<my_items, currentUser, wishlistOf>>

-----------------------------------------------------------------------------
(***************************************************************************)
(* The handlers of the description page.                                   *)
(***************************************************************************)

\* Mutant: currentUser is used without the check for null.
ToggleWithoutUserCheck ==
  /\ page = "Desc"
  /\ Len(calls) < MaxCalls
  /\ calls' = Append(calls, NewCall(IF isWishlisted THEN "delete" ELSE "set", product))
  /\ undisturbed' = (undisturbed /\ Waiting = {})
  /\ UNCHANGED <<my_items, currentUser, wishlistOf, page, product, isWishlisted>>

\* _toggleWishlist up to its await.  Without a user it returns at once.
ToggleWishlist ==
  /\ page = "Desc"
  /\ currentUser # NoUser
  /\ Len(calls) < MaxCalls
  /\ calls' = Append(calls, NewCall(IF isWishlisted THEN "delete" ELSE "set", product))
  /\ undisturbed' = (undisturbed /\ Waiting = {})
  /\ UNCHANGED <<my_items, currentUser, wishlistOf, page, product, isWishlisted>>

(***************************************************************************)
(* The two handlers after their await; they set the heart of their page.   *)
(***************************************************************************)
LoadDone(i) ==
  /\ calls[i].op = "get"
  /\ calls[i].future = "pending" /\ calls[i].request = "served"
  /\ calls' = [calls EXCEPT ![i].future = "done"]
  /\ isWishlisted' = IF calls[i].host = "shown" THEN calls[i].exists ELSE isWishlisted
  /\ UNCHANGED <<my_items, currentUser, wishlistOf, page, product, undisturbed>>

\* Mutant: the flip is left out.
ToggleDoneNoFlip(i) ==
  /\ calls[i].op # "get"
  /\ calls[i].future = "pending" /\ calls[i].request = "served"
  /\ calls' = [calls EXCEPT ![i].future = "done"]
  /\ UNCHANGED <<my_items, currentUser, wishlistOf, page, product, isWishlisted,
                 undisturbed>>

ToggleDone(i) ==
  /\ calls[i].op # "get"
  /\ calls[i].future = "pending" /\ calls[i].request = "served"
  /\ calls' = [calls EXCEPT ![i].future = "done"]
  /\ isWishlisted' = IF calls[i].host = "shown" THEN ~isWishlisted ELSE isWishlisted
  /\ UNCHANGED <<my_items, currentUser, wishlistOf, page, product, undisturbed>>

\* Mutant: the flip runs in a finally block.
CallFailedFlips(i) ==
  /\ calls[i].future = "pending" /\ calls[i].request = "refused"
  /\ calls' = [calls EXCEPT ![i].future = "failed"]
  /\ isWishlisted' = IF calls[i].host = "shown" THEN ~isWishlisted ELSE isWishlisted
  /\ undisturbed' = (undisturbed /\ ~(calls[i].op = "get" /\ calls[i].host = "shown"))
  /\ UNCHANGED <<my_items, currentUser, wishlistOf, page, product>>

\* The await throws and nothing catches it: the heart stays as it is.
CallFailed(i) ==
  /\ calls[i].future = "pending" /\ calls[i].request = "refused"
  /\ calls' = [calls EXCEPT ![i].future = "failed"]
  /\ undisturbed' = (undisturbed /\ ~(calls[i].op = "get" /\ calls[i].host = "shown"))
  /\ UNCHANGED <<my_items, currentUser, wishlistOf, page, product, isWishlisted>>

-----------------------------------------------------------------------------
(***************************************************************************)
(* The environment: Firestore, the session and restarts.                   *)
(* Firestore sends the writes of the signed-in user, in their order.       *)
(***************************************************************************)
NextToSend(i) == i \in QueuedWrites(currentUser) /\ i = Min(QueuedWrites(currentUser))

ServeGet(i) ==
  /\ calls[i].op = "get"
  /\ calls[i].future = "pending" /\ calls[i].request = "queued"
  /\ calls' = [calls EXCEPT ![i].request = "served",
                            ![i].exists = InView(calls[i].user, calls[i].product)]
  /\ UNCHANGED <<my_items, currentUser, wishlistOf, page, product, isWishlisted,
                 undisturbed>>

ServeWrite(i) ==
  /\ NextToSend(i)
  /\ calls' = [calls EXCEPT ![i].request = "served"]
  /\ my_items' = [my_items EXCEPT ![calls[i].user] =
                    IF calls[i].op = "set" THEN @ \cup {calls[i].product}
                                           ELSE @ \ {calls[i].product}]
  /\ UNCHANGED <<currentUser, wishlistOf, page, product, isWishlisted, undisturbed>>

Refuse(i) ==
  /\ \/ NextToSend(i)
     \/ /\ calls[i].op = "get"
        /\ calls[i].future = "pending" /\ calls[i].request = "queued"
  /\ calls' = [calls EXCEPT ![i].request = "refused"]
  /\ undisturbed' = (undisturbed /\ ~(/\ calls[i].op # "get" /\ calls[i].host = "left"
                                    /\ calls[i].product = product))
  /\ UNCHANGED <<my_items, currentUser, wishlistOf, page, product, isWishlisted>>

\* A login or logout completes; the page that asked may replace all pages.
SessionChange(u) ==
  /\ u # currentUser
  /\ currentUser' = u
  /\ undisturbed' = FALSE
  /\ \/ UNCHANGED <<calls, wishlistOf, page, product, isWishlisted>>
     \/ ShowBrowse
  /\ UNCHANGED my_items

Restart ==
  /\ page' = "Browse"
  /\ product' = NoProduct
  /\ wishlistOf' = NoUser
  /\ isWishlisted' = FALSE
  /\ undisturbed' = FALSE
  /\ calls' = [i \in DOMAIN calls |->
                 [calls[i] EXCEPT !.host = "left",
                                  !.future = IF @ = "pending" THEN "lost" ELSE @]]
  /\ UNCHANGED <<my_items, currentUser>>

Next ==
  \/ OpenWishlist
  \/ \E p \in Products : OpenProduct(p)
  \/ Leave
  \/ BackToWishlist
  \/ ToggleWishlist
  \/ \E i \in DOMAIN calls : LoadDone(i)
  \/ \E i \in DOMAIN calls : ToggleDone(i)
  \/ \E i \in DOMAIN calls : CallFailed(i)
  \/ \E i \in DOMAIN calls : ServeGet(i)
  \/ \E i \in DOMAIN calls : ServeWrite(i)
  \/ \E i \in DOMAIN calls : Refuse(i)
  \/ \E u \in Users \cup {NoUser} : SessionChange(u)
  \/ Restart

Spec == Init /\ [][Next]_vars

\* The event loop runs continuations and Firestore gets answers for the
\* requests of the signed-in user.  Nothing is assumed of the user.
FairSpec ==
  /\ Spec
  /\ \A i \in 1..MaxCalls :
       /\ WF_vars(i \in DOMAIN calls /\ (LoadDone(i) \/ ToggleDone(i) \/ CallFailed(i)))
       /\ WF_vars(i \in DOMAIN calls /\ (ServeGet(i) \/ ServeWrite(i) \/ Refuse(i)))

-----------------------------------------------------------------------------
(***************************************************************************)
(* When nothing of an undisturbed description page is under way, the heart *)
(* tells whether the product is in the user's wishlist, refused writes     *)
(* included.  (Two taps in a row, or a tap before the page has loaded, do  *)
(* leave a wrong heart: the flip is relative to the heart and not to what  *)
(* was written.)                                                           *)
(***************************************************************************)
QuietHeartIsTrue ==
  page = "Desc" /\ undisturbed /\ Waiting = {} =>
    isWishlisted = InView(currentUser, product)

(***************************************************************************)
(* The heart catches up: it shows what is in the wishlist after every load *)
(* and every tap, unless the page is left or disturbed.                    *)
(***************************************************************************)
HeartCatchesUp ==
  (page = "Desc" /\ undisturbed) ~>
    (page # "Desc" \/ ~undisturbed \/ isWishlisted = InView(currentUser, product))
=============================================================================
