# CartX: a TLA+ verification project

CartX is a Flutter shop (`src/lib`): a fixed catalogue, a cart kept in memory,
orders, a wishlist and user profiles in Cloud Firestore, and sign-in with
Firebase Auth. It is small, but most of its handlers `await` a server between
reading some state and writing other state, while the user goes on tapping and
moving between pages. That is what these modules are about.

## 1. The system

| Part | Source (`src/lib/`) | State it keeps | Operations | Where it is hard |
|---|---|---|---|---|
| Catalogue | `Hasnine/products.dart` | constant list | – | names and ids are used as keys elsewhere |
| Cart | `Waseq/cart_manager.dart` | `globalCart`, a global list | add by name, remove by index, clear, total | global, shared by three pages, rebuilt by one |
| Description page | `Hasnine/product_description.dart` | `quantity`, `isWishlisted` | quantity buttons, Add to Cart, heart | two handlers await and write the same flag |
| Cart page | `Waseq/cart_page.dart` | what its last build showed | remove a row, proceed to checkout | indices of an old build, total taken once |
| Checkout | `Waseq/checkout_page.dart` | `totalAmount`, payment method | choose, confirm, back | no guard against a second tap, clears after the await |
| Wishlist page | `Tahmid/wishlist_page.dart` | the user it was built for | open a product | stream of the local view |
| Start | `main.dart`, `Hasnine/splash_screen.dart` | – | wait for Firebase, go to login | the session persists, the app asks again |
| Login, signup, logout | `Tahmid/login_page.dart`, `signup_page.dart`, `profile_page.dart` | `_isLoading`; Firebase's current user | `_login`, `_signup`, `_logout` | continuations act on whatever page is on top |
| Navigation | `Hasnine/navigation.dart` and all pages | the navigator's stack | push, replace, pop, remove all | pages stay mounted during their transition |
| Edit profile | `Tahmid/edit_profile_page.dart` | three fields, `_isLoading` | load, save | load and save race; pop after an await |
| Order history, home and profile headers | `Tahmid/my_orders_page.dart`, `Hasnine/home_page.dart` | – | show a stream | user read when built |
| Search and category lists | `Hasnine/search_page.dart`, `product_catagory.dart` | `searchResults` | filter | – |
| Settings, contact | `Tahmid/settings_page.dart`, `contact_us_page.dart` | one checkbox | – | – |
| Firestore's write path on iOS | `ios/Pods/FirebaseFirestoreInternal/Firestore/core/src` (vendored) | mutation queue on disk, write pipeline, stream, callbacks | write, send, answer, restart, user change | four threads, streams that break, crashes |
| Auth tokens on iOS | `ios/Pods/FirebaseAuth` (vendored), `credentials/` of Firestore | current user, token counter | sign in or out, notify, fetch a token | a token read while the user changes |

How they interact. All Dart code runs on one isolate, so a handler is atomic
between two awaits, and anything may happen at an await: another tap, another
handler going on, a server's answer, a session change, the end of the process.
Pages share `globalCart`, `FirebaseAuth.instance.currentUser`, Firestore and the
navigator. Firestore, as the pages use it, applies a write to its local view at
once, keeps it queued on disk across restarts, sends the queue of the signed-in
user in its order, and completes the future only when the server has answered.
That this is so is not taken for granted: the client library the app is built with
on iOS is in the repository, and `WritePipeline` shows it of that code. A page taken off the navigator's
stack keeps its `State`, with `mounted` true, until its transition has ended.

What makes each part right:

* cart: it is a count per product, whatever list operations are run on it;
* cart page: the row that is tapped is the line that goes;
* checkout: what is shown is what is charged, what is charged is what is
  cleared, success is announced only for a stored order, and every confirmed
  order ends;
* heart: it tells what the wishlist holds;
* edit page: saving changes what was typed and nothing else, in one's own profile;
* the app as a whole: a page shows its own user's data, and what one person put in
  the cart is not ordered by another;
* write path: a write goes out once it is its turn, as its author, and the answer
  reaches whoever waits for that write;
* session: the shop is for who signed in, a spinner ends, an account has a
  profile, and there is always a page to look at. Some of these do not hold
  outright; then the property says exactly along which paths they fail.

The complete list of components, and of the hazards with their lines, is in
`PROJECT.json`.

## 2. Modules

```
Catalog      Cart ──── CartProofs          Wishlist   Profile   Session
   │          │            │                             │         │
   │       Checkout ─── CheckoutProofs               MCProfile   CartX ── MCCartX
   │          │   └── AbstractCart (instantiated)
   └─── MCCheckout
                          WritePipeline
                              └── WriteQueue (instantiated)

WishlistProofs, SessionProofs, ProfileProofs, WritePipelineProofs: each extends the
module it is named after and CommonLemmas (sequences, minimum and maximum).
CartXProofs extends CartX and SessionProofs.
```

**Catalog** is the list of `products.dart` with its real ids, names, categories
and prices. The assumption `NamesAndIdsAreKeys` is evaluated on it. Prices are
whole taka, so the code's doubles are naturals here: sums of products of integers
below 2^53 are exact in a double. What the category pages and the home page list is
there too, with two more assumptions TLC evaluates on the real list: every product is
listed somewhere (`EveryProductIsListed`), and a category shows as many items as it
lists (`CountsAreTrue`). `CategoryFilter` without a category (`NoFilter`, the code's
`null`) lists everything; the category page never asks for that.

**Cart** has the list algorithms: `IndexWhere` (by *name*, as `_addToCart` does),
`WithItem`, `CartTotal`. Positions are 1-based. **AbstractCart** says what a cart
promises, a count per product: the product whose page is open goes up by the amount
chosen there, one product goes to zero, or all do.

**Checkout** composes the cart with the description page, the cart page and the
checkout page.

| Variable | Code |
|---|---|
| `globalCart` | the list of the same name |
| `currentUser` | `FirebaseAuth.instance.currentUser?.uid` |
| `stack` | the navigator's pages, each with what its `State` and widget hold: the product and quantity of a description page, the rows the last build of `CartPage` showed (only `_removeItem` rebuilds it), the `totalAmount` a `CheckoutPage` was opened with and its payment method, success dialogs |
| `orders` | every call of `_placeOrder`: what it wrote, what became of the write, of the awaiting handler and of its page; `changed` is auxiliary |
| `buried` | auxiliary: a late login has put the home page over the lowest so many pages |

`_placeOrder` is `PlaceOrder` up to its await and `OrderDone` or `OrderFailed`
after it. A `Browse` page stands for any pages that do not touch the cart. A
delete on a row the emptied cart no longer has makes `removeAt` throw; it changes
nothing and is no action.

`LoginDone`, `SignupDone`, `LogoutDone` and `SaveDone` are what `_login`, `_signup`,
`_logout` and `_updateData` do to the stack after their awaits: replace the page on top,
remove all pages, pop the page on top. Their own page may be on its way out by then, so
the page on top may be any page; `Checkout` lets them come at any time and any number of
times, which allows more than the calls of `CartX` do. `LoginDone` is the one that leaves
pages of the cart under a home page, from where the cart can be filled: `buried` marks
those pages, and the properties say what holds of the others and what can happen to them.

**Wishlist** models the heart and the wishlist page over the documents
`wishlist/<uid>/my_items/<id>`. `calls` holds every call of `_loadWishlistState`
and `_toggleWishlist`; a set or delete is queued in it, `InView` is the local view
(the server's documents under the queue). `undisturbed` is auxiliary: no action
reads it. It says of the page on top that its calls did not overlap, that it
loaded, and that neither the user nor a refused older write changed its ground.

**Session** has the stack of pages with the real page graph (`LoginOpens`,
`HomeOpens` and so on), the navigation bar, and `_login`, `_signup` (two awaits),
`_logout` and `_updateData` on both sides of their awaits. `calls` remembers where
each handler is, whether its page is shown, leaving or disposed, and what the page
was when the handler ran its last lines. A handler that an exception ends at its await
(`LogoutFailed`: `signOut` throws when the keychain cannot be written; `SaveFailed`)
never ran them.

**Profile** is the edit page over the documents `users/<uid>`. `_loadCurrentData` is
`OpenEdit`, `ServeGet` or `LoadFailed`, and `LoadDone`; `_updateData` is `TapSave`, then
`SaveDone` or `SaveFailed`. `form` holds the controllers' texts. A text is abstracted
to where it comes from: what a user gave at signup, something typed, or blank. `saves`
holds every call of `_updateData` with the user it writes for and the user its page was
opened for. `entered` and `undisturbed` are auxiliary, no action reads them except to
keep them. What the load of a page that was left does is left out: `setState` throws,
or changes a page that is not seen.

**CartX** is the composition: it EXTENDS `Session` and adds the cart, the checkout and
`builtFor`, who was signed in when each page of the stack was built. Where `Checkout`
lets the user change and a login, signup or logout end at any time, here these are the
ends of calls that were tapped on a page. A cart line is abstracted to who was signed
in when it was added, and a total to the lines it was summed from, so that "whose" and
"of which cart" can be asked of an order. Each step is a step of Session together with
what it does to the rest (`HandlerOpens`, `OpenTab`, `GoBack` ...), or a step of the
cart or an order. `Session`'s abstract `OrderPlaced` is replaced by the real
`BackToHome` of the dialog, which can lie over any page if the order came back during
the transition away from the checkout page (`LateDialog`).

**WriteQueue** states what the app relies on when it awaits a write: a queue per user
that outlives the process and is answered from the front, an answer that goes to who
made that write, and "ok" only for what the server has.

**WritePipeline** models how the vendored iOS client does it.

| Variable | Code |
|---|---|
| `currentUser`, `unposted`, `tokens` | `Auth._currentUser`, the users whose sign-ins have not posted their notification yet, `getToken` calls not answered |
| `mainQueue`, `contents` | blocks on the main queue; `FirebaseAuthCredentialsProvider::contents_` |
| `worker_queue` | operations on Firestore's worker queue |
| `current_user`, `callbacks` | of `SyncEngine` |
| `mutations`, `next_batch_id` | the mutation queues in leveldb |
| `remote` | `RemoteStore::write_pipeline_`, the write stream's state, and what is on the wire in either direction |
| `writes` | every write with what its caller was told and what the server did; auxiliary |

An operation of the worker queue is one action with everything it calls: `RunWrite` puts
the batch on disk, registers the callback, fills the pipeline and starts the stream if
needed. An answer is read with everything that follows from it (`HandshakeComplete`,
`MutationResult`, `WriteRefused`), or cannot be parsed (`AnswerUnreadable`): then
`OnStreamRead` finishes the stream with `DataLoss`, which is a permanent error, and the
front of the pipeline, whose answer it was, is reported as failed. A sign-in sets the user (`SignIn`)
and posts later (`PostSignIn`), from a task of its own; sign-ins and sign-outs may come in
between. `Post` leaves out a notification whose token is the one posted last. Tokens are not
modelled, so for the user posted last it may post or not, which allows a little more than
the code. The stream's functions (`Start`, `Close`, `Stop`, `InhibitBackoff`) are operators
on `remote` under their names. `Healthy` is `Open` here; they differ in the backoff
delay and in whether a refused token is fetched anew. The stream token is left out (the
client sends none with the handshake), so is App Check, which the app does not use, and
disabling the network, which it never does. Of the server it is assumed that it takes a
stream's messages in turn, takes nothing more from a stream the client has closed, and
ends a stream only with an error.

## 3. Runs

| Run | Config | Distinct states | Checks |
|---|---|---|---|
| `checkout_cart` | `CheckoutCart.cfg` | 541,325 | `TypeOK`, `RowsMatchCart`, `ChargedTotalIsCartTotal`, `CartBag` |
| `checkout_orders` | `CheckoutOrders.cfg` | 4,959,864 | `EmptyOrderOnlyAfterSuccess`, `SuccessDialogIsTrue`, `ClearsWhatWasCharged` |
| `checkout_liveness` | `CheckoutLiveness.cfg` | 229,916 | `ConfirmedOrderEmptiesCart` |
| `wishlist` | `Wishlist.cfg` | 1,055,988 | `TypeOK`, `QuietHeartIsTrue`, `HeartCatchesUp` |
| `session` | `Session.cfg` | 385,370 | `TypeOK`, `SpinnerIsOneLogin`, `ShopOnlyAfterSignIn`, `SignedOutInShopHasCause`, `MissingProfileHasCause`, `EmptyStackHasCause`, `SpinnerStops` |
| `profile_form` | `ProfileForm.cfg` | 3,402,868 | `TypeOK`, `QuietFormIsTrue` |
| `profile_users` | `ProfileUsers.cfg` | 919,944 | `ForeignDataHasCause`, `ErasedFieldHasCause` |
| `profile_liveness` | `ProfileLiveness.cfg` | 68,336 | `SpinnerEnds` |
| `cartx_pages` | `CartXPages.cfg` | 1,915,151 | `ShopTypeOK`, `PagesShowTheirUser`, `StaleCartHasCause`, `ForeignLineHasCause` |
| `cartx_users` | `CartXUsers.cfg` | 420,796 | `UnknownBuyerHasCause` |
| `pipeline_users` | `PipelineUsers.cfg` | 620,826 | `TypeOK`, `PipelineIsQueueFront`, `AssertionsHold`, `CallbackIsForItsBatch`, `QueueFairSpec` |
| `pipeline_order` | `PipelineOrder.cfg` | 2,067,799 | `AnswersMatchPipeline`, `FailureHasCause`, `WritesGoOutAsTheirAuthor`, `QueueSpec` |

All pass. Deadlock is checked except in the pipeline runs: a client with nothing left to
send and all its disruptions used up may rest.

What the checkout runs show. The cart is a bag of products whatever the pages do
(`CartBag`, a refinement). While the cart page is on the stack its rows are the
cart, or an order has emptied it. The checkout page charges the cart's total. A dialog
follows a stored order and lies over an empty cart. All this unless a late login has put
the home page over the page: then the cart may be filled, and Back uncovers old rows, an
old total or an old dialog. An order with no items only follows a completed one, on every
path. A call clears what it charged, or the cart was changed while it waited; that takes a
user who has left the checkout page, or a late login that has buried it. A
confirmed order ends with an empty cart, a refusal or the end of the process, or keeps
waiting because its buyer is signed out again and again, or for ever.

What the wishlist run shows. A page whose taps are not hurried shows the truth, with
refused writes and with writes an earlier page or process left in the queue.

What the session run shows. The login guard and its `finally` work: one login per
page, no spinner for ever, and late answers for an older login page do not disturb a
newer one. The inconsistent states exist; the three `...HasCause` invariants are
complete lists of the ways into them.

What the profile runs show. A form that was filled before it was touched is the profile
plus what was typed, also over updates of an earlier page that still wait in the queue.
A field is erased only by a save before the load was through; a profile gets another
person's data only by a save on a page opened for somebody else. The spinner ends with
the page, except after a refusal.

What the CartX runs show. With the calls of the handlers in place of `Checkout`'s, which
may end at any time, pages and user still part on some paths. `PagesShowTheirUser`, `StaleCartHasCause`,
`ForeignLineHasCause` and `UnknownBuyerHasCause` name these paths, and within the bounds
TLC finds no other.

What the pipeline runs show. The client implements `WriteQueue` (`QueueSpec`, a
refinement, and `QueueFairSpec` with its fairness), which is what `Checkout`, `Wishlist`,
`Profile` and `CartX` take for granted of Firestore. Answers carry no id and are still
never taken for another write's. The asserts of `stream.cc`, `remote_store.cc` and
`leveldb_mutation_queue.cc` hold against late tokens, idle timers and user changes. A
failure is reported only for a refusal or for an answer that could not be read, and a
write goes out under its author's token, with one exception: see section 5 for both.

### Bounds

* Products: two real ones in `checkout_cart`, so lines can be confused and shifted by
  a removal; one in `checkout_orders`, in two
  quantities, so that a cart can change its total, and in `checkout_liveness`, which only
  asks whether the cart is empty; one in the wishlist run, where only one
  product's page is on top.
* `MaxQuantity` bounds a line's quantity (the code has no bound) in the guards of
  `IncQuantity` and `AddToCart`. Two tells "raise" from "append".
* `MaxOrders`: one or two taps on Confirm Order. The handler shares state only with
  itself and the pages, so two calls give every overlap; three would repeat them. The
  theorems hold for any number.
* `MaxPages` bounds the stack when a description page is opened (home and description
  page lie over what a late login has buried): four reach the checkout page under them,
  five two dialogs, three suffice where only the orders matter. Dialogs and the checkout
  page are not bounded by it.
* `MaxCalls`: four in `wishlist` (a write left in the queue by one page, then
  load and tap of the next), three in `session` (a login, a signup and a logout,
  or a login, a save and a logout overlapping).
* One user, signed in or not, in the `wishlist` and `session` runs, in `checkout_orders`,
  `checkout_liveness` and `pipeline_order`: users differ only in their documents and
  queues there, and signed in and out are two queues. Nobody signs in in `checkout_cart`: its properties do not ask
  who is signed in, and its one order can be answered. Two, interchangeable, where a property asks whose
  something is (`profile_users`, `cartx_*`, `pipeline_users`). Three could only repeat
  what two show: every property is about one person and "somebody else".
* `MaxSaves`: two, so that a page can load and save over a queued update, and two saves
  can overlap. `Fields`: two in `profile_form`, one typed into and one not. Nothing is
  typed in `profile_users`: what is typed belongs to nobody.
* `Visited`, `MaxLines` in the CartX runs: the pages through which user, cart and stack
  can part. `cartx_pages` has two calls, two lines and one order; `cartx_users` has two
  orders, so that the dialog of one can lead to the next, with one line and fewer pages.
  Orders, wishlist and search pages are built and left like the profile page.
* `kMaxPendingWrites` (10 in the code) is 1 against two writes in `pipeline_users`, so
  that the pipeline is full while a batch waits on disk, and 3 in `pipeline_order`, so
  that an answer, a refusal and a further write can be on the wire together.
  `MaxDisruptions` bounds user changes, token errors, broken streams, unreadable answers,
  connectivity changes and crashes together: two of them give every pair, such as a break while a user change is under way.

### Fairness

`FairSpec` of each module assumes two things. The event loop runs the continuation of
a completed future: that is what Dart's event loop does. And Firebase answers a
request in the end, with success or an error; without this, a device that stays offline
keeps every future pending, and the code has no timeout. Nothing is assumed of the
user, of transitions, or of which answer comes. Restarts are not limited, so the
properties allow the process to die. `Checkout`, `Wishlist` and `Profile` assume answers
only for the front of the queue of the signed-in user, as `WriteQueue` does: Firestore sends no other
(`remote_store.cc:599`). So an order whose buyer signs out may wait for ever, and
`ConfirmedOrderEmptiesCart` says so.

`WritePipeline!FairSpec` assumes that the three queues are worked off (dispatch queues
and the worker queue do that), that Auth comes back with a token or an error, that
a sign-in posts its notification, that a backoff elapses and that the server answers
what reaches it. Disruptions are bounded and nothing is assumed of them, nor of the idle timer, which only stops a stream that is not
needed.

## 4. Theorems

TLAPS proves the following. A run shows the same on a small instance; the theorems hold
for every value of the constants that the assumptions named below allow.

| Module | Theorem | Statement |
|---|---|---|
| `CheckoutProofs` | `TypeCorrect` | `Spec => []TypeOK` |
| | `RowsAlwaysMatchCart` | `Spec => []RowsMatchCart` |
| | `ChargedTotalAlwaysIsCartTotal` | `Spec => []ChargedTotalIsCartTotal` |
| | `EmptyOrdersFollowSuccess` | `Spec => []EmptyOrderOnlyAfterSuccess` |
| | `SuccessDialogIsAlwaysTrue` | `Spec => []SuccessDialogIsTrue` |
| | `OnlyChargedItemsAreCleared` | `Spec => ClearsWhatWasCharged` (an action property) |
| | `CartImplementsBag` | `Spec => CartBag` (a refinement) |
| `WishlistProofs` | `WishlistTypeCorrect` | `Spec => []TypeOK` |
| | `HeartIsTrue` | `Spec => []QuietHeartIsTrue` |
| `SessionProofs` | `SessionTypeCorrect` | `Spec => []TypeOK` |
| | `SpinnerTrue` | `Spec => []SpinnerIsOneLogin` |
| | `ShopAfterSignIn` | `Spec => []ShopOnlyAfterSignIn` |
| | `SignedOutInShop` | `Spec => []SignedOutInShopHasCause` |
| | `MissingProfile` | `Spec => []MissingProfileHasCause` |
| | `EmptyStack` | `Spec => []EmptyStackHasCause` |
| `ProfileProofs` | `ProfileTypeCorrect` | `Spec => []TypeOK` |
| | `QuietForm` | `Spec => []QuietFormIsTrue` |
| | `ErasedField` | `Spec => []ErasedFieldHasCause` |
| | `ForeignData` | `Spec => []ForeignDataHasCause` |
| `CartXProofs` | `ShopTypeCorrect` | `ShopSpec => []ShopTypeOK` |
| | `PagesTrue` | `ShopSpec => []PagesShowTheirUser` |
| | `CartPagesTrue` | `ShopSpec => []StaleCartHasCause` |
| | `BuyersKnown` | `ShopSpec => []UnknownBuyerHasCause` |
| | `ForeignLines` | `ShopSpec => []ForeignLineHasCause` |
| | `SessionPromisesKept` | `ShopSpec =>` `[]` of four of Session's invariants |
| | `SignedOutInTheApp` | `ShopSpec => [](LateDialog \/ SignedOutInShopHasCause)` |
| `WritePipelineProofs` | `PipelineTypeCorrect` | `Spec => []TypeOK` |
| | `PipelineFrontOfQueue` | `Spec => []PipelineIsQueueFront` |
| | `AnswersMatch` | `Spec => []AnswersMatchPipeline` |
| | `Assertions` | `Spec => []AssertionsHold` |
| | `CallbackBatch` | `Spec => []CallbackIsForItsBatch` |
| | `FailureCause` | `Spec => []FailureHasCause` |
| | `WriteAuthor` | `Spec => []WritesGoOutAsTheirAuthor` |
| | `PipelineImplementsQueue` | `Spec => QueueSpec` (a refinement) |

The bounds on counters (`MaxOrders`, `MaxPages`, `MaxLines`, `MaxCalls`, `MaxSaves`, `MaxWrites`,
`MaxDisruptions`, `MaxQuantity`) are arbitrary natural numbers there, so the theorems
are about any number of orders, handlers, saves, writes and disruptions.

### Cart and checkout

`TypeOK` is not inductive: it bounds a cart by the number of products,
and adding a line keeps that bound only because no product has two lines. `TypeInv`
adds `OneLinePerProduct`, and the lemma `OneLineFits` is the pigeonhole step (lines
inject into products). `IndexWhereFinds`, `WithItemAdds` and `RemoveAtTakesOut` say
what the list operations do to the count of every product; they carry both type
correctness and the refinement.

The safety invariant `SafetyInv` adds to the properties what ties them together. Of the
pages (`PagesInv`): the cart page lies at the bottom, the checkout page on the cart page
over non-empty rows, and above either of them or a dialog there are only checkout pages
and dialogs, unless a late login has buried it (`PagesStacked`). A description page, where
the cart is filled, therefore never lies over a page of the cart that is not buried; this
carries `RowsMatchCart`, `ChargedTotalIsCartTotal` and `SuccessDialogIsTrue` at once.
`RowsHaveCause`: rows that show something over an empty cart, buried or not, mean that an
order went through, so a tap that sees an empty cart follows a completed call
(`EmptyOrderOnlyAfterSuccess`). Of the orders (`OrdersInv`): a call whose page is shown has
the checkout page on the stack (`ShownOnCheckout`), a call that waits charged the cart there is or
knows it was changed (`PendingIsCharged`), and if that happened with its page shown the page
is buried (`ChangedIsBuried`); together these are `ClearsWhatWasCharged`. `DoneIsStored`:
a completed call's write is stored. `OrdersKept` says what no step does to an existing call.

Assumptions used: `ProductsAssumption` (finite, names are keys, which
`NamesAndIdsAreKeys` shows of the real list), `MaxQuantityAssumption`,
`BoundsAssumption`, `MethodAssumption`, `UsersAssumption`, `NoProductAssumption`.

### Wishlist

`HeartInv` says of an undisturbed page what is true while its last call is under way:
a load that was answered knows what the view holds (`LoadKnows`), and a toggle has the
heart as the view would be without its own queued write, then the opposite of the view
once the write was served, and the view again if it was refused (`ToggleKnows`).
`QuietHeartIsTrue` is the case where no call waits. The work is in the view: serving or
refusing the oldest write of a queue must change the view as the invariant says, which
the lemmas on `ViewIn` and `ViewWithout` show for any queue of older writes.

Assumptions used: `UsersAssumption`, `ProductAssumption`, `MaxCallsAssumption`.

### Session

`SessionInv` has a part on accounts and a part on pages. An account is created by one
signup at most (`OneSignupPerAccount`), which has written the profile from a certain
phase on (`SignupsCreate`); hence `MissingProfileHasCause`. The pages: what may lie at
the bottom of the stack, and that the login page lies nowhere else (`StackShape`), that
a handler whose page is shown has its page on the stack (`ShownOnStack`), that no
handler ends twice (`EndsOnce`), and that at most one login is under way on a login page
and the spinner is its spinner (`SpinnerInv`). `SignedOutInShopHasCause` is inductive
only together with sign-ins that went through and will open the shop from their own page
(`SignedOutInv`). The lemmas are about moves of the stack and the calls in general
(`StackMoved`, `Moved`), and admit the dialog of `CartX` on the stack. `SignedOutInv` is
kept apart from `SessionInv` (the lemmas show `KeepsSignedOut` of a step), because the late
dialog of `CartX` is one more way into the shop and ends it.

Assumptions used: `UsersAssumption`, `MaxCallsAssumption`.

### Profile

`ProfileInv` has four parts. `PageInv`: types, that a page that was left leaves nothing
behind, and that the spinner is that of the last save. `Undisturbed`: once such a page is
filled, the form is what was typed and the view elsewhere, and a queued save writes over
a view that already agrees with it outside of what was typed, so it does not matter when
the server takes it. `ErasedInv` and `ForeignInv` follow the texts along all the places
from which they can reach a profile: the documents, the saves, an answered load, the form.

Assumptions used: `UsersAssumption`, `TextAssumption` (texts of signups, typed and
blank ones differ, being names of where a text comes from), `MissingAssumption`,
`MaxSavesAssumption`.

### The app as a whole

The proof has two layers. `Go(n, pg)` says what the steps of the running app have in
common: the first n pages stay and at most pg comes on top, calls and orders only go
forward, the cart changes on the description page, on the cart page or with an order that
is done, the user changes only with an answered sign-in or logout, and then no page does.
One lemma per action shows that it is such a step (`Goes`); one lemma per part of the
invariant shows that `Go` keeps it. `Restart` is apart, as it takes all causes away.

`ShopInv` is the inductive invariant. Its first part is `SessionInv` with `ShopShape`: cart
and profile page lie at the bottom, the checkout page on the cart page, the signup page on
the login page with nothing above unless a dialog was late. The second part has the
properties, strengthened:

* `CartTrue`: as long as there is no cause, over the cart page lies a checkout page or
  nothing, so nobody can get to a description page and add a line.
* `SpinningAlone`: a login under way on its page has no shop above it, unless one came
  back late. So a sign-in that is answered with its page shown finds no page of the shop,
  which gives `PagesShowTheirUser`.
* `BuyerInv` blames an unknown buyer on a logout that has left its page for good
  (`LogoutLeft`): one that is still on the profile page cannot be, since there the cart
  page is not on the stack.
* `ForeignInv`: while the login page is on the stack, nothing was ordered and the owners
  of the lines have logged in (`LinesUnderLogin`); with no login page, all lines are those
  of who is signed in (`OwnLines`); and who is signed in is one of those who signed in
  (`UserSignedIn`). The step from the one to the other is where `SignedInAgain` is needed:
  Back to a login page under the shop, and another login.

Assumptions used: `UsersAssumption`, `MaxCallsAssumption`, `VisitedAssumption`.

### The write path

None of the properties is inductive by itself; they are proved from one invariant `Inv`,
with one lemma per action and one or more per part that the action can disturb.

* `LocalInv`: along a mutation queue ids and writes grow (`Ordered`), `next_batch_id` is
  above them (`Numbered`), what is on disk is its user's and not answered, writes on the
  worker queue come later than all on disk, and a callback exists exactly for a batch
  whose caller waits. Ids that are used again after a queue was reopened
  (`LoadNextBatchIdFromDb`, the lemma `NextIdIsFree`) are free on disk, and so no
  callback is left under them.
* `StreamInv`: the pipeline is a front of the queue; a stream that is not open has
  nothing on the wire; an open one carries the handshake, or answers and then writes that
  are the pipeline in its order, a refusal last; a started stream is needed.
* `AnswersInv`: answers under way are true, and of a write on disk that the server has,
  the answer is under way or was lost. A write that was told of a failure was refused, or
  a later one was, or its own answer came and could not be read.
* `TokenInv`: of the requests for a token with the current close count there is at most
  one, with Auth, on the main queue or on the worker queue, and none unless the stream
  is starting. That is why the close count is enough to tell a late token.
* `UserInv`: who is signed in, along the queues. The user the provider knows is
  Firestore's once the worker queue is worked off and Auth's once the main queue is,
  every write waiting on the worker queue is run under its author, and a token with a
  current counter is its user's, unless it was raced.

`PipelineImplementsQueue` maps `RunWrite` to `Submit`, `ServerStores` to `Store`,
`MutationResult`, `WriteRefused`, `RefusalOvertakes` and an unreadable result to `Answer`,
`RunCredentialChange` to `ChangeUser` and `Restart` to `Crash`; every other step is a
stutter. It is what the other modules take for granted of Firestore.

Assumptions used: `UsersAssumption`, `PendingAssumption`, `BoundsAssumption`.

### Only model-checked

Every invariant, action property and safety refinement that a run checks has its theorem.
The liveness properties `ConfirmedOrderEmptiesCart`, `HeartCatchesUp`, `SpinnerStops`, `SpinnerEnds` and
`QueueFairSpec` are beyond the prover (fairness and ENABLED), as is what the fold
`CartTotal` computes (induction over data).

## 5. What the models show that a maintainer may want to change

These are behaviours of the code the models contain; no comment, document or test of
the repository says otherwise, so they are not listed as findings.

* Confirm Order can be tapped again while the write is under way
  (`checkout_page.dart:197`): duplicate orders, the later ones possibly for zero items
  at the full amount.
* `globalCart.clear()` (`checkout_page.dart:34`) also runs after the page was left and
  throws away what was added since; hence `changed` in `ClearsWhatWasCharged`.
* The success dialog belongs to whatever page is on top while the checkout page is still
  in its transition (`checkout_page.dart:35`). Over the login page, after a logout, its
  'Back to Home' opens the shop for somebody who is signed out (`LateDialog`).
* The payment method is never stored with the order (`checkout_page.dart:27`).
* The heart is flipped relative to itself (`product_description.dart:156`): two quick
  taps, or a tap before the page has loaded, leave it wrong; hence `undisturbed`.
* Leaving the profile page before `signOut` returns leaves a signed-out user in the
  shop (`profile_page.dart:18`). Orders placed there have buyer "unknown"
  (`checkout_page.dart:20`), and the history looks for "" (`my_orders_page.dart:10`).
* A refused profile write leaves an account without a profile (`signup_page.dart:26`);
  saving on the edit page then fails and its spinner stays (`edit_profile_page.dart:39`).
* A save that returns while the edit page is being popped pops the profile page too and
  leaves no page (`edit_profile_page.dart:46`).
* The cart survives a logout (`cart_manager.dart:12`), so the next person to sign in
  finds it; `ForeignLineHasCause`.
* A login that returns late replaces whatever page is on top (`login_page.dart:32`), and
  only that one: a cart or checkout page below keeps its rows and total while the cart
  is filled from the new home page, an older success dialog comes back over a full cart,
  and an order still under way clears what it did not charge (`buried`). If the signup
  page was open, the login page stays under the shop; Back leads there, and another person signs in without a logout.
* A signup whose profile write fails has signed in all the same, with the signup page
  still open (`signup_page.dart:26`).
* The edit page writes for whoever is signed in at the tap (`edit_profile_page.dart:38`),
  not for whom the form was loaded; a save before the load was through writes empty
  fields, and typing before it is lost.
* `signOut` may throw (`profile_page.dart:17` does not catch it): nothing happens, and
  nobody is told that they are still signed in.
* In the vendored client: a sign-in sets the user before it posts the notification
  (`Auth.swift:1998`), and a write stream that asks for a token in between sends the
  old user's queue under the new user's token (`raced` in `WritesGoOutAsTheirAuthor`).
  Sign-ins and sign-outs that overlap may also post in another order than they set the
  user (`Auth.swift:1904`); Firestore then works for the user posted last until the next
  notification.
  And a refusal is blamed on the front of the pipeline (`remote_store.cc:551`): if
  acknowledgements before it were lost with the stream, a stored write is reported as
  failed (`FailureHasCause`). So is a stored write whose answer cannot be read
  (`write_stream.cc:155`, `stream.cc:263`).

## 6. Not modelled

* Text, layout, images, snack bars, `firebase_options.dart` (generated), the platform
  runners.
* The vendored pods other than the write path: gRPC, BoringSSL, leveldb, abseil, nanopb and
  protobuf code, which make up nearly all lines of the repository, are third-party
  transport, cryptography and storage that the app's behaviour does not depend on in
  detail; and of Firestore the watch stream, local documents and queries, transactions
  and garbage collection. The app reads through them, and its pages show whatever
  arrives.
* On Android and the web the app runs on other client libraries, which are not in the
  repository. `WriteQueue` is what the app needs of them too.
* The plugin code between Dart and the client, taken to run on the main thread.
* `searchProduct` (`search_page.dart:25`): a substring filter of the constant list, no
  state beyond its result.
* The rows of the order history and the texts of the headers: queries of Firestore shown
  as they arrive. For whom they were asked is in `CartX`.
* Settings (a checkbox nobody reads) and contact us (static).
* A rebuild of all routes by the framework (a change of the device's language rebuilds
  every page and evaluates `cartTotal` of an open checkout page again).
* Rows of the cart list that are first built by scrolling after the cart was emptied.

## 7. Plan

Done: all modules of section 2; the theorems of section 4.

What could be added: a composition of `WritePipeline` with the handlers that wait for it,
in place of the answers `Wishlist`, `Profile` and `CartX` allow Firestore to give
(`PipelineImplementsQueue` is the step that makes them the same), and the parts of
section 6 once the app keeps state there.
