------------------------------ MODULE Session -------------------------------
(***************************************************************************)
(* Starting the app, signing in, up and out, and the stack of pages:       *)
(* lib/main.dart, splash_screen.dart, login_page.dart, signup_page.dart,   *)
(* profile_page.dart (_logout), navigation.dart and every Navigator call   *)
(* of the other pages; of edit_profile_page.dart the saving that ends in a *)
(* pop.                                                                    *)
(*                                                                         *)
(* A handler that awaits goes on long after the tap, whatever page is on   *)
(* top by then, and acts on the stack as it is then.                       *)
(***************************************************************************)
EXTENDS Naturals, FiniteSets, SequencesExt

CONSTANTS
  Users,      \* people who have, or may open, an account
  NoUser,     \* FirebaseAuth.instance.currentUser = null
  MaxCalls    \* bound on the calls of _login, _signup, _logout and _updateData

ASSUME UsersAssumption == NoUser \notin Users
ASSUME MaxCallsAssumption == MaxCalls \in Nat

VARIABLES
  stack,        \* the navigator's pages, the topmost last
  isLoading,    \* _LoginPageState._isLoading of the login page on the stack
  currentUser,  \* FirebaseAuth.instance.currentUser
  accounts,     \* Firebase accounts
  profiles,     \* accounts with a document users/<uid>, queued or stored
  calls         \* every call of the four handlers, oldest first

vars == <<stack, isLoading, currentUser, accounts, profiles, calls>>

-----------------------------------------------------------------------------
(***************************************************************************)
(* The pages and what leads from one to another.                           *)
(***************************************************************************)
navPages == <<"Home", "Category", "Cart", "Profile">>

StartPages == {"Loading", "Error", "Splash", "Login", "Signup"}
ShopPages == {"Home", "Category", "Cart", "Profile", "Search", "List", "Desc",
              "Checkout", "Orders", "Wishlist", "Edit", "Settings", "Contact"}

\* The pages a page pushes on top of itself.
LoginOpens    == {"Signup"}
HomeOpens     == {"Search", "Desc"}
SearchOpens   == {"Desc"}
CategoryOpens == {"List"}
ListOpens     == {"Desc"}
CartOpens     == {"Checkout"}
ProfileOpens  == {"Orders", "Wishlist", "Edit", "Settings", "Contact"}
WishlistOpens == {"Desc"}

Opens(pg) ==
  CASE pg = "Login"    -> LoginOpens
    [] pg = "Home"     -> HomeOpens
    [] pg = "Search"   -> SearchOpens
    [] pg = "Category" -> CategoryOpens
    [] pg = "List"     -> ListOpens
    [] pg = "Cart"     -> CartOpens
    [] pg = "Profile"  -> ProfileOpens
    [] pg = "Wishlist" -> WishlistOpens
    [] OTHER           -> {}

Top == stack[Len(stack)]
On(pg) == stack # <<>> /\ Top = pg

(***************************************************************************)
(* The tab the navigation bar of the page on top marks as selected; 0 when *)
(* the page has no bar.  A description page takes it from its opener.      *)
(***************************************************************************)
SelectedTab ==
  LET opener == IF Top = "Desc" THEN stack[Len(stack) - 1] ELSE Top
  IN  CASE opener \in {"Home", "Search"}   -> 1
        [] opener \in {"Category", "List"} -> 2
        [] opener = "Cart"                 -> 3
        [] opener = "Profile"              -> 4
        [] opener = "Wishlist" /\ Top = "Desc" -> 4
        [] OTHER                           -> 0

-----------------------------------------------------------------------------
(***************************************************************************)
(* Calls.  phase is where the handler is: its request is sent, answered    *)
(* (ok, error), or it has ended: to its last line (done; past once the     *)
(* app was started again), with an exception (failed), or with the process *)
(* (lost).  _signup has a second await (sentDoc, docOk, docError).  host   *)
(* is the page it was tapped on, as in module Checkout; ended is what host *)
(* was when the handler ran its last lines, "no" if it never did.          *)
(***************************************************************************)
Call == [kind  : {"login", "signup", "logout", "save"},
         user  : Users \cup {NoUser},
         phase : {"sent", "ok", "error", "sentDoc", "docOk", "docError",
                  "done", "failed", "lost", "past"},
         host  : {"shown", "leaving", "disposed"},
         ended : {"no", "shown", "leaving", "disposed"}]

PageOf(kind) == CASE kind = "login"  -> "Login"
                  [] kind = "signup" -> "Signup"
                  [] kind = "logout" -> "Profile"
                  [] kind = "save"   -> "Edit"

Ended == {"done", "failed", "lost", "past"}

TypeOK ==
  /\ stack \in Seq(StartPages \cup ShopPages)
  /\ isLoading \in BOOLEAN
  /\ currentUser \in Users \cup {NoUser}
  /\ accounts \subseteq Users
  /\ profiles \subseteq accounts
  /\ calls \in Seq(Call)
  /\ Len(calls) <= MaxCalls

Tapped(kind, u) ==
  Append(calls, [kind |-> kind, user |-> u, phase |-> "sent", host |-> "shown",
                 ended |-> "no"])

\* The calls after the pages pgs have been taken off the stack.
Leaving(cs, pgs) ==
  [i \in DOMAIN cs |->
     IF cs[i].host = "shown" /\ PageOf(cs[i].kind) \in pgs
       THEN [cs[i] EXCEPT !.host = "leaving"] ELSE cs[i]]

Mounted(i) == calls[i].host # "disposed"

At(i, ph) == [calls EXCEPT ![i].phase = ph]
Over(i, ph) == [calls EXCEPT ![i].phase = ph, ![i].ended = calls[i].host]

Init ==
  /\ stack = <<"Loading">>
  /\ isLoading = FALSE
  /\ accounts \in SUBSET Users
  /\ profiles = accounts
  /\ currentUser \in accounts \cup {NoUser}
  /\ calls = <<>>

-----------------------------------------------------------------------------
(***************************************************************************)
(* The navigator.                                                          *)
(***************************************************************************)

\* pushAndRemoveUntil(pg, false): pg is the only page left.
RemoveAllAndPush(pg, cs) ==
  /\ stack' = <<pg>>
  /\ isLoading' = FALSE
  /\ calls' = Leaving(cs, Range(stack))

\* pushReplacement(pg): pg takes the place of the page on top, whichever it is.
ReplaceTop(pg, cs) ==
  /\ stack' = Append(Front(stack), pg)
  /\ calls' = Leaving(cs, {Top})

Pop(cs) ==
  /\ stack' = Front(stack)
  /\ calls' = Leaving(cs, {Top})

\* initializeApp answers and the FutureBuilder shows the splash or the error screen.
FirebaseReady(ok) ==
  /\ On("Loading")
  /\ stack' = <<IF ok THEN "Splash" ELSE "Error">>
  /\ UNCHANGED <<isLoading, currentUser, accounts, profiles, calls>>

\* Mutant: who is still signed in goes straight to the shop.
SplashDoneToHome ==
  /\ On("Splash")
  /\ ReplaceTop(IF currentUser = NoUser THEN "Login" ELSE "Home", calls)
  /\ UNCHANGED <<isLoading, currentUser, accounts, profiles>>

\* The timer of the splash screen.
SplashDone ==
  /\ On("Splash")
  /\ ReplaceTop("Login", calls)
  /\ UNCHANGED <<isLoading, currentUser, accounts, profiles>>

Open(pg) ==
  /\ stack # <<>>
  /\ pg \in Opens(Top)
  /\ stack' = Append(stack, pg)
  /\ UNCHANGED <<isLoading, currentUser, accounts, profiles, calls>>

Back ==
  /\ Len(stack) > 1
  /\ Pop(calls)
  /\ UNCHANGED <<isLoading, currentUser, accounts, profiles>>

\* Mutant: a tab is pushed on top of the pages.
TabPushes(t) ==
  /\ stack # <<>>
  /\ SelectedTab \notin {0, t}
  /\ stack' = Append(stack, navPages[t])
  /\ UNCHANGED <<isLoading, currentUser, accounts, profiles, calls>>

\* CustomNavBar: the selected tab does nothing, the others remove all pages.
Tab(t) ==
  /\ stack # <<>>
  /\ SelectedTab \notin {0, t}
  /\ RemoveAllAndPush(navPages[t], calls)
  /\ UNCHANGED <<currentUser, accounts, profiles>>

\* 'Back to Home' after an order.  (The dialog that comes up when the checkout
\* page was left already, over whatever page is on top, is in module CartX.)
OrderPlaced ==
  /\ On("Checkout")
  /\ RemoveAllAndPush("Home", calls)
  /\ UNCHANGED <<currentUser, accounts, profiles>>

-----------------------------------------------------------------------------
(***************************************************************************)
(* LoginPage._login.                                                       *)
(***************************************************************************)

\* Mutant: the login button does not look at _isLoading.
TapLoginUnguarded(u) ==
  /\ On("Login")
  /\ Len(calls) < MaxCalls
  /\ isLoading' = TRUE
  /\ calls' = Tapped("login", u)
  /\ UNCHANGED <<stack, currentUser, accounts, profiles>>

TapLogin(u) ==
  /\ On("Login")
  /\ ~isLoading
  /\ Len(calls) < MaxCalls
  /\ isLoading' = TRUE
  /\ calls' = Tapped("login", u)
  /\ UNCHANGED <<stack, currentUser, accounts, profiles>>

\* The finally block: _isLoading of the page the call was made on.
LoadingOver(i) == isLoading /\ calls[i].host # "shown"

LoginDone(i) ==
  /\ calls[i].kind = "login" /\ calls[i].phase = "ok"
  /\ IF Mounted(i) /\ stack # <<>>
       THEN ReplaceTop("Home", Over(i, "done"))
       ELSE calls' = Over(i, "done") /\ UNCHANGED stack
  /\ isLoading' = LoadingOver(i)
  /\ UNCHANGED <<currentUser, accounts, profiles>>

\* Mutant: _isLoading is only reset after a success.
LoginFailedNoFinally(i) ==
  /\ calls[i].kind = "login" /\ calls[i].phase = "error"
  /\ calls' = Over(i, "failed")
  /\ UNCHANGED <<stack, isLoading, currentUser, accounts, profiles>>

\* Mutant: the home page is opened in the finally block.
LoginFailedOpensHome(i) ==
  /\ calls[i].kind = "login" /\ calls[i].phase = "error"
  /\ IF Mounted(i) /\ stack # <<>>
       THEN ReplaceTop("Home", Over(i, "failed"))
       ELSE calls' = Over(i, "failed") /\ UNCHANGED stack
  /\ isLoading' = LoadingOver(i)
  /\ UNCHANGED <<currentUser, accounts, profiles>>

\* Caught or not, the finally block runs.
LoginFailed(i) ==
  /\ calls[i].kind = "login" /\ calls[i].phase = "error"
  /\ calls' = Over(i, "failed")
  /\ isLoading' = LoadingOver(i)
  /\ UNCHANGED <<stack, currentUser, accounts, profiles>>

-----------------------------------------------------------------------------
(***************************************************************************)
(* SignupPage._signup: creates the account, then the profile, and nothing  *)
(* keeps it from being tapped again.                                       *)
(***************************************************************************)
\* Mutant: the profile is written first.
TapSignupProfileFirst(u) ==
  /\ On("Signup")
  /\ Len(calls) < MaxCalls
  /\ calls' = Tapped("signup", u)
  /\ profiles' = profiles \cup {u}
  /\ UNCHANGED <<stack, isLoading, currentUser, accounts>>

TapSignup(u) ==
  /\ On("Signup")
  /\ Len(calls) < MaxCalls
  /\ calls' = Tapped("signup", u)
  /\ UNCHANGED <<stack, isLoading, currentUser, accounts, profiles>>

\* Mutant: the profile is not written.
SignupSkipsProfile(i) ==
  /\ calls[i].kind = "signup" /\ calls[i].phase = "ok"
  /\ calls' = At(i, "docOk")
  /\ UNCHANGED <<stack, isLoading, currentUser, accounts, profiles>>

SignupWritesProfile(i) ==
  /\ calls[i].kind = "signup" /\ calls[i].phase = "ok"
  /\ calls' = At(i, "sentDoc")
  /\ profiles' = profiles \cup {calls[i].user}
  /\ UNCHANGED <<stack, isLoading, currentUser, accounts>>

SignupDone(i) ==
  /\ calls[i].phase = "docOk"
  /\ IF Mounted(i)
       THEN RemoveAllAndPush("Home", Over(i, "done"))
       ELSE calls' = Over(i, "done") /\ UNCHANGED <<stack, isLoading>>
  /\ UNCHANGED <<currentUser, accounts, profiles>>

\* A FirebaseAuthException is shown, any other exception ends the handler.
SignupFailed(i) ==
  /\ calls[i].kind = "signup"
  /\ calls[i].phase \in {"error", "docError"}
  /\ calls' = Over(i, "failed")
  /\ UNCHANGED <<stack, isLoading, currentUser, accounts, profiles>>

-----------------------------------------------------------------------------
(***************************************************************************)
(* ProfilePage._logout and EditProfilePage._updateData.                    *)
(***************************************************************************)
TapLogout ==
  /\ On("Profile")
  /\ Len(calls) < MaxCalls
  /\ calls' = Tapped("logout", currentUser)
  /\ UNCHANGED <<stack, isLoading, currentUser, accounts, profiles>>

\* Mutant: the login page is pushed on top of the shop.
LogoutDonePushes(i) ==
  /\ calls[i].kind = "logout" /\ calls[i].phase = "ok"
  /\ calls' = Over(i, "done")
  /\ stack' = IF Mounted(i) THEN Append(stack, "Login") ELSE stack
  /\ UNCHANGED <<isLoading, currentUser, accounts, profiles>>

LogoutDone(i) ==
  /\ calls[i].kind = "logout" /\ calls[i].phase = "ok"
  /\ IF Mounted(i)
       THEN RemoveAllAndPush("Login", Over(i, "done"))
       ELSE calls' = Over(i, "done") /\ UNCHANGED <<stack, isLoading>>
  /\ UNCHANGED <<currentUser, accounts, profiles>>

\* signOut throws, nothing catches it: the lines after the await never run.
LogoutFailed(i) ==
  /\ calls[i].kind = "logout" /\ calls[i].phase = "error"
  /\ calls' = At(i, "failed")
  /\ UNCHANGED <<stack, isLoading, currentUser, accounts, profiles>>

TapSave ==
  /\ On("Edit")
  /\ \A i \in DOMAIN calls :
       calls[i].kind = "save" /\ calls[i].host = "shown" => calls[i].phase = "done"
  /\ Len(calls) < MaxCalls
  /\ calls' = Tapped("save", currentUser)
  /\ UNCHANGED <<stack, isLoading, currentUser, accounts, profiles>>

\* Mutant: the check for mounted before the pop is left out.
SaveDoneUnmounted(i) ==
  /\ calls[i].kind = "save" /\ calls[i].phase = "ok"
  /\ stack # <<>>
  /\ Pop(Over(i, "done"))
  /\ UNCHANGED <<isLoading, currentUser, accounts, profiles>>

\* Navigator.pop(context) pops the page on top, also when that is no longer
\* the edit page.
SaveDone(i) ==
  /\ calls[i].kind = "save" /\ calls[i].phase = "ok"
  /\ IF Mounted(i) /\ stack # <<>>
       THEN Pop(Over(i, "done"))
       ELSE calls' = Over(i, "done") /\ UNCHANGED stack
  /\ UNCHANGED <<isLoading, currentUser, accounts, profiles>>

\* The await throws, nothing catches it; the page shows its spinner for ever.
SaveFailed(i) ==
  /\ calls[i].kind = "save" /\ calls[i].phase = "error"
  /\ calls' = At(i, "failed")
  /\ UNCHANGED <<stack, isLoading, currentUser, accounts, profiles>>

-----------------------------------------------------------------------------
(***************************************************************************)
(* The environment: Firebase Auth, Firestore, transitions and restarts.    *)
(***************************************************************************)
AuthOk(i) ==
  /\ calls[i].phase = "sent"
  /\ calls' = At(i, "ok")
  /\ CASE calls[i].kind = "login"  -> /\ calls[i].user \in accounts
                                      /\ currentUser' = calls[i].user
                                      /\ UNCHANGED accounts
       [] calls[i].kind = "signup" -> /\ calls[i].user \notin accounts
                                      /\ currentUser' = calls[i].user
                                      /\ accounts' = accounts \cup {calls[i].user}
       [] calls[i].kind = "logout" -> /\ currentUser' = NoUser
                                      /\ UNCHANGED accounts
       [] calls[i].kind = "save"   -> /\ calls[i].user \in profiles
                                      /\ UNCHANGED <<currentUser, accounts>>
  /\ UNCHANGED <<stack, isLoading, profiles>>

\* A wrong password, a taken address, a lost connection, a missing profile;
\* signOut of somebody signed in, when the keychain cannot be written.
RequestFails(i) ==
  /\ calls[i].phase = "sent"
  /\ calls[i].kind = "logout" => currentUser # NoUser
  /\ calls' = At(i, "error")
  /\ UNCHANGED <<stack, isLoading, currentUser, accounts, profiles>>

ProfileStored(i) ==
  /\ calls[i].phase = "sentDoc"
  /\ calls' = At(i, "docOk")
  /\ UNCHANGED <<stack, isLoading, currentUser, accounts, profiles>>

ProfileRefused(i) ==
  /\ calls[i].phase = "sentDoc"
  /\ calls' = At(i, "docError")
  /\ profiles' = profiles \ {calls[i].user}
  /\ UNCHANGED <<stack, isLoading, currentUser, accounts>>

Dispose(i) ==
  /\ calls[i].host = "leaving"
  /\ calls' = [calls EXCEPT ![i].host = "disposed"]
  /\ UNCHANGED <<stack, isLoading, currentUser, accounts, profiles>>

(***************************************************************************)
(* The process dies.  A request that was sent may still have its effect,   *)
(* a queued profile is stored or refused later.                            *)
(***************************************************************************)
InPhase(kind, ph) ==
  {calls[i].user : i \in {j \in DOMAIN calls : calls[j].kind = kind
                                               /\ calls[j].phase = ph}}

Restart ==
  /\ stack' = <<"Loading">>
  /\ isLoading' = FALSE
  /\ \E late \in SUBSET InPhase("signup", "sent") : accounts' = accounts \cup late
  /\ \E refused \in SUBSET InPhase("signup", "sentDoc") : profiles' = profiles \ refused
  /\ \/ UNCHANGED currentUser
     \/ InPhase("logout", "sent") # {} /\ currentUser' = NoUser
  /\ calls' = [i \in DOMAIN calls |->
                 [calls[i] EXCEPT !.phase = IF @ = "done" THEN "past"
                                            ELSE IF @ \in Ended THEN @ ELSE "lost",
                                  !.host = "disposed"]]

Next ==
  \/ \E ok \in BOOLEAN : FirebaseReady(ok)
  \/ SplashDone
  \/ \E pg \in StartPages \cup ShopPages : Open(pg)
  \/ Back
  \/ \E t \in DOMAIN navPages : Tab(t)
  \/ OrderPlaced
  \/ \E u \in Users : TapLogin(u)
  \/ \E u \in Users : TapSignup(u)
  \/ TapLogout
  \/ TapSave
  \/ \E i \in DOMAIN calls : LoginDone(i)
  \/ \E i \in DOMAIN calls : LoginFailed(i)
  \/ \E i \in DOMAIN calls : SignupWritesProfile(i)
  \/ \E i \in DOMAIN calls : SignupDone(i)
  \/ \E i \in DOMAIN calls : SignupFailed(i)
  \/ \E i \in DOMAIN calls : LogoutDone(i)
  \/ \E i \in DOMAIN calls : LogoutFailed(i)
  \/ \E i \in DOMAIN calls : SaveDone(i)
  \/ \E i \in DOMAIN calls : SaveFailed(i)
  \/ \E i \in DOMAIN calls : AuthOk(i)
  \/ \E i \in DOMAIN calls : RequestFails(i)
  \/ \E i \in DOMAIN calls : ProfileStored(i)
  \/ \E i \in DOMAIN calls : ProfileRefused(i)
  \/ \E i \in DOMAIN calls : Dispose(i)
  \/ Restart

Spec == Init /\ [][Next]_vars

\* Firebase answers and the event loop runs continuations.
FairSpec ==
  /\ Spec
  /\ \A i \in 1..MaxCalls :
       /\ WF_vars(i \in DOMAIN calls /\ (AuthOk(i) \/ RequestFails(i)))
       /\ WF_vars(i \in DOMAIN calls /\ (LoginDone(i) \/ LoginFailed(i)))

-----------------------------------------------------------------------------
OnStack(pgs) == Range(stack) \cap pgs # {}

(***************************************************************************)
(* The login page spins exactly while one login made on it is under way:   *)
(* the guard of _login admits no second one, the finally block leaves no   *)
(* page spinning, and the late end of a call made on an earlier login page *)
(* does not stop the spinner of this one.                                  *)
(***************************************************************************)
SpinnerIsOneLogin ==
  "Login" \in Range(stack) =>
    Cardinality({i \in DOMAIN calls :
                   /\ calls[i].kind = "login" /\ calls[i].host = "shown"
                   /\ calls[i].phase \notin Ended}) = IF isLoading THEN 1 ELSE 0

\* The shop opens only after a login or a signup of this run of the app.
ShopOnlyAfterSignIn ==
  OnStack(ShopPages) =>
    \E i \in DOMAIN calls :
      calls[i].kind \in {"login", "signup"} /\ calls[i].phase = "done"

(***************************************************************************)
(* Somebody who is signed out sees shop pages only because a logout's page *)
(* had gone when signOut came back (the check for mounted in _logout then  *)
(* skips the login page), in the moment before _logout goes on, or because *)
(* a login or signup went on during the transition away from its page,     *)
(* after the logout, and opened the home page.  (Module CartX adds a late  *)
(* dialog, whose 'Back to Home' does the same.)                            *)
(***************************************************************************)
SignedOutInShopHasCause ==
  OnStack(ShopPages) /\ currentUser = NoUser =>
    \E i \in DOMAIN calls :
      \/ /\ calls[i].kind = "logout"
         /\ calls[i].phase = "ok" \/ calls[i].ended = "disposed"
      \/ /\ calls[i].kind \in {"login", "signup"}
         /\ calls[i].ended = "leaving"

(***************************************************************************)
(* An account lacks its profile only if the signup that created it failed, *)
(* died or is still between its two awaits.                                *)
(***************************************************************************)
MissingProfileHasCause ==
  \A u \in accounts \ profiles :
    \E i \in DOMAIN calls :
      /\ calls[i].kind = "signup" /\ calls[i].user = u
      /\ calls[i].phase \notin {"done", "past"}

(***************************************************************************)
(* The navigator runs out of pages only when a save comes back during the  *)
(* transition away from its page, and pops the profile page instead.       *)
(***************************************************************************)
EmptyStackHasCause ==
  stack = <<>> =>
    \E i \in DOMAIN calls : calls[i].kind = "save" /\ calls[i].ended = "leaving"

\* A login page does not spin for ever.
SpinnerStops == isLoading ~> (~isLoading \/ "Login" \notin Range(stack))
=============================================================================
