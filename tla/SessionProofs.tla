--------------------------- MODULE SessionProofs ----------------------------
(***************************************************************************)
(* Type correctness and the safety properties of module Session, proved    *)
(* for any users and any number of calls of the handlers.                  *)
(***************************************************************************)
EXTENDS Session, CommonLemmas

-----------------------------------------------------------------------------
(***************************************************************************)
(* The type of the state, with one more page: the dialog that module CartX *)
(* puts on the stack, whose proofs use the lemmas of this module.          *)
(***************************************************************************)
Pages == StartPages \cup ShopPages \cup {"Dialog"}

StateTyped ==
  /\ stack \in Seq(Pages)
  /\ isLoading \in BOOLEAN
  /\ currentUser \in Users \cup {NoUser}
  /\ accounts \subseteq Users
  /\ profiles \subseteq accounts
  /\ calls \in Seq(Call)
  /\ Len(calls) <= MaxCalls

(***************************************************************************)
(* The inductive invariant.  The first part is about accounts: an account  *)
(* is created by one signup at most, which has written the profile in the  *)
(* phases from sentDoc on, unless it was refused.                          *)
(***************************************************************************)
Created == {"ok", "sentDoc", "docOk", "docError", "done", "past"}
Written == {"sentDoc", "docOk", "done", "past"}

IsSignup(i) == calls[i].kind = "signup"

CallUsers ==
  \A i \in DOMAIN calls :
    /\ calls[i].kind \in {"login", "signup"} => calls[i].user \in Users
    /\ calls[i].phase \in {"sentDoc", "docOk", "docError"} => IsSignup(i)

SignupsCreate ==
  \A i \in DOMAIN calls : IsSignup(i) =>
    /\ calls[i].phase \in Created => calls[i].user \in accounts
    /\ calls[i].phase \in Written => calls[i].user \in profiles

OneSignupPerAccount ==
  \A i, j \in DOMAIN calls :
    /\ IsSignup(i) /\ calls[i].phase \in Created
    /\ IsSignup(j) /\ calls[j].phase \in Created
    /\ calls[i].user = calls[j].user
    => i = j

AccountInv == /\ StateTyped /\ CallUsers /\ SignupsCreate /\ OneSignupPerAccount
              /\ MissingProfileHasCause

(***************************************************************************)
(* The second part is about the pages: what may be at the bottom of the    *)
(* stack, where the pages of the calls are, and that a handler ends once.  *)
(***************************************************************************)
Screens == {"Loading", "Error", "Splash"}
Bottoms == Screens \cup {"Login", "Home", "Category", "Cart", "Profile", "Dialog"}

StackShape ==
  /\ stack # <<>> => stack[1] \in Bottoms
  /\ \A j \in DOMAIN stack : j > 1 => stack[j] \notin Screens \cup {"Login"}

NothingRunsAtStart ==
  stack # <<>> /\ stack[1] \in Screens =>
    /\ Len(stack) = 1
    /\ ~isLoading
    /\ \A i \in DOMAIN calls : calls[i].host = "disposed" /\ calls[i].phase \in Ended

ShownOnStack ==
  \A i \in DOMAIN calls : calls[i].host = "shown" => PageOf(calls[i].kind) \in Range(stack)

EndsOnce ==
  \A i \in DOMAIN calls : calls[i].ended # "no" => calls[i].phase \in Ended

\* The logins under way that were tapped on a login page still there.
Spinning == {i \in DOMAIN calls : /\ calls[i].kind = "login" /\ calls[i].host = "shown"
                                  /\ calls[i].phase \notin Ended}

SpinnerInv ==
  /\ \A i, j \in Spinning : i = j
  /\ "Login" \in Range(stack) => (isLoading <=> Spinning # {})

\* A logout or a late login to blame, as SignedOutInShopHasCause says.
SignedOutCause ==
  \E i \in DOMAIN calls :
    \/ calls[i].kind = "logout" /\ (calls[i].phase = "ok" \/ calls[i].ended = "disposed")
    \/ calls[i].kind \in {"login", "signup"} /\ calls[i].ended = "leaving"

\* A sign-in that went through and will open the shop from its own page.
SignInShown ==
  \E i \in DOMAIN calls :
    /\ calls[i].kind \in {"login", "signup"} /\ calls[i].host = "shown"
    /\ calls[i].phase \in {"ok", "sentDoc", "docOk"}

SignedOutInv ==
  currentUser = NoUser /\ (OnStack(ShopPages) \/ SignInShown) => SignedOutCause

PageInv == /\ StackShape /\ NothingRunsAtStart /\ ShownOnStack /\ EndsOnce /\ SpinnerInv
           /\ ShopOnlyAfterSignIn /\ EmptyStackHasCause

SessionInv == AccountInv /\ PageInv

(***************************************************************************)
(* SignedOutInv is kept apart: module CartX has one more way into the shop *)
(* and keeps it only as long as that was not taken.                        *)
(***************************************************************************)
KeepsSignedOut == SignedOutInv => SignedOutInv'

-----------------------------------------------------------------------------
(***************************************************************************)
(* What the steps do.  Moved(cs, ds, i, ph, e, gone): the calls ds are cs  *)
(* after call i went on to phase ph with e in its field ended (no call did *)
(* if i = 0) and the pages in gone left the stack.  StackMoved(n, pg): the *)
(* first n pages stay, and pg comes on top unless it is "none".            *)
(***************************************************************************)
Moved(cs, ds, i, ph, e, gone) ==
  /\ ds \in Seq(Call) /\ Len(ds) = Len(cs) /\ DOMAIN ds = DOMAIN cs
  /\ \A j \in DOMAIN cs :
       /\ ds[j].kind = cs[j].kind
       /\ ds[j].user = cs[j].user
       /\ ds[j].phase = IF j = i THEN ph ELSE cs[j].phase
       /\ ds[j].ended = IF j = i THEN e ELSE cs[j].ended
       /\ ds[j].host = IF cs[j].host = "shown" /\ PageOf(cs[j].kind) \in gone
                         THEN "leaving" ELSE cs[j].host

StackMoved(n, pg) ==
  /\ n \in Nat /\ n <= Len(stack)
  /\ stack' \in Seq(Pages)
  /\ Len(stack') = IF pg = "none" THEN n ELSE n + 1
  /\ \A j \in 1..n : stack'[j] = stack[j]
  /\ pg # "none" => stack'[n + 1] = pg

\* The pages above the first n.
Above(n) == {stack[j] : j \in (n + 1)..Len(stack)}

\* The calls and pages of a state of the type.
LEMMA Typed ==
  ASSUME StateTyped
  PROVE  /\ \A i \in DOMAIN calls : calls[i] \in Call
         /\ DOMAIN calls = 1..Len(calls) /\ Len(calls) \in Nat
         /\ DOMAIN stack = 1..Len(stack) /\ Len(stack) \in Nat
         /\ \A j \in DOMAIN stack : stack[j] \in Pages
BY LenProperties, ElementOfSeq DEF StateTyped

\* A stack of one page.
LEMMA OnePage ==
  ASSUME NEW S, NEW pg \in S
  PROVE  /\ <<pg>> \in Seq(S) /\ Len(<<pg>>) = 1 /\ <<pg>>[1] = pg
         /\ DOMAIN <<pg>> = {1}
OBVIOUS

\* The pages a call is tapped on.
LEMMA PageOfIs ==
  /\ PageOf("login") = "Login" /\ PageOf("signup") = "Signup"
  /\ PageOf("logout") = "Profile" /\ PageOf("save") = "Edit"
BY DEF PageOf

\* The fields of a call.
LEMMA CallFields ==
  ASSUME NEW c \in Call
  PROVE  /\ c.kind \in {"login", "signup", "logout", "save"}
         /\ c.user \in Users \cup {NoUser}
         /\ c.phase \in {"sent", "ok", "error", "sentDoc", "docOk", "docError",
                          "done", "failed", "lost", "past"}
         /\ c.host \in {"shown", "leaving", "disposed"}
         /\ c.ended \in {"no", "shown", "leaving", "disposed"}
BY DEF Call

\* Pages that leave take the calls tapped on them along.
LEMMA LeavingMoves ==
  ASSUME NEW cs \in Seq(Call), NEW gone
  PROVE  Moved(cs, Leaving(cs, gone), 0, "sent", "no", gone)
<1>1. \A j \in DOMAIN cs : cs[j] \in Call /\ j # 0
  BY LenProperties, ElementOfSeq
<1>2. Leaving(cs, gone) = [j \in DOMAIN cs |-> Leaving(cs, gone)[j]]
  BY DEF Leaving
<1>3. \A j \in DOMAIN cs :
        /\ Leaving(cs, gone)[j] \in Call
        /\ Leaving(cs, gone)[j].kind = cs[j].kind
        /\ Leaving(cs, gone)[j].user = cs[j].user
        /\ Leaving(cs, gone)[j].phase = cs[j].phase
        /\ Leaving(cs, gone)[j].ended = cs[j].ended
        /\ Leaving(cs, gone)[j].host = IF cs[j].host = "shown" /\ PageOf(cs[j].kind) \in gone
                                       THEN "leaving" ELSE cs[j].host
  <2> SUFFICES ASSUME NEW j \in DOMAIN cs
               PROVE  /\ Leaving(cs, gone)[j] \in Call
                      /\ Leaving(cs, gone)[j].kind = cs[j].kind
                      /\ Leaving(cs, gone)[j].user = cs[j].user
                      /\ Leaving(cs, gone)[j].phase = cs[j].phase
                      /\ Leaving(cs, gone)[j].ended = cs[j].ended
                      /\ Leaving(cs, gone)[j].host =
                           IF cs[j].host = "shown" /\ PageOf(cs[j].kind) \in gone
                             THEN "leaving" ELSE cs[j].host
    OBVIOUS
  <2>1. Leaving(cs, gone)[j] = IF cs[j].host = "shown" /\ PageOf(cs[j].kind) \in gone
                                THEN [cs[j] EXCEPT !.host = "leaving"] ELSE cs[j]
    BY DEF Leaving
  <2>2. cs[j] \in Call
    BY <1>1
  <2>3. CASE cs[j].host = "shown" /\ PageOf(cs[j].kind) \in gone
    <3>1. Leaving(cs, gone)[j] = [cs[j] EXCEPT !.host = "leaving"]
      BY <2>1, <2>3
    <3>2. QED
      BY <2>2, <2>3, <3>1 DEF Call
  <2>4. CASE ~ (cs[j].host = "shown" /\ PageOf(cs[j].kind) \in gone)
    BY <2>1, <2>2, <2>4
  <2>5. QED
    BY <2>3, <2>4
<1>4. /\ Leaving(cs, gone) \in Seq(Call) /\ Len(Leaving(cs, gone)) = Len(cs)
      /\ DOMAIN Leaving(cs, gone) = DOMAIN cs
  BY <1>2, <1>3, EveryElementChanges
<1>5. QED
  BY <1>1, <1>3, <1>4 DEF Moved

\* A handler ends.
LEMMA OverMoves ==
  ASSUME StateTyped, NEW i \in DOMAIN calls, NEW ph \in Ended
  PROVE  Moved(calls, Over(i, ph), i, ph, calls[i].host, {})
<1>1. calls[i] \in Call
  BY Typed
<1> DEFINE c == [calls[i] EXCEPT !.phase = ph, !.ended = calls[i].host]
<1>2. /\ c \in Call /\ c.kind = calls[i].kind /\ c.user = calls[i].user
      /\ c.phase = ph /\ c.ended = calls[i].host /\ c.host = calls[i].host
  BY <1>1 DEF Call, Ended
<1>3. Over(i, ph) = [calls EXCEPT ![i] = c]
  BY DEF Over
<1> HIDE DEF c
<1>4. QED
  BY <1>2, <1>3, OneElementChanges DEF Moved, StateTyped

\* A call is answered, goes on to its second await, or is ended by an exception.
LEMMA AtMoves ==
  ASSUME StateTyped, NEW i \in DOMAIN calls,
         NEW ph \in {"ok", "error", "sentDoc", "docOk", "docError", "failed"}
  PROVE  Moved(calls, At(i, ph), i, ph, calls[i].ended, {})
<1>1. calls[i] \in Call
  BY Typed
<1> DEFINE c == [calls[i] EXCEPT !.phase = ph]
<1>2. /\ c \in Call /\ c.kind = calls[i].kind /\ c.user = calls[i].user
      /\ c.phase = ph /\ c.ended = calls[i].ended /\ c.host = calls[i].host
  BY <1>1 DEF Call
<1>3. At(i, ph) = [calls EXCEPT ![i] = c]
  BY DEF At
<1> HIDE DEF c
<1>4. QED
  BY <1>2, <1>3, OneElementChanges DEF Moved, StateTyped

\* A handler ends and takes pages off the stack.
LEMMA OverLeavingMoves ==
  ASSUME StateTyped, NEW i \in DOMAIN calls, NEW ph \in Ended, NEW gone
  PROVE  Moved(calls, Leaving(Over(i, ph), gone), i, ph, calls[i].host, gone)
<1>1. Moved(calls, Over(i, ph), i, ph, calls[i].host, {})
  BY OverMoves
<1>2. Over(i, ph) \in Seq(Call)
  BY <1>1 DEF Moved
<1>3. Moved(Over(i, ph), Leaving(Over(i, ph), gone), 0, "sent", "no", gone)
  BY <1>2, LeavingMoves
<1>4. i # 0 /\ \A j \in DOMAIN calls : j # 0
  BY Typed
<1>5. QED
  BY <1>1, <1>3, <1>4 DEF Moved

-----------------------------------------------------------------------------
(***************************************************************************)
(* The accounts.                                                           *)
(***************************************************************************)

\* A step that leaves the accounts alone and does not make a signup look
\* further than it is.
LEMMA AccountsKept ==
  ASSUME AccountInv, NEW i \in Nat, NEW ph, NEW e, NEW gone,
         Moved(calls, calls', i, ph, e, gone),
         accounts' = accounts, profiles' = profiles,
         i \in DOMAIN calls =>
           /\ ph \in {"sentDoc", "docOk", "docError"} => IsSignup(i)
           /\ IsSignup(i) =>
                /\ ph \in Created => calls[i].phase \in Created
                /\ ph \in Written => calls[i].phase \in Written
  PROVE  /\ CallUsers' /\ SignupsCreate' /\ OneSignupPerAccount' /\ MissingProfileHasCause'
<1>1. /\ CallUsers /\ SignupsCreate /\ OneSignupPerAccount /\ MissingProfileHasCause /\ StateTyped
  BY DEF AccountInv
<1>2. CallUsers'
  BY <1>1 DEF CallUsers, IsSignup, Moved
<1>3. SignupsCreate'
  BY <1>1 DEF SignupsCreate, IsSignup, Moved, Created, Written
<1>4. OneSignupPerAccount'
  BY <1>1 DEF OneSignupPerAccount, IsSignup, Moved
<1>5. MissingProfileHasCause'
  <2> SUFFICES ASSUME NEW u \in accounts \ profiles
               PROVE  \E k \in DOMAIN calls' :
                        /\ calls'[k].kind = "signup" /\ calls'[k].user = u
                        /\ calls'[k].phase \notin {"done", "past"}
    BY DEF MissingProfileHasCause
  <2>1. PICK k \in DOMAIN calls : /\ calls[k].kind = "signup" /\ calls[k].user = u
                                  /\ calls[k].phase \notin {"done", "past"}
    BY <1>1 DEF MissingProfileHasCause
  <2>2. calls[k].phase \notin Written
    BY <1>1, <2>1 DEF SignupsCreate, IsSignup
  <2>3. /\ k \in DOMAIN calls' /\ calls'[k].kind = "signup" /\ calls'[k].user = u
        /\ calls'[k].phase \notin {"done", "past"}
    BY <2>1, <2>2 DEF Moved, Written, IsSignup
  <2>4. QED
    BY <2>3
<1>6. QED
  BY <1>2, <1>3, <1>4, <1>5

\* A new call has created nothing.
LEMMA AccountsAfterTap ==
  ASSUME AccountInv, NEW kind \in {"login", "signup", "logout", "save"},
         NEW u \in Users \cup {NoUser}, kind \in {"login", "signup"} => u \in Users,
         Len(calls) < MaxCalls, calls' = Tapped(kind, u), accounts' = accounts, profiles' = profiles
  PROVE  /\ calls' \in Seq(Call) /\ Len(calls') <= MaxCalls
         /\ CallUsers' /\ SignupsCreate' /\ OneSignupPerAccount' /\ MissingProfileHasCause'
<1>1. /\ CallUsers /\ SignupsCreate /\ OneSignupPerAccount /\ MissingProfileHasCause /\ StateTyped
  BY DEF AccountInv
<1> DEFINE c == [kind |-> kind, user |-> u, phase |-> "sent", host |-> "shown", ended |-> "no"]
<1>2. c \in Call /\ c.kind = kind /\ c.user = u /\ c.phase = "sent"
  BY DEF Call
<1>3. calls' = Append(calls, c)
  BY DEF Tapped
<1> HIDE DEF c
<1>4. PICK k \in Nat : k = Len(calls) + 1
  BY <1>1, Typed
<1>5. /\ calls' \in Seq(Call) /\ Len(calls') = k /\ DOMAIN calls' = DOMAIN calls \cup {k}
      /\ k \notin DOMAIN calls
      /\ \A j \in DOMAIN calls : calls'[j] = calls[j]
      /\ calls'[k] = c
  <2>1. calls \in Seq(Call)
    BY <1>1 DEF StateTyped
  <2>2. QED
    BY <1>2, <1>3, <1>4, <2>1, OneElementIsAdded
<1>6. Len(calls') <= MaxCalls
  BY <1>1, <1>4, <1>5, MaxCallsAssumption, Typed
<1>7. CallUsers'
  BY <1>1, <1>2, <1>5 DEF CallUsers, IsSignup
<1>8. SignupsCreate'
  BY <1>1, <1>2, <1>5 DEF SignupsCreate, IsSignup, Created, Written
<1>9. OneSignupPerAccount'
  BY <1>1, <1>2, <1>5 DEF OneSignupPerAccount, IsSignup, Created
<1>10. MissingProfileHasCause'
  BY <1>1, <1>5 DEF MissingProfileHasCause
<1>11. QED
  BY <1>5, <1>6, <1>7, <1>8, <1>9, <1>10

\* createUserWithEmailAndPassword succeeds only for an address without account.
LEMMA AccountCreated ==
  ASSUME AccountInv, NEW i \in DOMAIN calls, IsSignup(i), calls[i].user \notin accounts,
         Moved(calls, calls', i, "ok", calls[i].ended, {}),
         accounts' = accounts \cup {calls[i].user}, profiles' = profiles
  PROVE  /\ CallUsers' /\ SignupsCreate' /\ OneSignupPerAccount' /\ MissingProfileHasCause'
<1>1. /\ CallUsers /\ SignupsCreate /\ OneSignupPerAccount /\ MissingProfileHasCause /\ StateTyped
  BY DEF AccountInv
<1>2. CallUsers'
  BY <1>1 DEF CallUsers, IsSignup, Moved
<1>3. SignupsCreate'
  BY <1>1 DEF SignupsCreate, IsSignup, Moved, Created, Written
<1>4. OneSignupPerAccount'
  BY <1>1 DEF OneSignupPerAccount, SignupsCreate, IsSignup, Moved
<1>5. MissingProfileHasCause'
  <2>1. \A u \in accounts \ profiles :
          \E k \in DOMAIN calls' : /\ calls'[k].kind = "signup" /\ calls'[k].user = u
                                   /\ calls'[k].phase \notin {"done", "past"}
    BY <1>1 DEF MissingProfileHasCause, Moved
  <2>2. /\ i \in DOMAIN calls' /\ calls'[i].kind = "signup" /\ calls'[i].user = calls[i].user
        /\ calls'[i].phase \notin {"done", "past"}
    BY DEF Moved, IsSignup
  <2>3. QED
    BY <2>1, <2>2 DEF MissingProfileHasCause
<1>6. QED
  BY <1>2, <1>3, <1>4, <1>5

\* A signup writes the profile of the account it has created.
LEMMA ProfileWritten ==
  ASSUME AccountInv, NEW i \in DOMAIN calls, IsSignup(i), calls[i].phase = "ok",
         Moved(calls, calls', i, "sentDoc", calls[i].ended, {}),
         accounts' = accounts, profiles' = profiles \cup {calls[i].user}
  PROVE  /\ CallUsers' /\ SignupsCreate' /\ OneSignupPerAccount' /\ MissingProfileHasCause'
         /\ profiles' \subseteq accounts
<1>1. /\ CallUsers /\ SignupsCreate /\ OneSignupPerAccount /\ MissingProfileHasCause /\ StateTyped
  BY DEF AccountInv
<1>2. CallUsers'
  BY <1>1 DEF CallUsers, IsSignup, Moved
<1>3. SignupsCreate'
  BY <1>1 DEF SignupsCreate, IsSignup, Moved, Created, Written
<1>4. OneSignupPerAccount'
  BY <1>1 DEF OneSignupPerAccount, IsSignup, Moved, Created
<1>5. MissingProfileHasCause'
  BY <1>1 DEF MissingProfileHasCause, Moved
<1>6. profiles' \subseteq accounts
  BY <1>1 DEF SignupsCreate, Created, StateTyped
<1>7. QED
  BY <1>2, <1>3, <1>4, <1>5, <1>6

\* Firestore refuses the profile: no other signup has created that account.
LEMMA ProfileTaken ==
  ASSUME AccountInv, NEW i \in DOMAIN calls, calls[i].phase = "sentDoc",
         Moved(calls, calls', i, "docError", calls[i].ended, {}),
         accounts' = accounts, profiles' = profiles \ {calls[i].user}
  PROVE  /\ CallUsers' /\ SignupsCreate' /\ OneSignupPerAccount' /\ MissingProfileHasCause'
<1>1. /\ CallUsers /\ SignupsCreate /\ OneSignupPerAccount /\ MissingProfileHasCause /\ StateTyped
  BY DEF AccountInv
<1>2. IsSignup(i)
  BY <1>1 DEF CallUsers
<1>3. CallUsers'
  BY <1>1, <1>2 DEF CallUsers, IsSignup, Moved
<1>4. SignupsCreate'
  BY <1>1, <1>2 DEF SignupsCreate, OneSignupPerAccount, IsSignup, Moved, Created, Written
<1>5. OneSignupPerAccount'
  BY <1>1, <1>2 DEF OneSignupPerAccount, IsSignup, Moved, Created
<1>6. MissingProfileHasCause'
  BY <1>1, <1>2 DEF MissingProfileHasCause, IsSignup, Moved
<1>7. QED
  BY <1>3, <1>4, <1>5, <1>6

\* A restart ends every handler and disposes of every page.
LEMMA RestartEnds ==
  ASSUME StateTyped, Restart
  PROVE  /\ calls' \in Seq(Call) /\ Len(calls') = Len(calls) /\ DOMAIN calls' = DOMAIN calls
         /\ \A j \in DOMAIN calls :
              /\ calls'[j].kind = calls[j].kind
              /\ calls'[j].user = calls[j].user
              /\ calls'[j].host = "disposed"
              /\ calls'[j].ended = calls[j].ended
              /\ calls'[j].phase = IF calls[j].phase = "done" THEN "past"
                                   ELSE IF calls[j].phase \in Ended THEN calls[j].phase ELSE "lost"
<1>1. \A j \in DOMAIN calls : calls[j] \in Call
  BY Typed
<1>2. calls' = [j \in DOMAIN calls |-> calls'[j]]
  BY DEF Restart
<1>3. \A j \in DOMAIN calls :
        calls'[j] = [calls[j] EXCEPT !.phase = IF calls[j].phase = "done" THEN "past"
                                               ELSE IF calls[j].phase \in Ended
                                                      THEN calls[j].phase ELSE "lost",
                                     !.host = "disposed"]
  BY DEF Restart
<1>4. \A j \in DOMAIN calls :
        /\ calls'[j] \in Call
        /\ calls'[j].kind = calls[j].kind
        /\ calls'[j].user = calls[j].user
        /\ calls'[j].host = "disposed"
        /\ calls'[j].ended = calls[j].ended
        /\ calls'[j].phase = IF calls[j].phase = "done" THEN "past"
                             ELSE IF calls[j].phase \in Ended THEN calls[j].phase ELSE "lost"
  <2>1. TAKE j \in DOMAIN calls
  <2> DEFINE ph == IF calls[j].phase = "done" THEN "past"
                   ELSE IF calls[j].phase \in Ended THEN calls[j].phase ELSE "lost"
  <2>2. calls[j] \in Call
    BY <1>1
  <2>3. ph \in Ended
    BY DEF Ended
  <2>4. calls'[j] = [calls[j] EXCEPT !.phase = ph, !.host = "disposed"]
    BY <1>3
  <2> HIDE DEF ph
  <2>5. /\ calls'[j] \in Call
        /\ calls'[j].kind = calls[j].kind
        /\ calls'[j].user = calls[j].user
        /\ calls'[j].host = "disposed"
        /\ calls'[j].ended = calls[j].ended
        /\ calls'[j].phase = ph
    BY <2>2, <2>3, <2>4 DEF Call, Ended
  <2>6. QED
    BY <2>5 DEF ph
<1>5. calls \in Seq(Call)
  BY DEF StateTyped
<1>6. PICK new : new = calls'
  OBVIOUS
<1>7. new \in Seq(Call) /\ Len(new) = Len(calls) /\ DOMAIN new = DOMAIN calls
  BY <1>2, <1>4, <1>5, <1>6, EveryElementChanges
<1>8. QED
  BY <1>4, <1>6, <1>7

\* A restart ends what was under way; what it had sent may still take effect.
LEMMA AccountsAfterRestart ==
  ASSUME AccountInv, Restart
  PROVE  /\ StateTyped'
         /\ CallUsers' /\ SignupsCreate' /\ OneSignupPerAccount' /\ MissingProfileHasCause'
<1>1. /\ CallUsers /\ SignupsCreate /\ OneSignupPerAccount /\ MissingProfileHasCause /\ StateTyped
  BY DEF AccountInv
<1>2. PICK late \in SUBSET InPhase("signup", "sent") : accounts' = accounts \cup late
  BY DEF Restart
<1>3. PICK refused \in SUBSET InPhase("signup", "sentDoc") : profiles' = profiles \ refused
  BY DEF Restart
<1>4. \A u \in late : \E k \in DOMAIN calls : /\ calls[k].kind = "signup" /\ calls[k].user = u
                                              /\ calls[k].phase = "sent"
  BY <1>2 DEF InPhase
<1>5. \A u \in refused : \E k \in DOMAIN calls : /\ calls[k].kind = "signup" /\ calls[k].user = u
                                                 /\ calls[k].phase = "sentDoc"
  BY <1>3 DEF InPhase
<1>6. /\ calls' \in Seq(Call) /\ Len(calls') = Len(calls) /\ DOMAIN calls' = DOMAIN calls
      /\ \A j \in DOMAIN calls :
           /\ calls'[j].kind = calls[j].kind
           /\ calls'[j].user = calls[j].user
           /\ calls'[j].phase = IF calls[j].phase = "done" THEN "past"
                                ELSE IF calls[j].phase \in Ended THEN calls[j].phase ELSE "lost"
  BY <1>1, RestartEnds
<1>7. StateTyped'
  <2>1. stack' \in Seq(Pages)
    BY OnePage DEF Restart, Pages, StartPages
  <2>2. accounts' \subseteq Users
    BY <1>1, <1>2, <1>4 DEF StateTyped, CallUsers
  <2>3. profiles' \subseteq accounts'
    BY <1>1, <1>2, <1>3 DEF StateTyped
  <2>4. isLoading' \in BOOLEAN /\ currentUser' \in Users \cup {NoUser}
    BY <1>1 DEF Restart, StateTyped
  <2>5. QED
    BY <1>1, <1>6, <2>1, <2>2, <2>3, <2>4 DEF StateTyped
<1>8. CallUsers'
  BY <1>1, <1>6 DEF CallUsers, IsSignup, Ended
<1>9. SignupsCreate'
  <2> SUFFICES ASSUME NEW i \in DOMAIN calls, calls[i].kind = "signup",
                      calls'[i].phase \in Created
               PROVE  calls[i].user \in accounts' /\ calls[i].user \in profiles'
    BY <1>6 DEF SignupsCreate, IsSignup, Created, Written
  <2>1. calls[i].phase \in Written /\ calls[i].phase \in Created /\ calls[i].phase # "sentDoc"
    BY <1>6 DEF Created, Written, Ended
  <2>2. calls[i].user \in accounts /\ calls[i].user \in profiles
    BY <1>1, <2>1 DEF SignupsCreate, IsSignup
  <2>3. calls[i].user \notin refused
    BY <1>1, <1>5, <2>1 DEF OneSignupPerAccount, IsSignup, Created
  <2>4. QED
    BY <1>2, <1>3, <2>2, <2>3
<1>10. OneSignupPerAccount'
  <2>1. \A i \in DOMAIN calls : calls'[i].phase \in Created => calls[i].phase \in Created
    BY <1>6 DEF Created, Ended
  <2>2. QED
    BY <1>1, <1>6, <2>1 DEF OneSignupPerAccount, IsSignup
<1>11. MissingProfileHasCause'
  <2> SUFFICES ASSUME NEW u \in accounts' \ profiles'
               PROVE  \E k \in DOMAIN calls' :
                        /\ calls'[k].kind = "signup" /\ calls'[k].user = u
                        /\ calls'[k].phase \notin {"done", "past"}
    BY DEF MissingProfileHasCause
  <2>1. \E k \in DOMAIN calls : /\ calls[k].kind = "signup" /\ calls[k].user = u
                                /\ calls[k].phase \notin {"done", "past"}
    BY <1>1, <1>2, <1>3, <1>4, <1>5 DEF MissingProfileHasCause
  <2>2. QED
    BY <1>6, <2>1 DEF Ended
<1>12. QED
  BY <1>7, <1>8, <1>9, <1>10, <1>11

-----------------------------------------------------------------------------
(***************************************************************************)
(* The pages.  Step(i, ph, e, n, pg) describes the steps that start no     *)
(* call: call i goes on (or none), and all but the first n pages leave for *)
(* pg (or for nothing).  The page is one that may come where it comes, and *)
(* start screens follow each other.                                        *)
(***************************************************************************)
Step(i, ph, e, n, pg) ==
  /\ i \in Nat
  /\ StackMoved(n, pg)
  /\ Moved(calls, calls', i, ph, e, Above(n))
  /\ i \in DOMAIN calls => calls[i].phase \notin Ended /\ (e = "no" \/ ph \in Ended)

PageFits(i, n, pg) ==
  /\ pg # "none" => IF n = 0 THEN pg \in Bottoms ELSE pg \notin Screens \cup {"Login"}
  /\ n > 0 => stack[1] \notin Screens
  /\ pg \in Screens => stack # <<>> /\ stack[1] \in Screens /\ i = 0 /\ ~isLoading'

MayEmpty(i, e, n, pg) ==
  n = 0 /\ pg = "none" =>
    \/ Len(stack) = 0
    \/ i \in DOMAIN calls /\ calls[i].kind = "save" /\ e = "leaving"

\* What it means to be on the stack.
LEMMA InRange == \A s, x : x \in Range(s) <=> \E j \in DOMAIN s : s[j] = x
BY DEF Range

\* Nothing happens to the stack.
LEMMA StaysOnStack ==
  ASSUME StateTyped, UNCHANGED stack
  PROVE  StackMoved(Len(stack), "none") /\ Above(Len(stack)) = {}
BY Typed DEF StackMoved, Above, StateTyped

\* pushAndRemoveUntil: one page takes the place of all.
LEMMA RemovesAll ==
  ASSUME StateTyped, NEW pg \in Pages, pg # "none", stack' = <<pg>>
  PROVE  StackMoved(0, pg) /\ Above(0) = Range(stack)
<1>1. Above(0) = Range(stack)
  BY Typed DEF Above, Range
<1>2. QED
  BY <1>1, Typed, OnePage DEF StackMoved

\* push: a page comes on top.
LEMMA Pushes ==
  ASSUME StateTyped, NEW pg \in Pages, pg # "none", stack' = Append(stack, pg)
  PROVE  StackMoved(Len(stack), pg) /\ Above(Len(stack)) = {}
<1>1. stack \in Seq(Pages)
  BY DEF StateTyped
<1>2. QED
  BY <1>1, Typed, OneElementIsAdded DEF StackMoved, Above

\* All pages but the one on top.
LEMMA FrontIs ==
  ASSUME NEW S, NEW s \in Seq(S), s # <<>>
  PROVE  /\ Front(s) \in Seq(S) /\ Len(s) - 1 \in Nat /\ Len(Front(s)) = Len(s) - 1
         /\ \A j \in 1..(Len(s) - 1) : Front(s)[j] = s[j]
<1>1. Len(s) \in Nat /\ Len(s) > 0 /\ DOMAIN s = 1..Len(s)
  BY LenProperties, EmptySeq
<1>2. \A j \in 1..(Len(s) - 1) : s[j] \in S
  BY <1>1, ElementOfSeq
<1> DEFINE n == Len(s) - 1
<1>3. n \in Nat
  BY <1>1
<1>4. /\ SubSeq(s, 1, n) \in Seq(S)
      /\ Len(SubSeq(s, 1, n)) = IF 1 <= n THEN n - 1 + 1 ELSE 0
      /\ \A j \in 1 .. n - 1 + 1 : SubSeq(s, 1, n)[j] = s[1 + j - 1]
  BY <1>2, <1>3, SubSeqProperties
<1>5. Front(s) = SubSeq(s, 1, n)
  BY DEF Front
<1>6. PICK f : f = SubSeq(s, 1, n)
  OBVIOUS
<1>7. f \in Seq(S) /\ Len(f) = n /\ \A j \in 1..n : f[j] = s[j]
  <2> HIDE DEF n
  <2> QED
    BY <1>3, <1>4, <1>6
<1>8. QED
  BY <1>3, <1>5, <1>6, <1>7

\* pop: the page on top leaves.
LEMMA Pops ==
  ASSUME StateTyped, stack # <<>>, stack' = Front(stack)
  PROVE  StackMoved(Len(stack) - 1, "none") /\ Above(Len(stack) - 1) = {Top}
<1>1. stack \in Seq(Pages)
  BY DEF StateTyped
<1>2. Len(stack) - 1 \in Nat
  BY <1>1, FrontIs
<1>3. Above(Len(stack) - 1) = {Top}
  BY <1>2, Typed DEF Above, Top
<1>4. QED
  BY <1>1, <1>2, <1>3, FrontIs DEF StackMoved

\* pushReplacement: the page on top leaves for another.
LEMMA ReplacesTop ==
  ASSUME StateTyped, stack # <<>>, NEW pg \in Pages, pg # "none",
         stack' = Append(Front(stack), pg)
  PROVE  StackMoved(Len(stack) - 1, pg) /\ Above(Len(stack) - 1) = {Top}
<1>1. stack \in Seq(Pages)
  BY DEF StateTyped
<1>2. Len(stack) - 1 \in Nat
  BY <1>1, FrontIs
<1>3. Above(Len(stack) - 1) = {Top}
  BY <1>2, Typed DEF Above, Top
<1>4. /\ Front(stack) \in Seq(Pages) /\ Len(Front(stack)) = Len(stack) - 1
      /\ \A j \in 1..(Len(stack) - 1) : Front(stack)[j] = stack[j]
  BY <1>1, FrontIs
<1>5. /\ stack' \in Seq(Pages) /\ Len(stack') = Len(stack)
      /\ \A j \in 1..(Len(stack) - 1) : stack'[j] = Front(stack)[j]
      /\ stack'[Len(stack)] = pg
  BY <1>2, <1>4, OneElementIsAdded
<1>6. QED
  BY <1>2, <1>3, <1>4, <1>5 DEF StackMoved

\* Of the pages: the shape of the stack, and where the calls' pages are.
LEMMA PagesKept ==
  ASSUME SessionInv, NEW i, NEW ph, NEW e, NEW n, NEW pg,
         Step(i, ph, e, n, pg), PageFits(i, n, pg)
  PROVE  StackShape' /\ NothingRunsAtStart' /\ ShownOnStack' /\ EndsOnce'
<1>1. /\ StateTyped /\ StackShape /\ NothingRunsAtStart /\ ShownOnStack /\ EndsOnce
  BY DEF SessionInv, AccountInv, PageInv
<1>2. /\ n \in Nat /\ n <= Len(stack) /\ stack' \in Seq(Pages)
      /\ Len(stack') = IF pg = "none" THEN n ELSE n + 1
      /\ \A j \in 1..n : stack'[j] = stack[j]
      /\ pg # "none" => stack'[n + 1] = pg
  BY DEF Step, StackMoved
<1>3. /\ DOMAIN stack = 1..Len(stack) /\ Len(stack) \in Nat
      /\ DOMAIN stack' = 1..Len(stack') /\ Len(stack') \in Nat
  BY <1>1, <1>2, Typed, LenProperties
<1>4. (stack' # <<>> => Len(stack') > 0) /\ (stack # <<>> <=> Len(stack) > 0)
  BY <1>1, <1>2, EmptySeq DEF StateTyped
<1>5. StackShape'
  BY <1>1, <1>2, <1>3, <1>4 DEF StackShape, PageFits, Bottoms, Screens
<1>6. NothingRunsAtStart'
  <2> SUFFICES ASSUME stack' # <<>>, stack'[1] \in Screens
               PROVE  /\ Len(stack') = 1 /\ ~isLoading'
                      /\ \A j \in DOMAIN calls' : /\ calls'[j].host = "disposed"
                                                  /\ calls'[j].phase \in Ended
    BY DEF NothingRunsAtStart
  <2>1. n = 0 /\ pg \in Screens /\ Len(stack') = 1
    BY <1>2, <1>3, <1>4 DEF PageFits
  <2>2. /\ i = 0 /\ ~isLoading'
        /\ \A j \in DOMAIN calls : calls[j].host = "disposed" /\ calls[j].phase \in Ended
    BY <1>1, <2>1 DEF PageFits, NothingRunsAtStart
  <2>3. \A j \in DOMAIN calls : j # 0
    BY <1>1, Typed
  <2>4. QED
    BY <2>1, <2>2, <2>3 DEF Step, Moved
<1>7. ShownOnStack'
  <2> SUFFICES ASSUME NEW j \in DOMAIN calls, calls'[j].host = "shown"
               PROVE  PageOf(calls[j].kind) \in Range(stack')
    BY DEF ShownOnStack, Step, Moved
  <2>1. calls[j].host = "shown" /\ PageOf(calls[j].kind) \notin Above(n)
    BY DEF Step, Moved
  <2>2. PICK k \in DOMAIN stack : stack[k] = PageOf(calls[j].kind)
    BY <1>1, <2>1, InRange DEF ShownOnStack
  <2>3. k \in 1..n
    BY <1>2, <1>3, <2>1, <2>2 DEF Above
  <2>4. k \in DOMAIN stack' /\ stack'[k] = PageOf(calls[j].kind)
    BY <1>2, <1>3, <2>2, <2>3
  <2>5. QED
    BY <2>4, InRange
<1>8. EndsOnce'
  BY <1>1 DEF EndsOnce, Step, Moved
<1>9. QED
  BY <1>5, <1>6, <1>7, <1>8

\* All pages are above none.
LEMMA RangeIsAbove ==
  ASSUME StateTyped
  PROVE  Above(0) = Range(stack)
BY Typed DEF Above, Range

\* A step that opens no page of the shop leads to none.
LEMMA NoNewShop ==
  ASSUME StateTyped, NEW n, NEW pg, StackMoved(n, pg), pg \notin ShopPages, OnStack(ShopPages)'
  PROVE  OnStack(ShopPages)
<1>1. PICK x \in ShopPages : x \in Range(stack')
  BY DEF OnStack
<1>2. PICK j \in DOMAIN stack' : stack'[j] = x
  BY <1>1, InRange
<1>3. DOMAIN stack' = 1..Len(stack') /\ DOMAIN stack = 1..Len(stack) /\ Len(stack) \in Nat
  BY Typed, LenProperties DEF StackMoved
<1>4. j \in DOMAIN stack /\ stack[j] = x
  BY <1>2, <1>3 DEF StackMoved
<1>5. x \in Range(stack)
  BY <1>4, InRange
<1>6. QED
  BY <1>5 DEF OnStack

\* When all pages leave, the new one is all there is.
LEMMA OnlyNewPage ==
  ASSUME StateTyped, NEW n, NEW pg, StackMoved(n, pg), OnStack(ShopPages)'
  PROVE  n > 0 \/ pg \in ShopPages
<1>1. PICK x \in ShopPages : x \in Range(stack')
  BY DEF OnStack
<1>2. PICK j \in DOMAIN stack' : stack'[j] = x
  BY <1>1, InRange
<1>3. DOMAIN stack' = 1..Len(stack')
  BY LenProperties DEF StackMoved
<1>4. n = 0 => j = 1 /\ pg # "none"
  BY <1>2, <1>3 DEF StackMoved
<1>5. QED
  BY <1>1, <1>2, <1>4 DEF StackMoved

\* While login pages and spinning logins keep apart from what leaves, the
\* spinner goes on, and it stops with the login it is of.
LEMMA SpinnerKept ==
  ASSUME SessionInv, NEW i, NEW ph, NEW e, NEW n, NEW pg,
         Step(i, ph, e, n, pg),
         n > 0 => isLoading' = (isLoading /\ ~ (i \in Spinning /\ ph \in Ended)),
         pg = "Login" => n = 0 /\ ~isLoading'
  PROVE  SpinnerInv'
<1>1. /\ StateTyped /\ StackShape /\ ShownOnStack /\ SpinnerInv
  BY DEF SessionInv, AccountInv, PageInv
<1>2. /\ n \in Nat /\ n <= Len(stack) /\ stack' \in Seq(Pages)
      /\ Len(stack') = IF pg = "none" THEN n ELSE n + 1
      /\ \A j \in 1..n : stack'[j] = stack[j]
      /\ pg # "none" => stack'[n + 1] = pg
  BY DEF Step, StackMoved
<1>3. /\ DOMAIN stack = 1..Len(stack) /\ Len(stack) \in Nat
      /\ DOMAIN stack' = 1..Len(stack') /\ Len(stack') \in Nat
  BY <1>1, <1>2, Typed, LenProperties
<1>4. \A j \in DOMAIN calls : calls[j].kind = "login" => PageOf(calls[j].kind) = "Login"
  BY PageOfIs
<1>5. \A j : j \in Spinning' <=> /\ j \in Spinning /\ "Login" \notin Above(n)
                                 /\ ~ (j = i /\ ph \in Ended)
  <2>1. DOMAIN calls' = DOMAIN calls
    BY DEF Step, Moved
  <2>2. ASSUME NEW j \in DOMAIN calls
        PROVE  j \in Spinning' <=> /\ j \in Spinning /\ "Login" \notin Above(n)
                                   /\ ~ (j = i /\ ph \in Ended)
    <3>1. /\ calls'[j].kind = calls[j].kind
          /\ calls'[j].phase = IF j = i THEN ph ELSE calls[j].phase
          /\ calls'[j].host = IF calls[j].host = "shown" /\ PageOf(calls[j].kind) \in Above(n)
                               THEN "leaving" ELSE calls[j].host
      BY DEF Step, Moved
    <3>2. j = i => calls[j].phase \notin Ended
      BY DEF Step
    <3>3. j \in Spinning' <=> /\ calls'[j].kind = "login" /\ calls'[j].host = "shown"
                              /\ calls'[j].phase \notin Ended
      BY <2>1 DEF Spinning
    <3>4. j \in Spinning <=> /\ calls[j].kind = "login" /\ calls[j].host = "shown"
                             /\ calls[j].phase \notin Ended
      BY DEF Spinning
    <3>5. QED
      BY <1>4, <3>1, <3>2, <3>3, <3>4
  <2>3. \A j : (j \in Spinning' => j \in DOMAIN calls) /\ (j \in Spinning => j \in DOMAIN calls)
    BY <2>1 DEF Spinning
  <2>4. QED
    BY <2>2, <2>3
<1>6. \A j, k \in Spinning' : j = k
  BY <1>1, <1>5 DEF SpinnerInv
<1>7. ASSUME "Login" \in Range(stack') PROVE isLoading' <=> Spinning' # {}
  <2>1. PICK m \in DOMAIN stack' : stack'[m] = "Login"
    BY <1>7, InRange
  <2>2. CASE m \in 1..n
    <3>1. m \in DOMAIN stack /\ stack[m] = "Login" /\ "Login" \in Range(stack) /\ n > 0
      BY <1>2, <1>3, <2>1, <2>2, InRange
    <3>2. "Login" \notin Above(n)
      BY <1>1, <1>2, <1>3, <3>1 DEF Above, StackShape
    <3>3. isLoading <=> Spinning # {}
      BY <1>1, <3>1 DEF SpinnerInv
    <3>4. isLoading' = (isLoading /\ ~ (i \in Spinning /\ ph \in Ended))
      BY <3>1
    <3>5. CASE i \in Spinning /\ ph \in Ended
      BY <1>1, <1>5, <3>4, <3>5 DEF SpinnerInv
    <3>6. CASE ~ (i \in Spinning /\ ph \in Ended)
      BY <1>5, <3>2, <3>3, <3>4, <3>6
    <3>7. QED
      BY <3>5, <3>6
  <2>3. CASE m \notin 1..n
    <3>1. pg = "Login"
      BY <1>2, <1>3, <2>1, <2>3
    <3>2. n = 0 /\ ~isLoading'
      BY <3>1
    <3>3. Spinning = {} \/ "Login" \in Above(n)
      <4> SUFFICES ASSUME NEW j \in Spinning PROVE "Login" \in Above(n)
        OBVIOUS
      <4>1. "Login" \in Range(stack)
        BY <1>1, <1>4 DEF Spinning, ShownOnStack
      <4>2. QED
        BY <1>3, <3>2, <4>1, InRange DEF Above
    <3>4. Spinning' = {}
      BY <1>5, <3>3
    <3>5. QED
      BY <3>2, <3>4
  <2>4. QED
    BY <2>2, <2>3
<1>8. QED
  BY <1>6, <1>7 DEF SpinnerInv

\* Who has opened the shop stays known, and the shop only opens from a page
\* of the shop or at the end of a sign-in.
LEMMA ShopKept ==
  ASSUME SessionInv, NEW i, NEW ph, NEW e, NEW n, NEW pg,
         Step(i, ph, e, n, pg),
         pg \in ShopPages =>
           \/ OnStack(ShopPages)
           \/ i \in DOMAIN calls /\ calls[i].kind \in {"login", "signup"} /\ ph = "done"
  PROVE  ShopOnlyAfterSignIn'
<1>1. ShopOnlyAfterSignIn /\ StateTyped
  BY DEF SessionInv, AccountInv, PageInv
<1>2. DOMAIN calls' = DOMAIN calls
  BY DEF Step, Moved
<1>3. \A j \in DOMAIN calls : /\ calls'[j].kind = calls[j].kind
                              /\ calls[j].phase = "done" => calls'[j].phase = "done"
  BY DEF Step, Moved, Ended
<1>4. CASE OnStack(ShopPages)
  BY <1>1, <1>2, <1>3, <1>4 DEF ShopOnlyAfterSignIn
<1>5. CASE ~OnStack(ShopPages) /\ pg \in ShopPages
  BY <1>2, <1>5 DEF ShopOnlyAfterSignIn, Step, Moved
<1>6. CASE ~OnStack(ShopPages) /\ pg \notin ShopPages
  BY <1>1, <1>6, NoNewShop DEF ShopOnlyAfterSignIn, Step
<1>7. QED
  BY <1>4, <1>5, <1>6

\* The navigator stays without pages, or loses the last to a late save.
LEMMA EmptyKept ==
  ASSUME SessionInv, NEW i, NEW ph, NEW e, NEW n \in Nat, NEW pg,
         Step(i, ph, e, n, pg),
         MayEmpty(i, e, n, pg)
  PROVE  EmptyStackHasCause'
<1>1. EmptyStackHasCause /\ StateTyped /\ EndsOnce
  BY DEF SessionInv, AccountInv, PageInv
<1>2. DOMAIN calls' = DOMAIN calls
  BY DEF Step, Moved
<1>3. \A j \in DOMAIN calls : /\ calls'[j].kind = calls[j].kind
                              /\ calls[j].ended # "no" => calls'[j].ended = calls[j].ended
  BY <1>1 DEF Step, Moved, EndsOnce
<1>4. stack' = <<>> => n = 0 /\ pg = "none"
  BY EmptySeq DEF Step, StackMoved
<1>5. CASE stack = <<>>
  BY <1>1, <1>2, <1>3, <1>5 DEF EmptyStackHasCause
<1>6. CASE stack # <<>>
  <2>1. Len(stack) # 0
    BY <1>1, <1>6, EmptySeq DEF StateTyped
  <2>2. QED
    BY <1>2, <1>4, <2>1 DEF EmptyStackHasCause, Step, Moved, MayEmpty
<1>7. QED
  BY <1>5, <1>6

\* Who is signed out keeps away from the shop or has a cause to be there.
LEMMA SignedOutKept ==
  ASSUME SessionInv, NEW i, NEW ph, NEW e, NEW n, NEW pg,
         Step(i, ph, e, n, pg),
         currentUser' = currentUser,
         pg \in ShopPages =>
           \/ OnStack(ShopPages) \/ SignInShown
           \/ i \in DOMAIN calls /\ calls[i].kind \in {"login", "signup"} /\ e = "leaving",
         i \in DOMAIN calls =>
           /\ calls[i].kind = "logout" /\ calls[i].phase = "ok" =>
                e = "disposed" \/ (n = 0 /\ pg \notin ShopPages)
           /\ calls[i].kind \in {"login", "signup"} /\ ph \in {"ok", "sentDoc", "docOk"} =>
                calls[i].phase \in {"ok", "sentDoc", "docOk"}
  PROVE  KeepsSignedOut
<1> SUFFICES ASSUME SignedOutInv PROVE SignedOutInv'
  BY DEF KeepsSignedOut
<1>1. StateTyped /\ EndsOnce /\ ShownOnStack
  BY DEF SessionInv, AccountInv, PageInv
<1>2. DOMAIN calls' = DOMAIN calls
  BY DEF Step, Moved
<1>3. \A j \in DOMAIN calls : /\ calls'[j].kind = calls[j].kind
                              /\ calls[j].ended # "no" => calls'[j].ended = calls[j].ended
                              /\ j # i => calls'[j].phase = calls[j].phase
  BY <1>1 DEF Step, Moved, EndsOnce
<1>4. SignInShown' => SignInShown /\ n > 0
  <2> SUFFICES ASSUME SignInShown' PROVE SignInShown /\ n > 0
    OBVIOUS
  <2>1. PICK j \in DOMAIN calls : /\ calls'[j].kind \in {"login", "signup"}
                                  /\ calls'[j].host = "shown"
                                  /\ calls'[j].phase \in {"ok", "sentDoc", "docOk"}
    BY <1>2 DEF SignInShown
  <2>2. /\ calls[j].kind \in {"login", "signup"}
        /\ calls[j].host = "shown" /\ PageOf(calls[j].kind) \notin Above(n)
        /\ calls[j].phase \in {"ok", "sentDoc", "docOk"}
    BY <1>3, <2>1 DEF Step, Moved
  <2>3. PageOf(calls[j].kind) \in Range(stack)
    BY <1>1, <2>2 DEF ShownOnStack
  <2>4. n # 0
    BY <1>1, <2>2, <2>3, Typed, RangeIsAbove
  <2>5. QED
    BY <2>2, <2>4 DEF SignInShown, Step, StackMoved
<1>5. SUFFICES ASSUME currentUser = NoUser, OnStack(ShopPages)' \/ SignInShown'
               PROVE  SignedOutCause'
  BY DEF SignedOutInv
<1>6. CASE i \in DOMAIN calls /\ calls[i].kind \in {"login", "signup"} /\ e = "leaving"
  BY <1>2, <1>6 DEF SignedOutCause, Step, Moved
<1>7. CASE ~ (i \in DOMAIN calls /\ calls[i].kind \in {"login", "signup"} /\ e = "leaving")
  <2>1. OnStack(ShopPages) \/ SignInShown
    BY <1>1, <1>4, <1>5, <1>7, NoNewShop DEF Step
  <2>2. SignedOutCause
    BY <1>5, <2>1 DEF SignedOutInv
  <2>3. PICK k \in DOMAIN calls :
          \/ calls[k].kind = "logout" /\ (calls[k].phase = "ok" \/ calls[k].ended = "disposed")
          \/ calls[k].kind \in {"login", "signup"} /\ calls[k].ended = "leaving"
    BY <2>2 DEF SignedOutCause
  <2>4. CASE k = i /\ calls[k].kind = "logout" /\ calls[k].phase = "ok"
    <3>1. OnStack(ShopPages)' \/ n > 0
      BY <1>4, <1>5
    <3>2. n > 0 \/ pg \in ShopPages
      BY <1>1, <3>1, OnlyNewPage DEF Step
    <3>3. e = "disposed"
      BY <2>4, <3>2 DEF Step, StackMoved
    <3>4. QED
      BY <1>2, <1>3, <2>4, <3>3 DEF SignedOutCause, Step, Moved
  <2>5. CASE ~ (k = i /\ calls[k].kind = "logout" /\ calls[k].phase = "ok")
    BY <1>2, <1>3, <2>3, <2>5 DEF SignedOutCause
  <2>6. QED
    BY <2>4, <2>5
<1>8. QED
  BY <1>6, <1>7

\* The app is past its start screens once a call is under way.
LEMMA PastStart ==
  ASSUME SessionInv, NEW i \in DOMAIN calls,
         calls[i].phase \notin Ended \/ calls[i].host # "disposed", stack # <<>>
  PROVE  stack[1] \notin Screens
BY DEF SessionInv, PageInv, NothingRunsAtStart

\* A page that is no start screen has none below it.
LEMMA NoScreenBelow ==
  ASSUME SessionInv, stack # <<>>, Top \notin Screens
  PROVE  stack[1] \notin Screens
BY DEF SessionInv, PageInv, NothingRunsAtStart, Top

\* A call under way has not ended.
LEMMA NotEndedYet ==
  ASSUME SessionInv, NEW i \in DOMAIN calls, calls[i].phase \notin Ended
  PROVE  calls[i].ended = "no" /\ i \in Nat
BY Typed DEF SessionInv, AccountInv, PageInv, EndsOnce

\* A call is answered, or goes on to its second await.
LEMMA AnswerKeepsPages ==
  ASSUME SessionInv, NEW i \in DOMAIN calls, calls[i].phase \notin Ended,
         NEW ph \in {"ok", "error", "sentDoc", "docOk", "docError", "failed"},
         ph = "failed" => calls[i].kind # "login",
         calls' = At(i, ph), UNCHANGED <<stack, isLoading>>
  PROVE  /\ Step(i, ph, "no", Len(stack), "none")
         /\ StackShape' /\ NothingRunsAtStart' /\ ShownOnStack' /\ EndsOnce'
         /\ SpinnerInv' /\ ShopOnlyAfterSignIn' /\ EmptyStackHasCause'
<1>1. StateTyped
  BY DEF SessionInv, AccountInv
<1>2. PICK n \in Nat : n = Len(stack)
  BY <1>1, Typed
<1>3. StackMoved(n, "none") /\ Above(n) = {}
  BY <1>1, <1>2, StaysOnStack
<1>4. Moved(calls, calls', i, ph, "no", Above(n))
  BY <1>1, <1>3, AtMoves, NotEndedYet
<1>5. Step(i, ph, "no", n, "none")
  BY <1>3, <1>4, NotEndedYet DEF Step
<1>6. n > 0 => stack[1] \notin Screens
  BY <1>1, <1>2, PastStart, EmptySeq
<1>7. MayEmpty(i, "no", n, "none")
  BY <1>2 DEF MayEmpty
<1>8. StackShape' /\ NothingRunsAtStart' /\ ShownOnStack' /\ EndsOnce'
  BY <1>5, <1>6, PagesKept DEF PageFits, Screens
<1>9. SpinnerInv'
  <2>1. ~ (i \in Spinning /\ ph \in Ended) /\ isLoading' = isLoading /\ isLoading \in BOOLEAN
    BY <1>1 DEF Spinning, Ended, StateTyped
  <2>2. QED
    BY <1>5, <2>1, SpinnerKept
<1>10. ShopOnlyAfterSignIn'
  BY <1>5, ShopKept DEF ShopPages
<1>11. EmptyStackHasCause'
  BY <1>5, <1>7, EmptyKept
<1>12. QED
  BY <1>2, <1>5, <1>8, <1>9, <1>10, <1>11

\* A handler ends and leaves the pages alone.
LEMMA EndKeepsPages ==
  ASSUME SessionInv, NEW i \in DOMAIN calls, calls[i].phase \notin Ended,
         NEW ph \in {"done", "failed"},
         calls' = Over(i, ph), UNCHANGED <<stack, currentUser>>,
         isLoading' = (isLoading /\ ~ (i \in Spinning)),
         calls[i].kind = "logout" => calls[i].host = "disposed"
  PROVE  PageInv' /\ KeepsSignedOut
<1>1. StateTyped
  BY DEF SessionInv, AccountInv
<1>2. PICK n \in Nat : n = Len(stack)
  BY <1>1, Typed
<1>3. StackMoved(n, "none") /\ Above(n) = {}
  BY <1>1, <1>2, StaysOnStack
<1>4. ph \in Ended
  BY DEF Ended
<1>5. Moved(calls, calls', i, ph, calls[i].host, Above(n))
  BY <1>1, <1>3, <1>4, OverMoves
<1>6. PICK h : h = calls[i].host
  OBVIOUS
<1>7. Step(i, ph, h, n, "none")
  BY <1>3, <1>4, <1>5, <1>6, NotEndedYet DEF Step
<1>8. n > 0 => stack[1] \notin Screens
  BY <1>1, <1>2, PastStart, EmptySeq
<1>9. MayEmpty(i, h, n, "none")
  BY <1>2 DEF MayEmpty
<1>10. StackShape' /\ NothingRunsAtStart' /\ ShownOnStack' /\ EndsOnce'
  BY <1>7, <1>8, PagesKept DEF PageFits, Screens
<1>11. SpinnerInv'
  BY <1>4, <1>7, SpinnerKept
<1>12. ShopOnlyAfterSignIn'
  BY <1>7, ShopKept DEF ShopPages
<1>13. EmptyStackHasCause'
  BY <1>7, <1>9, EmptyKept
<1>14. KeepsSignedOut
  BY <1>6, <1>7, SignedOutKept DEF ShopPages
<1>15. QED
  BY <1>10, <1>11, <1>12, <1>13, <1>14 DEF PageInv

\* The page on top is on the stack.
LEMMA TopOnStack ==
  ASSUME StateTyped, Len(stack) > 0, NEW pgs, Top \in pgs
  PROVE  OnStack(pgs)
<1>1. Len(stack) \in DOMAIN stack
  BY Typed
<1>2. Top \in Range(stack)
  BY <1>1, InRange DEF Top
<1>3. QED
  BY <1>2 DEF OnStack

\* Below the top there is a number of pages.
LEMMA PredIsNat ==
  ASSUME NEW m \in Nat, m > 0
  PROVE  \E n \in Nat : n = m - 1
<1>1. m - 1 \in Nat
  OBVIOUS
<1>2. QED
  BY <1>1

\* A step in which no call goes on does not touch the spinner.
LEMMA SpinnerStays ==
  ASSUME SessionInv, NEW n \in Nat, NEW pg, Step(0, "sent", "no", n, pg),
         n > 0 => isLoading' = isLoading,
         pg = "Login" => n = 0 /\ ~isLoading',
         n = 0 => pg # "none"
  PROVE  SpinnerInv'
<1>1. 0 \notin DOMAIN calls /\ isLoading \in BOOLEAN
  BY Typed DEF SessionInv, AccountInv, StateTyped
<1>2. 0 \notin Spinning
  BY <1>1 DEF Spinning
<1>3. isLoading = (isLoading /\ ~ (0 \in Spinning /\ "sent" \in Ended))
  BY <1>1, <1>2
<1>4. n > 0 => isLoading' = (isLoading /\ ~ (0 \in Spinning /\ "sent" \in Ended))
  BY <1>3
<1>5. QED
  BY <1>4, SpinnerKept

\* A step that moves pages only, of a user who has a page of the shop before
\* him if he gets to one.
LEMMA NavigationKeepsPages ==
  ASSUME SessionInv, NEW n \in Nat, NEW pg, StackMoved(n, pg),
         Moved(calls, calls', 0, "sent", "no", Above(n)),
         currentUser' = currentUser,
         n > 0 => isLoading' = isLoading,
         pg = "Login" => n = 0 /\ ~isLoading',
         PageFits(0, n, pg),
         n = 0 => pg # "none",
         pg \in ShopPages => OnStack(ShopPages)
  PROVE  PageInv' /\ KeepsSignedOut
<1>1. StateTyped
  BY DEF SessionInv, AccountInv
<1>2. 0 \notin DOMAIN calls
  BY <1>1, Typed
<1>3. Step(0, "sent", "no", n, pg)
  BY <1>2 DEF Step
<1>4. StackShape' /\ NothingRunsAtStart' /\ ShownOnStack' /\ EndsOnce'
  BY <1>3, PagesKept
<1>5. SpinnerInv'
  BY <1>1, <1>2, <1>3, SpinnerStays
<1>6. ShopOnlyAfterSignIn'
  BY <1>3, ShopKept
<1>7. EmptyStackHasCause'
  BY <1>3, EmptyKept DEF MayEmpty
<1>8. KeepsSignedOut
  BY <1>2, <1>3, SignedOutKept
<1>9. QED
  BY <1>4, <1>5, <1>6, <1>7, <1>8 DEF PageInv

\* The start screens follow each other while nothing is under way.
LEMMA FirebaseReadyKeepsPages ==
  ASSUME SessionInv, NEW ok \in BOOLEAN, FirebaseReady(ok)
  PROVE  PageInv' /\ KeepsSignedOut
<1>1. StateTyped /\ StackShape /\ NothingRunsAtStart
  BY DEF SessionInv, AccountInv, PageInv
<1>2. PICK pg \in {"Splash", "Error"} : stack' = <<pg>>
  BY DEF FirebaseReady
<1>3. StackMoved(0, pg)
  BY <1>1, <1>2, RemovesAll DEF Pages, StartPages
<1>4. stack # <<>> /\ stack[1] \in Screens
  BY <1>1, Typed, EmptySeq DEF FirebaseReady, On, Top, StackShape, Screens, StateTyped
<1>5. ~isLoading /\ \A j \in DOMAIN calls : calls[j].host = "disposed"
  BY <1>1, <1>4 DEF NothingRunsAtStart
<1>6. \A j \in DOMAIN calls : j # 0
  BY <1>1, Typed
<1>7. calls' = calls /\ isLoading' = isLoading /\ currentUser' = currentUser
  BY DEF FirebaseReady
<1>8. Moved(calls, calls', 0, "sent", "no", Above(0))
  BY <1>1, <1>5, <1>6, <1>7 DEF Moved, StateTyped
<1>9. PageFits(0, 0, pg)
  BY <1>4, <1>5, <1>7 DEF PageFits, Bottoms, Screens
<1>10. pg \notin ShopPages /\ pg # "Login" /\ pg # "none"
  BY DEF ShopPages
<1>11. QED
  BY <1>3, <1>7, <1>8, <1>9, <1>10, NavigationKeepsPages

\* The splash screen is alone on the stack, and gives way to a new login page.
LEMMA SplashDoneKeepsPages ==
  ASSUME SessionInv, SplashDone
  PROVE  PageInv' /\ KeepsSignedOut
<1>1. StateTyped /\ StackShape /\ NothingRunsAtStart
  BY DEF SessionInv, AccountInv, PageInv
<1>2. /\ stack # <<>> /\ Top = "Splash" /\ stack' = Append(Front(stack), "Login")
      /\ calls' = Leaving(calls, {Top}) /\ isLoading' = isLoading /\ currentUser' = currentUser
  BY DEF SplashDone, ReplaceTop, On
<1>3. Len(stack) \in Nat /\ Len(stack) > 0
  BY <1>1, <1>2, Typed, EmptySeq DEF StateTyped
<1>4. stack[1] \in Screens
  BY <1>1, <1>2, <1>3, Typed DEF Top, StackShape, Screens
<1>5. Len(stack) = 1 /\ ~isLoading
  BY <1>1, <1>2, <1>4 DEF NothingRunsAtStart
<1>6. StackMoved(0, "Login") /\ Above(0) = {Top}
  <2>1. "Login" \in Pages
    BY DEF Pages, StartPages
  <2>2. StackMoved(Len(stack) - 1, "Login") /\ Above(Len(stack) - 1) = {Top}
    BY <1>1, <1>2, <2>1, ReplacesTop
  <2>3. Len(stack) - 1 = 0
    BY <1>5
  <2>4. QED
    BY <2>2, <2>3
<1>7. Moved(calls, calls', 0, "sent", "no", Above(0))
  BY <1>1, <1>2, <1>6, LeavingMoves DEF StateTyped
<1>8. PageFits(0, 0, "Login")
  BY DEF PageFits, Bottoms, Screens
<1>9. QED
  BY <1>2, <1>5, <1>6, <1>7, <1>8, NavigationKeepsPages DEF ShopPages

\* What a page opens comes on top of it, and a page of the shop opens from one.
LEMMA OpenKeepsPages ==
  ASSUME SessionInv, NEW pg \in StartPages \cup ShopPages, Open(pg)
  PROVE  PageInv' /\ KeepsSignedOut
<1>1. StateTyped
  BY DEF SessionInv, AccountInv
<1>2. /\ stack # <<>> /\ pg \in Opens(Top) /\ stack' = Append(stack, pg)
      /\ calls' = calls /\ isLoading' = isLoading /\ currentUser' = currentUser
  BY DEF Open
<1>3. PICK n \in Nat : n = Len(stack)
  BY <1>1, Typed
<1>4. n > 0
  BY <1>1, <1>2, <1>3, EmptySeq DEF StateTyped
<1>5. /\ pg \notin Screens \cup {"Login", "none"}
      /\ Top \notin Screens
      /\ pg \in ShopPages => Top \in ShopPages
  BY <1>2 DEF Opens, LoginOpens, HomeOpens, SearchOpens, CategoryOpens, ListOpens, CartOpens,
              ProfileOpens, WishlistOpens, Screens, ShopPages
<1>6. StackMoved(n, pg) /\ Above(n) = {}
  BY <1>1, <1>2, <1>3, <1>5, Pushes DEF Pages
<1>7. Moved(calls, calls', 0, "sent", "no", Above(n))
  BY <1>1, <1>2, <1>6, Typed DEF Moved, StateTyped
<1>8. PageFits(0, n, pg)
  BY <1>2, <1>4, <1>5, NoScreenBelow DEF PageFits
<1>9. pg \in ShopPages => OnStack(ShopPages)
  BY <1>1, <1>3, <1>4, <1>5, TopOnStack
<1>10. QED
  BY <1>2, <1>4, <1>5, <1>6, <1>7, <1>8, <1>9, NavigationKeepsPages

\* Back leaves the page at the bottom, and the login page can only be that.
LEMMA BackKeepsPages ==
  ASSUME SessionInv, Back
  PROVE  PageInv' /\ KeepsSignedOut
<1>1. StateTyped /\ StackShape /\ NothingRunsAtStart
  BY DEF SessionInv, AccountInv, PageInv
<1>2. /\ Len(stack) > 1 /\ stack' = Front(stack) /\ calls' = Leaving(calls, {Top})
      /\ isLoading' = isLoading /\ currentUser' = currentUser
  BY DEF Back, Pop
<1>3. Len(stack) \in Nat /\ stack # <<>>
  BY <1>1, <1>2, Typed, EmptySeq DEF StateTyped
<1>4. PICK n \in Nat : n = Len(stack) - 1
  BY <1>2, <1>3, PredIsNat
<1>5. n > 0
  BY <1>2, <1>3, <1>4
<1>6. StackMoved(n, "none") /\ Above(n) = {Top}
  BY <1>1, <1>2, <1>3, <1>4, Pops
<1>7. Moved(calls, calls', 0, "sent", "no", Above(n))
  BY <1>1, <1>2, <1>6, LeavingMoves DEF StateTyped
<1>8. stack[1] \notin Screens
  <2> SUFFICES ASSUME stack[1] \in Screens PROVE FALSE
    OBVIOUS
  <2>1. Len(stack) = 1
    BY <1>1, <1>3 DEF NothingRunsAtStart
  <2>2. QED
    BY <1>2, <2>1
<1>9. PageFits(0, n, "none")
  BY <1>8 DEF PageFits, Screens
<1>10. "none" \notin ShopPages
  BY DEF ShopPages
<1>11. currentUser' = currentUser /\ isLoading' = isLoading /\ n # 0
  BY <1>2, <1>5
<1>12. QED
  BY <1>6, <1>7, <1>9, <1>10, <1>11, NavigationKeepsPages

\* A tab of the shop takes the place of all pages.
LEMMA ShopKeepsPages ==
  ASSUME SessionInv, NEW pg \in {"Home", "Category", "Cart", "Profile"},
         OnStack(ShopPages), RemoveAllAndPush(pg, calls), currentUser' = currentUser
  PROVE  PageInv' /\ KeepsSignedOut
<1>1. StateTyped
  BY DEF SessionInv, AccountInv
<1>2. stack' = <<pg>> /\ calls' = Leaving(calls, Range(stack))
  BY DEF RemoveAllAndPush
<1>3. pg \in Pages /\ pg # "none"
  BY DEF Pages, ShopPages
<1>4. StackMoved(0, pg) /\ Above(0) = Range(stack)
  BY <1>1, <1>2, <1>3, RemovesAll
<1>5. Moved(calls, calls', 0, "sent", "no", Above(0))
  BY <1>1, <1>2, <1>4, LeavingMoves DEF StateTyped
<1>6. PageFits(0, 0, pg)
  BY DEF PageFits, Bottoms, Screens
<1>7. QED
  BY <1>3, <1>4, <1>5, <1>6, NavigationKeepsPages

\* Only pages of the shop have a navigation bar.
LEMMA TabIsInShop ==
  ASSUME SessionInv, stack # <<>>, SelectedTab # 0
  PROVE  OnStack(ShopPages)
<1>1. StateTyped
  BY DEF SessionInv, AccountInv
<1>2. Top \in ShopPages
  <2>1. CASE Top = "Desc"
    BY <2>1 DEF ShopPages
  <2>2. CASE Top # "Desc"
    BY <2>2 DEF SelectedTab, ShopPages
  <2>3. QED
    BY <2>1, <2>2
<1>3. Len(stack) \in Nat /\ Len(stack) > 0
  BY <1>1, Typed, EmptySeq DEF StateTyped
<1>4. QED
  BY <1>1, <1>2, <1>3, TopOnStack

\* A login that comes back opens the home page in place of the page on top,
\* unless its own page is gone.
LEMMA LoginDoneKeepsPages ==
  ASSUME SessionInv, NEW i \in DOMAIN calls, LoginDone(i)
  PROVE  PageInv' /\ KeepsSignedOut
<1>1. StateTyped
  BY DEF SessionInv, AccountInv
<1>2. /\ calls[i].kind = "login" /\ calls[i].phase = "ok" /\ calls[i].phase \notin Ended
      /\ isLoading' = LoadingOver(i) /\ currentUser' = currentUser
  BY DEF LoginDone, Ended
<1>3. isLoading' = (isLoading /\ ~ (i \in Spinning))
  BY <1>1, <1>2 DEF LoadingOver, Spinning, StateTyped
<1>4. CASE ~ (Mounted(i) /\ stack # <<>>)
  <2>1. calls' = Over(i, "done") /\ UNCHANGED <<stack, currentUser>>
    BY <1>2, <1>4 DEF LoginDone
  <2>2. QED
    BY <1>2, <1>3, <2>1, EndKeepsPages
<1>5. CASE Mounted(i) /\ stack # <<>>
  <2>1. stack' = Append(Front(stack), "Home") /\ calls' = Leaving(Over(i, "done"), {Top})
    BY <1>5 DEF LoginDone, ReplaceTop
  <2>2. Len(stack) \in Nat /\ Len(stack) > 0
    BY <1>1, <1>5, Typed, EmptySeq DEF StateTyped
  <2>3. PICK n \in Nat : n = Len(stack) - 1
    BY <2>2, PredIsNat
  <2>4. "Home" \in Pages /\ "Home" \in ShopPages /\ "Home" \in Bottoms
        /\ "Home" \notin Screens \cup {"Login", "none"}
    BY DEF Pages, ShopPages, Bottoms, Screens
  <2>5. StackMoved(n, "Home") /\ Above(n) = {Top}
    BY <1>1, <1>5, <2>1, <2>3, <2>4, ReplacesTop
  <2>6. PICK h : h = calls[i].host
    OBVIOUS
  <2>7. "done" \in Ended
    BY DEF Ended
  <2>8. Moved(calls, calls', i, "done", h, Above(n))
    BY <1>1, <2>1, <2>5, <2>6, <2>7, OverLeavingMoves
  <2>9. Step(i, "done", h, n, "Home")
    BY <1>2, <2>5, <2>7, <2>8, NotEndedYet DEF Step
  <2>10. PageFits(i, n, "Home")
    BY <1>2, <1>5, <2>4, PastStart DEF PageFits
  <2>11. StackShape' /\ NothingRunsAtStart' /\ ShownOnStack' /\ EndsOnce'
    BY <2>9, <2>10, PagesKept
  <2>12. isLoading' = (isLoading /\ ~ (i \in Spinning /\ "done" \in Ended))
    BY <1>3, <2>7
  <2>13. SpinnerInv'
    BY <2>9, <2>12, SpinnerKept
  <2>14. ShopOnlyAfterSignIn'
    BY <1>2, <2>9, ShopKept
  <2>15. EmptyStackHasCause'
    BY <2>9, EmptyKept DEF MayEmpty
  <2>16. SignInShown \/ h = "leaving"
    <3>1. h \in {"shown", "leaving"}
      BY <1>1, <1>5, <2>6, Typed, CallFields DEF Mounted
    <3>2. QED
      BY <1>2, <2>6, <3>1 DEF SignInShown
  <2>17. KeepsSignedOut
    BY <1>2, <2>9, <2>16, SignedOutKept
  <2>18. QED
    BY <2>11, <2>13, <2>14, <2>15, <2>17 DEF PageInv
<1>6. QED
  BY <1>4, <1>5

\* A signup or logout that comes back puts one page in place of all.
LEMMA AllReplacedKeepsPages ==
  ASSUME SessionInv, NEW i \in DOMAIN calls, calls[i].phase \notin Ended, Mounted(i),
         NEW pg \in {"Home", "Login"}, RemoveAllAndPush(pg, Over(i, "done")),
         currentUser' = currentUser,
         pg = "Home" => calls[i].kind = "signup" /\ calls[i].phase = "docOk"
  PROVE  PageInv' /\ KeepsSignedOut
<1>1. StateTyped
  BY DEF SessionInv, AccountInv
<1>2. /\ stack' = <<pg>> /\ calls' = Leaving(Over(i, "done"), Range(stack))
      /\ isLoading' = FALSE
  BY DEF RemoveAllAndPush
<1>3. pg \in Pages /\ pg # "none" /\ pg \in Bottoms /\ pg \notin Screens
  BY DEF Pages, ShopPages, StartPages, Bottoms, Screens
<1>4. StackMoved(0, pg) /\ Above(0) = Range(stack)
  BY <1>1, <1>2, <1>3, RemovesAll
<1>5. PICK h : h = calls[i].host
  OBVIOUS
<1>6. "done" \in Ended
  BY DEF Ended
<1>7. Moved(calls, calls', i, "done", h, Above(0))
  BY <1>1, <1>2, <1>4, <1>5, <1>6, OverLeavingMoves
<1>8. Step(i, "done", h, 0, pg)
  BY <1>4, <1>6, <1>7, NotEndedYet DEF Step
<1>9. PageFits(i, 0, pg)
  BY <1>3 DEF PageFits
<1>10. StackShape' /\ NothingRunsAtStart' /\ ShownOnStack' /\ EndsOnce'
  BY <1>8, <1>9, PagesKept
<1>11. SpinnerInv'
  BY <1>2, <1>8, SpinnerKept
<1>12. "Login" \notin ShopPages
  BY DEF ShopPages
<1>13. ShopOnlyAfterSignIn'
  BY <1>8, <1>12, ShopKept
<1>14. EmptyStackHasCause'
  BY <1>3, <1>8, EmptyKept DEF MayEmpty
<1>15. pg = "Home" => SignInShown \/ h = "leaving"
  <2>1. h \in {"shown", "leaving"}
    BY <1>1, <1>5, Typed, CallFields DEF Mounted
  <2>2. QED
    BY <1>5, <2>1 DEF SignInShown
<1>16. KeepsSignedOut
  BY <1>8, <1>12, <1>15, SignedOutKept
<1>17. QED
  BY <1>10, <1>11, <1>13, <1>14, <1>16 DEF PageInv

\* A signup that comes back opens the home page.
LEMMA SignupDoneKeepsPages ==
  ASSUME SessionInv, NEW i \in DOMAIN calls, SignupDone(i)
  PROVE  PageInv' /\ KeepsSignedOut
<1>1. StateTyped /\ CallUsers
  BY DEF SessionInv, AccountInv
<1>2. calls[i].phase = "docOk" /\ calls[i].phase \notin Ended /\ currentUser' = currentUser
  BY DEF SignupDone, Ended
<1>3. calls[i].kind = "signup"
  BY <1>1, <1>2 DEF CallUsers, IsSignup
<1>4. CASE Mounted(i)
  BY <1>2, <1>3, <1>4, AllReplacedKeepsPages DEF SignupDone
<1>5. CASE ~Mounted(i)
  <2>1. calls' = Over(i, "done") /\ UNCHANGED <<stack, currentUser>> /\ isLoading' = isLoading
    BY <1>2, <1>5 DEF SignupDone
  <2>2. isLoading' = (isLoading /\ ~ (i \in Spinning))
    BY <1>1, <1>3, <2>1 DEF Spinning, StateTyped
  <2>3. QED
    BY <1>2, <1>3, <2>1, <2>2, EndKeepsPages
<1>6. QED
  BY <1>4, <1>5

\* A logout that comes back opens a new login page, unless its page is gone.
LEMMA LogoutDoneKeepsPages ==
  ASSUME SessionInv, NEW i \in DOMAIN calls, LogoutDone(i)
  PROVE  PageInv' /\ KeepsSignedOut
<1>1. StateTyped
  BY DEF SessionInv, AccountInv
<1>2. /\ calls[i].kind = "logout" /\ calls[i].phase = "ok" /\ calls[i].phase \notin Ended
      /\ currentUser' = currentUser
  BY DEF LogoutDone, Ended
<1>3. CASE Mounted(i)
  BY <1>2, <1>3, AllReplacedKeepsPages DEF LogoutDone
<1>4. CASE ~Mounted(i)
  <2>1. calls' = Over(i, "done") /\ UNCHANGED <<stack, currentUser>> /\ isLoading' = isLoading
    BY <1>2, <1>4 DEF LogoutDone
  <2>2. isLoading' = (isLoading /\ ~ (i \in Spinning))
    BY <1>1, <1>2, <2>1 DEF Spinning, StateTyped
  <2>3. QED
    BY <1>2, <1>4, <2>1, <2>2, EndKeepsPages DEF Mounted
<1>5. QED
  BY <1>3, <1>4

\* A save that comes back pops a page: the last one only if its own has left.
LEMMA SaveDoneKeepsPages ==
  ASSUME SessionInv, NEW i \in DOMAIN calls, SaveDone(i)
  PROVE  PageInv' /\ KeepsSignedOut
<1>1. StateTyped /\ StackShape /\ ShownOnStack
  BY DEF SessionInv, AccountInv, PageInv
<1>2. /\ calls[i].kind = "save" /\ calls[i].phase = "ok" /\ calls[i].phase \notin Ended
      /\ currentUser' = currentUser /\ isLoading' = isLoading
  BY DEF SaveDone, Ended
<1>3. i \notin Spinning /\ isLoading \in BOOLEAN
  BY <1>1, <1>2 DEF Spinning, StateTyped
<1>4. CASE ~ (Mounted(i) /\ stack # <<>>)
  <2>1. calls' = Over(i, "done") /\ UNCHANGED <<stack, currentUser>>
    BY <1>2, <1>4 DEF SaveDone
  <2>2. isLoading' = (isLoading /\ ~ (i \in Spinning))
    BY <1>2, <1>3
  <2>3. QED
    BY <1>2, <2>1, <2>2, EndKeepsPages
<1>5. CASE Mounted(i) /\ stack # <<>>
  <2>1. stack' = Front(stack) /\ calls' = Leaving(Over(i, "done"), {Top})
    BY <1>5 DEF SaveDone, Pop
  <2>2. Len(stack) \in Nat /\ Len(stack) > 0
    BY <1>1, <1>5, Typed, EmptySeq DEF StateTyped
  <2>3. PICK n \in Nat : n = Len(stack) - 1
    BY <2>2, PredIsNat
  <2>4. StackMoved(n, "none") /\ Above(n) = {Top}
    BY <1>1, <1>5, <2>1, <2>3, Pops
  <2>5. PICK h : h = calls[i].host
    OBVIOUS
  <2>6. "done" \in Ended
    BY DEF Ended
  <2>7. Moved(calls, calls', i, "done", h, Above(n))
    BY <1>1, <2>1, <2>4, <2>5, <2>6, OverLeavingMoves
  <2>8. Step(i, "done", h, n, "none")
    BY <1>2, <2>4, <2>6, <2>7, NotEndedYet DEF Step
  <2>9. PageFits(i, n, "none")
    BY <1>2, <1>5, PastStart DEF PageFits, Screens
  <2>10. StackShape' /\ NothingRunsAtStart' /\ ShownOnStack' /\ EndsOnce'
    BY <2>8, <2>9, PagesKept
  <2>11. isLoading' = (isLoading /\ ~ (i \in Spinning /\ "done" \in Ended))
    BY <1>2, <1>3
  <2>12. SpinnerInv'
    BY <2>8, <2>11, SpinnerKept
  <2>13. "none" \notin ShopPages
    BY DEF ShopPages
  <2>14. ShopOnlyAfterSignIn'
    BY <2>8, <2>13, ShopKept
  <2>15. MayEmpty(i, h, n, "none")
    <3> SUFFICES ASSUME n = 0 PROVE h = "leaving"
      BY <1>2 DEF MayEmpty
    <3>1. h \in {"shown", "leaving"}
      BY <1>1, <1>5, <2>5, Typed, CallFields DEF Mounted
    <3>2. ASSUME h = "shown" PROVE FALSE
      <4>1. "Edit" \in Range(stack)
        BY <1>1, <1>2, <2>5, <3>2, PageOfIs DEF ShownOnStack
      <4>2. PICK j \in DOMAIN stack : stack[j] = "Edit"
        BY <4>1, InRange
      <4>3. j = 1
        BY <1>1, <2>2, <2>3, Typed
      <4>4. QED
        BY <1>1, <1>5, <4>2, <4>3 DEF StackShape, Bottoms, Screens
    <3>3. QED
      BY <3>1, <3>2
  <2>16. EmptyStackHasCause'
    BY <2>8, <2>15, EmptyKept
  <2>17. KeepsSignedOut
    BY <1>2, <2>8, <2>13, SignedOutKept
  <2>18. QED
    BY <2>10, <2>12, <2>14, <2>16, <2>17 DEF PageInv
<1>6. QED
  BY <1>4, <1>5

\* A call is tapped on the page on top, a login only while none is under way.
LEMMA TapKeepsPages ==
  ASSUME SessionInv, NEW kind \in {"login", "signup", "logout", "save"},
         NEW u \in Users \cup {NoUser}, stack # <<>>, Top = PageOf(kind),
         calls' = Tapped(kind, u), UNCHANGED <<stack, currentUser>>,
         isLoading' = (isLoading \/ kind = "login"),
         kind = "login" => ~isLoading
  PROVE  PageInv' /\ KeepsSignedOut
<1>1. StateTyped /\ PageInv
  BY DEF SessionInv, AccountInv
<1> DEFINE c == [kind |-> kind, user |-> u, phase |-> "sent", host |-> "shown", ended |-> "no"]
<1>2. c \in Call /\ c.kind = kind /\ c.phase = "sent" /\ c.host = "shown" /\ c.ended = "no"
  BY DEF Call
<1>3. calls' = Append(calls, c)
  BY DEF Tapped
<1> HIDE DEF c
<1>4. PICK k \in Nat : k = Len(calls) + 1
  BY <1>1, Typed
<1>5. /\ DOMAIN calls' = DOMAIN calls \cup {k} /\ k \notin DOMAIN calls
      /\ \A j \in DOMAIN calls : calls'[j] = calls[j]
      /\ calls'[k] = c
  <2>1. calls \in Seq(Call)
    BY <1>1 DEF StateTyped
  <2>2. QED
    BY <1>2, <1>3, <1>4, <2>1, OneElementIsAdded
<1>6. Len(stack) \in Nat /\ Len(stack) > 0
  BY <1>1, Typed, EmptySeq DEF StateTyped
<1>7. PageOf(kind) \in Range(stack) /\ PageOf(kind) \notin Screens
  <2>1. Len(stack) \in DOMAIN stack
    BY <1>1, <1>6, Typed
  <2>2. QED
    BY <2>1, InRange, PageOfIs DEF Top, Screens
<1>8. stack[1] \notin Screens
  BY <1>7, NoScreenBelow
<1>9. StackShape' /\ NothingRunsAtStart'
  BY <1>1, <1>8 DEF PageInv, StackShape, NothingRunsAtStart
<1>10. ShownOnStack'
  BY <1>1, <1>2, <1>5, <1>7 DEF PageInv, ShownOnStack
<1>11. EndsOnce'
  BY <1>1, <1>2, <1>5 DEF PageInv, EndsOnce
<1>12. SpinnerInv'
  <2>1. SpinnerInv /\ isLoading \in BOOLEAN
    BY <1>1 DEF PageInv, StateTyped
  <2>2. \A j \in DOMAIN calls : j \in Spinning' <=> j \in Spinning
    BY <1>5 DEF Spinning
  <2>3. k \in Spinning' <=> kind = "login"
    BY <1>2, <1>5 DEF Spinning, Ended
  <2>4. \A j : j \in Spinning' => j \in DOMAIN calls \/ j = k
    BY <1>5 DEF Spinning
  <2>5. \A j : j \in Spinning => j \in DOMAIN calls
    BY DEF Spinning
  <2>6. CASE kind = "login"
    <3>1. "Login" \in Range(stack)
      BY <1>7, <2>6, PageOfIs
    <3>2. Spinning = {}
      BY <2>1, <2>6, <3>1 DEF SpinnerInv
    <3>3. isLoading'
      BY <2>6
    <3>4. \A j : j \in Spinning' <=> j = k
      BY <2>2, <2>3, <2>4, <2>6, <3>2
    <3>5. QED
      BY <3>3, <3>4 DEF SpinnerInv
  <2>7. CASE kind # "login"
    <3>1. \A j : j \in Spinning' <=> j \in Spinning
      BY <1>5, <2>2, <2>3, <2>4, <2>5, <2>7
    <3>2. isLoading' = isLoading /\ Range(stack') = Range(stack)
      BY <2>1, <2>7
    <3>3. QED
      BY <2>1, <3>1, <3>2 DEF SpinnerInv
  <2>8. QED
    BY <2>6, <2>7
<1>13. ShopOnlyAfterSignIn'
  BY <1>1, <1>5 DEF PageInv, ShopOnlyAfterSignIn, OnStack
<1>14. EmptyStackHasCause'
  BY DEF EmptyStackHasCause
<1>15. KeepsSignedOut
  <2>1. SignInShown' => SignInShown
    BY <1>2, <1>5 DEF SignInShown
  <2>2. SignedOutCause => SignedOutCause'
    BY <1>5 DEF SignedOutCause
  <2>3. QED
    BY <2>1, <2>2 DEF KeepsSignedOut, SignedOutInv, OnStack
<1>16. QED
  BY <1>9, <1>10, <1>11, <1>12, <1>13, <1>14, <1>15 DEF PageInv

\* The transition away from a page ends.
LEMMA DisposeKeeps ==
  ASSUME SessionInv, NEW i \in DOMAIN calls, Dispose(i)
  PROVE  SessionInv' /\ KeepsSignedOut
<1>1. StateTyped /\ PageInv /\ AccountInv
  BY DEF SessionInv, AccountInv
<1>2. calls[i] \in Call
  BY <1>1, Typed
<1> DEFINE c == [calls[i] EXCEPT !.host = "disposed"]
<1>3. /\ c \in Call /\ c.kind = calls[i].kind /\ c.phase = calls[i].phase
      /\ c.host = "disposed" /\ c.ended = calls[i].ended /\ c.user = calls[i].user
  BY <1>2 DEF Call
<1>4. calls' = [calls EXCEPT ![i] = c]
  BY DEF Dispose
<1>5. /\ calls[i].host = "leaving"
      /\ UNCHANGED <<stack, isLoading, currentUser, accounts, profiles>>
  BY DEF Dispose
<1> HIDE DEF c
<1>6. /\ calls' \in Seq(Call) /\ Len(calls') = Len(calls) /\ DOMAIN calls' = DOMAIN calls
      /\ \A j \in DOMAIN calls :
           /\ calls'[j].kind = calls[j].kind /\ calls'[j].user = calls[j].user
           /\ calls'[j].phase = calls[j].phase /\ calls'[j].ended = calls[j].ended
           /\ calls'[j].host = "shown" <=> calls[j].host = "shown"
           /\ calls[j].host = "disposed" => calls'[j].host = "disposed"
  <2>1. calls \in Seq(Call)
    BY <1>1 DEF StateTyped
  <2>2. QED
    BY <1>3, <1>4, <1>5, <2>1, OneElementChanges
<1>7. StateTyped'
  BY <1>1, <1>5, <1>6 DEF StateTyped
<1>8. CallUsers' /\ SignupsCreate' /\ OneSignupPerAccount'
  BY <1>1, <1>5, <1>6 DEF AccountInv, CallUsers, SignupsCreate, OneSignupPerAccount, IsSignup
<1>9. MissingProfileHasCause'
  BY <1>1, <1>5, <1>6 DEF AccountInv, MissingProfileHasCause
<1>10. StackShape' /\ NothingRunsAtStart' /\ ShownOnStack' /\ EndsOnce'
  BY <1>1, <1>5, <1>6 DEF PageInv, StackShape, NothingRunsAtStart, ShownOnStack, EndsOnce
<1>11. SpinnerInv'
  <2>1. Spinning' = Spinning
    BY <1>6 DEF Spinning
  <2>2. QED
    BY <1>1, <1>5, <2>1 DEF PageInv, SpinnerInv
<1>12. ShopOnlyAfterSignIn' /\ EmptyStackHasCause'
  <2>1. ShopOnlyAfterSignIn'
    BY <1>1, <1>5, <1>6 DEF PageInv, ShopOnlyAfterSignIn, OnStack
  <2>2. EmptyStackHasCause'
    BY <1>1, <1>5, <1>6 DEF PageInv, EmptyStackHasCause
  <2>3. QED
    BY <2>1, <2>2
<1>13. KeepsSignedOut
  <2>1. SignInShown' => SignInShown
    BY <1>6 DEF SignInShown
  <2>2. SignedOutCause => SignedOutCause'
    BY <1>6 DEF SignedOutCause
  <2>3. QED
    BY <1>5, <2>1, <2>2 DEF KeepsSignedOut, SignedOutInv, OnStack
<1>14. QED
  BY <1>7, <1>8, <1>9, <1>10, <1>11, <1>12, <1>13 DEF SessionInv, AccountInv, PageInv

\* The app starts again, with nothing under way.
LEMMA RestartKeeps ==
  ASSUME SessionInv, Restart
  PROVE  SessionInv' /\ SignedOutInv'
<1>1. StateTyped /\ AccountInv /\ EndsOnce
  BY DEF SessionInv, AccountInv, PageInv
<1>2. AccountInv'
  BY <1>1, AccountsAfterRestart DEF AccountInv
<1>3. stack' = <<"Loading">> /\ isLoading' = FALSE
  BY DEF Restart
<1>4. /\ DOMAIN calls' = DOMAIN calls
      /\ \A j \in DOMAIN calls : calls'[j].host = "disposed" /\ calls'[j].phase \in Ended
  BY <1>1, RestartEnds DEF Ended
<1>5. stack' # <<>> /\ Len(stack') = 1 /\ stack'[1] = "Loading" /\ DOMAIN stack' = {1}
  BY <1>3
<1>6. Range(stack') = {"Loading"}
  BY <1>5 DEF Range
<1>7. StackShape' /\ NothingRunsAtStart' /\ ShownOnStack' /\ EndsOnce'
  BY <1>3, <1>4, <1>5 DEF StackShape, Bottoms, Screens, NothingRunsAtStart, ShownOnStack, EndsOnce
<1>8. SpinnerInv'
  <2>1. Spinning' = {}
    BY <1>4 DEF Spinning
  <2>2. QED
    BY <1>3, <2>1 DEF SpinnerInv
<1>9. ~OnStack(ShopPages)'
  BY <1>6 DEF OnStack, ShopPages
<1>10. ~SignInShown'
  BY <1>4 DEF SignInShown
<1>11. ShopOnlyAfterSignIn' /\ EmptyStackHasCause' /\ SignedOutInv'
  BY <1>5, <1>9, <1>10 DEF ShopOnlyAfterSignIn, EmptyStackHasCause, SignedOutInv
<1>12. QED
  BY <1>2, <1>7, <1>8, <1>11 DEF SessionInv, PageInv

-----------------------------------------------------------------------------
(***************************************************************************)
(* Every step keeps the invariant.                                         *)
(***************************************************************************)

\* A step in which no call goes on keeps the accounts.
LEMMA NavigationKeeps ==
  ASSUME SessionInv, PageInv', NEW gone,
         Moved(calls, calls', 0, "sent", "no", gone) \/ calls' = calls,
         stack' \in Seq(Pages), isLoading' \in BOOLEAN,
         UNCHANGED <<currentUser, accounts, profiles>>
  PROVE  SessionInv'
<1>1. StateTyped /\ AccountInv
  BY DEF SessionInv, AccountInv
<1>2. 0 \notin DOMAIN calls /\ \A j \in DOMAIN calls : j # 0
  BY <1>1, Typed
<1>3. \E g : Moved(calls, calls', 0, "sent", "no", g)
  <2>1. CASE calls' = calls
    <3>1. Moved(calls, calls', 0, "sent", "no", {})
      BY <1>1, <1>2, <2>1 DEF Moved, StateTyped
    <3>2. QED
      BY <3>1
  <2>2. QED
    BY <2>1
<1>4. PICK g : Moved(calls, calls', 0, "sent", "no", g)
  BY <1>3
<1>5. CallUsers' /\ SignupsCreate' /\ OneSignupPerAccount' /\ MissingProfileHasCause'
  BY <1>1, <1>2, <1>4, AccountsKept
<1>6. StateTyped'
  BY <1>1, <1>4 DEF StateTyped, Moved
<1>7. QED
  BY <1>5, <1>6 DEF SessionInv, AccountInv

\* Steps of the navigator alone.
LEMMA NavigatorKeeps ==
  ASSUME SessionInv, NEW ok \in BOOLEAN, NEW pg \in StartPages \cup ShopPages,
         NEW t \in DOMAIN navPages,
         FirebaseReady(ok) \/ SplashDone \/ Open(pg) \/ Back \/ Tab(t) \/ OrderPlaced
  PROVE  SessionInv' /\ KeepsSignedOut
<1>1. StateTyped
  BY DEF SessionInv, AccountInv
<1>2. calls \in Seq(Call) /\ stack \in Seq(Pages) /\ isLoading \in BOOLEAN
  BY <1>1 DEF StateTyped
<1>3. CASE FirebaseReady(ok)
  <2>1. stack' \in Seq(Pages)
    BY <1>3, OnePage DEF FirebaseReady, Pages, StartPages
  <2>2. QED
    BY <1>2, <1>3, <2>1, FirebaseReadyKeepsPages, NavigationKeeps DEF FirebaseReady
<1>4. CASE SplashDone
  <2>1. stack' = Append(Front(stack), "Login") /\ stack # <<>> /\ calls' = Leaving(calls, {Top})
    BY <1>4 DEF SplashDone, ReplaceTop, On
  <2>2. "Login" \in Pages
    BY DEF Pages, StartPages
  <2>3. stack' \in Seq(Pages)
    BY <1>1, <2>1, <2>2, ReplacesTop DEF StackMoved
  <2>4. Moved(calls, calls', 0, "sent", "no", {Top})
    BY <1>2, <2>1, LeavingMoves
  <2>5. QED
    BY <1>2, <1>4, <2>3, <2>4, SplashDoneKeepsPages, NavigationKeeps DEF SplashDone
<1>5. CASE Open(pg)
  <2>1. stack' = Append(stack, pg) /\ calls' = calls
    BY <1>5 DEF Open
  <2>2. stack' \in Seq(Pages)
    BY <1>2, <2>1, OneElementIsAdded DEF Pages
  <2>3. QED
    BY <1>2, <1>5, <2>1, <2>2, OpenKeepsPages, NavigationKeeps DEF Open
<1>6. CASE Back
  <2>1. stack' = Front(stack) /\ stack # <<>> /\ calls' = Leaving(calls, {Top})
    BY <1>1, <1>6, EmptySeq DEF Back, Pop, StateTyped
  <2>2. stack' \in Seq(Pages)
    BY <1>1, <2>1, Pops DEF StackMoved
  <2>3. Moved(calls, calls', 0, "sent", "no", {Top})
    BY <1>2, <2>1, LeavingMoves
  <2>4. QED
    BY <1>2, <1>6, <2>2, <2>3, BackKeepsPages, NavigationKeeps DEF Back
<1>7. ASSUME NEW p \in {"Home", "Category", "Cart", "Profile"}, OnStack(ShopPages),
             RemoveAllAndPush(p, calls), UNCHANGED <<currentUser, accounts, profiles>>
      PROVE  SessionInv' /\ KeepsSignedOut
  <2>1. PageInv' /\ KeepsSignedOut
    BY <1>7, ShopKeepsPages
  <2>2. stack' = <<p>> /\ isLoading' = FALSE /\ calls' = Leaving(calls, Range(stack))
    BY <1>7 DEF RemoveAllAndPush
  <2>3. stack' \in Seq(Pages)
    BY <2>2, OnePage DEF Pages, ShopPages
  <2>4. Moved(calls, calls', 0, "sent", "no", Range(stack))
    BY <1>2, <2>2, LeavingMoves
  <2>5. QED
    BY <1>7, <2>1, <2>2, <2>3, <2>4, NavigationKeeps
<1>8. CASE Tab(t)
  <2>1. navPages[t] \in {"Home", "Category", "Cart", "Profile"}
    BY DEF navPages
  <2>2. OnStack(ShopPages)
    BY <1>8, TabIsInShop DEF Tab
  <2>3. QED
    BY <1>7, <1>8, <2>1, <2>2 DEF Tab
<1>9. CASE OrderPlaced
  <2>1. Len(stack) > 0 /\ Top \in ShopPages
    BY <1>1, <1>9, Typed, EmptySeq DEF OrderPlaced, On, ShopPages, StateTyped
  <2>2. OnStack(ShopPages)
    BY <1>1, <2>1, TopOnStack
  <2>3. QED
    BY <1>7, <1>9, <2>2 DEF OrderPlaced
<1>10. QED
  BY <1>3, <1>4, <1>5, <1>6, <1>8, <1>9

\* A handler is called.
LEMMA CallKeeps ==
  ASSUME SessionInv, NEW kind \in {"login", "signup", "logout", "save"},
         NEW v \in Users \cup {NoUser}, kind \in {"login", "signup"} => v \in Users,
         On(PageOf(kind)), Len(calls) < MaxCalls, calls' = Tapped(kind, v),
         UNCHANGED <<stack, currentUser, accounts, profiles>>,
         isLoading' = (isLoading \/ kind = "login"),
         kind = "login" => ~isLoading
  PROVE  SessionInv' /\ KeepsSignedOut
<1>1. StateTyped /\ AccountInv
  BY DEF SessionInv, AccountInv
<1>2. /\ calls' \in Seq(Call) /\ Len(calls') <= MaxCalls
      /\ CallUsers' /\ SignupsCreate' /\ OneSignupPerAccount' /\ MissingProfileHasCause'
  BY <1>1, AccountsAfterTap
<1>3. PageInv' /\ KeepsSignedOut
  BY TapKeepsPages DEF On
<1>4. isLoading' \in BOOLEAN
  OBVIOUS
<1>5. StateTyped'
  BY <1>1, <1>2, <1>4 DEF StateTyped
<1>6. QED
  BY <1>2, <1>3, <1>5 DEF SessionInv, AccountInv

\* Somebody signs in or up.
LEMMA TapKeeps ==
  ASSUME SessionInv, NEW u \in Users, TapLogin(u) \/ TapSignup(u)
  PROVE  SessionInv' /\ KeepsSignedOut
<1>1. isLoading \in BOOLEAN
  BY DEF SessionInv, AccountInv, StateTyped
<1>2. CASE TapLogin(u)
  BY <1>2, CallKeeps, PageOfIs DEF TapLogin
<1>3. CASE TapSignup(u)
  BY <1>1, <1>3, CallKeeps, PageOfIs DEF TapSignup
<1>4. QED
  BY <1>2, <1>3

\* Logout and save are calls of the user signed in, if any.
LEMMA TapUserKeeps ==
  ASSUME SessionInv, TapLogout \/ TapSave
  PROVE  SessionInv' /\ KeepsSignedOut
<1>1. isLoading \in BOOLEAN /\ currentUser \in Users \cup {NoUser}
  BY DEF SessionInv, AccountInv, StateTyped
<1>2. PICK v \in Users \cup {NoUser} : v = currentUser
  BY <1>1
<1>3. CASE TapLogout
  BY <1>1, <1>2, <1>3, CallKeeps, PageOfIs DEF TapLogout
<1>4. CASE TapSave
  BY <1>1, <1>2, <1>4, CallKeeps, PageOfIs DEF TapSave
<1>5. QED
  BY <1>3, <1>4

\* A handler ends.
LEMMA HandlerEndKeeps ==
  ASSUME SessionInv, NEW i \in DOMAIN calls,
         \/ LoginDone(i) \/ LoginFailed(i) \/ SignupDone(i) \/ SignupFailed(i)
         \/ LogoutDone(i) \/ SaveDone(i)
  PROVE  SessionInv' /\ KeepsSignedOut
<1>1. StateTyped /\ AccountInv /\ CallUsers
  BY DEF SessionInv, AccountInv
<1>2. isLoading \in BOOLEAN /\ stack \in Seq(Pages) /\ i \in Nat
  BY <1>1, Typed DEF StateTyped
<1>3. ASSUME PageInv', NEW ph \in {"done", "failed"}, NEW gone,
             Moved(calls, calls', i, ph, calls[i].host, gone),
             stack' \in Seq(Pages), isLoading' \in BOOLEAN,
             UNCHANGED <<currentUser, accounts, profiles>>,
             ph = "done" /\ IsSignup(i) => calls[i].phase = "docOk"
      PROVE  SessionInv'
  <2>1. PICK h : h = calls[i].host
    OBVIOUS
  <2>2. Moved(calls, calls', i, ph, h, gone)
    BY <1>3, <2>1
  <2>3. CallUsers' /\ SignupsCreate' /\ OneSignupPerAccount' /\ MissingProfileHasCause'
    BY <1>1, <1>2, <1>3, <2>2, AccountsKept DEF Created, Written
  <2>4. StateTyped'
    BY <1>1, <1>3 DEF StateTyped, Moved
  <2>5. QED
    BY <1>3, <2>3, <2>4 DEF SessionInv, AccountInv
<1>4. "done" \in Ended /\ "failed" \in Ended
  BY DEF Ended
<1>5. \A gone : /\ Moved(calls, Leaving(Over(i, "done"), gone), i, "done", calls[i].host, gone)
                /\ Moved(calls, Over(i, "done"), i, "done", calls[i].host, {})
                /\ Moved(calls, Over(i, "failed"), i, "failed", calls[i].host, {})
  BY <1>1, <1>4, OverMoves, OverLeavingMoves
<1>6. CASE LoginDone(i)
  <2>1. PageInv' /\ KeepsSignedOut
    BY <1>6, LoginDoneKeepsPages
  <2>2. isLoading' \in BOOLEAN
    BY <1>2, <1>6 DEF LoginDone, LoadingOver
  <2>3. stack' \in Seq(Pages)
    <3>1. "Home" \in Pages
      BY DEF Pages, ShopPages
    <3>2. QED
      BY <1>1, <1>2, <1>6, <3>1, ReplacesTop DEF LoginDone, ReplaceTop, StackMoved
  <2>4. \E gone : Moved(calls, calls', i, "done", calls[i].host, gone)
    BY <1>5, <1>6 DEF LoginDone, ReplaceTop
  <2>5. ~IsSignup(i) /\ UNCHANGED <<currentUser, accounts, profiles>>
    BY <1>6 DEF LoginDone, IsSignup
  <2>6. QED
    BY <1>3, <2>1, <2>2, <2>3, <2>4, <2>5
<1>7. CASE SignupDone(i)
  <2>1. PageInv' /\ KeepsSignedOut
    BY <1>7, SignupDoneKeepsPages
  <2>2. stack' \in Seq(Pages) /\ isLoading' \in BOOLEAN
    <3>1. <<"Home">> \in Seq(Pages)
      BY OnePage DEF Pages, ShopPages
    <3>2. QED
      BY <1>2, <1>7, <3>1 DEF SignupDone, RemoveAllAndPush
  <2>3. \E gone : Moved(calls, calls', i, "done", calls[i].host, gone)
    BY <1>5, <1>7 DEF SignupDone, RemoveAllAndPush
  <2>4. calls[i].phase = "docOk" /\ UNCHANGED <<currentUser, accounts, profiles>>
    BY <1>7 DEF SignupDone
  <2>5. QED
    BY <1>3, <2>1, <2>2, <2>3, <2>4
<1>8. CASE LogoutDone(i)
  <2>1. PageInv' /\ KeepsSignedOut
    BY <1>8, LogoutDoneKeepsPages
  <2>2. stack' \in Seq(Pages) /\ isLoading' \in BOOLEAN
    <3>1. <<"Login">> \in Seq(Pages)
      BY OnePage DEF Pages, StartPages
    <3>2. QED
      BY <1>2, <1>8, <3>1 DEF LogoutDone, RemoveAllAndPush
  <2>3. \E gone : Moved(calls, calls', i, "done", calls[i].host, gone)
    BY <1>5, <1>8 DEF LogoutDone, RemoveAllAndPush
  <2>4. ~IsSignup(i) /\ UNCHANGED <<currentUser, accounts, profiles>>
    BY <1>8 DEF LogoutDone, IsSignup
  <2>5. QED
    BY <1>3, <2>1, <2>2, <2>3, <2>4
<1>9. CASE SaveDone(i)
  <2>1. PageInv' /\ KeepsSignedOut
    BY <1>9, SaveDoneKeepsPages
  <2>2. stack' \in Seq(Pages) /\ isLoading' \in BOOLEAN
    BY <1>1, <1>2, <1>9, Pops DEF SaveDone, Pop, StackMoved
  <2>3. \E gone : Moved(calls, calls', i, "done", calls[i].host, gone)
    BY <1>5, <1>9 DEF SaveDone, Pop
  <2>4. ~IsSignup(i) /\ UNCHANGED <<currentUser, accounts, profiles>>
    BY <1>9 DEF SaveDone, IsSignup
  <2>5. QED
    BY <1>3, <2>1, <2>2, <2>3, <2>4
<1>10. CASE LoginFailed(i) \/ SignupFailed(i)
  <2>1. /\ calls' = Over(i, "failed") /\ UNCHANGED <<stack, currentUser>>
        /\ UNCHANGED <<currentUser, accounts, profiles>>
        /\ calls[i].phase \notin Ended /\ calls[i].kind # "logout"
    BY <1>10 DEF LoginFailed, SignupFailed, Ended
  <2>2. isLoading' = (isLoading /\ ~ (i \in Spinning))
    BY <1>2, <1>10 DEF LoginFailed, SignupFailed, LoadingOver, Spinning, Ended
  <2>3. PageInv' /\ KeepsSignedOut
    BY <2>1, <2>2, EndKeepsPages
  <2>4. stack' \in Seq(Pages) /\ isLoading' \in BOOLEAN
    BY <1>2, <2>1, <2>2
  <2>5. QED
    BY <1>3, <1>5, <2>1, <2>3, <2>4
<1>11. QED
  BY <1>6, <1>7, <1>8, <1>9, <1>10

\* A call is answered, an exception ends it, or a signup goes on to its second
\* await.
LEMMA AnswerKeeps ==
  ASSUME SessionInv, NEW i \in DOMAIN calls,
         \/ RequestFails(i) \/ SignupWritesProfile(i) \/ ProfileStored(i) \/ ProfileRefused(i)
         \/ LogoutFailed(i) \/ SaveFailed(i)
  PROVE  SessionInv' /\ KeepsSignedOut
<1>1. StateTyped /\ AccountInv /\ CallUsers
  BY DEF SessionInv, AccountInv
<1>2. i \in Nat /\ profiles \subseteq accounts
  BY <1>1, Typed DEF StateTyped
<1>3. ASSUME NEW ph \in {"error", "sentDoc", "docOk", "docError", "failed"}, calls' = At(i, ph),
             calls[i].phase \notin Ended, ph = "failed" => calls[i].kind # "login",
             UNCHANGED <<stack, isLoading, currentUser, accounts>>,
             profiles' \subseteq accounts,
             ~ (calls[i].kind = "logout" /\ calls[i].phase = "ok"),
             ph \in {"sentDoc", "docOk"} => calls[i].phase \in {"ok", "sentDoc"},
             Moved(calls, calls', i, ph, calls[i].ended, {}) =>
               CallUsers' /\ SignupsCreate' /\ OneSignupPerAccount' /\ MissingProfileHasCause'
      PROVE  SessionInv' /\ KeepsSignedOut
  <2>1. /\ Step(i, ph, "no", Len(stack), "none")
        /\ StackShape' /\ NothingRunsAtStart' /\ ShownOnStack' /\ EndsOnce'
        /\ SpinnerInv' /\ ShopOnlyAfterSignIn' /\ EmptyStackHasCause'
    BY <1>3, AnswerKeepsPages
  <2>2. PICK n : n = Len(stack)
    OBVIOUS
  <2>3. "none" \notin ShopPages
    BY DEF ShopPages
  <2>4. Step(i, ph, "no", n, "none")
    BY <2>1, <2>2
  <2>5. KeepsSignedOut
    BY <1>3, <2>3, <2>4, SignedOutKept
  <2>6. Moved(calls, calls', i, ph, calls[i].ended, {})
    BY <1>1, <1>3, AtMoves
  <2>7. StateTyped'
    BY <1>1, <1>3, <2>6 DEF StateTyped, Moved
  <2>8. QED
    BY <1>3, <2>1, <2>5, <2>6, <2>7 DEF SessionInv, AccountInv, PageInv
<1>4. CASE RequestFails(i)
  <2>1. /\ calls' = At(i, "error") /\ calls[i].phase = "sent" /\ "sent" \notin Ended
        /\ UNCHANGED <<stack, isLoading, currentUser, accounts>> /\ profiles' = profiles
    BY <1>4 DEF RequestFails, Ended
  <2>2. PICK e : e = calls[i].ended
    OBVIOUS
  <2>3. Moved(calls, calls', i, "error", e, {}) =>
          CallUsers' /\ SignupsCreate' /\ OneSignupPerAccount' /\ MissingProfileHasCause'
    BY <1>1, <1>2, <2>1, AccountsKept DEF Created, Written
  <2>4. QED
    BY <1>2, <1>3, <2>1, <2>2, <2>3
<1>5. CASE SignupWritesProfile(i)
  <2>1. /\ calls' = At(i, "sentDoc") /\ IsSignup(i) /\ calls[i].phase = "ok" /\ "ok" \notin Ended
        /\ UNCHANGED <<stack, isLoading, currentUser, accounts>>
        /\ profiles' = profiles \cup {calls[i].user} /\ calls[i].kind # "logout"
    BY <1>5 DEF SignupWritesProfile, Ended, IsSignup
  <2>2. Moved(calls, calls', i, "sentDoc", calls[i].ended, {})
    BY <1>1, <2>1, AtMoves
  <2>3. /\ CallUsers' /\ SignupsCreate' /\ OneSignupPerAccount' /\ MissingProfileHasCause'
        /\ profiles' \subseteq accounts
    BY <1>1, <2>1, <2>2, ProfileWritten
  <2>4. QED
    BY <1>3, <2>1, <2>2, <2>3
<1>6. CASE ProfileStored(i)
  <2>1. /\ calls' = At(i, "docOk") /\ calls[i].phase = "sentDoc" /\ "sentDoc" \notin Ended
        /\ UNCHANGED <<stack, isLoading, currentUser, accounts>> /\ profiles' = profiles
    BY <1>6 DEF ProfileStored, Ended
  <2>2. IsSignup(i)
    BY <1>1, <2>1 DEF CallUsers
  <2>3. PICK e : e = calls[i].ended
    OBVIOUS
  <2>4. Moved(calls, calls', i, "docOk", e, {}) =>
          CallUsers' /\ SignupsCreate' /\ OneSignupPerAccount' /\ MissingProfileHasCause'
    BY <1>1, <1>2, <2>1, <2>2, AccountsKept DEF Created, Written
  <2>5. QED
    BY <1>2, <1>3, <2>1, <2>3, <2>4
<1>7. CASE ProfileRefused(i)
  <2>1. /\ calls' = At(i, "docError") /\ calls[i].phase = "sentDoc" /\ "sentDoc" \notin Ended
        /\ UNCHANGED <<stack, isLoading, currentUser, accounts>>
        /\ profiles' = profiles \ {calls[i].user}
    BY <1>7 DEF ProfileRefused, Ended
  <2>2. Moved(calls, calls', i, "docError", calls[i].ended, {})
    BY <1>1, <2>1, AtMoves
  <2>3. CallUsers' /\ SignupsCreate' /\ OneSignupPerAccount' /\ MissingProfileHasCause'
    BY <1>1, <2>1, <2>2, ProfileTaken
  <2>4. profiles' \subseteq accounts
    BY <1>2, <2>1
  <2>5. QED
    BY <1>3, <2>1, <2>2, <2>3, <2>4
<1>8. CASE LogoutFailed(i) \/ SaveFailed(i)
  <2>1. /\ calls' = At(i, "failed") /\ calls[i].phase = "error" /\ "error" \notin Ended
        /\ calls[i].kind # "login" /\ ~IsSignup(i)
        /\ UNCHANGED <<stack, isLoading, currentUser, accounts>> /\ profiles' = profiles
    BY <1>8 DEF LogoutFailed, SaveFailed, Ended, IsSignup
  <2>2. PICK e : e = calls[i].ended
    OBVIOUS
  <2>3. Moved(calls, calls', i, "failed", e, {}) =>
          CallUsers' /\ SignupsCreate' /\ OneSignupPerAccount' /\ MissingProfileHasCause'
    BY <1>1, <1>2, <2>1, AccountsKept
  <2>4. QED
    BY <1>2, <1>3, <2>1, <2>2, <2>3
<1>9. QED
  BY <1>4, <1>5, <1>6, <1>7, <1>8

\* Firebase Auth carries out a request: the user changes, or an account is new.
LEMMA AuthOkKeeps ==
  ASSUME SessionInv, NEW i \in DOMAIN calls, AuthOk(i)
  PROVE  SessionInv' /\ KeepsSignedOut
<1>1. StateTyped /\ AccountInv /\ CallUsers /\ calls[i] \in Call
  BY Typed DEF SessionInv, AccountInv
<1>2. /\ calls[i].phase = "sent" /\ "sent" \notin Ended /\ calls' = At(i, "ok")
      /\ UNCHANGED <<stack, isLoading, profiles>>
  BY DEF AuthOk, Ended
<1>3. /\ Step(i, "ok", "no", Len(stack), "none")
      /\ StackShape' /\ NothingRunsAtStart' /\ ShownOnStack' /\ EndsOnce'
      /\ SpinnerInv' /\ ShopOnlyAfterSignIn' /\ EmptyStackHasCause'
  BY <1>2, AnswerKeepsPages
<1>4. Moved(calls, calls', i, "ok", calls[i].ended, {})
  BY <1>1, <1>2, AtMoves
<1>5. i \in Nat
  BY <1>1, Typed
<1>6. PICK e : e = calls[i].ended
  OBVIOUS
<1>7. Moved(calls, calls', i, "ok", e, {})
  BY <1>4, <1>6
<1>8. calls[i].kind \in {"login", "signup", "logout", "save"}
  BY <1>1, CallFields
<1>9. CASE calls[i].kind = "signup"
  <2>1. /\ calls[i].user \notin accounts /\ currentUser' = calls[i].user
        /\ accounts' = accounts \cup {calls[i].user}
    BY <1>9 DEF AuthOk
  <2>2. calls[i].user \in Users
    BY <1>1, <1>9 DEF CallUsers
  <2>3. CallUsers' /\ SignupsCreate' /\ OneSignupPerAccount' /\ MissingProfileHasCause'
    BY <1>1, <1>2, <1>4, <1>9, <2>1, AccountCreated DEF IsSignup
  <2>4. StateTyped'
    BY <1>1, <1>2, <1>4, <2>1, <2>2 DEF StateTyped, Moved
  <2>5. KeepsSignedOut
    BY <2>1, <2>2, UsersAssumption DEF KeepsSignedOut, SignedOutInv
  <2>6. QED
    BY <1>3, <2>3, <2>4, <2>5 DEF SessionInv, AccountInv, PageInv
<1>10. CASE calls[i].kind # "signup"
  <2>1. accounts' = accounts
    BY <1>8, <1>10 DEF AuthOk
  <2>2. CallUsers' /\ SignupsCreate' /\ OneSignupPerAccount' /\ MissingProfileHasCause'
    BY <1>1, <1>2, <1>5, <1>7, <1>10, <2>1, AccountsKept DEF IsSignup
  <2>3. currentUser' \in Users \cup {NoUser} /\ KeepsSignedOut
    <3>1. CASE calls[i].kind = "login"
      <4>1. currentUser' = calls[i].user /\ calls[i].user \in Users
        BY <1>1, <3>1 DEF AuthOk, CallUsers
      <4>2. QED
        BY <4>1, UsersAssumption DEF KeepsSignedOut, SignedOutInv
    <3>2. CASE calls[i].kind = "logout"
      <4>1. currentUser' = NoUser
        BY <3>2 DEF AuthOk
      <4>2. SignedOutCause'
        BY <1>7, <3>2 DEF SignedOutCause, Moved
      <4>3. QED
        BY <4>1, <4>2 DEF KeepsSignedOut, SignedOutInv
    <3>3. CASE calls[i].kind = "save"
      <4>1. currentUser' = currentUser
        BY <3>3 DEF AuthOk
      <4>2. PICK n : n = Len(stack)
        OBVIOUS
      <4>3. Step(i, "ok", "no", n, "none")
        BY <1>3, <4>2
      <4>4. "none" \notin ShopPages
        BY DEF ShopPages
      <4>5. KeepsSignedOut
        BY <3>3, <4>1, <4>3, <4>4, SignedOutKept
      <4>6. QED
        BY <1>1, <4>1, <4>5 DEF StateTyped
    <3>4. QED
      BY <1>8, <1>10, <3>1, <3>2, <3>3
  <2>4. StateTyped'
    BY <1>1, <1>2, <1>4, <2>1, <2>3 DEF StateTyped, Moved
  <2>5. QED
    BY <1>3, <2>2, <2>3, <2>4 DEF SessionInv, AccountInv, PageInv
<1>11. QED
  BY <1>9, <1>10

\* The app starts in a state of the invariant.
LEMMA InitKeeps == Init => SessionInv /\ SignedOutInv
<1> SUFFICES ASSUME Init PROVE SessionInv /\ SignedOutInv
  OBVIOUS
<1>1. calls = <<>> /\ DOMAIN calls = {} /\ calls \in Seq(Call) /\ Len(calls) = 0
  BY EmptySeq DEF Init
<1>2. stack = <<"Loading">> /\ DOMAIN stack = {1} /\ Len(stack) = 1 /\ stack[1] = "Loading"
  BY DEF Init
<1>3. stack \in Seq(Pages)
  BY <1>2, OnePage DEF Pages, StartPages
<1>4. StateTyped
  <2>1. isLoading \in BOOLEAN /\ accounts \subseteq Users /\ profiles \subseteq accounts
    BY DEF Init
  <2>2. currentUser \in Users \cup {NoUser}
    BY DEF Init
  <2>3. Len(calls) <= MaxCalls
    BY <1>1, MaxCallsAssumption
  <2>4. QED
    BY <1>1, <1>3, <2>1, <2>2, <2>3 DEF StateTyped
<1>5. CallUsers /\ SignupsCreate /\ OneSignupPerAccount /\ MissingProfileHasCause
  BY <1>1 DEF Init, CallUsers, SignupsCreate, OneSignupPerAccount, MissingProfileHasCause
<1>6. stack # <<>> /\ "Loading" \in Screens /\ "Loading" \in Bottoms
  BY <1>2 DEF Bottoms, Screens
<1>7. StackShape /\ NothingRunsAtStart /\ ShownOnStack /\ EndsOnce
  BY <1>1, <1>2, <1>6 DEF Init, StackShape, NothingRunsAtStart, ShownOnStack, EndsOnce
<1>8. SpinnerInv
  <2>1. Spinning = {}
    BY <1>1 DEF Spinning
  <2>2. QED
    BY <2>1 DEF Init, SpinnerInv
<1>9. ~OnStack(ShopPages)
  BY <1>2 DEF OnStack, ShopPages, Range
<1>10. ~SignInShown
  BY <1>1 DEF SignInShown
<1>11. ShopOnlyAfterSignIn /\ EmptyStackHasCause /\ SignedOutInv
  BY <1>6, <1>9, <1>10 DEF ShopOnlyAfterSignIn, EmptyStackHasCause, SignedOutInv
<1>12. QED
  BY <1>4, <1>5, <1>7, <1>8, <1>11 DEF SessionInv, AccountInv, PageInv

\* A step that changes nothing.
LEMMA StutterKeeps == SessionInv /\ UNCHANGED vars => SessionInv' /\ KeepsSignedOut
<1> SUFFICES ASSUME SessionInv, UNCHANGED vars PROVE SessionInv' /\ KeepsSignedOut
  OBVIOUS
<1>1. AccountInv'
  BY DEF vars, SessionInv, AccountInv, StateTyped, CallUsers, SignupsCreate, OneSignupPerAccount,
         IsSignup, MissingProfileHasCause
<1>2. Spinning' = Spinning
  BY DEF vars, Spinning
<1>3. PageInv'
  BY <1>2 DEF vars, SessionInv, PageInv, StackShape, NothingRunsAtStart, ShownOnStack, EndsOnce,
         SpinnerInv, ShopOnlyAfterSignIn, EmptyStackHasCause, OnStack
<1>4. KeepsSignedOut
  BY DEF vars, KeepsSignedOut, SignedOutInv, OnStack, SignInShown, SignedOutCause
<1>5. QED
  BY <1>1, <1>3, <1>4 DEF SessionInv

\* The invariant is inductive.
LEMMA NextKeeps == SessionInv /\ [Next]_vars => SessionInv' /\ KeepsSignedOut
<1> SUFFICES ASSUME SessionInv, [Next]_vars PROVE SessionInv' /\ KeepsSignedOut
  OBVIOUS
<1>1. TRUE \in BOOLEAN /\ "Home" \in StartPages \cup ShopPages /\ 1 \in DOMAIN navPages
  BY DEF ShopPages, navPages
<1>2. ASSUME NEW ok \in BOOLEAN, FirebaseReady(ok) PROVE SessionInv' /\ KeepsSignedOut
  BY <1>1, <1>2, NavigatorKeeps
<1>3. ASSUME NEW pg \in StartPages \cup ShopPages, Open(pg) PROVE SessionInv' /\ KeepsSignedOut
  BY <1>1, <1>3, NavigatorKeeps
<1>4. ASSUME NEW t \in DOMAIN navPages, Tab(t) PROVE SessionInv' /\ KeepsSignedOut
  BY <1>1, <1>4, NavigatorKeeps
<1>5. CASE SplashDone \/ Back \/ OrderPlaced
  BY <1>1, <1>5, NavigatorKeeps
<1>6. ASSUME NEW u \in Users, TapLogin(u) \/ TapSignup(u) PROVE SessionInv' /\ KeepsSignedOut
  BY <1>6, TapKeeps
<1>7. CASE TapLogout \/ TapSave
  BY <1>7, TapUserKeeps
<1>8. ASSUME NEW i \in DOMAIN calls,
             \/ LoginDone(i) \/ LoginFailed(i) \/ SignupDone(i) \/ SignupFailed(i)
             \/ LogoutDone(i) \/ SaveDone(i)
      PROVE  SessionInv' /\ KeepsSignedOut
  BY <1>8, HandlerEndKeeps
<1>9. ASSUME NEW i \in DOMAIN calls,
             \/ RequestFails(i) \/ SignupWritesProfile(i) \/ ProfileStored(i) \/ ProfileRefused(i)
             \/ LogoutFailed(i) \/ SaveFailed(i)
      PROVE  SessionInv' /\ KeepsSignedOut
  BY <1>9, AnswerKeeps
<1>10. ASSUME NEW i \in DOMAIN calls, AuthOk(i) PROVE SessionInv' /\ KeepsSignedOut
  BY <1>10, AuthOkKeeps
<1>11. ASSUME NEW i \in DOMAIN calls, Dispose(i) PROVE SessionInv' /\ KeepsSignedOut
  BY <1>11, DisposeKeeps
<1>12. CASE Restart
  BY <1>12, RestartKeeps DEF KeepsSignedOut
<1>13. CASE UNCHANGED vars
  BY <1>13, StutterKeeps
<1>14. QED
  BY <1>2, <1>3, <1>4, <1>5, <1>6, <1>7, <1>8, <1>9, <1>10, <1>11, <1>12, <1>13 DEF Next

-----------------------------------------------------------------------------
(***************************************************************************)
(* The theorems.                                                           *)
(***************************************************************************)

\* The invariant holds throughout.
LEMMA SessionInvariant == Spec => []SessionInv
<1>1. Init => SessionInv
  BY InitKeeps
<1>2. SessionInv /\ [Next]_vars => SessionInv'
  BY NextKeeps
<1>3. QED
  BY <1>1, <1>2, PTL DEF Spec

\* The navigator only ever shows the app's own pages: no dialog here.
LEMMA PagesOfTheApp ==
  ASSUME SessionInv, TypeOK, [Next]_vars
  PROVE  stack' \in Seq(StartPages \cup ShopPages)
<1> DEFINE P == StartPages \cup ShopPages
<1>1. stack \in Seq(P)
  BY DEF TypeOK
<1>2. \A pg \in P : <<pg>> \in Seq(P) /\ Append(stack, pg) \in Seq(P)
  BY <1>1, OnePage, OneElementIsAdded
<1>3. stack # <<>> => Front(stack) \in Seq(P) /\ \A pg \in P : Append(Front(stack), pg) \in Seq(P)
  BY <1>1, FrontIs, OneElementIsAdded
<1>4. /\ "Loading" \in P /\ "Error" \in P /\ "Splash" \in P /\ "Login" \in P /\ "Home" \in P
      /\ \A t \in DOMAIN navPages : navPages[t] \in P
  BY DEF StartPages, ShopPages, navPages
<1>5. Len(stack) > 1 => stack # <<>>
  BY <1>1, EmptySeq
<1>a. SUFFICES stack' \in Seq(P)
  OBVIOUS
<1> HIDE DEF P
<1>6. CASE \/ \E ok \in BOOLEAN : FirebaseReady(ok)
           \/ Restart \/ OrderPlaced
           \/ \E t \in DOMAIN navPages : Tab(t)
  BY <1>2, <1>4, <1>6 DEF FirebaseReady, Restart, OrderPlaced, Tab, RemoveAllAndPush
<1>7. CASE SplashDone \/ Back
  BY <1>3, <1>4, <1>5, <1>7 DEF SplashDone, Back, ReplaceTop, Pop, On
<1>8. ASSUME NEW pg \in P, Open(pg) PROVE stack' \in Seq(P)
  BY <1>2, <1>8 DEF Open
<1>9. ASSUME NEW i \in DOMAIN calls,
             LoginDone(i) \/ SignupDone(i) \/ LogoutDone(i) \/ SaveDone(i)
      PROVE  stack' \in Seq(P)
  BY <1>1, <1>2, <1>3, <1>4, <1>9
     DEF LoginDone, SignupDone, LogoutDone, SaveDone, ReplaceTop, RemoveAllAndPush, Pop
<1>10. CASE UNCHANGED stack
  BY <1>1, <1>10
<1>11. QED
  BY <1>6, <1>7, <1>8, <1>9, <1>10
     DEF P, Next, vars, TapLogin, TapSignup, TapLogout, TapSave, LoginFailed, SignupFailed,
         LogoutFailed, SaveFailed, SignupWritesProfile, AuthOk, RequestFails, ProfileStored, ProfileRefused,
         Dispose

\* Every page on the stack is one of the app's, and every call, account and
\* profile is what it should be, whatever order handlers and restarts come in.
THEOREM SessionTypeCorrect == Spec => []TypeOK
<1>1. Init => TypeOK
  <2> SUFFICES ASSUME Init PROVE TypeOK
    OBVIOUS
  <2>1. StateTyped
    BY InitKeeps DEF SessionInv, AccountInv
  <2>2. stack \in Seq(StartPages \cup ShopPages)
    BY OnePage DEF Init, StartPages
  <2>3. QED
    BY <2>1, <2>2 DEF TypeOK, StateTyped
<1>2. SessionInv /\ TypeOK /\ [Next]_vars => TypeOK'
  <2> SUFFICES ASSUME SessionInv, TypeOK, [Next]_vars PROVE TypeOK'
    OBVIOUS
  <2>1. StateTyped'
    BY NextKeeps DEF SessionInv, AccountInv
  <2>2. stack' \in Seq(StartPages \cup ShopPages)
    BY PagesOfTheApp
  <2>3. QED
    BY <2>1, <2>2 DEF TypeOK, StateTyped
<1>3. QED
  BY <1>1, <1>2, SessionInvariant, PTL DEF Spec

\* What the invariant says of the spinner.
LEMMA SpinnerCount == SessionInv => SpinnerIsOneLogin
<1> SUFFICES ASSUME SessionInv, "Login" \in Range(stack)
             PROVE  Cardinality(Spinning) = IF isLoading THEN 1 ELSE 0
  BY DEF SpinnerIsOneLogin, Spinning
<1>1. (\A i, j \in Spinning : i = j) /\ (isLoading <=> Spinning # {})
  BY DEF SessionInv, PageInv, SpinnerInv
<1>2. CASE Spinning = {}
  BY <1>1, <1>2, FS_EmptySet
<1>3. CASE Spinning # {}
  <2>1. PICK i : Spinning = {i}
    BY <1>1, <1>3
  <2>2. QED
    BY <1>1, <2>1, FS_Singleton
<1>4. QED
  BY <1>2, <1>3

\* A login page spins exactly while one login made on it is under way.
THEOREM SpinnerTrue == Spec => []SpinnerIsOneLogin
BY SpinnerCount, SessionInvariant, PTL

\* The shop opens only after a login or a signup of this run of the app.
THEOREM ShopAfterSignIn == Spec => []ShopOnlyAfterSignIn
<1>1. SessionInv => ShopOnlyAfterSignIn
  BY DEF SessionInv, PageInv
<1>2. QED
  BY <1>1, SessionInvariant, PTL

\* Somebody who is signed out is in the shop only for the causes named.
THEOREM SignedOutInShop == Spec => []SignedOutInShopHasCause
<1>1. SignedOutInv => SignedOutInShopHasCause
  BY DEF SignedOutInv, SignedOutInShopHasCause, SignedOutCause
<1>2. Init => SignedOutInv
  BY InitKeeps
<1>3. SessionInv /\ SignedOutInv /\ [Next]_vars => SignedOutInv'
  BY NextKeeps DEF KeepsSignedOut
<1>4. QED
  BY <1>1, <1>2, <1>3, SessionInvariant, PTL DEF Spec

\* An account lacks its profile only if its signup failed, died or goes on.
THEOREM MissingProfile == Spec => []MissingProfileHasCause
<1>1. SessionInv => MissingProfileHasCause
  BY DEF SessionInv, AccountInv
<1>2. QED
  BY <1>1, SessionInvariant, PTL

\* The navigator runs out of pages only through a late save.
THEOREM EmptyStack == Spec => []EmptyStackHasCause
<1>1. SessionInv => EmptyStackHasCause
  BY DEF SessionInv, PageInv
<1>2. QED
  BY <1>1, SessionInvariant, PTL
=============================================================================
