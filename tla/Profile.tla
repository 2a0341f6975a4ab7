------------------------------ MODULE Profile -------------------------------
(***************************************************************************)
(* The form of lib/Tahmid/edit_profile_page.dart over the documents        *)
(* users/<uid>.                                                            *)
(*                                                                         *)
(* _loadCurrentData starts with the page and fills the form when the       *)
(* answer is there; _updateData writes the form as it is at the tap, for   *)
(* the user who is signed in at the tap.  Nothing makes the one wait for   *)
(* the other, and the form can be edited before it was filled.             *)
(***************************************************************************)
EXTENDS Naturals, Sequences, FiniteSetsExt

CONSTANTS
  Users,      \* uids of Firebase accounts
  NoUser,     \* nobody is signed in
  Fields,     \* name, phone and address
  Entries,    \* what may be typed into a field
  Blank,      \* an empty field
  Missing,    \* there is no such document
  MaxSaves    \* bound on the calls of _updateData

(***************************************************************************)
(* The text u gave at signup is u itself: all that matters of a text is    *)
(* where it comes from.                                                    *)
(***************************************************************************)
Text == Users \cup Entries \cup {Blank}
Form == [Fields -> Text]
Doc == Form \cup {Missing}

SignedUp(u) == [f \in Fields |-> u]
EmptyForm == [f \in Fields |-> Blank]

ASSUME UsersAssumption == NoUser \notin Users
ASSUME TextAssumption == Blank \notin Users \cup Entries /\ Users \cap Entries = {}
ASSUME MissingAssumption == Missing \notin Form
ASSUME MaxSavesAssumption == MaxSaves \in Nat

VARIABLES
  users,        \* the documents on the server: uid -> form or Missing
  currentUser,  \* FirebaseAuth.instance.currentUser?.uid
  saves,        \* every call of _updateData, oldest first
  editing,      \* the edit page is on top
  form,         \* the texts of its three controllers
  isLoading,    \* _isLoading, the spinner in place of the form
  opener,       \* who was signed in when it was opened: the user of its load
  load,         \* where its _loadCurrentData is
  doc,          \* what the load was answered with
  entered,      \* the fields typed into, and what was typed last
  undisturbed   \* auxiliary, see below

page == <<editing, form, isLoading, opener, load, doc, entered, undisturbed>>
vars == <<users, currentUser, saves, page>>

(***************************************************************************)
(* One call of _updateData, writing doc.  request is what became of the    *)
(* write in Firestore, future the awaiting handler, host its page, as in   *)
(* module Checkout.  opener and filled are of the page, at the tap.        *)
(***************************************************************************)
Save == [user    : Users \cup {NoUser},
         doc     : Form,
         request : {"queued", "served", "refused"},
         future  : {"pending", "over"},
         host    : {"shown", "leaving", "disposed"},
         opener  : Users \cup {NoUser},
         filled  : BOOLEAN]

\* Shown on the page on top, and with it the spinner.
Shown(i) == saves[i].host = "shown"

TypeOK ==
  /\ users \in [Users -> Doc]
  /\ currentUser \in Users \cup {NoUser}
  /\ saves \in Seq(Save)
  /\ Len(saves) <= MaxSaves
  /\ editing \in BOOLEAN
  /\ form \in Form
  /\ isLoading \in BOOLEAN
  /\ opener \in Users \cup {NoUser}
  /\ load \in {"none", "asked", "answered", "filled"}
  /\ doc \in Doc
  /\ entered \in UNION {[fs -> Entries] : fs \in SUBSET Fields}
  /\ undisturbed \in BOOLEAN
  /\ Cardinality({i \in DOMAIN saves : Shown(i)}) = IF isLoading THEN 1 ELSE 0

(***************************************************************************)
(* Firestore's local view: the last queued update, if there is a document  *)
(* that it could update.                                                   *)
(***************************************************************************)
QueuedUpdates(u) ==
  {i \in DOMAIN saves : saves[i].request = "queued" /\ saves[i].user = u}

View(u) == IF users[u] = Missing \/ QueuedUpdates(u) = {}
             THEN users[u] ELSE saves[Max(QueuedUpdates(u))].doc

Init ==
  /\ users \in {d \in [Users -> Doc] : \A u \in Users : d[u] \in {SignedUp(u), Missing}}
  /\ currentUser \in Users \cup {NoUser}
  /\ saves = <<>>
  /\ editing = FALSE
  /\ form = EmptyForm
  /\ isLoading = FALSE
  /\ opener = NoUser
  /\ load = "none"
  /\ doc = Missing
  /\ entered = <<>>
  /\ undisturbed = FALSE

-----------------------------------------------------------------------------
(***************************************************************************)
(* The page comes and goes.  undisturbed says of the page on top that it   *)
(* was not typed into or saved before it was filled, that the user has not *)
(* changed, and that no update of an earlier page was refused under it.    *)
(***************************************************************************)
\* initState starts _loadCurrentData, which returns at once without a user.
OpenEdit ==
  /\ ~editing
  /\ editing' = TRUE
  /\ opener' = currentUser
  /\ load' = IF currentUser = NoUser THEN "none" ELSE "asked"
  /\ undisturbed' = TRUE
  /\ UNCHANGED <<users, currentUser, saves, form, isLoading, doc, entered>>

Leaving(ss) == [i \in DOMAIN ss |->
                  IF ss[i].host = "shown" THEN [ss[i] EXCEPT !.host = "leaving"] ELSE ss[i]]

\* Mutant: the controllers outlive the page.
ClosePageKeepsForm(ss) ==
  /\ editing' = FALSE
  /\ isLoading' = FALSE
  /\ opener' = NoUser
  /\ load' = "none"
  /\ doc' = Missing
  /\ entered' = <<>>
  /\ undisturbed' = FALSE
  /\ saves' = Leaving(ss)
  /\ UNCHANGED form

(***************************************************************************)
(* The edit page, if it is on top, is taken off, and its state with it.    *)
(* Of its load nothing more is seen: setState throws once it is disposed.  *)
(***************************************************************************)
ClosePage(ss) ==
  /\ editing' = FALSE
  /\ form' = EmptyForm
  /\ isLoading' = FALSE
  /\ opener' = NoUser
  /\ load' = "none"
  /\ doc' = Missing
  /\ entered' = <<>>
  /\ undisturbed' = FALSE
  /\ saves' = Leaving(ss)

Back ==
  /\ editing
  /\ ClosePage(saves)
  /\ UNCHANGED <<users, currentUser>>

Dispose(i) ==
  /\ saves[i].host = "leaving"
  /\ saves' = [saves EXCEPT ![i].host = "disposed"]
  /\ UNCHANGED <<users, currentUser, page>>

\* The text fields are there unless the spinner is.
Type(f, e) ==
  /\ editing /\ ~isLoading
  /\ form' = [form EXCEPT ![f] = e]
  /\ entered' = [g \in DOMAIN entered \cup {f} |-> IF g = f THEN e ELSE entered[g]]
  /\ undisturbed' = (undisturbed /\ load = "filled")
  /\ UNCHANGED <<users, currentUser, saves, editing, isLoading, opener, load, doc>>

-----------------------------------------------------------------------------
(***************************************************************************)
(* The two handlers.                                                       *)
(***************************************************************************)

\* Mutant: one of the controllers is not filled.
LoadDoneLeavesOut ==
  /\ load = "answered"
  /\ IF doc # Missing
       THEN /\ form' = [doc EXCEPT ![CHOOSE f \in Fields : TRUE] = Blank]
            /\ load' = "filled"
       ELSE load' = "none" /\ UNCHANGED form
  /\ doc' = Missing
  /\ UNCHANGED <<users, currentUser, saves, editing, isLoading, opener, entered,
                 undisturbed>>

\* _loadCurrentData after its await: what was typed meanwhile is overwritten.
LoadDone ==
  /\ load = "answered"
  /\ IF doc # Missing
       THEN form' = doc /\ load' = "filled"
       ELSE load' = "none" /\ UNCHANGED form
  /\ doc' = Missing
  /\ UNCHANGED <<users, currentUser, saves, editing, isLoading, opener, entered,
                 undisturbed>>

\* Mutant: the spinner does not take the button away.
TapSaveUnguarded ==
  /\ editing
  /\ Len(saves) < MaxSaves
  /\ isLoading' = TRUE
  /\ saves' = Append(saves, [user |-> currentUser, doc |-> form, request |-> "queued",
                             future |-> "pending", host |-> "shown", opener |-> opener,
                             filled |-> load = "filled"])
  /\ undisturbed' = (undisturbed /\ load = "filled")
  /\ UNCHANGED <<users, currentUser, editing, form, opener, load, doc, entered>>

\* _updateData up to its await.  Without a user, doc(null) has a new id.
TapSave ==
  /\ editing /\ ~isLoading
  /\ Len(saves) < MaxSaves
  /\ isLoading' = TRUE
  /\ saves' = Append(saves, [user |-> currentUser, doc |-> form, request |-> "queued",
                             future |-> "pending", host |-> "shown", opener |-> opener,
                             filled |-> load = "filled"])
  /\ undisturbed' = (undisturbed /\ load = "filled")
  /\ UNCHANGED <<users, currentUser, editing, form, opener, load, doc, entered>>

\* Mutant: the check for mounted is the wrong way round.
SaveDoneReturnsEarly(i) ==
  /\ saves[i].future = "pending" /\ saves[i].request = "served"
  /\ saves' = [saves EXCEPT ![i].future = "over"]
  /\ UNCHANGED <<users, currentUser, page>>

\* After the await the page on top is popped, also when that is an edit page
\* opened since; with its own page gone, setState throws.
SaveDone(i) ==
  /\ saves[i].future = "pending" /\ saves[i].request = "served"
  /\ LET over == [saves EXCEPT ![i].future = "over"]
     IN  IF saves[i].host = "disposed" THEN saves' = over /\ UNCHANGED page
                                       ELSE ClosePage(over)
  /\ UNCHANGED <<users, currentUser>>

\* Nothing catches the error: the spinner stays.
SaveFailed(i) ==
  /\ saves[i].future = "pending" /\ saves[i].request = "refused"
  /\ saves' = [saves EXCEPT ![i].future = "over"]
  /\ UNCHANGED <<users, currentUser, page>>

-----------------------------------------------------------------------------
(***************************************************************************)
(* The environment: Firestore as in module WriteQueue, the session and     *)
(* restarts.                                                               *)
(***************************************************************************)
NextToSend(i) == i \in QueuedUpdates(currentUser) /\ i = Min(QueuedUpdates(currentUser))

\* The queue of a user who is not signed in is not part of the view.
ServeGet ==
  /\ load = "asked"
  /\ load' = "answered"
  /\ doc' = IF opener = currentUser THEN View(opener) ELSE users[opener]
  /\ UNCHANGED <<users, currentUser, saves, editing, form, isLoading, opener, entered,
                 undisturbed>>

\* _loadCurrentData ends with the error, which nothing catches.
LoadFailed ==
  /\ load = "asked"
  /\ load' = "none"
  /\ UNCHANGED <<users, currentUser, saves, editing, form, isLoading, opener, doc, entered,
                 undisturbed>>

\* An update needs a document to update.
ServeUpdate(i) ==
  /\ NextToSend(i)
  /\ currentUser # NoUser /\ users[currentUser] # Missing
  /\ saves' = [saves EXCEPT ![i].request = "served"]
  /\ users' = [users EXCEPT ![currentUser] = saves[i].doc]
  /\ UNCHANGED <<currentUser, page>>

RefuseUpdate(i) ==
  /\ NextToSend(i)
  /\ saves' = [saves EXCEPT ![i].request = "refused"]
  /\ undisturbed' = (undisturbed /\ Shown(i))
  /\ UNCHANGED <<users, currentUser, editing, form, isLoading, opener, load, doc, entered>>

\* A login or logout completes; the page that asked may replace all pages.
SessionChange(u) ==
  /\ u # currentUser
  /\ currentUser' = u
  /\ \/ /\ undisturbed' = FALSE
        /\ UNCHANGED <<saves, editing, form, isLoading, opener, load, doc, entered>>
     \/ editing /\ ClosePage(saves)
  /\ UNCHANGED users

Restart ==
  /\ ClosePage([i \in DOMAIN saves |->
                  [saves[i] EXCEPT !.host = "disposed", !.future = "over"]])
  /\ UNCHANGED <<users, currentUser>>

Next ==
  \/ OpenEdit
  \/ Back
  \/ \E i \in DOMAIN saves : Dispose(i)
  \/ \E f \in Fields, e \in Entries : Type(f, e)
  \/ LoadDone
  \/ TapSave
  \/ \E i \in DOMAIN saves : SaveDone(i)
  \/ \E i \in DOMAIN saves : SaveFailed(i)
  \/ ServeGet
  \/ LoadFailed
  \/ \E i \in DOMAIN saves : ServeUpdate(i)
  \/ \E i \in DOMAIN saves : RefuseUpdate(i)
  \/ \E u \in Users \cup {NoUser} : SessionChange(u)
  \/ Restart

Spec == Init /\ [][Next]_vars

\* The event loop runs continuations and Firestore gets answers for the
\* updates of the signed-in user.  Nothing is assumed of the user.
FairSpec ==
  /\ Spec
  /\ \A i \in 1..MaxSaves :
       /\ WF_vars(i \in DOMAIN saves /\ (SaveDone(i) \/ SaveFailed(i)))
       /\ WF_vars(i \in DOMAIN saves /\ (ServeUpdate(i) \/ RefuseUpdate(i)))

-----------------------------------------------------------------------------
(***************************************************************************)
(* Of an undisturbed page that was filled, the form holds what was typed   *)
(* and, in the other fields, what the profile holds, queued updates of     *)
(* earlier pages included: saving it changes what was typed and nothing    *)
(* else.  (A page typed into before it was filled loses what was typed.)   *)
(***************************************************************************)
QuietFormIsTrue ==
  editing /\ undisturbed /\ load = "filled" =>
    \A f \in Fields :
      form[f] = IF f \in DOMAIN entered THEN entered[f] ELSE View(currentUser)[f]

(***************************************************************************)
(* A field of a profile is erased, which nobody asked for, only by a save  *)
(* that was tapped before _loadCurrentData had filled its form.            *)
(***************************************************************************)
ErasedFieldHasCause ==
  \A u \in Users, f \in Fields :
    users[u] # Missing /\ users[u][f] = Blank => \E i \in DOMAIN saves : ~saves[i].filled

(***************************************************************************)
(* The data of one user end up in the profile of another only by a save on *)
(* a page that was opened while somebody else was signed in.               *)
(***************************************************************************)
ForeignDataHasCause ==
  \A u \in Users, f \in Fields :
    users[u] # Missing /\ users[u][f] \in Users \ {u} =>
      \E i \in DOMAIN saves : saves[i].user = u /\ saves[i].opener # u

(***************************************************************************)
(* The spinner of a save ends, with the page, unless the update is refused *)
(* (nothing resets _isLoading then) or the user changes.                   *)
(***************************************************************************)
WaitsForUpdate(i) ==
  /\ i \in DOMAIN saves
  /\ Shown(i) /\ saves[i].request # "refused" /\ saves[i].user = currentUser

SpinnerEnds == \A i \in 1..MaxSaves : WaitsForUpdate(i) ~> ~WaitsForUpdate(i)
=============================================================================
