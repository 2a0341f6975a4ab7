--------------------------- MODULE ProfileProofs ----------------------------
(***************************************************************************)
(* Type correctness and the safety properties of module Profile, proved    *)
(* for any users, fields and texts and any number of saves.                *)
(***************************************************************************)
EXTENDS Profile, CommonLemmas

(***************************************************************************)
(* Firestore's view once more, as a function of the saves ss and the       *)
(* documents us: ViewIn is the view when the saves in Q are the queued     *)
(* updates.                                                                *)
(***************************************************************************)
QueueIn(ss, u) == {i \in DOMAIN ss : ss[i].request = "queued" /\ ss[i].user = u}

ViewIn(Q, ss, us, u) == IF us[u] = Missing \/ Q = {} THEN us[u] ELSE ss[Max(Q)].doc

ViewOf(ss, us, u) == ViewIn(QueueIn(ss, u), ss, us, u)

ViewWithout(i, ss, us, u) == ViewIn(QueueIn(ss, u) \ {i}, ss, us, u)

-----------------------------------------------------------------------------
(***************************************************************************)
(* The inductive invariant.  A page that is not there has left nothing     *)
(* behind, a load has a user and holds its answer for one step, and the    *)
(* spinner is that of the only save tapped on the page, the last of all.   *)
(***************************************************************************)
ClosedPage == ~editing => /\ form = EmptyForm /\ DOMAIN entered = {}
                          /\ load = "none" /\ ~isLoading

Loads == /\ load # "none" => opener \in Users
         /\ load # "answered" => doc = Missing

OneShown == /\ \A i \in DOMAIN saves : Shown(i) => isLoading /\ i = Len(saves)
            /\ isLoading => saves # <<>> /\ Shown(Len(saves))

(***************************************************************************)
(* Of an undisturbed page: until it is filled nothing was typed or saved   *)
(* and the answer is what the view holds.  Once it is, the form holds what *)
(* was typed and the view elsewhere; and its save, while it is queued,     *)
(* writes the form over a view that agrees with the form already.          *)
(***************************************************************************)
Agrees(d) == \A f \in Fields \ DOMAIN entered : form[f] = d[f]

OwnSave(i) == /\ saves[i].user = currentUser
              /\ saves[i].doc = form
              /\ saves[i].request = "queued" => Agrees(ViewWithout(i, saves, users, currentUser))

Undisturbed ==
  editing /\ undisturbed =>
    /\ opener = currentUser
    /\ load # "filled" => DOMAIN entered = {} /\ ~isLoading
    /\ load = "answered" => doc = ViewOf(saves, users, currentUser)
    /\ load = "filled" =>
         /\ users[currentUser] # Missing
         /\ \A f \in DOMAIN entered : form[f] = entered[f]
         /\ Agrees(ViewOf(saves, users, currentUser))
         /\ \A i \in DOMAIN saves : Shown(i) => OwnSave(i)

(***************************************************************************)
(* While every save was tapped on a filled form, no text that may come to  *)
(* a profile is blank; while every save for u was tapped on a page u has   *)
(* opened, none that may come to u's profile is of another user.           *)
(***************************************************************************)
NoBlank(d) == \A f \in Fields : d[f] # Blank

ErasedInv ==
  (\A i \in DOMAIN saves : saves[i].filled) =>
    /\ \A u \in Users : users[u] # Missing => NoBlank(users[u])
    /\ \A i \in DOMAIN saves : NoBlank(saves[i].doc)
    /\ doc # Missing => NoBlank(doc)
    /\ load = "filled" => NoBlank(form)

NotForeign(d, u) == \A f \in Fields : d[f] \notin Users \ {u}

ForeignInv ==
  \A u \in Users :
    (\A i \in DOMAIN saves : saves[i].user = u => saves[i].opener = u) =>
      /\ users[u] # Missing => NotForeign(users[u], u)
      /\ \A i \in DOMAIN saves : saves[i].user = u => NotForeign(saves[i].doc, u)
      /\ opener = u => NotForeign(form, u) /\ (doc # Missing => NotForeign(doc, u))

StateTyped ==
  /\ users \in [Users -> Doc]
  /\ currentUser \in Users \cup {NoUser}
  /\ saves \in Seq(Save)
  /\ Len(saves) <= MaxSaves
  /\ editing \in BOOLEAN
  /\ form \in Form
  /\ isLoading \in BOOLEAN
  /\ opener \in Users \cup {NoUser}
  /\ load \in {"none", "asked", "answered", "filled"}
  /\ doc \in Doc
  /\ entered \in UNION {[fs -> Entries] : fs \in SUBSET Fields}
  /\ undisturbed \in BOOLEAN

PageInv == StateTyped /\ ClosedPage /\ Loads /\ OneShown

ProfileInv == PageInv /\ Undisturbed /\ ErasedInv /\ ForeignInv

-----------------------------------------------------------------------------
(***************************************************************************)
(* What the steps do to the saves.  Kept(ss, tt): tt are the saves ss with *)
(* what they write, for whom and from which page, unchanged.               *)
(***************************************************************************)
Kept(ss, tt) ==
  /\ tt \in Seq(Save) /\ Len(tt) = Len(ss) /\ DOMAIN tt = DOMAIN ss
  /\ \A j \in DOMAIN ss : /\ tt[j].user = ss[j].user
                          /\ tt[j].doc = ss[j].doc
                          /\ tt[j].opener = ss[j].opener
                          /\ tt[j].filled = ss[j].filled

SameRequests(ss, tt) == \A j \in DOMAIN ss : tt[j].request = ss[j].request

SameHosts(ss, tt) == \A j \in DOMAIN ss : tt[j].host = "shown" <=> ss[j].host = "shown"

NoneShown(tt) == \A j \in DOMAIN tt : tt[j].host # "shown"

\* The saves of a state of the type.
LEMMA Typed ==
  ASSUME StateTyped
  PROVE  /\ \A i \in DOMAIN saves : saves[i] \in Save
         /\ DOMAIN saves = 1..Len(saves) /\ Len(saves) \in Nat
BY LenProperties, ElementOfSeq DEF StateTyped

\* The fields of a save.
LEMMA SaveFields ==
  ASSUME NEW s \in Save
  PROVE  /\ s.user \in Users \cup {NoUser} /\ s.doc \in Form
         /\ s.request \in {"queued", "served", "refused"}
         /\ s.future \in {"pending", "over"} /\ s.host \in {"shown", "leaving", "disposed"}
         /\ s.opener \in Users \cup {NoUser} /\ s.filled \in BOOLEAN
BY DEF Save

\* The write of a save is answered.
LEMMA RequestChanges ==
  ASSUME StateTyped, NEW i \in DOMAIN saves, NEW r \in {"served", "refused"},
         saves' = [saves EXCEPT ![i].request = r]
  PROVE  /\ Kept(saves, saves') /\ SameHosts(saves, saves')
         /\ \A j \in DOMAIN saves : saves'[j].request = IF j = i THEN r ELSE saves[j].request
<1>1. saves[i] \in Save /\ saves \in Seq(Save)
  BY Typed DEF StateTyped
<1> DEFINE c == [saves[i] EXCEPT !.request = r]
<1>2. /\ c \in Save /\ c.user = saves[i].user /\ c.doc = saves[i].doc
      /\ c.opener = saves[i].opener /\ c.filled = saves[i].filled
      /\ c.host = saves[i].host /\ c.request = r
  BY <1>1 DEF Save
<1>3. saves' = [saves EXCEPT ![i] = c]
  OBVIOUS
<1> HIDE DEF c
<1>4. QED
  BY <1>1, <1>2, <1>3, OneElementChanges DEF Kept, SameHosts

\* A handler is over.
LEMMA FutureOver ==
  ASSUME StateTyped, NEW i \in DOMAIN saves
  PROVE  /\ Kept(saves, [saves EXCEPT ![i].future = "over"])
         /\ SameHosts(saves, [saves EXCEPT ![i].future = "over"])
         /\ SameRequests(saves, [saves EXCEPT ![i].future = "over"])
<1>1. saves[i] \in Save /\ saves \in Seq(Save)
  BY Typed DEF StateTyped
<1> DEFINE c == [saves[i] EXCEPT !.future = "over"]
<1>2. /\ c \in Save /\ c.user = saves[i].user /\ c.doc = saves[i].doc
      /\ c.opener = saves[i].opener /\ c.filled = saves[i].filled
      /\ c.host = saves[i].host /\ c.request = saves[i].request
  BY <1>1 DEF Save
<1>3. [saves EXCEPT ![i].future = "over"] = [saves EXCEPT ![i] = c]
  OBVIOUS
<1> HIDE DEF c
<1>4. QED
  BY <1>1, <1>2, <1>3, OneElementChanges DEF Kept, SameHosts, SameRequests

\* The transition away from a page ends.
LEMMA Disposed ==
  ASSUME StateTyped, NEW i \in DOMAIN saves, saves[i].host = "leaving",
         saves' = [saves EXCEPT ![i].host = "disposed"]
  PROVE  Kept(saves, saves') /\ SameHosts(saves, saves') /\ SameRequests(saves, saves')
<1>1. saves[i] \in Save /\ saves \in Seq(Save)
  BY Typed DEF StateTyped
<1> DEFINE c == [saves[i] EXCEPT !.host = "disposed"]
<1>2. /\ c \in Save /\ c.user = saves[i].user /\ c.doc = saves[i].doc
      /\ c.opener = saves[i].opener /\ c.filled = saves[i].filled
      /\ c.host = "disposed" /\ c.request = saves[i].request
  BY <1>1 DEF Save
<1>3. saves' = [saves EXCEPT ![i] = c]
  OBVIOUS
<1> HIDE DEF c
<1>4. QED
  BY <1>1, <1>2, <1>3, OneElementChanges DEF Kept, SameHosts, SameRequests

\* Closing the page leaves no save on it.
LEMMA LeavingIs ==
  ASSUME NEW ss \in Seq(Save)
  PROVE  Kept(ss, Leaving(ss)) /\ NoneShown(Leaving(ss)) /\ SameRequests(ss, Leaving(ss))
<1>1. \A j \in DOMAIN ss : ss[j] \in Save
  BY LenProperties, ElementOfSeq
<1>2. Leaving(ss) = [j \in DOMAIN ss |-> Leaving(ss)[j]]
  BY DEF Leaving
<1>3. ASSUME NEW j \in DOMAIN ss
      PROVE  /\ Leaving(ss)[j] \in Save
             /\ Leaving(ss)[j].user = ss[j].user /\ Leaving(ss)[j].doc = ss[j].doc
             /\ Leaving(ss)[j].opener = ss[j].opener /\ Leaving(ss)[j].filled = ss[j].filled
             /\ Leaving(ss)[j].request = ss[j].request
             /\ Leaving(ss)[j].host # "shown"
  <2>1. ss[j] \in Save
    BY <1>1
  <2>2. Leaving(ss)[j] = IF ss[j].host = "shown" THEN [ss[j] EXCEPT !.host = "leaving"] ELSE ss[j]
    BY DEF Leaving
  <2>3. CASE ss[j].host = "shown"
    <3>1. Leaving(ss)[j] = [ss[j] EXCEPT !.host = "leaving"]
      BY <2>2, <2>3
    <3>2. QED
      BY <2>1, <3>1 DEF Save
  <2>4. CASE ss[j].host # "shown"
    BY <2>1, <2>2, <2>4
  <2>5. QED
    BY <2>3, <2>4
<1>4. /\ Leaving(ss) \in Seq(Save) /\ Len(Leaving(ss)) = Len(ss)
      /\ DOMAIN Leaving(ss) = DOMAIN ss
  BY <1>2, <1>3, EveryElementChanges
<1>5. QED
  BY <1>3, <1>4 DEF Kept, NoneShown, SameRequests

\* A restart ends every handler.
LEMMA RestartIs ==
  ASSUME StateTyped, Restart
  PROVE  Kept(saves, saves') /\ NoneShown(saves') /\ SameRequests(saves, saves')
<1> DEFINE ss == [i \in DOMAIN saves |->
                    [saves[i] EXCEPT !.host = "disposed", !.future = "over"]]
<1>1. \A j \in DOMAIN saves : saves[j] \in Save
  BY Typed
<1>2. \A j \in DOMAIN saves : ss[j] = [saves[j] EXCEPT !.host = "disposed", !.future = "over"]
  OBVIOUS
<1>3. \A j \in DOMAIN saves :
        /\ ss[j] \in Save /\ ss[j].user = saves[j].user /\ ss[j].doc = saves[j].doc
        /\ ss[j].opener = saves[j].opener /\ ss[j].filled = saves[j].filled
        /\ ss[j].request = saves[j].request
  <2>1. TAKE j \in DOMAIN saves
  <2>2. PICK s \in Save : s = saves[j]
    BY <1>1
  <2>3. ss[j] = [s EXCEPT !.host = "disposed", !.future = "over"]
    BY <1>2, <2>2
  <2> HIDE DEF ss
  <2>4. QED
    BY <2>2, <2>3 DEF Save
<1>4. ss = [j \in DOMAIN saves |-> ss[j]]
  OBVIOUS
<1>5. saves' = Leaving(ss)
  BY DEF Restart, ClosePage
<1> HIDE DEF ss
<1>6. ss \in Seq(Save) /\ Len(ss) = Len(saves) /\ DOMAIN ss = DOMAIN saves
  BY <1>3, <1>4, EveryElementChanges DEF StateTyped
<1>7. Kept(ss, saves') /\ NoneShown(saves') /\ SameRequests(ss, saves')
  BY <1>5, <1>6, LeavingIs
<1>8. QED
  BY <1>3, <1>6, <1>7 DEF Kept, SameRequests

-----------------------------------------------------------------------------
(***************************************************************************)
(* The view.                                                               *)
(***************************************************************************)

\* The view of the module is the view of its state.
LEMMA ViewIs == \A u : View(u) = ViewOf(saves, users, u)
BY DEF View, ViewOf, ViewIn, QueuedUpdates, QueueIn

\* Queued updates are saves, of which the last is the Max.
LEMMA QueueFacts ==
  ASSUME NEW ss \in Seq(Save), NEW u, NEW Q, Q \subseteq QueueIn(ss, u)
  PROVE  /\ Q \subseteq DOMAIN ss /\ Q \subseteq Nat
         /\ \A i \in Q : i <= Len(ss)
         /\ Q # {} => Max(Q) \in Q /\ \A i \in Q : i <= Max(Q)
<1>1. DOMAIN ss = 1..Len(ss) /\ Len(ss) \in Nat
  BY LenProperties
<1>2. Q \subseteq DOMAIN ss /\ Q \subseteq Nat
  BY <1>1 DEF QueueIn
<1>3. \A i \in Q : i <= Len(ss)
  BY <1>1, <1>2
<1>4. QED
  BY <1>1, <1>2, <1>3, MaxIsGreatest

\* What the view holds is a document or nothing.
LEMMA ViewTyped ==
  ASSUME StateTyped, NEW u \in Users
  PROVE  /\ ViewOf(saves, users, u) \in Doc
         /\ ViewOf(saves, users, u) # Missing => users[u] # Missing
         /\ \/ ViewOf(saves, users, u) = users[u]
            \/ \E i \in DOMAIN saves : /\ saves[i].user = u
                                       /\ ViewOf(saves, users, u) = saves[i].doc
<1>1. users[u] \in Doc /\ saves \in Seq(Save)
  BY DEF StateTyped
<1> DEFINE Q == QueueIn(saves, u)
<1>2. CASE users[u] = Missing \/ Q = {}
  BY <1>1, <1>2 DEF ViewOf, ViewIn
<1>3. CASE users[u] # Missing /\ Q # {}
  <2>1. Max(Q) \in Q /\ Q \subseteq DOMAIN saves
    BY <1>1, <1>3, QueueFacts
  <2>2. ViewOf(saves, users, u) = saves[Max(Q)].doc
    BY <1>3 DEF ViewOf, ViewIn
  <2>3. saves[Max(Q)] \in Save /\ saves[Max(Q)].user = u
    BY <2>1, Typed DEF QueueIn
  <2>4. saves[Max(Q)].doc \in Form
    BY <2>3, SaveFields
  <2>5. QED
    BY <1>3, <2>1, <2>2, <2>3, <2>4 DEF Doc
<1>4. QED
  BY <1>2, <1>3

\* Requests that are not touched leave the view alone.
LEMMA SameView ==
  ASSUME NEW ss \in Seq(Save), NEW tt, Kept(ss, tt), SameRequests(ss, tt), NEW us, NEW u, NEW i
  PROVE  /\ ViewOf(tt, us, u) = ViewOf(ss, us, u)
         /\ ViewWithout(i, tt, us, u) = ViewWithout(i, ss, us, u)
<1>1. QueueIn(tt, u) = QueueIn(ss, u)
  BY DEF QueueIn, Kept, SameRequests
<1>2. ASSUME NEW Q, Q \subseteq QueueIn(ss, u) PROVE ViewIn(Q, tt, us, u) = ViewIn(Q, ss, us, u)
  <2>1. Q # {} => Max(Q) \in DOMAIN ss
    BY <1>2, QueueFacts
  <2>2. QED
    BY <2>1 DEF ViewIn, Kept
<1>3. QED
  BY <1>1, <1>2 DEF ViewOf, ViewWithout

\* tt, vs are the saves ss and documents us once the oldest of Q was stored.
OldestServed(Q, i, ss, tt, us, vs, u) ==
  /\ ss \in Seq(Save) /\ Kept(ss, tt)
  /\ Q \subseteq QueueIn(ss, u) /\ i \in Q /\ \A j \in Q : i <= j
  /\ us[u] # Missing /\ vs[u] = ss[i].doc /\ vs[u] # Missing

\* The server stores the oldest update of a queue: the view stays as it is.
LEMMA ServedView ==
  ASSUME NEW Q, NEW i, NEW ss, NEW tt, NEW us, NEW vs, NEW u,
         OldestServed(Q, i, ss, tt, us, vs, u)
  PROVE  ViewIn(Q \ {i}, tt, vs, u) = ViewIn(Q, ss, us, u)
<1>0. /\ ss \in Seq(Save) /\ Kept(ss, tt)
      /\ Q \subseteq QueueIn(ss, u) /\ i \in Q /\ \A j \in Q : i <= j
      /\ us[u] # Missing /\ vs[u] = ss[i].doc /\ vs[u] # Missing
  BY DEF OldestServed
<1>1. /\ Q \subseteq DOMAIN ss /\ Q \subseteq Nat /\ Max(Q) \in Q
      /\ \A j \in Q : j <= Max(Q)
  BY <1>0, QueueFacts
<1>2. ViewIn(Q, ss, us, u) = ss[Max(Q)].doc
  BY <1>0, <1>1 DEF ViewIn
<1>3. CASE Q \ {i} = {}
  <2>1. Max(Q) = i
    BY <1>0, <1>1, <1>3
  <2>2. ViewIn(Q \ {i}, tt, vs, u) = vs[u]
    BY <1>3 DEF ViewIn
  <2>3. QED
    BY <1>0, <1>2, <2>1, <2>2
<1>4. CASE Q \ {i} # {}
  <2>1. PICK j \in Q : j # i
    BY <1>4
  <2>2. i \in Nat /\ j \in Nat /\ Max(Q) \in Nat /\ i <= j /\ j <= Max(Q)
    BY <1>0, <1>1, <2>1
  <2>3. Max(Q) \in Q \ {i}
    BY <1>1, <2>1, <2>2
  <2>4. Max(Q \ {i}) = Max(Q)
    <3>1. PICK m \in Q \ {i} : m = Max(Q)
      BY <2>3
    <3>2. \A y \in Q \ {i} : y <= m
      BY <1>1, <3>1
    <3>3. Q \ {i} \subseteq Nat
      BY <1>1
    <3>4. QED
      BY <3>1, <3>2, <3>3, MaxIs
  <2>5. ViewIn(Q \ {i}, tt, vs, u) = tt[Max(Q)].doc
    BY <1>0, <1>4, <2>4 DEF ViewIn
  <2>6. QED
    BY <1>0, <1>1, <1>2, <2>5 DEF Kept
<1>5. QED
  BY <1>3, <1>4

\* The last update of all, while it is queued, is what the view holds.
LEMMA LastIsView ==
  ASSUME NEW ss \in Seq(Save), NEW us, NEW u, us[u] # Missing,
         NEW i \in QueueIn(ss, u), i = Len(ss)
  PROVE  ViewOf(ss, us, u) = ss[i].doc
<1>1. /\ QueueIn(ss, u) \subseteq Nat /\ \A j \in QueueIn(ss, u) : j <= i
  BY QueueFacts
<1>2. Max(QueueIn(ss, u)) = i
  BY <1>1, MaxIs
<1>3. QED
  BY <1>2 DEF ViewOf, ViewIn

-----------------------------------------------------------------------------
(***************************************************************************)
(* The steps.                                                              *)
(***************************************************************************)

PageClosed ==
  /\ editing' = FALSE /\ form' = EmptyForm /\ isLoading' = FALSE /\ opener' = NoUser
  /\ load' = "none" /\ doc' = Missing /\ entered' = <<>> /\ undisturbed' = FALSE

\* Nothing typed is a form of no fields.
LEMMA NothingTyped ==
  /\ DOMAIN <<>> = {}
  /\ <<>> \in UNION {[fs -> Entries] : fs \in SUBSET Fields}
<1>1. <<>> \in [{} -> Entries]
  OBVIOUS
<1>2. [{} -> Entries] \in {[fs -> Entries] : fs \in SUBSET Fields}
  OBVIOUS
<1>3. QED
  BY <1>1, <1>2

\* An empty form is a form, and a blank is nobody's.
LEMMA EmptyFormIs ==
  /\ EmptyForm \in Form
  /\ \A u : NotForeign(EmptyForm, u)
BY TextAssumption DEF EmptyForm, Form, Text, NotForeign

\* The page closes.
LEMMA CloseKeeps ==
  ASSUME ProfileInv, Kept(saves, saves'), NoneShown(saves'), PageClosed,
         users' = users, currentUser' \in Users \cup {NoUser}
  PROVE  ProfileInv'
<1>1. StateTyped /\ ErasedInv /\ ForeignInv
  BY DEF ProfileInv, PageInv
<1>2. StateTyped'
  BY <1>1, NothingTyped, EmptyFormIs DEF StateTyped, PageClosed, Kept, Doc
<1>3. ClosedPage' /\ Loads' /\ Undisturbed'
  BY NothingTyped DEF ClosedPage, Loads, Undisturbed, PageClosed
<1>4. OneShown'
  BY DEF OneShown, PageClosed, NoneShown, Shown
<1>5. ErasedInv'
  BY <1>1 DEF ErasedInv, PageClosed, Kept
<1>6. ForeignInv'
  BY <1>1, UsersAssumption DEF ForeignInv, PageClosed, Kept
<1>7. QED
  BY <1>2, <1>3, <1>4, <1>5, <1>6 DEF ProfileInv, PageInv

\* Nothing happens to the page, the requests and the documents.
LEMMA QuietKeeps ==
  ASSUME ProfileInv, Kept(saves, saves'), SameHosts(saves, saves'), SameRequests(saves, saves'),
         UNCHANGED <<users, currentUser, page>>
  PROVE  ProfileInv'
<1>1. PageInv /\ StateTyped /\ Undisturbed /\ ErasedInv /\ ForeignInv /\ saves \in Seq(Save)
  BY DEF ProfileInv, PageInv, StateTyped
<1>2. /\ users' = users /\ currentUser' = currentUser /\ editing' = editing /\ form' = form
      /\ isLoading' = isLoading /\ opener' = opener /\ load' = load /\ doc' = doc
      /\ entered' = entered /\ undisturbed' = undisturbed
  BY DEF page
<1>3. StateTyped'
  BY <1>1, <1>2 DEF StateTyped, Kept
<1>4. ClosedPage' /\ Loads'
  BY <1>1, <1>2 DEF PageInv, ClosedPage, Loads
<1>5. OneShown'
  BY <1>1, <1>2, EmptySeq, Typed DEF PageInv, OneShown, Shown, Kept, SameHosts
<1>6. Undisturbed'
  <2>1. \A us, u, i : /\ ViewOf(saves', us, u) = ViewOf(saves, us, u)
                      /\ ViewWithout(i, saves', us, u) = ViewWithout(i, saves, us, u)
    BY <1>1, SameView
  <2>2. QED
    BY <1>1, <1>2, <2>1
       DEF Undisturbed, Agrees, OwnSave, Shown, Kept, SameHosts, SameRequests
<1>7. ErasedInv'
  BY <1>1, <1>2 DEF ErasedInv, Kept
<1>8. ForeignInv'
  BY <1>1, <1>2 DEF ForeignInv, Kept
<1>9. QED
  BY <1>3, <1>4, <1>5, <1>6, <1>7, <1>8 DEF ProfileInv, PageInv

\* A page opens, empty, for the user who is signed in.
LEMMA OpenEditKeeps ==
  ASSUME ProfileInv, OpenEdit
  PROVE  ProfileInv'
<1>1. PageInv /\ StateTyped /\ ErasedInv /\ ForeignInv /\ ClosedPage /\ Loads /\ OneShown
  BY DEF ProfileInv, PageInv
<1>2. /\ ~editing /\ editing' = TRUE /\ opener' = currentUser
      /\ load' = IF currentUser = NoUser THEN "none" ELSE "asked"
      /\ undisturbed' = TRUE
      /\ users' = users /\ currentUser' = currentUser /\ saves' = saves /\ form' = form
      /\ isLoading' = isLoading /\ doc' = doc /\ entered' = entered
  BY DEF OpenEdit
<1>3. /\ form = EmptyForm /\ DOMAIN entered = {} /\ ~isLoading /\ doc = Missing
  BY <1>1, <1>2 DEF ClosedPage, Loads
<1>4. load' \in {"none", "asked"} /\ (load' # "none" => currentUser \in Users)
  BY <1>1, <1>2 DEF StateTyped
<1>5. StateTyped'
  BY <1>1, <1>2, <1>4 DEF StateTyped
<1>6. ClosedPage' /\ Loads'
  BY <1>2, <1>3, <1>4 DEF ClosedPage, Loads
<1>7. OneShown'
  BY <1>1, <1>2 DEF OneShown, Shown
<1>8. Undisturbed'
  BY <1>2, <1>3, <1>4 DEF Undisturbed
<1>9. ErasedInv'
  BY <1>1, <1>2, <1>4 DEF ErasedInv
<1>10. ForeignInv'
  BY <1>1, <1>2, <1>3, EmptyFormIs DEF ForeignInv
<1>11. QED
  BY <1>5, <1>6, <1>7, <1>8, <1>9, <1>10 DEF ProfileInv, PageInv

\* A field is typed into.
LEMMA TypeKeeps ==
  ASSUME ProfileInv, NEW f \in Fields, NEW e \in Entries, Type(f, e)
  PROVE  ProfileInv'
<1>1. /\ PageInv /\ StateTyped /\ Undisturbed /\ ErasedInv /\ ForeignInv /\ ClosedPage /\ Loads
      /\ OneShown
  BY DEF ProfileInv, PageInv
<1>2. /\ editing /\ ~isLoading
      /\ form' = [form EXCEPT ![f] = e]
      /\ entered' = [g \in DOMAIN entered \cup {f} |-> IF g = f THEN e ELSE entered[g]]
      /\ undisturbed' = (undisturbed /\ load = "filled")
      /\ users' = users /\ currentUser' = currentUser /\ saves' = saves /\ editing' = editing
      /\ isLoading' = isLoading /\ opener' = opener /\ load' = load /\ doc' = doc
  BY DEF Type
<1>3. e \in Text /\ e # Blank /\ e \notin Users
  BY TextAssumption DEF Text
<1>4. /\ form' \in Form
      /\ \A g \in Fields : form'[g] = IF g = f THEN e ELSE form[g]
  BY <1>1, <1>2, <1>3 DEF StateTyped, Form
<1>5. PICK fs \in SUBSET Fields : entered \in [fs -> Entries]
  BY <1>1 DEF StateTyped
<1>6. /\ DOMAIN entered' = fs \cup {f} /\ DOMAIN entered = fs
      /\ \A g \in fs \cup {f} : entered'[g] = IF g = f THEN e ELSE entered[g]
      /\ entered' \in [fs \cup {f} -> Entries]
  BY <1>2, <1>5
<1>7. fs \cup {f} \in SUBSET Fields
  OBVIOUS
<1>8. entered' \in UNION {[gs -> Entries] : gs \in SUBSET Fields}
  BY <1>6, <1>7
<1>9. StateTyped'
  BY <1>1, <1>2, <1>4, <1>8 DEF StateTyped
<1>10. ClosedPage' /\ Loads' /\ OneShown'
  BY <1>1, <1>2 DEF ClosedPage, Loads, OneShown, Shown
<1>11. \A i \in DOMAIN saves : ~Shown(i)
  BY <1>1, <1>2 DEF OneShown
<1>12. Undisturbed'
  <2> SUFFICES ASSUME undisturbed, load = "filled"
               PROVE  /\ opener = currentUser /\ users[currentUser] # Missing
                      /\ \A g \in DOMAIN entered' : form'[g] = entered'[g]
                      /\ \A g \in Fields \ DOMAIN entered' :
                           form'[g] = ViewOf(saves, users, currentUser)[g]
    BY <1>2, <1>11 DEF Undisturbed, Agrees, Shown
  <2>1. /\ opener = currentUser /\ users[currentUser] # Missing
        /\ \A g \in DOMAIN entered : form[g] = entered[g]
        /\ \A g \in Fields \ DOMAIN entered : form[g] = ViewOf(saves, users, currentUser)[g]
    BY <1>1, <1>2 DEF Undisturbed, Agrees
  <2>2. QED
    BY <1>4, <1>6, <1>7, <2>1
<1>13. ErasedInv'
  BY <1>1, <1>2, <1>3, <1>4 DEF ErasedInv, NoBlank
<1>14. ForeignInv'
  BY <1>1, <1>2, <1>3, <1>4 DEF ForeignInv, NotForeign
<1>15. QED
  BY <1>9, <1>10, <1>12, <1>13, <1>14 DEF ProfileInv, PageInv

\* The load fills the form with its answer.
LEMMA LoadDoneKeeps ==
  ASSUME ProfileInv, LoadDone
  PROVE  ProfileInv'
<1>1. /\ PageInv /\ StateTyped /\ Undisturbed /\ ErasedInv /\ ForeignInv /\ ClosedPage /\ Loads
      /\ OneShown
  BY DEF ProfileInv, PageInv
<1>2. /\ load = "answered" /\ doc' = Missing
      /\ users' = users /\ currentUser' = currentUser /\ saves' = saves /\ editing' = editing
      /\ isLoading' = isLoading /\ opener' = opener /\ entered' = entered
      /\ undisturbed' = undisturbed
  BY DEF LoadDone
<1>3. opener \in Users /\ editing
  BY <1>1, <1>2 DEF Loads, ClosedPage
<1>4. \/ doc # Missing /\ form' = doc /\ load' = "filled"
      \/ doc = Missing /\ form' = form /\ load' = "none"
  BY DEF LoadDone
<1>5. StateTyped'
  BY <1>1, <1>2, <1>4 DEF StateTyped, Doc
<1>6. ClosedPage' /\ Loads' /\ OneShown'
  BY <1>1, <1>2, <1>3 DEF ClosedPage, Loads, OneShown, Shown
<1>7. Undisturbed'
  <2> SUFFICES ASSUME undisturbed
               PROVE  /\ opener = currentUser
                      /\ load' # "filled" => DOMAIN entered = {} /\ ~isLoading
                      /\ load' # "answered"
                      /\ load' = "filled" =>
                           /\ users[currentUser] # Missing
                           /\ \A f \in DOMAIN entered : form'[f] = entered[f]
                           /\ Agrees(ViewOf(saves, users, currentUser))'
                           /\ \A i \in DOMAIN saves : ~Shown(i)
    BY <1>2, <1>3 DEF Undisturbed, Shown
  <2>1. /\ opener = currentUser /\ DOMAIN entered = {} /\ ~isLoading
        /\ doc = ViewOf(saves, users, currentUser)
    BY <1>1, <1>2, <1>3 DEF Undisturbed
  <2>2. \A i \in DOMAIN saves : ~Shown(i)
    BY <1>1, <2>1 DEF OneShown
  <2>3. doc # Missing => users[currentUser] # Missing
    BY <1>1, <1>3, <2>1, ViewTyped
  <2>4. load' = "filled" => Agrees(ViewOf(saves, users, currentUser))'
    BY <1>2, <1>4, <2>1 DEF Agrees
  <2>5. QED
    BY <1>4, <2>1, <2>2, <2>3, <2>4
<1>8. ErasedInv'
  BY <1>1, <1>2, <1>4 DEF ErasedInv
<1>9. ForeignInv'
  BY <1>1, <1>2, <1>4 DEF ForeignInv
<1>10. QED
  BY <1>5, <1>6, <1>7, <1>8, <1>9 DEF ProfileInv, PageInv

\* The load is answered.
LEMMA ServeGetKeeps ==
  ASSUME ProfileInv, ServeGet
  PROVE  ProfileInv'
<1>1. /\ PageInv /\ StateTyped /\ Undisturbed /\ ErasedInv /\ ForeignInv /\ ClosedPage /\ Loads
      /\ OneShown
  BY DEF ProfileInv, PageInv
<1>2. /\ load = "asked" /\ load' = "answered"
      /\ doc' = IF opener = currentUser THEN ViewOf(saves, users, opener) ELSE users[opener]
      /\ users' = users /\ currentUser' = currentUser /\ saves' = saves /\ editing' = editing
      /\ isLoading' = isLoading /\ opener' = opener /\ entered' = entered
      /\ undisturbed' = undisturbed /\ form' = form
  BY ViewIs DEF ServeGet
<1>3. opener \in Users /\ editing
  BY <1>1, <1>2 DEF Loads, ClosedPage
<1>4. users[opener] \in Doc
  BY <1>1, <1>3 DEF StateTyped
<1>5. /\ doc' \in Doc
      /\ doc' # Missing => users[opener] # Missing
      /\ \/ doc' = users[opener]
         \/ \E i \in DOMAIN saves : saves[i].user = opener /\ doc' = saves[i].doc
  BY <1>1, <1>2, <1>3, <1>4, ViewTyped
<1>6. StateTyped'
  BY <1>1, <1>2, <1>5 DEF StateTyped
<1>7. ClosedPage' /\ Loads' /\ OneShown'
  BY <1>1, <1>2, <1>3 DEF ClosedPage, Loads, OneShown, Shown
<1>8. Undisturbed'
  BY <1>1, <1>2 DEF Undisturbed
<1>9. ErasedInv'
  BY <1>1, <1>2, <1>3, <1>5 DEF ErasedInv
<1>10. ForeignInv'
  BY <1>1, <1>2, <1>3, <1>5 DEF ForeignInv
<1>11. QED
  BY <1>6, <1>7, <1>8, <1>9, <1>10 DEF ProfileInv, PageInv

\* The load fails.
LEMMA LoadFailedKeeps ==
  ASSUME ProfileInv, LoadFailed
  PROVE  ProfileInv'
<1>1. /\ PageInv /\ StateTyped /\ Undisturbed /\ ErasedInv /\ ForeignInv /\ ClosedPage /\ Loads
      /\ OneShown
  BY DEF ProfileInv, PageInv
<1>2. /\ load = "asked" /\ load' = "none" /\ doc' = doc
      /\ users' = users /\ currentUser' = currentUser /\ saves' = saves /\ editing' = editing
      /\ isLoading' = isLoading /\ opener' = opener /\ entered' = entered
      /\ undisturbed' = undisturbed /\ form' = form
  BY DEF LoadFailed
<1>3. StateTyped' /\ ClosedPage' /\ Loads' /\ OneShown'
  BY <1>1, <1>2 DEF StateTyped, ClosedPage, Loads, OneShown, Shown
<1>4. Undisturbed'
  BY <1>1, <1>2 DEF Undisturbed
<1>5. ErasedInv' /\ ForeignInv'
  BY <1>1, <1>2 DEF ErasedInv, ForeignInv
<1>6. QED
  BY <1>3, <1>4, <1>5 DEF ProfileInv, PageInv

\* A save is tapped: it is the last of all, and the only one of the page.
LEMMA TapSaveKeeps ==
  ASSUME ProfileInv, TapSave
  PROVE  ProfileInv'
<1>1. /\ PageInv /\ StateTyped /\ Undisturbed /\ ErasedInv /\ ForeignInv /\ ClosedPage /\ Loads
      /\ OneShown /\ saves \in Seq(Save)
  BY DEF ProfileInv, PageInv, StateTyped
<1> DEFINE s == [user |-> currentUser, doc |-> form, request |-> "queued",
                 future |-> "pending", host |-> "shown", opener |-> opener,
                 filled |-> load = "filled"]
<1>2. /\ editing /\ ~isLoading /\ isLoading' = TRUE /\ Len(saves) < MaxSaves
      /\ saves' = Append(saves, s)
      /\ undisturbed' = (undisturbed /\ load = "filled")
      /\ users' = users /\ currentUser' = currentUser /\ editing' = editing /\ form' = form
      /\ opener' = opener /\ load' = load /\ doc' = doc /\ entered' = entered
  BY DEF TapSave
<1>3. s \in Save
  BY <1>1 DEF Save, StateTyped
<1>4. /\ s.user = currentUser /\ s.doc = form /\ s.request = "queued" /\ s.host = "shown"
      /\ s.opener = opener /\ s.filled = (load = "filled")
  OBVIOUS
<1> HIDE DEF s
<1>5. PICK k \in Nat : k = Len(saves) + 1
  BY <1>1, Typed
<1>6. /\ saves' \in Seq(Save) /\ Len(saves') = k
      /\ DOMAIN saves' = DOMAIN saves \cup {k} /\ k \notin DOMAIN saves
      /\ \A j \in DOMAIN saves : saves'[j] = saves[j]
      /\ saves'[k] = s
  BY <1>1, <1>2, <1>3, <1>5, OneElementIsAdded
<1>7. k <= MaxSaves
  BY <1>1, <1>2, <1>5, MaxSavesAssumption, Typed
<1>8. StateTyped'
  BY <1>1, <1>2, <1>6, <1>7 DEF StateTyped
<1>9. \A j \in DOMAIN saves : saves[j].host # "shown"
  BY <1>1, <1>2 DEF OneShown, Shown
<1>10. OneShown'
  <2>1. saves' # <<>>
    BY <1>6, NothingTyped
  <2>2. QED
    BY <1>2, <1>4, <1>6, <1>9, <2>1 DEF OneShown, Shown
<1>11. ClosedPage' /\ Loads'
  BY <1>1, <1>2 DEF ClosedPage, Loads
<1>12. Undisturbed'
  <2> SUFFICES ASSUME undisturbed, load = "filled"
               PROVE  /\ opener = currentUser /\ users[currentUser] # Missing
                      /\ \A f \in DOMAIN entered : form[f] = entered[f]
                      /\ Agrees(ViewOf(saves, users, currentUser))'
                      /\ \A i \in DOMAIN saves' : Shown(i)' => OwnSave(i)'
    BY <1>2 DEF Undisturbed
  <2>1. /\ opener = currentUser /\ users[currentUser] # Missing
        /\ \A f \in DOMAIN entered : form[f] = entered[f]
        /\ Agrees(ViewOf(saves, users, currentUser))
    BY <1>1, <1>2 DEF Undisturbed
  <2>2. k \in QueueIn(saves', currentUser)
    BY <1>4, <1>6 DEF QueueIn
  <2>3. ViewOf(saves', users, currentUser) = form
    BY <1>4, <1>6, <2>1, <2>2, LastIsView
  <2>4. Agrees(ViewOf(saves, users, currentUser))'
    BY <1>2, <2>3 DEF Agrees
  <2>5. QueueIn(saves', currentUser) \ {k} = QueueIn(saves, currentUser)
    BY <1>6 DEF QueueIn
  <2>6. ViewWithout(k, saves', users, currentUser) = ViewOf(saves, users, currentUser)
    <3>1. QueueIn(saves, currentUser) # {} => Max(QueueIn(saves, currentUser)) \in DOMAIN saves
      BY <1>1, QueueFacts
    <3>2. QED
      BY <1>6, <2>5, <3>1 DEF ViewWithout, ViewOf, ViewIn
  <2>7. OwnSave(k)'
    BY <1>2, <1>4, <1>6, <2>1, <2>6 DEF OwnSave, Agrees
  <2>8. QED
    BY <1>6, <1>9, <2>1, <2>4, <2>7 DEF Shown
<1>13. ErasedInv'
  BY <1>1, <1>2, <1>4, <1>6 DEF ErasedInv
<1>14. ForeignInv'
  BY <1>1, <1>2, <1>4, <1>6 DEF ForeignInv
<1>15. QED
  BY <1>8, <1>10, <1>11, <1>12, <1>13, <1>14 DEF ProfileInv, PageInv

\* The oldest queued update of the user is the next to be sent.
LEMMA NextIsOldest ==
  ASSUME StateTyped, NEW i, NextToSend(i)
  PROVE  /\ i \in QueueIn(saves, currentUser)
         /\ \A j \in QueueIn(saves, currentUser) : i <= j
<1>1. QueueIn(saves, currentUser) = QueuedUpdates(currentUser)
  BY DEF QueueIn, QueuedUpdates
<1>2. i \in QueueIn(saves, currentUser) /\ i = Min(QueueIn(saves, currentUser))
  BY <1>1 DEF NextToSend
<1>3. QueueIn(saves, currentUser) \subseteq Nat
  BY QueueFacts DEF StateTyped
<1>4. QED
  BY <1>2, <1>3, MinIsLeast

\* The server stores an update: the view, and what it is without the page's
\* own save, stay as they are.
LEMMA ServeUpdateKeeps ==
  ASSUME ProfileInv, NEW i \in DOMAIN saves, ServeUpdate(i)
  PROVE  ProfileInv'
<1>1. /\ PageInv /\ StateTyped /\ Undisturbed /\ ErasedInv /\ ForeignInv /\ ClosedPage /\ Loads
      /\ OneShown /\ saves \in Seq(Save)
  BY DEF ProfileInv, PageInv, StateTyped
<1>2. /\ NextToSend(i) /\ currentUser # NoUser /\ users[currentUser] # Missing
      /\ saves' = [saves EXCEPT ![i].request = "served"]
      /\ users' = [users EXCEPT ![currentUser] = saves[i].doc]
      /\ currentUser' = currentUser /\ editing' = editing /\ form' = form
      /\ isLoading' = isLoading /\ opener' = opener /\ load' = load /\ doc' = doc
      /\ entered' = entered /\ undisturbed' = undisturbed
  BY DEF ServeUpdate, page
<1>3. PICK u \in Users : u = currentUser
  BY <1>1, <1>2 DEF StateTyped
<1>4. saves[i].doc \in Form /\ saves[i].user = u
  BY <1>1, <1>2, <1>3, Typed, SaveFields, NextIsOldest DEF QueueIn
<1>5. /\ users' \in [Users -> Doc] /\ users'[u] = saves[i].doc
      /\ \A v \in Users : v # u => users'[v] = users[v]
  BY <1>1, <1>2, <1>3, <1>4 DEF StateTyped, Doc
<1>6. /\ Kept(saves, saves') /\ SameHosts(saves, saves')
      /\ \A j \in DOMAIN saves : saves'[j].request = IF j = i THEN "served" ELSE saves[j].request
  BY <1>1, <1>2, RequestChanges
<1>7. StateTyped'
  BY <1>1, <1>2, <1>5, <1>6 DEF StateTyped, Kept
<1>8. ClosedPage' /\ Loads' /\ OneShown'
  BY <1>1, <1>2, <1>6, EmptySeq, Typed DEF ClosedPage, Loads, OneShown, Shown, Kept, SameHosts
<1>9. i \in QueueIn(saves, u) /\ \A j \in QueueIn(saves, u) : i <= j
  BY <1>1, <1>2, <1>3, NextIsOldest
<1>10. users'[u] # Missing
  BY <1>4, <1>5, MissingAssumption
<1>11. QueueIn(saves', u) = QueueIn(saves, u) \ {i}
  BY <1>6 DEF QueueIn, Kept
<1>12. ASSUME NEW Q, Q \subseteq QueueIn(saves, u), i \in Q
       PROVE  ViewIn(Q \ {i}, saves', users', u) = ViewIn(Q, saves, users, u)
  <2>1. \A j \in Q : i <= j
    BY <1>9, <1>12
  <2>2. OldestServed(Q, i, saves, saves', users, users', u)
    BY <1>1, <1>2, <1>3, <1>5, <1>6, <1>10, <1>12, <2>1 DEF OldestServed
  <2>3. QED
    BY <2>2, ServedView
<1>13. ViewOf(saves', users', u) = ViewOf(saves, users, u)
  BY <1>9, <1>11, <1>12 DEF ViewOf
<1>14. ASSUME NEW k, k # i
       PROVE  ViewWithout(k, saves', users', u) = ViewWithout(k, saves, users, u)
  <2>1. QueueIn(saves', u) \ {k} = (QueueIn(saves, u) \ {k}) \ {i}
    BY <1>11
  <2>2. i \in QueueIn(saves, u) \ {k} /\ QueueIn(saves, u) \ {k} \subseteq QueueIn(saves, u)
    BY <1>9, <1>14
  <2>3. ViewIn((QueueIn(saves, u) \ {k}) \ {i}, saves', users', u) =
          ViewIn(QueueIn(saves, u) \ {k}, saves, users, u)
    BY <1>12, <2>2
  <2>4. QED
    BY <2>1, <2>3 DEF ViewWithout
<1>15. Undisturbed'
  <2> SUFFICES ASSUME editing, undisturbed
               PROVE  /\ opener = u
                      /\ load # "filled" => DOMAIN entered = {} /\ ~isLoading
                      /\ load = "answered" => doc = ViewOf(saves', users', u)
                      /\ load = "filled" =>
                           /\ users'[u] # Missing
                           /\ \A f \in DOMAIN entered : form[f] = entered[f]
                           /\ Agrees(ViewOf(saves, users, currentUser))'
                           /\ \A j \in DOMAIN saves' : Shown(j)' => OwnSave(j)'
    BY <1>2, <1>3 DEF Undisturbed
  <2>1. /\ opener = u
        /\ load # "filled" => DOMAIN entered = {} /\ ~isLoading
        /\ load = "answered" => doc = ViewOf(saves, users, u)
        /\ load = "filled" =>
             /\ \A f \in DOMAIN entered : form[f] = entered[f]
             /\ Agrees(ViewOf(saves, users, u))
             /\ \A j \in DOMAIN saves : Shown(j) => OwnSave(j)
    BY <1>1, <1>3 DEF Undisturbed
  <2>2. load = "filled" => Agrees(ViewOf(saves, users, currentUser))'
    BY <1>2, <1>3, <1>13, <2>1 DEF Agrees
  <2>3. ASSUME load = "filled", NEW j \in DOMAIN saves', Shown(j)' PROVE OwnSave(j)'
    <3>1. j \in DOMAIN saves /\ Shown(j)
      BY <1>6, <2>3 DEF Kept, SameHosts, Shown
    <3>2. OwnSave(j)
      BY <2>1, <2>3, <3>1
    <3>3. saves'[j].user = currentUser /\ saves'[j].doc = form
      BY <1>6, <3>1, <3>2 DEF OwnSave, Kept
    <3>4. saves'[j].request = "queued" => Agrees(ViewWithout(j, saves, users, currentUser))
                                            /\ j # i
      BY <1>6, <3>1, <3>2 DEF OwnSave
    <3>5. saves'[j].request = "queued" =>
            Agrees(ViewWithout(j, saves, users, currentUser))'
      <4> SUFFICES ASSUME saves'[j].request = "queued"
                   PROVE  Agrees(ViewWithout(j, saves, users, currentUser))'
        OBVIOUS
      <4>1. j # i /\ Agrees(ViewWithout(j, saves, users, u))
        BY <1>3, <3>4
      <4>2. ViewWithout(j, saves', users', u) = ViewWithout(j, saves, users, u)
        BY <1>14, <4>1
      <4>3. QED
        BY <1>2, <1>3, <4>1, <4>2 DEF Agrees
    <3>6. QED
      BY <1>2, <3>3, <3>5 DEF OwnSave
  <2>4. QED
    BY <1>10, <1>13, <2>1, <2>2, <2>3
<1>16. ErasedInv'
  BY <1>1, <1>2, <1>3, <1>5, <1>6 DEF ErasedInv, Kept
<1>17. ForeignInv'
  BY <1>1, <1>2, <1>3, <1>4, <1>5, <1>6 DEF ForeignInv, Kept
<1>18. QED
  BY <1>7, <1>8, <1>15, <1>16, <1>17 DEF ProfileInv, PageInv

\* The server refuses an update: of an undisturbed page only its own, which is
\* the last of all, so that the view becomes what it was before the tap.
LEMMA RefuseUpdateKeeps ==
  ASSUME ProfileInv, NEW i \in DOMAIN saves, RefuseUpdate(i)
  PROVE  ProfileInv'
<1>1. /\ PageInv /\ StateTyped /\ Undisturbed /\ ErasedInv /\ ForeignInv /\ ClosedPage /\ Loads
      /\ OneShown /\ saves \in Seq(Save)
  BY DEF ProfileInv, PageInv, StateTyped
<1>2. /\ NextToSend(i)
      /\ saves' = [saves EXCEPT ![i].request = "refused"]
      /\ undisturbed' = (undisturbed /\ Shown(i))
      /\ users' = users /\ currentUser' = currentUser /\ editing' = editing /\ form' = form
      /\ isLoading' = isLoading /\ opener' = opener /\ load' = load /\ doc' = doc
      /\ entered' = entered
  BY DEF RefuseUpdate
<1>3. /\ Kept(saves, saves') /\ SameHosts(saves, saves')
      /\ \A j \in DOMAIN saves : saves'[j].request = IF j = i THEN "refused" ELSE saves[j].request
  BY <1>1, <1>2, RequestChanges
<1>4. undisturbed' \in BOOLEAN
  BY <1>2
<1>5. StateTyped'
  BY <1>1, <1>2, <1>3, <1>4 DEF StateTyped, Kept
<1>6. ClosedPage' /\ Loads' /\ OneShown'
  BY <1>1, <1>2, <1>3, EmptySeq, Typed DEF ClosedPage, Loads, OneShown, Shown, Kept, SameHosts
<1>7. i \in QueueIn(saves, currentUser)
  BY <1>1, <1>2, NextIsOldest
<1>8. \A u : QueueIn(saves', u) = QueueIn(saves, u) \ {i}
  BY <1>3 DEF QueueIn, Kept
<1>9. ViewOf(saves', users, currentUser) = ViewWithout(i, saves, users, currentUser)
  <2>1. QueueIn(saves, currentUser) \ {i} # {} =>
          Max(QueueIn(saves, currentUser) \ {i}) \in DOMAIN saves
    BY <1>1, QueueFacts
  <2>2. QED
    BY <1>3, <1>8, <2>1 DEF ViewOf, ViewWithout, ViewIn, Kept
<1>10. Undisturbed'
  <2> SUFFICES ASSUME editing, undisturbed, Shown(i) PROVE Undisturbed'
    BY <1>2 DEF Undisturbed
  <2>1. load = "filled"
    BY <1>1 DEF Undisturbed, OneShown
  <2>2. /\ opener = currentUser /\ users[currentUser] # Missing
        /\ \A f \in DOMAIN entered : form[f] = entered[f]
        /\ \A j \in DOMAIN saves : Shown(j) => OwnSave(j)
    BY <1>1, <2>1 DEF Undisturbed
  <2>3. Agrees(ViewWithout(i, saves, users, currentUser))
    BY <1>7, <2>2 DEF OwnSave, QueueIn
  <2>4. Agrees(ViewOf(saves, users, currentUser))'
    BY <1>2, <1>9, <2>3 DEF Agrees
  <2>5. ASSUME NEW j \in DOMAIN saves', Shown(j)' PROVE OwnSave(j)'
    <3>1. j \in DOMAIN saves /\ Shown(j)
      BY <1>3, <2>5 DEF Kept, SameHosts, Shown
    <3>2. j = i
      BY <1>1, <3>1 DEF OneShown
    <3>3. saves'[j].user = currentUser /\ saves'[j].doc = form /\ saves'[j].request = "refused"
      BY <1>3, <2>2, <3>1, <3>2 DEF OwnSave, Kept
    <3>4. QED
      BY <1>2, <3>3 DEF OwnSave
  <2>6. QED
    BY <1>2, <2>1, <2>2, <2>4, <2>5 DEF Undisturbed
<1>11. ErasedInv' /\ ForeignInv'
  BY <1>1, <1>2, <1>3 DEF ErasedInv, ForeignInv, Kept
<1>12. QED
  BY <1>5, <1>6, <1>10, <1>11 DEF ProfileInv, PageInv

\* The user changes under the page, which is disturbed from then on.
LEMMA SessionChangeKeeps ==
  ASSUME ProfileInv, NEW u \in Users \cup {NoUser}, SessionChange(u)
  PROVE  ProfileInv'
<1>1. /\ PageInv /\ StateTyped /\ ErasedInv /\ ForeignInv /\ ClosedPage /\ Loads /\ OneShown
      /\ saves \in Seq(Save)
  BY DEF ProfileInv, PageInv, StateTyped
<1>2. CASE ClosePage(saves)
  <2>1. PageClosed /\ saves' = Leaving(saves) /\ users' = users /\ currentUser' = u
    BY <1>2 DEF SessionChange, ClosePage, PageClosed
  <2>2. QED
    BY <1>1, <2>1, LeavingIs, CloseKeeps
<1>3. CASE ~ClosePage(saves)
  <2>1. /\ undisturbed' = FALSE /\ currentUser' = u /\ users' = users /\ saves' = saves
        /\ editing' = editing /\ form' = form /\ isLoading' = isLoading /\ opener' = opener
        /\ load' = load /\ doc' = doc /\ entered' = entered
    BY <1>3 DEF SessionChange
  <2>2. StateTyped' /\ ClosedPage' /\ Loads' /\ OneShown'
    BY <1>1, <2>1 DEF StateTyped, ClosedPage, Loads, OneShown, Shown
  <2>3. Undisturbed' /\ ErasedInv' /\ ForeignInv'
    BY <1>1, <2>1 DEF Undisturbed, ErasedInv, ForeignInv
  <2>4. QED
    BY <2>2, <2>3 DEF ProfileInv, PageInv
<1>4. QED
  BY <1>2, <1>3

\* The page is left.
LEMMA BackKeeps ==
  ASSUME ProfileInv, Back
  PROVE  ProfileInv'
<1>1. saves \in Seq(Save) /\ currentUser \in Users \cup {NoUser}
  BY DEF ProfileInv, PageInv, StateTyped
<1>2. PageClosed /\ saves' = Leaving(saves) /\ users' = users /\ currentUser' = currentUser
  BY DEF Back, ClosePage, PageClosed
<1>3. QED
  BY <1>1, <1>2, LeavingIs, CloseKeeps

\* The transition away from a page ends.
LEMMA DisposeKeeps ==
  ASSUME ProfileInv, NEW i \in DOMAIN saves, Dispose(i)
  PROVE  ProfileInv'
<1>1. StateTyped
  BY DEF ProfileInv, PageInv
<1>2. /\ saves[i].host = "leaving" /\ saves' = [saves EXCEPT ![i].host = "disposed"]
      /\ UNCHANGED <<users, currentUser, page>>
  BY DEF Dispose
<1>3. QED
  BY <1>1, <1>2, Disposed, QuietKeeps

\* A save was stored: the page on top is closed unless the save's is disposed.
LEMMA SaveDoneKeeps ==
  ASSUME ProfileInv, NEW i \in DOMAIN saves, SaveDone(i)
  PROVE  ProfileInv'
<1>1. StateTyped /\ saves \in Seq(Save) /\ currentUser \in Users \cup {NoUser}
  BY DEF ProfileInv, PageInv, StateTyped
<1> DEFINE over == [saves EXCEPT ![i].future = "over"]
<1>2. Kept(saves, over) /\ SameHosts(saves, over) /\ SameRequests(saves, over)
  BY <1>1, FutureOver
<1>3. CASE saves[i].host = "disposed"
  <2>1. saves' = over /\ UNCHANGED <<users, currentUser, page>>
    BY <1>3 DEF SaveDone
  <2> HIDE DEF over
  <2>2. QED
    BY <1>2, <2>1, QuietKeeps
<1>4. CASE saves[i].host # "disposed"
  <2>1. PageClosed /\ saves' = Leaving(over) /\ users' = users /\ currentUser' = currentUser
    BY <1>4 DEF SaveDone, ClosePage, PageClosed
  <2> HIDE DEF over
  <2>2. over \in Seq(Save)
    BY <1>2 DEF Kept
  <2>3. Kept(over, saves') /\ NoneShown(saves')
    BY <2>1, <2>2, LeavingIs
  <2>4. Kept(saves, saves')
    BY <1>2, <2>3 DEF Kept
  <2>5. QED
    BY <1>1, <2>1, <2>3, <2>4, CloseKeeps
<1>5. QED
  BY <1>3, <1>4

\* A save was refused: its handler ends and nothing else happens.
LEMMA SaveFailedKeeps ==
  ASSUME ProfileInv, NEW i \in DOMAIN saves, SaveFailed(i)
  PROVE  ProfileInv'
<1>1. StateTyped
  BY DEF ProfileInv, PageInv
<1>2. saves' = [saves EXCEPT ![i].future = "over"] /\ UNCHANGED <<users, currentUser, page>>
  BY DEF SaveFailed
<1>3. QED
  BY <1>1, <1>2, FutureOver, QuietKeeps

\* The app is restarted.
LEMMA RestartKeeps ==
  ASSUME ProfileInv, Restart
  PROVE  ProfileInv'
<1>1. StateTyped /\ currentUser \in Users \cup {NoUser}
  BY DEF ProfileInv, PageInv, StateTyped
<1>2. PageClosed /\ users' = users /\ currentUser' = currentUser
  BY DEF Restart, ClosePage, PageClosed
<1>3. QED
  BY <1>1, <1>2, RestartIs, CloseKeeps

\* At first nothing was saved, and a profile holds what its user signed up with.
LEMMA InitKeeps ==
  ASSUME Init
  PROVE  ProfileInv
<1>1. \A u \in Users : users[u] # Missing => users[u] = SignedUp(u)
  BY DEF Init
<1>2. users \in [Users -> Doc]
  BY DEF Init
<1>3. /\ saves \in Seq(Save) /\ Len(saves) = 0 /\ DOMAIN saves = {}
      /\ saves = <<>>
  BY NothingTyped, EmptySeq DEF Init
<1>4. StateTyped
  <2>1. Len(saves) <= MaxSaves
    BY <1>3, MaxSavesAssumption
  <2>2. /\ entered \in UNION {[fs -> Entries] : fs \in SUBSET Fields}
        /\ form \in Form /\ doc \in Doc
    BY NothingTyped, EmptyFormIs DEF Init, Doc
  <2>3. QED
    BY <1>2, <1>3, <2>1, <2>2 DEF Init, StateTyped
<1>5. ClosedPage /\ Loads /\ OneShown /\ Undisturbed
  BY <1>3, NothingTyped DEF Init, ClosedPage, Loads, OneShown, Undisturbed
<1>6. \A u \in Users : NoBlank(SignedUp(u)) /\ NotForeign(SignedUp(u), u)
  BY TextAssumption DEF SignedUp, NoBlank, NotForeign
<1>7. ErasedInv
  BY <1>1, <1>3, <1>6 DEF Init, ErasedInv
<1>8. ForeignInv
  BY <1>1, <1>3, <1>6, UsersAssumption DEF Init, ForeignInv
<1>9. QED
  BY <1>4, <1>5, <1>7, <1>8 DEF ProfileInv, PageInv

\* Every step keeps the invariant.
LEMMA NextKeeps ==
  ASSUME ProfileInv, [Next]_vars
  PROVE  ProfileInv'
<1>1. CASE OpenEdit
  BY <1>1, OpenEditKeeps
<1>2. CASE Back
  BY <1>2, BackKeeps
<1>3. CASE \E i \in DOMAIN saves : Dispose(i)
  BY <1>3, DisposeKeeps
<1>4. CASE \E f \in Fields, e \in Entries : Type(f, e)
  BY <1>4, TypeKeeps
<1>5. CASE LoadDone
  BY <1>5, LoadDoneKeeps
<1>6. CASE TapSave
  BY <1>6, TapSaveKeeps
<1>7. CASE \E i \in DOMAIN saves : SaveDone(i)
  BY <1>7, SaveDoneKeeps
<1>8. CASE \E i \in DOMAIN saves : SaveFailed(i)
  BY <1>8, SaveFailedKeeps
<1>9. CASE ServeGet
  BY <1>9, ServeGetKeeps
<1>10. CASE LoadFailed
  BY <1>10, LoadFailedKeeps
<1>11. CASE \E i \in DOMAIN saves : ServeUpdate(i)
  BY <1>11, ServeUpdateKeeps
<1>12. CASE \E i \in DOMAIN saves : RefuseUpdate(i)
  BY <1>12, RefuseUpdateKeeps
<1>13. CASE \E u \in Users \cup {NoUser} : SessionChange(u)
  BY <1>13, SessionChangeKeeps
<1>14. CASE Restart
  BY <1>14, RestartKeeps
<1>15. CASE UNCHANGED vars
  <2>1. saves' = saves /\ UNCHANGED <<users, currentUser, page>>
    BY <1>15 DEF vars
  <2>2. saves \in Seq(Save)
    BY DEF ProfileInv, PageInv, StateTyped
  <2>3. Kept(saves, saves') /\ SameHosts(saves, saves') /\ SameRequests(saves, saves')
    BY <2>1, <2>2 DEF Kept, SameHosts, SameRequests
  <2>4. QED
    BY <2>1, <2>3, QuietKeeps
<1>16. QED
  BY <1>1, <1>2, <1>3, <1>4, <1>5, <1>6, <1>7, <1>8, <1>9, <1>10, <1>11, <1>12, <1>13,
     <1>14, <1>15 DEF Next

\* The invariant holds in every state that is reached.
LEMMA ProfileInvariant == Spec => []ProfileInv
BY InitKeeps, NextKeeps, PTL DEF Spec

-----------------------------------------------------------------------------
(***************************************************************************)
(* The theorems.                                                           *)
(***************************************************************************)

(***************************************************************************)
(* The variables have their types and the spinner of the page is that of   *)
(* exactly one call of _updateData, which takes the button away.           *)
(***************************************************************************)
THEOREM ProfileTypeCorrect == Spec => []TypeOK
<1>1. ProfileInv => TypeOK
  <2> SUFFICES ASSUME ProfileInv PROVE TypeOK
    OBVIOUS
  <2>1. StateTyped /\ OneShown
    BY DEF ProfileInv, PageInv
  <2>2. CASE isLoading
    <3>1. saves # <<>> /\ Shown(Len(saves))
      BY <2>1, <2>2 DEF OneShown
    <3>2. Len(saves) \in DOMAIN saves
      BY <2>1, <3>1, Typed, EmptySeq DEF StateTyped
    <3>3. {i \in DOMAIN saves : Shown(i)} = {Len(saves)}
      BY <2>1, <3>1, <3>2 DEF OneShown
    <3>4. QED
      BY <2>1, <2>2, <3>3, FS_Singleton DEF TypeOK, StateTyped
  <2>3. CASE ~isLoading
    <3>1. {i \in DOMAIN saves : Shown(i)} = {}
      BY <2>1, <2>3 DEF OneShown
    <3>2. QED
      BY <2>1, <2>3, <3>1, FS_EmptySet DEF TypeOK, StateTyped
  <2>4. QED
    BY <2>2, <2>3
<1>2. QED
  BY <1>1, ProfileInvariant, PTL

(***************************************************************************)
(* The form of an undisturbed page that _loadCurrentData has filled is the *)
(* profile with what was typed: saving it changes nothing else.            *)
(***************************************************************************)
THEOREM QuietForm == Spec => []QuietFormIsTrue
<1>1. ProfileInv => QuietFormIsTrue
  BY ViewIs DEF ProfileInv, Undisturbed, Agrees, QuietFormIsTrue
<1>2. QED
  BY <1>1, ProfileInvariant, PTL

(***************************************************************************)
(* Only a save tapped before _loadCurrentData has filled its form erases a *)
(* field of a profile.                                                     *)
(***************************************************************************)
THEOREM ErasedField == Spec => []ErasedFieldHasCause
<1>1. ProfileInv => ErasedFieldHasCause
  BY DEF ProfileInv, ErasedInv, NoBlank, ErasedFieldHasCause
<1>2. QED
  BY <1>1, ProfileInvariant, PTL

(***************************************************************************)
(* Only a save on a page that somebody else has opened puts the data of    *)
(* one user into the profile of another.                                   *)
(***************************************************************************)
THEOREM ForeignData == Spec => []ForeignDataHasCause
<1>1. ProfileInv => ForeignDataHasCause
  BY DEF ProfileInv, ForeignInv, NotForeign, ForeignDataHasCause
<1>2. QED
  BY <1>1, ProfileInvariant, PTL
=============================================================================
