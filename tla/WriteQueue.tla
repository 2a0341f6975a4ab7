----------------------------- MODULE WriteQueue -----------------------------
(***************************************************************************)
(* What the app relies on when it awaits a write in Firestore, and what    *)
(* the modules Checkout, Wishlist and Profile take for granted: writes     *)
(* wait in a queue per user that outlives the process, the queue of the    *)
(* signed-in user is answered from the front, an answer goes to whoever    *)
(* made that write and to nobody else, and a write is confirmed only when  *)
(* the server has it.                                                      *)
(***************************************************************************)
EXTENDS Naturals, Sequences, Functions

CONSTANTS
  Users,      \* users with a queue, the one that is signed out among them
  MaxWrites   \* bound on the writes

VARIABLES
  user,    \* whose queue is open
  queue,   \* user -> the writes that wait, oldest first
  stored,  \* writes the server has taken
  told     \* write -> what its caller has been told

vars == <<user, queue, stored, told>>

Writes == 1..MaxWrites

Init ==
  /\ user \in Users
  /\ queue = [u \in Users |-> <<>>]
  /\ stored = {}
  /\ told = [w \in Writes |-> "nothing"]

Submit(w) ==
  /\ told[w] = "nothing"
  /\ \A u \in Users : w \notin Range(queue[u])
  /\ told' = [told EXCEPT ![w] = "waiting"]
  /\ queue' = [queue EXCEPT ![user] = Append(@, w)]
  /\ UNCHANGED <<user, stored>>

\* The server takes a write that still waits; more than once changes nothing.
Store(w) ==
  /\ \E u \in Users : w \in Range(queue[u])
  /\ stored' = stored \cup {w}
  /\ UNCHANGED <<user, queue, told>>

\* The front of the open queue is answered; its caller may be gone by then.
Answer(verdict) ==
  /\ queue[user] # <<>>
  /\ LET w == Head(queue[user])
     IN  /\ verdict = "ok" => w \in stored
         /\ told' = [told EXCEPT ![w] = IF @ = "waiting" THEN verdict ELSE @]
  /\ queue' = [queue EXCEPT ![user] = Tail(@)]
  /\ UNCHANGED <<user, stored>>

ChangeUser(u) ==
  /\ user' = u
  /\ UNCHANGED <<queue, stored, told>>

\* The process dies: who waited is told nothing any more, the queues stay.
Crash(u) ==
  /\ user' = u
  /\ told' = [w \in Writes |-> IF told[w] = "waiting" THEN "lost" ELSE told[w]]
  /\ UNCHANGED <<queue, stored>>

Next ==
  \/ \E w \in Writes : Submit(w) \/ Store(w)
  \/ \E verdict \in {"ok", "failed"} : Answer(verdict)
  \/ \E u \in Users : ChangeUser(u) \/ Crash(u)

Spec == Init /\ [][Next]_vars

\* The queue of the signed-in user does not stand still.
FairSpec == Spec /\ WF_vars(\E verdict \in {"ok", "failed"} : Answer(verdict))
=============================================================================
