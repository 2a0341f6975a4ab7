--------------------------- MODULE WritePipeline ----------------------------
(***************************************************************************)
(* How a write reaches the server: the Firestore client library the app is *)
(* built with on iOS (SyncEngine, LocalStore and its mutation queue,       *)
(* RemoteStore, WriteStream) and the part of Firebase Auth that hands it   *)
(* its credentials.  Orders, wishlist entries and profiles all take this   *)
(* way.                                                                    *)
(*                                                                         *)
(* Four threads of control meet: Auth sets its user and reads tokens,      *)
(* their callbacks run in turn on the main queue, everything of Firestore  *)
(* runs in turn on the worker queue, and the server answers when it likes. *)
(* Timers and stream events run on the worker queue too; as closing the    *)
(* stream cancels them, they are actions and not entries of the queue.     *)
(***************************************************************************)
EXTENDS Naturals, FiniteSets, SequencesExt

CONSTANTS
  Users,              \* uids of Firebase accounts
  NoUser,             \* nobody is signed in: a queue and a token of its own
  kMaxPendingWrites,  \* how many writes are in the pipeline at most
  MaxWrites,          \* bound on the writes the app makes
  MaxDisruptions      \* bound on user changes, stream errors and crashes

ASSUME UsersAssumption == NoUser \notin Users
ASSUME PendingAssumption == kMaxPendingWrites \in Nat \ {0}
ASSUME BoundsAssumption == MaxWrites \in Nat /\ MaxDisruptions \in Nat

VARIABLES
  currentUser,    \* Auth._currentUser
  unposted,       \* sign-ins that have set it and not yet posted a notification
  mainQueue,      \* blocks on the main queue
  contents,       \* FirebaseAuthCredentialsProvider::contents_
  worker_queue,   \* operations on Firestore's worker queue
  current_user,   \* SyncEngine::current_user_, whose mutation queue is open
  mutations,      \* user -> batches on disk, oldest first
  next_batch_id,  \* of the open mutation queue
  callbacks,      \* SyncEngine::mutation_callbacks_
  remote,         \* RemoteStore and its WriteStream
  tokens,         \* GetToken requests Auth has not answered
  writes,         \* every write the app has made, oldest first
  disruptions     \* how many there have been

auth == <<currentUser, unposted, mainQueue, contents, tokens>>
local == <<current_user, mutations, next_batch_id, callbacks, remote>>
vars == <<auth, worker_queue, local, writes, disruptions>>

-----------------------------------------------------------------------------
AnyUser == Users \cup {NoUser}

Batch == [id : Nat \ {0}, w : 1..MaxWrites]

(***************************************************************************)
(* A write: author is the user the provider knew when the app made it;     *)
(* told is what the app was told; stored, as and refused are whether, and  *)
(* under whose token, the server took it, and whether it refused it;       *)
(* lostAck: it was taken and the answer went down with the stream;         *)
(* garbled: the answer came and could not be read; raced: it was sent with *)
(* a token of another user than the one last posted.                       *)
(***************************************************************************)
Write == [author  : AnyUser,
          told    : {"nothing", "waiting", "ok", "failed", "lost", "gone"},
          stored  : BOOLEAN,
          as      : SUBSET AnyUser,
          refused : BOOLEAN,
          lostAck : BOOLEAN,
          garbled : BOOLEAN,
          raced   : BOOLEAN]

(***************************************************************************)
(* A token: the request belongs to the start of the stream with that close *)
(* count; counter is token_counter when it was made; user is whose token   *)
(* it is.  A token callback on the main queue and the operation it leaves  *)
(* on the worker queue carry the same record.                              *)
(***************************************************************************)
Token == [close_count : Nat, counter : Nat, user : AnyUser, read : BOOLEAN,
          raced : BOOLEAN, ok : BOOLEAN]

Message == [kind : {"handshake", "write", "refusal"}, w : 0..MaxWrites]

Remote == [state              : {"Initial", "Starting", "Open", "Error", "Backoff"},
           handshake_complete : BOOLEAN,
           close_count        : Nat,
           idle               : BOOLEAN,       \* idleness_timer_ is set
           user               : AnyUser,       \* whose token the stream has
           raced              : BOOLEAN,
           write_pipeline     : Seq(Batch),
           toServer           : Seq(Message),
           fromServer         : Seq(Message)]

Block == [kind : {"notification"}, user : AnyUser]
           \cup [kind : {"token"}, token : Token]
Operation == [kind : {"credential"}, user : AnyUser]
           \cup [kind : {"token"}, token : Token]
           \cup [kind : {"write"}, w : 1..MaxWrites]

TypeOK ==
  /\ currentUser \in AnyUser
  /\ unposted \subseteq Users
  /\ mainQueue \in Seq(Block)
  /\ contents \in [current_user : AnyUser, token_counter : Nat]
  /\ worker_queue \in Seq(Operation)
  /\ current_user \in AnyUser
  /\ mutations \in [AnyUser -> Seq(Batch)]
  /\ next_batch_id \in Nat \ {0}
  /\ callbacks \subseteq [user : AnyUser, id : Nat \ {0}, w : 1..MaxWrites]
  /\ remote \in Remote
  /\ tokens \subseteq Token
  /\ writes \in Seq(Write)
  /\ Len(writes) <= MaxWrites
  /\ disruptions \in 0..MaxDisruptions

-----------------------------------------------------------------------------
(***************************************************************************)
(* Stream: the state machine under the write stream, as functions of r,    *)
(* the record remote.  Starting it asks for a token.                       *)
(***************************************************************************)
IsOpen(r) == r.state = "Open"
IsStarted(r) == r.state \in {"Starting", "Backoff", "Open"}

\* Stream::Start; RequestCredentials is NewRequests below.
Start(r) == [r EXCEPT !.state = IF @ = "Error" THEN "Backoff" ELSE "Starting"]

\* The requests for a token after the step from remote to r.
NewRequests(r) ==
  IF r.state = "Starting" /\ (remote.state # "Starting" \/ r.close_count # remote.close_count)
    THEN tokens \cup {[close_count |-> r.close_count, counter |-> contents.token_counter,
                       user |-> NoUser, read |-> FALSE, raced |-> FALSE, ok |-> TRUE]}
    ELSE tokens

\* Close up to the notification of RemoteStore, after which the handshake is
\* forgotten; what was under way on the wire is lost.
Close(r, status) ==
  [r EXCEPT !.state = IF status = "ok" THEN "Initial" ELSE "Error",
            !.close_count = @ + 1, !.idle = FALSE, !.user = NoUser, !.raced = FALSE,
            !.toServer = <<>>, !.fromServer = <<>>]

Closed(r) == [r EXCEPT !.handshake_complete = FALSE]

Stop(r) == IF IsStarted(r) THEN Closed(Close(r, "ok")) ELSE r

InhibitBackoff(r) == [r EXCEPT !.state = "Initial"]

Send(r, batches) ==
  [r EXCEPT !.toServer = @ \o [i \in DOMAIN batches |-> [kind |-> "write", w |-> batches[i].w]],
            !.idle = @ /\ batches = <<>>]

-----------------------------------------------------------------------------
(***************************************************************************)
(* RemoteStore.  The app never disables the network.                       *)
(***************************************************************************)
ShouldStartWriteStream(r) == ~IsStarted(r) /\ r.write_pipeline # <<>>

StartIfNeeded(r) == IF ShouldStartWriteStream(r) THEN Start(r) ELSE r

\* What GetNextMutationBatch finds one by one: disk is in the order of the ids,
\* and it seeks the first one after last.
BatchesAfter(queue, last) ==
  LET after == {i \in DOMAIN queue : queue[i].id > last}
  IN  IF after = {} THEN <<>> ELSE SubSeq(queue, Min(after), Len(queue))

\* Mutant: one batch more than the limit.
FillWritePipelineOverfull(r, queue) ==
  LET last  == IF r.write_pipeline = <<>> THEN 0 ELSE Last(r.write_pipeline).id
      later == BatchesAfter(queue, last)
      room  == kMaxPendingWrites + 1 - Len(r.write_pipeline)
      added == SubSeq(later, 1, IF room < Len(later) THEN room ELSE Len(later))
      full  == [r EXCEPT !.write_pipeline = @ \o added]
  IN  StartIfNeeded(
        IF full.write_pipeline = <<>> THEN [full EXCEPT !.idle = IsOpen(r)]
        ELSE IF IsOpen(r) /\ r.handshake_complete THEN Send(full, added) ELSE full)

\* From the mutation queue: the batches after the last one in the pipeline,
\* as many as fit, each sent at once when the stream is established.
FillWritePipeline(r, queue) ==
  LET last  == IF r.write_pipeline = <<>> THEN 0 ELSE Last(r.write_pipeline).id
      later == BatchesAfter(queue, last)
      room  == kMaxPendingWrites - Len(r.write_pipeline)
      added == SubSeq(later, 1, IF room < Len(later) THEN room ELSE Len(later))
      full  == [r EXCEPT !.write_pipeline = @ \o added]
  IN  StartIfNeeded(
        IF full.write_pipeline = <<>> THEN [full EXCEPT !.idle = IsOpen(r)]
        ELSE IF IsOpen(r) /\ r.handshake_complete THEN Send(full, added) ELSE full)

\* Mutant: the pipeline is kept.
RestartNetworkKeepsPipeline(r, queue) ==
  FillWritePipeline(InhibitBackoff(Stop(r)), queue)

RestartNetwork(r, queue) ==
  FillWritePipeline(InhibitBackoff([Stop(r) EXCEPT !.write_pipeline = <<>>]), queue)

-----------------------------------------------------------------------------
(***************************************************************************)
(* Firebase Auth and the credentials provider.                             *)
(***************************************************************************)
Disrupt == disruptions < MaxDisruptions /\ disruptions' = disruptions + 1

Notification(u) == [kind |-> "notification", user |-> u]

\* The user the last notification told of, whether or not it has run.
LastPosted ==
  LET posted == {i \in DOMAIN mainQueue : mainQueue[i].kind = "notification"}
  IN  IF posted = {} THEN contents.current_user ELSE mainQueue[Max(posted)].user

\* possiblyPostAuthStateChangeNotification: not twice for the same token.
Post(u) ==
  \/ mainQueue' = Append(mainQueue, Notification(u))
  \/ u = LastPosted /\ UNCHANGED mainQueue

\* A login or signup sets the user from a task of its own, and then posts.
SignIn(u) ==
  /\ u # currentUser
  /\ Disrupt
  /\ currentUser' = u
  /\ unposted' = unposted \cup {u}
  /\ UNCHANGED <<mainQueue, contents, tokens, worker_queue, local, writes>>

\* What it posts may be what it has set or what another task has set since.
PostSignIn(u) ==
  /\ unposted' = unposted \ {u}
  /\ \E v \in {u, currentUser} : Post(v)
  /\ UNCHANGED <<currentUser, contents, tokens, worker_queue, local, writes, disruptions>>

\* signOut does both in one block of Auth's work queue, and so does a token
\* that was refreshed, whose user is the same.
ChangeOnWorkQueue(u) ==
  /\ currentUser # NoUser
  /\ u \in {NoUser, currentUser}
  /\ Disrupt
  /\ currentUser' = u
  /\ Post(u)
  /\ UNCHANGED <<unposted, contents, tokens, worker_queue, local, writes>>

\* getToken reads the user in a block of the work queue.
ReadUser(t) ==
  /\ ~t.read
  /\ tokens' = (tokens \ {t}) \cup {[t EXCEPT !.user = currentUser, !.read = TRUE,
                                             !.raced = currentUser # LastPosted]}
  /\ UNCHANGED <<currentUser, unposted, mainQueue, contents, worker_queue, local, writes,
                 disruptions>>

\* The token of that user, or an error, some time later.
FetchToken(t) ==
  /\ t.read
  /\ tokens' = tokens \ {t}
  /\ \/ /\ mainQueue' = Append(mainQueue, [kind |-> "token", token |-> t])
        /\ UNCHANGED disruptions
     \/ /\ t.user # NoUser
        /\ Disrupt
        /\ mainQueue' = Append(mainQueue, [kind |-> "token", token |-> [t EXCEPT !.ok = FALSE]])
  /\ UNCHANGED <<currentUser, unposted, contents, worker_queue, local, writes>>

\* The observer of the notification: provider and worker queue learn of it.
RunNotification ==
  /\ mainQueue # <<>> /\ Head(mainQueue).kind = "notification"
  /\ mainQueue' = Tail(mainQueue)
  /\ contents' = [current_user |-> Head(mainQueue).user,
                  token_counter |-> contents.token_counter + 1]
  /\ worker_queue' = Append(worker_queue,
                            [kind |-> "credential", user |-> Head(mainQueue).user])
  /\ UNCHANGED <<currentUser, unposted, tokens, local, writes, disruptions>>

\* get_token_callback: the request is made again when the user has changed.
\* A token is put on the stream only if the provider knows of a user.
RunTokenCallback ==
  /\ mainQueue # <<>> /\ Head(mainQueue).kind = "token"
  /\ mainQueue' = Tail(mainQueue)
  /\ LET t == Head(mainQueue).token
     IN  IF t.counter # contents.token_counter
           THEN /\ tokens' = tokens \cup {[t EXCEPT !.counter = contents.token_counter,
                                                    !.user = NoUser, !.read = FALSE,
                                                    !.raced = FALSE, !.ok = TRUE]}
                /\ UNCHANGED worker_queue
           ELSE /\ worker_queue' = Append(worker_queue, [kind |-> "token", token |->
                      IF contents.current_user = NoUser THEN [t EXCEPT !.user = NoUser] ELSE t])
                /\ UNCHANGED tokens
  /\ UNCHANGED <<currentUser, unposted, contents, local, writes, disruptions>>

\* The app makes a write, on the main thread.
AppWrites ==
  /\ Len(writes) < MaxWrites
  /\ writes' = Append(writes, [author |-> contents.current_user, told |-> "nothing",
                               stored |-> FALSE, as |-> {}, refused |-> FALSE,
                               lostAck |-> FALSE, garbled |-> FALSE, raced |-> FALSE])
  /\ worker_queue' = Append(worker_queue, [kind |-> "write", w |-> Len(writes')])
  /\ UNCHANGED <<auth, local, disruptions>>

-----------------------------------------------------------------------------
(***************************************************************************)
(* Operations of the worker queue.                                         *)
(***************************************************************************)
NextOperation(kind) == worker_queue # <<>> /\ Head(worker_queue).kind = kind

\* The remote store becomes r.
SetRemote(r) == remote' = r /\ tokens' = NewRequests(r)

\* The answers a close of the stream leaves unread.
Unread == {i \in DOMAIN writes : [kind |-> "write", w |-> i] \in Range(remote.fromServer)}

CutOff(ws) == [i \in DOMAIN ws |-> IF i \in Unread THEN [ws[i] EXCEPT !.lostAck = TRUE]
                                                   ELSE ws[i]]

\* SyncEngine::WriteMutations: on disk, a callback, and off to the pipeline.
\* insert leaves a callback alone that is there under the same id.
RunWrite ==
  /\ NextOperation("write")
  /\ worker_queue' = Tail(worker_queue)
  /\ LET w == Head(worker_queue).w
     IN  /\ mutations' = [mutations EXCEPT ![current_user] =
                            Append(@, [id |-> next_batch_id, w |-> w])]
         /\ callbacks' = IF \E c \in callbacks : c.user = current_user /\ c.id = next_batch_id
                           THEN callbacks
                           ELSE callbacks \cup {[user |-> current_user, id |-> next_batch_id,
                                                 w |-> w]}
         /\ writes' = [writes EXCEPT ![w].told = "waiting"]
  /\ next_batch_id' = next_batch_id + 1
  /\ SetRemote(FillWritePipeline(remote, mutations'[current_user]))
  /\ UNCHANGED <<currentUser, unposted, mainQueue, contents, current_user, disruptions>>

\* Mutant: the highest id there is.
LoadNextBatchIdFromDbMax ==
  Max({0} \cup UNION {{mutations[u][i].id : i \in DOMAIN mutations[u]} : u \in AnyUser})

\* LoadNextBatchIdFromDb: one more than the batches of any user on disk.
LoadNextBatchIdFromDb ==
  1 + Max({0} \cup UNION {{mutations[u][i].id : i \in DOMAIN mutations[u]} : u \in AnyUser})

\* SyncEngine::HandleCredentialChange.
RunCredentialChange ==
  /\ NextOperation("credential")
  /\ worker_queue' = Tail(worker_queue)
  /\ current_user' = Head(worker_queue).user
  /\ next_batch_id' = IF current_user' # current_user THEN LoadNextBatchIdFromDb
                                                      ELSE next_batch_id
  /\ SetRemote(RestartNetwork(remote, mutations[current_user']))
  /\ writes' = CutOff(writes)
  /\ UNCHANGED <<currentUser, unposted, mainQueue, contents, mutations, callbacks,
                 disruptions>>

\* Mutant: the stream is not started again.
AfterTransientErrorStays(r) == Closed(Close(r, "error"))

\* The stream after an error that the write at the front is not to blame for.
AfterTransientError(r) == Closed(StartIfNeeded(Close(r, "error")))

\* Mutant: the close count is not looked at.
RunTokenUnchecked ==
  /\ NextOperation("token")
  /\ worker_queue' = Tail(worker_queue)
  /\ LET t == Head(worker_queue).token
     IN  CASE t.ok ->
                /\ SetRemote([remote EXCEPT !.state = "Open", !.user = t.user,
                                            !.raced = t.raced,
                                            !.toServer = <<[kind |-> "handshake", w |-> 0]>>])
           [] OTHER -> SetRemote(AfterTransientError(remote))
  /\ UNCHANGED <<currentUser, unposted, mainQueue, contents, current_user, mutations,
                 next_batch_id, callbacks, writes, disruptions>>

\* ResumeStartWithCredentials, unless the stream was closed meanwhile: the
\* stream is opened and the handshake is sent.
RunToken ==
  /\ NextOperation("token")
  /\ worker_queue' = Tail(worker_queue)
  /\ LET t == Head(worker_queue).token
     IN  CASE t.close_count # remote.close_count -> UNCHANGED <<remote, tokens>>
           [] t.close_count = remote.close_count /\ t.ok ->
                /\ SetRemote([remote EXCEPT !.state = "Open", !.user = t.user,
                                            !.raced = t.raced,
                                            !.toServer = <<[kind |-> "handshake", w |-> 0]>>])
           [] OTHER -> SetRemote(AfterTransientError(remote))
  /\ UNCHANGED <<currentUser, unposted, mainQueue, contents, current_user, mutations,
                 next_batch_id, callbacks, writes, disruptions>>

-----------------------------------------------------------------------------
(***************************************************************************)
(* The write stream's answers.                                             *)
(***************************************************************************)
NextAnswer(kind) == IsOpen(remote) /\ remote.fromServer # <<>>
                    /\ Head(remote.fromServer).kind = kind

\* remote once the answer at the front has been read.
Answered == [remote EXCEPT !.fromServer = Tail(@)]

\* RemoveMutationBatch, which asserts that the batch is there.
Without(queue, id) == RemoveAt(queue, CHOOSE i \in DOMAIN queue : queue[i].id = id)

\* Mutant: a callback is not erased once it was called.
NotifyUserKeepsCallback(id, verdict, ws) ==
  LET mine == {c \in callbacks : c.user = current_user /\ c.id = id}
  IN  /\ writes' = [i \in DOMAIN ws |->
                      IF \E c \in mine : c.w = i THEN [ws[i] EXCEPT !.told = verdict]
                                                 ELSE ws[i]]
      /\ UNCHANGED callbacks

\* SyncEngine::NotifyUser: the callback under the batch's id, if there is one.
NotifyUser(id, verdict, ws) ==
  LET mine == {c \in callbacks : c.user = current_user /\ c.id = id}
  IN  /\ writes' = [i \in DOMAIN ws |->
                      IF \E c \in mine : c.w = i THEN [ws[i] EXCEPT !.told = verdict]
                                                 ELSE ws[i]]
      /\ callbacks' = callbacks \ mine

\* Mutant: only what is added later is sent.
HandshakeCompleteSendsNothing ==
  /\ NextAnswer("handshake")
  /\ SetRemote([Answered EXCEPT !.handshake_complete = TRUE])
  /\ UNCHANGED <<currentUser, unposted, mainQueue, contents, worker_queue, current_user,
                 mutations, next_batch_id, callbacks, writes, disruptions>>

\* OnWriteStreamHandshakeComplete sends the whole pipeline.
HandshakeComplete ==
  /\ NextAnswer("handshake")
  /\ SetRemote(Send([Answered EXCEPT !.handshake_complete = TRUE], remote.write_pipeline))
  /\ UNCHANGED <<currentUser, unposted, mainQueue, contents, worker_queue, current_user,
                 mutations, next_batch_id, callbacks, writes, disruptions>>

\* OnWriteStreamMutationResult: the answer is for the front of the pipeline.
MutationResult ==
  /\ NextAnswer("write")
  /\ LET id == Head(remote.write_pipeline).id
     IN  /\ mutations' = [mutations EXCEPT ![current_user] = Without(@, id)]
         /\ NotifyUser(id, "ok", writes)
  /\ SetRemote(FillWritePipeline([Answered EXCEPT !.write_pipeline = Tail(@)],
                                 mutations'[current_user]))
  /\ UNCHANGED <<currentUser, unposted, mainQueue, contents, worker_queue, current_user,
                 next_batch_id, disruptions>>

\* Mutant: the callback of a refused write gets OK.
RejectFrontTellsOk(ws) ==
  /\ LET id == Head(remote.write_pipeline).id
     IN  /\ mutations' = [mutations EXCEPT ![current_user] = Without(@, id)]
         /\ NotifyUser(id, "ok", ws)
  /\ SetRemote(Closed(FillWritePipeline(
       InhibitBackoff([Close(remote, "error") EXCEPT !.write_pipeline = Tail(@)]),
       mutations'[current_user])))
  /\ UNCHANGED <<currentUser, unposted, mainQueue, contents, worker_queue, current_user,
                 next_batch_id>>

\* HandleWriteError for a permanent error: the front of the pipeline is to
\* blame, and the stream is started again for the rest without a delay.
RejectFront(ws) ==
  /\ LET id == Head(remote.write_pipeline).id
     IN  /\ mutations' = [mutations EXCEPT ![current_user] = Without(@, id)]
         /\ NotifyUser(id, "failed", ws)
  /\ SetRemote(Closed(FillWritePipeline(
       InhibitBackoff([Close(remote, "error") EXCEPT !.write_pipeline = Tail(@)]),
       mutations'[current_user])))
  /\ UNCHANGED <<currentUser, unposted, mainQueue, contents, worker_queue, current_user,
                 next_batch_id>>

WriteRefused == NextAnswer("refusal") /\ RejectFront(CutOff(writes)) /\ UNCHANGED disruptions

\* A write operation that fails because the server has ended the stream also
\* finishes it, with the server's status, and answers not yet read are lost.
RefusalOvertakes ==
  /\ IsOpen(remote) /\ remote.toServer # <<>>
  /\ \E i \in 2..Len(remote.fromServer) : remote.fromServer[i].kind = "refusal"
  /\ RejectFront(CutOff(writes))
  /\ UNCHANGED disruptions

\* An answer that cannot be parsed or decoded finishes the stream with
\* DataLoss.  That is a permanent error: after the handshake it is blamed on
\* the front of the pipeline, whose answer it was.
AnswerUnreadable ==
  /\ Disrupt
  /\ \/ /\ NextAnswer("handshake")
        /\ SetRemote(AfterTransientError(remote))
        /\ writes' = CutOff(writes)
        /\ UNCHANGED <<currentUser, unposted, mainQueue, contents, worker_queue,
                       current_user, mutations, next_batch_id, callbacks>>
     \/ /\ NextAnswer("write")
        /\ RejectFront([CutOff(writes) EXCEPT ![Head(remote.fromServer).w].garbled = TRUE])

\* Mutant: every error is taken for a permanent one.
StreamBreaksRejects ==
  /\ IsOpen(remote)
  /\ IF remote.handshake_complete /\ remote.write_pipeline # <<>>
       THEN Disrupt /\ RejectFront(CutOff(writes))
       ELSE /\ Disrupt
            /\ SetRemote(AfterTransientError(remote))
            /\ writes' = CutOff(writes)
            /\ UNCHANGED <<currentUser, unposted, mainQueue, contents, worker_queue,
                           current_user, mutations, next_batch_id, callbacks>>

\* A lost connection, a server that is not available, an expired token; the
\* connectivity monitor ends calls the same way.
StreamBreaks ==
  /\ IsOpen(remote)
  /\ Disrupt
  /\ SetRemote(AfterTransientError(remote))
  /\ writes' = CutOff(writes)
  /\ UNCHANGED <<currentUser, unposted, mainQueue, contents, worker_queue, current_user,
                 mutations, next_batch_id, callbacks>>

\* The network is there again.
ConnectivityChanged ==
  /\ Disrupt
  /\ SetRemote(RestartNetwork(remote, mutations[current_user]))
  /\ writes' = CutOff(writes)
  /\ UNCHANGED <<currentUser, unposted, mainQueue, contents, worker_queue, current_user,
                 mutations, next_batch_id, callbacks>>

BackoffElapsed ==
  /\ remote.state = "Backoff"
  /\ SetRemote(Start([remote EXCEPT !.state = "Initial"]))
  /\ UNCHANGED <<currentUser, unposted, mainQueue, contents, worker_queue, current_user,
                 mutations, next_batch_id, callbacks, writes, disruptions>>

\* The idle timer stops the stream.
IdleTimeout ==
  /\ remote.idle
  /\ SetRemote(StartIfNeeded(Stop(remote)))
  /\ writes' = CutOff(writes)
  /\ UNCHANGED <<currentUser, unposted, mainQueue, contents, worker_queue, current_user,
                 mutations, next_batch_id, callbacks, disruptions>>

-----------------------------------------------------------------------------
(***************************************************************************)
(* The server: it takes the messages of a stream in turn.  One write that  *)
(* it refuses ends the stream.  It takes nothing more from a stream the    *)
(* client has closed.                                                      *)
(***************************************************************************)
ServerReads(kind) ==
  /\ IsOpen(remote) /\ remote.toServer # <<>>
  /\ Head(remote.toServer).kind = kind
  /\ \A i \in DOMAIN remote.fromServer : remote.fromServer[i].kind # "refusal"
  /\ UNCHANGED <<auth, worker_queue, current_user, mutations, next_batch_id, callbacks,
                 disruptions>>

ServerAnswers(kind, w) ==
  remote' = [remote EXCEPT !.toServer = Tail(@),
                           !.fromServer = Append(@, [kind |-> kind, w |-> w])]

ServerHandshake ==
  /\ ServerReads("handshake")
  /\ ServerAnswers("handshake", 0)
  /\ UNCHANGED writes

ServerStores ==
  /\ ServerReads("write")
  /\ LET w == Head(remote.toServer).w
     IN  /\ ServerAnswers("write", w)
         /\ writes' = [writes EXCEPT ![w].stored = TRUE, ![w].as = @ \cup {remote.user},
                                     ![w].raced = @ \/ remote.raced]

ServerRefuses ==
  /\ ServerReads("write")
  /\ ServerAnswers("refusal", Head(remote.toServer).w)
  /\ writes' = [writes EXCEPT ![Head(remote.toServer).w].refused = TRUE]

(***************************************************************************)
(* The process dies and the app starts again.  Auth loads its user from    *)
(* the keychain, and Firestore may ask before or after; what is on disk is *)
(* sent again, without anybody waiting for it.                             *)
(***************************************************************************)
FreshRemote == [state |-> "Initial", handshake_complete |-> FALSE, close_count |-> 0,
                idle |-> FALSE, user |-> NoUser, raced |-> FALSE, write_pipeline |-> <<>>,
                toServer |-> <<>>, fromServer |-> <<>>]

Restart ==
  /\ Disrupt
  /\ \E u \in {NoUser, currentUser} :
       /\ contents' = [current_user |-> u, token_counter |-> 0]
       /\ current_user' = u
       /\ mainQueue' = IF u = currentUser THEN <<>> ELSE <<Notification(currentUser)>>
  /\ unposted' = {}
  /\ worker_queue' = <<>>
  /\ next_batch_id' = LoadNextBatchIdFromDb
  /\ callbacks' = {}
  /\ remote' = FillWritePipeline(FreshRemote, mutations[current_user'])
  /\ tokens' = IF remote'.state = "Starting"
                 THEN {[close_count |-> 0, counter |-> 0, user |-> NoUser, read |-> FALSE,
                        raced |-> FALSE, ok |-> TRUE]}
                 ELSE {}
  /\ writes' = [i \in DOMAIN writes |->
                  [CutOff(writes)[i] EXCEPT
                     !.told = CASE @ = "nothing" -> "gone" [] @ = "waiting" -> "lost"
                                [] OTHER -> @]]
  /\ UNCHANGED <<currentUser, mutations>>

Init ==
  /\ currentUser \in AnyUser
  /\ unposted = {}
  /\ mainQueue = <<>>
  /\ contents = [current_user |-> currentUser, token_counter |-> 0]
  /\ worker_queue = <<>>
  /\ current_user = currentUser
  /\ mutations = [u \in AnyUser |-> <<>>]
  /\ next_batch_id = 1
  /\ callbacks = {}
  /\ remote = FreshRemote
  /\ tokens = {}
  /\ writes = <<>>
  /\ disruptions = 0

Next ==
  \/ \E u \in Users : SignIn(u)
  \/ \E u \in unposted : PostSignIn(u)
  \/ \E u \in AnyUser : ChangeOnWorkQueue(u)
  \/ \E t \in tokens : ReadUser(t)
  \/ \E t \in tokens : FetchToken(t)
  \/ RunNotification
  \/ RunTokenCallback
  \/ AppWrites
  \/ RunWrite
  \/ RunCredentialChange
  \/ RunToken
  \/ HandshakeComplete
  \/ MutationResult
  \/ WriteRefused
  \/ RefusalOvertakes
  \/ AnswerUnreadable
  \/ StreamBreaks
  \/ ConnectivityChanged
  \/ BackoffElapsed
  \/ IdleTimeout
  \/ ServerHandshake
  \/ ServerStores
  \/ ServerRefuses
  \/ Restart

Spec == Init /\ [][Next]_vars

(***************************************************************************)
(* The three queues are worked off, Auth comes back with tokens, the       *)
(* backoff elapses and the server answers what reaches it.                 *)
(***************************************************************************)
FairSpec ==
  /\ Spec
  /\ WF_vars(\E u \in unposted : PostSignIn(u))
  /\ WF_vars(\E t \in tokens : ReadUser(t) \/ FetchToken(t))
  /\ WF_vars(RunNotification \/ RunTokenCallback)
  /\ WF_vars(RunWrite \/ RunCredentialChange \/ RunToken)
  /\ WF_vars(HandshakeComplete \/ MutationResult \/ WriteRefused)
  /\ WF_vars(BackoffElapsed)
  /\ WF_vars(ServerHandshake \/ ServerStores \/ ServerRefuses)

-----------------------------------------------------------------------------
(***************************************************************************)
(* The pipeline is the front of the open mutation queue: no batch is left  *)
(* out, sent in another order or sent from another user's queue, whatever  *)
(* restarted the stream.                                                   *)
(***************************************************************************)
PipelineIsQueueFront ==
  /\ IsPrefix(remote.write_pipeline, mutations[current_user])
  /\ Len(remote.write_pipeline) <= kMaxPendingWrites

(***************************************************************************)
(* An answer carries no id: RemoteStore takes it for the front of the      *)
(* pipeline.  On an established stream the answers under way, and after    *)
(* them the writes under way, are exactly the pipeline, in its order.      *)
(***************************************************************************)
OnTheWire == [i \in 1..(Len(remote.fromServer) + Len(remote.toServer)) |->
                (remote.fromServer \o remote.toServer)[i].w]

AnswersMatchPipeline ==
  IF IsOpen(remote) /\ remote.handshake_complete
    THEN OnTheWire = [i \in DOMAIN remote.write_pipeline |-> remote.write_pipeline[i].w]
    ELSE OnTheWire \in {<<>>, <<0>>}

(***************************************************************************)
(* The assertions of stream.cc, remote_store.cc and local_store.cc that    *)
(* other threads could break: a token arrives only for a stream that is    *)
(* starting, a result only when a write waits for one, a stream is stopped *)
(* for idleness only when it is not needed, and a batch that is answered   *)
(* is on disk.                                                             *)
(***************************************************************************)
AssertionsHold ==
  /\ NextOperation("token") /\ Head(worker_queue).token.close_count = remote.close_count =>
       remote.state = "Starting"
  /\ NextAnswer("write") \/ NextAnswer("refusal") =>
       /\ remote.write_pipeline # <<>>
       /\ Head(remote.write_pipeline) \in Range(mutations[current_user])
  /\ remote.idle => remote.write_pipeline = <<>> /\ IsOpen(remote)

(***************************************************************************)
(* A callback waits under the id of the batch on disk that it was made     *)
(* for.  Ids are used again once a queue was reopened, and a callback left *)
(* behind would be called for another write.                               *)
(***************************************************************************)
CallbackIsForItsBatch ==
  \A c \in callbacks :
    [id |-> c.id, w |-> c.w] \in Range(mutations[c.user]) /\ writes[c.w].told = "waiting"

(***************************************************************************)
(* The server takes a write under the token of the user the provider knew  *)
(* when it was made, unless Auth had another user than the one it had last *)
(* posted when the token was read: a sign-in sets the user first and posts *)
(* it later, and two that overlap may post in the other order.             *)
(***************************************************************************)
WritesGoOutAsTheirAuthor ==
  \A i \in DOMAIN writes : writes[i].as \subseteq {writes[i].author} \/ writes[i].raced

(***************************************************************************)
(* The app is told that a write failed only when the server has refused    *)
(* it, and never for a broken stream.  Two exceptions: when a refusal cuts *)
(* off the answers before it, the write it is blamed on was taken, and a   *)
(* later one was refused; and a write whose answer could not be read was   *)
(* taken and counts as failed.  And the server has a write that failed     *)
(* only if an answer for it was lost with its stream.                      *)
(***************************************************************************)
FailureHasCause ==
  \A i \in DOMAIN writes :
    writes[i].told = "failed" =>
      /\ \/ writes[i].refused
         \/ writes[i].stored /\ \E j \in DOMAIN writes : j > i /\ writes[j].refused
         \/ writes[i].stored /\ writes[i].garbled
      /\ writes[i].stored => writes[i].lostAck

(***************************************************************************)
(* All this implements the queue of module WriteQueue.                     *)
(***************************************************************************)
Queue ==
  INSTANCE WriteQueue WITH
    Users <- AnyUser,
    user <- current_user,
    queue <- [u \in AnyUser |-> [i \in DOMAIN mutations[u] |-> mutations[u][i].w]],
    stored <- {i \in DOMAIN writes : writes[i].stored},
    told <- [w \in 1..MaxWrites |->
               IF w \in DOMAIN writes /\ writes[w].told # "gone" THEN writes[w].told
                                                                 ELSE "nothing"]

QueueSpec == Queue!Spec
QueueFairSpec == Queue!FairSpec
=============================================================================
