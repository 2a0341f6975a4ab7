------------------------ MODULE WritePipelineProofs -------------------------
(***************************************************************************)
(* Module WritePipeline for any users, any number of writes and any size   *)
(* of the pipeline: type correctness, its safety properties, and that it   *)
(* implements the queue of module WriteQueue.                              *)
(***************************************************************************)
EXTENDS WritePipeline, CommonLemmas

-----------------------------------------------------------------------------
(***************************************************************************)
(* The inductive invariant: the disk.  A queue is in the order its writes  *)
(* were made in, under ids that are not used again before it is empty, and *)
(* holds writes of its user that have not been answered.                   *)
(***************************************************************************)
Ordered(q) == \A i, j \in DOMAIN q : i < j => q[i].id < q[j].id /\ q[i].w < q[j].w

Numbered(q, n) == \A i \in DOMAIN q : 0 < q[i].id /\ q[i].id < n

Unanswered(q, u, ws) ==
  \A i \in DOMAIN q : /\ q[i].w \in DOMAIN ws
                      /\ ws[q[i].w].author = u
                      /\ ws[q[i].w].told \in {"waiting", "lost"}

DiskOK(ms, n, ws) ==
  \A u \in AnyUser : Ordered(ms[u]) /\ Numbered(ms[u], n) /\ Unanswered(ms[u], u, ws)

\* The writes on the worker queue, in order too, are later than those on disk.
IsWrite(wq, j) == wq[j].kind = "write"

Queued(wq, ws, ms) ==
  \A j \in DOMAIN wq : IsWrite(wq, j) =>
    /\ wq[j].w \in DOMAIN ws
    /\ ws[wq[j].w].told = "nothing"
    /\ ~ws[wq[j].w].stored
    /\ \A k \in DOMAIN wq : j < k /\ IsWrite(wq, k) => wq[j].w < wq[k].w
    /\ \A u \in AnyUser : \A i \in DOMAIN ms[u] : ms[u][i].w < wq[j].w

\* A callback is there for every batch whose caller waits, and for no other.
CallbackOf(u, b) == [user |-> u, id |-> b.id, w |-> b.w]

Waiting(cs, ms, ws) ==
  /\ \A c \in cs : \E i \in DOMAIN ms[c.user] :
       c = CallbackOf(c.user, ms[c.user][i]) /\ ws[c.w].told = "waiting"
  /\ \A u \in AnyUser : \A i \in DOMAIN ms[u] :
       ws[ms[u][i].w].told = "waiting" => CallbackOf(u, ms[u][i]) \in cs

LocalOK(ms, n, cs, wq, ws) == DiskOK(ms, n, ws) /\ Queued(wq, ws, ms) /\ Waiting(cs, ms, ws)

LocalInv == LocalOK(mutations, next_batch_id, callbacks, worker_queue, writes) /\ 0 < next_batch_id

-----------------------------------------------------------------------------
(***************************************************************************)
(* The stream r over the queue q.  A stream that is closed has nothing on  *)
(* the wire, one that is needed is not idle, an open one carries either    *)
(* the handshake or the pipeline, the answers first.                       *)
(***************************************************************************)
FrontOf(p, q) == Len(p) <= Len(q) /\ \A i \in DOMAIN p : p[i] = q[i]

Handshake == [kind |-> "handshake", w |-> 0]

Established(r) == r.state = "Open" /\ r.handshake_complete

NothingSent(r) == r.toServer = <<>> /\ r.fromServer = <<>> /\ ~r.handshake_complete

Greeting(r) == /\ ~r.handshake_complete
               /\ \/ r.toServer = <<Handshake>> /\ r.fromServer = <<>>
                  \/ r.toServer = <<>> /\ r.fromServer = <<Handshake>>

Carried(pipeline, to, from) ==
  /\ Len(pipeline) = Len(from) + Len(to)
  /\ \A i \in DOMAIN from : /\ from[i].w = pipeline[i].w
                            /\ from[i].kind \in {"write", "refusal"}
                            /\ from[i].kind = "refusal" => i = Len(from)
  /\ \A i \in DOMAIN to : to[i].w = pipeline[Len(from) + i].w /\ to[i].kind = "write"

Carries(r) == Carried(r.write_pipeline, r.toServer, r.fromServer)

StreamOK(r, q) ==
  /\ FrontOf(r.write_pipeline, q) /\ Len(r.write_pipeline) <= kMaxPendingWrites
  /\ r.state # "Open" => NothingSent(r)
  /\ r.state = "Open" /\ ~r.handshake_complete => Greeting(r)
  /\ Established(r) => Carries(r)
  /\ IsStarted(r) /\ ~Established(r) => r.write_pipeline # <<>>
  /\ r.idle => Established(r) /\ r.write_pipeline = <<>>

StreamInv == StreamOK(remote, mutations[current_user])

(***************************************************************************)
(* The answers under way are true, and of a write on disk that the server  *)
(* has, the answer is under way or was lost.                               *)
(***************************************************************************)
AnswersTrue(from, ws) ==
  \A i \in DOMAIN from : /\ from[i].kind = "write" => ws[from[i].w].stored
                         /\ from[i].kind = "refusal" => ws[from[i].w].refused

AnswerUnderWay(from, w) == \E k \in DOMAIN from : from[k].kind = "write" /\ from[k].w = w

Lost(from, ms, ws) ==
  \A u \in AnyUser : \A i \in DOMAIN ms[u] :
    ws[ms[u][i].w].stored => ws[ms[u][i].w].lostAck \/ AnswerUnderWay(from, ms[u][i].w)

Failures(ws) ==
  \A i \in DOMAIN ws :
    ws[i].told = "failed" =>
      /\ \/ ws[i].refused
         \/ ws[i].stored /\ \E j \in DOMAIN ws : j > i /\ ws[j].refused
         \/ ws[i].stored /\ ws[i].garbled
      /\ ws[i].stored => ws[i].lostAck

AnswersOK(from, ms, ws) == AnswersTrue(from, ws) /\ Lost(from, ms, ws) /\ Failures(ws)

AnswersInv == AnswersOK(remote.fromServer, mutations, writes)

-----------------------------------------------------------------------------
(***************************************************************************)
(* The requests for a token.  Of those made for the stream as it is now,   *)
(* cc being its close count, there is at most one, with Auth, on the main  *)
(* queue or on the worker queue, and none unless the stream is starting.   *)
(***************************************************************************)
TokenAt(q, i, cc) == q[i].kind = "token" /\ q[i].token.close_count = cc

NoToken(T, mq, wq, cc) ==
  /\ \A t \in T : t.close_count # cc
  /\ \A i \in DOMAIN mq : ~TokenAt(mq, i, cc)
  /\ \A i \in DOMAIN wq : ~TokenAt(wq, i, cc)

OneToken(T, mq, wq, cc) ==
  /\ \A s, t \in T : s.close_count = cc /\ t.close_count = cc => s = t
  /\ \A i, j \in DOMAIN mq : TokenAt(mq, i, cc) /\ TokenAt(mq, j, cc) => i = j
  /\ \A i, j \in DOMAIN wq : TokenAt(wq, i, cc) /\ TokenAt(wq, j, cc) => i = j
  /\ \A t \in T, i \in DOMAIN mq : ~(t.close_count = cc /\ TokenAt(mq, i, cc))
  /\ \A t \in T, i \in DOMAIN wq : ~(t.close_count = cc /\ TokenAt(wq, i, cc))
  /\ \A i \in DOMAIN mq, j \in DOMAIN wq : ~(TokenAt(mq, i, cc) /\ TokenAt(wq, j, cc))

NotLater(T, mq, wq, cc) ==
  /\ \A t \in T : t.close_count <= cc
  /\ \A i \in DOMAIN mq : mq[i].kind = "token" => mq[i].token.close_count <= cc
  /\ \A i \in DOMAIN wq : wq[i].kind = "token" => wq[i].token.close_count <= cc

TokensOK(T, mq, wq, cc, state) ==
  /\ NotLater(T, mq, wq, cc)
  /\ OneToken(T, mq, wq, cc)
  /\ state # "Starting" => NoToken(T, mq, wq, cc)

TokenInv == TokensOK(tokens, mainQueue, worker_queue, remote.close_count, remote.state)

-----------------------------------------------------------------------------
(***************************************************************************)
(* Who is signed in, along the queues.  The user the provider knows is the *)
(* user of Firestore once the worker queue is worked off; a token whose    *)
(* counter is still current is one of that user, unless it was raced.      *)
(***************************************************************************)
IsNotification(mq, i) == mq[i].kind = "notification"

NoNews(mq) == \A i \in DOMAIN mq : ~IsNotification(mq, i)

Current(t, n, u) == t.counter <= n /\ (t.counter = n => t.raced \/ t.user = u)

\* n and u are the provider's counter and user.
CallbacksCurrent(mq, n, u) ==
  \A k \in DOMAIN mq : mq[k].kind = "token" =>
    /\ mq[k].token.counter <= n
    /\ (\A i \in DOMAIN mq : i < k => ~IsNotification(mq, i)) => Current(mq[k].token, n, u)

RequestsCurrent(T, mq, n, u) ==
  \A t \in T : /\ t.counter <= n
               /\ t.read /\ NoNews(mq) => Current(t, n, u)

MainInv ==
  /\ CallbacksCurrent(mainQueue, contents.token_counter, contents.current_user)
  /\ RequestsCurrent(tokens, mainQueue, contents.token_counter, contents.current_user)

\* us[k] is the user of Firestore when the operation at k runs.
Along(us, q, ws) ==
  \A k \in DOMAIN q :
    /\ us[k + 1] = IF q[k].kind = "credential" THEN q[k].user ELSE us[k]
    /\ q[k].kind = "write" => ws[q[k].w].author = us[k]
    /\ q[k].kind = "token" => q[k].token.raced \/ q[k].token.user = us[k]

UsersAlong(q, first, last, ws) ==
  \E us \in [1..(Len(q) + 1) -> AnyUser] :
    us[1] = first /\ us[Len(q) + 1] = last /\ Along(us, q, ws)

WorkerInv == UsersAlong(worker_queue, current_user, contents.current_user, writes)

Authors(ws) == \A i \in DOMAIN ws : ws[i].as \subseteq {ws[i].author} \/ ws[i].raced

UserInv ==
  /\ MainInv
  /\ WorkerInv
  /\ remote.state = "Open" => remote.raced \/ remote.user = current_user
  /\ Authors(writes)

Inv == TypeOK /\ LocalInv /\ StreamInv /\ AnswersInv /\ TokenInv /\ UserInv

-----------------------------------------------------------------------------
(***************************************************************************)
(* The operations of the stream, field by field.                           *)
(***************************************************************************)

\* The fields of n.
Stream(n, state, handshake, close_count, idle, user, raced, pipeline, to, from) ==
  /\ n \in Remote
  /\ n.state = state /\ n.handshake_complete = handshake /\ n.close_count = close_count
  /\ n.idle = idle /\ n.user = user /\ n.raced = raced
  /\ n.write_pipeline = pipeline /\ n.toServer = to /\ n.fromServer = from

\* n is r, its state apart.
InState(n, r, state) ==
  Stream(n, state, r.handshake_complete, r.close_count, r.idle, r.user, r.raced,
         r.write_pipeline, r.toServer, r.fromServer)

\* The types of the fields.
LEMMA RemoteFields ==
  ASSUME NEW r \in Remote
  PROVE  /\ r.state \in {"Initial", "Starting", "Open", "Error", "Backoff"}
         /\ r.handshake_complete \in BOOLEAN /\ r.close_count \in Nat /\ r.idle \in BOOLEAN
         /\ r.user \in AnyUser /\ r.raced \in BOOLEAN
         /\ r.write_pipeline \in Seq(Batch)
         /\ r.toServer \in Seq(Message) /\ r.fromServer \in Seq(Message)
BY DEF Remote

\* Starting a stream, whatever state it is in.
LEMMA StateIs ==
  ASSUME NEW r \in Remote
  PROVE  /\ InState(Start(r), r, IF r.state = "Error" THEN "Backoff" ELSE "Starting")
         /\ InState(InhibitBackoff(r), r, "Initial")
         /\ InState([r EXCEPT !.state = "Initial"], r, "Initial")
<1>1. \A s \in {"Initial", "Starting", "Open", "Error", "Backoff"} :
        InState([r EXCEPT !.state = s], r, s)
  BY DEF Remote, InState, Stream
<1>2. Start(r) = [r EXCEPT !.state = IF r.state = "Error" THEN "Backoff" ELSE "Starting"]
  BY DEF Start, Remote
<1>3. (IF r.state = "Error" THEN "Backoff" ELSE "Starting") \in {"Backoff", "Starting"}
  OBVIOUS
<1>4. QED
  BY <1>1, <1>2, <1>3 DEF InhibitBackoff

\* A stream that is closed has nothing on the wire.
LEMMA CloseIs ==
  ASSUME NEW r \in Remote, NEW status
  PROVE  /\ Stream(Close(r, status), IF status = "ok" THEN "Initial" ELSE "Error",
                   r.handshake_complete, r.close_count + 1, FALSE, NoUser, FALSE,
                   r.write_pipeline, <<>>, <<>>)
         /\ Stream(Closed(Close(r, status)), IF status = "ok" THEN "Initial" ELSE "Error",
                   FALSE, r.close_count + 1, FALSE, NoUser, FALSE, r.write_pipeline, <<>>, <<>>)
<1>1. /\ <<>> \in Seq(Message) /\ NoUser \in AnyUser /\ r.close_count + 1 \in Nat
      /\ (IF status = "ok" THEN "Initial" ELSE "Error") \in {"Initial", "Error"}
  BY EmptySeq, RemoteFields DEF AnyUser
<1>2. PICK s \in {"Initial", "Error"} : s = IF status = "ok" THEN "Initial" ELSE "Error"
  BY <1>1
<1>3. Close(r, status) = [r EXCEPT !.state = s, !.close_count = @ + 1, !.idle = FALSE,
                                   !.user = NoUser, !.raced = FALSE,
                                   !.toServer = <<>>, !.fromServer = <<>>]
  BY <1>2 DEF Close
<1>4. Stream(Close(r, status), s, r.handshake_complete, r.close_count + 1, FALSE, NoUser, FALSE,
             r.write_pipeline, <<>>, <<>>)
  BY <1>1, <1>3 DEF Stream, Remote
<1>5. ASSUME NEW c, Stream(c, s, r.handshake_complete, r.close_count + 1, FALSE, NoUser, FALSE,
                           r.write_pipeline, <<>>, <<>>)
      PROVE  Stream(Closed(c), s, FALSE, r.close_count + 1, FALSE, NoUser, FALSE,
                    r.write_pipeline, <<>>, <<>>)
  BY <1>5 DEF Stream, Remote, Closed
<1>6. QED
  BY <1>2, <1>4, <1>5

\* The stream is started if there is something to send.
LEMMA StartIfNeededIs ==
  ASSUME NEW r \in Remote
  PROVE  /\ IsStarted(r) \/ r.write_pipeline = <<>> => StartIfNeeded(r) = r
         /\ ~IsStarted(r) /\ r.write_pipeline # <<>> =>
              InState(StartIfNeeded(r), r, IF r.state = "Error" THEN "Backoff" ELSE "Starting")
BY StateIs DEF StartIfNeeded, ShouldStartWriteStream

-----------------------------------------------------------------------------
(***************************************************************************)
(* Filling the pipeline.                                                   *)
(***************************************************************************)

\* The messages that carry the batches.
Messages(batches) == [i \in DOMAIN batches |-> [kind |-> "write", w |-> batches[i].w]]

\* They are messages, one for each batch.
LEMMA MessagesAre ==
  ASSUME NEW bs \in Seq(Batch)
  PROVE  /\ Messages(bs) \in Seq(Message) /\ Len(Messages(bs)) = Len(bs)
         /\ DOMAIN Messages(bs) = DOMAIN bs
         /\ \A i \in DOMAIN bs : /\ Messages(bs)[i].kind = "write"
                                 /\ Messages(bs)[i].w = bs[i].w
<1>1. \A i \in DOMAIN bs : bs[i] \in Batch
  BY LenProperties, ElementOfSeq
<1>2. Messages(bs) = [i \in DOMAIN bs |-> Messages(bs)[i]]
  BY DEF Messages
<1>3. \A i \in DOMAIN bs : Messages(bs)[i] = [kind |-> "write", w |-> bs[i].w]
  BY DEF Messages
<1>4. \A i \in DOMAIN bs : bs[i].w \in 0..MaxWrites
  BY <1>1, BoundsAssumption DEF Batch
<1>5. \A i \in DOMAIN bs : Messages(bs)[i] \in Message
  <2>1. \A w \in 0..MaxWrites : [kind |-> "write", w |-> w] \in Message
    BY DEF Message
  <2>2. QED
    BY <1>3, <1>4, <2>1
<1>6. Messages(bs) \in Seq(Message) /\ Len(Messages(bs)) = Len(bs) /\ DOMAIN Messages(bs) = DOMAIN bs
  BY <1>2, <1>5, EveryElementChanges
<1>7. QED
  BY <1>3, <1>6

\* Sending them.
LEMMA SendIs ==
  ASSUME NEW r \in Remote, NEW bs \in Seq(Batch)
  PROVE  Stream(Send(r, bs), r.state, r.handshake_complete, r.close_count,
                r.idle /\ bs = <<>>, r.user, r.raced, r.write_pipeline,
                r.toServer \o Messages(bs), r.fromServer)
<1>1. r.toServer \o Messages(bs) \in Seq(Message)
  BY MessagesAre, RemoteFields, SequencesAreJoined
<1>2. (r.idle /\ bs = <<>>) \in BOOLEAN
  OBVIOUS
<1>3. Send(r, bs) = [r EXCEPT !.toServer = r.toServer \o Messages(bs),
                              !.idle = r.idle /\ bs = <<>>]
  BY DEF Send, Messages
<1>4. QED
  BY <1>1, <1>2, <1>3 DEF Stream, Remote

\* The batches of the queue that follow the pipeline p, as many as fit.
AddedTo(p, queue) ==
  LET last  == IF p = <<>> THEN 0 ELSE Last(p).id
      later == BatchesAfter(queue, last)
      room  == kMaxPendingWrites - Len(p)
  IN  SubSeq(later, 1, IF room < Len(later) THEN room ELSE Len(later))

\* The stream with the batches added.
Full(r, added) == [r EXCEPT !.write_pipeline = @ \o added]
Filled(r, added) ==
  StartIfNeeded(
    IF Full(r, added).write_pipeline = <<>> THEN [Full(r, added) EXCEPT !.idle = IsOpen(r)]
    ELSE IF IsOpen(r) /\ r.handshake_complete THEN Send(Full(r, added), added)
                                              ELSE Full(r, added))

\* FillWritePipeline adds them.
LEMMA FillAdds == \A r, q : FillWritePipeline(r, q) = Filled(r, AddedTo(r.write_pipeline, q))
BY DEF FillWritePipeline, Filled, Full, AddedTo

\* In an ordered queue the batches after its front p are the rest.
LEMMA RestFollows ==
  ASSUME NEW p \in Seq(Batch), NEW q \in Seq(Batch), NEW n, Ordered(q), Numbered(q, n),
         FrontOf(p, q), NEW last, last = IF p = <<>> THEN 0 ELSE Last(p).id
  PROVE  /\ BatchesAfter(q, last) \in Seq(Batch)
         /\ Len(BatchesAfter(q, last)) = Len(q) - Len(p)
         /\ \A i \in 1..(Len(q) - Len(p)) : BatchesAfter(q, last)[i] = q[Len(p) + i]
<1>1. /\ Len(p) \in Nat /\ DOMAIN p = 1..Len(p) /\ Len(q) \in Nat /\ DOMAIN q = 1..Len(q)
      /\ Len(p) <= Len(q) /\ \A i \in DOMAIN q : q[i].id \in Nat
  <2>1. \A i \in DOMAIN q : q[i] \in Batch
    BY LenProperties, ElementOfSeq
  <2>2. QED
    BY <2>1, LenProperties DEF FrontOf, Batch
<1>a. Len(p) \in Nat /\ Len(q) \in Nat /\ Len(p) <= Len(q)
  BY <1>1
<1> DEFINE after == {i \in DOMAIN q : q[i].id > last}
<1>2. after = (Len(p) + 1)..Len(q)
  <2>1. CASE p = <<>>
    <3>1. Len(p) = 0 /\ last = 0
      BY <2>1, EmptySeq
    <3>2. \A i \in DOMAIN q : q[i].id > 0
      BY <1>1 DEF Numbered
    <3>3. QED
      BY <1>1, <3>1, <3>2
  <2>2. CASE p # <<>>
    <3>1. PICK k \in DOMAIN q : k = Len(p)
      BY <1>1, <2>2, EmptySeq
    <3>2. last = q[k].id
      BY <1>1, <2>2, <3>1 DEF FrontOf, Last
    <3>3. \A i \in DOMAIN q : i > k => q[i].id > last
      BY <1>1, <3>2 DEF Ordered
    <3>4. \A i \in DOMAIN q : i <= k => ~(q[i].id > last)
      <4>1. SUFFICES ASSUME NEW i \in DOMAIN q, i <= k PROVE ~(q[i].id > last)
        OBVIOUS
      <4>2. CASE i = k
        BY <1>1, <3>2, <4>2
      <4>3. CASE i < k
        <5>1. q[i].id < q[k].id
          BY <4>3 DEF Ordered
        <5>2. QED
          BY <1>1, <3>2, <5>1
      <4>4. QED
        BY <1>1, <4>1, <4>2, <4>3
    <3>5. \A i \in DOMAIN q : q[i].id > last <=> i > k
      BY <1>1, <3>3, <3>4
    <3>6. QED
      BY <1>1, <3>1, <3>5
  <2>3. QED
    BY <2>1, <2>2
<1>3. BatchesAfter(q, last) = IF after = {} THEN <<>> ELSE SubSeq(q, Min(after), Len(q))
  BY DEF BatchesAfter
<1> HIDE DEF after
<1>4. CASE Len(p) = Len(q)
  <2>1. BatchesAfter(q, last) = <<>>
    BY <1>1, <1>2, <1>3, <1>4
  <2>2. Len(q) - Len(p) = 0 /\ 1..(Len(q) - Len(p)) = {}
    BY <1>a, <1>4
  <2>3. BatchesAfter(q, last) \in Seq(Batch) /\ Len(BatchesAfter(q, last)) = 0
    BY <2>1, EmptySeq
  <2>4. \A i \in 1..(Len(q) - Len(p)) : BatchesAfter(q, last)[i] = q[Len(p) + i]
    BY <2>2
  <2>5. QED
    BY <2>2, <2>3, <2>4
<1>5. CASE Len(p) < Len(q)
  <2>1. PICK m \in Nat : m = Len(p) + 1
    BY <1>1
  <2>2. m \in after /\ after \subseteq Nat /\ \A y \in after : m <= y
    BY <1>1, <1>2, <1>5, <2>1
  <2>3. Min(after) = m
    BY <2>2, MinIs
  <2>4. BatchesAfter(q, last) = SubSeq(q, m, Len(q))
    BY <1>3, <2>2, <2>3
  <2>5. m \in Nat /\ 0 < m /\ m <= Len(q) + 1 /\ Len(q) + 1 - m = Len(q) - Len(p)
    BY <1>a, <1>5, <2>1
  <2>6. /\ SubSeq(q, m, Len(q)) \in Seq(Batch)
        /\ Len(SubSeq(q, m, Len(q))) = Len(q) - Len(p)
        /\ \A i \in 1..(Len(q) - Len(p)) : SubSeq(q, m, Len(q))[i] = q[m + i - 1]
    <3>1. /\ SubSeq(q, m, Len(q)) \in Seq(Batch)
          /\ Len(SubSeq(q, m, Len(q))) = Len(q) + 1 - m
          /\ \A i \in 1..(Len(q) + 1 - m) : SubSeq(q, m, Len(q))[i] = q[m + i - 1]
      BY <1>1, <2>5, PartIs
    <3>2. QED
      BY <2>5, <3>1
  <2>7. \A i \in 1..(Len(q) - Len(p)) : m + i - 1 = Len(p) + i
    BY <1>1, <2>1
  <2>8. QED
    BY <2>4, <2>6, <2>7
<1>6. QED
  BY <1>a, <1>4, <1>5

\* With them the pipeline is again the front of the queue, and not too long.
LEMMA AddedIs ==
  ASSUME NEW p \in Seq(Batch), NEW q \in Seq(Batch), NEW n, Ordered(q), Numbered(q, n),
         FrontOf(p, q), Len(p) <= kMaxPendingWrites
  PROVE  /\ AddedTo(p, q) \in Seq(Batch)
         /\ FrontOf(p \o AddedTo(p, q), q)
         /\ Len(p \o AddedTo(p, q)) <= kMaxPendingWrites
<1>1. PICK last : last = IF p = <<>> THEN 0 ELSE Last(p).id
  OBVIOUS
<1>2. PICK later : later = BatchesAfter(q, last)
  OBVIOUS
<1>3. /\ later \in Seq(Batch) /\ Len(later) = Len(q) - Len(p)
      /\ \A i \in 1..(Len(q) - Len(p)) : later[i] = q[Len(p) + i]
  BY <1>1, <1>2, RestFollows
<1>4. /\ Len(p) \in Nat /\ DOMAIN p = 1..Len(p) /\ Len(q) \in Nat /\ DOMAIN q = 1..Len(q)
      /\ Len(p) <= Len(q) /\ Len(later) \in Nat
  BY <1>3, LenProperties DEF FrontOf
<1>5. PICK k : k = IF kMaxPendingWrites - Len(p) < Len(later) THEN kMaxPendingWrites - Len(p)
                                                            ELSE Len(later)
  OBVIOUS
<1>6. k \in Nat /\ k <= Len(later) /\ Len(p) + k <= kMaxPendingWrites /\ Len(p) + k <= Len(q)
  BY <1>3, <1>4, <1>5, PendingAssumption
<1>7. AddedTo(p, q) = SubSeq(later, 1, k)
  BY <1>1, <1>2, <1>5 DEF AddedTo
<1>8. PICK added : added = SubSeq(later, 1, k)
  OBVIOUS
<1>9. /\ added \in Seq(Batch) /\ Len(added) = k /\ DOMAIN added = 1..k
      /\ \A i \in 1..k : added[i] = later[i]
  <2>1. k + 1 - 1 = k /\ 1 <= k + 1 /\ \A i \in 1..k : 1 + i - 1 = i
    BY <1>6
  <2>2. /\ SubSeq(later, 1, k) \in Seq(Batch)
        /\ Len(SubSeq(later, 1, k)) = k + 1 - 1
        /\ DOMAIN SubSeq(later, 1, k) = 1..(k + 1 - 1)
        /\ \A i \in 1..(k + 1 - 1) : SubSeq(later, 1, k)[i] = later[1 + i - 1]
    BY <1>3, <1>6, <2>1, PartIs
  <2>3. QED
    BY <1>8, <2>1, <2>2
<1>10. /\ Len(p \o added) = Len(p) + k /\ DOMAIN (p \o added) = 1..(Len(p) + k)
       /\ \A i \in DOMAIN p : (p \o added)[i] = p[i]
       /\ \A i \in 1..k : (p \o added)[Len(p) + i] = added[i]
  BY <1>9, SequencesAreJoined
<1>11. \A i \in DOMAIN (p \o added) : (p \o added)[i] = q[i]
  <2>1. TAKE i \in DOMAIN (p \o added)
  <2>2. CASE i \in DOMAIN p
    BY <1>10, <2>2 DEF FrontOf
  <2>3. CASE i \notin DOMAIN p
    <3>1. PICK j \in 1..k : i = Len(p) + j
      <4>1. i - Len(p) \in 1..k /\ i = Len(p) + (i - Len(p))
        BY <1>4, <1>6, <1>10, <2>1, <2>3
      <4>2. QED
        BY <4>1
    <3>2. (p \o added)[i] = later[j]
      BY <1>9, <1>10, <3>1
    <3>3. later[j] = q[i]
      <4>1. j \in 1..(Len(q) - Len(p))
        BY <1>3, <1>4, <1>6
      <4>2. QED
        BY <1>3, <3>1, <4>1
    <3>4. QED
      BY <3>2, <3>3
  <2>4. QED
    BY <2>2, <2>3
<1>12. QED
  BY <1>6, <1>7, <1>8, <1>9, <1>10, <1>11 DEF FrontOf

\* Nothing to send, to be sent at once, or to be sent when the stream is open.
LEMMA FilledIs ==
  ASSUME NEW r \in Remote, NEW added \in Seq(Batch), NEW p, p = r.write_pipeline \o added
  PROVE  /\ p = <<>> =>
              Stream(Filled(r, added), r.state, r.handshake_complete, r.close_count,
                     IsOpen(r), r.user, r.raced, p, r.toServer, r.fromServer)
         /\ p # <<>> /\ Established(r) =>
              Stream(Filled(r, added), r.state, r.handshake_complete, r.close_count,
                     r.idle /\ added = <<>>, r.user, r.raced, p,
                     r.toServer \o Messages(added), r.fromServer)
         /\ p # <<>> /\ ~Established(r) =>
              Stream(Filled(r, added),
                     IF IsStarted(r) THEN r.state
                     ELSE IF r.state = "Error" THEN "Backoff" ELSE "Starting",
                     r.handshake_complete, r.close_count, r.idle, r.user, r.raced, p,
                     r.toServer, r.fromServer)
<1>1. p \in Seq(Batch)
  BY RemoteFields, SequencesAreJoined
<1>2. PICK f : f = Full(r, added)
  OBVIOUS
<1>3. Stream(f, r.state, r.handshake_complete, r.close_count, r.idle, r.user, r.raced, p,
             r.toServer, r.fromServer)
  <2>1. f = [r EXCEPT !.write_pipeline = p]
    BY <1>2 DEF Full
  <2>2. QED
    BY <1>1, <2>1 DEF Stream, Remote
<1>4. f \in Remote /\ f.write_pipeline = p /\ f.state = r.state
  BY <1>3 DEF Stream
<1>5. Filled(r, added) =
        StartIfNeeded(IF p = <<>> THEN [f EXCEPT !.idle = IsOpen(r)]
                      ELSE IF Established(r) THEN Send(f, added) ELSE f)
  BY <1>2, <1>4 DEF Filled, IsOpen, Established
<1>6. ASSUME p = <<>>
      PROVE  Stream(Filled(r, added), r.state, r.handshake_complete, r.close_count,
                    IsOpen(r), r.user, r.raced, p, r.toServer, r.fromServer)
  <2>1. PICK g : g = [f EXCEPT !.idle = IsOpen(r)]
    OBVIOUS
  <2>2. IsOpen(r) \in BOOLEAN
    BY DEF IsOpen
  <2>3. Stream(g, r.state, r.handshake_complete, r.close_count,
               IsOpen(r), r.user, r.raced, p, r.toServer, r.fromServer)
    BY <1>3, <2>1, <2>2 DEF Stream, Remote
  <2>4. Filled(r, added) = StartIfNeeded(g)
    BY <1>5, <1>6, <2>1
  <2>5. g \in Remote /\ g.write_pipeline = <<>>
    BY <1>6, <2>3 DEF Stream
  <2>6. StartIfNeeded(g) = g
    BY <2>5, StartIfNeededIs
  <2>7. QED
    BY <2>3, <2>4, <2>6
<1>7. ASSUME p # <<>>, Established(r)
      PROVE  Stream(Filled(r, added), r.state, r.handshake_complete, r.close_count,
                    r.idle /\ added = <<>>, r.user, r.raced, p,
                    r.toServer \o Messages(added), r.fromServer)
  <2>1. PICK g : g = Send(f, added)
    OBVIOUS
  <2>2. Stream(g, f.state, f.handshake_complete, f.close_count, f.idle /\ added = <<>>,
               f.user, f.raced, f.write_pipeline, f.toServer \o Messages(added), f.fromServer)
    BY <1>4, <2>1, SendIs
  <2>3. Stream(g, r.state, r.handshake_complete, r.close_count, r.idle /\ added = <<>>,
               r.user, r.raced, p, r.toServer \o Messages(added), r.fromServer)
    BY <1>3, <2>2 DEF Stream
  <2>4. Filled(r, added) = StartIfNeeded(g)
    BY <1>5, <1>7, <2>1
  <2>5. g \in Remote /\ IsStarted(g)
    BY <1>7, <2>3 DEF Stream, IsStarted, Established
  <2>6. StartIfNeeded(g) = g
    BY <2>5, StartIfNeededIs
  <2>7. QED
    BY <2>3, <2>4, <2>6
<1>8. ASSUME p # <<>>, ~Established(r)
      PROVE  Stream(Filled(r, added),
                    IF IsStarted(r) THEN r.state
                    ELSE IF r.state = "Error" THEN "Backoff" ELSE "Starting",
                    r.handshake_complete, r.close_count, r.idle, r.user, r.raced, p,
                    r.toServer, r.fromServer)
  <2>1. Filled(r, added) = StartIfNeeded(f)
    BY <1>5, <1>8
  <2>2. IsStarted(f) <=> IsStarted(r)
    BY <1>4 DEF IsStarted
  <2>3. CASE IsStarted(r)
    <3>1. StartIfNeeded(f) = f
      BY <1>4, <2>2, <2>3, StartIfNeededIs
    <3>2. QED
      BY <1>3, <2>1, <2>3, <3>1
  <2>4. CASE ~IsStarted(r)
    <3>1. InState(StartIfNeeded(f), f, IF f.state = "Error" THEN "Backoff" ELSE "Starting")
      BY <1>4, <1>8, <2>2, <2>4, StartIfNeededIs
    <3>2. QED
      BY <1>3, <2>1, <2>4, <3>1 DEF Stream, InState
  <2>5. QED
    BY <2>3, <2>4
<1>9. QED
  BY <1>6, <1>7, <1>8

\* What is sent after what is under way is carried like it.
LEMMA CarriesMore ==
  ASSUME NEW pl \in Seq(Batch), NEW to \in Seq(Message), NEW from \in Seq(Message),
         NEW added \in Seq(Batch), Carried(pl, to, from)
  PROVE  Carried(pl \o added, to \o Messages(added), from)
<1>1. PICK p, t, ms : p = pl \o added /\ t = to \o ms /\ ms = Messages(added)
  OBVIOUS
<1>2. PICK lf \in Nat, lt \in Nat, la \in Nat, lp \in Nat :
        lf = Len(from) /\ lt = Len(to) /\ la = Len(added) /\ lp = Len(pl)
  BY LenProperties
<1>3. /\ DOMAIN from = 1..lf /\ DOMAIN to = 1..lt /\ DOMAIN pl = 1..lp /\ DOMAIN added = 1..la
  BY <1>2, LenProperties
<1>4. lp = lf + lt
  BY <1>2 DEF Carried
<1>5. /\ Len(p) = lp + la
      /\ \A i \in 1..lp : p[i] = pl[i]
      /\ \A i \in 1..la : p[lp + i] = added[i]
  BY <1>1, <1>2, <1>3, SequencesAreJoined
<1>6. /\ ms \in Seq(Message) /\ Len(ms) = la /\ DOMAIN ms = 1..la
      /\ \A i \in 1..la : ms[i].kind = "write" /\ ms[i].w = added[i].w
  BY <1>1, <1>2, <1>3, MessagesAre
<1>7. /\ Len(t) = lt + la /\ DOMAIN t = 1..(lt + la)
      /\ \A i \in 1..lt : t[i] = to[i]
      /\ \A i \in 1..la : t[lt + i] = ms[i]
  <2>1. ms \in Seq(Message) /\ t = to \o ms
    BY <1>1, <1>6
  <2>2. /\ Len(t) = Len(to) + Len(ms) /\ DOMAIN t = 1..(Len(to) + Len(ms))
        /\ \A i \in DOMAIN to : t[i] = to[i]
        /\ \A i \in DOMAIN ms : t[Len(to) + i] = ms[i]
    BY <2>1, SequencesAreJoined
  <2>3. QED
    BY <1>2, <1>3, <1>6, <2>2
<1>8. Len(p) = lf + Len(t)
  BY <1>4, <1>5, <1>7
<1>9. \A i \in DOMAIN from : /\ from[i].w = p[i].w
                             /\ from[i].kind \in {"write", "refusal"}
                             /\ from[i].kind = "refusal" => i = lf
  <2>1. \A i \in 1..lf : i \in 1..lp
    BY <1>4
  <2>2. QED
    BY <1>2, <1>3, <1>5, <2>1 DEF Carried
<1>10. ASSUME NEW i \in DOMAIN t
       PROVE  t[i].w = p[lf + i].w /\ t[i].kind = "write"
  <2>0. i \in 1..(lt + la)
    BY <1>7
  <2>1. CASE i <= lt
    <3>1. i \in 1..lt /\ lf + i \in 1..lp
      BY <1>4, <2>0, <2>1
    <3>2. to[i].w = pl[lf + i].w /\ to[i].kind = "write"
      BY <1>2, <1>3, <3>1 DEF Carried
    <3>3. QED
      BY <1>5, <1>7, <3>1, <3>2
  <2>2. CASE i > lt
    <3>1. PICK j \in 1..la : i = lt + j
      <4>1. i - lt \in 1..la /\ i = lt + (i - lt)
        BY <2>0, <2>2
      <4>2. QED
        BY <4>1
    <3>2. lf + i = lp + j
      BY <1>4, <3>1
    <3>3. t[i] = ms[j] /\ p[lf + i] = added[j]
      BY <1>5, <1>7, <3>1, <3>2
    <3>4. QED
      BY <1>6, <3>3
  <2>3. QED
    BY <2>0, <2>1, <2>2
<1>11. Carried(p, t, from)
  BY <1>2, <1>8, <1>9, <1>10 DEF Carried
<1>12. QED
  BY <1>1, <1>11

\* What filling the pipeline leaves alone.
FillKept(r, n) ==
  /\ n \in Remote
  /\ n.close_count = r.close_count /\ n.user = r.user /\ n.raced = r.raced
  /\ n.fromServer = r.fromServer /\ n.handshake_complete = r.handshake_complete
  /\ \/ n.state = r.state
     \/ ~IsStarted(r) /\ n.state \in {"Starting", "Backoff"}

\* Filling the pipeline keeps the stream in order.
LEMMA FillKeeps ==
  ASSUME NEW r \in Remote, NEW q \in Seq(Batch), NEW m, Ordered(q), Numbered(q, m),
         StreamOK(r, q)
  PROVE  StreamOK(FillWritePipeline(r, q), q) /\ FillKept(r, FillWritePipeline(r, q))
<1>1. PICK added : added = AddedTo(r.write_pipeline, q)
  OBVIOUS
<1>2. PICK n : n = FillWritePipeline(r, q)
  OBVIOUS
<1>3. n = Filled(r, added)
  BY <1>1, <1>2, FillAdds
<1>4. PICK p : p = r.write_pipeline \o added
  OBVIOUS
<1>5. added \in Seq(Batch) /\ FrontOf(p, q) /\ Len(p) <= kMaxPendingWrites
  BY <1>1, <1>4, AddedIs, RemoteFields DEF StreamOK
<1>6. CASE p = <<>>
  <2>1. Stream(n, r.state, r.handshake_complete, r.close_count, IsOpen(r), r.user, r.raced, p,
               r.toServer, r.fromServer)
    BY <1>3, <1>4, <1>5, <1>6, FilledIs
  <2>2. r.write_pipeline = <<>>
    <3>1. r.write_pipeline \in Seq(Batch) /\ r.write_pipeline \o added = <<>>
      BY <1>4, <1>6, RemoteFields
    <3>2. PICK pl \in Seq(Batch) : pl = r.write_pipeline
      BY <3>1
    <3>3. pl \o added = <<>>
      BY <3>1, <3>2
    <3>4. pl = <<>>
      BY <1>5, <3>3, ConcatEqualIffEmpty
    <3>5. QED
      BY <3>2, <3>4
  <2>3. FillKept(r, n)
    BY <2>1 DEF FillKept, Stream
  <2>4. StreamOK(n, q)
    <3>1. /\ n.write_pipeline = r.write_pipeline /\ n.toServer = r.toServer
          /\ n.fromServer = r.fromServer /\ n.state = r.state
          /\ n.handshake_complete = r.handshake_complete
          /\ n.idle => n.state = "Open"
      BY <1>6, <2>1, <2>2 DEF Stream, IsOpen
    <3>2. /\ Established(n) <=> Established(r)
          /\ IsStarted(n) <=> IsStarted(r)
          /\ Carries(n) <=> Carries(r)
      BY <3>1 DEF Established, IsStarted, Carries
    <3>3. n.idle => Established(n) /\ n.write_pipeline = <<>>
      BY <2>2, <3>1, <3>2 DEF StreamOK, IsStarted
    <3>4. QED
      BY <3>1, <3>2, <3>3 DEF StreamOK, NothingSent, Greeting
  <2>5. QED
    BY <1>2, <2>3, <2>4
<1>7. CASE p # <<>> /\ Established(r)
  <2>1. Stream(n, r.state, r.handshake_complete, r.close_count, r.idle /\ added = <<>>,
               r.user, r.raced, p, r.toServer \o Messages(added), r.fromServer)
    BY <1>3, <1>4, <1>5, <1>7, FilledIs
  <2>2. FillKept(r, n)
    BY <2>1 DEF FillKept, Stream
  <2>3. Carries(r)
    BY <1>7 DEF StreamOK
  <2>4. /\ n.write_pipeline = p /\ n.toServer = r.toServer \o Messages(added)
        /\ n.fromServer = r.fromServer /\ n.state = r.state
        /\ n.handshake_complete = r.handshake_complete /\ n.idle = (r.idle /\ added = <<>>)
    BY <2>1 DEF Stream
  <2>5. Carries(n)
    BY <1>4, <1>5, <2>3, <2>4, CarriesMore, RemoteFields DEF Carries
  <2>6. ~n.idle
    <3>1. SUFFICES ASSUME r.idle, added = <<>> PROVE FALSE
      BY <2>4
    <3>2. r.write_pipeline = <<>>
      BY <3>1 DEF StreamOK
    <3>3. QED
      BY <1>4, <1>7, <3>1, <3>2, EmptySeq, ConcatEmptySeq
  <2>7. StreamOK(n, q)
    BY <1>5, <1>7, <2>4, <2>5, <2>6 DEF StreamOK, Established
  <2>8. QED
    BY <1>2, <2>2, <2>7
<1>8. CASE p # <<>> /\ ~Established(r)
  <2>1. Stream(n, IF IsStarted(r) THEN r.state
                  ELSE IF r.state = "Error" THEN "Backoff" ELSE "Starting",
               r.handshake_complete, r.close_count, r.idle, r.user, r.raced, p,
               r.toServer, r.fromServer)
    BY <1>3, <1>4, <1>5, <1>8, FilledIs
  <2>2. FillKept(r, n)
    BY <2>1 DEF FillKept, Stream
  <2>3. /\ n.write_pipeline = p /\ n.toServer = r.toServer /\ n.fromServer = r.fromServer
        /\ n.handshake_complete = r.handshake_complete /\ n.idle = r.idle
        /\ n.state = r.state \/ (~IsStarted(r) /\ n.state \in {"Starting", "Backoff"})
    BY <2>1 DEF Stream
  <2>4. ~n.idle
    BY <1>8, <2>3 DEF StreamOK
  <2>5. ~Established(n)
    BY <1>8, <2>3 DEF Established
  <2>6. r.state = "Open" => n.state = "Open"
    BY <2>3 DEF IsStarted
  <2>7. StreamOK(n, q)
    BY <1>5, <1>8, <2>3, <2>4, <2>5, <2>6 DEF StreamOK, NothingSent, Greeting
  <2>8. QED
    BY <1>2, <2>2, <2>7
<1>9. QED
  BY <1>6, <1>7, <1>8

-----------------------------------------------------------------------------
(***************************************************************************)
(* The other operations of the stream, for a stream r over the queue q.    *)
(***************************************************************************)

\* A queue that grows has the same fronts.
LEMMA FrontOfLonger ==
  ASSUME NEW p \in Seq(Batch), NEW q \in Seq(Batch), NEW b \in Batch, FrontOf(p, q)
  PROVE  FrontOf(p, Append(q, b))
<1>1. /\ Len(p) \in Nat /\ DOMAIN p = 1..Len(p) /\ Len(p) <= Len(q)
      /\ \A i \in DOMAIN p : p[i] = q[i]
  BY LenProperties DEF FrontOf
<1>2. /\ Len(q) \in Nat /\ Len(Append(q, b)) = Len(q) + 1 /\ DOMAIN q = 1..Len(q)
      /\ \A i \in DOMAIN q : Append(q, b)[i] = q[i]
  BY OneElementIsAdded
<1>3. \A i \in DOMAIN p : i \in DOMAIN q
  BY <1>1, <1>2
<1>4. QED
  BY <1>1, <1>2, <1>3 DEF FrontOf

\* And one that is answered from the front, those without their first.
LEMMA FrontOfTail ==
  ASSUME NEW p \in Seq(Batch), NEW q \in Seq(Batch), FrontOf(p, q), p # <<>>
  PROVE  /\ q # <<>> /\ p[1] = q[1] /\ Head(p) = q[1]
         /\ FrontOf(Tail(p), Tail(q)) /\ Len(Tail(p)) <= Len(p) /\ Tail(p) \in Seq(Batch)
<1>1. /\ Len(p) \in Nat /\ Len(p) > 0 /\ DOMAIN p = 1..Len(p) /\ 1 \in DOMAIN p /\ Head(p) = p[1]
      /\ Tail(p) \in Seq(Batch) /\ Len(Tail(p)) = Len(p) - 1 /\ DOMAIN Tail(p) = 1..(Len(p) - 1)
      /\ \A i \in DOMAIN Tail(p) : i + 1 \in DOMAIN p /\ Tail(p)[i] = p[i + 1]
  BY FrontIsTaken
<1>2. Len(p) <= Len(q) /\ \A i \in DOMAIN p : p[i] = q[i]
  BY DEF FrontOf
<1>3. Len(q) \in Nat /\ q # <<>>
  BY <1>1, <1>2, LenProperties, EmptySeq
<1>4. /\ Len(Tail(q)) = Len(q) - 1 /\ DOMAIN Tail(q) = 1..(Len(q) - 1)
      /\ \A i \in DOMAIN Tail(q) : Tail(q)[i] = q[i + 1]
  BY <1>3, FrontIsTaken
<1>5. Len(Tail(p)) <= Len(Tail(q)) /\ \A i \in DOMAIN Tail(p) : i \in DOMAIN Tail(q)
  BY <1>1, <1>2, <1>3, <1>4
<1>6. \A i \in DOMAIN Tail(p) : Tail(p)[i] = Tail(q)[i]
  BY <1>1, <1>2, <1>4, <1>5
<1>7. QED
  BY <1>1, <1>2, <1>3, <1>5, <1>6 DEF FrontOf

\* An empty pipeline is a front of any queue.
LEMMA EmptyFront ==
  ASSUME NEW q \in Seq(Batch)
  PROVE  FrontOf(<<>>, q) /\ Len(<<>>) <= kMaxPendingWrites
<1>1. Len(q) \in Nat /\ Len(<<>>) = 0 /\ DOMAIN <<>> = {}
  BY LenProperties, EmptySeq
<1>2. QED
  BY <1>1, PendingAssumption DEF FrontOf

\* A new batch on disk is nothing to the stream.
LEMMA GrowthKeeps ==
  ASSUME NEW r \in Remote, NEW q \in Seq(Batch), NEW b \in Batch, StreamOK(r, q)
  PROVE  StreamOK(r, Append(q, b))
<1>1. r.write_pipeline \in Seq(Batch) /\ FrontOf(r.write_pipeline, q)
  BY RemoteFields DEF StreamOK
<1>2. FrontOf(r.write_pipeline, Append(q, b))
  BY <1>1, FrontOfLonger
<1>3. QED
  BY <1>2 DEF StreamOK

\* A stream that is not started, with nothing on the wire.
Down(n, state, cc, pipeline) ==
  /\ n \in Remote /\ n.state = state /\ n.close_count = cc /\ n.write_pipeline = pipeline
  /\ ~n.handshake_complete /\ ~n.idle /\ n.toServer = <<>> /\ n.fromServer = <<>>

\* It is in order whatever its pipeline is.
LEMMA DownIsOK ==
  ASSUME NEW n, NEW state \in {"Initial", "Error"}, NEW cc, NEW p, NEW q, Down(n, state, cc, p),
         FrontOf(p, q), Len(p) <= kMaxPendingWrites
  PROVE  StreamOK(n, q)
<1>1. /\ n.state \in {"Initial", "Error"} /\ n.write_pipeline = p
      /\ ~n.handshake_complete /\ ~n.idle /\ n.toServer = <<>> /\ n.fromServer = <<>>
  BY DEF Down
<1>2. ~IsStarted(n) /\ ~Established(n) /\ NothingSent(n) /\ n.state # "Open"
  BY <1>1 DEF IsStarted, Established, NothingSent
<1>3. QED
  BY <1>1, <1>2 DEF StreamOK

\* Stopping a stream takes it down.
LEMMA StopIs ==
  ASSUME NEW r \in Remote, NEW q, StreamOK(r, q)
  PROVE  /\ IsStarted(r) => Down(Stop(r), "Initial", r.close_count + 1, r.write_pipeline)
         /\ ~IsStarted(r) => Stop(r) = r /\ Down(r, r.state, r.close_count, r.write_pipeline)
<1>1. ASSUME IsStarted(r)
      PROVE  Down(Stop(r), "Initial", r.close_count + 1, r.write_pipeline)
  <2>1. PICK n : n = Closed(Close(r, "ok"))
    OBVIOUS
  <2>2. Stream(n, IF "ok" = "ok" THEN "Initial" ELSE "Error", FALSE, r.close_count + 1, FALSE,
               NoUser, FALSE, r.write_pipeline, <<>>, <<>>)
    BY <2>1, CloseIs
  <2>3. Stop(r) = n
    BY <1>1, <2>1 DEF Stop
  <2>4. QED
    BY <2>2, <2>3 DEF Stream, Down
<1>2. ASSUME ~IsStarted(r)
      PROVE  Stop(r) = r /\ Down(r, r.state, r.close_count, r.write_pipeline)
  <2>1. r.state # "Open"
    BY <1>2 DEF IsStarted
  <2>2. NothingSent(r) /\ ~r.idle
    BY <2>1 DEF StreamOK, Established
  <2>3. QED
    BY <1>2, <2>2 DEF Down, NothingSent, Stop
<1>3. QED
  BY <1>1, <1>2

\* The stream that RestartNetwork fills: taken down, with an empty pipeline.
LEMMA RestartIs ==
  ASSUME NEW r \in Remote, NEW q, StreamOK(r, q)
  PROVE  LET n == InhibitBackoff([Stop(r) EXCEPT !.write_pipeline = <<>>])
         IN  \/ Down(n, "Initial", r.close_count + 1, <<>>)
             \/ ~IsStarted(r) /\ Down(n, "Initial", r.close_count, <<>>)
<1>1. PICK s, n : s = [Stop(r) EXCEPT !.write_pipeline = <<>>] /\ n = InhibitBackoff(s)
  OBVIOUS
<1>2. \E state, cc : /\ Down(Stop(r), state, cc, r.write_pipeline)
                     /\ cc = r.close_count + 1 \/ (~IsStarted(r) /\ cc = r.close_count)
  BY StopIs
<1>3. PICK state, cc : /\ Down(Stop(r), state, cc, r.write_pipeline)
                       /\ cc = r.close_count + 1 \/ (~IsStarted(r) /\ cc = r.close_count)
  BY <1>2
<1>4. ASSUME NEW c, Down(c, state, cc, r.write_pipeline)
      PROVE  Down([c EXCEPT !.write_pipeline = <<>>], state, cc, <<>>)
  BY <1>4, EmptySeq DEF Down, Remote
<1>5. Down(s, state, cc, <<>>)
  BY <1>1, <1>3, <1>4
<1>6. InState(n, s, "Initial")
  BY <1>1, <1>5, StateIs DEF Down
<1>7. Down(n, "Initial", cc, <<>>)
  BY <1>5, <1>6 DEF InState, Stream, Down
<1>8. QED
  BY <1>1, <1>3, <1>7

\* The stream is not open any more; it was closed unless it was not started.
Renewed(r, n) ==
  /\ n \in Remote /\ n.state # "Open" /\ n.fromServer = <<>>
  /\ n.close_count = r.close_count + 1 \/ (~IsStarted(r) /\ n.close_count = r.close_count)

\* RestartNetwork, for a queue that may be another one.
LEMMA RestartNetworkKeeps ==
  ASSUME NEW r \in Remote, NEW q, StreamOK(r, q),
         NEW p \in Seq(Batch), NEW m, Ordered(p), Numbered(p, m)
  PROVE  StreamOK(RestartNetwork(r, p), p) /\ Renewed(r, RestartNetwork(r, p))
<1>1. PICK n : n = InhibitBackoff([Stop(r) EXCEPT !.write_pipeline = <<>>])
  OBVIOUS
<1>2. \/ Down(n, "Initial", r.close_count + 1, <<>>)
      \/ ~IsStarted(r) /\ Down(n, "Initial", r.close_count, <<>>)
  BY <1>1, RestartIs
<1>3. /\ n \in Remote /\ n.state = "Initial" /\ n.fromServer = <<>>
      /\ n.close_count = r.close_count + 1 \/ (~IsStarted(r) /\ n.close_count = r.close_count)
  BY <1>2 DEF Down
<1>4. StreamOK(n, p)
  BY <1>2, EmptyFront, DownIsOK
<1>5. PICK f : f = FillWritePipeline(n, p)
  OBVIOUS
<1>6. StreamOK(f, p) /\ FillKept(n, f)
  BY <1>3, <1>4, <1>5, FillKeeps
<1>7. Renewed(r, f)
  BY <1>3, <1>6 DEF FillKept, Renewed
<1>8. RestartNetwork(r, p) = f
  BY <1>1, <1>5 DEF RestartNetwork
<1>9. QED
  BY <1>6, <1>7, <1>8

\* The stream after an error it is not to blame for keeps its pipeline.
LEMMA TransientErrorKeeps ==
  ASSUME NEW r \in Remote, NEW q, StreamOK(r, q)
  PROVE  StreamOK(AfterTransientError(r), q) /\ Renewed(r, AfterTransientError(r))
<1>1. PICK c, n : c = Close(r, "error") /\ n = Closed(StartIfNeeded(c))
  OBVIOUS
<1>2. Stream(c, IF "error" = "ok" THEN "Initial" ELSE "Error", r.handshake_complete,
             r.close_count + 1, FALSE, NoUser, FALSE, r.write_pipeline, <<>>, <<>>)
  BY <1>1, CloseIs
<1>3. /\ c \in Remote /\ c.state = "Error" /\ ~IsStarted(c) /\ c.write_pipeline = r.write_pipeline
      /\ c.close_count = r.close_count + 1 /\ c.idle = FALSE
      /\ c.toServer = <<>> /\ c.fromServer = <<>>
  BY <1>2 DEF Stream, IsStarted
<1>4. PICK s : s = StartIfNeeded(c)
  OBVIOUS
<1>5. /\ s \in Remote /\ s.write_pipeline = r.write_pipeline
      /\ s.state = IF r.write_pipeline = <<>> THEN "Error" ELSE "Backoff"
      /\ s.close_count = r.close_count + 1 /\ s.idle = FALSE
      /\ s.toServer = <<>> /\ s.fromServer = <<>>
  <2>1. CASE r.write_pipeline = <<>>
    BY <1>3, <1>4, <2>1, StartIfNeededIs
  <2>2. CASE r.write_pipeline # <<>>
    <3>1. InState(s, c, IF c.state = "Error" THEN "Backoff" ELSE "Starting")
      BY <1>3, <1>4, <2>2, StartIfNeededIs
    <3>2. QED
      BY <1>3, <2>2, <3>1 DEF InState, Stream
  <2>3. QED
    BY <2>1, <2>2
<1>6. /\ n \in Remote /\ n.write_pipeline = s.write_pipeline /\ n.state = s.state
      /\ n.close_count = s.close_count /\ n.idle = s.idle /\ n.handshake_complete = FALSE
      /\ n.toServer = s.toServer /\ n.fromServer = s.fromServer
  <2>1. n = [s EXCEPT !.handshake_complete = FALSE]
    BY <1>1, <1>4 DEF Closed
  <2>2. QED
    BY <1>5, <2>1 DEF Remote
<1>7. ~Established(n) /\ NothingSent(n) /\ n.state # "Open" /\ ~n.idle
  BY <1>5, <1>6 DEF Established, NothingSent
<1>8. IsStarted(n) => n.write_pipeline # <<>>
  BY <1>5, <1>6 DEF IsStarted
<1>9. StreamOK(n, q)
  BY <1>5, <1>6, <1>7, <1>8 DEF StreamOK
<1>10. Renewed(r, n)
  BY <1>5, <1>6, <1>7 DEF Renewed
<1>11. AfterTransientError(r) = n
  BY <1>1 DEF AfterTransientError
<1>12. QED
  BY <1>9, <1>10, <1>11

\* The stream after an error the front of its pipeline is to blame for.
RejectedStream(r, q) ==
  Closed(FillWritePipeline(InhibitBackoff([Close(r, "error") EXCEPT !.write_pipeline = Tail(@)]), q))

\* It goes on with the rest of the queue.
LEMMA RejectionKeeps ==
  ASSUME NEW r \in Remote, NEW q \in Seq(Batch), StreamOK(r, q), r.write_pipeline # <<>>,
         NEW m, Ordered(Tail(q)), Numbered(Tail(q), m)
  PROVE  StreamOK(RejectedStream(r, Tail(q)), Tail(q)) /\ Renewed(r, RejectedStream(r, Tail(q)))
<1>1. PICK pl \in Seq(Batch) : pl = r.write_pipeline
  BY RemoteFields
<1>2. FrontOf(pl, q) /\ Len(pl) <= kMaxPendingWrites /\ pl # <<>>
  BY <1>1 DEF StreamOK
<1>3. /\ q # <<>> /\ FrontOf(Tail(pl), Tail(q)) /\ Len(Tail(pl)) <= Len(pl)
      /\ Tail(pl) \in Seq(Batch) /\ Tail(q) \in Seq(Batch)
  BY <1>2, FrontOfTail, FrontIsTaken
<1>4. Len(Tail(pl)) <= kMaxPendingWrites
  BY <1>2, <1>3, PendingAssumption, LenProperties
<1>5. PICK c, d, i : /\ c = Close(r, "error")
                     /\ d = [c EXCEPT !.write_pipeline = Tail(@)]
                     /\ i = InhibitBackoff(d)
  OBVIOUS
<1>6. Stream(c, IF "error" = "ok" THEN "Initial" ELSE "Error", r.handshake_complete,
             r.close_count + 1, FALSE, NoUser, FALSE, pl, <<>>, <<>>)
  BY <1>1, <1>5, CloseIs
<1>7. /\ d \in Remote /\ d.write_pipeline = Tail(pl) /\ d.close_count = r.close_count + 1
      /\ d.idle = FALSE /\ d.toServer = <<>> /\ d.fromServer = <<>>
  <2>1. c \in Remote /\ c.write_pipeline = pl
    BY <1>6 DEF Stream
  <2>2. d = [c EXCEPT !.write_pipeline = Tail(pl)]
    BY <1>5, <2>1
  <2>3. QED
    BY <1>3, <1>6, <2>2 DEF Stream, Remote
<1>8. /\ i \in Remote /\ i.write_pipeline = Tail(pl) /\ i.close_count = r.close_count + 1
      /\ i.idle = FALSE /\ i.toServer = <<>> /\ i.fromServer = <<>> /\ i.state = "Initial"
  <2>1. InState(i, d, "Initial")
    BY <1>5, <1>7, StateIs
  <2>2. QED
    BY <1>7, <2>1 DEF InState, Stream
<1>9. PICK added, p, f : /\ added = AddedTo(Tail(pl), Tail(q)) /\ p = Tail(pl) \o added
                         /\ f = Filled(i, added)
  OBVIOUS
<1>10. added \in Seq(Batch) /\ FrontOf(p, Tail(q)) /\ Len(p) <= kMaxPendingWrites
  BY <1>3, <1>4, <1>9, AddedIs
<1>11. FillWritePipeline(i, Tail(q)) = f
  BY <1>8, <1>9, FillAdds
<1>12. /\ f \in Remote /\ f.write_pipeline = p
       /\ f.state = IF p = <<>> THEN "Initial" ELSE "Starting"
       /\ f.close_count = r.close_count + 1 /\ f.idle = FALSE
       /\ f.toServer = <<>> /\ f.fromServer = <<>>
  <2>1. ~Established(i) /\ ~IsStarted(i) /\ IsOpen(i) = FALSE
    BY <1>8 DEF Established, IsStarted, IsOpen
  <2>2. CASE p = <<>>
    <3>1. Stream(f, i.state, i.handshake_complete, i.close_count, IsOpen(i), i.user, i.raced, p,
                 i.toServer, i.fromServer)
      BY <1>8, <1>9, <1>10, <2>2, FilledIs
    <3>2. QED
      BY <1>8, <2>1, <2>2, <3>1 DEF Stream
  <2>3. CASE p # <<>>
    <3>1. Stream(f, IF IsStarted(i) THEN i.state
                    ELSE IF i.state = "Error" THEN "Backoff" ELSE "Starting",
                 i.handshake_complete, i.close_count, i.idle, i.user, i.raced, p,
                 i.toServer, i.fromServer)
      BY <1>8, <1>9, <1>10, <2>1, <2>3, FilledIs
    <3>2. QED
      BY <1>8, <2>1, <2>3, <3>1 DEF Stream
  <2>4. QED
    BY <2>2, <2>3
<1>13. PICK n : n = [f EXCEPT !.handshake_complete = FALSE]
  OBVIOUS
<1>14. /\ n \in Remote /\ n.write_pipeline = p /\ n.state = f.state
       /\ n.close_count = f.close_count /\ n.idle = FALSE /\ n.handshake_complete = FALSE
       /\ n.toServer = <<>> /\ n.fromServer = <<>>
  BY <1>12, <1>13 DEF Remote
<1>15. ~Established(n) /\ NothingSent(n) /\ n.state # "Open" /\ ~n.idle
  BY <1>12, <1>14 DEF Established, NothingSent
<1>16. IsStarted(n) => n.write_pipeline # <<>>
  BY <1>12, <1>14 DEF IsStarted
<1>17. StreamOK(n, Tail(q)) /\ Renewed(r, n)
  BY <1>10, <1>12, <1>14, <1>15, <1>16 DEF StreamOK, Renewed
<1>18. RejectedStream(r, Tail(q)) = n
  BY <1>5, <1>11, <1>13 DEF RejectedStream, Closed
<1>19. QED
  BY <1>17, <1>18

\* The backoff elapses.
LEMMA BackoffKeeps ==
  ASSUME NEW r \in Remote, NEW q, StreamOK(r, q), r.state = "Backoff"
  PROVE  /\ StreamOK(Start([r EXCEPT !.state = "Initial"]), q)
         /\ InState(Start([r EXCEPT !.state = "Initial"]), r, "Starting")
<1>1. PICK i, n : i = [r EXCEPT !.state = "Initial"] /\ n = Start(i)
  OBVIOUS
<1>2. InState(i, r, "Initial")
  BY <1>1, StateIs
<1>3. i \in Remote /\ i.state = "Initial"
  BY <1>2 DEF InState, Stream
<1>4. InState(n, i, "Starting")
  BY <1>1, <1>3, StateIs
<1>5. InState(n, r, "Starting")
  BY <1>2, <1>4 DEF InState, Stream
<1>6. IsStarted(r) /\ ~Established(r)
  BY DEF IsStarted, Established
<1>7. ~Established(n) /\ n.state # "Open" /\ n.idle = r.idle /\ n.write_pipeline = r.write_pipeline
  BY <1>5 DEF InState, Stream, Established
<1>8. NothingSent(n)
  BY <1>5 DEF StreamOK, NothingSent, InState, Stream
<1>9. StreamOK(n, q)
  BY <1>6, <1>7, <1>8 DEF StreamOK
<1>10. QED
  BY <1>1, <1>5, <1>9

\* The idle timer stops a stream with nothing to send.
LEMMA IdleKeeps ==
  ASSUME NEW r \in Remote, NEW q, StreamOK(r, q), r.idle
  PROVE  StreamOK(StartIfNeeded(Stop(r)), q) /\ Renewed(r, StartIfNeeded(Stop(r)))
<1>1. r.write_pipeline = <<>> /\ IsStarted(r)
  BY DEF StreamOK, Established, IsStarted
<1>2. PICK n : n = Stop(r)
  OBVIOUS
<1>3. Down(n, "Initial", r.close_count + 1, <<>>)
  BY <1>1, <1>2, StopIs
<1>4. n \in Remote /\ n.write_pipeline = <<>>
  BY <1>3 DEF Down
<1>5. StartIfNeeded(n) = n
  BY <1>4, StartIfNeededIs
<1>6. FrontOf(<<>>, q) /\ Len(<<>>) <= kMaxPendingWrites
  BY <1>1 DEF StreamOK
<1>7. StreamOK(n, q)
  BY <1>3, <1>6, DownIsOK
<1>8. Renewed(r, n)
  BY <1>3 DEF Down, Renewed
<1>9. QED
  BY <1>2, <1>5, <1>7, <1>8

\* A token opens the stream, and the handshake is sent.
OpenedStream(r, u, raced) ==
  [r EXCEPT !.state = "Open", !.user = u, !.raced = raced,
            !.toServer = <<[kind |-> "handshake", w |-> 0]>>]

\* The stream is in order, with the handshake under way.
LEMMA OpeningKeeps ==
  ASSUME NEW r \in Remote, NEW q, StreamOK(r, q), r.state = "Starting",
         NEW u \in AnyUser, NEW raced \in BOOLEAN
  PROVE  /\ StreamOK(OpenedStream(r, u, raced), q)
         /\ Stream(OpenedStream(r, u, raced), "Open", FALSE, r.close_count, FALSE, u, raced,
                   r.write_pipeline, <<Handshake>>, <<>>)
<1>1. Handshake \in Message
  BY BoundsAssumption DEF Handshake, Message
<1>2. <<Handshake>> \in Seq(Message)
  BY <1>1
<1>3. PICK n : n = OpenedStream(r, u, raced)
  OBVIOUS
<1>4. n = [r EXCEPT !.state = "Open", !.user = u, !.raced = raced, !.toServer = <<Handshake>>]
  BY <1>3 DEF OpenedStream, Handshake
<1>5. /\ r.fromServer = <<>> /\ ~r.handshake_complete /\ ~r.idle /\ r.write_pipeline # <<>>
      /\ FrontOf(r.write_pipeline, q) /\ Len(r.write_pipeline) <= kMaxPendingWrites
  BY DEF StreamOK, NothingSent, Established, IsStarted
<1>6. r.handshake_complete = FALSE /\ r.idle = FALSE
  BY <1>5, RemoteFields
<1>7. Stream(n, "Open", FALSE, r.close_count, FALSE, u, raced, r.write_pipeline,
             <<Handshake>>, <<>>)
  BY <1>2, <1>4, <1>5, <1>6 DEF Stream, Remote
<1>8. ~Established(n) /\ Greeting(n) /\ n.write_pipeline = r.write_pipeline /\ ~n.idle
  BY <1>7 DEF Stream, Established, Greeting
<1>9. n.state = "Open"
  BY <1>7 DEF Stream
<1>10. StreamOK(n, q)
  BY <1>5, <1>8, <1>9 DEF StreamOK
<1>11. QED
  BY <1>3, <1>7, <1>10

\* The handshake is answered: the stream is established and carries the pipeline.
EstablishedStream(r) ==
  Send([[r EXCEPT !.fromServer = Tail(@)] EXCEPT !.handshake_complete = TRUE], r.write_pipeline)

\* It is in order.
LEMMA HandshakeKeeps ==
  ASSUME NEW r \in Remote, NEW q, StreamOK(r, q), r.state = "Open", r.fromServer # <<>>,
         ~r.handshake_complete
  PROVE  /\ StreamOK(EstablishedStream(r), q)
         /\ EstablishedStream(r) \in Remote
         /\ EstablishedStream(r).state = "Open" /\ EstablishedStream(r).close_count = r.close_count
         /\ EstablishedStream(r).user = r.user /\ EstablishedStream(r).raced = r.raced
         /\ EstablishedStream(r).fromServer = <<>>
<1>1. ~Established(r) /\ IsStarted(r)
  BY DEF Established, IsStarted
<1>2. /\ r.fromServer = <<Handshake>> /\ r.toServer = <<>> /\ ~r.idle /\ r.write_pipeline # <<>>
      /\ FrontOf(r.write_pipeline, q) /\ Len(r.write_pipeline) <= kMaxPendingWrites
  BY <1>1 DEF StreamOK, Greeting
<1>3. PICK pl \in Seq(Batch) : pl = r.write_pipeline
  BY RemoteFields
<1>4. Tail(r.fromServer) = <<>>
  BY <1>2
<1>5. PICK e, n : /\ e = [[r EXCEPT !.fromServer = Tail(@)] EXCEPT !.handshake_complete = TRUE]
                  /\ n = Send(e, pl)
  OBVIOUS
<1>6. Stream(e, "Open", TRUE, r.close_count, r.idle, r.user, r.raced, pl, <<>>, <<>>)
  <2>1. e = [[r EXCEPT !.fromServer = <<>>] EXCEPT !.handshake_complete = TRUE]
    BY <1>4, <1>5
  <2>2. <<>> \in Seq(Message)
    BY EmptySeq
  <2>3. QED
    BY <1>2, <1>3, <2>1, <2>2 DEF Stream, Remote
<1>7. e \in Remote
  BY <1>6 DEF Stream
<1>8. Stream(n, e.state, e.handshake_complete, e.close_count, e.idle /\ pl = <<>>, e.user,
             e.raced, e.write_pipeline, e.toServer \o Messages(pl), e.fromServer)
  BY <1>5, <1>7, SendIs
<1>9. <<>> \o Messages(pl) = Messages(pl)
  BY MessagesAre, ConcatEmptySeq
<1>10. /\ n \in Remote /\ n.state = "Open" /\ n.handshake_complete = TRUE
       /\ n.close_count = r.close_count /\ n.user = r.user /\ n.raced = r.raced
       /\ n.write_pipeline = pl /\ n.toServer = Messages(pl) /\ n.fromServer = <<>> /\ ~n.idle
  BY <1>2, <1>3, <1>6, <1>8, <1>9 DEF Stream
<1>11. Carried(pl, Messages(pl), <<>>)
  <2>1. PICK ms : ms = Messages(pl)
    OBVIOUS
  <2>2. /\ Len(ms) = Len(pl) /\ DOMAIN ms = DOMAIN pl /\ DOMAIN pl = 1..Len(pl) /\ Len(pl) \in Nat
        /\ \A i \in DOMAIN pl : ms[i].kind = "write" /\ ms[i].w = pl[i].w
    BY <2>1, MessagesAre, LenProperties
  <2>3. Len(<<>>) = 0 /\ DOMAIN <<>> = {} /\ \A i \in DOMAIN pl : 0 + i = i
    BY <2>2, EmptySeq
  <2>4. Len(pl) = 0 + Len(ms)
    BY <2>2
  <2>5. Carried(pl, ms, <<>>)
    BY <2>2, <2>3, <2>4 DEF Carried
  <2>6. QED
    BY <2>1, <2>5
<1>12. Carries(n) /\ Established(n)
  BY <1>10, <1>11 DEF Carries, Established
<1>13. StreamOK(n, q)
  BY <1>2, <1>3, <1>10, <1>12 DEF StreamOK, Established
<1>14. EstablishedStream(r) = n
  BY <1>3, <1>5 DEF EstablishedStream
<1>15. QED
  BY <1>4, <1>10, <1>13, <1>14

\* An open stream that has an answer for a write is established, and the answer
\* is for the front of the pipeline.
LEMMA AnswerIsForFront ==
  ASSUME NEW r \in Remote, NEW q, StreamOK(r, q), r.state = "Open",
         NEW i \in DOMAIN r.fromServer, r.fromServer[i].kind # "handshake"
  PROVE  /\ Established(r) /\ Carries(r) /\ r.write_pipeline # <<>> /\ ~r.idle
         /\ i \in DOMAIN r.write_pipeline /\ r.fromServer[i].w = r.write_pipeline[i].w
<1>1. r.handshake_complete
  <2>1. SUFFICES ASSUME ~r.handshake_complete PROVE FALSE
    OBVIOUS
  <2>2. Greeting(r)
    BY <2>1 DEF StreamOK
  <2>3. CASE r.fromServer = <<>>
    BY <2>3, EmptySeq
  <2>4. CASE r.fromServer = <<Handshake>>
    <3>1. r.fromServer[i] = Handshake
      BY <2>4
    <3>2. QED
      BY <3>1 DEF Handshake
  <2>5. QED
    BY <2>2, <2>3, <2>4 DEF Greeting
<1>2. Established(r) /\ Carries(r)
  BY <1>1 DEF StreamOK, Established
<1>3. PICK pl \in Seq(Batch), to \in Seq(Message), from \in Seq(Message) :
        pl = r.write_pipeline /\ to = r.toServer /\ from = r.fromServer
  BY RemoteFields
<1>4. Carried(pl, to, from) /\ i \in DOMAIN from
  BY <1>2, <1>3 DEF Carries
<1>5. /\ Len(pl) \in Nat /\ Len(from) \in Nat /\ Len(to) \in Nat
      /\ DOMAIN pl = 1..Len(pl) /\ DOMAIN from = 1..Len(from)
  BY LenProperties
<1>6. Len(pl) = Len(from) + Len(to)
  BY <1>4 DEF Carried
<1>7. i \in DOMAIN pl
  BY <1>4, <1>5, <1>6
<1>8. pl # <<>>
  BY <1>7, EmptySeq
<1>9. r.fromServer[i].w = r.write_pipeline[i].w
  BY <1>3, <1>4 DEF Carried
<1>10. ~r.idle
  BY <1>3, <1>8 DEF StreamOK
<1>11. QED
  BY <1>2, <1>3, <1>7, <1>8, <1>9, <1>10

\* The first answer is read, and the front of the pipeline goes with it.
LEMMA CarriesLess ==
  ASSUME NEW pl \in Seq(Batch), NEW to \in Seq(Message), NEW from \in Seq(Message),
         Carried(pl, to, from), from # <<>>, pl # <<>>
  PROVE  Carried(Tail(pl), to, Tail(from))
<1>1. PICK tp, tf : tp = Tail(pl) /\ tf = Tail(from)
  OBVIOUS
<1>2. PICK lf \in Nat, lt \in Nat, lp \in Nat :
        lf = Len(from) - 1 /\ lt = Len(to) /\ lp = Len(pl) - 1
  <2>1. Len(from) \in Nat /\ Len(from) > 0 /\ Len(pl) \in Nat /\ Len(pl) > 0 /\ Len(to) \in Nat
    BY FrontIsTaken, LenProperties
  <2>2. Len(from) - 1 \in Nat /\ Len(pl) - 1 \in Nat
    BY <2>1
  <2>3. QED
    BY <2>1, <2>2
<1>3. /\ Len(tf) = lf /\ DOMAIN tf = 1..lf
      /\ \A i \in 1..lf : i + 1 \in DOMAIN from /\ tf[i] = from[i + 1]
  BY <1>1, <1>2, FrontIsTaken
<1>4. /\ Len(tp) = lp /\ DOMAIN tp = 1..lp
      /\ \A i \in 1..lp : i + 1 \in DOMAIN pl /\ tp[i] = pl[i + 1]
  BY <1>1, <1>2, FrontIsTaken
<1>5. Len(from) = lf + 1 /\ Len(pl) = lp + 1 /\ DOMAIN to = 1..lt /\ DOMAIN from = 1..(lf + 1)
  <2>1. Len(from) \in Nat /\ Len(pl) \in Nat /\ DOMAIN from = 1..Len(from)
    BY LenProperties
  <2>2. Len(from) = lf + 1 /\ Len(pl) = lp + 1
    BY <1>2, <2>1
  <2>3. QED
    BY <1>2, <2>1, <2>2, LenProperties
<1>6. lp = lf + lt
  BY <1>2, <1>5 DEF Carried
<1>7. ASSUME NEW i \in DOMAIN tf
      PROVE  /\ tf[i].w = tp[i].w /\ tf[i].kind \in {"write", "refusal"}
             /\ tf[i].kind = "refusal" => i = lf
  <2>1. i \in 1..lf /\ i \in 1..lp
    BY <1>3, <1>6
  <2>2. PICK j \in DOMAIN from : j = i + 1
    BY <1>3, <2>1
  <2>3. tf[i] = from[j] /\ tp[i] = pl[j]
    BY <1>3, <1>4, <2>1, <2>2
  <2>4. /\ from[j].w = pl[j].w /\ from[j].kind \in {"write", "refusal"}
        /\ from[j].kind = "refusal" => j = Len(from)
    BY DEF Carried
  <2>5. j = lf + 1 => i = lf
    BY <2>1, <2>2
  <2>6. QED
    BY <1>5, <2>3, <2>4, <2>5
<1>8. ASSUME NEW i \in DOMAIN to
      PROVE  to[i].w = tp[lf + i].w /\ to[i].kind = "write"
  <2>1. to[i].w = pl[Len(from) + i].w /\ to[i].kind = "write"
    BY DEF Carried
  <2>2. i \in 1..lt
    BY <1>5
  <2>3. lf + i \in 1..lp /\ Len(from) + i = (lf + i) + 1
    BY <1>5, <1>6, <2>2
  <2>4. tp[lf + i] = pl[Len(from) + i]
    BY <1>4, <2>3
  <2>5. QED
    BY <2>1, <2>4
<1>9. Carried(tp, to, tf)
  BY <1>2, <1>3, <1>4, <1>6, <1>7, <1>8 DEF Carried
<1>10. QED
  BY <1>1, <1>9

\* The server takes the first write on its way and answers it.
LEMMA CarriesAnswer ==
  ASSUME NEW pl \in Seq(Batch), NEW to \in Seq(Message), NEW from \in Seq(Message),
         Carried(pl, to, from), to # <<>>,
         \A i \in DOMAIN from : from[i].kind # "refusal",
         NEW a \in Message, a.kind \in {"write", "refusal"}, a.w = Head(to).w
  PROVE  Carried(pl, Tail(to), Append(from, a))
<1>1. PICK tt, nf : tt = Tail(to) /\ nf = Append(from, a)
  OBVIOUS
<1>2. PICK lf \in Nat, lt \in Nat : lf = Len(from) /\ lt = Len(to) - 1
  <2>1. Len(to) \in Nat /\ Len(to) > 0 /\ Len(from) \in Nat
    BY FrontIsTaken, LenProperties
  <2>2. Len(to) - 1 \in Nat
    BY <2>1
  <2>3. QED
    BY <2>1, <2>2
<1>3. /\ Len(tt) = lt /\ DOMAIN tt = 1..lt /\ Head(to) = to[1] /\ 1 \in DOMAIN to
      /\ \A i \in 1..lt : i + 1 \in DOMAIN to /\ tt[i] = to[i + 1]
  BY <1>1, <1>2, FrontIsTaken
<1>4. /\ Len(nf) = lf + 1 /\ DOMAIN nf = 1..(lf + 1) /\ DOMAIN from = 1..lf
      /\ \A i \in 1..lf : nf[i] = from[i]
      /\ nf[lf + 1] = a
  BY <1>1, <1>2, OneElementIsAdded
<1>5. Len(to) = lt + 1
  <2>1. Len(to) \in Nat
    BY LenProperties
  <2>2. QED
    BY <1>2, <2>1
<1>6. Len(pl) = (lf + 1) + lt
  BY <1>2, <1>5 DEF Carried
<1>7. ASSUME NEW i \in DOMAIN nf
      PROVE  /\ nf[i].w = pl[i].w /\ nf[i].kind \in {"write", "refusal"}
             /\ nf[i].kind = "refusal" => i = lf + 1
  <2>1. CASE i \in 1..lf
    BY <1>4, <2>1 DEF Carried
  <2>2. CASE i = lf + 1
    <3>1. to[1].w = pl[lf + 1].w
      BY <1>2, <1>3 DEF Carried
    <3>2. QED
      BY <1>3, <1>4, <2>2, <3>1
  <2>3. QED
    BY <1>4, <2>1, <2>2
<1>8. ASSUME NEW i \in DOMAIN tt
      PROVE  tt[i].w = pl[(lf + 1) + i].w /\ tt[i].kind = "write"
  <2>1. PICK j \in DOMAIN to : j = i + 1
    BY <1>3
  <2>2. to[j].w = pl[lf + j].w /\ to[j].kind = "write"
    BY <1>2 DEF Carried
  <2>3. lf + j = (lf + 1) + i
    BY <1>3, <2>1
  <2>4. QED
    BY <1>3, <2>1, <2>2, <2>3
<1>9. Carried(pl, tt, nf)
  BY <1>3, <1>4, <1>6, <1>7, <1>8 DEF Carried
<1>10. QED
  BY <1>1, <1>9

\* The stream once the answer for the front of its pipeline was read.
AnsweredStream(r) == [[r EXCEPT !.fromServer = Tail(@)] EXCEPT !.write_pipeline = Tail(@)]

\* It is in order over the rest of the queue.
LEMMA AnswerKeeps ==
  ASSUME NEW r \in Remote, NEW q \in Seq(Batch), StreamOK(r, q), Established(r),
         r.fromServer # <<>>, r.write_pipeline # <<>>
  PROVE  /\ StreamOK(AnsweredStream(r), Tail(q))
         /\ AnsweredStream(r) \in Remote
         /\ AnsweredStream(r).state = "Open" /\ AnsweredStream(r).close_count = r.close_count
         /\ AnsweredStream(r).user = r.user /\ AnsweredStream(r).raced = r.raced
         /\ AnsweredStream(r).fromServer = Tail(r.fromServer)
<1>1. PICK pl \in Seq(Batch), to \in Seq(Message), from \in Seq(Message) :
        pl = r.write_pipeline /\ to = r.toServer /\ from = r.fromServer
  BY RemoteFields
<1>2. /\ Carried(pl, to, from) /\ FrontOf(pl, q) /\ Len(pl) <= kMaxPendingWrites
      /\ r.state = "Open" /\ r.handshake_complete = TRUE /\ r.idle = FALSE
      /\ pl # <<>> /\ from # <<>>
  BY <1>1, RemoteFields DEF StreamOK, Carries, Established
<1>3. Carried(Tail(pl), to, Tail(from))
  BY <1>2, CarriesLess
<1>4. /\ FrontOf(Tail(pl), Tail(q)) /\ Len(Tail(pl)) <= Len(pl) /\ Tail(pl) \in Seq(Batch)
      /\ Tail(from) \in Seq(Message)
  BY <1>2, FrontOfTail, FrontIsTaken
<1>5. Len(Tail(pl)) <= kMaxPendingWrites
  BY <1>2, <1>4, PendingAssumption, LenProperties
<1>6. PICK n : n = AnsweredStream(r)
  OBVIOUS
<1>7. Stream(n, "Open", TRUE, r.close_count, FALSE, r.user, r.raced, Tail(pl), to, Tail(from))
  <2>1. n = [[r EXCEPT !.fromServer = Tail(from)] EXCEPT !.write_pipeline = Tail(pl)]
    BY <1>1, <1>6 DEF AnsweredStream
  <2>2. QED
    BY <1>1, <1>2, <1>4, <2>1 DEF Stream, Remote
<1>8. /\ n \in Remote /\ n.state = "Open" /\ n.handshake_complete = TRUE
      /\ n.close_count = r.close_count /\ n.idle = FALSE /\ n.user = r.user /\ n.raced = r.raced
      /\ n.write_pipeline = Tail(pl) /\ n.toServer = to /\ n.fromServer = Tail(from)
  BY <1>7 DEF Stream
<1>9. Carries(n) /\ Established(n) /\ n.state = "Open"
  BY <1>3, <1>8 DEF Carries, Established
<1>10. StreamOK(n, Tail(q))
  BY <1>4, <1>5, <1>8, <1>9 DEF StreamOK
<1>11. QED
  BY <1>1, <1>6, <1>8, <1>10

\* The stream once the server has answered its first message with a.
ServedStream(r, a) == [r EXCEPT !.toServer = Tail(@), !.fromServer = Append(@, a)]

\* It is in order.
LEMMA ServerKeeps ==
  ASSUME NEW r \in Remote, NEW q, StreamOK(r, q), r.state = "Open", r.toServer # <<>>,
         \A i \in DOMAIN r.fromServer : r.fromServer[i].kind # "refusal",
         NEW a \in Message, a.w = Head(r.toServer).w,
         \/ Head(r.toServer).kind = "handshake" /\ a.kind = "handshake"
         \/ Head(r.toServer).kind = "write" /\ a.kind \in {"write", "refusal"}
  PROVE  /\ StreamOK(ServedStream(r, a), q)
         /\ ServedStream(r, a) \in Remote
         /\ ServedStream(r, a).state = "Open" /\ ServedStream(r, a).close_count = r.close_count
         /\ ServedStream(r, a).user = r.user /\ ServedStream(r, a).raced = r.raced
         /\ ServedStream(r, a).fromServer = Append(r.fromServer, a)
<1>1. PICK pl \in Seq(Batch), to \in Seq(Message), from \in Seq(Message) :
        pl = r.write_pipeline /\ to = r.toServer /\ from = r.fromServer
  BY RemoteFields
<1>2. to # <<>> /\ Tail(to) \in Seq(Message) /\ Append(from, a) \in Seq(Message)
  BY <1>1, FrontIsTaken, OneElementIsAdded
<1>3. PICK n : n = ServedStream(r, a)
  OBVIOUS
<1>4. Stream(n, "Open", r.handshake_complete, r.close_count, r.idle, r.user, r.raced, pl,
             Tail(to), Append(from, a))
  <2>1. n = [r EXCEPT !.toServer = Tail(to), !.fromServer = Append(from, a)]
    BY <1>1, <1>3 DEF ServedStream
  <2>2. QED
    BY <1>1, <1>2, <2>1 DEF Stream, Remote
<1>5. /\ n \in Remote /\ n.state = "Open" /\ n.handshake_complete = r.handshake_complete
      /\ n.close_count = r.close_count /\ n.idle = r.idle /\ n.user = r.user /\ n.raced = r.raced
      /\ n.write_pipeline = pl /\ n.toServer = Tail(to) /\ n.fromServer = Append(from, a)
  BY <1>4 DEF Stream
<1>6. Established(n) <=> Established(r)
  BY <1>5 DEF Established
<1>7. CASE r.handshake_complete
  <2>1. Carried(pl, to, from) /\ Established(r)
    BY <1>1, <1>7 DEF StreamOK, Carries, Established
  <2>2. Head(to) = to[1] /\ 1 \in DOMAIN to
    BY <1>2, FrontIsTaken
  <2>3. Head(to).kind = "write"
    BY <2>1, <2>2 DEF Carried
  <2>4. Carried(pl, Tail(to), Append(from, a))
    BY <1>1, <1>2, <2>1, <2>3, CarriesAnswer
  <2>5. Carries(n)
    BY <1>5, <2>4 DEF Carries
  <2>6. StreamOK(n, q)
    BY <1>1, <1>5, <1>6, <2>1, <2>5 DEF StreamOK, Established
  <2>7. QED
    BY <1>1, <1>3, <1>5, <2>6
<1>8. CASE ~r.handshake_complete
  <2>1. to = <<Handshake>> /\ from = <<>>
    BY <1>1, <1>2, <1>8 DEF StreamOK, Greeting
  <2>2. Tail(to) = <<>> /\ Head(to) = Handshake
    BY <2>1
  <2>3. a = Handshake
    <3>1. a.kind = "handshake" /\ a.w = 0
      BY <1>1, <2>2 DEF Handshake
    <3>2. QED
      BY <3>1 DEF Handshake, Message
  <2>4. Append(from, a) = <<Handshake>>
    BY <2>1, <2>3
  <2>5. Greeting(n)
    BY <1>5, <1>8, <2>2, <2>4 DEF Greeting
  <2>6. IsStarted(r) /\ ~Established(r)
    BY <1>8 DEF IsStarted, Established
  <2>7. StreamOK(n, q)
    BY <1>1, <1>5, <1>6, <2>5, <2>6 DEF StreamOK
  <2>8. QED
    BY <1>1, <1>3, <1>5, <2>7
<1>9. QED
  BY <1>7, <1>8

-----------------------------------------------------------------------------
(***************************************************************************)
(* The mutation queues.                                                    *)
(***************************************************************************)

\* The batch at the front of a queue is taken off.
LEMMA FrontIsRemoved ==
  ASSUME NEW q \in Seq(Batch), q # <<>>, Ordered(q), NEW id, id = q[1].id
  PROVE  Without(q, id) = Tail(q)
<1>1. /\ Len(q) \in Nat /\ Len(q) > 0 /\ DOMAIN q = 1..Len(q) /\ 1 \in DOMAIN q
      /\ Tail(q) \in Seq(Batch)
  BY FrontIsTaken
<1>2. \A i \in DOMAIN q : q[i].id \in Nat
  <2>1. \A i \in DOMAIN q : q[i] \in Batch
    BY LenProperties, ElementOfSeq
  <2>2. QED
    BY <2>1 DEF Batch
<1>3. \A i \in DOMAIN q : q[i].id = id => i = 1
  <2>1. SUFFICES ASSUME NEW i \in DOMAIN q, i # 1 PROVE q[i].id # id
    OBVIOUS
  <2>2. 1 < i
    BY <1>1, <2>1
  <2>3. q[1].id < q[i].id
    BY <1>1, <2>2 DEF Ordered
  <2>4. QED
    BY <1>1, <1>2, <2>3
<1>4. (CHOOSE i \in DOMAIN q : q[i].id = id) = 1
  BY <1>1, <1>3
<1>5. Without(q, id) = SubSeq(q, 1, 0) \o SubSeq(q, 2, Len(q))
  <2>1. \A i : RemoveAt(q, i) = SubSeq(q, 1, i - 1) \o SubSeq(q, i + 1, Len(q))
    BY DEF RemoveAt
  <2>2. Without(q, id) = RemoveAt(q, CHOOSE i \in DOMAIN q : q[i].id = id)
    BY DEF Without
  <2>3. Without(q, id) = RemoveAt(q, 1)
    BY <1>4, <2>2
  <2>4. 1 - 1 = 0 /\ 1 + 1 = 2
    OBVIOUS
  <2>5. QED
    BY <2>1, <2>3, <2>4
<1>6. SubSeq(q, 1, 0) = <<>>
  BY SubSeqEmpty
<1>7. SubSeq(q, 2, Len(q)) = Tail(q)
  BY TailIsSubSeq
<1>8. <<>> \o Tail(q) = Tail(q)
  BY <1>1, ConcatEmptySeq
<1>9. QED
  BY <1>5, <1>6, <1>7, <1>8

\* A queue without its front.
LEMMA ShorterQueue ==
  ASSUME NEW q \in Seq(Batch), q # <<>>, NEW n, NEW u, NEW ws,
         Ordered(q), Numbered(q, n), Unanswered(q, u, ws)
  PROVE  Ordered(Tail(q)) /\ Numbered(Tail(q), n) /\ Unanswered(Tail(q), u, ws)
<1>1. PICK t \in Seq(Batch) : t = Tail(q)
  BY FrontIsTaken
<1>2. /\ Len(q) \in Nat /\ DOMAIN q = 1..Len(q) /\ DOMAIN t = 1..(Len(q) - 1)
      /\ \A i \in DOMAIN t : i + 1 \in DOMAIN q /\ t[i] = q[i + 1]
  BY <1>1, FrontIsTaken
<1>3. Ordered(t)
  <2>1. SUFFICES ASSUME NEW i \in DOMAIN t, NEW j \in DOMAIN t, i < j
                 PROVE  t[i].id < t[j].id /\ t[i].w < t[j].w
    BY DEF Ordered
  <2>2. i + 1 < j + 1
    BY <1>2, <2>1
  <2>3. QED
    BY <1>2, <2>2 DEF Ordered
<1>4. Numbered(t, n)
  BY <1>2 DEF Numbered
<1>5. Unanswered(t, u, ws)
  BY <1>2 DEF Unanswered
<1>6. QED
  BY <1>1, <1>3, <1>4, <1>5

\* A queue with a new batch.
LEMMA LongerQueue ==
  ASSUME NEW q \in Seq(Batch), NEW n \in Nat, 0 < n, NEW w \in 1..MaxWrites,
         Ordered(q), Numbered(q, n), \A i \in DOMAIN q : q[i].w < w,
         NEW b, b = [id |-> n, w |-> w]
  PROVE  /\ b \in Batch /\ Append(q, b) \in Seq(Batch)
         /\ Ordered(Append(q, b)) /\ Numbered(Append(q, b), n + 1)
<1>1. b \in Batch /\ b.id = n /\ b.w = w
  BY DEF Batch
<1>2. PICK p \in Seq(Batch) : p = Append(q, b)
  BY <1>1, OneElementIsAdded
<1>3. PICK l \in Nat : l = Len(q)
  BY LenProperties
<1>4. /\ DOMAIN q = 1..l /\ DOMAIN p = 1..(l + 1)
      /\ \A i \in DOMAIN q : p[i] = q[i]
      /\ p[l + 1] = b
  BY <1>1, <1>2, <1>3, OneElementIsAdded
<1>5. \A i \in DOMAIN p : i \in DOMAIN q \/ i = l + 1
  BY <1>4
<1>6. \A i \in DOMAIN q : q[i].id \in Nat /\ 0 < q[i].id /\ q[i].id < n
  <2>1. \A i \in DOMAIN q : q[i] \in Batch
    BY LenProperties, ElementOfSeq
  <2>2. QED
    BY <2>1 DEF Batch, Numbered
<1>7. Ordered(p)
  <2>1. SUFFICES ASSUME NEW i \in DOMAIN p, NEW j \in DOMAIN p, i < j
                 PROVE  p[i].id < p[j].id /\ p[i].w < p[j].w
    BY DEF Ordered
  <2>2. i \in DOMAIN q
    BY <1>4, <1>5, <2>1
  <2>3. CASE j \in DOMAIN q
    BY <1>4, <2>1, <2>2, <2>3 DEF Ordered
  <2>4. CASE j = l + 1
    BY <1>1, <1>4, <1>6, <2>2, <2>4
  <2>5. QED
    BY <1>5, <2>3, <2>4
<1>8. Numbered(p, n + 1)
  <2>1. SUFFICES ASSUME NEW i \in DOMAIN p PROVE 0 < p[i].id /\ p[i].id < n + 1
    BY DEF Numbered
  <2>2. CASE i \in DOMAIN q
    BY <1>4, <1>6, <2>2
  <2>3. CASE i = l + 1
    BY <1>1, <1>4, <2>3
  <2>4. QED
    BY <1>5, <2>2, <2>3
<1>9. QED
  BY <1>1, <1>2, <1>7, <1>8

\* The ids on disk.
Ids(ms) == UNION {{ms[u][i].id : i \in DOMAIN ms[u]} : u \in AnyUser}

\* The next id, read from disk, is later than every one there.
LEMMA NextIdIsFree ==
  ASSUME mutations \in [AnyUser -> Seq(Batch)], next_batch_id \in Nat,
         \A u \in AnyUser : Numbered(mutations[u], next_batch_id)
  PROVE  /\ LoadNextBatchIdFromDb \in Nat /\ 0 < LoadNextBatchIdFromDb
         /\ \A u \in AnyUser : Numbered(mutations[u], LoadNextBatchIdFromDb)
<1>1. \A u \in AnyUser : \A i \in DOMAIN mutations[u] :
        /\ mutations[u][i].id \in Nat /\ 0 < mutations[u][i].id
        /\ mutations[u][i].id < next_batch_id
  <2>1. \A u \in AnyUser : \A i \in DOMAIN mutations[u] : mutations[u][i] \in Batch
    BY LenProperties, ElementOfSeq
  <2>2. QED
    BY <2>1 DEF Batch, Numbered
<1>2. PICK S : S = {0} \cup Ids(mutations)
  OBVIOUS
<1>3. \A x \in S : x = 0 \/ \E u \in AnyUser : \E i \in DOMAIN mutations[u] : x = mutations[u][i].id
  BY <1>2 DEF Ids
<1>4. S \subseteq Nat /\ 0 \in S /\ \A x \in S : x <= next_batch_id
  <2>1. 0 \in S
    BY <1>2
  <2>2. SUFFICES ASSUME NEW x \in S PROVE x \in Nat /\ x <= next_batch_id
    BY <2>1
  <2>3. CASE x = 0
    BY <2>3
  <2>4. CASE \E u \in AnyUser : \E i \in DOMAIN mutations[u] : x = mutations[u][i].id
    BY <1>1, <2>4
  <2>5. QED
    BY <1>3, <2>3, <2>4
<1>5. Max(S) \in S /\ \A x \in S : x <= Max(S)
  BY <1>4, MaxIsGreatest
<1>6. PICK m \in Nat : m = Max(S)
  BY <1>4, <1>5
<1>7. LoadNextBatchIdFromDb = 1 + m
  BY <1>2, <1>6 DEF LoadNextBatchIdFromDb, Ids
<1>8. \A u \in AnyUser : \A i \in DOMAIN mutations[u] : mutations[u][i].id \in S
  BY <1>2 DEF Ids
<1>9. \A u \in AnyUser : \A i \in DOMAIN mutations[u] :
        0 < mutations[u][i].id /\ mutations[u][i].id < 1 + m
  BY <1>1, <1>5, <1>6, <1>8
<1>10. 1 + m \in Nat /\ 0 < 1 + m
  OBVIOUS
<1>11. QED
  BY <1>7, <1>9, <1>10 DEF Numbered

-----------------------------------------------------------------------------
(***************************************************************************)
(* The requests for a token pass from Auth to the main queue and from      *)
(* there to the worker queue or back.                                      *)
(***************************************************************************)

\* One more request with close count c would be in order.
Free(T, mq, wq, cc, state, c) ==
  c <= cc /\ (c = cc => state = "Starting" /\ NoToken(T, mq, wq, cc))

\* Auth has answered a request.
LEMMA RequestTaken ==
  ASSUME NEW T, NEW mq, NEW wq, NEW cc, NEW state, NEW t \in T, TokensOK(T, mq, wq, cc, state)
  PROVE  /\ TokensOK(T \ {t}, mq, wq, cc, state)
         /\ Free(T \ {t}, mq, wq, cc, state, t.close_count)
<1>1. NotLater(T \ {t}, mq, wq, cc) /\ t.close_count <= cc
  BY DEF TokensOK, NotLater
<1>2. OneToken(T \ {t}, mq, wq, cc)
  BY DEF TokensOK, OneToken
<1>3. NoToken(T, mq, wq, cc) => NoToken(T \ {t}, mq, wq, cc) /\ t.close_count # cc
  BY DEF NoToken
<1>4. t.close_count = cc => NoToken(T \ {t}, mq, wq, cc)
  BY DEF TokensOK, OneToken, NoToken
<1>5. QED
  BY <1>1, <1>2, <1>3, <1>4 DEF TokensOK, Free

\* A request is made.
LEMMA RequestPut ==
  ASSUME NEW T, NEW mq, NEW wq, NEW cc, NEW state, NEW t, TokensOK(T, mq, wq, cc, state),
         Free(T, mq, wq, cc, state, t.close_count)
  PROVE  TokensOK(T \cup {t}, mq, wq, cc, state)
<1>1. NotLater(T \cup {t}, mq, wq, cc)
  BY DEF TokensOK, NotLater, Free
<1>2. CASE t.close_count # cc
  <2>1. OneToken(T \cup {t}, mq, wq, cc)
    BY <1>2 DEF TokensOK, OneToken
  <2>2. NoToken(T, mq, wq, cc) => NoToken(T \cup {t}, mq, wq, cc)
    BY <1>2 DEF NoToken
  <2>3. QED
    BY <1>1, <2>1, <2>2 DEF TokensOK
<1>3. CASE t.close_count = cc
  <2>1. state = "Starting" /\ NoToken(T, mq, wq, cc)
    BY <1>3 DEF Free
  <2>2. OneToken(T \cup {t}, mq, wq, cc)
    BY <2>1 DEF NoToken, OneToken
  <2>3. QED
    BY <1>1, <2>1, <2>2 DEF TokensOK
<1>4. QED
  BY <1>2, <1>3

\* A block of the main queue has run.
LEMMA BlockTaken ==
  ASSUME NEW T, NEW mq \in Seq(Block), NEW wq, NEW cc, NEW state, TokensOK(T, mq, wq, cc, state),
         mq # <<>>
  PROVE  /\ TokensOK(T, Tail(mq), wq, cc, state)
         /\ Head(mq).kind = "token" =>
              Free(T, Tail(mq), wq, cc, state, Head(mq).token.close_count)
<1>1. PICK m \in Seq(Block) : m = Tail(mq)
  BY FrontIsTaken
<1>2. /\ Len(mq) \in Nat /\ DOMAIN mq = 1..Len(mq) /\ DOMAIN m = 1..(Len(mq) - 1)
      /\ 1 \in DOMAIN mq /\ Head(mq) = mq[1]
      /\ \A i \in DOMAIN m : i + 1 \in DOMAIN mq /\ m[i] = mq[i + 1]
  BY <1>1, FrontIsTaken
<1>3. \A i \in DOMAIN m : /\ i + 1 \in DOMAIN mq /\ i + 1 # 1
                         /\ TokenAt(m, i, cc) => TokenAt(mq, i + 1, cc)
  BY <1>2 DEF TokenAt
<1>4. NotLater(T, m, wq, cc)
  BY <1>2 DEF TokensOK, NotLater
<1>5. OneToken(T, m, wq, cc)
  <2>1. OneToken(T, mq, wq, cc)
    BY DEF TokensOK
  <2>2. \A i, j \in DOMAIN m : TokenAt(m, i, cc) /\ TokenAt(m, j, cc) => i = j
    <3>1. SUFFICES ASSUME NEW i \in DOMAIN m, NEW j \in DOMAIN m,
                          TokenAt(m, i, cc), TokenAt(m, j, cc)
                   PROVE  i = j
      OBVIOUS
    <3>2. i + 1 = j + 1
      BY <1>2, <2>1, <3>1 DEF OneToken, TokenAt
    <3>3. i \in Nat /\ j \in Nat
      BY <1>2
    <3>4. QED
      BY <3>2, <3>3
  <2>3. /\ \A t \in T, i \in DOMAIN m : ~(t.close_count = cc /\ TokenAt(m, i, cc))
        /\ \A i \in DOMAIN m, j \in DOMAIN wq : ~(TokenAt(m, i, cc) /\ TokenAt(wq, j, cc))
    BY <1>2, <2>1 DEF OneToken, TokenAt
  <2>4. QED
    BY <2>1, <2>2, <2>3 DEF OneToken
<1>6. NoToken(T, mq, wq, cc) => NoToken(T, m, wq, cc)
  BY <1>2 DEF NoToken, TokenAt
<1>7. ASSUME Head(mq).kind = "token"
      PROVE  Free(T, m, wq, cc, state, Head(mq).token.close_count)
  <2>1. mq[1].token.close_count <= cc
    BY <1>2, <1>7 DEF TokensOK, NotLater
  <2>2. ASSUME mq[1].token.close_count = cc
        PROVE  state = "Starting" /\ NoToken(T, m, wq, cc)
    <3>1. TokenAt(mq, 1, cc)
      BY <1>2, <1>7, <2>2 DEF TokenAt
    <3>2. ~NoToken(T, mq, wq, cc)
      BY <1>2, <3>1 DEF NoToken
    <3>3. NoToken(T, m, wq, cc)
      BY <1>2, <1>3, <3>1 DEF NoToken, OneToken, TokensOK
    <3>4. QED
      BY <3>2, <3>3 DEF TokensOK
  <2>3. QED
    BY <1>2, <2>1, <2>2 DEF Free
<1>8. QED
  BY <1>1, <1>4, <1>5, <1>6, <1>7 DEF TokensOK

\* An operation of the worker queue has run.
LEMMA OperationTaken ==
  ASSUME NEW T, NEW mq, NEW wq \in Seq(Operation), NEW cc, NEW state,
         TokensOK(T, mq, wq, cc, state), wq # <<>>
  PROVE  /\ TokensOK(T, mq, Tail(wq), cc, state)
         /\ Head(wq).kind = "token" =>
              Free(T, mq, Tail(wq), cc, state, Head(wq).token.close_count)
<1>1. PICK m \in Seq(Operation) : m = Tail(wq)
  BY FrontIsTaken
<1>2. /\ Len(wq) \in Nat /\ DOMAIN wq = 1..Len(wq) /\ DOMAIN m = 1..(Len(wq) - 1)
      /\ 1 \in DOMAIN wq /\ Head(wq) = wq[1]
      /\ \A i \in DOMAIN m : i + 1 \in DOMAIN wq /\ m[i] = wq[i + 1]
  BY <1>1, FrontIsTaken
<1>3. \A i \in DOMAIN m : /\ i + 1 \in DOMAIN wq /\ i + 1 # 1
                         /\ TokenAt(m, i, cc) => TokenAt(wq, i + 1, cc)
  BY <1>2 DEF TokenAt
<1>4. NotLater(T, mq, m, cc)
  BY <1>2 DEF TokensOK, NotLater
<1>5. OneToken(T, mq, m, cc)
  <2>1. OneToken(T, mq, wq, cc)
    BY DEF TokensOK
  <2>2. \A i, j \in DOMAIN m : TokenAt(m, i, cc) /\ TokenAt(m, j, cc) => i = j
    <3>1. SUFFICES ASSUME NEW i \in DOMAIN m, NEW j \in DOMAIN m,
                          TokenAt(m, i, cc), TokenAt(m, j, cc)
                   PROVE  i = j
      OBVIOUS
    <3>2. i + 1 = j + 1
      BY <1>2, <2>1, <3>1 DEF OneToken, TokenAt
    <3>3. i \in Nat /\ j \in Nat
      BY <1>2
    <3>4. QED
      BY <3>2, <3>3
  <2>3. /\ \A t \in T, i \in DOMAIN m : ~(t.close_count = cc /\ TokenAt(m, i, cc))
        /\ \A i \in DOMAIN mq, j \in DOMAIN m : ~(TokenAt(mq, i, cc) /\ TokenAt(m, j, cc))
    BY <1>2, <2>1 DEF OneToken, TokenAt
  <2>4. QED
    BY <2>1, <2>2, <2>3 DEF OneToken
<1>6. NoToken(T, mq, wq, cc) => NoToken(T, mq, m, cc)
  BY <1>2 DEF NoToken, TokenAt
<1>7. ASSUME Head(wq).kind = "token"
      PROVE  Free(T, mq, m, cc, state, Head(wq).token.close_count)
  <2>1. wq[1].token.close_count <= cc
    BY <1>2, <1>7 DEF TokensOK, NotLater
  <2>2. ASSUME wq[1].token.close_count = cc
        PROVE  state = "Starting" /\ NoToken(T, mq, m, cc)
    <3>1. TokenAt(wq, 1, cc)
      BY <1>2, <1>7, <2>2 DEF TokenAt
    <3>2. ~NoToken(T, mq, wq, cc)
      BY <1>2, <3>1 DEF NoToken
    <3>3. NoToken(T, mq, m, cc)
      BY <1>2, <1>3, <3>1 DEF NoToken, OneToken, TokensOK
    <3>4. QED
      BY <3>2, <3>3 DEF TokensOK
  <2>3. QED
    BY <1>2, <2>1, <2>2 DEF Free
<1>8. QED
  BY <1>1, <1>4, <1>5, <1>6, <1>7 DEF TokensOK

\* A block is put on the main queue.
LEMMA BlockPut ==
  ASSUME NEW T, NEW mq \in Seq(Block), NEW wq, NEW cc, NEW state, NEW b \in Block,
         TokensOK(T, mq, wq, cc, state),
         b.kind = "token" => Free(T, mq, wq, cc, state, b.token.close_count)
  PROVE  TokensOK(T, Append(mq, b), wq, cc, state)
<1>1. PICK m \in Seq(Block) : m = Append(mq, b)
  BY OneElementIsAdded
<1>2. PICK l \in Nat : l = Len(mq)
  BY OneElementIsAdded
<1>3. /\ DOMAIN mq = 1..l /\ DOMAIN m = 1..(l + 1) /\ m[l + 1] = b
      /\ \A i \in DOMAIN mq : m[i] = mq[i]
  BY <1>1, <1>2, OneElementIsAdded
<1>4. \A i \in DOMAIN m : (i \in DOMAIN mq /\ m[i] = mq[i]) \/ (i = l + 1 /\ m[i] = b)
  BY <1>3
<1>5. NotLater(T, m, wq, cc)
  BY <1>4 DEF TokensOK, NotLater, Free
<1>6. CASE ~TokenAt(m, l + 1, cc)
  <2>1. \A i \in DOMAIN m : TokenAt(m, i, cc) => i \in DOMAIN mq /\ TokenAt(mq, i, cc)
    BY <1>3, <1>4, <1>6 DEF TokenAt
  <2>2. OneToken(T, m, wq, cc)
    BY <2>1 DEF TokensOK, OneToken
  <2>3. NoToken(T, mq, wq, cc) => NoToken(T, m, wq, cc)
    BY <2>1 DEF NoToken
  <2>4. QED
    BY <1>1, <1>5, <2>2, <2>3 DEF TokensOK
<1>7. CASE TokenAt(m, l + 1, cc)
  <2>1. state = "Starting" /\ NoToken(T, mq, wq, cc)
    BY <1>3, <1>7 DEF TokenAt, Free
  <2>2. \A i \in DOMAIN m : TokenAt(m, i, cc) => i = l + 1
    BY <1>3, <1>4, <2>1 DEF TokenAt, NoToken
  <2>3. OneToken(T, m, wq, cc)
    BY <2>1, <2>2 DEF NoToken, OneToken
  <2>4. QED
    BY <1>1, <1>5, <2>1, <2>3 DEF TokensOK
<1>8. QED
  BY <1>6, <1>7

\* An operation is put on the worker queue.
LEMMA OperationPut ==
  ASSUME NEW T, NEW mq, NEW wq \in Seq(Operation), NEW cc, NEW state, NEW b \in Operation,
         TokensOK(T, mq, wq, cc, state),
         b.kind = "token" => Free(T, mq, wq, cc, state, b.token.close_count)
  PROVE  TokensOK(T, mq, Append(wq, b), cc, state)
<1>1. PICK m \in Seq(Operation) : m = Append(wq, b)
  BY OneElementIsAdded
<1>2. PICK l \in Nat : l = Len(wq)
  BY OneElementIsAdded
<1>3. /\ DOMAIN wq = 1..l /\ DOMAIN m = 1..(l + 1) /\ m[l + 1] = b
      /\ \A i \in DOMAIN wq : m[i] = wq[i]
  BY <1>1, <1>2, OneElementIsAdded
<1>4. \A i \in DOMAIN m : (i \in DOMAIN wq /\ m[i] = wq[i]) \/ (i = l + 1 /\ m[i] = b)
  BY <1>3
<1>5. NotLater(T, mq, m, cc)
  BY <1>4 DEF TokensOK, NotLater, Free
<1>6. CASE ~TokenAt(m, l + 1, cc)
  <2>1. \A i \in DOMAIN m : TokenAt(m, i, cc) => i \in DOMAIN wq /\ TokenAt(wq, i, cc)
    BY <1>3, <1>4, <1>6 DEF TokenAt
  <2>2. OneToken(T, mq, m, cc)
    BY <2>1 DEF TokensOK, OneToken
  <2>3. NoToken(T, mq, wq, cc) => NoToken(T, mq, m, cc)
    BY <2>1 DEF NoToken
  <2>4. QED
    BY <1>1, <1>5, <2>2, <2>3 DEF TokensOK
<1>7. CASE TokenAt(m, l + 1, cc)
  <2>1. state = "Starting" /\ NoToken(T, mq, wq, cc)
    BY <1>3, <1>7 DEF TokenAt, Free
  <2>2. \A i \in DOMAIN m : TokenAt(m, i, cc) => i = l + 1
    BY <1>3, <1>4, <2>1 DEF TokenAt, NoToken
  <2>3. OneToken(T, mq, m, cc)
    BY <2>1, <2>2 DEF NoToken, OneToken
  <2>4. QED
    BY <1>1, <1>5, <2>1, <2>3 DEF TokensOK
<1>8. QED
  BY <1>6, <1>7

\* The step from r to n leaves the requests for r behind, or their stream starting.
Moves(r, n) ==
  \/ n.close_count = r.close_count + 1
  \/ n.close_count = r.close_count /\ (n.state = r.state \/ r.state # "Starting")

\* The stream goes on to n: a request is made when it is started.
LEMMA StreamMoves ==
  ASSUME remote \in Remote, tokens \subseteq Token, contents.token_counter \in Nat,
         NEW mq \in Seq(Block), NEW wq \in Seq(Operation),
         TokensOK(tokens, mq, wq, remote.close_count, remote.state),
         NEW n \in Remote, Moves(remote, n)
  PROVE  TokensOK(NewRequests(n), mq, wq, n.close_count, n.state)
<1>1. remote.close_count \in Nat /\ n.close_count \in Nat
  BY RemoteFields
<1>2. PICK cc \in Nat : cc = remote.close_count
  BY <1>1
<1>3. PICK c \in Nat : c = n.close_count
  BY <1>1
<1>4. /\ \A t \in tokens : t.close_count \in Nat
      /\ \A i \in DOMAIN mq : mq[i].kind = "token" => mq[i].token.close_count \in Nat
      /\ \A i \in DOMAIN wq : wq[i].kind = "token" => wq[i].token.close_count \in Nat
  <2>1. \A i \in DOMAIN mq : mq[i] \in Block
    BY LenProperties, ElementOfSeq
  <2>2. \A i \in DOMAIN wq : wq[i] \in Operation
    BY LenProperties, ElementOfSeq
  <2>3. \A t \in Token : t.close_count \in Nat
    BY DEF Token
  <2>4. \A b \in Block : b.kind = "token" => b.token \in Token
    BY DEF Block
  <2>5. \A b \in Operation : b.kind = "token" => b.token \in Token
    BY DEF Operation
  <2>6. QED
    BY <2>1, <2>2, <2>3, <2>4, <2>5
<1>5. ASSUME c = cc \/ c = cc + 1,
             c = cc => NoToken(tokens, mq, wq, cc)
      PROVE  NotLater(tokens, mq, wq, c) /\ NoToken(tokens, mq, wq, c)
  <2>1. NotLater(tokens, mq, wq, cc)
    BY <1>2 DEF TokensOK
  <2>2. CASE c = cc
    BY <1>5, <2>1, <2>2
  <2>3. CASE c = cc + 1
    <3>1. \A k \in Nat : k <= cc => k <= c /\ k # c
      BY <2>3
    <3>2. NotLater(tokens, mq, wq, c)
      BY <1>4, <2>1, <3>1 DEF NotLater
    <3>3. NoToken(tokens, mq, wq, c)
      BY <1>4, <2>1, <3>1 DEF NotLater, NoToken, TokenAt
    <3>4. QED
      BY <3>2, <3>3
  <2>4. QED
    BY <1>5, <2>2, <2>3
<1>6. CASE n.close_count = remote.close_count /\ n.state = remote.state
  <2>1. NewRequests(n) = tokens
    BY <1>6 DEF NewRequests
  <2>2. QED
    BY <1>6, <2>1
<1>7. CASE n.close_count = remote.close_count + 1 \/ remote.state # "Starting"
  <2>1. c = cc \/ c = cc + 1
    BY <1>2, <1>3 DEF Moves
  <2>2. c = cc => NoToken(tokens, mq, wq, cc)
    <3>1. SUFFICES ASSUME c = cc PROVE NoToken(tokens, mq, wq, cc)
      OBVIOUS
    <3>2. remote.state # "Starting"
      BY <1>2, <1>3, <1>7, <3>1
    <3>3. QED
      BY <1>2, <3>2 DEF TokensOK
  <2>3. NotLater(tokens, mq, wq, c) /\ NoToken(tokens, mq, wq, c)
    BY <1>5, <2>1, <2>2
  <2>4. OneToken(tokens, mq, wq, c)
    BY <2>3 DEF NoToken, OneToken
  <2>5. TokensOK(tokens, mq, wq, c, n.state)
    BY <2>3, <2>4 DEF TokensOK
  <2>6. CASE NewRequests(n) = tokens
    BY <1>3, <2>5, <2>6
  <2>7. CASE NewRequests(n) # tokens
    <3>1. PICK t : /\ t = [close_count |-> n.close_count, counter |-> contents.token_counter,
                           user |-> NoUser, read |-> FALSE, raced |-> FALSE, ok |-> TRUE]
                   /\ n.state = "Starting" /\ NewRequests(n) = tokens \cup {t}
      BY <2>7 DEF NewRequests
    <3>2. t.close_count = c
      BY <1>3, <3>1
    <3>3. Free(tokens, mq, wq, c, n.state, t.close_count)
      BY <2>3, <3>1, <3>2 DEF Free
    <3>4. TokensOK(tokens \cup {t}, mq, wq, c, n.state)
      BY <2>5, <3>3, RequestPut
    <3>5. QED
      BY <1>3, <3>1, <3>4
  <2>8. QED
    BY <2>6, <2>7
<1>8. QED
  BY <1>6, <1>7 DEF Moves

-----------------------------------------------------------------------------
(***************************************************************************)
(* Who is signed in, along the main queue.                                 *)
(***************************************************************************)

\* A notification is put on the main queue.
LEMMA NewsPut ==
  ASSUME NEW mq \in Seq(Block), NEW b \in Block, b.kind = "notification",
         NEW n, NEW u, NEW T, CallbacksCurrent(mq, n, u), RequestsCurrent(T, mq, n, u)
  PROVE  /\ CallbacksCurrent(Append(mq, b), n, u)
         /\ RequestsCurrent(T, Append(mq, b), n, u)
<1>1. PICK m \in Seq(Block) : m = Append(mq, b)
  BY OneElementIsAdded
<1>2. PICK l \in Nat : l = Len(mq)
  BY OneElementIsAdded
<1>3. /\ DOMAIN mq = 1..l /\ DOMAIN m = 1..(l + 1) /\ m[l + 1] = b
      /\ \A i \in DOMAIN mq : m[i] = mq[i]
  BY <1>1, <1>2, OneElementIsAdded
<1>4. l + 1 \in DOMAIN m /\ m[l + 1].kind = "notification"
  BY <1>3
<1>5. CallbacksCurrent(m, n, u)
  <2>1. SUFFICES ASSUME NEW k \in DOMAIN m, m[k].kind = "token"
                 PROVE  /\ m[k].token.counter <= n
                        /\ (\A i \in DOMAIN m : i < k => ~IsNotification(m, i)) =>
                             Current(m[k].token, n, u)
    BY DEF CallbacksCurrent
  <2>2. k \in DOMAIN mq /\ m[k] = mq[k]
    BY <1>3, <1>4, <2>1
  <2>3. (\A i \in DOMAIN m : i < k => ~IsNotification(m, i)) =>
          \A i \in DOMAIN mq : i < k => ~IsNotification(mq, i)
    BY <1>3 DEF IsNotification
  <2>4. QED
    BY <2>1, <2>2, <2>3 DEF CallbacksCurrent
<1>6. ~NoNews(m)
  BY <1>4 DEF NoNews, IsNotification
<1>7. RequestsCurrent(T, m, n, u)
  BY <1>6 DEF RequestsCurrent
<1>8. QED
  BY <1>1, <1>5, <1>7

\* The answer to a request is put on the main queue.
LEMMA AnswerPut ==
  ASSUME NEW mq \in Seq(Block), NEW b \in Block, b.kind = "token",
         NEW n, NEW u, NEW T, NEW S \in SUBSET T,
         CallbacksCurrent(mq, n, u), RequestsCurrent(T, mq, n, u),
         b.token.counter <= n, NoNews(mq) => Current(b.token, n, u)
  PROVE  /\ CallbacksCurrent(Append(mq, b), n, u)
         /\ RequestsCurrent(S, Append(mq, b), n, u)
<1>1. PICK m \in Seq(Block) : m = Append(mq, b)
  BY OneElementIsAdded
<1>2. PICK l \in Nat : l = Len(mq)
  BY OneElementIsAdded
<1>3. /\ DOMAIN mq = 1..l /\ DOMAIN m = 1..(l + 1) /\ m[l + 1] = b
      /\ \A i \in DOMAIN mq : i \in DOMAIN m /\ m[i] = mq[i]
  BY <1>1, <1>2, OneElementIsAdded
<1>4. \A i \in DOMAIN m : (i \in DOMAIN mq /\ m[i] = mq[i]) \/ (i = l + 1 /\ m[i] = b)
  BY <1>3
<1>5. \A i \in DOMAIN m : IsNotification(m, i) => i \in DOMAIN mq /\ IsNotification(mq, i)
  BY <1>4 DEF IsNotification
<1>6. \A i \in DOMAIN mq : i \in DOMAIN m /\ (IsNotification(mq, i) => IsNotification(m, i))
  BY <1>3 DEF IsNotification
<1>7. NoNews(m) => NoNews(mq)
  BY <1>6 DEF NoNews
<1>8. CallbacksCurrent(m, n, u)
  <2>1. SUFFICES ASSUME NEW k \in DOMAIN m, m[k].kind = "token"
                 PROVE  /\ m[k].token.counter <= n
                        /\ (\A i \in DOMAIN m : i < k => ~IsNotification(m, i)) =>
                             Current(m[k].token, n, u)
    BY DEF CallbacksCurrent
  <2>2. CASE k \in DOMAIN mq /\ m[k] = mq[k]
    <3>1. (\A i \in DOMAIN m : i < k => ~IsNotification(m, i)) =>
            \A i \in DOMAIN mq : i < k => ~IsNotification(mq, i)
      BY <1>6
    <3>2. QED
      BY <2>1, <2>2, <3>1 DEF CallbacksCurrent
  <2>3. CASE k = l + 1 /\ m[k] = b
    <3>1. \A i \in DOMAIN mq : i < k
      BY <1>3, <2>3
    <3>2. (\A i \in DOMAIN m : i < k => ~IsNotification(m, i)) => NoNews(mq)
      BY <1>6, <3>1 DEF NoNews
    <3>3. QED
      BY <2>3, <3>2
  <2>4. QED
    BY <1>4, <2>2, <2>3
<1>9. RequestsCurrent(S, m, n, u)
  BY <1>7 DEF RequestsCurrent
<1>10. QED
  BY <1>1, <1>8, <1>9

\* The notification at the front is handled.
LEMMA NewsTaken ==
  ASSUME NEW mq \in Seq(Block), mq # <<>>, Head(mq).kind = "notification",
         NEW n \in Nat, NEW u, NEW T, T \subseteq Token,
         CallbacksCurrent(mq, n, u), RequestsCurrent(T, mq, n, u)
  PROVE  /\ CallbacksCurrent(Tail(mq), n + 1, Head(mq).user)
         /\ RequestsCurrent(T, Tail(mq), n + 1, Head(mq).user)
<1>1. PICK m \in Seq(Block) : m = Tail(mq)
  BY FrontIsTaken
<1>2. PICK l \in Nat : l = Len(mq)
  BY FrontIsTaken
<1>3. /\ l > 0 /\ DOMAIN mq = 1..l /\ DOMAIN m = 1..(l - 1) /\ Head(mq) = mq[1]
      /\ \A i \in DOMAIN m : i + 1 \in DOMAIN mq /\ m[i] = mq[i + 1]
  BY <1>1, <1>2, FrontIsTaken
<1>4. \A i \in DOMAIN m : m[i].kind = "token" => m[i].token.counter \in Nat
  <2>1. \A i \in DOMAIN m : m[i] \in Block
    BY LenProperties, ElementOfSeq
  <2>2. \A b \in Block : b.kind = "token" => b.token \in Token
    BY DEF Block
  <2>3. QED
    BY <2>1, <2>2 DEF Token
<1>5. \A t : \A x : t.counter \in Nat /\ t.counter <= n => t.counter <= n + 1 /\ Current(t, n + 1, x)
  BY DEF Current
<1>6. CallbacksCurrent(m, n + 1, Head(mq).user)
  BY <1>3, <1>4, <1>5 DEF CallbacksCurrent
<1>7. RequestsCurrent(T, m, n + 1, Head(mq).user)
  <2>1. \A t \in T : t.counter \in Nat
    BY DEF Token
  <2>2. QED
    BY <1>5, <2>1 DEF RequestsCurrent
<1>8. QED
  BY <1>1, <1>6, <1>7

\* The answer at the front is handled.
LEMMA AnswerTaken ==
  ASSUME NEW mq \in Seq(Block), mq # <<>>, Head(mq).kind = "token",
         NEW n \in Nat, NEW u, NEW T,
         CallbacksCurrent(mq, n, u), RequestsCurrent(T, mq, n, u)
  PROVE  /\ CallbacksCurrent(Tail(mq), n, u)
         /\ RequestsCurrent(T, Tail(mq), n, u)
         /\ Current(Head(mq).token, n, u)
<1>1. PICK m \in Seq(Block) : m = Tail(mq)
  BY FrontIsTaken
<1>2. PICK l \in Nat : l = Len(mq)
  BY FrontIsTaken
<1>3. /\ l > 0 /\ DOMAIN mq = 1..l /\ DOMAIN m = 1..(l - 1) /\ Head(mq) = mq[1]
      /\ \A i \in DOMAIN m : i + 1 \in DOMAIN mq /\ m[i] = mq[i + 1]
  BY <1>1, <1>2, FrontIsTaken
<1>4. \A i \in DOMAIN mq : IsNotification(mq, i) => \E j \in DOMAIN m : i = j + 1 /\ IsNotification(m, j)
  <2>1. SUFFICES ASSUME NEW i \in DOMAIN mq, IsNotification(mq, i)
                 PROVE  \E j \in DOMAIN m : i = j + 1 /\ IsNotification(m, j)
    OBVIOUS
  <2>2. i # 1
    BY <1>3, <2>1 DEF IsNotification
  <2>3. i - 1 \in DOMAIN m /\ i = (i - 1) + 1
    BY <1>3, <2>2
  <2>4. QED
    BY <1>3, <2>1, <2>3 DEF IsNotification
<1>5. \A i \in DOMAIN m : i + 1 \in DOMAIN mq /\ (IsNotification(m, i) => IsNotification(mq, i + 1))
  BY <1>3 DEF IsNotification
<1>6. NoNews(m) => NoNews(mq)
  BY <1>4 DEF NoNews
<1>7. CallbacksCurrent(m, n, u)
  <2>1. SUFFICES ASSUME NEW k \in DOMAIN m, m[k].kind = "token"
                 PROVE  /\ m[k].token.counter <= n
                        /\ (\A i \in DOMAIN m : i < k => ~IsNotification(m, i)) =>
                             Current(m[k].token, n, u)
    BY DEF CallbacksCurrent
  <2>2. k + 1 \in DOMAIN mq /\ mq[k + 1] = m[k]
    BY <1>3
  <2>3. (\A i \in DOMAIN m : i < k => ~IsNotification(m, i)) =>
          \A i \in DOMAIN mq : i < k + 1 => ~IsNotification(mq, i)
    <3>1. SUFFICES ASSUME NEW i \in DOMAIN mq, i < k + 1, IsNotification(mq, i)
                   PROVE  \E j \in DOMAIN m : j < k /\ IsNotification(m, j)
      OBVIOUS
    <3>2. PICK j \in DOMAIN m : i = j + 1 /\ IsNotification(m, j)
      BY <1>4, <3>1
    <3>3. j < k
      BY <1>3, <3>1, <3>2
    <3>4. QED
      BY <3>2, <3>3
  <2>4. QED
    BY <2>1, <2>2, <2>3 DEF CallbacksCurrent
<1>8. RequestsCurrent(T, m, n, u)
  BY <1>6 DEF RequestsCurrent
<1>9. Current(mq[1].token, n, u)
  <2>1. 1 \in DOMAIN mq /\ mq[1].kind = "token" /\ \A i \in DOMAIN mq : ~(i < 1)
    BY <1>3
  <2>2. QED
    BY <2>1 DEF CallbacksCurrent
<1>10. QED
  BY <1>1, <1>3, <1>7, <1>8, <1>9

-----------------------------------------------------------------------------
(***************************************************************************)
(* Who is signed in, along the worker queue.                               *)
(***************************************************************************)

\* What the operation o is about, for the user u of Firestore when it runs.
OperationOf(o, u, ws) ==
  /\ o.kind = "write" => ws[o.w].author = u
  /\ o.kind = "token" => o.token.raced \/ o.token.user = u

UserAfter(o, u) == IF o.kind = "credential" THEN o.user ELSE u

\* An empty worker queue.
LEMMA NothingAlong ==
  ASSUME NEW u \in AnyUser, NEW ws
  PROVE  UsersAlong(<<>>, u, u, ws)
<1>1. [i \in 1..(Len(<<>>) + 1) |-> u] \in [1..(Len(<<>>) + 1) -> AnyUser]
  OBVIOUS
<1>2. Len(<<>>) + 1 = 1 /\ 1 \in 1..1 /\ DOMAIN <<>> = {}
  OBVIOUS
<1>3. PICK us : us = [i \in 1..(Len(<<>>) + 1) |-> u]
  OBVIOUS
<1>4. us[1] = u /\ us[Len(<<>>) + 1] = u
  BY <1>2, <1>3
<1>5. Along(us, <<>>, ws)
  BY <1>2 DEF Along
<1>6. QED
  BY <1>1, <1>3, <1>4, <1>5 DEF UsersAlong

\* An operation is put at the end.
LEMMA MoreAlong ==
  ASSUME NEW q \in Seq(Operation), NEW o \in Operation, NEW first, NEW last \in AnyUser, NEW ws,
         UsersAlong(q, first, last, ws), OperationOf(o, last, ws)
  PROVE  UsersAlong(Append(q, o), first, UserAfter(o, last), ws)
<1>1. PICK p \in Seq(Operation) : p = Append(q, o)
  BY OneElementIsAdded
<1>2. PICK l \in Nat : l = Len(q)
  BY OneElementIsAdded
<1>3. /\ DOMAIN q = 1..l /\ DOMAIN p = 1..(l + 1) /\ Len(p) = l + 1 /\ p[l + 1] = o
      /\ \A i \in DOMAIN q : p[i] = q[i]
  BY <1>1, <1>2, OneElementIsAdded
<1>4. PICK us \in [1..(l + 1) -> AnyUser] :
        us[1] = first /\ us[l + 1] = last /\ Along(us, q, ws)
  BY <1>2 DEF UsersAlong
<1>5. UserAfter(o, last) \in AnyUser
  <2>1. o.kind = "credential" => o.user \in AnyUser
    BY DEF Operation
  <2>2. QED
    BY <2>1 DEF UserAfter
<1>6. PICK vs : vs = [i \in 1..(l + 2) |-> IF i = l + 2 THEN UserAfter(o, last) ELSE us[i]]
  OBVIOUS
<1>7. /\ \A i \in 1..(l + 1) : i \in 1..(l + 2) /\ i # l + 2
      /\ l + 2 \in 1..(l + 2) /\ l + 1 \in 1..(l + 1) /\ 1 \in 1..(l + 1)
      /\ \A i \in 1..(l + 2) : i # l + 2 => i \in 1..(l + 1)
      /\ (l + 1) + 1 = l + 2
  OBVIOUS
<1>8. vs \in [1..(l + 2) -> AnyUser]
  BY <1>4, <1>5, <1>6, <1>7
<1>9. vs[l + 2] = UserAfter(o, last) /\ \A i \in 1..(l + 1) : vs[i] = us[i]
  BY <1>6, <1>7
<1>10. Along(vs, p, ws)
  <2>1. SUFFICES ASSUME NEW k \in 1..(l + 1)
                 PROVE  /\ vs[k + 1] = IF p[k].kind = "credential" THEN p[k].user ELSE vs[k]
                        /\ p[k].kind = "write" => ws[p[k].w].author = vs[k]
                        /\ p[k].kind = "token" => p[k].token.raced \/ p[k].token.user = vs[k]
    BY <1>3 DEF Along
  <2>2. CASE k = l + 1
    <3>1. p[k] = o /\ vs[k] = last /\ k + 1 = l + 2
      BY <1>3, <1>4, <1>7, <1>9, <2>2
    <3>2. QED
      BY <1>9, <3>1 DEF UserAfter, OperationOf
  <2>3. CASE k # l + 1
    <3>1. k \in DOMAIN q /\ k + 1 \in 1..(l + 1)
      BY <1>3, <2>3
    <3>2. p[k] = q[k] /\ vs[k] = us[k] /\ vs[k + 1] = us[k + 1]
      BY <1>3, <1>9, <3>1
    <3>3. QED
      BY <1>4, <3>1, <3>2 DEF Along
  <2>4. QED
    BY <2>2, <2>3
<1>11. vs[1] = first
  BY <1>4, <1>7, <1>9
<1>12. Len(p) + 1 = l + 2
  BY <1>3
<1>13. UsersAlong(p, first, UserAfter(o, last), ws)
  BY <1>8, <1>9, <1>10, <1>11, <1>12 DEF UsersAlong
<1>14. QED
  BY <1>1, <1>13

\* The operation at the front runs.
LEMMA LessAlong ==
  ASSUME NEW q \in Seq(Operation), q # <<>>, NEW first \in AnyUser, NEW last, NEW ws,
         UsersAlong(q, first, last, ws)
  PROVE  /\ UsersAlong(Tail(q), UserAfter(Head(q), first), last, ws)
         /\ OperationOf(Head(q), first, ws)
<1>1. PICK p \in Seq(Operation) : p = Tail(q)
  BY FrontIsTaken
<1>2. PICK l \in Nat : l = Len(q)
  BY FrontIsTaken
<1>3. /\ l > 0 /\ DOMAIN q = 1..l /\ DOMAIN p = 1..(l - 1) /\ Len(p) = l - 1 /\ Head(q) = q[1]
      /\ \A i \in DOMAIN p : i + 1 \in DOMAIN q /\ p[i] = q[i + 1]
  BY <1>1, <1>2, FrontIsTaken
<1>4. PICK us \in [1..(l + 1) -> AnyUser] :
        us[1] = first /\ us[l + 1] = last /\ Along(us, q, ws)
  BY <1>2 DEF UsersAlong
<1>5. PICK vs : vs = [i \in 1..l |-> us[i + 1]]
  OBVIOUS
<1>6. \A i \in 1..l : i + 1 \in 1..(l + 1) /\ vs[i] = us[i + 1]
  BY <1>5
<1>7. vs \in [1..l -> AnyUser]
  BY <1>4, <1>5, <1>6
<1>8. Along(vs, p, ws)
  <2>1. SUFFICES ASSUME NEW k \in 1..(l - 1)
                 PROVE  /\ vs[k + 1] = IF p[k].kind = "credential" THEN p[k].user ELSE vs[k]
                        /\ p[k].kind = "write" => ws[p[k].w].author = vs[k]
                        /\ p[k].kind = "token" => p[k].token.raced \/ p[k].token.user = vs[k]
    BY <1>3 DEF Along
  <2>2. k \in 1..l /\ k + 1 \in 1..l /\ k + 1 \in DOMAIN q
    BY <1>3
  <2>3. PICK j \in DOMAIN q : j = k + 1
    BY <2>2
  <2>4. p[k] = q[j] /\ vs[k] = us[j] /\ vs[k + 1] = us[j + 1]
    BY <1>3, <1>6, <2>2, <2>3
  <2>5. QED
    BY <1>4, <2>4 DEF Along
<1>9. 1 \in DOMAIN q /\ 1 \in 1..l /\ l \in 1..l
  BY <1>3
<1>10. us[1 + 1] = UserAfter(q[1], first) /\ OperationOf(q[1], first, ws)
  BY <1>4, <1>9 DEF Along, UserAfter, OperationOf
<1>11. vs[1] = UserAfter(q[1], first) /\ vs[l] = last
  BY <1>4, <1>6, <1>9, <1>10
<1>12. Len(p) + 1 = l
  BY <1>3
<1>13. UsersAlong(p, UserAfter(q[1], first), last, ws)
  BY <1>7, <1>8, <1>11, <1>12 DEF UsersAlong
<1>14. QED
  BY <1>1, <1>3, <1>10, <1>13

\* The authors of the writes on the queue are the same.
LEMMA SameAlong ==
  ASSUME NEW q, NEW first, NEW last, NEW ws, NEW vs, UsersAlong(q, first, last, ws),
         \A k \in DOMAIN q : q[k].kind = "write" => vs[q[k].w].author = ws[q[k].w].author
  PROVE  UsersAlong(q, first, last, vs)
<1>1. PICK us \in [1..(Len(q) + 1) -> AnyUser] :
        us[1] = first /\ us[Len(q) + 1] = last /\ Along(us, q, ws)
  BY DEF UsersAlong
<1>2. Along(us, q, vs)
  BY <1>1 DEF Along
<1>3. QED
  BY <1>1, <1>2 DEF UsersAlong

-----------------------------------------------------------------------------
(***************************************************************************)
(* The writes and what is known of them on the client.                     *)
(***************************************************************************)

\* The types of the fields.
LEMMA WriteFields ==
  ASSUME NEW ws \in Seq(Write), NEW i \in DOMAIN ws
  PROVE  /\ ws[i] \in Write /\ ws[i].author \in AnyUser
         /\ ws[i].told \in {"nothing", "waiting", "ok", "failed", "lost", "gone"}
         /\ ws[i].stored \in BOOLEAN /\ ws[i].as \in SUBSET AnyUser /\ ws[i].refused \in BOOLEAN
         /\ ws[i].lostAck \in BOOLEAN /\ ws[i].garbled \in BOOLEAN /\ ws[i].raced \in BOOLEAN
<1>1. ws[i] \in Write
  BY LenProperties, ElementOfSeq
<1>2. QED
  BY <1>1 DEF Write

\* Nothing but lostAck and garbled has changed, and those were not reset.
Kept(ws, vs) ==
  /\ vs \in Seq(Write) /\ DOMAIN vs = DOMAIN ws /\ Len(vs) = Len(ws)
  /\ \A i \in DOMAIN ws : /\ vs[i].author = ws[i].author /\ vs[i].told = ws[i].told
                          /\ vs[i].stored = ws[i].stored /\ vs[i].as = ws[i].as
                          /\ vs[i].refused = ws[i].refused /\ vs[i].raced = ws[i].raced
                          /\ ws[i].lostAck => vs[i].lostAck
                          /\ ws[i].garbled => vs[i].garbled

\* The answers that are lost when the stream is closed.
LEMMA CutOffIs ==
  ASSUME NEW ws \in Seq(Write)
  PROVE  Kept(ws, CutOff(ws)) /\ \A i \in DOMAIN ws : i \in Unread => CutOff(ws)[i].lostAck
<1>1. PICK vs : vs = CutOff(ws)
  OBVIOUS
<1>2. /\ vs = [i \in DOMAIN ws |-> vs[i]]
      /\ \A i \in DOMAIN ws : vs[i] = IF i \in Unread THEN [ws[i] EXCEPT !.lostAck = TRUE] ELSE ws[i]
  BY <1>1 DEF CutOff
<1>3. \A v \in Write : /\ [v EXCEPT !.lostAck = TRUE] \in Write
                       /\ [v EXCEPT !.lostAck = TRUE].author = v.author
                       /\ [v EXCEPT !.lostAck = TRUE].told = v.told
                       /\ [v EXCEPT !.lostAck = TRUE].stored = v.stored
                       /\ [v EXCEPT !.lostAck = TRUE].as = v.as
                       /\ [v EXCEPT !.lostAck = TRUE].refused = v.refused
                       /\ [v EXCEPT !.lostAck = TRUE].raced = v.raced
                       /\ [v EXCEPT !.lostAck = TRUE].garbled = v.garbled
                       /\ [v EXCEPT !.lostAck = TRUE].lostAck
  BY DEF Write
<1>4. \A i \in DOMAIN ws : ws[i] \in Write
  BY WriteFields
<1>5. \A i \in DOMAIN ws : vs[i] \in Write
  BY <1>2, <1>3, <1>4
<1>6. vs \in Seq(Write) /\ Len(vs) = Len(ws) /\ DOMAIN vs = DOMAIN ws
  BY <1>2, <1>5, EveryElementChanges
<1>7. ASSUME NEW i \in DOMAIN ws
      PROVE  /\ vs[i].author = ws[i].author /\ vs[i].told = ws[i].told
             /\ vs[i].stored = ws[i].stored /\ vs[i].as = ws[i].as
             /\ vs[i].refused = ws[i].refused /\ vs[i].raced = ws[i].raced
             /\ ws[i].lostAck => vs[i].lostAck
             /\ ws[i].garbled => vs[i].garbled
             /\ i \in Unread => vs[i].lostAck
  <2>1. CASE i \in Unread
    <3>1. vs[i] = [ws[i] EXCEPT !.lostAck = TRUE] /\ ws[i] \in Write
      BY <1>2, <1>4, <2>1
    <3>2. QED
      BY <1>3, <3>1
  <2>2. CASE i \notin Unread
    BY <1>2, <2>2
  <2>3. QED
    BY <2>1, <2>2
<1>8. QED
  BY <1>1, <1>6, <1>7 DEF Kept

\* An answer under way is then unread.
LEMMA UnderWayIsUnread ==
  ASSUME remote.fromServer \in Seq(Message), NEW w \in DOMAIN writes,
         AnswerUnderWay(remote.fromServer, w)
  PROVE  w \in Unread
<1>1. PICK k \in DOMAIN remote.fromServer :
        remote.fromServer[k].kind = "write" /\ remote.fromServer[k].w = w
  BY DEF AnswerUnderWay
<1>2. remote.fromServer[k] \in Message
  BY LenProperties, ElementOfSeq
<1>3. remote.fromServer[k] = [kind |-> "write", w |-> w]
  BY <1>1, <1>2 DEF Message
<1>4. [kind |-> "write", w |-> w] \in Range(remote.fromServer)
  BY <1>3 DEF Range
<1>5. QED
  BY <1>4 DEF Unread

\* Every batch on disk carries a write.
LEMMA OnDisk ==
  ASSUME NEW ms \in [AnyUser -> Seq(Batch)], NEW n, NEW ws, DiskOK(ms, n, ws),
         NEW u \in AnyUser, NEW i \in DOMAIN ms[u]
  PROVE  /\ ms[u][i] \in Batch /\ ms[u][i].id \in Nat /\ ms[u][i].w \in 1..MaxWrites
         /\ ms[u][i].w \in DOMAIN ws /\ ws[ms[u][i].w].author = u
         /\ ws[ms[u][i].w].told \in {"waiting", "lost"}
<1>1. ms[u] \in Seq(Batch)
  OBVIOUS
<1>2. ms[u][i] \in Batch
  BY <1>1, LenProperties, ElementOfSeq
<1>3. ms[u][i].id \in Nat /\ ms[u][i].w \in 1..MaxWrites
  BY <1>2 DEF Batch
<1>4. QED
  BY <1>2, <1>3 DEF DiskOK, Unanswered

\* Only other fields of the writes have changed, or the next id has.
LEMMA LocalSame ==
  ASSUME NEW ms \in [AnyUser -> Seq(Batch)], NEW n, NEW m, NEW cs, NEW wq, NEW ws, NEW vs,
         cs \subseteq [user : AnyUser, id : Nat \ {0}, w : 1..MaxWrites],
         LocalOK(ms, n, cs, wq, ws), \A u \in AnyUser : Numbered(ms[u], m),
         DOMAIN ws \subseteq DOMAIN vs,
         \A i \in DOMAIN ws : vs[i].author = ws[i].author /\ vs[i].told = ws[i].told,
         \A j \in DOMAIN wq : IsWrite(wq, j) => vs[wq[j].w].stored = ws[wq[j].w].stored
  PROVE  LocalOK(ms, m, cs, wq, vs)
<1>1. DiskOK(ms, n, ws) /\ Queued(wq, ws, ms) /\ Waiting(cs, ms, ws)
  BY DEF LocalOK
<1>2. \A u \in AnyUser : \A i \in DOMAIN ms[u] : ms[u][i].w \in DOMAIN ws
  BY <1>1, OnDisk
<1>3. DiskOK(ms, m, vs)
  BY <1>1 DEF DiskOK, Unanswered
<1>4. Queued(wq, vs, ms)
  BY <1>1 DEF Queued
<1>5. Waiting(cs, ms, vs)
  <2>1. \A c \in cs : c.user \in AnyUser
    OBVIOUS
  <2>2. ASSUME NEW c \in cs
        PROVE  \E i \in DOMAIN ms[c.user] :
                 c = CallbackOf(c.user, ms[c.user][i]) /\ vs[c.w].told = "waiting"
    <3>1. PICK i \in DOMAIN ms[c.user] :
            c = CallbackOf(c.user, ms[c.user][i]) /\ ws[c.w].told = "waiting"
      BY <1>1 DEF Waiting
    <3>2. c.w = ms[c.user][i].w
      BY <3>1 DEF CallbackOf
    <3>3. QED
      BY <1>2, <2>1, <3>1, <3>2
  <2>3. \A u \in AnyUser : \A i \in DOMAIN ms[u] :
          vs[ms[u][i].w].told = "waiting" => CallbackOf(u, ms[u][i]) \in cs
    BY <1>1, <1>2 DEF Waiting
  <2>4. QED
    BY <2>2, <2>3 DEF Waiting
<1>6. QED
  BY <1>3, <1>4, <1>5 DEF LocalOK

\* An operation of the worker queue has run.
LEMMA LocalTakes ==
  ASSUME NEW ms, NEW n, NEW cs, NEW wq \in Seq(Operation), wq # <<>>, NEW ws,
         LocalOK(ms, n, cs, wq, ws)
  PROVE  LocalOK(ms, n, cs, Tail(wq), ws)
<1>1. PICK t \in Seq(Operation) : t = Tail(wq)
  BY FrontIsTaken
<1>2. /\ Len(wq) \in Nat /\ DOMAIN wq = 1..Len(wq) /\ DOMAIN t = 1..(Len(wq) - 1)
      /\ \A i \in DOMAIN t : i + 1 \in DOMAIN wq /\ t[i] = wq[i + 1]
  BY <1>1, FrontIsTaken
<1>3. Queued(t, ws, ms)
  <2>1. SUFFICES ASSUME NEW j \in DOMAIN t, IsWrite(t, j)
                 PROVE  /\ t[j].w \in DOMAIN ws
                        /\ ws[t[j].w].told = "nothing"
                        /\ ~ws[t[j].w].stored
                        /\ \A k \in DOMAIN t : j < k /\ IsWrite(t, k) => t[j].w < t[k].w
                        /\ \A u \in AnyUser : \A i \in DOMAIN ms[u] : ms[u][i].w < t[j].w
    BY DEF Queued
  <2>2. PICK i \in DOMAIN wq : i = j + 1 /\ wq[i] = t[j] /\ IsWrite(wq, i)
    BY <1>2, <2>1 DEF IsWrite
  <2>3. \A k \in DOMAIN t : j < k /\ IsWrite(t, k) => t[j].w < t[k].w
    <3>1. SUFFICES ASSUME NEW k \in DOMAIN t, j < k, IsWrite(t, k) PROVE t[j].w < t[k].w
      OBVIOUS
    <3>2. PICK h \in DOMAIN wq : h = k + 1 /\ wq[h] = t[k] /\ IsWrite(wq, h)
      BY <1>2, <3>1 DEF IsWrite
    <3>3. i < h
      BY <1>2, <2>2, <3>1, <3>2
    <3>4. QED
      BY <2>2, <3>2, <3>3 DEF LocalOK, Queued
  <2>4. QED
    BY <2>2, <2>3 DEF LocalOK, Queued
<1>4. QED
  BY <1>1, <1>3 DEF LocalOK

\* An operation is put on the worker queue; a write is the latest.
LEMMA LocalPuts ==
  ASSUME NEW ms, NEW n, NEW cs, NEW wq \in Seq(Operation), NEW ws, NEW o \in Operation,
         LocalOK(ms, n, cs, wq, ws),
         o.kind = "write" =>
           /\ o.w \in DOMAIN ws /\ ws[o.w].told = "nothing" /\ ~ws[o.w].stored
           /\ \A k \in DOMAIN wq : IsWrite(wq, k) => wq[k].w < o.w
           /\ \A u \in AnyUser : \A i \in DOMAIN ms[u] : ms[u][i].w < o.w
  PROVE  LocalOK(ms, n, cs, Append(wq, o), ws)
<1>1. PICK t \in Seq(Operation) : t = Append(wq, o)
  BY OneElementIsAdded
<1>2. PICK l \in Nat : l = Len(wq)
  BY OneElementIsAdded
<1>3. /\ DOMAIN wq = 1..l /\ DOMAIN t = 1..(l + 1) /\ t[l + 1] = o
      /\ \A i \in DOMAIN wq : t[i] = wq[i]
  BY <1>1, <1>2, OneElementIsAdded
<1>4. \A i \in DOMAIN t : (i \in DOMAIN wq /\ t[i] = wq[i]) \/ (i = l + 1 /\ t[i] = o)
  BY <1>3
<1>5. Queued(wq, ws, ms)
  BY DEF LocalOK
<1>6. Queued(t, ws, ms)
  <2>1. SUFFICES ASSUME NEW j \in DOMAIN t, IsWrite(t, j)
                 PROVE  /\ t[j].w \in DOMAIN ws
                        /\ ws[t[j].w].told = "nothing"
                        /\ ~ws[t[j].w].stored
                        /\ \A k \in DOMAIN t : j < k /\ IsWrite(t, k) => t[j].w < t[k].w
                        /\ \A u \in AnyUser : \A i \in DOMAIN ms[u] : ms[u][i].w < t[j].w
    BY DEF Queued
  <2>2. CASE j \in DOMAIN wq /\ t[j] = wq[j]
    <3>1. IsWrite(wq, j)
      BY <2>1, <2>2 DEF IsWrite
    <3>2. \A k \in DOMAIN t : j < k /\ IsWrite(t, k) => t[j].w < t[k].w
      <4>1. SUFFICES ASSUME NEW k \in DOMAIN t, j < k, IsWrite(t, k) PROVE t[j].w < t[k].w
        OBVIOUS
      <4>2. CASE k \in DOMAIN wq /\ t[k] = wq[k]
        BY <1>5, <2>2, <3>1, <4>1, <4>2 DEF Queued, IsWrite
      <4>3. CASE k = l + 1 /\ t[k] = o
        BY <2>2, <3>1, <4>1, <4>3 DEF IsWrite
      <4>4. QED
        BY <1>4, <4>2, <4>3
    <3>3. QED
      BY <1>5, <2>2, <3>1, <3>2 DEF Queued
  <2>3. CASE j = l + 1 /\ t[j] = o
    <3>1. o.kind = "write"
      BY <2>1, <2>3 DEF IsWrite
    <3>2. \A k \in DOMAIN t : ~(j < k)
      BY <1>3, <2>3
    <3>3. QED
      BY <2>3, <3>1, <3>2
  <2>4. QED
    BY <1>4, <2>2, <2>3
<1>7. QED
  BY <1>1, <1>6 DEF LocalOK

\* Nothing but told has changed.
ToldOnly(ws, vs) ==
  /\ vs \in Seq(Write) /\ DOMAIN vs = DOMAIN ws /\ Len(vs) = Len(ws)
  /\ \A i \in DOMAIN ws : /\ vs[i].author = ws[i].author /\ vs[i].stored = ws[i].stored
                          /\ vs[i].as = ws[i].as /\ vs[i].refused = ws[i].refused
                          /\ vs[i].lostAck = ws[i].lostAck /\ vs[i].garbled = ws[i].garbled
                          /\ vs[i].raced = ws[i].raced

Told == {"nothing", "waiting", "ok", "failed", "lost", "gone"}

\* The callers of the writes in S are told the verdict.
Tell(ws, S, verdict) ==
  [i \in DOMAIN ws |-> IF i \in S THEN [ws[i] EXCEPT !.told = verdict] ELSE ws[i]]

Telling(ws, vs, S, verdict) ==
  /\ ToldOnly(ws, vs)
  /\ \A i \in DOMAIN ws : vs[i].told = IF i \in S THEN verdict ELSE ws[i].told

\* That is what Tell does.
LEMMA TellingIs ==
  ASSUME NEW ws \in Seq(Write), NEW vs, NEW S, NEW verdict \in Told, vs = Tell(ws, S, verdict)
  PROVE  Telling(ws, vs, S, verdict)
<1>1. \A v \in Write : /\ [v EXCEPT !.told = verdict] \in Write
                       /\ [v EXCEPT !.told = verdict].author = v.author
                       /\ [v EXCEPT !.told = verdict].stored = v.stored
                       /\ [v EXCEPT !.told = verdict].as = v.as
                       /\ [v EXCEPT !.told = verdict].refused = v.refused
                       /\ [v EXCEPT !.told = verdict].lostAck = v.lostAck
                       /\ [v EXCEPT !.told = verdict].raced = v.raced
                       /\ [v EXCEPT !.told = verdict].garbled = v.garbled
                       /\ [v EXCEPT !.told = verdict].told = verdict
  BY DEF Write, Told
<1>2. /\ vs = [i \in DOMAIN ws |-> vs[i]]
      /\ \A i \in DOMAIN ws : vs[i] = IF i \in S THEN [ws[i] EXCEPT !.told = verdict] ELSE ws[i]
  BY DEF Tell
<1>3. \A i \in DOMAIN ws : ws[i] \in Write
  BY WriteFields
<1>4. ASSUME NEW i \in DOMAIN ws
      PROVE  /\ vs[i] \in Write
             /\ vs[i].author = ws[i].author /\ vs[i].stored = ws[i].stored
             /\ vs[i].as = ws[i].as /\ vs[i].refused = ws[i].refused
             /\ vs[i].lostAck = ws[i].lostAck /\ vs[i].raced = ws[i].raced
             /\ vs[i].garbled = ws[i].garbled
             /\ vs[i].told = IF i \in S THEN verdict ELSE ws[i].told
  <2>1. CASE i \in S
    <3>1. vs[i] = [ws[i] EXCEPT !.told = verdict] /\ ws[i] \in Write
      BY <1>2, <1>3, <2>1
    <3>2. QED
      BY <1>1, <2>1, <3>1
  <2>2. CASE i \notin S
    BY <1>2, <1>3, <2>2
  <2>3. QED
    BY <2>1, <2>2
<1>5. vs \in Seq(Write) /\ Len(vs) = Len(ws) /\ DOMAIN vs = DOMAIN ws
  <2>1. \A i \in DOMAIN ws : vs[i] \in Write
    BY <1>4
  <2>2. QED
    BY <1>2, <2>1, EveryElementChanges
<1>6. QED
  BY <1>4, <1>5 DEF ToldOnly, Telling

\* The disk with a batch more in u's queue.
WithMore(ms, u, b) == [ms EXCEPT ![u] = Append(@, b)]

\* SyncEngine::WriteMutations: the write at the front of the worker queue gets the next id.
WriteRan(ms, n, cs, wq, ws, u, b, ms2, ds, vs) ==
  /\ ms \in [AnyUser -> Seq(Batch)] /\ n \in Nat /\ 0 < n /\ u \in AnyUser
  /\ cs \subseteq [user : AnyUser, id : Nat \ {0}, w : 1..MaxWrites]
  /\ wq \in Seq(Operation) /\ wq # <<>> /\ Head(wq).kind = "write" /\ ws \in Seq(Write)
  /\ LocalOK(ms, n, cs, wq, ws) /\ ws[Head(wq).w].author = u
  /\ b = [id |-> n, w |-> Head(wq).w]
  /\ ms2 = WithMore(ms, u, b) /\ ds = cs \cup {CallbackOf(u, b)}
  /\ Telling(ws, vs, {Head(wq).w}, "waiting")

\* The local store is in order.
LEMMA WriteRuns ==
  ASSUME NEW ms, NEW n, NEW cs, NEW wq, NEW ws, NEW u, NEW b, NEW ms2, NEW ds, NEW vs,
         WriteRan(ms, n, cs, wq, ws, u, b, ms2, ds, vs), NEW w, w = Head(wq).w
  PROVE  /\ LocalOK(ms2, n + 1, ds, Tail(wq), vs)
         /\ ~ \E c \in cs : c.user = u /\ c.id = n
         /\ w \in 1..MaxWrites /\ w \in DOMAIN ws /\ ws[w].told = "nothing" /\ ~ws[w].stored
         /\ \A x \in AnyUser : \A i \in DOMAIN ms[x] : ms[x][i].w # w
<1> /\ ms \in [AnyUser -> Seq(Batch)] /\ n \in Nat /\ 0 < n /\ u \in AnyUser
    /\ cs \subseteq [user : AnyUser, id : Nat \ {0}, w : 1..MaxWrites]
    /\ wq \in Seq(Operation) /\ wq # <<>> /\ Head(wq).kind = "write" /\ ws \in Seq(Write)
    /\ LocalOK(ms, n, cs, wq, ws) /\ ws[w].author = u
    /\ b = [id |-> n, w |-> w]
    /\ ms2 = WithMore(ms, u, b) /\ ds = cs \cup {CallbackOf(u, b)}
    /\ ToldOnly(ws, vs)
    /\ \A i \in DOMAIN ws : vs[i].told = IF i \in {w} THEN "waiting" ELSE ws[i].told
  BY DEF WriteRan, Telling
<1>1. /\ 1 \in DOMAIN wq /\ Head(wq) = wq[1] /\ wq[1] \in Operation
      /\ DOMAIN wq = 1..Len(wq) /\ Len(wq) \in Nat
  BY FrontIsTaken
<1>2. w \in 1..MaxWrites
  <2>1. wq[1].kind = "write"
    BY <1>1
  <2>2. \A o \in Operation : o.kind = "write" => o.w \in 1..MaxWrites
    BY DEF Operation
  <2>3. QED
    BY <1>1, <2>1, <2>2
<1>3. /\ w \in DOMAIN ws /\ ws[w].told = "nothing" /\ ~ws[w].stored
      /\ \A x \in AnyUser : \A i \in DOMAIN ms[x] : ms[x][i].w < w
      /\ \A k \in DOMAIN wq : 1 < k /\ IsWrite(wq, k) => w < wq[k].w
  BY <1>1 DEF LocalOK, Queued, IsWrite
<1>4. DiskOK(ms, n, ws) /\ Waiting(cs, ms, ws)
  BY DEF LocalOK
<1>5. \A x \in AnyUser : \A i \in DOMAIN ms[x] :
        ms[x][i].w # w /\ ms[x][i].w \in DOMAIN ws /\ vs[ms[x][i].w].told = ws[ms[x][i].w].told
  <2>1. \A x \in AnyUser : \A i \in DOMAIN ms[x] :
          ms[x][i].w \in 1..MaxWrites /\ ms[x][i].w \in DOMAIN ws
    BY <1>4, OnDisk
  <2>2. \A x \in AnyUser : \A i \in DOMAIN ms[x] : ms[x][i].w # w
    BY <1>2, <1>3, <2>1
  <2>3. QED
    BY <2>1, <2>2
<1>6. ms[u] \in Seq(Batch) /\ Ordered(ms[u]) /\ Numbered(ms[u], n) /\ Unanswered(ms[u], u, ws)
  BY <1>4 DEF DiskOK
<1>7. PICK q \in Seq(Batch) : q = ms[u]
  BY <1>6
<1>8. /\ b \in Batch /\ Append(q, b) \in Seq(Batch)
      /\ Ordered(Append(q, b)) /\ Numbered(Append(q, b), n + 1)
  BY <1>2, <1>3, <1>6, <1>7, LongerQueue
<1>9. PICK p \in Seq(Batch) : p = Append(q, b)
  BY <1>8
<1>10. PICK l \in Nat : l = Len(q)
  BY LenProperties
<1>11. /\ DOMAIN q = 1..l /\ DOMAIN p = 1..(l + 1) /\ p[l + 1] = b
       /\ \A i \in DOMAIN q : p[i] = q[i]
  BY <1>8, <1>9, <1>10, OneElementIsAdded
<1>12. ms2 \in [AnyUser -> Seq(Batch)] /\ ms2[u] = p /\ \A x \in AnyUser : x # u => ms2[x] = ms[x]
  BY <1>7, <1>9 DEF WithMore
<1>13. b.id = n /\ b.w = w
  OBVIOUS
<1>14. ASSUME NEW x \in AnyUser, NEW i \in DOMAIN ms2[x]
       PROVE  \/ i \in DOMAIN ms[x] /\ ms2[x][i] = ms[x][i]
              \/ x = u /\ i = l + 1 /\ ms2[x][i] = b
  <2>1. CASE x = u
    <3>1. i \in 1..(l + 1) /\ ms2[x] = p /\ ms[x] = q
      BY <1>7, <1>11, <1>12, <2>1
    <3>2. i \in DOMAIN q \/ i = l + 1
      BY <1>11, <3>1
    <3>3. QED
      BY <1>11, <2>1, <3>1, <3>2
  <2>2. CASE x # u
    BY <1>12, <2>2
  <2>3. QED
    BY <2>1, <2>2
<1>15. /\ \A x \in AnyUser : \A i \in DOMAIN ms[x] : i \in DOMAIN ms2[x] /\ ms2[x][i] = ms[x][i]
       /\ l + 1 \in DOMAIN ms2[u] /\ ms2[u][l + 1] = b
  <2>1. l + 1 \in DOMAIN p /\ \A i \in DOMAIN q : i \in DOMAIN p
    BY <1>11
  <2>2. ASSUME NEW x \in AnyUser, NEW i \in DOMAIN ms[x]
        PROVE  i \in DOMAIN ms2[x] /\ ms2[x][i] = ms[x][i]
    <3>1. CASE x = u
      BY <1>7, <1>11, <1>12, <2>1, <3>1
    <3>2. CASE x # u
      BY <1>12, <3>2
    <3>3. QED
      BY <3>1, <3>2
  <2>3. QED
    BY <1>11, <1>12, <2>1, <2>2
<1>16. \A i \in DOMAIN ws : vs[i].author = ws[i].author /\ i \in DOMAIN vs
  BY DEF ToldOnly
<1>17. vs[w].told = "waiting" /\ vs[w].author = u /\ w \in DOMAIN vs
  BY <1>3, <1>16
<1>18. DiskOK(ms2, n + 1, vs)
  <2>1. \A x \in AnyUser : Ordered(ms2[x])
    BY <1>4, <1>8, <1>9, <1>12 DEF DiskOK
  <2>2. ASSUME NEW x \in AnyUser PROVE Numbered(ms2[x], n + 1)
    <3>1. CASE x = u
      BY <1>8, <1>9, <1>12, <3>1
    <3>2. CASE x # u
      <4>1. \A i \in DOMAIN ms[x] : ms[x][i].id \in Nat
        BY <1>4, OnDisk
      <4>2. Numbered(ms[x], n)
        BY <1>4 DEF DiskOK
      <4>3. QED
        BY <1>12, <3>2, <4>1, <4>2 DEF Numbered
    <3>3. QED
      BY <3>1, <3>2
  <2>3. ASSUME NEW x \in AnyUser, NEW i \in DOMAIN ms2[x]
        PROVE  /\ ms2[x][i].w \in DOMAIN vs /\ vs[ms2[x][i].w].author = x
               /\ vs[ms2[x][i].w].told \in {"waiting", "lost"}
    <3>1. CASE i \in DOMAIN ms[x] /\ ms2[x][i] = ms[x][i]
      <4>1. /\ ms[x][i].w \in DOMAIN ws /\ ws[ms[x][i].w].author = x
            /\ ws[ms[x][i].w].told \in {"waiting", "lost"}
        <5>1. Unanswered(ms[x], x, ws)
          BY <1>4 DEF DiskOK
        <5>2. QED
          BY <3>1, <5>1 DEF Unanswered
      <4>2. vs[ms[x][i].w].told = ws[ms[x][i].w].told
        BY <1>5, <3>1
      <4>3. vs[ms[x][i].w].author = x /\ ms[x][i].w \in DOMAIN vs
        BY <1>16, <4>1
      <4>4. QED
        BY <3>1, <4>1, <4>2, <4>3
    <3>2. CASE x = u /\ ms2[x][i] = b
      BY <1>13, <1>17, <3>2
    <3>3. QED
      BY <1>14, <3>1, <3>2
  <2>4. QED
    BY <2>1, <2>2, <2>3 DEF DiskOK, Unanswered
<1>19. Queued(Tail(wq), vs, ms2)
  <2>1. PICK t \in Seq(Operation) : t = Tail(wq)
    BY FrontIsTaken
  <2>2. /\ DOMAIN t = 1..(Len(wq) - 1)
        /\ \A i \in DOMAIN t : i + 1 \in DOMAIN wq /\ t[i] = wq[i + 1]
    BY <2>1, FrontIsTaken
  <2>3. Queued(t, ws, ms)
    BY <2>1, LocalTakes DEF LocalOK
  <2>4. ASSUME NEW j \in DOMAIN t, IsWrite(t, j) PROVE w < t[j].w /\ t[j].w # w
    <3>1. j + 1 \in DOMAIN wq /\ 1 < j + 1 /\ IsWrite(wq, j + 1) /\ t[j] = wq[j + 1]
      BY <2>2, <2>4 DEF IsWrite
    <3>2. w < t[j].w
      BY <1>3, <3>1
    <3>3. w \in Nat
      BY <1>2
    <3>4. QED
      BY <3>2, <3>3
  <2>5. ASSUME NEW j \in DOMAIN t, IsWrite(t, j)
        PROVE  /\ t[j].w \in DOMAIN vs
               /\ vs[t[j].w].told = "nothing"
               /\ ~vs[t[j].w].stored
    BY <2>3, <2>4, <2>5 DEF Queued, ToldOnly
  <2>6. ASSUME NEW j \in DOMAIN t, IsWrite(t, j), NEW x \in AnyUser, NEW i \in DOMAIN ms2[x]
        PROVE  ms2[x][i].w < t[j].w
    <3>1. CASE i \in DOMAIN ms[x] /\ ms2[x][i] = ms[x][i]
      BY <2>3, <2>6, <3>1 DEF Queued
    <3>2. CASE ms2[x][i] = b
      BY <1>13, <2>4, <2>6, <3>2
    <3>3. QED
      BY <1>14, <3>1, <3>2
  <2>7. \A j \in DOMAIN t : IsWrite(t, j) =>
          \A k \in DOMAIN t : j < k /\ IsWrite(t, k) => t[j].w < t[k].w
    BY <2>3 DEF Queued
  <2>8. QED
    BY <2>1, <2>5, <2>6, <2>7 DEF Queued
<1>20. Waiting(ds, ms2, vs)
  <2>1. ASSUME NEW c \in ds
        PROVE  \E i \in DOMAIN ms2[c.user] :
                 c = CallbackOf(c.user, ms2[c.user][i]) /\ vs[c.w].told = "waiting"
    <3>1. CASE c \in cs
      <4>1. c.user \in AnyUser
        BY <3>1
      <4>2. PICK i \in DOMAIN ms[c.user] :
              c = CallbackOf(c.user, ms[c.user][i]) /\ ws[c.w].told = "waiting"
        BY <1>4, <3>1 DEF Waiting
      <4>3. c.w = ms[c.user][i].w
        BY <4>2 DEF CallbackOf
      <4>4. i \in DOMAIN ms2[c.user] /\ ms2[c.user][i] = ms[c.user][i]
        BY <1>15, <4>1
      <4>5. vs[c.w].told = "waiting"
        BY <1>5, <4>1, <4>2, <4>3
      <4>6. QED
        BY <4>2, <4>4, <4>5
    <3>2. CASE c = CallbackOf(u, b)
      <4>1. c.user = u /\ c.w = w
        BY <1>13, <3>2 DEF CallbackOf
      <4>2. c = CallbackOf(c.user, ms2[c.user][l + 1]) /\ l + 1 \in DOMAIN ms2[c.user]
        BY <1>15, <3>2, <4>1
      <4>3. vs[c.w].told = "waiting"
        BY <1>17, <4>1
      <4>4. QED
        BY <4>2, <4>3
    <3>3. QED
      BY <3>1, <3>2
  <2>2. ASSUME NEW x \in AnyUser, NEW i \in DOMAIN ms2[x], vs[ms2[x][i].w].told = "waiting"
        PROVE  CallbackOf(x, ms2[x][i]) \in ds
    <3>1. CASE i \in DOMAIN ms[x] /\ ms2[x][i] = ms[x][i]
      <4>1. ws[ms[x][i].w].told = "waiting"
        BY <1>5, <2>2, <3>1
      <4>2. CallbackOf(x, ms[x][i]) \in cs
        BY <1>4, <3>1, <4>1 DEF Waiting
      <4>3. QED
        BY <3>1, <4>2
    <3>2. CASE x = u /\ ms2[x][i] = b
      BY <3>2
    <3>3. QED
      BY <1>14, <3>1, <3>2
  <2>3. QED
    BY <2>1, <2>2 DEF Waiting
<1>21. ASSUME NEW c \in cs, c.user = u, c.id = n PROVE FALSE
  <2>1. PICK i \in DOMAIN ms[u] : c = CallbackOf(u, ms[u][i])
    BY <1>4, <1>21 DEF Waiting
  <2>2. ms[u][i].id = n
    BY <1>21, <2>1 DEF CallbackOf
  <2>3. ms[u][i].id < n
    BY <1>6 DEF Numbered
  <2>4. QED
    BY <2>2, <2>3
<1>22. QED
  BY <1>2, <1>3, <1>5, <1>18, <1>19, <1>20, <1>21 DEF LocalOK

\* The callbacks under that id.
Mine(cs, u, id) == {c \in cs : c.user = u /\ c.id = id}

\* The disk without the front of u's queue.
WithoutFront(ms, u) == [ms EXCEPT ![u] = Tail(@)]

\* The caller of f is told the verdict if it waits for one.
AnsweredOnly(ws, vs, f, verdict) ==
  /\ ToldOnly(ws, vs)
  /\ \A i \in DOMAIN ws :
       vs[i].told = IF i = f /\ ws[i].told = "waiting" THEN verdict ELSE ws[i].told

\* What is left on disk.
LEMMA FrontOnDisk ==
  ASSUME NEW ms \in [AnyUser -> Seq(Batch)], NEW n, NEW ws, DiskOK(ms, n, ws),
         NEW u \in AnyUser, ms[u] # <<>>, NEW m2, m2 = WithoutFront(ms, u)
  PROVE  /\ m2 \in [AnyUser -> Seq(Batch)] /\ m2[u] = Tail(ms[u])
         /\ \A x \in AnyUser : x # u => m2[x] = ms[x]
         /\ 1 \in DOMAIN ms[u] /\ ms[u][1].w \in DOMAIN ws /\ ms[u][1].w \in 1..MaxWrites
         /\ \A i \in DOMAIN ms[u] : ms[u][i].id = ms[u][1].id => i = 1
         /\ \A x \in AnyUser : \A i \in DOMAIN m2[x] :
              m2[x][i].w # ms[u][1].w /\ \E j \in DOMAIN ms[x] : m2[x][i] = ms[x][j]
         /\ \A x \in AnyUser : \A j \in DOMAIN ms[x] :
              (x = u /\ j = 1) \/ \E i \in DOMAIN m2[x] : m2[x][i] = ms[x][j]
         /\ DiskOK(m2, n, ws)
<1>1. PICK q \in Seq(Batch) : q = ms[u] /\ q # <<>>
  OBVIOUS
<1>2. PICK t \in Seq(Batch) : t = Tail(q)
  BY <1>1, FrontIsTaken
<1>3. PICK l \in Nat : l = Len(q)
  BY LenProperties
<1>4. /\ l > 0 /\ DOMAIN q = 1..l /\ 1 \in DOMAIN q /\ DOMAIN t = 1..(l - 1)
      /\ \A i \in DOMAIN t : i + 1 \in DOMAIN q /\ t[i] = q[i + 1]
  BY <1>1, <1>2, <1>3, FrontIsTaken
<1>6. m2 \in [AnyUser -> Seq(Batch)] /\ m2[u] = t /\ \A x \in AnyUser : x # u => m2[x] = ms[x]
  BY <1>1, <1>2 DEF WithoutFront
<1>7. \A x \in AnyUser : \A i \in DOMAIN ms[x] :
        /\ ms[x][i].id \in Nat /\ ms[x][i].w \in Nat /\ ms[x][i].w \in 1..MaxWrites
        /\ ms[x][i].w \in DOMAIN ws /\ ws[ms[x][i].w].author = x
  BY OnDisk
<1>8. Ordered(q) /\ Numbered(q, n) /\ Unanswered(q, u, ws)
  BY <1>1 DEF DiskOK
<1>9. \A i \in DOMAIN q : i # 1 => q[i].id # q[1].id /\ q[i].w # q[1].w
  <2>1. SUFFICES ASSUME NEW i \in DOMAIN q, i # 1 PROVE q[i].id # q[1].id /\ q[i].w # q[1].w
    OBVIOUS
  <2>2. q[1].id < q[i].id /\ q[1].w < q[i].w
    BY <1>4, <1>8, <2>1 DEF Ordered
  <2>3. q[1].id \in Nat /\ q[1].w \in Nat
    BY <1>1, <1>4, <1>7
  <2>4. QED
    BY <2>2, <2>3
<1>10. ASSUME NEW x \in AnyUser, NEW i \in DOMAIN m2[x]
       PROVE  m2[x][i].w # q[1].w /\ \E j \in DOMAIN ms[x] : m2[x][i] = ms[x][j]
  <2>1. CASE x = u
    <3>1. i \in DOMAIN t /\ m2[x][i] = t[i]
      BY <1>6, <2>1
    <3>2. i + 1 \in DOMAIN q /\ i + 1 # 1 /\ t[i] = q[i + 1]
      BY <1>4, <3>1
    <3>3. m2[x][i].w # q[1].w
      BY <1>9, <3>1, <3>2
    <3>4. i + 1 \in DOMAIN ms[x] /\ m2[x][i] = ms[x][i + 1]
      BY <1>1, <2>1, <3>1, <3>2
    <3>5. QED
      BY <3>3, <3>4
  <2>2. CASE x # u
    <3>1. i \in DOMAIN ms[x] /\ m2[x][i] = ms[x][i]
      BY <1>6, <2>2
    <3>2. ws[ms[x][i].w].author = x /\ ws[q[1].w].author = u
      BY <1>1, <1>4, <1>7, <3>1
    <3>3. QED
      BY <2>2, <3>1, <3>2
  <2>3. QED
    BY <2>1, <2>2
<1>11. ASSUME NEW x \in AnyUser, NEW j \in DOMAIN ms[x]
       PROVE  (x = u /\ j = 1) \/ \E i \in DOMAIN m2[x] : m2[x][i] = ms[x][j]
  <2>1. CASE x = u /\ j # 1
    <3>1. j \in 1..l
      BY <1>1, <1>4, <2>1
    <3>2. PICK i \in DOMAIN t : j = i + 1
      <4>1. j - 1 \in DOMAIN t /\ j = (j - 1) + 1
        BY <1>4, <2>1, <3>1
      <4>2. QED
        BY <4>1
    <3>3. t[i] = q[j]
      BY <1>4, <3>2
    <3>4. QED
      BY <1>1, <1>6, <2>1, <3>3
  <2>2. CASE x # u
    BY <1>6, <2>2
  <2>3. QED
    BY <2>1, <2>2
<1>12. DiskOK(m2, n, ws)
  <2>1. Ordered(t) /\ Numbered(t, n) /\ Unanswered(t, u, ws)
    BY <1>1, <1>2, <1>8, ShorterQueue
  <2>2. QED
    BY <1>6, <2>1 DEF DiskOK
<1>13. q[1].w \in DOMAIN ws /\ q[1].w \in 1..MaxWrites
  BY <1>1, <1>4, <1>7
<1>14. \A i \in DOMAIN q : q[i].id = q[1].id => i = 1
  BY <1>9
<1>15. QED
  BY <1>1, <1>2, <1>4, <1>6, <1>10, <1>11, <1>12, <1>13, <1>14

\* NotifyUser after the front was answered.
LEMMA FrontAnswered ==
  ASSUME NEW ms \in [AnyUser -> Seq(Batch)], NEW n, NEW cs,
         cs \subseteq [user : AnyUser, id : Nat \ {0}, w : 1..MaxWrites],
         NEW wq, NEW ws \in Seq(Write), NEW u \in AnyUser,
         LocalOK(ms, n, cs, wq, ws), ms[u] # <<>>,
         NEW mine, mine = Mine(cs, u, ms[u][1].id), NEW f, f = ms[u][1].w,
         NEW vs, NEW verdict, Telling(ws, vs, {c.w : c \in mine}, verdict),
         NEW m2, m2 = WithoutFront(ms, u)
  PROVE  LocalOK(m2, n, cs \ mine, wq, vs) /\ AnsweredOnly(ws, vs, f, verdict)
<1> /\ ToldOnly(ws, vs)
    /\ \A i \in DOMAIN ws : vs[i].told = IF \E c \in mine : c.w = i THEN verdict ELSE ws[i].told
  BY DEF Telling
<1>1. PICK q : q = ms[u]
  OBVIOUS
<1>2. DiskOK(ms, n, ws) /\ Queued(wq, ws, ms) /\ Waiting(cs, ms, ws)
  BY DEF LocalOK
<1>3. /\ m2 \in [AnyUser -> Seq(Batch)]
      /\ 1 \in DOMAIN q /\ f \in DOMAIN ws /\ f \in 1..MaxWrites
      /\ \A i \in DOMAIN q : q[i].id = q[1].id => i = 1
      /\ \A x \in AnyUser : \A i \in DOMAIN m2[x] :
           m2[x][i].w # f /\ \E j \in DOMAIN ms[x] : m2[x][i] = ms[x][j]
      /\ \A x \in AnyUser : \A j \in DOMAIN ms[x] :
           (x = u /\ j = 1) \/ \E i \in DOMAIN m2[x] : m2[x][i] = ms[x][j]
      /\ DiskOK(m2, n, ws)
  BY <1>1, <1>2, FrontOnDisk
<1>4. \A c \in cs : c.user \in AnyUser
  OBVIOUS
<1>5. ASSUME NEW c \in mine PROVE c \in cs /\ c.w = f /\ ws[f].told = "waiting"
  <2>1. c \in cs /\ c.user = u /\ c.id = q[1].id
    BY <1>1 DEF Mine
  <2>2. PICK i \in DOMAIN q : c = CallbackOf(u, q[i]) /\ ws[c.w].told = "waiting"
    BY <1>1, <1>2, <2>1 DEF Waiting
  <2>3. q[i].id = q[1].id
    BY <2>1, <2>2 DEF CallbackOf
  <2>4. i = 1
    BY <1>3, <2>3
  <2>5. c.w = f
    BY <1>1, <2>2, <2>4 DEF CallbackOf
  <2>6. QED
    BY <2>1, <2>2, <2>5
<1>6. ASSUME ws[f].told = "waiting" PROVE \E c \in mine : c.w = f
  <2>1. CallbackOf(u, q[1]) \in cs
    BY <1>1, <1>2, <1>3, <1>6 DEF Waiting
  <2>2. CallbackOf(u, q[1]) \in mine /\ CallbackOf(u, q[1]).w = f
    BY <1>1, <2>1 DEF Mine, CallbackOf
  <2>3. QED
    BY <2>2
<1>7. \A i \in DOMAIN ws : i # f => vs[i].told = ws[i].told
  BY <1>5
<1>8. /\ DOMAIN vs = DOMAIN ws
      /\ \A i \in DOMAIN ws : vs[i].author = ws[i].author /\ vs[i].stored = ws[i].stored
  BY DEF ToldOnly
<1>9. ASSUME NEW x \in AnyUser, NEW i \in DOMAIN m2[x]
      PROVE  /\ m2[x][i].w \in DOMAIN ws /\ ws[m2[x][i].w].author = x
             /\ ws[m2[x][i].w].told \in {"waiting", "lost"}
             /\ vs[m2[x][i].w].told = ws[m2[x][i].w].told
  <2>1. Unanswered(m2[x], x, ws)
    BY <1>3 DEF DiskOK
  <2>2. /\ m2[x][i].w \in DOMAIN ws /\ ws[m2[x][i].w].author = x
        /\ ws[m2[x][i].w].told \in {"waiting", "lost"}
    BY <2>1 DEF Unanswered
  <2>3. m2[x][i].w # f
    BY <1>3
  <2>4. QED
    BY <1>7, <2>2, <2>3
<1>10. DiskOK(m2, n, vs)
  <2>1. ASSUME NEW x \in AnyUser PROVE Unanswered(m2[x], x, vs)
    <3>1. ASSUME NEW i \in DOMAIN m2[x]
          PROVE  /\ m2[x][i].w \in DOMAIN vs /\ vs[m2[x][i].w].author = x
                 /\ vs[m2[x][i].w].told \in {"waiting", "lost"}
      <4>1. /\ m2[x][i].w \in DOMAIN ws /\ ws[m2[x][i].w].author = x
            /\ ws[m2[x][i].w].told \in {"waiting", "lost"}
            /\ vs[m2[x][i].w].told = ws[m2[x][i].w].told
        BY <1>9
      <4>2. QED
        BY <1>8, <4>1
    <3>2. QED
      BY <3>1 DEF Unanswered
  <2>2. QED
    BY <1>3, <2>1 DEF DiskOK
<1>11. Queued(wq, vs, m2)
  <2>1. ASSUME NEW j \in DOMAIN wq, IsWrite(wq, j)
        PROVE  /\ wq[j].w \in DOMAIN vs /\ vs[wq[j].w].told = "nothing" /\ ~vs[wq[j].w].stored
               /\ \A k \in DOMAIN wq : j < k /\ IsWrite(wq, k) => wq[j].w < wq[k].w
               /\ \A x \in AnyUser : \A i \in DOMAIN m2[x] : m2[x][i].w < wq[j].w
    <3>1. /\ wq[j].w \in DOMAIN ws /\ ws[wq[j].w].told = "nothing" /\ ~ws[wq[j].w].stored
          /\ \A k \in DOMAIN wq : j < k /\ IsWrite(wq, k) => wq[j].w < wq[k].w
          /\ \A x \in AnyUser : \A i \in DOMAIN ms[x] : ms[x][i].w < wq[j].w
      BY <1>2, <2>1 DEF Queued
    <3>2. f < wq[j].w
      BY <1>1, <1>3, <3>1
    <3>3. wq[j].w # f
      BY <1>3, <3>2
    <3>4. vs[wq[j].w].told = "nothing" /\ ~vs[wq[j].w].stored /\ wq[j].w \in DOMAIN vs
      BY <1>7, <1>8, <3>1, <3>3
    <3>5. \A x \in AnyUser : \A i \in DOMAIN m2[x] : m2[x][i].w < wq[j].w
      BY <1>3, <3>1
    <3>6. QED
      BY <3>1, <3>4, <3>5
  <2>2. QED
    BY <2>1 DEF Queued
<1>12. Waiting(cs \ mine, m2, vs)
  <2>1. ASSUME NEW c \in cs \ mine
        PROVE  \E i \in DOMAIN m2[c.user] :
                 c = CallbackOf(c.user, m2[c.user][i]) /\ vs[c.w].told = "waiting"
    <3>1. PICK x \in AnyUser : x = c.user
      BY <1>4
    <3>2. PICK j \in DOMAIN ms[x] : c = CallbackOf(x, ms[x][j]) /\ ws[c.w].told = "waiting"
      BY <1>2, <3>1 DEF Waiting
    <3>3. ~(x = u /\ j = 1)
      <4>1. SUFFICES ASSUME x = u, j = 1 PROVE c \in mine
        OBVIOUS
      <4>2. c.user = u /\ c.id = ms[u][1].id
        BY <3>2, <4>1 DEF CallbackOf
      <4>3. QED
        BY <4>2 DEF Mine
    <3>4. PICK i \in DOMAIN m2[x] : m2[x][i] = ms[x][j]
      BY <1>3, <3>3
    <3>5. c = CallbackOf(x, m2[x][i]) /\ c.w = m2[x][i].w
      BY <3>2, <3>4 DEF CallbackOf
    <3>6. vs[c.w].told = "waiting"
      BY <1>9, <3>2, <3>5
    <3>7. QED
      BY <3>1, <3>5, <3>6
  <2>2. ASSUME NEW x \in AnyUser, NEW i \in DOMAIN m2[x], vs[m2[x][i].w].told = "waiting"
        PROVE  CallbackOf(x, m2[x][i]) \in cs \ mine
    <3>1. PICK j \in DOMAIN ms[x] : m2[x][i] = ms[x][j]
      BY <1>3
    <3>2. ws[ms[x][j].w].told = "waiting"
      BY <1>9, <2>2, <3>1
    <3>3. CallbackOf(x, ms[x][j]) \in cs
      BY <1>2, <3>2 DEF Waiting
    <3>4. CallbackOf(x, m2[x][i]).w = m2[x][i].w /\ m2[x][i].w # f
      BY <1>3 DEF CallbackOf
    <3>5. CallbackOf(x, m2[x][i]) \notin mine
      BY <1>5, <3>4
    <3>6. QED
      BY <3>1, <3>3, <3>5
  <2>3. QED
    BY <2>1, <2>2 DEF Waiting
<1>13. AnsweredOnly(ws, vs, f, verdict)
  <2>1. ASSUME NEW i \in DOMAIN ws
        PROVE  vs[i].told = IF i = f /\ ws[i].told = "waiting" THEN verdict ELSE ws[i].told
    BY <1>5, <1>6
  <2>2. QED
    BY <2>1 DEF AnsweredOnly
<1>14. QED
  BY <1>10, <1>11, <1>12, <1>13 DEF LocalOK

\* Who waited does not any more.
Silenced(ws, vs) ==
  /\ DOMAIN vs = DOMAIN ws
  /\ \A i \in DOMAIN ws :
       /\ vs[i].author = ws[i].author /\ vs[i].told # "waiting"
       /\ ws[i].told \in {"waiting", "lost"} => vs[i].told = "lost"

\* After a restart nobody waits.
LEMMA NobodyWaits ==
  ASSUME NEW ms \in [AnyUser -> Seq(Batch)], NEW n, NEW m, NEW cs, NEW wq,
         NEW ws \in Seq(Write), LocalOK(ms, n, cs, wq, ws),
         \A u \in AnyUser : Numbered(ms[u], m), NEW vs, Silenced(ws, vs)
  PROVE  LocalOK(ms, m, {}, <<>>, vs)
<1> /\ DOMAIN vs = DOMAIN ws
    /\ \A i \in DOMAIN ws :
         /\ vs[i].author = ws[i].author /\ vs[i].told # "waiting"
         /\ ws[i].told \in {"waiting", "lost"} => vs[i].told = "lost"
  BY DEF Silenced
<1>1. DiskOK(ms, n, ws)
  BY DEF LocalOK
<1>2. \A u \in AnyUser : \A i \in DOMAIN ms[u] :
        /\ ms[u][i].w \in DOMAIN ws /\ ws[ms[u][i].w].author = u
        /\ ws[ms[u][i].w].told \in {"waiting", "lost"}
  BY <1>1, OnDisk
<1>3. DiskOK(ms, m, vs)
  BY <1>1, <1>2 DEF DiskOK, Unanswered
<1>4. Queued(<<>>, vs, ms)
  BY DEF Queued
<1>5. Waiting({}, ms, vs)
  BY <1>2 DEF Waiting
<1>6. QED
  BY <1>3, <1>4, <1>5 DEF LocalOK

-----------------------------------------------------------------------------
(***************************************************************************)
(* The answers of the server.                                              *)
(***************************************************************************)

\* The answers under way are about writes that were made.
AboutWrites(from, ws) == \A k \in DOMAIN from : from[k].kind # "handshake" => from[k].w \in DOMAIN ws

\* They are, as the pipeline is on disk.
LEMMA AnswersAreAboutWrites ==
  ASSUME NEW r \in Remote, NEW ms \in [AnyUser -> Seq(Batch)], NEW n, NEW ws, NEW u \in AnyUser,
         DiskOK(ms, n, ws), StreamOK(r, ms[u])
  PROVE  AboutWrites(r.fromServer, ws)
<1>1. SUFFICES ASSUME NEW k \in DOMAIN r.fromServer, r.fromServer[k].kind # "handshake"
               PROVE  r.fromServer[k].w \in DOMAIN ws
  BY DEF AboutWrites
<1>2. r.state = "Open"
  <2>1. SUFFICES ASSUME r.state # "Open" PROVE r.fromServer = <<>>
    OBVIOUS
  <2>2. QED
    BY <2>1 DEF StreamOK, NothingSent
<1>3. k \in DOMAIN r.write_pipeline /\ r.fromServer[k].w = r.write_pipeline[k].w
  BY <1>1, <1>2, AnswerIsForFront
<1>4. k \in DOMAIN ms[u] /\ r.write_pipeline[k] = ms[u][k]
  <2>1. FrontOf(r.write_pipeline, ms[u])
    BY DEF StreamOK
  <2>2. PICK p \in Seq(Batch) : p = r.write_pipeline
    BY RemoteFields
  <2>3. PICK q \in Seq(Batch) : q = ms[u]
    OBVIOUS
  <2>4. DOMAIN p = 1..Len(p) /\ DOMAIN q = 1..Len(q) /\ Len(p) \in Nat /\ Len(q) \in Nat
    BY LenProperties
  <2>5. k \in DOMAIN q /\ p[k] = q[k]
    BY <1>3, <2>1, <2>2, <2>3, <2>4 DEF FrontOf
  <2>6. QED
    BY <2>2, <2>3, <2>5
<1>5. ms[u][k].w \in DOMAIN ws
  BY <1>4, OnDisk
<1>6. QED
  BY <1>3, <1>4, <1>5

\* Nothing about the answers has changed.
LEMMA AnswersSame ==
  ASSUME NEW from, NEW ms \in [AnyUser -> Seq(Batch)], NEW n, NEW ws, NEW vs,
         DiskOK(ms, n, ws), AnswersOK(from, ms, ws), AboutWrites(from, ws),
         DOMAIN ws \subseteq DOMAIN vs,
         \A i \in DOMAIN vs : i \notin DOMAIN ws => vs[i].told # "failed",
         \A i \in DOMAIN ws : /\ vs[i].stored = ws[i].stored /\ vs[i].refused = ws[i].refused
                              /\ vs[i].told = ws[i].told /\ vs[i].lostAck = ws[i].lostAck
                              /\ vs[i].garbled = ws[i].garbled
  PROVE  AnswersOK(from, ms, vs)
<1>1. AnswersTrue(from, ws) /\ Lost(from, ms, ws) /\ Failures(ws)
  BY DEF AnswersOK
<1>2. AnswersTrue(from, vs)
  BY <1>1 DEF AnswersTrue, AboutWrites
<1>3. \A u \in AnyUser : \A i \in DOMAIN ms[u] : ms[u][i].w \in DOMAIN ws
  BY OnDisk
<1>4. Lost(from, ms, vs)
  BY <1>1, <1>3 DEF Lost
<1>5. Failures(vs)
  BY <1>1 DEF Failures
<1>6. QED
  BY <1>2, <1>4, <1>5 DEF AnswersOK

\* The stream is closed: the answers under way are lost.
LEMMA AnswersCut ==
  ASSUME NEW ms \in [AnyUser -> Seq(Batch)], NEW n, DiskOK(ms, n, writes),
         writes \in Seq(Write), remote.fromServer \in Seq(Message),
         AnswersOK(remote.fromServer, ms, writes)
  PROVE  AnswersOK(<<>>, ms, CutOff(writes))
<1>1. PICK vs : vs = CutOff(writes)
  OBVIOUS
<1>2. Kept(writes, vs) /\ \A i \in DOMAIN writes : i \in Unread => vs[i].lostAck
  BY <1>1, CutOffIs
<1>3. /\ DOMAIN vs = DOMAIN writes
      /\ \A i \in DOMAIN writes : /\ vs[i].told = writes[i].told /\ vs[i].stored = writes[i].stored
                                  /\ vs[i].refused = writes[i].refused
                                  /\ writes[i].lostAck => vs[i].lostAck
                                  /\ writes[i].garbled => vs[i].garbled
  BY <1>2 DEF Kept
<1>4. AnswersTrue(<<>>, vs)
  BY DEF AnswersTrue
<1>5. Lost(<<>>, ms, vs)
  <2>1. SUFFICES ASSUME NEW u \in AnyUser, NEW i \in DOMAIN ms[u], vs[ms[u][i].w].stored
                 PROVE  vs[ms[u][i].w].lostAck
    BY DEF Lost
  <2>2. PICK w \in DOMAIN writes : w = ms[u][i].w
    BY OnDisk
  <2>3. writes[w].lostAck \/ AnswerUnderWay(remote.fromServer, w)
    BY <1>3, <2>1, <2>2 DEF AnswersOK, Lost
  <2>4. AnswerUnderWay(remote.fromServer, w) => w \in Unread
    BY UnderWayIsUnread
  <2>5. QED
    BY <1>2, <1>3, <2>2, <2>3, <2>4
<1>6. Failures(vs)
  BY <1>3 DEF AnswersOK, Failures
<1>7. QED
  BY <1>1, <1>4, <1>5, <1>6 DEF AnswersOK

\* No answer is under way.
LEMMA NothingUnderWay ==
  ASSUME NEW from, NEW ms, NEW ws, AnswersOK(from, ms, ws),
         \A k \in DOMAIN from : from[k].kind # "write"
  PROVE  AnswersOK(<<>>, ms, ws)
<1>1. AnswersTrue(<<>>, ws)
  BY DEF AnswersTrue
<1>2. Lost(<<>>, ms, ws)
  BY DEF AnswersOK, Lost, AnswerUnderWay
<1>3. QED
  BY <1>1, <1>2 DEF AnswersOK

\* A write is put on disk.
LEMMA AnswersWrite ==
  ASSUME NEW from, NEW ms \in [AnyUser -> Seq(Batch)], NEW n, NEW ws, NEW vs, NEW w \in DOMAIN ws,
         DiskOK(ms, n, ws), AnswersOK(from, ms, ws), AboutWrites(from, ws),
         Telling(ws, vs, {w}, "waiting"), ~ws[w].stored,
         NEW m2, NEW x \in AnyUser, NEW b \in Batch, b.w = w, m2 = WithMore(ms, x, b)
  PROVE  AnswersOK(from, m2, vs)
<1> /\ ToldOnly(ws, vs)
    /\ \A i \in DOMAIN ws : vs[i].told = IF i \in {w} THEN "waiting" ELSE ws[i].told
  BY DEF Telling
<1> \A u \in AnyUser : \A i \in DOMAIN m2[u] :
      m2[u][i].w = w \/ (i \in DOMAIN ms[u] /\ m2[u][i] = ms[u][i])
  <2>1. SUFFICES ASSUME NEW u \in AnyUser, NEW i \in DOMAIN m2[u]
                 PROVE  m2[u][i].w = w \/ (i \in DOMAIN ms[u] /\ m2[u][i] = ms[u][i])
    OBVIOUS
  <2>2. CASE u # x
    BY <2>2 DEF WithMore
  <2>3. CASE u = x
    <3>1. PICK q \in Seq(Batch) : q = ms[u]
      OBVIOUS
    <3>2. m2[u] = Append(q, b)
      BY <2>3, <3>1 DEF WithMore
    <3>3. QED
      BY <2>1, <3>1, <3>2, OneElementIsAdded
  <2>4. QED
    BY <2>2, <2>3
<1>1. AnswersTrue(from, ws) /\ Lost(from, ms, ws) /\ Failures(ws)
  BY DEF AnswersOK
<1>2. /\ DOMAIN vs = DOMAIN ws
      /\ \A i \in DOMAIN ws : /\ vs[i].stored = ws[i].stored /\ vs[i].refused = ws[i].refused
                              /\ vs[i].lostAck = ws[i].lostAck /\ vs[i].garbled = ws[i].garbled
  BY DEF ToldOnly
<1>3. AnswersTrue(from, vs)
  BY <1>1, <1>2 DEF AnswersTrue, AboutWrites
<1>4. Lost(from, m2, vs)
  <2>1. SUFFICES ASSUME NEW u \in AnyUser, NEW i \in DOMAIN m2[u], vs[m2[u][i].w].stored
                 PROVE  vs[m2[u][i].w].lostAck \/ AnswerUnderWay(from, m2[u][i].w)
    BY DEF Lost
  <2>2. m2[u][i].w # w
    BY <1>2, <2>1
  <2>3. i \in DOMAIN ms[u] /\ m2[u][i] = ms[u][i]
    BY <2>2
  <2>4. ms[u][i].w \in DOMAIN ws
    BY <2>3, OnDisk
  <2>5. QED
    BY <1>1, <1>2, <2>1, <2>3, <2>4 DEF Lost
<1>5. Failures(vs)
  BY <1>1, <1>2 DEF Failures
<1>6. QED
  BY <1>3, <1>4, <1>5 DEF AnswersOK

\* The write f may be told to have failed.
Blamed(ws, f) ==
  /\ \/ ws[f].refused
     \/ ws[f].stored /\ \E j \in DOMAIN ws : j > f /\ ws[j].refused
     \/ ws[f].stored /\ ws[f].garbled
  /\ ws[f].stored => ws[f].lostAck

\* Of the answers under way, only that of f is not any more.
AllButFront(from, to, f) ==
  /\ \A k \in DOMAIN to : \E j \in DOMAIN from : to[k] = from[j]
  /\ \A w : w # f /\ AnswerUnderWay(from, w) => AnswerUnderWay(to, w)

\* The front is answered, with an answer that is read or lost; the others stay.
LEMMA AnswersFront ==
  ASSUME NEW from, NEW to, NEW ms \in [AnyUser -> Seq(Batch)], NEW n, NEW ws, NEW vs,
         NEW u \in AnyUser, ms[u] # <<>>, NEW f, f = ms[u][1].w,
         DiskOK(ms, n, ws), AnswersOK(from, ms, ws),
         AboutWrites(from, ws), NEW verdict \in {"ok", "failed"}, AnsweredOnly(ws, vs, f, verdict),
         verdict = "failed" => Blamed(ws, f), AllButFront(from, to, f),
         NEW m2, m2 = WithoutFront(ms, u)
  PROVE  AnswersOK(to, m2, vs)
<1> /\ ToldOnly(ws, vs)
    /\ \A i \in DOMAIN ws : vs[i].told = ws[i].told \/ (i = f /\ vs[i].told = verdict)
    /\ verdict = "failed" =>
         /\ \/ ws[f].refused
            \/ ws[f].stored /\ \E j \in DOMAIN ws : j > f /\ ws[j].refused
            \/ ws[f].stored /\ ws[f].garbled
         /\ ws[f].stored => ws[f].lostAck
    /\ \A k \in DOMAIN to : \E j \in DOMAIN from : to[k] = from[j]
    /\ \A w : w # f /\ AnswerUnderWay(from, w) => AnswerUnderWay(to, w)
  BY DEF AnsweredOnly, Blamed, AllButFront
<1>1. AnswersTrue(from, ws) /\ Lost(from, ms, ws) /\ Failures(ws)
  BY DEF AnswersOK
<1>2. /\ DOMAIN vs = DOMAIN ws
      /\ \A i \in DOMAIN ws : /\ vs[i].stored = ws[i].stored /\ vs[i].refused = ws[i].refused
                              /\ vs[i].lostAck = ws[i].lostAck /\ vs[i].garbled = ws[i].garbled
  BY DEF ToldOnly
<1>3. AnswersTrue(to, vs)
  <2>1. SUFFICES ASSUME NEW k \in DOMAIN to
                 PROVE  /\ to[k].kind = "write" => vs[to[k].w].stored
                        /\ to[k].kind = "refusal" => vs[to[k].w].refused
    BY DEF AnswersTrue
  <2>2. PICK j \in DOMAIN from : to[k] = from[j]
    OBVIOUS
  <2>3. /\ from[j].kind = "write" => vs[from[j].w].stored
        /\ from[j].kind = "refusal" => vs[from[j].w].refused
    BY <1>1, <1>2 DEF AnswersTrue, AboutWrites
  <2>4. QED
    BY <2>2, <2>3
<1>4. \A x \in AnyUser : \A i \in DOMAIN m2[x] :
        m2[x][i].w # f /\ \E j \in DOMAIN ms[x] : m2[x][i] = ms[x][j]
  BY FrontOnDisk
<1>5. Lost(to, m2, vs)
  <2>1. SUFFICES ASSUME NEW x \in AnyUser, NEW i \in DOMAIN m2[x], vs[m2[x][i].w].stored
                 PROVE  vs[m2[x][i].w].lostAck \/ AnswerUnderWay(to, m2[x][i].w)
    BY DEF Lost
  <2>2. PICK j \in DOMAIN ms[x] : m2[x][i] = ms[x][j]
    BY <1>4
  <2>3. PICK w \in DOMAIN ws : w = m2[x][i].w /\ w = ms[x][j].w
    BY <2>2, OnDisk
  <2>4. w # f
    <3>1. m2[x][i].w # f
      BY <1>4, Zenon
    <3>2. QED
      BY <2>3, <3>1, Zenon
  <2>5. ws[w].lostAck \/ AnswerUnderWay(from, w)
    BY <1>1, <1>2, <2>1, <2>3 DEF Lost
  <2>6. QED
    BY <1>2, <2>3, <2>4, <2>5
<1>6. Failures(vs)
  <2>1. SUFFICES ASSUME NEW i \in DOMAIN ws, vs[i].told = "failed"
                 PROVE  /\ \/ ws[i].refused
                           \/ ws[i].stored /\ \E j \in DOMAIN ws : j > i /\ ws[j].refused
                           \/ ws[i].stored /\ ws[i].garbled
                        /\ ws[i].stored => ws[i].lostAck
    BY <1>2 DEF Failures
  <2>2. CASE i = f /\ vs[i].told = verdict
    BY <2>1, <2>2
  <2>3. CASE vs[i].told = ws[i].told
    BY <1>1, <2>1, <2>3 DEF Failures
  <2>4. QED
    BY <2>2, <2>3
<1>7. QED
  BY <1>3, <1>5, <1>6 DEF AnswersOK

\* vs is ws after the server, for the stream's user, has made of w what its answer a says.
Served(ws, vs, a, r) ==
  /\ vs \in Seq(Write) /\ DOMAIN vs = DOMAIN ws /\ Len(vs) = Len(ws)
  /\ \A i \in DOMAIN ws :
       /\ vs[i].author = ws[i].author /\ vs[i].told = ws[i].told /\ vs[i].lostAck = ws[i].lostAck
       /\ vs[i].garbled = ws[i].garbled
       /\ ws[i].refused => vs[i].refused
       /\ vs[i].stored = ws[i].stored \/ (i = a.w /\ a.kind = "write")
       /\ \/ vs[i].as = ws[i].as /\ vs[i].raced = ws[i].raced
          \/ /\ i = a.w /\ a.kind = "write"
             /\ vs[i].as = ws[i].as \cup {r.user} /\ vs[i].raced = (ws[i].raced \/ r.raced)
  /\ a.kind = "write" => vs[a.w].stored
  /\ a.kind = "refusal" => vs[a.w].refused

\* The server answers.
LEMMA ServerAnswer ==
  ASSUME NEW from \in Seq(Message), NEW a \in Message, NEW ms \in [AnyUser -> Seq(Batch)], NEW n,
         NEW ws, NEW vs, NEW r, Served(ws, vs, a, r),
         DiskOK(ms, n, ws), AnswersOK(from, ms, ws), AboutWrites(from, ws),
         a.kind = "handshake" \/ (a.w \in DOMAIN ws /\ ws[a.w].told # "failed")
  PROVE  AnswersOK(Append(from, a), ms, vs)
<1>1. PICK w : w = a.w
  OBVIOUS
<1>2. /\ DOMAIN vs = DOMAIN ws
      /\ \A i \in DOMAIN ws : /\ vs[i].told = ws[i].told /\ vs[i].lostAck = ws[i].lostAck
                              /\ vs[i].garbled = ws[i].garbled
                              /\ ws[i].refused => vs[i].refused
                              /\ vs[i].stored = ws[i].stored \/ (i = w /\ a.kind = "write")
      /\ a.kind = "write" => vs[w].stored
      /\ a.kind = "refusal" => vs[w].refused
  BY <1>1 DEF Served
<1>3. AnswersTrue(from, ws) /\ Lost(from, ms, ws) /\ Failures(ws)
  BY DEF AnswersOK
<1>4. PICK to \in Seq(Message) : to = Append(from, a)
  BY OneElementIsAdded
<1>5. PICK l \in Nat : l = Len(from)
  BY LenProperties
<1>6. /\ DOMAIN from = 1..l /\ DOMAIN to = 1..(l + 1) /\ to[l + 1] = a /\ l + 1 \in DOMAIN to
      /\ \A i \in DOMAIN from : i \in DOMAIN to /\ to[i] = from[i]
  BY <1>4, <1>5, OneElementIsAdded
<1>7. \A i \in DOMAIN to : (i \in DOMAIN from /\ to[i] = from[i]) \/ (i = l + 1 /\ to[i] = a)
  BY <1>6
<1>8. \A i \in DOMAIN ws : ws[i].stored => vs[i].stored
  BY <1>1, <1>2
<1>9. AnswersTrue(to, vs)
  <2>1. SUFFICES ASSUME NEW k \in DOMAIN to
                 PROVE  /\ to[k].kind = "write" => vs[to[k].w].stored
                        /\ to[k].kind = "refusal" => vs[to[k].w].refused
    BY DEF AnswersTrue
  <2>2. CASE k \in DOMAIN from /\ to[k] = from[k]
    BY <1>3, <1>8, <1>2, <2>2 DEF AnswersTrue, AboutWrites
  <2>3. CASE to[k] = a
    BY <1>1, <1>2, <2>3
  <2>4. QED
    BY <1>7, <2>2, <2>3
<1>10. \A x : AnswerUnderWay(from, x) => AnswerUnderWay(to, x)
  BY <1>6 DEF AnswerUnderWay
<1>11. a.kind = "write" => AnswerUnderWay(to, w)
  BY <1>6, <1>1 DEF AnswerUnderWay
<1>12. Lost(to, ms, vs)
  <2>1. SUFFICES ASSUME NEW u \in AnyUser, NEW i \in DOMAIN ms[u], vs[ms[u][i].w].stored
                 PROVE  vs[ms[u][i].w].lostAck \/ AnswerUnderWay(to, ms[u][i].w)
    BY DEF Lost
  <2>2. PICK v \in DOMAIN ws : v = ms[u][i].w
    BY OnDisk
  <2>3. CASE v = w /\ a.kind = "write"
    BY <1>11, <2>2, <2>3
  <2>4. CASE vs[v].stored = ws[v].stored
    <3>1. ws[v].lostAck \/ AnswerUnderWay(from, v)
      BY <1>3, <2>1, <2>2, <2>4 DEF Lost
    <3>2. QED
      BY <1>10, <1>2, <2>2, <3>1
  <2>5. QED
    BY <1>2, <2>2, <2>3, <2>4
<1>13. Failures(vs)
  <2>1. SUFFICES ASSUME NEW i \in DOMAIN ws, ws[i].told = "failed"
                 PROVE  /\ \/ vs[i].refused
                           \/ vs[i].stored /\ \E j \in DOMAIN ws : j > i /\ vs[j].refused
                           \/ vs[i].stored /\ vs[i].garbled
                        /\ vs[i].stored => vs[i].lostAck
    BY <1>2 DEF Failures
  <2>2. vs[i].stored = ws[i].stored
    BY <1>1, <1>2, <2>1
  <2>3. /\ \/ ws[i].refused
           \/ ws[i].stored /\ \E j \in DOMAIN ws : j > i /\ ws[j].refused
           \/ ws[i].stored /\ ws[i].garbled
        /\ ws[i].stored => ws[i].lostAck
    BY <1>3, <2>1 DEF Failures
  <2>4. QED
    BY <1>2, <2>2, <2>3
<1>14. QED
  BY <1>4, <1>9, <1>12, <1>13 DEF AnswersOK

-----------------------------------------------------------------------------
(***************************************************************************)
(* Every step keeps the invariant: Auth and the main queue.                *)
(***************************************************************************)

\* The bound on disruptions.
LEMMA DisruptIs ==
  ASSUME disruptions \in 0..MaxDisruptions, Disrupt
  PROVE  disruptions' \in 0..MaxDisruptions
BY BoundsAssumption DEF Disrupt

\* The types of the queue's entries.
LEMMA QueueFields ==
  /\ \A u \in AnyUser : Notification(u) \in Block /\ Notification(u).kind = "notification"
                        /\ Notification(u).user = u
  /\ \A t \in Token : LET b == [kind |-> "token", token |-> t]
                      IN  b \in Block /\ b \in Operation /\ b.kind = "token" /\ b.token = t
  /\ \A u \in AnyUser : LET b == [kind |-> "credential", user |-> u]
                        IN  b \in Operation /\ b.kind = "credential" /\ b.user = u
  /\ \A w \in 1..MaxWrites : LET b == [kind |-> "write", w |-> w]
                             IN  b \in Operation /\ b.kind = "write" /\ b.w = w
  /\ \A b \in Block : /\ b.kind = "token" => b.token \in Token
                      /\ b.kind = "notification" => b.user \in AnyUser
  /\ \A o \in Operation : /\ o.kind = "token" => o.token \in Token
                          /\ o.kind = "credential" => o.user \in AnyUser
                          /\ o.kind = "write" => o.w \in 1..MaxWrites
<1>1. \A u \in AnyUser : Notification(u) \in Block /\ Notification(u).kind = "notification"
                         /\ Notification(u).user = u
  BY DEF Notification, Block
<1>2. \A t \in Token : LET b == [kind |-> "token", token |-> t]
                       IN  b \in Block /\ b \in Operation /\ b.kind = "token" /\ b.token = t
  BY DEF Block, Operation
<1>3. \A u \in AnyUser : LET b == [kind |-> "credential", user |-> u]
                         IN  b \in Operation /\ b.kind = "credential" /\ b.user = u
  BY DEF Operation
<1>4. \A b \in Block : /\ b.kind = "token" => b.token \in Token
                       /\ b.kind = "notification" => b.user \in AnyUser
  BY DEF Block
<1>5. \A o \in Operation : /\ o.kind = "token" => o.token \in Token
                           /\ o.kind = "credential" => o.user \in AnyUser
                           /\ o.kind = "write" => o.w \in 1..MaxWrites
  BY DEF Operation
<1>6. \A w \in 1..MaxWrites : LET b == [kind |-> "write", w |-> w]
                              IN  b \in Operation /\ b.kind = "write" /\ b.w = w
  BY DEF Operation
<1>7. QED
  BY <1>1, <1>2, <1>3, <1>4, <1>5, <1>6

\* SignIn: the notification is not posted yet.
LEMMA SignInKeeps ==
  ASSUME Inv, NEW u \in Users, SignIn(u)
  PROVE  Inv'
<1>1. /\ currentUser' = u /\ unposted' = unposted \cup {u} /\ mainQueue' = mainQueue
      /\ contents' = contents
      /\ tokens' = tokens /\ worker_queue' = worker_queue /\ writes' = writes
      /\ current_user' = current_user /\ mutations' = mutations
      /\ next_batch_id' = next_batch_id /\ callbacks' = callbacks /\ remote' = remote
  BY DEF SignIn, local
<1>2. disruptions' \in 0..MaxDisruptions
  BY DisruptIs DEF Inv, TypeOK, SignIn
<1>3. TypeOK'
  BY <1>1, <1>2 DEF Inv, TypeOK, AnyUser
<1>4. LocalInv' /\ StreamInv' /\ AnswersInv'
  BY <1>1 DEF Inv, LocalInv, StreamInv, AnswersInv
<1>5. TokenInv'
  BY <1>1 DEF Inv, TokenInv
<1>6. UserInv'
  BY <1>1 DEF Inv, UserInv, MainInv, WorkerInv
<1>7. QED
  BY <1>3, <1>4, <1>5, <1>6 DEF Inv

\* A notification is posted or left out: PostSignIn and ChangeOnWorkQueue.
LEMMA PostKeeps ==
  ASSUME Inv, NEW u \in AnyUser, Post(u), currentUser' \in AnyUser, unposted' \subseteq Users,
         disruptions' \in 0..MaxDisruptions,
         UNCHANGED <<contents, tokens, worker_queue, local, writes>>
  PROVE  Inv'
<1>1. /\ contents' = contents /\ tokens' = tokens /\ worker_queue' = worker_queue
      /\ writes' = writes /\ current_user' = current_user /\ mutations' = mutations
      /\ next_batch_id' = next_batch_id /\ callbacks' = callbacks /\ remote' = remote
  BY DEF local
<1>2. PICK b \in Block : b = Notification(u) /\ b.kind = "notification" /\ b.user = u
  BY QueueFields
<1>3. mainQueue \in Seq(Block)
  BY DEF Inv, TypeOK
<1>4. mainQueue' = Append(mainQueue, b) \/ mainQueue' = mainQueue
  BY <1>2 DEF Post
<1>5. TypeOK'
  <2>1. mainQueue' \in Seq(Block)
    BY <1>3, <1>4, OneElementIsAdded
  <2>2. QED
    BY <1>1, <2>1 DEF Inv, TypeOK
<1>6. LocalInv' /\ StreamInv' /\ AnswersInv'
  BY <1>1 DEF Inv, LocalInv, StreamInv, AnswersInv
<1>7. TokenInv'
  <2>1. TokensOK(tokens, mainQueue, worker_queue, remote.close_count, remote.state)
    BY DEF Inv, TokenInv
  <2>2. TokensOK(tokens, Append(mainQueue, b), worker_queue, remote.close_count, remote.state)
    BY <1>2, <1>3, <2>1, BlockPut
  <2>3. QED
    BY <1>1, <1>4, <2>1, <2>2 DEF TokenInv
<1>8. MainInv'
  <2>1. /\ CallbacksCurrent(mainQueue, contents.token_counter, contents.current_user)
        /\ RequestsCurrent(tokens, mainQueue, contents.token_counter, contents.current_user)
    BY DEF Inv, UserInv, MainInv
  <2>2. /\ CallbacksCurrent(Append(mainQueue, b), contents.token_counter, contents.current_user)
        /\ RequestsCurrent(tokens, Append(mainQueue, b), contents.token_counter,
                           contents.current_user)
    BY <1>2, <1>3, <2>1, NewsPut
  <2>3. QED
    BY <1>1, <1>4, <2>1, <2>2 DEF MainInv
<1>9. UserInv'
  BY <1>1, <1>8 DEF Inv, UserInv, WorkerInv
<1>10. QED
  BY <1>5, <1>6, <1>7, <1>9 DEF Inv

\* PostSignIn.
LEMMA PostSignInKeeps ==
  ASSUME Inv, NEW u \in unposted, PostSignIn(u)
  PROVE  Inv'
<1>1. currentUser \in AnyUser /\ disruptions \in 0..MaxDisruptions /\ unposted \subseteq Users
  BY DEF Inv, TypeOK
<1>2. PICK v \in {u, currentUser} : Post(v)
  BY DEF PostSignIn
<1>3. v \in AnyUser
  BY <1>1, <1>2 DEF AnyUser
<1>4. QED
  BY <1>1, <1>2, <1>3, PostKeeps DEF PostSignIn

\* ChangeOnWorkQueue.
LEMMA ChangeKeeps ==
  ASSUME Inv, NEW u \in AnyUser, ChangeOnWorkQueue(u)
  PROVE  Inv'
<1>1. disruptions' \in 0..MaxDisruptions
  BY DisruptIs DEF Inv, TypeOK, ChangeOnWorkQueue
<1>2. unposted' \subseteq Users /\ currentUser' \in AnyUser
  BY DEF Inv, TypeOK, ChangeOnWorkQueue
<1>3. QED
  BY <1>1, <1>2, PostKeeps DEF ChangeOnWorkQueue

\* ReadUser: getToken has read the user.
LEMMA ReadUserKeeps ==
  ASSUME Inv, NEW t \in tokens, ReadUser(t)
  PROVE  Inv'
<1>1. /\ currentUser' = currentUser /\ unposted' = unposted /\ mainQueue' = mainQueue
      /\ contents' = contents /\ worker_queue' = worker_queue /\ disruptions' = disruptions
      /\ writes' = writes /\ current_user' = current_user /\ mutations' = mutations
      /\ next_batch_id' = next_batch_id /\ callbacks' = callbacks /\ remote' = remote
  BY DEF ReadUser, local
<1>2. /\ t \in Token /\ currentUser \in AnyUser /\ tokens \subseteq Token
      /\ contents.token_counter \in Nat
  BY DEF Inv, TypeOK
<1>3. PICK s : s = [t EXCEPT !.user = currentUser, !.read = TRUE,
                             !.raced = currentUser # LastPosted]
  OBVIOUS
<1>4. /\ s \in Token /\ s.close_count = t.close_count /\ s.counter = t.counter
      /\ s.user = currentUser /\ s.raced = (currentUser # LastPosted)
  BY <1>2, <1>3 DEF Token
<1>5. tokens' = (tokens \ {t}) \cup {s}
  BY <1>3 DEF ReadUser
<1>6. TypeOK'
  BY <1>1, <1>2, <1>4, <1>5 DEF Inv, TypeOK
<1>7. LocalInv' /\ StreamInv' /\ AnswersInv'
  BY <1>1 DEF Inv, LocalInv, StreamInv, AnswersInv
<1>8. TokenInv'
  <2>1. TokensOK(tokens, mainQueue, worker_queue, remote.close_count, remote.state)
    BY DEF Inv, TokenInv
  <2>2. /\ TokensOK(tokens \ {t}, mainQueue, worker_queue, remote.close_count, remote.state)
        /\ Free(tokens \ {t}, mainQueue, worker_queue, remote.close_count, remote.state,
                t.close_count)
    BY <2>1, RequestTaken
  <2>3. TokensOK((tokens \ {t}) \cup {s}, mainQueue, worker_queue, remote.close_count,
                 remote.state)
    BY <1>4, <2>2, RequestPut
  <2>4. QED
    BY <1>1, <1>5, <2>3 DEF TokenInv
<1>9. RequestsCurrent(tokens', mainQueue, contents.token_counter, contents.current_user)
  <2>1. RequestsCurrent(tokens, mainQueue, contents.token_counter, contents.current_user)
    BY DEF Inv, UserInv, MainInv
  <2>2. NoNews(mainQueue) => LastPosted = contents.current_user
    BY DEF NoNews, IsNotification, LastPosted
  <2>3. s.counter <= contents.token_counter
    BY <1>4, <2>1 DEF RequestsCurrent
  <2>4. NoNews(mainQueue) => Current(s, contents.token_counter, contents.current_user)
    <3>1. SUFFICES ASSUME NoNews(mainQueue) PROVE s.raced \/ s.user = contents.current_user
      BY <2>3 DEF Current
    <3>2. QED
      BY <1>4, <2>2, <3>1
  <2>5. QED
    BY <1>5, <2>1, <2>3, <2>4 DEF RequestsCurrent
<1>10. UserInv'
  BY <1>1, <1>9 DEF Inv, UserInv, MainInv, WorkerInv
<1>11. QED
  BY <1>6, <1>7, <1>8, <1>10 DEF Inv

\* FetchToken: the request is answered, with a token or an error.
LEMMA FetchTokenKeeps ==
  ASSUME Inv, NEW t \in tokens, FetchToken(t)
  PROVE  Inv'
<1>1. /\ currentUser' = currentUser /\ unposted' = unposted /\ tokens' = tokens \ {t}
      /\ contents' = contents /\ worker_queue' = worker_queue /\ t.read
      /\ writes' = writes /\ current_user' = current_user /\ mutations' = mutations
      /\ next_batch_id' = next_batch_id /\ callbacks' = callbacks /\ remote' = remote
  BY DEF FetchToken, local
<1>2. disruptions' \in 0..MaxDisruptions
  BY DisruptIs DEF Inv, TypeOK, FetchToken
<1>3. t \in Token /\ tokens \subseteq Token /\ mainQueue \in Seq(Block)
  BY DEF Inv, TypeOK
<1>4. PICK s \in Token : /\ s.close_count = t.close_count /\ s.counter = t.counter
                         /\ s.user = t.user /\ s.raced = t.raced
                         /\ mainQueue' = Append(mainQueue, [kind |-> "token", token |-> s])
  <2>1. [t EXCEPT !.ok = FALSE] \in Token
    BY <1>3 DEF Token
  <2>2. /\ [t EXCEPT !.ok = FALSE].close_count = t.close_count
        /\ [t EXCEPT !.ok = FALSE].counter = t.counter
        /\ [t EXCEPT !.ok = FALSE].user = t.user
        /\ [t EXCEPT !.ok = FALSE].raced = t.raced
    BY <1>3 DEF Token
  <2>3. \/ mainQueue' = Append(mainQueue, [kind |-> "token", token |-> t])
        \/ mainQueue' = Append(mainQueue, [kind |-> "token", token |-> [t EXCEPT !.ok = FALSE]])
    BY DEF FetchToken
  <2>4. QED
    BY <1>3, <2>1, <2>2, <2>3
<1>5. PICK b \in Block : b = [kind |-> "token", token |-> s] /\ b.kind = "token" /\ b.token = s
  BY QueueFields
<1>6. mainQueue' \in Seq(Block) /\ mainQueue' = Append(mainQueue, b)
  BY <1>3, <1>4, <1>5, OneElementIsAdded
<1>7. TypeOK'
  BY <1>1, <1>2, <1>3, <1>6 DEF Inv, TypeOK
<1>8. LocalInv' /\ StreamInv' /\ AnswersInv'
  BY <1>1 DEF Inv, LocalInv, StreamInv, AnswersInv
<1>9. TokenInv'
  <2>1. TokensOK(tokens, mainQueue, worker_queue, remote.close_count, remote.state)
    BY DEF Inv, TokenInv
  <2>2. /\ TokensOK(tokens \ {t}, mainQueue, worker_queue, remote.close_count, remote.state)
        /\ Free(tokens \ {t}, mainQueue, worker_queue, remote.close_count, remote.state,
                t.close_count)
    BY <2>1, RequestTaken
  <2>3. TokensOK(tokens \ {t}, Append(mainQueue, b), worker_queue, remote.close_count,
                 remote.state)
    BY <1>3, <1>4, <1>5, <2>2, BlockPut
  <2>4. QED
    BY <1>1, <1>6, <2>3 DEF TokenInv
<1>10. MainInv'
  <2>1. /\ CallbacksCurrent(mainQueue, contents.token_counter, contents.current_user)
        /\ RequestsCurrent(tokens, mainQueue, contents.token_counter, contents.current_user)
    BY DEF Inv, UserInv, MainInv
  <2>2. /\ t.counter <= contents.token_counter
        /\ NoNews(mainQueue) => Current(t, contents.token_counter, contents.current_user)
    BY <1>1, <2>1 DEF RequestsCurrent
  <2>3. /\ b.token.counter <= contents.token_counter
        /\ NoNews(mainQueue) => Current(b.token, contents.token_counter, contents.current_user)
    BY <1>4, <1>5, <2>2 DEF Current
  <2>4. /\ CallbacksCurrent(Append(mainQueue, b), contents.token_counter, contents.current_user)
        /\ RequestsCurrent(tokens \ {t}, Append(mainQueue, b), contents.token_counter,
                           contents.current_user)
    <3>1. tokens \ {t} \in SUBSET tokens
      OBVIOUS
    <3>2. QED
      BY <1>3, <1>5, <2>1, <2>3, <3>1, AnswerPut
  <2>5. QED
    BY <1>1, <1>6, <2>1, <2>4 DEF MainInv
<1>11. UserInv'
  BY <1>1, <1>10 DEF Inv, UserInv, WorkerInv
<1>12. QED
  BY <1>7, <1>8, <1>9, <1>11 DEF Inv

\* RunNotification: provider and worker queue learn of the user.
LEMMA RunNotificationKeeps ==
  ASSUME Inv, RunNotification
  PROVE  Inv'
<1>1. /\ currentUser' = currentUser /\ unposted' = unposted /\ tokens' = tokens
      /\ writes' = writes /\ current_user' = current_user /\ mutations' = mutations
      /\ next_batch_id' = next_batch_id /\ callbacks' = callbacks /\ remote' = remote
      /\ disruptions' = disruptions
      /\ mainQueue # <<>> /\ Head(mainQueue).kind = "notification"
      /\ mainQueue' = Tail(mainQueue)
  BY DEF RunNotification, local
<1>2. /\ mainQueue \in Seq(Block) /\ worker_queue \in Seq(Operation) /\ tokens \subseteq Token
      /\ contents.token_counter \in Nat /\ contents.current_user \in AnyUser
  BY DEF Inv, TypeOK
<1>3. Head(mainQueue) \in Block /\ Tail(mainQueue) \in Seq(Block)
  BY <1>1, <1>2, FrontIsTaken
<1>4. PICK u \in AnyUser : u = Head(mainQueue).user
  BY <1>1, <1>3, QueueFields
<1>5. PICK o \in Operation : o = [kind |-> "credential", user |-> u] /\ o.kind = "credential"
                             /\ o.user = u
  BY QueueFields
<1>6. worker_queue' = Append(worker_queue, o) /\ Append(worker_queue, o) \in Seq(Operation)
  BY <1>2, <1>4, <1>5, OneElementIsAdded DEF RunNotification
<1>7. /\ contents' = [current_user |-> u, token_counter |-> contents.token_counter + 1]
      /\ contents'.current_user = u /\ contents'.token_counter = contents.token_counter + 1
      /\ contents.token_counter + 1 \in Nat
  BY <1>2, <1>4 DEF RunNotification
<1>8. contents' \in [current_user : AnyUser, token_counter : Nat]
  BY <1>7
<1>9. TypeOK'
  BY <1>1, <1>3, <1>6, <1>8 DEF Inv, TypeOK
<1>10. LocalOK(mutations, next_batch_id, callbacks, worker_queue', writes)
  BY <1>2, <1>5, <1>6, LocalPuts DEF Inv, LocalInv
<1>11. LocalInv' /\ StreamInv' /\ AnswersInv'
  BY <1>1, <1>10 DEF Inv, LocalInv, StreamInv, AnswersInv
<1>12. TokenInv'
  <2>1. TokensOK(tokens, mainQueue, worker_queue, remote.close_count, remote.state)
    BY DEF Inv, TokenInv
  <2>2. TokensOK(tokens, Tail(mainQueue), worker_queue, remote.close_count, remote.state)
    BY <1>1, <1>2, <2>1, BlockTaken
  <2>3. TokensOK(tokens, Tail(mainQueue), Append(worker_queue, o), remote.close_count,
                 remote.state)
    BY <1>2, <1>5, <2>2, OperationPut
  <2>4. QED
    BY <1>1, <1>6, <2>3 DEF TokenInv
<1>13. MainInv'
  <2>1. /\ CallbacksCurrent(mainQueue, contents.token_counter, contents.current_user)
        /\ RequestsCurrent(tokens, mainQueue, contents.token_counter, contents.current_user)
    BY DEF Inv, UserInv, MainInv
  <2>2. /\ CallbacksCurrent(Tail(mainQueue), contents.token_counter + 1, Head(mainQueue).user)
        /\ RequestsCurrent(tokens, Tail(mainQueue), contents.token_counter + 1,
                           Head(mainQueue).user)
    BY <1>1, <1>2, <2>1, NewsTaken
  <2>3. QED
    BY <1>1, <1>4, <1>7, <2>1, <2>2 DEF MainInv
<1>14. WorkerInv'
  <2>1. UsersAlong(worker_queue, current_user, contents.current_user, writes)
    BY DEF Inv, UserInv, WorkerInv
  <2>2. OperationOf(o, contents.current_user, writes) /\ UserAfter(o, contents.current_user) = u
    BY <1>5 DEF OperationOf, UserAfter
  <2>3. UsersAlong(Append(worker_queue, o), current_user, u, writes)
    BY <1>2, <2>1, <2>2, MoreAlong
  <2>4. QED
    BY <1>1, <1>6, <1>7, <2>3 DEF WorkerInv
<1>15. UserInv'
  BY <1>1, <1>13, <1>14 DEF Inv, UserInv
<1>16. QED
  BY <1>9, <1>11, <1>12, <1>15 DEF Inv

\* RunTokenCallback: the token goes to the worker queue, or is asked for again.
LEMMA RunTokenCallbackKeeps ==
  ASSUME Inv, RunTokenCallback
  PROVE  Inv'
<1>1. /\ currentUser' = currentUser /\ unposted' = unposted /\ contents' = contents
      /\ writes' = writes /\ current_user' = current_user /\ mutations' = mutations
      /\ next_batch_id' = next_batch_id /\ callbacks' = callbacks /\ remote' = remote
      /\ disruptions' = disruptions
      /\ mainQueue # <<>> /\ Head(mainQueue).kind = "token"
      /\ mainQueue' = Tail(mainQueue)
  BY DEF RunTokenCallback, local
<1>2. /\ mainQueue \in Seq(Block) /\ worker_queue \in Seq(Operation) /\ tokens \subseteq Token
      /\ contents.token_counter \in Nat /\ contents.current_user \in AnyUser
  BY DEF Inv, TypeOK
<1>3. Head(mainQueue) \in Block /\ Tail(mainQueue) \in Seq(Block)
  BY <1>1, <1>2, FrontIsTaken
<1>4. PICK t \in Token : t = Head(mainQueue).token
  BY <1>1, <1>3, QueueFields
<1>5. /\ TokensOK(tokens, Tail(mainQueue), worker_queue, remote.close_count, remote.state)
      /\ Free(tokens, Tail(mainQueue), worker_queue, remote.close_count, remote.state,
              t.close_count)
  <2>1. TokensOK(tokens, mainQueue, worker_queue, remote.close_count, remote.state)
    BY DEF Inv, TokenInv
  <2>2. QED
    BY <1>1, <1>2, <1>4, <2>1, BlockTaken
<1>6. /\ CallbacksCurrent(Tail(mainQueue), contents.token_counter, contents.current_user)
      /\ RequestsCurrent(tokens, Tail(mainQueue), contents.token_counter, contents.current_user)
      /\ Current(t, contents.token_counter, contents.current_user)
  <2>1. /\ CallbacksCurrent(mainQueue, contents.token_counter, contents.current_user)
        /\ RequestsCurrent(tokens, mainQueue, contents.token_counter, contents.current_user)
    BY DEF Inv, UserInv, MainInv
  <2>2. QED
    BY <1>1, <1>2, <1>4, <2>1, AnswerTaken
<1>7. CASE t.counter # contents.token_counter
  <2>1. PICK s : s = [t EXCEPT !.counter = contents.token_counter, !.user = NoUser,
                               !.read = FALSE, !.raced = FALSE, !.ok = TRUE]
    OBVIOUS
  <2>2. s \in Token /\ s.close_count = t.close_count /\ s.counter = contents.token_counter /\ ~s.read
    <3>1. NoUser \in AnyUser
      BY DEF AnyUser
    <3>2. QED
      BY <1>2, <2>1, <3>1 DEF Token
  <2>3. tokens' = tokens \cup {s} /\ worker_queue' = worker_queue
    BY <1>4, <1>7, <2>1 DEF RunTokenCallback
  <2>4. TypeOK'
    BY <1>1, <1>2, <1>3, <2>2, <2>3 DEF Inv, TypeOK
  <2>5. LocalInv' /\ StreamInv' /\ AnswersInv'
    BY <1>1, <2>3 DEF Inv, LocalInv, StreamInv, AnswersInv
  <2>6. TokenInv'
    <3>1. TokensOK(tokens \cup {s}, Tail(mainQueue), worker_queue, remote.close_count,
                   remote.state)
      BY <1>5, <2>2, RequestPut
    <3>2. QED
      BY <1>1, <2>3, <3>1 DEF TokenInv
  <2>7. RequestsCurrent(tokens', Tail(mainQueue), contents.token_counter, contents.current_user)
    BY <1>2, <1>6, <2>2, <2>3 DEF RequestsCurrent
  <2>8. UserInv'
    BY <1>1, <1>6, <2>3, <2>7 DEF Inv, UserInv, MainInv, WorkerInv
  <2>9. QED
    BY <2>4, <2>5, <2>6, <2>8 DEF Inv
<1>8. CASE t.counter = contents.token_counter
  <2>1. PICK s : s = IF contents.current_user = NoUser THEN [t EXCEPT !.user = NoUser] ELSE t
    OBVIOUS
  <2>2. /\ s \in Token /\ s.close_count = t.close_count
        /\ s.raced \/ s.user = contents.current_user
    <3>1. NoUser \in AnyUser
      BY DEF AnyUser
    <3>2. t.raced \/ t.user = contents.current_user
      BY <1>6, <1>8 DEF Current
    <3>3. CASE contents.current_user = NoUser
      <4>1. s = [t EXCEPT !.user = NoUser]
        BY <2>1, <3>3
      <4>2. s \in Token /\ s.close_count = t.close_count /\ s.user = NoUser
        BY <3>1, <4>1 DEF Token
      <4>3. QED
        BY <3>3, <4>2
    <3>4. CASE contents.current_user # NoUser
      BY <2>1, <3>2, <3>4
    <3>5. QED
      BY <3>3, <3>4
  <2>3. PICK o \in Operation : o = [kind |-> "token", token |-> s] /\ o.kind = "token" /\ o.token = s
    <3>1. s \in Token
      BY <2>2
    <3>2. PICK o : o = [kind |-> "token", token |-> s]
      OBVIOUS
    <3>3. o \in Operation /\ o.kind = "token" /\ o.token = s
      BY <3>1, <3>2 DEF Operation
    <3>4. QED
      BY <3>2, <3>3
  <2>4. tokens' = tokens /\ worker_queue' = Append(worker_queue, o)
    <3>1. ~(t.counter # contents.token_counter)
      BY <1>8
    <3>2. QED
      BY <1>4, <2>1, <2>3, <3>1 DEF RunTokenCallback
  <2>5. worker_queue' \in Seq(Operation)
    BY <1>2, <2>3, <2>4, OneElementIsAdded
  <2>6. TypeOK'
    BY <1>1, <1>2, <1>3, <2>4, <2>5 DEF Inv, TypeOK
  <2>7. LocalOK(mutations, next_batch_id, callbacks, worker_queue', writes)
    BY <1>2, <2>3, <2>4, LocalPuts DEF Inv, LocalInv
  <2>8. LocalInv' /\ StreamInv' /\ AnswersInv'
    BY <1>1, <2>7 DEF Inv, LocalInv, StreamInv, AnswersInv
  <2>9. TokenInv'
    <3>1. TokensOK(tokens, Tail(mainQueue), Append(worker_queue, o), remote.close_count,
                   remote.state)
      BY <1>2, <1>5, <2>2, <2>3, OperationPut
    <3>2. QED
      BY <1>1, <2>4, <3>1 DEF TokenInv
  <2>10. WorkerInv'
    <3>1. UsersAlong(worker_queue, current_user, contents.current_user, writes)
      BY DEF Inv, UserInv, WorkerInv
    <3>2. /\ OperationOf(o, contents.current_user, writes)
          /\ UserAfter(o, contents.current_user) = contents.current_user
      BY <2>2, <2>3 DEF OperationOf, UserAfter
    <3>3. UsersAlong(Append(worker_queue, o), current_user, contents.current_user, writes)
      BY <1>2, <3>1, <3>2, MoreAlong
    <3>4. QED
      BY <1>1, <2>4, <3>3 DEF WorkerInv
  <2>11. UserInv'
    BY <1>1, <1>6, <2>4, <2>10 DEF Inv, UserInv, MainInv
  <2>12. QED
    BY <2>6, <2>8, <2>9, <2>11 DEF Inv
<1>9. QED
  BY <1>7, <1>8

\* AppWrites: the write is the latest, by the user the provider knows.
LEMMA AppWritesKeeps ==
  ASSUME Inv, AppWrites
  PROVE  Inv'
<1>1. /\ currentUser' = currentUser /\ unposted' = unposted /\ mainQueue' = mainQueue
      /\ contents' = contents /\ tokens' = tokens /\ disruptions' = disruptions
      /\ current_user' = current_user /\ mutations' = mutations
      /\ next_batch_id' = next_batch_id /\ callbacks' = callbacks /\ remote' = remote
      /\ Len(writes) < MaxWrites
  BY DEF AppWrites, auth, local
<1>2. /\ worker_queue \in Seq(Operation) /\ writes \in Seq(Write) /\ current_user \in AnyUser
      /\ contents.current_user \in AnyUser /\ mutations \in [AnyUser -> Seq(Batch)]
      /\ callbacks \subseteq [user : AnyUser, id : Nat \ {0}, w : 1..MaxWrites] /\ remote \in Remote
  BY DEF Inv, TypeOK
<1>3. PICK v : v = [author |-> contents.current_user, told |-> "nothing", stored |-> FALSE,
                    as |-> {}, refused |-> FALSE, lostAck |-> FALSE, garbled |-> FALSE, raced |-> FALSE]
  OBVIOUS
<1>4. /\ v \in Write /\ v.author = contents.current_user /\ v.told = "nothing" /\ ~v.stored
      /\ v.as = {}
  BY <1>2, <1>3 DEF Write
<1>5. PICK l \in Nat : l = Len(writes)
  BY <1>2, LenProperties
<1>6. PICK vs \in Seq(Write) : vs = Append(writes, v)
  BY <1>2, <1>4, OneElementIsAdded
<1>7. /\ Len(vs) = l + 1 /\ DOMAIN writes = 1..l /\ DOMAIN vs = 1..(l + 1) /\ vs[l + 1] = v
      /\ \A i \in DOMAIN writes : i \in DOMAIN vs /\ vs[i] = writes[i]
  BY <1>2, <1>4, <1>5, <1>6, OneElementIsAdded
<1>8. \A i \in DOMAIN vs : (i \in DOMAIN writes /\ vs[i] = writes[i]) \/ (i = l + 1 /\ vs[i] = v)
  BY <1>7
<1>9. writes' = vs
  BY <1>3, <1>6 DEF AppWrites
<1>10. PICK w \in 1..MaxWrites : w = l + 1
  BY <1>1, <1>5, BoundsAssumption
<1>11. PICK o \in Operation : o = [kind |-> "write", w |-> w] /\ o.kind = "write" /\ o.w = w
  BY QueueFields
<1>12. worker_queue' = Append(worker_queue, o) /\ Append(worker_queue, o) \in Seq(Operation)
  BY <1>2, <1>7, <1>9, <1>10, <1>11, OneElementIsAdded DEF AppWrites
<1>13. TypeOK'
  <2>1. Len(vs) <= MaxWrites
    BY <1>7, <1>10
  <2>2. QED
    BY <1>1, <1>9, <1>12, <2>1 DEF Inv, TypeOK
<1>14. LocalOK(mutations, next_batch_id, callbacks, worker_queue, writes)
  BY DEF Inv, LocalInv
<1>15. DiskOK(mutations, next_batch_id, writes) /\ Queued(worker_queue, writes, mutations)
  BY <1>14 DEF LocalOK
<1>16. LocalOK(mutations, next_batch_id, callbacks, worker_queue, vs)
  <2>1. \A u \in AnyUser : Numbered(mutations[u], next_batch_id)
    BY <1>15 DEF DiskOK
  <2>2. \A i \in DOMAIN writes : vs[i].author = writes[i].author /\ vs[i].told = writes[i].told
    BY <1>7
  <2>3. \A j \in DOMAIN worker_queue : IsWrite(worker_queue, j) =>
          vs[worker_queue[j].w].stored = writes[worker_queue[j].w].stored
    BY <1>7, <1>15 DEF Queued
  <2>4. DOMAIN writes \subseteq DOMAIN vs
    BY <1>7
  <2>5. QED
    BY <1>2, <1>14, <2>1, <2>2, <2>3, <2>4, LocalSame
<1>17. LocalInv'
  <2>1. \A u \in AnyUser : \A i \in DOMAIN mutations[u] : mutations[u][i].w < w
    <3>1. \A u \in AnyUser : \A i \in DOMAIN mutations[u] : mutations[u][i].w \in DOMAIN writes
      BY <1>2, <1>15, OnDisk
    <3>2. \A i \in DOMAIN writes : i < w
      BY <1>7, <1>10
    <3>3. QED
      BY <3>1, <3>2
  <2>2. \A k \in DOMAIN worker_queue : IsWrite(worker_queue, k) => worker_queue[k].w < w
    <3>1. \A i \in DOMAIN writes : i < w
      BY <1>7, <1>10
    <3>2. QED
      BY <1>15, <3>1 DEF Queued
  <2>3. w \in DOMAIN vs /\ vs[w].told = "nothing" /\ ~vs[w].stored
    BY <1>4, <1>7, <1>10
  <2>4. LocalOK(mutations, next_batch_id, callbacks, Append(worker_queue, o), vs)
    BY <1>2, <1>11, <1>16, <2>1, <2>2, <2>3, LocalPuts
  <2>5. QED
    BY <1>1, <1>9, <1>12, <2>4 DEF Inv, LocalInv
<1>18. StreamInv'
  BY <1>1 DEF Inv, StreamInv
<1>19. AnswersInv'
  <2>1. AnswersOK(remote.fromServer, mutations, writes) /\ StreamOK(remote, mutations[current_user])
    BY DEF Inv, AnswersInv, StreamInv
  <2>2. AboutWrites(remote.fromServer, writes)
    BY <1>2, <1>15, <2>1, AnswersAreAboutWrites
  <2>3. \A i \in DOMAIN vs : i \notin DOMAIN writes => vs[i].told # "failed"
    BY <1>4, <1>8
  <2>4. \A i \in DOMAIN writes :
          /\ vs[i].stored = writes[i].stored /\ vs[i].refused = writes[i].refused
          /\ vs[i].told = writes[i].told /\ vs[i].lostAck = writes[i].lostAck
          /\ vs[i].garbled = writes[i].garbled
    BY <1>7
  <2>5. DOMAIN writes \subseteq DOMAIN vs
    BY <1>7
  <2>6. AnswersOK(remote.fromServer, mutations, vs)
    BY <1>2, <1>15, <2>1, <2>2, <2>3, <2>4, <2>5, AnswersSame
  <2>7. QED
    BY <1>1, <1>9, <2>6 DEF AnswersInv
<1>20. TokenInv'
  <2>1. TokensOK(tokens, mainQueue, worker_queue, remote.close_count, remote.state)
    BY DEF Inv, TokenInv
  <2>2. TokensOK(tokens, mainQueue, Append(worker_queue, o), remote.close_count, remote.state)
    BY <1>2, <1>11, <2>1, OperationPut
  <2>3. QED
    BY <1>1, <1>12, <2>2 DEF TokenInv
<1>21. WorkerInv'
  <2>1. UsersAlong(worker_queue, current_user, contents.current_user, writes)
    BY DEF Inv, UserInv, WorkerInv
  <2>2. \A k \in DOMAIN worker_queue : worker_queue[k].kind = "write" =>
          vs[worker_queue[k].w].author = writes[worker_queue[k].w].author
    BY <1>7, <1>15 DEF Queued, IsWrite
  <2>3. UsersAlong(worker_queue, current_user, contents.current_user, vs)
    BY <2>1, <2>2, SameAlong
  <2>4. vs[w].author = contents.current_user
    BY <1>4, <1>7, <1>10
  <2>5. /\ OperationOf(o, contents.current_user, vs)
        /\ UserAfter(o, contents.current_user) = contents.current_user
    BY <1>11, <2>4 DEF OperationOf, UserAfter
  <2>6. UsersAlong(Append(worker_queue, o), current_user, contents.current_user, vs)
    BY <1>2, <2>3, <2>5, MoreAlong
  <2>7. QED
    BY <1>1, <1>9, <1>12, <2>6 DEF WorkerInv
<1>22. Authors(writes')
  <2>1. Authors(writes)
    BY DEF Inv, UserInv
  <2>2. QED
    BY <1>4, <1>8, <1>9, <2>1 DEF Authors
<1>23. UserInv'
  BY <1>1, <1>21, <1>22 DEF Inv, UserInv, MainInv
<1>24. QED
  BY <1>13, <1>17, <1>18, <1>19, <1>20, <1>23 DEF Inv

-----------------------------------------------------------------------------
(***************************************************************************)
(* Every step keeps the invariant: the stream.                             *)
(***************************************************************************)

\* What a step of the stream does to the requests.
LEMMA StreamSteps ==
  ASSUME TypeOK, MainInv, NEW n \in Remote, SetRemote(n), Moves(remote, n),
         UNCHANGED <<currentUser, unposted, mainQueue, contents>>,
         NEW wq \in Seq(Operation), worker_queue' = wq,
         TokensOK(tokens, mainQueue, wq, remote.close_count, remote.state)
  PROVE  tokens' \subseteq Token /\ TokenInv' /\ MainInv'
<1>1. /\ remote' = n /\ tokens' = NewRequests(n) /\ mainQueue' = mainQueue /\ contents' = contents
      /\ currentUser' = currentUser /\ unposted' = unposted
  BY DEF SetRemote
<1>2. /\ remote \in Remote /\ tokens \subseteq Token /\ mainQueue \in Seq(Block)
      /\ contents.token_counter \in Nat
  BY DEF TypeOK
<1>3. PICK mq \in Seq(Block) : mq = mainQueue
  BY <1>2
<1>4. TokensOK(NewRequests(n), mq, wq, n.close_count, n.state)
  BY <1>2, <1>3, StreamMoves
<1>5. TokenInv'
  BY <1>1, <1>3, <1>4 DEF TokenInv
<1>6. PICK t : t = [close_count |-> n.close_count, counter |-> contents.token_counter,
                    user |-> NoUser, read |-> FALSE, raced |-> FALSE, ok |-> TRUE]
  OBVIOUS
<1>7. t \in Token /\ t.counter = contents.token_counter /\ ~t.read
  <2>1. NoUser \in AnyUser /\ n.close_count \in Nat
    BY RemoteFields DEF AnyUser
  <2>2. QED
    BY <1>2, <1>6, <2>1 DEF Token
<1>8. tokens' = tokens \/ tokens' = tokens \cup {t}
  BY <1>1, <1>6 DEF NewRequests
<1>9. tokens' \subseteq Token
  BY <1>2, <1>7, <1>8
<1>10. RequestsCurrent(tokens', mainQueue, contents.token_counter, contents.current_user)
  BY <1>2, <1>7, <1>8 DEF MainInv, RequestsCurrent
<1>11. MainInv'
  BY <1>1, <1>10 DEF MainInv
<1>12. QED
  BY <1>5, <1>9, <1>11

\* A step of the stream that leaves the disk alone.
LEMMA StreamActionKeeps ==
  ASSUME Inv, NEW n \in Remote, remote' = n,
         UNCHANGED <<currentUser, unposted, mainQueue, contents, mutations, callbacks>>,
         NEW u \in AnyUser, current_user' = u, disruptions' \in 0..MaxDisruptions,
         NEW m \in Nat, 0 < m, next_batch_id' = m, \A x \in AnyUser : Numbered(mutations[x], m),
         NEW wq \in Seq(Operation), worker_queue' = wq,
         LocalOK(mutations, next_batch_id, callbacks, wq, writes),
         UsersAlong(wq, u, contents.current_user, writes),
         tokens' \subseteq Token, TokenInv', MainInv',
         StreamOK(n, mutations[u]), n.state = "Open" => n.raced \/ n.user = u,
         NEW vs, writes' = vs, Kept(writes, vs), AnswersOK(n.fromServer, mutations, vs)
  PROVE  Inv'
<1>1. /\ currentUser' = currentUser /\ unposted' = unposted /\ mainQueue' = mainQueue
      /\ contents' = contents /\ mutations' = mutations /\ callbacks' = callbacks
  OBVIOUS
<1>2. /\ vs \in Seq(Write) /\ Len(vs) = Len(writes) /\ DOMAIN vs = DOMAIN writes
      /\ \A i \in DOMAIN writes : /\ vs[i].author = writes[i].author /\ vs[i].told = writes[i].told
                                  /\ vs[i].stored = writes[i].stored /\ vs[i].as = writes[i].as
                                  /\ vs[i].raced = writes[i].raced
  BY DEF Kept
<1>3. TypeOK'
  BY <1>1, <1>2 DEF Inv, TypeOK
<1>4. Queued(wq, writes, mutations)
  BY DEF LocalOK
<1>5. LocalInv'
  <2>1. /\ mutations \in [AnyUser -> Seq(Batch)]
        /\ callbacks \subseteq [user : AnyUser, id : Nat \ {0}, w : 1..MaxWrites]
    BY DEF Inv, TypeOK
  <2>2. \A j \in DOMAIN wq : IsWrite(wq, j) => vs[wq[j].w].stored = writes[wq[j].w].stored
    BY <1>2, <1>4 DEF Queued
  <2>3. DOMAIN writes \subseteq DOMAIN vs
    BY <1>2
  <2>4. \A i \in DOMAIN writes : vs[i].author = writes[i].author /\ vs[i].told = writes[i].told
    BY <1>2
  <2>5. LocalOK(mutations, m, callbacks, wq, vs)
    BY <2>1, <2>2, <2>3, <2>4, LocalSame
  <2>6. QED
    BY <1>1, <2>5 DEF LocalInv
<1>6. StreamInv' /\ AnswersInv'
  BY <1>1 DEF StreamInv, AnswersInv
<1>7. WorkerInv'
  <2>1. \A k \in DOMAIN wq : wq[k].kind = "write" => vs[wq[k].w].author = writes[wq[k].w].author
    BY <1>2, <1>4 DEF Queued, IsWrite
  <2>2. UsersAlong(wq, u, contents.current_user, vs)
    BY <2>1, SameAlong
  <2>3. QED
    BY <1>1, <2>2 DEF WorkerInv
<1>8. Authors(vs)
  BY <1>2 DEF Inv, UserInv, Authors
<1>9. UserInv'
  BY <1>7, <1>8 DEF UserInv
<1>10. QED
  BY <1>3, <1>5, <1>6, <1>9 DEF Inv

\* The queues as they are.
LEMMA QueuesAsTheyAre ==
  ASSUME Inv
  PROVE  /\ worker_queue \in Seq(Operation) /\ current_user \in AnyUser /\ next_batch_id \in Nat
         /\ mutations \in [AnyUser -> Seq(Batch)] /\ writes \in Seq(Write) /\ remote \in Remote
         /\ callbacks \subseteq [user : AnyUser, id : Nat \ {0}, w : 1..MaxWrites]
         /\ mainQueue \in Seq(Block) /\ remote.fromServer \in Seq(Message)
         /\ contents.current_user \in AnyUser /\ TypeOK /\ MainInv /\ 0 < next_batch_id
         /\ LocalOK(mutations, next_batch_id, callbacks, worker_queue, writes)
         /\ DiskOK(mutations, next_batch_id, writes)
         /\ \A x \in AnyUser : Ordered(mutations[x]) /\ Numbered(mutations[x], next_batch_id)
         /\ UsersAlong(worker_queue, current_user, contents.current_user, writes)
         /\ TokensOK(tokens, mainQueue, worker_queue, remote.close_count, remote.state)
         /\ StreamOK(remote, mutations[current_user])
         /\ AnswersOK(remote.fromServer, mutations, writes)
         /\ AboutWrites(remote.fromServer, writes)
         /\ Kept(writes, writes) /\ Kept(writes, CutOff(writes))
         /\ AnswersOK(<<>>, mutations, CutOff(writes))
         /\ disruptions \in 0..MaxDisruptions
<1>1. /\ worker_queue \in Seq(Operation) /\ current_user \in AnyUser /\ next_batch_id \in Nat
      /\ mutations \in [AnyUser -> Seq(Batch)] /\ writes \in Seq(Write) /\ remote \in Remote
      /\ callbacks \subseteq [user : AnyUser, id : Nat \ {0}, w : 1..MaxWrites]
      /\ mainQueue \in Seq(Block) /\ contents.current_user \in AnyUser
      /\ disruptions \in 0..MaxDisruptions
  BY DEF Inv, TypeOK
<1>2. remote.fromServer \in Seq(Message)
  BY <1>1, RemoteFields
<1>3. /\ LocalOK(mutations, next_batch_id, callbacks, worker_queue, writes)
      /\ DiskOK(mutations, next_batch_id, writes) /\ 0 < next_batch_id
  BY DEF Inv, LocalInv, LocalOK
<1>4. \A x \in AnyUser : Ordered(mutations[x]) /\ Numbered(mutations[x], next_batch_id)
  BY <1>3 DEF DiskOK
<1>5. /\ UsersAlong(worker_queue, current_user, contents.current_user, writes)
      /\ TokensOK(tokens, mainQueue, worker_queue, remote.close_count, remote.state)
      /\ StreamOK(remote, mutations[current_user])
      /\ AnswersOK(remote.fromServer, mutations, writes)
      /\ TypeOK /\ MainInv
  BY DEF Inv, UserInv, WorkerInv, TokenInv, StreamInv, AnswersInv
<1>6. Kept(writes, writes) /\ Kept(writes, CutOff(writes))
  BY <1>1, CutOffIs DEF Kept
<1>7. AnswersOK(<<>>, mutations, CutOff(writes))
  BY <1>1, <1>2, <1>3, <1>5, AnswersCut
<1>8. AboutWrites(remote.fromServer, writes)
  BY <1>1, <1>3, <1>5, AnswersAreAboutWrites
<1>9. QED
  BY <1>1, <1>2, <1>3, <1>4, <1>5, <1>6, <1>7, <1>8

\* The stream is closed, and the answers under way are lost.
LEMMA RenewalKeeps ==
  ASSUME Inv, NEW n \in Remote, SetRemote(n), Renewed(remote, n),
         UNCHANGED <<currentUser, unposted, mainQueue, contents, mutations, callbacks>>,
         NEW u \in AnyUser, current_user' = u, disruptions' \in 0..MaxDisruptions,
         NEW m \in Nat, 0 < m, next_batch_id' = m, \A x \in AnyUser : Numbered(mutations[x], m),
         NEW wq \in Seq(Operation), worker_queue' = wq,
         LocalOK(mutations, next_batch_id, callbacks, wq, writes),
         TokensOK(tokens, mainQueue, wq, remote.close_count, remote.state),
         UsersAlong(wq, u, contents.current_user, writes),
         StreamOK(n, mutations[u]), writes' = CutOff(writes)
  PROVE  Inv'
<1>1. /\ TypeOK /\ MainInv /\ Kept(writes, CutOff(writes))
      /\ AnswersOK(<<>>, mutations, CutOff(writes))
  BY QueuesAsTheyAre
<1>2. Moves(remote, n) /\ n.state # "Open" /\ n.fromServer = <<>>
  BY DEF Renewed, Moves, IsStarted
<1>3. tokens' \subseteq Token /\ TokenInv' /\ MainInv'
  BY <1>1, <1>2, StreamSteps
<1>4. PICK vs : vs = CutOff(writes)
  OBVIOUS
<1>5. AnswersOK(n.fromServer, mutations, vs) /\ Kept(writes, vs) /\ writes' = vs
  BY <1>1, <1>2, <1>4
<1>6. remote' = n
  BY DEF SetRemote
<1>7. n.state = "Open" => n.raced \/ n.user = u
  BY <1>2
<1>8. QED
  BY <1>3, <1>5, <1>6, <1>7, StreamActionKeeps

\* It is closed with the worker queue and the user as they are.
LEMMA PlainRenewalKeeps ==
  ASSUME Inv, NEW n \in Remote, SetRemote(n), Renewed(remote, n),
         StreamOK(n, mutations[current_user]),
         UNCHANGED <<currentUser, unposted, mainQueue, contents, worker_queue, current_user,
                     mutations, next_batch_id, callbacks>>,
         disruptions' \in 0..MaxDisruptions, writes' = CutOff(writes)
  PROVE  Inv'
<1>1. /\ worker_queue \in Seq(Operation) /\ current_user \in AnyUser /\ next_batch_id \in Nat
      /\ 0 < next_batch_id
      /\ LocalOK(mutations, next_batch_id, callbacks, worker_queue, writes)
      /\ \A x \in AnyUser : Numbered(mutations[x], next_batch_id)
      /\ UsersAlong(worker_queue, current_user, contents.current_user, writes)
      /\ TokensOK(tokens, mainQueue, worker_queue, remote.close_count, remote.state)
  BY QueuesAsTheyAre
<1>2. PICK u \in AnyUser : u = current_user
  BY <1>1
<1>3. PICK m \in Nat : m = next_batch_id
  BY <1>1
<1>4. PICK wq \in Seq(Operation) : wq = worker_queue
  BY <1>1
<1>5. QED
  BY <1>1, <1>2, <1>3, <1>4, RenewalKeeps

\* StreamBreaks.
LEMMA StreamBreaksKeeps ==
  ASSUME Inv, StreamBreaks
  PROVE  Inv'
<1>1. /\ StreamOK(remote, mutations[current_user]) /\ remote \in Remote
      /\ disruptions \in 0..MaxDisruptions
  BY QueuesAsTheyAre
<1>2. PICK n : n = AfterTransientError(remote)
  OBVIOUS
<1>3. StreamOK(n, mutations[current_user]) /\ Renewed(remote, n)
  BY <1>1, <1>2, TransientErrorKeeps
<1>4. n \in Remote
  BY <1>3 DEF Renewed
<1>5. disruptions' \in 0..MaxDisruptions
  BY <1>1, DisruptIs DEF StreamBreaks
<1>6. QED
  BY <1>2, <1>3, <1>4, <1>5, PlainRenewalKeeps DEF StreamBreaks

\* ConnectivityChanged.
LEMMA ConnectivityKeeps ==
  ASSUME Inv, ConnectivityChanged
  PROVE  Inv'
<1>1. /\ StreamOK(remote, mutations[current_user]) /\ remote \in Remote
      /\ disruptions \in 0..MaxDisruptions /\ current_user \in AnyUser
      /\ mutations \in [AnyUser -> Seq(Batch)]
      /\ Ordered(mutations[current_user]) /\ Numbered(mutations[current_user], next_batch_id)
  BY QueuesAsTheyAre
<1>2. PICK n : n = RestartNetwork(remote, mutations[current_user])
  OBVIOUS
<1>3. PICK q \in Seq(Batch) : q = mutations[current_user]
  BY <1>1
<1>4. StreamOK(n, mutations[current_user]) /\ Renewed(remote, n)
  BY <1>1, <1>2, <1>3, RestartNetworkKeeps
<1>5. n \in Remote
  BY <1>4 DEF Renewed
<1>6. disruptions' \in 0..MaxDisruptions
  BY <1>1, DisruptIs DEF ConnectivityChanged
<1>7. QED
  BY <1>2, <1>4, <1>5, <1>6, PlainRenewalKeeps DEF ConnectivityChanged

\* IdleTimeout.
LEMMA IdleTimeoutKeeps ==
  ASSUME Inv, IdleTimeout
  PROVE  Inv'
<1>1. /\ StreamOK(remote, mutations[current_user]) /\ remote \in Remote
      /\ disruptions \in 0..MaxDisruptions
  BY QueuesAsTheyAre
<1>2. PICK n : n = StartIfNeeded(Stop(remote))
  OBVIOUS
<1>3. StreamOK(n, mutations[current_user]) /\ Renewed(remote, n)
  BY <1>1, <1>2, IdleKeeps DEF IdleTimeout
<1>4. n \in Remote
  BY <1>3 DEF Renewed
<1>5. disruptions' \in 0..MaxDisruptions
  BY <1>1 DEF IdleTimeout
<1>6. QED
  BY <1>2, <1>3, <1>4, <1>5, PlainRenewalKeeps DEF IdleTimeout

\* A step of the stream that leaves everything else alone.
LEMMA PlainStreamKeeps ==
  ASSUME Inv, NEW n \in Remote, SetRemote(n), Moves(remote, n),
         StreamOK(n, mutations[current_user]),
         n.state = "Open" => n.raced \/ n.user = current_user,
         AnswersOK(n.fromServer, mutations, writes),
         UNCHANGED <<currentUser, unposted, mainQueue, contents, worker_queue, current_user,
                     mutations, next_batch_id, callbacks, writes, disruptions>>
  PROVE  Inv'
<1>1. /\ worker_queue \in Seq(Operation) /\ current_user \in AnyUser /\ next_batch_id \in Nat
      /\ 0 < next_batch_id
      /\ LocalOK(mutations, next_batch_id, callbacks, worker_queue, writes)
      /\ \A x \in AnyUser : Numbered(mutations[x], next_batch_id)
      /\ UsersAlong(worker_queue, current_user, contents.current_user, writes)
      /\ TokensOK(tokens, mainQueue, worker_queue, remote.close_count, remote.state)
      /\ TypeOK /\ MainInv /\ Kept(writes, writes) /\ disruptions \in 0..MaxDisruptions
  BY QueuesAsTheyAre
<1>2. PICK u \in AnyUser : u = current_user
  BY <1>1
<1>3. PICK m \in Nat : m = next_batch_id
  BY <1>1
<1>4. PICK wq \in Seq(Operation) : wq = worker_queue
  BY <1>1
<1>5. PICK vs : vs = writes
  OBVIOUS
<1>6. tokens' \subseteq Token /\ TokenInv' /\ MainInv'
  BY <1>1, <1>4, StreamSteps
<1>7. remote' = n
  BY DEF SetRemote
<1>8. QED
  BY <1>1, <1>2, <1>3, <1>4, <1>5, <1>6, <1>7, StreamActionKeeps

\* BackoffElapsed.
LEMMA BackoffElapsedKeeps ==
  ASSUME Inv, BackoffElapsed
  PROVE  Inv'
<1>1. /\ StreamOK(remote, mutations[current_user]) /\ remote \in Remote
      /\ AnswersOK(remote.fromServer, mutations, writes)
  BY QueuesAsTheyAre
<1>2. PICK n : n = Start([remote EXCEPT !.state = "Initial"])
  OBVIOUS
<1>3. remote.state = "Backoff"
  BY DEF BackoffElapsed
<1>4. StreamOK(n, mutations[current_user]) /\ InState(n, remote, "Starting")
  BY <1>1, <1>2, <1>3, BackoffKeeps
<1>5. /\ n \in Remote /\ n.state = "Starting" /\ n.close_count = remote.close_count
      /\ n.fromServer = remote.fromServer
  BY <1>4 DEF InState, Stream
<1>6. Moves(remote, n)
  BY <1>3, <1>5 DEF Moves
<1>7. AnswersOK(n.fromServer, mutations, writes)
  BY <1>1, <1>5
<1>8. SetRemote(n)
  BY <1>2 DEF BackoffElapsed
<1>9. QED
  BY <1>4, <1>5, <1>6, <1>7, <1>8, PlainStreamKeeps DEF BackoffElapsed

\* HandshakeComplete.
LEMMA HandshakeCompleteKeeps ==
  ASSUME Inv, HandshakeComplete
  PROVE  Inv'
<1>1. /\ StreamOK(remote, mutations[current_user]) /\ remote \in Remote
      /\ AnswersOK(remote.fromServer, mutations, writes) /\ remote.fromServer \in Seq(Message)
  BY QueuesAsTheyAre
<1>2. /\ remote.state = "Open" /\ remote.fromServer # <<>>
      /\ Head(remote.fromServer).kind = "handshake"
  BY DEF HandshakeComplete, NextAnswer, IsOpen
<1>3. 1 \in DOMAIN remote.fromServer /\ remote.fromServer[1].kind = "handshake"
  BY <1>1, <1>2
<1>4. ~remote.handshake_complete
  <2>1. SUFFICES ASSUME remote.handshake_complete PROVE FALSE
    OBVIOUS
  <2>2. Carries(remote)
    BY <1>1, <1>2, <2>1 DEF StreamOK, Established
  <2>3. QED
    BY <1>3, <2>2 DEF Carries, Carried
<1>5. remote.fromServer = <<Handshake>>
  BY <1>1, <1>2, <1>4 DEF StreamOK, Greeting
<1>6. PICK n : n = EstablishedStream(remote)
  OBVIOUS
<1>7. /\ StreamOK(n, mutations[current_user]) /\ n \in Remote /\ n.state = "Open"
      /\ n.close_count = remote.close_count /\ n.user = remote.user /\ n.raced = remote.raced
      /\ n.fromServer = <<>>
  BY <1>1, <1>2, <1>4, <1>6, HandshakeKeeps
<1>8. Moves(remote, n)
  BY <1>2, <1>7 DEF Moves
<1>9. AnswersOK(n.fromServer, mutations, writes)
  <2>1. \A k \in DOMAIN remote.fromServer : remote.fromServer[k].kind # "write"
    BY <1>5 DEF Handshake
  <2>2. QED
    BY <1>1, <1>7, <2>1, NothingUnderWay
<1>10. n.state = "Open" => n.raced \/ n.user = current_user
  BY <1>2, <1>7 DEF Inv, UserInv
<1>11. SetRemote(n)
  BY <1>6 DEF HandshakeComplete, EstablishedStream, Answered
<1>12. QED
  BY <1>7, <1>8, <1>9, <1>10, <1>11, PlainStreamKeeps DEF HandshakeComplete

\* RunCredentialChange.
LEMMA RunCredentialChangeKeeps ==
  ASSUME Inv, RunCredentialChange
  PROVE  Inv'
<1>1. /\ StreamOK(remote, mutations[current_user]) /\ remote \in Remote
      /\ worker_queue \in Seq(Operation) /\ current_user \in AnyUser /\ next_batch_id \in Nat
      /\ mutations \in [AnyUser -> Seq(Batch)] /\ 0 < next_batch_id
      /\ \A x \in AnyUser : Ordered(mutations[x]) /\ Numbered(mutations[x], next_batch_id)
      /\ LocalOK(mutations, next_batch_id, callbacks, worker_queue, writes)
      /\ UsersAlong(worker_queue, current_user, contents.current_user, writes)
      /\ TokensOK(tokens, mainQueue, worker_queue, remote.close_count, remote.state)
      /\ disruptions \in 0..MaxDisruptions
  BY QueuesAsTheyAre
<1>2. /\ worker_queue # <<>> /\ Head(worker_queue).kind = "credential"
      /\ current_user' = Head(worker_queue).user /\ worker_queue' = Tail(worker_queue)
  BY DEF RunCredentialChange, NextOperation
<1>3. Head(worker_queue) \in Operation /\ Tail(worker_queue) \in Seq(Operation)
  BY <1>1, <1>2
<1>4. PICK u \in AnyUser : u = Head(worker_queue).user
  BY <1>2, <1>3, QueueFields
<1>5. PICK wq \in Seq(Operation) : wq = Tail(worker_queue)
  BY <1>3
<1>6. UsersAlong(wq, u, contents.current_user, writes)
  <2>1. UserAfter(Head(worker_queue), current_user) = u
    BY <1>2, <1>4 DEF UserAfter
  <2>2. QED
    BY <1>1, <1>2, <1>5, <2>1, LessAlong
<1>7. TokensOK(tokens, mainQueue, wq, remote.close_count, remote.state)
  BY <1>1, <1>2, <1>5, OperationTaken
<1>8. LocalOK(mutations, next_batch_id, callbacks, wq, writes)
  BY <1>1, <1>2, <1>5, LocalTakes
<1>9. PICK m \in Nat : /\ 0 < m /\ next_batch_id' = m
                       /\ \A x \in AnyUser : Numbered(mutations[x], m)
  <2>1. /\ LoadNextBatchIdFromDb \in Nat /\ 0 < LoadNextBatchIdFromDb
        /\ \A x \in AnyUser : Numbered(mutations[x], LoadNextBatchIdFromDb)
    BY <1>1, NextIdIsFree
  <2>2. next_batch_id' = LoadNextBatchIdFromDb \/ next_batch_id' = next_batch_id
    BY DEF RunCredentialChange
  <2>3. QED
    BY <1>1, <2>1, <2>2
<1>10. PICK q \in Seq(Batch) : q = mutations[u]
  BY <1>1
<1>11. PICK n : n = RestartNetwork(remote, q)
  OBVIOUS
<1>12. StreamOK(n, mutations[u]) /\ Renewed(remote, n)
  BY <1>1, <1>10, <1>11, RestartNetworkKeeps
<1>13. n \in Remote
  BY <1>12 DEF Renewed
<1>14. SetRemote(n) /\ current_user' = u /\ worker_queue' = wq /\ writes' = CutOff(writes)
  BY <1>2, <1>4, <1>5, <1>10, <1>11 DEF RunCredentialChange
<1>15. UNCHANGED <<currentUser, unposted, mainQueue, contents, mutations, callbacks>>
  BY DEF RunCredentialChange
<1>16. disruptions' \in 0..MaxDisruptions
  BY <1>1 DEF RunCredentialChange
<1>17. QED
  BY <1>6, <1>7, <1>8, <1>9, <1>12, <1>13, <1>14, <1>15, <1>16, RenewalKeeps

\* RunToken.
LEMMA RunTokenKeeps ==
  ASSUME Inv, RunToken
  PROVE  Inv'
<1>1. /\ StreamOK(remote, mutations[current_user]) /\ remote \in Remote
      /\ worker_queue \in Seq(Operation) /\ current_user \in AnyUser /\ next_batch_id \in Nat
      /\ 0 < next_batch_id /\ mutations \in [AnyUser -> Seq(Batch)]
      /\ \A x \in AnyUser : Numbered(mutations[x], next_batch_id)
      /\ LocalOK(mutations, next_batch_id, callbacks, worker_queue, writes)
      /\ UsersAlong(worker_queue, current_user, contents.current_user, writes)
      /\ TokensOK(tokens, mainQueue, worker_queue, remote.close_count, remote.state)
      /\ AnswersOK(remote.fromServer, mutations, writes)
      /\ TypeOK /\ MainInv /\ Kept(writes, writes) /\ disruptions \in 0..MaxDisruptions
  BY QueuesAsTheyAre
<1>2. /\ worker_queue # <<>> /\ Head(worker_queue).kind = "token"
      /\ worker_queue' = Tail(worker_queue)
  BY DEF RunToken, NextOperation
<1>3. Head(worker_queue) \in Operation /\ Tail(worker_queue) \in Seq(Operation)
  BY <1>1, <1>2
<1>4. PICK t \in Token : t = Head(worker_queue).token
  BY <1>2, <1>3, QueueFields
<1>5. PICK wq \in Seq(Operation) : wq = Tail(worker_queue)
  BY <1>3
<1>6. UsersAlong(wq, current_user, contents.current_user, writes) /\ (t.raced \/ t.user = current_user)
  <2>1. UserAfter(Head(worker_queue), current_user) = current_user
    BY <1>2 DEF UserAfter
  <2>2. /\ UsersAlong(Tail(worker_queue), UserAfter(Head(worker_queue), current_user),
                      contents.current_user, writes)
        /\ OperationOf(Head(worker_queue), current_user, writes)
    BY <1>1, <1>2, LessAlong
  <2>3. QED
    BY <1>2, <1>4, <1>5, <2>1, <2>2 DEF OperationOf
<1>7. /\ TokensOK(tokens, mainQueue, wq, remote.close_count, remote.state)
      /\ Free(tokens, mainQueue, wq, remote.close_count, remote.state, t.close_count)
  BY <1>1, <1>2, <1>4, <1>5, OperationTaken
<1>8. LocalOK(mutations, next_batch_id, callbacks, wq, writes)
  BY <1>1, <1>2, <1>5, LocalTakes
<1>9. PICK u \in AnyUser : u = current_user
  BY <1>1
<1>10. PICK m \in Nat : m = next_batch_id
  BY <1>1
<1>11. PICK vs : vs = writes
  OBVIOUS
<1>12. /\ UNCHANGED <<currentUser, unposted, mainQueue, contents, current_user, mutations,
                      next_batch_id, callbacks, writes, disruptions>>
       /\ worker_queue' = wq
  BY <1>2, <1>5 DEF RunToken
<1>13. ASSUME NEW n \in Remote, remote' = n, tokens' \subseteq Token, TokenInv', MainInv',
              StreamOK(n, mutations[u]), n.state = "Open" => n.raced \/ n.user = u,
              AnswersOK(n.fromServer, mutations, writes)
       PROVE  Inv'
  <2>1. /\ LocalOK(mutations, next_batch_id, callbacks, wq, writes)
        /\ UsersAlong(wq, u, contents.current_user, writes)
        /\ \A x \in AnyUser : Numbered(mutations[x], m)
    BY <1>1, <1>6, <1>8, <1>9, <1>10
  <2>2. /\ Kept(writes, vs) /\ writes' = vs /\ AnswersOK(n.fromServer, mutations, vs)
        /\ current_user' = u /\ next_batch_id' = m /\ 0 < m
        /\ disruptions' \in 0..MaxDisruptions /\ worker_queue' = wq
        /\ UNCHANGED <<currentUser, unposted, mainQueue, contents, mutations, callbacks>>
    BY <1>1, <1>9, <1>10, <1>11, <1>12, <1>13
  <2>3. QED
    BY <1>13, <2>1, <2>2, StreamActionKeeps
<1>14. CASE t.close_count # remote.close_count
  <2>1. remote' = remote /\ tokens' = tokens
    BY <1>4, <1>14 DEF RunToken
  <2>2. PICK n \in Remote : n = remote
    BY <1>1
  <2>3. tokens' \subseteq Token
    BY <1>1, <2>1 DEF TypeOK
  <2>4. TokenInv'
    BY <1>7, <1>12, <2>1 DEF TokenInv
  <2>5. MainInv'
    BY <1>1, <1>12, <2>1 DEF MainInv
  <2>6. n.state = "Open" => n.raced \/ n.user = u
    BY <1>9, <2>2 DEF Inv, UserInv
  <2>7. StreamOK(n, mutations[u]) /\ AnswersOK(n.fromServer, mutations, writes) /\ remote' = n
    BY <1>1, <1>9, <2>1, <2>2
  <2>8. QED
    BY <1>13, <2>3, <2>4, <2>5, <2>6, <2>7
<1>15. CASE t.close_count = remote.close_count
  <2>1. remote.state = "Starting" /\ NoToken(tokens, mainQueue, wq, remote.close_count)
    BY <1>7, <1>15 DEF Free
  <2>2. remote.fromServer = <<>>
    BY <1>1, <2>1 DEF StreamOK, NothingSent
  <2>3. CASE t.ok
    <3>1. t.user \in AnyUser /\ t.raced \in BOOLEAN
      BY DEF Token
    <3>2. PICK n : n = OpenedStream(remote, t.user, t.raced)
      OBVIOUS
    <3>3. /\ StreamOK(n, mutations[current_user])
          /\ Stream(n, "Open", FALSE, remote.close_count, FALSE, t.user, t.raced,
                    remote.write_pipeline, <<Handshake>>, <<>>)
      BY <1>1, <2>1, <3>1, <3>2, OpeningKeeps
    <3>4. /\ n \in Remote /\ n.state = "Open" /\ n.close_count = remote.close_count
          /\ n.user = t.user /\ n.raced = t.raced /\ n.fromServer = <<>>
      BY <3>3 DEF Stream
    <3>5. remote' = n /\ tokens' = NewRequests(n)
      BY <1>4, <1>15, <2>3, <3>2 DEF RunToken, SetRemote, OpenedStream
    <3>6. tokens' = tokens
      BY <3>4, <3>5 DEF NewRequests
    <3>7. tokens' \subseteq Token
      BY <1>1, <3>6 DEF TypeOK
    <3>8. TokensOK(tokens, mainQueue, wq, n.close_count, n.state)
      BY <1>7, <2>1, <3>4 DEF TokensOK
    <3>9. TokenInv'
      BY <1>12, <3>5, <3>6, <3>8 DEF TokenInv
    <3>10. MainInv'
      BY <1>1, <1>12, <3>6 DEF MainInv
    <3>11. n.state = "Open" => n.raced \/ n.user = u
      BY <1>6, <1>9, <3>4
    <3>12. StreamOK(n, mutations[u]) /\ AnswersOK(n.fromServer, mutations, writes) /\ remote' = n
      BY <1>1, <1>9, <2>2, <3>3, <3>4, <3>5
    <3>13. QED
      BY <1>13, <3>4, <3>7, <3>9, <3>10, <3>11, <3>12
  <2>4. CASE ~t.ok
    <3>1. PICK n : n = AfterTransientError(remote)
      OBVIOUS
    <3>2. StreamOK(n, mutations[current_user]) /\ Renewed(remote, n)
      BY <1>1, <3>1, TransientErrorKeeps
    <3>3. n \in Remote /\ n.state # "Open" /\ n.fromServer = <<>> /\ Moves(remote, n)
      BY <3>2 DEF Renewed, Moves, IsStarted
    <3>4. SetRemote(n)
      BY <1>4, <1>15, <2>4, <3>1 DEF RunToken
    <3>5. tokens' \subseteq Token /\ TokenInv' /\ MainInv'
      BY <1>1, <1>7, <1>12, <3>3, <3>4, StreamSteps
    <3>6. StreamOK(n, mutations[u]) /\ AnswersOK(n.fromServer, mutations, writes) /\ remote' = n
      BY <1>1, <1>9, <2>2, <3>2, <3>3, <3>4 DEF SetRemote
    <3>7. n.state = "Open" => n.raced \/ n.user = u
      BY <3>3
    <3>8. QED
      BY <1>13, <3>3, <3>5, <3>6, <3>7
  <2>5. QED
    BY <2>3, <2>4
<1>16. QED
  BY <1>14, <1>15

-----------------------------------------------------------------------------
(***************************************************************************)
(* Every step keeps the invariant: the server.                             *)
(***************************************************************************)

\* What the server reads next.
LEMMA SentIsOnDisk ==
  ASSUME Inv, remote.state = "Open", remote.toServer # <<>>, NEW a, a = Head(remote.toServer)
  PROVE  /\ a \in Message
         /\ a.kind = "write" \/ a = Handshake
         /\ a.kind = "write" =>
              /\ \E i \in DOMAIN mutations[current_user] : mutations[current_user][i].w = a.w
              /\ a.w \in DOMAIN writes /\ writes[a.w].author = current_user
              /\ writes[a.w].told \in {"waiting", "lost"}
<1>1. /\ StreamOK(remote, mutations[current_user]) /\ remote \in Remote
      /\ current_user \in AnyUser /\ mutations \in [AnyUser -> Seq(Batch)]
      /\ DiskOK(mutations, next_batch_id, writes)
  BY QueuesAsTheyAre
<1>2. PICK to \in Seq(Message), from \in Seq(Message), pl \in Seq(Batch) :
        to = remote.toServer /\ from = remote.fromServer /\ pl = remote.write_pipeline
  BY <1>1, RemoteFields
<1>3. PICK q \in Seq(Batch) : q = mutations[current_user]
  BY <1>1
<1>4. a \in Message /\ 1 \in DOMAIN to /\ a = to[1]
  BY <1>2
<1>5. CASE ~remote.handshake_complete
  <2>1. Greeting(remote)
    BY <1>1, <1>5 DEF StreamOK
  <2>2. a = Handshake /\ a.kind # "write"
    BY <2>1 DEF Greeting, Handshake
  <2>3. QED
    BY <1>4, <2>2
<1>6. CASE remote.handshake_complete
  <2>1. Carried(pl, to, from)
    BY <1>1, <1>2, <1>6 DEF StreamOK, Established, Carries
  <2>2. PICK n \in Nat, k \in Nat : n = Len(from) /\ k = Len(to)
    BY <1>2
  <2>3. DOMAIN to = 1..k /\ Len(pl) = n + k /\ DOMAIN pl = 1..(n + k)
    <3>1. Len(pl) = Len(from) + Len(to)
      BY <2>1 DEF Carried
    <3>2. Len(pl) = n + k
      BY <2>2, <3>1
    <3>3. DOMAIN to = 1..Len(to) /\ DOMAIN pl = 1..Len(pl)
      BY <1>2
    <3>4. QED
      BY <2>2, <3>2, <3>3
  <2>4. n + 1 \in DOMAIN pl
    BY <1>4, <2>3
  <2>5. a.kind = "write" /\ a.w = pl[n + 1].w
    BY <1>4, <2>1, <2>2 DEF Carried
  <2>6. pl[n + 1] = q[n + 1] /\ n + 1 \in DOMAIN q
    <3>1. FrontOf(pl, q)
      BY <1>1, <1>2, <1>3 DEF StreamOK
    <3>2. Len(pl) <= Len(q) /\ pl[n + 1] = q[n + 1]
      BY <2>4, <3>1 DEF FrontOf
    <3>3. QED
      BY <1>3, <2>3, <2>4, <3>2
  <2>7. /\ q[n + 1].w \in DOMAIN writes /\ writes[q[n + 1].w].author = current_user
        /\ writes[q[n + 1].w].told \in {"waiting", "lost"}
    BY <1>1, <1>3, <2>6, OnDisk
  <2>8. QED
    BY <1>3, <1>4, <2>5, <2>6, <2>7
<1>7. QED
  BY <1>5, <1>6

\* It reads a message and answers it.
LEMMA ServerStepKeeps ==
  ASSUME Inv, remote.state = "Open", remote.toServer # <<>>,
         \A i \in DOMAIN remote.fromServer : remote.fromServer[i].kind # "refusal",
         NEW a \in Message, a.w = Head(remote.toServer).w,
         \/ Head(remote.toServer).kind = "handshake" /\ a.kind = "handshake"
         \/ Head(remote.toServer).kind = "write" /\ a.kind \in {"write", "refusal"},
         NEW vs, Served(writes, vs, a, remote), writes' = vs, remote' = ServedStream(remote, a),
         UNCHANGED <<auth, worker_queue, current_user, mutations, next_batch_id, callbacks,
                     disruptions>>
  PROVE  Inv'
<1>1. /\ StreamOK(remote, mutations[current_user]) /\ remote \in Remote
      /\ worker_queue \in Seq(Operation) /\ current_user \in AnyUser
      /\ mutations \in [AnyUser -> Seq(Batch)] /\ writes \in Seq(Write)
      /\ callbacks \subseteq [user : AnyUser, id : Nat \ {0}, w : 1..MaxWrites]
      /\ LocalOK(mutations, next_batch_id, callbacks, worker_queue, writes)
      /\ DiskOK(mutations, next_batch_id, writes)
      /\ \A x \in AnyUser : Numbered(mutations[x], next_batch_id)
      /\ UsersAlong(worker_queue, current_user, contents.current_user, writes)
      /\ TokensOK(tokens, mainQueue, worker_queue, remote.close_count, remote.state)
      /\ AnswersOK(remote.fromServer, mutations, writes)
      /\ AboutWrites(remote.fromServer, writes) /\ remote.fromServer \in Seq(Message)
      /\ MainInv
  BY QueuesAsTheyAre
<1>2. /\ currentUser' = currentUser /\ unposted' = unposted /\ mainQueue' = mainQueue
      /\ contents' = contents /\ tokens' = tokens /\ worker_queue' = worker_queue
      /\ current_user' = current_user /\ mutations' = mutations /\ callbacks' = callbacks
      /\ next_batch_id' = next_batch_id /\ disruptions' = disruptions
  BY DEF auth
<1>3. PICK n : n = ServedStream(remote, a)
  OBVIOUS
<1>4. /\ StreamOK(n, mutations[current_user]) /\ n \in Remote /\ n.state = "Open"
      /\ n.close_count = remote.close_count /\ n.user = remote.user /\ n.raced = remote.raced
      /\ n.fromServer = Append(remote.fromServer, a)
  BY <1>1, <1>3, ServerKeeps
<1>5. remote' = n
  BY <1>3
<1>6. /\ vs \in Seq(Write) /\ DOMAIN vs = DOMAIN writes /\ Len(vs) = Len(writes)
      /\ a.kind = "write" => vs[a.w].stored
      /\ a.kind = "refusal" => vs[a.w].refused
  BY DEF Served
<1>7. \A i \in DOMAIN writes :
        vs[i].author = writes[i].author /\ vs[i].told = writes[i].told
  BY DEF Served
<1>8. \A i \in DOMAIN writes :
        /\ vs[i].told = writes[i].told /\ vs[i].lostAck = writes[i].lostAck
        /\ writes[i].refused => vs[i].refused
        /\ vs[i].stored = writes[i].stored \/ (i = a.w /\ a.kind = "write")
  BY DEF Served
<1>9. \A i \in DOMAIN writes :
        \/ vs[i].as = writes[i].as /\ vs[i].raced = writes[i].raced
        \/ /\ i = a.w /\ a.kind = "write" /\ vs[i].as = writes[i].as \cup {remote.user}
           /\ vs[i].raced = (writes[i].raced \/ remote.raced)
  BY DEF Served
<1>10. a.kind # "handshake" =>
         /\ a.w \in DOMAIN writes /\ writes[a.w].author = current_user
         /\ writes[a.w].told \in {"waiting", "lost"}
  <2>1. a.kind # "handshake" => Head(remote.toServer).kind = "write"
    OBVIOUS
  <2>2. QED
    BY <2>1, SentIsOnDisk
<1>11. TypeOK'
  BY <1>2, <1>4, <1>5, <1>6 DEF Inv, TypeOK
<1>12. Queued(worker_queue, writes, mutations)
  BY <1>1 DEF LocalOK
<1>13. LocalInv'
  <2>1. \A j \in DOMAIN worker_queue :
          IsWrite(worker_queue, j) =>
            vs[worker_queue[j].w].stored = writes[worker_queue[j].w].stored
    <3>1. SUFFICES ASSUME NEW j \in DOMAIN worker_queue, IsWrite(worker_queue, j)
                   PROVE  vs[worker_queue[j].w].stored = writes[worker_queue[j].w].stored
      OBVIOUS
    <3>2. worker_queue[j].w \in DOMAIN writes /\ writes[worker_queue[j].w].told = "nothing"
      BY <1>12, <3>1 DEF Queued
    <3>3. ~(worker_queue[j].w = a.w /\ a.kind = "write")
      BY <1>10, <3>2
    <3>4. QED
      BY <1>8, <3>2, <3>3
  <2>2. LocalOK(mutations, next_batch_id, callbacks, worker_queue, vs)
    BY <1>1, <1>6, <1>7, <2>1, LocalSame
  <2>3. QED
    BY <1>2, <2>2 DEF Inv, LocalInv
<1>14. StreamInv'
  BY <1>2, <1>4, <1>5 DEF StreamInv
<1>15. AnswersInv'
  <2>1. AnswersOK(Append(remote.fromServer, a), mutations, vs)
    <3>1. PICK from \in Seq(Message), ms \in [AnyUser -> Seq(Batch)], ws \in Seq(Write) :
            from = remote.fromServer /\ ms = mutations /\ ws = writes
      BY <1>1
    <3>2. PICK m : DiskOK(ms, m, ws) /\ AnswersOK(from, ms, ws) /\ AboutWrites(from, ws)
      BY <1>1, <3>1
    <3>3. Served(ws, vs, a, remote)
      BY <3>1
    <3>4. a.kind = "handshake" \/ (a.w \in DOMAIN ws /\ ws[a.w].told # "failed")
      BY <1>10, <3>1
    <3>5. AnswersOK(Append(from, a), ms, vs)
      BY <3>2, <3>3, <3>4, ServerAnswer
    <3>6. QED
      BY <3>1, <3>5
  <2>2. QED
    BY <1>2, <1>4, <1>5, <2>1 DEF AnswersInv
<1>16. TokenInv'
  BY <1>1, <1>2, <1>4, <1>5 DEF TokenInv
<1>17. MainInv'
  BY <1>1, <1>2 DEF MainInv
<1>18. WorkerInv'
  <2>1. \A k \in DOMAIN worker_queue : worker_queue[k].kind = "write" =>
          vs[worker_queue[k].w].author = writes[worker_queue[k].w].author
    BY <1>7, <1>12 DEF Queued, IsWrite
  <2>2. UsersAlong(worker_queue, current_user, contents.current_user, vs)
    BY <1>1, <2>1, SameAlong
  <2>3. QED
    BY <1>2, <2>2 DEF WorkerInv
<1>19. remote.raced \/ remote.user = current_user
  BY DEF Inv, UserInv
<1>20. Authors(vs)
  <2>1. Authors(writes)
    BY DEF Inv, UserInv
  <2>2. SUFFICES ASSUME NEW i \in DOMAIN writes
                 PROVE  vs[i].as \subseteq {vs[i].author} \/ vs[i].raced
    BY <1>6 DEF Authors
  <2>3. writes[i].as \subseteq {writes[i].author} \/ writes[i].raced
    BY <2>1 DEF Authors
  <2>4. vs[i].author = writes[i].author
    BY <1>7
  <2>5. CASE vs[i].as = writes[i].as /\ vs[i].raced = writes[i].raced
    BY <2>3, <2>4, <2>5
  <2>6. CASE /\ i = a.w /\ a.kind = "write" /\ vs[i].as = writes[i].as \cup {remote.user}
             /\ vs[i].raced = (writes[i].raced \/ remote.raced)
    <3>1. writes[i].author = current_user
      BY <1>10, <2>6
    <3>2. QED
      BY <1>19, <2>3, <2>4, <2>6, <3>1
  <2>7. QED
    BY <1>9, <2>5, <2>6
<1>21. UserInv'
  <2>1. remote'.state = "Open" => remote'.raced \/ remote'.user = current_user'
    BY <1>2, <1>4, <1>5, <1>19
  <2>2. QED
    BY <1>17, <1>18, <1>20, <2>1 DEF UserInv
<1>22. QED
  BY <1>11, <1>13, <1>14, <1>15, <1>16, <1>21 DEF Inv

\* ServerHandshake.
LEMMA ServerHandshakeKeeps ==
  ASSUME Inv, ServerHandshake
  PROVE  Inv'
<1>1. /\ remote.state = "Open" /\ remote.toServer # <<>>
      /\ Head(remote.toServer).kind = "handshake"
      /\ \A i \in DOMAIN remote.fromServer : remote.fromServer[i].kind # "refusal"
      /\ UNCHANGED <<auth, worker_queue, current_user, mutations, next_batch_id, callbacks,
                     disruptions>>
  BY DEF ServerHandshake, ServerReads, IsOpen
<1>2. PICK a : a = Handshake
  OBVIOUS
<1>3. Head(remote.toServer) \in Message /\ Head(remote.toServer) = Handshake
  BY <1>1, SentIsOnDisk
<1>4. a \in Message /\ a.kind = "handshake" /\ a.w = Head(remote.toServer).w
  BY <1>2, <1>3 DEF Handshake
<1>5. PICK vs : vs = writes
  OBVIOUS
<1>6. Served(writes, vs, a, remote)
  BY <1>4, <1>5, QueuesAsTheyAre DEF Served
<1>7. writes' = vs /\ remote' = ServedStream(remote, a)
  BY <1>2, <1>5 DEF ServerHandshake, ServerAnswers, ServedStream, Handshake
<1>8. QED
  BY <1>1, <1>4, <1>6, <1>7, ServerStepKeeps

\* ServerStores.
LEMMA ServerStoresKeeps ==
  ASSUME Inv, ServerStores
  PROVE  Inv'
<1>1. /\ remote.state = "Open" /\ remote.toServer # <<>>
      /\ Head(remote.toServer).kind = "write"
      /\ \A i \in DOMAIN remote.fromServer : remote.fromServer[i].kind # "refusal"
      /\ UNCHANGED <<auth, worker_queue, current_user, mutations, next_batch_id, callbacks,
                     disruptions>>
  BY DEF ServerStores, ServerReads, IsOpen
<1>2. /\ Head(remote.toServer) \in Message /\ Head(remote.toServer).w \in DOMAIN writes
      /\ writes \in Seq(Write) /\ remote \in Remote
  BY <1>1, SentIsOnDisk, QueuesAsTheyAre
<1>3. PICK w \in DOMAIN writes : w = Head(remote.toServer).w
  BY <1>2
<1>4. PICK a : a = [kind |-> "write", w |-> w]
  OBVIOUS
<1>5. a \in Message /\ a.kind = "write" /\ a.w = w
  BY <1>2, <1>3, <1>4 DEF Message
<1>6. PICK vs : vs = [writes EXCEPT ![w].stored = TRUE, ![w].as = @ \cup {remote.user},
                                    ![w].raced = @ \/ remote.raced]
  OBVIOUS
<1>7. PICK v : v = [writes[w] EXCEPT !.stored = TRUE, !.as = @ \cup {remote.user},
                                     !.raced = @ \/ remote.raced]
  OBVIOUS
<1>8. /\ v \in Write /\ v.author = writes[w].author /\ v.told = writes[w].told
      /\ v.lostAck = writes[w].lostAck /\ v.garbled = writes[w].garbled
      /\ v.refused = writes[w].refused /\ v.stored
      /\ v.as = writes[w].as \cup {remote.user} /\ v.raced = (writes[w].raced \/ remote.raced)
  <2>1. remote.user \in AnyUser /\ remote.raced \in BOOLEAN
    BY <1>2, RemoteFields
  <2>2. writes[w] \in Write
    BY <1>2, WriteFields
  <2>3. QED
    BY <1>7, <2>1, <2>2 DEF Write
<1>9. vs = [writes EXCEPT ![w] = v]
  BY <1>2, <1>6, <1>7
<1>10. /\ vs \in Seq(Write) /\ DOMAIN vs = DOMAIN writes /\ Len(vs) = Len(writes) /\ vs[w] = v
       /\ \A i \in DOMAIN writes : i # w => vs[i] = writes[i]
  BY <1>2, <1>8, <1>9, OneElementChanges
<1>11. Served(writes, vs, a, remote)
  <2>1. \A i \in DOMAIN writes :
       /\ vs[i].author = writes[i].author /\ vs[i].told = writes[i].told
       /\ vs[i].lostAck = writes[i].lostAck /\ vs[i].garbled = writes[i].garbled
       /\ writes[i].refused => vs[i].refused
       /\ vs[i].stored = writes[i].stored \/ (i = a.w /\ a.kind = "write")
       /\ \/ vs[i].as = writes[i].as /\ vs[i].raced = writes[i].raced
          \/ /\ i = a.w /\ a.kind = "write"
             /\ vs[i].as = writes[i].as \cup {remote.user}
             /\ vs[i].raced = (writes[i].raced \/ remote.raced)
    BY <1>5, <1>8, <1>10
  <2>2. vs[a.w].stored
    BY <1>5, <1>8, <1>10
  <2>3. QED
    BY <1>5, <1>10, <2>1, <2>2 DEF Served
<1>12. writes' = vs /\ remote' = ServedStream(remote, a)
  BY <1>3, <1>4, <1>6 DEF ServerStores, ServerAnswers, ServedStream
<1>13. QED
  BY <1>1, <1>3, <1>5, <1>11, <1>12, ServerStepKeeps

\* ServerRefuses.
LEMMA ServerRefusesKeeps ==
  ASSUME Inv, ServerRefuses
  PROVE  Inv'
<1>1. /\ remote.state = "Open" /\ remote.toServer # <<>>
      /\ Head(remote.toServer).kind = "write"
      /\ \A i \in DOMAIN remote.fromServer : remote.fromServer[i].kind # "refusal"
      /\ UNCHANGED <<auth, worker_queue, current_user, mutations, next_batch_id, callbacks,
                     disruptions>>
  BY DEF ServerRefuses, ServerReads, IsOpen
<1>2. /\ Head(remote.toServer) \in Message /\ Head(remote.toServer).w \in DOMAIN writes
      /\ writes \in Seq(Write)
  BY <1>1, SentIsOnDisk, QueuesAsTheyAre
<1>3. PICK w \in DOMAIN writes : w = Head(remote.toServer).w
  BY <1>2
<1>4. PICK a : a = [kind |-> "refusal", w |-> w]
  OBVIOUS
<1>5. a \in Message /\ a.kind = "refusal" /\ a.w = w
  BY <1>2, <1>3, <1>4 DEF Message
<1>6. PICK v : v = [writes[w] EXCEPT !.refused = TRUE]
  OBVIOUS
<1>7. /\ v \in Write /\ v.author = writes[w].author /\ v.told = writes[w].told
      /\ v.lostAck = writes[w].lostAck /\ v.garbled = writes[w].garbled
      /\ v.refused /\ v.stored = writes[w].stored
      /\ v.as = writes[w].as /\ v.raced = writes[w].raced
  <2>1. writes[w] \in Write
    BY <1>2, WriteFields
  <2>2. QED
    BY <1>6, <2>1 DEF Write
<1>8. PICK vs : vs = [writes EXCEPT ![w] = v]
  OBVIOUS
<1>9. /\ vs \in Seq(Write) /\ DOMAIN vs = DOMAIN writes /\ Len(vs) = Len(writes) /\ vs[w] = v
      /\ \A i \in DOMAIN writes : i # w => vs[i] = writes[i]
  BY <1>2, <1>7, <1>8, OneElementChanges
<1>10. Served(writes, vs, a, remote)
  <2>1. \A i \in DOMAIN writes :
       /\ vs[i].author = writes[i].author /\ vs[i].told = writes[i].told
       /\ vs[i].lostAck = writes[i].lostAck /\ vs[i].garbled = writes[i].garbled
       /\ writes[i].refused => vs[i].refused
       /\ vs[i].stored = writes[i].stored
       /\ vs[i].as = writes[i].as /\ vs[i].raced = writes[i].raced
    BY <1>7, <1>9
  <2>2. vs[a.w].refused
    BY <1>5, <1>7, <1>9
  <2>3. QED
    BY <1>5, <1>9, <2>1, <2>2 DEF Served
<1>11. writes' = vs /\ remote' = ServedStream(remote, a)
  BY <1>2, <1>3, <1>4, <1>6, <1>8 DEF ServerRefuses, ServerAnswers, ServedStream
<1>12. QED
  BY <1>1, <1>3, <1>5, <1>10, <1>11, ServerStepKeeps

-----------------------------------------------------------------------------
(***************************************************************************)
(* Every step keeps the invariant: the mutation queue.                     *)
(***************************************************************************)

\* The writes are as they were as far as their authors are concerned.
SameAuthors(ws, vs) ==
  /\ vs \in Seq(Write) /\ DOMAIN vs = DOMAIN ws /\ Len(vs) = Len(ws)
  /\ \A i \in DOMAIN ws :
       vs[i].author = ws[i].author /\ vs[i].as = ws[i].as /\ vs[i].raced = ws[i].raced

\* A step of the mutation queue and of the stream.
LEMMA QueueActionKeeps ==
  ASSUME Inv, NEW n \in Remote, remote' = n,
         UNCHANGED <<currentUser, unposted, mainQueue, contents>>,
         NEW u \in AnyUser, u = current_user, current_user' = u,
         disruptions' \in 0..MaxDisruptions,
         NEW m \in Nat, 0 < m, next_batch_id' = m,
         NEW wq \in Seq(Operation), worker_queue' = wq,
         UsersAlong(wq, u, contents.current_user, writes),
         tokens' \subseteq Token, TokenInv', MainInv',
         NEW ms \in [AnyUser -> Seq(Batch)], mutations' = ms,
         NEW cs, cs \subseteq [user : AnyUser, id : Nat \ {0}, w : 1..MaxWrites], callbacks' = cs,
         NEW vs, writes' = vs, SameAuthors(writes, vs), LocalOK(ms, m, cs, wq, vs),
         StreamOK(n, ms[u]), n.state = "Open" => n.raced \/ n.user = u,
         AnswersOK(n.fromServer, ms, vs)
  PROVE  Inv'
<1>1. /\ currentUser' = currentUser /\ unposted' = unposted /\ mainQueue' = mainQueue
      /\ contents' = contents
  OBVIOUS
<1>2. /\ vs \in Seq(Write) /\ Len(vs) = Len(writes) /\ DOMAIN vs = DOMAIN writes
      /\ \A i \in DOMAIN writes : /\ vs[i].author = writes[i].author /\ vs[i].as = writes[i].as
                                  /\ vs[i].raced = writes[i].raced
  BY DEF SameAuthors
<1>3. TypeOK'
  <2>1. next_batch_id' \in Nat \ {0}
    OBVIOUS
  <2>2. QED
    BY <1>1, <1>2, <2>1 DEF Inv, TypeOK
<1>4. LocalInv' /\ StreamInv' /\ AnswersInv'
  BY <1>1 DEF LocalInv, StreamInv, AnswersInv
<1>5. WorkerInv'
  <2>1. Queued(wq, vs, ms)
    BY DEF LocalOK
  <2>2. \A k \in DOMAIN wq : wq[k].kind = "write" => vs[wq[k].w].author = writes[wq[k].w].author
    BY <1>2, <2>1 DEF Queued, IsWrite
  <2>3. UsersAlong(wq, u, contents.current_user, vs)
    BY <2>2, SameAlong
  <2>4. QED
    BY <1>1, <2>3 DEF WorkerInv
<1>6. Authors(vs)
  BY <1>2 DEF Inv, UserInv, Authors
<1>7. UserInv'
  BY <1>5, <1>6 DEF UserInv
<1>8. QED
  BY <1>3, <1>4, <1>7 DEF Inv

\* RunWrite.
LEMMA RunWriteKeeps ==
  ASSUME Inv, RunWrite
  PROVE  Inv'
<1>1. /\ StreamOK(remote, mutations[current_user]) /\ remote \in Remote
      /\ worker_queue \in Seq(Operation) /\ current_user \in AnyUser /\ next_batch_id \in Nat
      /\ 0 < next_batch_id /\ mutations \in [AnyUser -> Seq(Batch)] /\ writes \in Seq(Write)
      /\ callbacks \subseteq [user : AnyUser, id : Nat \ {0}, w : 1..MaxWrites]
      /\ LocalOK(mutations, next_batch_id, callbacks, worker_queue, writes)
      /\ DiskOK(mutations, next_batch_id, writes)
      /\ UsersAlong(worker_queue, current_user, contents.current_user, writes)
      /\ TokensOK(tokens, mainQueue, worker_queue, remote.close_count, remote.state)
      /\ AnswersOK(remote.fromServer, mutations, writes)
      /\ AboutWrites(remote.fromServer, writes)
      /\ TypeOK /\ MainInv /\ disruptions \in 0..MaxDisruptions
  BY QueuesAsTheyAre
<1>2. /\ worker_queue # <<>> /\ Head(worker_queue).kind = "write"
      /\ worker_queue' = Tail(worker_queue)
  BY DEF RunWrite, NextOperation
<1>3. Head(worker_queue) \in Operation /\ Tail(worker_queue) \in Seq(Operation)
  BY <1>1, <1>2
<1>4. PICK w \in 1..MaxWrites : w = Head(worker_queue).w
  BY <1>2, <1>3, QueueFields
<1>5. PICK wq \in Seq(Operation) : wq = Tail(worker_queue)
  BY <1>3
<1>6. PICK u \in AnyUser : u = current_user
  BY <1>1
<1>7. PICK k \in Nat \ {0} : k = next_batch_id
  BY <1>1
<1>8. UsersAlong(wq, u, contents.current_user, writes) /\ writes[w].author = u
  <2>1. UserAfter(Head(worker_queue), current_user) = current_user
    BY <1>2 DEF UserAfter
  <2>2. /\ UsersAlong(Tail(worker_queue), UserAfter(Head(worker_queue), current_user),
                      contents.current_user, writes)
        /\ OperationOf(Head(worker_queue), current_user, writes)
    BY <1>1, <1>2, LessAlong
  <2>3. QED
    BY <1>2, <1>4, <1>5, <1>6, <2>1, <2>2 DEF OperationOf
<1>9. TokensOK(tokens, mainQueue, wq, remote.close_count, remote.state)
  BY <1>1, <1>2, <1>5, OperationTaken
<1>10. PICK b : b = [id |-> k, w |-> w]
  OBVIOUS
<1>11. b \in Batch /\ b.id = k /\ b.w = w /\ CallbackOf(u, b) = [user |-> u, id |-> k, w |-> w]
  BY <1>10 DEF Batch, CallbackOf
<1>12. PICK ms : ms = WithMore(mutations, u, b)
  OBVIOUS
<1>13. PICK cs : cs = callbacks \cup {CallbackOf(u, b)}
  OBVIOUS
<1>14. w \in DOMAIN writes
  <2>1. Queued(worker_queue, writes, mutations)
    BY <1>1 DEF LocalOK
  <2>2. 1 \in DOMAIN worker_queue /\ worker_queue[1] = Head(worker_queue)
    BY <1>1, <1>2
  <2>3. QED
    BY <1>2, <1>4, <2>1, <2>2 DEF Queued, IsWrite
<1>15. PICK vs : vs = Tell(writes, {w}, "waiting")
  OBVIOUS
<1>16. writes' = vs
  BY <1>1, <1>4, <1>14, <1>15 DEF RunWrite, Tell
<1>17. Telling(writes, vs, {w}, "waiting")
  <2>1. "waiting" \in Told
    BY DEF Told
  <2>2. QED
    BY <1>1, <1>15, <2>1, TellingIs
<1>18. /\ LocalOK(ms, k + 1, cs, wq, vs)
       /\ ~ \E c \in callbacks : c.user = u /\ c.id = k
       /\ ~writes[w].stored
  <2>1. WriteRan(mutations, k, callbacks, worker_queue, writes, u, b, ms, cs, vs)
    BY <1>1, <1>2, <1>4, <1>7, <1>8, <1>10, <1>12, <1>13, <1>17 DEF WriteRan
  <2>2. QED
    BY <1>4, <1>5, <2>1, WriteRuns
<1>19. /\ mutations' = ms /\ callbacks' = cs /\ next_batch_id' = k + 1 /\ current_user' = u
       /\ mutations'[current_user] = ms[u]
  BY <1>4, <1>6, <1>7, <1>10, <1>11, <1>12, <1>13, <1>18 DEF RunWrite, WithMore
<1>20. /\ ms \in [AnyUser -> Seq(Batch)] /\ ms[u] = Append(mutations[u], b)
       /\ \A x \in AnyUser : x # u => ms[x] = mutations[x]
  <2>1. mutations[u] \in Seq(Batch)
    BY <1>1
  <2>2. Append(mutations[u], b) \in Seq(Batch)
    BY <1>11, <2>1, OneElementIsAdded
  <2>3. QED
    BY <1>1, <1>12, <2>2 DEF WithMore
<1>21. cs \subseteq [user : AnyUser, id : Nat \ {0}, w : 1..MaxWrites]
  BY <1>1, <1>11, <1>13
<1>22. PICK q \in Seq(Batch) : q = ms[u]
  BY <1>20
<1>23. Ordered(q) /\ Numbered(q, k + 1)
  BY <1>18, <1>22 DEF LocalOK, DiskOK
<1>24. StreamOK(remote, q)
  BY <1>1, <1>6, <1>11, <1>20, <1>22, GrowthKeeps
<1>25. PICK n : n = FillWritePipeline(remote, q)
  OBVIOUS
<1>26. StreamOK(n, q) /\ FillKept(remote, n)
  BY <1>1, <1>23, <1>24, <1>25, FillKeeps
<1>27. /\ n \in Remote /\ n.close_count = remote.close_count /\ n.user = remote.user
       /\ n.raced = remote.raced /\ n.fromServer = remote.fromServer
       /\ n.state = remote.state \/ (~IsStarted(remote) /\ n.state \in {"Starting", "Backoff"})
  BY <1>26 DEF FillKept
<1>28. Moves(remote, n)
  BY <1>27 DEF Moves, IsStarted
<1>29. SetRemote(n) /\ remote' = n
  BY <1>19, <1>22, <1>25 DEF RunWrite, SetRemote
<1>30. UNCHANGED <<currentUser, unposted, mainQueue, contents>> /\ worker_queue' = wq
  BY <1>2, <1>5 DEF RunWrite
<1>31. tokens' \subseteq Token /\ TokenInv' /\ MainInv'
  BY <1>1, <1>9, <1>27, <1>28, <1>29, <1>30, StreamSteps
<1>32. AnswersOK(n.fromServer, ms, vs)
  <2>1. AnswersOK(remote.fromServer, ms, vs)
    BY <1>1, <1>11, <1>12, <1>14, <1>17, <1>18, AnswersWrite
  <2>2. QED
    BY <1>27, <2>1
<1>33. n.state = "Open" => n.raced \/ n.user = u
  BY <1>6, <1>27 DEF Inv, UserInv
<1>34. SameAuthors(writes, vs)
  BY <1>17 DEF Telling, ToldOnly, SameAuthors
<1>35. k + 1 \in Nat /\ 0 < k + 1
  OBVIOUS
<1>36. disruptions' \in 0..MaxDisruptions
  BY <1>1 DEF RunWrite
<1>37. StreamOK(n, ms[u])
  BY <1>22, <1>26
<1>38. QED
  BY <1>6, <1>8, <1>16, <1>18, <1>19, <1>20, <1>21, <1>27, <1>29, <1>30, <1>31, <1>32, <1>33,
     <1>34, <1>35, <1>36, <1>37, QueueActionKeeps

\* The front of the pipeline is answered: it leaves the disk and its caller is told.
Answering(ws, verdict) ==
  LET id == Head(remote.write_pipeline).id
  IN  /\ mutations' = [mutations EXCEPT ![current_user] = Without(@, id)]
      /\ NotifyUser(id, verdict, ws)

\* The front of the pipeline is the front of the queue.
LEMMA PipelineFront ==
  ASSUME Inv, remote.write_pipeline # <<>>, NEW q, q = mutations[current_user]
  PROVE  /\ q \in Seq(Batch) /\ q # <<>> /\ Head(remote.write_pipeline) = q[1]
         /\ 1 \in DOMAIN q /\ q[1].w \in DOMAIN writes
         /\ Ordered(q) /\ Numbered(q, next_batch_id)
         /\ Ordered(Tail(q)) /\ Numbered(Tail(q), next_batch_id)
<1>1. /\ StreamOK(remote, q) /\ remote \in Remote /\ current_user \in AnyUser
      /\ mutations \in [AnyUser -> Seq(Batch)] /\ DiskOK(mutations, next_batch_id, writes)
  BY QueuesAsTheyAre
<1>2. PICK pl \in Seq(Batch) : pl = remote.write_pipeline
  BY <1>1, RemoteFields
<1>3. q \in Seq(Batch)
  BY <1>1
<1>4. FrontOf(pl, q)
  BY <1>1, <1>2 DEF StreamOK
<1>5. q # <<>> /\ Head(pl) = q[1]
  BY <1>2, <1>3, <1>4, FrontOfTail
<1>6. 1 \in DOMAIN q
  BY <1>3, <1>5
<1>7. q[1].w \in DOMAIN writes
  BY <1>1, <1>6, OnDisk
<1>8. Ordered(q) /\ Numbered(q, next_batch_id) /\ Unanswered(q, current_user, writes)
  BY <1>1 DEF DiskOK
<1>9. Ordered(Tail(q)) /\ Numbered(Tail(q), next_batch_id)
  BY <1>3, <1>5, <1>8, ShorterQueue
<1>10. QED
  BY <1>2, <1>3, <1>5, <1>6, <1>7, <1>8, <1>9

\* What that leaves.
LEMMA AnsweringIs ==
  ASSUME Inv, remote.write_pipeline # <<>>, NEW ws \in Seq(Write), Kept(writes, ws),
         NEW verdict \in Told, Answering(ws, verdict),
         NEW f, f = mutations[current_user][1].w, NEW u, u = current_user,
         NEW ms, ms = mutations', NEW cs, cs = callbacks', NEW vs, vs = writes'
  PROVE  /\ ms = WithoutFront(mutations, u) /\ ms[u] = Tail(mutations[u])
         /\ ms \in [AnyUser -> Seq(Batch)]
         /\ cs \subseteq [user : AnyUser, id : Nat \ {0}, w : 1..MaxWrites]
         /\ LocalOK(ms, next_batch_id, cs, worker_queue, vs) /\ AnsweredOnly(ws, vs, f, verdict)
         /\ DiskOK(mutations, next_batch_id, ws)
<1>1. /\ current_user \in AnyUser /\ mutations \in [AnyUser -> Seq(Batch)]
      /\ callbacks \subseteq [user : AnyUser, id : Nat \ {0}, w : 1..MaxWrites]
      /\ LocalOK(mutations, next_batch_id, callbacks, worker_queue, writes)
      /\ \A x \in AnyUser : Numbered(mutations[x], next_batch_id)
  BY QueuesAsTheyAre
<1>2. PICK q : q = mutations[u]
  OBVIOUS
<1>3. /\ q \in Seq(Batch) /\ q # <<>> /\ Head(remote.write_pipeline) = q[1] /\ Ordered(q)
  BY <1>2, PipelineFront
<1>4. PICK id : id = q[1].id
  OBVIOUS
<1>5. Without(q, id) = Tail(q)
  BY <1>3, <1>4, FrontIsRemoved
<1>6. ms = WithoutFront(mutations, u)
  BY <1>2, <1>3, <1>4, <1>5 DEF Answering, WithoutFront
<1>7. PICK mine : mine = Mine(callbacks, u, id)
  OBVIOUS
<1>8. vs = Tell(ws, {c.w : c \in mine}, verdict) /\ cs = callbacks \ mine
  <2>1. mine = {c \in callbacks : c.user = current_user /\ c.id = Head(remote.write_pipeline).id}
    BY <1>3, <1>4, <1>7 DEF Mine
  <2>2. /\ vs = [i \in DOMAIN ws |-> IF \E c \in mine : c.w = i THEN [ws[i] EXCEPT !.told = verdict]
                                                              ELSE ws[i]]
        /\ cs = callbacks \ mine
    BY <2>1 DEF Answering, NotifyUser
  <2>3. \A i : (\E c \in mine : c.w = i) <=> i \in {c.w : c \in mine}
    OBVIOUS
  <2>4. QED
    BY <2>2, <2>3 DEF Tell
<1>9. Telling(ws, vs, {c.w : c \in mine}, verdict)
  BY <1>8, TellingIs
<1>10. LocalOK(mutations, next_batch_id, callbacks, worker_queue, ws)
  <2>1. /\ DOMAIN ws = DOMAIN writes
        /\ \A i \in DOMAIN writes : ws[i].author = writes[i].author /\ ws[i].told = writes[i].told
        /\ \A i \in DOMAIN writes : ws[i].stored = writes[i].stored
    BY DEF Kept
  <2>2. \A j \in DOMAIN worker_queue : IsWrite(worker_queue, j) =>
          ws[worker_queue[j].w].stored = writes[worker_queue[j].w].stored
    BY <1>1, <2>1 DEF LocalOK, Queued
  <2>3. QED
    BY <1>1, <2>1, <2>2, LocalSame
<1>11. DiskOK(mutations, next_batch_id, ws)
  BY <1>10 DEF LocalOK
<1>12. LocalOK(ms, next_batch_id, cs, worker_queue, vs) /\ AnsweredOnly(ws, vs, f, verdict)
  <2>1. PICK m0 \in [AnyUser -> Seq(Batch)], cs0 \in SUBSET [user : AnyUser, id : Nat \ {0}, w : 1..MaxWrites] :
          m0 = mutations /\ cs0 = callbacks
    BY <1>1
  <2>2. /\ LocalOK(m0, next_batch_id, cs0, worker_queue, ws) /\ m0[u] # <<>>
        /\ mine = Mine(cs0, u, m0[u][1].id) /\ f = m0[u][1].w /\ ms = WithoutFront(m0, u)
        /\ cs0 \subseteq [user : AnyUser, id : Nat \ {0}, w : 1..MaxWrites]
    BY <1>2, <1>3, <1>4, <1>6, <1>7, <1>10, <2>1
  <2>3. u \in AnyUser
    BY <1>1
  <2>4. LocalOK(ms, next_batch_id, cs0 \ mine, worker_queue, vs) /\ AnsweredOnly(ws, vs, f, verdict)
    BY <1>9, <2>2, <2>3, FrontAnswered
  <2>5. QED
    BY <1>8, <2>1, <2>4
<1>13. ms \in [AnyUser -> Seq(Batch)] /\ ms[u] = Tail(mutations[u])
  <2>1. PICK m0 \in [AnyUser -> Seq(Batch)] : m0 = mutations
    BY <1>1
  <2>2. DiskOK(m0, next_batch_id, ws) /\ m0[u] # <<>> /\ ms = WithoutFront(m0, u)
    BY <1>2, <1>3, <1>6, <1>11, <2>1
  <2>3. u \in AnyUser
    BY <1>1
  <2>4. ms \in [AnyUser -> Seq(Batch)] /\ ms[u] = Tail(m0[u])
    <3>1. m0[u] \in Seq(Batch)
      BY <2>3
    <3>2. Tail(m0[u]) \in Seq(Batch)
      BY <2>2, <3>1, FrontIsTaken
    <3>3. QED
      BY <2>2, <2>3, <3>2 DEF WithoutFront
  <2>5. QED
    BY <2>1, <2>4
<1>14. cs \subseteq [user : AnyUser, id : Nat \ {0}, w : 1..MaxWrites]
  BY <1>1, <1>8
<1>15. QED
  BY <1>6, <1>11, <1>12, <1>13, <1>14

\* The front is answered and the stream goes on to n.
LEMMA AnsweringKeeps ==
  ASSUME Inv, remote.write_pipeline # <<>>, NEW ws \in Seq(Write), Kept(writes, ws),
         NEW verdict \in {"ok", "failed"}, Answering(ws, verdict),
         NEW f, f = mutations[current_user][1].w,
         NEW from, AnswersOK(from, mutations, ws), AboutWrites(from, ws),
         verdict = "failed" => Blamed(ws, f),
         NEW n \in Remote, SetRemote(n), Moves(remote, n), AllButFront(from, n.fromServer, f),
         StreamOK(n, Tail(mutations[current_user])),
         n.state = "Open" => n.raced \/ n.user = current_user,
         UNCHANGED <<currentUser, unposted, mainQueue, contents, worker_queue, current_user,
                     next_batch_id>>,
         disruptions' \in 0..MaxDisruptions
  PROVE  Inv'
<1>1. /\ worker_queue \in Seq(Operation) /\ current_user \in AnyUser /\ next_batch_id \in Nat
      /\ 0 < next_batch_id /\ mutations \in [AnyUser -> Seq(Batch)]
      /\ UsersAlong(worker_queue, current_user, contents.current_user, writes)
      /\ TokensOK(tokens, mainQueue, worker_queue, remote.close_count, remote.state)
      /\ TypeOK /\ MainInv /\ disruptions \in 0..MaxDisruptions
  BY QueuesAsTheyAre
<1>2. PICK u \in AnyUser : u = current_user
  BY <1>1
<1>3. PICK m \in Nat : m = next_batch_id
  BY <1>1
<1>4. PICK wq \in Seq(Operation) : wq = worker_queue
  BY <1>1
<1>5. PICK vs : vs = writes'
  OBVIOUS
<1>6. PICK cs : cs = callbacks'
  OBVIOUS
<1>7. PICK ms : ms = mutations'
  OBVIOUS
<1>8. verdict \in Told
  BY DEF Told
<1>9. /\ ms = WithoutFront(mutations, u) /\ ms[u] = Tail(mutations[u])
      /\ ms \in [AnyUser -> Seq(Batch)]
      /\ cs \subseteq [user : AnyUser, id : Nat \ {0}, w : 1..MaxWrites]
      /\ LocalOK(ms, m, cs, wq, vs) /\ AnsweredOnly(ws, vs, f, verdict)
      /\ DiskOK(mutations, m, ws)
  BY <1>2, <1>3, <1>4, <1>5, <1>6, <1>7, <1>8, AnsweringIs
<1>10. tokens' \subseteq Token /\ TokenInv' /\ MainInv'
  BY <1>1, <1>4, StreamSteps
<1>11. AnswersOK(n.fromServer, ms, vs)
  <2>1. PICK m0 \in [AnyUser -> Seq(Batch)] : m0 = mutations
    BY <1>1
  <2>2. m0[u] # <<>> /\ f = m0[u][1].w
    BY <1>2, <2>1, PipelineFront
  <2>3. DiskOK(m0, m, ws) /\ AnswersOK(from, m0, ws) /\ ms = WithoutFront(m0, u)
    BY <1>9, <2>1
  <2>4. AnsweredOnly(ws, vs, f, verdict)
    BY <1>9
  <2>5. QED
    BY <2>2, <2>3, <2>4, AnswersFront
<1>12. SameAuthors(writes, vs)
  BY <1>9 DEF AnsweredOnly, ToldOnly, Kept, SameAuthors
<1>13. remote' = n
  BY DEF SetRemote
<1>14. StreamOK(n, ms[u])
  BY <1>2, <1>9
<1>15. n.state = "Open" => n.raced \/ n.user = u
  BY <1>2
<1>16. /\ UNCHANGED <<currentUser, unposted, mainQueue, contents>> /\ current_user' = u
       /\ disruptions' \in 0..MaxDisruptions /\ 0 < m /\ next_batch_id' = m /\ worker_queue' = wq
       /\ UsersAlong(wq, u, contents.current_user, writes)
       /\ mutations' = ms /\ callbacks' = cs /\ writes' = vs
  BY <1>1, <1>2, <1>3, <1>4, <1>5, <1>6, <1>7
<1>17. QED
  BY <1>2, <1>9, <1>10, <1>11, <1>12, <1>13, <1>14, <1>15, <1>16, QueueActionKeeps

\* A result under way is that of the front, and true.
LEMMA ResultIsForFront ==
  ASSUME Inv, NextAnswer("write"), NEW from, from = remote.fromServer,
         NEW f, f = mutations[current_user][1].w
  PROVE  /\ Established(remote) /\ remote.write_pipeline # <<>>
         /\ from[1].w = f /\ Head(from) = from[1] /\ f \in DOMAIN writes /\ writes[f].stored
<1>1. /\ StreamOK(remote, mutations[current_user]) /\ remote \in Remote
      /\ AnswersOK(remote.fromServer, mutations, writes) /\ remote.fromServer \in Seq(Message)
  BY QueuesAsTheyAre
<1>2. /\ remote.state = "Open" /\ remote.fromServer # <<>>
      /\ Head(remote.fromServer).kind = "write"
  BY DEF NextAnswer, IsOpen
<1>3. PICK fr \in Seq(Message) : fr = remote.fromServer
  BY <1>1
<1>4. 1 \in DOMAIN fr /\ fr[1].kind = "write" /\ Head(fr) = fr[1]
  BY <1>2, <1>3
<1>5. /\ Established(remote) /\ remote.write_pipeline # <<>>
      /\ fr[1].w = remote.write_pipeline[1].w
  <2>1. remote.fromServer[1].kind # "handshake" /\ 1 \in DOMAIN remote.fromServer
    BY <1>3, <1>4
  <2>2. QED
    BY <1>1, <1>2, <1>3, <2>1, AnswerIsForFront
<1>6. PICK q : q = mutations[current_user]
  OBVIOUS
<1>7. Head(remote.write_pipeline) = q[1] /\ q[1].w \in DOMAIN writes
  BY <1>5, <1>6, PipelineFront
<1>8. fr[1].w = q[1].w
  <2>1. PICK pl \in Seq(Batch) : pl = remote.write_pipeline
    BY <1>1, RemoteFields
  <2>2. Head(pl) = pl[1]
    BY <1>5, <2>1
  <2>3. QED
    BY <1>5, <1>7, <2>1, <2>2
<1>9. writes[q[1].w].stored
  BY <1>1, <1>3, <1>4, <1>8 DEF AnswersOK, AnswersTrue
<1>10. QED
  BY <1>3, <1>4, <1>5, <1>6, <1>7, <1>8, <1>9

\* MutationResult.
LEMMA MutationResultKeeps ==
  ASSUME Inv, MutationResult
  PROVE  Inv'
<1>1. /\ StreamOK(remote, mutations[current_user]) /\ remote \in Remote
      /\ writes \in Seq(Write) /\ AnswersOK(remote.fromServer, mutations, writes)
      /\ AboutWrites(remote.fromServer, writes) /\ Kept(writes, writes)
      /\ remote.fromServer \in Seq(Message)
  BY QueuesAsTheyAre
<1>2. /\ remote.state = "Open" /\ remote.fromServer # <<>>
      /\ Head(remote.fromServer).kind = "write"
  BY DEF MutationResult, NextAnswer, IsOpen
<1>3. PICK from \in Seq(Message) : from = remote.fromServer
  BY <1>1
<1>4. 1 \in DOMAIN from /\ from[1].kind = "write"
  BY <1>2, <1>3
<1>5. /\ Established(remote) /\ remote.write_pipeline # <<>>
      /\ from[1].w = mutations[current_user][1].w
  BY <1>3, ResultIsForFront DEF MutationResult
<1>6. PICK q : q = mutations[current_user]
  OBVIOUS
<1>7. /\ q \in Seq(Batch) /\ q # <<>> /\ Head(remote.write_pipeline) = q[1]
      /\ Ordered(Tail(q)) /\ Numbered(Tail(q), next_batch_id) /\ Tail(q) \in Seq(Batch)
  <2>1. /\ q \in Seq(Batch) /\ q # <<>> /\ Head(remote.write_pipeline) = q[1]
        /\ Ordered(Tail(q)) /\ Numbered(Tail(q), next_batch_id)
    BY <1>5, <1>6, PipelineFront
  <2>2. QED
    BY <2>1
<1>8. PICK f : f = q[1].w
  OBVIOUS
<1>9. from[1].w = f
  BY <1>5, <1>6, <1>8
<1>10. Answering(writes, "ok")
  BY DEF MutationResult, Answering
<1>11. mutations'[current_user] = Tail(q)
  <2>1. PICK ws \in Seq(Write) : ws = writes
    BY <1>1
  <2>2. PICK ms : ms = mutations'
    OBVIOUS
  <2>3. PICK u : u = current_user
    OBVIOUS
  <2>4. "ok" \in Told
    BY DEF Told
  <2>5. ms[u] = Tail(mutations[u])
    BY <1>1, <1>5, <1>10, <2>1, <2>2, <2>3, <2>4, AnsweringIs
  <2>6. QED
    BY <1>6, <2>2, <2>3, <2>5
<1>12. PICK r : r = AnsweredStream(remote)
  OBVIOUS
<1>13. /\ StreamOK(r, Tail(q)) /\ r \in Remote /\ r.state = "Open"
       /\ r.close_count = remote.close_count /\ r.user = remote.user /\ r.raced = remote.raced
       /\ r.fromServer = Tail(from)
  BY <1>1, <1>2, <1>3, <1>5, <1>6, <1>7, <1>12, AnswerKeeps
<1>14. PICK n : n = FillWritePipeline(r, Tail(q))
  OBVIOUS
<1>15. StreamOK(n, Tail(q)) /\ FillKept(r, n)
  BY <1>7, <1>13, <1>14, FillKeeps
<1>16. /\ n \in Remote /\ n.state = "Open" /\ n.close_count = remote.close_count
       /\ n.user = remote.user /\ n.raced = remote.raced /\ n.fromServer = Tail(from)
  BY <1>13, <1>15 DEF FillKept, IsStarted
<1>17. SetRemote(n)
  BY <1>11, <1>12, <1>14 DEF MutationResult, Answered, AnsweredStream
<1>18. Moves(remote, n)
  BY <1>2, <1>16 DEF Moves
<1>19. AllButFront(from, n.fromServer, f)
  <2>1. PICK to \in Seq(Message) : to = Tail(from)
    BY <1>2, <1>3, FrontIsTaken
  <2>2. PICK l \in Nat : l = Len(from) /\ DOMAIN from = 1..l /\ DOMAIN to = 1..(l - 1)
    BY <1>2, <1>3, <2>1, FrontIsTaken
  <2>3. \A k \in DOMAIN to : to[k] = from[k + 1] /\ k + 1 \in DOMAIN from
    BY <1>2, <1>3, <2>1, FrontIsTaken
  <2>4. ASSUME NEW w, w # f, AnswerUnderWay(from, w) PROVE AnswerUnderWay(to, w)
    <3>1. PICK k \in DOMAIN from : from[k].kind = "write" /\ from[k].w = w
      BY <2>4 DEF AnswerUnderWay
    <3>2. k # 1
      BY <1>9, <2>4, <3>1
    <3>3. k \in 1..l
      BY <2>2
    <3>4. PICK j \in DOMAIN to : j + 1 = k
      <4>1. k - 1 \in 1..(l - 1) /\ (k - 1) + 1 = k
        BY <3>2, <3>3
      <4>2. QED
        BY <2>2, <4>1
    <3>5. to[j].kind = "write" /\ to[j].w = w
      BY <2>3, <3>1, <3>4
    <3>6. QED
      BY <3>5 DEF AnswerUnderWay
  <2>5. QED
    BY <1>16, <2>1, <2>3, <2>4 DEF AllButFront
<1>20. n.state = "Open" => n.raced \/ n.user = current_user
  BY <1>2, <1>16 DEF Inv, UserInv
<1>21. /\ UNCHANGED <<currentUser, unposted, mainQueue, contents, worker_queue, current_user,
                      next_batch_id>>
       /\ disruptions' \in 0..MaxDisruptions
  BY QueuesAsTheyAre DEF MutationResult
<1>22. PICK ws \in Seq(Write) : ws = writes
  BY <1>1
<1>23. /\ AnswersOK(from, mutations, ws) /\ AboutWrites(from, ws) /\ Kept(writes, ws)
       /\ Answering(ws, "ok") /\ f = mutations[current_user][1].w
       /\ StreamOK(n, Tail(mutations[current_user]))
  BY <1>1, <1>3, <1>6, <1>8, <1>10, <1>15, <1>22
<1>24. QED
  BY <1>5, <1>16, <1>17, <1>18, <1>19, <1>20, <1>21, <1>23, AnsweringKeeps

\* The front of the pipeline may be blamed for a refusal.
LEMMA FrontIsBlamed ==
  ASSUME Inv, remote.state = "Open", NEW i \in DOMAIN remote.fromServer,
         remote.fromServer[i].kind = "refusal", NEW f, f = mutations[current_user][1].w
  PROVE  remote.write_pipeline # <<>> /\ Blamed(CutOff(writes), f)
<1>1. /\ StreamOK(remote, mutations[current_user]) /\ remote \in Remote
      /\ writes \in Seq(Write) /\ AnswersOK(remote.fromServer, mutations, writes)
      /\ Kept(writes, CutOff(writes)) /\ AnswersOK(<<>>, mutations, CutOff(writes))
      /\ remote.fromServer \in Seq(Message) /\ current_user \in AnyUser
      /\ mutations \in [AnyUser -> Seq(Batch)] /\ DiskOK(mutations, next_batch_id, writes)
  BY QueuesAsTheyAre
<1>2. PICK from \in Seq(Message), pl \in Seq(Batch) :
        from = remote.fromServer /\ pl = remote.write_pipeline
  BY <1>1, RemoteFields
<1>3. Carried(pl, remote.toServer, from) /\ pl # <<>> /\ i \in DOMAIN pl
  BY <1>1, <1>2, AnswerIsForFront DEF Carries
<1>4. PICK q : q = mutations[current_user]
  OBVIOUS
<1>5. q \in Seq(Batch) /\ 1 \in DOMAIN q /\ q[1].w \in DOMAIN writes /\ Ordered(q)
  BY <1>2, <1>3, <1>4, PipelineFront
<1>6. FrontOf(pl, q)
  BY <1>1, <1>2, <1>4 DEF StreamOK
<1>7. /\ \A k \in DOMAIN from : /\ from[k].w = pl[k].w /\ from[k].kind \in {"write", "refusal"}
                                /\ from[k].kind = "refusal" => k = Len(from)
  BY <1>3 DEF Carried
<1>8. PICK l \in Nat : l = Len(from) /\ DOMAIN from = 1..l
  BY <1>2
<1>9. i \in DOMAIN from /\ i = l /\ from[i].kind = "refusal"
  BY <1>2, <1>7, <1>8
<1>10. 1 \in DOMAIN from /\ 1 \in DOMAIN pl
  <2>1. 1 \in DOMAIN from
    BY <1>8, <1>9
  <2>2. 1 \in DOMAIN pl
    BY <1>2, <1>3
  <2>3. QED
    BY <2>1, <2>2
<1>11. i \in DOMAIN q /\ pl[1] = q[1] /\ pl[i] = q[i]
  <2>1. Len(pl) <= Len(q) /\ pl[1] = q[1] /\ pl[i] = q[i]
    BY <1>3, <1>6, <1>10 DEF FrontOf
  <2>2. QED
    BY <1>2, <1>3, <1>5, <2>1
<1>12. from[1].w = f /\ from[i].w = q[i].w /\ q[1].w = f
  BY <1>4, <1>7, <1>9, <1>10, <1>11
<1>13. AnswersTrue(from, writes)
  BY <1>1, <1>2 DEF AnswersOK
<1>14. PICK vs : vs = CutOff(writes)
  OBVIOUS
<1>15. /\ DOMAIN vs = DOMAIN writes
       /\ \A k \in DOMAIN writes : vs[k].stored = writes[k].stored /\ vs[k].refused = writes[k].refused
  BY <1>1, <1>14 DEF Kept
<1>16. vs[f].stored => vs[f].lostAck
  <2>1. Lost(<<>>, mutations, vs)
    BY <1>1, <1>14 DEF AnswersOK
  <2>2. vs[f].stored => vs[f].lostAck \/ AnswerUnderWay(<<>>, f)
    BY <1>1, <1>4, <1>5, <1>12, <2>1 DEF Lost
  <2>3. ~AnswerUnderWay(<<>>, f)
    BY DEF AnswerUnderWay
  <2>4. QED
    BY <2>2, <2>3
<1>17. q[i].w \in DOMAIN writes /\ writes[q[i].w].refused
  <2>1. q[i].w \in DOMAIN writes
    BY <1>1, <1>4, <1>11, OnDisk
  <2>2. writes[from[i].w].refused
    BY <1>9, <1>13 DEF AnswersTrue
  <2>3. QED
    BY <1>12, <2>1, <2>2
<1>18. CASE i = 1
  <2>1. vs[f].refused
    BY <1>12, <1>15, <1>17, <1>18
  <2>2. QED
    BY <1>2, <1>3, <1>14, <1>16, <2>1 DEF Blamed
<1>19. CASE i # 1
  <2>1. from[1].kind = "write"
    BY <1>7, <1>8, <1>9, <1>10, <1>19
  <2>2. writes[f].stored /\ f \in DOMAIN writes
    BY <1>5, <1>10, <1>12, <1>13, <2>1 DEF AnswersTrue
  <2>3. 1 < i
    BY <1>8, <1>9, <1>19
  <2>4. f < q[i].w
    BY <1>5, <1>11, <1>12, <2>3 DEF Ordered
  <2>5. q[i].w > f
    BY <2>4
  <2>6. vs[f].stored /\ \E j \in DOMAIN vs : j > f /\ vs[j].refused
    BY <1>15, <1>17, <2>2, <2>5
  <2>7. QED
    BY <1>2, <1>3, <1>14, <1>16, <2>6 DEF Blamed
<1>20. QED
  BY <1>18, <1>19

\* RejectFront, when the front may be blamed and no answer is read any more.
LEMMA RejectFrontKeeps ==
  ASSUME Inv, remote.write_pipeline # <<>>, remote.state = "Open", NEW ws, RejectFront(ws),
         Kept(writes, ws), AnswersOK(<<>>, mutations, ws),
         NEW f, f = mutations[current_user][1].w, Blamed(ws, f),
         disruptions' \in 0..MaxDisruptions
  PROVE  Inv'
<1>1. StreamOK(remote, mutations[current_user]) /\ remote \in Remote
  BY QueuesAsTheyAre
<1>2. PICK q : q = mutations[current_user]
  OBVIOUS
<1>3. f = q[1].w
  BY <1>2
<1>6. /\ q \in Seq(Batch) /\ Ordered(Tail(q)) /\ Numbered(Tail(q), next_batch_id)
  BY <1>2, PipelineFront
<1>7. ws \in Seq(Write)
  BY DEF Kept
<1>8. Answering(ws, "failed")
  BY DEF RejectFront, Answering
<1>9. mutations'[current_user] = Tail(q)
  <2>1. PICK ms : ms = mutations'
    OBVIOUS
  <2>2. PICK u : u = current_user
    OBVIOUS
  <2>3. "failed" \in Told
    BY DEF Told
  <2>4. ms[u] = Tail(mutations[u])
    BY <1>7, <1>8, <2>1, <2>2, <2>3, AnsweringIs
  <2>5. QED
    BY <1>2, <2>1, <2>2, <2>4
<1>10. PICK n : n = RejectedStream(remote, Tail(q))
  OBVIOUS
<1>11. StreamOK(n, Tail(q)) /\ Renewed(remote, n)
  BY <1>1, <1>2, <1>6, <1>10, RejectionKeeps
<1>12. n \in Remote /\ n.state # "Open" /\ n.fromServer = <<>> /\ Moves(remote, n)
  BY <1>11 DEF Renewed, Moves, IsStarted
<1>13. SetRemote(n)
  BY <1>9, <1>10 DEF RejectFront, RejectedStream
<1>14. AllButFront(<<>>, n.fromServer, f) /\ AboutWrites(<<>>, ws)
  BY <1>12 DEF AllButFront, AboutWrites
<1>15. UNCHANGED <<currentUser, unposted, mainQueue, contents, worker_queue, current_user,
                   next_batch_id>>
  BY DEF RejectFront
<1>16. f = mutations[current_user][1].w /\ StreamOK(n, Tail(mutations[current_user]))
  BY <1>2, <1>3, <1>11
<1>17. n.state = "Open" => n.raced \/ n.user = current_user
  BY <1>12
<1>18. QED
  BY <1>7, <1>8, <1>12, <1>13, <1>14, <1>15, <1>16, <1>17, AnsweringKeeps

\* RejectFront, for a refusal that is under way.
LEMMA RefusalKeeps ==
  ASSUME Inv, remote.state = "Open", NEW i \in DOMAIN remote.fromServer,
         remote.fromServer[i].kind = "refusal", RejectFront(CutOff(writes)),
         UNCHANGED disruptions
  PROVE  Inv'
<1>1. /\ AnswersOK(<<>>, mutations, CutOff(writes)) /\ Kept(writes, CutOff(writes))
      /\ disruptions \in 0..MaxDisruptions
  BY QueuesAsTheyAre
<1>2. PICK f : f = mutations[current_user][1].w
  OBVIOUS
<1>3. remote.write_pipeline # <<>> /\ Blamed(CutOff(writes), f)
  BY <1>2, FrontIsBlamed
<1>4. PICK ws : ws = CutOff(writes)
  OBVIOUS
<1>5. /\ RejectFront(ws) /\ Kept(writes, ws) /\ AnswersOK(<<>>, mutations, ws) /\ Blamed(ws, f)
      /\ disruptions' \in 0..MaxDisruptions
  BY <1>1, <1>3, <1>4
<1>6. QED
  BY <1>2, <1>3, <1>5, RejectFrontKeeps

\* WriteRefused.
LEMMA WriteRefusedKeeps ==
  ASSUME Inv, WriteRefused
  PROVE  Inv'
<1>1. /\ remote.state = "Open" /\ remote.fromServer # <<>> /\ RejectFront(CutOff(writes))
      /\ Head(remote.fromServer).kind = "refusal" /\ UNCHANGED disruptions
  BY DEF WriteRefused, NextAnswer, IsOpen
<1>2. remote.fromServer \in Seq(Message)
  BY QueuesAsTheyAre
<1>3. 1 \in DOMAIN remote.fromServer /\ remote.fromServer[1].kind = "refusal"
  BY <1>1, <1>2
<1>4. QED
  BY <1>1, <1>3, RefusalKeeps

\* RefusalOvertakes.
LEMMA RefusalOvertakesKeeps ==
  ASSUME Inv, RefusalOvertakes
  PROVE  Inv'
<1>1. remote.state = "Open" /\ RejectFront(CutOff(writes)) /\ UNCHANGED disruptions
  BY DEF RefusalOvertakes, IsOpen
<1>2. remote.fromServer \in Seq(Message)
  BY QueuesAsTheyAre
<1>3. PICK i \in 2..Len(remote.fromServer) : remote.fromServer[i].kind = "refusal"
  BY DEF RefusalOvertakes
<1>4. i \in DOMAIN remote.fromServer
  BY <1>2, <1>3
<1>5. QED
  BY <1>1, <1>3, <1>4, RefusalKeeps

\* The answer of the front is thrown away.
Garbled(ws) == [CutOff(ws) EXCEPT ![Head(remote.fromServer).w].garbled = TRUE]

\* The front is then to blame.
LEMMA GarbledIsBlamed ==
  ASSUME Inv, NextAnswer("write"), NEW vs, vs = Garbled(writes),
         NEW f, f = mutations[current_user][1].w
  PROVE  /\ remote.write_pipeline # <<>> /\ remote.state = "Open"
         /\ Kept(writes, vs) /\ AnswersOK(<<>>, mutations, vs) /\ Blamed(vs, f)
<1>1. /\ Kept(writes, CutOff(writes)) /\ AnswersOK(<<>>, mutations, CutOff(writes))
      /\ current_user \in AnyUser /\ mutations \in [AnyUser -> Seq(Batch)]
      /\ DiskOK(mutations, next_batch_id, writes)
  BY QueuesAsTheyAre
<1>2. PICK from : from = remote.fromServer
  OBVIOUS
<1>3. /\ remote.write_pipeline # <<>> /\ Established(remote) /\ from[1].w = f
      /\ Head(from) = from[1] /\ f \in DOMAIN writes /\ writes[f].stored
  BY <1>2, ResultIsForFront
<1>4. PICK ws \in Seq(Write) : ws = CutOff(writes)
  BY <1>1 DEF Kept
<1>5. /\ DOMAIN ws = DOMAIN writes /\ Len(ws) = Len(writes)
      /\ \A i \in DOMAIN writes : /\ ws[i].author = writes[i].author /\ ws[i].told = writes[i].told
                                  /\ ws[i].stored = writes[i].stored /\ ws[i].as = writes[i].as
                                  /\ ws[i].refused = writes[i].refused
                                  /\ ws[i].raced = writes[i].raced
                                  /\ writes[i].lostAck => ws[i].lostAck
                                  /\ writes[i].garbled => ws[i].garbled
  BY <1>1, <1>4 DEF Kept
<1>6. vs = [ws EXCEPT ![f].garbled = TRUE]
  BY <1>2, <1>3, <1>4 DEF Garbled
<1>7. PICK v : v = [ws[f] EXCEPT !.garbled = TRUE]
  OBVIOUS
<1>8. f \in DOMAIN ws /\ ws[f] \in Write
  BY <1>3, <1>5, WriteFields
<1>9. /\ v \in Write /\ v.garbled /\ v.author = ws[f].author /\ v.told = ws[f].told
      /\ v.stored = ws[f].stored /\ v.as = ws[f].as /\ v.refused = ws[f].refused
      /\ v.raced = ws[f].raced /\ v.lostAck = ws[f].lostAck
  BY <1>7, <1>8 DEF Write
<1>10. vs = [ws EXCEPT ![f] = v]
  BY <1>6, <1>7
<1>11. vs \in Seq(Write) /\ Len(vs) = Len(ws) /\ DOMAIN vs = DOMAIN ws
  BY <1>8, <1>9, <1>10, OneElementChanges
<1>12. \A i \in DOMAIN ws : vs[i] = IF i = f THEN v ELSE ws[i]
  BY <1>8, <1>10
<1>13. \A i \in DOMAIN ws : /\ vs[i].author = ws[i].author /\ vs[i].told = ws[i].told
                            /\ vs[i].stored = ws[i].stored /\ vs[i].as = ws[i].as
                            /\ vs[i].refused = ws[i].refused /\ vs[i].raced = ws[i].raced
                            /\ vs[i].lostAck = ws[i].lostAck
                            /\ ws[i].garbled => vs[i].garbled
  BY <1>9, <1>12
<1>14. Kept(writes, vs)
  BY <1>5, <1>11, <1>13 DEF Kept
<1>15. AnswersOK(<<>>, mutations, vs)
  <2>1. AnswersTrue(<<>>, vs)
    BY DEF AnswersTrue
  <2>2. Lost(<<>>, mutations, ws) /\ Failures(ws)
    BY <1>1, <1>4 DEF AnswersOK
  <2>3. Lost(<<>>, mutations, vs)
    <3>1. SUFFICES ASSUME NEW u \in AnyUser, NEW i \in DOMAIN mutations[u],
                          vs[mutations[u][i].w].stored
                   PROVE  vs[mutations[u][i].w].lostAck \/ AnswerUnderWay(<<>>, mutations[u][i].w)
      BY DEF Lost
    <3>2. PICK w \in DOMAIN writes : w = mutations[u][i].w
      BY <1>1, OnDisk
    <3>3. ws[w].lostAck \/ AnswerUnderWay(<<>>, w)
      BY <1>5, <1>13, <2>2, <3>1, <3>2 DEF Lost
    <3>4. QED
      BY <1>5, <1>13, <3>2, <3>3
  <2>4. Failures(vs)
    <3>1. SUFFICES ASSUME NEW i \in DOMAIN ws, vs[i].told = "failed"
                   PROVE  /\ \/ vs[i].refused
                             \/ vs[i].stored /\ \E j \in DOMAIN vs : j > i /\ vs[j].refused
                             \/ vs[i].stored /\ vs[i].garbled
                          /\ vs[i].stored => vs[i].lostAck
      BY <1>11 DEF Failures
    <3>2. /\ \/ ws[i].refused
             \/ ws[i].stored /\ \E j \in DOMAIN ws : j > i /\ ws[j].refused
             \/ ws[i].stored /\ ws[i].garbled
          /\ ws[i].stored => ws[i].lostAck
      BY <1>13, <2>2, <3>1 DEF Failures
    <3>3. QED
      BY <1>11, <1>13, <3>2
  <2>5. QED
    BY <2>1, <2>3, <2>4 DEF AnswersOK
<1>16. vs[f].stored /\ vs[f].garbled
  BY <1>3, <1>5, <1>8, <1>9, <1>12, <1>13
<1>17. vs[f].lostAck
  <2>1. PICK q : q = mutations[current_user]
    OBVIOUS
  <2>2. 1 \in DOMAIN q
    BY <1>3, <2>1, PipelineFront
  <2>3. Lost(<<>>, mutations, vs)
    BY <1>15 DEF AnswersOK
  <2>4. vs[f].lostAck \/ AnswerUnderWay(<<>>, f)
    BY <1>1, <1>16, <2>1, <2>2, <2>3 DEF Lost
  <2>5. ~AnswerUnderWay(<<>>, f)
    BY DEF AnswerUnderWay
  <2>6. QED
    BY <2>4, <2>5
<1>18. Blamed(vs, f)
  BY <1>16, <1>17 DEF Blamed
<1>19. QED
  BY <1>3, <1>14, <1>15, <1>18 DEF Established

\* AnswerUnreadable.
LEMMA AnswerUnreadableKeeps ==
  ASSUME Inv, AnswerUnreadable
  PROVE  Inv'
<1>1. /\ StreamOK(remote, mutations[current_user]) /\ remote \in Remote
      /\ disruptions \in 0..MaxDisruptions
  BY QueuesAsTheyAre
<1>2. disruptions' \in 0..MaxDisruptions
  BY <1>1, DisruptIs DEF AnswerUnreadable
<1>3. CASE NextAnswer("write")
  <2>1. ~NextAnswer("handshake")
    BY <1>3 DEF NextAnswer
  <2>2. PICK ws : ws = Garbled(writes)
    OBVIOUS
  <2>3. RejectFront(ws)
    BY <2>1, <2>2 DEF AnswerUnreadable, Garbled
  <2>4. PICK f : f = mutations[current_user][1].w
    OBVIOUS
  <2>5. /\ remote.write_pipeline # <<>> /\ remote.state = "Open"
        /\ Kept(writes, ws) /\ AnswersOK(<<>>, mutations, ws) /\ Blamed(ws, f)
    BY <1>3, <2>2, <2>4, GarbledIsBlamed
  <2>6. QED
    BY <1>2, <2>3, <2>4, <2>5, RejectFrontKeeps
<1>4. CASE ~NextAnswer("write")
  <2>1. PICK n : n = AfterTransientError(remote)
    OBVIOUS
  <2>2. StreamOK(n, mutations[current_user]) /\ Renewed(remote, n)
    <3>1. IsOpen(remote)
      BY <1>4 DEF AnswerUnreadable, NextAnswer
    <3>2. QED
      BY <1>1, <2>1, <3>1, TransientErrorKeeps
  <2>3. n \in Remote
    BY <2>2 DEF Renewed
  <2>4. QED
    BY <1>2, <1>4, <2>1, <2>2, <2>3, PlainRenewalKeeps DEF AnswerUnreadable
<1>5. QED
  BY <1>3, <1>4

-----------------------------------------------------------------------------
(***************************************************************************)
(* Every step keeps the invariant: the process dies.                       *)
(***************************************************************************)

\* Who waited is told nothing any more, and what was not on disk is gone.
Forget(ws) ==
  [i \in DOMAIN ws |->
     [ws[i] EXCEPT !.told = CASE @ = "nothing" -> "gone" [] @ = "waiting" -> "lost" [] OTHER -> @]]

Forgotten(ws, vs) ==
  /\ ToldOnly(ws, vs)
  /\ \A i \in DOMAIN ws :
       vs[i].told = IF ws[i].told = "nothing" THEN "gone"
                    ELSE IF ws[i].told = "waiting" THEN "lost" ELSE ws[i].told

\* That is what Forget does.
LEMMA ForgetIs ==
  ASSUME NEW ws \in Seq(Write), NEW vs, vs = Forget(ws)
  PROVE  Forgotten(ws, vs)
<1>1. ASSUME NEW i \in DOMAIN ws
      PROVE  /\ vs[i] \in Write
             /\ vs[i].author = ws[i].author /\ vs[i].stored = ws[i].stored
             /\ vs[i].as = ws[i].as /\ vs[i].refused = ws[i].refused
             /\ vs[i].lostAck = ws[i].lostAck /\ vs[i].garbled = ws[i].garbled
             /\ vs[i].raced = ws[i].raced
             /\ vs[i].told = IF ws[i].told = "nothing" THEN "gone"
                             ELSE IF ws[i].told = "waiting" THEN "lost" ELSE ws[i].told
  <2>1. ws[i] \in Write /\ ws[i].told \in Told
    BY WriteFields DEF Told
  <2>2. PICK verdict \in Told : verdict = IF ws[i].told = "nothing" THEN "gone"
                                          ELSE IF ws[i].told = "waiting" THEN "lost" ELSE ws[i].told
    BY <2>1 DEF Told
  <2>3. vs[i] = [ws[i] EXCEPT !.told = verdict]
    BY <2>2 DEF Forget
  <2>4. QED
    BY <2>1, <2>2, <2>3 DEF Write, Told
<1>2. vs = [i \in DOMAIN ws |-> vs[i]]
  BY DEF Forget
<1>3. vs \in Seq(Write) /\ Len(vs) = Len(ws) /\ DOMAIN vs = DOMAIN ws
  <2>1. \A i \in DOMAIN ws : vs[i] \in Write
    BY <1>1
  <2>2. QED
    BY <1>2, <2>1, EveryElementChanges
<1>4. QED
  BY <1>1, <1>3 DEF ToldOnly, Forgotten

\* No answer is under way, and nobody is told that a write failed.
LEMMA AnswersForgotten ==
  ASSUME NEW ms \in [AnyUser -> Seq(Batch)], NEW n, NEW ws, NEW vs, DiskOK(ms, n, ws),
         AnswersOK(<<>>, ms, ws), Forgotten(ws, vs)
  PROVE  AnswersOK(<<>>, ms, vs)
<1>1. Lost(<<>>, ms, ws) /\ Failures(ws)
  BY DEF AnswersOK
<1>2. /\ DOMAIN vs = DOMAIN ws
      /\ \A i \in DOMAIN ws : /\ vs[i].stored = ws[i].stored /\ vs[i].refused = ws[i].refused
                              /\ vs[i].lostAck = ws[i].lostAck /\ vs[i].garbled = ws[i].garbled
                              /\ vs[i].told = "failed" => ws[i].told = "failed"
  BY DEF Forgotten, ToldOnly
<1>3. AnswersTrue(<<>>, vs)
  BY DEF AnswersTrue
<1>4. Lost(<<>>, ms, vs)
  <2>1. ASSUME NEW u \in AnyUser, NEW i \in DOMAIN ms[u], vs[ms[u][i].w].stored
        PROVE  vs[ms[u][i].w].lostAck \/ AnswerUnderWay(<<>>, ms[u][i].w)
    <3>1. PICK w \in DOMAIN ws : w = ms[u][i].w
      BY OnDisk
    <3>2. ws[w].lostAck \/ AnswerUnderWay(<<>>, w)
      BY <1>1, <1>2, <2>1, <3>1 DEF Lost
    <3>3. QED
      BY <1>2, <3>1, <3>2
  <2>2. QED
    BY <2>1 DEF Lost
<1>5. Failures(vs)
  <2>1. ASSUME NEW i \in DOMAIN ws, vs[i].told = "failed"
        PROVE  /\ \/ vs[i].refused
                  \/ vs[i].stored /\ \E j \in DOMAIN vs : j > i /\ vs[j].refused
                  \/ vs[i].stored /\ vs[i].garbled
               /\ vs[i].stored => vs[i].lostAck
    <3>1. /\ \/ ws[i].refused
             \/ ws[i].stored /\ \E j \in DOMAIN ws : j > i /\ ws[j].refused
             \/ ws[i].stored /\ ws[i].garbled
          /\ ws[i].stored => ws[i].lostAck
      BY <1>1, <1>2, <2>1 DEF Failures
    <3>2. QED
      BY <1>2, <3>1
  <2>2. QED
    BY <1>2, <2>1 DEF Failures
<1>6. QED
  BY <1>3, <1>4, <1>5 DEF AnswersOK

\* A stream that has never been started, once its pipeline is filled.
LEMMA FreshStream ==
  ASSUME NEW q \in Seq(Batch), NEW m, Ordered(q), Numbered(q, m)
  PROVE  /\ Down(FreshRemote, "Initial", 0, <<>>) /\ StreamOK(FreshRemote, q)
         /\ StreamOK(FillWritePipeline(FreshRemote, q), q)
         /\ FillWritePipeline(FreshRemote, q) \in Remote
         /\ FillWritePipeline(FreshRemote, q).close_count = 0
         /\ FillWritePipeline(FreshRemote, q).fromServer = <<>>
         /\ FillWritePipeline(FreshRemote, q).state # "Open"
<1>1. PICK r : r = FreshRemote
  OBVIOUS
<1>2. /\ r \in Remote /\ r.state = "Initial" /\ r.close_count = 0 /\ r.fromServer = <<>>
      /\ r.toServer = <<>> /\ ~r.handshake_complete /\ ~r.idle /\ r.write_pipeline = <<>>
  <2>1. NoUser \in AnyUser
    BY DEF AnyUser
  <2>2. <<>> \in Seq(Batch) /\ <<>> \in Seq(Message)
    OBVIOUS
  <2>3. QED
    BY <1>1, <2>1, <2>2 DEF FreshRemote, Remote
<1>3. Down(r, "Initial", 0, <<>>)
  BY <1>2 DEF Down
<1>4. StreamOK(r, q)
  BY <1>3, EmptyFront, DownIsOK
<1>5. PICK n : n = FillWritePipeline(r, q)
  OBVIOUS
<1>6. StreamOK(n, q) /\ FillKept(r, n)
  BY <1>2, <1>4, <1>5, FillKeeps
<1>7. n \in Remote /\ n.close_count = 0 /\ n.fromServer = <<>> /\ n.state # "Open"
  BY <1>2, <1>6 DEF FillKept
<1>8. QED
  BY <1>1, <1>3, <1>4, <1>5, <1>6, <1>7

\* The queues after a restart: at most the notification of the user is on the main queue.
LEMMA FreshMainQueue ==
  ASSUME NEW cur \in AnyUser, NEW u, NEW mq, NEW T, NEW t \in Token,
         mq = IF u = cur THEN <<>> ELSE <<Notification(cur)>>,
         T = {} \/ T = {t}, t.counter = 0, ~t.read, t.close_count = 0
  PROVE  /\ mq \in Seq(Block)
         /\ CallbacksCurrent(mq, 0, u) /\ RequestsCurrent(T, mq, 0, u)
         /\ NotLater(T, mq, <<>>, 0) /\ OneToken(T, mq, <<>>, 0)
         /\ T = {} => NoToken(T, mq, <<>>, 0)
<1>1. PICK b \in Block : b = Notification(cur) /\ b.kind = "notification" /\ b.user = cur
  BY QueueFields
<1>2. mq \in Seq(Block)
  BY <1>1
<1>3. \A i \in DOMAIN mq : mq[i].kind = "notification" /\ mq[i].user = cur /\ i = 1
  BY <1>1
<1>4. u # cur => 1 \in DOMAIN mq
  OBVIOUS
<1>5. CallbacksCurrent(mq, 0, u) /\ RequestsCurrent(T, mq, 0, u)
  BY <1>3 DEF CallbacksCurrent, RequestsCurrent
<1>6. NotLater(T, mq, <<>>, 0)
  BY <1>3 DEF NotLater
<1>7. OneToken(T, mq, <<>>, 0) /\ (T = {} => NoToken(T, mq, <<>>, 0))
  BY <1>3 DEF OneToken, NoToken, TokenAt
<1>8. QED
  BY <1>2, <1>5, <1>6, <1>7

\* Restart.
LEMMA RestartKeeps ==
  ASSUME Inv, Restart
  PROVE  Inv'
<1>1. /\ next_batch_id \in Nat /\ mutations \in [AnyUser -> Seq(Batch)] /\ writes \in Seq(Write)
      /\ \A x \in AnyUser : Ordered(mutations[x]) /\ Numbered(mutations[x], next_batch_id)
      /\ LocalOK(mutations, next_batch_id, callbacks, worker_queue, writes)
      /\ DiskOK(mutations, next_batch_id, writes)
      /\ AnswersOK(<<>>, mutations, CutOff(writes)) /\ Kept(writes, CutOff(writes))
      /\ disruptions \in 0..MaxDisruptions
  BY QueuesAsTheyAre
<1>2. currentUser \in AnyUser /\ Len(writes) <= MaxWrites
  BY DEF Inv, TypeOK
<1>3. PICK cur \in AnyUser : cur = currentUser
  BY <1>2
<1>4. PICK u \in {NoUser, currentUser} :
        /\ contents' = [current_user |-> u, token_counter |-> 0]
        /\ current_user' = u
        /\ mainQueue' = IF u = currentUser THEN <<>> ELSE <<Notification(currentUser)>>
  BY DEF Restart
<1>5. u \in AnyUser
  BY <1>2, <1>4 DEF AnyUser
<1>6. /\ currentUser' = cur /\ unposted' = {} /\ worker_queue' = <<>> /\ callbacks' = {}
      /\ mutations' = mutations
  BY <1>3 DEF Restart
<1>7. PICK m \in Nat : 0 < m /\ next_batch_id' = m /\ \A x \in AnyUser : Numbered(mutations[x], m)
  BY <1>1, NextIdIsFree DEF Restart
<1>8. PICK q \in Seq(Batch) : q = mutations[u]
  BY <1>1, <1>5
<1>9. PICK n : n = FillWritePipeline(FreshRemote, q)
  OBVIOUS
<1>10. /\ StreamOK(n, q) /\ n \in Remote /\ n.close_count = 0 /\ n.fromServer = <<>>
       /\ n.state # "Open"
  BY <1>1, <1>5, <1>8, <1>9, FreshStream
<1>11. remote' = n
  BY <1>4, <1>8, <1>9 DEF Restart
<1>12. PICK t : t = [close_count |-> 0, counter |-> 0, user |-> NoUser, read |-> FALSE,
                     raced |-> FALSE, ok |-> TRUE]
  OBVIOUS
<1>13. t \in Token /\ t.counter = 0 /\ ~t.read /\ t.close_count = 0
  BY <1>12 DEF Token, AnyUser
<1>14. PICK T : T = tokens'
  OBVIOUS
<1>15. (n.state = "Starting" /\ T = {t}) \/ (n.state # "Starting" /\ T = {})
  BY <1>11, <1>12, <1>14 DEF Restart
<1>16. PICK mq : mq = mainQueue'
  OBVIOUS
<1>17. mq = IF u = cur THEN <<>> ELSE <<Notification(cur)>>
  BY <1>3, <1>4, <1>16
<1>18. /\ mq \in Seq(Block)
       /\ CallbacksCurrent(mq, 0, u) /\ RequestsCurrent(T, mq, 0, u)
       /\ NotLater(T, mq, <<>>, 0) /\ OneToken(T, mq, <<>>, 0)
       /\ T = {} => NoToken(T, mq, <<>>, 0)
  BY <1>13, <1>15, <1>17, FreshMainQueue
<1>19. TokenInv'
  <2>1. TokensOK(T, mq, <<>>, 0, n.state)
    BY <1>15, <1>18 DEF TokensOK
  <2>2. QED
    BY <1>6, <1>10, <1>11, <1>14, <1>16, <2>1 DEF TokenInv
<1>20. contents'.current_user = u /\ contents'.token_counter = 0
  BY <1>4
<1>21. MainInv'
  BY <1>6, <1>14, <1>16, <1>18, <1>20 DEF MainInv
<1>22. PICK ws \in Seq(Write) : ws = CutOff(writes) /\ Kept(writes, ws)
  BY <1>1 DEF Kept
<1>23. PICK vs : vs = Forget(ws)
  OBVIOUS
<1>24. writes' = vs
  <2>1. DOMAIN ws = DOMAIN writes
    BY <1>22 DEF Kept
  <2>2. QED
    BY <1>22, <1>23, <2>1 DEF Restart, Forget
<1>25. Forgotten(ws, vs)
  BY <1>23, ForgetIs
<1>26. /\ vs \in Seq(Write) /\ DOMAIN vs = DOMAIN writes /\ Len(vs) = Len(writes)
       /\ \A i \in DOMAIN writes :
            /\ vs[i].author = writes[i].author /\ vs[i].as = writes[i].as
            /\ vs[i].raced = writes[i].raced
  BY <1>22, <1>25 DEF Forgotten, ToldOnly, Kept
<1>27. Silenced(writes, vs)
  <2>1. \A i \in DOMAIN writes :
          /\ vs[i].author = writes[i].author /\ vs[i].told # "waiting"
          /\ writes[i].told \in {"waiting", "lost"} => vs[i].told = "lost"
    BY <1>22, <1>25 DEF Forgotten, ToldOnly, Kept
  <2>2. QED
    BY <1>26, <2>1 DEF Silenced
<1>28. LocalInv'
  <2>1. LocalOK(mutations, m, {}, <<>>, vs)
    BY <1>1, <1>7, <1>27, NobodyWaits
  <2>2. QED
    BY <1>6, <1>7, <1>24, <2>1 DEF LocalInv
<1>29. StreamInv'
  BY <1>4, <1>6, <1>8, <1>10, <1>11 DEF StreamInv
<1>30. DiskOK(mutations, next_batch_id, ws)
  <2>1. /\ DOMAIN ws = DOMAIN writes
        /\ \A i \in DOMAIN writes : ws[i].author = writes[i].author /\ ws[i].told = writes[i].told
    BY <1>22 DEF Kept
  <2>2. QED
    BY <1>1, <2>1 DEF DiskOK, Unanswered
<1>31. AnswersInv'
  <2>1. AnswersOK(<<>>, mutations, vs)
    BY <1>1, <1>22, <1>25, <1>30, AnswersForgotten
  <2>2. QED
    BY <1>6, <1>10, <1>11, <1>24, <2>1 DEF AnswersInv
<1>32. TypeOK'
  <2>1. contents' \in [current_user : AnyUser, token_counter : Nat]
    BY <1>4, <1>5
  <2>2. tokens' \subseteq Token
    BY <1>13, <1>14, <1>15
  <2>3. disruptions' \in 0..MaxDisruptions
    BY <1>1, DisruptIs DEF Restart
  <2>4. writes' \in Seq(Write) /\ Len(writes') <= MaxWrites
    BY <1>2, <1>24, <1>26
  <2>5. mutations' \in [AnyUser -> Seq(Batch)] /\ mainQueue' \in Seq(Block)
    BY <1>1, <1>6, <1>16, <1>18
  <2>6. /\ currentUser' \in AnyUser /\ unposted' \subseteq Users /\ current_user' \in AnyUser
        /\ worker_queue' \in Seq(Operation) /\ next_batch_id' \in Nat \ {0} /\ remote' \in Remote
        /\ callbacks' \subseteq [user : AnyUser, id : Nat \ {0}, w : 1..MaxWrites]
    <3>1. currentUser' \in AnyUser /\ current_user' \in AnyUser
      BY <1>1, <1>4, <1>5, <1>6
    <3>2. unposted' \subseteq Users
      BY <1>6
    <3>3. worker_queue' \in Seq(Operation)
      BY <1>6
    <3>4. next_batch_id' \in Nat \ {0}
      BY <1>6, <1>7
    <3>5. remote' \in Remote
      BY <1>10, <1>11
    <3>6. callbacks' \subseteq [user : AnyUser, id : Nat \ {0}, w : 1..MaxWrites]
      BY <1>6
    <3>7. QED
      BY <3>1, <3>2, <3>3, <3>4, <3>5, <3>6
  <2>7. QED
    BY <2>1, <2>2, <2>3, <2>4, <2>5, <2>6 DEF TypeOK
<1>33. WorkerInv'
  <2>1. UsersAlong(<<>>, u, u, vs)
    BY <1>5, NothingAlong
  <2>2. QED
    BY <1>4, <1>6, <1>20, <1>24, <2>1 DEF WorkerInv
<1>34. UserInv'
  <2>1. Authors(vs)
    BY <1>26 DEF Inv, UserInv, Authors
  <2>2. QED
    BY <1>10, <1>11, <1>21, <1>24, <1>33, <2>1 DEF UserInv
<1>35. QED
  BY <1>19, <1>28, <1>29, <1>31, <1>32, <1>34 DEF Inv

-----------------------------------------------------------------------------
(***************************************************************************)
(* The invariant.                                                          *)
(***************************************************************************)

\* It holds at the start.
LEMMA InitOK == Init => Inv
<1>1. SUFFICES ASSUME Init PROVE Inv
  OBVIOUS
<1>2. /\ currentUser \in AnyUser /\ unposted = {} /\ mainQueue = <<>>
      /\ contents = [current_user |-> currentUser, token_counter |-> 0]
      /\ worker_queue = <<>> /\ current_user = currentUser
      /\ mutations = [u \in AnyUser |-> <<>>] /\ next_batch_id = 1 /\ callbacks = {}
      /\ remote = FreshRemote /\ tokens = {} /\ writes = <<>> /\ disruptions = 0
  BY <1>1 DEF Init
<1>3. \A u \in AnyUser : mutations[u] = <<>>
  BY <1>2
<1>4. mutations \in [AnyUser -> Seq(Batch)]
  <2>1. <<>> \in Seq(Batch)
    OBVIOUS
  <2>2. QED
    BY <1>2, <2>1
<1>5. Down(FreshRemote, "Initial", 0, <<>>) /\ StreamOK(FreshRemote, <<>>)
  <2>1. <<>> \in Seq(Batch) /\ Ordered(<<>>) /\ Numbered(<<>>, 1)
    BY DEF Ordered, Numbered
  <2>2. QED
    BY <2>1, FreshStream
<1>6. /\ remote \in Remote /\ remote.state = "Initial" /\ remote.close_count = 0
      /\ remote.fromServer = <<>>
  BY <1>2, <1>5 DEF Down
<1>7. TypeOK
  <2>1. Len(writes) <= MaxWrites /\ disruptions \in 0..MaxDisruptions
    BY <1>2, BoundsAssumption
  <2>2. mainQueue \in Seq(Block) /\ worker_queue \in Seq(Operation) /\ writes \in Seq(Write)
    BY <1>2
  <2>3. contents \in [current_user : AnyUser, token_counter : Nat]
    BY <1>2
  <2>4. QED
    BY <1>2, <1>4, <1>6, <2>1, <2>2, <2>3 DEF TypeOK
<1>8. LocalInv
  <2>1. DiskOK(mutations, 1, writes)
    BY <1>3 DEF DiskOK, Ordered, Numbered, Unanswered
  <2>2. Queued(worker_queue, writes, mutations) /\ Waiting(callbacks, mutations, writes)
    BY <1>2, <1>3 DEF Queued, Waiting
  <2>3. QED
    BY <1>2, <2>1, <2>2 DEF LocalInv, LocalOK
<1>9. StreamInv
  BY <1>2, <1>3, <1>5 DEF StreamInv
<1>10. AnswersInv
  BY <1>2, <1>3, <1>6 DEF AnswersInv, AnswersOK, AnswersTrue, Lost, Failures
<1>11. TokenInv
  BY <1>2 DEF TokenInv, TokensOK, NotLater, OneToken, NoToken
<1>12. MainInv
  BY <1>2 DEF MainInv, CallbacksCurrent, RequestsCurrent
<1>13. WorkerInv
  <2>1. UsersAlong(<<>>, currentUser, currentUser, writes)
    BY <1>2, NothingAlong
  <2>2. QED
    BY <1>2, <2>1 DEF WorkerInv
<1>14. UserInv
  BY <1>2, <1>6, <1>12, <1>13 DEF UserInv, Authors
<1>15. QED
  BY <1>7, <1>8, <1>9, <1>10, <1>11, <1>14 DEF Inv

\* Every step keeps it.
LEMMA NextKeeps == Inv /\ [Next]_vars => Inv'
<1>1. SUFFICES ASSUME Inv, [Next]_vars PROVE Inv'
  OBVIOUS
<1>2. CASE UNCHANGED vars
  <2>1. /\ currentUser' = currentUser /\ unposted' = unposted /\ mainQueue' = mainQueue
        /\ contents' = contents /\ worker_queue' = worker_queue /\ current_user' = current_user
        /\ mutations' = mutations /\ next_batch_id' = next_batch_id /\ callbacks' = callbacks
        /\ remote' = remote /\ tokens' = tokens /\ writes' = writes /\ disruptions' = disruptions
    BY <1>2 DEF vars, auth, local
  <2>2. TypeOK' /\ LocalInv' /\ StreamInv' /\ AnswersInv' /\ TokenInv'
    BY <1>1, <2>1 DEF Inv, TypeOK, LocalInv, StreamInv, AnswersInv, TokenInv
  <2>3. UserInv'
    BY <1>1, <2>1 DEF Inv, UserInv, MainInv, WorkerInv
  <2>4. QED
    BY <2>2, <2>3 DEF Inv
<1>3. CASE Next
  <2>1. CASE \E u \in Users : SignIn(u)
    BY <1>1, <2>1, SignInKeeps
  <2>2. CASE \E u \in AnyUser : ChangeOnWorkQueue(u)
    BY <1>1, <2>2, ChangeKeeps
  <2>3. CASE \E t \in tokens : ReadUser(t)
    <3>1. PICK t \in tokens : ReadUser(t)
      BY <2>3
    <3>2. QED
      BY <1>1, <3>1, ReadUserKeeps
  <2>4. CASE \E t \in tokens : FetchToken(t)
    <3>1. PICK t \in tokens : FetchToken(t)
      BY <2>4
    <3>2. QED
      BY <1>1, <3>1, FetchTokenKeeps
  <2>5. CASE (\E u \in unposted : PostSignIn(u)) \/ RunNotification \/ RunTokenCallback \/ AppWrites
    BY <1>1, <2>5, PostSignInKeeps, RunNotificationKeeps, RunTokenCallbackKeeps, AppWritesKeeps
  <2>6. CASE RunWrite \/ RunCredentialChange \/ RunToken
    BY <1>1, <2>6, RunWriteKeeps, RunCredentialChangeKeeps, RunTokenKeeps
  <2>7. CASE HandshakeComplete \/ MutationResult \/ WriteRefused \/ RefusalOvertakes
             \/ AnswerUnreadable
    BY <1>1, <2>7, HandshakeCompleteKeeps, MutationResultKeeps, WriteRefusedKeeps,
       RefusalOvertakesKeeps, AnswerUnreadableKeeps
  <2>8. CASE StreamBreaks \/ ConnectivityChanged \/ BackoffElapsed \/ IdleTimeout
    BY <1>1, <2>8, StreamBreaksKeeps, ConnectivityKeeps, BackoffElapsedKeeps, IdleTimeoutKeeps
  <2>9. CASE ServerHandshake \/ ServerStores \/ ServerRefuses \/ Restart
    BY <1>1, <2>9, ServerHandshakeKeeps, ServerStoresKeeps, ServerRefusesKeeps, RestartKeeps
  <2>10. QED
    BY <1>3, <2>1, <2>2, <2>3, <2>4, <2>5, <2>6, <2>7, <2>8, <2>9 DEF Next
<1>4. QED
  BY <1>1, <1>2, <1>3

\* It is an invariant.
LEMMA Invariance == Spec => []Inv
BY InitOK, NextKeeps, PTL DEF Spec

-----------------------------------------------------------------------------
(***************************************************************************)
(* What follows from it.                                                   *)
(***************************************************************************)

\* A front in the sense of FrontOf is a prefix.
LEMMA FrontIsPrefix ==
  ASSUME NEW p \in Seq(Batch), NEW q \in Seq(Batch), FrontOf(p, q)
  PROVE  IsPrefix(p, q)
<1>1. Len(p) \in Nat /\ Len(q) \in Nat /\ Len(p) <= Len(q) /\ \A i \in DOMAIN p : p[i] = q[i]
  BY DEF FrontOf
<1>2. SubSeq(q, 1, Len(p)) \in Seq(Batch) /\ Len(SubSeq(q, 1, Len(p))) = Len(p)
  BY <1>1
<1>3. \A i \in 1..Len(p) : SubSeq(q, 1, Len(p))[i] = p[i]
  BY <1>1
<1>4. SubSeq(q, 1, Len(p)) = p
  BY <1>2, <1>3, SequencesEqual
<1>5. QED
  BY <1>1, <1>4 DEF IsPrefix

\* The pipeline is the front of the open queue, and not longer than allowed.
LEMMA PipelineFollows == Inv => PipelineIsQueueFront
<1>1. SUFFICES ASSUME Inv PROVE PipelineIsQueueFront
  OBVIOUS
<1>2. /\ StreamOK(remote, mutations[current_user]) /\ remote \in Remote
      /\ current_user \in AnyUser /\ mutations \in [AnyUser -> Seq(Batch)]
  BY <1>1, QueuesAsTheyAre
<1>3. PICK p \in Seq(Batch), q \in Seq(Batch) :
        p = remote.write_pipeline /\ q = mutations[current_user]
  BY <1>2, RemoteFields
<1>4. FrontOf(p, q) /\ Len(p) <= kMaxPendingWrites
  BY <1>2, <1>3 DEF StreamOK
<1>5. IsPrefix(p, q)
  BY <1>4, FrontIsPrefix
<1>6. QED
  BY <1>3, <1>4, <1>5 DEF PipelineIsQueueFront

\* The messages of a stream that carries its pipeline are about the pipeline.
LEMMA WireFollows ==
  ASSUME NEW pl \in Seq(Batch), NEW to \in Seq(Message), NEW from \in Seq(Message),
         Carried(pl, to, from)
  PROVE  [i \in 1..(Len(from) + Len(to)) |-> (from \o to)[i].w] = [i \in DOMAIN pl |-> pl[i].w]
<1>1. PICK l \in Nat, k \in Nat : l = Len(from) /\ k = Len(to)
  BY LenProperties
<1>2. Len(pl) = Len(from) + Len(to)
  BY DEF Carried
<1>3. DOMAIN pl = 1..(l + k)
  BY <1>1, <1>2
<1>4. ASSUME NEW i \in 1..(l + k) PROVE (from \o to)[i].w = pl[i].w
  <2>1. CASE i \in 1..l
    <3>1. i \in DOMAIN from /\ (from \o to)[i] = from[i]
      BY <1>1, <2>1
    <3>2. QED
      BY <3>1 DEF Carried
  <2>2. CASE i \notin 1..l
    <3>1. PICK j \in 1..k : i = l + j
      <4>1. i - l \in 1..k /\ i = l + (i - l)
        BY <2>2
      <4>2. QED
        BY <4>1
    <3>2. j \in DOMAIN to /\ (from \o to)[l + j] = to[j]
      BY <1>1, <3>1, SequencesAreJoined
    <3>3. to[j].w = pl[l + j].w
      BY <1>1, <3>2 DEF Carried
    <3>4. QED
      BY <3>1, <3>2, <3>3
  <2>3. QED
    BY <2>1, <2>2
<1>5. QED
  BY <1>1, <1>3, <1>4

\* On an established stream they are the pipeline, and before that the handshake at most.
LEMMA MatchFollows == Inv => AnswersMatchPipeline
<1>1. SUFFICES ASSUME Inv PROVE AnswersMatchPipeline
  OBVIOUS
<1>2. StreamOK(remote, mutations[current_user]) /\ remote \in Remote
  BY <1>1, QueuesAsTheyAre
<1>3. PICK pl \in Seq(Batch), to \in Seq(Message), from \in Seq(Message) :
        pl = remote.write_pipeline /\ to = remote.toServer /\ from = remote.fromServer
  BY <1>2, RemoteFields
<1>4. CASE remote.state = "Open" /\ remote.handshake_complete
  <2>1. Carried(pl, to, from)
    BY <1>2, <1>3, <1>4 DEF StreamOK, Established, Carries
  <2>2. [i \in 1..(Len(from) + Len(to)) |-> (from \o to)[i].w] = [i \in DOMAIN pl |-> pl[i].w]
    BY <2>1, WireFollows
  <2>3. QED
    BY <1>3, <1>4, <2>2 DEF AnswersMatchPipeline, OnTheWire, IsOpen
<1>5. CASE ~(remote.state = "Open" /\ remote.handshake_complete)
  <2>1. \/ to = <<>> /\ from = <<>>
        \/ to = <<Handshake>> /\ from = <<>>
        \/ to = <<>> /\ from = <<Handshake>>
    BY <1>2, <1>3, <1>5 DEF StreamOK, NothingSent, Greeting
  <2>2. CASE to = <<>> /\ from = <<>>
    <3>1. Len(from) + Len(to) = 0
      BY <2>2
    <3>2. [i \in 1..(Len(from) + Len(to)) |-> (from \o to)[i].w] = <<>>
      BY <3>1
    <3>3. QED
      BY <1>3, <1>5, <3>2 DEF AnswersMatchPipeline, OnTheWire, IsOpen
  <2>3. CASE (to = <<Handshake>> /\ from = <<>>) \/ (to = <<>> /\ from = <<Handshake>>)
    <3>1. PICK h \in Message : h = Handshake /\ h.w = 0
      <4>1. 0 \in 0..MaxWrites
        BY BoundsAssumption
      <4>2. Handshake.w = 0 /\ Handshake \in Message
        BY <4>1 DEF Handshake, Message
      <4>3. QED
        BY <4>2
    <3>2. Len(from) + Len(to) = 1 /\ (from \o to)[1] = h
      <4>1. CASE to = <<h>> /\ from = <<>>
        BY <4>1
      <4>2. CASE to = <<>> /\ from = <<h>>
        BY <4>2
      <4>3. QED
        BY <2>3, <3>1, <4>1, <4>2
    <3>3. [i \in 1..(Len(from) + Len(to)) |-> (from \o to)[i].w] = <<0>>
      BY <3>1, <3>2
    <3>4. QED
      BY <1>3, <1>5, <3>3 DEF AnswersMatchPipeline, OnTheWire, IsOpen
  <2>4. QED
    BY <2>1, <2>2, <2>3
<1>6. QED
  BY <1>4, <1>5

\* The assertions of the code hold.
LEMMA AssertionsFollow == Inv => AssertionsHold
<1>1. SUFFICES ASSUME Inv PROVE AssertionsHold
  OBVIOUS
<1>2. /\ StreamOK(remote, mutations[current_user]) /\ remote \in Remote
      /\ worker_queue \in Seq(Operation) /\ remote.fromServer \in Seq(Message)
      /\ TokensOK(tokens, mainQueue, worker_queue, remote.close_count, remote.state)
  BY <1>1, QueuesAsTheyAre
<1>3. ASSUME NextOperation("token"), Head(worker_queue).token.close_count = remote.close_count
      PROVE  remote.state = "Starting"
  <2>1. worker_queue # <<>> /\ Head(worker_queue).kind = "token"
    BY <1>3 DEF NextOperation
  <2>2. Free(tokens, mainQueue, Tail(worker_queue), remote.close_count, remote.state,
             Head(worker_queue).token.close_count)
    BY <1>2, <2>1, OperationTaken
  <2>3. QED
    BY <1>3, <2>2 DEF Free
<1>4. ASSUME NextAnswer("write") \/ NextAnswer("refusal")
      PROVE  /\ remote.write_pipeline # <<>>
             /\ Head(remote.write_pipeline) \in Range(mutations[current_user])
  <2>1. /\ remote.state = "Open" /\ 1 \in DOMAIN remote.fromServer
        /\ remote.fromServer[1].kind # "handshake"
    BY <1>2, <1>4 DEF NextAnswer, IsOpen
  <2>2. remote.write_pipeline # <<>>
    BY <1>2, <2>1, AnswerIsForFront
  <2>3. PICK q : q = mutations[current_user]
    OBVIOUS
  <2>4. 1 \in DOMAIN q /\ Head(remote.write_pipeline) = q[1]
    BY <1>1, <2>2, <2>3, PipelineFront
  <2>5. QED
    BY <2>2, <2>3, <2>4 DEF Range
<1>5. remote.idle => remote.write_pipeline = <<>> /\ IsOpen(remote)
  BY <1>2 DEF StreamOK, Established, IsOpen
<1>6. QED
  BY <1>3, <1>4, <1>5 DEF AssertionsHold

\* A callback waits for the batch it was made for.
LEMMA CallbackFollows == Inv => CallbackIsForItsBatch
<1>1. SUFFICES ASSUME Inv, NEW c \in callbacks
               PROVE  /\ [id |-> c.id, w |-> c.w] \in Range(mutations[c.user])
                      /\ writes[c.w].told = "waiting"
  BY DEF CallbackIsForItsBatch
<1>2. /\ callbacks \subseteq [user : AnyUser, id : Nat \ {0}, w : 1..MaxWrites]
      /\ mutations \in [AnyUser -> Seq(Batch)]
      /\ LocalOK(mutations, next_batch_id, callbacks, worker_queue, writes)
  BY <1>1, QueuesAsTheyAre
<1>3. PICK i \in DOMAIN mutations[c.user] :
        c = CallbackOf(c.user, mutations[c.user][i]) /\ writes[c.w].told = "waiting"
  BY <1>1, <1>2 DEF LocalOK, Waiting
<1>4. PICK b \in Batch : b = mutations[c.user][i]
  BY <1>1, <1>2
<1>5. c.id = b.id /\ c.w = b.w
  BY <1>3, <1>4 DEF CallbackOf
<1>6. b = [id |-> b.id, w |-> b.w]
  BY DEF Batch
<1>7. QED
  BY <1>3, <1>4, <1>5, <1>6 DEF Range

-----------------------------------------------------------------------------
(***************************************************************************)
(* TypeOK: every variable of Auth, of the queues and of the stores keeps   *)
(* its type in every operation.                                            *)
(***************************************************************************)
THEOREM PipelineTypeCorrect == Spec => []TypeOK
<1>1. Inv => TypeOK
  BY DEF Inv
<1>2. QED
  BY <1>1, Invariance, PTL

(***************************************************************************)
(* PipelineIsQueueFront: FillWritePipeline, restarts of the network, user  *)
(* changes and answers leave in the pipeline the front of the open         *)
(* mutation queue, at most kMaxPendingWrites of it.                        *)
(***************************************************************************)
THEOREM PipelineFrontOfQueue == Spec => []PipelineIsQueueFront
BY Invariance, PipelineFollows, PTL

(***************************************************************************)
(* AnswersMatchPipeline: the answer OnWriteStreamMutationResult reads is   *)
(* always that of the write at the front of the pipeline.                  *)
(***************************************************************************)
THEOREM AnswersMatch == Spec => []AnswersMatchPipeline
BY Invariance, MatchFollows, PTL

(***************************************************************************)
(* AssertionsHold: the assertions of stream.cc, remote_store.cc and        *)
(* local_store.cc hold whenever they are reached.                          *)
(***************************************************************************)
THEOREM Assertions == Spec => []AssertionsHold
BY Invariance, AssertionsFollow, PTL

(***************************************************************************)
(* CallbackIsForItsBatch: NotifyUser calls the callback of the write that  *)
(* was answered, although batch ids are used again.                        *)
(***************************************************************************)
THEOREM CallbackBatch == Spec => []CallbackIsForItsBatch
BY Invariance, CallbackFollows, PTL

(***************************************************************************)
(* FailureHasCause: HandleWriteError tells the caller of a write that it   *)
(* failed only when the server has refused it, or a later one, or when an  *)
(* answer of the server could not be read.                                 *)
(***************************************************************************)
THEOREM FailureCause == Spec => []FailureHasCause
<1>1. Inv => FailureHasCause
  BY DEF Inv, AnswersInv, AnswersOK, Failures, FailureHasCause
<1>2. QED
  BY <1>1, Invariance, PTL

(***************************************************************************)
(* WritesGoOutAsTheirAuthor: HandleCredentialChange, the token counter and *)
(* the close count let no write out under the token of another user but    *)
(* one that was read while Auth had another user than it had last posted.  *)
(***************************************************************************)
THEOREM WriteAuthor == Spec => []WritesGoOutAsTheirAuthor
<1>1. Inv => WritesGoOutAsTheirAuthor
  BY DEF Inv, UserInv, Authors, WritesGoOutAsTheirAuthor
<1>2. QED
  BY <1>1, Invariance, PTL

-----------------------------------------------------------------------------
(***************************************************************************)
(* The refinement: what module WriteQueue sees of the disk and the writes. *)
(***************************************************************************)
Numbers == 1..MaxWrites

QueueOf(q) == [i \in DOMAIN q |-> q[i].w]

QueuesOf(ms) == [u \in AnyUser |-> QueueOf(ms[u])]

StoredOf(ws) == {i \in DOMAIN ws : ws[i].stored}

ToldOf(ws) == [w \in 1..MaxWrites |-> IF w \in DOMAIN ws /\ ws[w].told # "gone" THEN ws[w].told
                                                                                 ELSE "nothing"]

\* The writes of a queue are a sequence of numbers.
LEMMA QueueOfIs ==
  ASSUME NEW q \in Seq(Batch)
  PROVE  /\ QueueOf(q) \in Seq(Numbers) /\ Len(QueueOf(q)) = Len(q)
         /\ DOMAIN QueueOf(q) = DOMAIN q /\ \A i \in DOMAIN q : QueueOf(q)[i] = q[i].w
<1>1. PICK s : s = QueueOf(q)
  OBVIOUS
<1>2. s = [i \in DOMAIN q |-> s[i]] /\ \A i \in DOMAIN q : s[i] = q[i].w
  BY <1>1 DEF QueueOf
<1>3. \A i \in DOMAIN q : q[i] \in Batch
  BY LenProperties, ElementOfSeq
<1>4. \A i \in DOMAIN q : s[i] \in Numbers
  BY <1>2, <1>3 DEF Batch, Numbers
<1>5. s \in Seq(Numbers) /\ Len(s) = Len(q) /\ DOMAIN s = DOMAIN q
  BY <1>2, <1>4, EveryElementChanges
<1>6. QED
  BY <1>1, <1>2, <1>5

\* A batch that is put on disk puts its write into the queue.
LEMMA QueueGrows ==
  ASSUME NEW ms \in [AnyUser -> Seq(Batch)], NEW u \in AnyUser, NEW b \in Batch
  PROVE  QueuesOf(WithMore(ms, u, b)) = [QueuesOf(ms) EXCEPT ![u] = Append(@, b.w)]
<1>1. PICK q \in Seq(Batch) : q = ms[u]
  OBVIOUS
<1>2. b.w \in Numbers
  BY DEF Batch, Numbers
<1>3. PICK p \in Seq(Batch) : p = Append(q, b)
  BY OneElementIsAdded
<1>4. PICK l \in Nat : /\ l = Len(q) /\ DOMAIN q = 1..l /\ Len(p) = l + 1 /\ DOMAIN p = 1..(l + 1)
                       /\ \A i \in DOMAIN q : p[i] = q[i]
                       /\ p[l + 1] = b
  BY <1>3, OneElementIsAdded
<1>5. PICK s \in Seq(Numbers) : s = QueueOf(q) /\ Len(s) = l /\ \A i \in DOMAIN q : s[i] = q[i].w
  BY <1>4, QueueOfIs
<1>6. PICK t \in Seq(Numbers) :
        t = QueueOf(p) /\ Len(t) = l + 1 /\ DOMAIN t = DOMAIN p /\ \A i \in DOMAIN p : t[i] = p[i].w
  BY <1>4, QueueOfIs
<1>7. PICK a \in Seq(Numbers) :
        /\ a = Append(s, b.w) /\ Len(a) = l + 1
        /\ \A i \in DOMAIN s : a[i] = s[i]
        /\ a[l + 1] = b.w
  <2>1. PICK v \in Numbers : v = b.w
    BY <1>2
  <2>2. /\ Append(s, v) \in Seq(Numbers) /\ Len(Append(s, v)) = l + 1
        /\ \A i \in DOMAIN s : Append(s, v)[i] = s[i]
        /\ Append(s, v)[l + 1] = v
    BY <1>5, OneElementIsAdded
  <2>3. QED
    BY <2>1, <2>2
<1>8. ASSUME NEW i \in DOMAIN t PROVE t[i] = a[i]
  <2>1. i \in 1..(l + 1) /\ t[i] = p[i].w
    BY <1>4, <1>6
  <2>2. CASE i = l + 1
    BY <1>4, <1>7, <2>1, <2>2
  <2>3. CASE i \in 1..l
    <3>1. DOMAIN s = 1..l
      BY <1>5, LenProperties
    <3>2. QED
      BY <1>4, <1>5, <1>7, <2>1, <2>3, <3>1
  <2>4. QED
    BY <2>1, <2>2, <2>3
<1>9. t = a
  <2>1. Len(t) = Len(a) /\ \A i \in DOMAIN t : t[i] = a[i]
    BY <1>6, <1>7, <1>8
  <2>2. QED
    BY <2>1, SequencesEqual
<1>10. PICK m2 : m2 = WithMore(ms, u, b)
  OBVIOUS
<1>11. m2[u] = p /\ \A x \in AnyUser : x # u => m2[x] = ms[x]
  BY <1>1, <1>3, <1>10 DEF WithMore
<1>12. QueuesOf(ms)[u] = s
  BY <1>1, <1>5 DEF QueuesOf
<1>13. ASSUME NEW x \in AnyUser
       PROVE  QueueOf(m2[x]) = IF x = u THEN a ELSE QueueOf(ms[x])
  BY <1>6, <1>9, <1>11
<1>14. QueuesOf(m2) = [x \in AnyUser |-> IF x = u THEN a ELSE QueueOf(ms[x])]
  BY <1>13 DEF QueuesOf
<1>15. [QueuesOf(ms) EXCEPT ![u] = a] = [x \in AnyUser |-> IF x = u THEN a ELSE QueueOf(ms[x])]
  BY DEF QueuesOf
<1>16. QED
  BY <1>7, <1>10, <1>12, <1>14, <1>15

\* A batch that leaves the front of the disk takes its write from the front of the queue.
LEMMA QueueShrinks ==
  ASSUME NEW ms \in [AnyUser -> Seq(Batch)], NEW u \in AnyUser, ms[u] # <<>>
  PROVE  /\ QueuesOf(WithoutFront(ms, u)) = [QueuesOf(ms) EXCEPT ![u] = Tail(@)]
         /\ QueuesOf(ms)[u] # <<>> /\ Head(QueuesOf(ms)[u]) = ms[u][1].w
         /\ ms[u][1].w \in 1..MaxWrites
<1>1. PICK q \in Seq(Batch) : q = ms[u] /\ q # <<>>
  OBVIOUS
<1>2. PICK l \in Nat : l = Len(q) /\ l > 0 /\ DOMAIN q = 1..l /\ 1 \in DOMAIN q /\ q[1] \in Batch
  BY <1>1, FrontIsTaken
<1>3. PICK p \in Seq(Batch) :
        p = Tail(q) /\ Len(p) = l - 1 /\ DOMAIN p = 1..(l - 1) /\ \A i \in DOMAIN p : p[i] = q[i + 1]
  <2>1. /\ Tail(q) \in Seq(Batch) /\ Len(Tail(q)) = l - 1 /\ DOMAIN Tail(q) = 1..(l - 1)
        /\ \A i \in DOMAIN Tail(q) : Tail(q)[i] = q[i + 1]
    BY <1>1, <1>2, FrontIsTaken
  <2>2. QED
    BY <2>1
<1>4. PICK s \in Seq(Numbers) : s = QueueOf(q) /\ Len(s) = l /\ \A i \in DOMAIN q : s[i] = q[i].w
  BY <1>2, QueueOfIs
<1>5. PICK t \in Seq(Numbers) :
        t = QueueOf(p) /\ Len(t) = l - 1 /\ DOMAIN t = DOMAIN p /\ \A i \in DOMAIN p : t[i] = p[i].w
  BY <1>3, QueueOfIs
<1>6. s # <<>> /\ Head(s) = q[1].w
  <2>1. s[1] = q[1].w
    BY <1>2, <1>4
  <2>2. Len(s) > 0
    BY <1>2, <1>4
  <2>3. s # <<>>
    BY <2>2
  <2>4. QED
    BY <2>1, <2>3, FrontIsTaken
<1>7. PICK a \in Seq(Numbers) :
        a = Tail(s) /\ Len(a) = l - 1 /\ DOMAIN a = 1..(l - 1) /\ \A i \in DOMAIN a : a[i] = s[i + 1]
  <2>1. /\ Tail(s) \in Seq(Numbers) /\ Len(Tail(s)) = l - 1 /\ DOMAIN Tail(s) = 1..(l - 1)
        /\ \A i \in DOMAIN Tail(s) : Tail(s)[i] = s[i + 1]
    BY <1>4, <1>6, FrontIsTaken
  <2>2. QED
    BY <2>1
<1>8. ASSUME NEW i \in DOMAIN t PROVE t[i] = a[i]
  <2>1. i \in 1..(l - 1) /\ t[i] = q[i + 1].w
    BY <1>3, <1>5
  <2>2. i + 1 \in DOMAIN q
    BY <1>2, <2>1
  <2>3. QED
    BY <1>4, <1>7, <2>1, <2>2
<1>9. t = a
  BY <1>5, <1>7, <1>8, SequencesEqual
<1>10. PICK m2 : m2 = WithoutFront(ms, u)
  OBVIOUS
<1>11. m2[u] = p /\ \A x \in AnyUser : x # u => m2[x] = ms[x]
  BY <1>1, <1>3, <1>10 DEF WithoutFront
<1>12. QueuesOf(ms)[u] = s
  BY <1>1, <1>4 DEF QueuesOf
<1>13. ASSUME NEW x \in AnyUser
       PROVE  QueueOf(m2[x]) = IF x = u THEN a ELSE QueueOf(ms[x])
  BY <1>5, <1>9, <1>11
<1>14. QueuesOf(m2) = [x \in AnyUser |-> IF x = u THEN a ELSE QueueOf(ms[x])]
  BY <1>13 DEF QueuesOf
<1>15. [QueuesOf(ms) EXCEPT ![u] = a] = [x \in AnyUser |-> IF x = u THEN a ELSE QueueOf(ms[x])]
  BY DEF QueuesOf
<1>16. q[1].w \in 1..MaxWrites
  BY <1>2 DEF Batch
<1>17. QED
  BY <1>1, <1>6, <1>7, <1>10, <1>12, <1>14, <1>15, <1>16

\* What the queue sees of the writes is the same.
SeenTheSame(ws, vs) == StoredOf(vs) = StoredOf(ws) /\ ToldOf(vs) = ToldOf(ws)

\* A lost answer cannot be seen.
LEMMA KeptUnseen ==
  ASSUME NEW ws, NEW vs, Kept(ws, vs)
  PROVE  SeenTheSame(ws, vs)
<1>1. DOMAIN vs = DOMAIN ws /\ \A i \in DOMAIN ws : vs[i].stored = ws[i].stored /\ vs[i].told = ws[i].told
  BY DEF Kept
<1>2. QED
  BY <1>1 DEF SeenTheSame, StoredOf, ToldOf

\* A write the app has made is not seen before it is on disk.
LEMMA NewWriteUnseen ==
  ASSUME NEW ws \in Seq(Write), NEW e \in Write, e.told = "nothing", ~e.stored
  PROVE  SeenTheSame(ws, Append(ws, e))
<1>1. PICK vs \in Seq(Write), l \in Nat :
        /\ vs = Append(ws, e) /\ DOMAIN ws = 1..l /\ DOMAIN vs = 1..(l + 1)
        /\ \A i \in DOMAIN ws : vs[i] = ws[i]
        /\ vs[l + 1] = e
  <2>1. PICK vs : vs = Append(ws, e)
    OBVIOUS
  <2>2. PICK l \in Nat : l = Len(ws)
    BY LenProperties
  <2>3. /\ vs \in Seq(Write) /\ DOMAIN ws = 1..l /\ DOMAIN vs = 1..(l + 1)
        /\ \A i \in DOMAIN ws : vs[i] = ws[i]
        /\ vs[l + 1] = e
    BY <2>1, <2>2, OneElementIsAdded
  <2>4. QED
    BY <2>1, <2>3
<1>2. \A i \in DOMAIN vs : (i \in DOMAIN ws /\ vs[i] = ws[i]) \/ (i \notin DOMAIN ws /\ vs[i] = e)
  BY <1>1
<1>3. DOMAIN ws \subseteq DOMAIN vs
  BY <1>1
<1>4. StoredOf(vs) = StoredOf(ws)
  BY <1>2, <1>3 DEF StoredOf
<1>5. ToldOf(vs) = ToldOf(ws)
  BY <1>2, <1>3 DEF ToldOf
<1>6. QED
  BY <1>1, <1>4, <1>5 DEF SeenTheSame

\* The caller of w is told a verdict.
LEMMA VerdictSeen ==
  ASSUME NEW ws, NEW vs, ToldOnly(ws, vs), NEW w \in 1..MaxWrites, w \in DOMAIN ws,
         NEW verdict, verdict # "gone", ws[w].told # "gone",
         \A i \in DOMAIN ws : vs[i].told = IF i = w THEN verdict ELSE ws[i].told
  PROVE  StoredOf(vs) = StoredOf(ws) /\ ToldOf(vs) = [ToldOf(ws) EXCEPT ![w] = verdict]
<1>1. DOMAIN vs = DOMAIN ws /\ \A i \in DOMAIN ws : vs[i].stored = ws[i].stored
  BY DEF ToldOnly
<1>2. StoredOf(vs) = StoredOf(ws)
  BY <1>1 DEF StoredOf
<1>3. ToldOf(vs) = [ToldOf(ws) EXCEPT ![w] = verdict]
  BY <1>1 DEF ToldOf
<1>4. QED
  BY <1>2, <1>3

\* What the queue sees when the process dies.
LEMMA CrashSeen ==
  ASSUME NEW ws, NEW vs, Forgotten(ws, vs)
  PROVE  /\ StoredOf(vs) = StoredOf(ws)
         /\ ToldOf(vs) = [w \in 1..MaxWrites |-> IF ToldOf(ws)[w] = "waiting" THEN "lost"
                                                                               ELSE ToldOf(ws)[w]]
<1>1. DOMAIN vs = DOMAIN ws /\ \A i \in DOMAIN ws : vs[i].stored = ws[i].stored
  BY DEF Forgotten, ToldOnly
<1>2. \A i \in DOMAIN ws : vs[i].told = IF ws[i].told = "nothing" THEN "gone"
                           ELSE IF ws[i].told = "waiting" THEN "lost" ELSE ws[i].told
  BY DEF Forgotten
<1>3. StoredOf(vs) = StoredOf(ws)
  BY <1>1 DEF StoredOf
<1>4. ASSUME NEW w \in 1..MaxWrites
      PROVE  ToldOf(vs)[w] = IF ToldOf(ws)[w] = "waiting" THEN "lost" ELSE ToldOf(ws)[w]
  BY <1>1, <1>2 DEF ToldOf
<1>5. ToldOf(vs) = [w \in 1..MaxWrites |-> ToldOf(vs)[w]]
  BY DEF ToldOf
<1>6. QED
  BY <1>3, <1>4, <1>5

\* A step that the queue does not see.
LEMMA QueueStutters ==
  ASSUME current_user' = current_user, mutations' = mutations, SeenTheSame(writes, writes')
  PROVE  UNCHANGED Queue!vars
<1>1. ToldOf(writes') = ToldOf(writes) /\ StoredOf(writes') = StoredOf(writes)
  BY DEF SeenTheSame
<1>2. QED
  BY <1>1 DEF Queue!vars, ToldOf, StoredOf

\* The write at the front of the worker queue is put on disk.
LEMMA WriteIsSubmitted ==
  ASSUME Inv, RunWrite
  PROVE  Queue!Next
<1>1. /\ worker_queue \in Seq(Operation) /\ current_user \in AnyUser /\ next_batch_id \in Nat
      /\ 0 < next_batch_id /\ mutations \in [AnyUser -> Seq(Batch)] /\ writes \in Seq(Write)
      /\ callbacks \subseteq [user : AnyUser, id : Nat \ {0}, w : 1..MaxWrites]
      /\ LocalOK(mutations, next_batch_id, callbacks, worker_queue, writes)
      /\ UsersAlong(worker_queue, current_user, contents.current_user, writes)
  BY QueuesAsTheyAre
<1>2. worker_queue # <<>> /\ Head(worker_queue).kind = "write"
  BY DEF RunWrite, NextOperation
<1>3. Head(worker_queue) \in Operation
  BY <1>1, <1>2
<1>4. PICK w \in 1..MaxWrites : w = Head(worker_queue).w
  BY <1>2, <1>3, QueueFields
<1>5. PICK u \in AnyUser : u = current_user
  BY <1>1
<1>6. PICK k \in Nat \ {0} : k = next_batch_id
  BY <1>1
<1>7. writes[w].author = u
  <2>1. OperationOf(Head(worker_queue), current_user, writes)
    BY <1>1, <1>2, LessAlong
  <2>2. QED
    BY <1>2, <1>4, <1>5, <2>1 DEF OperationOf
<1>8. PICK b : b = [id |-> k, w |-> w] /\ b \in Batch /\ b.w = w
  <2>1. [id |-> k, w |-> w] \in Batch /\ [id |-> k, w |-> w].w = w
    BY DEF Batch
  <2>2. QED
    BY <2>1
<1>9. PICK ms : ms = WithMore(mutations, u, b)
  OBVIOUS
<1>10. PICK cs : cs = callbacks \cup {CallbackOf(u, b)}
  OBVIOUS
<1>11. w \in DOMAIN writes
  <2>1. Queued(worker_queue, writes, mutations)
    BY <1>1 DEF LocalOK
  <2>2. 1 \in DOMAIN worker_queue /\ worker_queue[1] = Head(worker_queue)
    BY <1>1, <1>2
  <2>3. QED
    BY <1>2, <1>4, <2>1, <2>2 DEF Queued, IsWrite
<1>12. PICK vs : vs = Tell(writes, {w}, "waiting")
  OBVIOUS
<1>13. writes' = vs
  BY <1>1, <1>4, <1>11, <1>12 DEF RunWrite, Tell
<1>14. Telling(writes, vs, {w}, "waiting")
  <2>1. "waiting" \in Told
    BY DEF Told
  <2>2. QED
    BY <1>1, <1>12, <2>1, TellingIs
<1>15. /\ writes[w].told = "nothing"
       /\ \A x \in AnyUser : \A i \in DOMAIN mutations[x] : mutations[x][i].w # w
  <2>1. WriteRan(mutations, k, callbacks, worker_queue, writes, u, b, ms, cs, vs)
    BY <1>1, <1>2, <1>4, <1>6, <1>7, <1>8, <1>9, <1>10, <1>14 DEF WriteRan
  <2>2. QED
    BY <1>4, <2>1, WriteRuns
<1>16. mutations' = ms /\ current_user' = u
  BY <1>4, <1>5, <1>6, <1>8, <1>9 DEF RunWrite, WithMore
<1>17. QueuesOf(mutations') = [QueuesOf(mutations) EXCEPT ![u] = Append(@, w)]
  <2>1. QueuesOf(ms) = [QueuesOf(mutations) EXCEPT ![u] = Append(@, b.w)]
    <3>1. PICK m0 \in [AnyUser -> Seq(Batch)] : m0 = mutations
      BY <1>1
    <3>2. b \in Batch
      BY <1>8
    <3>3. QueuesOf(WithMore(m0, u, b)) = [QueuesOf(m0) EXCEPT ![u] = Append(@, b.w)]
      BY <3>2, QueueGrows
    <3>4. QED
      BY <1>9, <3>1, <3>3
  <2>2. QED
    BY <1>8, <1>16, <2>1
<1>18. /\ StoredOf(writes') = StoredOf(writes)
       /\ ToldOf(writes') = [ToldOf(writes) EXCEPT ![w] = "waiting"]
  <2>1. /\ ToldOnly(writes, vs)
        /\ \A i \in DOMAIN writes : vs[i].told = IF i = w THEN "waiting" ELSE writes[i].told
    BY <1>14 DEF Telling
  <2>2. StoredOf(vs) = StoredOf(writes) /\ ToldOf(vs) = [ToldOf(writes) EXCEPT ![w] = "waiting"]
    BY <1>11, <1>15, <2>1, VerdictSeen
  <2>3. QED
    BY <1>13, <2>2
<1>19. ToldOf(writes)[w] = "nothing"
  BY <1>11, <1>15 DEF ToldOf
<1>20. \A x \in AnyUser : w \notin Queue!Range(QueuesOf(mutations)[x])
  BY <1>15 DEF Queue!Range, QueuesOf, QueueOf
<1>21. Queue!Submit(w)
  BY <1>5, <1>16, <1>17, <1>18, <1>19, <1>20
  DEF Queue!Submit, QueuesOf, QueueOf, StoredOf, ToldOf
<1>22. QED
  BY <1>21 DEF Queue!Next, Queue!Writes

\* The server takes a write from the disk.
LEMMA WriteIsStored ==
  ASSUME Inv, ServerStores
  PROVE  Queue!Next
<1>1. current_user \in AnyUser /\ mutations \in [AnyUser -> Seq(Batch)] /\ writes \in Seq(Write)
  BY QueuesAsTheyAre
<1>2. PICK a : a = Head(remote.toServer)
  OBVIOUS
<1>3. remote.state = "Open" /\ remote.toServer # <<>> /\ a.kind = "write"
  BY <1>2 DEF ServerStores, ServerReads, IsOpen
<1>4. a.w \in DOMAIN writes
  BY <1>2, <1>3, SentIsOnDisk
<1>5. PICK i \in DOMAIN mutations[current_user] : mutations[current_user][i].w = a.w
  BY <1>2, <1>3, SentIsOnDisk
<1>6. PICK w \in 1..MaxWrites : w = a.w
  <2>1. mutations[current_user] \in Seq(Batch)
    BY <1>1
  <2>2. mutations[current_user][i] \in Batch
    BY <2>1, LenProperties, ElementOfSeq
  <2>3. QED
    BY <1>5, <2>2 DEF Batch
<1>7. current_user' = current_user /\ mutations' = mutations
  BY DEF ServerStores, ServerReads
<1>8. writes' = [writes EXCEPT ![w].stored = TRUE, ![w].as = @ \cup {remote.user},
                               ![w].raced = @ \/ remote.raced]
  BY <1>2, <1>6 DEF ServerStores
<1>9. PICK v \in Write : v = writes[w]
  BY <1>1, <1>4, <1>6, WriteFields
<1>10. /\ DOMAIN writes' = DOMAIN writes
       /\ writes'[w].stored /\ writes'[w].told = writes[w].told
       /\ \A j \in DOMAIN writes : j # w => writes'[j] = writes[j]
  BY <1>1, <1>4, <1>6, <1>8, <1>9 DEF Write
<1>11. ToldOf(writes') = ToldOf(writes)
  BY <1>10 DEF ToldOf
<1>12. StoredOf(writes') = StoredOf(writes) \cup {w}
  BY <1>4, <1>6, <1>10 DEF StoredOf
<1>13. w \in Queue!Range(QueuesOf(mutations)[current_user])
  BY <1>1, <1>5, <1>6 DEF Queue!Range, QueuesOf, QueueOf
<1>14. Queue!Store(w)
  BY <1>1, <1>7, <1>11, <1>12, <1>13
  DEF Queue!Store, QueuesOf, QueueOf, StoredOf, ToldOf
<1>15. QED
  BY <1>14 DEF Queue!Next, Queue!Writes

\* The front of the pipeline is answered.
LEMMA FrontIsAnswered ==
  ASSUME Inv, remote.write_pipeline # <<>>, NEW ws \in Seq(Write), Kept(writes, ws),
         NEW verdict \in {"ok", "failed"}, Answering(ws, verdict), current_user' = current_user,
         verdict = "ok" => writes[mutations[current_user][1].w].stored
  PROVE  Queue!Next
<1>1. /\ current_user \in AnyUser /\ mutations \in [AnyUser -> Seq(Batch)] /\ writes \in Seq(Write)
      /\ DiskOK(mutations, next_batch_id, writes)
  BY QueuesAsTheyAre
<1>2. PICK u \in AnyUser : u = current_user
  BY <1>1
<1>3. mutations[u] # <<>> /\ 1 \in DOMAIN mutations[u]
  <2>1. PICK q : q = mutations[current_user]
    OBVIOUS
  <2>2. q # <<>> /\ 1 \in DOMAIN q
    BY <2>1, PipelineFront
  <2>3. QED
    BY <1>2, <2>1, <2>2
<1>4. PICK f \in 1..MaxWrites : f = mutations[u][1].w
  BY <1>1, <1>3, OnDisk
<1>5. f \in DOMAIN writes /\ writes[f].told \in {"waiting", "lost"}
  BY <1>1, <1>3, <1>4, OnDisk
<1>6. PICK ms, vs : ms = mutations' /\ vs = writes'
  OBVIOUS
<1>7. ms = WithoutFront(mutations, u) /\ AnsweredOnly(ws, vs, f, verdict)
  <2>1. verdict \in Told /\ f = mutations[current_user][1].w
    BY <1>2, <1>4 DEF Told
  <2>2. PICK cs : cs = callbacks'
    OBVIOUS
  <2>3. QED
    BY <1>2, <1>6, <2>1, <2>2, AnsweringIs
<1>8. /\ QueuesOf(ms) = [QueuesOf(mutations) EXCEPT ![u] = Tail(@)]
      /\ QueuesOf(mutations)[u] # <<>> /\ Head(QueuesOf(mutations)[u]) = f
  BY <1>1, <1>3, <1>4, <1>7, QueueShrinks
<1>9. /\ DOMAIN ws = DOMAIN writes
      /\ \A i \in DOMAIN writes : ws[i].told = writes[i].told /\ ws[i].stored = writes[i].stored
  BY DEF Kept
<1>10. /\ DOMAIN vs = DOMAIN writes
       /\ \A i \in DOMAIN writes : vs[i].stored = writes[i].stored
       /\ \A i \in DOMAIN writes :
            vs[i].told = IF i = f /\ writes[i].told = "waiting" THEN verdict ELSE writes[i].told
  BY <1>7, <1>9 DEF AnsweredOnly, ToldOnly
<1>11. StoredOf(vs) = StoredOf(writes)
  BY <1>10 DEF StoredOf
<1>12. ToldOf(vs) = [ToldOf(writes) EXCEPT ![f] = IF @ = "waiting" THEN verdict ELSE @]
  BY <1>5, <1>10 DEF ToldOf
<1>13. verdict = "ok" => f \in StoredOf(writes)
  BY <1>2, <1>4, <1>5 DEF StoredOf
<1>14. Queue!Answer(verdict)
  <2>1. /\ QueuesOf(mutations)[current_user] # <<>>
        /\ QueuesOf(mutations') = [QueuesOf(mutations) EXCEPT ![current_user] = Tail(@)]
    BY <1>2, <1>6, <1>8
  <2>2. /\ verdict = "ok" => Head(QueuesOf(mutations)[current_user]) \in StoredOf(writes)
        /\ ToldOf(writes') = [ToldOf(writes) EXCEPT ![Head(QueuesOf(mutations)[current_user])] =
                                IF @ = "waiting" THEN verdict ELSE @]
    BY <1>2, <1>6, <1>8, <1>12, <1>13
  <2>3. StoredOf(writes') = StoredOf(writes)
    BY <1>6, <1>11
  <2>4. QED
    BY <2>1, <2>2, <2>3 DEF Queue!Answer, QueuesOf, QueueOf, StoredOf, ToldOf
<1>15. QED
  BY <1>14 DEF Queue!Next

\* The result of the write at the front.
LEMMA ResultAnswers ==
  ASSUME Inv, MutationResult
  PROVE  Queue!Next
<1>1. writes \in Seq(Write) /\ Kept(writes, writes)
  BY QueuesAsTheyAre
<1>2. PICK from, f : from = remote.fromServer /\ f = mutations[current_user][1].w
  OBVIOUS
<1>3. remote.write_pipeline # <<>> /\ writes[f].stored
  BY <1>2, ResultIsForFront DEF MutationResult
<1>4. PICK ws \in Seq(Write) : ws = writes
  BY <1>1
<1>5. Answering(ws, "ok") /\ current_user' = current_user /\ Kept(writes, ws)
  BY <1>1, <1>4 DEF MutationResult, Answering
<1>6. "ok" \in {"ok", "failed"} /\ writes[mutations[current_user][1].w].stored
  BY <1>2, <1>3
<1>7. QED
  BY <1>3, <1>5, <1>6, FrontIsAnswered

\* The front of the pipeline is rejected.
LEMMA RejectionAnswers ==
  ASSUME Inv, remote.write_pipeline # <<>>, NEW ws, Kept(writes, ws), RejectFront(ws)
  PROVE  Queue!Next
<1>1. ws \in Seq(Write)
  BY DEF Kept
<1>2. Answering(ws, "failed") /\ current_user' = current_user
  BY DEF RejectFront, Answering
<1>3. "failed" \in {"ok", "failed"} /\ "failed" # "ok"
  OBVIOUS
<1>4. QED
  BY <1>1, <1>2, <1>3, FrontIsAnswered

\* It is refused.
LEMMA RefusalAnswers ==
  ASSUME Inv, remote.state = "Open", NEW i \in DOMAIN remote.fromServer,
         remote.fromServer[i].kind = "refusal", RejectFront(CutOff(writes))
  PROVE  Queue!Next
<1>1. Kept(writes, CutOff(writes))
  BY QueuesAsTheyAre
<1>2. PICK f : f = mutations[current_user][1].w
  OBVIOUS
<1>3. remote.write_pipeline # <<>>
  BY <1>2, FrontIsBlamed
<1>4. QED
  BY <1>1, <1>3, RejectionAnswers

\* Its answer cannot be read.
LEMMA UnreadableAnswers ==
  ASSUME Inv, AnswerUnreadable, NextAnswer("write")
  PROVE  Queue!Next
<1>1. ~NextAnswer("handshake")
  BY DEF NextAnswer
<1>2. PICK ws : ws = Garbled(writes)
  OBVIOUS
<1>3. RejectFront(ws)
  BY <1>1, <1>2 DEF AnswerUnreadable, Garbled
<1>4. PICK f : f = mutations[current_user][1].w
  OBVIOUS
<1>5. remote.write_pipeline # <<>> /\ Kept(writes, ws)
  BY <1>2, <1>4, GarbledIsBlamed
<1>6. QED
  BY <1>3, <1>5, RejectionAnswers

\* The process dies.
LEMMA RestartIsCrash ==
  ASSUME Inv, Restart
  PROVE  Queue!Next
<1>1. currentUser \in AnyUser /\ Kept(writes, CutOff(writes))
  BY QueuesAsTheyAre DEF TypeOK
<1>2. PICK u \in AnyUser : current_user' = u
  BY <1>1 DEF Restart, AnyUser
<1>3. mutations' = mutations
  BY DEF Restart
<1>4. PICK ws \in Seq(Write) : ws = CutOff(writes) /\ Kept(writes, ws) /\ DOMAIN ws = DOMAIN writes
  BY <1>1 DEF Kept
<1>5. PICK vs : vs = Forget(ws)
  OBVIOUS
<1>6. writes' = vs
  BY <1>4, <1>5 DEF Restart, Forget
<1>7. Forgotten(ws, vs)
  BY <1>5, ForgetIs
<1>8. /\ StoredOf(vs) = StoredOf(ws)
      /\ ToldOf(vs) = [w \in 1..MaxWrites |-> IF ToldOf(ws)[w] = "waiting" THEN "lost"
                                                                            ELSE ToldOf(ws)[w]]
  BY <1>7, CrashSeen
<1>9. StoredOf(ws) = StoredOf(writes) /\ ToldOf(ws) = ToldOf(writes)
  <2>1. SeenTheSame(writes, ws)
    BY <1>4, KeptUnseen
  <2>2. QED
    BY <2>1 DEF SeenTheSame
<1>10. Queue!Crash(u)
  <2>1. /\ StoredOf(writes') = StoredOf(writes)
        /\ ToldOf(writes') = [w \in 1..MaxWrites |-> IF ToldOf(writes)[w] = "waiting"
                                                       THEN "lost" ELSE ToldOf(writes)[w]]
    BY <1>6, <1>8, <1>9
  <2>2. QED
    BY <1>2, <1>3, <2>1 DEF Queue!Crash, Queue!Writes, StoredOf, ToldOf
<1>11. QED
  BY <1>10 DEF Queue!Next

\* Another user's queue is opened.
LEMMA CredentialIsChange ==
  ASSUME Inv, RunCredentialChange
  PROVE  Queue!Next
<1>1. Kept(writes, CutOff(writes)) /\ worker_queue \in Seq(Operation)
  BY QueuesAsTheyAre
<1>2. /\ worker_queue # <<>> /\ Head(worker_queue).kind = "credential"
      /\ current_user' = Head(worker_queue).user
      /\ mutations' = mutations /\ writes' = CutOff(writes)
  BY DEF RunCredentialChange, NextOperation
<1>3. Head(worker_queue) \in Operation
  BY <1>1, <1>2
<1>4. PICK u \in AnyUser : current_user' = u
  BY <1>2, <1>3, QueueFields
<1>5. SeenTheSame(writes, writes')
  BY <1>1, <1>2, KeptUnseen
<1>6. Queue!ChangeUser(u)
  <2>1. StoredOf(writes') = StoredOf(writes) /\ ToldOf(writes') = ToldOf(writes)
    BY <1>5 DEF SeenTheSame
  <2>2. QED
    BY <1>2, <1>4, <2>1 DEF Queue!ChangeUser, StoredOf, ToldOf
<1>7. QED
  BY <1>6 DEF Queue!Next

\* The app makes a write: the queue does not see it before it is on disk.
LEMMA AppWritesStutters ==
  ASSUME Inv, AppWrites
  PROVE  UNCHANGED Queue!vars
<1>1. writes \in Seq(Write) /\ contents.current_user \in AnyUser
  BY QueuesAsTheyAre
<1>2. PICK v : v = [author |-> contents.current_user, told |-> "nothing", stored |-> FALSE,
                    as |-> {}, refused |-> FALSE, lostAck |-> FALSE, garbled |-> FALSE, raced |-> FALSE]
  OBVIOUS
<1>3. v \in Write /\ v.told = "nothing" /\ ~v.stored
  BY <1>1, <1>2 DEF Write
<1>4. writes' = Append(writes, v) /\ current_user' = current_user /\ mutations' = mutations
  BY <1>2 DEF AppWrites, local
<1>5. PICK ws \in Seq(Write) : ws = writes
  BY <1>1
<1>6. SeenTheSame(ws, Append(ws, v))
  BY <1>3, NewWriteUnseen
<1>7. QED
  BY <1>4, <1>5, <1>6, QueueStutters

\* A refusal is not seen before it is read.
LEMMA ServerRefusesStutters ==
  ASSUME Inv, ServerRefuses
  PROVE  UNCHANGED Queue!vars
<1>1. writes \in Seq(Write)
  BY QueuesAsTheyAre
<1>2. PICK a : a = Head(remote.toServer)
  OBVIOUS
<1>3. remote.state = "Open" /\ remote.toServer # <<>> /\ a.kind = "write"
  BY <1>2 DEF ServerRefuses, ServerReads, IsOpen
<1>4. PICK w \in DOMAIN writes : w = a.w
  BY <1>2, <1>3, SentIsOnDisk
<1>5. PICK v \in Write : v = writes[w]
  BY <1>1, WriteFields
<1>6. writes' = [writes EXCEPT ![w].refused = TRUE]
  BY <1>2, <1>4 DEF ServerRefuses
<1>7. /\ DOMAIN writes' = DOMAIN writes
      /\ \A j \in DOMAIN writes : writes'[j].told = writes[j].told /\ writes'[j].stored = writes[j].stored
  BY <1>1, <1>5, <1>6 DEF Write
<1>8. SeenTheSame(writes, writes')
  BY <1>7 DEF SeenTheSame, StoredOf, ToldOf
<1>9. current_user' = current_user /\ mutations' = mutations
  BY DEF ServerRefuses, ServerReads
<1>10. QED
  BY <1>8, <1>9, QueueStutters

\* Every step is a step of the queue, or is not seen.
LEMMA NextIsQueueStep ==
  ASSUME Inv, [Next]_vars
  PROVE  [Queue!Next]_(Queue!vars)
<1>1. Kept(writes, CutOff(writes)) /\ Kept(writes, writes) /\ remote.fromServer \in Seq(Message)
  BY QueuesAsTheyAre
<1>2. SeenTheSame(writes, CutOff(writes)) /\ SeenTheSame(writes, writes)
  BY <1>1, KeptUnseen
<1>3. CASE UNCHANGED vars
  BY <1>2, <1>3, QueueStutters DEF vars, local
<1>4. CASE \E u \in Users : SignIn(u)
  BY <1>2, <1>4, QueueStutters DEF SignIn, local
<1>5. CASE \E u \in AnyUser : ChangeOnWorkQueue(u)
  BY <1>2, <1>5, QueueStutters DEF ChangeOnWorkQueue, local
<1>6. CASE \E t \in tokens : ReadUser(t)
  BY <1>2, <1>6, QueueStutters DEF ReadUser, local
<1>7. CASE \E t \in tokens : FetchToken(t)
  BY <1>2, <1>7, QueueStutters DEF FetchToken, local
<1>8. CASE (\E u \in unposted : PostSignIn(u)) \/ RunNotification \/ RunTokenCallback
  <2>1. UNCHANGED <<local, writes>>
    BY <1>8 DEF PostSignIn, RunNotification, RunTokenCallback
  <2>2. QED
    BY <1>2, <2>1, QueueStutters DEF local
<1>9. CASE AppWrites \/ ServerRefuses
  BY <1>9, AppWritesStutters, ServerRefusesStutters
<1>10. CASE RunToken \/ HandshakeComplete \/ BackoffElapsed \/ ServerHandshake
  <2>1. current_user' = current_user /\ mutations' = mutations /\ writes' = writes
    BY <1>10 DEF RunToken, HandshakeComplete, BackoffElapsed, ServerHandshake, ServerReads
  <2>2. QED
    BY <1>2, <2>1, QueueStutters
<1>11. CASE StreamBreaks \/ ConnectivityChanged \/ IdleTimeout
  <2>1. current_user' = current_user /\ mutations' = mutations /\ writes' = CutOff(writes)
    BY <1>11 DEF StreamBreaks, ConnectivityChanged, IdleTimeout
  <2>2. QED
    BY <1>2, <2>1, QueueStutters
<1>12. CASE RunWrite \/ RunCredentialChange \/ MutationResult \/ ServerStores \/ Restart
  BY <1>12, WriteIsSubmitted, CredentialIsChange, ResultAnswers, WriteIsStored, RestartIsCrash
<1>13. CASE WriteRefused
  <2>1. /\ remote.state = "Open" /\ remote.fromServer # <<>> /\ RejectFront(CutOff(writes))
        /\ Head(remote.fromServer).kind = "refusal"
    BY <1>13 DEF WriteRefused, NextAnswer, IsOpen
  <2>2. 1 \in DOMAIN remote.fromServer /\ remote.fromServer[1].kind = "refusal"
    BY <1>1, <2>1
  <2>3. QED
    BY <2>1, <2>2, RefusalAnswers
<1>14. CASE RefusalOvertakes
  <2>1. remote.state = "Open" /\ RejectFront(CutOff(writes))
    BY <1>14 DEF RefusalOvertakes, IsOpen
  <2>2. PICK i \in 2..Len(remote.fromServer) : remote.fromServer[i].kind = "refusal"
    BY <1>14 DEF RefusalOvertakes
  <2>3. i \in DOMAIN remote.fromServer
    BY <1>1, <2>2
  <2>4. QED
    BY <2>1, <2>2, <2>3, RefusalAnswers
<1>15. CASE AnswerUnreadable
  <2>1. CASE NextAnswer("write")
    BY <1>15, <2>1, UnreadableAnswers
  <2>2. CASE ~NextAnswer("write")
    <3>1. current_user' = current_user /\ mutations' = mutations /\ writes' = CutOff(writes)
      BY <1>15, <2>2 DEF AnswerUnreadable
    <3>2. QED
      BY <1>2, <3>1, QueueStutters
  <2>3. QED
    BY <2>1, <2>2
<1>16. QED
  BY <1>3, <1>4, <1>5, <1>6, <1>7, <1>8, <1>9, <1>10, <1>11, <1>12, <1>13, <1>14, <1>15 DEF Next

\* It starts with nothing in any queue and nobody told anything.
LEMMA InitIsQueueInit == Init => Queue!Init
<1>1. SUFFICES ASSUME Init PROVE Queue!Init
  OBVIOUS
<1>2. mutations = [u \in AnyUser |-> <<>>] /\ writes = <<>> /\ current_user \in AnyUser
  BY <1>1 DEF Init
<1>3. QueuesOf(mutations) = [u \in AnyUser |-> <<>>]
  <2>1. QueueOf(<<>>) = <<>>
    BY DEF QueueOf
  <2>2. QED
    BY <1>2, <2>1 DEF QueuesOf
<1>4. StoredOf(writes) = {} /\ ToldOf(writes) = [w \in 1..MaxWrites |-> "nothing"]
  BY <1>2 DEF StoredOf, ToldOf
<1>5. QED
  BY <1>2, <1>3, <1>4 DEF Queue!Init, Queue!Writes, QueuesOf, QueueOf, StoredOf, ToldOf

(***************************************************************************)
(* The write path implements the queue of module WriteQueue: every write   *)
(* waits on disk until it is answered, the answers go out from the front   *)
(* of the queue of whoever is signed in, each to the caller of that write  *)
(* and to nobody else, and a write is confirmed only when the server has   *)
(* it, through broken streams, refusals, other users and restarts.         *)
(***************************************************************************)
THEOREM PipelineImplementsQueue == Spec => QueueSpec
<1>1. Init => Queue!Init
  BY InitIsQueueInit
<1>2. Inv /\ [Next]_vars => [Queue!Next]_(Queue!vars)
  BY NextIsQueueStep
<1>3. QED
  BY <1>1, <1>2, Invariance, PTL DEF Spec, QueueSpec, Queue!Spec
=============================================================================
