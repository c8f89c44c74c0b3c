---------------------------- MODULE CloudWrites ----------------------------
(***************************************************************************)
(* How the Firestore client brings writes to the service: the queue of      *)
(* write batches each user has on disk, the pipeline of those under way,    *)
(* the write stream with its token, handshake, idle timer and backoff, and  *)
(* what a change of the user does to all of them.                           *)
(*                                                                         *)
(* A step is an operation of the client's worker queue, a block of the main *)
(* queue, a step of Firebase Auth, of gRPC or of the service, or the end of *)
(* the process.                                                            *)
(***************************************************************************)
EXTENDS Naturals, Sequences, FiniteSets

CONSTANTS
    User,               \* accounts, the signed-out one among them
    None,               \* no account
    kMaxPendingWrites,  \* 10 in the code
    Refused,            \* writes that the service refuses for good
    MaxWrites,          \* bound: writes of the application
    MaxWaits,           \* bound: waitForPendingWrites under way
    MaxSignIns,         \* bound: changes of the user or of its token
    MaxFaults           \* bound: broken streams, refused tokens, network changes, process ends

ASSUME WritesAssumption ==
    /\ None \notin User
    /\ kMaxPendingWrites \in Nat \ {0} /\ MaxWrites \in Nat /\ MaxWaits \in Nat
    /\ MaxSignIns \in Nat /\ MaxFaults \in Nat

VARIABLES
    running,        \* the process
    authUser,       \* Firebase Auth's current user
    requests,       \* token requests with Firebase Auth
    main,           \* the main queue: notices of Firebase Auth and its answers
    token_counter,  \* notices handled so far
    worker,         \* what the main queue has handed to the worker queue
    current_user,   \* the sync engine's user
    queue,          \* on disk: the batches of each user
    next_batch_id,
    callbacks,      \* of the batches written in this process
    waits,          \* of waitForPendingWrites
    network,        \* is_network_enabled_
    pipeline,       \* write_pipeline_
    stream,         \* the write stream
    close_count,
    call,           \* its gRPC call, at both ends
    owner,          \* of each write: the user in whose queue it was put
    told,           \* of each write: what its callback was told
    committed,      \* of each write: the users in whose name it was committed
    signIns, faults

auth == <<authUser, requests, main, token_counter>>

store == <<queue, next_batch_id, callbacks, waits>>

remote == <<network, pipeline, stream, close_count, call>>

history == <<owner, told, committed>>

vars == <<running, auth, worker, current_user, store, remote, history, signIns, faults>>

Write == 1 .. MaxWrites

Batch == [id : Nat \ {0}, write : Write]

\* A token request: whose token it is once Firebase Auth has looked, and the
\* two counters as they were when it was made.
Request == [user : User \cup {None}, counter : Nat, close : Nat]

\* A response of the service: 0 for the handshake, else the write it is for,
\* which the client does not see.
Response == 0 .. MaxWrites

Stream == [state : {"Initial", "Starting", "Open", "Error", "Backoff"},
           handshake : BOOLEAN, idle : BOOLEAN]

\* A call: requests the service has not taken, responses not yet read, the
\* completions on the worker queue, and how the service has ended it.
Call == [user : User \cup {None}, toServer : Seq(Response), toClient : Seq(Response),
         done : Seq([type : {"read"}, response : Response] \cup [type : {"failed", "finished"}]),
         status : {"none", "ok", "refused", "broken"}]

NoCall == [user |-> None, toServer |-> <<>>, toClient |-> <<>>, done |-> <<>>,
           status |-> "none"]

Idle == [state |-> "Initial", handshake |-> FALSE, idle |-> FALSE]

\* Mutant: a stream that failed counts as started.
NotInitial(s) == s.state # "Initial"

IsStarted(s) == s.state \in {"Starting", "Backoff", "Open"}

-----------------------------------------------------------------------------
\* The queue of a user and the pipeline.

\* NextMutationBatchAfterBatchId: a seek past the given id.
NextAfter(q, id) ==
    CHOOSE i \in 1 .. Len(q) + 1 :
        /\ \A j \in 1 .. i - 1 : q[j].id <= id
        /\ i <= Len(q) => q[i].id > id

Smaller(m, n) == IF m < n THEN m ELSE n

\* Mutant: always from the oldest batch on.
FilledFromStart(p, q) ==
    p \o SubSeq(q, 1, Smaller(Len(q), kMaxPendingWrites - Len(p)))

\* The pipeline with the batches that follow in the queue, as far as it goes.
Filled(p, q) ==
    LET from == NextAfter(q, IF p = <<>> THEN 0 ELSE p[Len(p)].id)
    IN  p \o SubSeq(q, from, Smaller(Len(q), from + kMaxPendingWrites - Len(p) - 1))

Remove(q, id) ==
    LET i == CHOOSE i \in DOMAIN q : q[i].id = id
    IN  SubSeq(q, 1, i - 1) \o SubSeq(q, i + 1, Len(q))

LargestId ==
    LET ids == {0} \cup UNION {{queue[u][i].id : i \in DOMAIN queue[u]} : u \in User}
    IN  CHOOSE m \in ids : \A id \in ids : id <= m

\* Nothing on disk remembers a batch that is gone: its id may come again.
LoadNextBatchIdFromDb == LargestId + 1

\* Mutant: the oldest batch.
OldestBatchId(q) == q[1].id

GetHighestUnacknowledgedBatchId(q) == q[Len(q)].id

\* The network is on, the stream is off and there is something to send.
ShouldStartWriteStream(p, s) == network' /\ ~IsStarted(s) /\ p # <<>>

Started(s) == [s EXCEPT !.state = IF s.state = "Error" THEN "Backoff" ELSE "Starting"]

RequestCredentials ==
    requests' = requests \cup
        {[user |-> None, counter |-> token_counter, close |-> close_count']}

\* FillWritePipeline for the pipeline p, the queue q, the stream s and the call
\* c that the operation has made so far.
FillWritePipeline(p, q, s, c) ==
    LET new  == IF network' THEN Filled(p, q) ELSE p
        sent == IF s.state = "Open" /\ s.handshake
                THEN [i \in 1 .. Len(new) - Len(p) |-> new[Len(p) + i].write]
                ELSE <<>>
    IN
    /\ pipeline' = new
    /\ call' = [c EXCEPT !.toServer = @ \o sent]
    /\ \/ /\ ShouldStartWriteStream(new, s)
          /\ stream' = Started(s)
          /\ IF s.state = "Error" THEN UNCHANGED requests ELSE RequestCredentials
       \/ /\ ~ShouldStartWriteStream(new, s)
          /\ stream' = [s EXCEPT !.idle = \/ @ /\ sent = <<>>
                                          \/ network' /\ s.state = "Open" /\ new = <<>>]
          /\ UNCHANGED requests

-----------------------------------------------------------------------------
\* The sync engine.

NotifyUser(id, outcome) ==
    LET called == {b \in callbacks[current_user] : b.id = id} IN
    /\ told' = [w \in Write |-> IF \E b \in called : b.write = w THEN outcome ELSE told[w]]
    /\ callbacks' = [callbacks EXCEPT ![current_user] = @ \ called]

TriggerPendingWriteCallbacks(id) == waits' = {x \in waits : x.id # id}

RemoveFromQueue(id) == queue' = [queue EXCEPT ![current_user] = Remove(@, id)]

WriteMutations(w) ==
    LET b == [id |-> next_batch_id, write |-> w] IN
    /\ running
    /\ owner[w] = None /\ \A v \in 1 .. w - 1 : owner[v] # None
    /\ owner' = [owner EXCEPT ![w] = current_user]
    /\ queue' = [queue EXCEPT ![current_user] = Append(@, b)]
    /\ next_batch_id' = next_batch_id + 1
    /\ callbacks' = [callbacks EXCEPT ![current_user] = @ \cup {b}]
    /\ UNCHANGED <<network, close_count>>
    /\ FillWritePipeline(pipeline, Append(queue[current_user], b), stream, call)
    /\ UNCHANGED <<running, authUser, main, token_counter, worker, current_user, waits,
                   told, committed, signIns, faults>>

\* waitForPendingWrites waits for the newest batch of the user; with none it is
\* answered at once.
RegisterPendingWritesCallback ==
    LET q == queue[current_user] IN
    /\ running /\ q # <<>> /\ Cardinality(waits) < MaxWaits
    /\ waits' = waits \cup {[id |-> GetHighestUnacknowledgedBatchId(q),
                            covers |-> {q[i].write : i \in DOMAIN q}]}
    /\ UNCHANGED <<running, auth, worker, current_user, queue, next_batch_id, callbacks,
                   remote, history, signIns, faults>>

-----------------------------------------------------------------------------
\* The remote store: its network and its stream.

\* The stream is stopped, nothing is under way, and it starts anew for q.
RestartNetwork(q) ==
    /\ close_count' = IF IsStarted(stream) THEN close_count + 1 ELSE close_count
    /\ UNCHANGED network
    /\ FillWritePipeline(<<>>, q, Idle, NoCall)

\* The sync engine hears of a notice: the queue is that of the user now, those
\* who waited for the old user's writes are told, and the stream starts anew,
\* also for a new token of the same user.
HandleCredentialChange ==
    /\ worker # <<>> /\ Head(worker).type = "user" /\ worker' = Tail(worker)
    /\ current_user' = Head(worker).user
    /\ IF current_user' = current_user
       THEN UNCHANGED <<waits, next_batch_id>>
       ELSE waits' = {} /\ next_batch_id' = LoadNextBatchIdFromDb
    /\ IF network
       THEN RestartNetwork(queue[current_user'])
       ELSE UNCHANGED <<remote, requests>>
    /\ UNCHANGED <<running, authUser, main, token_counter, queue, callbacks, history,
                   signIns, faults>>

EnableNetwork ==
    /\ running /\ network' = TRUE
    /\ UNCHANGED close_count
    /\ FillWritePipeline(pipeline, queue[current_user], stream, call)
    /\ UNCHANGED <<running, authUser, main, token_counter, worker, current_user, store,
                   history, signIns, faults>>

DisableNetwork ==
    /\ running /\ faults < MaxFaults /\ faults' = faults + 1
    /\ network' = FALSE /\ pipeline' = <<>> /\ call' = NoCall
    /\ IF IsStarted(stream)
       THEN stream' = Idle /\ close_count' = close_count + 1
       ELSE UNCHANGED <<stream, close_count>>
    /\ UNCHANGED <<running, auth, worker, current_user, store, history, signIns>>

\* The callback of the connectivity monitor.
ConnectivityChanged ==
    /\ running /\ network /\ faults < MaxFaults /\ faults' = faults + 1
    /\ RestartNetwork(queue[current_user])
    /\ UNCHANGED <<running, authUser, main, token_counter, worker, current_user, store,
                   history, signIns>>

BackoffElapsed ==
    /\ stream.state = "Backoff"
    /\ stream' = [stream EXCEPT !.state = "Starting"]
    /\ UNCHANGED close_count /\ RequestCredentials
    /\ UNCHANGED <<running, authUser, main, token_counter, worker, current_user, store,
                   network, pipeline, call, history, signIns, faults>>

IdleTimeout ==
    /\ stream.idle
    /\ stream' = Idle /\ call' = NoCall /\ close_count' = close_count + 1
    /\ UNCHANGED <<running, auth, worker, current_user, store, network, pipeline,
                   history, signIns, faults>>

-----------------------------------------------------------------------------
\* The write stream.

\* The batch at the front was refused: it is given up and the stream starts
\* again without backoff.
HandleWriteError ==
    LET b == Head(pipeline) IN
    /\ RemoveFromQueue(b.id)
    /\ NotifyUser(b.id, "rejected")
    /\ TriggerPendingWriteCallbacks(b.id)
    /\ FillWritePipeline(Tail(pipeline), Remove(queue[current_user], b.id), Idle, NoCall)

\* Mutant: whether the handshake is done is not looked at.
PermanentError(status) == pipeline # <<>> /\ status = "refused"

\* A permanent error of a stream whose handshake is done is about a write.
WriteFailed(status) == stream.handshake /\ pipeline # <<>> /\ status = "refused"

\* The stream is closed with an error.
OnStreamFinish(status) ==
    LET closed == [Idle EXCEPT !.state = "Error"] IN
    /\ close_count' = close_count + 1
    /\ UNCHANGED network
    /\ IF WriteFailed(status)
       THEN HandleWriteError
       ELSE /\ call' = NoCall
            /\ stream' = IF ShouldStartWriteStream(pipeline, closed)
                         THEN Started(closed) ELSE closed
            /\ UNCHANGED <<pipeline, requests, queue, callbacks, waits, told>>
    /\ UNCHANGED <<running, authUser, main, token_counter, current_user, next_batch_id,
                   owner, committed, signIns, faults>>

\* Mutant: a token is used although the stream was closed meanwhile.
TokenReadyAnyway ==
    LET m == Head(worker) IN
    /\ worker # <<>> /\ m.type = "token" /\ worker' = Tail(worker)
    /\ stream' = [stream EXCEPT !.state = "Open"]
    /\ call' = [NoCall EXCEPT !.user = m.user, !.toServer = <<0>>, !.status = "ok"]
    /\ UNCHANGED <<running, auth, current_user, store, network, pipeline, close_count,
                   history, signIns, faults>>

\* The token is there: unless the stream was closed meanwhile it opens, with the
\* handshake as its first message.
ResumeStartWithCredentials ==
    LET m == Head(worker) IN
    /\ worker # <<>> /\ m.type = "token" /\ worker' = Tail(worker)
    /\ IF m.close = close_count
       THEN /\ stream' = [stream EXCEPT !.state = "Open"]
            /\ call' = [NoCall EXCEPT !.user = m.user, !.toServer = <<0>>, !.status = "ok"]
       ELSE UNCHANGED <<stream, call>>
    /\ UNCHANGED <<running, auth, current_user, store, network, pipeline, close_count,
                   history, signIns, faults>>

\* There is no token: the stream fails before it opens.
NoCredentials ==
    LET m == Head(worker) IN
    /\ worker # <<>> /\ m.type = "error" /\ worker' = Tail(worker)
    /\ IF m.close = close_count
       THEN OnStreamFinish("broken")
       ELSE UNCHANGED <<running, auth, current_user, store, remote, history, signIns, faults>>

\* The first response completes the handshake, and the pipeline is sent.
OnWriteStreamHandshakeComplete ==
    /\ call.done # <<>> /\ Head(call.done).type = "read" /\ ~stream.handshake
    /\ stream' = [stream EXCEPT !.handshake = TRUE, !.idle = @ /\ pipeline = <<>>]
    /\ call' = [call EXCEPT !.done = Tail(@),
                            !.toServer = @ \o [i \in DOMAIN pipeline |-> pipeline[i].write]]
    /\ UNCHANGED <<running, auth, worker, current_user, store, network, pipeline,
                   close_count, history, signIns, faults>>

\* Every other response is for the batch at the front.
OnWriteStreamMutationResult ==
    LET b == Head(pipeline) IN
    /\ call.done # <<>> /\ Head(call.done).type = "read" /\ stream.handshake
    /\ pipeline # <<>>
    /\ NotifyUser(b.id, "ok")
    /\ TriggerPendingWriteCallbacks(b.id)
    /\ RemoveFromQueue(b.id)
    /\ UNCHANGED <<network, close_count>>
    /\ FillWritePipeline(Tail(pipeline), Remove(queue[current_user], b.id), stream,
                         [call EXCEPT !.done = Tail(@)])
    /\ UNCHANGED <<running, authUser, main, token_counter, worker, current_user,
                   next_batch_id, owner, committed, signIns, faults>>

\* A read or a write has failed: the call is finished, and completions that are
\* still waiting become no-ops.
OnOperationFailed ==
    /\ call.done # <<>> /\ Head(call.done).type = "failed"
    /\ call' = [call EXCEPT !.done = <<[type |-> "finished"]>>, !.toClient = <<>>]
    /\ UNCHANGED <<running, auth, worker, current_user, store, network, pipeline, stream,
                   close_count, history, signIns, faults>>

Finished ==
    /\ call.done # <<>> /\ Head(call.done).type = "finished"
    /\ OnStreamFinish(call.status)
    /\ UNCHANGED worker

-----------------------------------------------------------------------------
\* Firebase Auth and the main queue.

\* The user changes, or gets a new token: a notice is posted.
SignIn(u) ==
    /\ running /\ signIns < MaxSignIns /\ signIns' = signIns + 1
    /\ authUser' = u
    /\ main' = Append(main, [type |-> "user", user |-> u, counter |-> 0, close |-> 0])
    /\ UNCHANGED <<running, requests, token_counter, worker, current_user, store, remote,
                   history, faults>>

LookUp(r) ==
    /\ r.user = None
    /\ requests' = (requests \ {r}) \cup {[r EXCEPT !.user = authUser]}
    /\ UNCHANGED <<running, authUser, main, token_counter, worker, current_user, store,
                   remote, history, signIns, faults>>

Answer(type, r) ==
    /\ r.user # None
    /\ requests' = requests \ {r}
    /\ main' = Append(main, [type |-> type, user |-> r.user, counter |-> r.counter,
                             close |-> r.close])
    /\ UNCHANGED <<running, authUser, token_counter, worker, current_user, store, remote,
                   history, signIns>>

TokenFetched(r) == Answer("token", r) /\ UNCHANGED faults

TokenRefused(r) == Answer("error", r) /\ faults < MaxFaults /\ faults' = faults + 1

\* The credentials provider counts a notice and hands it to the worker queue.
Notice ==
    /\ main # <<>> /\ Head(main).type = "user" /\ main' = Tail(main)
    /\ token_counter' = token_counter + 1
    /\ worker' = Append(worker, Head(main))
    /\ UNCHANGED <<running, authUser, requests, current_user, store, remote, history,
                   signIns, faults>>

\* An answer counts if no notice came between; otherwise the token is asked for
\* again.
GetTokenAnswered ==
    LET m == Head(main) IN
    /\ main # <<>> /\ m.type # "user" /\ main' = Tail(main)
    /\ IF m.counter = token_counter
       THEN worker' = Append(worker, m) /\ UNCHANGED requests
       ELSE /\ requests' = requests \cup
                   {[user |-> None, counter |-> token_counter, close |-> m.close]}
            /\ UNCHANGED worker
    /\ UNCHANGED <<running, authUser, token_counter, current_user, store, remote, history,
                   signIns, faults>>

-----------------------------------------------------------------------------
\* The service and gRPC.

Serve ==
    LET w == Head(call.toServer) IN
    /\ call.status = "ok" /\ call.toServer # <<>>
    /\ IF w \in Refused
       THEN call' = [call EXCEPT !.toServer = Tail(@), !.status = "refused"]
       ELSE call' = [call EXCEPT !.toServer = Tail(@), !.toClient = Append(@, w)]
    /\ committed' = [v \in Write |-> IF v = w /\ w \notin Refused
                                     THEN committed[v] \cup {call.user} ELSE committed[v]]
    /\ UNCHANGED <<running, auth, worker, current_user, store, network, pipeline, stream,
                   close_count, owner, told, signIns, faults>>

\* The connection breaks: the last responses may be lost.  Before the handshake
\* is answered it may also be refused.
Break ==
    /\ call.status = "ok" /\ faults < MaxFaults /\ faults' = faults + 1
    /\ \/ \E n \in 0 .. Len(call.toClient) :
              call' = [call EXCEPT !.status = "broken", !.toClient = SubSeq(@, 1, n)]
       \/ call.toServer # <<>> /\ Head(call.toServer) = 0
          /\ call' = [call EXCEPT !.status = "refused", !.toServer = Tail(@)]
    /\ UNCHANGED <<running, auth, worker, current_user, store, network, pipeline, stream,
                   close_count, history, signIns>>

Types == {call.done[i].type : i \in DOMAIN call.done}

\* One read is under way until it completes.
Arrive ==
    /\ call.toClient # <<>> /\ Types = {}
    /\ call' = [call EXCEPT
                    !.done = <<[type |-> "read", response |-> Head(call.toClient)]>>,
                    !.toClient = Tail(@)]
    /\ UNCHANGED <<running, auth, worker, current_user, store, network, pipeline, stream,
                   close_count, history, signIns, faults>>

\* A call that the service has ended fails the read that finds nothing more, or
\* a write under way: that one may be noticed while responses are still unread,
\* but for the one whose read had completed before.
OperationFails ==
    /\ call.status \in {"refused", "broken"}
    /\ Types \subseteq {"read"}
    /\ \/ call.toClient = <<>> /\ Types = {}
       \/ call.toServer # <<>> /\ (call.toClient = <<>> \/ Types # {})
    /\ call' = [call EXCEPT !.done = Append(@, [type |-> "failed"])]
    /\ UNCHANGED <<running, auth, worker, current_user, store, network, pipeline, stream,
                   close_count, history, signIns, faults>>

-----------------------------------------------------------------------------
\* What the end of the process leaves: the queues on disk.
Exit ==
    /\ faults < MaxFaults /\ faults' = faults + 1
    /\ running' = FALSE /\ requests' = {} /\ main' = <<>> /\ token_counter' = 0
    /\ worker' = <<>> /\ waits' = {} /\ callbacks' = [u \in User |-> {}]
    /\ network' = FALSE /\ pipeline' = <<>> /\ stream' = Idle /\ close_count' = 0
    /\ call' = NoCall
    /\ UNCHANGED <<authUser, current_user, next_batch_id, owner, committed, signIns>>

Kill == running /\ Exit /\ UNCHANGED <<queue, told>>

\* The process ends when the application knows of a committed write and the
\* queue does not.
KillInSuccessfulWrite ==
    /\ call.done # <<>> /\ Head(call.done).type = "read" /\ stream.handshake
    /\ pipeline # <<>>
    /\ \E b \in callbacks[current_user] :
          b.id = Head(pipeline).id /\ told' = [told EXCEPT ![b.write] = "ok"]
    /\ Exit /\ UNCHANGED queue

\* The process ends when the queue knows of a refused write and the application
\* does not.
KillInRejectedWrite ==
    /\ call.done # <<>> /\ Head(call.done).type = "finished" /\ stream.handshake
    /\ pipeline # <<>> /\ call.status = "refused"
    /\ RemoveFromQueue(Head(pipeline).id)
    /\ Exit /\ UNCHANGED told

\* Initialize, for whomever Firebase Auth has then.
Initialize(u) ==
    /\ ~running /\ running' = TRUE
    /\ authUser' = u /\ current_user' = u
    /\ network' = TRUE /\ UNCHANGED close_count
    /\ next_batch_id' = LoadNextBatchIdFromDb
    /\ FillWritePipeline(<<>>, queue[u], Idle, NoCall)
    /\ UNCHANGED <<main, token_counter, worker, queue, callbacks, waits, history, signIns,
                   faults>>

Init ==
    /\ running = FALSE
    /\ authUser \in User /\ current_user = authUser
    /\ requests = {} /\ main = <<>> /\ token_counter = 0 /\ worker = <<>>
    /\ queue = [u \in User |-> <<>>] /\ next_batch_id = 1
    /\ callbacks = [u \in User |-> {}] /\ waits = {}
    /\ network = FALSE /\ pipeline = <<>> /\ stream = Idle /\ close_count = 0
    /\ call = NoCall
    /\ owner = [w \in Write |-> None] /\ told = [w \in Write |-> "none"]
    /\ committed = [w \in Write |-> {}]
    /\ signIns = 0 /\ faults = 0

MainQueue == Notice \/ GetTokenAnswered

WorkerQueue == HandleCredentialChange \/ ResumeStartWithCredentials \/ NoCredentials

Timers == BackoffElapsed \/ IdleTimeout

Completions ==
    \/ OnWriteStreamHandshakeComplete \/ OnWriteStreamMutationResult
    \/ OnOperationFailed \/ Finished

FirebaseAuth == \E r \in requests : LookUp(r) \/ TokenFetched(r)

Transport == Arrive \/ OperationFails

Application ==
    \/ \E w \in Write : WriteMutations(w)
    \/ RegisterPendingWritesCallback \/ EnableNetwork \/ DisableNetwork
    \/ \E u \in User : SignIn(u) \/ Initialize(u)

Disturbance ==
    \/ ConnectivityChanged \/ Break \/ \E r \in requests : TokenRefused(r)
    \/ Kill \/ KillInSuccessfulWrite \/ KillInRejectedWrite

Next ==
    \/ MainQueue \/ WorkerQueue \/ Timers \/ Completions \/ FirebaseAuth
    \/ Transport \/ Serve \/ Application \/ Disturbance

\* The queues, timers, Firebase Auth, gRPC and the service go on; what the
\* application and its user do, and the disturbances, they may leave.
Fairness ==
    /\ WF_vars(MainQueue) /\ WF_vars(WorkerQueue) /\ WF_vars(BackoffElapsed)
    /\ WF_vars(Completions) /\ WF_vars(FirebaseAuth)
    /\ WF_vars(Transport) /\ WF_vars(Serve)

Spec == Init /\ [][Next]_vars

FairSpec == Spec /\ Fairness

-----------------------------------------------------------------------------
Message == [type : {"user", "token", "error"}, user : User, counter : Nat, close : Nat]

TypeOK ==
    /\ running \in BOOLEAN /\ authUser \in User /\ current_user \in User
    /\ requests \subseteq Request /\ token_counter \in Nat
    /\ main \in Seq(Message) /\ worker \in Seq(Message)
    /\ queue \in [User -> Seq(Batch)] /\ next_batch_id \in Nat \ {0}
    /\ callbacks \in [User -> SUBSET Batch]
    /\ waits \subseteq [id : Nat \ {0}, covers : SUBSET Write]
    /\ network \in BOOLEAN /\ pipeline \in Seq(Batch)
    /\ stream \in Stream /\ close_count \in Nat /\ call \in Call
    /\ owner \in [Write -> User \cup {None}]
    /\ told \in [Write -> {"none", "ok", "rejected"}]
    /\ committed \in [Write -> SUBSET User]
    /\ signIns \in 0 .. MaxSignIns /\ faults \in 0 .. MaxFaults

Writes(p) == [i \in DOMAIN p |-> p[i].write]

\* Responses that the client has not handled, in their order.
Unread ==
    (IF call.done # <<>> /\ Head(call.done).type = "read"
     THEN <<Head(call.done).response>> ELSE <<>>) \o call.toClient

\* "This is a response to a write containing mutations and should be correlated
\* to the first write in our write pipeline" (remote_store.cc:435): the pipeline
\* is the oldest part of the user's queue, and on a stream that is open the
\* responses under way and the requests not served yet are, together, it.
PipelineInStep ==
    /\ Len(pipeline) <= kMaxPendingWrites
    /\ Len(pipeline) <= Len(queue[current_user])
    /\ pipeline = SubSeq(queue[current_user], 1, Len(pipeline))
    /\ stream.idle => stream.state = "Open" /\ pipeline = <<>>
    /\ pipeline # <<>> => IsStarted(stream)
    /\ call.status = "ok" =>
           Unread \o call.toServer = IF stream.handshake THEN Writes(pipeline) ELSE <<0>>

\* A write is only ever committed in the name of the user in whose queue it
\* was put, whoever signs in while tokens and notices are under way.
WrittenByOwner == \A w \in Write : committed[w] \subseteq {owner[w]}

\* A success was a commit; what left the queue was committed or refused; and of
\* the writes in a queue the committed ones are the oldest.
NothingLost ==
    /\ \A w \in Write :
        /\ told[w] = "ok" => committed[w] # {}
        /\ owner[w] # None /\ committed[w] = {} /\ w \notin Refused =>
               \E i \in DOMAIN queue[owner[w]] : queue[owner[w]][i].write = w
    /\ \A u \in User : \A j \in DOMAIN queue[u] : \A i \in 1 .. j - 1 :
        committed[queue[u][j].write] # {} => committed[queue[u][i].write] # {}

\* waitForPendingWrites succeeds when all that was pending at the call is
\* committed or refused, although batch ids are used again.
WaitMeansDone ==
    [][\A x \in waits : x \notin waits' /\ running' /\ current_user' = current_user =>
           \A w \in x.covers : committed[w] # {} \/ w \in Refused]_vars

\* A write in the queue of the current user gets its answer, unless the user
\* changes, the network goes or the process ends.
WritesDrain ==
    \A w \in Write, u \in User :
        (/\ running /\ network /\ current_user = u
         /\ \E i \in DOMAIN queue[u] : queue[u][i].write = w)
        ~> ~(/\ running /\ network /\ current_user = u
             /\ \E i \in DOMAIN queue[u] : queue[u][i].write = w)

\* "If this was a permanent error, the request itself was the problem so it's
\* not going to succeed if we resend it" (remote_store.cc:513): a rejected write
\* is one the service refused.
RejectedWasRefused == \A w \in Write : told[w] = "rejected" => w \in Refused
=============================================================================
