------------------------------- MODULE WriteQueue -------------------------------
(***************************************************************************)
(* How Firestore's client sends what DatabaseService writes: SyncEngine    *)
(* and LocalStore keep a write in the queue of the current user, and       *)
(* RemoteStore sends the oldest of them over a WriteStream.  All of this   *)
(* runs on one worker queue, which also gets the changes of the user from  *)
(* Auth and the tokens that streams ask Auth for.                          *)
(*                                                                         *)
(* A write (a MutationBatch) is its number: queues and pipeline are in the *)
(* order of their numbers (AddMutationBatch), so they are sets here.       *)
(***************************************************************************)
EXTENDS Naturals, Sequences, FiniteSets

CONSTANTS
  Users,
  NoUser,         \* no stream: nobody's token
  PipelineSize,   \* kMaxPendingWrites
  MaxWrites,      \* bound: writes the app calls for
  MaxChanges,     \* bound: changes of the signed-in user
  MaxFaults       \* bound: streams that break, refusals, restarts, ends of the app

ASSUME UsersAssumption == NoUser \notin Users /\ Users # {}
ASSUME SizeAssumption == PipelineSize \in Nat \ {0}
ASSUME WriteBounds == MaxWrites \in Nat /\ MaxChanges \in Nat /\ MaxFaults \in Nat

Batches == 1 .. MaxWrites

VARIABLES
  authUser,   \* Auth's current user
  notices,    \* notifications of its changes that wait for the main queue, each of a user
  told,       \* the user Firestore's credentials provider was last told of
  tasks,      \* the worker queue: calls, changes and tokens to come
  asked,      \* the closes for which a stream has asked for a token
  user,       \* current_user_, whose mutation queue LocalStore has
  queue,      \* queue[u]: the pending writes of u, on disk
  pipeline,   \* write_pipeline_
  stream,     \* state_ of the write stream
  shook,      \* handshake_complete_
  idle,       \* idleness_timer_ is set
  closes,     \* close_count_
  grpc,       \* the user whose token the gRPC stream has
  sent,       \* requests sent on it and not answered
  done,       \* those of them the backend has taken
  writes, changes, faults,   \* counters against the bounds
  took,       \* history: took[b], as whom the backend has taken b
  author,     \* history: author[b], the user Firestore knew of when b was called for
  refused,    \* history: writes the backend has refused
  early       \* history: a token was given before Firestore knew of its user

auth == <<authUser, notices, told>>
local == <<user, queue>>
remote == <<pipeline, stream, shook, idle, closes, grpc, sent, done>>
counters == <<writes, changes, faults>>
history == <<took, author, refused, early>>
vars == <<auth, tasks, asked, local, remote, counters, history>>

Tasks ==
  [kind : {"write"}, batch : Batches] \cup [kind : {"change"}, user : Users]
    \cup [kind : {"token"}, user : Users, close : Nat]

States == {"Initial", "Starting", "Open", "Backoff", "Error"}
Started == stream \in {"Starting", "Open", "Backoff"}

Init ==
  /\ authUser \in Users /\ notices = <<>> /\ told = authUser /\ user = authUser
  /\ tasks = <<>> /\ asked = {}
  /\ queue = [u \in Users |-> {}] /\ pipeline = {}
  /\ stream = "Initial" /\ shook = FALSE /\ idle = FALSE /\ closes = 0
  /\ grpc = NoUser /\ sent = {} /\ done = {}
  /\ writes = 0 /\ changes = 0 /\ faults = 0
  /\ took = [b \in Batches |-> {}] /\ author = [b \in Batches |-> authUser]
  /\ refused = {} /\ early = FALSE

Least(S) == CHOOSE b \in S : \A c \in S : b <= c

Fault == faults < MaxFaults /\ faults' = faults + 1 /\ UNCHANGED <<writes, changes>>

-------------------------------------------------------------------------------
(* Auth and the app, on their own threads.                                 *)

\* setData or addDocument of DatabaseService, by whoever is signed in
Write ==
  /\ writes < MaxWrites /\ writes' = writes + 1
  /\ tasks' = Append(tasks, [kind |-> "write", batch |-> writes'])
  /\ author' = [author EXCEPT ![writes'] = told]
  /\ UNCHANGED <<auth, asked, local, remote, changes, faults, took, refused, early>>

\* updateCurrentUser: Auth has another user, whose notification is posted on the
\* main queue, behind those that still wait there
AuthChanges ==
  /\ changes < MaxChanges /\ changes' = changes + 1
  /\ authUser' \in Users \ {authUser}
  /\ notices' = Append(notices, authUser')
  /\ UNCHANGED <<told, tasks, asked, local, remote, writes, faults, history>>

\* A notification: the provider's listener enqueues HandleCredentialChange
Notified ==
  /\ notices # <<>> /\ notices' = Tail(notices)
  /\ told' = Head(notices)
  /\ tasks' = Append(tasks, [kind |-> "change", user |-> Head(notices)])
  /\ UNCHANGED <<authUser, asked, local, remote, counters, history>>

\* GetToken; asked again by itself if a notification came in between
TokenGiven(close) ==
  /\ close \in asked /\ asked' = asked \ {close}
  /\ tasks' = Append(tasks, [kind |-> "token", user |-> authUser, close |-> close])
  /\ early' = (early \/ authUser # told)
  /\ UNCHANGED <<auth, local, remote, counters, took, author, refused>>

-------------------------------------------------------------------------------
(* The worker queue.                                                       *)

\* Mutant: the newest batches first
FilledFromEnd(q, p) ==
  LET later == {b \in q : \A c \in p : c < b}
  IN  p \cup {b \in later :
                Cardinality({c \in later : c >= b}) + Cardinality(p) <= PipelineSize}

\* FillWritePipeline: the next batches after the last one in the pipeline, while
\* there is room
Filled(q, p) ==
  LET later == {b \in q : \A c \in p : c < b}
  IN  p \cup {b \in later :
                Cardinality({c \in later : c <= b}) + Cardinality(p) <= PipelineSize}

\* Mutant: a stream that closed is not started again
NeverStartWith(state, p, close) == stream' = state /\ UNCHANGED asked

\* ShouldStartWriteStream, StartWriteStream: of a stream in `state` that was
\* closed `close` times
StartWith(state, p, close) ==
  IF p = {} THEN stream' = state /\ UNCHANGED asked
  ELSE IF state = "Error" THEN stream' = "Backoff" /\ UNCHANGED asked
  ELSE stream' = "Starting" /\ asked' = asked \cup {close}

\* Mutant: answers of the old stream are still handled
ClosedButAnswered ==
  /\ closes' = closes + 1
  /\ grpc' = NoUser /\ shook' = FALSE /\ idle' = FALSE /\ sent' = {} /\ UNCHANGED done

\* What Close leaves of the stream, but for its state
Closed ==
  /\ closes' = closes + 1
  /\ grpc' = NoUser /\ shook' = FALSE /\ idle' = FALSE /\ sent' = {} /\ done' = {}

\* Mutant: the streams are restarted with the pipeline they had
RestartedAsItWas(u) ==
  /\ pipeline' = pipeline
  /\ Closed
  /\ StartWith("Initial", pipeline', closes')

\* RestartNetwork: stop the stream, clear the pipeline, start with the queue of u
Restarted(u) ==
  /\ pipeline' = Filled(queue[u], {})
  /\ IF Started THEN Closed ELSE UNCHANGED <<closes, grpc, shook, idle, sent, done>>
  /\ StartWith("Initial", pipeline', closes')

\* The next task of the queue, of a kind
Run(kind) == tasks # <<>> /\ Head(tasks).kind = kind /\ tasks' = Tail(tasks)

\* WriteMutations: kept for the current user, and sent if the stream is ready
RunWrite ==
  /\ Run("write")
  /\ queue' = [queue EXCEPT ![user] = @ \cup {Head(tasks).batch}]
  /\ pipeline' = Filled(queue'[user], pipeline)
  /\ IF shook THEN sent' = sent \cup (pipeline' \ pipeline) ELSE UNCHANGED sent
  /\ idle' = (idle /\ pipeline' = {})
  /\ IF Started THEN UNCHANGED <<stream, asked>> ELSE StartWith(stream, pipeline', closes)
  /\ UNCHANGED <<auth, user, shook, closes, grpc, done, counters, history>>

\* HandleCredentialChange: the queue of the new user, and new streams
RunChange ==
  /\ Run("change")
  /\ user' = Head(tasks).user
  /\ Restarted(user')
  /\ UNCHANGED <<auth, queue, counters, history>>

\* Mutant: tokens for streams that were closed since are used
CurrentAlways(token) == TRUE

Current(token) == token.close = closes

\* ResumeStartWithCredentials: the stream is open, and its handshake on the way
RunToken ==
  /\ Run("token")
  /\ Current(Head(tasks))
  /\ stream' = "Open" /\ grpc' = Head(tasks).user
  /\ UNCHANGED <<auth, asked, local, pipeline, shook, idle, closes, sent, done,
                 counters, history>>

RunStaleToken ==
  /\ Run("token")
  /\ ~Current(Head(tasks))
  /\ UNCHANGED <<auth, asked, local, remote, counters, history>>

\* Auth could not give the token: the stream closes with that error
RunTokenError ==
  /\ Run("token")
  /\ Current(Head(tasks))
  /\ Fault
  /\ Closed /\ StartWith("Error", pipeline, closes')
  /\ UNCHANGED <<auth, local, pipeline, history>>

\* OnWriteStreamHandshakeComplete: all of the pipeline is sent
HandshakeComplete ==
  /\ stream = "Open" /\ ~shook /\ shook' = TRUE
  /\ sent' = pipeline
  /\ UNCHANGED <<auth, tasks, asked, local, pipeline, stream, idle, closes, grpc,
                 done, counters, history>>

\* The backend takes the requests of a stream in their order
Take ==
  /\ sent \ done # {}
  /\ done' = done \cup {Least(sent \ done)}
  /\ took' = [took EXCEPT ![Least(sent \ done)] = @ \cup {grpc}]
  /\ UNCHANGED <<auth, tasks, asked, local, pipeline, stream, shook, idle, closes,
                 grpc, sent, counters, author, refused, early>>

\* OnWriteStreamMutationResult: the first of the pipeline is acknowledged
MutationResult ==
  LET b == Least(pipeline)
  IN  /\ done # {}
      /\ queue' = [queue EXCEPT ![user] = @ \ {b}]
      /\ pipeline' = Filled(queue'[user], pipeline \ {b})
      /\ sent' = (sent \ {Least(done)}) \cup (pipeline' \ pipeline)
      /\ done' = done \ {Least(done)}
      /\ idle' = (pipeline' = {})
      /\ UNCHANGED <<auth, tasks, asked, user, stream, shook, closes, grpc, counters,
                     history>>

\* OnWriteStreamClose with an error that does not concern a write.  (That the
\* backend never ends a stream without an error is assumed: with writes in the
\* pipeline RemoteStore asserts that it does not.)
StreamBreaks ==
  /\ grpc # NoUser
  /\ Fault
  /\ Closed /\ StartWith("Error", pipeline, closes')
  /\ UNCHANGED <<auth, tasks, local, pipeline, history>>

\* HandleWriteError: the backend refuses the first request it has not answered
WriteRefused ==
  LET b == Least(pipeline)
  IN  /\ shook /\ sent # {} /\ done = {}
      /\ Fault
      /\ Closed
      /\ queue' = [queue EXCEPT ![user] = @ \ {b}]
      /\ refused' = refused \cup {b}
      /\ pipeline' = Filled(queue'[user], pipeline \ {b})
      /\ StartWith("Initial", pipeline', closes')
      /\ UNCHANGED <<auth, tasks, user, took, author, early>>

BackoffElapsed ==
  /\ stream = "Backoff" /\ stream' = "Starting"
  /\ asked' = asked \cup {closes}
  /\ UNCHANGED <<auth, tasks, local, pipeline, shook, idle, closes, grpc, sent, done,
                 counters, history>>

\* The idle stream is stopped
IdleTimeout ==
  /\ idle /\ Closed /\ stream' = "Initial"
  /\ UNCHANGED <<auth, tasks, asked, local, pipeline, counters, history>>

\* The network is back, or another one
ConnectivityChanged ==
  /\ Fault
  /\ Restarted(user)
  /\ UNCHANGED <<auth, tasks, local, history>>

\* The app ends and is started again; only the queues are on disk
AppRestarts ==
  /\ Fault
  /\ notices' = <<>> /\ told' = authUser /\ user' = authUser
  /\ tasks' = <<>> /\ closes' = 0
  /\ pipeline' = Filled(queue[authUser], {})
  /\ grpc' = NoUser /\ shook' = FALSE /\ idle' = FALSE /\ sent' = {} /\ done' = {}
  /\ IF pipeline' = {} THEN stream' = "Initial" /\ asked' = {}
                       ELSE stream' = "Starting" /\ asked' = {0}
  /\ UNCHANGED <<authUser, queue, history>>

-------------------------------------------------------------------------------
GiveToken == \E close \in asked : TokenGiven(close)

RunTask == RunWrite \/ RunChange \/ RunToken \/ RunStaleToken

\* What goes on by itself
Work ==
  \/ Notified \/ GiveToken \/ RunTask
  \/ HandshakeComplete \/ Take \/ MutationResult \/ BackoffElapsed

Faults == RunTokenError \/ StreamBreaks \/ WriteRefused \/ ConnectivityChanged \/ AppRestarts

Next == Write \/ AuthChanges \/ Work \/ IdleTimeout \/ Faults

Spec == Init /\ [][Next]_vars

FairSpec ==
  /\ Spec
  /\ WF_vars(Notified) /\ WF_vars(GiveToken) /\ WF_vars(RunTask)
  /\ WF_vars(HandshakeComplete) /\ WF_vars(Take) /\ WF_vars(MutationResult)
  /\ WF_vars(BackoffElapsed)

-------------------------------------------------------------------------------
\* The types of the queues, of the worker queue and of the stream.
WriteTypeOK ==
  /\ {authUser, told, user} \subseteq Users /\ grpc \in Users \cup {NoUser}
  /\ notices \in Seq(Users)
  /\ tasks \in Seq(Tasks)
  /\ asked \subseteq Nat /\ closes \in Nat
  /\ queue \in [Users -> SUBSET Batches] /\ pipeline \subseteq Batches
  /\ stream \in States /\ shook \in BOOLEAN /\ idle \in BOOLEAN
  /\ sent \subseteq Batches /\ done \subseteq sent
  /\ writes \in 0 .. MaxWrites /\ changes \in 0 .. MaxChanges /\ faults \in 0 .. MaxFaults
  /\ took \in [Batches -> SUBSET Users] /\ author \in [Batches -> Users]
  /\ refused \subseteq Batches /\ early \in BOOLEAN

\* What RemoteStore and Stream assert with HARD_ASSERT: an answer finds the
\* pipeline not empty, and its first write in the queue; a token that is used
\* finds the stream starting; a stream that is stopped when idle is not needed.
NoAssertFails ==
  /\ done # {} => pipeline # {}
  /\ pipeline \subseteq queue[user]
  /\ tasks # <<>> /\ Head(tasks).kind = "token" /\ Current(Head(tasks)) => stream = "Starting"
  /\ idle => stream = "Open" /\ pipeline = {}

\* Mutations are per user (RemoteStore::HandleCredentialChange): unless Auth gave
\* a token of a user before Firestore was told of that user, the backend takes a
\* write only from the user who was signed in, as far as Firestore was told, when
\* the app wrote it.
TakenFromItsAuthor ==
  ~early => \A b \in Batches : took[b] \subseteq {author[b]}

Calls == {<<author[tasks[i].batch], tasks[i].batch>> :
            i \in {j \in DOMAIN tasks : tasks[j].kind = "write"}}

O == INSTANCE Outbox WITH
       called <- Calls,
       taken <- {b \in Batches : took[b] # {}}

\* However users change, streams break and the app ends: the writes of a user are
\* kept for that user, reach the backend in their order, and none is given up
\* that was not taken or refused.
ImplementsOutbox == O!Spec

\* A write that is kept for the current user is taken or refused in the end,
\* whatever breaks in between (unless that user leaves).
EveryWriteLeaves ==
  \A b \in Batches : b \in queue[user] ~> b \notin queue[user]

-------------------------------------------------------------------------------
\* What the code does not keep; README.md tells how.

\* The backend takes no write from another than its author.
AlwaysFromItsAuthor == \A b \in Batches : took[b] \subseteq {author[b]}

\* The backend takes no write again once it took a later one of the same user.
NeverGoesBack ==
  [][\A b, c \in Batches :
       b < c /\ author[b] = author[c] /\ took[c] # {} => b \notin done' \ done]_vars
=================================================================================
