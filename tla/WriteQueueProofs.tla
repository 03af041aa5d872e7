---------------------------- MODULE WriteQueueProofs ----------------------------
(***************************************************************************)
(* Proofs about WriteQueue, for every number of writes, users, changes and *)
(* faults and every size of the pipeline: its types, the assertions of the *)
(* write stream, that a write reaches the backend as its author, and that  *)
(* WriteQueue implements Outbox.                                           *)
(***************************************************************************)
EXTENDS WriteQueue, SequenceTheorems, FiniteSetTheorems, WellFoundedInduction, TLAPS

\* With usr the user now, u is the user after the first i - 1 of the tasks ts.
Becomes(ts, usr, i, u) ==
  \/ u = usr /\ \A j \in 1 .. i - 1 : ts[j].kind # "change"
  \/ \E j \in 1 .. i - 1 :
       /\ ts[j].kind = "change" /\ ts[j].user = u
       /\ \A k \in j + 1 .. i - 1 : ts[k].kind # "change"

\* The pipeline has the oldest writes of the user's queue, and an open stream has
\* been sent them all; those taken come first.
PipelineIsFirst ==
  /\ pipeline \subseteq queue[user]
  /\ \A b \in pipeline, c \in queue[user] : c < b => c \in pipeline

SentIsPipeline ==
  /\ sent = IF shook THEN pipeline ELSE {}
  /\ \A d \in done, c \in sent : c < d => c \in done
  /\ \A d \in done : took[d] # {}

StreamAgrees ==
  /\ shook => stream = "Open"
  /\ grpc # NoUser <=> stream = "Open"
  /\ idle => stream = "Open" /\ pipeline = {}

\* At most one token is asked for or under way for the stream as it is now, and
\* then it is starting.
AskedOnce ==
  /\ \A c \in asked : c <= closes
  /\ closes \in asked => stream = "Starting"

TokenOnce ==
  \A i \in 1 .. Len(tasks) : tasks[i].kind = "token" =>
    /\ tasks[i].close <= closes
    /\ tasks[i].close = closes =>
         /\ stream = "Starting" /\ closes \notin asked
         /\ \A j \in 1 .. Len(tasks) :
              tasks[j].kind = "token" /\ tasks[j].close = closes => j = i

\* Tokens and writes are of the user there is when their turn comes.
TokenOfUser ==
  ~early =>
    /\ grpc # NoUser => grpc = user
    /\ \A i \in 1 .. Len(tasks) : tasks[i].kind = "token" /\ tasks[i].close = closes =>
         Becomes(tasks, user, i, tasks[i].user)

WriteOfUser ==
  /\ Becomes(tasks, user, Len(tasks) + 1, told)
  /\ \A i \in 1 .. Len(tasks) : tasks[i].kind = "write" =>
       Becomes(tasks, user, i, author[tasks[i].batch])
  /\ \A u \in Users : \A b \in queue[u] : author[b] = u

\* Writes are numbered in the order of the calls.
WritesInOrder ==
  /\ \A i \in 1 .. Len(tasks) : tasks[i].kind = "write" =>
       /\ tasks[i].batch <= writes
       /\ \A j \in 1 .. i - 1 : tasks[j].kind = "write" => tasks[j].batch < tasks[i].batch
       /\ \A u \in Users : \A b \in queue[u] : b < tasks[i].batch
  /\ \A u \in Users : \A b \in queue[u] : b <= writes
  /\ \A b \in Batches : took[b] # {} => b <= writes

IInv ==
  /\ WriteTypeOK /\ TakenFromItsAuthor
  /\ PipelineIsFirst /\ SentIsPipeline /\ StreamAgrees
  /\ AskedOnce /\ TokenOnce /\ TokenOfUser /\ WriteOfUser /\ WritesInOrder

-----------------------------------------------------------------------------
(* The order of the tasks.                                                 *)

\* What Append does to the worker queue.
LEMMA AppendTask ==
  ASSUME NEW T, NEW ts \in Seq(T), NEW t \in T
  PROVE  /\ Append(ts, t) \in Seq(T) /\ Len(Append(ts, t)) = Len(ts) + 1
         /\ Len(ts) \in Nat
         /\ Append(ts, t)[Len(ts) + 1] = t
         /\ \A i \in 1 .. Len(ts) : Append(ts, t)[i] = ts[i]
  BY SMT

\* What is left of the worker queue when its first task has run.
LEMMA TailTask ==
  ASSUME NEW T, NEW ts \in Seq(T), ts # <<>>
  PROVE  /\ Tail(ts) \in Seq(T) /\ Len(Tail(ts)) = Len(ts) - 1
         /\ Len(ts) \in Nat \ {0}
         /\ Head(ts) \in T /\ Head(ts) = ts[1]
         /\ \A i \in 1 .. Len(ts) - 1 : Tail(ts)[i] = ts[i + 1]
  BY HeadTailProperties, EmptySeq, LenProperties

\* When the turn is the first task's, the user is the user now.
LEMMA BecomesFirst ==
  ASSUME NEW ts, NEW usr, NEW u, Becomes(ts, usr, 1, u)
  PROVE  u = usr
  BY SMT DEF Becomes

\* A new task is behind: it changes nothing for those before it.
LEMMA BecomesBefore ==
  ASSUME NEW T, NEW ts \in Seq(T), NEW t \in T, NEW usr, NEW u,
         NEW i \in 1 .. Len(ts) + 1, Becomes(ts, usr, i, u)
  PROVE  Becomes(Append(ts, t), usr, i, u)
  <1>1. \A j \in 1 .. i - 1 : Append(ts, t)[j] = ts[j]
    BY AppendTask
  <1>2. CASE u = usr /\ \A j \in 1 .. i - 1 : ts[j].kind # "change"
    BY <1>1, <1>2 DEF Becomes
  <1>3. CASE \E j \in 1 .. i - 1 :
               /\ ts[j].kind = "change" /\ ts[j].user = u
               /\ \A k \in j + 1 .. i - 1 : ts[k].kind # "change"
    <2>1. PICK j \in 1 .. i - 1 :
            /\ ts[j].kind = "change" /\ ts[j].user = u
            /\ \A k \in j + 1 .. i - 1 : ts[k].kind # "change"
      BY <1>3
    <2>2. \A k \in j + 1 .. i - 1 : k \in 1 .. i - 1
      BY SMT
    <2> QED BY <1>1, <2>1, <2>2 DEF Becomes
  <1> QED BY <1>2, <1>3 DEF Becomes

\* After it the user is the one it changes to, or the same as before it.
LEMMA BecomesBehind ==
  ASSUME NEW T, NEW ts \in Seq(T), NEW t \in T, NEW usr, NEW u,
         IF t.kind = "change" THEN t.user = u ELSE Becomes(ts, usr, Len(ts) + 1, u)
  PROVE  Becomes(Append(ts, t), usr, Len(ts) + 2, u)
  <1>1. Len(ts) \in Nat /\ Append(ts, t)[Len(ts) + 1] = t /\ Len(ts) + 2 - 1 = Len(ts) + 1
    BY AppendTask, SMT
  <1>2. CASE t.kind = "change"
    <2>1. /\ Len(ts) + 1 \in 1 .. Len(ts) + 1
          /\ \A k \in Len(ts) + 1 + 1 .. Len(ts) + 1 : FALSE
      BY <1>1, SMT
    <2> QED BY <1>1, <1>2, <2>1 DEF Becomes
  <1>3. CASE t.kind # "change" /\ u = usr /\ \A j \in 1 .. Len(ts) : ts[j].kind # "change"
    <2>1. \A j \in 1 .. Len(ts) + 1 : Append(ts, t)[j].kind # "change"
      BY <1>1, <1>3, AppendTask
    <2> QED BY <1>1, <1>3, <2>1 DEF Becomes
  <1>4. ASSUME t.kind # "change", NEW j \in 1 .. Len(ts),
               ts[j].kind = "change", ts[j].user = u,
               \A k \in j + 1 .. Len(ts) : ts[k].kind # "change"
        PROVE  Becomes(Append(ts, t), usr, Len(ts) + 2, u)
    <2>1. j \in 1 .. Len(ts) + 1 /\ Append(ts, t)[j] = ts[j]
      BY <1>1, AppendTask
    <2>2. \A k \in j + 1 .. Len(ts) + 1 :
            \/ k \in j + 1 .. Len(ts) /\ k \in 1 .. Len(ts)
            \/ k = Len(ts) + 1
      BY <1>1, SMT
    <2>3. \A k \in j + 1 .. Len(ts) + 1 : Append(ts, t)[k].kind # "change"
      BY <1>1, <1>4, <2>2, AppendTask
    <2> QED BY <1>1, <1>4, <2>1, <2>3 DEF Becomes
  <1>5. Len(ts) + 1 - 1 = Len(ts)
    BY <1>1
  <1> QED BY <1>2, <1>3, <1>4, <1>5 DEF Becomes

\* When the first task runs, the others are of the same users as before.
LEMMA BecomesNext ==
  ASSUME NEW T, NEW ts \in Seq(T), ts # <<>>, NEW usr, NEW u,
         NEW i \in 1 .. Len(ts), Becomes(ts, usr, i + 1, u)
  PROVE  Becomes(Tail(ts), IF Head(ts).kind = "change" THEN Head(ts).user ELSE usr, i, u)
  <1>1. /\ Head(ts) = ts[1] /\ i \in Nat /\ i + 1 - 1 = i
        /\ \A j \in 1 .. i - 1 : Tail(ts)[j] = ts[j + 1] /\ j + 1 \in 1 .. i
    BY TailTask, SMT
  <1>2. CASE u = usr /\ \A j \in 1 .. i : ts[j].kind # "change"
    <2>1. 1 \in 1 .. i
      BY SMT
    <2> QED BY <1>1, <1>2, <2>1 DEF Becomes
  <1>3. CASE \E j \in 1 .. i :
               /\ ts[j].kind = "change" /\ ts[j].user = u
               /\ \A k \in j + 1 .. i : ts[k].kind # "change"
    <2>1. PICK j \in 1 .. i :
            /\ ts[j].kind = "change" /\ ts[j].user = u
            /\ \A k \in j + 1 .. i : ts[k].kind # "change"
      BY <1>3
    <2>2. CASE j = 1
      <3>1. \A k \in 1 .. i - 1 : k + 1 \in j + 1 .. i
        BY <2>2, SMT
      <3> QED BY <1>1, <2>1, <2>2, <3>1 DEF Becomes
    <2>3. CASE j # 1
      <3>1. /\ j - 1 \in 1 .. i - 1 /\ j - 1 + 1 = j
            /\ \A k \in j - 1 + 1 .. i - 1 : k \in 1 .. i - 1 /\ k + 1 \in j + 1 .. i
        BY <2>3, SMT
      <3>2. Tail(ts)[j - 1] = ts[j]
        BY <1>1, <3>1
      <3>3. \A k \in j - 1 + 1 .. i - 1 : Tail(ts)[k].kind # "change"
        BY <1>1, <2>1, <3>1
      <3> QED BY <2>1, <3>1, <3>2, <3>3 DEF Becomes
    <2> QED BY <2>2, <2>3
  <1> QED BY <1>1, <1>2, <1>3 DEF Becomes

-----------------------------------------------------------------------------
(* Sets of batches.                                                        *)

\* A set of batches that is not empty has a first one.
LEMMA LeastIs ==
  ASSUME NEW S \in SUBSET Nat, S # {}
  PROVE  Least(S) \in S /\ \A c \in S : Least(S) <= c
  <1> DEFINE Smaller == {bc \in Nat \X Nat : bc[1] < bc[2]}
  <1>1. IsWellFoundedOn(Smaller, Nat)
    BY NatLessThanWellFounded DEF OpToRel
  <1>2. S \subseteq Nat
    OBVIOUS
  <1> HIDE DEF Smaller
  <1>3. PICK b \in S : \A c \in S : <<c, b>> \notin Smaller
    BY <1>1, <1>2, WFMin
  <1>4. \A c \in S : b <= c
    <2>1. \A c \in S : c < b => <<c, b>> \in Smaller
      BY <1>2 DEF Smaller
    <2>2. \A c \in S : ~ (c < b)
      BY <1>3, <2>1
    <2> QED BY <1>2, <2>2
  <1> QED BY <1>4 DEF Least

\* FillWritePipeline leaves the oldest writes of the queue in the pipeline.
LEMMA FilledIsFirst ==
  ASSUME NEW q \in SUBSET Batches, NEW p \in SUBSET q,
         \A b \in p, c \in q : c < b => c \in p
  PROVE  /\ p \subseteq Filled(q, p) /\ Filled(q, p) \subseteq q
         /\ \A b \in Filled(q, p), c \in q : c < b => c \in Filled(q, p)
  <1> DEFINE later == {b \in q : \A c \in p : c < b}
  <1> DEFINE upto(b) == {x \in later : x <= b}
  <1>1. Batches \subseteq Nat /\ IsFiniteSet(Batches)
    BY FS_Interval, WriteBounds, SMT DEF Batches
  <1>2. Filled(q, p) = p \cup {b \in later : Cardinality(upto(b)) + Cardinality(p) <= PipelineSize}
    BY DEF Filled
  <1>3. \A b \in Batches : IsFiniteSet(upto(b)) /\ Cardinality(upto(b)) \in Nat
    BY <1>1, FS_Subset, FS_CardinalityType
  <1>4. IsFiniteSet(p) /\ Cardinality(p) \in Nat
    BY <1>1, FS_Subset, FS_CardinalityType
  <1>5. ASSUME NEW b \in Filled(q, p), NEW c \in q, c < b
        PROVE  c \in Filled(q, p)
    <2>1. CASE b \in p
      BY <1>5, <2>1, <1>2
    <2>2. CASE b \notin p /\ c \in p
      BY <2>2, <1>2
    <2>3. CASE b \notin p /\ c \notin p
      <3>1. b \in later /\ Cardinality(upto(b)) + Cardinality(p) <= PipelineSize
        BY <2>3, <1>2
      <3>2. c \in later
        <4>1. \A d \in p : ~ (c < d)
          BY <2>3
        <4> QED BY <4>1, <2>3, <1>1, SMT
      <3>3. upto(c) \in SUBSET upto(b)
        <4>1. \A x \in q : x \in Nat /\ c \in Nat /\ b \in Nat
          BY <1>1, <3>1
        <4>2. \A x \in q : x <= c => x <= b
          BY <4>1, <1>5
        <4> QED BY <4>2
      <3>4. Cardinality(upto(c)) <= Cardinality(upto(b))
        <4>1. b \in Batches
          BY <3>1
        <4> HIDE DEF upto
        <4> QED BY <4>1, <1>3, <3>3, FS_Subset
      <3>5. Cardinality(upto(c)) + Cardinality(p) <= PipelineSize
        <4> HIDE DEF upto
        <4> QED BY <1>3, <1>4, <3>1, <3>4, SizeAssumption
      <3> QED BY <1>2, <3>2, <3>5
    <2> QED BY <2>1, <2>2, <2>3
  <1> QED BY <1>2, <1>5
-----------------------------------------------------------------------------
(* What the actions share.                                                 *)

\* Batches are numbered.
LEMMA BatchesAreNat == Batches \subseteq Nat
  BY WriteBounds DEF Batches

\* The fields of the three kinds of tasks.
LEMMA TaskTypes ==
  /\ \A t \in Tasks :
       /\ t.kind \in {"write", "change", "token"}
       /\ t.kind = "write" => t.batch \in Batches
       /\ t.kind = "change" => t.user \in Users
       /\ t.kind = "token" => t.user \in Users /\ t.close \in Nat
  /\ \A b \in Batches : [kind |-> "write", batch |-> b] \in Tasks
  /\ \A u \in Users : [kind |-> "change", user |-> u] \in Tasks
  /\ \A u \in Users, c \in Nat : [kind |-> "token", user |-> u, close |-> c] \in Tasks
  BY DEF Tasks

\* StartWriteStream, of a stream that is closed.
LEMMA StartWithIs ==
  ASSUME NEW state \in {"Initial", "Error"}, NEW p, NEW close \in Nat,
         asked \subseteq Nat, StartWith(state, p, close)
  PROVE  /\ stream' \in {"Initial", "Error", "Backoff", "Starting"}
         /\ asked' \subseteq asked \cup {close} /\ asked' \subseteq Nat
         /\ close \in asked' /\ close \notin asked => stream' = "Starting"
         /\ state = "Initial" \/ stream' # "Starting"
  BY DEF StartWith

\* A stream that was closed, and perhaps started again: no token is under way
\* for it but the one it has just asked for.
LEMMA ClosedIs ==
  ASSUME WriteTypeOK, AskedOnce, Closed,
         NEW state \in {"Initial", "Error"}, NEW p, StartWith(state, p, closes'),
         \A i \in 1 .. Len(tasks') : tasks'[i].kind = "token" => tasks'[i].close <= closes,
         \A i \in 1 .. Len(tasks') : tasks'[i].kind = "token" => tasks'[i].close \in Nat
  PROVE  /\ StreamAgrees' /\ AskedOnce' /\ TokenOnce' /\ TokenOfUser'
         /\ sent' = {} /\ done' = {} /\ shook' = FALSE /\ idle' = FALSE
         /\ grpc' = NoUser /\ closes' \in Nat
         /\ stream' \in States /\ asked' \subseteq Nat
  <1>1. /\ closes \in Nat /\ closes' = closes + 1 /\ asked \subseteq Nat
        /\ grpc' = NoUser /\ shook' = FALSE /\ idle' = FALSE /\ sent' = {} /\ done' = {}
    BY DEF WriteTypeOK, Closed
  <1>2. closes' \in Nat /\ closes' \notin asked /\ \A c \in asked : c <= closes'
    BY <1>1, SMT DEF AskedOnce
  <1>3. /\ stream' \in {"Initial", "Error", "Backoff", "Starting"}
        /\ asked' \subseteq asked \cup {closes'} /\ asked' \subseteq Nat
        /\ closes' \in asked' /\ closes' \notin asked => stream' = "Starting"
    BY <1>1, <1>2, StartWithIs
  <1>4. \A i \in 1 .. Len(tasks') :
          tasks'[i].kind = "token" => tasks'[i].close <= closes' /\ tasks'[i].close # closes'
    BY <1>1
  <1>5. StreamAgrees'
    BY <1>1, <1>3 DEF StreamAgrees
  <1>6. AskedOnce'
    BY <1>1, <1>2, <1>3 DEF AskedOnce
  <1>7. TokenOnce' /\ TokenOfUser'
    BY <1>1, <1>4 DEF TokenOnce, TokenOfUser
  <1> QED BY <1>1, <1>2, <1>3, <1>5, <1>6, <1>7 DEF States

\* The next task ran: the others are one place further, and of the same users.
LEMMA TaskRan ==
  ASSUME WriteTypeOK, tasks # <<>>, tasks' = Tail(tasks),
         user' = IF Head(tasks).kind = "change" THEN Head(tasks).user ELSE user
  PROVE  /\ tasks' \in Seq(Tasks) /\ Len(tasks) \in Nat /\ Len(tasks) = Len(tasks') + 1
         /\ Len(tasks') \in Nat
         /\ Head(tasks) \in Tasks /\ Head(tasks) = tasks[1]
         /\ \A i \in 1 .. Len(tasks') :
              /\ tasks'[i] = tasks[i + 1] /\ i + 1 \in 1 .. Len(tasks) /\ i + 1 # 1
              /\ tasks'[i] \in Tasks
         /\ \A i \in 1 .. Len(tasks) : \A u : Becomes(tasks, user, i + 1, u) =>
              Becomes(tasks', user', i, u)
  <1>1. tasks \in Seq(Tasks)
    BY DEF WriteTypeOK
  <1>2. /\ tasks' \in Seq(Tasks) /\ Len(tasks') = Len(tasks) - 1 /\ Len(tasks) \in Nat \ {0}
        /\ Head(tasks) \in Tasks /\ Head(tasks) = tasks[1]
        /\ \A i \in 1 .. Len(tasks) - 1 : tasks'[i] = tasks[i + 1]
    BY <1>1, TailTask
  <1>3. /\ Len(tasks) = Len(tasks') + 1 /\ Len(tasks') \in Nat
        /\ \A i \in 1 .. Len(tasks') : i + 1 \in 1 .. Len(tasks) /\ i + 1 # 1
    BY <1>2
  <1>4. \A i \in 1 .. Len(tasks') : tasks'[i] = tasks[i + 1] /\ tasks'[i] \in Tasks
    BY <1>1, <1>2, <1>3, ElementOfSeq
  <1>5. \A i \in 1 .. Len(tasks) : \A u : Becomes(tasks, user, i + 1, u) =>
          Becomes(tasks', user', i, u)
    BY <1>1, BecomesNext
  <1> QED BY <1>2, <1>3, <1>4, <1>5

\* What is in the queues and still to come keeps its order and its users when a
\* task runs that writes nothing.
LEMMA TaskRanInOrder ==
  ASSUME WriteTypeOK, WriteOfUser, WritesInOrder,
         tasks # <<>>, tasks' = Tail(tasks),
         user' = IF Head(tasks).kind = "change" THEN Head(tasks).user ELSE user,
         UNCHANGED <<told, author, queue, writes, took>>
  PROVE  WriteOfUser' /\ WritesInOrder'
  <1>1. /\ Len(tasks) \in Nat /\ Len(tasks) = Len(tasks') + 1 /\ Len(tasks') \in Nat
        /\ \A i \in 1 .. Len(tasks') :
             tasks'[i] = tasks[i + 1] /\ i + 1 \in 1 .. Len(tasks)
        /\ \A i \in 1 .. Len(tasks) : \A u : Becomes(tasks, user, i + 1, u) =>
             Becomes(tasks', user', i, u)
    BY TaskRan
  <1>2. WriteOfUser'
    <2>1. Becomes(tasks', user', Len(tasks') + 1, told')
      BY <1>1, Len(tasks) \in 1 .. Len(tasks) DEF WriteOfUser
    <2>2. ASSUME NEW i \in 1 .. Len(tasks'), tasks'[i].kind = "write"
          PROVE  Becomes(tasks', user', i, author'[tasks'[i].batch])
      <3>1. Becomes(tasks, user, i + 1, author[tasks[i + 1].batch])
        BY <1>1, <2>2 DEF WriteOfUser
      <3>2. i \in 1 .. Len(tasks)
        BY <1>1
      <3> QED BY <1>1, <3>1, <3>2
    <2>3. \A u \in Users : \A b \in queue'[u] : author'[b] = u
      BY DEF WriteOfUser
    <2> QED BY <2>1, <2>2, <2>3 DEF WriteOfUser
  <1>3. WritesInOrder'
    <2>1. ASSUME NEW i \in 1 .. Len(tasks'), tasks'[i].kind = "write"
          PROVE  /\ tasks'[i].batch <= writes'
                 /\ \A j \in 1 .. i - 1 : tasks'[j].kind = "write" =>
                      tasks'[j].batch < tasks'[i].batch
                 /\ \A u \in Users : \A b \in queue'[u] : b < tasks'[i].batch
      <3>1. tasks'[i] = tasks[i + 1] /\ i + 1 \in 1 .. Len(tasks)
        BY <1>1
      <3>2. \A j \in 1 .. i - 1 : tasks'[j] = tasks[j + 1] /\ j + 1 \in 1 .. i + 1 - 1
        BY <1>1, <3>1
      <3> QED BY <2>1, <3>1, <3>2 DEF WritesInOrder
    <2> QED BY <2>1 DEF WritesInOrder
  <1> QED BY <1>2, <1>3

\* So they do when no task runs and the queues get no writes.
LEMMA QueuesShrink ==
  ASSUME WriteOfUser, WritesInOrder,
         UNCHANGED <<tasks, user, told, author, writes, took>>,
         \A u \in Users : queue'[u] \subseteq queue[u]
  PROVE  WriteOfUser' /\ WritesInOrder'
  <1>1. WriteOfUser'
    BY DEF WriteOfUser
  <1>2. WritesInOrder'
    BY DEF WritesInOrder
  <1> QED BY <1>1, <1>2

\* Tokens of the tasks that are left.
LEMMA TokensLeft ==
  ASSUME WriteTypeOK, TokenOnce, tasks # <<>>, tasks' = Tail(tasks),
         user' = IF Head(tasks).kind = "change" THEN Head(tasks).user ELSE user
  PROVE  \A i \in 1 .. Len(tasks') : tasks'[i].kind = "token" =>
           tasks'[i].close \in Nat /\ tasks'[i].close <= closes
  BY TaskRan, TaskTypes DEF TokenOnce

\* So it is for those of a queue that stays.
LEMMA TokensThere ==
  ASSUME WriteTypeOK, TokenOnce, UNCHANGED tasks
  PROVE  \A i \in 1 .. Len(tasks') : tasks'[i].kind = "token" =>
           tasks'[i].close \in Nat /\ tasks'[i].close <= closes
  BY TaskTypes, ElementOfSeq DEF TokenOnce, WriteTypeOK
-----------------------------------------------------------------------------
(* Every step keeps the invariant: Auth and the app.                       *)

\* The invariant holds when the app starts with nothing to send.
THEOREM InitIInv == Init => IInv
  <1> SUFFICES ASSUME Init PROVE IInv
    OBVIOUS
  <1> USE DEF Init
  <1>1. /\ tasks = <<>> /\ Len(tasks) = 0 /\ tasks \in Seq(Tasks)
        /\ \A i \in 1 .. Len(tasks) : FALSE
    BY EmptySeq
  <1>2. WriteTypeOK
    <2>1. queue \in [Users -> SUBSET Batches] /\ took \in [Batches -> SUBSET Users]
      OBVIOUS
    <2>2. authUser \in Users /\ author \in [Batches -> Users] /\ notices \in Seq(Users)
      OBVIOUS
    <2>3. writes \in 0 .. MaxWrites /\ changes \in 0 .. MaxChanges /\ faults \in 0 .. MaxFaults
      BY WriteBounds
    <2> QED BY <1>1, <2>1, <2>2, <2>3 DEF WriteTypeOK, States
  <1>3. TakenFromItsAuthor /\ PipelineIsFirst /\ SentIsPipeline /\ StreamAgrees
    BY UsersAssumption DEF TakenFromItsAuthor, PipelineIsFirst, SentIsPipeline, StreamAgrees
  <1>4. AskedOnce /\ TokenOnce /\ TokenOfUser
    BY <1>1 DEF AskedOnce, TokenOnce, TokenOfUser
  <1>5. WriteOfUser
    <2>1. Len(tasks) + 1 - 1 = 0 /\ \A j \in 1 .. 0 : FALSE
      BY <1>1
    <2>2. Becomes(tasks, user, Len(tasks) + 1, told)
      BY <2>1 DEF Becomes
    <2> QED BY <1>1, <2>2 DEF WriteOfUser
  <1>6. WritesInOrder
    BY <1>1 DEF WritesInOrder
  <1> QED BY <1>2, <1>3, <1>4, <1>5, <1>6 DEF IInv

\* A write the app calls for is the newest, and of the user Firestore was told of last.
LEMMA StepWrite == IInv /\ Write => IInv'
  <1> SUFFICES ASSUME IInv, Write PROVE IInv'
    OBVIOUS
  <1> DEFINE t == [kind |-> "write", batch |-> writes']
  <1>1. /\ writes < MaxWrites /\ writes' = writes + 1 /\ tasks' = Append(tasks, t)
        /\ author' = [author EXCEPT ![writes'] = told]
        /\ UNCHANGED <<auth, asked, local, remote, changes, faults, took, refused, early>>
    BY DEF Write
  <1>2. /\ writes \in Nat /\ writes' \in Nat /\ writes' \in 1 .. MaxWrites
        /\ writes' \in Batches /\ writes' \in 0 .. MaxWrites
    BY <1>1, WriteBounds DEF IInv, WriteTypeOK, Batches
  <1>3. tasks \in Seq(Tasks) /\ t \in Tasks /\ told \in Users /\ author \in [Batches -> Users]
    BY <1>2, TaskTypes DEF IInv, WriteTypeOK
  <1>4. /\ tasks' \in Seq(Tasks) /\ Len(tasks') = Len(tasks) + 1 /\ Len(tasks) \in Nat
        /\ tasks'[Len(tasks')] = t /\ t.kind = "write" /\ t.batch = writes'
        /\ \A i \in 1 .. Len(tasks) : tasks'[i] = tasks[i]
        /\ \A i \in 1 .. Len(tasks') : i \in 1 .. Len(tasks) \/ i = Len(tasks')
    BY <1>1, <1>3, AppendTask
  <1>5. /\ author' \in [Batches -> Users] /\ author'[writes'] = told
        /\ \A b \in Batches : b <= writes => author'[b] = author[b]
    BY <1>1, <1>2, <1>3
  <1>6. \A i \in 1 .. Len(tasks) : tasks[i].kind = "write" =>
          tasks[i].batch \in Batches /\ tasks[i].batch <= writes
    BY <1>3, TaskTypes, ElementOfSeq DEF IInv, WritesInOrder
  <1> HIDE DEF t
  <1>7. WriteTypeOK'
    BY <1>1, <1>2, <1>4, <1>5 DEF IInv, WriteTypeOK, auth, local, remote
  <1>8. TakenFromItsAuthor'
    <2>1. \A b \in Batches : took[b] # {} => author'[b] = author[b]
      BY <1>5 DEF IInv, WritesInOrder
    <2> QED BY <1>1, <2>1 DEF IInv, TakenFromItsAuthor
  <1>9. PipelineIsFirst' /\ SentIsPipeline' /\ StreamAgrees' /\ AskedOnce'
    BY <1>1 DEF IInv, PipelineIsFirst, SentIsPipeline, StreamAgrees, AskedOnce, local, remote
  <1>10. TokenOnce'
    BY <1>1, <1>4 DEF IInv, TokenOnce, remote
  <1>11. \A i \in 1 .. Len(tasks) + 1 : \A u : Becomes(tasks, user, i, u) => Becomes(tasks', user, i, u)
    BY <1>1, <1>3, BecomesBefore
  <1>12. TokenOfUser'
    BY <1>1, <1>4, <1>11 DEF IInv, TokenOfUser, remote, local
  <1>13. WriteOfUser'
    <2>1. Becomes(tasks, user, Len(tasks) + 1, told)
      BY DEF IInv, WriteOfUser
    <2>2. Becomes(tasks', user, Len(tasks) + 2, told)
      BY <1>1, <1>3, <1>4, <2>1, BecomesBehind, Zenon
    <2>3. Becomes(tasks', user, Len(tasks) + 1, told)
      BY <2>1, <1>4, <1>11
    <2>4. ASSUME NEW i \in 1 .. Len(tasks'), tasks'[i].kind = "write"
          PROVE  Becomes(tasks', user, i, author'[tasks'[i].batch])
      <3>1. CASE i = Len(tasks')
        BY <3>1, <1>4, <1>5, <2>3
      <3>2. CASE i \in 1 .. Len(tasks)
        BY <3>2, <2>4, <1>4, <1>5, <1>6, <1>11 DEF IInv, WriteOfUser
      <3> QED BY <1>4, <3>1, <3>2
    <2>5. \A u \in Users : \A b \in queue[u] : author'[b] = u
      BY <1>5 DEF IInv, WriteOfUser, WritesInOrder, WriteTypeOK
    <2>6. Len(tasks') + 1 = Len(tasks) + 2
      BY <1>4
    <2> QED BY <1>1, <2>2, <2>4, <2>5, <2>6 DEF WriteOfUser, auth, local
  <1>14. WritesInOrder'
    <2>1. \A u \in Users : \A b \in queue[u] : b \in Nat /\ b <= writes
      BY BatchesAreNat DEF IInv, WriteTypeOK, WritesInOrder
    <2>2. \A b \in Batches : took[b] # {} => b <= writes'
      <3>1. \A b \in Batches : took[b] # {} => b <= writes
        BY DEF IInv, WritesInOrder
      <3>2. writes \in Nat /\ writes' = writes + 1 /\ Batches \subseteq Nat
        BY <1>1, <1>2, BatchesAreNat
      <3> QED BY <3>1, <3>2
    <2>3. ASSUME NEW i \in 1 .. Len(tasks'), tasks'[i].kind = "write"
          PROVE  /\ tasks'[i].batch <= writes'
                 /\ \A j \in 1 .. i - 1 : tasks'[j].kind = "write" =>
                      tasks'[j].batch < tasks'[i].batch
                 /\ \A u \in Users : \A b \in queue[u] : b < tasks'[i].batch
      <3>1. \A j \in 1 .. i - 1 : j \in 1 .. Len(tasks)
        BY <1>4
      <3>2. CASE i = Len(tasks')
        <4>1. tasks'[i].batch = writes + 1 /\ writes \in Nat /\ writes' = writes + 1
          BY <3>2, <1>1, <1>2, <1>4
        <4>2. \A j \in 1 .. i - 1 : tasks'[j].kind = "write" =>
                tasks'[j].batch \in Nat /\ tasks'[j].batch <= writes
          BY <3>1, <1>4, <1>6, BatchesAreNat
        <4> QED BY <4>1, <4>2, <2>1
      <3>3. CASE i \in 1 .. Len(tasks)
        <4>1. tasks'[i] = tasks[i] /\ \A j \in 1 .. i - 1 : tasks'[j] = tasks[j]
          BY <3>1, <3>3, <1>4
        <4>2. tasks[i].batch \in Nat /\ tasks[i].batch <= writes + 1
          <5>1. tasks[i].batch \in Batches /\ tasks[i].batch <= writes
            BY <3>3, <2>3, <4>1, <1>6
          <5>2. tasks[i].batch \in Nat /\ writes \in Nat
            BY <5>1, <1>2, BatchesAreNat
          <5>3. \A a, b \in Nat : a <= b => a <= b + 1
            OBVIOUS
          <5> QED BY <5>1, <5>2, <5>3
        <4>3. /\ \A j \in 1 .. i - 1 : tasks[j].kind = "write" => tasks[j].batch < tasks[i].batch
              /\ \A u \in Users : \A b \in queue[u] : b < tasks[i].batch
          BY <3>3, <2>3, <4>1 DEF IInv, WritesInOrder
        <4> QED BY <4>1, <4>2, <4>3, <1>1
      <3> QED BY <1>4, <3>2, <3>3
    <2> QED BY <1>1, <1>2, <2>1, <2>2, <2>3 DEF WritesInOrder, local
  <1> QED BY <1>7, <1>8, <1>9, <1>10, <1>12, <1>13, <1>14 DEF IInv

\* A change in Auth alone changes nothing here.
LEMMA StepAuthChanges == IInv /\ AuthChanges => IInv'
  <1> SUFFICES ASSUME IInv, AuthChanges PROVE IInv'
    OBVIOUS
  <1>1. WriteTypeOK'
    BY WriteBounds DEF IInv, AuthChanges, WriteTypeOK, local, remote, history
  <1>2. TakenFromItsAuthor' /\ PipelineIsFirst' /\ SentIsPipeline' /\ StreamAgrees'
    BY DEF IInv, AuthChanges, TakenFromItsAuthor, PipelineIsFirst, SentIsPipeline,
           StreamAgrees, local, remote, history
  <1>3. AskedOnce' /\ TokenOnce' /\ TokenOfUser'
    BY DEF IInv, AuthChanges, AskedOnce, TokenOnce, TokenOfUser, local, remote, history
  <1>4. WriteOfUser' /\ WritesInOrder'
    BY DEF IInv, AuthChanges, WriteOfUser, WritesInOrder, local, remote, history
  <1> QED BY <1>1, <1>2, <1>3, <1>4 DEF IInv

\* A change is behind all tasks before it.
LEMMA StepNotified == IInv /\ Notified => IInv'
  <1> SUFFICES ASSUME IInv, Notified PROVE IInv'
    OBVIOUS
  <1> DEFINE v == Head(notices)
             t == [kind |-> "change", user |-> v]
  <1>1. /\ notices # <<>> /\ notices' = Tail(notices)
        /\ told' = v /\ tasks' = Append(tasks, t)
        /\ UNCHANGED <<authUser, asked, local, remote, counters, history>>
    BY DEF Notified
  <1>0. v \in Users /\ notices' \in Seq(Users)
    BY <1>1 DEF IInv, WriteTypeOK
  <1>2. tasks \in Seq(Tasks) /\ t \in Tasks
    BY <1>0, TaskTypes DEF IInv, WriteTypeOK
  <1>3. /\ tasks' \in Seq(Tasks) /\ Len(tasks') = Len(tasks) + 1 /\ Len(tasks) \in Nat
        /\ tasks'[Len(tasks')] = t /\ t.kind = "change" /\ t.user = v
        /\ \A i \in 1 .. Len(tasks) : tasks'[i] = tasks[i]
        /\ \A i \in 1 .. Len(tasks') : i \in 1 .. Len(tasks) \/ i = Len(tasks')
    BY <1>1, <1>2, AppendTask
  <1> HIDE DEF t, v
  <1>4. \A i \in 1 .. Len(tasks) + 1 : \A u : Becomes(tasks, user, i, u) => Becomes(tasks', user, i, u)
    BY <1>1, <1>2, BecomesBefore
  <1>5. WriteTypeOK'
    BY <1>0, <1>1, <1>2, <1>3 DEF IInv, WriteTypeOK, local, remote, counters, history
  <1>6. TakenFromItsAuthor' /\ PipelineIsFirst' /\ SentIsPipeline' /\ StreamAgrees' /\ AskedOnce'
    BY <1>1 DEF IInv, TakenFromItsAuthor, PipelineIsFirst, SentIsPipeline, StreamAgrees,
                AskedOnce, local, remote, history
  <1>7. TokenOnce'
    BY <1>1, <1>3 DEF IInv, TokenOnce, remote
  <1>8. TokenOfUser'
    BY <1>1, <1>3, <1>4 DEF IInv, TokenOfUser, remote, local, history
  <1>9. WriteOfUser'
    <2>1. Becomes(tasks', user, Len(tasks) + 2, v) /\ Len(tasks') + 1 = Len(tasks) + 2
      BY <1>1, <1>2, <1>3, BecomesBehind
    <2>2. \A i \in 1 .. Len(tasks') : tasks'[i].kind = "write" =>
            Becomes(tasks', user, i, author[tasks'[i].batch])
      BY <1>3, <1>4 DEF IInv, WriteOfUser
    <2> QED BY <1>1, <2>1, <2>2 DEF IInv, WriteOfUser, local, history
  <1>10. WritesInOrder'
    <2>1. ASSUME NEW i \in 1 .. Len(tasks'), tasks'[i].kind = "write"
          PROVE  i \in 1 .. Len(tasks) /\ tasks'[i] = tasks[i]
                 /\ \A j \in 1 .. i - 1 : tasks'[j] = tasks[j]
      <3>1. i \in 1 .. Len(tasks) /\ tasks'[i] = tasks[i]
        BY <1>3, <2>1
      <3>2. \A j \in 1 .. i - 1 : j \in 1 .. Len(tasks)
        BY <1>3, <3>1
      <3> QED BY <1>3, <3>1, <3>2
    <2> QED BY <1>1, <2>1 DEF IInv, WritesInOrder, local, counters, history
  <1> QED BY <1>5, <1>6, <1>7, <1>8, <1>9, <1>10 DEF IInv

\* The token is that of the user when its turn comes, unless it is early.
LEMMA StepTokenGiven == ASSUME NEW close PROVE IInv /\ TokenGiven(close) => IInv'
  <1> SUFFICES ASSUME IInv, TokenGiven(close) PROVE IInv'
    OBVIOUS
  <1> DEFINE t == [kind |-> "token", user |-> authUser, close |-> close]
  <1>1. /\ close \in asked /\ asked' = asked \ {close} /\ tasks' = Append(tasks, t)
        /\ early' = (early \/ authUser # told)
        /\ UNCHANGED <<auth, local, remote, counters, took, author, refused>>
    BY DEF TokenGiven
  <1>2. /\ tasks \in Seq(Tasks) /\ t \in Tasks /\ authUser \in Users
        /\ close \in Nat /\ close <= closes /\ early' \in BOOLEAN
        /\ closes = close => stream = "Starting"
    BY <1>1, TaskTypes DEF IInv, WriteTypeOK, AskedOnce
  <1>3. /\ tasks' \in Seq(Tasks) /\ Len(tasks') = Len(tasks) + 1 /\ Len(tasks) \in Nat
        /\ tasks'[Len(tasks')] = t /\ t.kind = "token" /\ t.user = authUser /\ t.close = close
        /\ \A i \in 1 .. Len(tasks) : tasks'[i] = tasks[i]
        /\ \A i \in 1 .. Len(tasks') : i \in 1 .. Len(tasks) \/ i = Len(tasks')
    BY <1>1, <1>2, AppendTask
  <1> HIDE DEF t
  <1>4. \A i \in 1 .. Len(tasks) + 1 : \A u : Becomes(tasks, user, i, u) => Becomes(tasks', user, i, u)
    BY <1>1, <1>2, BecomesBefore
  <1>5. WriteTypeOK'
    BY <1>1, <1>2, <1>3 DEF IInv, WriteTypeOK, auth, local, remote, counters
  <1>6. TakenFromItsAuthor' /\ PipelineIsFirst' /\ SentIsPipeline' /\ StreamAgrees'
    BY <1>1 DEF IInv, TakenFromItsAuthor, PipelineIsFirst, SentIsPipeline, StreamAgrees,
                local, remote
  <1>7. AskedOnce'
    BY <1>1 DEF IInv, AskedOnce, remote
  <1>8. TokenOnce'
    <2>1. closes' = closes /\ stream' = stream
      BY <1>1 DEF remote
    <2>2. CASE close = closes
      <3>1. \A i \in 1 .. Len(tasks) : tasks[i].kind = "token" => tasks[i].close # closes
        BY <1>1, <2>2 DEF IInv, TokenOnce
      <3>2. stream = "Starting" /\ closes \notin asked'
        BY <1>1, <1>2, <2>2
      <3> QED BY <1>2, <1>3, <2>1, <2>2, <3>1, <3>2 DEF IInv, TokenOnce
    <2>3. CASE close # closes
      BY <1>1, <1>2, <1>3, <2>1, <2>3 DEF IInv, TokenOnce
    <2> QED BY <2>2, <2>3
  <1>9. TokenOfUser'
    <2>1. SUFFICES ASSUME ~early', NEW i \in 1 .. Len(tasks'),
                          tasks'[i].kind = "token", tasks'[i].close = closes
                   PROVE  Becomes(tasks', user, i, tasks'[i].user)
      BY <1>1 DEF IInv, TokenOfUser, local, remote
    <2>2. ~early /\ authUser = told
      BY <1>1, <2>1
    <2>3. CASE i \in 1 .. Len(tasks)
      BY <2>1, <2>2, <2>3, <1>3, <1>4 DEF IInv, TokenOfUser
    <2>4. CASE i = Len(tasks')
      <3>1. Becomes(tasks', user, Len(tasks) + 1, told)
        BY <1>3, <1>4 DEF IInv, WriteOfUser
      <3> QED BY <2>2, <2>4, <3>1, <1>3
    <2> QED BY <2>3, <2>4, <1>3
  <1>10. WriteOfUser'
    <2>1. Becomes(tasks, user, Len(tasks) + 1, told)
      BY DEF IInv, WriteOfUser
    <2>2. Becomes(tasks', user, Len(tasks) + 2, told) /\ Len(tasks') + 1 = Len(tasks) + 2
      <3>1. t.kind # "change"
        BY <1>3
      <3>2. Becomes(Append(tasks, t), user, Len(tasks) + 2, told)
        BY <1>2, <2>1, <3>1, BecomesBehind, Zenon
      <3> QED BY <1>1, <1>3, <3>2
    <2>3. \A i \in 1 .. Len(tasks') : tasks'[i].kind = "write" =>
            Becomes(tasks', user, i, author[tasks'[i].batch])
      BY <1>3, <1>4 DEF IInv, WriteOfUser
    <2> QED BY <1>1, <2>2, <2>3 DEF IInv, WriteOfUser, auth, local
  <1>11. WritesInOrder'
    <2>1. ASSUME NEW i \in 1 .. Len(tasks'), tasks'[i].kind = "write"
          PROVE  i \in 1 .. Len(tasks) /\ tasks'[i] = tasks[i]
                 /\ \A j \in 1 .. i - 1 : tasks'[j] = tasks[j]
      <3>1. i \in 1 .. Len(tasks) /\ tasks'[i] = tasks[i]
        BY <1>3, <2>1
      <3>2. \A j \in 1 .. i - 1 : j \in 1 .. Len(tasks)
        BY <1>3, <3>1
      <3> QED BY <1>3, <3>1, <3>2
    <2> QED BY <1>1, <2>1 DEF IInv, WritesInOrder, local, counters
  <1> QED BY <1>5, <1>6, <1>7, <1>8, <1>9, <1>10, <1>11 DEF IInv

-----------------------------------------------------------------------------
(* Every step keeps the invariant: the worker queue.                       *)

\* A token that is used finds its stream starting, and no other for it.
LEMMA StepRunToken == IInv /\ RunToken => IInv'
  <1> SUFFICES ASSUME IInv, RunToken PROVE IInv'
    OBVIOUS
  <1> USE DEF IInv
  <1>1. /\ tasks # <<>> /\ Head(tasks).kind = "token" /\ tasks' = Tail(tasks)
        /\ Head(tasks).close = closes
        /\ stream' = "Open" /\ grpc' = Head(tasks).user
        /\ UNCHANGED <<auth, asked, local, pipeline, shook, idle, closes, sent, done,
                       counters, history>>
    BY DEF RunToken, Run, Current
  <1>2. user' = IF Head(tasks).kind = "change" THEN Head(tasks).user ELSE user
    BY <1>1 DEF local
  <1>3. /\ tasks' \in Seq(Tasks) /\ Len(tasks) \in Nat \ {0}
        /\ Head(tasks) \in Tasks /\ Head(tasks) = tasks[1]
        /\ \A i \in 1 .. Len(tasks') :
             tasks'[i] = tasks[i + 1] /\ i + 1 \in 1 .. Len(tasks) /\ i + 1 # 1
    BY <1>1, <1>2, TaskRan
  <1>4. 1 \in 1 .. Len(tasks) /\ Head(tasks).user \in Users
    BY <1>1, <1>3, TaskTypes
  <1>5. stream = "Starting" /\ closes \notin asked
        /\ \A j \in 1 .. Len(tasks) : tasks[j].kind = "token" /\ tasks[j].close = closes => j = 1
    BY <1>1, <1>3, <1>4 DEF TokenOnce
  <1>6. shook = FALSE /\ idle = FALSE
    BY <1>5 DEF StreamAgrees, WriteTypeOK
  <1>7. WriteTypeOK'
    BY <1>1, <1>3, <1>4 DEF WriteTypeOK, States, auth, local, counters, history
  <1>8. TakenFromItsAuthor' /\ PipelineIsFirst' /\ SentIsPipeline'
    BY <1>1 DEF TakenFromItsAuthor, PipelineIsFirst, SentIsPipeline, local, history
  <1>9. StreamAgrees'
    BY <1>1, <1>4, <1>6, UsersAssumption DEF StreamAgrees
  <1>10. AskedOnce'
    BY <1>1, <1>5 DEF AskedOnce
  <1>11. \A i \in 1 .. Len(tasks') : tasks'[i].kind = "token" =>
           tasks'[i].close <= closes /\ tasks'[i].close # closes
    BY <1>3, <1>5 DEF TokenOnce
  <1>12. TokenOnce'
    BY <1>1, <1>11 DEF TokenOnce
  <1>13. TokenOfUser'
    <2>1. ASSUME ~early PROVE Head(tasks).user = user
      <3>1. Becomes(tasks, user, 1, tasks[1].user)
        BY <2>1, <1>1, <1>3, <1>4 DEF TokenOfUser
      <3> QED BY <3>1, <1>3, BecomesFirst
    <2> QED BY <1>1, <1>11, <2>1 DEF TokenOfUser, local, history
  <1>14. WriteOfUser' /\ WritesInOrder'
    BY <1>1, <1>2, TaskRanInOrder DEF auth, local, counters, history
  <1> QED BY <1>7, <1>8, <1>9, <1>10, <1>12, <1>13, <1>14

\* A stale token changes nothing.
LEMMA StepRunStaleToken == IInv /\ RunStaleToken => IInv'
  <1> SUFFICES ASSUME IInv, RunStaleToken PROVE IInv'
    OBVIOUS
  <1> USE DEF IInv
  <1>1. /\ tasks # <<>> /\ Head(tasks).kind = "token" /\ tasks' = Tail(tasks)
        /\ UNCHANGED <<auth, asked, local, remote, counters, history>>
    BY DEF RunStaleToken, Run
  <1>2. user' = IF Head(tasks).kind = "change" THEN Head(tasks).user ELSE user
    BY <1>1 DEF local
  <1>3. /\ tasks' \in Seq(Tasks) /\ Len(tasks) = Len(tasks') + 1 /\ Len(tasks') \in Nat
        /\ \A i \in 1 .. Len(tasks') : tasks'[i] = tasks[i + 1] /\ i + 1 \in 1 .. Len(tasks)
        /\ \A i \in 1 .. Len(tasks) : \A u : Becomes(tasks, user, i + 1, u) =>
             Becomes(tasks', user', i, u)
    BY <1>1, <1>2, TaskRan
  <1>4. WriteTypeOK'
    BY <1>1, <1>3 DEF WriteTypeOK, auth, local, remote, counters, history
  <1>5. TakenFromItsAuthor' /\ PipelineIsFirst' /\ SentIsPipeline' /\ StreamAgrees' /\ AskedOnce'
    BY <1>1 DEF TakenFromItsAuthor, PipelineIsFirst, SentIsPipeline, StreamAgrees, AskedOnce,
                local, remote, history
  <1>6. TokenOnce'
    <2>1. \A i, j \in 1 .. Len(tasks') : i + 1 = j + 1 => i = j
      BY <1>3
    <2> QED BY <1>1, <1>3, <2>1 DEF TokenOnce, remote
  <1>7. TokenOfUser'
    <2>1. \A i \in 1 .. Len(tasks') : i \in 1 .. Len(tasks)
      BY <1>3
    <2> QED BY <1>1, <1>3, <2>1 DEF TokenOfUser, remote, local, history
  <1>8. WriteOfUser' /\ WritesInOrder'
    BY <1>1, <1>2, TaskRanInOrder DEF auth, local, counters, history
  <1> QED BY <1>4, <1>5, <1>6, <1>7, <1>8
\* What a write that runs does to its user's queue.
LEMMA WriteKept ==
  ASSUME IInv, RunWrite
  PROVE  /\ Head(tasks).batch \in Batches /\ author[Head(tasks).batch] = user
         /\ user \in Users /\ queue' = [queue EXCEPT ![user] = @ \cup {Head(tasks).batch}]
         /\ queue' \in [Users -> SUBSET Batches]
         /\ \A u \in Users : \A c \in queue[u] : c < Head(tasks).batch
         /\ pipeline \subseteq queue'[user]
         /\ \A b \in pipeline, c \in queue'[user] : c < b => c \in pipeline
  <1> USE DEF IInv
  <1> DEFINE b == Head(tasks).batch
  <1>1. /\ tasks # <<>> /\ Head(tasks).kind = "write" /\ tasks' = Tail(tasks)
        /\ queue' = [queue EXCEPT ![user] = @ \cup {b}] /\ user' = user
    BY DEF RunWrite, Run
  <1>2. Head(tasks) \in Tasks /\ Head(tasks) = tasks[1] /\ 1 \in 1 .. Len(tasks)
    <2>1. user' = IF Head(tasks).kind = "change" THEN Head(tasks).user ELSE user
      BY <1>1
    <2>2. /\ Head(tasks) \in Tasks /\ Head(tasks) = tasks[1]
          /\ Len(tasks') \in Nat /\ Len(tasks) = Len(tasks') + 1
      BY <1>1, <2>1, TaskRan
    <2> QED BY <2>2
  <1>3. b \in Batches
    BY <1>1, <1>2, TaskTypes
  <1>4. author[b] = user
    <2>1. Becomes(tasks, user, 1, author[tasks[1].batch])
      BY <1>1, <1>2 DEF WriteOfUser
    <2> QED BY <1>2, <2>1, BecomesFirst
  <1>5. \A u \in Users : \A c \in queue[u] : c < b
    BY <1>1, <1>2 DEF WritesInOrder
  <1>6. user \in Users /\ queue \in [Users -> SUBSET Batches]
    BY DEF WriteTypeOK
  <1>7. queue' \in [Users -> SUBSET Batches] /\ queue'[user] = queue[user] \cup {b}
    BY <1>1, <1>3, <1>6
  <1>8. \A x \in pipeline : ~ (b < x)
    <2>1. \A x \in pipeline : x < b /\ x \in Nat /\ b \in Nat
      BY <1>3, <1>5, <1>6, BatchesAreNat DEF PipelineIsFirst
    <2> HIDE DEF b
    <2> QED BY <2>1
  <1>9. \A x \in pipeline, c \in queue'[user] : c < x => c \in pipeline
    BY <1>7, <1>8 DEF PipelineIsFirst
  <1> QED BY <1>1, <1>3, <1>4, <1>5, <1>6, <1>7, <1>9 DEF PipelineIsFirst

\* A write is put behind its user's, and the pipeline stays the first part.
LEMMA StepRunWrite == IInv /\ RunWrite => IInv'
  <1> SUFFICES ASSUME IInv, RunWrite PROVE IInv'
    OBVIOUS
  <1> USE DEF IInv
  <1> DEFINE b == Head(tasks).batch
  <1>1. /\ tasks # <<>> /\ Head(tasks).kind = "write" /\ tasks' = Tail(tasks)
        /\ pipeline' = Filled(queue'[user], pipeline)
        /\ sent' = IF shook THEN sent \cup (pipeline' \ pipeline) ELSE sent
        /\ idle' = (idle /\ pipeline' = {})
        /\ IF Started THEN UNCHANGED <<stream, asked>> ELSE StartWith(stream, pipeline', closes)
        /\ UNCHANGED <<auth, user, shook, closes, grpc, done, counters, history>>
    BY DEF RunWrite, Run
  <1>2. user' = IF Head(tasks).kind = "change" THEN Head(tasks).user ELSE user
    BY <1>1
  <1>3. /\ tasks' \in Seq(Tasks) /\ Len(tasks) = Len(tasks') + 1 /\ Len(tasks') \in Nat
        /\ Len(tasks) \in Nat /\ Head(tasks) = tasks[1]
        /\ \A i \in 1 .. Len(tasks') : tasks'[i] = tasks[i + 1] /\ i + 1 \in 1 .. Len(tasks)
                                       /\ tasks'[i] \in Tasks
        /\ \A i \in 1 .. Len(tasks) : \A u : Becomes(tasks, user, i + 1, u) =>
             Becomes(tasks', user', i, u)
    BY <1>1, <1>2, TaskRan
  <1>4. /\ b \in Batches /\ author[b] = user
        /\ user \in Users /\ queue' = [queue EXCEPT ![user] = @ \cup {b}]
        /\ queue' \in [Users -> SUBSET Batches]
        /\ \A u \in Users : \A c \in queue[u] : c < b
        /\ pipeline \subseteq queue'[user]
        /\ \A x \in pipeline, c \in queue'[user] : c < x => c \in pipeline
    BY WriteKept
  <1> HIDE DEF b
  <1>5. /\ pipeline \subseteq pipeline' /\ pipeline' \subseteq queue'[user]
        /\ \A x \in pipeline', c \in queue'[user] : c < x => c \in pipeline'
    <2>1. queue'[user] \in SUBSET Batches
      BY <1>4
    <2> QED BY <1>1, <1>4, <2>1, FilledIsFirst
  <1>6. /\ stream' \in States /\ asked' \subseteq Nat
        /\ Started => stream' = stream /\ asked' = asked
        /\ ~Started => /\ stream' \in {"Initial", "Error", "Backoff", "Starting"}
                       /\ asked' \subseteq asked \cup {closes}
                       /\ closes \in asked' /\ closes \notin asked => stream' = "Starting"
    <2>1. ~Started => stream \in {"Initial", "Error"}
      BY DEF Started, WriteTypeOK, States
    <2>2. closes \in Nat /\ asked \subseteq Nat
      BY DEF WriteTypeOK
    <2>3. CASE Started
      BY <1>1, <2>2, <2>3 DEF WriteTypeOK
    <2>4. CASE ~Started
      <3>1. StartWith(stream, pipeline', closes)
        BY <1>1, <2>4
      <3> QED BY <2>1, <2>2, <2>4, <3>1, StartWithIs DEF States
    <2> QED BY <2>3, <2>4
  <1>7. ~Started => /\ closes \notin asked /\ stream # "Open" /\ shook = FALSE /\ idle = FALSE
                    /\ grpc = NoUser
                    /\ \A i \in 1 .. Len(tasks) : tasks[i].kind = "token" => tasks[i].close # closes
    BY DEF Started, AskedOnce, TokenOnce, StreamAgrees, WriteTypeOK
  <1>8. WriteTypeOK'
    <2>1. pipeline' \subseteq Batches /\ sent' \subseteq Batches /\ done \subseteq sent'
      BY <1>1, <1>4, <1>5 DEF WriteTypeOK
    <2>2. idle' \in BOOLEAN
      BY <1>1 DEF WriteTypeOK
    <2> QED BY <1>1, <1>3, <1>4, <1>6, <2>1, <2>2 DEF WriteTypeOK, auth, counters, history
  <1>9. TakenFromItsAuthor'
    BY <1>1 DEF TakenFromItsAuthor, history
  <1>10. PipelineIsFirst'
    BY <1>1, <1>5 DEF PipelineIsFirst
  <1>11. SentIsPipeline'
    <2>1. CASE shook
      <3>1. sent' = pipeline' /\ sent = pipeline
        BY <1>1, <1>5, <2>1 DEF SentIsPipeline
      <3>2. \A d \in done, c \in sent' : c < d => c \in done
        BY <1>4, <1>5, <3>1 DEF SentIsPipeline, WriteTypeOK
      <3> QED BY <1>1, <2>1, <3>1, <3>2 DEF SentIsPipeline, history
    <2>2. CASE ~shook
      BY <1>1, <2>2 DEF SentIsPipeline, history
    <2> QED BY <2>1, <2>2
  <1>12. StreamAgrees'
    <2>1. CASE Started
      BY <1>1, <1>5, <1>6, <2>1 DEF StreamAgrees, WriteTypeOK
    <2>2. CASE ~Started
      BY <1>1, <1>6, <1>7, <2>2 DEF StreamAgrees
    <2> QED BY <2>1, <2>2
  <1>13. AskedOnce'
    BY <1>1, <1>6, <1>7 DEF AskedOnce, WriteTypeOK
  <1>14. TokenOnce'
    <2>1. \A i, j \in 1 .. Len(tasks') : i + 1 = j + 1 => i = j
      BY <1>3
    <2>2. CASE Started
      BY <1>1, <1>3, <1>6, <2>1, <2>2 DEF TokenOnce
    <2>3. CASE ~Started
      BY <1>1, <1>3, <1>7, <2>3 DEF TokenOnce
    <2> QED BY <2>2, <2>3
  <1>15. TokenOfUser'
    <2>1. \A i \in 1 .. Len(tasks') : i \in 1 .. Len(tasks)
      BY <1>3
    <2> QED BY <1>1, <1>3, <2>1 DEF TokenOfUser, history
  <1>16. WriteOfUser'
    <2>1. Becomes(tasks', user', Len(tasks') + 1, told')
      BY <1>1, <1>3, Len(tasks) \in 1 .. Len(tasks) DEF WriteOfUser, auth
    <2>2. ASSUME NEW i \in 1 .. Len(tasks'), tasks'[i].kind = "write"
          PROVE  Becomes(tasks', user', i, author[tasks'[i].batch])
      <3>1. Becomes(tasks, user, i + 1, author[tasks[i + 1].batch]) /\ i \in 1 .. Len(tasks)
        BY <1>3, <2>2 DEF WriteOfUser
      <3> QED BY <1>3, <3>1
    <2>3. \A u \in Users : \A c \in queue'[u] : author[c] = u
      BY <1>4 DEF WriteOfUser, WriteTypeOK
    <2> QED BY <1>1, <2>1, <2>2, <2>3 DEF WriteOfUser, history
  <1>17. WritesInOrder'
    <2>1. \A u \in Users : queue'[u] \subseteq queue[u] \cup {b}
      BY <1>4 DEF WriteTypeOK
    <2>2. b <= writes /\ 1 \in 1 .. Len(tasks)
      BY <1>1, <1>3 DEF WritesInOrder, b
    <2>3. ASSUME NEW i \in 1 .. Len(tasks'), tasks'[i].kind = "write"
          PROVE  /\ tasks'[i].batch <= writes
                 /\ \A j \in 1 .. i - 1 : tasks'[j].kind = "write" =>
                      tasks'[j].batch < tasks'[i].batch
                 /\ \A u \in Users : \A c \in queue'[u] : c < tasks'[i].batch
      <3>1. tasks'[i] = tasks[i + 1] /\ i + 1 \in 1 .. Len(tasks)
        BY <1>3
      <3>2. /\ \A j \in 1 .. i - 1 : tasks'[j] = tasks[j + 1] /\ j + 1 \in 1 .. i + 1 - 1
            /\ 1 \in 1 .. i + 1 - 1
        BY <1>3, <3>1
      <3>3. tasks[1].batch < tasks[i + 1].batch
        BY <1>1, <1>3, <2>3, <3>1, <3>2 DEF WritesInOrder
      <3>4. /\ tasks[i + 1].batch <= writes
            /\ \A j \in 1 .. i - 1 : tasks'[j].kind = "write" =>
                 tasks'[j].batch < tasks[i + 1].batch
            /\ \A u \in Users : \A c \in queue[u] : c < tasks[i + 1].batch
        <4>1. i + 1 \in 1 .. Len(tasks) /\ tasks[i + 1].kind = "write"
          BY <2>3, <3>1
        <4>2. /\ tasks[i + 1].batch <= writes
              /\ \A u \in Users : \A c \in queue[u] : c < tasks[i + 1].batch
          BY <4>1 DEF WritesInOrder
        <4>3. \A j \in 1 .. i + 1 - 1 : tasks[j].kind = "write" =>
                tasks[j].batch < tasks[i + 1].batch
          BY <4>1 DEF WritesInOrder
        <4> QED BY <3>2, <4>2, <4>3
      <3>5. b < tasks[i + 1].batch
        BY <3>3, <1>3 DEF b
      <3> QED BY <2>1, <3>1, <3>4, <3>5
    <2> QED BY <1>1, <2>1, <2>2, <2>3 DEF WritesInOrder, counters, history
  <1> QED BY <1>8, <1>9, <1>10, <1>11, <1>12, <1>13, <1>14, <1>15, <1>16, <1>17

\* RestartNetwork leaves the queue of the user as it was, and sends it anew.
LEMMA RestartedIs ==
  ASSUME IInv, NEW u \in Users, Restarted(u), user' = u, queue' = queue,
         UNCHANGED took,
         \A i \in 1 .. Len(tasks') : tasks'[i].kind = "token" =>
           /\ tasks'[i].close \in Nat /\ tasks'[i].close <= closes
           /\ ~Started => tasks'[i].close # closes
  PROVE  /\ PipelineIsFirst' /\ SentIsPipeline' /\ StreamAgrees'
         /\ AskedOnce' /\ TokenOnce' /\ TokenOfUser'
         /\ pipeline' \subseteq Batches /\ sent' = {} /\ done' = {}
         /\ shook' = FALSE /\ idle' = FALSE /\ grpc' = NoUser
         /\ closes' \in Nat /\ stream' \in States /\ asked' \subseteq Nat
  <1> USE DEF IInv
  <1>1. /\ pipeline' = Filled(queue[u], {})
        /\ StartWith("Initial", pipeline', closes')
        /\ Started => Closed
        /\ ~Started => UNCHANGED <<closes, grpc, shook, idle, sent, done>>
    BY DEF Restarted
  <1>2. /\ pipeline' \subseteq queue[u] /\ queue[u] \subseteq Batches
        /\ \A b \in pipeline', c \in queue[u] : c < b => c \in pipeline'
    <2>1. queue[u] \in SUBSET Batches /\ {} \in SUBSET queue[u]
          /\ \A b \in {}, c \in queue[u] : c < b => c \in {}
      BY DEF WriteTypeOK
    <2> QED BY <1>1, <2>1, FilledIsFirst
  <1>3. PipelineIsFirst' /\ pipeline' \subseteq Batches
    BY <1>2 DEF PipelineIsFirst
  <1>4. /\ StreamAgrees' /\ AskedOnce' /\ TokenOnce' /\ TokenOfUser'
        /\ sent' = {} /\ done' = {} /\ shook' = FALSE /\ idle' = FALSE /\ grpc' = NoUser
        /\ closes' \in Nat /\ stream' \in States /\ asked' \subseteq Nat
    <2>1. CASE Started
      BY <1>1, <2>1, ClosedIs
    <2>2. CASE ~Started
      <3>1. /\ closes' = closes /\ closes \in Nat /\ asked \subseteq Nat
            /\ shook' = FALSE /\ idle' = FALSE /\ grpc' = NoUser /\ sent' = {} /\ done' = {}
            /\ closes \notin asked
        BY <1>1, <2>2 DEF Started, StreamAgrees, SentIsPipeline, AskedOnce, WriteTypeOK
      <3>2. /\ stream' \in {"Initial", "Error", "Backoff", "Starting"}
            /\ asked' \subseteq asked \cup {closes} /\ asked' \subseteq Nat
            /\ closes \in asked' /\ closes \notin asked => stream' = "Starting"
        BY <1>1, <3>1, StartWithIs
      <3>3. StreamAgrees' /\ stream' \in States
        BY <3>1, <3>2 DEF StreamAgrees, States
      <3>4. AskedOnce'
        BY <3>1, <3>2 DEF AskedOnce
      <3>5. TokenOnce' /\ TokenOfUser'
        BY <2>2, <3>1 DEF TokenOnce, TokenOfUser
      <3> QED BY <3>1, <3>2, <3>3, <3>4, <3>5
    <2> QED BY <2>1, <2>2
  <1>5. SentIsPipeline'
    BY <1>4 DEF SentIsPipeline
  <1> QED BY <1>3, <1>4, <1>5

\* A change takes the old user's stream and pipeline away.
LEMMA StepRunChange == IInv /\ RunChange => IInv'
  <1> SUFFICES ASSUME IInv, RunChange PROVE IInv'
    OBVIOUS
  <1> USE DEF IInv
  <1>1. /\ tasks # <<>> /\ Head(tasks).kind = "change" /\ tasks' = Tail(tasks)
        /\ user' = Head(tasks).user /\ Restarted(user')
        /\ UNCHANGED <<auth, queue, counters, history>>
    BY DEF RunChange, Run
  <1>2. user' = IF Head(tasks).kind = "change" THEN Head(tasks).user ELSE user
    BY <1>1
  <1>3. /\ tasks' \in Seq(Tasks) /\ Head(tasks) \in Tasks
        /\ \A i \in 1 .. Len(tasks') : tasks'[i] = tasks[i + 1] /\ i + 1 \in 1 .. Len(tasks)
    BY <1>1, <1>2, TaskRan
  <1>4. user' \in Users
    BY <1>1, <1>3, TaskTypes
  <1>5. \A i \in 1 .. Len(tasks') : tasks'[i].kind = "token" =>
          /\ tasks'[i].close \in Nat /\ tasks'[i].close <= closes
          /\ ~Started => tasks'[i].close # closes
    BY <1>1, <1>2, <1>3, TokensLeft DEF TokenOnce, Started
  <1>6. /\ PipelineIsFirst' /\ SentIsPipeline' /\ StreamAgrees'
        /\ AskedOnce' /\ TokenOnce' /\ TokenOfUser'
        /\ pipeline' \subseteq Batches /\ sent' = {} /\ done' = {}
        /\ shook' = FALSE /\ idle' = FALSE /\ grpc' = NoUser
        /\ closes' \in Nat /\ stream' \in States /\ asked' \subseteq Nat
    BY <1>1, <1>4, <1>5, RestartedIs DEF history
  <1>7. WriteTypeOK'
    BY <1>1, <1>3, <1>4, <1>6 DEF WriteTypeOK, auth, counters, history
  <1>8. TakenFromItsAuthor'
    BY <1>1 DEF TakenFromItsAuthor, history
  <1>9. WriteOfUser' /\ WritesInOrder'
    BY <1>1, <1>2, TaskRanInOrder DEF auth, counters, history
  <1> QED BY <1>6, <1>7, <1>8, <1>9

\* So does a change of the network, for the same user.
LEMMA StepConnectivityChanged == IInv /\ ConnectivityChanged => IInv'
  <1> SUFFICES ASSUME IInv, ConnectivityChanged PROVE IInv'
    OBVIOUS
  <1> USE DEF IInv
  <1>1. /\ Restarted(user) /\ faults' = faults + 1 /\ faults < MaxFaults
        /\ UNCHANGED <<auth, tasks, local, history, writes, changes>>
    BY DEF ConnectivityChanged, Fault
  <1>2. user \in Users /\ user' = user /\ queue' = queue /\ took' = took
    BY <1>1 DEF WriteTypeOK, local, history
  <1>3. \A i \in 1 .. Len(tasks') : tasks'[i].kind = "token" =>
          /\ tasks'[i].close \in Nat /\ tasks'[i].close <= closes
          /\ ~Started => tasks'[i].close # closes
    BY <1>1, TokensThere DEF TokenOnce, Started
  <1>4. /\ PipelineIsFirst' /\ SentIsPipeline' /\ StreamAgrees'
        /\ AskedOnce' /\ TokenOnce' /\ TokenOfUser'
        /\ pipeline' \subseteq Batches /\ sent' = {} /\ done' = {}
        /\ shook' = FALSE /\ idle' = FALSE /\ grpc' = NoUser
        /\ closes' \in Nat /\ stream' \in States /\ asked' \subseteq Nat
    BY <1>1, <1>2, <1>3, RestartedIs
  <1>5. WriteTypeOK'
    <2>1. faults' \in 0 .. MaxFaults
      BY <1>1, WriteBounds DEF WriteTypeOK
    <2> QED BY <1>1, <1>2, <1>4, <2>1 DEF WriteTypeOK, auth, history
  <1>6. TakenFromItsAuthor'
    BY <1>1 DEF TakenFromItsAuthor, history
  <1>7. WriteOfUser' /\ WritesInOrder'
    BY <1>1, <1>2, QueuesShrink DEF auth, history
  <1> QED BY <1>4, <1>5, <1>6, <1>7

\* A stream that closed with an error, while the queues stay as they are.
LEMMA ClosedWithError ==
  ASSUME IInv, Fault, Closed, StartWith("Error", pipeline, closes'),
         UNCHANGED <<auth, local, pipeline, history>>,
         tasks' \in Seq(Tasks), WriteOfUser', WritesInOrder',
         \A i \in 1 .. Len(tasks') : tasks'[i].kind = "token" =>
           tasks'[i].close \in Nat /\ tasks'[i].close <= closes
  PROVE  IInv'
  <1> USE DEF IInv
  <1>1. /\ StreamAgrees' /\ AskedOnce' /\ TokenOnce' /\ TokenOfUser'
        /\ sent' = {} /\ done' = {} /\ shook' = FALSE /\ idle' = FALSE /\ grpc' = NoUser
        /\ closes' \in Nat /\ stream' \in States /\ asked' \subseteq Nat
    BY ClosedIs
  <1>2. PipelineIsFirst' /\ SentIsPipeline' /\ TakenFromItsAuthor'
    BY <1>1 DEF PipelineIsFirst, SentIsPipeline, TakenFromItsAuthor, local, history
  <1>3. faults' \in 0 .. MaxFaults /\ UNCHANGED <<writes, changes>>
    BY WriteBounds DEF Fault, WriteTypeOK
  <1>4. WriteTypeOK'
    BY <1>1, <1>3 DEF WriteTypeOK, auth, local, history
  <1> QED BY <1>1, <1>2, <1>4

\* A token error closes the stream.
LEMMA StepRunTokenError == IInv /\ RunTokenError => IInv'
  <1> SUFFICES ASSUME IInv, RunTokenError PROVE IInv'
    OBVIOUS
  <1> USE DEF IInv
  <1>1. tasks # <<>> /\ Head(tasks).kind = "token" /\ tasks' = Tail(tasks)
    BY DEF RunTokenError, Run
  <1>6. /\ Fault /\ Closed /\ StartWith("Error", pipeline, closes')
        /\ UNCHANGED <<auth, local, pipeline, history>>
    BY DEF RunTokenError
  <1>2. user' = IF Head(tasks).kind = "change" THEN Head(tasks).user ELSE user
    BY <1>1, <1>6 DEF local
  <1>3. tasks' \in Seq(Tasks)
    BY <1>1, <1>2, TaskRan
  <1>4. \A i \in 1 .. Len(tasks') : tasks'[i].kind = "token" =>
          tasks'[i].close \in Nat /\ tasks'[i].close <= closes
    BY <1>1, <1>2, TokensLeft
  <1>5. WriteOfUser' /\ WritesInOrder'
    BY <1>1, <1>2, <1>6, TaskRanInOrder DEF auth, local, history, Fault
  <1> QED BY <1>3, <1>4, <1>5, <1>6, ClosedWithError

\* So does the stream itself.
LEMMA StepStreamBreaks == IInv /\ StreamBreaks => IInv'
  <1> SUFFICES ASSUME IInv, StreamBreaks PROVE IInv'
    OBVIOUS
  <1> USE DEF IInv
  <1>1. /\ Fault /\ Closed /\ StartWith("Error", pipeline, closes')
        /\ UNCHANGED <<auth, tasks, local, pipeline, history>>
    BY DEF StreamBreaks
  <1>2. tasks' \in Seq(Tasks)
    BY <1>1 DEF WriteTypeOK
  <1>3. \A i \in 1 .. Len(tasks') : tasks'[i].kind = "token" =>
          tasks'[i].close \in Nat /\ tasks'[i].close <= closes
    BY <1>1, TokensThere
  <1>4. WriteOfUser' /\ WritesInOrder'
    BY <1>1, QueuesShrink DEF auth, local, history, Fault
  <1> QED BY <1>1, <1>2, <1>3, <1>4, ClosedWithError

\* With writes sent, the stream is open and has the whole pipeline.
LEMMA SentIs ==
  ASSUME IInv, sent # {}
  PROVE  /\ shook = TRUE /\ sent = pipeline /\ stream = "Open" /\ grpc \in Users
         /\ user \in Users /\ pipeline \in SUBSET queue[user] /\ queue[user] \in SUBSET Batches
         /\ pipeline \subseteq Nat
  BY BatchesAreNat DEF IInv, SentIsPipeline, StreamAgrees, PipelineIsFirst, WriteTypeOK

\* The pipeline without its first write, and that queue without it.
LEMMA FirstRemoved ==
  ASSUME IInv, pipeline # {}, queue' = [queue EXCEPT ![user] = @ \ {Least(pipeline)}],
         pipeline' = Filled(queue'[user], pipeline \ {Least(pipeline)})
  PROVE  /\ Least(pipeline) \in pipeline /\ \A c \in queue[user] : Least(pipeline) <= c
         /\ queue' \in [Users -> SUBSET Batches]
         /\ \A u \in Users : queue'[u] \subseteq queue[u]
         /\ queue'[user] = queue[user] \ {Least(pipeline)}
         /\ pipeline \ {Least(pipeline)} \subseteq pipeline' /\ pipeline' \subseteq queue'[user]
         /\ \A b \in pipeline', c \in queue'[user] : c < b => c \in pipeline'
  <1> USE DEF IInv
  <1> DEFINE b == Least(pipeline)
  <1>1. /\ user \in Users /\ queue \in [Users -> SUBSET Batches]
        /\ pipeline \subseteq queue[user] /\ pipeline \subseteq Nat /\ queue[user] \subseteq Nat
        /\ \A x \in pipeline, c \in queue[user] : c < x => c \in pipeline
    BY BatchesAreNat DEF PipelineIsFirst, WriteTypeOK
  <1>2. b \in pipeline /\ \A c \in pipeline : b <= c
    BY <1>1, LeastIs
  <1> HIDE DEF b
  <1>3. \A c \in queue[user] : b <= c
    <2> SUFFICES ASSUME NEW c \in queue[user], ~ (b <= c) PROVE FALSE
      OBVIOUS
    <2>1. c < b
      BY <1>1, <1>2
    <2> QED BY <1>1, <1>2, <2>1
  <1>4. /\ queue' \in [Users -> SUBSET Batches] /\ queue'[user] = queue[user] \ {b}
        /\ \A u \in Users : queue'[u] \subseteq queue[u]
    BY <1>1 DEF b
  <1>5. /\ queue'[user] \in SUBSET Batches /\ pipeline \ {b} \in SUBSET queue'[user]
        /\ \A x \in pipeline \ {b}, c \in queue'[user] : c < x => c \in pipeline \ {b}
    BY <1>1, <1>4
  <1>6. pipeline' = Filled(queue'[user], pipeline \ {b})
    BY DEF b
  <1>7. /\ pipeline \ {b} \subseteq pipeline' /\ pipeline' \subseteq queue'[user]
        /\ \A x \in pipeline', c \in queue'[user] : c < x => c \in pipeline'
    BY <1>5, <1>6, FilledIsFirst
  <1> QED BY <1>2, <1>3, <1>4, <1>7 DEF b

\* The handshake sends the pipeline.
LEMMA StepHandshakeComplete == IInv /\ HandshakeComplete => IInv'
  <1> SUFFICES ASSUME IInv, HandshakeComplete PROVE IInv'
    OBVIOUS
  <1> USE DEF IInv
  <1>1. /\ stream = "Open" /\ ~shook /\ shook' = TRUE /\ sent' = pipeline
        /\ UNCHANGED <<auth, tasks, asked, local, pipeline, stream, idle, closes, grpc,
                       done, counters, history>>
    BY DEF HandshakeComplete
  <1>2. done = {}
    BY <1>1 DEF SentIsPipeline, WriteTypeOK
  <1>3. WriteTypeOK'
    BY <1>1, <1>2 DEF WriteTypeOK, auth, local, counters, history
  <1>4. TakenFromItsAuthor' /\ PipelineIsFirst' /\ SentIsPipeline' /\ StreamAgrees'
    BY <1>1, <1>2 DEF TakenFromItsAuthor, PipelineIsFirst, SentIsPipeline, StreamAgrees,
                      local, history
  <1>5. AskedOnce' /\ TokenOnce' /\ TokenOfUser'
    BY <1>1 DEF AskedOnce, TokenOnce, TokenOfUser, local, history
  <1>6. WriteOfUser' /\ WritesInOrder'
    BY <1>1, QueuesShrink DEF auth, local, counters, history
  <1> QED BY <1>3, <1>4, <1>5, <1>6

\* The write that the backend takes is the next of the pipeline.
LEMMA TakenIs ==
  ASSUME IInv, Take
  PROVE  /\ Least(sent \ done) \in sent /\ Least(sent \ done) \in queue[user]
         /\ Least(sent \ done) \in Batches
         /\ \A c \in queue[user] : c < Least(sent \ done) => c \in done
  <1> USE DEF IInv
  <1>1. sent \ done # {} /\ sent # {}
    BY DEF Take
  <1>2. /\ sent = pipeline /\ pipeline \subseteq queue[user] /\ queue[user] \subseteq Batches
        /\ pipeline \subseteq Nat
    BY <1>1, SentIs
  <1>3. /\ Least(sent \ done) \in sent \ done
        /\ \A c \in sent \ done : Least(sent \ done) <= c
    BY <1>1, <1>2, LeastIs
  <1>4. ASSUME NEW c \in queue[user], c < Least(sent \ done) PROVE c \in done
    <2>1. c \in pipeline
      BY <1>2, <1>3, <1>4 DEF PipelineIsFirst
    <2>2. c \in Nat /\ Least(sent \ done) \in Nat
      BY <1>2, <1>3, <2>1
    <2>3. ~ (Least(sent \ done) <= c)
      BY <1>4, <2>2
    <2> QED BY <1>2, <1>3, <2>1, <2>3
  <1> QED BY <1>2, <1>3, <1>4

\* What the backend takes is the user's, as that user.
LEMMA StepTake == IInv /\ Take => IInv'
  <1> SUFFICES ASSUME IInv, Take PROVE IInv'
    OBVIOUS
  <1> USE DEF IInv
  <1> DEFINE b == Least(sent \ done)
  <1>1. /\ done' = done \cup {b} /\ took' = [took EXCEPT ![b] = @ \cup {grpc}]
        /\ UNCHANGED <<auth, tasks, asked, local, pipeline, stream, shook, idle, closes,
                       grpc, sent, counters, author, refused, early>>
    BY DEF Take
  <1>2. /\ b \in sent /\ b \in queue[user] /\ b \in Batches
        /\ \A c \in queue[user] : c < b => c \in done
    BY TakenIs
  <1>3. sent = pipeline /\ grpc \in Users /\ pipeline \subseteq queue[user] /\ user \in Users
    BY <1>2, SentIs
  <1> HIDE DEF b
  <1>4. /\ took' \in [Batches -> SUBSET Users] /\ took'[b] = took[b] \cup {grpc}
        /\ \A c \in Batches : c # b => took'[c] = took[c]
    BY <1>1, <1>2, <1>3 DEF WriteTypeOK
  <1>5. WriteTypeOK'
    <2>1. done' \subseteq sent
      BY <1>1, <1>2 DEF WriteTypeOK
    <2> QED BY <1>1, <1>4, <2>1 DEF WriteTypeOK, auth, local, counters
  <1>6. TakenFromItsAuthor'
    <2>1. ~early => grpc = user
      BY <1>3, UsersAssumption DEF TokenOfUser
    <2>2. author[b] = user
      BY <1>2, <1>3 DEF WriteOfUser
    <2> QED BY <1>1, <1>4, <2>1, <2>2 DEF TakenFromItsAuthor
  <1>7. PipelineIsFirst' /\ StreamAgrees'
    BY <1>1 DEF PipelineIsFirst, StreamAgrees, local
  <1>8. SentIsPipeline'
    <2>1. \A d \in done', c \in sent : c < d => c \in done'
      BY <1>1, <1>2, <1>3 DEF SentIsPipeline
    <2>2. \A d \in done' : took'[d] # {}
      <3>1. done \subseteq Batches
        BY DEF WriteTypeOK
      <3> QED BY <1>1, <1>4, <3>1 DEF SentIsPipeline
    <2> QED BY <1>1, <2>1, <2>2 DEF SentIsPipeline
  <1>9. AskedOnce' /\ TokenOnce' /\ TokenOfUser'
    BY <1>1 DEF AskedOnce, TokenOnce, TokenOfUser, local
  <1>10. WriteOfUser'
    BY <1>1 DEF WriteOfUser, auth, local
  <1>11. WritesInOrder'
    <2>1. \A c \in Batches : took'[c] # {} => c <= writes
      BY <1>2, <1>3, <1>4 DEF WritesInOrder
    <2> QED BY <1>1, <2>1 DEF WritesInOrder, local, counters
  <1> QED BY <1>5, <1>6, <1>7, <1>8, <1>9, <1>10, <1>11

\* The answer is about the first write of the pipeline.
LEMMA AnsweredIs ==
  ASSUME IInv, done # {}
  PROVE  /\ sent # {} /\ pipeline # {} /\ Least(done) = Least(pipeline)
         /\ Least(pipeline) \in done
  <1> USE DEF IInv
  <1>1. sent # {} /\ done \subseteq sent
    BY DEF WriteTypeOK
  <1>2. sent = pipeline /\ pipeline \subseteq Nat
    BY <1>1, SentIs
  <1>3. Least(done) \in done /\ \A c \in done : Least(done) <= c
    BY <1>1, <1>2, LeastIs
  <1>4. Least(pipeline) \in pipeline /\ \A c \in pipeline : Least(pipeline) <= c
    BY <1>1, <1>2, LeastIs
  <1>5. Least(done) \in Nat /\ Least(pipeline) \in Nat
    BY <1>1, <1>2, <1>3, <1>4
  <1>6. Least(pipeline) < Least(done) => Least(pipeline) \in done
    BY <1>2, <1>3, <1>4 DEF SentIsPipeline
  <1>7. Least(pipeline) <= Least(done)
    BY <1>1, <1>2, <1>3, <1>4
  <1>8. Least(done) = Least(pipeline)
    BY <1>3, <1>5, <1>6, <1>7
  <1> QED BY <1>1, <1>2, <1>3, <1>8

\* An answer removes the first write from pipeline, queue and stream.
LEMMA StepMutationResult == IInv /\ MutationResult => IInv'
  <1> SUFFICES ASSUME IInv, MutationResult PROVE IInv'
    OBVIOUS
  <1> USE DEF IInv
  <1> DEFINE b == Least(pipeline)
  <1>1. /\ done # {}
        /\ queue' = [queue EXCEPT ![user] = @ \ {b}]
        /\ pipeline' = Filled(queue'[user], pipeline \ {b})
        /\ sent' = (sent \ {Least(done)}) \cup (pipeline' \ pipeline)
        /\ done' = done \ {Least(done)}
        /\ idle' = (pipeline' = {})
        /\ UNCHANGED <<auth, tasks, asked, user, stream, shook, closes, grpc, counters,
                       history>>
    BY DEF MutationResult
  <1>2. sent # {} /\ pipeline # {} /\ Least(done) = b
    BY <1>1, AnsweredIs
  <1>3. shook = TRUE /\ sent = pipeline /\ stream = "Open"
    BY <1>2, SentIs
  <1>4. /\ b \in pipeline /\ queue' \in [Users -> SUBSET Batches]
        /\ \A u \in Users : queue'[u] \subseteq queue[u]
        /\ queue'[user] = queue[user] \ {b}
        /\ pipeline \ {b} \subseteq pipeline' /\ pipeline' \subseteq queue'[user]
        /\ \A x \in pipeline', c \in queue'[user] : c < x => c \in pipeline'
    BY <1>1, <1>2, FirstRemoved
  <1> HIDE DEF b
  <1>5. sent' = pipeline'
    BY <1>1, <1>2, <1>3, <1>4
  <1>6. WriteTypeOK'
    <2>1. pipeline' \subseteq Batches
      BY <1>1, <1>4 DEF WriteTypeOK
    <2>2. done' \subseteq sent'
      BY <1>1, <1>2, <1>3 DEF WriteTypeOK
    <2>3. idle' \in BOOLEAN
      BY <1>1
    <2> QED BY <1>1, <1>4, <1>5, <2>1, <2>2, <2>3
            DEF WriteTypeOK, auth, counters, history
  <1>7. TakenFromItsAuthor' /\ StreamAgrees'
    BY <1>1, <1>3 DEF TakenFromItsAuthor, StreamAgrees, history
  <1>8. PipelineIsFirst'
    BY <1>1, <1>4 DEF PipelineIsFirst
  <1>9. SentIsPipeline'
    <2>1. \A d \in done', c \in sent' : c < d => c \in done'
      <3>1. \A d \in done, c \in pipeline : c < d => c \in done
        BY <1>3 DEF SentIsPipeline
      <3>2. \A d \in done' : d \in done /\ d \in pipeline /\ d \in queue[user]
        BY <1>1, <1>3 DEF WriteTypeOK, PipelineIsFirst
      <3>3. \A c \in sent' : c \in queue[user] /\ c # b
        BY <1>4, <1>5
      <3> QED BY <1>1, <1>2, <3>1, <3>2, <3>3 DEF PipelineIsFirst
    <2> QED BY <1>1, <1>3, <1>5, <2>1 DEF SentIsPipeline, history
  <1>10. AskedOnce' /\ TokenOnce' /\ TokenOfUser'
    BY <1>1 DEF AskedOnce, TokenOnce, TokenOfUser, history
  <1>11. WriteOfUser' /\ WritesInOrder'
    BY <1>1, <1>4, QueuesShrink DEF auth, counters, history
  <1> QED BY <1>6, <1>7, <1>8, <1>9, <1>10, <1>11

\* A refusal removes it and closes the stream.
LEMMA StepWriteRefused == IInv /\ WriteRefused => IInv'
  <1> SUFFICES ASSUME IInv, WriteRefused PROVE IInv'
    OBVIOUS
  <1> USE DEF IInv
  <1> DEFINE b == Least(pipeline)
  <1>1. /\ sent # {} /\ Fault /\ Closed
        /\ queue' = [queue EXCEPT ![user] = @ \ {b}]
        /\ refused' = refused \cup {b}
        /\ pipeline' = Filled(queue'[user], pipeline \ {b})
        /\ StartWith("Initial", pipeline', closes')
        /\ UNCHANGED <<auth, tasks, user, took, author, early>>
    BY DEF WriteRefused
  <1>2. pipeline # {} /\ pipeline \subseteq Batches
    BY <1>1, SentIs
  <1>3. /\ b \in pipeline /\ queue' \in [Users -> SUBSET Batches]
        /\ \A u \in Users : queue'[u] \subseteq queue[u]
        /\ pipeline' \subseteq queue'[user]
        /\ \A x \in pipeline', c \in queue'[user] : c < x => c \in pipeline'
    BY <1>1, <1>2, FirstRemoved
  <1> HIDE DEF b
  <1>4. \A i \in 1 .. Len(tasks') : tasks'[i].kind = "token" =>
          tasks'[i].close \in Nat /\ tasks'[i].close <= closes
    BY <1>1, TokensThere
  <1>5. /\ StreamAgrees' /\ AskedOnce' /\ TokenOnce' /\ TokenOfUser'
        /\ sent' = {} /\ done' = {} /\ shook' = FALSE /\ idle' = FALSE /\ grpc' = NoUser
        /\ closes' \in Nat /\ stream' \in States /\ asked' \subseteq Nat
    BY <1>1, <1>4, ClosedIs
  <1>6. WriteTypeOK'
    <2>1. refused' \subseteq Batches /\ user \in Users
      BY <1>1, <1>2, <1>3 DEF WriteTypeOK
    <2>2. pipeline' \subseteq Batches
      BY <1>3, <2>1
    <2>3. faults' \in 0 .. MaxFaults /\ UNCHANGED <<writes, changes>>
      BY <1>1, WriteBounds DEF Fault, WriteTypeOK
    <2> QED BY <1>1, <1>3, <1>5, <2>1, <2>2, <2>3 DEF WriteTypeOK, auth
  <1>7. TakenFromItsAuthor' /\ PipelineIsFirst' /\ SentIsPipeline'
    BY <1>1, <1>3, <1>5 DEF TakenFromItsAuthor, PipelineIsFirst, SentIsPipeline
  <1>8. WriteOfUser' /\ WritesInOrder'
    BY <1>1, <1>3, QueuesShrink DEF auth, Fault
  <1> QED BY <1>5, <1>6, <1>7, <1>8

\* The stream asks for its token.
LEMMA StepBackoffElapsed == IInv /\ BackoffElapsed => IInv'
  <1> SUFFICES ASSUME IInv, BackoffElapsed PROVE IInv'
    OBVIOUS
  <1> USE DEF IInv
  <1>1. /\ stream = "Backoff" /\ stream' = "Starting" /\ asked' = asked \cup {closes}
        /\ UNCHANGED <<auth, tasks, local, pipeline, shook, idle, closes, grpc, sent, done,
                       counters, history>>
    BY DEF BackoffElapsed
  <1>2. closes \in Nat /\ \A i \in 1 .. Len(tasks) :
          tasks[i].kind = "token" => tasks[i].close <= closes /\ tasks[i].close # closes
    BY <1>1 DEF TokenOnce, WriteTypeOK
  <1>3. WriteTypeOK'
    BY <1>1, <1>2 DEF WriteTypeOK, States, auth, local, counters, history
  <1>4. TakenFromItsAuthor' /\ PipelineIsFirst' /\ SentIsPipeline' /\ StreamAgrees'
    BY <1>1 DEF TakenFromItsAuthor, PipelineIsFirst, SentIsPipeline, StreamAgrees,
                local, history
  <1>5. AskedOnce'
    BY <1>1, <1>2 DEF AskedOnce
  <1>6. TokenOnce' /\ TokenOfUser'
    BY <1>1, <1>2 DEF TokenOnce, TokenOfUser, StreamAgrees
  <1>7. WriteOfUser' /\ WritesInOrder'
    BY <1>1, QueuesShrink DEF auth, local, counters, history
  <1> QED BY <1>3, <1>4, <1>5, <1>6, <1>7

\* An idle stream has nothing to lose.
LEMMA StepIdleTimeout == IInv /\ IdleTimeout => IInv'
  <1> SUFFICES ASSUME IInv, IdleTimeout PROVE IInv'
    OBVIOUS
  <1> USE DEF IInv
  <1>1. /\ idle /\ Closed /\ stream' = "Initial"
        /\ UNCHANGED <<auth, tasks, asked, local, pipeline, counters, history>>
    BY DEF IdleTimeout
  <1>2. pipeline = {}
    BY <1>1 DEF StreamAgrees
  <1>3. StartWith("Initial", {}, closes')
    BY <1>1 DEF StartWith
  <1>4. \A i \in 1 .. Len(tasks') : tasks'[i].kind = "token" =>
          tasks'[i].close \in Nat /\ tasks'[i].close <= closes
    BY <1>1, TokensThere
  <1>5. /\ StreamAgrees' /\ AskedOnce' /\ TokenOnce' /\ TokenOfUser'
        /\ sent' = {} /\ done' = {} /\ shook' = FALSE /\ idle' = FALSE /\ grpc' = NoUser
        /\ closes' \in Nat /\ stream' \in States /\ asked' \subseteq Nat
    BY <1>1, <1>3, <1>4, ClosedIs
  <1>6. WriteTypeOK'
    BY <1>1, <1>5 DEF WriteTypeOK, auth, local, counters, history
  <1>7. TakenFromItsAuthor' /\ PipelineIsFirst' /\ SentIsPipeline'
    BY <1>1, <1>5 DEF TakenFromItsAuthor, PipelineIsFirst, SentIsPipeline, local, history
  <1>8. WriteOfUser' /\ WritesInOrder'
    BY <1>1, QueuesShrink DEF auth, local, counters, history
  <1> QED BY <1>5, <1>6, <1>7, <1>8

\* The app starts again with its queues and a new stream.
LEMMA StepAppRestarts == IInv /\ AppRestarts => IInv'
  <1> SUFFICES ASSUME IInv, AppRestarts PROVE IInv'
    OBVIOUS
  <1> USE DEF IInv
  <1>1. /\ Fault /\ notices' = <<>> /\ told' = authUser /\ user' = authUser
        /\ tasks' = <<>> /\ closes' = 0
        /\ pipeline' = Filled(queue[authUser], {})
        /\ grpc' = NoUser /\ shook' = FALSE /\ idle' = FALSE /\ sent' = {} /\ done' = {}
        /\ IF pipeline' = {} THEN stream' = "Initial" /\ asked' = {}
                              ELSE stream' = "Starting" /\ asked' = {0}
        /\ UNCHANGED <<authUser, queue, history>>
    BY DEF AppRestarts
  <1>2. /\ authUser \in Users /\ queue[authUser] \in SUBSET Batches
        /\ {} \in SUBSET queue[authUser]
        /\ \A b \in {}, c \in queue[authUser] : c < b => c \in {}
    BY DEF WriteTypeOK
  <1>3. /\ pipeline' \subseteq queue[authUser]
        /\ \A b \in pipeline', c \in queue[authUser] : c < b => c \in pipeline'
    BY <1>1, <1>2, FilledIsFirst
  <1>4. /\ tasks' \in Seq(Tasks) /\ Len(tasks') = 0 /\ \A i \in 1 .. Len(tasks') : FALSE
        /\ Len(tasks') + 1 - 1 = 0 /\ \A j \in 1 .. 0 : FALSE
    BY <1>1, EmptySeq
  <1>5. /\ faults' \in 0 .. MaxFaults /\ UNCHANGED <<writes, changes>>
    BY <1>1, WriteBounds DEF Fault, WriteTypeOK
  <1>6. WriteTypeOK'
    <2>1. asked' \subseteq Nat /\ closes' \in Nat /\ stream' \in States
      BY <1>1 DEF States
    <2>2. pipeline' \subseteq Batches /\ done' \subseteq sent' /\ sent' \subseteq Batches
      BY <1>1, <1>2, <1>3
    <2>3. <<>> \in Seq(Users)
      OBVIOUS
    <2> QED BY <1>1, <1>2, <1>4, <1>5, <2>1, <2>2, <2>3 DEF WriteTypeOK, history
  <1>7. TakenFromItsAuthor' /\ PipelineIsFirst' /\ SentIsPipeline'
    BY <1>1, <1>3 DEF TakenFromItsAuthor, PipelineIsFirst, SentIsPipeline, history
  <1>8. StreamAgrees' /\ AskedOnce'
    BY <1>1 DEF StreamAgrees, AskedOnce
  <1>9. TokenOnce' /\ TokenOfUser'
    BY <1>1, <1>4 DEF TokenOnce, TokenOfUser
  <1>10. WriteOfUser'
    <2>1. Becomes(tasks', user', Len(tasks') + 1, told')
      BY <1>1, <1>4 DEF Becomes
    <2> QED BY <1>1, <1>4, <2>1 DEF WriteOfUser, history
  <1>11. WritesInOrder'
    BY <1>1, <1>4, <1>5 DEF WritesInOrder, history
  <1> QED BY <1>6, <1>7, <1>8, <1>9, <1>10, <1>11

\* Nothing happens.
LEMMA StepStutter == IInv /\ UNCHANGED vars => IInv'
  <1> SUFFICES ASSUME IInv, UNCHANGED vars PROVE IInv'
    OBVIOUS
  <1> USE DEF IInv, vars
  <1>1. WriteTypeOK'
    BY DEF WriteTypeOK, auth, local, remote, counters, history
  <1>2. TakenFromItsAuthor' /\ PipelineIsFirst' /\ SentIsPipeline' /\ StreamAgrees'
    BY DEF TakenFromItsAuthor, PipelineIsFirst, SentIsPipeline, StreamAgrees,
           local, remote, history
  <1>3. AskedOnce' /\ TokenOnce' /\ TokenOfUser'
    BY DEF AskedOnce, TokenOnce, TokenOfUser, local, remote, history
  <1>4. WriteOfUser' /\ WritesInOrder'
    BY QueuesShrink DEF auth, local, counters, history
  <1> QED BY <1>1, <1>2, <1>3, <1>4

-----------------------------------------------------------------------------
(* The theorems.                                                           *)

\* The invariant that the others follow from holds of every behaviour.
THEOREM WriteQueueIInv == Spec => []IInv
  <1>1. IInv /\ [Next]_vars => IInv'
    <2> SUFFICES ASSUME IInv, [Next]_vars PROVE IInv'
      OBVIOUS
    <2>1. CASE Write
      BY <2>1, StepWrite
    <2>2. CASE AuthChanges
      BY <2>2, StepAuthChanges
    <2>3. CASE Notified
      BY <2>3, StepNotified
    <2>4. CASE GiveToken
      BY <2>4, StepTokenGiven DEF GiveToken
    <2>5. CASE RunTask
      BY <2>5, StepRunWrite, StepRunChange, StepRunToken, StepRunStaleToken DEF RunTask
    <2>6. CASE HandshakeComplete \/ Take \/ MutationResult \/ BackoffElapsed
      BY <2>6, StepHandshakeComplete, StepTake, StepMutationResult, StepBackoffElapsed
    <2>7. CASE IdleTimeout
      BY <2>7, StepIdleTimeout
    <2>8. CASE Faults
      BY <2>8, StepRunTokenError, StepStreamBreaks, StepWriteRefused,
         StepConnectivityChanged, StepAppRestarts DEF Faults
    <2>9. CASE UNCHANGED vars
      BY <2>9, StepStutter
    <2> QED
      BY <2>1, <2>2, <2>3, <2>4, <2>5, <2>6, <2>7, <2>8, <2>9 DEF Next, Work
  <1> QED BY InitIInv, <1>1, PTL DEF Spec

\* Queues, worker queue and stream always have their types (RemoteStore, Stream).
THEOREM WriteTypes == Spec => []WriteTypeOK
  BY WriteQueueIInv, PTL DEF IInv

\* No HARD_ASSERT of RemoteStore and Stream fails: an answer finds the write it is
\* about, a token that is used finds the stream starting, an idle stream has
\* nothing to send.
THEOREM AssertsHold == Spec => []NoAssertFails
  <1>1. IInv => NoAssertFails
    <2> SUFFICES ASSUME IInv PROVE NoAssertFails
      OBVIOUS
    <2>1. done # {} => pipeline # {}
      BY AnsweredIs
    <2>2. pipeline \subseteq queue[user] /\ (idle => stream = "Open" /\ pipeline = {})
      BY DEF IInv, PipelineIsFirst, StreamAgrees
    <2>3. ASSUME tasks # <<>>, Head(tasks).kind = "token", Current(Head(tasks))
          PROVE  stream = "Starting"
      <3>1. Head(tasks) = tasks[1] /\ 1 \in 1 .. Len(tasks)
        BY <2>3, TailTask DEF IInv, WriteTypeOK
      <3> QED BY <2>3, <3>1 DEF IInv, TokenOnce, Current
    <2> QED BY <2>1, <2>2, <2>3 DEF NoAssertFails
  <1> QED BY WriteQueueIInv, <1>1, PTL

\* Unless Auth gave a token too early, the backend takes a write only from the
\* user Firestore had been told of when the app called for it (HandleCredentialChange
\* takes the pipeline and the stream of the old user away).
THEOREM WritesHaveTheirAuthor == Spec => []TakenFromItsAuthor
  BY WriteQueueIInv, PTL DEF IInv

-----------------------------------------------------------------------------
(* WriteQueue implements Outbox.                                           *)

Taken == {b \in Batches : took[b] # {}}

\* A step that leaves calls, queues and the backend alone stutters.
LEMMA Stutters ==
  ASSUME Calls' = Calls, UNCHANGED <<queue, took, refused>>
  PROVE  UNCHANGED O!outbox
  BY DEF O!outbox

\* What is called for stays so when a task comes that is no write.
LEMMA CallsStay ==
  ASSUME WriteTypeOK, NEW t \in Tasks, t.kind # "write", tasks' = Append(tasks, t),
         UNCHANGED author
  PROVE  Calls' = Calls
  <1>1. /\ tasks \in Seq(Tasks) /\ Len(tasks) \in Nat
        /\ DOMAIN tasks = 1 .. Len(tasks) /\ DOMAIN tasks' = 1 .. Len(tasks) + 1
        /\ tasks'[Len(tasks) + 1] = t
        /\ \A i \in 1 .. Len(tasks) : tasks'[i] = tasks[i]
    BY AppendTask DEF WriteTypeOK
  <1>2. {j \in DOMAIN tasks' : tasks'[j].kind = "write"}
          = {j \in DOMAIN tasks : tasks[j].kind = "write"}
    <2>1. \A j \in 1 .. Len(tasks) + 1 : j \in 1 .. Len(tasks) \/ j = Len(tasks) + 1
      BY <1>1
    <2>2. \A j \in 1 .. Len(tasks) : j \in 1 .. Len(tasks) + 1
      BY <1>1
    <2> QED BY <1>1, <2>1, <2>2
  <1> QED BY <1>1, <1>2 DEF Calls

\* And when a task has run that is no write.
LEMMA CallsLeft ==
  ASSUME WriteTypeOK, tasks # <<>>, Head(tasks).kind # "write", tasks' = Tail(tasks),
         UNCHANGED author
  PROVE  Calls' = Calls
  <1>1. /\ tasks \in Seq(Tasks) /\ tasks' \in Seq(Tasks) /\ Len(tasks) \in Nat \ {0}
        /\ Len(tasks') = Len(tasks) - 1 /\ Head(tasks) = tasks[1]
        /\ DOMAIN tasks = 1 .. Len(tasks) /\ DOMAIN tasks' = 1 .. Len(tasks')
        /\ \A i \in 1 .. Len(tasks') : tasks'[i] = tasks[i + 1]
    BY TailTask DEF WriteTypeOK
  <1>2. /\ \A i \in DOMAIN tasks' : i + 1 \in DOMAIN tasks
        /\ \A i \in DOMAIN tasks : i # 1 => (i - 1 \in DOMAIN tasks' /\ i - 1 + 1 = i)
    BY <1>1
  <1>3. \A c : c \in Calls' <=> \E i \in DOMAIN tasks' : tasks'[i].kind = "write"
                                  /\ c = <<author[tasks'[i].batch], tasks'[i].batch>>
    BY DEF Calls
  <1>4. \A c : c \in Calls <=> \E i \in DOMAIN tasks : tasks[i].kind = "write"
                                  /\ c = <<author[tasks[i].batch], tasks[i].batch>>
    BY DEF Calls
  <1>5. ASSUME NEW c \in Calls' PROVE c \in Calls
    BY <1>1, <1>2, <1>3, <1>4, <1>5
  <1>6. ASSUME NEW c \in Calls PROVE c \in Calls'
    <2>1. PICK i \in DOMAIN tasks : tasks[i].kind = "write"
                                  /\ c = <<author[tasks[i].batch], tasks[i].batch>>
      BY <1>4, <1>6
    <2>2. i - 1 \in DOMAIN tasks' /\ tasks'[i - 1] = tasks[i]
      BY <1>1, <1>2, <2>1
    <2> QED BY <1>3, <2>1, <2>2
  <1> QED BY <1>5, <1>6

\* The app calls for a write.
LEMMA WriteCalls == IInv /\ Write => O!Call(told, writes') /\ told \in Users /\ writes' \in Batches
  <1> SUFFICES ASSUME IInv, Write
               PROVE  O!Call(told, writes') /\ told \in Users /\ writes' \in Batches
    OBVIOUS
  <1> USE DEF IInv
  <1> DEFINE t == [kind |-> "write", batch |-> writes']
  <1>1. /\ writes < MaxWrites /\ writes' = writes + 1 /\ tasks' = Append(tasks, t)
        /\ author' = [author EXCEPT ![writes'] = told]
        /\ UNCHANGED <<queue, took, refused>>
    BY DEF Write, local
  <1>2. /\ writes \in Nat /\ writes' \in Batches /\ told \in Users
        /\ tasks \in Seq(Tasks) /\ author \in [Batches -> Users]
    BY <1>1, WriteBounds DEF WriteTypeOK, Batches
  <1>3. t \in Tasks /\ t.kind = "write" /\ t.batch = writes'
    BY <1>2, TaskTypes
  <1> HIDE DEF t
  <1>4. /\ Len(tasks) \in Nat
        /\ DOMAIN tasks = 1 .. Len(tasks) /\ DOMAIN tasks' = 1 .. Len(tasks) + 1
        /\ tasks'[Len(tasks) + 1] = t
        /\ \A i \in 1 .. Len(tasks) : tasks'[i] = tasks[i]
    BY <1>1, <1>2, <1>3, AppendTask
  <1>5. /\ \A j \in DOMAIN tasks' : j \in DOMAIN tasks \/ j = Len(tasks) + 1
        /\ DOMAIN tasks \subseteq DOMAIN tasks' /\ Len(tasks) + 1 \in DOMAIN tasks'
    BY <1>4
  <1>6. ASSUME NEW i \in DOMAIN tasks, tasks[i].kind = "write"
        PROVE  tasks'[i] = tasks[i] /\ author'[tasks[i].batch] = author[tasks[i].batch]
    <2>1. tasks[i].batch \in Batches /\ tasks[i].batch <= writes
      BY <1>2, <1>4, <1>6, TaskTypes, ElementOfSeq DEF WritesInOrder
    <2>2. tasks[i].batch # writes'
      BY <1>1, <1>2, <2>1, BatchesAreNat
    <2> QED BY <1>1, <1>2, <1>4, <2>1, <2>2
  <1>7. author'[writes'] = told
    BY <1>1, <1>2
  <1>8. \A c : c \in Calls' <=> \E i \in DOMAIN tasks' : tasks'[i].kind = "write"
                                  /\ c = <<author'[tasks'[i].batch], tasks'[i].batch>>
    BY DEF Calls
  <1>9. \A c : c \in Calls <=> \E i \in DOMAIN tasks : tasks[i].kind = "write"
                                  /\ c = <<author[tasks[i].batch], tasks[i].batch>>
    BY DEF Calls
  <1>10. ASSUME NEW c \in Calls' PROVE c \in Calls \cup {<<told, writes'>>}
    <2>1. PICK i \in DOMAIN tasks' : tasks'[i].kind = "write"
                                  /\ c = <<author'[tasks'[i].batch], tasks'[i].batch>>
      BY <1>8, <1>10
    <2>2. CASE i \in DOMAIN tasks
      <3>1. tasks'[i] = tasks[i]
        BY <1>4, <2>2
      <3> QED BY <1>6, <1>9, <2>1, <2>2, <3>1
    <2>3. CASE i = Len(tasks) + 1
      BY <1>3, <1>4, <1>7, <2>1, <2>3
    <2> QED BY <1>5, <2>2, <2>3
  <1>11. Calls \subseteq Calls'
    BY <1>5, <1>6, <1>8, <1>9
  <1>12. <<told, writes'>> \in Calls'
    BY <1>3, <1>4, <1>5, <1>7, <1>8
  <1>13. Calls' = Calls \cup {<<told, writes'>>}
    BY <1>10, <1>11, <1>12
  <1> QED BY <1>1, <1>2, <1>13 DEF O!Call

\* A write that runs is the first that was called for, and the last of its queue.
LEMMA RunWriteKeeps ==
  ASSUME IInv, RunWrite
  PROVE  user \in Users /\ Head(tasks).batch \in Batches /\ O!Keep(user, Head(tasks).batch)
  <1> USE DEF IInv
  <1> DEFINE b == Head(tasks).batch
  <1>1. /\ tasks # <<>> /\ Head(tasks).kind = "write" /\ tasks' = Tail(tasks)
        /\ queue' = [queue EXCEPT ![user] = @ \cup {b}]
        /\ UNCHANGED <<author, took, refused>>
    BY DEF RunWrite, Run, history
  <1>2. /\ tasks \in Seq(Tasks) /\ tasks' \in Seq(Tasks) /\ Len(tasks) \in Nat \ {0}
        /\ Len(tasks') = Len(tasks) - 1 /\ Head(tasks) = tasks[1] /\ Head(tasks) \in Tasks
        /\ DOMAIN tasks = 1 .. Len(tasks) /\ DOMAIN tasks' = 1 .. Len(tasks')
        /\ \A i \in 1 .. Len(tasks') : tasks'[i] = tasks[i + 1]
    BY <1>1, TailTask DEF WriteTypeOK
  <1>3. user \in Users /\ b \in Batches
    BY <1>1, <1>2, TaskTypes DEF WriteTypeOK
  <1>4. /\ 1 \in DOMAIN tasks
        /\ \A i \in DOMAIN tasks' : i + 1 \in DOMAIN tasks /\ 1 \in 1 .. i + 1 - 1
        /\ \A i \in DOMAIN tasks : i # 1 => (i - 1 \in DOMAIN tasks' /\ i - 1 + 1 = i)
    BY <1>2
  <1>5. author[b] = user
    <2>1. Becomes(tasks, user, 1, author[tasks[1].batch])
      BY <1>1, <1>2, <1>4 DEF WriteOfUser
    <2> QED BY <1>2, <2>1, BecomesFirst
  <1>6. \A c \in queue[user] : c < b
    BY <1>1, <1>2, <1>3, <1>4 DEF WritesInOrder
  <1>7. ASSUME NEW i \in DOMAIN tasks, i # 1, tasks[i].kind = "write"
        PROVE  tasks[i].batch # b
    <2>1. 1 \in 1 .. i - 1
      BY <1>2, <1>7
    <2>2. b < tasks[i].batch
      BY <1>1, <1>2, <1>7, <2>1 DEF WritesInOrder
    <2>3. tasks[i].batch \in Batches
      BY <1>2, <1>7, TaskTypes, ElementOfSeq
    <2>4. b \in Nat /\ tasks[i].batch \in Nat
      BY <1>3, <2>3, BatchesAreNat
    <2> HIDE DEF b
    <2> QED BY <2>2, <2>4
  <1> HIDE DEF b
  <1>8. \A c : c \in Calls' <=> \E i \in DOMAIN tasks' : tasks'[i].kind = "write"
                                  /\ c = <<author[tasks'[i].batch], tasks'[i].batch>>
    BY <1>1 DEF Calls
  <1>9. \A c : c \in Calls <=> \E i \in DOMAIN tasks : tasks[i].kind = "write"
                                  /\ c = <<author[tasks[i].batch], tasks[i].batch>>
    BY DEF Calls
  <1>10. <<user, b>> \in Calls
    BY <1>1, <1>2, <1>4, <1>5, <1>9 DEF b
  <1>11. ASSUME NEW c \in Calls' PROVE c \in Calls \ {<<user, b>>}
    <2>1. PICK i \in DOMAIN tasks' : tasks'[i].kind = "write"
                                  /\ c = <<author[tasks'[i].batch], tasks'[i].batch>>
      BY <1>8, <1>11
    <2>2. tasks'[i] = tasks[i + 1] /\ i + 1 \in DOMAIN tasks /\ i + 1 # 1
      BY <1>2, <1>4, <2>1
    <2> QED BY <1>7, <1>9, <2>1, <2>2
  <1>12. ASSUME NEW c \in Calls, c # <<user, b>> PROVE c \in Calls'
    <2>1. PICK i \in DOMAIN tasks : tasks[i].kind = "write"
                                  /\ c = <<author[tasks[i].batch], tasks[i].batch>>
      BY <1>9, <1>12
    <2>2. i # 1
      BY <1>2, <1>5, <1>12, <2>1 DEF b
    <2>3. i - 1 \in DOMAIN tasks' /\ tasks'[i - 1] = tasks[i]
      BY <1>2, <1>4, <2>1, <2>2
    <2> QED BY <1>8, <2>1, <2>3
  <1>13. Calls' = Calls \ {<<user, b>>}
    BY <1>11, <1>12
  <1>14. O!Keep(user, b)
    BY <1>1, <1>6, <1>10, <1>13 DEF O!Keep, b
  <1> QED BY <1>3, <1>14 DEF b

\* The first of the pipeline is the first of the queue of its user.
LEMMA FirstOfQueue ==
  ASSUME IInv, pipeline # {}
  PROVE  /\ user \in Users /\ Least(pipeline) \in Batches
         /\ O!First(user, Least(pipeline))
  <1> USE DEF IInv
  <1> DEFINE b == Least(pipeline)
  <1>1. /\ user \in Users /\ queue[user] \subseteq Batches
        /\ pipeline \subseteq queue[user] /\ pipeline \subseteq Nat /\ queue[user] \subseteq Nat
    BY BatchesAreNat DEF PipelineIsFirst, WriteTypeOK
  <1>2. b \in pipeline /\ \A c \in pipeline : b <= c
    BY <1>1, LeastIs
  <1> HIDE DEF b
  <1>3. ASSUME NEW c \in queue[user], ~ (b <= c) PROVE FALSE
    <2>1. c < b
      BY <1>1, <1>2, <1>3
    <2> QED BY <1>1, <1>2, <1>3, <2>1 DEF PipelineIsFirst
  <1> QED BY <1>1, <1>2, <1>3 DEF b, O!First

\* The backend takes the next write of its user.
LEMMA TakeTakes ==
  ASSUME IInv, Take
  PROVE  user \in Users /\ Least(sent \ done) \in Batches /\ O!Take(user, Least(sent \ done))
  <1> DEFINE b == Least(sent \ done)
  <1>1. b \in sent /\ b \in queue[user] /\ b \in Batches /\ \A c \in queue[user] : c < b => c \in done
    BY TakenIs
  <1>2. grpc \in Users /\ user \in Users /\ sent # {} /\ queue[user] \subseteq Batches
    BY <1>1, SentIs
  <1>3. \A c \in queue[user] : c < b => c \in Batches /\ took[c] # {}
    BY <1>1, <1>2 DEF IInv, SentIsPipeline
  <1>4. took' = [took EXCEPT ![b] = @ \cup {grpc}]
        /\ UNCHANGED <<tasks, author, queue, refused>>
    BY DEF Take, local
  <1> HIDE DEF b
  <1>5. /\ \A c \in Batches : c # b => took'[c] = took[c]
        /\ took'[b] # {}
    BY <1>1, <1>4 DEF IInv, WriteTypeOK
  <1>6. Taken' = Taken \cup {b}
    BY <1>1, <1>5 DEF Taken
  <1>7. Calls' = Calls
    BY <1>4 DEF Calls
  <1> QED BY <1>1, <1>2, <1>3, <1>4, <1>6, <1>7 DEF O!Take, Taken, b

\* An answered write leaves its queue.
LEMMA MutationResultAcknowledges ==
  ASSUME IInv, MutationResult
  PROVE  /\ user \in Users /\ Least(pipeline) \in Batches
         /\ O!Acknowledge(user, Least(pipeline))
  <1> DEFINE b == Least(pipeline)
  <1>1. /\ done # {} /\ queue' = [queue EXCEPT ![user] = @ \ {b}]
        /\ UNCHANGED <<tasks, author, took, refused>>
    BY DEF MutationResult, history
  <1>2. pipeline # {} /\ b \in done
    BY <1>1, AnsweredIs
  <1>3. user \in Users /\ b \in Batches /\ O!First(user, b)
    BY <1>2, FirstOfQueue
  <1>4. took[b] # {}
    BY <1>2 DEF IInv, SentIsPipeline
  <1>5. Calls' = Calls
    BY <1>1 DEF Calls
  <1> HIDE DEF b
  <1> QED BY <1>1, <1>3, <1>4, <1>5 DEF O!Acknowledge, b

\* So does a refused one.
LEMMA WriteRefusedRefuses ==
  ASSUME IInv, WriteRefused
  PROVE  /\ user \in Users /\ Least(pipeline) \in Batches
         /\ O!Refuse(user, Least(pipeline))
  <1> DEFINE b == Least(pipeline)
  <1>1. /\ sent # {} /\ queue' = [queue EXCEPT ![user] = @ \ {b}]
        /\ refused' = refused \cup {b}
        /\ UNCHANGED <<tasks, author, took>>
    BY DEF WriteRefused, auth
  <1>2. pipeline # {}
    BY <1>1, SentIs
  <1>3. user \in Users /\ b \in Batches /\ O!First(user, b)
    BY <1>2, FirstOfQueue
  <1>4. Calls' = Calls
    BY <1>1 DEF Calls
  <1> HIDE DEF b
  <1> QED BY <1>1, <1>3, <1>4 DEF O!Refuse, b

\* The end of the app loses what was called for and not kept, and nothing else.
LEMMA AppRestartsForgets == AppRestarts => O!Forget
  <1> SUFFICES ASSUME AppRestarts PROVE O!Forget
    OBVIOUS
  <1>1. tasks' = <<>> /\ UNCHANGED <<queue, took, refused>>
    BY DEF AppRestarts, history
  <1>2. Calls' = {}
    BY <1>1, EmptySeq DEF Calls
  <1> QED BY <1>1, <1>2 DEF O!Forget

\* The writes of a user are kept for that user, reach the backend in their order,
\* and leave their queue only when they were taken or refused (SyncEngine,
\* LocalStore and RemoteStore together).
THEOREM WriteQueueImplementsOutbox == Spec => ImplementsOutbox
  <1>1. Init => O!Init
    <2> SUFFICES ASSUME Init PROVE O!Init
      OBVIOUS
    <2>1. Calls = {}
      BY EmptySeq DEF Init, Calls
    <2> QED BY <2>1 DEF Init, O!Init
  <1>2. IInv /\ [Next]_vars => [O!Next]_O!outbox
    <2> SUFFICES ASSUME IInv, [Next]_vars PROVE O!Next \/ UNCHANGED O!outbox
      OBVIOUS
    <2>1. CASE Write
      BY <2>1, WriteCalls DEF O!Next
    <2>2. CASE AuthChanges \/ HandshakeComplete \/ BackoffElapsed \/ IdleTimeout
               \/ StreamBreaks \/ ConnectivityChanged \/ UNCHANGED vars
      <3>1. UNCHANGED <<tasks, author, queue, took, refused>>
        BY <2>2 DEF AuthChanges, HandshakeComplete, BackoffElapsed, IdleTimeout,
                    StreamBreaks, ConnectivityChanged, vars, local, history
      <3>2. Calls' = Calls
        BY <3>1 DEF Calls
      <3> QED BY <3>1, <3>2, Stutters
    <2>3. CASE Notified
      <3>1. /\ tasks' = Append(tasks, [kind |-> "change", user |-> Head(notices)])
            /\ UNCHANGED <<author, queue, took, refused>>
        BY <2>3 DEF Notified, local, history
      <3>2. Head(notices) \in Users
        BY <2>3 DEF Notified, IInv, WriteTypeOK
      <3>3. [kind |-> "change", user |-> Head(notices)] \in Tasks
        BY <3>2, TaskTypes DEF IInv, WriteTypeOK
      <3> QED BY <3>1, <3>3, CallsStay, Stutters DEF IInv
    <2>4. CASE GiveToken
      <3>1. PICK close \in asked : TokenGiven(close)
        BY <2>4 DEF GiveToken
      <3>2. /\ tasks' = Append(tasks, [kind |-> "token", user |-> authUser, close |-> close])
            /\ UNCHANGED <<author, queue, took, refused>>
        BY <3>1 DEF TokenGiven, local
      <3>3. [kind |-> "token", user |-> authUser, close |-> close] \in Tasks
        BY TaskTypes DEF IInv, WriteTypeOK
      <3> QED BY <3>2, <3>3, CallsStay, Stutters DEF IInv
    <2>5. CASE RunWrite
      BY <2>5, RunWriteKeeps DEF O!Next
    <2>6. CASE RunChange \/ RunToken \/ RunStaleToken \/ RunTokenError
      <3>1. /\ tasks # <<>> /\ Head(tasks).kind # "write" /\ tasks' = Tail(tasks)
            /\ UNCHANGED <<author, queue, took, refused>>
        BY <2>6 DEF RunChange, RunToken, RunStaleToken, RunTokenError, Run, local, history
      <3> QED BY <3>1, CallsLeft, Stutters DEF IInv
    <2>7. CASE Take
      <3> DEFINE b == Least(sent \ done)
      <3>1. user \in Users /\ b \in Batches /\ O!Take(user, b)
        BY <2>7, TakeTakes
      <3> HIDE DEF b
      <3> QED BY <3>1 DEF O!Next, O!Take
    <2>8. CASE MutationResult
      BY <2>8, MutationResultAcknowledges DEF O!Next
    <2>9. CASE WriteRefused
      BY <2>9, WriteRefusedRefuses DEF O!Next
    <2>10. CASE AppRestarts
      BY <2>10, AppRestartsForgets DEF O!Next
    <2> QED
      BY <2>1, <2>2, <2>3, <2>4, <2>5, <2>6, <2>7, <2>8, <2>9, <2>10
         DEF Next, Work, RunTask, Faults
  <1> QED BY WriteQueueIInv, <1>1, <1>2, PTL DEF Spec, ImplementsOutbox, O!Spec

=================================================================================
