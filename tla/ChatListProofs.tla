----------------------------- MODULE ChatListProofs -----------------------------
(***************************************************************************)
(* The chats tab catches up with the database, for any friends and any     *)
(* number of messages and overlapping fetches.  Messages are added and     *)
(* become seen, so what was read at two times is ordered; the last fetch   *)
(* in flight knows at least what the listeners have told.                  *)
(***************************************************************************)
EXTENDS ChatList, SequenceTheorems, FiniteSetTheorems, WellFoundedInduction, TLAPS

Message == [friend : Friends, mine : BOOLEAN, seen : BOOLEAN]

\* What a query, or two of them, may have answered
Snapshots == UNION {[places -> Message] : places \in SUBSET Nat}

\* a was read no later than b
Before(a, b) ==
  /\ DOMAIN a \subseteq DOMAIN b
  /\ \A m \in DOMAIN a :
       a[m].friend = b[m].friend /\ a[m].mine = b[m].mine /\ (a[m].seen => b[m].seen)

Fetch == [stage : {"sent", "received", "profiles"}, got : Snapshots]

TypeOK ==
  /\ db \in Seq(Message)
  /\ told \in [sent : Snapshots, received : Snapshots]
  /\ fetches \in Seq(Fetch)

\* A listener tells its own side of a collection that only grows
ToldOK ==
  /\ Before(told.sent, db) /\ \A m \in DOMAIN told.sent : told.sent[m].mine
  /\ Before(told.received, db) /\ \A m \in DOMAIN told.received : ~told.received[m].mine

GotOK == \A k \in 1..Len(fetches) : Before(fetches[k].got, db)

\* An older fetch has come at least as far as a later one
StagesFall ==
  \A j, k \in 1..Len(fetches) : j < k =>
    /\ fetches[k].stage = "profiles" => fetches[j].stage = "profiles"
    /\ fetches[k].stage = "received" => fetches[j].stage # "sent"

Covers(fetch) ==
  /\ fetch.stage # "sent" => Before(told.sent, fetch.got)
  /\ fetch.stage = "profiles" => Before(told.received, fetch.got)

LastCovers == fetches # << >> => Covers(fetches[Len(fetches)])

\* The list is that of some time; with nothing in flight, of one the listeners knew
Drawn ==
  ~touched => \E g \in Snapshots :
    /\ Before(g, db) /\ chatModels = Rows(g) /\ shown = Rows(g)
    /\ fetches = << >> => Before(told.sent, g) /\ Before(told.received, g)

ListInv == TypeOK /\ ToldOK /\ GotOK /\ StagesFall /\ LastCovers /\ Drawn

\* No answer about profiles overtakes an older one
ProfilesInOrder ==
  \A i \in DOMAIN fetches :
    ProfilesAnswered(i) => \A j \in 1..i - 1 : fetches[j].stage # "profiles"

\* Who is known has written, and every fetch has found it
KnownFound ==
  /\ \A f \in Known : \E m \in DOMAIN db : db[m].friend = f /\ ~db[m].mine
  /\ \A k \in 1..Len(fetches) :
       fetches[k].stage = "profiles" => Known \subseteq UserIDs(fetches[k].got)

-----------------------------------------------------------------------------
(* What was read when.                                                     *)

LEMMA IsSnapshot ==
  ASSUME NEW g
  PROVE  g \in Snapshots <=> DOMAIN g \subseteq Nat /\ g \in [DOMAIN g -> Message]
  BY DEF Snapshots

LEMMA EmptyIsFirst ==
  << >> \in Snapshots /\ \A b : Before(<< >>, b)
<1>1. DOMAIN << >> = {} /\ << >> \in [{} -> Message]
  OBVIOUS
<1> QED
  BY <1>1, IsSnapshot DEF Before

LEMMA BeforeIsOrder ==
  /\ \A a : Before(a, a)
  /\ \A a, b, c : Before(a, b) /\ Before(b, c) => Before(a, c)
  /\ \A a, b \in Snapshots : Before(a, b) /\ Before(b, a) => a = b
<1>1. \A a : Before(a, a)
  BY DEF Before
<1>2. ASSUME NEW a, NEW b, NEW c, Before(a, b), Before(b, c)
      PROVE  Before(a, c)
  BY <1>2 DEF Before
<1>3. ASSUME NEW a \in Snapshots, NEW b \in Snapshots, Before(a, b), Before(b, a)
      PROVE  a = b
  <2>1. DOMAIN a = DOMAIN b /\ a \in [DOMAIN a -> Message] /\ b \in [DOMAIN a -> Message]
    BY <1>3, IsSnapshot DEF Before
  <2>2. ASSUME NEW m \in DOMAIN a PROVE a[m] = b[m]
    BY <1>3, <2>1 DEF Before, Message
  <2> QED
    BY <2>1, <2>2
<1> QED
  BY <1>1, <1>2, <1>3

LEMMA DatabaseIsSnapshot == TypeOK => db \in Snapshots
<1> SUFFICES ASSUME TypeOK PROVE db \in Snapshots
  OBVIOUS
<1>1. DOMAIN db = 1..Len(db) /\ Len(db) \in Nat /\ db \in [1..Len(db) -> Message]
  BY DEF TypeOK
<1> QED
  BY <1>1, IsSnapshot

(* A query brings its side of the collection, all of it.                   *)
LEMMA AnswerIsLatest ==
  ASSUME TypeOK, NEW mine \in BOOLEAN
  PROVE  /\ Answer(mine) \in Snapshots /\ Before(Answer(mine), db)
         /\ \A m \in DOMAIN Answer(mine) : Answer(mine)[m].mine = mine
         /\ \A a : Before(a, db) /\ (\A m \in DOMAIN a : a[m].mine = mine)
              => Before(a, Answer(mine))
<1>1. DOMAIN db \subseteq Nat /\ db \in [DOMAIN db -> Message]
  BY DatabaseIsSnapshot, IsSnapshot
<1> DEFINE side == {m \in DOMAIN db : db[m].mine = mine}
<1>2. Answer(mine) = [m \in side |-> db[m]]
  BY DEF Answer, Restrict
<1>3. Answer(mine) \in [side -> Message] /\ side \subseteq Nat
  BY <1>1, <1>2
<1>4. Answer(mine) \in Snapshots
  BY <1>2, <1>3, IsSnapshot
<1> QED
  BY <1>2, <1>4 DEF Before

LEMMA BothKnow ==
  ASSUME TypeOK, NEW s \in Snapshots, NEW r \in Snapshots, Before(s, db), Before(r, db)
  PROVE  /\ Both(s, r) \in Snapshots /\ Before(Both(s, r), db) /\ Before(r, Both(s, r))
         /\ DOMAIN Both(s, r) = DOMAIN s \cup DOMAIN r
         /\ \A a : /\ Before(a, s) /\ \A m \in DOMAIN a : a[m].mine
                   /\ \A m \in DOMAIN r : ~r[m].mine
                   => Before(a, Both(s, r))
<1>1. /\ DOMAIN s \subseteq Nat /\ s \in [DOMAIN s -> Message]
      /\ DOMAIN r \subseteq Nat /\ r \in [DOMAIN r -> Message]
  BY IsSnapshot
<1>2. /\ DOMAIN Both(s, r) = DOMAIN s \cup DOMAIN r
      /\ \A m \in DOMAIN s \cup DOMAIN r :
           Both(s, r)[m] = IF m \in DOMAIN r THEN r[m] ELSE s[m]
  BY DEF Both
<1>3. Both(s, r) \in [DOMAIN s \cup DOMAIN r -> Message]
  BY <1>1 DEF Both
<1>4. Both(s, r) \in Snapshots
  BY <1>1, <1>2, <1>3, IsSnapshot
<1>5. Before(Both(s, r), db) /\ Before(r, Both(s, r))
  BY <1>2 DEF Before
<1>6. ASSUME NEW a, Before(a, s), \A m \in DOMAIN a : a[m].mine,
             \A m \in DOMAIN r : ~r[m].mine
      PROVE  Before(a, Both(s, r))
  <2>1. ASSUME NEW m \in DOMAIN a PROVE m \notin DOMAIN r /\ m \in DOMAIN s
    BY <1>6 DEF Before
  <2> QED
    BY <1>2, <1>6, <2>1 DEF Before
<1> QED
  BY <1>2, <1>4, <1>5, <1>6

-----------------------------------------------------------------------------
(* What steps do to the fetches in flight.                                 *)

LEMMA RemoveAtRows ==
  ASSUME NEW S, NEW l \in Seq(S), NEW i \in 1 .. Len(l)
  PROVE  /\ RemoveAt(l, i) \in Seq(S) /\ Len(RemoveAt(l, i)) = Len(l) - 1
         /\ \A k \in 1 .. Len(l) - 1 :
              RemoveAt(l, i)[k] = IF k < i THEN l[k] ELSE l[k + 1]
  <1> DEFINE front == SubSeq(l, 1, i - 1)
             back == SubSeq(l, i + 1, Len(l))
  <1>1. /\ front \in Seq(S) /\ Len(front) = i - 1
        /\ \A k \in 1 .. (i - 1) : front[k] = l[k]
    <2>1. \A k \in 1 .. (i - 1) : l[k] \in S
      OBVIOUS
    <2> QED BY <2>1, SubSeqProperties
  <1>2. /\ back \in Seq(S) /\ Len(back) = Len(l) - i
        /\ \A k \in 1 .. (Len(l) - i) : back[k] = l[i + k]
    <2>1. \A k \in (i + 1) .. Len(l) : l[k] \in S
      OBVIOUS
    <2> QED BY <2>1, SubSeqProperties
  <1>3. RemoveAt(l, i) = front \o back
    BY DEF RemoveAt
  <1> HIDE DEF front, back
  <1>4. /\ front \o back \in Seq(S)
        /\ Len(front \o back) = Len(l) - 1
        /\ \A k \in 1 .. (Len(l) - 1) :
             (front \o back)[k] = IF k <= i - 1 THEN front[k] ELSE back[k - (i - 1)]
    BY <1>1, <1>2, ConcatProperties
  <1>5. ASSUME NEW k \in 1 .. (Len(l) - 1)
        PROVE  (front \o back)[k] = IF k < i THEN l[k] ELSE l[k + 1]
    <2>1. CASE k < i
      BY <2>1, <1>1, <1>4
    <2>2. CASE ~(k < i)
      <3>0. k \in 1 .. (Len(l) - 1) /\ ~(k <= i - 1) /\ k - (i - 1) \in 1 .. (Len(l) - i)
        BY <2>2
      <3>1. (front \o back)[k] = back[k - (i - 1)] /\ k - (i - 1) \in 1 .. (Len(l) - i)
        BY <3>0, <1>4
      <3>2. back[k - (i - 1)] = l[i + (k - (i - 1))]
        BY <1>2, <3>1
      <3>3. i + (k - (i - 1)) = k + 1
        OBVIOUS
      <3> QED BY <2>2, <3>1, <3>2, <3>3
    <2> QED BY <2>1, <2>2
  <1> QED BY <1>3, <1>4, <1>5

LEMMA FetchAppended ==
  ASSUME ListInv, told' \in [sent : Snapshots, received : Snapshots], ToldOK',
         fetches' = Append(fetches, Fresh), UNCHANGED <<db, chatModels, shown, touched>>
  PROVE  ListInv'
<1>1. Fresh \in Fetch /\ Fresh.stage = "sent" /\ Fresh.got = << >>
  BY EmptyIsFirst DEF Fresh, Fetch
<1> HIDE DEF Fresh
<1>2. /\ fetches \in Seq(Fetch) /\ fetches' \in Seq(Fetch) /\ fetches' # << >>
      /\ Len(fetches) \in Nat /\ Len(fetches') = Len(fetches) + 1
      /\ \A k \in 1..Len(fetches') :
           fetches'[k] = IF k <= Len(fetches) THEN fetches[k] ELSE Fresh
  BY <1>1 DEF ListInv, TypeOK
<1>3. TypeOK'
  BY <1>2 DEF ListInv, TypeOK
<1>4. GotOK'
  BY <1>1, <1>2, EmptyIsFirst DEF ListInv, GotOK
<1>5. StagesFall'
  <2> SUFFICES ASSUME NEW j \in 1..Len(fetches'), NEW k \in 1..Len(fetches'), j < k
               PROVE  /\ fetches'[k].stage = "profiles" => fetches'[j].stage = "profiles"
                      /\ fetches'[k].stage = "received" => fetches'[j].stage # "sent"
    BY DEF StagesFall
  <2>1. CASE k <= Len(fetches)
    BY <1>2, <2>1 DEF ListInv, StagesFall
  <2>2. CASE ~(k <= Len(fetches))
    BY <1>1, <1>2, <2>2
  <2> QED
    BY <2>1, <2>2
<1>6. LastCovers'
  <2>1. fetches'[Len(fetches')].stage = "sent"
    BY <1>1, <1>2
  <2> QED
    BY <2>1 DEF LastCovers, Covers
<1>7. Drawn'
  BY <1>2 DEF ListInv, Drawn
<1> QED
  BY <1>3, <1>4, <1>5, <1>6, <1>7 DEF ListInv

LEMMA FetchAdvanced ==
  ASSUME ListInv, NEW i \in DOMAIN fetches, InTurn(i), NEW f \in Fetch, Before(f.got, db),
         \/ fetches[i].stage = "sent" /\ f.stage = "received"
         \/ fetches[i].stage = "received" /\ f.stage = "profiles",
         i = Len(fetches) => Covers(f),
         fetches' = [fetches EXCEPT ![i] = f], UNCHANGED <<db, told, chatModels, shown, touched>>
  PROVE  ListInv'
<1>1. /\ fetches \in Seq(Fetch) /\ Len(fetches) \in Nat /\ i \in 1..Len(fetches)
      /\ fetches' \in Seq(Fetch) /\ Len(fetches') = Len(fetches)
      /\ \A k \in 1..Len(fetches) : fetches'[k] = IF k = i THEN f ELSE fetches[k]
  BY DEF ListInv, TypeOK
<1>2. TypeOK' /\ ToldOK'
  BY <1>1 DEF ListInv, TypeOK, ToldOK
<1>3. GotOK'
  BY <1>1 DEF ListInv, GotOK
<1>4. ASSUME NEW j \in 1..i - 1
      PROVE  /\ j \in 1..Len(fetches)
             /\ f.stage = "received" => fetches[j].stage # "sent"
             /\ f.stage = "profiles" => fetches[j].stage = "profiles"
  <2>1. j \in 1..Len(fetches) /\ j < i /\ fetches[j] \in Fetch
    BY <1>1
  <2>2. fetches[i].stage # "profiles" => fetches[j].stage # fetches[i].stage
    BY DEF InTurn
  <2>3. fetches[i].stage = "received" => fetches[j].stage # "sent"
    BY <1>1, <2>1 DEF ListInv, StagesFall
  <2> QED
    BY <2>1, <2>2, <2>3 DEF Fetch
<1>5. StagesFall'
  <2> SUFFICES ASSUME NEW j \in 1..Len(fetches), NEW k \in 1..Len(fetches), j < k
               PROVE  /\ fetches'[k].stage = "profiles" => fetches'[j].stage = "profiles"
                      /\ fetches'[k].stage = "received" => fetches'[j].stage # "sent"
    BY <1>1 DEF StagesFall
  <2>1. CASE j # i /\ k # i
    BY <1>1, <2>1 DEF ListInv, StagesFall
  <2>2. CASE j = i
    <3>1. /\ fetches[k].stage = "profiles" => fetches[i].stage = "profiles"
          /\ fetches'[k] = fetches[k] /\ fetches'[j] = f
      BY <1>1, <2>2 DEF ListInv, StagesFall
    <3> QED
      BY <3>1
  <2>3. CASE k = i
    <3>1. j \in 1..i - 1 /\ fetches'[k] = f /\ fetches'[j] = fetches[j]
      BY <1>1, <2>3
    <3> QED
      BY <1>4, <3>1
  <2> QED
    BY <2>1, <2>2, <2>3
<1>6. LastCovers'
  <2>1. fetches # << >> /\ fetches'[Len(fetches')] = IF i = Len(fetches) THEN f ELSE fetches[Len(fetches)]
    BY <1>1
  <2>2. Covers(fetches'[Len(fetches')])
    BY <2>1 DEF ListInv, LastCovers
  <2> QED
    BY <2>2 DEF LastCovers, Covers
<1>7. Drawn'
  <2>1. fetches' # << >>
    BY <1>1
  <2> QED
    BY <2>1 DEF ListInv, Drawn
<1> QED
  BY <1>2, <1>3, <1>5, <1>6, <1>7 DEF ListInv

LEMMA FetchRemoved ==
  ASSUME ListInv, NEW i \in DOMAIN fetches, fetches' = RemoveAt(fetches, i),
         UNCHANGED <<db, told>>, i = Len(fetches) /\ i # 1 => Covers(fetches[i - 1]), Drawn'
  PROVE  ListInv'
<1>1. fetches \in Seq(Fetch) /\ Len(fetches) \in Nat /\ i \in 1..Len(fetches)
  BY DEF ListInv, TypeOK
<1>2. /\ fetches' \in Seq(Fetch) /\ Len(fetches') = Len(fetches) - 1
      /\ \A k \in 1..Len(fetches) - 1 :
           fetches'[k] = IF k < i THEN fetches[k] ELSE fetches[k + 1]
  BY <1>1, RemoveAtRows
<1> DEFINE was(k) == IF k < i THEN k ELSE k + 1
<1>3. \A k \in 1..Len(fetches') : was(k) \in 1..Len(fetches) /\ fetches'[k] = fetches[was(k)]
  BY <1>1, <1>2
<1>4. \A j, k \in 1..Len(fetches') : j < k => was(j) < was(k)
  BY <1>1, <1>2
<1>5. fetches' # << >> =>
        fetches'[Len(fetches')] = IF i = Len(fetches) THEN fetches[i - 1] ELSE fetches[Len(fetches)]
  BY <1>1, <1>2
<1> HIDE DEF was
<1>6. TypeOK' /\ ToldOK'
  BY <1>2 DEF ListInv, TypeOK, ToldOK
<1>7. GotOK'
  BY <1>3 DEF ListInv, GotOK
<1>8. StagesFall'
  <2> SUFFICES ASSUME NEW j \in 1..Len(fetches'), NEW k \in 1..Len(fetches'), j < k
               PROVE  /\ fetches'[k].stage = "profiles" => fetches'[j].stage = "profiles"
                      /\ fetches'[k].stage = "received" => fetches'[j].stage # "sent"
    BY DEF StagesFall
  <2>1. /\ was(j) \in 1..Len(fetches) /\ was(k) \in 1..Len(fetches) /\ was(j) < was(k)
        /\ fetches'[j] = fetches[was(j)] /\ fetches'[k] = fetches[was(k)]
    BY <1>3, <1>4
  <2> QED
    BY <2>1 DEF ListInv, StagesFall
<1>9. LastCovers'
  <2>1. CASE fetches' = << >>
    BY <2>1 DEF LastCovers
  <2>2. CASE fetches' # << >>
    <3>1. Len(fetches') # 0 /\ fetches # << >>
      BY <1>1, <1>2, <2>2
    <3>2. i = Len(fetches) => i # 1
      BY <1>2, <3>1
    <3>3. Covers(fetches'[Len(fetches')])
      BY <1>5, <2>2, <3>1, <3>2 DEF ListInv, LastCovers
    <3> QED
      BY <3>3 DEF LastCovers, Covers
  <2> QED
    BY <2>1, <2>2
<1> QED
  BY <1>6, <1>7, <1>8, <1>9 DEF ListInv

(* Messages written and read leave everything read before in the past.     *)
LEMMA DatabaseGrows ==
  ASSUME ListInv, World
  PROVE  db' \in Seq(Message) /\ Before(db, db')
<1>1. db \in Seq(Message) /\ Len(db) \in Nat /\ DOMAIN db = 1..Len(db)
  BY DEF ListInv, TypeOK
<1>2. ASSUME NEW f \in Friends, NEW mine \in BOOLEAN, Written(f, mine)
      PROVE  db' \in Seq(Message) /\ Before(db, db')
  <2> DEFINE new == [friend |-> f, mine |-> mine, seen |-> FALSE]
  <2>1. new \in Message /\ db' = Append(db, new)
    BY <1>2 DEF Message, Written
  <2> HIDE DEF new
  <2>2. /\ db' \in Seq(Message) /\ DOMAIN db' = 1..Len(db) + 1
        /\ \A m \in 1..Len(db) : db'[m] = db[m]
    BY <1>1, <2>1
  <2> QED
    BY <1>1, <2>2 DEF Before
<1>3. ASSUME NEW f \in Friends, ReadChat(f)
      PROVE  db' \in Seq(Message) /\ Before(db, db')
  <2> DEFINE read(m) == IF db[m].friend = f /\ ~db[m].mine THEN [db[m] EXCEPT !.seen = TRUE]
                        ELSE db[m]
  <2>1. db' = [m \in 1..Len(db) |-> read(m)]
    BY <1>1, <1>3 DEF ReadChat
  <2>2. ASSUME NEW m \in 1..Len(db)
        PROVE  /\ read(m) \in Message
               /\ read(m).friend = db[m].friend /\ read(m).mine = db[m].mine
               /\ db[m].seen => read(m).seen
    <3>1. db[m] \in Message
      BY <1>1
    <3> QED
      BY <3>1 DEF Message
  <2> HIDE DEF read
  <2>3. db' \in Seq(Message) /\ DOMAIN db' = 1..Len(db)
    BY <1>1, <2>1, <2>2
  <2> QED
    BY <1>1, <2>1, <2>2, <2>3 DEF Before
<1> QED
  BY <1>2, <1>3 DEF World

LEMMA DatabaseGrew ==
  ASSUME ListInv, db' \in Seq(Message), Before(db, db'),
         UNCHANGED <<told, fetches, chatModels, shown, touched>>
  PROVE  ListInv'
<1>1. \A a : Before(a, db) => Before(a, db')
  BY BeforeIsOrder
<1>2. TypeOK'
  BY DEF ListInv, TypeOK
<1>3. ToldOK'
  BY <1>1 DEF ListInv, ToldOK
<1>4. GotOK'
  BY <1>1 DEF ListInv, GotOK
<1>5. StagesFall' /\ LastCovers'
  BY DEF ListInv, StagesFall, LastCovers, Covers
<1>6. Drawn'
  BY <1>1 DEF ListInv, Drawn
<1> QED
  BY <1>2, <1>3, <1>4, <1>5, <1>6 DEF ListInv

(* Steps of the person that change nothing but the rows, if he searched.   *)
LEMMA RowsTouched ==
  ASSUME ListInv, UNCHANGED <<db, told, fetches>>,
         touched' \/ UNCHANGED <<chatModels, shown, touched>>
  PROVE  ListInv'
<1>1. TypeOK' /\ ToldOK' /\ GotOK' /\ StagesFall' /\ LastCovers'
  BY DEF ListInv, TypeOK, ToldOK, GotOK, StagesFall, LastCovers, Covers
<1>2. Drawn'
  BY DEF ListInv, Drawn
<1> QED
  BY <1>1, <1>2 DEF ListInv

-----------------------------------------------------------------------------
(* The list catches up.                                                    *)

LEMMA KnownInOrder ==
  \E n \in Nat : /\ SetToSeq(Known) \in [1..n -> Known]
                 /\ \A f \in Known : \E i \in 1..n : SetToSeq(Known)[i] = f
<1> DEFINE n == Cardinality(Known)
<1>1. IsFiniteSet(Known) /\ n \in Nat
  BY ChatBounds, FS_Subset, FS_CardinalityType
<1>2. IsFiniteSet(1..n) /\ Cardinality(1..n) = n
  BY <1>1, FS_Interval
<1>3. PICK order \in Bijection(1..n, Known) : TRUE
  BY <1>1, <1>2, FS_SameCardinalityBij DEF ExistsBijection
<1>4. order \in [1..n -> Known] /\ IsInjective(order)
  BY <1>3 DEF Bijection, Injection
<1>5. SetToSeq(Known) \in [1..n -> Known] /\ IsInjective(SetToSeq(Known))
  BY <1>4 DEF SetToSeq
<1>6. SetToSeq(Known) \in Injection(1..n, Known)
  BY <1>5 DEF Injection
<1>7. SetToSeq(Known) \in Surjection(1..n, Known)
  BY <1>1, <1>2, <1>6, FS_Injection
<1> QED
  BY <1>1, <1>5, <1>7 DEF Surjection

LEMMA InitialDatabase ==
  Init => /\ db \in Seq(Message)
          /\ \A f \in Known : \E m \in DOMAIN db : db[m].friend = f /\ ~db[m].mine
<1> SUFFICES ASSUME Init
             PROVE  /\ db \in Seq(Message)
                    /\ \A f \in Known : \E m \in DOMAIN db : db[m].friend = f /\ ~db[m].mine
  OBVIOUS
<1> DEFINE order == SetToSeq(Known)
<1>1. db = [i \in DOMAIN order |-> [friend |-> order[i], mine |-> FALSE, seen |-> FALSE]]
  BY DEF Init
<1>2. PICK n \in Nat : /\ order \in [1..n -> Known]
                       /\ \A f \in Known : \E i \in 1..n : order[i] = f
  BY KnownInOrder
<1> HIDE DEF order
<1>3. DOMAIN order = 1..n /\ \A i \in 1..n : order[i] \in Friends
  BY <1>2, ChatBounds
<1> DEFINE first(i) == [friend |-> order[i], mine |-> FALSE, seen |-> FALSE]
<1>4. db = [i \in 1..n |-> first(i)]
  BY <1>1, <1>3
<1>5. \A i \in 1..n : first(i) \in Message
  BY <1>3 DEF Message
<1>6. \A i \in 1..n : first(i).friend = order[i] /\ ~first(i).mine
  OBVIOUS
<1> HIDE DEF first
<1>7. db \in Seq(Message) /\ DOMAIN db = 1..n
  BY <1>2, <1>4, <1>5
<1>8. \A f \in Known : \E m \in DOMAIN db : db[m].friend = f /\ ~db[m].mine
  BY <1>2, <1>4, <1>6, <1>7
<1> QED
  BY <1>7, <1>8

LEMMA NoRows == Rows(<< >>) = << >>
<1>1. UserIDs(<< >>) = {}
  BY DEF UserIDs
<1>2. Cardinality(UserIDs(<< >>)) = 0
  BY <1>1, FS_EmptySet
<1>3. DOMAIN LatestFirst(<< >>) = {}
  BY <1>2 DEF LatestFirst
<1> QED
  BY <1>3 DEF Rows

LEMMA InitInv == Init => ListInv
<1> SUFFICES ASSUME Init PROVE ListInv
  OBVIOUS
<1>1. Fresh \in Fetch /\ Fresh.stage = "sent" /\ Fresh.got = << >>
  BY EmptyIsFirst DEF Fresh, Fetch
<1> HIDE DEF Fresh
<1>2. fetches = <<Fresh>> /\ fetches \in Seq(Fetch) /\ Len(fetches) = 1 /\ fetches[1] = Fresh
  BY <1>1 DEF Init
<1>3. told = [sent |-> << >>, received |-> << >>]
  BY DEF Init, NotTold
<1>4. TypeOK
  BY <1>2, <1>3, InitialDatabase, EmptyIsFirst DEF TypeOK
<1>5. ToldOK
  BY <1>3, EmptyIsFirst DEF ToldOK
<1>6. GotOK /\ StagesFall
  BY <1>1, <1>2, EmptyIsFirst DEF GotOK, StagesFall
<1>7. LastCovers
  BY <1>1, <1>2 DEF LastCovers, Covers
<1>8. Drawn
  <2>1. chatModels = Rows(<< >>) /\ shown = Rows(<< >>) /\ fetches # << >>
    BY <1>2, NoRows DEF Init
  <2> QED
    BY <2>1, EmptyIsFirst DEF Drawn
<1> QED
  BY <1>4, <1>5, <1>6, <1>7, <1>8 DEF ListInv

LEMMA HearInv ==
  ASSUME ListInv, NEW query \in {"sent", "received"}, Hear(query)
  PROVE  ListInv'
<1>1. TypeOK /\ told \in [sent : Snapshots, received : Snapshots]
  BY DEF ListInv, TypeOK
<1> DEFINE mine == query = "sent"
           now == Answer(mine)
<1>2. mine \in BOOLEAN
  OBVIOUS
<1>3. /\ now \in Snapshots /\ Before(now, db)
      /\ \A m \in DOMAIN now : now[m].mine = mine
  BY <1>1, <1>2, AnswerIsLatest
<1>4. /\ told' = [told EXCEPT ![query] = now] /\ fetches' = Append(fetches, Fresh)
      /\ UNCHANGED <<db, chatModels, shown, touched>>
  BY DEF Hear, lists
<1>5. CASE query = "sent"
  <2>1. mine = TRUE
    BY <1>5
  <2> HIDE DEF now, mine
  <2>2. /\ told' \in [sent : Snapshots, received : Snapshots]
        /\ told'.sent = now /\ told'.received = told.received
    BY <1>1, <1>3, <1>4, <1>5
  <2>3. ToldOK'
    BY <1>3, <1>4, <2>1, <2>2 DEF ListInv, ToldOK
  <2> QED
    BY <1>4, <2>2, <2>3, FetchAppended
<1>6. CASE query = "received"
  <2>1. mine = FALSE
    BY <1>6
  <2> HIDE DEF now, mine
  <2>2. /\ told' \in [sent : Snapshots, received : Snapshots]
        /\ told'.received = now /\ told'.sent = told.sent
    BY <1>1, <1>3, <1>4, <1>6
  <2>3. ToldOK'
    BY <1>3, <1>4, <2>1, <2>2 DEF ListInv, ToldOK
  <2> QED
    BY <1>4, <2>2, <2>3, FetchAppended
<1> QED
  BY <1>5, <1>6

LEMMA SentInv ==
  ASSUME ListInv, NEW i \in DOMAIN fetches, SentAnswered(i)
  PROVE  ListInv'
<1>1. TypeOK /\ ToldOK
  BY DEF ListInv
<1>2. /\ Answer(TRUE) \in Snapshots /\ Before(Answer(TRUE), db)
      /\ \A a : Before(a, db) /\ (\A m \in DOMAIN a : a[m].mine = TRUE)
           => Before(a, Answer(TRUE))
  BY <1>1, AnswerIsLatest
<1>3. told.sent \in Snapshots
  BY <1>1 DEF TypeOK
<1>4. \A m \in DOMAIN told.sent : told.sent[m].mine = TRUE
  BY <1>1, <1>3, IsSnapshot DEF ToldOK, Message
<1>5. Before(told.sent, Answer(TRUE))
  BY <1>1, <1>2, <1>4 DEF ToldOK
<1> DEFINE f == [stage |-> "received", got |-> Answer(TRUE)]
<1>6. f \in Fetch /\ f.stage = "received" /\ f.got = Answer(TRUE)
  BY <1>2 DEF Fetch
<1>7. /\ fetches[i].stage = "sent" /\ InTurn(i) /\ fetches' = [fetches EXCEPT ![i] = f]
      /\ UNCHANGED <<db, told, chatModels, shown, touched>>
  BY DEF SentAnswered, lists
<1> HIDE DEF f
<1>8. Covers(f) /\ Before(f.got, db)
  BY <1>2, <1>5, <1>6 DEF Covers
<1> QED
  BY <1>6, <1>7, <1>8, FetchAdvanced

LEMMA ReceivedInv ==
  ASSUME ListInv, NEW i \in DOMAIN fetches, ReceivedAnswered(i)
  PROVE  ListInv'
<1>1. /\ TypeOK /\ ToldOK /\ fetches \in Seq(Fetch) /\ Len(fetches) \in Nat
      /\ i \in 1..Len(fetches) /\ fetches[i] \in Fetch
  BY DEF ListInv, TypeOK
<1> DEFINE now == Answer(FALSE)
           got == fetches[i].got
           all == Both(got, now)
<1>2. /\ now \in Snapshots /\ Before(now, db)
      /\ \A m \in DOMAIN now : now[m].mine = FALSE
      /\ \A a : Before(a, db) /\ (\A m \in DOMAIN a : a[m].mine = FALSE) => Before(a, now)
  BY <1>1, AnswerIsLatest
<1>3. Before(told.received, now)
  <2>1. told.received \in Snapshots
    BY <1>1 DEF TypeOK
  <2>2. \A m \in DOMAIN told.received : told.received[m].mine = FALSE
    BY <1>1, <2>1, IsSnapshot DEF ToldOK, Message
  <2> QED
    BY <1>1, <1>2, <2>2 DEF ToldOK
<1>4. got \in Snapshots /\ Before(got, db)
  BY <1>1 DEF ListInv, GotOK, Fetch
<1>5. /\ fetches[i].stage = "received" /\ InTurn(i)
      /\ fetches' = IF DOMAIN all = {} THEN RemoveAt(fetches, i)
                    ELSE [fetches EXCEPT ![i] = [stage |-> "profiles", got |-> all]]
      /\ UNCHANGED <<db, told, chatModels, shown, touched>>
  BY DEF ReceivedAnswered, lists
<1>6. i = Len(fetches) => Before(told.sent, got)
  <2>1. fetches # << >>
    BY <1>1
  <2> QED
    BY <1>5, <2>1 DEF ListInv, LastCovers, Covers
<1> HIDE DEF now, got
<1>7. /\ all \in Snapshots /\ Before(all, db) /\ Before(now, all)
      /\ DOMAIN all = DOMAIN got \cup DOMAIN now
      /\ \A a : /\ Before(a, got) /\ \A m \in DOMAIN a : a[m].mine
                /\ \A m \in DOMAIN now : ~now[m].mine
                => Before(a, all)
  BY <1>1, <1>2, <1>4, BothKnow
<1> HIDE DEF all
<1>8. /\ Before(told.received, all)
      /\ i = Len(fetches) => Before(told.sent, all)
  BY <1>1, <1>2, <1>3, <1>6, <1>7, BeforeIsOrder DEF ToldOK
<1>9. CASE DOMAIN all # {}
  <2> DEFINE f == [stage |-> "profiles", got |-> all]
  <2>1. f \in Fetch /\ f.stage = "profiles" /\ f.got = all
    BY <1>7 DEF Fetch
  <2>2. fetches' = [fetches EXCEPT ![i] = f]
    BY <1>5, <1>9
  <2> HIDE DEF f
  <2>3. Before(f.got, db) /\ (i = Len(fetches) => Covers(f))
    BY <1>7, <1>8, <2>1 DEF Covers
  <2> QED
    BY <1>5, <2>1, <2>2, <2>3, FetchAdvanced
<1>10. CASE DOMAIN all = {}
  <2>1. fetches' = RemoveAt(fetches, i)
    BY <1>5, <1>10
  <2>2. i = Len(fetches) => DOMAIN told.sent = {} /\ DOMAIN told.received = {}
    BY <1>8, <1>10 DEF Before
  <2>3. i = Len(fetches) => \A g : Before(told.sent, g) /\ Before(told.received, g)
    BY <2>2 DEF Before
  <2>4. i = Len(fetches) /\ i # 1 => Covers(fetches[i - 1])
    BY <2>3 DEF Covers
  <2>5. fetches' = << >> => i = Len(fetches)
    <3>1. Len(fetches') = Len(fetches) - 1
      BY <1>1, <2>1, RemoveAtRows
    <3> QED
      BY <1>1, <3>1
  <2>6. Drawn'
    BY <1>5, <2>3, <2>5 DEF ListInv, Drawn
  <2> QED
    BY <1>5, <2>1, <2>4, <2>6, FetchRemoved
<1> QED
  BY <1>9, <1>10

LEMMA ProfilesInv ==
  ASSUME ListInv, NEW i \in DOMAIN fetches, ProfilesAnswered(i), ProfilesInOrder
  PROVE  ListInv'
<1>1. /\ TypeOK /\ fetches \in Seq(Fetch) /\ Len(fetches) \in Nat
      /\ i \in 1..Len(fetches) /\ fetches[i] \in Fetch
  BY DEF ListInv, TypeOK
<1> DEFINE got == fetches[i].got
<1>2. /\ fetches[i].stage = "profiles" /\ chatModels' = Rows(got) /\ shown' = Rows(got)
      /\ fetches' = RemoveAt(fetches, i) /\ UNCHANGED <<db, told>>
  BY DEF ProfilesAnswered
<1>3. got \in Snapshots /\ Before(got, db)
  BY <1>1 DEF ListInv, GotOK, Fetch
<1>4. i = 1
  <2> SUFFICES ASSUME i # 1 PROVE FALSE
    OBVIOUS
  <2>1. 1 \in 1..i - 1 /\ 1 \in 1..Len(fetches) /\ 1 < i
    BY <1>1
  <2>2. fetches[1].stage = "profiles"
    BY <1>1, <1>2, <2>1 DEF ListInv, StagesFall
  <2> QED
    BY <2>1, <2>2 DEF ProfilesInOrder
<1>5. fetches' = << >> => Before(told.sent, got) /\ Before(told.received, got)
  <2>1. fetches' = << >> => i = Len(fetches)
    <3>1. Len(fetches') = Len(fetches) - 1
      BY <1>1, <1>2, RemoveAtRows
    <3> QED
      BY <1>1, <3>1
  <2>2. fetches # << >>
    BY <1>1
  <2> QED
    BY <1>2, <2>1, <2>2 DEF ListInv, LastCovers, Covers
<1> HIDE DEF got
<1>6. Drawn'
  BY <1>2, <1>3, <1>5 DEF Drawn
<1> QED
  BY <1>2, <1>4, <1>6, FetchRemoved

LEMMA PersonInv == ListInv /\ Person => ListInv'
<1> SUFFICES ASSUME ListInv, Person PROVE ListInv'
  OBVIOUS
<1>1. CASE Leave \/ TypeText \/ \E row \in DOMAIN shown : Open(row)
  BY <1>1, RowsTouched DEF Leave, TypeText, Open, lists
<1>2. CASE TextCleared \/ EditingEnds
  BY <1>2, RowsTouched DEF TextCleared, EditingEnds
<1>3. CASE \E hits \in SUBSET Friends : SearchClicked(hits)
  BY <1>3, RowsTouched DEF SearchClicked
<1>4. CASE Return
  <2>1. /\ told' = [sent |-> << >>, received |-> << >>]
        /\ UNCHANGED <<db, fetches, chatModels, shown, touched>>
    BY <1>4 DEF Return, NotTold, lists
  <2>2. told'.sent = << >> /\ told'.received = << >>
    BY <2>1
  <2>3. TypeOK' /\ ToldOK'
    BY <2>1, <2>2, EmptyIsFirst DEF ListInv, TypeOK, ToldOK
  <2>4. GotOK' /\ StagesFall'
    BY <2>1 DEF ListInv, GotOK, StagesFall
  <2>5. LastCovers' /\ Drawn'
    BY <2>1, <2>2, EmptyIsFirst DEF ListInv, LastCovers, Covers, Drawn
  <2> QED
    BY <2>3, <2>4, <2>5 DEF ListInv
<1> QED
  BY <1>1, <1>2, <1>3, <1>4 DEF Person

LEMMA StepInv == ListInv /\ [Next]_vars /\ ProfilesInOrder => ListInv'
<1> SUFFICES ASSUME ListInv, [Next]_vars, ProfilesInOrder PROVE ListInv'
  OBVIOUS
<1>1. CASE System
  BY <1>1, HearInv, SentInv, ReceivedInv, ProfilesInv DEF System
<1>2. CASE Person
  BY <1>2, PersonInv
<1>3. CASE World
  <2>1. UNCHANGED <<told, fetches, chatModels, shown, touched>>
    BY <1>3 DEF World, Written, ReadChat, lists
  <2> QED
    BY <1>3, <2>1, DatabaseGrows, DatabaseGrew
<1>4. CASE UNCHANGED vars
  BY <1>4, RowsTouched DEF vars, lists
<1> QED
  BY <1>1, <1>2, <1>3, <1>4 DEF Next

(* Settled, the listeners have told everything, and so the list is of now. *)
LEMMA SettledShowsAll == ListInv => ListCatchesUp
<1> SUFFICES ASSUME ListInv, Settled, ~touched
             PROVE  chatModels = Rows(db) /\ shown = Rows(db)
  BY DEF ListCatchesUp
<1>1. TypeOK /\ fetches = << >> /\ told.sent = Answer(TRUE) /\ told.received = Answer(FALSE)
  BY DEF ListInv, Settled
<1>2. PICK g \in Snapshots :
        /\ Before(g, db) /\ chatModels = Rows(g) /\ shown = Rows(g)
        /\ Before(Answer(TRUE), g) /\ Before(Answer(FALSE), g)
  BY <1>1 DEF ListInv, Drawn
<1>3. db \in Snapshots /\ db \in [DOMAIN db -> Message]
  BY <1>1, DatabaseIsSnapshot, IsSnapshot
<1>4. ASSUME NEW m \in DOMAIN db
      PROVE  /\ m \in DOMAIN g
             /\ db[m].friend = g[m].friend /\ db[m].mine = g[m].mine /\ (db[m].seen => g[m].seen)
  <2>1. db[m].mine \in BOOLEAN
    BY <1>3 DEF Message
  <2>2. m \in DOMAIN Answer(db[m].mine) /\ Answer(db[m].mine)[m] = db[m]
    BY DEF Answer, Restrict
  <2>3. CASE db[m].mine = TRUE
    BY <1>2, <2>2, <2>3 DEF Before
  <2>4. CASE db[m].mine = FALSE
    BY <1>2, <2>2, <2>4 DEF Before
  <2> QED
    BY <2>1, <2>3, <2>4
<1>5. Before(db, g)
  BY <1>4 DEF Before
<1>6. g = db
  BY <1>2, <1>3, <1>5, BeforeIsOrder
<1> QED
  BY <1>2, <1>6

(* For any friends, whoever has written before: a settled tab lists what   *)
(* is in the database, as long as no answer about profiles overtook an     *)
(* older one (fetchChatModels takes whatever comes).                       *)
THEOREM CatchesUpInOrder == Spec /\ [][ProfilesInOrder]_vars => []ListCatchesUp
<1>1. Init => ListInv
  BY InitInv
<1>2. ListInv /\ [Next]_vars /\ [ProfilesInOrder]_vars => ListInv'
  <2>1. CASE ProfilesInOrder
    BY <2>1, StepInv
  <2>2. CASE UNCHANGED vars
    BY <2>2, RowsTouched DEF vars, lists
  <2> QED
    BY <2>1, <2>2
<1>3. ListInv => ListCatchesUp
  BY SettledShowsAll
<1> QED
  BY <1>1, <1>2, <1>3, PTL DEF Spec

-----------------------------------------------------------------------------
(* Friends who have all written before the tab is loaded: every fetch asks *)
(* for the same profiles, and those answers come in order.                 *)

LEMMA FindsAll ==
  ASSUME Known = Friends, ListInv, KnownFound
  PROVE  ProfilesInOrder
<1> SUFFICES ASSUME NEW i \in DOMAIN fetches, ProfilesAnswered(i),
                    NEW j \in 1..i - 1, fetches[j].stage = "profiles"
             PROVE  FALSE
  BY DEF ProfilesInOrder
<1>1. /\ fetches \in Seq(Fetch) /\ Len(fetches) \in Nat
      /\ i \in 1..Len(fetches) /\ j \in 1..Len(fetches)
  BY DEF ListInv, TypeOK
<1>2. fetches[i].stage = "profiles" /\ InTurn(i)
  BY DEF ProfilesAnswered
<1>3. ASSUME NEW k \in {i, j} PROVE UserIDs(fetches[k].got) = Friends
  <2>1. Friends \subseteq UserIDs(fetches[k].got)
    BY <1>1, <1>2 DEF KnownFound
  <2>2. fetches[k].got \in Snapshots
    <3>1. fetches[k] \in Fetch
      BY <1>1
    <3> QED
      BY <3>1 DEF Fetch
  <2>3. \A m \in DOMAIN fetches[k].got : fetches[k].got[m].friend \in Friends
    BY <2>2, IsSnapshot DEF Message
  <2> QED
    BY <2>1, <2>3 DEF UserIDs
<1>4. UserIDs(fetches[i].got) = UserIDs(fetches[j].got)
  BY <1>3
<1> QED
  BY <1>2, <1>4 DEF InTurn

LEMMA KnownInit == Init => KnownFound
<1> SUFFICES ASSUME Init PROVE KnownFound
  OBVIOUS
<1>1. fetches = <<Fresh>> /\ Fresh.stage = "sent"
  BY DEF Init, Fresh
<1> HIDE DEF Fresh
<1>2. \A k \in 1..Len(fetches) : fetches[k].stage = "sent"
  BY <1>1
<1> QED
  BY <1>2, InitialDatabase DEF KnownFound

\* What is in flight after a step was there before, or is an answer of now
FetchesCarry ==
  \A k \in 1..Len(fetches') : fetches'[k].stage = "profiles" =>
    \/ \E i \in 1..Len(fetches) :
         fetches[i].stage = "profiles" /\ fetches'[k].got = fetches[i].got
    \/ \E s : fetches'[k].got = Both(s, Answer(FALSE))

LEMMA StepCarries ==
  ASSUME ListInv, [Next]_vars
  PROVE  FetchesCarry
<1>0. fetches \in Seq(Fetch) /\ Len(fetches) \in Nat /\ DOMAIN fetches = 1..Len(fetches)
  BY DEF ListInv, TypeOK
<1>1. CASE UNCHANGED fetches
  BY <1>1 DEF FetchesCarry
<1>2. ASSUME NEW query \in {"sent", "received"}, Hear(query) PROVE FetchesCarry
  <2>1. fetches' = Append(fetches, Fresh) /\ Fresh.stage = "sent"
    BY <1>2 DEF Hear, Fresh
  <2> HIDE DEF Fresh
  <2>2. /\ Len(fetches') = Len(fetches) + 1
        /\ \A k \in 1..Len(fetches') :
             fetches'[k] = IF k <= Len(fetches) THEN fetches[k] ELSE Fresh
    BY <1>0, <2>1
  <2>3. ASSUME NEW k \in 1..Len(fetches'), fetches'[k].stage = "profiles"
        PROVE  k \in 1..Len(fetches) /\ fetches'[k] = fetches[k]
    BY <1>0, <2>1, <2>2, <2>3
  <2> QED
    BY <2>3 DEF FetchesCarry
<1>3. ASSUME NEW i \in DOMAIN fetches, SentAnswered(i) PROVE FetchesCarry
  <2> DEFINE f == [stage |-> "received", got |-> Answer(TRUE)]
  <2>1. fetches' = [fetches EXCEPT ![i] = f] /\ f.stage = "received"
    BY <1>3 DEF SentAnswered
  <2> HIDE DEF f
  <2>2. /\ Len(fetches') = Len(fetches)
        /\ \A k \in 1..Len(fetches) : fetches'[k] = IF k = i THEN f ELSE fetches[k]
    BY <1>0, <2>1
  <2>3. ASSUME NEW k \in 1..Len(fetches'), fetches'[k].stage = "profiles"
        PROVE  k \in 1..Len(fetches) /\ fetches'[k] = fetches[k]
    BY <2>1, <2>2, <2>3
  <2> QED
    BY <2>3 DEF FetchesCarry
<1>4. ASSUME NEW i \in DOMAIN fetches, fetches' = RemoveAt(fetches, i) PROVE FetchesCarry
  <2>1. /\ Len(fetches') = Len(fetches) - 1
        /\ \A k \in 1..Len(fetches) - 1 :
             fetches'[k] = IF k < i THEN fetches[k] ELSE fetches[k + 1]
    BY <1>0, <1>4, RemoveAtRows
  <2>2. \A k \in 1..Len(fetches') : \E p \in 1..Len(fetches) : fetches'[k] = fetches[p]
    BY <1>0, <2>1
  <2> QED
    BY <2>2 DEF FetchesCarry
<1>5. ASSUME NEW i \in DOMAIN fetches, ReceivedAnswered(i) PROVE FetchesCarry
  <2> DEFINE all == Both(fetches[i].got, Answer(FALSE))
  <2>1. \/ fetches' = RemoveAt(fetches, i)
        \/ fetches' = [fetches EXCEPT ![i] = [stage |-> "profiles", got |-> all]]
    BY <1>5 DEF ReceivedAnswered
  <2>2. \E s : all = Both(s, Answer(FALSE))
    OBVIOUS
  <2> HIDE DEF all
  <2>3. CASE fetches' = [fetches EXCEPT ![i] = [stage |-> "profiles", got |-> all]]
    <3> DEFINE f == [stage |-> "profiles", got |-> all]
    <3>1. fetches' = [fetches EXCEPT ![i] = f] /\ f.got = all
      BY <2>3
    <3> HIDE DEF f
    <3>2. /\ Len(fetches') = Len(fetches)
          /\ \A k \in 1..Len(fetches) : fetches'[k] = IF k = i THEN f ELSE fetches[k]
      BY <1>0, <3>1
    <3>3. ASSUME NEW k \in 1..Len(fetches')
          PROVE  fetches'[k].got = all \/ (k \in 1..Len(fetches) /\ fetches'[k] = fetches[k])
      BY <3>1, <3>2
    <3> QED
      BY <2>2, <3>3 DEF FetchesCarry
  <2> QED
    BY <1>4, <2>1, <2>3
<1>6. CASE System
  BY <1>2, <1>3, <1>4, <1>5, <1>6 DEF System, ProfilesAnswered
<1>7. CASE Person \/ World
  BY <1>1, <1>7
     DEF Person, Leave, Return, TypeText, TextCleared, EditingEnds, Open, SearchClicked,
         World, Written, ReadChat
<1> QED
  BY <1>1, <1>6, <1>7 DEF Next, vars

LEMMA KnownStep == ListInv /\ KnownFound /\ [Next]_vars => KnownFound'
<1> SUFFICES ASSUME ListInv, KnownFound, [Next]_vars PROVE KnownFound'
  OBVIOUS
<1>1. Before(db, db')
  <2>1. CASE World
    BY <2>1, DatabaseGrows
  <2>2. CASE UNCHANGED db
    BY <2>2, BeforeIsOrder
  <2>3. World \/ UNCHANGED db
    BY DEF Next, System, Hear, SentAnswered, ReceivedAnswered, ProfilesAnswered, Person, Leave,
           Return, TypeText, TextCleared, EditingEnds, Open, SearchClicked, vars
  <2> QED
    BY <2>1, <2>2, <2>3
<1>2. \A f \in Known : \E m \in DOMAIN db' : db'[m].friend = f /\ ~db'[m].mine
  BY <1>1 DEF KnownFound, Before
<1>3. \A s : Known \subseteq UserIDs(Both(s, Answer(FALSE)))
  <2> SUFFICES ASSUME NEW s, NEW f \in Known
               PROVE  f \in UserIDs(Both(s, Answer(FALSE)))
    OBVIOUS
  <2>1. PICK m \in DOMAIN db : db[m].friend = f /\ ~db[m].mine
    BY DEF KnownFound
  <2>2. db[m].mine = FALSE
    BY <2>1, DatabaseIsSnapshot, IsSnapshot DEF ListInv, Message
  <2>3. m \in DOMAIN Answer(FALSE) /\ Answer(FALSE)[m] = db[m]
    BY <2>2 DEF Answer, Restrict
  <2>4. m \in DOMAIN Both(s, Answer(FALSE)) /\ Both(s, Answer(FALSE))[m] = db[m]
    BY <2>3 DEF Both
  <2> QED
    BY <2>1, <2>4 DEF UserIDs
<1>4. \A k \in 1..Len(fetches') :
        fetches'[k].stage = "profiles" => Known \subseteq UserIDs(fetches'[k].got)
  <2> SUFFICES ASSUME NEW k \in 1..Len(fetches'), fetches'[k].stage = "profiles"
               PROVE  Known \subseteq UserIDs(fetches'[k].got)
    OBVIOUS
  <2>1. \/ \E i \in 1..Len(fetches) :
             fetches[i].stage = "profiles" /\ fetches'[k].got = fetches[i].got
        \/ \E s : fetches'[k].got = Both(s, Answer(FALSE))
    BY StepCarries DEF FetchesCarry
  <2> QED
    BY <1>3, <2>1 DEF KnownFound
<1> QED
  BY <1>2, <1>4 DEF KnownFound, UserIDs

(* Between friends who have all written, a settled tab lists what is in    *)
(* the database, whatever fetches overlapped and however often the tab was *)
(* left, unless the search bar has changed the list since.                 *)
THEOREM CatchesUp ==
  ASSUME Known = Friends
  PROVE  Spec => []ListCatchesUp
<1>1. Init => ListInv /\ KnownFound
  BY InitInv, KnownInit
<1>2. ListInv /\ KnownFound /\ [Next]_vars => ListInv' /\ KnownFound'
  BY StepInv, KnownStep, FindsAll
<1>3. ListInv => ListCatchesUp
  BY SettledShowsAll
<1> QED
  BY <1>1, <1>2, <1>3, PTL DEF Spec

-----------------------------------------------------------------------------
(* The order of the rows.                                                  *)

LEMMA MaxInSet ==
  ASSUME NEW N \in Nat, NEW S, S \subseteq 1..N, S # {}
  PROVE  Max(S) \in S /\ \A y \in S : Max(S) >= y
<1> DEFINE Below == {p \in Nat \X Nat : p[1] < p[2]}
           T == {k \in Nat : N - k \in S}
<1>1. IsWellFoundedOn(Below, Nat)
  BY NatLessThanWellFounded DEF OpToRel
<1>2. PICK s \in S : s \in 1..N
  OBVIOUS
<1>3. N - s \in T
  BY <1>2
<1> HIDE DEF Below
<1>4. PICK k \in T : \A l \in T : <<l, k>> \notin Below
  BY <1>1, <1>3, WFMin
<1>5. ASSUME NEW y \in S PROVE N - k >= y
  <2>1. y \in 1..N /\ N - y \in T /\ k \in Nat
    BY <1>4
  <2>2. N - y < k => <<N - y, k>> \in Below
    BY <2>1 DEF Below
  <2> QED
    BY <1>4, <2>1, <2>2
<1>6. N - k \in S
  BY <1>4
<1> QED
  BY <1>5, <1>6 DEF Max

(* lastDate: the last message with somebody is one with him.               *)
LEMMA LastIsLast ==
  ASSUME NEW N \in Nat, NEW g, DOMAIN g \subseteq 1..N, NEW f \in UserIDs(g)
  PROVE  /\ LastOf(g, f) \in DOMAIN g /\ LastOf(g, f) \in Nat /\ g[LastOf(g, f)].friend = f
         /\ \A m \in DOMAIN g : g[m].friend = f => LastOf(g, f) >= m
<1> DEFINE places == {m \in DOMAIN g : g[m].friend = f}
<1>1. places \subseteq 1..N /\ places # {}
  BY DEF UserIDs
<1>2. LastOf(g, f) = Max(places)
  BY DEF LastOf
<1>3. Max(places) \in places /\ \A y \in places : Max(places) >= y
  BY <1>1, MaxInSet
<1> QED
  BY <1>1, <1>2, <1>3

(* sorted: everybody with messages has one place, latest message first.    *)
LEMMA LatestFirstIsOrder ==
  ASSUME NEW N \in Nat, NEW g, DOMAIN g \subseteq 1..N, IsFiniteSet(UserIDs(g))
  PROVE  LET order == LatestFirst(g)
             n == Cardinality(UserIDs(g))
         IN  /\ n \in Nat /\ order \in [1..n -> UserIDs(g)]
             /\ \A f \in UserIDs(g) : \E i \in 1..n : order[i] = f
             /\ \A i, j \in 1..n : i < j => LastOf(g, order[i]) > LastOf(g, order[j])
<1> DEFINE ids == UserIDs(g)
           n == Cardinality(ids)
           order == LatestFirst(g)
           last == [f \in ids |-> LastOf(g, f)]
           above(f) == {h \in ids : last[h] >= last[f]}
           rank == [f \in ids |-> Cardinality(above(f))]
<1>1. n \in Nat
  BY FS_CardinalityType
<1>2. last \in [ids -> Nat] /\ \A f, h \in ids : last[f] = last[h] => f = h
  <2>1. \A f \in ids : last[f] \in Nat /\ g[last[f]].friend = f
    BY LastIsLast
  <2> QED
    BY <2>1
<1> DEFINE place(f) == Cardinality({h \in ids : LastOf(g, h) >= LastOf(g, f)})
<1>3. \A f \in ids : rank[f] = place(f)
  <2>1. \A f \in ids : above(f) = {h \in ids : LastOf(g, h) >= LastOf(g, f)}
    OBVIOUS
  <2> QED
    BY <2>1
<1> HIDE DEF last, order
<1>4. ASSUME NEW f \in ids
      PROVE  IsFiniteSet(above(f)) /\ Cardinality(above(f)) \in 1..n
  <2>1. above(f) \in SUBSET ids /\ f \in above(f)
    BY <1>2
  <2>2. IsFiniteSet(above(f)) /\ Cardinality(above(f)) <= n
    BY <2>1, FS_Subset
  <2>3. Cardinality(above(f)) \in Nat /\ Cardinality(above(f)) # 0
    BY <2>1, <2>2, FS_CardinalityType, FS_EmptySet
  <2> QED
    BY <1>1, <2>2, <2>3
<1>5. rank \in [ids -> 1..n]
  BY <1>4
<1>6. ASSUME NEW f \in ids, NEW h \in ids, last[f] > last[h]
      PROVE  rank[f] < rank[h]
  <2>1. above(f) \in SUBSET above(h) /\ h \in above(h) /\ h \notin above(f)
    BY <1>2, <1>6
  <2>2. IsFiniteSet(above(h)) /\ above(f) # above(h)
    BY <1>4, <2>1
  <2>3. Cardinality(above(f)) <= Cardinality(above(h)) /\ Cardinality(above(f)) # Cardinality(above(h))
    BY <2>1, <2>2, FS_Subset
  <2>4. Cardinality(above(f)) \in Nat /\ Cardinality(above(h)) \in Nat
    BY <1>4
  <2> QED
    BY <2>3, <2>4
<1> HIDE DEF rank
<1>7. ASSUME NEW f \in ids, NEW h \in ids, rank[f] = rank[h]
      PROVE  f = h
  <2>1. ~(last[f] > last[h]) /\ ~(last[h] > last[f])
    BY <1>5, <1>6, <1>7
  <2> QED
    BY <1>2, <2>1
<1>8. rank \in Injection(ids, 1..n)
  BY <1>5, <1>7 DEF Injection, IsInjective
<1>9. IsFiniteSet(1..n) /\ Cardinality(1..n) = n
  BY <1>1, FS_Interval
<1>10. rank \in Surjection(ids, 1..n)
  BY <1>8, <1>9, FS_Injection
<1>11. ASSUME NEW i \in 1..n
       PROVE  order[i] \in ids /\ rank[order[i]] = i
  <2>1. \E f \in ids : place(f) = i
    BY <1>3, <1>10 DEF Surjection
  <2>2. order[i] = CHOOSE f \in ids : place(f) = i
    BY DEF order, LatestFirst
  <2> HIDE DEF place
  <2> QED
    BY <1>3, <2>1, <2>2
<1>12. order \in [1..n -> ids]
  <2> DEFINE chosen(i) == CHOOSE f \in ids : place(f) = i
  <2>1. order = [i \in 1..n |-> chosen(i)]
    BY DEF order, LatestFirst
  <2>2. ASSUME NEW i \in 1..n PROVE chosen(i) \in ids
    BY <1>11, <2>1
  <2> HIDE DEF chosen
  <2> QED
    BY <2>1, <2>2
<1>13. \A f \in ids : \E i \in 1..n : order[i] = f
  BY <1>5, <1>7, <1>11
<1>14. ASSUME NEW i \in 1..n, NEW j \in 1..n, i < j
       PROVE  LastOf(g, order[i]) > LastOf(g, order[j])
  <2>1. order[i] \in ids /\ order[j] \in ids /\ rank[order[i]] < rank[order[j]]
    BY <1>11, <1>14
  <2>2. ~(last[order[j]] > last[order[i]]) /\ last[order[i]] # last[order[j]]
    BY <1>2, <1>5, <1>6, <2>1
  <2>3. last[order[i]] > last[order[j]]
    BY <1>2, <2>1, <2>2
  <2> QED
    BY <2>1, <2>3 DEF last
<1> QED
  BY <1>1, <1>12, <1>13, <1>14 DEF order

\* One row for everybody there are messages with, latest message first
OneRowEach(rows) ==
  /\ \A i \in DOMAIN rows : rows[i].friend \in UserIDs(db)
  /\ \A f \in UserIDs(db) : \E i \in DOMAIN rows : rows[i].friend = f
  /\ \A i, j \in DOMAIN rows :
       i < j => LastOf(db, rows[i].friend) > LastOf(db, rows[j].friend)

LEMMA RowsInOrder == TypeOK => OneRowEach(Rows(db))
<1> SUFFICES ASSUME TypeOK PROVE OneRowEach(Rows(db))
  OBVIOUS
<1>1. DOMAIN db = 1..Len(db) /\ Len(db) \in Nat /\ \A m \in DOMAIN db : db[m] \in Message
  BY DEF TypeOK
<1>2. UserIDs(db) \in SUBSET Friends
  BY <1>1 DEF UserIDs, Message
<1>3. IsFiniteSet(UserIDs(db))
  BY <1>2, ChatBounds, FS_Subset
<1> DEFINE order == LatestFirst(db)
           n == Cardinality(UserIDs(db))
<1>4. /\ n \in Nat /\ order \in [1..n -> UserIDs(db)]
      /\ \A f \in UserIDs(db) : \E i \in 1..n : order[i] = f
      /\ \A i, j \in 1..n : i < j => LastOf(db, order[i]) > LastOf(db, order[j])
  BY <1>1, <1>3, LatestFirstIsOrder
<1>5. DOMAIN Rows(db) = DOMAIN order /\ \A i \in DOMAIN order : Rows(db)[i].friend = order[i]
  BY DEF Rows
<1> HIDE DEF order, n
<1>6. DOMAIN order = 1..n
  BY <1>4
<1> QED
  BY <1>4, <1>5, <1>6 DEF OneRowEach

(* README: "chat view shows all chats with your friends sorted by latest   *)
(* message".  A settled tab has one row for each friend there are messages *)
(* with, and no row above one with a later message.                        *)
THEOREM SortedByLatest ==
  ASSUME Known = Friends
  PROVE  Spec => [](Settled /\ ~touched => OneRowEach(chatModels) /\ OneRowEach(shown))
<1>1. Init => ListInv /\ KnownFound
  BY InitInv, KnownInit
<1>2. ListInv /\ KnownFound /\ [Next]_vars => ListInv' /\ KnownFound'
  BY StepInv, KnownStep, FindsAll
<1>3. ListInv => (Settled /\ ~touched => OneRowEach(chatModels) /\ OneRowEach(shown))
  BY SettledShowsAll, RowsInOrder DEF ListCatchesUp, ListInv
<1> QED
  BY <1>1, <1>2, <1>3, PTL DEF Spec
=============================================================================
