-------------------------- MODULE ConversationProofs --------------------------
(***************************************************************************)
(* The safety of a chat, for any number of views and messages: no message  *)
(* of the friend is missing, none is doubled where no preview covered the  *)
(* chat, and SEEN means loaded by the receiver.                            *)
(***************************************************************************)
EXTENDS Conversation, FiniteSetTheorems, TLAPS

Ids(rows) == {rows[i].id : i \in DOMAIN rows}

Distinct(rows) == \A i, j \in DOMAIN rows : rows[i].id = rows[j].id => i = j

SentIn(d, u) == {m \in DOMAIN d : d[m].sender = u}

-----------------------------------------------------------------------------
(* Sorting.                                                                *)

Rank(all) == [r \in all |-> Cardinality({t \in all : t.id <= r.id})]

(* The place of a row among those with distinct dates is its own.          *)
LEMMA RankBijective ==
  ASSUME NEW all, IsFiniteSet(all), \A r \in all : r.id \in Nat,
         \A r, t \in all : r.id = t.id => r = t
  PROVE  /\ Cardinality(all) \in Nat
         /\ Rank(all) \in [all -> 1..Cardinality(all)]
         /\ \A r, t \in all : Rank(all)[r] = Rank(all)[t] => r = t
         /\ \A i \in 1..Cardinality(all) : \E r \in all : Rank(all)[r] = i
<1> DEFINE n == Cardinality(all)
           below(r) == {t \in all : t.id <= r.id}
<1>1. n \in Nat
  BY FS_CardinalityType
<1>2. ASSUME NEW r \in all
      PROVE  IsFiniteSet(below(r)) /\ Cardinality(below(r)) \in 1..n
  <2>1. below(r) \in SUBSET all /\ r \in below(r)
    OBVIOUS
  <2>2. IsFiniteSet(below(r)) /\ Cardinality(below(r)) <= n
    BY <2>1, FS_Subset
  <2>3. Cardinality(below(r)) \in Nat /\ Cardinality(below(r)) # 0
    BY <2>1, <2>2, FS_CardinalityType, FS_EmptySet
  <2> QED
    BY <1>1, <2>2, <2>3
<1>3. Rank(all) \in [all -> 1..n]
  BY <1>2 DEF Rank
<1>4. ASSUME NEW r \in all, NEW t \in all, r.id < t.id
      PROVE  Rank(all)[r] # Rank(all)[t]
  <2>1. below(r) \in SUBSET below(t) /\ t \in below(t) /\ t \notin below(r)
    BY <1>4
  <2>2. IsFiniteSet(below(t))
    BY <1>2
  <2>3. below(r) # below(t)
    BY <2>1
  <2>4. Cardinality(below(r)) # Cardinality(below(t))
    BY <2>1, <2>2, <2>3, FS_Subset
  <2> QED
    BY <2>4 DEF Rank
<1>5. ASSUME NEW r \in all, NEW t \in all, Rank(all)[r] = Rank(all)[t]
      PROVE  r = t
  <2>1. ~(r.id < t.id) /\ ~(t.id < r.id)
    BY <1>4, <1>5
  <2> QED
    BY <2>1
<1>6. Rank(all) \in Injection(all, 1..n)
  BY <1>3, <1>5 DEF Injection, IsInjective
<1>7. IsFiniteSet(1..n) /\ Cardinality(1..n) = n
  BY <1>1, FS_Interval
<1>8. Rank(all) \in Surjection(all, 1..n)
  BY <1>6, <1>7, FS_Injection
<1>9. ASSUME NEW i \in 1..n
      PROVE  \E r \in all : Rank(all)[r] = i
  BY <1>8 DEF Surjection
<1> QED
  BY <1>1, <1>3, <1>5, <1>9

(* Sorting a finite set of rows with distinct dates loses none and doubles *)
(* none.                                                                   *)
LEMMA ByDateIsOrder ==
  ASSUME NEW all, IsFiniteSet(all), \A r \in all : r.id \in Nat,
         \A r, t \in all : r.id = t.id => r = t
  PROVE  /\ ByDate(all) \in Seq(all)
         /\ \A r \in all : \E i \in DOMAIN ByDate(all) : ByDate(all)[i] = r
         /\ Distinct(ByDate(all))
         /\ Ids(ByDate(all)) = {r.id : r \in all}
<1> DEFINE n == Cardinality(all)
           sorted == ByDate(all)
<1>1. n \in Nat /\ DOMAIN sorted = 1..n
  BY RankBijective DEF ByDate
<1>2. ASSUME NEW i \in 1..n
      PROVE  sorted[i] \in all /\ Rank(all)[sorted[i]] = i
  <2>1. PICK r \in all : Rank(all)[r] = i
    BY RankBijective
  <2>2. \E q \in all : Cardinality({t \in all : t.id <= q.id}) = i
    BY <2>1 DEF Rank
  <2>3. sorted[i] = CHOOSE q \in all : Cardinality({t \in all : t.id <= q.id}) = i
    BY DEF ByDate
  <2>4. sorted[i] \in all /\ Cardinality({t \in all : t.id <= sorted[i].id}) = i
    BY <2>2, <2>3
  <2> QED
    BY <2>4 DEF Rank
<1>3. sorted \in Seq(all)
  <2> DEFINE ranked(i) == CHOOSE r \in all : Cardinality({t \in all : t.id <= r.id}) = i
  <2>1. sorted = [i \in 1..n |-> ranked(i)]
    BY DEF ByDate
  <2>2. ASSUME NEW i \in 1..n PROVE ranked(i) \in all
    BY <1>2, <2>1
  <2> HIDE DEF ranked, sorted
  <2> QED
    BY <1>1, <2>1, <2>2
<1>4. ASSUME NEW r \in all
      PROVE  \E i \in DOMAIN sorted : sorted[i] = r
  <2>1. Rank(all)[r] \in 1..n
    BY RankBijective
  <2>2. sorted[Rank(all)[r]] \in all /\ Rank(all)[sorted[Rank(all)[r]]] = Rank(all)[r]
    BY <1>2, <2>1
  <2>3. sorted[Rank(all)[r]] = r
    BY <2>2, RankBijective
  <2> QED
    BY <1>1, <2>1, <2>3
<1>5. Distinct(sorted)
  <2> HIDE DEF sorted
  <2> SUFFICES ASSUME NEW i \in 1..n, NEW j \in 1..n, sorted[i].id = sorted[j].id
               PROVE  i = j
    BY <1>1 DEF Distinct
  <2>1. sorted[i] \in all /\ sorted[j] \in all
    BY <1>2
  <2>2. sorted[i] = sorted[j]
    BY <2>1
  <2> QED
    BY <1>2, <2>2
<1>6. Ids(sorted) = {r.id : r \in all}
  <2> HIDE DEF sorted
  <2>1. ASSUME NEW x \in Ids(sorted) PROVE x \in {r.id : r \in all}
    BY <1>1, <1>2 DEF Ids
  <2>2. ASSUME NEW r \in all PROVE r.id \in Ids(sorted)
    BY <1>4 DEF Ids
  <2> QED
    BY <2>1, <2>2
<1> QED
  BY <1>3, <1>4, <1>5, <1>6

-----------------------------------------------------------------------------
(* The collection and the rows that copy it.                               *)

Stored(d) == d \in Seq(Message) /\ Len(d) <= MaxMsgs

(* What a step may do to the collection: add messages, change statuses.    *)
Grows(d, e) ==
  DOMAIN d \subseteq DOMAIN e /\ \A m \in DOMAIN d : e[m].sender = d[m].sender

LEMMA StoredIds ==
  ASSUME NEW d, Stored(d)
  PROVE  /\ DOMAIN d = 1..Len(d) /\ Len(d) \in Nat /\ DOMAIN d \subseteq 1..MaxMsgs
         /\ \A m \in DOMAIN d : d[m] \in Message
  BY LimitsAssumption DEF Stored

(* The two users of a pair have each other as their friend.                *)
LEMMA FriendIsOther ==
  ASSUME NEW u \in Pair
  PROVE  /\ Friend(u) \in Pair /\ Friend(u) # u
         /\ \A w \in Pair : w = u \/ w = Friend(u)
  <1>1. \E f \in Pair : f # u
    BY PairAssumption
  <1>2. Friend(u) \in Pair /\ Friend(u) # u
    BY <1>1 DEF Friend
  <1> QED
    BY <1>2, PairAssumption

(* Each message is mine or my friend's.                                    *)
LEMMA SentParts ==
  ASSUME NEW d, Stored(d), NEW u \in Pair
  PROVE  /\ SentIn(d, u) \cup SentIn(d, Friend(u)) = DOMAIN d
         /\ SentIn(d, u) \cap SentIn(d, Friend(u)) = {}
  <1>1. ASSUME NEW m \in DOMAIN d
        PROVE  d[m].sender = u \/ d[m].sender = Friend(u)
    BY StoredIds, FriendIsOther DEF Message
  <1> QED
    BY <1>1, FriendIsOther DEF SentIn

(* The rows of some messages, with what a fetch carries of others.         *)
LEMMA SortedRows ==
  ASSUME Stored(db), NEW ids \in SUBSET DOMAIN db,
         NEW carried \in Seq(Row), Distinct(carried), Ids(carried) \cap ids = {}
  PROVE  LET sorted == ByDate(ToSet(carried) \cup Documents(ids))
         IN  /\ sorted \in Seq(Row)
             /\ Distinct(sorted)
             /\ Ids(sorted) = Ids(carried) \cup ids
<1> DEFINE all == ToSet(carried) \cup Documents(ids)
<1>1. DOMAIN carried = 1..Len(carried) /\ Len(carried) \in Nat
      /\ \A i \in DOMAIN carried : carried[i] \in Row
  OBVIOUS
<1>2. Documents(ids) \subseteq Row
  BY StoredIds DEF Documents, Row, Message
<1>3. all \subseteq Row
  BY <1>1, <1>2 DEF ToSet
<1>4. \A r \in all : r.id \in Nat
  BY <1>3, LimitsAssumption DEF Row
<1>5. {r.id : r \in all} = Ids(carried) \cup ids
  <2>1. {r.id : r \in ToSet(carried)} = Ids(carried)
    <3>1. ASSUME NEW r \in ToSet(carried) PROVE r.id \in Ids(carried)
      BY DEF ToSet, Ids
    <3>2. ASSUME NEW m \in Ids(carried) PROVE \E r \in ToSet(carried) : r.id = m
      <4>1. PICK i \in DOMAIN carried : carried[i].id = m
        BY <3>2 DEF Ids
      <4> QED
        BY <4>1 DEF ToSet
    <3> HIDE DEF all
    <3> QED
      BY <3>1, <3>2
  <2>2. {r.id : r \in Documents(ids)} = ids
    <3>1. ASSUME NEW r \in Documents(ids) PROVE r.id \in ids
      BY DEF Documents
    <3>2. ASSUME NEW m \in ids PROVE \E r \in Documents(ids) : r.id = m
      <4>1. [id |-> m, status |-> db[m].status] \in Documents(ids)
        BY DEF Documents
      <4> QED
        BY <4>1
    <3> HIDE DEF all
    <3> QED
      BY <3>1, <3>2
  <2>3. {r.id : r \in all} = {r.id : r \in ToSet(carried)} \cup {r.id : r \in Documents(ids)}
    OBVIOUS
  <2> QED
    BY <2>1, <2>2, <2>3
<1>6. \A r, t \in all : r.id = t.id => r = t
  <2> SUFFICES ASSUME NEW r \in all, NEW t \in all, r.id = t.id
               PROVE  r = t
    OBVIOUS
  <2>1. ASSUME NEW q \in ToSet(carried) PROVE q.id \in Ids(carried)
    BY DEF ToSet, Ids
  <2>2. ASSUME NEW q \in Documents(ids) PROVE q.id \in ids
    BY DEF Documents
  <2>3. CASE r \in ToSet(carried) /\ t \in ToSet(carried)
    BY <2>3 DEF ToSet, Distinct
  <2>4. CASE r \in Documents(ids) /\ t \in Documents(ids)
    BY <2>4 DEF Documents
  <2> QED
    BY <2>1, <2>2, <2>3, <2>4
<1>7. IsFiniteSet(all)
  <2> DEFINE id == [r \in all |-> r.id]
  <2>1. id \in Injection(all, 1..MaxMsgs)
    BY <1>3, <1>6 DEF Injection, IsInjective, Row
  <2>2. IsFiniteSet(1..MaxMsgs)
    BY LimitsAssumption, FS_Interval
  <2> QED
    BY <2>1, <2>2, FS_Injection
<1> HIDE DEF all
<1>8. /\ ByDate(all) \in Seq(all) /\ Distinct(ByDate(all))
      /\ Ids(ByDate(all)) = {r.id : r \in all}
  BY <1>4, <1>6, <1>7, ByDateIsOrder
<1>9. ByDate(all) \in Seq(Row)
  BY <1>3, <1>8
<1> QED
  BY <1>5, <1>8, <1>9 DEF all

LEMMA RowsOfIds ==
  ASSUME Stored(db), NEW ids \in SUBSET DOMAIN db
  PROVE  RowsOf(ids) \in Seq(Row) /\ Distinct(RowsOf(ids)) /\ Ids(RowsOf(ids)) = ids
<1>1. PICK none \in Seq(Row) : Distinct(none) /\ Ids(none) = {} /\ ToSet(none) = {}
  <2>1. << >> \in Seq(Row) /\ DOMAIN << >> = {}
    OBVIOUS
  <2>2. \A q : DOMAIN q = {} => Distinct(q) /\ Ids(q) = {} /\ ToSet(q) = {}
    BY DEF Distinct, Ids, ToSet
  <2> QED
    BY <2>1, <2>2
<1>2. ToSet(none) \cup Documents(ids) = Documents(ids) /\ Ids(none) \cap ids = {}
  BY <1>1
<1>3. RowsOf(ids) = ByDate(ToSet(none) \cup Documents(ids))
  BY <1>2 DEF RowsOf
<1>4. /\ ByDate(ToSet(none) \cup Documents(ids)) \in Seq(Row)
      /\ Distinct(ByDate(ToSet(none) \cup Documents(ids)))
      /\ Ids(ByDate(ToSet(none) \cup Documents(ids))) = Ids(none) \cup ids
  BY <1>1, <1>2, SortedRows
<1> QED
  BY <1>1, <1>3, <1>4

(* What a step writes back as SEEN is loaded and the friend's.             *)
LEMMA MarkSeenMarks ==
  ASSUME Stored(db), NEW rows, DOMAIN rows \subseteq Nat, NEW me,
         NEW e, e = MarkSeen(rows, me)
  PROVE  /\ Stored(e) /\ DOMAIN e = DOMAIN db /\ Grows(db, e)
         /\ \A m \in DOMAIN e : e[m].status = "SEEN" =>
              db[m].status = "SEEN" \/ (m \in Ids(rows) /\ db[m].sender # me)
<1> DEFINE seen == {r.id : r \in {q \in ToSet(rows) : q.status = "SEND"}} \ SentBy(me)
<1>1. e = [m \in DOMAIN db |-> IF m \in seen THEN [db[m] EXCEPT !.status = "SEEN"] ELSE db[m]]
  BY DEF MarkSeen
<1>2. \A m \in seen : m \in Ids(rows) /\ (m \in DOMAIN db => db[m].sender # me)
  BY DEF ToSet, Ids, SentBy
<1> HIDE DEF seen
<1>3. DOMAIN db = 1..Len(db) /\ Len(db) \in Nat /\ \A m \in DOMAIN db : db[m] \in Message
  BY StoredIds
<1>4. DOMAIN e = DOMAIN db
      /\ \A m \in DOMAIN db : e[m] = IF m \in seen THEN [db[m] EXCEPT !.status = "SEEN"]
                                                  ELSE db[m]
  BY <1>1
<1>5. \A m \in DOMAIN db : e[m] \in Message /\ e[m].sender = db[m].sender
  BY <1>3, <1>4 DEF Message, MessageStatus
<1>6. Stored(e)
  <2>1. e = [m \in 1..Len(db) |-> e[m]]
    BY <1>1, <1>3
  <2>2. e \in Seq(Message) /\ Len(e) = Len(db)
    BY <1>3, <1>4, <1>5, <2>1
  <2> QED
    BY <2>2 DEF Stored
<1>7. \A m \in DOMAIN db : e[m].status = "SEEN" => db[m].status = "SEEN" \/ m \in seen
  BY <1>4
<1> QED
  BY <1>2, <1>4, <1>5, <1>6, <1>7 DEF Grows

(* What a snapshot adds and turns.                                         *)
LEMMA HeededRows ==
  ASSUME Stored(db), NEW rows \in Seq(Row), NEW added \in SUBSET DOMAIN db, NEW modified
  PROVE  /\ Heeded(rows, added, modified) \in Seq(Row)
         /\ Ids(Heeded(rows, added, modified)) = Ids(rows) \cup added
         /\ Distinct(rows) /\ Ids(rows) \cap added = {}
              => Distinct(Heeded(rows, added, modified))
         /\ rows \o RowsOf(added) \in Seq(Row)
         /\ Ids(rows \o RowsOf(added)) = Ids(rows) \cup added
<1> DEFINE new == RowsOf(added)
           all == rows \o new
           heeded == Heeded(rows, added, modified)
<1>1. new \in Seq(Row) /\ Distinct(new) /\ Ids(new) = added
  BY RowsOfIds
<1> HIDE DEF new
<1>2. /\ all \in Seq(Row) /\ DOMAIN all = 1..Len(all) /\ Len(all) = Len(rows) + Len(new)
      /\ \A i \in DOMAIN all : all[i] \in Row
                               /\ all[i] = IF i <= Len(rows) THEN rows[i] ELSE new[i - Len(rows)]
      /\ DOMAIN rows = 1..Len(rows) /\ DOMAIN new = 1..Len(new)
      /\ Len(rows) \in Nat /\ Len(new) \in Nat
  BY <1>1
<1>3. Ids(all) = Ids(rows) \cup added
  <2>1. ASSUME NEW i \in DOMAIN all PROVE all[i].id \in Ids(rows) \cup Ids(new)
    BY <1>2 DEF Ids
  <2>2. ASSUME NEW i \in DOMAIN rows PROVE rows[i].id \in Ids(all)
    BY <1>2 DEF Ids
  <2>3. ASSUME NEW i \in DOMAIN new PROVE new[i].id \in Ids(all)
    <3>1. i + Len(rows) \in DOMAIN all /\ all[i + Len(rows)] = new[i]
      BY <1>2
    <3> QED
      BY <3>1 DEF Ids
  <2> QED
    BY <1>1, <2>1, <2>2, <2>3 DEF Ids
<1>4. /\ heeded = [i \in DOMAIN all |->
                     IF all[i].id \in modified THEN [all[i] EXCEPT !.status = "SEEN"] ELSE all[i]]
  BY DEF Heeded, new
<1>5. DOMAIN heeded = DOMAIN all
      /\ \A i \in DOMAIN all : heeded[i] \in Row /\ heeded[i].id = all[i].id
  <2>1. ASSUME NEW r \in Row
        PROVE  [r EXCEPT !.status = "SEEN"] \in Row /\ [r EXCEPT !.status = "SEEN"].id = r.id
    BY DEF Row, MessageStatus
  <2> HIDE DEF all, heeded
  <2> QED
    BY <1>2, <1>4, <2>1
<1>6. heeded \in Seq(Row)
  <2>1. heeded = [i \in 1..Len(all) |-> heeded[i]]
    BY <1>2, <1>4
  <2> HIDE DEF all, heeded
  <2> QED
    BY <1>2, <1>5, <2>1
<1>7. Ids(heeded) = Ids(all)
  <2> HIDE DEF all, heeded
  <2> QED
    BY <1>5 DEF Ids
<1>8. ASSUME Distinct(rows), Ids(rows) \cap added = {}
      PROVE  Distinct(heeded)
  <2> HIDE DEF heeded
  <2> SUFFICES ASSUME NEW i \in DOMAIN all, NEW j \in DOMAIN all, all[i].id = all[j].id
               PROVE  i = j
    BY <1>5 DEF Distinct
  <2>1. CASE i <= Len(rows) /\ j <= Len(rows)
    <3>1. i \in DOMAIN rows /\ j \in DOMAIN rows /\ rows[i].id = rows[j].id
      BY <1>2, <2>1
    <3> QED
      BY <1>8, <3>1 DEF Distinct
  <2>2. CASE i > Len(rows) /\ j > Len(rows)
    <3>1. i - Len(rows) \in DOMAIN new /\ j - Len(rows) \in DOMAIN new
          /\ new[i - Len(rows)].id = new[j - Len(rows)].id
      BY <1>2, <2>2
    <3>2. i - Len(rows) = j - Len(rows)
      BY <1>1, <3>1 DEF Distinct
    <3> QED
      BY <1>2, <3>2
  <2>3. ASSUME NEW k \in DOMAIN all, NEW l \in DOMAIN all, k <= Len(rows), l > Len(rows)
        PROVE  all[k].id # all[l].id
    <3>1. all[k].id \in Ids(rows)
      BY <1>2, <2>3 DEF Ids
    <3>2. l - Len(rows) \in DOMAIN new /\ all[l] = new[l - Len(rows)]
      BY <1>2, <2>3
    <3>3. all[l].id \in Ids(new)
      BY <3>2 DEF Ids
    <3> QED
      BY <1>1, <1>8, <3>1, <3>3
  <2> QED
    BY <1>2, <2>1, <2>2, <2>3
<1> QED
  BY <1>2, <1>3, <1>6, <1>7, <1>8 DEF new

-----------------------------------------------------------------------------
(* The invariant.                                                          *)

ViewInv(x, d) ==
  /\ x.stage = "unused" => /\ x.rows = << >> /\ x.carried = << >> /\ x.fetch = "done"
                           /\ x.toldMine = << >> /\ x.toldTheirs = << >>
  /\ x.stage = "covered" => x.covers > 0
  /\ Ids(x.rows) \subseteq DOMAIN d
  /\ Ids(x.carried) \subseteq SentIn(d, x.owner)
  /\ Distinct(x.carried)
  /\ DOMAIN x.toldMine \subseteq SentIn(d, x.owner)
  /\ DOMAIN x.toldTheirs \subseteq SentIn(d, Friend(x.owner))
  /\ DOMAIN x.toldTheirs \subseteq Ids(x.rows)
  /\ x.stage = "open" /\ x.covers = 0 =>
       Distinct(x.rows) /\ Ids(x.rows) \subseteq DOMAIN x.toldMine \cup DOMAIN x.toldTheirs

(* SEEN means that a view of the receiver still has the message.           *)
SeenLoaded ==
  \A m \in DOMAIN db : db[m].status = "SEEN" =>
    \E v \in Views : view[v].owner # db[m].sender /\ m \in Ids(view[v].rows)

IInv ==
  /\ TypeOK
  /\ \A v \in Views : ViewInv(view[v], db)
  /\ SeenLoaded

LEMMA EmptySeqs ==
  /\ << >> \in Heard /\ << >> \in Seq(Row)
  /\ DOMAIN << >> = {} /\ Ids(<< >>) = {} /\ Distinct(<< >>)
<1>1. DOMAIN << >> = {} /\ << >> \in Seq(Row)
  OBVIOUS
<1>2. << >> \in [{} -> MessageStatus]
  <2>1. << >> = [m \in {} |-> "SEND"]
    OBVIOUS
  <2> QED
    BY <2>1
<1>3. << >> \in Heard
  BY <1>2 DEF Heard
<1>4. \A q : DOMAIN q = {} => Ids(q) = {} /\ Distinct(q)
  BY DEF Ids, Distinct
<1> QED
  BY <1>1, <1>3, <1>4

(* A view is right about a collection that grew, too.                      *)
LEMMA StaysRight ==
  ASSUME NEW x, NEW d, NEW e, ViewInv(x, d), Grows(d, e)
  PROVE  ViewInv(x, e)
<1>1. \A u : SentIn(d, u) \subseteq SentIn(e, u)
  BY DEF SentIn, Grows
<1> QED
  BY <1>1 DEF ViewInv, Grows

(* A step of one view, with what it writes to the collection.              *)
LEMMA OneView ==
  ASSUME IInv, NEW v \in Views, NEW x \in View, view' = [view EXCEPT ![v] = x],
         Stored(db'), Grows(db, db'), errs' \in 0..MaxErrors,
         ViewInv(x, db'),
         \A m \in Ids(view[v].rows) : db[m].sender # view[v].owner =>
             m \in Ids(x.rows) /\ db[m].sender # x.owner,
         \A m \in DOMAIN db' : db'[m].status = "SEEN" =>
             \/ m \in DOMAIN db /\ db[m].status = "SEEN"
             \/ m \in Ids(x.rows) /\ db'[m].sender # x.owner
  PROVE  IInv'
<1>1. view \in [Views -> View] /\ view'[v] = x
      /\ \A w \in Views \ {v} : view'[w] = view[w]
  BY DEF IInv, TypeOK
<1>2. TypeOK'
  BY <1>1 DEF TypeOK, Stored
<1>3. \A w \in Views : ViewInv(view'[w], db')
  <2>1. \A w \in Views \ {v} : ViewInv(view[w], db')
    BY StaysRight DEF IInv
  <2> QED
    BY <1>1, <2>1
<1>4. SeenLoaded'
  <2> SUFFICES ASSUME NEW m \in DOMAIN db', db'[m].status = "SEEN"
               PROVE  \E w \in Views : view'[w].owner # db'[m].sender /\ m \in Ids(view'[w].rows)
    BY DEF SeenLoaded
  <2>1. CASE m \in DOMAIN db /\ db[m].status = "SEEN"
    <3>1. PICK w \in Views : view[w].owner # db[m].sender /\ m \in Ids(view[w].rows)
      BY <2>1 DEF IInv, SeenLoaded
    <3>2. view'[w].owner # db[m].sender /\ m \in Ids(view'[w].rows)
      BY <1>1, <3>1
    <3> QED
      BY <2>1, <3>2 DEF Grows
  <2>2. CASE m \in Ids(x.rows) /\ db'[m].sender # x.owner
    BY <1>1, <2>2
  <2> QED
    BY <2>1, <2>2
<1> QED
  BY <1>2, <1>3, <1>4 DEF IInv

LEMMA InitIInv == Init => IInv
<1> SUFFICES ASSUME Init PROVE IInv
  OBVIOUS
<1> DEFINE u == CHOOSE w \in Pair : TRUE
<1>1. u \in Pair
  BY PairAssumption
<1> HIDE DEF u
<1>2. Unused = [owner |-> u, stage |-> "unused", rows |-> << >>, fetch |-> "done",
                carried |-> << >>, toldMine |-> << >>, toldTheirs |-> << >>,
                fresh |-> {"mine", "theirs"}, covers |-> 0]
  BY DEF Unused, u
<1>3. Unused \in View
  BY <1>1, <1>2, EmptySeqs, LimitsAssumption DEF View
<1>4. Stored(db) /\ DOMAIN db = {}
  BY LimitsAssumption DEF Init, Stored
<1>5. TypeOK
  BY <1>3, <1>4, LimitsAssumption DEF Init, TypeOK, Stored
<1>6. ViewInv(Unused, db)
  BY <1>2, EmptySeqs DEF ViewInv
<1> QED
  BY <1>4, <1>5, <1>6 DEF IInv, Init, SeenLoaded

(* What every step starts from.                                            *)
LEMMA ViewFacts ==
  ASSUME IInv, NEW v \in Views
  PROVE  /\ Stored(db) /\ Grows(db, db) /\ errs \in 0..MaxErrors
         /\ view[v] \in View /\ ViewInv(view[v], db)
         /\ \A u : SentBy(u) = SentIn(db, u) /\ SentBy(u) \subseteq DOMAIN db
  BY DEF IInv, TypeOK, Stored, Grows, SentBy, SentIn

LEMMA SnapshotOK ==
  ASSUME Stored(db), NEW u
  PROVE  Snapshot(u) \in Heard /\ DOMAIN Snapshot(u) = SentIn(db, u)
<1>1. SentBy(u) \in SUBSET (1..MaxMsgs) /\ SentBy(u) = SentIn(db, u)
  BY StoredIds DEF SentBy, SentIn
<1>2. Snapshot(u) \in [SentBy(u) -> MessageStatus]
  BY StoredIds DEF Snapshot, SentBy, Message
<1> QED
  BY <1>1, <1>2 DEF Heard

LEMMA OpenStep ==
  ASSUME IInv, NEW v \in Views, NEW u \in Pair, Open(v, u)
  PROVE  IInv'
<1> DEFINE x == [view[v] EXCEPT !.owner = u, !.stage = "open", !.fetch = "mine"]
<1>1. view' = [view EXCEPT ![v] = x] /\ db' = db /\ errs' = errs /\ view[v].stage = "unused"
  BY ViewFacts DEF Open, View
<1>2. x \in View
  BY ViewFacts DEF View
<1>3. view[v].rows = << >> /\ view[v].carried = << >>
      /\ view[v].toldMine = << >> /\ view[v].toldTheirs = << >>
  BY <1>1, ViewFacts DEF ViewInv
<1>4. x.stage = "open" /\ x.rows = << >> /\ x.carried = << >>
      /\ x.toldMine = << >> /\ x.toldTheirs = << >>
  BY <1>2, <1>3, ViewFacts DEF View
<1>5. ViewInv(x, db)
  <2> HIDE DEF x
  <2> QED
    BY <1>4, EmptySeqs DEF ViewInv
<1>6. Ids(view[v].rows) = {}
  BY <1>3, EmptySeqs
<1> HIDE DEF x
<1> QED
  BY <1>1, <1>2, <1>5, <1>6, ViewFacts, OneView

LEMMA SendStep ==
  ASSUME IInv, NEW v \in Views, Send(v)
  PROVE  IInv'
<1> DEFINE m == [sender |-> view[v].owner, status |-> "SEND"]
<1>1. m \in Message
  BY ViewFacts DEF View, Message, MessageStatus
<1> HIDE DEF m
<1>2. /\ Len(db) < MaxMsgs /\ db' = Append(db, m) /\ errs' = errs
      /\ view' = [view EXCEPT ![v] = view[v]]
  BY DEF Send, m, IInv, TypeOK
<1>3. Stored(db)
  BY ViewFacts
<1>4. /\ db' \in Seq(Message) /\ Len(db') = Len(db) + 1 /\ DOMAIN db' = 1..Len(db) + 1
      /\ \A i \in DOMAIN db : i \in DOMAIN db' /\ db'[i] = db[i]
      /\ \A i \in DOMAIN db' : i \in DOMAIN db \/ db'[i] = m
  BY <1>1, <1>2, <1>3 DEF Stored
<1>5. Stored(db') /\ Grows(db, db')
  BY <1>2, <1>3, <1>4, LimitsAssumption DEF Stored, Grows
<1>6. ViewInv(view[v], db')
  BY <1>5, StaysRight, ViewFacts
<1>7. \A i \in DOMAIN db' : db'[i].status = "SEEN" => i \in DOMAIN db /\ db[i].status = "SEEN"
  <2>1. m.status = "SEND"
    BY DEF m
  <2> QED
    BY <1>4, <2>1
<1>8. \A i \in Ids(view[v].rows) : i \in DOMAIN db
  BY ViewFacts DEF ViewInv
<1> QED
  BY <1>2, <1>5, <1>6, <1>7, <1>8, ViewFacts, OneView

(* A view that is covered or closed keeps its rows.                        *)
LEMMA UnlistenedOK ==
  ASSUME IInv, NEW v \in Views, NEW stage \in {"covered", "closed"},
         NEW covers \in 0..MaxCovers, stage = "covered" => covers > 0,
         NEW x, x = [Unlistened(v, stage) EXCEPT !.covers = covers]
  PROVE  x \in View /\ ViewInv(x, db) /\ x.owner = view[v].owner /\ x.rows = view[v].rows
<1>1. x \in View
  BY ViewFacts, EmptySeqs DEF View, Unlistened
<1>2. /\ x.owner = view[v].owner /\ x.rows = view[v].rows /\ x.carried = view[v].carried
      /\ x.stage = stage /\ x.covers = covers /\ x.toldMine = << >> /\ x.toldTheirs = << >>
  BY ViewFacts DEF View, Unlistened
<1> QED
  BY <1>1, <1>2, ViewFacts, EmptySeqs DEF ViewInv

LEMMA CoverStep ==
  ASSUME IInv, NEW v \in Views, Cover(v)
  PROVE  IInv'
<1> DEFINE x == [Unlistened(v, "covered") EXCEPT !.covers = view[v].covers + 1]
<1>1. view' = [view EXCEPT ![v] = x] /\ db' = db /\ errs' = errs
  BY ViewFacts DEF Cover, View, Unlistened
<1>2. view[v].covers + 1 \in 0..MaxCovers /\ view[v].covers + 1 > 0
  BY ViewFacts, LimitsAssumption DEF Cover, View
<1>3. x \in View /\ ViewInv(x, db) /\ x.owner = view[v].owner /\ x.rows = view[v].rows
  BY <1>2, UnlistenedOK
<1> HIDE DEF x
<1> QED
  BY <1>1, <1>3, ViewFacts, OneView

LEMMA UncoverStep ==
  ASSUME IInv, NEW v \in Views, Uncover(v)
  PROVE  IInv'
<1> DEFINE x == [view[v] EXCEPT !.stage = "open"]
<1>1. view' = [view EXCEPT ![v] = x] /\ db' = db /\ errs' = errs /\ view[v].stage = "covered"
  BY ViewFacts DEF Uncover
<1>2. x \in View
  BY ViewFacts DEF View
<1>3. /\ x.owner = view[v].owner /\ x.rows = view[v].rows /\ x.carried = view[v].carried
      /\ x.covers = view[v].covers /\ x.stage = "open"
      /\ x.toldMine = view[v].toldMine /\ x.toldTheirs = view[v].toldTheirs
  BY ViewFacts DEF View
<1>4. view[v].covers > 0 /\ view[v].covers \in Nat
  BY <1>1, ViewFacts, LimitsAssumption DEF ViewInv, View
<1> HIDE DEF x
<1>5. ViewInv(x, db)
  BY <1>3, <1>4, ViewFacts DEF ViewInv
<1> QED
  BY <1>1, <1>2, <1>3, <1>5, ViewFacts, OneView

LEMMA CloseStep ==
  ASSUME IInv, NEW v \in Views, Close(v)
  PROVE  IInv'
<1> DEFINE x == [Unlistened(v, "closed") EXCEPT !.covers = view[v].covers]
<1>1. view' = [view EXCEPT ![v] = x] /\ db' = db /\ errs' = errs
  BY ViewFacts DEF Close, View, Unlistened
<1>2. view[v].covers \in 0..MaxCovers
  BY ViewFacts DEF View
<1>3. x \in View /\ ViewInv(x, db) /\ x.owner = view[v].owner /\ x.rows = view[v].rows
  BY <1>2, UnlistenedOK
<1> HIDE DEF x
<1> QED
  BY <1>1, <1>3, ViewFacts, OneView

LEMMA FetchedMineStep ==
  ASSUME IInv, NEW v \in Views, FetchedMine(v)
  PROVE  IInv'
<1> DEFINE me == view[v].owner
           new == RowsOf(SentBy(me))
           x == [view[v] EXCEPT !.fetch = "theirs", !.carried = new]
<1>1. view' = [view EXCEPT ![v] = x] /\ db' = db /\ errs' = errs /\ view[v].fetch = "mine"
  BY ViewFacts DEF FetchedMine, View
<1>2. new \in Seq(Row) /\ Distinct(new) /\ Ids(new) = SentIn(db, me)
  BY RowsOfIds, ViewFacts
<1> HIDE DEF new
<1>3. x \in View
  BY <1>2, ViewFacts DEF View
<1>4. /\ x.owner = view[v].owner /\ x.rows = view[v].rows /\ x.carried = new
      /\ x.stage = view[v].stage /\ x.covers = view[v].covers
      /\ x.toldMine = view[v].toldMine /\ x.toldTheirs = view[v].toldTheirs
  BY ViewFacts DEF View
<1>5. view[v].stage # "unused"
  BY <1>1, ViewFacts DEF ViewInv
<1> HIDE DEF x
<1>6. ViewInv(x, db)
  BY <1>2, <1>4, <1>5, ViewFacts DEF ViewInv
<1> QED
  BY <1>1, <1>3, <1>4, <1>6, ViewFacts, OneView

LEMMA FetchFailedStep ==
  ASSUME IInv, NEW v \in Views, FetchFailed(v)
  PROVE  IInv'
<1> DEFINE x == [view[v] EXCEPT !.fetch = "done", !.carried = << >>]
<1>1. view' = [view EXCEPT ![v] = x] /\ db' = db /\ view[v].fetch # "done"
  BY ViewFacts DEF FetchFailed, View
<1>7. errs' \in 0..MaxErrors
  BY ViewFacts, LimitsAssumption DEF FetchFailed
<1>2. x \in View
  BY EmptySeqs, ViewFacts DEF View
<1>3. /\ x.owner = view[v].owner /\ x.rows = view[v].rows /\ x.carried = << >>
      /\ x.stage = view[v].stage /\ x.covers = view[v].covers
      /\ x.toldMine = view[v].toldMine /\ x.toldTheirs = view[v].toldTheirs
  BY ViewFacts DEF View
<1>4. view[v].stage # "unused"
  BY <1>1, ViewFacts DEF ViewInv
<1> HIDE DEF x
<1>5. ViewInv(x, db)
  BY <1>3, <1>4, EmptySeqs, ViewFacts DEF ViewInv
<1> QED
  BY <1>1, <1>2, <1>3, <1>5, <1>7, ViewFacts, OneView

LEMMA FetchedTheirsStep ==
  ASSUME IInv, NEW v \in Views, FetchedTheirs(v)
  PROVE  IInv'
<1> DEFINE me == view[v].owner
           friend == Friend(me)
           carried == view[v].carried
           rows == ByDate(ToSet(carried) \cup Documents(SentBy(friend)))
           x == [view[v] EXCEPT !.fetch = "done", !.rows = rows, !.carried = << >>]
<1>1. /\ view' = [view EXCEPT ![v] = x] /\ db' = MarkSeen(rows, me) /\ errs' = errs
      /\ view[v].fetch = "theirs"
      /\ OnScreen(v) /\ view[v].covers = 0 => ListenersAhead(v)
  BY ViewFacts DEF FetchedTheirs, View
<1>2. /\ me \in Pair /\ SentBy(friend) = SentIn(db, friend) /\ SentBy(friend) \subseteq DOMAIN db
      /\ SentIn(db, me) \cup SentIn(db, friend) = DOMAIN db
      /\ SentIn(db, me) \cap SentIn(db, friend) = {}
      /\ carried \in Seq(Row) /\ Distinct(carried) /\ Ids(carried) \subseteq SentIn(db, me)
  BY ViewFacts, SentParts DEF View, ViewInv
<1>3. rows \in Seq(Row) /\ Distinct(rows) /\ Ids(rows) = Ids(carried) \cup SentIn(db, friend)
  BY <1>2, SortedRows, ViewFacts
<1> HIDE DEF rows
<1>4. /\ Stored(db') /\ DOMAIN db' = DOMAIN db /\ Grows(db, db')
      /\ \A m \in DOMAIN db' : db'[m].status = "SEEN" =>
           db[m].status = "SEEN" \/ (m \in Ids(rows) /\ db[m].sender # me)
  BY <1>1, <1>3, ViewFacts, MarkSeenMarks
<1>5. x \in View
  BY <1>3, EmptySeqs, ViewFacts DEF View
<1>6. /\ x.owner = me /\ x.rows = rows /\ x.carried = << >>
      /\ x.stage = view[v].stage /\ x.covers = view[v].covers
      /\ x.toldMine = view[v].toldMine /\ x.toldTheirs = view[v].toldTheirs
  BY ViewFacts DEF View
<1>7. view[v].stage # "unused"
  BY <1>1, ViewFacts DEF ViewInv
<1>8. ASSUME x.stage = "open", x.covers = 0
      PROVE  Ids(rows) \subseteq DOMAIN x.toldMine \cup DOMAIN x.toldTheirs
  <2>1. ListenersAhead(v)
    BY <1>1, <1>6, <1>8 DEF OnScreen
  <2>2. Ids(carried) \subseteq DOMAIN view[v].toldMine
    BY <2>1 DEF ListenersAhead, Ids, ToSet
  <2>3. DOMAIN view[v].toldTheirs = SentIn(db, friend)
    BY <2>1, SnapshotOK, ViewFacts DEF ListenersAhead
  <2> QED
    BY <1>3, <1>6, <2>2, <2>3
<1> HIDE DEF x
<1>9. ViewInv(x, db)
  <2>1. DOMAIN x.toldMine \subseteq SentIn(db, me) /\ DOMAIN x.toldTheirs \subseteq SentIn(db, friend)
    BY <1>6, ViewFacts DEF ViewInv
  <2> QED
    BY <1>2, <1>3, <1>6, <1>7, <1>8, <2>1, EmptySeqs, ViewFacts DEF ViewInv
<1>10. ViewInv(x, db')
  BY <1>4, <1>9, StaysRight
<1>11. \A m \in Ids(view[v].rows) : db[m].sender # me => m \in Ids(x.rows)
  <2> SUFFICES ASSUME NEW m \in Ids(view[v].rows), db[m].sender # me
               PROVE  m \in SentIn(db, friend)
    BY <1>3, <1>6
  <2>1. m \in DOMAIN db
    BY ViewFacts DEF ViewInv
  <2> QED
    BY <1>2, <2>1 DEF SentIn
<1>12. \A m \in DOMAIN db' : db'[m].sender = db[m].sender
  BY <1>4 DEF Grows
<1> QED
  BY <1>1, <1>4, <1>5, <1>6, <1>10, <1>11, <1>12, ViewFacts, OneView

-----------------------------------------------------------------------------
(* The listeners.                                                          *)

LEMMA AfterAddingMarks ==
  ASSUME Stored(db), NEW rows \in Seq(Row), NEW added \in SUBSET DOMAIN db, NEW me,
         NEW e, e = AfterAdding(rows, added, me)
  PROVE  /\ Stored(e) /\ DOMAIN e = DOMAIN db /\ Grows(db, e)
         /\ \A m \in DOMAIN e : e[m].status = "SEEN" =>
              db[m].status = "SEEN" \/ (m \in Ids(rows) \cup added /\ db[m].sender # me)
<1>1. CASE added = {}
  BY <1>1 DEF AfterAdding, Grows
<1>2. CASE added # {}
  <2> DEFINE all == rows \o RowsOf(added)
  <2>1. all \in Seq(Row) /\ Ids(all) = Ids(rows) \cup added /\ e = MarkSeen(all, me)
    BY <1>2, HeededRows DEF AfterAdding
  <2> HIDE DEF all
  <2> QED
    BY <2>1, MarkSeenMarks
<1> QED
  BY <1>1, <1>2

(* A listener adds rows of one of the two, and remembers what it was told. *)
LEMMA HearStep ==
  ASSUME IInv, NEW v \in Views, OnScreen(v),
         NEW toldMine \in Heard, NEW toldTheirs \in Heard, NEW fresh \in SUBSET {"mine", "theirs"},
         NEW added \in SUBSET DOMAIN db, NEW modified,
         DOMAIN toldMine \subseteq SentIn(db, view[v].owner),
         DOMAIN toldTheirs \subseteq SentIn(db, Friend(view[v].owner)),
         DOMAIN toldMine \cup DOMAIN toldTheirs =
           DOMAIN view[v].toldMine \cup DOMAIN view[v].toldTheirs \cup added,
         added \cap (DOMAIN view[v].toldMine \cup DOMAIN view[v].toldTheirs) = {},
         DOMAIN toldTheirs \subseteq DOMAIN view[v].toldTheirs \cup added,
         view' = [view EXCEPT ![v].rows = Heeded(@, added, modified), ![v].toldMine = toldMine,
                              ![v].toldTheirs = toldTheirs, ![v].fresh = fresh],
         db' = AfterAdding(view[v].rows, added, view[v].owner),
         errs' = errs
  PROVE  IInv'
<1> DEFINE me == view[v].owner
           rows == Heeded(view[v].rows, added, modified)
           x == [view[v] EXCEPT !.rows = rows, !.toldMine = toldMine,
                                !.toldTheirs = toldTheirs, !.fresh = fresh]
<1>1. view' = [view EXCEPT ![v] = x]
  BY ViewFacts
<1>2. /\ view[v].rows \in Seq(Row)
      /\ rows \in Seq(Row) /\ Ids(rows) = Ids(view[v].rows) \cup added
      /\ Distinct(view[v].rows) /\ Ids(view[v].rows) \cap added = {} => Distinct(rows)
  BY ViewFacts, HeededRows DEF View
<1> HIDE DEF rows
<1>3. /\ Stored(db') /\ DOMAIN db' = DOMAIN db /\ Grows(db, db')
      /\ \A m \in DOMAIN db' : db'[m].status = "SEEN" =>
           db[m].status = "SEEN" \/ (m \in Ids(rows) /\ db[m].sender # me)
  BY <1>2, ViewFacts, AfterAddingMarks
<1>4. x \in View
  BY <1>2, ViewFacts DEF View
<1>5. /\ x.owner = me /\ x.rows = rows /\ x.carried = view[v].carried
      /\ x.stage = "open" /\ view[v].stage = "open" /\ x.covers = view[v].covers
      /\ x.toldMine = toldMine /\ x.toldTheirs = toldTheirs
  BY ViewFacts DEF View, OnScreen
<1> HIDE DEF x
<1>6. ViewInv(x, db)
  <2>1. x.covers = 0 => Distinct(rows) /\ Ids(rows) \subseteq DOMAIN toldMine \cup DOMAIN toldTheirs
    BY <1>2, <1>5, ViewFacts DEF ViewInv
  <2>2. Ids(rows) \subseteq DOMAIN db /\ DOMAIN toldTheirs \subseteq Ids(rows)
    BY <1>2, ViewFacts DEF ViewInv
  <2>3. Ids(x.carried) \subseteq SentIn(db, me) /\ Distinct(x.carried)
    BY <1>5, ViewFacts DEF ViewInv
  <2> QED
    BY <1>5, <2>1, <2>2, <2>3 DEF ViewInv
<1>7. ViewInv(x, db')
  BY <1>3, <1>6, StaysRight
<1>8. /\ \A m \in DOMAIN db' : db'[m].sender = db[m].sender
      /\ \A m \in Ids(view[v].rows) : m \in Ids(x.rows)
  BY <1>2, <1>3, <1>5 DEF Grows
<1>9. \A m \in DOMAIN db' : db'[m].status = "SEEN" =>
        \/ m \in DOMAIN db /\ db[m].status = "SEEN"
        \/ m \in Ids(x.rows) /\ db'[m].sender # x.owner
  BY <1>3, <1>5, <1>8
<1>10. \A m \in Ids(view[v].rows) : db[m].sender # view[v].owner =>
         m \in Ids(x.rows) /\ db[m].sender # x.owner
  BY <1>5, <1>8
<1>11. errs' \in 0..MaxErrors /\ Stored(db') /\ Grows(db, db')
  BY <1>3, ViewFacts
<1> QED
  BY <1>1, <1>4, <1>7, <1>9, <1>10, <1>11, OneView

LEMMA HearMineStep ==
  ASSUME IInv, NEW v \in Views, HearMine(v)
  PROVE  IInv'
<1> DEFINE me == view[v].owner
           added == Added(view[v].toldMine, me)
           seen == {m \in Modified(view[v].toldMine, me) : db[m].status = "SEEN"}
<1>1. /\ me \in Pair /\ view[v].toldTheirs \in Heard /\ view[v].fresh \in SUBSET {"mine", "theirs"}
      /\ DOMAIN view[v].toldMine \subseteq SentIn(db, me)
      /\ DOMAIN view[v].toldTheirs \subseteq SentIn(db, Friend(me))
      /\ SentIn(db, me) \cap SentIn(db, Friend(me)) = {}
      /\ added = SentIn(db, me) \ DOMAIN view[v].toldMine /\ added \subseteq DOMAIN db
      /\ Snapshot(me) \in Heard /\ DOMAIN Snapshot(me) = SentIn(db, me)
  BY ViewFacts, SnapshotOK, SentParts DEF View, ViewInv, Added
<1>2. /\ OnScreen(v) /\ errs' = errs /\ db' = AfterAdding(view[v].rows, added, me)
      /\ view' = [view EXCEPT ![v].rows = Heeded(@, added, seen), ![v].toldMine = Snapshot(me),
                              ![v].toldTheirs = view[v].toldTheirs,
                              ![v].fresh = view[v].fresh \ {"mine"}]
  BY ViewFacts DEF HearMine, View
<1>3. view[v].fresh \ {"mine"} \in SUBSET {"mine", "theirs"}
  BY <1>1
<1> HIDE DEF added, seen
<1> QED
  BY <1>1, <1>2, <1>3, HearStep

LEMMA HearTheirsStep ==
  ASSUME IInv, NEW v \in Views, HearTheirs(v)
  PROVE  IInv'
<1> DEFINE me == view[v].owner
           friend == Friend(me)
           added == Added(view[v].toldTheirs, friend)
           modified == Modified(view[v].toldTheirs, friend)
<1>1. /\ me \in Pair /\ view[v].toldMine \in Heard /\ view[v].fresh \in SUBSET {"mine", "theirs"}
      /\ DOMAIN view[v].toldMine \subseteq SentIn(db, me)
      /\ DOMAIN view[v].toldTheirs \subseteq SentIn(db, friend)
      /\ SentIn(db, me) \cap SentIn(db, friend) = {}
      /\ Snapshot(friend) \in Heard /\ DOMAIN Snapshot(friend) = SentIn(db, friend)
  BY ViewFacts, SnapshotOK, SentParts DEF View, ViewInv
<1>4. added = SentIn(db, friend) \ DOMAIN view[v].toldTheirs /\ added \subseteq DOMAIN db
  BY ViewFacts DEF Added
<1>2. /\ OnScreen(v) /\ errs' = errs /\ db' = AfterAdding(view[v].rows, added, me)
      /\ view' = [view EXCEPT ![v].rows = Heeded(@, added, modified),
                              ![v].toldMine = view[v].toldMine,
                              ![v].toldTheirs = Snapshot(friend),
                              ![v].fresh = view[v].fresh \ {"theirs"}]
  BY ViewFacts DEF HearTheirs, View
<1>3. view[v].fresh \ {"theirs"} \in SUBSET {"mine", "theirs"}
  BY <1>1
<1> HIDE DEF added, modified
<1> QED
  BY <1>1, <1>2, <1>3, <1>4, HearStep

-----------------------------------------------------------------------------
(* The theorems.                                                           *)

LEMMA StepIInv == IInv /\ [Next]_vars => IInv'
<1> SUFFICES ASSUME IInv, [Next]_vars PROVE IInv'
  OBVIOUS
<1>1. ASSUME NEW v \in Views, NEW u \in Pair, Open(v, u) PROVE IInv'
  BY <1>1, OpenStep
<1>2. ASSUME NEW v \in Views, Send(v) PROVE IInv'
  BY <1>2, SendStep
<1>3. ASSUME NEW v \in Views, Cover(v) PROVE IInv'
  BY <1>3, CoverStep
<1>4. ASSUME NEW v \in Views, Uncover(v) PROVE IInv'
  BY <1>4, UncoverStep
<1>5. ASSUME NEW v \in Views, Close(v) PROVE IInv'
  BY <1>5, CloseStep
<1>6. ASSUME NEW v \in Views, System(v) PROVE IInv'
  BY <1>6, FetchedMineStep, FetchedTheirsStep, HearMineStep, HearTheirsStep DEF System
<1>7. ASSUME NEW v \in Views, FetchFailed(v) PROVE IInv'
  BY <1>7, FetchFailedStep
<1>8. CASE UNCHANGED vars
  BY <1>8 DEF vars, IInv, TypeOK, SeenLoaded
<1> QED
  BY <1>1, <1>2, <1>3, <1>4, <1>5, <1>6, <1>7, <1>8 DEF Next

(* Every reachable state satisfies the invariant, with any number of views *)
(* and messages, previews and failed queries.                              *)
THEOREM ConversationInvariant == Spec => []IInv
<1> QED
  BY InitIInv, StepIInv, PTL DEF Spec

(* The collection and the views that copy it have their types.             *)
THEOREM ConversationTypes == Spec => []TypeOK
<1>1. IInv => TypeOK
  BY DEF IInv
<1> QED
  BY <1>1, ConversationInvariant, PTL

(* How often a message stands on the screen.                               *)
LEMMA CopiesOf ==
  ASSUME IInv, NEW v \in Views, NEW m
  PROVE  /\ m \in Ids(view[v].rows) => Copies(v, m) >= 1
         /\ Distinct(view[v].rows) => Copies(v, m) <= 1
<1> DEFINE rows == view[v].rows
           at == {i \in DOMAIN rows : rows[i].id = m}
<1>1. rows \in Seq(Row)
  BY ViewFacts DEF View
<1>2. IsFiniteSet(at)
  <2>1. DOMAIN rows = 1..Len(rows) /\ Len(rows) \in Nat
    BY <1>1
  <2>2. IsFiniteSet(1..Len(rows)) /\ at \in SUBSET (1..Len(rows))
    BY <2>1, FS_Interval
  <2> QED
    BY <2>2, FS_Subset
<1>3. Copies(v, m) = Cardinality(at) /\ Cardinality(at) \in Nat
  BY <1>2, FS_CardinalityType DEF Copies
<1>4. ASSUME m \in Ids(rows) PROVE Copies(v, m) >= 1
  <2>1. at # {}
    BY <1>4 DEF Ids
  <2> HIDE DEF at
  <2> QED
    BY <1>2, <1>3, <2>1, FS_EmptySet
<1>5. ASSUME Distinct(rows) PROVE Copies(v, m) <= 1
  <2>1. \A i, j \in at : i = j
    BY <1>5 DEF Distinct
  <2> HIDE DEF at
  <2>2. at = {} \/ \E i : at = {i}
    BY <2>1
  <2> QED
    BY <1>2, <1>3, <2>2, FS_EmptySet, FS_Singleton
<1> QED
  BY <1>4, <1>5

(* Every message of the friend is on the screen of a settled chat.         *)
THEOREM NothingIncomingIsLost == Spec => []IncomingShown
<1>1. ASSUME IInv PROVE IncomingShown
  <2> SUFFICES ASSUME NEW v \in Views, Settled(v), NEW m \in SentBy(Friend(view[v].owner))
               PROVE  Copies(v, m) >= 1
    BY DEF IncomingShown
  <2>1. m \in DOMAIN view[v].toldTheirs
    BY <1>1, SnapshotOK, ViewFacts DEF Settled
  <2>2. m \in Ids(view[v].rows)
    BY <1>1, <2>1, ViewFacts DEF ViewInv
  <2> QED
    BY <1>1, <2>2, CopiesOf
<1> QED
  BY <1>1, ConversationInvariant, PTL

(* No message stands twice in a settled chat that no preview ever covered. *)
THEOREM FetchAndListenersDoNotDouble == Spec => []NoDoubles
<1>1. ASSUME IInv PROVE NoDoubles
  <2> SUFFICES ASSUME NEW v \in Views, Settled(v), view[v].covers = 0, NEW m \in DOMAIN db
               PROVE  Copies(v, m) <= 1
    BY DEF NoDoubles
  <2>1. Distinct(view[v].rows)
    BY <1>1, ViewFacts DEF ViewInv, Settled, OnScreen
  <2> QED
    BY <1>1, <2>1, CopiesOf
<1> QED
  BY <1>1, ConversationInvariant, PTL

(* A SEEN message is loaded in some view of its receiver.                  *)
THEOREM SeenMeansLoaded == Spec => []SeenWasLoaded
<1>1. ASSUME IInv PROVE SeenWasLoaded
  BY <1>1, CopiesOf DEF IInv, SeenLoaded, SeenWasLoaded
<1> QED
  BY <1>1, ConversationInvariant, PTL
=============================================================================
