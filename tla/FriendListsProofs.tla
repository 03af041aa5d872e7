-------------------------- MODULE FriendListsProofs --------------------------
(***************************************************************************)
(* Proofs about the friends lists, in four parts.                          *)
(*                                                                         *)
(*   Any use: what stands in a list was asked for, agreed to or blocked by *)
(*   the users it names, however many chains overlap, fail or die half     *)
(*   way, for every number of users, chains, taps, errors and kills.       *)
(*                                                                         *)
(*   The shared fact: what the abstract Friendship promises.               *)
(*                                                                         *)
(*   Serial use: one chain at a time over lists that its user sees as they *)
(*   are.  Then every list has one row per user, a chain finds on both     *)
(*   sides the row that it was tapped for, and the two lists are one       *)
(*   shared fact.                                                          *)
(*                                                                         *)
(*   The friends tab: its listener and fetches write no list, and rows of  *)
(*   a fetch that was not overtaken are the list as it is.                 *)
(***************************************************************************)
EXTENDS FriendsTab, SequenceTheorems, WellFoundedInduction, TLAPS

\* The entry e of u's list is of another user, and accounted for by what the
\* two pressed.
EntryOK(u, e) ==
  /\ e.uid # u
  /\ e.status = "REQUEST_SEND" => <<u, e.uid>> \in asked
  /\ e.status = "REQUESTED" => <<e.uid, u>> \in asked
  /\ e.status = "ACCPETED" => Consent(u, e.uid)
  /\ e.status = "UNBLOCK" => <<u, e.uid>> \in blocked
  /\ e.status = "BLOCKED" => <<e.uid, u>> \in blocked

\* So is every copy of an entry: in the database, on a screen, in a chain; a
\* chain was started by a tap that justifies what it will write.
StoreOK ==
  \A u \in Users : \A d \in DOMAIN store[u] : \A i \in 1..Len(store[u][d]) :
    EntryOK(u, store[u][d][i])

ShownOK == \A u \in Users : \A e \in shown[u] : EntryOK(u, e)

ActOK(op) ==
  /\ op.dev # op.peer
  /\ op.act = "SEND" => <<op.dev, op.peer>> \in asked
  /\ op.act \in {"ACCEPT", "UNBLOCK"} => Consent(op.dev, op.peer)
  /\ op.act = "BLOCK" => <<op.dev, op.peer>> \in blocked

CopyOK(op) == \A i \in 1..Len(op.list) : EntryOK(Holder(op), op.list[i])

ChainsOK == \A s \in Slots : ops[s] # Idle => ActOK(ops[s]) /\ CopyOK(ops[s])

\* Only friends can be blocked, so lifting a block makes no new friends.
BlocksOK == \A u, f \in Users : <<u, f>> \in blocked => Consent(u, f)

\* Nobody finds himself when he searches.
ResultsOK == \A u \in Users : u \notin results[u]

IInv == TypeOK /\ StoreOK /\ ShownOK /\ ChainsOK /\ BlocksOK /\ ResultsOK

-----------------------------------------------------------------------------
(* Facts about the pure operators.                                         *)

(* The least element of a nonempty set of naturals exists, so Min picks an *)
(* element of the set: the first document, the first matching row.         *)
LEMMA MinInSet ==
  ASSUME NEW S, S \subseteq Nat, S # {}
  PROVE  Min(S) \in S
<1> DEFINE Below == {p \in Nat \X Nat : p[1] < p[2]}
<1>1. IsWellFoundedOn(Below, Nat)
  BY NatLessThanWellFounded DEF OpToRel
<1> HIDE DEF Below
<1>2. PICK x \in S : \A y \in S : <<y, x>> \notin Below
  BY <1>1, WFMin
<1>3. ASSUME NEW y \in S PROVE x <= y
  <2>1. x \in Nat /\ y \in Nat
    OBVIOUS
  <2>2. y < x => <<y, x>> \in Below
    BY <2>1 DEF Below
  <2>3. QED
    BY <2>1, <2>2, <1>2
<1>4. QED
  BY <1>3 DEF Min

(* Removing a row leaves rows that were there.                             *)
LEMMA RemoveAtKeeps ==
  ASSUME NEW S, NEW l \in Seq(S), NEW i \in 1..Len(l)
  PROVE  /\ RemoveAt(l, i) \in Seq(S)
         /\ \A k \in 1..Len(RemoveAt(l, i)) : \E j \in 1..Len(l) : RemoveAt(l, i)[k] = l[j]
<1> DEFINE front == SubSeq(l, 1, i - 1)
           back == SubSeq(l, i + 1, Len(l))
<1>1. /\ front \in Seq(S) /\ Len(front) = i - 1
      /\ \A k \in 1..(i - 1) : front[k] = l[k]
  <2>1. \A k \in 1..(i - 1) : l[k] \in S
    OBVIOUS
  <2>2. QED
    BY <2>1, SubSeqProperties
<1>2. /\ back \in Seq(S) /\ Len(back) = Len(l) - i
      /\ \A k \in 1..(Len(l) - i) : back[k] = l[i + k]
  <2>1. \A k \in (i + 1)..Len(l) : l[k] \in S
    OBVIOUS
  <2>2. QED
    BY <2>1, SubSeqProperties
<1>3. RemoveAt(l, i) = front \o back
  BY DEF RemoveAt
<1> HIDE DEF front, back
<1>4. /\ front \o back \in Seq(S)
      /\ Len(front \o back) = Len(l) - 1
      /\ \A k \in 1..(Len(l) - 1) :
           (front \o back)[k] = IF k <= i - 1 THEN front[k] ELSE back[k - (i - 1)]
  BY <1>1, <1>2, ConcatProperties
<1>5. ASSUME NEW k \in 1..(Len(l) - 1)
      PROVE  \E j \in 1..Len(l) : (front \o back)[k] = l[j]
  <2>1. CASE k <= i - 1
    BY <2>1, <1>1, <1>4
  <2>2. CASE ~(k <= i - 1)
    <3>1. (front \o back)[k] = l[k + 1]
      BY <2>2, <1>2, <1>4
    <3>2. QED
      BY <3>1
  <2>3. QED
    BY <2>1, <2>2
<1>6. QED
  BY <1>3, <1>4, <1>5

(* FriendService.performAction keeps every row it does not rewrite, and a  *)
(* row it rewrites names the same user with the action's own status.       *)
LEMMA PerformActionRows ==
  ASSUME NEW l \in Seq(Entry), NEW uid \in Users, NEW action \in Actions,
         NEW mine \in BOOLEAN,
         action \in {"CANCEL", "UNFRIEND"} => l # << >>
  PROVE  /\ PerformAction(l, uid, action, mine) \in Seq(Entry)
         /\ \A k \in 1..Len(PerformAction(l, uid, action, mine)) :
              \/ \E j \in 1..Len(l) : PerformAction(l, uid, action, mine)[k] = l[j]
              \/ /\ action \in {"ACCEPT", "UNBLOCK", "BLOCK"}
                 /\ PerformAction(l, uid, action, mine)[k].uid = uid
                 /\ PerformAction(l, uid, action, mine)[k].status = NewStatus(action, mine)
<1>1. CASE action \in {"CANCEL", "UNFRIEND"}
  <2> DEFINE matches == {i \in DOMAIN l : l[i].uid = uid}
  <2>1. RemovingIndex(l, uid) \in 1..Len(l)
    <3>1. CASE matches = {}
      <4>1. RemovingIndex(l, uid) = 1
        BY <3>1 DEF RemovingIndex
      <4>2. Len(l) \in Nat \ {0}
        BY <1>1
      <4>3. QED
        BY <4>1, <4>2
    <3>2. CASE matches # {}
      <4>1. matches \subseteq 1..Len(l) /\ matches \subseteq Nat
        OBVIOUS
      <4>2. Min(matches) \in matches
        BY <3>2, <4>1, MinInSet
      <4>3. RemovingIndex(l, uid) = Min(matches)
        BY <3>2 DEF RemovingIndex
      <4>4. QED
        BY <4>1, <4>2, <4>3
    <3>3. QED
      BY <3>1, <3>2
  <2>2. PerformAction(l, uid, action, mine) = RemoveAt(l, RemovingIndex(l, uid))
    BY <1>1 DEF PerformAction
  <2>3. QED
    BY <2>1, <2>2, RemoveAtKeeps
<1>2. CASE action \notin {"CANCEL", "UNFRIEND"}
  <2> DEFINE row(i) == IF l[i].uid = uid
                       THEN [l[i] EXCEPT !.status = NewStatus(action, mine)]
                       ELSE l[i]
  <2>1. PerformAction(l, uid, action, mine) = [i \in 1..Len(l) |-> row(i)]
    BY <1>2 DEF PerformAction
  <2>2. NewStatus(action, mine) \in Status
    BY DEF NewStatus, Status
  <2>3. ASSUME NEW i \in 1..Len(l)
        PROVE  /\ row(i) \in Entry
               /\ \/ row(i) = l[i]
                  \/ row(i).uid = uid /\ row(i).status = NewStatus(action, mine)
    <3>1. l[i] \in Entry
      OBVIOUS
    <3>2. QED
      BY <3>1, <2>2 DEF Entry
  <2> HIDE DEF row
  <2>4. QED
    BY <1>2, <2>1, <2>3 DEF Actions
<1>3. QED
  BY <1>1, <1>2

-----------------------------------------------------------------------------
(* Facts about a state that satisfies the invariant.                       *)

(* What fetchFriendsList returns of u is one of his documents.             *)
LEMMA FetchedList ==
  ASSUME TypeOK, StoreOK, NEW u \in Users
  PROVE  /\ HasList(u) => FirstDoc(u) \in DocIds
         /\ ListOf(u) \in Seq(Entry)
         /\ \A i \in 1..Len(ListOf(u)) : EntryOK(u, ListOf(u)[i])
<1>1. CASE HasList(u)
  <2>1. DOMAIN store[u] \subseteq Nat /\ DOMAIN store[u] # {}
    BY <1>1, DocIdsAssumption DEF TypeOK, HasList
  <2>2. FirstDoc(u) \in DOMAIN store[u]
    BY <2>1, MinInSet DEF FirstDoc
  <2>3. ListOf(u) = store[u][FirstDoc(u)]
    BY <1>1 DEF ListOf
  <2>4. QED
    BY <2>2, <2>3 DEF TypeOK, StoreOK
<1>2. CASE ~HasList(u)
  BY <1>2 DEF ListOf
<1>3. QED
  BY <1>1, <1>2

(* What a chain is about to write is accounted for, entry by entry.        *)
LEMMA EditedOK ==
  ASSUME TypeOK, StoreOK, NEW op \in Chain, ActOK(op), ~Traps(op)
  PROVE  /\ Edited(op) \in Seq(Entry)
         /\ \A k \in 1..Len(Edited(op)) : EntryOK(Holder(op), Edited(op)[k])
<1> DEFINE u == Holder(op)
           f == Subject(op)
           l == ListOf(u)
<1>1. u \in Users /\ f \in Users
  BY DEF Chain, Holder, Subject
<1>2. l \in Seq(Entry) /\ \A i \in 1..Len(l) : EntryOK(u, l[i])
  BY <1>1, FetchedList
<1>3. CASE op.act = "SEND"
  <2> DEFINE e == [uid |-> f,
                   status |-> IF op.half = "mine" THEN "REQUEST_SEND" ELSE "REQUESTED"]
  <2>1. e \in Entry
    BY <1>1 DEF Entry, Status
  <2>2. EntryOK(u, e)
    BY <1>3 DEF EntryOK, ActOK, Holder, Subject
  <2>3. Edited(op) = Append(l, e)
    BY <1>3 DEF Edited
  <2> HIDE DEF e, l
  <2>4. QED
    BY <2>1, <2>2, <2>3, <1>2, AppendProperties
<1>4. CASE op.act # "SEND"
  <2> DEFINE mine == op.half = "mine"
             r == PerformAction(l, f, op.act, mine)
  <2>1. op.act \in Actions
    BY <1>4 DEF Chain, Acts
  <2>2. op.act \in {"CANCEL", "UNFRIEND"} => l # << >>
    BY DEF Traps
  <2>3. mine \in BOOLEAN
    OBVIOUS
  <2>4. Edited(op) = r
    BY <1>4 DEF Edited
  <2>5. r \in Seq(Entry)
    BY <1>1, <1>2, <2>1, <2>2, <2>3, PerformActionRows
  <2>6. ASSUME NEW k \in 1..Len(r)
        PROVE  EntryOK(u, r[k])
    <3>1. CASE \E j \in 1..Len(l) : r[k] = l[j]
      BY <3>1, <1>2
    <3>2. CASE /\ op.act \in {"ACCEPT", "UNBLOCK", "BLOCK"}
               /\ r[k].uid = f
               /\ r[k].status = NewStatus(op.act, mine)
      <4>1. CASE op.act \in {"ACCEPT", "UNBLOCK"}
        <5>0. f # u
          BY DEF ActOK, Holder, Subject
        <5>1. Consent(u, f)
          BY <4>1 DEF ActOK, Consent, Holder, Subject
        <5>2. r[k].status = "ACCPETED"
          BY <3>2, <4>1 DEF NewStatus
        <5>3. QED
          BY <3>2, <5>0, <5>1, <5>2 DEF EntryOK
      <4>2. CASE op.act = "BLOCK"
        <5>0. f # u
          BY DEF ActOK, Holder, Subject
        <5>1. <<op.dev, op.peer>> \in blocked
          BY <4>2 DEF ActOK
        <5>2. r[k].status = IF mine THEN "UNBLOCK" ELSE "BLOCKED"
          BY <3>2, <4>2 DEF NewStatus
        <5>3. QED
          BY <3>2, <5>0, <5>1, <5>2 DEF EntryOK, Holder, Subject
      <4>3. QED
        BY <3>2, <4>1, <4>2
    <3> HIDE DEF r, l, u, f, mine
    <3>3. QED
      BY <3>1, <3>2, <1>1, <1>2, <2>1, <2>2, <2>3, PerformActionRows DEF r
  <2>7. QED
    BY <2>4, <2>5, <2>6
<1>5. QED
  BY <1>3, <1>4

(* History only grows, so what was accounted for stays accounted for.      *)
HistoryGrows == asked \subseteq asked' /\ agreed \subseteq agreed' /\ blocked \subseteq blocked'

LEMMA StaysOK ==
  ASSUME HistoryGrows
  PROVE  /\ \A u, e : EntryOK(u, e) => EntryOK(u, e)'
         /\ \A op : ActOK(op) => ActOK(op)'
         /\ \A op : CopyOK(op) => CopyOK(op)'
         /\ \A u, f : Consent(u, f) => Consent(u, f)'
<1>1. ASSUME NEW u, NEW f, Consent(u, f)
      PROVE  Consent(u, f)'
  BY <1>1 DEF HistoryGrows, Consent
<1>2. ASSUME NEW u, NEW e, EntryOK(u, e)
      PROVE  EntryOK(u, e)'
  BY <1>1, <1>2 DEF HistoryGrows, EntryOK
<1>3. ASSUME NEW op, ActOK(op)
      PROVE  ActOK(op)'
  BY <1>1, <1>3 DEF HistoryGrows, ActOK
<1>4. ASSUME NEW op, CopyOK(op)
      PROVE  CopyOK(op)'
  BY <1>2, <1>4 DEF CopyOK, Holder
<1>5. QED
  BY <1>1, <1>2, <1>3, <1>4

-----------------------------------------------------------------------------
(* The steps.  Most touch one slot: it is enough that the chain they put   *)
(* there is well typed and accounted for.                                  *)

ChainFine(op) == op = Idle \/ (op \in Chain /\ ActOK(op) /\ CopyOK(op))

LEMMA OneSlot ==
  ASSUME TypeOK, ChainsOK, HistoryGrows, NEW s \in Slots, NEW op, ChainFine(op)',
         ops' = [ops EXCEPT ![s] = op]
  PROVE  ops' \in [Slots -> Chain \cup {Idle}] /\ ChainsOK'
<1>1. ops' \in [Slots -> Chain \cup {Idle}]
  BY DEF TypeOK, ChainFine
<1>2. ASSUME NEW t \in Slots, ops'[t] # Idle
      PROVE  (ActOK(ops[t]) /\ CopyOK(ops[t]))'
  <2>1. CASE t = s
    BY <1>2, <2>1 DEF TypeOK, ChainFine
  <2>2. CASE t # s
    <3>1. ops'[t] = ops[t] /\ ActOK(ops[t]) /\ CopyOK(ops[t])
      BY <1>2, <2>2 DEF TypeOK, ChainsOK
    <3>2. \A c : ActOK(c) /\ CopyOK(c) => ActOK(c)' /\ CopyOK(c)'
      BY StaysOK
    <3>3. QED
      BY <3>1, <3>2 DEF ActOK, CopyOK
  <2>3. QED
    BY <2>1, <2>2
<1>3. QED
  BY <1>1, <1>2 DEF ChainsOK

(* Chains that no step touches stay accounted for.                         *)
LEMMA OpsUnchanged ==
  ASSUME TypeOK, ChainsOK, HistoryGrows, UNCHANGED ops
  PROVE  ops' \in [Slots -> Chain \cup {Idle}] /\ ChainsOK'
<1>1. \A c : ActOK(c) /\ CopyOK(c) => ActOK(c)' /\ CopyOK(c)'
  BY StaysOK
<1>2. ChainsOK'
  BY <1>1 DEF ChainsOK, ActOK, CopyOK
<1>3. QED
  BY <1>2 DEF TypeOK

(* Chains that are dropped need no account; screens that shrink neither.   *)
LEMMA GoneOK ==
  ASSUME TypeOK, ShownOK, ChainsOK, HistoryGrows, NEW u \in Users, Gone(u)
  PROVE  /\ ops' \in [Slots -> Chain \cup {Idle}] /\ ChainsOK'
         /\ shown' \in [Users -> SUBSET Entry] /\ ShownOK'
         /\ results' \in [Users -> SUBSET Users]
<1>1. \A s \in Slots : ops'[s] = Idle \/ ops'[s] = ops[s]
  BY DEF Gone
<1>2. ops' \in [Slots -> Chain \cup {Idle}]
  BY DEF Gone, TypeOK
<1>3. ChainsOK'
  <2>1. \A c : ActOK(c) /\ CopyOK(c) => ActOK(c)' /\ CopyOK(c)'
    BY StaysOK
  <2>2. QED
    BY <1>1, <2>1 DEF ChainsOK, ActOK, CopyOK
<1>4. shown' \in [Users -> SUBSET Entry] /\ \A v \in Users : shown'[v] \subseteq shown[v]
  BY DEF Gone, TypeOK
<1>5. ShownOK'
  <2>1. \A v, e : EntryOK(v, e) => EntryOK(v, e)'
    BY StaysOK
  <2>2. QED
    BY <1>4, <2>1 DEF ShownOK
<1>6. results' \in [Users -> SUBSET Users]
  BY DEF Gone, TypeOK
<1>7. QED
  BY <1>2, <1>3, <1>4, <1>5, <1>6

(* Replacing or adding a document of accounted-for entries.                *)
LEMMA PutDocOK ==
  ASSUME TypeOK, StoreOK, HistoryGrows,
         NEW u \in Users, NEW d \in DocIds, NEW l \in Seq(Entry),
         \A i \in 1..Len(l) : EntryOK(u, l[i]),
         store' = [store EXCEPT ![u] = PutDoc(@, d, l)]
  PROVE  /\ DOMAIN store' = Users
         /\ \A v \in Users : /\ DOMAIN store'[v] \subseteq DocIds
                             /\ \A e \in DOMAIN store'[v] : store'[v][e] \in Seq(Entry)
         /\ StoreOK'
<1>1. DOMAIN store' = Users
  BY DEF TypeOK
<1>2. ASSUME NEW v \in Users, NEW e \in DOMAIN store'[v]
      PROVE  /\ e \in DocIds
             /\ \/ store'[v][e] = l /\ v = u
                \/ e \in DOMAIN store[v] /\ store'[v][e] = store[v][e]
  BY <1>2 DEF TypeOK, PutDoc
<1>3. \A v, e : EntryOK(v, e) => EntryOK(v, e)'
  BY StaysOK
<1>4. StoreOK'
  BY <1>2, <1>3 DEF StoreOK
<1>5. QED
  BY <1>1, <1>2, <1>4 DEF TypeOK

(* The end of a half leaves the chain's act as it was and its copy empty.  *)
LEMMA CompletedOK ==
  ASSUME TypeOK, ChainsOK, HistoryGrows, NEW s \in Slots, ops[s] # Idle,
         NEW success \in BOOLEAN, Completed(s, success)
  PROVE  /\ ops' \in [Slots -> Chain \cup {Idle}] /\ ChainsOK'
         /\ results' \in [Users -> SUBSET Users]
<1>1. ops[s] \in Chain /\ ActOK(ops[s])
  BY DEF TypeOK, ChainsOK
<1>2. CASE ops[s].half = "mine"
  <2>1. PICK op : op = [ops[s] EXCEPT !.phase = "read", !.half = "theirs",
                                      !.doc = NoDoc, !.list = << >>, !.ok = success]
    OBVIOUS
  <2>2. op = [phase |-> "read", dev |-> ops[s].dev, peer |-> ops[s].peer,
              act |-> ops[s].act, half |-> "theirs", doc |-> NoDoc,
              list |-> << >>, ok |-> success]
    BY <1>1, <2>1 DEF Chain
  <2>3. /\ op \in Chain /\ op.list = << >>
        /\ op.dev = ops[s].dev /\ op.peer = ops[s].peer /\ op.act = ops[s].act
    BY <1>1, <2>2 DEF Chain
  <2>7. ActOK(op) /\ CopyOK(op)
    BY <1>1, <2>3 DEF ActOK, CopyOK
  <2>4. ChainFine(op)'
    BY <2>3, <2>7, StaysOK DEF ChainFine
  <2>5. ops' = [ops EXCEPT ![s] = op] /\ results' = results
    BY <1>2, <2>1 DEF Completed
  <2>6. QED
    BY <2>4, <2>5, OneSlot DEF TypeOK
<1>3. CASE ops[s].half # "mine"
  <2>1. ops' = [ops EXCEPT ![s] = Idle]
    BY <1>3 DEF Completed
  <2>2. ChainFine(Idle)'
    BY DEF ChainFine
  <2>3. results' \in [Users -> SUBSET Users]
    BY <1>3, <1>1 DEF Completed, TypeOK, Chain
  <2>4. QED
    BY <2>1, <2>2, <2>3, OneSlot
<1>4. QED
  BY <1>2, <1>3

(* A chain that has read goes on with an accounted-for copy of that list.  *)
LEMMA ReadOK ==
  ASSUME TypeOK, StoreOK, ChainsOK, HistoryGrows, NEW s \in Slots, ops[s] # Idle,
         ~Traps(ops[s]), NEW d \in DocIds \cup {NoDoc},
         ops' = [ops EXCEPT ![s].phase = "check", ![s].doc = d, ![s].list = Edited(ops[s])]
  PROVE  ops' \in [Slots -> Chain \cup {Idle}] /\ ChainsOK'
<1>1. ops[s] \in Chain /\ ActOK(ops[s])
  BY DEF TypeOK, ChainsOK
<1>2. PICK l : l = Edited(ops[s])
  OBVIOUS
<1>3. l \in Seq(Entry) /\ \A k \in 1..Len(l) : EntryOK(Holder(ops[s]), l[k])
  BY <1>1, <1>2, EditedOK
<1>4. PICK op : op = [ops[s] EXCEPT !.phase = "check", !.doc = d, !.list = l]
  OBVIOUS
<1>5. op = [phase |-> "check", dev |-> ops[s].dev, peer |-> ops[s].peer,
            act |-> ops[s].act, half |-> ops[s].half, doc |-> d,
            list |-> l, ok |-> ops[s].ok]
  BY <1>1, <1>4 DEF Chain
<1>6. op \in Chain
  BY <1>1, <1>3, <1>5 DEF Chain
<1>7. ActOK(op) /\ CopyOK(op)
  BY <1>1, <1>3, <1>5 DEF ActOK, CopyOK, Holder
<1>8. ChainFine(op)'
  BY <1>6, <1>7, StaysOK DEF ChainFine
<1>9. ops' = [ops EXCEPT ![s] = op]
  BY <1>2, <1>4
<1>10. QED
  BY <1>8, <1>9, OneSlot

(* A tapped button starts a chain that the tap itself justifies.           *)
LEMMA NewChainOK ==
  ASSUME TypeOK, ChainsOK, HistoryGrows, NEW s \in Slots,
         NEW u \in Users, NEW f \in Users, NEW act \in Acts,
         ActOK(NewChain(u, f, act))',
         ops' = [ops EXCEPT ![s] = NewChain(u, f, act)]
  PROVE  ops' \in [Slots -> Chain \cup {Idle}] /\ ChainsOK'
<1>1. NewChain(u, f, act) \in Chain /\ NewChain(u, f, act).list = << >>
  BY DEF NewChain, Chain
<1>2. CopyOK(NewChain(u, f, act))'
  BY <1>1 DEF CopyOK, NewChain
<1>3. ChainFine(NewChain(u, f, act))'
  BY <1>1, <1>2 DEF ChainFine
<1>4. QED
  BY <1>3, OneSlot

-----------------------------------------------------------------------------
(* What an action leaves alone keeps its part of the invariant.            *)
LEMMA Untouched ==
  ASSUME IInv, HistoryGrows
  PROVE  /\ UNCHANGED store => StoreOK'
         /\ UNCHANGED shown => ShownOK'
         /\ UNCHANGED blocked => BlocksOK'
<1>1. \A u, e : EntryOK(u, e) => EntryOK(u, e)'
  BY StaysOK
<1>2. UNCHANGED store => StoreOK'
  BY <1>1 DEF IInv, StoreOK
<1>3. UNCHANGED shown => ShownOK'
  BY <1>1 DEF IInv, ShownOK
<1>4. UNCHANGED blocked => BlocksOK'
  BY StaysOK DEF IInv, BlocksOK
<1>5. QED
  BY <1>2, <1>3, <1>4

LEMMA InitIInv == Init => IInv
<1> SUFFICES ASSUME Init PROVE IInv
  OBVIOUS
<1>1. TypeOK
  BY BoundsAssumption DEF Init, TypeOK
<1>2. StoreOK /\ ShownOK /\ ChainsOK /\ BlocksOK /\ ResultsOK
  BY DEF Init, StoreOK, ShownOK, ChainsOK, BlocksOK, ResultsOK
<1>3. QED
  BY <1>1, <1>2 DEF IInv

(* A search leaves its user out, and nothing else adds to the results.     *)
LEMMA ResultsStayOK == IInv /\ [Next]_vars => ResultsOK'
<1> SUFFICES ASSUME IInv, [Next]_vars PROVE ResultsOK'
  OBVIOUS
<1>1. results \in [Users -> SUBSET Users] /\ ResultsOK
  BY DEF IInv, TypeOK
<1>2. ASSUME NEW u \in Users, Search(u)
      PROVE  ResultsOK'
  BY <1>1, <1>2 DEF Search, ResultsOK
<1>3. ASSUME NEW u, Gone(u)
      PROVE  ResultsOK'
  BY <1>1, <1>3 DEF Gone, ResultsOK
<1>4. ASSUME NEW s \in Slots, NEW success, Completed(s, success)
      PROVE  ResultsOK'
  BY <1>1, <1>4 DEF Completed, ResultsOK
<1>5. CASE UNCHANGED results
  BY <1>1, <1>5 DEF ResultsOK
<1>6. CASE \E s \in Slots : ChainStep(s)
  BY <1>3, <1>4, <1>5, <1>6
     DEF ChainStep, Read, ReadNothing, ReadTraps, ReadError, CheckExists, CheckNone,
         CheckError, Add
<1>7. CASE \E u \in Users : UserStep(u) \/ ScreenStep(u) \/ Kill(u)
  BY <1>2, <1>3, <1>5, <1>7
     DEF UserStep, TapAdd, TapAction, ScreenStep, Refresh, RefreshError, Kill
<1>8. CASE UNCHANGED vars
  BY <1>5, <1>8 DEF vars
<1> QED
  BY <1>6, <1>7, <1>8 DEF Next

LEMMA StepIInv == IInv /\ [Next]_vars => IInv'
<1> SUFFICES ASSUME IInv, [Next]_vars PROVE IInv'
  OBVIOUS
<1>0. TypeOK /\ StoreOK /\ ShownOK /\ ChainsOK /\ BlocksOK
  BY DEF IInv
<1>r. ResultsOK'
  BY ResultsStayOK
<1>1. ASSUME NEW u \in Users, NEW f \in Users, NEW s \in Slots, TapAdd(u, f, s)
      PROVE  IInv'
  <2>1. HistoryGrows
    BY <1>1 DEF TapAdd, HistoryGrows
  <2>2. ActOK(NewChain(u, f, "SEND"))'
    <3>1. f # u
      BY <1>1 DEF TapAdd, IInv, ResultsOK
    <3> QED
      BY <1>1, <3>1 DEF TapAdd, ActOK, NewChain
  <2>3. ops' \in [Slots -> Chain \cup {Idle}] /\ ChainsOK'
    BY <1>0, <1>1, <2>1, <2>2, NewChainOK DEF TapAdd, Acts
  <2>4. TypeOK'
    BY <1>0, BoundsAssumption, <1>1, <2>3 DEF TapAdd, TypeOK
  <2>5. QED
    BY <1>1, <2>1, <2>3, <2>4, <1>r, Untouched DEF TapAdd, IInv
<1>2. ASSUME NEW u \in Users, NEW s \in Slots, NEW e \in Entry, NEW act \in Actions,
             TapAction(u, e, act, s)
      PROVE  IInv'
  <2>1. HistoryGrows
    BY <1>2 DEF TapAction, HistoryGrows
  <2>2. e.uid \in Users /\ e.status \in Status
    BY DEF Entry
  <2>3. EntryOK(u, e) /\ act \in Buttons(e.status)
    BY <1>0, <1>2 DEF TapAction, ShownOK
  <2>4. act = "ACCEPT" => e.status = "REQUESTED"
    BY <2>2, <2>3 DEF Buttons, Status
  <2>5. act = "UNBLOCK" => e.status = "UNBLOCK"
    BY <2>2, <2>3 DEF Buttons, Status
  <2>6. act = "BLOCK" => e.status \in {"ACCPETED", "BLOCKED"}
    BY <2>2, <2>3 DEF Buttons, Status
  <2>7. act = "ACCEPT" => Consent(u, e.uid)'
    BY <1>2, <2>3, <2>4 DEF TapAction, EntryOK, Consent
  <2>8. act \in {"UNBLOCK", "BLOCK"} => Consent(u, e.uid)
    BY <1>0, <2>2, <2>3, <2>5, <2>6 DEF EntryOK, BlocksOK, Consent
  <2>9. ActOK(NewChain(u, e.uid, act))'
    <3>1. \A v, w : Consent(v, w) => Consent(v, w)'
      BY <2>1, StaysOK
    <3>2. act \in {"ACCEPT", "UNBLOCK"} => Consent(u, e.uid)'
      BY <2>7, <2>8, <3>1
    <3>3. act = "BLOCK" => <<u, e.uid>> \in blocked'
      BY <1>2 DEF TapAction
    <3>4. act # "SEND"
      BY DEF Actions
    <3>5. e.uid # u
      BY <2>3 DEF EntryOK
    <3>6. QED
      BY <3>2, <3>3, <3>4, <3>5 DEF ActOK, NewChain, Consent
  <2>10. ops' \in [Slots -> Chain \cup {Idle}] /\ ChainsOK'
    BY <1>0, <1>2, <2>1, <2>2, <2>9, NewChainOK DEF TapAction, Acts
  <2>11. TypeOK'
    BY <1>0, BoundsAssumption, <1>2, <2>2, <2>10 DEF TapAction, TypeOK
  <2>12. BlocksOK'
    <3>1. \A v, w : Consent(v, w) => Consent(v, w)'
      BY <2>1, StaysOK
    <3>2. \A p \in blocked' : p \in blocked \/ (act = "BLOCK" /\ p = <<u, e.uid>>)
      BY <1>2 DEF TapAction
    <3>3. act = "BLOCK" => Consent(u, e.uid)'
      BY <2>8, <3>1
    <3>4. ASSUME NEW v \in Users, NEW w \in Users, <<v, w>> \in blocked'
          PROVE  Consent(v, w)'
      BY <1>0, <3>1, <3>2, <3>3, <3>4 DEF BlocksOK
    <3>5. QED
      BY <3>4 DEF BlocksOK
  <2>13. QED
    BY <1>2, <2>1, <2>10, <2>11, <2>12, <1>r, Untouched DEF TapAction, IInv
<1>3. ASSUME NEW u \in Users, Search(u)
      PROVE  IInv'
  <2>1. HistoryGrows
    BY <1>3 DEF Search, HistoryGrows, history
  <2>2. ops' \in [Slots -> Chain \cup {Idle}] /\ ChainsOK'
    BY <1>0, <1>3, <2>1, OpsUnchanged DEF Search
  <2>8. TypeOK'
    BY <1>0, <1>3, <2>2 DEF Search, TypeOK, history
  <2>9. QED
    BY <1>3, <2>1, <2>2, <2>8, <1>r, Untouched DEF Search, IInv, history
<1>4. ASSUME NEW u \in Users, Refresh(u)
      PROVE  IInv'
  <2>1. HistoryGrows
    BY <1>4 DEF Refresh, HistoryGrows, history
  <2>2. ops' \in [Slots -> Chain \cup {Idle}] /\ ChainsOK'
    BY <1>0, <1>4, <2>1, OpsUnchanged DEF Refresh
  <2>3. /\ ListOf(u) \in Seq(Entry)
        /\ \A i \in 1..Len(ListOf(u)) : EntryOK(u, ListOf(u)[i])
    BY <1>0, FetchedList
  <2>4. ToSet(ListOf(u)) \subseteq Entry /\ \A e \in ToSet(ListOf(u)) : EntryOK(u, e)
    BY <2>3 DEF ToSet
  <2>5. shown' \in [Users -> SUBSET Entry]
    BY <1>0, <1>4, <2>4 DEF Refresh, TypeOK
  <2>6. ShownOK'
    <3>1. \A v, e : EntryOK(v, e) => EntryOK(v, e)'
      BY <2>1, StaysOK
    <3>2. \A v \in Users : \A e \in shown'[v] : EntryOK(v, e)
      BY <1>0, <1>4, <2>4 DEF Refresh, TypeOK, ShownOK
    <3>3. QED
      BY <3>1, <3>2 DEF ShownOK
  <2>8. TypeOK'
    BY <1>0, <1>4, <2>2, <2>5 DEF Refresh, TypeOK, history
  <2>9. QED
    BY <1>4, <2>1, <2>2, <2>6, <2>8, <1>r, Untouched DEF Refresh, IInv, history
<1>5. ASSUME NEW u \in Users, RefreshError(u)
      PROVE  IInv'
  <2>1. HistoryGrows
    BY <1>5 DEF RefreshError, HistoryGrows, history
  <2>2. ops' \in [Slots -> Chain \cup {Idle}] /\ ChainsOK'
    BY <1>0, <1>5, <2>1, OpsUnchanged DEF RefreshError
  <2>3. shown' \in [Users -> SUBSET Entry] /\ \A v \in Users : shown'[v] \subseteq shown[v]
    BY <1>0, <1>5 DEF RefreshError, TypeOK
  <2>4. ShownOK'
    BY <1>0, <2>1, <2>3, StaysOK DEF ShownOK
  <2>8. TypeOK'
    BY <1>0, BoundsAssumption, <1>5, <2>2, <2>3 DEF RefreshError, TypeOK, history
  <2>9. QED
    BY <1>5, <2>1, <2>2, <2>4, <2>8, <1>r, Untouched DEF RefreshError, IInv, history
<1>6. ASSUME NEW s \in Slots, Read(s)
      PROVE  IInv'
  <2>1. HistoryGrows
    BY <1>6 DEF Read, HistoryGrows, history
  <2>2. ops' \in [Slots -> Chain \cup {Idle}] /\ ChainsOK'
    <3>1. ops[s] \in Chain
      BY <1>0, <1>6 DEF Read, TypeOK
    <3>2. FirstDoc(Holder(ops[s])) \in DocIds
      BY <1>0, <1>6, <3>1, FetchedList DEF Read, Holder, Chain
    <3>3. QED
      BY <1>0, <1>6, <2>1, <3>2, ReadOK DEF Read
  <2>8. TypeOK'
    BY <1>0, <1>6, <2>2 DEF Read, TypeOK, history
  <2>9. QED
    BY <1>6, <2>1, <2>2, <2>8, <1>r, Untouched DEF Read, IInv, history
<1>7. ASSUME NEW s \in Slots, ReadNothing(s)
      PROVE  IInv'
  <2>1. HistoryGrows
    BY <1>7 DEF ReadNothing, HistoryGrows, history
  <2>2. ops' \in [Slots -> Chain \cup {Idle}] /\ ChainsOK'
    <3>1. CASE ops[s].act = "SEND"
      BY <1>0, <1>7, <2>1, <3>1, ReadOK DEF ReadNothing, Traps
    <3>2. CASE ops[s].act # "SEND"
      <4>1. ChainFine(Idle)'
        BY DEF ChainFine
      <4>2. QED
        BY <1>0, <1>7, <2>1, <3>2, <4>1, OneSlot DEF ReadNothing
    <3>3. QED
      BY <3>1, <3>2
  <2>8. TypeOK'
    BY <1>0, <1>7, <2>2 DEF ReadNothing, TypeOK, history
  <2>9. QED
    BY <1>7, <2>1, <2>2, <2>8, <1>r, Untouched DEF ReadNothing, IInv, history
<1>8. ASSUME NEW s \in Slots, ReadTraps(s)
      PROVE  IInv'
  <2>1. HistoryGrows
    BY <1>8 DEF ReadTraps, HistoryGrows, history
  <2>2. ops[s].dev \in Users
    BY <1>0, <1>8 DEF ReadTraps, TypeOK, Chain
  <2>3. /\ ops' \in [Slots -> Chain \cup {Idle}] /\ ChainsOK'
        /\ shown' \in [Users -> SUBSET Entry] /\ ShownOK'
        /\ results' \in [Users -> SUBSET Users]
    BY <1>0, <1>8, <2>1, <2>2, GoneOK DEF ReadTraps
  <2>8. TypeOK'
    BY <1>0, <1>8, <2>2, <2>3 DEF ReadTraps, TypeOK, history
  <2>9. QED
    BY <1>8, <2>1, <2>3, <2>8, <1>r, Untouched DEF ReadTraps, IInv, history
<1>9. ASSUME NEW s \in Slots, ReadError(s)
      PROVE  IInv'
  <2>1. HistoryGrows
    BY <1>9 DEF ReadError, HistoryGrows, history
  <2>2. ops' \in [Slots -> Chain \cup {Idle}] /\ ChainsOK'
    <3>1. ChainFine(Idle)'
      BY DEF ChainFine
    <3>2. QED
      BY <1>0, <1>9, <2>1, <3>1, OneSlot DEF ReadError
  <2>8. TypeOK'
    BY <1>0, BoundsAssumption, <1>9, <2>2 DEF ReadError, TypeOK, history
  <2>9. QED
    BY <1>9, <2>1, <2>2, <2>8, <1>r, Untouched DEF ReadError, IInv, history
<1>10. ASSUME NEW s \in Slots, CheckExists(s)
      PROVE  IInv'
  <2>1. HistoryGrows
    BY <1>10 DEF CheckExists, HistoryGrows, history
  <2>2. /\ ops' \in [Slots -> Chain \cup {Idle}] /\ ChainsOK'
        /\ results' \in [Users -> SUBSET Users]
    BY <1>0, <1>10, <2>1, CompletedOK DEF CheckExists
  <2>3. /\ DOMAIN store' = Users
        /\ \A v \in Users : /\ DOMAIN store'[v] \subseteq DocIds
                            /\ \A e \in DOMAIN store'[v] : store'[v][e] \in Seq(Entry)
        /\ StoreOK'
    <3>1. /\ Holder(ops[s]) \in Users
          /\ ops[s].list \in Seq(Entry)
          /\ ops[s].doc \in DocIds \cup {NoDoc}
      BY <1>0, <1>10 DEF CheckExists, TypeOK, Chain, Holder
    <3>2. \A i \in 1..Len(ops[s].list) : EntryOK(Holder(ops[s]), ops[s].list[i])
      BY <1>0, <1>10 DEF CheckExists, ChainsOK, CopyOK
    <3>3. CASE ops[s].doc # NoDoc
      BY <1>0, <1>10, <2>1, <3>1, <3>2, <3>3, PutDocOK DEF CheckExists
    <3>4. CASE ops[s].doc = NoDoc
      BY <1>0, <1>10, <2>1, <3>4, <1>r, Untouched DEF CheckExists, TypeOK
    <3>5. QED
      BY <3>3, <3>4
  <2>8. TypeOK'
    BY <1>0, <1>10, <2>2, <2>3 DEF CheckExists, TypeOK, history
  <2>9. QED
    BY <1>10, <2>1, <2>2, <2>3, <2>8, <1>r, Untouched DEF CheckExists, IInv, history
<1>11. ASSUME NEW s \in Slots, CheckNone(s)
      PROVE  IInv'
  <2>1. HistoryGrows
    BY <1>11 DEF CheckNone, HistoryGrows, history
  <2>2. ops' \in [Slots -> Chain \cup {Idle}] /\ ChainsOK'
    <3>1. ops[s] \in Chain /\ ActOK(ops[s]) /\ CopyOK(ops[s])
      BY <1>0, <1>11 DEF CheckNone, TypeOK, ChainsOK
    <3>2. PICK op : op = [ops[s] EXCEPT !.phase = "add"]
      OBVIOUS
    <3>3. op = [phase |-> "add", dev |-> ops[s].dev, peer |-> ops[s].peer,
                act |-> ops[s].act, half |-> ops[s].half, doc |-> ops[s].doc,
                list |-> ops[s].list, ok |-> ops[s].ok]
      BY <3>1, <3>2 DEF Chain
    <3>4. op \in Chain
      BY <3>1, <3>3 DEF Chain
    <3>5. ActOK(op) /\ CopyOK(op)
      BY <3>1, <3>3 DEF ActOK, CopyOK, Holder
    <3>6. ChainFine(op)'
      BY <2>1, <3>4, <3>5, StaysOK DEF ChainFine
    <3>7. ops' = [ops EXCEPT ![s] = op]
      BY <1>11, <3>2 DEF CheckNone
    <3>8. QED
      BY <1>0, <2>1, <3>6, <3>7, OneSlot
  <2>8. TypeOK'
    BY <1>0, <1>11, <2>2 DEF CheckNone, TypeOK, history
  <2>9. QED
    BY <1>11, <2>1, <2>2, <2>8, <1>r, Untouched DEF CheckNone, IInv, history
<1>12. ASSUME NEW s \in Slots, CheckError(s)
      PROVE  IInv'
  <2>1. HistoryGrows
    BY <1>12 DEF CheckError, HistoryGrows, history
  <2>2. /\ ops' \in [Slots -> Chain \cup {Idle}] /\ ChainsOK'
        /\ results' \in [Users -> SUBSET Users]
    BY <1>0, <1>12, <2>1, CompletedOK DEF CheckError
  <2>8. TypeOK'
    BY <1>0, BoundsAssumption, <1>12, <2>2 DEF CheckError, TypeOK, history
  <2>9. QED
    BY <1>12, <2>1, <2>2, <2>8, <1>r, Untouched DEF CheckError, IInv, history
<1>13. ASSUME NEW s \in Slots, Add(s)
      PROVE  IInv'
  <2>1. HistoryGrows
    BY <1>13 DEF Add, HistoryGrows, history
  <2>2. /\ ops' \in [Slots -> Chain \cup {Idle}] /\ ChainsOK'
        /\ results' \in [Users -> SUBSET Users]
    BY <1>0, <1>13, <2>1, CompletedOK DEF Add
  <2>3. /\ DOMAIN store' = Users
        /\ \A v \in Users : /\ DOMAIN store'[v] \subseteq DocIds
                            /\ \A e \in DOMAIN store'[v] : store'[v][e] \in Seq(Entry)
        /\ StoreOK'
    <3>1. /\ Holder(ops[s]) \in Users
          /\ ops[s].list \in Seq(Entry)
          /\ ops[s].doc \in DocIds \cup {NoDoc}
      BY <1>0, <1>13 DEF Add, TypeOK, Chain, Holder
    <3>2. \A i \in 1..Len(ops[s].list) : EntryOK(Holder(ops[s]), ops[s].list[i])
      BY <1>0, <1>13 DEF Add, ChainsOK, CopyOK
    <3>3. PICK d \in DocIds :
            store' = [store EXCEPT ![Holder(ops[s])] = PutDoc(@, d, ops[s].list)]
      BY <1>13 DEF Add
    <3>4. QED
      BY <1>0, <2>1, <3>1, <3>2, <3>3, PutDocOK
  <2>8. TypeOK'
    BY <1>0, <1>13, <2>2, <2>3 DEF Add, TypeOK, history
  <2>9. QED
    BY <1>13, <2>1, <2>2, <2>3, <2>8, <1>r, Untouched DEF Add, IInv, history
<1>14. ASSUME NEW u \in Users, Kill(u)
      PROVE  IInv'
  <2>1. HistoryGrows
    BY <1>14 DEF Kill, HistoryGrows, history
  <2>2. /\ ops' \in [Slots -> Chain \cup {Idle}] /\ ChainsOK'
        /\ shown' \in [Users -> SUBSET Entry] /\ ShownOK'
        /\ results' \in [Users -> SUBSET Users]
    BY <1>0, <1>14, <2>1, GoneOK DEF Kill
  <2>8. TypeOK'
    BY <1>0, BoundsAssumption, <1>14, <2>2 DEF Kill, TypeOK, history
  <2>9. QED
    BY <1>14, <2>1, <2>2, <2>8, <1>r, Untouched DEF Kill, IInv, history
<1>15. CASE UNCHANGED vars
  <2>1. HistoryGrows
    BY <1>15 DEF vars, history, HistoryGrows
  <2>2. ops' \in [Slots -> Chain \cup {Idle}] /\ ChainsOK'
    BY <1>0, <1>15, <2>1, OpsUnchanged DEF vars
  <2>3. TypeOK'
    BY <1>0, <1>15 DEF vars, history, TypeOK
  <2>4. QED
    BY <1>15, <2>1, <2>2, <2>3, <1>r, Untouched DEF vars, history, IInv
<1>16. QED
  BY <1>1, <1>2, <1>3, <1>4, <1>5, <1>6, <1>7, <1>8, <1>9, <1>10, <1>11, <1>12,
     <1>13, <1>14, <1>15
     DEF Next, ChainStep, UserStep, ScreenStep

-----------------------------------------------------------------------------
(* The theorems.                                                           *)

(* The strengthened invariant holds in every reachable state.              *)
THEOREM Invariance == Spec => []IInv
<1>1. Init => IInv
  BY InitIInv
<1>2. IInv /\ [Next]_vars => IInv'
  BY StepIInv
<1>3. QED
  BY <1>1, <1>2, PTL DEF Spec

(* Every variable keeps its type.                                          *)
THEOREM TypeCorrect == Spec => []TypeOK
<1>1. IInv => TypeOK
  BY DEF IInv
<1>2. QED
  BY <1>1, Invariance, PTL

\* An entry of a document of u is one of its rows.
LEMMA EntriesAreOK ==
  ASSUME IInv, NEW u \in Users, NEW e \in EntriesOf(u)
  PROVE  EntryOK(u, e)
<1>1. PICK d \in DOMAIN store[u] : e \in ToSet(store[u][d])
  BY DEF EntriesOf
<1>2. PICK i \in 1..Len(store[u][d]) : e = store[u][d][i]
  BY <1>1 DEF ToSet, IInv, TypeOK
<1>3. QED
  BY <1>1, <1>2 DEF IInv, StoreOK

(* Nobody is ACCPETED in anybody's list without a request of the one and   *)
(* an Accept of the other, under every interleaving and failure.           *)
THEOREM ConsentHolds == Spec => []FriendsByConsent
<1>1. IInv => FriendsByConsent
  BY EntriesAreOK DEF FriendsByConsent, EntryOK
<1>2. QED
  BY <1>1, Invariance, PTL

(* The two sides of a block are never swapped or invented.                 *)
THEOREM BlockSidesHold == Spec => []BlockSides
<1>1. IInv => BlockSides
  BY EntriesAreOK DEF BlockSides, EntryOK
<1>2. QED
  BY <1>1, Invariance, PTL

(* No pending request is invented.                                         *)
THEOREM RequestsHold == Spec => []RequestsWereMade
<1>1. IInv => RequestsWereMade
  BY EntriesAreOK DEF RequestsWereMade, EntryOK
<1>2. QED
  BY <1>1, Invariance, PTL

(* Nobody is in his own list.                                              *)
THEOREM NobodyBefriendsHimself ==
  Spec => [](\A u \in Users : \A e \in EntriesOf(u) : e.uid # u)
<1>1. IInv => \A u \in Users : \A e \in EntriesOf(u) : e.uid # u
  BY EntriesAreOK DEF EntryOK
<1>2. QED
  BY <1>1, Invariance, PTL

-----------------------------------------------------------------------------
(* The shared fact: what makes Friendship worth implementing is that the   *)
(* two users of a pair see one fact, each from his own side.  (The proof   *)
(* does not look into the ties that the lists stand for.)                  *)

\* Nobody has a tie to himself: only Ask makes a tie where there is none
Apart == \A u \in Users : SeenTie[u][u] = "none"

SharedInv == Abstract!TypeOK /\ Abstract!Agree /\ Apart

LEMMA MirrorTwice ==
  \A t \in Abstract!Ties : Abstract!Mirror(t) \in Abstract!Ties
                          /\ Abstract!Mirror(Abstract!Mirror(t)) = t
  BY DEF Abstract!Ties, Abstract!Mirror

\* A fact about two different users, changed for both, is still one fact.
LEMMA SetKeeps ==
  ASSUME SharedInv, NEW u \in Users, NEW f \in Users, u # f, NEW t \in Abstract!Ties,
         Abstract!Set(u, f, t)
  PROVE  SharedInv'
  <1>1. Abstract!Mirror(t) \in Abstract!Ties /\ Abstract!Mirror(Abstract!Mirror(t)) = t
    BY MirrorTwice
  <1>2. Abstract!TypeOK'
    BY <1>1 DEF SharedInv, Abstract!TypeOK, Abstract!Set
  <1>3. \A v, w \in Users :
          SeenTie'[v][w] = IF v = u /\ w = f THEN t
                           ELSE IF v = f /\ w = u THEN Abstract!Mirror(t) ELSE SeenTie[v][w]
    BY DEF SharedInv, Abstract!TypeOK, Abstract!Set
  <1>4. ASSUME NEW v \in Users, NEW w \in Users
        PROVE  SeenTie'[w][v] = Abstract!Mirror(SeenTie'[v][w])
    <2>1. SeenTie[w][v] = Abstract!Mirror(SeenTie[v][w])
      BY DEF SharedInv, Abstract!Agree
    <2> QED BY <1>1, <1>3, <2>1
  <1>5. Abstract!Agree'
    BY <1>4 DEF Abstract!Agree, Abstract!Mirror
  <1>6. Apart'
    BY <1>3 DEF SharedInv, Apart
  <1> QED BY <1>2, <1>5, <1>6 DEF SharedInv

(* However the buttons are pressed, the two users of a pair see one fact,  *)
(* each from his own side.                                                 *)
THEOREM TiesAgree == Abstract!Spec => [](Abstract!TypeOK /\ Abstract!Agree)
  <1>1. Abstract!Init => SharedInv
    BY DEF Abstract!Init, SharedInv, Abstract!TypeOK, Abstract!Agree, Apart, Abstract!Ties,
           Abstract!Mirror
  <1>2. SharedInv /\ [Abstract!Next]_SeenTie => SharedInv'
    <2> SUFFICES ASSUME SharedInv, [Abstract!Next]_SeenTie PROVE SharedInv'
      OBVIOUS
    <2>1. CASE SeenTie' = SeenTie
      BY <2>1 DEF SharedInv, Abstract!TypeOK, Abstract!Agree, Apart
    <2>2. CASE Abstract!Next
      <3>1. PICK u, f \in Users :
              \/ Abstract!Ask(u, f) \/ Abstract!Accept(u, f) \/ Abstract!Drop(u, f)
              \/ Abstract!Block(u, f) \/ Abstract!Unblock(u, f)
        BY <2>2 DEF Abstract!Next
      <3>2. u # f
        BY <3>1 DEF Abstract!Ask, Abstract!Accept, Abstract!Drop, Abstract!Block,
                    Abstract!Unblock, SharedInv, Apart
      <3>3. \E t \in Abstract!Ties : Abstract!Set(u, f, t)
        BY <3>1 DEF Abstract!Ask, Abstract!Accept, Abstract!Drop, Abstract!Block,
                    Abstract!Unblock, Abstract!Ties
      <3> QED BY <3>2, <3>3, SetKeeps
    <2> QED BY <2>1, <2>2
  <1>3. SharedInv => Abstract!TypeOK /\ Abstract!Agree
    BY DEF SharedInv
  <1> QED BY <1>1, <1>2, <1>3, PTL DEF Abstract!Spec

-----------------------------------------------------------------------------
(* Serial use: lists with one row per user, as a map from users to         *)
(* statuses.                                                               *)

Rows(l, f) == {i \in DOMAIN l : l[i].uid = f}

Standing(l, f) == IF Rows(l, f) = {} THEN "none" ELSE l[Min(Rows(l, f))].status

OneRowEach(l) == \A i, j \in DOMAIN l : l[i].uid = l[j].uid => i = j

\* Its row is what a user's standing comes from.
LEMMA RowSays ==
  ASSUME NEW l \in Seq(Entry), OneRowEach(l), NEW i \in DOMAIN l
  PROVE  Standing(l, l[i].uid) = l[i].status /\ l[i].status # "none"
  <1>1. Rows(l, l[i].uid) = {i} /\ {i} \subseteq Nat
    BY DEF Rows, OneRowEach
  <1>2. Min({i}) = i
    BY <1>1, MinInSet
  <1>3. l[i] \in Entry
    OBVIOUS
  <1> QED BY <1>1, <1>2, <1>3 DEF Standing, Entry, Status

\* Who has no row has no standing, and the other way round.
LEMMA NoRow ==
  ASSUME NEW l \in Seq(Entry), OneRowEach(l), NEW f
  PROVE  Standing(l, f) = "none" <=> \A i \in DOMAIN l : l[i].uid # f
  <1>1. ASSUME NEW i \in DOMAIN l, l[i].uid = f
        PROVE  Standing(l, f) # "none"
    BY <1>1, RowSays
  <1>2. ASSUME \A i \in DOMAIN l : l[i].uid # f
        PROVE  Standing(l, f) = "none"
    BY <1>2 DEF Standing, Rows
  <1> QED BY <1>1, <1>2

\* The same row in another list says the same.
LEMMA SameRows ==
  ASSUME NEW l \in Seq(Entry), NEW m \in Seq(Entry), OneRowEach(l), OneRowEach(m), NEW g,
         \A i \in DOMAIN l : l[i].uid = g => \E j \in DOMAIN m : m[j] = l[i],
         \A j \in DOMAIN m : m[j].uid = g => \E i \in DOMAIN l : m[j] = l[i]
  PROVE  Standing(m, g) = Standing(l, g)
  <1>1. CASE \E i \in DOMAIN l : l[i].uid = g
    <2>1. PICK i \in DOMAIN l, j \in DOMAIN m : l[i].uid = g /\ m[j] = l[i]
      BY <1>1
    <2>2. Standing(l, l[i].uid) = l[i].status /\ Standing(m, m[j].uid) = m[j].status
      BY RowSays
    <2> QED BY <2>1, <2>2
  <1>2. CASE \A i \in DOMAIN l : l[i].uid # g
    <2>1. \A j \in DOMAIN m : m[j].uid # g
      BY <1>2
    <2> QED BY <1>2, <2>1, NoRow
  <1> QED BY <1>1, <1>2

\* A list m is l but for f, who stands there as t
Changes(l, m, f, t) ==
  /\ m \in Seq(Entry) /\ OneRowEach(m)
  /\ Standing(m, f) = t /\ \A g : g # f => Standing(m, g) = Standing(l, g)

\* A request adds a row for somebody who had none.
LEMMA Appended ==
  ASSUME NEW l \in Seq(Entry), OneRowEach(l), NEW f \in Users, NEW t \in Status,
         Standing(l, f) = "none"
  PROVE  Changes(l, Append(l, [uid |-> f, status |-> t]), f, t)
  <1> DEFINE e == [uid |-> f, status |-> t]
             m == Append(l, e)
  <1>1. e \in Entry /\ e.uid = f /\ e.status = t
    BY DEF Entry
  <1> HIDE DEF e
  <1>2. /\ m \in Seq(Entry) /\ DOMAIN m = 1 .. Len(l) + 1 /\ DOMAIN l = 1 .. Len(l)
        /\ m[Len(l) + 1] = e /\ \A i \in 1 .. Len(l) : m[i] = l[i]
    BY <1>1
  <1> HIDE DEF m
  <1>3. \A i \in DOMAIN l : l[i].uid # f
    BY NoRow
  <1>4. Len(l) \in Nat /\ \A i \in DOMAIN m : i \in DOMAIN l \/ i = Len(l) + 1
    BY <1>2
  <1>5. OneRowEach(m)
    BY <1>1, <1>2, <1>3, <1>4 DEF OneRowEach
  <1>6. Standing(m, f) = t
    BY <1>1, <1>2, <1>4, <1>5, RowSays
  <1>7. ASSUME NEW g, g # f PROVE Standing(m, g) = Standing(l, g)
    <2>1. \A i \in DOMAIN l : \E j \in DOMAIN m : m[j] = l[i]
      BY <1>2, <1>4
    <2>2. \A j \in DOMAIN m : m[j].uid = g => \E i \in DOMAIN l : m[j] = l[i]
      BY <1>1, <1>2, <1>4, <1>7
    <2> QED BY <1>2, <1>5, <2>1, <2>2, SameRows
  <1>8. Changes(l, m, f, t)
    BY <1>2, <1>5, <1>6, <1>7 DEF Changes
  <1> QED BY <1>8 DEF m, e

\* What RemoveAt leaves, row by row.
LEMMA RemoveAtRows ==
  ASSUME NEW S, NEW l \in Seq(S), NEW i \in 1 .. Len(l)
  PROVE  /\ RemoveAt(l, i) \in Seq(S) /\ Len(RemoveAt(l, i)) = Len(l) - 1
         /\ \A k \in 1 .. Len(l) - 1 :
              RemoveAt(l, i)[k] = IF k < i THEN l[k] ELSE l[k + 1]
  <1> DEFINE front == SubSeq(l, 1, i - 1)
             back == SubSeq(l, i + 1, Len(l))
  <1>1. /\ front \in Seq(S) /\ Len(front) = i - 1
        /\ \A k \in 1 .. (i - 1) : front[k] = l[k]
    <2>1. \A k \in 1 .. (i - 1) : l[k] \in S
      OBVIOUS
    <2> QED BY <2>1, SubSeqProperties
  <1>2. /\ back \in Seq(S) /\ Len(back) = Len(l) - i
        /\ \A k \in 1 .. (Len(l) - i) : back[k] = l[i + k]
    <2>1. \A k \in (i + 1) .. Len(l) : l[k] \in S
      OBVIOUS
    <2> QED BY <2>1, SubSeqProperties
  <1>3. RemoveAt(l, i) = front \o back
    BY DEF RemoveAt
  <1> HIDE DEF front, back
  <1>4. /\ front \o back \in Seq(S)
        /\ Len(front \o back) = Len(l) - 1
        /\ \A k \in 1 .. (Len(l) - 1) :
             (front \o back)[k] = IF k <= i - 1 THEN front[k] ELSE back[k - (i - 1)]
    BY <1>1, <1>2, ConcatProperties
  <1>5. ASSUME NEW k \in 1 .. (Len(l) - 1)
        PROVE  (front \o back)[k] = IF k < i THEN l[k] ELSE l[k + 1]
    <2>1. CASE k < i
      BY <2>1, <1>1, <1>4
    <2>2. CASE ~(k < i)
      <3>0. k \in 1 .. (Len(l) - 1) /\ ~(k <= i - 1) /\ k - (i - 1) \in 1 .. (Len(l) - i)
        BY <2>2
      <3>1. (front \o back)[k] = back[k - (i - 1)] /\ k - (i - 1) \in 1 .. (Len(l) - i)
        BY <3>0, <1>4
      <3>2. back[k - (i - 1)] = l[i + (k - (i - 1))]
        BY <1>2, <3>1
      <3>3. i + (k - (i - 1)) = k + 1
        OBVIOUS
      <3> QED BY <2>2, <3>1, <3>2, <3>3
    <2> QED BY <2>1, <2>2
  <1> QED BY <1>3, <1>4, <1>5

\* Cancel and unfriend take away the row of somebody who has one.
LEMMA Removed ==
  ASSUME NEW l \in Seq(Entry), OneRowEach(l), NEW f, Standing(l, f) # "none"
  PROVE  Changes(l, RemoveAt(l, RemovingIndex(l, f)), f, "none")
  <1>1. PICK i \in DOMAIN l : l[i].uid = f
    BY NoRow
  <1>2. RemovingIndex(l, f) = i
    <2>1. {j \in DOMAIN l : l[j].uid = f} = {i} /\ {i} \subseteq Nat
      BY <1>1 DEF OneRowEach
    <2>2. Min({i}) = i
      BY <2>1, MinInSet
    <2> QED BY <2>1, <2>2 DEF RemovingIndex
  <1> DEFINE m == RemoveAt(l, i)
  <1>3. /\ m \in Seq(Entry) /\ Len(m) = Len(l) - 1 /\ i \in 1 .. Len(l) /\ Len(l) \in Nat
        /\ \A k \in 1 .. Len(l) - 1 : m[k] = IF k < i THEN l[k] ELSE l[k + 1]
    <2>1. i \in 1 .. Len(l) /\ Len(l) \in Nat
      OBVIOUS
    <2> HIDE DEF m
    <2> QED BY <2>1, RemoveAtRows DEF m
  <1> HIDE DEF m
  <1>4. DOMAIN m = 1 .. Len(l) - 1 /\ DOMAIN l = 1 .. Len(l)
    BY <1>3
  <1> DEFINE old(k) == IF k < i THEN k ELSE k + 1
  <1>5. \A k \in DOMAIN m : old(k) \in DOMAIN l /\ old(k) # i /\ m[k] = l[old(k)]
    BY <1>3, <1>4
  <1>6. \A k, n \in DOMAIN m : old(k) = old(n) => k = n
    BY <1>3, <1>4
  <1>7. \A j \in DOMAIN l \ {i} : \E k \in DOMAIN m : j = old(k)
    <2>1. ASSUME NEW j \in DOMAIN l, j < i
          PROVE  j \in DOMAIN m /\ j = old(j)
      BY <2>1, <1>3, <1>4
    <2>2. ASSUME NEW j \in DOMAIN l, j > i
          PROVE  j - 1 \in DOMAIN m /\ j = old(j - 1)
      BY <2>2, <1>3, <1>4
    <2>3. \A j \in DOMAIN l \ {i} : j < i \/ j > i
      BY <1>3, <1>4
    <2> QED BY <2>1, <2>2, <2>3
  <1> HIDE DEF old
  <1>8. OneRowEach(m)
    BY <1>5, <1>6 DEF OneRowEach
  <1>9. \A k \in DOMAIN m : m[k].uid # f
    BY <1>1, <1>5 DEF OneRowEach
  <1>10. Standing(m, f) = "none"
    BY <1>3, <1>8, <1>9, NoRow
  <1>11. ASSUME NEW g, g # f PROVE Standing(m, g) = Standing(l, g)
    <2>1. \A j \in DOMAIN l : l[j].uid = g => \E k \in DOMAIN m : m[k] = l[j]
      <3>1. ASSUME NEW j \in DOMAIN l, l[j].uid = g
            PROVE  \E k \in DOMAIN m : m[k] = l[j]
        <4>1. j # i
          BY <1>1, <1>11, <3>1
        <4>2. PICK k \in DOMAIN m : j = old(k)
          BY <1>7, <4>1
        <4> QED BY <1>5, <4>2
      <3> QED BY <3>1
    <2>2. \A k \in DOMAIN m : \E j \in DOMAIN l : m[k] = l[j]
      BY <1>5
    <2> QED BY <1>3, <1>8, <2>1, <2>2, SameRows
  <1>12. Changes(l, m, f, "none")
    BY <1>3, <1>8, <1>10, <1>11 DEF Changes
  <1> QED BY <1>2, <1>12 DEF m

\* Accept, block and unblock rewrite the row of somebody who has one.
LEMMA Restated ==
  ASSUME NEW l \in Seq(Entry), OneRowEach(l), NEW f, NEW t \in Status,
         Standing(l, f) # "none"
  PROVE  Changes(l, [i \in DOMAIN l |-> IF l[i].uid = f THEN [l[i] EXCEPT !.status = t] ELSE l[i]],
                 f, t)
  <1>1. PICK i \in DOMAIN l : l[i].uid = f
    BY NoRow
  <1> DEFINE row(k) == IF l[k].uid = f THEN [l[k] EXCEPT !.status = t] ELSE l[k]
             m == [k \in DOMAIN l |-> row(k)]
  <1>2. ASSUME NEW k \in DOMAIN l
        PROVE  /\ row(k) \in Entry /\ row(k).uid = l[k].uid
               /\ l[k].uid = f => row(k).status = t
               /\ l[k].uid # f => row(k) = l[k]
    <2>1. l[k] \in Entry
      OBVIOUS
    <2> QED BY <2>1 DEF Entry
  <1> HIDE DEF row
  <1>3. DOMAIN m = DOMAIN l /\ DOMAIN l = 1 .. Len(l) /\ \A k \in DOMAIN l : m[k] = row(k)
    OBVIOUS
  <1>4. m \in Seq(Entry)
    BY <1>2
  <1> HIDE DEF m
  <1>5. OneRowEach(m)
    BY <1>2, <1>3 DEF OneRowEach
  <1>6. Standing(m, f) = t
    <2>1. Standing(m, m[i].uid) = m[i].status
      BY <1>3, <1>4, <1>5, RowSays
    <2> QED BY <1>1, <1>2, <1>3, <2>1
  <1>7. ASSUME NEW g, g # f PROVE Standing(m, g) = Standing(l, g)
    <2>1. \A k \in DOMAIN l : l[k].uid = g => m[k] = l[k] /\ k \in DOMAIN m
      BY <1>2, <1>3, <1>7
    <2>2. \A k \in DOMAIN m : m[k].uid = g => m[k] = l[k] /\ k \in DOMAIN l
      BY <1>2, <1>3, <1>7
    <2> QED BY <1>4, <1>5, <2>1, <2>2, SameRows
  <1>8. Changes(l, m, f, t)
    BY <1>4, <1>5, <1>6, <1>7 DEF Changes
  <1> QED BY <1>8 DEF m, row

-----------------------------------------------------------------------------
(* Buttons.                                                                *)

\* Somebody who sees the other one as t is offered the button act
Offers(t, act) ==
  \/ act = "SEND" /\ t = "none"
  \/ act = "ACCEPT" /\ t = "REQUESTED"
  \/ act = "CANCEL" /\ t \in {"REQUESTED", "REQUEST_SEND"}
  \/ act = "UNBLOCK" /\ t = "UNBLOCK"
  \/ act \in {"BLOCK", "UNFRIEND"} /\ t = "ACCPETED"

\* What the button makes of that, in his list or in the other's
Makes(act, mine) ==
  CASE act = "SEND" -> IF mine THEN "REQUEST_SEND" ELSE "REQUESTED"
    [] act \in {"ACCEPT", "UNBLOCK"} -> "ACCPETED"
    [] act = "BLOCK" -> IF mine THEN "UNBLOCK" ELSE "BLOCKED"
    [] OTHER -> "none"

\* The two halves of a button fit together.
LEMMA TwoHalves ==
  /\ \A t : OtherSide(OtherSide(t)) = t
  /\ \A act \in Acts : OtherSide(Makes(act, TRUE)) = Makes(act, FALSE)
  /\ \A t : OtherSide(t) = "none" <=> t = "none"
  /\ \A t, act : Offers(t, act) => (act = "SEND" <=> t = "none")
  <1>1. \A t : OtherSide(OtherSide(t)) = t /\ (OtherSide(t) = "none" <=> t = "none")
    BY DEF OtherSide
  <1>2. \A act \in Acts : OtherSide(Makes(act, TRUE)) = Makes(act, FALSE)
    BY DEF OtherSide, Makes, Acts, Actions
  <1>3. \A t, act : Offers(t, act) => (act = "SEND" <=> t = "none")
    BY DEF Offers
  <1> QED BY <1>1, <1>2, <1>3

\* A chain that finds its row makes of it what its button says, and nothing else.
LEMMA EditedChanges ==
  ASSUME TypeOK, StoreOK, NEW op \in Chain, OneRowEach(ListOf(Holder(op))),
         op.act = "SEND" <=> Standing(ListOf(Holder(op)), Subject(op)) = "none"
  PROVE  /\ ~Traps(op)
         /\ Changes(ListOf(Holder(op)), Edited(op), Subject(op), Makes(op.act, op.half = "mine"))
  <1>1. /\ Holder(op) \in Users /\ Subject(op) \in Users /\ op.act \in Acts
        /\ (op.half = "mine") \in BOOLEAN
    BY DEF Chain, Holder, Subject
  <1>2. PICK l, f, mine : /\ l = ListOf(Holder(op)) /\ f = Subject(op)
                          /\ mine = (op.half = "mine")
    OBVIOUS
  <1>3. l \in Seq(Entry) /\ OneRowEach(l) /\ f \in Users /\ mine \in BOOLEAN
    BY <1>1, <1>2, FetchedList
  <1>4. CASE op.act = "SEND"
    <2>1. Makes(op.act, mine) = IF mine THEN "REQUEST_SEND" ELSE "REQUESTED"
      BY <1>4 DEF Makes
    <2>2. Makes(op.act, mine) \in Status
      BY <2>1, <1>3 DEF Status
    <2>3. Edited(op) = Append(l, [uid |-> f, status |-> Makes(op.act, mine)])
      BY <1>2, <1>4, <2>1 DEF Edited
    <2>4. Changes(l, Edited(op), f, Makes(op.act, mine))
      BY <1>2, <1>3, <1>4, <2>2, <2>3, Appended
    <2>5. ~Traps(op)
      BY <1>4 DEF Traps
    <2> QED BY <1>2, <2>4, <2>5
  <1>5. CASE op.act \in {"CANCEL", "UNFRIEND"}
    <2>1. Makes(op.act, mine) = "none" /\ Standing(l, f) # "none"
      BY <1>2, <1>5 DEF Makes
    <2>2. Edited(op) = RemoveAt(l, RemovingIndex(l, f))
      BY <1>2, <1>5 DEF Edited, PerformAction
    <2>3. Changes(l, Edited(op), f, Makes(op.act, mine))
      BY <1>3, <2>1, <2>2, Removed
    <2>4. l # << >>
      BY <1>3, <2>1, NoRow
    <2> QED BY <1>2, <2>3, <2>4 DEF Traps
  <1>6. CASE op.act \in {"ACCEPT", "UNBLOCK", "BLOCK"}
    <2>1. Makes(op.act, mine) = NewStatus(op.act, mine) /\ Standing(l, f) # "none"
      BY <1>2, <1>6 DEF Makes, NewStatus
    <2>2. NewStatus(op.act, mine) \in Status
      BY DEF NewStatus, Status
    <2>3. Edited(op) = [i \in DOMAIN l |->
                          IF l[i].uid = f THEN [l[i] EXCEPT !.status = NewStatus(op.act, mine)]
                                          ELSE l[i]]
      BY <1>2, <1>6 DEF Edited, PerformAction
    <2>4. Changes(l, Edited(op), f, Makes(op.act, mine))
      BY <1>3, <2>1, <2>2, <2>3, Restated
    <2>5. ~Traps(op)
      BY <1>6 DEF Traps
    <2> QED BY <1>2, <2>4, <2>5
  <1> QED BY <1>1, <1>4, <1>5, <1>6 DEF Acts, Actions

-----------------------------------------------------------------------------
(* The invariant of serial use.                                            *)

\* At most one chain is in flight
Alone == \A s, t \in Slots : ops[s] # Idle /\ ops[t] # Idle => s = t

\* Everybody has at most one list, with one row per friend, and none of himself
ListsOK ==
  \A u \in Users : /\ \A d, e \in DOMAIN store[u] : d = e
                   /\ OneRowEach(ListOf(u)) /\ Standing(ListOf(u), u) = "none"

\* A chain was tapped on a row that says so; the list it holds is made of the
\* one that is there, which is still the same
ChainGood(op) ==
  /\ op.dev # op.peer
  /\ op.half = "mine" => Offers(Standing(ListOf(op.dev), op.peer), op.act)
  /\ op.half = "theirs" =>
       /\ Standing(ListOf(op.dev), op.peer) = Makes(op.act, TRUE)
       /\ Offers(OtherSide(Standing(ListOf(op.peer), op.dev)), op.act)
  /\ op.phase \in {"check", "add"} => op.list = Edited(op)
  /\ op.phase = "check" => op.doc = IF HasList(Holder(op)) THEN FirstDoc(Holder(op)) ELSE NoDoc
  /\ op.phase = "add" => ~HasList(Holder(op))

ChainsGood == \A s \in Slots : ops[s] # Idle => ChainGood(ops[s])

\* Outside the pair that a chain is half done with, lists mirror each other
PairsOK ==
  \A u, f \in Users :
    HalfDone(u, f) \/ HalfDone(f, u)
      \/ Standing(ListOf(f), u) = OtherSide(Standing(ListOf(u), f))

SInv ==
  /\ Alone /\ ListsOK /\ ChainsGood /\ PairsOK
  /\ \A u \in Users : u \notin results[u]
  /\ trapped = {}

\* What a step of serial use does, besides keeping the invariant: the shared fact
\* changes as the abstract specification allows, and a row changes by its own chain
Faithful ==
  /\ SInv'
  /\ SeenTie' = SeenTie \/ Abstract!Next
  /\ \A u, f \in Users : StatusIn(u, f)' # StatusIn(u, f) =>
       \E s \in Slots : /\ ops[s] # Idle /\ {ops[s].dev, ops[s].peer} = {u, f}
                        /\ StatusIn(u, f)' = "none" => ops[s].act \in {"CANCEL", "UNFRIEND"}

LEMMA StatusIs == \A u, f : StatusIn(u, f) = Standing(ListOf(u), f)
  BY DEF StatusIn, Standing, Rows

\* Which pair is half done with
LEMMA HalfIs ==
  ASSUME Alone, NEW s \in Slots, ops[s] # Idle
  PROVE  \A u, f : HalfDone(u, f) <=>
           ops[s].half = "theirs" /\ ops[s].dev = u /\ ops[s].peer = f
  BY DEF Alone, HalfDone

LEMMA InitSInv == Init => SInv
  <1> SUFFICES ASSUME Init PROVE SInv
    OBVIOUS
  <1>1. \A u \in Users : DOMAIN store[u] = {} /\ ListOf(u) = << >>
    BY DEF Init, ListOf, HasList
  <1>2. \A u \in Users : OneRowEach(ListOf(u)) /\ \A f : Standing(ListOf(u), f) = "none"
    BY <1>1 DEF OneRowEach, Standing, Rows
  <1>3. OtherSide("none") = "none"
    BY DEF OtherSide
  <1> QED BY <1>1, <1>2, <1>3 DEF Init, SInv, Alone, ListsOK, ChainsGood, PairsOK

-----------------------------------------------------------------------------
(* Steps that write nothing.                                               *)

\* Lists that are not written say what they said.
LEMMA ListsRest ==
  ASSUME UNCHANGED store
  PROVE  /\ \A u : ListOf(u)' = ListOf(u) /\ (HasList(u)' <=> HasList(u)) /\ FirstDoc(u)' = FirstDoc(u)
         /\ \A u, f : StatusIn(u, f)' = StatusIn(u, f)
         /\ \A op : ChainGood(op) => ChainGood(op)'
  <1>1. \A u : ListOf(u)' = ListOf(u) /\ (HasList(u)' <=> HasList(u)) /\ FirstDoc(u)' = FirstDoc(u)
    BY DEF ListOf, HasList, FirstDoc
  <1>2. \A u, f : StatusIn(u, f)' = StatusIn(u, f)
    BY <1>1 DEF StatusIn
  <1>3. \A op : Edited(op)' = Edited(op)
    BY <1>1 DEF Edited
  <1>4. \A op : ChainGood(op) => ChainGood(op)'
    BY <1>1, <1>3 DEF ChainGood
  <1> QED BY <1>1, <1>2, <1>4

\* Nothing is written and no half is done: the shared fact rests.
LEMMA NothingWritten ==
  ASSUME SInv, UNCHANGED <<store, trapped>>, Alone', ChainsGood',
         \A u \in Users : u \notin results'[u],
         \A u, f : HalfDone(u, f)' <=> HalfDone(u, f)
  PROVE  Faithful
  <1>1. SeenTie' = SeenTie
    BY ListsRest DEF SeenTie
  <1>2. ListsOK' /\ PairsOK'
    BY ListsRest DEF SInv, ListsOK, PairsOK
  <1>3. SInv'
    BY <1>2 DEF SInv
  <1> QED BY <1>1, <1>3, ListsRest DEF Faithful

\* A chain alone takes a step: it is still alone.
LEMMA StillAlone ==
  ASSUME TypeOK, Alone, NEW s \in Slots, NEW op, ops' = [ops EXCEPT ![s] = op],
         \A t \in Slots : t # s => ops[t] = Idle
  PROVE  Alone' /\ ops'[s] = op /\ \A t \in Slots : t # s => ops'[t] = Idle
  BY DEF TypeOK, Alone

\* A chain in flight has read a list, or found that there is still none.
LEMMA ChainReads ==
  ASSUME TypeOK, SInv, NEW s \in Slots, ops[s] # Idle, NEW op, op # Idle,
         ops' = [ops EXCEPT ![s] = op], UNCHANGED <<store, results, trapped>>,
         op.dev = ops[s].dev, op.peer = ops[s].peer, op.act = ops[s].act, op.half = ops[s].half,
         op.list = Edited(ops[s]),
         \/ /\ op.phase = "check"
            /\ op.doc = IF HasList(Holder(ops[s])) THEN FirstDoc(Holder(ops[s])) ELSE NoDoc
         \/ op.phase = "add" /\ ~HasList(Holder(ops[s]))
  PROVE  Faithful
  <1>1. /\ Alone' /\ ops'[s] = op /\ \A t \in Slots : t # s => ops'[t] = Idle
        /\ Alone /\ \A t \in Slots : t # s => ops[t] = Idle
    BY StillAlone DEF SInv, Alone
  <1>2. Holder(op) = Holder(ops[s]) /\ Subject(op) = Subject(ops[s])
    BY DEF Holder, Subject
  <1>3. Edited(op) = Edited(ops[s])
    BY <1>2 DEF Edited
  <1>4. ChainGood(ops[s])
    BY DEF SInv, ChainsGood
  <1>5. ChainGood(op)
    BY <1>2, <1>3, <1>4 DEF ChainGood
  <1>6. ChainsGood'
    <2>1. ChainGood(op)'
      BY <1>5, ListsRest
    <2> QED BY <1>1, <2>1 DEF ChainsGood
  <1>7. \A u, f : HalfDone(u, f)' <=> HalfDone(u, f)
    <2>1. \A u, f : HalfDone(u, f)' <=> op.half = "theirs" /\ op.dev = u /\ op.peer = f
      BY <1>1 DEF HalfDone
    <2> QED BY <1>1, <2>1, HalfIs
  <1> QED BY <1>1, <1>6, <1>7, NothingWritten DEF SInv

\* The row that a chain was tapped for, and what it will be
LEMMA ChainFinds ==
  ASSUME IInv, SInv, NEW s \in Slots, ops[s] # Idle
  PROVE  /\ ops[s] \in Chain /\ ChainGood(ops[s])
         /\ Holder(ops[s]) \in Users /\ Subject(ops[s]) \in Users
         /\ Holder(ops[s]) # Subject(ops[s])
         /\ ~Traps(ops[s])
         /\ ops[s].act # "SEND" => HasList(Holder(ops[s]))
         /\ Changes(ListOf(Holder(ops[s])), Edited(ops[s]), Subject(ops[s]),
                    Makes(ops[s].act, ops[s].half = "mine"))
  <1>1. PICK op : op = ops[s]
    OBVIOUS
  <1>2. op \in Chain /\ ChainGood(op)
    BY <1>1 DEF IInv, TypeOK, SInv, ChainsGood
  <1>3. Holder(op) \in Users /\ Subject(op) \in Users /\ op.half \in {"mine", "theirs"}
        /\ Holder(op) # Subject(op)
    BY <1>2 DEF Chain, Holder, Subject, ChainGood
  <1>4. op.act = "SEND" <=> Standing(ListOf(Holder(op)), Subject(op)) = "none"
    BY <1>2, <1>3, TwoHalves DEF ChainGood, Holder, Subject
  <1>5. /\ ~Traps(op)
        /\ Changes(ListOf(Holder(op)), Edited(op), Subject(op), Makes(op.act, op.half = "mine"))
    BY <1>2, <1>3, <1>4, EditedChanges DEF IInv, SInv, ListsOK
  <1>6. op.act # "SEND" => HasList(Holder(op))
    BY <1>4 DEF ListOf, Standing, Rows
  <1> QED BY <1>1, <1>2, <1>3, <1>5, <1>6

\* The steps of a chain that read, without errors.
LEMMA ReadFaithful ==
  ASSUME IInv, SInv, NEW s \in Slots, Read(s) \/ ReadNothing(s) \/ CheckNone(s)
  PROVE  Faithful
  <1>1. ops[s] # Idle /\ UNCHANGED <<store, results, trapped>>
    BY DEF Read, ReadNothing, CheckNone
  <1>2. ops[s] \in Chain /\ ChainGood(ops[s]) /\ (ops[s].act # "SEND" => HasList(Holder(ops[s])))
    BY <1>1, ChainFinds
  <1>3. CASE Read(s)
    <2>1. PICK op : op = [ops[s] EXCEPT !.phase = "check", !.doc = FirstDoc(Holder(ops[s])),
                                        !.list = Edited(ops[s])]
      OBVIOUS
    <2>2. ops' = [ops EXCEPT ![s] = op] /\ HasList(Holder(ops[s]))
      BY <1>3, <2>1 DEF Read
    <2>3. /\ op.dev = ops[s].dev /\ op.peer = ops[s].peer /\ op.act = ops[s].act
          /\ op.half = ops[s].half /\ op.list = Edited(ops[s]) /\ op.phase = "check"
          /\ op.doc = FirstDoc(Holder(ops[s])) /\ op # Idle
      BY <1>2, <2>1 DEF Chain, Idle
    <2> QED BY <1>1, <2>2, <2>3, ChainReads DEF IInv
  <1>4. CASE ReadNothing(s)
    <2>1. PICK op : op = [ops[s] EXCEPT !.phase = "check", !.doc = NoDoc, !.list = Edited(ops[s])]
      OBVIOUS
    <2>2. ops' = [ops EXCEPT ![s] = op] /\ ~HasList(Holder(ops[s]))
      BY <1>2, <1>4, <2>1 DEF ReadNothing
    <2>3. /\ op.dev = ops[s].dev /\ op.peer = ops[s].peer /\ op.act = ops[s].act
          /\ op.half = ops[s].half /\ op.list = Edited(ops[s]) /\ op.phase = "check"
          /\ op.doc = NoDoc /\ op # Idle
      BY <1>2, <2>1 DEF Chain, Idle
    <2> QED BY <1>1, <2>2, <2>3, ChainReads DEF IInv
  <1>5. CASE CheckNone(s)
    <2>1. PICK op : op = [ops[s] EXCEPT !.phase = "add"]
      OBVIOUS
    <2>2. /\ ops' = [ops EXCEPT ![s] = op] /\ ~HasList(Holder(ops[s]))
          /\ ops[s].phase = "check"
      BY <1>5, <2>1 DEF CheckNone
    <2>3. /\ op.dev = ops[s].dev /\ op.peer = ops[s].peer /\ op.act = ops[s].act
          /\ op.half = ops[s].half /\ op.list = ops[s].list /\ op.phase = "add" /\ op # Idle
      BY <1>2, <2>1 DEF Chain, Idle
    <2>4. op.list = Edited(ops[s])
      BY <1>2, <2>2, <2>3 DEF ChainGood
    <2> QED BY <1>1, <2>2, <2>3, <2>4, ChainReads DEF IInv
  <1> QED BY <1>3, <1>4, <1>5

-----------------------------------------------------------------------------
(* Steps that write a list.                                                *)

\* A document is put where there is none but itself.
LEMMA Written ==
  ASSUME TypeOK, NEW h \in Users, NEW d \in DocIds, NEW l, DOMAIN store[h] \subseteq {d},
         store' = [store EXCEPT ![h] = PutDoc(@, d, l)]
  PROVE  /\ DOMAIN store'[h] = {d} /\ ListOf(h)' = l
         /\ \A u \in Users : u # h => store'[u] = store[u] /\ ListOf(u)' = ListOf(u)
  <1>1. store'[h] = PutDoc(store[h], d, l) /\ \A u \in Users : u # h => store'[u] = store[u]
    BY DEF TypeOK
  <1>2. DOMAIN store'[h] = {d} /\ store'[h][d] = l
    BY <1>1 DEF PutDoc
  <1>3. Min({d}) = d
    BY MinInSet, DocIdsAssumption
  <1>4. ListOf(h)' = l
    BY <1>2, <1>3 DEF ListOf, HasList, FirstDoc
  <1>5. \A u \in Users : u # h => ListOf(u)' = ListOf(u)
    BY <1>1 DEF ListOf, HasList, FirstDoc
  <1> QED BY <1>1, <1>2, <1>4, <1>5

\* A chain that writes puts the list it made where it read it, and is told so.
LEMMA ChainWrites ==
  ASSUME IInv, SInv, NEW s \in Slots, CheckExists(s) \/ Add(s), NEW h, h = Holder(ops[s])
  PROVE  /\ ops[s] # Idle /\ Completed(s, TRUE) /\ UNCHANGED trapped
         /\ ListOf(h)' = Edited(ops[s])
         /\ \A u \in Users : /\ u # h => ListOf(u)' = ListOf(u)
                             /\ \A d, e \in DOMAIN store'[u] : d = e
  <1>1. ops[s] # Idle /\ UNCHANGED trapped
    BY DEF CheckExists, Add
  <1>2. ops[s] \in Chain /\ ChainGood(ops[s]) /\ Holder(ops[s]) \in Users
    BY <1>1, ChainFinds
  <1>3. PICK l : l = Edited(ops[s])
    OBVIOUS
  <1>4. TypeOK /\ StoreOK /\ ListsOK /\ h \in Users
    BY <1>2, <1>3 DEF IInv, SInv
  <1>5. \E d \in DocIds : /\ DOMAIN store[h] \subseteq {d}
                          /\ store' = [store EXCEPT ![h] = PutDoc(@, d, l)]
    <2>1. CASE CheckExists(s)
      <3>1. HasList(h) /\ ops[s].phase = "check"
        BY <1>3, <2>1 DEF CheckExists
      <3>2. ops[s].doc = FirstDoc(h) /\ ops[s].list = l
        BY <1>2, <1>3, <3>1 DEF ChainGood
      <3>3. FirstDoc(h) \in DocIds /\ FirstDoc(h) \in DOMAIN store[h]
        <4>1. DOMAIN store[h] \subseteq Nat /\ DOMAIN store[h] \subseteq DocIds
          BY <1>4, DocIdsAssumption DEF TypeOK
        <4> QED BY <3>1, <4>1, MinInSet DEF HasList, FirstDoc
      <3>4. ops[s].doc # NoDoc
        BY <3>2, <3>3, DocIdsAssumption DEF NoDoc
      <3>5. store' = [store EXCEPT ![h] = PutDoc(@, FirstDoc(h), l)]
        BY <1>3, <2>1, <3>2, <3>4 DEF CheckExists
      <3>6. DOMAIN store[h] \subseteq {FirstDoc(h)}
        BY <1>4, <3>3 DEF ListsOK
      <3> QED BY <3>3, <3>5, <3>6
    <2>2. CASE Add(s)
      <3>1. ~HasList(h) /\ ops[s].list = l
        BY <1>2, <1>3, <2>2 DEF Add, ChainGood
      <3>2. DOMAIN store[h] = {}
        BY <3>1 DEF HasList
      <3>3. PICK d \in DocIds : store' = [store EXCEPT ![h] = PutDoc(@, d, l)]
        BY <1>3, <2>2, <3>1 DEF Add
      <3> QED BY <3>2, <3>3
    <2> QED BY <2>1, <2>2
  <1>6. PICK d \in DocIds : /\ DOMAIN store[h] \subseteq {d}
                            /\ store' = [store EXCEPT ![h] = PutDoc(@, d, l)]
    BY <1>5
  <1>7. /\ DOMAIN store'[h] = {d} /\ ListOf(h)' = l
        /\ \A u \in Users : u # h => store'[u] = store[u] /\ ListOf(u)' = ListOf(u)
    BY <1>4, <1>6, Written
  <1>8. \A u \in Users : \A c, e \in DOMAIN store'[u] : c = e
    BY <1>4, <1>7 DEF ListsOK
  <1>9. Completed(s, TRUE)
    <2>1. CASE Add(s)
      BY <2>1 DEF Add
    <2>2. CASE CheckExists(s)
      <3>1. HasList(h) /\ ops[s].doc = FirstDoc(h)
        BY <1>2, <1>3, <2>2 DEF CheckExists, ChainGood
      <3>2. FirstDoc(h) \in DocIds
        BY <1>4, <3>1, FetchedList
      <3>3. (ops[s].doc # NoDoc) = TRUE
        BY <3>1, <3>2, DocIdsAssumption DEF NoDoc
      <3> QED BY <2>2, <3>3 DEF CheckExists
    <2> QED BY <2>1, <2>2
  <1> QED BY <1>1, <1>3, <1>7, <1>8, <1>9

\* One standing is changed, the chain's own; every list keeps one row per user.
LEMMA OneStandingChanges ==
  ASSUME IInv, SInv, NEW s \in Slots, CheckExists(s) \/ Add(s),
         NEW h, h = Holder(ops[s]), NEW g, g = Subject(ops[s])
  PROVE  /\ StatusIn(h, g)' = Makes(ops[s].act, ops[s].half = "mine")
         /\ \A u, f \in Users : u # h \/ f # g => StatusIn(u, f)' = StatusIn(u, f)
         /\ ListsOK'
  <1>1. PICK l, t : l = Edited(ops[s]) /\ t = Makes(ops[s].act, ops[s].half = "mine")
    OBVIOUS
  <1>2. /\ ops[s] # Idle /\ ListOf(h)' = l
        /\ \A u \in Users : /\ u # h => ListOf(u)' = ListOf(u)
                            /\ \A d, e \in DOMAIN store'[u] : d = e
    BY <1>1, ChainWrites
  <1>3. h \in Users /\ g \in Users /\ h # g /\ Changes(ListOf(h), l, g, t)
    BY <1>1, <1>2, ChainFinds
  <1>4. OneRowEach(l) /\ Standing(l, g) = t /\ \A f : f # g => Standing(l, f) = Standing(ListOf(h), f)
    BY <1>3 DEF Changes
  <1>5. \A u, f : StatusIn(u, f)' = Standing(ListOf(u)', f)
    BY DEF StatusIn, Standing, Rows
  <1>6. StatusIn(h, g)' = t
    BY <1>2, <1>4, <1>5
  <1>7. ASSUME NEW u \in Users, NEW f \in Users, u # h \/ f # g
        PROVE  StatusIn(u, f)' = StatusIn(u, f)
    <2>1. StatusIn(u, f) = Standing(ListOf(u), f) /\ StatusIn(u, f)' = Standing(ListOf(u)', f)
      BY <1>5, StatusIs
    <2>2. CASE u = h
      BY <1>2, <1>4, <1>7, <2>1, <2>2
    <2>3. CASE u # h
      BY <1>2, <2>1, <2>3
    <2> QED BY <2>2, <2>3
  <1>8. ASSUME NEW u \in Users
        PROVE  OneRowEach(ListOf(u)') /\ Standing(ListOf(u)', u) = "none"
    <2>1. OneRowEach(ListOf(u)) /\ Standing(ListOf(u), u) = "none"
      BY DEF SInv, ListsOK
    <2>2. CASE u = h
      BY <1>2, <1>3, <1>4, <2>1, <2>2
    <2>3. CASE u # h
      BY <1>2, <2>1, <2>3
    <2> QED BY <2>2, <2>3
  <1>9. ListsOK'
    BY <1>2, <1>8 DEF ListsOK, OneRowEach, Standing, Rows
  <1> QED BY <1>1, <1>6, <1>7, <1>9

\* A standing changes by its own chain only, and goes by Cancel or Unfriend.
LEMMA ChangesByItsChain ==
  ASSUME IInv, SInv, NEW s \in Slots, CheckExists(s) \/ Add(s)
  PROVE  \A u, f \in Users : StatusIn(u, f)' # StatusIn(u, f) =>
           /\ ops[s] # Idle /\ {ops[s].dev, ops[s].peer} = {u, f}
           /\ StatusIn(u, f)' = "none" => ops[s].act \in {"CANCEL", "UNFRIEND"}
  <1>1. PICK h, g : h = Holder(ops[s]) /\ g = Subject(ops[s])
    OBVIOUS
  <1>2. ops[s] # Idle
    BY <1>1, ChainWrites
  <1>3. ops[s] \in Chain
    BY <1>2, ChainFinds
  <1>4. {ops[s].dev, ops[s].peer} = {h, g} /\ ops[s].act \in Acts
    BY <1>1, <1>3 DEF Holder, Subject, Chain
  <1>5. Makes(ops[s].act, ops[s].half = "mine") = "none" => ops[s].act \in {"CANCEL", "UNFRIEND"}
    BY <1>4 DEF Makes, Acts, Actions
  <1>6. ASSUME NEW u \in Users, NEW f \in Users, StatusIn(u, f)' # StatusIn(u, f)
        PROVE  u = h /\ f = g /\ Makes(ops[s].act, ops[s].half = "mine") = StatusIn(u, f)'
    BY <1>1, <1>6, OneStandingChanges
  <1> QED BY <1>2, <1>4, <1>5, <1>6

\* Changing one standing and its other side is what a button does.
LEMMA ButtonDoes ==
  ASSUME NEW u \in Users, NEW f \in Users, u # f, NEW act \in Acts,
         Offers(SeenTie[u][f], act), NEW t, t = Makes(act, TRUE),
         SeenTie' = [SeenTie EXCEPT ![u][f] = t, ![f][u] = OtherSide(t)]
  PROVE  Abstract!Next
  <1>1. Abstract!Mirror(t) = OtherSide(t)
    BY DEF Abstract!Mirror, OtherSide
  <1>2. Abstract!Set(u, f, t)
    BY <1>1 DEF Abstract!Set
  <1>3. CASE act = "SEND"
    <2>1. t = "REQUEST_SEND" /\ SeenTie[u][f] = "none"
      BY <1>3 DEF Makes, Offers
    <2> QED BY <1>2, <2>1 DEF Abstract!Next, Abstract!Ask
  <1>4. CASE act = "ACCEPT"
    <2>1. t = "ACCPETED" /\ SeenTie[u][f] = "REQUESTED"
      BY <1>4 DEF Makes, Offers
    <2> QED BY <1>2, <2>1 DEF Abstract!Next, Abstract!Accept
  <1>5. CASE act \in {"CANCEL", "UNFRIEND"}
    <2>1. t = "none" /\ SeenTie[u][f] \in {"REQUEST_SEND", "REQUESTED", "ACCPETED"}
      BY <1>5 DEF Makes, Offers
    <2> QED BY <1>2, <2>1 DEF Abstract!Next, Abstract!Drop
  <1>6. CASE act = "BLOCK"
    <2>1. t = "UNBLOCK" /\ SeenTie[u][f] = "ACCPETED"
      BY <1>6 DEF Makes, Offers
    <2> QED BY <1>2, <2>1 DEF Abstract!Next, Abstract!Block
  <1>7. CASE act = "UNBLOCK"
    <2>1. t = "ACCPETED" /\ SeenTie[u][f] = "UNBLOCK"
      BY <1>7 DEF Makes, Offers
    <2> QED BY <1>2, <2>1 DEF Abstract!Next, Abstract!Unblock
  <1> QED BY <1>3, <1>4, <1>5, <1>6, <1>7 DEF Acts, Actions

\* The first half changes the shared fact: from then on the other list, which
\* still says what it said, is not looked at.
LEMMA FirstHalf ==
  ASSUME IInv, SInv, NEW s \in Slots, CheckExists(s) \/ Add(s), ops[s].half = "mine"
  PROVE  Faithful
  <1>1. PICK u, f, act, t : /\ u = ops[s].dev /\ f = ops[s].peer /\ act = ops[s].act
                            /\ t = Makes(act, TRUE)
    OBVIOUS
  <1>2. u = Holder(ops[s]) /\ f = Subject(ops[s])
    BY <1>1 DEF Holder, Subject
  <1>3. ops[s] # Idle /\ Completed(s, TRUE) /\ UNCHANGED trapped
    BY <1>2, ChainWrites
  <1>4. /\ ops[s] \in Chain /\ ChainGood(ops[s]) /\ u \in Users /\ f \in Users /\ u # f
        /\ TypeOK /\ Alone
    BY <1>2, <1>3, ChainFinds DEF IInv, SInv
  <1>5. act \in Acts
    BY <1>1, <1>4 DEF Chain
  <1>6. StatusIn(u, f)' = t /\ ListsOK'
    BY <1>1, <1>2, OneStandingChanges
  <1>7. \A v, w \in Users : v # u \/ w # f => StatusIn(v, w)' = StatusIn(v, w)
    BY <1>2, OneStandingChanges
  <1>8. PICK op : /\ op = [ops[s] EXCEPT !.phase = "read", !.half = "theirs", !.doc = NoDoc,
                                         !.list = << >>, !.ok = TRUE]
                  /\ ops' = [ops EXCEPT ![s] = op] /\ UNCHANGED results
    BY <1>3 DEF Completed
  <1>9. /\ op.phase = "read" /\ op.half = "theirs" /\ op.dev = u /\ op.peer = f /\ op.act = act
        /\ op # Idle
    BY <1>1, <1>4, <1>8 DEF Chain, Idle
  <1>10. Alone' /\ ops'[s] = op /\ \A r \in Slots : r # s => ops'[r] = Idle
    BY <1>3, <1>4, <1>8, StillAlone DEF Alone
  <1>11. \A v, w : ~HalfDone(v, w)
    BY <1>3, <1>4, HalfIs
  <1>12. \A v, w : HalfDone(v, w)' <=> v = u /\ w = f
    BY <1>9, <1>10 DEF HalfDone
  <1>13. \A v, w \in Users : StatusIn(w, v) = OtherSide(StatusIn(v, w))
    BY <1>11, StatusIs DEF SInv, PairsOK
  <1>14. Offers(StatusIn(u, f), act)
    BY <1>1, <1>4, StatusIs DEF ChainGood
  <1>15. SeenTie = [v \in Users |-> [w \in Users |-> StatusIn(v, w)]]
    BY <1>11 DEF SeenTie
  <1>16. SeenTie' = [v \in Users |-> [w \in Users |->
                       IF v = f /\ w = u THEN OtherSide(t)
                       ELSE IF v = u /\ w = f THEN t ELSE StatusIn(v, w)]]
    <2>1. SeenTie' = [v \in Users |-> [w \in Users |->
                        IF HalfDone(w, v)' THEN OtherSide(StatusIn(w, v)') ELSE StatusIn(v, w)']]
      BY DEF SeenTie, OtherSide
    <2>2. ASSUME NEW v \in Users, NEW w \in Users
          PROVE  (IF HalfDone(w, v)' THEN OtherSide(StatusIn(w, v)') ELSE StatusIn(v, w)')
                   = IF v = f /\ w = u THEN OtherSide(t)
                     ELSE IF v = u /\ w = f THEN t ELSE StatusIn(v, w)
      <3>1. CASE v = f /\ w = u
        BY <1>6, <1>12, <3>1
      <3>2. CASE ~(v = f /\ w = u)
        <4>1. ~HalfDone(w, v)'
          BY <1>12, <3>2
        <4> QED BY <1>6, <1>7, <3>2, <4>1
      <3> QED BY <3>1, <3>2
    <2> QED BY <2>1, <2>2, Zenon
  <1>17. SeenTie' = [SeenTie EXCEPT ![u][f] = t, ![f][u] = OtherSide(t)]
    BY <1>4, <1>15, <1>16
  <1>18. SeenTie[u][f] = StatusIn(u, f)
    BY <1>4, <1>15
  <1>19. Abstract!Next
    BY <1>1, <1>4, <1>5, <1>14, <1>17, <1>18, ButtonDoes
  <1>20. \A v, w : StatusIn(v, w)' = Standing(ListOf(v)', w)
    BY DEF StatusIn, Standing, Rows
  <1>21. ChainGood(op)'
    <2>1. Standing(ListOf(u)', f) = Makes(act, TRUE)
      BY <1>1, <1>6, <1>20
    <2>2. Offers(OtherSide(Standing(ListOf(f)', u)), act)
      <3>1. Standing(ListOf(f)', u) = OtherSide(StatusIn(u, f))
        BY <1>4, <1>7, <1>13, <1>20
      <3> QED BY <3>1, <1>14, TwoHalves
    <2> QED BY <1>4, <1>9, <2>1, <2>2 DEF ChainGood, Offers, Makes, OtherSide, Standing, Rows
  <1>22. ChainsGood'
    BY <1>10, <1>21 DEF ChainsGood
  <1>23. PairsOK'
    <2>1. ASSUME NEW v \in Users, NEW w \in Users, ~HalfDone(v, w)', ~HalfDone(w, v)'
          PROVE  StatusIn(w, v)' = OtherSide(StatusIn(v, w)')
      BY <1>7, <1>12, <1>13, <2>1
    <2> QED BY <1>20, <2>1 DEF PairsOK, OtherSide
  <1>24. SInv'
    BY <1>3, <1>6, <1>8, <1>10, <1>22, <1>23 DEF SInv
  <1> QED BY <1>19, <1>24, ChangesByItsChain DEF Faithful

\* The second half brings the other list up to date with the shared fact.
LEMMA SecondHalf ==
  ASSUME IInv, SInv, NEW s \in Slots, CheckExists(s) \/ Add(s), ops[s].half = "theirs"
  PROVE  Faithful
  <1>1. PICK u, f, act, t : /\ u = ops[s].dev /\ f = ops[s].peer /\ act = ops[s].act
                            /\ t = Makes(act, FALSE)
    OBVIOUS
  <1>2. f = Holder(ops[s]) /\ u = Subject(ops[s]) /\ (ops[s].half = "mine") = FALSE
    BY <1>1 DEF Holder, Subject
  <1>3. ops[s] # Idle /\ Completed(s, TRUE) /\ UNCHANGED trapped
    BY <1>2, ChainWrites
  <1>4. /\ ops[s] \in Chain /\ ChainGood(ops[s]) /\ u \in Users /\ f \in Users /\ u # f
        /\ TypeOK /\ Alone
    BY <1>2, <1>3, ChainFinds DEF IInv, SInv
  <1>5. act \in Acts
    BY <1>1, <1>4 DEF Chain
  <1>6. StatusIn(f, u)' = t /\ ListsOK'
    BY <1>1, <1>2, OneStandingChanges
  <1>7. \A v, w \in Users : v # f \/ w # u => StatusIn(v, w)' = StatusIn(v, w)
    BY <1>2, OneStandingChanges
  <1>8. /\ ops' = [ops EXCEPT ![s] = Idle]
        /\ \A v \in Users : results'[v] \subseteq results[v]
    BY <1>2, <1>3, <1>4 DEF Completed, TypeOK
  <1>9. Alone' /\ \A r \in Slots : ops'[r] = Idle
    BY <1>3, <1>4, <1>8, StillAlone DEF Alone
  <1>10. \A v, w : HalfDone(v, w) <=> v = u /\ w = f
    BY <1>1, <1>3, <1>4, HalfIs
  <1>11. \A v, w : ~HalfDone(v, w)'
    BY <1>9 DEF HalfDone
  <1>12. \A v, w \in Users : {v, w} # {u, f} => StatusIn(w, v) = OtherSide(StatusIn(v, w))
    BY <1>10, StatusIs DEF SInv, PairsOK
  <1>13. t = OtherSide(StatusIn(u, f)) /\ StatusIn(u, f) = OtherSide(t)
    <2>1. StatusIn(u, f) = Makes(act, TRUE)
      BY <1>1, <1>4, StatusIs DEF ChainGood
    <2> QED BY <1>1, <1>5, <2>1, TwoHalves
  <1>14. SeenTie' = SeenTie
    <2>1. SeenTie' = [v \in Users |-> [w \in Users |-> StatusIn(v, w)']]
      BY <1>11 DEF SeenTie
    <2>2. ASSUME NEW v \in Users, NEW w \in Users
          PROVE  StatusIn(v, w)'
                   = IF HalfDone(w, v) THEN OtherSide(StatusIn(w, v)) ELSE StatusIn(v, w)
      <3>1. CASE v = f /\ w = u
        BY <1>6, <1>10, <1>13, <3>1
      <3>2. CASE ~(v = f /\ w = u)
        BY <1>7, <1>10, <3>2
      <3> QED BY <3>1, <3>2
    <2> QED BY <2>1, <2>2, Zenon DEF SeenTie
  <1>15. PairsOK'
    <2>1. ASSUME NEW v \in Users, NEW w \in Users
          PROVE  StatusIn(w, v)' = OtherSide(StatusIn(v, w)')
      <3>1. CASE v = u /\ w = f
        BY <1>4, <1>6, <1>7, <1>13, <3>1
      <3>2. CASE v = f /\ w = u
        BY <1>4, <1>6, <1>7, <1>13, <3>2
      <3>3. CASE {v, w} # {u, f}
        BY <1>7, <1>12, <3>3
      <3> QED BY <3>1, <3>2, <3>3
    <2>2. \A v, w : StatusIn(v, w)' = Standing(ListOf(v)', w)
      BY DEF StatusIn, Standing, Rows
    <2> QED BY <2>1, <2>2 DEF PairsOK, OtherSide
  <1>16. SInv'
    BY <1>3, <1>6, <1>8, <1>9, <1>15 DEF SInv, ChainsGood
  <1> QED BY <1>14, <1>16, ChangesByItsChain DEF Faithful

\* Steps of a chain, when no query fails.
LEMMA ChainFaithful ==
  ASSUME MaxErrors = 0, IInv, SInv, NEW s \in Slots, ChainStep(s)
  PROVE  Faithful
  <1>1. ~ReadError(s) /\ ~CheckError(s)
    BY DEF IInv, TypeOK, ReadError, CheckError
  <1>2. ~ReadTraps(s)
    BY ChainFinds DEF ReadTraps
  <1>3. CASE CheckExists(s) \/ Add(s)
    <2>1. ops[s] # Idle
      BY <1>3 DEF CheckExists, Add
    <2>2. ops[s].half \in {"mine", "theirs"}
      BY <2>1, ChainFinds DEF Chain
    <2> QED BY <1>3, <2>2, FirstHalf, SecondHalf
  <1> QED BY <1>1, <1>2, <1>3, ReadFaithful DEF ChainStep

-----------------------------------------------------------------------------
(* Taps and screens.                                                       *)

\* A button that fits what the list says starts a chain that finds its row.
LEMMA TapFaithful ==
  ASSUME IInv, SInv, Quiet, NEW s \in Slots, NEW u \in Users, NEW f \in Users, u # f,
         NEW act \in Acts, Offers(Standing(ListOf(u), f), act),
         ops' = [ops EXCEPT ![s] = NewChain(u, f, act)], UNCHANGED <<store, results, trapped>>
  PROVE  Faithful
  <1>1. PICK op : op = NewChain(u, f, act)
    OBVIOUS
  <1>2. /\ op.phase = "read" /\ op.half = "mine" /\ op.dev = u /\ op.peer = f /\ op.act = act
        /\ op # Idle
    BY <1>1 DEF NewChain, Idle
  <1>3. TypeOK /\ Alone /\ \A t \in Slots : ops[t] = Idle
    BY DEF IInv, SInv, Quiet
  <1>4. Alone' /\ ops'[s] = op /\ \A t \in Slots : t # s => ops'[t] = Idle
    BY <1>1, <1>3, StillAlone
  <1>5. ChainGood(op)
    BY <1>2 DEF ChainGood
  <1>6. ChainsGood'
    <2>1. ChainGood(op)'
      BY <1>5, ListsRest
    <2> QED BY <1>4, <2>1 DEF ChainsGood
  <1>7. \A v, w : HalfDone(v, w)' <=> HalfDone(v, w)
    BY <1>2, <1>3, <1>4 DEF HalfDone
  <1> QED BY <1>4, <1>6, <1>7, NothingWritten DEF SInv

\* Fresh screens offer the buttons that fit the list.
LEMMA UserFaithful ==
  ASSUME IInv, SInv, Quiet, NEW u \in Users, Fresh(u), UserStep(u)
  PROVE  Faithful
  <1>1. ListOf(u) \in Seq(Entry) /\ OneRowEach(ListOf(u)) /\ Standing(ListOf(u), u) = "none"
    BY FetchedList DEF IInv, SInv, ListsOK
  <1>2. \A i \in DOMAIN ListOf(u) : ListOf(u)[i] \in ToSet(ListOf(u))
    BY DEF ToSet
  <1>3. ASSUME NEW s \in Slots, NEW f \in Users, TapAdd(u, f, s)
        PROVE  Faithful
    <2>1. f \in results[u] /\ f # u
      BY <1>3 DEF TapAdd, SInv
    <2>2. \A i \in DOMAIN ListOf(u) : ListOf(u)[i].uid # f
      BY <1>2, <2>1 DEF Fresh
    <2>3. Offers(Standing(ListOf(u), f), "SEND")
      BY <1>1, <2>2, NoRow DEF Offers
    <2> QED BY <1>3, <2>1, <2>3, TapFaithful DEF TapAdd, Acts
  <1>4. ASSUME NEW s \in Slots, NEW e \in Entry, NEW act \in Actions, TapAction(u, e, act, s)
        PROVE  Faithful
    <2>1. e \in ToSet(ListOf(u)) /\ e.status # "BLOCKED" /\ act \in Buttons(e.status)
      BY <1>4 DEF TapAction, Fresh
    <2>2. PICK i \in DOMAIN ListOf(u) : ListOf(u)[i] = e
      BY <2>1 DEF ToSet
    <2>3. Standing(ListOf(u), e.uid) = e.status /\ e.status # "none"
      BY <1>1, <2>2, RowSays
    <2>4. e.uid \in Users /\ e.status \in Status
      BY DEF Entry
    <2>5. e.uid # u
      BY <1>1, <2>3
    <2>6. Offers(e.status, act)
      BY <2>1, <2>4 DEF Buttons, Offers, Status
    <2> QED BY <1>4, <2>3, <2>4, <2>5, <2>6, TapFaithful DEF TapAction, Acts
  <1> QED BY <1>3, <1>4 DEF UserStep

\* Screens write nothing.
LEMMA ScreenFaithful ==
  ASSUME MaxErrors = 0, IInv, SInv,
         (\E u \in Users : ScreenStep(u)) \/ UNCHANGED vars
  PROVE  Faithful
  <1>1. \A u \in Users : ~RefreshError(u)
    BY DEF IInv, TypeOK, RefreshError
  <1>2. UNCHANGED <<store, ops, trapped>>
    BY <1>1 DEF ScreenStep, Search, Refresh, vars
  <1>3. \A v \in Users : v \notin results'[v]
    BY <1>1 DEF ScreenStep, Search, Refresh, vars, SInv, IInv, TypeOK
  <1>4. Alone' /\ ChainsGood' /\ \A v, w : HalfDone(v, w)' <=> HalfDone(v, w)
    <2>1. Alone' /\ \A v, w : HalfDone(v, w)' <=> HalfDone(v, w)
      BY <1>2 DEF SInv, Alone, HalfDone
    <2>2. \A op : ChainGood(op) => ChainGood(op)'
      BY <1>2, ListsRest
    <2>3. ASSUME NEW s \in Slots, ops'[s] # Idle
          PROVE  ChainGood(ops[s])'
      <3>1. PICK op : op = ops[s] /\ op = ops'[s]
        BY <1>2
      <3>2. ChainGood(op)'
        BY <2>2, <2>3, <3>1 DEF SInv, ChainsGood
      <3> QED BY <3>1, <3>2 DEF ChainGood, Edited
    <2> QED BY <2>1, <2>3 DEF ChainsGood
  <1> QED BY <1>2, <1>3, <1>4, NothingWritten

-----------------------------------------------------------------------------
(* The theorems.                                                           *)

LEMMA StepFaithful == MaxErrors = 0 /\ IInv /\ SInv /\ [SerialNext]_vars => Faithful
  <1> SUFFICES ASSUME MaxErrors = 0, IInv, SInv, [SerialNext]_vars PROVE Faithful
    OBVIOUS
  <1>1. \/ \E s \in Slots : ChainStep(s)
        \/ \E u \in Users : Quiet /\ Fresh(u) /\ UserStep(u)
        \/ (\E u \in Users : ScreenStep(u)) \/ UNCHANGED vars
    BY DEF SerialNext
  <1> QED BY <1>1, ChainFaithful, UserFaithful, ScreenFaithful

(* In serial use, from a step to the next, everything that StepFaithful    *)
(* says is so.                                                             *)
LEMMA Serial ==
  ASSUME MaxErrors = 0 PROVE SerialSpec => [](IInv /\ SInv) /\ [][Faithful]_vars
  <1>1. Init => IInv /\ SInv
    BY InitIInv, InitSInv
  <1>2. IInv /\ SInv /\ [SerialNext]_vars => (IInv /\ SInv)' /\ Faithful
    <2>1. [SerialNext]_vars => [Next]_vars
      BY DEF SerialNext, Next, UserStep
    <2>2. Faithful => SInv'
      BY DEF Faithful
    <2> QED BY <2>1, <2>2, StepIInv, StepFaithful
  <1>3. (IInv /\ SInv)' <=> IInv' /\ SInv'
    OBVIOUS
  <1> QED BY <1>1, <1>2, <1>3, PTL DEF SerialSpec

(* When no query fails and users tap only what their lists say, the chains *)
(* over two separate documents change, for both users at once, one shared  *)
(* fact: however many users, documents and taps there are.                 *)
THEOREM SharedFact == ASSUME MaxErrors = 0 PROVE SerialSpec => ImplementsFriendship
  <1>1. Init => Abstract!Init
    <2>1. ASSUME Init PROVE SeenTie = [u \in Users |-> [f \in Users |-> "none"]]
      <3>1. \A u, f : ~HalfDone(u, f)
        BY <2>1 DEF Init, HalfDone
      <3>2. \A u \in Users : ListOf(u) = << >>
        BY <2>1 DEF Init, ListOf, HasList
      <3>3. \A u \in Users : \A f : StatusIn(u, f) = "none"
        BY <3>2 DEF StatusIn
      <3> QED BY <3>1, <3>3 DEF SeenTie
    <2> QED BY <2>1 DEF Abstract!Init
  <1>2. [Faithful]_vars => [Abstract!Next]_SeenTie
    <2>1. UNCHANGED vars => SeenTie' = SeenTie
      BY DEF vars, SeenTie, HalfDone, StatusIn, ListOf, HasList, FirstDoc
    <2> QED BY <2>1 DEF Faithful
  <1> QED BY <1>1, <1>2, Serial, PTL DEF ImplementsFriendship, Abstract!Spec, SerialSpec

(* And when no chain is in flight, the two lists of a pair agree.          *)
THEOREM MirrorHolds == ASSUME MaxErrors = 0 PROVE SerialSpec => []Mirrored
  <1>1. SInv => Mirrored
    <2> SUFFICES ASSUME SInv, Quiet, NEW u \in Users, NEW f \in Users
                 PROVE  StatusIn(f, u) = Abstract!Mirror(StatusIn(u, f))
      BY DEF Mirrored
    <2>1. ~HalfDone(u, f) /\ ~HalfDone(f, u)
      BY DEF Quiet, HalfDone
    <2>2. StatusIn(f, u) = OtherSide(StatusIn(u, f))
      BY <2>1, StatusIs DEF SInv, PairsOK
    <2> QED BY <2>2 DEF Abstract!Mirror, OtherSide
  <1> QED BY <1>1, Serial, PTL

(* Cancel and Unfriend remove the row they are about, never the first one, *)
(* and no app meets an empty list.                                         *)
THEOREM RemovalHolds == ASSUME MaxErrors = 0 PROVE SerialSpec => RemovesOnlyItsRow
  <1>1. Faithful =>
          NeverTraps' /\ \A u, f \in Users :
            (StatusIn(u, f) # "none" /\ StatusIn(u, f)' = "none") =>
              \E s \in Slots : /\ ops[s] # Idle
                               /\ ops[s].act \in {"CANCEL", "UNFRIEND"}
                               /\ {ops[s].dev, ops[s].peer} = {u, f}
    BY DEF Faithful, SInv, NeverTraps
  <1> QED BY <1>1, Serial, PTL DEF RemovesOnlyItsRow

(* In serial use without failed queries a block is undone only by a chain  *)
(* of the two it is between: neither a third user's request nor the        *)
(* blocker's own about somebody else undoes it, as both can when chains    *)
(* overlap.                                                                *)
THEOREM SerialUseKeepsBlocks ==
  ASSUME MaxErrors = 0
  PROVE  SerialSpec => OtherPairsLeaveBlockAlone /\ OthersLeaveBlockAlone
  <1>1. Faithful =>
          \A u, f \in Users :
            (StatusIn(u, f) = "UNBLOCK" /\ StatusIn(u, f)' # "UNBLOCK") =>
              \E s \in Slots : ops[s] # Idle /\ {ops[s].dev, ops[s].peer} = {u, f}
    BY DEF Faithful
  <1>2. SerialSpec => OtherPairsLeaveBlockAlone
    BY <1>1, Serial, PTL DEF OtherPairsLeaveBlockAlone
  <1>3. Faithful =>
          \A u, f \in Users :
            (StatusIn(u, f) = "UNBLOCK" /\ StatusIn(u, f)' # "UNBLOCK") =>
              \E s \in Slots : /\ ops[s] # Idle
                               /\ ops[s].dev = u \/ {ops[s].dev, ops[s].peer} = {u, f}
    BY <1>1
  <1>4. SerialSpec => OthersLeaveBlockAlone
    BY <1>3, Serial, PTL DEF OthersLeaveBlockAlone
  <1> QED BY <1>2, <1>4

(* So in serial use the lists themselves never say different things of the *)
(* two users of a pair, chains half done taken for what they will write.   *)
THEOREM ListsAgree ==
  ASSUME MaxErrors = 0 PROVE SerialSpec => [](Abstract!TypeOK /\ Abstract!Agree)
  BY SharedFact, TiesAgree, PTL DEF ImplementsFriendship

-----------------------------------------------------------------------------
(* The friends tab.  It writes no list, and what it keeps are copies of    *)
(* the list of its user.                                                   *)

Fetch == [stage : {"list", "profiles"}, rows : SUBSET Entry]

RowsOK(rows) == rows \subseteq Entry /\ \A e \in rows : EntryOK(Me, e)

DocsOK(docs) ==
  /\ DOMAIN docs \subseteq DocIds
  /\ \A d \in DOMAIN docs :
       docs[d] \in Seq(Entry) /\ \A i \in 1..Len(docs[d]) : EntryOK(Me, docs[d][i])

ToldOK == told = << >> \/ \E docs : told = <<docs>> /\ DocsOK(docs)

FetchesOK ==
  /\ fetches \in Seq(Fetch)
  /\ \A i \in 1..Len(fetches) : RowsOK(fetches[i].rows)
  /\ \A i \in 1..Len(fetches) : fetches[i].stage = "profiles" => fetches[i].rows # {}

\* The answers to the first query come in order
ListsFirst ==
  \A i, j \in 1..Len(fetches) :
    i < j /\ fetches[j].stage = "profiles" => fetches[i].stage = "profiles"

TabOK ==
  /\ ToldOK /\ FetchesOK /\ ListsFirst /\ RowsOK(searchBuffer)
  /\ ~listening => told = << >>

LEMMA RowsInOK ==
  ASSUME NEW docs, DocsOK(docs)
  PROVE  RowsOK(RowsIn(docs))
<1>1. CASE DOMAIN docs = {}
  BY <1>1 DEF RowsIn, RowsOK
<1>2. CASE DOMAIN docs # {}
  <2>1. DOMAIN docs \subseteq Nat
    BY DocIdsAssumption DEF DocsOK
  <2>2. Min(DOMAIN docs) \in DOMAIN docs
    BY <1>2, <2>1, MinInSet
  <2> DEFINE l == docs[Min(DOMAIN docs)]
  <2>3. l \in Seq(Entry) /\ \A i \in 1..Len(l) : EntryOK(Me, l[i])
    BY <2>2 DEF DocsOK
  <2>4. RowsIn(docs) \subseteq ToSet(l)
    BY <1>2 DEF RowsIn
  <2> HIDE DEF l
  <2>5. RowsOK(ToSet(l))
    BY <2>3 DEF RowsOK, ToSet
  <2> QED
    BY <2>4, <2>5 DEF RowsOK
<1> QED
  BY <1>1, <1>2

LEMMA MyDocsOK ==
  ASSUME IInv PROVE DocsOK(store[Me])
  BY TabBounds DEF IInv, TypeOK, StoreOK, DocsOK

(* What was copied of the list stays accounted for.                        *)
LEMMA CopiesStayOK ==
  ASSUME HistoryGrows
  PROVE  /\ \A rows : RowsOK(rows) => RowsOK(rows)'
         /\ \A docs : DocsOK(docs) => DocsOK(docs)'
<1>1. \A e : EntryOK(Me, e) => EntryOK(Me, e)'
  BY StaysOK
<1> QED
  BY <1>1 DEF RowsOK, DocsOK

LEMMA HistoryOnlyGrows == [Next]_vars => HistoryGrows
<1> SUFFICES ASSUME [Next]_vars PROVE HistoryGrows
  OBVIOUS
<1>1. CASE UNCHANGED history
  BY <1>1 DEF history, HistoryGrows
<1>2. ASSUME NEW u \in Users, NEW f \in Users, NEW s \in Slots, TapAdd(u, f, s)
      PROVE  HistoryGrows
  BY <1>2 DEF TapAdd, HistoryGrows
<1>3. ASSUME NEW u \in Users, NEW e \in Entry, NEW act \in Actions, NEW s \in Slots,
             TapAction(u, e, act, s)
      PROVE  HistoryGrows
  BY <1>3 DEF TapAction, HistoryGrows
<1>4. CASE \E s \in Slots : ChainStep(s)
  BY <1>1, <1>4
     DEF ChainStep, Read, ReadNothing, ReadTraps, ReadError, CheckExists, CheckNone,
         CheckError, Add
<1>5. CASE \E u \in Users : ScreenStep(u) \/ Kill(u)
  BY <1>1, <1>5 DEF ScreenStep, Search, Refresh, RefreshError, Kill
<1>6. CASE UNCHANGED vars
  BY <1>1, <1>6 DEF vars
<1> QED
  BY <1>2, <1>3, <1>4, <1>5, <1>6 DEF Next, UserStep

(* New rows on my screen, or an alert: the lists are not touched.          *)
LEMMA ShowsOK ==
  ASSUME IInv, NEW rows, RowsOK(rows), shown' = [shown EXCEPT ![Me] = rows],
         UNCHANGED lists, errs' \in 0..MaxErrors
  PROVE  IInv' /\ HistoryGrows
<1>1. HistoryGrows
  BY DEF lists, history, HistoryGrows
<1>2. ops' \in [Slots -> Chain \cup {Idle}] /\ ChainsOK'
  BY <1>1, OpsUnchanged DEF IInv, lists
<1>3. shown' \in [Users -> SUBSET Entry]
  BY DEF IInv, TypeOK, RowsOK
<1>4. TypeOK'
  BY <1>2, <1>3 DEF IInv, TypeOK, lists, history
<1>5. ShownOK'
  <2>1. \A v \in Users : \A e \in shown'[v] : EntryOK(v, e)
    BY DEF IInv, TypeOK, ShownOK, RowsOK
  <2>2. \A v, e : EntryOK(v, e) => EntryOK(v, e)'
    BY <1>1, StaysOK
  <2> QED
    BY <2>1, <2>2 DEF ShownOK
<1>6. ResultsOK'
  BY DEF IInv, ResultsOK, lists
<1> QED
  BY <1>1, <1>2, <1>4, <1>5, <1>6, Untouched DEF IInv, lists, history

(* What each kind of step does to the fetches in flight.                   *)
LEMMA FetchAppended ==
  ASSUME FetchesOK, ListsFirst, HistoryGrows, fetches' = Append(fetches, NewFetch)
  PROVE  /\ FetchesOK' /\ ListsFirst'
         /\ fetches' # << >> /\ fetches'[Len(fetches')].stage = "list"
<1>1. NewFetch \in Fetch /\ RowsOK(NewFetch.rows) /\ NewFetch.stage = "list"
  BY DEF NewFetch, Fetch, RowsOK
<1> HIDE DEF NewFetch
<1>2. /\ fetches \in Seq(Fetch) /\ fetches' \in Seq(Fetch) /\ fetches' # << >>
      /\ Len(fetches) \in Nat /\ Len(fetches') = Len(fetches) + 1
      /\ \A i \in 1..Len(fetches') :
           fetches'[i] = IF i <= Len(fetches) THEN fetches[i] ELSE NewFetch
  BY <1>1 DEF FetchesOK
<1>3. \A i \in 1..Len(fetches') :
        /\ RowsOK(fetches'[i].rows)
        /\ fetches'[i].stage = "profiles" => i \in 1..Len(fetches) /\ fetches'[i].rows # {}
  BY <1>1, <1>2 DEF FetchesOK
<1>4. \A i \in 1..Len(fetches') : fetches'[i].rows \subseteq Entry
        /\ \A e \in fetches'[i].rows : EntryOK(Me, e)'
  BY <1>3, StaysOK DEF RowsOK
<1>5. FetchesOK'
  BY <1>2, <1>3, <1>4 DEF FetchesOK, RowsOK
<1>6. ListsFirst'
  <2> SUFFICES ASSUME NEW i \in 1..Len(fetches'), NEW j \in 1..Len(fetches'), i < j,
                      fetches'[j].stage = "profiles"
               PROVE  fetches'[i].stage = "profiles"
    BY DEF ListsFirst
  <2>1. j \in 1..Len(fetches) /\ i \in 1..Len(fetches)
    BY <1>2, <1>3
  <2> QED
    BY <1>2, <2>1 DEF ListsFirst
<1> QED
  BY <1>1, <1>2, <1>5, <1>6

LEMMA FetchRemoved ==
  ASSUME FetchesOK, ListsFirst, HistoryGrows, NEW i \in DOMAIN fetches,
         fetches' = RemoveAt(fetches, i)
  PROVE  /\ FetchesOK' /\ ListsFirst'
         /\ i # Len(fetches) =>
              fetches' # << >> /\ fetches'[Len(fetches')] = fetches[Len(fetches)]
         /\ i # 1 => fetches' # << >>
<1>1. fetches \in Seq(Fetch) /\ Len(fetches) \in Nat /\ i \in 1..Len(fetches)
  BY DEF FetchesOK
<1>2. /\ fetches' \in Seq(Fetch) /\ Len(fetches') = Len(fetches) - 1
      /\ \A k \in 1..Len(fetches) - 1 :
           fetches'[k] = IF k < i THEN fetches[k] ELSE fetches[k + 1]
  BY <1>1, RemoveAtRows
<1> DEFINE was(k) == IF k < i THEN k ELSE k + 1
<1>3. \A k \in 1..Len(fetches') : was(k) \in 1..Len(fetches) /\ fetches'[k] = fetches[was(k)]
  BY <1>1, <1>2
<1>4. \A j, k \in 1..Len(fetches') : j < k => was(j) < was(k)
  BY <1>1, <1>2
<1> HIDE DEF was
<1>5. \A k \in 1..Len(fetches') : RowsOK(fetches'[k].rows)
        /\ (fetches'[k].stage = "profiles" => fetches'[k].rows # {})
  BY <1>3 DEF FetchesOK
<1>6. \A k \in 1..Len(fetches') : fetches'[k].rows \subseteq Entry
        /\ \A e \in fetches'[k].rows : EntryOK(Me, e)'
  BY <1>5, StaysOK DEF RowsOK
<1>7. FetchesOK'
  BY <1>2, <1>5, <1>6 DEF FetchesOK, RowsOK
<1>8. ListsFirst'
  <2> SUFFICES ASSUME NEW j \in 1..Len(fetches'), NEW k \in 1..Len(fetches'), j < k,
                      fetches'[k].stage = "profiles"
               PROVE  fetches'[j].stage = "profiles"
    BY DEF ListsFirst
  <2>1. was(j) < was(k) /\ fetches[was(k)].stage = "profiles"
    BY <1>3, <1>4
  <2>2. fetches[was(j)].stage = "profiles"
    BY <1>3, <2>1 DEF ListsFirst
  <2> QED
    BY <1>3, <2>2
<1>9. ASSUME i # Len(fetches)
      PROVE  fetches' # << >> /\ fetches'[Len(fetches')] = fetches[Len(fetches)]
  BY <1>1, <1>2, <1>9
<1>10. ASSUME i # 1 PROVE fetches' # << >>
  BY <1>1, <1>2, <1>10
<1> QED
  BY <1>7, <1>8, <1>9, <1>10

LEMMA ProfilesAsked ==
  ASSUME FetchesOK, ListsFirst, HistoryGrows, NEW i \in DOMAIN fetches,
         fetches[i].stage = "list", InTurn(i), NEW rows, RowsOK(rows), rows # {},
         fetches' = [fetches EXCEPT ![i] = [stage |-> "profiles", rows |-> rows]]
  PROVE  /\ FetchesOK' /\ ListsFirst'
         /\ fetches' # << >> /\ Len(fetches') = Len(fetches)
         /\ i # Len(fetches) => fetches'[Len(fetches)] = fetches[Len(fetches)]
         /\ i = Len(fetches) => fetches'[Len(fetches)].rows = rows
<1> DEFINE asked1 == [stage |-> "profiles", rows |-> rows]
<1>1. asked1 \in Fetch /\ asked1.rows = rows /\ asked1.stage = "profiles"
  BY DEF Fetch, RowsOK
<1> HIDE DEF asked1
<1>2. /\ fetches \in Seq(Fetch) /\ Len(fetches) \in Nat /\ DOMAIN fetches = 1..Len(fetches)
      /\ fetches' = [fetches EXCEPT ![i] = asked1]
  BY DEF FetchesOK, asked1
<1>3. /\ fetches' \in Seq(Fetch) /\ Len(fetches') = Len(fetches)
      /\ \A k \in 1..Len(fetches) : fetches'[k] = IF k = i THEN asked1 ELSE fetches[k]
  BY <1>1, <1>2
<1>4. \A k \in 1..Len(fetches') : RowsOK(fetches'[k].rows)
        /\ (fetches'[k].stage = "profiles" => fetches'[k].rows # {})
  BY <1>1, <1>2, <1>3 DEF FetchesOK
<1>5. \A k \in 1..Len(fetches') : fetches'[k].rows \subseteq Entry
        /\ \A e \in fetches'[k].rows : EntryOK(Me, e)'
  BY <1>4, StaysOK DEF RowsOK
<1>6. FetchesOK'
  BY <1>3, <1>4, <1>5 DEF FetchesOK, RowsOK
<1>7. \A j \in 1..i - 1 : j \in 1..Len(fetches) /\ fetches[j].stage = "profiles"
  <2> SUFFICES ASSUME NEW j \in 1..i - 1
               PROVE  j \in 1..Len(fetches) /\ fetches[j].stage = "profiles"
    OBVIOUS
  <2>1. j \in 1..Len(fetches) /\ fetches[j] \in Fetch
    BY <1>2
  <2>2. fetches[j].stage # "list"
    BY DEF InTurn
  <2> QED
    BY <2>1, <2>2 DEF Fetch
<1>8. ListsFirst'
  <2> SUFFICES ASSUME NEW j \in 1..Len(fetches), NEW k \in 1..Len(fetches), j < k,
                      fetches'[k].stage = "profiles"
               PROVE  fetches'[j].stage = "profiles"
    BY <1>3 DEF ListsFirst
  <2>1. CASE j = i
    BY <1>1, <1>3, <2>1
  <2>2. CASE k = i
    <3>1. fetches[j].stage = "profiles"
      BY <1>2, <1>7, <2>2
    <3> QED
      BY <1>3, <2>2, <3>1
  <2>3. CASE j # i /\ k # i
    BY <1>3, <2>3 DEF ListsFirst
  <2> QED
    BY <2>1, <2>2, <2>3
<1> QED
  BY <1>1, <1>2, <1>3, <1>6, <1>8

(* The tab composed with the lists.                                        *)

TabInv == IInv /\ TabOK

LEMMA TabInitInv == TabInit => TabInv
<1> SUFFICES ASSUME TabInit PROVE TabInv
  OBVIOUS
<1>1. IInv
  BY InitIInv DEF TabInit
<1>2. << >> \in Seq(Fetch) /\ Len(<< >>) = 0
  OBVIOUS
<1>3. TabOK
  BY <1>2 DEF TabInit, TabOK, ToldOK, FetchesOK, ListsFirst, RowsOK
<1> QED
  BY <1>1, <1>3 DEF TabInv

(* A step of the lists leaves the tab alone, or ends its app.              *)
LEMMA ListsStep ==
  ASSUME TabInv, [Next]_vars, UNCHANGED screen \/ TabGone
  PROVE  TabInv'
<1>1. IInv' /\ HistoryGrows
  BY StepIInv, HistoryOnlyGrows DEF TabInv
<1>2. CASE UNCHANGED screen
  <2>1. /\ told' = told /\ fetches' = fetches /\ searchBuffer' = searchBuffer
        /\ listening' = listening
    BY <1>2 DEF screen
  <2>2. ToldOK'
    BY <1>1, <2>1, CopiesStayOK DEF TabInv, TabOK, ToldOK
  <2>3. FetchesOK' /\ ListsFirst'
    <3>1. \A i \in 1..Len(fetches) : \A e \in fetches[i].rows : EntryOK(Me, e)'
      BY <1>1, StaysOK DEF TabInv, TabOK, FetchesOK, RowsOK
    <3> QED
      BY <2>1, <3>1 DEF TabInv, TabOK, FetchesOK, RowsOK, ListsFirst
  <2>4. RowsOK(searchBuffer)'
    BY <1>1, <2>1, StaysOK DEF TabInv, TabOK, RowsOK
  <2> QED
    BY <1>1, <2>1, <2>2, <2>3, <2>4 DEF TabInv, TabOK
<1>3. CASE TabGone
  <2>1. << >> \in Seq(Fetch) /\ Len(<< >>) = 0
    OBVIOUS
  <2>2. TabOK'
    BY <1>3, <2>1 DEF TabGone, TabOK, ToldOK, FetchesOK, ListsFirst, RowsOK
  <2> QED
    BY <1>1, <2>2 DEF TabInv
<1> QED
  BY <1>2, <1>3

(* Whatever answers a fetch is a snapshot of my list.                      *)
LEMMA AnswerOK ==
  ASSUME TabInv, CanAnswer
  PROVE  DocsOK(Answer)
<1>1. CASE listening
  <2>1. PICK docs : told = <<docs>> /\ DocsOK(docs)
    BY <1>1 DEF TabInv, TabOK, ToldOK, CanAnswer
  <2> QED
    BY <1>1, <2>1 DEF Answer
<1>2. CASE ~listening
  BY <1>2, MyDocsOK DEF TabInv, Answer
<1> QED
  BY <1>1, <1>2

(* Steps of the tab that leave the lists and the rows as they are.         *)
LEMMA SameLists ==
  ASSUME TabInv, UNCHANGED vars
  PROVE  IInv' /\ HistoryGrows
<1>1. [Next]_vars
  OBVIOUS
<1> QED
  BY <1>1, StepIInv, HistoryOnlyGrows DEF TabInv

(* What a step of the tab keeps stays right.                               *)
LEMMA TabKeeps ==
  ASSUME TabInv, HistoryGrows
  PROVE  /\ UNCHANGED told => ToldOK'
         /\ UNCHANGED fetches => FetchesOK' /\ ListsFirst'
         /\ UNCHANGED searchBuffer => RowsOK(searchBuffer)'
<1>1. ASSUME UNCHANGED told PROVE ToldOK'
  BY <1>1, CopiesStayOK DEF TabInv, TabOK, ToldOK
<1>2. ASSUME UNCHANGED fetches PROVE FetchesOK' /\ ListsFirst'
  <2>1. \A i \in 1..Len(fetches) : \A e \in fetches[i].rows : EntryOK(Me, e)'
    BY StaysOK DEF TabInv, TabOK, FetchesOK, RowsOK
  <2> QED
    BY <1>2, <2>1 DEF TabInv, TabOK, FetchesOK, RowsOK, ListsFirst
<1>3. ASSUME UNCHANGED searchBuffer PROVE RowsOK(searchBuffer)'
  BY <1>3, StaysOK DEF TabInv, TabOK, RowsOK
<1> QED
  BY <1>1, <1>2, <1>3

LEMMA TabStep == TabInv /\ [TabNext]_tabVars => TabInv'
<1> SUFFICES ASSUME TabInv, [TabNext]_tabVars PROVE TabInv'
  OBVIOUS
<1> USE DEF TabInv, TabOK
<1>1. ASSUME NEW s \in Slots, ChainStepHere(s) PROVE TabInv'
  BY <1>1, ListsStep DEF ChainStepHere, Next
<1>2. CASE TapMine \/ SearchUsers
  BY <1>2, ListsStep, TabBounds DEF TapMine, SearchUsers, Next, ScreenStep
<1>3. ASSUME NEW u \in Users, TapTheirs(u) \/ LookTheirs(u) PROVE TabInv'
  BY <1>3, ListsStep DEF TapTheirs, LookTheirs, Next
<1>4. CASE Hear
  <2>1. IInv' /\ HistoryGrows
    BY <1>4, SameLists DEF Hear
  <2>2. DocsOK(store[Me])
    BY MyDocsOK
  <2>3. ToldOK'
    BY <1>4, <2>1, <2>2, CopiesStayOK DEF Hear, ToldOK
  <2>4. FetchesOK' /\ ListsFirst'
    BY <1>4, <2>1, FetchAppended DEF Hear
  <2> QED
    BY <1>4, <2>1, <2>3, <2>4, TabKeeps DEF Hear
<1>5. ASSUME NEW i \in DOMAIN fetches, ListAnswered(i) PROVE TabInv'
  <2> DEFINE rows == RowsIn(Answer)
  <2>1. RowsOK(rows)
    BY <1>5, AnswerOK, RowsInOK DEF ListAnswered
  <2>2. CASE rows = {}
    <3>1. IInv' /\ HistoryGrows
      BY <1>5, <2>2, ShowsOK DEF ListAnswered, RowsOK, IInv, TypeOK
    <3> QED
      BY <1>5, <2>2, <3>1, FetchRemoved, TabKeeps DEF ListAnswered, Finished
  <2>3. CASE rows # {}
    <3>1. UNCHANGED vars
      BY <1>5, <2>3 DEF ListAnswered, vars, lists
    <3>2. IInv' /\ HistoryGrows
      BY <3>1, SameLists
    <3>3. FetchesOK' /\ ListsFirst'
      BY <1>5, <2>1, <2>3, <3>2, ProfilesAsked DEF ListAnswered
    <3> QED
      BY <1>5, <3>2, <3>3, TabKeeps DEF ListAnswered
  <2> QED
    BY <2>2, <2>3
<1>6. ASSUME NEW i \in DOMAIN fetches, ProfilesAnswered(i) PROVE TabInv'
  <2>1. RowsOK(fetches[i].rows)
    BY DEF FetchesOK
  <2>2. IInv' /\ HistoryGrows
    BY <1>6, <2>1, ShowsOK DEF ProfilesAnswered, IInv, TypeOK
  <2> QED
    BY <1>6, <2>2, FetchRemoved, TabKeeps DEF ProfilesAnswered, Finished
<1>7. ASSUME NEW i \in DOMAIN fetches, FetchFailed(i) PROVE TabInv'
  <2>1. errs' \in 0..MaxErrors
    BY <1>7, BoundsAssumption DEF FetchFailed, IInv, TypeOK
  <2>2. RowsOK({})
    BY DEF RowsOK
  <2>3. IInv' /\ HistoryGrows
    BY <1>7, <2>1, <2>2, ShowsOK DEF FetchFailed
  <2> QED
    BY <1>7, <2>3, FetchRemoved, TabKeeps DEF FetchFailed
<1>8. CASE Load \/ Return
  <2>1. UNCHANGED <<vars, told, fetches, searchBuffer>>
    BY <1>8 DEF Load, Return
  <2>2. ~listening' => ~listening
    BY <1>8 DEF Load, Return
  <2> QED
    BY <2>1, <2>2, SameLists, TabKeeps
<1>9. CASE Leave
  <2>1. IInv' /\ HistoryGrows
    BY <1>9, SameLists DEF Leave
  <2> QED
    BY <1>9, <2>1, TabKeeps DEF Leave, ToldOK
<1>10. CASE SearchCancelled
  <2>1. IInv' /\ HistoryGrows
    BY <1>10, SameLists DEF SearchCancelled
  <2>2. FetchesOK' /\ ListsFirst'
    BY <1>10, <2>1, FetchAppended DEF SearchCancelled
  <2>3. RowsOK(searchBuffer)'
    BY <1>10 DEF SearchCancelled, RowsOK
  <2> QED
    BY <1>10, <2>1, <2>2, <2>3, TabKeeps DEF SearchCancelled
<1>11. ASSUME NEW hits, SearchClicked(hits) PROVE TabInv'
  <2>1. RowsOK(shown[Me])
    BY TabBounds DEF RowsOK, IInv, TypeOK, ShownOK
  <2>2. RowsOK(searchBuffer')
    BY <1>11, <2>1 DEF SearchClicked
  <2>3. RowsOK({e \in searchBuffer' : e.uid \in hits})
    BY <2>2 DEF RowsOK
  <2>4. errs' \in 0..MaxErrors
    BY <1>11 DEF SearchClicked, IInv, TypeOK
  <2>5. IInv' /\ HistoryGrows
    BY <1>11, <2>3, <2>4, ShowsOK DEF SearchClicked
  <2>6. RowsOK(searchBuffer)'
    BY <2>2, <2>5, StaysOK DEF RowsOK
  <2> QED
    BY <1>11, <2>5, <2>6, TabKeeps DEF SearchClicked
<1>12. CASE UNCHANGED tabVars
  BY <1>12, ListsStep DEF tabVars
<1> QED
  BY <1>1, <1>2, <1>3, <1>4, <1>5, <1>6, <1>7, <1>8, <1>9, <1>10, <1>11, <1>12
     DEF TabNext, TabSystem, TabUser

-----------------------------------------------------------------------------
(* The last fetch of a tab that listens brings what the listener was told; *)
(* once it is over, the fetches left are those that it has overtaken.      *)

Hearing == listening /\ told # << >> /\ errs = 0

LastOK ==
  /\ passed \in 0..Len(fetches)
  /\ Hearing =>
       /\ passed < Len(fetches) => \/ fetches[Len(fetches)].stage = "list"
                                   \/ fetches[Len(fetches)].rows = RowsIn(told[1])
       /\ passed = Len(fetches) /\ rowsFrom = "newest" => shown[Me] = RowsIn(told[1])

(* A step of the lists does not count an error back, nor change the rows   *)
(* of a tab whose app goes on.                                             *)
LEMMA ListsKeepRows ==
  ASSUME TabInv
  PROVE  /\ \A s \in Slots : ChainStepHere(s) =>
              TabGone \/ (UNCHANGED screen /\ shown'[Me] = shown[Me] /\ (errs' = 0 => errs = 0))
         /\ \A u \in Users : UserStep(u) => shown'[Me] = shown[Me] /\ errs' = errs
         /\ \A u \in Users \ {Me} :
              ScreenStep(u) => shown'[Me] = shown[Me] /\ (errs' = 0 => errs = 0)
         /\ Search(Me) => shown'[Me] = shown[Me] /\ errs' = errs
<1>1. /\ ops \in [Slots -> Chain \cup {Idle}] /\ shown \in [Users -> SUBSET Entry]
      /\ errs \in Nat /\ Me \in Users
  BY TabBounds, BoundsAssumption DEF TabInv, IInv, TypeOK
<1>2. ASSUME NEW s \in Slots, ChainStepHere(s), ~TabGone
      PROVE  UNCHANGED screen /\ shown'[Me] = shown[Me] /\ (errs' = 0 => errs = 0)
  <2>1. UNCHANGED screen /\ ~(ReadTraps(s) /\ ops[s].dev = Me)
    BY <1>2 DEF ChainStepHere
  <2>2. CASE ReadTraps(s)
    <3>1. ops[s].dev # Me /\ Gone(ops[s].dev) /\ errs' = errs
      BY <2>1, <2>2 DEF ReadTraps
    <3> QED
      BY <1>1, <2>1, <3>1 DEF Gone
  <2>3. CASE ~ReadTraps(s)
    <3>1. shown' = shown /\ (errs' = errs \/ errs' = errs + 1)
      BY <1>2, <2>3
         DEF ChainStepHere, ChainStep, Read, ReadNothing, ReadError, CheckExists, CheckNone,
             CheckError, Add
    <3> QED
      BY <1>1, <2>1, <3>1
  <2> QED
    BY <2>2, <2>3
<1>3. ASSUME NEW u \in Users, UserStep(u)
      PROVE  shown'[Me] = shown[Me] /\ errs' = errs
  BY <1>3 DEF UserStep, TapAdd, TapAction
<1>4. ASSUME NEW u \in Users \ {Me}, ScreenStep(u)
      PROVE  shown'[Me] = shown[Me] /\ (errs' = 0 => errs = 0)
  BY <1>1, <1>4 DEF ScreenStep, Search, Refresh, RefreshError
<1>5. Search(Me) => shown'[Me] = shown[Me] /\ errs' = errs
  BY DEF Search
<1> QED
  BY <1>2, <1>3, <1>4, <1>5

LEMMA LastStays ==
  ASSUME LastOK, UNCHANGED <<told, fetches, passed, rowsFrom>>, listening' => listening,
         shown'[Me] = shown[Me], errs' = 0 => errs = 0
  PROVE  LastOK'
  BY DEF LastOK, Hearing

\* A fetch asked for last is not overtaken
LEMMA LastAsked ==
  ASSUME FetchesOK, ListsFirst, HistoryGrows, LastOK, fetches' = Append(fetches, NewFetch),
         passed' = passed
  PROVE  LastOK'
<1>1. fetches' # << >> /\ fetches'[Len(fetches')].stage = "list"
  BY FetchAppended
<1>2. NewFetch \in Fetch
  BY DEF NewFetch, Fetch
<1> HIDE DEF NewFetch
<1>3. Len(fetches) \in Nat /\ Len(fetches') = Len(fetches) + 1
  BY <1>2 DEF FetchesOK
<1>4. passed' \in 0..Len(fetches') /\ passed' # Len(fetches')
  BY <1>3 DEF LastOK
<1> QED
  BY <1>1, <1>4 DEF LastOK

\* What is left is overtaken only if the last fetch was the one that ended
LEMMA LastFinished ==
  ASSUME FetchesOK, ListsFirst, HistoryGrows, LastOK, NEW i \in DOMAIN fetches, Finished(i)
  PROVE  /\ passed' \in 0..Len(fetches')
         /\ passed' < Len(fetches') =>
              passed < Len(fetches) /\ fetches'[Len(fetches')] = fetches[Len(fetches)]
         /\ passed' = Len(fetches') /\ rowsFrom' = "newest" =>
              passed < Len(fetches) /\ i = Len(fetches)
<1>1. fetches \in Seq(Fetch) /\ Len(fetches) \in Nat /\ i \in 1..Len(fetches)
  BY DEF FetchesOK
<1>2. Len(fetches') = Len(fetches) - 1 /\ passed \in 0..Len(fetches)
  BY <1>1, RemoveAtRows DEF Finished, LastOK
<1>3. i # Len(fetches) => fetches'[Len(fetches')] = fetches[Len(fetches)]
  BY FetchRemoved DEF Finished
<1>4. CASE i <= passed
  <2>1. passed' = passed - 1 /\ rowsFrom' = "overtaken"
    BY <1>4 DEF Finished
  <2> QED
    BY <1>1, <1>2, <1>3, <1>4, <2>1
<1>5. CASE ~(i <= passed)
  <2>1. passed' = i - 1
    BY <1>5 DEF Finished
  <2> QED
    BY <1>1, <1>2, <1>3, <1>5, <2>1
<1> QED
  BY <1>4, <1>5

LEMMA LastStep ==
  ASSUME TabInv, LastOK, [TabNext]_tabVars
  PROVE  LastOK'
<1>0. HistoryGrows
  <2>1. CASE [Next]_vars
    BY <2>1, HistoryOnlyGrows
  <2>2. CASE UNCHANGED history
    BY <2>2 DEF history, HistoryGrows
  <2>3. [Next]_vars \/ UNCHANGED history
    BY TabBounds
       DEF TabNext, tabVars, ChainStepHere, TapMine, SearchUsers, TapTheirs, LookTheirs,
           TabSystem, TabUser, Next, ScreenStep, vars, lists, Hear, ListAnswered,
           ProfilesAnswered, FetchFailed, Load, Leave, Return, SearchCancelled, SearchClicked
  <2> QED
    BY <2>1, <2>2, <2>3
<1>1. FetchesOK /\ ListsFirst /\ (~listening => told = << >>)
  BY DEF TabInv, TabOK
<1>2. shown \in [Users -> SUBSET Entry] /\ errs \in Nat /\ Me \in Users
  BY TabBounds, BoundsAssumption DEF TabInv, IInv, TypeOK
<1>3. ASSUME TabGone PROVE LastOK'
  BY <1>3 DEF TabGone, LastOK, Hearing
<1>4. ASSUME NEW s \in Slots, ChainStepHere(s) PROVE LastOK'
  BY <1>3, <1>4, ListsKeepRows, LastStays DEF screen
<1>5. CASE TapMine \/ SearchUsers
  BY <1>5, TabBounds, ListsKeepRows, LastStays DEF TapMine, SearchUsers, screen
<1>6. ASSUME NEW u \in Users, TapTheirs(u) \/ LookTheirs(u) PROVE LastOK'
  BY <1>6, ListsKeepRows, LastStays DEF TapTheirs, LookTheirs, screen
<1>7. CASE Hear
  BY <1>0, <1>1, <1>7, LastAsked DEF Hear
<1>8. ASSUME NEW i \in DOMAIN fetches, ListAnswered(i) PROVE LastOK'
  <2> DEFINE rows == RowsIn(Answer)
  <2>1. /\ UNCHANGED <<told, listening, errs>> /\ InTurn(i)
        /\ fetches[i].stage = "list" /\ (Hearing => rows = RowsIn(told[1]))
    BY <1>8 DEF ListAnswered, Hearing, Answer
  <2>2. CASE rows = {}
    <3>1. Finished(i) /\ shown'[Me] = {}
      BY <1>2, <1>8, <2>2 DEF ListAnswered
    <3> HIDE DEF rows
    <3>2. passed' \in 0..Len(fetches')
      BY <1>0, <1>1, <3>1, LastFinished
    <3>3. ASSUME Hearing, passed' < Len(fetches')
          PROVE  \/ fetches'[Len(fetches')].stage = "list"
                 \/ fetches'[Len(fetches')].rows = RowsIn(told[1])
      BY <1>0, <1>1, <3>1, <3>3, LastFinished DEF LastOK
    <3>4. ASSUME Hearing PROVE shown'[Me] = RowsIn(told[1])
      BY <2>1, <2>2, <3>1, <3>4
    <3> QED
      BY <2>1, <3>2, <3>3, <3>4 DEF LastOK, Hearing
  <2>3. CASE rows # {}
    <3>1. /\ fetches' = [fetches EXCEPT ![i] = [stage |-> "profiles", rows |-> rows]]
          /\ UNCHANGED <<shown, passed, rowsFrom>>
      BY <1>8, <2>3 DEF ListAnswered
    <3>2. RowsOK(rows)
      BY <1>8, AnswerOK, RowsInOK DEF ListAnswered
    <3> HIDE DEF rows
    <3>3. /\ Len(fetches') = Len(fetches)
          /\ i # Len(fetches) => fetches'[Len(fetches)] = fetches[Len(fetches)]
          /\ i = Len(fetches) => fetches'[Len(fetches)].rows = rows
      BY <1>0, <1>1, <2>1, <2>3, <3>1, <3>2, ProfilesAsked
    <3>4. ASSUME Hearing, passed < Len(fetches)
          PROVE  \/ fetches'[Len(fetches')].stage = "list"
                 \/ fetches'[Len(fetches')].rows = RowsIn(told[1])
      BY <2>1, <3>3, <3>4 DEF LastOK
    <3> QED
      BY <2>1, <3>1, <3>3, <3>4 DEF LastOK, Hearing
  <2> QED
    BY <2>2, <2>3
<1>9. ASSUME NEW i \in DOMAIN fetches, ProfilesAnswered(i) PROVE LastOK'
  <2>1. /\ UNCHANGED <<told, listening, errs>> /\ Finished(i)
        /\ fetches[i].stage = "profiles" /\ shown'[Me] = fetches[i].rows
    BY <1>2, <1>9 DEF ProfilesAnswered
  <2>2. passed' \in 0..Len(fetches')
    BY <1>0, <1>1, <2>1, LastFinished
  <2>3. ASSUME Hearing, passed' < Len(fetches')
        PROVE  \/ fetches'[Len(fetches')].stage = "list"
               \/ fetches'[Len(fetches')].rows = RowsIn(told[1])
    BY <1>0, <1>1, <2>1, <2>3, LastFinished DEF LastOK
  <2>4. ASSUME Hearing, passed' = Len(fetches'), rowsFrom' = "newest"
        PROVE  shown'[Me] = RowsIn(told[1])
    <3>1. passed < Len(fetches) /\ i = Len(fetches)
      BY <1>0, <1>1, <2>1, <2>4, LastFinished
    <3> QED
      BY <2>1, <2>4, <3>1 DEF LastOK
  <2> QED
    BY <2>1, <2>2, <2>3, <2>4 DEF LastOK, Hearing
<1>10. ASSUME NEW i \in DOMAIN fetches, FetchFailed(i) PROVE LastOK'
  <2>1. fetches \in Seq(Fetch) /\ Len(fetches) \in Nat /\ i \in 1..Len(fetches)
    BY <1>1 DEF FetchesOK
  <2>2. Len(fetches') = Len(fetches) - 1
    BY <1>10, <2>1, RemoveAtRows DEF FetchFailed
  <2>3. passed' \in 0..Len(fetches')
    <3>1. passed \in 0..Len(fetches)
      BY DEF LastOK
    <3>2. passed' = IF i <= passed THEN passed - 1 ELSE passed
      BY <1>10 DEF FetchFailed
    <3> QED
      BY <2>1, <2>2, <3>1, <3>2
  <2>4. ~Hearing'
    BY <1>2, <1>10 DEF FetchFailed, Hearing
  <2> QED
    BY <2>3, <2>4 DEF LastOK
<1>11. CASE Load
  <2>1. CASE listening
    BY <1>11, <2>1, LastStays DEF Load, vars
  <2>2. CASE ~listening
    BY <1>1, <1>11, <2>2 DEF Load, LastOK, Hearing
  <2> QED
    BY <2>1, <2>2
<1>12. CASE Leave
  BY <1>12 DEF Leave, LastOK, Hearing
<1>13. CASE Return
  BY <1>13, LastStays DEF Return, vars
<1>14. CASE SearchCancelled
  BY <1>0, <1>1, <1>14, LastAsked DEF SearchCancelled
<1>15. ASSUME NEW hits, SearchClicked(hits) PROVE LastOK'
  BY <1>15 DEF SearchClicked, LastOK, Hearing
<1>16. CASE UNCHANGED tabVars
  BY <1>16, LastStays DEF tabVars, screen, vars
<1> QED
  BY <1>4, <1>5, <1>6, <1>7, <1>8, <1>9, <1>10, <1>11, <1>12, <1>13, <1>14, <1>15, <1>16
     DEF TabNext, TabSystem, TabUser

LEMMA LastInit == TabInit => LastOK
  BY DEF TabInit, LastOK, Hearing

LEMMA LastCatchesUp == LastOK => RowsCatchUp
<1> SUFFICES ASSUME LastOK, Settled, rowsFrom = "newest", errs = 0
             PROVE  shown[Me] = Visible
  BY DEF RowsCatchUp
<1>1. told # << >> /\ RowsIn(told[1]) = Visible /\ listening /\ Len(fetches) = 0
  BY DEF Settled, Visible
<1>2. passed = Len(fetches)
  BY <1>1 DEF LastOK
<1> QED
  BY <1>1, <1>2 DEF LastOK, Hearing

(* The invariant of the lists holds in the composition too: every entry a  *)
(* row or a copy of the tab holds was made by the request it tells of,     *)
(* however old the snapshot it came from is.                               *)
THEOREM TabInvariant == TabSpec => []TabInv
<1>1. TabInit => TabInv
  BY TabInitInv
<1>2. TabInv /\ [TabNext]_tabVars => TabInv'
  BY TabStep
<1> QED
  BY <1>1, <1>2, PTL DEF TabSpec

(* What the lists promise holds of a tab whose rows are as old as its      *)
(* fetches: nobody becomes a friend without a request he accepted, and a   *)
(* block is on the list of the blocked.                                    *)
THEOREM TabKeepsPromises == TabSpec => [](FriendsByConsent /\ BlockSides /\ RequestsWereMade)
<1>1. TabInv => FriendsByConsent /\ BlockSides /\ RequestsWereMade
  BY EntriesAreOK DEF TabInv, FriendsByConsent, BlockSides, RequestsWereMade, EntryOK
<1> QED
  BY <1>1, TabInvariant, PTL

(* fetchSuccess: for any users and any number of fetches that overlap, the *)
(* rows of a settled tab are its list, unless they came from a fetch that  *)
(* a younger one had overtaken, from the search bar or from an error.      *)
THEOREM RowsCatchUpHolds == TabSpec => []RowsCatchUp
<1>1. TabInit => LastOK
  BY LastInit
<1>2. TabInv /\ LastOK /\ [TabNext]_tabVars => LastOK'
  BY LastStep
<1>3. LastOK => RowsCatchUp
  BY LastCatchesUp
<1> QED
  BY <1>1, <1>2, <1>3, TabInvariant, PTL DEF TabSpec
=============================================================================
