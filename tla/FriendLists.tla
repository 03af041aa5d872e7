----------------------------- MODULE FriendLists -----------------------------
(***************************************************************************)
(* The friends lists of YoYo Messenger and the chains of asynchronous      *)
(* database calls by which the devices change them.                        *)
(*                                                                         *)
(* Each user's list is a Firestore document found by a query on its "uid"  *)
(* field.  There is no server code: the device of the user who taps a      *)
(* button reads his own list, writes the whole document back, and then     *)
(* does the same to the list of the OTHER user.  One such chain is         *)
(*                                                                         *)
(*    read mine -> check mine -> (set | add) -> read theirs -> check       *)
(*    theirs -> (set | add) -> report                                      *)
(*                                                                         *)
(* with one query per arrow.  Chains of several devices, and of one device *)
(* whose user taps again, interleave between any two queries.              *)
(***************************************************************************)
EXTENDS Naturals, Sequences, FiniteSets, SequencesExt

CONSTANTS
  Users,      \* the registered users; each is signed in on one device
  Slots,      \* identities for the chains in flight: at most |Slots| at once
  DocIds,     \* ids Firestore may give a new document; a query lists the
              \* documents it matches in increasing order of id
  MaxTaps,    \* bound: how many buttons are tapped in a behaviour
  MaxErrors,  \* bound: how many queries fail
  MaxKills    \* bound: how many times an app is killed

ASSUME DocIdsAssumption == DocIds \subseteq Nat \ {0}
ASSUME BoundsAssumption == MaxTaps \in Nat /\ MaxErrors \in Nat /\ MaxKills \in Nat

\* enum FRIEND_STATUS (the spelling ACCPETED is the source's)
Status == {"REQUEST_SEND", "REQUESTED", "ACCPETED", "BLOCKED", "UNBLOCK"}

\* enum FRIEND_ACTION, and SEND for the Add button of a search result
Actions == {"ACCEPT", "CANCEL", "UNFRIEND", "BLOCK", "UNBLOCK"}
Acts == Actions \cup {"SEND"}

\* struct Friend; its date only orders the rows of the screen
Entry == [uid : Users, status : Status]

\* "no document id": the @DocumentID of a list the device has just made up
NoDoc == 0

VARIABLES
  store,    \* store[u]: the documents with uid = u, id -> list of entries
  ops,      \* ops[s]: the chain in flight in slot s, or Idle
  shown,    \* shown[u]: the rows of u's friends tab
  results,  \* results[u]: rows of u's search whose Add button is enabled
  trapped,  \* users whose app stopped on a Swift runtime trap
  asked,    \* history: <<u, f>> when u tapped Add on f
  agreed,   \* history: <<u, f>> when u tapped Accept on f
  blocked,  \* history: <<u, f>> when u tapped Block on f
  taps, errs, kills   \* counters against the bounds

history == <<asked, agreed, blocked>>
vars == <<store, ops, shown, results, trapped, history, taps, errs, kills>>

Idle == [phase |-> "idle"]

(***************************************************************************)
(* A chain: `dev` is the user whose device runs it, `peer` the other user, *)
(* `half` the list it is working on, `doc`/`list` the copy it read (and    *)
(* already changed), `ok` whether every write so far was reported as done. *)
(***************************************************************************)
Chain == [phase : {"read", "check", "add"}, dev : Users, peer : Users,
          act : Acts, half : {"mine", "theirs"}, doc : DocIds \cup {NoDoc},
          list : Seq(Entry), ok : BOOLEAN]

-----------------------------------------------------------------------------
(* What the database holds.                                                *)

HasList(u) == DOMAIN store[u] # {}

\* friendsLists.first of the unordered query: the document of least id
FirstDoc(u) == Min(DOMAIN store[u])

ListOf(u) == IF HasList(u) THEN store[u][FirstDoc(u)] ELSE << >>

\* setData / addDocument: the whole document is replaced
PutDoc(docs, d, l) == [e \in DOMAIN docs \cup {d} |-> IF e = d THEN l ELSE docs[e]]

\* The list a chain is working on, and the user whose entry it changes there
Holder(op) == IF op.half = "mine" THEN op.dev ELSE op.peer
Subject(op) == IF op.half = "mine" THEN op.peer ELSE op.dev

-----------------------------------------------------------------------------
(* FriendService.performAction: the pure edit of a list.                   *)

\* Mutant: the two sides of a block are mixed up
NewStatusSwapped(action, blockedByMe) ==
  IF action \in {"ACCEPT", "UNBLOCK"} THEN "ACCPETED"
  ELSE IF blockedByMe THEN "BLOCKED" ELSE "UNBLOCK"

\* Mutant: the friend's half does not know that it is not the blocker's
NewStatusBothMine(action, blockedByMe) ==
  IF action \in {"ACCEPT", "UNBLOCK"} THEN "ACCPETED" ELSE "UNBLOCK"

NewStatus(action, blockedByMe) ==
  IF action \in {"ACCEPT", "UNBLOCK"} THEN "ACCPETED"
  ELSE IF blockedByMe THEN "UNBLOCK" ELSE "BLOCKED"

\* Mutant: the loop that looks for the row is missing
RemovingIndexFirst(friends, uid) == 1

\* removingIndex stays at the first row when nobody matches
RemovingIndex(friends, uid) ==
  LET matches == {i \in DOMAIN friends : friends[i].uid = uid}
  IN  IF matches = {} THEN 1 ELSE Min(matches)

PerformAction(friends, uid, action, blockedByMe) ==
  IF action \in {"CANCEL", "UNFRIEND"}
  THEN RemoveAt(friends, RemovingIndex(friends, uid))
  ELSE [i \in DOMAIN friends |->
          IF friends[i].uid = uid
          THEN [friends[i] EXCEPT !.status = NewStatus(action, blockedByMe)]
          ELSE friends[i]]

\* remove(at: 0) of an empty array is a runtime trap
Traps(op) == op.act \in {"CANCEL", "UNFRIEND"} /\ ListOf(Holder(op)) = << >>

\* Mutant: createFriendRequestForFriend passes the same status to both lists
EditedCopied(op) ==
  IF op.act = "SEND"
  THEN Append(ListOf(Holder(op)), [uid |-> Subject(op), status |-> "REQUEST_SEND"])
  ELSE PerformAction(ListOf(Holder(op)), Subject(op), op.act, op.half = "mine")

\* The list a chain is going to write, made from the list it reads now
Edited(op) ==
  IF op.act = "SEND"
  THEN Append(ListOf(Holder(op)),
              [uid |-> Subject(op),
               status |-> IF op.half = "mine" THEN "REQUEST_SEND" ELSE "REQUESTED"])
  ELSE PerformAction(ListOf(Holder(op)), Subject(op), op.act, op.half = "mine")

-----------------------------------------------------------------------------
(* The user's taps.                                                        *)

Init ==
  /\ store = [u \in Users |-> << >>]
  /\ ops = [s \in Slots |-> Idle]
  /\ shown = [u \in Users |-> {}]
  /\ results = [u \in Users |-> {}]
  /\ trapped = {}
  /\ asked = {} /\ agreed = {} /\ blocked = {}
  /\ taps = 0 /\ errs = 0 /\ kills = 0

NewChain(u, f, act) ==
  [phase |-> "read", dev |-> u, peer |-> f, act |-> act, half |-> "mine",
   doc |-> NoDoc, list |-> << >>, ok |-> TRUE]

\* The button stays enabled while the chain runs: it can be tapped again.
TapAdd(u, f, s) ==
  /\ taps < MaxTaps
  /\ ops[s] = Idle
  /\ f \in results[u]
  /\ ops' = [ops EXCEPT ![s] = NewChain(u, f, "SEND")]
  /\ asked' = asked \cup {<<u, f>>}
  /\ taps' = taps + 1
  /\ UNCHANGED <<store, shown, results, trapped, agreed, blocked, errs, kills>>

\* Mutant: Accept is not hidden on requests one has sent oneself
ButtonsOfAnyRequest(status) ==
  CASE status \in {"REQUESTED", "REQUEST_SEND"} -> {"ACCEPT", "CANCEL"}
    [] status = "UNBLOCK" -> {"UNBLOCK"}
    [] OTHER              -> {"BLOCK", "UNFRIEND"}

\* The buttons cellForRowAt leaves visible for a row of that status
Buttons(status) ==
  CASE status = "REQUESTED"    -> {"ACCEPT", "CANCEL"}
    [] status = "REQUEST_SEND" -> {"CANCEL"}
    [] status = "UNBLOCK"      -> {"UNBLOCK"}
    [] OTHER                   -> {"BLOCK", "UNFRIEND"}

TapAction(u, e, act, s) ==
  /\ taps < MaxTaps
  /\ ops[s] = Idle
  /\ e \in shown[u]
  /\ act \in Buttons(e.status)
  /\ ops' = [ops EXCEPT ![s] = NewChain(u, e.uid, act)]
  /\ agreed' = IF act = "ACCEPT" THEN agreed \cup {<<u, e.uid>>} ELSE agreed
  /\ blocked' = IF act = "BLOCK" THEN blocked \cup {<<u, e.uid>>} ELSE blocked
  /\ taps' = taps + 1
  /\ UNCHANGED <<store, shown, results, trapped, asked, errs, kills>>

\* The profiles found, less everybody who has an entry in u's own list
Search(u) ==
  /\ results' = [results EXCEPT ![u] =
                   {f \in Users \ {u} : \A e \in ToSet(ListOf(u)) : e.uid # f}]
  /\ UNCHANGED <<store, ops, shown, trapped, history, taps, errs, kills>>

\* A list that is missing or has no row to show empties the table (fetchError)
Refresh(u) ==
  /\ shown' = [shown EXCEPT ![u] = {e \in ToSet(ListOf(u)) : e.status # "BLOCKED"}]
  /\ UNCHANGED <<store, ops, results, trapped, history, taps, errs, kills>>

RefreshError(u) ==
  /\ errs < MaxErrors
  /\ errs' = errs + 1
  /\ shown' = [shown EXCEPT ![u] = {}]
  /\ UNCHANGED <<store, ops, results, trapped, history, taps, kills>>

-----------------------------------------------------------------------------
(* The steps of a chain, one per answered query.                           *)

\* u's app is gone: his chains are never continued, his screens are empty
Gone(u) ==
  /\ ops' = [s \in Slots |-> IF ops[s] # Idle /\ ops[s].dev = u THEN Idle ELSE ops[s]]
  /\ shown' = [shown EXCEPT ![u] = {}]
  /\ results' = [results EXCEPT ![u] = {}]

\* fetchFriendsList answered, and there is a list to edit
Read(s) ==
  /\ ops[s] # Idle /\ ops[s].phase = "read"
  /\ HasList(Holder(ops[s]))
  /\ ~Traps(ops[s])
  /\ ops' = [ops EXCEPT ![s].phase = "check",
                        ![s].doc = FirstDoc(Holder(ops[s])),
                        ![s].list = Edited(ops[s])]
  /\ UNCHANGED <<store, shown, results, trapped, history, taps, errs, kills>>

\* Mutant: a friend who has no list yet is not given one
ReadNothingGivesUp(s) ==
  /\ ops[s] # Idle /\ ops[s].phase = "read"
  /\ ~HasList(Holder(ops[s]))
  /\ ops' = IF ops[s].act = "SEND" /\ ops[s].half = "mine"
            THEN [ops EXCEPT ![s].phase = "check", ![s].doc = NoDoc,
                             ![s].list = Edited(ops[s])]
            ELSE [ops EXCEPT ![s] = Idle]
  /\ UNCHANGED <<store, shown, results, trapped, history, taps, errs, kills>>

\* fetchFriendsList answered nil: a request makes a new list ...
ReadNothing(s) ==
  /\ ops[s] # Idle /\ ops[s].phase = "read"
  /\ ~HasList(Holder(ops[s]))
  /\ ops' = IF ops[s].act = "SEND"
            THEN [ops EXCEPT ![s].phase = "check", ![s].doc = NoDoc,
                             ![s].list = Edited(ops[s])]
            ELSE [ops EXCEPT ![s] = Idle]   \* ... any other action stops here
  /\ UNCHANGED <<store, shown, results, trapped, history, taps, errs, kills>>

\* removing from an empty list
ReadTraps(s) ==
  /\ ops[s] # Idle /\ ops[s].phase = "read"
  /\ HasList(Holder(ops[s]))
  /\ Traps(ops[s])
  /\ Gone(ops[s].dev)
  /\ trapped' = trapped \cup {ops[s].dev}
  /\ UNCHANGED <<store, history, taps, errs, kills>>

\* A failed read ends the chain, in either half
ReadError(s) ==
  /\ ops[s] # Idle /\ ops[s].phase = "read"
  /\ errs < MaxErrors
  /\ errs' = errs + 1
  /\ ops' = [ops EXCEPT ![s] = Idle]
  /\ UNCHANGED <<store, shown, results, trapped, history, taps, kills>>

(***************************************************************************)
(* updateFriendsList called its completion handler with `success`: the     *)
(* chain goes on to the friend's list WHATEVER the first half's outcome;   *)
(* after the second half it reports, and only a fully successful request   *)
(* disables its Add button.                                                *)
(***************************************************************************)
Completed(s, success) ==
  LET op == ops[s] IN
  IF op.half = "mine"
  THEN /\ ops' = [ops EXCEPT ![s].phase = "read", ![s].half = "theirs",
                             ![s].doc = NoDoc, ![s].list = << >>, ![s].ok = success]
       /\ UNCHANGED results
  ELSE /\ ops' = [ops EXCEPT ![s] = Idle]
       /\ results' = IF op.act = "SEND" /\ op.ok /\ success
                     THEN [results EXCEPT ![op.dev] = @ \ {op.peer}]
                     ELSE results

\* Mutant: the document id of the list is not tested
CheckExistsBlindly(s) ==
  /\ ops[s] # Idle /\ ops[s].phase = "check"
  /\ HasList(Holder(ops[s]))
  /\ store' = [store EXCEPT ![Holder(ops[s])] = PutDoc(@, ops[s].doc, ops[s].list)]
  /\ Completed(s, TRUE)
  /\ UNCHANGED <<shown, trapped, history, taps, errs, kills>>

\* The existence query found a document: overwrite the one that was read, or
\* fail when the list in hand was made up and has no id
CheckExists(s) ==
  /\ ops[s] # Idle /\ ops[s].phase = "check"
  /\ HasList(Holder(ops[s]))
  /\ store' = IF ops[s].doc # NoDoc
              THEN [store EXCEPT ![Holder(ops[s])] = PutDoc(@, ops[s].doc, ops[s].list)]
              ELSE store
  /\ Completed(s, ops[s].doc # NoDoc)
  /\ UNCHANGED <<shown, trapped, history, taps, errs, kills>>

(***************************************************************************)
(* The existence query found none, and the callback adds one.  These are   *)
(* two steps because the other devices are in between: the answer left the *)
(* backend before the new document gets there, and until then their own    *)
(* queries find none either.  That is how one user comes to have two lists.*)
(***************************************************************************)
CheckNone(s) ==
  /\ ops[s] # Idle /\ ops[s].phase = "check"
  /\ ~HasList(Holder(ops[s]))
  /\ ops' = [ops EXCEPT ![s].phase = "add"]
  /\ UNCHANGED <<store, shown, results, trapped, history, taps, errs, kills>>

CheckError(s) ==
  /\ ops[s] # Idle /\ ops[s].phase = "check"
  /\ errs < MaxErrors
  /\ errs' = errs + 1
  /\ Completed(s, FALSE)
  /\ UNCHANGED <<store, shown, trapped, history, taps, kills>>

\* addDocument under a fresh random id, whatever was created meanwhile
Add(s) ==
  /\ ops[s] # Idle /\ ops[s].phase = "add"
  /\ \E d \in DocIds \ DOMAIN store[Holder(ops[s])] :
       store' = [store EXCEPT ![Holder(ops[s])] = PutDoc(@, d, ops[s].list)]
  /\ Completed(s, TRUE)
  /\ UNCHANGED <<shown, trapped, history, taps, errs, kills>>

\* The user or the system ends u's app; Firestore keeps the writes it has issued
Kill(u) ==
  /\ kills < MaxKills
  /\ kills' = kills + 1
  /\ Gone(u)
  /\ UNCHANGED <<store, trapped, history, taps, errs>>

-----------------------------------------------------------------------------
ChainStep(s) ==
  \/ Read(s) \/ ReadNothing(s) \/ ReadTraps(s) \/ ReadError(s)
  \/ CheckExists(s) \/ CheckNone(s) \/ CheckError(s) \/ Add(s)

UserStep(u) ==
  \/ \E s \in Slots, f \in Users : TapAdd(u, f, s)
  \/ \E s \in Slots, e \in Entry, act \in Actions : TapAction(u, e, act, s)

ScreenStep(u) == Search(u) \/ Refresh(u) \/ RefreshError(u)

Next ==
  \/ \E s \in Slots : ChainStep(s)
  \/ \E u \in Users : UserStep(u) \/ ScreenStep(u) \/ Kill(u)

Spec == Init /\ [][Next]_vars

(***************************************************************************)
(* Serial use: a user taps only when no chain is in flight anywhere and    *)
(* what his screens show is what his list says.  Queries always answer:    *)
(* the Firestore client retries until it has an answer, so a chain step    *)
(* that can be taken is taken.                                             *)
(***************************************************************************)
Quiet == \A s \in Slots : ops[s] = Idle

Fresh(u) ==
  /\ shown[u] = {e \in ToSet(ListOf(u)) : e.status # "BLOCKED"}
  /\ \A e \in ToSet(ListOf(u)) : e.uid \notin results[u]

SerialNext ==
  \/ \E s \in Slots : ChainStep(s)
  \/ \E u \in Users : (Quiet /\ Fresh(u) /\ UserStep(u)) \/ ScreenStep(u)

SerialSpec ==
  /\ Init /\ [][SerialNext]_vars
  /\ \A s \in Slots : WF_vars(ChainStep(s))
-----------------------------------------------------------------------------
(* Properties.                                                             *)

(* Documents hold lists of entries under known ids, chains hold copies of  *)
(* such lists, and what the tabs show is entries of other users.           *)
TypeOK ==
  /\ \A u \in Users : /\ DOMAIN store[u] \subseteq DocIds
                      /\ \A d \in DOMAIN store[u] : store[u][d] \in Seq(Entry)
  /\ DOMAIN store = Users
  /\ ops \in [Slots -> Chain \cup {Idle}]
  /\ shown \in [Users -> SUBSET Entry]
  /\ results \in [Users -> SUBSET Users]
  /\ trapped \subseteq Users
  /\ asked \subseteq Users \X Users
  /\ agreed \subseteq Users \X Users
  /\ blocked \subseteq Users \X Users
  /\ taps \in 0..MaxTaps /\ errs \in 0..MaxErrors /\ kills \in 0..MaxKills

\* Some of the two asked, and the other one pressed Accept
Consent(u, f) ==
  \/ <<u, f>> \in asked /\ <<f, u>> \in agreed
  \/ <<f, u>> \in asked /\ <<u, f>> \in agreed

\* Every entry of every document of u, whichever document a query returns first
EntriesOf(u) == UNION {ToSet(store[u][d]) : d \in DOMAIN store[u]}

(* Whatever chains overlap, fail or die half way: somebody is in a list as  *)
(* ACCPETED only after one of the two sent a request and the other pressed *)
(* Accept.  No lost update, wrong row or repeated request makes a friend.  *)
FriendsByConsent ==
  \A u \in Users : \A e \in EntriesOf(u) :
    e.status = "ACCPETED" => Consent(u, e.uid)

(* A block is recorded on the right sides: the row that offers "unblock" is *)
(* only in the list of a user who pressed Block on that friend, the hidden *)
(* BLOCKED row only in the list of the friend it was pressed on.           *)
BlockSides ==
  \A u \in Users : \A e \in EntriesOf(u) :
    /\ e.status = "UNBLOCK" => <<u, e.uid>> \in blocked
    /\ e.status = "BLOCKED" => <<e.uid, u>> \in blocked

(* A pending request in a list is one its sender really made.              *)
RequestsWereMade ==
  \A u \in Users : \A e \in EntriesOf(u) :
    /\ e.status = "REQUEST_SEND" => <<u, e.uid>> \in asked
    /\ e.status = "REQUESTED" => <<e.uid, u>> \in asked

\* How f stands in u's list
StatusIn(u, f) ==
  LET rows == {i \in DOMAIN ListOf(u) : ListOf(u)[i].uid = f}
  IN  IF rows = {} THEN "none"
      ELSE ListOf(u)[Min(rows)].status

\* A chain of `dev` has changed dev's list and not yet the list of `peer`
HalfDone(dev, peer) ==
  \E s \in Slots : /\ ops[s] # Idle
                   /\ ops[s].half = "theirs"
                   /\ ops[s].dev = dev /\ ops[s].peer = peer

\* How a user is seen by one whom he sees as t
OtherSide(t) ==
  CASE t = "REQUEST_SEND" -> "REQUESTED"
    [] t = "REQUESTED"    -> "REQUEST_SEND"
    [] t = "UNBLOCK"      -> "BLOCKED"
    [] t = "BLOCKED"      -> "UNBLOCK"
    [] OTHER              -> t

(* Refinement: while a chain is between its halves, the list it has already *)
(* changed is the truth about the pair.                                    *)
SeenTie ==
  [u \in Users |-> [f \in Users |->
     IF HalfDone(f, u) THEN OtherSide(StatusIn(f, u)) ELSE StatusIn(u, f)]]

Abstract == INSTANCE Friendship WITH tie <- SeenTie

(* Used serially, the two-list protocol implements the one shared fact.    *)
ImplementsFriendship == Abstract!Spec

(* When no chain is in flight, the lists of two users agree: each is in the *)
(* other's list as the mirror of how he has the other.                     *)
Mirrored ==
  Quiet => \A u, f \in Users : StatusIn(f, u) = Abstract!Mirror(StatusIn(u, f))

(* No tap stops an app: the cancel and unfriend edits never meet an empty  *)
(* list.                                                                   *)
NeverTraps == trapped = {}

(* Cancel and Unfriend find the row they are about: an entry leaves a list *)
(* only when a chain about that very pair cancels or unfriends, and no tap *)
(* stops the app at an empty list.  (performAction removes index 0 if it   *)
(* finds no row.)                                                          *)
RemovesOnlyItsRow ==
  [][NeverTraps' /\ \A u, f \in Users :
       (StatusIn(u, f) # "none" /\ StatusIn(u, f)' = "none") =>
         \E s \in Slots : /\ ops[s] # Idle
                          /\ ops[s].act \in {"CANCEL", "UNFRIEND"}
                          /\ {ops[s].dev, ops[s].peer} = {u, f}]_vars

(* A block is its user's own: his list goes on saying so until he, or the  *)
(* friend he blocked, taps something.  What third users do to his list,    *)
(* like adding their request to it, leaves the block alone.                *)
OthersLeaveBlockAlone ==
  [][\A u, f \in Users :
       (StatusIn(u, f) = "UNBLOCK" /\ StatusIn(u, f)' # "UNBLOCK") =>
         \E s \in Slots : /\ ops[s] # Idle
                          /\ ops[s].dev = u \/ {ops[s].dev, ops[s].peer} = {u, f}]_vars

(* Nor does what the user who blocked does about somebody else.            *)
OtherPairsLeaveBlockAlone ==
  [][\A u, f \in Users :
       (StatusIn(u, f) = "UNBLOCK" /\ StatusIn(u, f)' # "UNBLOCK") =>
         \E s \in Slots : ops[s] # Idle /\ {ops[s].dev, ops[s].peer} = {u, f}]_vars
=============================================================================
