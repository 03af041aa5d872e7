----------------------------- MODULE Conversation -----------------------------
(***************************************************************************)
(* A chat between two users: the message collection, and on each side the  *)
(* instances of MessageViewController that show it.                        *)
(*                                                                         *)
(* An opened view fetches the history with two queries, one after the      *)
(* other (my messages, then the friend's), and registers two listeners on  *)
(* the same two queries.  The fetch REPLACES the rows, the listeners ADD   *)
(* rows and turn ticks; each marks the friend's rows as SEEN in the        *)
(* database.  Queries, listeners, sends and navigation interleave.         *)
(***************************************************************************)
EXTENDS Naturals, Sequences, FiniteSets, SequencesExt

CONSTANTS
  Pair,       \* the two users
  Views,      \* instances of MessageViewController, on either side
  MaxMsgs,    \* bound: messages sent
  MaxCovers,  \* bound, per view: full-screen video previews over the chat
  MaxErrors   \* bound: queries of the fetch that fail

ASSUME PairAssumption == \E a, b \in Pair : a # b /\ Pair = {a, b}
ASSUME LimitsAssumption == MaxMsgs \in Nat /\ MaxCovers \in Nat /\ MaxErrors \in Nat

VARIABLES
  db,    \* the collection, in the order of sending: sender and messageStatus
  view,  \* view[v]: the state of instance v
  errs   \* errors so far, against MaxErrors

vars == <<db, view, errs>>

MessageStatus == {"SEND", "SEEN"}
Message == [sender : Pair, status : MessageStatus]

Friend(u) == CHOOSE f \in Pair : f # u

\* A row is the screen's own COPY of a message, its status included
Row == [id : 1..MaxMsgs, status : MessageStatus]

\* What a listener has been told: the statuses of the messages it has seen
Heard == UNION {[I -> MessageStatus] : I \in SUBSET (1..MaxMsgs)}

(***************************************************************************)
(* stage: closed views live on while their fetch is pending, because the   *)
(* view and its MessagingService hold each other.  fetch: "mine" while the *)
(* first query is out, "theirs" (carrying the first answer) while the      *)
(* second is.  toldMine/toldTheirs: the last snapshot of each listener;    *)
(* fresh: the listeners that have not had their first one.                 *)
(***************************************************************************)
View == [owner : Pair, stage : {"unused", "open", "covered", "closed"},
         rows : Seq(Row), fetch : {"mine", "theirs", "done"},
         carried : Seq(Row), toldMine : Heard, toldTheirs : Heard,
         fresh : SUBSET {"mine", "theirs"}, covers : 0..MaxCovers]

-----------------------------------------------------------------------------
(* Snapshots of the collection.                                            *)

SentBy(u) == {m \in DOMAIN db : db[m].sender = u}

Snapshot(u) == [m \in SentBy(u) |-> db[m].status]

\* A set of rows, sorted by date
ByDate(all) ==
  [i \in 1..Cardinality(all) |->
     CHOOSE r \in all : Cardinality({t \in all : t.id <= r.id}) = i]

Documents(ids) == {[id |-> m, status |-> db[m].status] : m \in ids}

\* Mutant: a row is known by its place in the table, not by its document
RowsOfByPlace(ids) ==
  LET sorted == ByDate(Documents(ids))
  IN  [i \in DOMAIN sorted |-> [sorted[i] EXCEPT !.id = i - 1]]

\* The rows that a query or a listener brings of a set of messages
RowsOf(ids) == ByDate(Documents(ids))

\* Mutant: one's own rows are marked as well
MarkSeenAll(rows, me) ==
  LET seen == {r.id : r \in {q \in ToSet(rows) : q.status = "SEND"}}
  IN  [m \in DOMAIN db |-> IF m \in seen THEN [db[m] EXCEPT !.status = "SEEN"] ELSE db[m]]

\* changeMessageStatusToSeen: the friend's rows that say SEND are written back
\* as SEEN; the rows themselves are not touched
MarkSeen(rows, me) ==
  LET seen == {r.id : r \in {q \in ToSet(rows) : q.status = "SEND"}} \ SentBy(me)
  IN  [m \in DOMAIN db |-> IF m \in seen THEN [db[m] EXCEPT !.status = "SEEN"] ELSE db[m]]

-----------------------------------------------------------------------------
Unused ==
  [owner |-> CHOOSE u \in Pair : TRUE, stage |-> "unused", rows |-> << >>, fetch |-> "done",
   carried |-> << >>, toldMine |-> << >>, toldTheirs |-> << >>,
   fresh |-> {"mine", "theirs"}, covers |-> 0]

Init ==
  /\ db = << >>
  /\ view = [v \in Views |-> Unused]
  /\ errs = 0

OnScreen(v) == view[v].stage = "open"

\* viewDidLoad starts the fetch, viewWillAppear registers the two listeners
Open(v, u) ==
  /\ view[v].stage = "unused"
  /\ \A w \in Views : view[w].stage \in {"open", "covered"} => view[w].owner # u
  /\ view' = [view EXCEPT ![v].owner = u, ![v].stage = "open", ![v].fetch = "mine"]
  /\ UNCHANGED <<db, errs>>

\* sendButtonTapped; the rows change only when the listener hears of it
Send(v) ==
  /\ OnScreen(v)
  /\ Len(db) < MaxMsgs
  /\ db' = Append(db, [sender |-> view[v].owner, status |-> "SEND"])
  /\ UNCHANGED <<view, errs>>

\* viewWillDisappear: what the removed listeners were told no longer matters
Unlistened(v, stage) ==
  [view[v] EXCEPT !.stage = stage, !.fresh = {"mine", "theirs"},
                  !.toldMine = << >>, !.toldTheirs = << >>]

\* A tap on a video row presents the player over the chat
Cover(v) ==
  /\ OnScreen(v)
  /\ view[v].rows # << >>
  /\ view[v].covers < MaxCovers
  /\ view' = [view EXCEPT ![v] = [Unlistened(v, "covered") EXCEPT !.covers = @ + 1]]
  /\ UNCHANGED <<db, errs>>

\* viewWillAppear again: two NEW listeners, which start from nothing
Uncover(v) ==
  /\ view[v].stage = "covered"
  /\ view' = [view EXCEPT ![v].stage = "open"]
  /\ UNCHANGED <<db, errs>>

\* closeChatTapped: the listeners go, the fetch does not
Close(v) ==
  /\ OnScreen(v)
  /\ view' = [view EXCEPT ![v] = Unlistened(v, "closed")]
  /\ UNCHANGED <<db, errs>>

-----------------------------------------------------------------------------
(* The fetch.                                                              *)

\* The first query answers; the second one is sent
FetchedMine(v) ==
  /\ view[v].fetch = "mine"
  /\ view' = [view EXCEPT ![v].fetch = "theirs",
                          ![v].carried = RowsOf(SentBy(view[v].owner))]
  /\ UNCHANGED <<db, errs>>

(***************************************************************************)
(* The second query answers: fetchMessagesCompleted.  The Firestore client *)
(* serves the targets of one query in order and from one snapshot: the     *)
(* listener on MY messages has been told what the first query answered     *)
(* before the second is even sent, the listener on the FRIEND's, which is  *)
(* older than the second query, what that one answers.  Listeners that     *)
(* were registered again after a preview are younger than the queries.     *)
(***************************************************************************)
ListenersAhead(v) ==
  /\ view[v].fresh = {}
  /\ \A r \in ToSet(view[v].carried) : r.id \in DOMAIN view[v].toldMine
  /\ view[v].toldTheirs = Snapshot(Friend(view[v].owner))

\* Mutant: the fetched rows are put after those the listeners brought
FetchedTheirsAppends(v) ==
  LET rows == ByDate(ToSet(view[v].carried) \cup Documents(SentBy(Friend(view[v].owner))))
  IN /\ view[v].fetch = "theirs"
     /\ OnScreen(v) /\ view[v].covers = 0 => ListenersAhead(v)
     /\ view' = [view EXCEPT ![v].fetch = "done", ![v].rows = @ \o rows,
                             ![v].carried = << >>]
     /\ db' = MarkSeen(rows, view[v].owner)
     /\ UNCHANGED errs

\* Mutant: the second answer is not joined to the first
FetchedTheirsDropped(v) ==
  /\ view[v].fetch = "theirs"
  /\ OnScreen(v) /\ view[v].covers = 0 => ListenersAhead(v)
  /\ view' = [view EXCEPT ![v].fetch = "done", ![v].rows = view[v].carried,
                          ![v].carried = << >>]
  /\ db' = MarkSeen(view[v].carried, view[v].owner)
  /\ UNCHANGED errs

FetchedTheirs(v) ==
  LET rows == ByDate(ToSet(view[v].carried) \cup Documents(SentBy(Friend(view[v].owner))))
  IN /\ view[v].fetch = "theirs"
     /\ OnScreen(v) /\ view[v].covers = 0 => ListenersAhead(v)
     /\ view' = [view EXCEPT ![v].fetch = "done", ![v].rows = rows,
                             ![v].carried = << >>]
     /\ db' = MarkSeen(rows, view[v].owner)
     /\ UNCHANGED errs

\* Either query fails: an alert, and the rows stay as they are
FetchFailed(v) ==
  /\ view[v].fetch # "done"
  /\ errs < MaxErrors
  /\ errs' = errs + 1
  /\ view' = [view EXCEPT ![v].fetch = "done", ![v].carried = << >>]
  /\ UNCHANGED db

-----------------------------------------------------------------------------
(* The listeners: newMessageDetected, then modifiedMessageDetected.        *)

Added(told, u) == SentBy(u) \ DOMAIN told

Modified(told, u) == {m \in DOMAIN told : told[m] # db[m].status}

\* rows after a snapshot with these added and modified messages
Heeded(rows, added, modified) ==
  LET all == rows \o RowsOf(added)
  IN  [i \in DOMAIN all |->
         IF all[i].id \in modified THEN [all[i] EXCEPT !.status = "SEEN"] ELSE all[i]]

\* Mutant: only the fetch marks rows
AfterAddingNothing(rows, added, me) == db

\* updateMessagesToSeen runs over ALL rows, but only when something was added
AfterAdding(rows, added, me) ==
  IF added = {} THEN db ELSE MarkSeen(rows \o RowsOf(added), me)

HearMine(v) ==
  LET me == view[v].owner
      added == Added(view[v].toldMine, me)
      seen == {m \in Modified(view[v].toldMine, me) : db[m].status = "SEEN"}
  IN /\ OnScreen(v)
     /\ "mine" \in view[v].fresh \/ view[v].toldMine # Snapshot(me)
     /\ view' = [view EXCEPT ![v].rows = Heeded(@, added, seen),
                             ![v].toldMine = Snapshot(me),
                             ![v].fresh = @ \ {"mine"}]
     /\ db' = AfterAdding(view[v].rows, added, me)
     /\ UNCHANGED errs

HearTheirs(v) ==
  LET friend == Friend(view[v].owner)
      added == Added(view[v].toldTheirs, friend)
  IN /\ OnScreen(v)
     /\ "theirs" \in view[v].fresh \/ view[v].toldTheirs # Snapshot(friend)
     /\ view' = [view EXCEPT ![v].rows = Heeded(@, added, Modified(view[v].toldTheirs, friend)),
                             ![v].toldTheirs = Snapshot(friend),
                             ![v].fresh = @ \ {"theirs"}]
     /\ db' = AfterAdding(view[v].rows, added, view[v].owner)
     /\ UNCHANGED errs

-----------------------------------------------------------------------------
System(v) == FetchedMine(v) \/ FetchedTheirs(v) \/ HearMine(v) \/ HearTheirs(v)

Next ==
  \E v \in Views :
    \/ \E u \in Pair : Open(v, u)
    \/ Send(v) \/ Cover(v) \/ Uncover(v) \/ Close(v)
    \/ System(v) \/ FetchFailed(v)

Spec == Init /\ [][Next]_vars

\* Queries answer and listeners are told; users need not do anything
FairSpec == Spec /\ \A v \in Views : WF_vars(FetchedMine(v)) /\ WF_vars(FetchedTheirs(v))
                                     /\ WF_vars(HearMine(v)) /\ WF_vars(HearTheirs(v))

-----------------------------------------------------------------------------
(* Properties.                                                             *)

(* The collection holds messages, and every view copies of them; what a    *)
(* listener was told is of messages that may exist.                        *)
TypeOK ==
  /\ db \in Seq(Message) /\ Len(db) <= MaxMsgs
  /\ view \in [Views -> View]
  /\ errs \in 0..MaxErrors

\* The view has its fetch behind it and its listeners have nothing to tell
Settled(v) ==
  /\ OnScreen(v) /\ view[v].fetch = "done" /\ view[v].fresh = {}
  /\ view[v].toldMine = Snapshot(view[v].owner)
  /\ view[v].toldTheirs = Snapshot(Friend(view[v].owner))

Copies(v, m) == Cardinality({i \in DOMAIN view[v].rows : view[v].rows[i].id = m})

(* Every message of the friend is on the screen of a settled chat: the     *)
(* fetch that replaces the rows never throws away one a listener brought.  *)
IncomingShown ==
  \A v \in Views : Settled(v) =>
    \A m \in SentBy(Friend(view[v].owner)) : Copies(v, m) >= 1

(* No message stands twice in a settled chat that no preview ever covered: *)
(* fetch and listeners overlap, and what both brought is there once.       *)
NoDoubles ==
  \A v \in Views : Settled(v) /\ view[v].covers = 0 =>
    \A m \in DOMAIN db : Copies(v, m) <= 1

(* A message is SEEN only if some view of its receiver has loaded it.      *)
SeenWasLoaded ==
  \A m \in DOMAIN db : db[m].status = "SEEN" =>
    \E v \in Views : view[v].owner # db[m].sender /\ Copies(v, m) >= 1

(* While the receiver keeps the chat open, the sender's message becomes    *)
(* SEEN in the end, whatever the fetch and the listeners do meanwhile.     *)
OpenChatGetsSeen ==
  \A v \in Views : \A m \in 1..MaxMsgs :
    (OnScreen(v) /\ m \in SentBy(Friend(view[v].owner))) ~>
      (~OnScreen(v) \/ (m \in DOMAIN db /\ db[m].status = "SEEN"))

-----------------------------------------------------------------------------
(* What one would expect of a chat,                                         *)
(* but the code does not keep: TLC finds each violated, at the instance    *)
(* that README.md names.                                                   *)

(* A message I send appears in my own open chat.                           *)
OwnMessagesShown ==
  \A v \in Views : Settled(v) /\ view[v].covers = 0 =>
    \A m \in SentBy(view[v].owner) : Copies(v, m) >= 1

(* The ticks of my messages say what the database says once the chat has   *)
(* settled: I can see whether my friend has seen the message.              *)
TicksUpToDate ==
  \A v \in Views : Settled(v) =>
    \A i \in DOMAIN view[v].rows :
      view[v].rows[i].id \in SentBy(view[v].owner) =>
        view[v].rows[i].status = db[view[v].rows[i].id].status

(* A message turns SEEN only while its receiver has the chat before him or *)
(* a preview over it.                                                      *)
SeenOnScreen ==
  [][\A m \in DOMAIN db : (db[m].status = "SEND" /\ db'[m].status = "SEEN") =>
       \E v \in Views : view[v].owner # db[m].sender
                        /\ view[v].stage \in {"open", "covered"}]_vars
=============================================================================
