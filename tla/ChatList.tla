-------------------------------- MODULE ChatList --------------------------------
(***************************************************************************)
(* The chats tab: one row per friend with whom there are messages, latest  *)
(* first, with the number of unread ones.  Every report of its listeners   *)
(* starts a fetch of three queries, one after the other, and fetches       *)
(* overlap.  The search bar swaps the same list for a filtered one and     *)
(* keeps the whole one aside.  What the table DRAWS is what the list was   *)
(* when the table was last reloaded; a tap takes the row from the list.    *)
(***************************************************************************)
EXTENDS Naturals, Sequences, FiniteSets, SequencesExt, Functions, FiniteSetsExt

CONSTANTS
  Friends,      \* the friends
  Known,        \* those who have written before the tab is loaded
  MaxMessages,  \* bound: messages in the collection
  MaxFetches,   \* bound: fetches in flight
  MaxLeaves,    \* bound: times the tab is left or covered
  MaxSearches   \* bound: times text is typed into the search bar

ASSUME ChatBounds ==
  /\ Known \subseteq Friends /\ IsFiniteSet(Friends)
  /\ MaxMessages \in Nat /\ MaxLeaves \in Nat /\ MaxSearches \in Nat /\ MaxFetches \in Nat \ {0}

VARIABLES
  db,        \* my messages in the order of their dates: [friend, mine, seen]
  tab,       \* "front", "away" (its listeners removed) or "trapped"
  told,      \* what each of the two listeners last heard
  fetches,   \* the fetches in flight, oldest first
  chatModels, searchBuffer,  \* of ChatViewController: rows [friend, unSeen]
  shown,     \* the rows as the table drew them
  search,    \* the search bar: whether it has text, and the keyboard
  touched,   \* history: the search bar changed the list after the last fetch
  leaves, searches  \* counters against the bounds

lists == <<chatModels, searchBuffer, shown, touched>>
counters == <<leaves, searches>>
vars == <<db, tab, told, fetches, lists, search, counters>>

\* What a query answers: messages by their places in the collection
Answer(mine) == Restrict(db, {m \in DOMAIN db : db[m].mine = mine})

\* Messages of two answers together
Both(sent, received) ==
  [m \in DOMAIN sent \cup DOMAIN received |->
     IF m \in DOMAIN received THEN received[m] ELSE sent[m]]

\* A fetch waits for the messages sent, then for those received, then for profiles
Fresh == [stage |-> "sent", got |-> << >>]

UserIDs(got) == {got[m].friend : m \in DOMAIN got}

\* The place of the last message with a friend
LastOf(got, f) == Max({m \in DOMAIN got : got[m].friend = f})

\* Those with messages, latest first: in place i is the one with i - 1 later ones
LatestFirst(got) ==
  [i \in 1..Cardinality(UserIDs(got)) |->
     CHOOSE f \in UserIDs(got) :
       Cardinality({g \in UserIDs(got) : LastOf(got, g) >= LastOf(got, f)}) = i]

\* The chat models of a set of messages: unread ones counted, latest first
Rows(got) ==
  LET order == LatestFirst(got)
  IN  [i \in DOMAIN order |->
        [friend |-> order[i],
         unSeen |-> Cardinality({m \in DOMAIN got :
                      got[m].friend = order[i] /\ ~got[m].mine /\ ~got[m].seen})]]

NotTold == [sent |-> << >>, received |-> << >>]

\* viewDidLoad fetches, viewWillAppear registers
Init ==
  /\ LET order == SetToSeq(Known)
     IN  db = [i \in DOMAIN order |-> [friend |-> order[i], mine |-> FALSE, seen |-> FALSE]]
  /\ tab = "front" /\ told = NotTold /\ fetches = <<Fresh>>
  /\ chatModels = << >> /\ searchBuffer = << >> /\ shown = << >>
  /\ search = [text |-> FALSE, editing |-> FALSE] /\ touched = FALSE
  /\ leaves = 0 /\ searches = 0

-----------------------------------------------------------------------------
(* The world: friends write, I write and read, here or on another device.  *)

Written(f, mine) ==
  /\ Len(db) < MaxMessages
  /\ db' = Append(db, [friend |-> f, mine |-> mine, seen |-> FALSE])
  /\ UNCHANGED <<tab, told, fetches, lists, search, counters>>

ReadChat(f) ==
  /\ db' = [m \in DOMAIN db |->
              IF db[m].friend = f /\ ~db[m].mine THEN [db[m] EXCEPT !.seen = TRUE] ELSE db[m]]
  /\ db' # db
  /\ UNCHANGED <<tab, told, fetches, lists, search, counters>>

-----------------------------------------------------------------------------
(* Listeners and fetches.                                                  *)

\* A listener reports documents added or modified: chatModelChanged fetches
Hear(query) ==
  /\ tab = "front" /\ Len(fetches) < MaxFetches
  /\ LET now == Answer(query = "sent") IN
       /\ told[query] # now
       /\ told' = [told EXCEPT ![query] = now]
  /\ fetches' = Append(fetches, Fresh)
  /\ UNCHANGED <<db, tab, lists, search, counters>>

\* Firestore answers the same query in the order it was asked; profiles of
\* different users are different queries
InTurn(i) ==
  \A j \in 1 .. i - 1 :
    \/ fetches[j].stage # fetches[i].stage
    \/ fetches[i].stage = "profiles" /\ UserIDs(fetches[j].got) # UserIDs(fetches[i].got)

SentAnswered(i) ==
  /\ fetches[i].stage = "sent" /\ InTurn(i)
  /\ fetches' = [fetches EXCEPT ![i] = [stage |-> "received", got |-> Answer(TRUE)]]
  /\ UNCHANGED <<db, tab, told, lists, search, counters>>

\* Mutant: the answer of the first query is dropped
ReceivedAnsweredAlone(i) ==
  /\ fetches[i].stage = "received" /\ InTurn(i)
  /\ fetches' = [fetches EXCEPT ![i] = [stage |-> "profiles", got |-> Answer(FALSE)]]
  /\ UNCHANGED <<db, tab, told, lists, search, counters>>

\* Without any message nobody's profile is asked for, and nothing called back
ReceivedAnswered(i) ==
  /\ fetches[i].stage = "received" /\ InTurn(i)
  /\ LET all == Both(fetches[i].got, Answer(FALSE)) IN
       fetches' = IF DOMAIN all = {} THEN RemoveAt(fetches, i)
                  ELSE [fetches EXCEPT ![i] = [stage |-> "profiles", got |-> all]]
  /\ UNCHANGED <<db, tab, told, lists, search, counters>>

\* fetchChatModels(chatModels:error:): whatever the search bar is doing
ProfilesAnswered(i) ==
  /\ fetches[i].stage = "profiles" /\ InTurn(i)
  /\ chatModels' = Rows(fetches[i].got) /\ shown' = chatModels'
  /\ fetches' = RemoveAt(fetches, i)
  /\ touched' = FALSE
  /\ UNCHANGED <<db, tab, told, searchBuffer, search, counters>>

-----------------------------------------------------------------------------
(* The user.                                                               *)

Leave ==
  /\ tab = "front" /\ leaves < MaxLeaves /\ leaves' = leaves + 1
  /\ tab' = "away"
  /\ UNCHANGED <<db, told, fetches, lists, search, searches>>

\* didSelectRowAt: the row that was drawn, looked up in the list of now
Open(row) ==
  /\ tab = "front" /\ leaves < MaxLeaves /\ leaves' = leaves + 1
  /\ tab' = IF row \in DOMAIN chatModels THEN "away" ELSE "trapped"
  /\ UNCHANGED <<db, told, fetches, lists, search, searches>>

\* Mutant: what is there already is not reported
ReturnUpToDate ==
  /\ tab = "away" /\ tab' = "front"
  /\ told' = [sent |-> Answer(TRUE), received |-> Answer(FALSE)]
  /\ UNCHANGED <<db, fetches, lists, search, counters>>

\* viewWillAppear: new listeners, which report all there is
Return ==
  /\ tab = "away" /\ tab' = "front"
  /\ told' = NotTold
  /\ UNCHANGED <<db, fetches, lists, search, counters>>

TypeText ==
  /\ tab = "front" /\ searches < MaxSearches /\ searches' = searches + 1
  /\ search' = [text |-> TRUE, editing |-> TRUE]
  /\ UNCHANGED <<db, tab, told, fetches, lists, leaves>>

\* searchBarSearchButtonClicked; the text is in the names of `hits`
SearchClicked(hits) ==
  /\ tab = "front" /\ search.editing /\ search.text
  /\ searchBuffer' = IF searchBuffer = << >> THEN chatModels ELSE searchBuffer
  /\ chatModels' = SelectSeq(searchBuffer', LAMBDA r : r.friend \in hits)
  /\ shown' = chatModels' /\ touched' = TRUE
  /\ UNCHANGED <<db, tab, told, fetches, search, counters>>

\* textDidChange to nothing: the buffer becomes the list, and editing ends
TextCleared ==
  /\ tab = "front" /\ search.text
  /\ search' = [text |-> FALSE, editing |-> FALSE]
  /\ chatModels' = searchBuffer /\ shown' = chatModels' /\ searchBuffer' = << >>
  /\ touched' = TRUE
  /\ UNCHANGED <<db, tab, told, fetches, counters>>

\* searchBarTextDidEndEditing: the buffer becomes the list, the table is not reloaded
EditingEnds ==
  /\ search.editing /\ tab # "trapped"
  /\ search' = [search EXCEPT !.editing = FALSE]
  /\ IF searchBuffer = << >> THEN UNCHANGED <<chatModels, searchBuffer, touched>>
     ELSE chatModels' = searchBuffer /\ searchBuffer' = << >> /\ touched' = TRUE
  /\ UNCHANGED <<db, tab, told, fetches, shown, counters>>

System ==
  \/ \E query \in {"sent", "received"} : Hear(query)
  \/ \E i \in DOMAIN fetches : SentAnswered(i) \/ ReceivedAnswered(i) \/ ProfilesAnswered(i)

Person ==
  \/ Leave \/ Return \/ TypeText \/ TextCleared \/ EditingEnds
  \/ \E row \in DOMAIN shown : Open(row)
  \/ \E hits \in SUBSET Friends : SearchClicked(hits)

World == \E f \in Friends : (\E mine \in BOOLEAN : Written(f, mine)) \/ ReadChat(f)

Next == (tab # "trapped" /\ System) \/ Person \/ World

Spec == Init /\ [][Next]_vars

\* Queries are answered and listeners called; people do as they like
FairSpec == Spec /\ WF_vars(System)

-----------------------------------------------------------------------------
(* Properties.                                                             *)

\* Nothing is in flight and the listeners have heard of everything
Settled ==
  /\ tab = "front" /\ fetches = << >>
  /\ told = [sent |-> Answer(TRUE), received |-> Answer(FALSE)]

\* README: the "chat view shows all chats with your friends sorted by latest
\* message".  Once everything is answered, whatever fetches overlapped and however
\* often the tab was left, the list is that of the database, unless the search bar
\* has changed it since.
ListCatchesUp == Settled /\ ~touched => chatModels = Rows(db) /\ shown = Rows(db)

\* README: "real time communication".  A friend's unread message gets its badge in
\* a chats tab that is in front, or the search bar has changed the list.
BadgeAppears ==
  \A f \in Friends :
    (tab = "front" /\ \E m \in DOMAIN db : db[m].friend = f /\ ~db[m].mine /\ ~db[m].seen)
      ~> (\/ tab # "front"
          \/ \A m \in DOMAIN db : db[m].friend = f => db[m].mine \/ db[m].seen
          \/ \E row \in ToSet(shown) : row.friend = f /\ row.unSeen > 0
          \/ touched)

-----------------------------------------------------------------------------
(* What one would expect of the search bar,                                 *)
(* but the code does not keep: TLC finds each violated, at the instance    *)
(* that README.md names.                                                   *)

\* With no text in the search bar, all chats are shown.
AllChatsShown == Settled /\ ~search.text => chatModels = Rows(db)

\* A tap on a row opens the chat that the row shows (didSelectRowAt indexes the
\* list, not what was drawn).
RowOpensItsChat ==
  tab = "front" =>
    \A row \in DOMAIN shown : row \in DOMAIN chatModels /\ chatModels[row].friend = shown[row].friend

=============================================================================
