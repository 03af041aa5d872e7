------------------------------ MODULE FriendsTab ------------------------------
(***************************************************************************)
(* The friends tab of one user, composed with the friends lists.  Its      *)
(* listener is registered when the tab is loaded and removed when it is    *)
(* first left; each report starts a fetch of two queries, the list and the *)
(* profiles of those in it, and fetches overlap.  The rows are what the    *)
(* buttons of FriendLists act on: `shown[Me]`.                             *)
(***************************************************************************)
EXTENDS FriendLists

CONSTANTS
  Me,           \* the user whose tab this is; the others look whenever they like
  MaxFetches,   \* bound: fetches in flight
  MaxLeaves,    \* bound: times the tab is left
  MaxSearches   \* bound: times the search bar's buttons are tapped

ASSUME TabBounds ==
  /\ Me \in Users
  /\ MaxFetches \in Nat \ {0} /\ MaxLeaves \in Nat /\ MaxSearches \in Nat

VARIABLES
  tab,           \* "unloaded", "front" or "away"
  listening,     \* the listener is registered
  told,          \* what it last heard: nothing yet, or one snapshot of the list
  fetches,       \* the fetches in flight, oldest first
  searchBuffer,  \* the rows kept aside by the search bar
  passed,        \* history: the fetches 1..passed have been overtaken by younger ones
  rowsFrom,      \* history: what filled the rows, a fetch ("newest", or "overtaken" by
                 \* a younger one that was answered before), or an "other" event
  leaves, searches   \* counters against the bounds

screen ==
  <<tab, listening, told, fetches, searchBuffer, passed, rowsFrom, leaves, searches>>
lists == <<store, ops, results, trapped, history, taps, kills>>
tabVars == <<vars, screen>>

\* A fetch waits for the list, or, with the entries found there, for profiles
NewFetch == [stage |-> "list", rows |-> {}]

\* The entries fetchFriendsList keeps of the first document of a snapshot
RowsIn(docs) ==
  IF DOMAIN docs = {} THEN {}
  ELSE {e \in ToSet(docs[Min(DOMAIN docs)]) : e.status # "BLOCKED"}

Visible == RowsIn(store[Me])

TabInit ==
  /\ Init
  /\ tab = "unloaded" /\ listening = FALSE /\ told = << >>
  /\ fetches = << >> /\ searchBuffer = {} /\ passed = 0 /\ rowsFrom = "newest"
  /\ leaves = 0 /\ searches = 0

-----------------------------------------------------------------------------
(* Listener and fetches.                                                   *)

\* viewDidLoad
Load ==
  /\ tab = "unloaded"
  /\ tab' = "front" /\ listening' = TRUE
  /\ UNCHANGED <<vars, told, fetches, searchBuffer, passed, rowsFrom, leaves, searches>>

\* Mutant: a report that comes while a fetch is in flight starts none
HearWhenIdle ==
  /\ listening /\ told # <<store[Me]>>
  /\ told' = <<store[Me]>>
  /\ fetches' = IF fetches = << >> THEN <<NewFetch>> ELSE fetches
  /\ UNCHANGED <<vars, tab, listening, searchBuffer, passed, rowsFrom, leaves, searches>>

\* changeDetected, detectFriendsChange: any snapshot starts a fetch
Hear ==
  /\ listening /\ Len(fetches) < MaxFetches
  /\ told # <<store[Me]>>
  /\ told' = <<store[Me]>>
  /\ fetches' = Append(fetches, NewFetch)
  /\ UNCHANGED <<vars, tab, listening, searchBuffer, passed, rowsFrom, leaves, searches>>

(***************************************************************************)
(* The fetch and the listener ask the same query, and Firestore answers    *)
(* both from one view, the listener first: while it is registered, a fetch *)
(* is answered with what it has told.                                      *)
(***************************************************************************)
Answer == IF listening THEN told[1] ELSE store[Me]
CanAnswer == listening => told # << >>

UIDs(rows) == {e.uid : e \in rows}

\* Answers to the same query come in the order it was asked; the lists are all
\* one query, profiles of different users are not
InTurn(i) ==
  \A j \in 1 .. i - 1 :
    \/ fetches[j].stage # fetches[i].stage
    \/ fetches[i].stage = "profiles" /\ UIDs(fetches[j].rows) # UIDs(fetches[i].rows)

(* The i-th fetch fills the rows and is over.  It overtakes all older ones, *)
(* unless a younger one overtook it.                                       *)
Finished(i) ==
  /\ rowsFrom' = IF i <= passed THEN "overtaken" ELSE "newest"
  /\ passed' = IF i <= passed THEN passed - 1 ELSE i - 1
  /\ fetches' = RemoveAt(fetches, i)

\* The list is there and somebody is in it: the profiles are asked for;
\* otherwise fetchError empties the table at once
ListAnswered(i) ==
  /\ fetches[i].stage = "list" /\ InTurn(i) /\ CanAnswer
  /\ LET rows == RowsIn(Answer) IN
     IF rows = {}
     THEN shown' = [shown EXCEPT ![Me] = {}] /\ Finished(i)
     ELSE /\ fetches' = [fetches EXCEPT ![i] = [stage |-> "profiles", rows |-> rows]]
          /\ UNCHANGED <<shown, passed, rowsFrom>>
  /\ UNCHANGED <<lists, errs, tab, listening, told, searchBuffer, leaves, searches>>

\* fetchSuccess: whatever the search bar is doing, and its buffer stays
ProfilesAnswered(i) ==
  /\ fetches[i].stage = "profiles" /\ InTurn(i)
  /\ shown' = [shown EXCEPT ![Me] = fetches[i].rows] /\ Finished(i)
  /\ UNCHANGED <<lists, errs, tab, listening, told, searchBuffer, leaves, searches>>

\* fetchError
FetchFailed(i) ==
  /\ errs < MaxErrors /\ errs' = errs + 1
  /\ shown' = [shown EXCEPT ![Me] = {}] /\ rowsFrom' = "other"
  /\ passed' = IF i <= passed THEN passed - 1 ELSE passed
  /\ fetches' = RemoveAt(fetches, i)
  /\ UNCHANGED <<lists, tab, listening, told, searchBuffer, leaves, searches>>

TabSystem ==
  \/ Hear
  \/ \E i \in DOMAIN fetches : ListAnswered(i) \/ ProfilesAnswered(i) \/ FetchFailed(i)

-----------------------------------------------------------------------------
(* The user at the tab.                                                    *)

\* viewWillDisappear
Leave ==
  /\ tab = "front" /\ leaves < MaxLeaves /\ leaves' = leaves + 1
  /\ tab' = "away" /\ listening' = FALSE /\ told' = << >>
  /\ UNCHANGED <<vars, fetches, searchBuffer, passed, rowsFrom, searches>>

\* There is no viewWillAppear: nothing is registered or fetched again
Return ==
  /\ tab = "away" /\ tab' = "front"
  /\ UNCHANGED <<vars, listening, told, fetches, searchBuffer, passed, rowsFrom, leaves,
                 searches>>

\* searchBarSearchButtonClicked; the text is in the names of `hits`
SearchClicked(hits) ==
  /\ tab = "front" /\ searches < MaxSearches /\ searches' = searches + 1
  /\ searchBuffer' = IF searchBuffer = {} THEN shown[Me] ELSE searchBuffer
  /\ shown' = [shown EXCEPT ![Me] = {e \in searchBuffer' : e.uid \in hits}]
  /\ rowsFrom' = "other"
  /\ UNCHANGED <<lists, errs, tab, listening, told, fetches, passed, leaves>>

\* searchBarCancelButtonClicked: the one way to fetch without a listener (the
\* bound leaves room for a fetch of the listener's)
SearchCancelled ==
  /\ tab = "front" /\ searches < MaxSearches /\ searches' = searches + 1
  /\ Len(fetches) < MaxFetches - 1 /\ fetches' = Append(fetches, NewFetch)
  /\ searchBuffer' = {}
  /\ UNCHANGED <<vars, tab, listening, told, passed, rowsFrom, leaves>>

\* My app stopped: the tab of the next one has not been loaded
TabGone ==
  /\ tab' = "unloaded" /\ listening' = FALSE /\ told' = << >>
  /\ fetches' = << >> /\ searchBuffer' = {} /\ passed' = 0 /\ rowsFrom' = "newest"
  /\ UNCHANGED <<leaves, searches>>

-----------------------------------------------------------------------------
(* The composition: a user taps when no chain is in flight, on whatever    *)
(* his screen shows.  (Killed apps are the business of FriendLists; here an *)
(* app ends by its own trap only.)                                         *)

ChainStepHere(s) ==
  /\ ChainStep(s)
  /\ IF ReadTraps(s) /\ ops[s].dev = Me THEN TabGone ELSE UNCHANGED screen

TapMine == Quiet /\ tab = "front" /\ UserStep(Me) /\ UNCHANGED screen

TapTheirs(u) == u # Me /\ Quiet /\ Fresh(u) /\ UserStep(u) /\ UNCHANGED screen

LookTheirs(u) == u # Me /\ ScreenStep(u) /\ UNCHANGED screen

SearchUsers == tab = "front" /\ Search(Me) /\ UNCHANGED screen

TabUser ==
  \/ Load \/ Leave \/ Return \/ SearchCancelled
  \/ \E hits \in SUBSET Users : SearchClicked(hits)

TabNext ==
  \/ \E s \in Slots : ChainStepHere(s)
  \/ TapMine \/ SearchUsers
  \/ \E u \in Users : TapTheirs(u) \/ LookTheirs(u)
  \/ TabSystem \/ TabUser

TabSpec == TabInit /\ [][TabNext]_tabVars

\* Queries are answered and the listener is called; users do as they like
FairTabSpec ==
  /\ TabSpec
  /\ \A s \in Slots : WF_tabVars(ChainStepHere(s))
  /\ WF_tabVars(TabSystem)

-----------------------------------------------------------------------------
(* Properties.                                                             *)

\* Nothing is in flight and the listener has heard of everything
Settled == listening /\ fetches = << >> /\ told = <<store[Me]>>

(* README: "default view of a list of friends".  Of a tab that listens, and *)
(* when everything has been answered: if its rows came from a fetch that   *)
(* no younger one overtook, they are its list as it is, an empty list too. *)
(* However many fetches overlapped, in whatever order profiles came, and   *)
(* whatever the search bar did before, nothing else makes them wrong, as   *)
(* long as no query has failed.                                            *)
RowsCatchUp ==
  Settled /\ rowsFrom = "newest" /\ errs = 0 => shown[Me] = Visible

\* Somebody takes a request or friendship between us back
TakenBack(f) ==
  \E s \in Slots : /\ ops[s] # Idle /\ ops[s].act \in {"CANCEL", "UNFRIEND"}
                   /\ {ops[s].dev, ops[s].peer} = {Me, f}

(* A request arrives: through both halves of the sender's chain, whatever  *)
(* list it finds, and through the listener and its fetch, it gets a row in *)
(* the tab of a user who has not left it, unless something failed or the   *)
(* request is taken back.                                                  *)
RequestArrives ==
  \A f \in Users \ {Me} :
    (\E s \in Slots : ops[s] # Idle /\ ops[s].act = "SEND" /\ ops[s].dev = f /\ ops[s].peer = Me)
      ~> (\/ \E e \in shown[Me] : e.uid = f
          \/ ~listening \/ errs > 0 \/ TakenBack(f))

-----------------------------------------------------------------------------
(* What one would expect of the tab,                                       *)
(* but the code does not keep: TLC finds each violated, at the instance    *)
(* that README.md names.                                                   *)

(* The same whichever fetch filled the rows.  One that was overtaken while *)
(* it waited for profiles comes last and undoes what the younger one       *)
(* showed: fetchSuccess does not know which fetch it ends.                 *)
RowsAlwaysCatchUp ==
  Settled /\ rowsFrom # "other" /\ errs = 0 => shown[Me] = Visible

(* In front means up to date, however often the tab was left.              *)
FrontTabCatchesUp ==
  []<>(tab # "front" \/ rowsFrom # "newest" \/ errs > 0 \/ fetches # << >>
       \/ shown[Me] = Visible)
=============================================================================
