------------------------------- MODULE StoryFeed -------------------------------
(***************************************************************************)
(* The stories tab and the views of a story.  A device holds COPIES of the *)
(* stories it fetched, with the list of viewers each had then; the player  *)
(* it opens holds a copy of these.  To report a view it writes its own     *)
(* copy back as the whole document, one viewer longer.  The tab fetches    *)
(* when it is loaded and whenever its listener hears of a change.          *)
(***************************************************************************)
EXTENDS Naturals, Sequences, FiniteSets, SequencesExt, Functions

CONSTANTS
  Users,      \* the users, each on one device
  Posters,    \* bound: those who post stories
  Watchers,   \* bound: those who open the stories tab
  StoryIds,   \* the stories that may be posted
  Fetches,    \* fetches of friends' stories a device may have in flight
  MaxLeaves,  \* bound, per user: times the tab is left for another one
  MaxPlays,   \* bound, per user: times a player is opened
  MaxTies     \* bound: changes of who is whose friend

ASSUME FeedUsers == Posters \subseteq Users /\ Watchers \subseteq Users
ASSUME FeedBounds == MaxLeaves \in Nat /\ MaxPlays \in Nat /\ MaxTies \in Nat

VARIABLES
  db,       \* the collection: id -> owner, whether 24 hours have not passed, viewedBy
  status,   \* status[u][f]: f's entry in u's friends list, or "none"
  tab,      \* tab[u]: what is in front of u, and the tab's listener
  told,     \* told[u]: the stories as u's listener last heard of them
  feed,     \* feed[u]: tableStories, id -> viewedBy as fetched
  mine,     \* mine[u]: myStories
  fetch,    \* fetch[u][k]: fetchMyFriendsStories in flight, with its uids
  asking,   \* asking[u]: a fetchMyStories is in flight
  player,   \* player[u]: the stories the open player was given
  met,      \* history: <<u, f>> when u's list has ever had f as ACCPETED
  leaves, plays, ties   \* counters against the bounds

counters == <<leaves, plays, ties>>
device == <<tab, told, feed, mine, fetch, asking, player>>
vars == <<db, status, device, met, counters>>

Story == [owner : Users, live : BOOLEAN, viewedBy : Seq(Users)]

\* What a device holds of the stories it fetched: id -> viewedBy
AreCopies(c) == DOMAIN c \subseteq StoryIds /\ \A s \in DOMAIN c : c[s] \in Seq(Users)

Nothing == << >>

Idle == [phase |-> "idle", uids |-> {}]
Fetch == [phase : {"idle", "list", "stories"}, uids : SUBSET Users]

Pairs == {p \in Users \X Users : p[1] # p[2]}

-----------------------------------------------------------------------------
(* What queries answer.                                                    *)

Accepted(u) == {f \in Users : status[u][f] = "ACCPETED"}
Listed(u) == {f \in Users : status[u][f] # "none"}

\* getStoriesWithUID, getStoryWithUID: those that have not expired
LiveOf(owners) ==
  LET ids == {s \in DOMAIN db : db[s].owner \in owners /\ db[s].live}
  IN  [s \in ids |-> db[s].viewedBy]

\* What a listener on the stories of `owners` reports on: expired ones too
AllOf(owners) == Restrict(db, {s \in DOMAIN db : db[s].owner \in owners})

-----------------------------------------------------------------------------
Init ==
  /\ db = Nothing
  /\ \E sym \in [Pairs -> {"none", "REQUESTED", "ACCPETED"}] :
       /\ \A p \in Pairs : sym[p] = sym[<<p[2], p[1]>>]
       /\ status = [u \in Users |-> [f \in Users |-> IF u = f THEN "none" ELSE sym[<<u, f>>]]]
       /\ met = {p \in Pairs : sym[p] = "ACCPETED"}
  /\ tab = [u \in Users |-> [screen |-> "unloaded", listener |-> "none", of |-> {}]]
  /\ told = [u \in Users |-> Nothing]
  /\ feed = [u \in Users |-> Nothing] /\ mine = [u \in Users |-> Nothing]
  /\ fetch = [u \in Users |-> [k \in Fetches |-> Idle]]
  /\ asking = [u \in Users |-> FALSE]
  /\ player = [u \in Users |-> Nothing]
  /\ leaves = [u \in Users |-> 0] /\ plays = [u \in Users |-> 0] /\ ties = 0

-----------------------------------------------------------------------------
(* The world: stories are posted and expire, friendships change.           *)

\* saveStory, once the asset is uploaded
Post(u, s) ==
  /\ u \in Posters /\ s \notin DOMAIN db
  /\ db' = [t \in DOMAIN db \cup {s} |->
              IF t = s THEN [owner |-> u, live |-> TRUE, viewedBy |-> << >>] ELSE db[t]]
  /\ UNCHANGED <<status, device, met, counters>>

\* expiryDate passes; nothing is deleted
Expire(s) ==
  /\ s \in DOMAIN db /\ db[s].live
  /\ db' = [db EXCEPT ![s].live = FALSE]
  /\ UNCHANGED <<status, device, met, counters>>

Retie(p, new) ==
  /\ ties < MaxTies /\ ties' = ties + 1
  /\ status' = [status EXCEPT ![p[1]][p[2]] = new, ![p[2]][p[1]] = new]
  /\ met' = IF new = "ACCPETED" THEN met \cup {p, <<p[2], p[1]>>} ELSE met
  /\ UNCHANGED <<db, device, leaves, plays>>

-----------------------------------------------------------------------------
(* The tab.                                                                *)

\* fetchMyStories and fetchMyFriendsStories, from any place that calls both
Fetching(u, k) ==
  /\ fetch[u][k] = Idle
  /\ fetch' = [fetch EXCEPT ![u][k].phase = "list"]
  /\ asking' = [asking EXCEPT ![u] = TRUE]

\* viewDidLoad; the listener is asked for, its friends list still to be read
Load(u, k) ==
  /\ u \in Watchers /\ tab[u].screen = "unloaded"
  /\ tab' = [tab EXCEPT ![u].screen = "front", ![u].listener = "asked"]
  /\ Fetching(u, k)
  /\ UNCHANGED <<db, status, told, feed, mine, player, met, counters>>

\* registerForStories: ALL uids of the list, and one's own, once there is a
\* list.  (A user with nobody in it has an empty list, or none.)
Registered(u) ==
  /\ tab[u].listener = "asked"
  /\ \/ /\ Listed(u) = {}
        /\ tab' = [tab EXCEPT ![u].listener = "none"]
     \/ tab' = [tab EXCEPT ![u].listener = "fresh", ![u].of = Listed(u) \cup {u}]
  /\ UNCHANGED <<db, status, told, feed, mine, fetch, asking, player, met, counters>>

Listening(u) == tab[u].listener \in {"fresh", "on"}

\* Mutant: the first snapshot fetches, a change does not
HearFirst(u, k) ==
  /\ tab[u].listener = "fresh" \/ (tab[u].listener = "on" /\ told[u] # AllOf(tab[u].of))
  /\ tab' = [tab EXCEPT ![u].listener = "on"]
  /\ told' = [told EXCEPT ![u] = AllOf(tab[u].of)]
  /\ IF tab[u].listener = "fresh" THEN Fetching(u, k) ELSE UNCHANGED <<fetch, asking>>
  /\ UNCHANGED <<db, status, feed, mine, player, met, counters>>

\* The listener's first snapshot, and every change: changeDetected
Hear(u, k) ==
  /\ tab[u].listener = "fresh" \/ (tab[u].listener = "on" /\ told[u] # AllOf(tab[u].of))
  /\ tab' = [tab EXCEPT ![u].listener = "on"]
  /\ told' = [told EXCEPT ![u] = AllOf(tab[u].of)]
  /\ Fetching(u, k)
  /\ UNCHANGED <<db, status, feed, mine, player, met, counters>>

\* viewWillDisappear: a listener that is there is removed, for good
Left(u, screen) ==
  tab' = [tab EXCEPT ![u].screen = screen,
                     ![u].listener = IF Listening(u) THEN "removed" ELSE @]

Leave(u) ==
  /\ tab[u].screen = "front"
  /\ leaves[u] < MaxLeaves /\ leaves' = [leaves EXCEPT ![u] = @ + 1]
  /\ Left(u, "away")
  /\ UNCHANGED <<db, status, told, feed, mine, fetch, asking, player, met, plays, ties>>

\* Coming back runs no code
Return(u) ==
  /\ tab[u].screen = "away"
  /\ tab' = [tab EXCEPT ![u].screen = "front"]
  /\ UNCHANGED <<db, status, told, feed, mine, fetch, asking, player, met, counters>>

-----------------------------------------------------------------------------
(* The fetches.                                                            *)

\* Mutant: the status filter is missing
FetchedListUnfiltered(u, k) ==
  /\ fetch[u][k].phase = "list"
  /\ fetch' = [fetch EXCEPT ![u][k] =
                 IF Listed(u) = {} THEN Idle ELSE [phase |-> "stories", uids |-> Listed(u)]]
  /\ UNCHANGED <<db, status, tab, told, feed, mine, asking, player, met, counters>>

\* With no ACCPETED friend the chain ends here: fetchUserModels never calls back
FetchedList(u, k) ==
  /\ fetch[u][k].phase = "list"
  /\ fetch' = [fetch EXCEPT ![u][k] =
                 IF Accepted(u) = {} THEN Idle
                 ELSE [phase |-> "stories", uids |-> Accepted(u)]]
  /\ UNCHANGED <<db, status, tab, told, feed, mine, asking, player, met, counters>>

\* The profiles and then the stories were answered: fetchFriendsStory
FetchedStories(u, k) ==
  /\ fetch[u][k].phase = "stories"
  /\ feed' = [feed EXCEPT ![u] = LiveOf(fetch[u][k].uids)]
  /\ fetch' = [fetch EXCEPT ![u][k] = Idle]
  /\ UNCHANGED <<db, status, tab, told, mine, asking, player, met, counters>>

FetchedMine(u) ==
  /\ asking[u] /\ asking' = [asking EXCEPT ![u] = FALSE]
  /\ mine' = [mine EXCEPT ![u] = LiveOf({u})]
  /\ UNCHANGED <<db, status, tab, told, feed, fetch, player, met, counters>>

-----------------------------------------------------------------------------
(* The player (its timing is StoryPlayer's).                               *)

Opened(u, copies) ==
  /\ tab[u].screen = "front" /\ copies # Nothing
  /\ plays[u] < MaxPlays /\ plays' = [plays EXCEPT ![u] = @ + 1]
  /\ player' = [player EXCEPT ![u] = copies]
  /\ Left(u, "player")
  /\ UNCHANGED <<db, status, told, feed, mine, fetch, asking, met, leaves, ties>>

\* didSelectRowAt: the row of one friend; showMyStoriesTapped
OpenFriends(u, f) == Opened(u, Restrict(feed[u], {s \in DOMAIN feed[u] : db[s].owner = f}))
OpenMine(u) == Opened(u, mine[u])

\* Mutant: the copy's viewers are not looked at
ViewUnchecked(u, s) ==
  /\ s \in DOMAIN player[u]
  /\ u # db[s].owner
  /\ db' = [db EXCEPT ![s].viewedBy = Append(player[u][s], u)]
  /\ UNCHANGED <<status, device, met, counters>>

\* addViews, from playStoryAt: the player's copy is written back as the document
View(u, s) ==
  /\ s \in DOMAIN player[u]
  /\ u # db[s].owner /\ ~Contains(player[u][s], u)
  /\ db' = [db EXCEPT ![s].viewedBy = Append(player[u][s], u)]
  /\ UNCHANGED <<status, device, met, counters>>

\* Mutant: the player keeps its stories when it is dismissed
DismissKeeping(u) ==
  /\ tab[u].screen = "player"
  /\ tab' = [tab EXCEPT ![u].screen = "front"]
  /\ UNCHANGED <<db, status, told, feed, mine, fetch, asking, player, met, counters>>

Dismiss(u) ==
  /\ tab[u].screen = "player"
  /\ tab' = [tab EXCEPT ![u].screen = "front"]
  /\ player' = [player EXCEPT ![u] = Nothing]
  /\ UNCHANGED <<db, status, told, feed, mine, fetch, asking, met, counters>>

-----------------------------------------------------------------------------
System(u) ==
  \/ Registered(u) \/ FetchedMine(u)
  \/ \E k \in Fetches : Hear(u, k) \/ FetchedList(u, k) \/ FetchedStories(u, k)

Person(u) ==
  \/ \E k \in Fetches : Load(u, k)
  \/ \E s \in StoryIds : Post(u, s) \/ View(u, s)
  \/ Leave(u) \/ Return(u) \/ OpenMine(u) \/ Dismiss(u)
  \/ \E f \in Users : OpenFriends(u, f)

World ==
  \/ \E s \in StoryIds : Expire(s)
  \/ \E p \in Pairs, new \in {"none", "REQUESTED", "ACCPETED"} : Retie(p, new)

Next == World \/ \E u \in Users : System(u) \/ Person(u)

Spec == Init /\ [][Next]_vars

\* Queries answer and listeners are told
FairSpec ==
  Spec /\ \A u \in Users :
            /\ WF_vars(Registered(u)) /\ WF_vars(FetchedMine(u))
            /\ \A k \in Fetches : /\ WF_vars(FetchedList(u, k))
                                  /\ WF_vars(FetchedStories(u, k))
            /\ WF_vars(\E k \in Fetches : Hear(u, k))

-----------------------------------------------------------------------------
(* Properties.                                                             *)

(* The collection holds stories with viewers, a device copies of these; a  *)
(* player has stories exactly while it is open.                            *)
TypeOK ==
  /\ \A s \in DOMAIN db : s \in StoryIds /\ db[s] \in Story
  /\ tab \in [Users -> [screen : {"unloaded", "front", "away", "player"},
                        listener : {"none", "asked", "fresh", "on", "removed"},
                        of : SUBSET Users]]
  /\ \A u \in Users : AreCopies(feed[u]) /\ AreCopies(mine[u]) /\ AreCopies(player[u])
  /\ fetch \in [Users -> [Fetches -> Fetch]] /\ asking \in [Users -> BOOLEAN]
  /\ \A u \in Users : tab[u].screen = "player" <=> player[u] # Nothing

Viewers(s) == ToSet(db[s].viewedBy)

(* However often and from however old a copy a story is replayed, nobody   *)
(* is counted twice among its viewers.                                     *)
ViewersCountedOnce == \A s \in DOMAIN db : IsInjective(db[s].viewedBy)

(* Whoever is among the viewers of a story is not its owner and had him as *)
(* an ACCPETED friend: a pending request opens no stories.                 *)
OnlyFriendsView ==
  \A s \in DOMAIN db : \A v \in Viewers(s) : v # db[s].owner /\ <<v, db[s].owner>> \in met

\* s can be seen, as far as its age and u's friends go
Visible(u, s) == s \in DOMAIN db /\ db[s].live /\ db[s].owner \in Accepted(u)

\* u is listening to the stories of the owner of s
Follows(u, s) == Listening(u) /\ s \in DOMAIN db /\ db[s].owner \in tab[u].of

(* A story of a friend appears in the tab of everybody who listens, as     *)
(* long as nobody's friends change: a fetch in between may have left it    *)
(* out, and a change of friends starts no other.                           *)
NewStoryAppears ==
  \A u \in Users : \A s \in StoryIds :
    (Visible(u, s) /\ Follows(u, s)) ~>
      (s \in DOMAIN feed[u] \/ ~Visible(u, s) \/ ~Follows(u, s) \/ ties > 0)

-----------------------------------------------------------------------------
(* What one would expect of the tab and of views,                           *)
(* but the code does not keep: TLC finds each violated, at the instance    *)
(* that README.md names.                                                   *)

(* A story of a friend appears in the stories tab that is in front.        *)
FrontTabCatchesUp ==
  \A u \in Users : \A s \in StoryIds :
    (tab[u].screen = "front" /\ Visible(u, s)) ~>
      (tab[u].screen # "front" \/ s \in DOMAIN feed[u] \/ ~Visible(u, s))

(* A view that was counted stays counted.                                  *)
ViewsKept == [][\A s \in DOMAIN db : Viewers(s) \subseteq Viewers(s)']_vars

(* Nobody views a story whose 24 hours are over.                           *)
ExpiredUnseen ==
  [][\A s \in DOMAIN db : ~db[s].live => db'[s].viewedBy = db[s].viewedBy]_vars
=============================================================================
