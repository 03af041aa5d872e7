---------------------------- MODULE StoryFeedProofs ----------------------------
(***************************************************************************)
(* Proofs about StoryFeed.  The viewers of a story are written back from   *)
(* copies of any age, so what is claimed of the collection is claimed of   *)
(* every copy on every device.                                             *)
(***************************************************************************)
EXTENDS StoryFeed, TLAPS

\* A list of viewers that the story s may have, now or in a copy: nobody twice,
\* and only friends of the owner's, as their own lists had it
GoodViewers(s, l) ==
  /\ l \in Seq(Users) /\ IsInjective(l)
  /\ \A v \in ToSet(l) : v # db[s].owner /\ <<v, db[s].owner>> \in met

\* What is u's to look at
MayOpen(u, s) == db[s].owner = u \/ <<u, db[s].owner>> \in met

\* The copies a device of u holds
GoodCopies(u, c) ==
  \A s \in DOMAIN c :
    s \in DOMAIN db /\ s \in StoryIds /\ GoodViewers(s, c[s]) /\ MayOpen(u, s)

StoriesOK ==
  \A s \in DOMAIN db : s \in StoryIds /\ db[s] \in Story /\ GoodViewers(s, db[s].viewedBy)

\* Histories: who is a friend now has been one
FriendsOK ==
  /\ status \in [Users -> [Users -> {"none", "REQUESTED", "ACCPETED"}]]
  /\ \A u, f \in Users : status[u][f] = "ACCPETED" => <<u, f>> \in met

TabsOK ==
  /\ tab \in [Users -> [screen : {"unloaded", "front", "away", "player"},
                        listener : {"none", "asked", "fresh", "on", "removed"},
                        of : SUBSET Users]]
  /\ asking \in [Users -> BOOLEAN]
  /\ \A u \in Users : tab[u].screen = "player" <=> player[u] # Nothing

FetchesOK ==
  /\ fetch \in [Users -> [Fetches -> Fetch]]
  /\ \A u \in Users : \A k \in Fetches : \A f \in fetch[u][k].uids : <<u, f>> \in met

CopiesOK ==
  /\ DOMAIN feed = Users /\ DOMAIN mine = Users /\ DOMAIN player = Users
  /\ \A u \in Users : /\ GoodCopies(u, feed[u]) /\ GoodCopies(u, mine[u])
                      /\ GoodCopies(u, player[u])

IInv == StoriesOK /\ FriendsOK /\ TabsOK /\ FetchesOK /\ CopiesOK

-----------------------------------------------------------------------------
\* The invariant has the three properties in it.
LEMMA IInvImplies == IInv => TypeOK /\ ViewersCountedOnce /\ OnlyFriendsView
  <1> SUFFICES ASSUME IInv PROVE TypeOK /\ ViewersCountedOnce /\ OnlyFriendsView
    OBVIOUS
  <1>1. ViewersCountedOnce /\ OnlyFriendsView
    BY DEF IInv, StoriesOK, GoodViewers, ViewersCountedOnce, OnlyFriendsView, Viewers
  <1>2. \A u \in Users : AreCopies(feed[u]) /\ AreCopies(mine[u]) /\ AreCopies(player[u])
    BY DEF IInv, CopiesOK, GoodCopies, GoodViewers, AreCopies
  <1> QED BY <1>1, <1>2 DEF IInv, StoriesOK, TabsOK, FetchesOK, TypeOK

\* A list of viewers without u is good with u at its end, if u may open the story.
LEMMA OneMoreViewer ==
  ASSUME NEW s, NEW l, GoodViewers(s, l), NEW u \in Users, u # db[s].owner,
         MayOpen(u, s), ~Contains(l, u)
  PROVE  GoodViewers(s, Append(l, u))
  <1>1. l \in Seq(Users) /\ Append(l, u) \in Seq(Users) /\ Len(l) \in Nat
    BY DEF GoodViewers
  <1>2. /\ DOMAIN Append(l, u) = 1 .. Len(l) + 1 /\ DOMAIN l = 1 .. Len(l)
        /\ \A i \in 1 .. Len(l) : Append(l, u)[i] = l[i] /\ l[i] # u
        /\ Append(l, u)[Len(l) + 1] = u
    BY <1>1 DEF Contains
  <1>3. IsInjective(Append(l, u))
    BY <1>1, <1>2 DEF GoodViewers, IsInjective
  <1>4. \A v \in ToSet(Append(l, u)) : v \in ToSet(l) \/ v = u
    BY <1>1, <1>2 DEF ToSet
  <1> QED BY <1>1, <1>3, <1>4 DEF GoodViewers, MayOpen

\* Stories stay, owners too, and friendships are not forgotten: what was good
\* stays good.
Grows ==
  /\ DOMAIN db \subseteq DOMAIN db' /\ \A s \in DOMAIN db : db'[s].owner = db[s].owner
  /\ met \subseteq met'

LEMMA StaysGood ==
  ASSUME Grows
  PROVE  /\ \A s \in DOMAIN db : \A l : GoodViewers(s, l) => GoodViewers(s, l)'
         /\ \A u, c : GoodCopies(u, c) => GoodCopies(u, c)'
  <1>1. \A s \in DOMAIN db : \A l : GoodViewers(s, l) => GoodViewers(s, l)'
    BY DEF Grows, GoodViewers
  <1> QED BY <1>1 DEF Grows, GoodCopies, MayOpen

\* ... of all copies, on devices that keep them.
LEMMA CopiesStay ==
  ASSUME Grows, CopiesOK, UNCHANGED <<feed, mine, player>>
  PROVE  CopiesOK'
  BY StaysGood DEF CopiesOK

\* ... and of what was asked for.
LEMMA FetchesStay ==
  ASSUME Grows, FetchesOK, UNCHANGED fetch
  PROVE  FetchesOK'
  BY DEF Grows, FetchesOK

\* Nothing that is copied changed.
LEMMA NothingGrew == UNCHANGED <<db, met>> => Grows
  BY DEF Grows

\* An answer to a query for stories of people whose stories u may open.
LEMMA LiveOfIsGood ==
  ASSUME StoriesOK, NEW u \in Users, NEW owners,
         \A f \in owners : f = u \/ <<u, f>> \in met
  PROVE  GoodCopies(u, LiveOf(owners))
  BY DEF StoriesOK, LiveOf, GoodCopies, MayOpen

\* No story.
LEMMA NothingIsGood == \A u : GoodCopies(u, Nothing)
  BY DEF GoodCopies, Nothing

\* A device that gets new copies of stories for one of its lists.
LEMMA NewCopies ==
  ASSUME IInv, Grows, NEW u \in Users, NEW c, GoodCopies(u, c)',
         \/ feed' = [feed EXCEPT ![u] = c] /\ UNCHANGED <<mine, player>>
         \/ mine' = [mine EXCEPT ![u] = c] /\ UNCHANGED <<feed, player>>
         \/ player' = [player EXCEPT ![u] = c] /\ UNCHANGED <<feed, mine>>
  PROVE  CopiesOK'
  BY StaysGood DEF IInv, CopiesOK

-----------------------------------------------------------------------------
\* Before any story is posted.
LEMMA InitIInv == Init => IInv
  <1> SUFFICES ASSUME Init PROVE IInv
    OBVIOUS
  <1>1. StoriesOK
    BY DEF Init, StoriesOK, Nothing
  <1>2. FriendsOK
    <2>1. PICK sym \in [Pairs -> {"none", "REQUESTED", "ACCPETED"}] :
            /\ status = [u \in Users |-> [f \in Users |-> IF u = f THEN "none" ELSE sym[<<u, f>>]]]
            /\ met = {p \in Pairs : sym[p] = "ACCPETED"}
      BY DEF Init
    <2>2. \A u, f \in Users : u # f => <<u, f>> \in Pairs
      BY DEF Pairs
    <2>3. \A u, f \in Users : status[u][f] \in {"none", "REQUESTED", "ACCPETED"}
      BY <2>1, <2>2
    <2>4. \A u, f \in Users : status[u][f] = "ACCPETED" => <<u, f>> \in met
      BY <2>1, <2>2
    <2> QED BY <2>1, <2>3, <2>4 DEF FriendsOK
  <1>3. TabsOK
    BY DEF Init, TabsOK
  <1>4. FetchesOK
    BY DEF Init, FetchesOK, Idle, Fetch
  <1>5. CopiesOK
    BY NothingIsGood DEF Init, CopiesOK
  <1> QED BY <1>1, <1>2, <1>3, <1>4, <1>5 DEF IInv

\* Stories that are posted and expire, friends who come and go.
LEMMA WorldIInv ==
  ASSUME IInv, World
  PROVE  IInv'
  <1>1. ASSUME NEW s \in StoryIds, Expire(s)
        PROVE  IInv'
    <2>1. Grows
      BY <1>1 DEF Expire, Grows
    <2>2. /\ DOMAIN db' = DOMAIN db
          /\ \A t \in DOMAIN db : db'[t].owner = db[t].owner /\ db'[t].viewedBy = db[t].viewedBy
      BY <1>1 DEF Expire, IInv, StoriesOK, Story
    <2>3. \A t \in DOMAIN db : db'[t] \in Story
      BY <1>1 DEF Expire, IInv, StoriesOK, Story
    <2>4. StoriesOK'
      BY <2>1, <2>2, <2>3, StaysGood DEF IInv, StoriesOK
    <2>5. UNCHANGED <<status, met, tab, asking, player, feed, mine, fetch>>
      BY <1>1 DEF Expire, device
    <2> QED
      BY <2>1, <2>4, <2>5, CopiesStay, FetchesStay DEF IInv, FriendsOK, TabsOK
  <1>2. ASSUME NEW p \in Pairs, NEW new \in {"none", "REQUESTED", "ACCPETED"}, Retie(p, new)
        PROVE  IInv'
    <2>1. /\ UNCHANGED <<db, tab, asking, player, feed, mine, fetch>>
          /\ met' = IF new = "ACCPETED" THEN met \cup {p, <<p[2], p[1]>>} ELSE met
          /\ status' = [status EXCEPT ![p[1]][p[2]] = new, ![p[2]][p[1]] = new]
      BY <1>2 DEF Retie, device
    <2>2. Grows
      BY <2>1 DEF Grows
    <2>3. p[1] \in Users /\ p[2] \in Users /\ p = <<p[1], p[2]>>
      BY DEF Pairs
    <2>4. \A u, f \in Users :
            \/ status'[u][f] = status[u][f]
            \/ status'[u][f] = new /\ <<u, f>> \in {p, <<p[2], p[1]>>}
      BY <2>1, <2>3 DEF IInv, FriendsOK
    <2>5. FriendsOK'
      BY <2>1, <2>2, <2>3, <2>4 DEF IInv, FriendsOK, Grows
    <2>6. StoriesOK'
      BY <2>1, <2>2, StaysGood DEF IInv, StoriesOK
    <2> QED
      BY <2>1, <2>2, <2>5, <2>6, CopiesStay, FetchesStay DEF IInv, TabsOK
  <1> QED BY <1>1, <1>2 DEF World

\* A fetch that goes on or ends.
LEMMA FetchSet ==
  ASSUME IInv, NEW u \in Users, NEW k \in Fetches, NEW r \in Fetch,
         fetch' = [fetch EXCEPT ![u][k] = r], \A f \in r.uids : <<u, f>> \in met,
         UNCHANGED met
  PROVE  FetchesOK'
  BY DEF IInv, FetchesOK

\* A fetch is asked for: its uids are still none.
LEMMA FetchingOK ==
  ASSUME IInv, NEW u \in Users, NEW k \in Fetches, Fetching(u, k), UNCHANGED met
  PROVE  FetchesOK' /\ asking' \in [Users -> BOOLEAN]
  <1>1. fetch[u][k] = Idle /\ fetch' = [fetch EXCEPT ![u][k].phase = "list"]
    BY DEF Fetching
  <1> DEFINE r == [fetch[u][k] EXCEPT !.phase = "list"]
  <1>2. r \in Fetch /\ r.uids = {}
    BY <1>1 DEF Idle, Fetch
  <1>3. fetch' = [fetch EXCEPT ![u][k] = r]
    BY <1>1
  <1>4. FetchesOK'
    <2> HIDE DEF r
    <2> QED BY <1>2, <1>3, FetchSet
  <1> QED BY <1>4 DEF Fetching, IInv, TabsOK

\* Steps that change neither stories nor friends nor copies.
LEMMA OnlyTabs ==
  ASSUME IInv, UNCHANGED <<db, status, met, feed, mine, player>>, TabsOK', FetchesOK'
  PROVE  IInv'
  BY NothingGrew, CopiesStay, StaysGood DEF IInv, StoriesOK, FriendsOK, Grows

\* Answers and reports.
LEMMA SystemIInv ==
  ASSUME IInv, NEW u \in Users, System(u)
  PROVE  IInv'
  <1>1. CASE Registered(u)
    <2>1. UNCHANGED <<db, status, met, feed, mine, player, fetch, asking>>
      BY <1>1 DEF Registered
    <2>2. Listed(u) \cup {u} \subseteq Users
      BY DEF Listed
    <2>3. tab' \in [Users -> [screen : {"unloaded", "front", "away", "player"},
                             listener : {"none", "asked", "fresh", "on", "removed"},
                             of : SUBSET Users]]
          /\ \A v \in Users : tab'[v].screen = tab[v].screen
      BY <1>1, <2>2 DEF Registered, IInv, TabsOK
    <2>4. TabsOK'
      BY <2>1, <2>3 DEF IInv, TabsOK
    <2> QED BY <2>1, <2>4, OnlyTabs, NothingGrew, FetchesStay DEF IInv
  <1>2. CASE FetchedMine(u)
    <2>1. /\ UNCHANGED <<db, status, met, feed, player, fetch, tab>>
          /\ asking' = [asking EXCEPT ![u] = FALSE] /\ mine' = [mine EXCEPT ![u] = LiveOf({u})]
      BY <1>2 DEF FetchedMine
    <2>2. Grows
      BY <2>1, NothingGrew
    <2>3. GoodCopies(u, LiveOf({u}))
      BY LiveOfIsGood DEF IInv
    <2>4. CopiesOK'
      BY <2>1, <2>2, <2>3, StaysGood DEF IInv, CopiesOK
    <2>5. StoriesOK' /\ FetchesOK'
      BY <2>1, <2>2, StaysGood, FetchesStay DEF IInv, StoriesOK
    <2> QED BY <2>1, <2>4, <2>5 DEF IInv, FriendsOK, TabsOK
  <1>3. ASSUME NEW k \in Fetches, Hear(u, k)
        PROVE  IInv'
    <2>1. UNCHANGED <<db, status, met, feed, mine, player>> /\ Fetching(u, k)
      BY <1>3 DEF Hear
    <2>2. FetchesOK' /\ asking' \in [Users -> BOOLEAN]
      BY <2>1, FetchingOK
    <2>3. tab' \in [Users -> [screen : {"unloaded", "front", "away", "player"},
                             listener : {"none", "asked", "fresh", "on", "removed"},
                             of : SUBSET Users]]
          /\ \A v \in Users : tab'[v].screen = tab[v].screen
      BY <1>3 DEF Hear, IInv, TabsOK
    <2>4. TabsOK'
      BY <2>1, <2>2, <2>3 DEF IInv, TabsOK
    <2> QED BY <2>1, <2>2, <2>4, OnlyTabs
  <1>4. ASSUME NEW k \in Fetches, FetchedList(u, k)
        PROVE  IInv'
    <2>1. UNCHANGED <<db, status, met, tab, feed, mine, asking, player>>
      BY <1>4 DEF FetchedList
    <2>2. Accepted(u) \subseteq Users /\ \A f \in Accepted(u) : <<u, f>> \in met
      BY DEF Accepted, IInv, FriendsOK
    <2> DEFINE r == IF Accepted(u) = {} THEN Idle ELSE [phase |-> "stories", uids |-> Accepted(u)]
    <2>3. r \in Fetch /\ \A f \in r.uids : <<u, f>> \in met
      BY <2>2 DEF Fetch, Idle
    <2>4. fetch' = [fetch EXCEPT ![u][k] = r]
      BY <1>4 DEF FetchedList
    <2>5. FetchesOK'
      <3> HIDE DEF r
      <3> QED BY <2>1, <2>3, <2>4, FetchSet
    <2>6. TabsOK'
      BY <2>1 DEF IInv, TabsOK
    <2> QED BY <2>1, <2>5, <2>6, OnlyTabs
  <1>5. ASSUME NEW k \in Fetches, FetchedStories(u, k)
        PROVE  IInv'
    <2> DEFINE uids == fetch[u][k].uids
    <2>1. /\ UNCHANGED <<db, status, met, tab, mine, asking, player>>
          /\ feed' = [feed EXCEPT ![u] = LiveOf(uids)]
          /\ fetch' = [fetch EXCEPT ![u][k] = Idle]
      BY <1>5 DEF FetchedStories
    <2>2. Grows
      BY <2>1, NothingGrew
    <2>3. GoodCopies(u, LiveOf(uids))
      BY LiveOfIsGood DEF IInv, FetchesOK
    <2>4. CopiesOK'
      BY <2>1, <2>2, <2>3, StaysGood DEF IInv, CopiesOK
    <2>5. FetchesOK'
      <3>1. Idle \in Fetch /\ Idle.uids = {}
        BY DEF Idle, Fetch
      <3> QED BY <2>1, <3>1, FetchSet
    <2>6. StoriesOK'
      BY <2>1, <2>2, StaysGood DEF IInv, StoriesOK
    <2> QED BY <2>1, <2>4, <2>5, <2>6 DEF IInv, FriendsOK, TabsOK
  <1> QED BY <1>1, <1>2, <1>3, <1>4, <1>5 DEF System

\* A player is opened with copies that the device holds.
LEMMA OpenedIInv ==
  ASSUME IInv, NEW u \in Users, NEW c, GoodCopies(u, c), Opened(u, c)
  PROVE  IInv'
  <1>1. /\ UNCHANGED <<db, status, met, feed, mine, fetch, asking>>
        /\ player' = [player EXCEPT ![u] = c] /\ c # Nothing
        /\ tab' = [tab EXCEPT ![u].screen = "player",
                              ![u].listener = IF Listening(u) THEN "removed" ELSE @]
    BY DEF Opened, Left
  <1>2. Grows
    BY <1>1, NothingGrew
  <1>3. CopiesOK'
    BY <1>1, <1>2, StaysGood DEF IInv, CopiesOK
  <1>4. /\ tab' \in [Users -> [screen : {"unloaded", "front", "away", "player"},
                              listener : {"none", "asked", "fresh", "on", "removed"},
                              of : SUBSET Users]]
        /\ tab'[u].screen = "player"
        /\ \A v \in Users \ {u} : tab'[v].screen = tab[v].screen
    BY <1>1 DEF IInv, TabsOK
  <1>5. player'[u] = c /\ \A v \in Users \ {u} : player'[v] = player[v]
    BY <1>1 DEF IInv, CopiesOK
  <1>6. TabsOK'
    BY <1>1, <1>4, <1>5 DEF IInv, TabsOK
  <1>7. StoriesOK' /\ FetchesOK'
    BY <1>1, <1>2, StaysGood, FetchesStay DEF IInv, StoriesOK
  <1> QED BY <1>1, <1>3, <1>6, <1>7 DEF IInv, FriendsOK

\* A view is written back: the copy of the player, one viewer longer.
LEMMA ViewIInv ==
  ASSUME IInv, NEW u \in Users, NEW s \in StoryIds, View(u, s)
  PROVE  IInv'
  <1>0. PICK l : l = Append(player[u][s], u)
    OBVIOUS
  <1>1. /\ UNCHANGED <<status, met, feed, mine, player, fetch, asking, tab>>
        /\ db' = [db EXCEPT ![s].viewedBy = l]
        /\ s \in DOMAIN player[u] /\ u # db[s].owner /\ ~Contains(player[u][s], u)
    BY <1>0 DEF View, device
  <1>2. GoodViewers(s, player[u][s]) /\ MayOpen(u, s) /\ s \in DOMAIN db
    BY <1>1 DEF IInv, CopiesOK, GoodCopies
  <1>3. GoodViewers(s, l)
    BY <1>0, <1>1, <1>2, OneMoreViewer
  <1>4. l \in Seq(Users)
    BY <1>3 DEF GoodViewers
  <1>5. db[s] \in Story
    BY <1>2 DEF IInv, StoriesOK
  <1>6. /\ DOMAIN db' = DOMAIN db /\ \A t \in DOMAIN db \ {s} : db'[t] = db[t]
        /\ db'[s] \in Story /\ db'[s].owner = db[s].owner /\ db'[s].viewedBy = l
    BY <1>1, <1>2, <1>4, <1>5 DEF Story
  <1>7. Grows
    BY <1>1, <1>6 DEF Grows
  <1>8. StoriesOK'
    <2>1. GoodViewers(s, l)'
      BY <1>2, <1>3, <1>7, StaysGood
    <2>2. GoodViewers(s, db[s].viewedBy)'
      BY <2>1, <1>6 DEF GoodViewers
    <2>3. ASSUME NEW t \in DOMAIN db \ {s}
          PROVE  GoodViewers(t, db[t].viewedBy)'
      <3>1. GoodViewers(t, db[t].viewedBy)
        BY DEF IInv, StoriesOK
      <3>2. met \subseteq met' /\ db'[t].owner = db[t].owner /\ db'[t].viewedBy = db[t].viewedBy
        BY <1>6, <1>7 DEF Grows
      <3> QED BY <3>1, <3>2 DEF GoodViewers
    <2> QED BY <1>6, <2>2, <2>3 DEF IInv, StoriesOK
  <1> QED BY <1>1, <1>7, <1>8, CopiesStay, FetchesStay DEF IInv, FriendsOK, TabsOK

\* A story is posted: nobody had a copy.
LEMMA PostIInv ==
  ASSUME IInv, NEW u \in Users, NEW s \in StoryIds, Post(u, s)
  PROVE  IInv'
  <1>1. /\ UNCHANGED <<status, met, feed, mine, player, fetch, asking, tab>>
        /\ s \notin DOMAIN db
        /\ db' = [t \in DOMAIN db \cup {s} |->
                    IF t = s THEN [owner |-> u, live |-> TRUE, viewedBy |-> << >>] ELSE db[t]]
    BY DEF Post, device
  <1>2. /\ DOMAIN db' = DOMAIN db \cup {s} /\ \A t \in DOMAIN db : db'[t] = db[t]
        /\ db'[s] = [owner |-> u, live |-> TRUE, viewedBy |-> << >>]
    BY <1>1
  <1>3. Grows
    BY <1>1, <1>2 DEF Grows
  <1>4. db'[s] \in Story /\ GoodViewers(s, db[s].viewedBy)'
    <2>1. db'[s].viewedBy = << >> /\ << >> \in Seq(Users) /\ DOMAIN << >> = {}
      BY <1>2
    <2>2. IsInjective(<< >>) /\ ToSet(<< >>) = {}
      BY <2>1 DEF IsInjective, ToSet
    <2> QED BY <1>2, <2>1, <2>2 DEF Story, GoodViewers
  <1>5. StoriesOK'
    <2>1. ASSUME NEW t \in DOMAIN db
          PROVE  GoodViewers(t, db[t].viewedBy)'
      <3>1. GoodViewers(t, db[t].viewedBy)
        BY DEF IInv, StoriesOK
      <3>2. met \subseteq met' /\ db'[t] = db[t]
        BY <1>2, <1>3 DEF Grows
      <3> QED BY <3>1, <3>2 DEF GoodViewers
    <2> QED BY <1>2, <1>4, <2>1 DEF IInv, StoriesOK
  <1> QED BY <1>1, <1>3, <1>5, CopiesStay, FetchesStay DEF IInv, FriendsOK, TabsOK

\* What a person does.
LEMMA PersonIInv ==
  ASSUME IInv, NEW u \in Users, Person(u)
  PROVE  IInv'
  <1>1. ASSUME NEW k \in Fetches, Load(u, k)
        PROVE  IInv'
    <2>1. UNCHANGED <<db, status, met, feed, mine, player>> /\ Fetching(u, k)
      BY <1>1 DEF Load
    <2>2. FetchesOK' /\ asking' \in [Users -> BOOLEAN]
      BY <2>1, FetchingOK
    <2>3. /\ tab' = [tab EXCEPT ![u].screen = "front", ![u].listener = "asked"]
          /\ tab[u].screen = "unloaded"
      BY <1>1 DEF Load
    <2>4. TabsOK'
      BY <2>1, <2>2, <2>3 DEF IInv, TabsOK
    <2> QED BY <2>1, <2>2, <2>4, OnlyTabs
  <1>2. CASE Leave(u)
    <2>1. /\ UNCHANGED <<db, status, met, feed, mine, player, fetch, asking>>
          /\ tab[u].screen = "front"
          /\ tab' = [tab EXCEPT ![u].screen = "away",
                                ![u].listener = IF Listening(u) THEN "removed" ELSE @]
      BY <1>2 DEF Leave, Left
    <2>2. TabsOK'
      BY <2>1 DEF IInv, TabsOK
    <2> QED BY <2>1, <2>2, OnlyTabs, NothingGrew, FetchesStay DEF IInv
  <1>3. CASE Return(u)
    <2>1. /\ UNCHANGED <<db, status, met, feed, mine, player, fetch, asking>>
          /\ tab[u].screen = "away" /\ tab' = [tab EXCEPT ![u].screen = "front"]
      BY <1>3 DEF Return
    <2>2. TabsOK'
      BY <2>1 DEF IInv, TabsOK
    <2> QED BY <2>1, <2>2, OnlyTabs, NothingGrew, FetchesStay DEF IInv
  <1>4. CASE Dismiss(u)
    <2>1. /\ UNCHANGED <<db, status, met, feed, mine, fetch, asking>>
          /\ tab' = [tab EXCEPT ![u].screen = "front"]
          /\ player' = [player EXCEPT ![u] = Nothing]
      BY <1>4 DEF Dismiss
    <2>2. Grows
      BY <2>1, NothingGrew
    <2>3. CopiesOK'
      BY <2>1, <2>2, StaysGood, NothingIsGood DEF IInv, CopiesOK
    <2>4. player'[u] = Nothing /\ \A v \in Users \ {u} : player'[v] = player[v]
      BY <2>1 DEF IInv, CopiesOK
    <2>5. TabsOK'
      BY <2>1, <2>4 DEF IInv, TabsOK
    <2>6. StoriesOK' /\ FetchesOK'
      BY <2>1, <2>2, StaysGood, FetchesStay DEF IInv, StoriesOK
    <2> QED BY <2>1, <2>3, <2>5, <2>6 DEF IInv, FriendsOK
  <1>5. ASSUME NEW f \in Users, OpenFriends(u, f)
        PROVE  IInv'
    <2> DEFINE c == Restrict(feed[u], {s \in DOMAIN feed[u] : db[s].owner = f})
    <2>1. GoodCopies(u, c)
      BY DEF IInv, CopiesOK, GoodCopies, Restrict
    <2> QED BY <1>5, <2>1, OpenedIInv DEF OpenFriends
  <1>6. CASE OpenMine(u)
    BY <1>6, OpenedIInv DEF OpenMine, IInv, CopiesOK
  <1> QED BY <1>1, <1>2, <1>3, <1>4, <1>5, <1>6, PostIInv, ViewIInv DEF Person

\* Every step.
LEMMA StepIInv == IInv /\ [Next]_vars => IInv'
  <1> SUFFICES ASSUME IInv, [Next]_vars PROVE IInv'
    OBVIOUS
  <1>1. CASE UNCHANGED vars
    <2>1. UNCHANGED <<db, status, met, feed, mine, player, fetch, tab, asking>>
      BY <1>1 DEF vars, device
    <2>2. TabsOK'
      BY <2>1 DEF IInv, TabsOK
    <2> QED BY <2>1, <2>2, OnlyTabs, NothingGrew, FetchesStay DEF IInv
  <1> QED BY <1>1, WorldIInv, SystemIInv, PersonIInv DEF Next

\* The claim about every copy holds along every behaviour.
THEOREM CopiesGood == Spec => []IInv
  BY InitIInv, StepIInv, PTL DEF Spec

\* The collection, the tabs and all copies keep their types; a player has stories
\* exactly while it is open.
THEOREM FeedTypes == Spec => []TypeOK
  BY CopiesGood, IInvImplies, PTL

\* addViews never counts a viewer twice, however old the copy it writes back, for any
\* number of users, devices, stories and fetches.
THEOREM CountedOnce == Spec => []ViewersCountedOnce
  BY CopiesGood, IInvImplies, PTL

\* Whoever is among a story's viewers had its owner as an ACCPETED friend, and is not
\* its owner.
THEOREM FriendsView == Spec => []OnlyFriendsView
  BY CopiesGood, IInvImplies, PTL
================================================================================
