---- MODULE MCFriendsTab ----
(***************************************************************************)
(* Model-checking companion of FriendsTab: the tab starts from empty lists *)
(* or, the first tap taken for spent, with one friend in it, so that the   *)
(* fetches of the next change ask for other profiles than those before.    *)
(***************************************************************************)
EXTENDS FriendsTab, TLC
CONSTANTS ann, bob, me, s1

FriendDoc(f) == 1 :> <<[uid |-> f, status |-> "ACCPETED"]>>

StartWithFriend ==
  /\ store = [v \in Users |-> CASE v = me -> FriendDoc(bob) [] v = bob -> FriendDoc(me)
                                [] OTHER -> << >>]
  /\ ops = [s \in Slots |-> Idle]
  /\ shown = [v \in Users |-> {}]
  /\ results = [v \in Users |-> {}]
  /\ trapped = {}
  /\ asked = {<<bob, me>>} /\ agreed = {<<me, bob>>} /\ blocked = {}
  /\ taps = 1 /\ errs = 0 /\ kills = 0
  /\ tab = "unloaded" /\ listening = FALSE /\ told = << >>
  /\ fetches = << >> /\ searchBuffer = {} /\ passed = 0 /\ rowsFrom = "newest"
  /\ leaves = 0 /\ searches = 0

(* Errors, leaves and taps on the search bar share one bound, so that it   *)
(* can be low while each of them still meets every state of the lists.     *)
CONSTANT MaxUpsets

Upsets == errs + leaves + searches

StartsSpec ==
  /\ TabInit \/ StartWithFriend
  /\ [][TabNext /\ Upsets' <= MaxUpsets]_tabVars
  /\ \A s \in Slots : WF_tabVars(ChainStepHere(s))
  /\ WF_tabVars(TabSystem)
====
