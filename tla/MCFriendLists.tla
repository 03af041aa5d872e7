---- MODULE MCFriendLists ----
(***************************************************************************)
(* Model-checking companion of FriendLists: symmetry, and a start from two *)
(* users who already went through request and acceptance, so that few taps *)
(* reach what can happen to a friendship.                                  *)
(***************************************************************************)
EXTENDS FriendLists, TLC

Symmetry == Permutations(Slots) \cup Permutations(Users)

FriendDoc(f) == 1 :> <<[uid |-> f, status |-> "ACCPETED"]>>

InitFriends ==
  \E u, f \in Users :
    /\ u # f
    /\ store = [v \in Users |-> CASE v = u -> FriendDoc(f) [] v = f -> FriendDoc(u)
                                  [] OTHER -> << >>]
    /\ ops = [s \in Slots |-> Idle]
    /\ shown = [v \in Users |-> {}]
    /\ results = [v \in Users |-> {}]
    /\ trapped = {}
    /\ asked = {<<u, f>>} /\ agreed = {<<f, u>>} /\ blocked = {}
    /\ taps = 0 /\ errs = 0 /\ kills = 0

FriendsSpec == InitFriends /\ [][Next]_vars
====
