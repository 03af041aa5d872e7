------------------------------ MODULE Friendship ------------------------------
(***************************************************************************)
(* What the friends screens promise, without lists, documents or chains:   *)
(* how two users stand to each other is ONE fact that both see from their  *)
(* own side, and each button changes it for both at once.                  *)
(***************************************************************************)
CONSTANT Users

VARIABLE tie   \* tie[u][f]: how f stands in the eyes of u

Ties == {"none", "REQUEST_SEND", "REQUESTED", "ACCPETED", "UNBLOCK", "BLOCKED"}

\* The same fact seen from the other side
Mirror(t) ==
  CASE t = "REQUEST_SEND" -> "REQUESTED"
    [] t = "REQUESTED"    -> "REQUEST_SEND"
    [] t = "UNBLOCK"      -> "BLOCKED"
    [] t = "BLOCKED"      -> "UNBLOCK"
    [] OTHER              -> t

Set(u, f, t) ==
  tie' = [tie EXCEPT ![u][f] = t, ![f][u] = Mirror(t)]

Init == tie = [u \in Users |-> [f \in Users |-> "none"]]

Ask(u, f)     == u # f /\ tie[u][f] = "none" /\ Set(u, f, "REQUEST_SEND")
Accept(u, f)  == tie[u][f] = "REQUESTED" /\ Set(u, f, "ACCPETED")
Drop(u, f)    == tie[u][f] \in {"REQUEST_SEND", "REQUESTED", "ACCPETED"} /\ Set(u, f, "none")
Block(u, f)   == tie[u][f] = "ACCPETED" /\ Set(u, f, "UNBLOCK")
Unblock(u, f) == tie[u][f] = "UNBLOCK" /\ Set(u, f, "ACCPETED")

Next ==
  \E u, f \in Users :
    Ask(u, f) \/ Accept(u, f) \/ Drop(u, f) \/ Block(u, f) \/ Unblock(u, f)

Spec == Init /\ [][Next]_tie

(* How two users stand is one of the six ties.                             *)
TypeOK == tie \in [Users -> [Users -> Ties]]

\* The two users never disagree about how they stand.
Agree == \A u, f \in Users : tie[f][u] = Mirror(tie[u][f])
=============================================================================
