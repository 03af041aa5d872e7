--------------------------------- MODULE Outbox ---------------------------------
(***************************************************************************)
(* What the app relies on when it writes a document and does not wait: the *)
(* write is kept, it reaches the backend after the writes its user made    *)
(* before it, and it is given up only when the backend took or refused it. *)
(* It may reach the backend more than once.                                *)
(***************************************************************************)
EXTENDS Naturals

CONSTANTS
  Users,   \* who may be signed in
  Batches  \* the writes that may be made, numbered in the order of the calls

VARIABLES
  called,    \* the writes called for and not kept yet
  queue,     \* queue[u]: the writes of u that are kept
  taken,     \* the writes the backend has taken
  refused    \* the writes the backend has refused

outbox == <<called, queue, taken, refused>>

Init ==
  /\ called = {} /\ queue = [u \in Users |-> {}]
  /\ taken = {} /\ refused = {}

Call(u, b) ==
  /\ called' = called \cup {<<u, b>>}
  /\ UNCHANGED <<queue, taken, refused>>

\* The app ended: what was called for and not kept is lost
Forget == called' = {} /\ UNCHANGED <<queue, taken, refused>>

\* Kept, behind all that its user has waiting
Keep(u, b) ==
  /\ <<u, b>> \in called /\ called' = called \ {<<u, b>>}
  /\ \A c \in queue[u] : c < b
  /\ queue' = [queue EXCEPT ![u] = @ \cup {b}]
  /\ UNCHANGED <<taken, refused>>

\* The backend takes a write, for the first time or again
Take(u, b) ==
  /\ b \in queue[u] /\ \A c \in queue[u] : c < b => c \in taken
  /\ taken' = taken \cup {b}
  /\ UNCHANGED <<called, queue, refused>>

First(u, b) == b \in queue[u] /\ \A c \in queue[u] : b <= c

Acknowledge(u, b) ==
  /\ First(u, b) /\ b \in taken
  /\ queue' = [queue EXCEPT ![u] = @ \ {b}]
  /\ UNCHANGED <<called, taken, refused>>

Refuse(u, b) ==
  /\ First(u, b)
  /\ refused' = refused \cup {b}
  /\ queue' = [queue EXCEPT ![u] = @ \ {b}]
  /\ UNCHANGED <<called, taken>>

Next ==
  \/ Forget
  \/ \E u \in Users, b \in Batches :
       Call(u, b) \/ Keep(u, b) \/ Take(u, b) \/ Acknowledge(u, b) \/ Refuse(u, b)

Spec == Init /\ [][Next]_outbox
=================================================================================
