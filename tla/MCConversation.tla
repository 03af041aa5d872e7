---- MODULE MCConversation ----
EXTENDS Conversation, TLC

Symmetry == Permutations(Views)
====
