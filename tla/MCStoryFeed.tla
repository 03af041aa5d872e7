---- MODULE MCStoryFeed ----
EXTENDS StoryFeed, TLC

Symmetry == Permutations(Posters \cap Watchers) \cup Permutations(Watchers \ Posters) \cup Permutations(StoryIds)
====
