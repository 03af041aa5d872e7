CONSTANTS
  ann = ann
  cho = cho
  x = x
  f1 = f1
  f2 = f2
  Users = {ann, cho}
  Posters = {ann, cho}
  Watchers = {ann}
  StoryIds = {x}
  Fetches = {f1, f2}
  MaxLeaves = 1
  MaxPlays = 2
  MaxTies = 2
SPECIFICATION FairSpec
INVARIANTS
  TypeOK
  ViewersCountedOnce
  OnlyFriendsView
PROPERTIES
  NewStoryAppears
CHECK_DEADLOCK FALSE
