SPECIFICATION FairSpec
CONSTANTS
  Uids = {ann, bob}
  Titles <- MCTitles
  Owner = ann
  Devices = {d1, d2}
  Slots = {1, 2}
  MaxBegun = 2
  MaxFailures = 1
INVARIANTS
  PictureOpens
  FieldsKept
  PostsShowTheirs
PROPERTIES
  PostIsSaved
CHECK_DEADLOCK FALSE
