SPECIFICATION FairSpec
CONSTANTS
  Friends = {ann, bob}
  Known = {ann, bob}
  MaxMessages = 3
  MaxFetches = 2
  MaxLeaves = 1
  MaxSearches = 1
INVARIANTS
  ListCatchesUp
PROPERTIES
  BadgeAppears
CHECK_DEADLOCK FALSE
