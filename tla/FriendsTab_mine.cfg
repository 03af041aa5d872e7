CONSTANTS
  ann = ann
  bob = bob
  me = me
  s1 = s1
  Users = {ann, bob, me}
  Me = me
  Slots = {s1}
  DocIds = {1}
  MaxTaps = 2
  MaxErrors = 1
  MaxKills = 0
  MaxFetches = 2
  MaxLeaves = 1
  MaxSearches = 1
  MaxUpsets = 1
SPECIFICATION StartsSpec
INVARIANTS
  RowsCatchUp
PROPERTIES
  RequestArrives
CHECK_DEADLOCK FALSE
