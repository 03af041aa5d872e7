CONSTANTS
  ann = ann
  bob = bob
  cho = cho
  s1 = s1
  s2 = s2
  Users = {ann, bob, cho}
  Slots = {s1, s2}
  DocIds = {1, 2}
  MaxTaps = 2
  MaxErrors = 0
  MaxKills = 0
SPECIFICATION FriendsSpec
SYMMETRY Symmetry
PROPERTIES
  OthersLeaveBlockAlone
CHECK_DEADLOCK FALSE
