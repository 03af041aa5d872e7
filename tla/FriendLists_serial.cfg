CONSTANTS
  ann = ann
  bob = bob
  cho = cho
  s1 = s1
  Users = {ann, bob, cho}
  Slots = {s1}
  DocIds = {1}
  MaxTaps = 4
  MaxErrors = 0
  MaxKills = 0
SPECIFICATION SerialSpec
SYMMETRY Symmetry
INVARIANTS
  Mirrored
PROPERTIES
  ImplementsFriendship
  RemovesOnlyItsRow
CHECK_DEADLOCK FALSE
