CONSTANTS
  ann = ann
  bob = bob
  s1 = s1
  s2 = s2
  Users = {ann, bob}
  Slots = {s1, s2}
  DocIds = {1, 2}
  MaxTaps = 3
  MaxErrors = 1
  MaxKills = 1
SPECIFICATION Spec
SYMMETRY Symmetry
INVARIANTS
  TypeOK
  FriendsByConsent
  BlockSides
  RequestsWereMade
