CONSTANTS
  ann = ann
  bob = bob
  v1 = v1
  v2 = v2
  Pair = {ann, bob}
  Views = {v1, v2}
  MaxMsgs = 2
  MaxCovers = 1
  MaxErrors = 1
SPECIFICATION Spec
SYMMETRY Symmetry
INVARIANTS
  TypeOK
  NoDoubles
  IncomingShown
  SeenWasLoaded
CHECK_DEADLOCK FALSE
