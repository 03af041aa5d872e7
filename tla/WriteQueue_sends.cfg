SPECIFICATION FairSpec
CONSTANTS
  Users = {ann, bob}
  NoUser = NoUser
  PipelineSize = 2
  MaxWrites = 3
  MaxChanges = 2
  MaxFaults = 1
INVARIANTS
  WriteTypeOK
  NoAssertFails
  TakenFromItsAuthor
PROPERTIES
  ImplementsOutbox
  EveryWriteLeaves
CHECK_DEADLOCK FALSE
