SPECIFICATION FairSpec
CONSTANTS
  Accounts = {ann, bob}
  Slots = {s1}
  None = None
  MaxTaps = 4
  MaxErrors = 1
  MaxKills = 1
  MaxResets = 1
  MaxEdits = 1
  MaxCovers = 1
INVARIANTS
  TypeOK
  LateReadsAgree
  HomeIsRegistered
PROPERTIES
  LogoutLeaves
  SignInEnters
CHECK_DEADLOCK FALSE
