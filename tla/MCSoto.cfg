CONSTANT
  Display = {"signal"}
SPECIFICATION FairSpec
INVARIANTS
  TypeOK
  NothingUsedAfterDestroyed
  CleanExit
  ShowsToldFirst
PROPERTIES
  GenericThreads
  HeardExitCompletes
