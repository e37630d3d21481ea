CONSTANT
  Display = {"signal"}
SPECIFICATION FairSpec
PROPERTY
  ExitCompletes
