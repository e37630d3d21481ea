\* The threads end, and then nothing is left to do.
CONSTANTS
  Thread = {killed, alike, stopping}
  MayStop = {stopping}
SPECIFICATION FairSpec
CHECK_DEADLOCK FALSE
INVARIANTS
  ThreadTypeOK
  CleanEnd
PROPERTIES
  JobsComplete
  KillTerminates
