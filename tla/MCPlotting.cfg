CONSTANTS
  Points = 4
  Top = 1
  MaxJobs = 3
SPECIFICATION FairSpec
INVARIANTS
  TypeOK
  TwoBatches
  FrameInOrder
PROPERTY
  Displayed
