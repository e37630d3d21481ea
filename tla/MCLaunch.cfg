CONSTANTS
  UintSize = 16
  SchedMin = 1
  SchedMax = 5
  DefaultRate = 12
  DefaultScale = 2
  Numbers <- const_Numbers
  MaxArgs = 2
  Second = 12
  LongSize = 256
  BufferSize = 4
  Rates = {4, 6, 12}
  StartupDelay = 1
  PlotPeriod = 9
  ReadTime = 1
  CopyTime = 1
  FillTime = 3
  DrawTime = 4
  Processors = {1, 2}
  Horizon = 40
SPECIFICATION FairSpec
INVARIANTS
  TypeOK
  LastMentionCounts
  BufferFilled
  SamplingMeetsDeadlines
  SoundOptionsWork
PROPERTY
  RunEnds
CHECK_DEADLOCK FALSE
