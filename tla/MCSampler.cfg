CONSTANTS
  NSlots = 2
  SlotSize = 2
  MaxFrames = 5
  Reader = {spectrum, signal}
SPECIFICATION FairSpec
INVARIANTS
  TypeOK
  NoTornCopy
  Recovered
PROPERTIES
  SlidingWindow
  ReadersServed
  OverrunRecovered
