CONSTANTS
  NSlots = 2
  SlotSize = 1
  MaxFrames = 4
  Reader = {spectrum}
SPECIFICATION Spec
PROPERTY
  RetryAfterRecovery
