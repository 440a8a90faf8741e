SPECIFICATION Spec
CONSTANTS
  IndexValues = 16
  Frames <- AllFrames
  UsedSlots <- AllSlots
INVARIANT WordIsEntry
