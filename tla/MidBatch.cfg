SPECIFICATION FewSpec
CONSTANTS
  VAs = {a, b, c, d, e, f}
  Frames <- Frames3
  physical_page_numbers <- Order3
  DiskPages = 5
  NoVA = NoVA
  NoFrame = NoFrame
  MAXIMUM_TRIM_BATCH = 3
  MAXIMUM_WRITE_BATCH = 2
  MaxFaults = 7
SYMMETRY VASymmetry
VIEW FewView
CONSTRAINTS
  NoStrayStore
  RoomForABatch
INVARIANTS
  IndInv
  SlotInv
  ContentsAreKept
  NoSlotTwice
  
CHECK_DEADLOCK FALSE
