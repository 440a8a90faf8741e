SPECIFICATION CSpec
CONSTANTS
  VAs = {a, b, c}
  Frames <- Frames2
  physical_page_numbers <- Order2
  DiskPages = 3
  NoVA = NoVA
  NoFrame = NoFrame
  MAXIMUM_TRIM_BATCH = 2
  MAXIMUM_WRITE_BATCH = 2
SYMMETRY VASymmetry
VIEW LiveContentsView
CONSTRAINTS
  NoStrayStore
  NoSlotTwice
INVARIANTS
  IndInv
  SlotInv
  ContentsAreKept
  StandbyFramesAreClean
