SPECIFICATION SearchSpec
CONSTANTS
  VAs = {a, b, c, d, e}
  Frames <- Frames1
  physical_page_numbers <- Order1
  DiskPages = 6
  NoVA = NoVA
  NoFrame = NoFrame
  MAXIMUM_WRITE_BATCH = 3
INVARIANTS
  NoFreeSlotIsMissed
  OnlyFirstSlotTwice
