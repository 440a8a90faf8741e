SPECIFICATION ProgramSpec
CONSTANTS
  VAs = {a, b, c}
  Frames <- Frames2
  physical_page_numbers <- Order2
  DiskPages = 3
  NoVA = NoVA
  NoFrame = NoFrame
  MAXIMUM_TRIM_BATCH = 2
  MAXIMUM_WRITE_BATCH = 1
  Accesses = 3
PROPERTY FreedMemoryIsNotUsed
CHECK_DEADLOCK FALSE
