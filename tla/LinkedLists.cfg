SPECIFICATION Spec
CONSTANTS
  f1 = f1
  f2 = f2
  Frames <- Frames2
  physical_page_numbers <- Order2
  MAXIMUM_TRIM_BATCH = 2
  MAXIMUM_WRITE_BATCH = 2
  NoFrame = NoFrame
SYMMETRY FrameSymmetry
INVARIANTS
  LinksAreInverse
  HandledFrameIsUnlinked
  WordTellsList
PROPERTY ListsAreQueues
