SPECIFICATION Spec
CONSTANTS
  VAs = {a, b, c}
  Frames <- Frames2
  physical_page_numbers <- Order2
  DiskPages = 3
  NoVA = NoVA
  NoFrame = NoFrame
  MAXIMUM_TRIM_BATCH = 2
  MAXIMUM_WRITE_BATCH = 1
SYMMETRY VASymmetry
VIEW LiveView
INVARIANTS
  TypeOK
  FrameInOnePlace
  StatusTellsPlace
  FramesAndPagesAgree
  FormatTellsStatus
  RescueSucceeds
  SlotsOfPagesAreInUse
  NoSlotLeaks
  RoomWhenBlocked
PROPERTIES
  FramesMoveThroughLists
  PagesFollowLifecycle
  FaultingEntryIsStable
  FramesFollowLifeCycle
