SPECIFICATION Spec
CONSTANTS
  NUMBER_OF_PHYSICAL_PAGES = 64
  NUMBER_OF_DISK_PAGES = 64
  vaBase <- Base
  UnsignedBits = 20
  NULL = NULL
INVARIANTS
  AccessStaysInPage
  EntryLeadsBack
