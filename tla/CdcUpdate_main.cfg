SPECIFICATION UpdateSpec
CONSTANTS
  WIDTH = 4
  CHUNKS = 2
  BOOT_CRASH_LIMIT = 3
  FAULTS = 3
INVARIANTS
  BootIsWhole
  AckedIsWritten
PROPERTY
  Uploaded
\* The system may stop once the image is there.
CHECK_DEADLOCK FALSE
