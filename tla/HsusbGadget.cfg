\* Usb.c on the ChipIdea controller: two transfers, chunks of one byte.
CONSTANTS
  r1 = r1
  r2 = r2
  r3 = r3
  None = None
  Requests = {r1, r2}
  Length <- MCLength
  IsIn <- MCIsIn
  MaxBulkSize = 1
SPECIFICATION FairHsusbSpec
INVARIANTS
  HsusbInvariant
PROPERTIES
  ResetFreesTheQueue
\* After Stop nothing is left to do.
CHECK_DEADLOCK FALSE
