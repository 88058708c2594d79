\* The status of a transfer an OFFLINE event flushed.
CONSTANTS
  r1 = r1
  r2 = r2
  r3 = r3
  None = None
  Requests = {r1, r3}
  Length <- MCLength
  IsIn <- MCIsIn
  MaxBulkSize = 2
SPECIFICATION UsbSpec
INVARIANTS
  CompletedMeansTransferred
CHECK_DEADLOCK FALSE
