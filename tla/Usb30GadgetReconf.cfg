\* A host that selects a configuration at any time.
CONSTANTS
  r1 = r1
  r2 = r2
  r3 = r3
  None = None
  Requests = {r1, r2}
  Length <- MCLength
  IsIn <- MCIsIn
  MaxBulkSize = 1
  MaxPacket = 2
  HostReconfigures = TRUE
  MaxEvents = 2
  MaxHostEvents = 3
SPECIFICATION FairUsb30Spec
PROPERTY ResetEndsTransfer
\* After Stop nothing is left to do.
CHECK_DEADLOCK FALSE
