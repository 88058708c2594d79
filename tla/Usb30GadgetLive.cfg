\* A host that selects a configuration only while the endpoints are at rest.
CONSTANTS
  r1 = r1
  r2 = r2
  r3 = r3
  None = None
  Requests = {r1, r2}
  Length <- MCLength
  IsIn <- MCIsIn
  MaxBulkSize = 1
  MaxPacket = 2
  HostReconfigures = FALSE
  MaxEvents = 3
  MaxHostEvents = 3
SPECIFICATION FairUsb30Spec
PROPERTY ResetEndsTransfer
\* After Stop nothing is left to do.
CHECK_DEADLOCK FALSE
