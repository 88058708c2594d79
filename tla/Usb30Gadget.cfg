\* Usb.c on the DesignWare controller, any host: two transfers
\* of one endpoint.
CONSTANTS
  r1 = r1
  r2 = r2
  r3 = r3
  None = None
  Requests = {r2, r3}
  Length <- MCLength
  IsIn <- MCIsIn
  MaxBulkSize = 1
  MaxPacket = 2
  HostReconfigures = TRUE
  MaxEvents = 3
  MaxHostEvents = 4
SPECIFICATION Usb30Spec
INVARIANTS
  Usb30Invariant
  EventHitsItsTransfer
\* After Stop nothing is left to do.
CHECK_DEADLOCK FALSE
