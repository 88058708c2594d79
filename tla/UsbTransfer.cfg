\* The request queue: three transfers, chunks of two bytes.
CONSTANTS
  r1 = r1
  r2 = r2
  r3 = r3
  None = None
  Requests = {r1, r2, r3}
  Length <- MCLength
  IsIn <- MCIsIn
  MaxBulkSize = 2
SPECIFICATION FairUsbSpec
INVARIANTS
  CompletionHitsHead
  OneOwner
  AssignedOutcomeIsTrue
PROPERTIES
  ImplementsProtocol
  EveryTransferAnswered
\* After Stop nothing is left to do.
CHECK_DEADLOCK FALSE
