\* A ring of three slots, two registrations; three keys, thresholds in the
\* order of the code's 10, 200 and 500 ms; hosts that follow the protocol and
\* ones that ask for more data than there is; an interrupt line that holds a
\* reset, a speed and a setup at once.
SPECIFICATION MCOutsideSpec
CONSTANTS
  KeyData <- MCKeyData
  Awaited <- MCAwaited
  Null = "null"
  Fns = {"f"}
  KEYPAD_EFI_KEY_MAX_COUNT = 3
  MaxNotify = 2
  KeyList <- MCKeyList
  ReleaseTime = 1
  RepeatTime = 2
  LongpressTime = 3
  Deltas = {0, 1, 2}
  Kinds = {"two", "in", "out", "bad", "late"}
  EarlyTokens = TRUE
  Controllers = {"dwc", "ci"}
  Gadgets <- MCGadgets
  MaxPending = 3
INVARIANTS
  ControlInvariant
  EndpointsAreAsDescribed
PROPERTIES
  ReadersSeeFifo
  KeysReachHandler
  PressesAreAnswered
  TransferEnds
\* The host may stop using the bus, and a second start of the older
\* controller ends in a call through NULL.
CHECK_DEADLOCK FALSE
