\* Data that fills whole packets.
SPECIFICATION MCOutsideSpec
CONSTANTS
  KeyData <- MCKeyData
  Awaited <- MCAwaited
  Null = "null"
  Fns = {"f"}
  KEYPAD_EFI_KEY_MAX_COUNT = 3
  MaxNotify = 2
  KeyList <- MCKeyList
  ReleaseTime = 1
  RepeatTime = 2
  LongpressTime = 3
  Deltas = {0, 1, 2}
  Kinds = {"zlp"}
  EarlyTokens = FALSE
  Controllers = {"dwc", "ci"}
  Gadgets <- MCGadgets
  MaxPending = 3
INVARIANT SupportedNotStalled
CHECK_DEADLOCK FALSE
