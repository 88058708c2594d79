\* Two uses of a clock at once, four of a source; up to two failures while
\* the display starts or stops, one per call of a chip; up to six requests to
\* the RPM.
SPECIFICATION MCBoardSpec
CONSTANTS
  Devices = {1, 2}
  Transfers <- MCTransfers
  out_blk_sz = 4
  out_fifo_sz = 8
  in_fifo_sz = 8
  MaxReadChunk = 4
  Vectors = {"i2c", "usb"}
  Timer = "timer"
  Periods = {0, 1}
  CounterSize = 8
  MaxTicks = 6
  MaxGap = 2
  PwmTable <- MCPwmTable
  PwmPeriods <- MCPwmPeriods
  PwmMaxExp = 3
  PwmDuty = 2
  PmCalls <- MCPmCalls
  Pm8921Faults = 1
  Pm8921Calls = 2
  PLdos = {8}
  NamedLdos = {8, 9}
  LastLdo = 9
  Peripherals <- MCPeripherals
  Channels <- MCChannels
  Pm8x41Ops <- MCOps
  Pm8x41Faults = 1
  Pm8x41Calls = 2
  LabibbConfigs <- MCLabibbConfigs
  Calls <- FlushedCalls
  Trees <- MCTrees
  MaxCount = 2
  MaxVotes = 4
  Panels <- MCPanels
  Named <- MCNamed
  Hardware <- MCHardware
  MaxFaults = 2
  fifo_size = 5
  HdrLen = 2
  ReqLens <- MCReqLens
  AckLen = 1
  IndexWidth = 1024
  MaxRequests = 6
INVARIANTS
  TransfersAreWhole
  InterruptsFindTheirHandler
  DelayIsLongEnough
  SuccessReachedTheChip
  ChargerRestored
  BiasIsConfigured
  PwmSettingsAreBest
  EachWorldReadsTheOther
  UsedClocksRun
  TouchedWhenReady
  PictureIsShown
  OffOrKept
  ResponseAnswersRequest
PROPERTY EveryCallReturns
\* A refused write waits for ever for an acknowledgement, and a display that
\* was stopped stays so.
CHECK_DEADLOCK FALSE
