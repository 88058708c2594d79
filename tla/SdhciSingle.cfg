\* A transfer of a single block that fails.
SPECIFICATION MCBootSpec
CONSTANTS
  Trees <- MCTrees
  PageBytes = 4096
  HeadSize = 16
  DataOffset = 16
  Pointers = {"p", "q", "r"}
  Sizes = {0, 24, 4064, 5000}
  Boundaries = {8, 64, 4096}
  MaxBoots = 3
  Screens = {"gop"}
  Keypads = {"keypad"}
  TextModes <- MCTextModes
  Machines <- MCMachines
  FdSize = 1
  UefiRegionSize = 4
  StackSize = 1
  PageSize = 2
  TopOfMemory = 40
  MaxAddress = 31
  CellShift = 100
  SDHCI_MAX_CMD_RETRY = 2
  SDHCI_MAX_TRANS_RETRY = 3
  LineRetry = 2
  MaxCommands = 2
  Blocks = 6
  SDHCI_ADMA_DESC_LINE_SZ = 3
  MMC_BLK_SZ = 2
  MAX_PHASES = 5
  MX_DRV_SUPPORTED_HS200 = 3
  HcUnit = 6
  MAX_RPMB_CMDS = 3
  RpmbRetry = 3
  MaxTransBlocks = 2
  AddrWidth = 16
  MaxFaults = 1
  MaxCalls = 2
  Worlds <- MCWorlds
  BAM_FIFO_SIZE = 4
  BamDescBlocks = 1
  MaxReadBlocks = 3
  MaxWriteBlocks = 3
  MAX_ROW_NUM = 3
  RowsPerBlock = 2
  LegacyFaults = 1
  LegacyCalls = 2
  Boards <- MCBoards
INVARIANT SuccessIsTransfer
CHECK_DEADLOCK FALSE
