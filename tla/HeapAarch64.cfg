\* The head of a block as AARCH64 lays it out.
SPECIFICATION HeapSpec
CONSTANTS
  PageBytes = 4096
  HeadSize = 32
  DataOffset = 28
  Pointers = {"p", "q"}
  Sizes = {0, 24, 5000}
  Boundaries = {8, 64}
INVARIANT RegionsAreReclaimed
