SPECIFICATION Spec
CONSTANTS
  Blocks <- MCBlocks
  Lists <- MCLists
  Kernels <- MCKernels
  None = None
  MaxRuns = 2
INVARIANTS TypeOK Faithful IndexLast DoneWhole
\* The last run ended.
CHECK_DEADLOCK FALSE
