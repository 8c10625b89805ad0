SPECIFICATION FairAccessSpec
CONSTANTS
  Width = 32
  Pipes = 4
  Queues = 8
  CntlFields <- MCCntlFields
  Binary <- MCBinary
  Regs <- MCRegs
  ActiveWords <- MCActiveWords
  Words <- MCWords
  Initial <- MCInitial
  Restless <- MCRestless
INVARIANTS AccessTypeOK WholeRecords SteadyShown SelectionCleared
PROPERTIES DumpEnds HqdSpec
\* The command may have terminated the process.
CHECK_DEADLOCK FALSE
