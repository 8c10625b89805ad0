SPECIFICATION Spec
CONSTANTS
  Width = 5
  p1 = p1
  p2 = p2
  Procs <- TwoProcs
  Regs <- MCPlainRegs
  GfxCntl <- MCGfxCntl
  Banked <- MCNoBanks
  PowerOn <- MCPowerOn
  Commands <- MCShared
SYMMETRY Symmetry
INVARIANTS QuiescentClear SelectionOwned FieldsWhole
\* The last process may have ended.
CHECK_DEADLOCK FALSE
