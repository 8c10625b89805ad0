SPECIFICATION Spec
CONSTANTS
  Width = 5
  p1 = p1
  p2 = p2
  Procs <- OneProc
  Regs <- MCRegs
  GfxCntl <- MCGfxCntl
  Banked <- MCBanked
  PowerOn <- MCPowerOn
  Commands <- MCUnknownField
INVARIANT ScopeExitRuns
\* The last process may have ended.
CHECK_DEADLOCK FALSE
