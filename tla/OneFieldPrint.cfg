SPECIFICATION Spec
CONSTANTS
  Width = 5
  p1 = p1
  p2 = p2
  Procs <- OneProc
  Regs <- MCOneField
  GfxCntl <- MCGfxCntl
  Banked <- MCBanked
  PowerOn <- MCPowerOn
  Commands <- MCReads
INVARIANT DecodeFaithful
\* The last process may have ended.
CHECK_DEADLOCK FALSE
