SPECIFICATION FairSpec
CONSTANTS
  Width = 5
  p1 = p1
  p2 = p2
  Procs <- OneProc
  Regs <- MCBankRegs
  GfxCntl <- MCGfxCntl
  Banked <- MCBanked
  PowerOn <- MCPowerOn
  Commands <- MCBankCommands
  Selections <- MCSelections
INVARIANTS TypeOK InRequestedBank WriteEchoed
PROPERTIES CommandEnds BankedSpec
\* The process may have ended.
CHECK_DEADLOCK FALSE
