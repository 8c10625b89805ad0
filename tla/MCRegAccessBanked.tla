------------------------- MODULE MCRegAccessBanked -------------------------
(***************************************************************************)
(* An instance of RegAccessBanked: a name that two plain registers have, a *)
(* banked register, and a register without fields.                         *)
(***************************************************************************)
EXTENDS RegAccessBanked, MCRegAccess

MCBankRegs ==
  <<Spec1("CP_HQD", 7, TwoFields), Spec1("TCC_CTRL", 8, TwoFields), CntlSpec,
    Spec1("TCC_CTRL", 6, TwoFields), Spec1("GRBM_STATUS", 5, <<>>)>>

\* More than any of the four fields can hold; and what they hold of it.
SelOver == [PIPEID |-> {1, 2}, MEID |-> {0, 4}, VMID |-> {1}, QUEUEID |-> {3}]
SelCut  == [PIPEID |-> {1}, MEID |-> {0}, VMID |-> {}, QUEUEID |-> {}]

\* One selection more than the commands make, to see it left alone.
MCSelections ==
  {NoSel, Sel1, Sel2, SelCut, [PIPEID |-> {1}, MEID |-> {}, VMID |-> {0}, QUEUEID |-> {}]}

\* Every kind of command; unknown registers and fields, a name that srbm
\* commands find twice, values and selections wider than their fields.
MCBankCommands ==
  { Cmd("read", NoSel, "TCC_CTRL", "", {}),
    Cmd("read", NoSel, "CP_HQD", "", {}),
    Cmd("read", NoSel, "NO_SUCH_REG", "", {}),
    Cmd("write", NoSel, "TCC_CTRL", "", {1, 4}),
    Cmd("write", NoSel, "TCC_CTRL", "HI", {0, 2}),
    Cmd("write", NoSel, "GRBM_STATUS", "", {2}),
    Cmd("write", NoSel, "GRBM_STATUS", "NO_SUCH_FIELD", {1}),
    Cmd("write", NoSel, "CP_HQD", "LO", {1, 3}),
    Cmd("srbm_read", SelOver, "CP_HQD", "", {}),
    Cmd("srbm_write", Sel1, "CP_HQD", "", {2}),
    Cmd("srbm_write", Sel2, "CP_HQD", "NO_SUCH_FIELD", {0}),
    Cmd("srbm_write", Sel1, "TCC_CTRL", "LO", {1}),
    Cmd("srbm_write", SelOver, "CP_HQD", "LO", {1, 2}),
    Cmd("srbm_write", Sel2, "CP_HQD", "HI", {0}) }
=============================================================================
