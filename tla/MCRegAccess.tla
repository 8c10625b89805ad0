---------------------------- MODULE MCRegAccess ----------------------------
(***************************************************************************)
(* Small instances of RegAccess: five bit registers, three of them, and    *)
(* SRBM_GFX_CNTL with its four fields.                                     *)
(***************************************************************************)
EXTENDS RegAccess, TLC

CONSTANTS p1, p2

OneProc  == {p1}
TwoProcs == {p1, p2}
Symmetry == Permutations(TwoProcs)

FieldAt(mask, shift) == [mask |-> mask, shift |-> shift]
Spec1(name, offset, fields) == [name |-> name, offset |-> offset, fields |-> fields]

CntlSpec == Spec1("SRBM_GFX_CNTL", 9,
  [QUEUEID |-> FieldAt({4}, 4), VMID |-> FieldAt({3}, 3),
   PIPEID |-> FieldAt({0, 1}, 0), MEID |-> FieldAt({2}, 2)])

TwoFields == [LO |-> FieldAt({0, 1}, 0), HI |-> FieldAt({2, 3, 4}, 2)]

\* A banked and a plain register, and the selector in a later block.
MCRegs == <<Spec1("CP_HQD", 7, TwoFields), Spec1("TCC_CTRL", 8, TwoFields), CntlSpec>>

\* Without banks: what a selection is left by does not depend on them.
MCPlainRegs == <<Spec1("TCC_CTRL", 8, TwoFields), CntlSpec>>
MCNoBanks   == {}

\* The plain register has one field, away from bit zero.
MCOneField == <<Spec1("TCC_CTRL", 8, [HI |-> FieldAt({2, 3}, 2)]), CntlSpec>>

MCBanked  == {7}
MCGfxCntl == 9
MCPowerOn == {0, 3}

----------------------------------------------------------------------------
NoSel == [k \in SelFields |-> {}]
Sel1  == [PIPEID |-> {}, MEID |-> {0}, VMID |-> {}, QUEUEID |-> {}]
Sel2  == [PIPEID |-> {1}, MEID |-> {0}, VMID |-> {0}, QUEUEID |-> {0}]
Sel3  == [PIPEID |-> {0}, MEID |-> {}, VMID |-> {}, QUEUEID |-> {0}]

Cmd(op, sel, name, field, val) ==
  [op |-> op, sel |-> sel, reg |-> name, field |-> field, val |-> val]

\* Two processes: both fields of one register, under a selection and without
\* one, and a write of the selector itself; neither of the two selections has
\* all the bits of the other.
MCShared ==
  { Cmd("srbm_write", Sel3, "TCC_CTRL", "LO", {1}),
    Cmd("write", NoSel, "TCC_CTRL", "HI", {0}),
    Cmd("srbm_write", Sel2, "SRBM_GFX_CNTL", "VMID", {}) }

\* A plain and an srbm command, on the banked register.
MCRace ==
  { Cmd("read", NoSel, "CP_HQD", "", {}),
    Cmd("srbm_read", Sel3, "CP_HQD", "", {}) }

MCUnknownField == { Cmd("srbm_write", Sel1, "CP_HQD", "NO_SUCH_FIELD", {0}) }

MCReads == { Cmd("read", NoSel, "TCC_CTRL", "", {}) }
=============================================================================
