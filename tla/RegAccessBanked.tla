-------------------------- MODULE RegAccessBanked --------------------------
(***************************************************************************)
(* RegAccess of one process implements BankedRegs: the selector, the       *)
(* select and clear around an access, and the read before a field write    *)
(* cannot be seen, as long as there is one gputool and no command names    *)
(* the register SRBM_GFX_CNTL.                                             *)
(***************************************************************************)
EXTENDS RegAccess

CONSTANT Selections    (* some of the selections the selector can hold *)

NoSelection == [k \in SelFields |-> Zero]

(* What the fields of the selector hold of a selection. *)
Cut(sel) == [k \in SelFields |-> Held(sel[k], CntlFields[k])]

ASSUME BankedAssumption ==
  /\ \E p \in Procs : Procs = {p}
  /\ \A c \in Commands : \A i \in Matches(c.reg) : Regs[i].offset # GfxCntl

(* Selections only says which banks BankedRegs has: it may have them all.  *)
ASSUME SelectionsAssumption ==
  /\ Selections \subseteq [SelFields -> Word]
  /\ \A s \in Selections : Cut(s) = s
  /\ NoSelection \in Selections
  /\ \A c \in Commands : Cut(c.sel) \in Selections

Process == CHOOSE p \in Procs : TRUE

(* The write of a register and the case that shows it. *)
Mode(p) ==
  IF status[p] # "running" THEN "ended"
  ELSE IF pc[p] = "idle" THEN "idle"
  ELSE IF phase[p] = "write" /\ pc[p] # "clear" THEN "write"
  ELSE "show"

Banks == INSTANCE BankedRegs WITH
  Plain <- Offsets \ (Banked \cup {GfxCntl}),
  Kept  <- [k \in SelFields |-> CntlFields[k]],
  plain <- [off \in Offsets \ (Banked \cup {GfxCntl}) |-> mmio[off]],
  bank  <- [s \in Selections |-> bank[SelectWord(CntlFields, s)]],
  mode  <- Mode(Process),
  cmd   <- cmd[Process],
  todo  <- todo[Process],
  reg   <- reg[Process],
  out   <- [reg |-> out[Process].reg, val |-> out[Process].val]

(***************************************************************************)
(* Alone, gputool's register commands are what BankedRegs promises: every  *)
(* write changes the one register of the one bank the command names, in    *)
(* one step, and of a field write nothing but the field and the bits its   *)
(* value itself brings beyond it; and what is shown is that register.      *)
(***************************************************************************)
BankedSpec == Banks!Spec
=============================================================================
