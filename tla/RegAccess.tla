------------------------------ MODULE RegAccess ------------------------------
(***************************************************************************)
(* Register commands of gputool on the registers of one GPU.               *)
(*                                                                         *)
(* Every process of Procs is one running gputool.  It takes a read, write, *)
(* srbm_read or srbm_write command (GpuToolUi::doRegOp), walks the matching*)
(* registers of its database and accesses each through the file            *)
(* amdgpu_regs (AmdGpuDevice::read, write, writeField and the srbm...      *)
(* wrappers).  The hardware is shared: a step is one lseek and transfer on *)
(* the process's own descriptor, and processes interleave between steps.   *)
(*                                                                         *)
(* An srbm command first stores the bank it wants in SRBM_GFX_CNTL, and a  *)
(* SCOPE_EXIT guard stores zero there when the wrapper is left, normally   *)
(* or by an exception.                                                     *)
(***************************************************************************)
EXTENDS RegWord

CONSTANTS
  Procs,     (* the gputool processes                                      *)
  Regs,      (* mRegBlocks, concatenated: sequence of RegSpec records      *)
  GfxCntl,   (* hardware: the offset of SRBM_GFX_CNTL                      *)
  Banked,    (* hardware: the offsets whose register depends on it         *)
  PowerOn,   (* the word every register but SRBM_GFX_CNTL starts with      *)
  Commands   (* the parsed commands users give                             *)

VARIABLES
  mmio,      (* hardware: offset -> word, for registers that are not banked*)
  bank,      (* hardware: selection -> offset -> word, for those that are  *)
  status,    (* running, or how the process ended                          *)
  pc,        (* where the process is; where it was when it ended           *)
  cmd,       (* the UserInput being dispatched                             *)
  todo,      (* matches doRegOp's loop has still to visit                  *)
  reg,       (* the match it is at                                         *)
  phase,     (* the case of its switch: "write" falls through to "read"    *)
  tmp,       (* the word read() returned                                   *)
  out        (* what printFormattedReg last printed                        *)

hw    == <<mmio, bank>>
local == <<todo, reg, phase, out>>
vars  == <<mmio, bank, status, pc, cmd, todo, reg, phase, tmp, out>>

SelFields == {"PIPEID", "MEID", "VMID", "QUEUEID"}
Offsets   == {Regs[i].offset : i \in DOMAIN Regs} \cup {GfxCntl} \cup Banked

(* getRegSpecs(name): the positions whose register has that name. *)
Matches(name) == {i \in DOMAIN Regs : Regs[i].name = name}

(* getRegSpec(name): the first of them. *)
GetRegSpec(name) ==
  CHOOSE i \in Matches(name) : \A j \in Matches(name) : i <= j

CntlFields == Regs[GetRegSpec("SRBM_GFX_CNTL")].fields

ASSUME RegsAssumption ==
  /\ DOMAIN Regs \subseteq Nat \ {0}
  /\ \A i \in DOMAIN Regs :
       \A f \in DOMAIN Regs[i].fields : Regs[i].fields[f] \in Field

(* The one device gputool knows, Polaris 10, has SRBM_GFX_CNTL in its      *)
(* oss_3_0 block, with four fields that do not overlap.                    *)
ASSUME HardwareAssumption ==
  /\ GfxCntl \notin Banked
  /\ PowerOn \in Word
  /\ Matches("SRBM_GFX_CNTL") # {}
  /\ Regs[GetRegSpec("SRBM_GFX_CNTL")].offset = GfxCntl
  /\ SelFields \subseteq DOMAIN CntlFields
  /\ \A k, l \in SelFields :
       k # l => CntlFields[k].mask \cap CntlFields[l].mask = {}

Ops == {"read", "write", "srbm_read", "srbm_write"}

ASSUME CommandsAssumption ==
  /\ Commands # {}
  /\ \A c \in Commands : /\ c.op \in Ops
                         /\ c.val \in Word
                         /\ c.sel \in [SelFields -> Word]

Srbm(c)    == c.op \in {"srbm_read", "srbm_write"}
IsWrite(c) == c.op \in {"write", "srbm_write"}

(***************************************************************************)
(* The hardware.  A banked register is the one SRBM_GFX_CNTL selects.      *)
(***************************************************************************)
Selector == mmio[GfxCntl]

Load(off) == IF off \in Banked THEN bank[Selector][off] ELSE mmio[off]

Store(off, word) ==
  \/ /\ off \in Banked
     /\ bank' = [bank EXCEPT ![Selector][off] = word]
     /\ UNCHANGED mmio
  \/ /\ off \notin Banked
     /\ mmio' = [mmio EXCEPT ![off] = word]
     /\ UNCHANGED bank

(***************************************************************************)
(* printFormattedReg: a register with exactly one field prints the whole   *)
(* word as that field's value.                                             *)
(***************************************************************************)
Formatted(i, val) ==
  [reg   |-> i,
   val   |-> val,
   shown |-> [f \in DOMAIN Regs[i].fields |->
                IF DOMAIN Regs[i].fields = {f} THEN val
                ELSE ExtractField(val, Regs[i].fields[f])]]

NothingPrinted == [reg |-> 0, val |-> Zero, shown |-> <<>>]

(***************************************************************************)
(* Control.                                                                *)
(***************************************************************************)
At(p, label) == status[p] = "running" /\ pc[p] = label

Goto(p, label) == pc' = [pc EXCEPT ![p] = label]

(* Entering a case of the switch: srbm cases start with srbmSelect. *)
Enter(c) == IF Srbm(c) THEN "select" ELSE "access"

NextRegSkips(p, c, left) ==           \* mutant: the iterator is one ahead
  \/ left = {} /\ Goto(p, "idle") /\ UNCHANGED <<todo, reg, phase>>
  \/ \E i \in left :
     /\ \A j \in left : i <= j
     /\ Goto(p, Enter(c))
     /\ todo' = [todo EXCEPT ![p] = left \ {i}]
     /\ reg' = [reg EXCEPT ![p] = i + 1]
     /\ UNCHANGED phase

(* doRegOp's loop over the matches that are left, in database order. *)
NextReg(p, c, left) ==
  \/ /\ left = {}
     /\ Goto(p, "idle")
     /\ todo' = [todo EXCEPT ![p] = {}]
     /\ UNCHANGED <<reg, phase>>
  \/ \E i \in left :
     /\ \A j \in left : i <= j
     /\ Goto(p, Enter(c))
     /\ todo'  = [todo EXCEPT ![p] = left \ {i}]
     /\ reg'   = [reg EXCEPT ![p] = i]
     /\ phase' = [phase EXCEPT ![p] = IF IsWrite(c) THEN "write" ELSE "read"]

EndCaseRepeats(p, val) ==             \* mutant: the loop does not advance
  Goto(p, Enter(cmd[p])) /\ UNCHANGED local

EndCaseReadsPlain(p, val) ==          \* mutant: the read is not in the bank
  \/ /\ phase[p] = "write"
     /\ phase' = [phase EXCEPT ![p] = "read"]
     /\ Goto(p, "access")
     /\ UNCHANGED <<todo, reg, out>>
  \/ /\ phase[p] = "read"
     /\ out' = [out EXCEPT ![p] = Formatted(reg[p], val)]
     /\ NextReg(p, cmd[p], todo[p])

(* The device call of this case returned; val is what a read returned. *)
EndCase(p, val) ==
  \/ /\ phase[p] = "write"                   (* fallthrough *)
     /\ phase' = [phase EXCEPT ![p] = "read"]
     /\ Goto(p, Enter(cmd[p]))
     /\ UNCHANGED <<todo, reg, out>>
  \/ /\ phase[p] = "read"
     /\ out' = [out EXCEPT ![p] = Formatted(reg[p], val)]
     /\ NextReg(p, cmd[p], todo[p])

EndAccessUnguarded(p, val) == EndCase(p, val)  \* mutant: clears on failure only

(* The access is made; an srbm wrapper still has its guard to run. *)
EndAccess(p, val) ==
  \/ /\ Srbm(cmd[p])
     /\ Goto(p, "clear")
     /\ UNCHANGED local
  \/ /\ ~Srbm(cmd[p])
     /\ EndCase(p, val)

(* srbm wrappers pass reg->name, which is looked up again. *)
Target(p) == IF Srbm(cmd[p]) THEN GetRegSpec(Regs[reg[p]].name) ELSE reg[p]
TargetOffset(p) == Regs[Target(p)].offset
TargetField(p)  == Regs[Target(p)].fields[cmd[p].field]
HasField(p)     == cmd[p].field \in DOMAIN Regs[Target(p)].fields

Die(p, how) == status' = [status EXCEPT ![p] = how]

----------------------------------------------------------------------------
(***************************************************************************)
(* Steps of a process.                                                     *)
(***************************************************************************)

(* dispatch: getRegSpecs, and on to the first match if there is one. *)
Dispatch(p) ==
  /\ At(p, "idle")
  /\ \E c \in Commands :
       /\ cmd' = [cmd EXCEPT ![p] = c]
       /\ NextReg(p, c, Matches(c.reg))
  /\ UNCHANGED <<hw, status, tmp, out>>

SrbmSelectMerges(p) ==         \* mutant: on top of what was selected
  /\ At(p, "select")
  /\ Store(GfxCntl, Or(Selector, SelectWord(CntlFields, cmd[p].sel)))
  /\ Goto(p, "access")
  /\ UNCHANGED <<status, cmd, tmp, local>>

SrbmSelect(p) ==
  /\ At(p, "select")
  /\ Store(Regs[GetRegSpec("SRBM_GFX_CNTL")].offset,
           SelectWord(CntlFields, cmd[p].sel))
  /\ Goto(p, "access")
  /\ UNCHANGED <<status, cmd, tmp, local>>

(* read() and the value it returns. *)
Read(p) ==
  /\ At(p, "access") /\ phase[p] = "read"
  /\ tmp' = [tmp EXCEPT ![p] = Load(TargetOffset(p))]
  /\ EndAccess(p, Load(TargetOffset(p)))
  /\ UNCHANGED <<hw, status, cmd>>

(* write(): no field was named. *)
Write(p) ==
  /\ At(p, "access") /\ phase[p] = "write" /\ cmd[p].field = ""
  /\ Store(TargetOffset(p), cmd[p].val)
  /\ EndAccess(p, Zero)
  /\ UNCHANGED <<status, cmd, tmp>>

(* writeField(): its read, and then its write of the merged word. *)
FieldRead(p) ==
  /\ At(p, "access") /\ phase[p] = "write" /\ cmd[p].field # ""
  /\ HasField(p)
  /\ tmp' = [tmp EXCEPT ![p] = Load(TargetOffset(p))]
  /\ Goto(p, "modify")
  /\ UNCHANGED <<hw, status, cmd, local>>

FieldWrite(p) ==
  /\ At(p, "modify")
  /\ Store(TargetOffset(p), InsertField(tmp[p], TargetField(p), cmd[p].val))
  /\ EndAccess(p, Zero)
  /\ UNCHANGED <<status, cmd, tmp>>

(* The SCOPE_EXIT guard of an srbm wrapper: srbmSelect(0, 0, 0, 0). *)
ClearWord == SelectWord(CntlFields, [k \in SelFields |-> Zero])

SrbmClear(p) ==
  /\ At(p, "clear")
  /\ Store(Regs[GetRegSpec("SRBM_GFX_CNTL")].offset, ClearWord)
  /\ EndCase(p, tmp[p])
  /\ UNCHANGED <<status, cmd, tmp>>

(* The same guard while an exception unwinds to main, which terminates. *)
Unwind(p) ==
  /\ At(p, "unwind")
  /\ Store(Regs[GetRegSpec("SRBM_GFX_CNTL")].offset, ClearWord)
  /\ Goto(p, "idle")
  /\ Die(p, "terminated")
  /\ UNCHANGED <<cmd, tmp, local>>

----------------------------------------------------------------------------
(***************************************************************************)
(* Failures.  A failed lseek or transfer leaves the register alone and     *)
(* failOn throws; main catches the exception and terminates.               *)
(***************************************************************************)

(* srbmSelect throws before the guard exists: nothing to clear. *)
SelectFails(p) ==
  /\ At(p, "select")
  /\ Goto(p, "idle")
  /\ Die(p, "terminated")
  /\ UNCHANGED <<hw, cmd, tmp, local>>

AccessFails(p) ==
  /\ At(p, "access") \/ At(p, "modify")
  /\ \/ /\ Srbm(cmd[p])
        /\ Goto(p, "unwind")
        /\ UNCHANGED status
     \/ /\ ~Srbm(cmd[p])
        /\ Goto(p, "idle")
        /\ Die(p, "terminated")
  /\ UNCHANGED <<hw, cmd, tmp, local>>

(* The guard's lambda is noexcept: its exception ends the process there. *)
ClearFails(p) ==
  /\ At(p, "clear") \/ At(p, "unwind")
  /\ Die(p, "aborted")
  /\ UNCHANGED <<hw, pc, cmd, tmp, local>>

(* writeField uses the null getFieldSpec returns for an unknown field,     *)
(* after its read: SIGSEGV, and no guard runs.                             *)
NullFieldSpec(p) ==
  /\ At(p, "access") /\ phase[p] = "write" /\ cmd[p].field # ""
  /\ ~HasField(p)
  /\ Die(p, "crashed")
  /\ UNCHANGED <<hw, pc, cmd, tmp, local>>

(* exit, and a signal from the terminal: no handler is installed. *)
Quit(p) ==
  /\ At(p, "idle")
  /\ Die(p, "exited")
  /\ UNCHANGED <<hw, pc, cmd, tmp, local>>

Kill(p) ==
  /\ status[p] = "running"
  /\ Die(p, "killed")
  /\ UNCHANGED <<hw, pc, cmd, tmp, local>>

----------------------------------------------------------------------------
Init ==
  /\ mmio   = [off \in Offsets |-> IF off = GfxCntl THEN Zero ELSE PowerOn]
  /\ bank   = [s \in Word |-> [off \in Banked |-> PowerOn]]
  /\ status = [p \in Procs |-> "running"]
  /\ pc     = [p \in Procs |-> "idle"]
  /\ cmd    = [p \in Procs |-> CHOOSE c \in Commands : TRUE]
  /\ todo   = [p \in Procs |-> {}]
  /\ reg    = [p \in Procs |-> 0]
  /\ phase  = [p \in Procs |-> "read"]
  /\ tmp    = [p \in Procs |-> Zero]
  /\ out    = [p \in Procs |-> NothingPrinted]

(* What the program does once it has a command. *)
Step(p) ==
  \/ SrbmSelect(p) \/ Read(p) \/ Write(p) \/ FieldRead(p) \/ FieldWrite(p)
  \/ SrbmClear(p) \/ Unwind(p) \/ NullFieldSpec(p)

Fault(p) == SelectFails(p) \/ AccessFails(p) \/ ClearFails(p) \/ Kill(p)

Next == \E p \in Procs : Dispatch(p) \/ Step(p) \/ Fault(p) \/ Quit(p)

(* Nothing in a register command waits for anything but the processor. *)
Fairness == \A p \in Procs : WF_vars(Step(p))

Spec     == Init /\ [][Next]_vars
FairSpec == Spec /\ Fairness

----------------------------------------------------------------------------
(***************************************************************************)
(* Properties.                                                             *)
(***************************************************************************)

PcLabels == {"idle", "select", "access", "modify", "clear", "unwind"}
Statuses == {"running", "exited", "terminated", "aborted", "crashed", "killed"}

(* The type of every variable. *)
TypeOK ==
  /\ mmio   \in [Offsets -> Word]
  /\ bank   \in [Word -> [Banked -> Word]]
  /\ status \in [Procs -> Statuses]
  /\ pc     \in [Procs -> PcLabels]
  /\ cmd    \in [Procs -> Commands]
  /\ todo   \in [Procs -> SUBSET DOMAIN Regs]
  /\ reg    \in [Procs -> DOMAIN Regs \cup {0}]
  /\ phase  \in [Procs -> {"read", "write"}]
  /\ tmp    \in [Procs -> Word]
  /\ DOMAIN out = Procs
  /\ \A p \in Procs : out[p].val \in Word

(* p selected a bank and its guard has not cleared it: also where p died. *)
InScope(p) == Srbm(cmd[p]) /\ pc[p] \in {"access", "modify", "clear", "unwind"}

(* A user stores in SRBM_GFX_CNTL itself with a plain write. *)
DirectSelect ==
  \E c \in Commands : /\ c.op = "write"
                      /\ \E i \in Matches(c.reg) : Regs[i].offset = GfxCntl

(***************************************************************************)
(* However many gputool run, fail and die, a selection is left in          *)
(* SRBM_GFX_CNTL only by a process that is, or died, between its           *)
(* srbmSelect and its srbmClear: every way out of an srbm wrapper the      *)
(* program has in its hands clears it.                                     *)
(***************************************************************************)
QuiescentClear ==
  ~DirectSelect => ((\A p \in Procs : ~InScope(p)) => Selector = Zero)

(* p's srbm_write has just written SRBM_GFX_CNTL itself. *)
WroteSelector(p) == pc[p] = "clear" /\ phase[p] = "write" /\ TargetOffset(p) = GfxCntl

(***************************************************************************)
(* And that selection is the word of one such process: its whole selection *)
(* and never one of a command that has ended, or what its srbm_write to    *)
(* SRBM_GFX_CNTL itself stored.  (Stored as a field, that may be a mixture *)
(* of its own value and another process's selection.)                      *)
(***************************************************************************)
SelectionOwned ==
  ~DirectSelect =>
    \/ Selector = Zero
    \/ \E p \in Procs : /\ InScope(p)
                        /\ Selector = SelectWord(CntlFields, cmd[p].sel) \/ WroteSelector(p)

(* The bank a command means: a plain command means bank zero. *)
Requested(c) == IF Srbm(c) THEN c.sel ELSE [k \in SelFields |-> Zero]

Accessing(p) == At(p, "access") \/ At(p, "modify")

(***************************************************************************)
(* Whenever a process is about to access its register, the fields of       *)
(* SRBM_GFX_CNTL hold the me, pipe, queue and vmid its command asked for,  *)
(* each cut to what its field can hold, and zero if it asked for none.     *)
(***************************************************************************)
InRequestedBank ==
  ~DirectSelect =>
    \A p \in Procs : Accessing(p) =>
      \A k \in SelFields :
        ExtractField(Selector, CntlFields[k]) = Held(Requested(cmd[p])[k], CntlFields[k])

(***************************************************************************)
(* What users asked for.  A write command can reach the registers of its   *)
(* name; its value is for the whole word or for one field.                 *)
(***************************************************************************)
WritesTo(off) ==
  {c \in Commands : IsWrite(c) /\ \E i \in Matches(c.reg) : Regs[i].offset = off}

FieldsAt(off) ==
  UNION {{Regs[i].fields[f] : f \in DOMAIN Regs[i].fields} :
           i \in {j \in DOMAIN Regs : Regs[j].offset = off}}

(* c names field f of a register at off. *)
NamesField(c, off, f) ==
  \E i \in Matches(c.reg) : /\ Regs[i].offset = off
                            /\ c.field \in DOMAIN Regs[i].fields
                            /\ Regs[i].fields[c.field] = f

(* The fields of off do not overlap, and no value for one goes beyond it. *)
Tidy(off) ==
  /\ \A f, g \in FieldsAt(off) : f = g \/ f.mask \cap g.mask = {}
  /\ \A c \in WritesTo(off), f \in FieldsAt(off) : NamesField(c, off, f) => Inside(c.val, f)

(* Every field of the word is as at power-on, or as one command asked. *)
Whole(off, word) ==
  \A f \in FieldsAt(off) :
    \/ ExtractField(word, f) = ExtractField(PowerOn, f)
    \/ \E c \in WritesTo(off) :
         \/ c.field = "" /\ ExtractField(word, f) = ExtractField(c.val, f)
         \/ NamesField(c, off, f) /\ ExtractField(word, f) = Held(c.val, f)

(* What the register at off holds, in all banks. *)
WordsAt(off) == IF off \in Banked THEN {bank[s][off] : s \in Word} ELSE {mmio[off]}

(***************************************************************************)
(* However the reads, merges and writes of several gputool interleave, and *)
(* whichever banks they reach, a tidy register never has a field with a    *)
(* value nobody wrote to that field: a race can undo a write, or put it in *)
(* another bank, but it does not make a mixture of two.                    *)
(***************************************************************************)
FieldsWhole ==
  \A off \in Offsets \ {GfxCntl} : Tidy(off) =>
    \A word \in WordsAt(off) : Whole(off, word)

(***************************************************************************)
(* The register a write or srbm_write command prints at its end, read back *)
(* through a second selection, shows what was written: the word, or what   *)
(* the field holds of the value.  (An srbm_write of SRBM_GFX_CNTL itself   *)
(* prints the second selection instead.)                                   *)
(***************************************************************************)
WriteEchoed ==
  \A p \in Procs :
    LET i == IF Srbm(cmd[p]) THEN GetRegSpec(cmd[p].reg) ELSE out[p].reg IN
    /\ At(p, "idle") /\ IsWrite(cmd[p])
    /\ out[p].reg \in Matches(cmd[p].reg)
    /\ Srbm(cmd[p]) => Regs[i].offset # GfxCntl
    => IF cmd[p].field = ""
       THEN out[p].val = cmd[p].val
       ELSE LET f == Regs[i].fields[cmd[p].field] IN
            ExtractField(out[p].val, f) = Held(cmd[p].val, f)

(* Every command that is dispatched comes to its end. *)
CommandEnds ==
  \A p \in Procs :
    (status[p] = "running" /\ pc[p] # "idle")
      ~> (pc[p] = "idle" \/ status[p] # "running")

(* No process ends by its own doing with its selection left behind. *)
ScopeExitRuns ==
  \A p \in Procs : status[p] \in {"exited", "terminated", "crashed"} => ~InScope(p)

(* Every field that is printed shows that field's bits of the register. *)
DecodeFaithful ==
  \A p \in Procs : out[p].reg # 0 =>
    \A f \in DOMAIN out[p].shown :
      out[p].shown[f] = ExtractField(out[p].val, Regs[out[p].reg].fields[f])
=============================================================================
