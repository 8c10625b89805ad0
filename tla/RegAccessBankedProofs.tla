----------------------- MODULE RegAccessBankedProofs -----------------------
(***************************************************************************)
(* Proofs that the register commands of one gputool are what BankedRegs    *)
(* promises, for every register database, field layout, bank and set of    *)
(* commands, those with wide values and selections included; only the      *)
(* selector itself must not be named.                                      *)
(***************************************************************************)
EXTENDS RegAccessBanked, RegAccessProofs

P == Process

(* There is one process. *)
LEMMA Alone == Procs = {P} /\ P \in Procs /\ \A p, q \in Procs : p = q
<1>1. PICK p \in Procs : Procs = {p} BY BankedAssumption
<1>2. P \in Procs BY <1>1 DEF P, Process
<1>. QED BY <1>1, <1>2

(* No command names the selector. *)
LEMMA NoDirectSelect == ~DirectSelect
BY BankedAssumption DEF DirectSelect

----------------------------------------------------------------------------
(***************************************************************************)
(* Selections.                                                             *)
(***************************************************************************)

(* What is beyond the fields of the selector makes no difference. *)
LEMMA HeldStored ==
  ASSUME NEW val \in Word, NEW f \in Field
  PROVE  And(Shl(Held(val, f), f.shift), f.mask) = And(Shl(val, f.shift), f.mask)
<1>1. f.shift \in Bits /\ Width \in Nat /\ Bits = 0 .. Width - 1
  BY WidthAssumption DEF Field, Bits
<1>2. ASSUME NEW b \in Bits
      PROVE  b \in And(Shl(Held(val, f), f.shift), f.mask)
               <=> b \in And(Shl(val, f.shift), f.mask)
  <2>1. f.shift \in Int /\ b \in Int /\ (b - f.shift) + f.shift = b
    BY <1>1, <1>2
  <2>2. val \subseteq Bits
    BY DEF Word
  <2>3. CASE b - f.shift \in Bits
    <3>1. b - f.shift \in Held(val, f) <=> b \in And(Shl(val, f.shift), f.mask)
      BY <2>1, <2>3 DEF Held, ExtractField, Shr
    <3>2. b \in Shl(Held(val, f), f.shift) <=> b - f.shift \in Held(val, f)
      BY <1>2 DEF Shl
    <3>. QED BY <3>1, <3>2 DEF And
  <2>4. CASE b - f.shift \notin Bits
    <3>1. b - f.shift \notin Held(val, f) /\ b - f.shift \notin val
      BY <2>2, <2>4 DEF Held, ExtractField, Shr
    <3>. QED BY <3>1 DEF And, Shl
  <2>. QED BY <2>3, <2>4
<1>3. /\ And(Shl(Held(val, f), f.shift), f.mask) \subseteq Bits
      /\ And(Shl(val, f.shift), f.mask) \subseteq Bits
  BY DEF And, Shl
<1>. QED BY <1>2, <1>3

LEMMA CntlFieldTypes == \A k \in SelFields : CntlFields[k] \in Field
BY CntlFound, RegsAssumption, HardwareAssumption DEF CntlFields

LEMMA CutSelects ==
  ASSUME NEW s \in [SelFields -> Word]
  PROVE  SelectWord(CntlFields, Cut(s)) = SelectWord(CntlFields, s)
<1>1. \A k \in SelFields :
        And(Shl(Cut(s)[k], CntlFields[k].shift), CntlFields[k].mask)
          = And(Shl(s[k], CntlFields[k].shift), CntlFields[k].mask)
  BY HeldStored, CntlFieldTypes DEF Cut
<1>2. DOMAIN s = SelFields /\ DOMAIN Cut(s) = SelFields BY DEF Cut
<1>. QED BY <1>1, <1>2 DEF SelectWord

(* The selection a command works in. *)
OwnSel(c) == IF Srbm(c) THEN Cut(c.sel) ELSE NoSelection

(* It is one of Selections, and as a word it is the one of no other. *)
LEMMA OwnSelType ==
  ASSUME NEW c \in Commands
  PROVE  /\ OwnSel(c) \in Selections
         /\ SelectWord(CntlFields, OwnSel(c)) = SelectWord(CntlFields, Requested(c))
<1>1. c.sel \in [SelFields -> Word] BY CommandsAssumption
<1>. QED BY <1>1, CutSelects, SelectionsAssumption DEF OwnSel, Requested, NoSelection

LEMMA SelectWordInjective ==
  ASSUME NEW s \in Selections, NEW t \in Selections,
         SelectWord(CntlFields, s) = SelectWord(CntlFields, t)
  PROVE  s = t
<1>1. s \in [SelFields -> Word] /\ t \in [SelFields -> Word] /\ Cut(s) = s /\ Cut(t) = t
  BY SelectionsAssumption
<1>2. \A k \in SelFields : Held(s[k], CntlFields[k]) = Held(t[k], CntlFields[k])
  <2>. SUFFICES ASSUME NEW k \in SelFields
                PROVE  Held(s[k], CntlFields[k]) = Held(t[k], CntlFields[k])
    OBVIOUS
  <2>1. ExtractField(SelectWord(CntlFields, s), CntlFields[k]) = Held(s[k], CntlFields[k])
    BY <1>1, SelectWordDecodes
  <2>2. ExtractField(SelectWord(CntlFields, t), CntlFields[k]) = Held(t[k], CntlFields[k])
    BY <1>1, SelectWordDecodes
  <2>. QED BY <2>1, <2>2
<1>3. Cut(s) = Cut(t) BY <1>2 DEF Cut
<1>. QED BY <1>1, <1>3

LEMMA NoSelectionWord == SelectWord(CntlFields, NoSelection) = Zero
BY ZeroSelects DEF NoSelection

----------------------------------------------------------------------------
(***************************************************************************)
(* What a register holds in the bank of a command.                         *)
(***************************************************************************)
Content(c, i) ==
  IF Regs[i].offset \in Banked
  THEN bank[SelectWord(CntlFields, Requested(c))][Regs[i].offset]
  ELSE mmio[Regs[i].offset]

(* The register a case works on: not the selector, and for an srbm command *)
(* the first of the name.                                                  *)
LEMMA TargetIsReg ==
  ASSUME TypeOK, Walk, pc[P] # "idle"
  PROVE  /\ cmd[P] \in Commands
         /\ Target(P) \in Matches(cmd[P].reg) /\ Target(P) \in DOMAIN Regs
         /\ Target(P) = IF Srbm(cmd[P]) THEN GetRegSpec(cmd[P].reg) ELSE reg[P]
         /\ Regs[Target(P)].offset \in Offsets \ {GfxCntl}
<1>1. reg[P] \in Matches(cmd[P].reg) /\ cmd[P] \in Commands
  BY Alone DEF Walk, Walking, TypeOK
<1>2. Regs[reg[P]].name = cmd[P].reg BY <1>1 DEF Matches
<1>3. Target(P) \in Matches(cmd[P].reg) /\ TargetOffset(P) \in Offsets
  BY Alone, TargetNamed
<1>4. Regs[Target(P)].offset # GfxCntl BY <1>1, <1>3, BankedAssumption
<1>. QED BY <1>1, <1>2, <1>3, <1>4 DEF Target, TargetOffset, Matches

(* At an access the selector holds the command's bank. *)
LEMMA SelectorIsRequested ==
  ASSUME TypeOK, Walk, QuiescentClear, BankSet, pc[P] \in {"access", "modify"}
  PROVE  Selector = SelectWord(CntlFields, Requested(cmd[P]))
<1>1. CASE Srbm(cmd[P])
  BY <1>1, Alone DEF BankSet, OwnBank, Requested
<1>2. CASE ~Srbm(cmd[P])
  <2>1. \A p \in Procs : ~InScope(p) BY <1>2, Alone DEF InScope
  <2>2. Selector = Zero BY <2>1, NoDirectSelect DEF QuiescentClear
  <2>3. Requested(cmd[P]) = NoSelection BY <1>2 DEF Requested, NoSelection
  <2>. QED BY <2>2, <2>3, NoSelectionWord
<1>. QED BY <1>1, <1>2

(* So what is loaded is what the register holds there. *)
LEMMA LoadIsContent ==
  ASSUME TypeOK, Walk, QuiescentClear, BankSet, pc[P] \in {"access", "modify"}
  PROVE  Load(TargetOffset(P)) = Content(cmd[P], Target(P))
<1>1. Selector = SelectWord(CntlFields, Requested(cmd[P])) BY SelectorIsRequested
<1>. QED BY <1>1 DEF Load, Content, TargetOffset

----------------------------------------------------------------------------
(***************************************************************************)
(* Stores, and the registers as BankedRegs has them.                       *)
(***************************************************************************)
PlainOffsets == Offsets \ (Banked \cup {GfxCntl})
PlainBar     == [off \in PlainOffsets |-> mmio[off]]
BankBar      == [s \in Selections |-> bank[SelectWord(CntlFields, s)]]

(* A select or clear changes no register a command is about. *)
LEMMA CntlStored ==
  ASSUME TypeOK, NEW word, Store(Regs[GetRegSpec("SRBM_GFX_CNTL")].offset, word)
  PROVE  /\ PlainBar' = PlainBar /\ BankBar' = BankBar
         /\ \A c \in Commands : \A i \in Matches(c.reg) : Content(c, i)' = Content(c, i)
<1>1. bank' = bank /\ mmio' = [mmio EXCEPT ![GfxCntl] = word]
  BY CntlFound, HardwareAssumption DEF Store
<1>2. \A off : off # GfxCntl => mmio'[off] = mmio[off]
  BY <1>1 DEF TypeOK
<1>3. PlainBar' = PlainBar
  BY <1>2 DEF PlainBar, PlainOffsets
<1>4. \A c \in Commands : \A i \in Matches(c.reg) : Regs[i].offset # GfxCntl
  BY BankedAssumption
<1>. QED BY <1>1, <1>2, <1>3, <1>4 DEF BankBar, Content

(* A write changes the one register, in the one bank. *)
LEMMA TargetStored ==
  ASSUME TypeOK, Walk, QuiescentClear, BankSet, pc[P] \in {"access", "modify"},
         NEW word \in Word, Store(TargetOffset(P), word),
         NEW c, c = cmd[P], NEW i, i = Target(P)
  PROVE  IF Regs[i].offset \in Banked
         THEN /\ BankBar' = [BankBar EXCEPT ![OwnSel(c)][Regs[i].offset] = word]
              /\ PlainBar' = PlainBar
         ELSE /\ PlainBar' = [PlainBar EXCEPT ![Regs[i].offset] = word]
              /\ BankBar' = BankBar
<1>. DEFINE off == Regs[i].offset
            w == SelectWord(CntlFields, Requested(c))
<1>1. /\ c \in Commands /\ i \in DOMAIN Regs
      /\ TargetOffset(P) = off /\ off \in Offsets \ {GfxCntl}
  BY TargetIsReg DEF TargetOffset
<1>2. Selector = w BY SelectorIsRequested
<1>3. w \in Word BY SelectWordType
<1>4. OwnSel(c) \in Selections /\ SelectWord(CntlFields, OwnSel(c)) = w BY <1>1, OwnSelType
<1>. HIDE DEF w
<1>5. CASE off \in Banked
  <2>1. bank' = [bank EXCEPT ![w][off] = word] /\ mmio' = mmio
    BY <1>1, <1>2, <1>5 DEF Store
  <2>2. /\ bank \in [Word -> [Banked -> Word]]
        /\ \A v \in Word : bank'[v] = IF v = w THEN [bank[w] EXCEPT ![off] = word] ELSE bank[v]
    BY <2>1 DEF TypeOK
  <2>5. \A s \in Selections : SelectWord(CntlFields, s) \in Word BY SelectWordType
  <2>6. \A s \in Selections : SelectWord(CntlFields, s) = w <=> s = OwnSel(c)
    BY <1>4, SelectWordInjective
  <2>7. \A s \in Selections : BankBar'[s] = IF s = OwnSel(c)
                                            THEN [BankBar[s] EXCEPT ![off] = word]
                                            ELSE BankBar[s]
    BY <2>2, <2>5, <2>6 DEF BankBar
  <2>8. BankBar' = [BankBar EXCEPT ![OwnSel(c)][off] = word]
    BY <1>4, <2>7 DEF BankBar
  <2>9. PlainBar' = PlainBar BY <2>1 DEF PlainBar
  <2>. QED BY <1>5, <2>8, <2>9
<1>6. CASE off \notin Banked
  <2>1. mmio' = [mmio EXCEPT ![off] = word] /\ bank' = bank
    BY <1>1, <1>6 DEF Store
  <2>2. mmio \in [Offsets -> Word] BY DEF TypeOK
  <2>4. PlainBar' = [PlainBar EXCEPT ![off] = word]
    BY <1>1, <1>6, <2>1, <2>2 DEF PlainBar, PlainOffsets
  <2>5. BankBar' = BankBar BY <2>1 DEF BankBar
  <2>. QED BY <1>6, <2>4, <2>5
<1>. QED BY <1>5, <1>6

----------------------------------------------------------------------------
(***************************************************************************)
(* What the process knows: the word it read is the one in its register.    *)
(***************************************************************************)
ModifyRight == pc[P] = "modify" => tmp[P] = Content(cmd[P], Target(P))

ReadRight ==
  pc[P] = "clear" /\ phase[P] = "read" => tmp[P] = Content(cmd[P], Target(P))

Right    == ModifyRight /\ ReadRight
AloneInv == TypeOK /\ Walk /\ SelectionOwned /\ BankSet /\ Modifying

LEMMA RightStep == AloneInv /\ Right /\ [Next]_vars => Right'
<1>. SUFFICES ASSUME AloneInv, Right, [Next]_vars PROVE Right' OBVIOUS
<1>0. TypeOK /\ Walk /\ QuiescentClear /\ BankSet BY OwnedClear DEF AloneInv
<1>1. CASE Read(P) \/ FieldRead(P)
  <2>1. /\ pc[P] = "access" /\ cmd' = cmd /\ mmio' = mmio /\ bank' = bank
        /\ tmp'[P] = Load(TargetOffset(P))
    BY <1>0, <1>1, Alone DEF Read, FieldRead, At, hw, TypeOK
  <2>2. tmp'[P] = Content(cmd[P], Target(P)) BY <1>0, <2>1, LoadIsContent
  <2>3. pc'[P] \in {"clear", "modify"} => reg' = reg
    BY <1>0, <1>1, Alone
       DEF Read, FieldRead, EndAccess, EndCase, NextReg, Goto, Enter, local, TypeOK
  <2>4. Content(cmd[P], Target(P))' = Content(cmd[P], Target(P)) \/ reg' # reg
    BY <2>1 DEF Content, Target
  <2>. QED BY <2>2, <2>3, <2>4 DEF Right, ModifyRight, ReadRight
<1>2. CASE UNCHANGED <<mmio, bank, pc, cmd, reg, phase, tmp>>
  BY <1>2 DEF Right, ModifyRight, ReadRight, Content, Target
<1>3. ASSUME pc'[P] \notin {"clear", "modify"} \/ (pc'[P] = "clear" /\ phase'[P] = "write")
      PROVE  Right'
  BY <1>3 DEF Right, ModifyRight, ReadRight
<1>4. CASE Dispatch(P) \/ SrbmSelect(P) \/ Unwind(P) \/ SelectFails(P) \/ AccessFails(P)
  BY <1>0, <1>3, <1>4, Alone
     DEF Dispatch, SrbmSelect, Unwind, SelectFails, AccessFails, NextReg, Goto, Enter, TypeOK
<1>5. CASE Write(P) \/ FieldWrite(P)
  <2>1. phase[P] = "write"
    BY <1>0, <1>5, Alone DEF Write, FieldWrite, At, Walk, Walking
  <2>. QED BY <1>0, <1>3, <1>5, <2>1, Alone
           DEF Write, FieldWrite, EndAccess, EndCase, Goto, Enter, local, TypeOK
<1>6. CASE SrbmClear(P)
  BY <1>0, <1>3, <1>6, Alone DEF SrbmClear, EndCase, NextReg, Goto, Enter, TypeOK
<1>7. CASE ClearFails(P) \/ NullFieldSpec(P) \/ Quit(P) \/ Kill(P)
  BY <1>2, <1>7 DEF ClearFails, NullFieldSpec, Quit, Kill, hw, local
<1>8. CASE UNCHANGED vars
  BY <1>2, <1>8 DEF vars
<1>. QED
  <2>1. ASSUME Next PROVE Dispatch(P) \/ Step(P) \/ Fault(P) \/ Quit(P)
    BY <2>1, Alone DEF Next
  <2>. QED BY <1>1, <1>4, <1>5, <1>6, <1>7, <1>8, <2>1 DEF Step, Fault

(* All of it, together. *)
LEMMA AlwaysRight == Spec => [](AloneInv /\ Right)
<1>1. Init => BankSet /\ Modifying /\ Right
  BY Alone DEF Init, BankSet, OwnBank, Modifying, FieldMet, Right, ModifyRight, ReadRight
<1>2. Init => AloneInv
  BY <1>1, OwnedInit, TypeInit DEF AloneInv
<1>3. TypeOK /\ Walk /\ BankSet /\ [Next]_vars => BankSet'
  BY BankStep, Alone
<1>4. AloneInv /\ [Next]_vars => AloneInv'
  BY <1>3, TypeStep, OwnedStep, ModifyingStep DEF AloneInv
<1>. QED BY <1>1, <1>2, <1>4, RightStep, PTL DEF Spec

----------------------------------------------------------------------------
(***************************************************************************)
(* The operators of BankedRegs, in terms of the process.                   *)
(***************************************************************************)
LEMMA BarWords ==
  /\ \A v, f : Banks!ExtractField(v, f) = ExtractField(v, f)
  /\ \A v, f : Banks!Held(v, f) = Held(v, f)
  /\ \A a, b : Banks!And(a, b) = And(a, b)
  /\ \A a, b : Banks!Or(a, b) = Or(a, b)
  /\ \A a, n : Banks!Shl(a, n) = Shl(a, n)
  /\ \A a : Banks!Not(a) = Not(a)
  /\ Banks!Word = Word
BY DEF Banks!ExtractField, ExtractField, Banks!Held, Held, Banks!Shr, Shr, Banks!Shl, Shl,
       Banks!And, And, Banks!Or, Or, Banks!Not, Not, Banks!Bits, Bits, Banks!Word, Word

LEMMA BarSelection == \A c : Banks!Selection(c) = OwnSel(c)
BY BarWords DEF Banks!Selection, Banks!Selects, OwnSel, Cut, Srbm, NoSelection

LEMMA BarWorked ==
  ASSUME TypeOK, Walk, pc[P] # "idle"
  PROVE  Banks!Worked(cmd[P], reg[P]) = Target(P)
<1>1. \A name : Banks!Named(name) = Matches(name) BY DEF Banks!Named, Matches
<1>2. \A name : GetRegSpec(name)
        = CHOOSE i \in Matches(name) : \A j \in Matches(name) : i <= j
  BY DEF GetRegSpec
<1>3. Target(P) = IF Srbm(cmd[P]) THEN GetRegSpec(cmd[P].reg) ELSE reg[P] BY TargetIsReg
<1>4. Banks!Worked(cmd[P], reg[P])
        = IF Srbm(cmd[P])
          THEN CHOOSE i \in Matches(cmd[P].reg) : \A j \in Matches(cmd[P].reg) : i <= j
          ELSE reg[P]
  BY DEF Banks!Worked, Banks!Selects, Banks!Named, Matches, Srbm
<1>. QED BY <1>2, <1>3, <1>4

LEMMA BarContents ==
  ASSUME TypeOK, NEW c \in Commands, NEW i \in Matches(c.reg)
  PROVE  Banks!Contents(c, i) = Content(c, i)
<1>1. Regs[i].offset # GfxCntl /\ i \in DOMAIN Regs
  BY BankedAssumption DEF Matches
<1>2. Regs[i].offset \in Banked \/ Regs[i].offset \in Offsets \ (Banked \cup {GfxCntl})
  BY <1>1 DEF Offsets
<1>3. OwnSel(c) \in Selections
      /\ SelectWord(CntlFields, OwnSel(c)) = SelectWord(CntlFields, Requested(c))
  BY OwnSelType
<1>. QED BY <1>2, <1>3, BarSelection DEF Banks!Contents, Content

(* The word of a field write: the value is in its field, and the bits it   *)
(* does not reach are old.                                                 *)
LEMMA FieldMerged ==
  ASSUME AloneInv, Right, pc[P] = "modify"
  PROVE  LET w == InsertField(tmp[P], TargetField(P), cmd[P].val) IN
         /\ w \in Word
         /\ Banks!Merged(cmd[P], Target(P), Content(cmd[P], Target(P)), w)
<1>. DEFINE f == TargetField(P)
            w == InsertField(tmp[P], f, cmd[P].val)
<1>0. TypeOK /\ Walk /\ FieldMet(P) BY Alone DEF AloneInv, Modifying
<1>1. HasField(P) BY <1>0 DEF FieldMet
<1>2. Target(P) \in DOMAIN Regs BY <1>0, TargetIsReg
<1>3. /\ cmd[P].field \in DOMAIN Regs[Target(P)].fields
      /\ f = Regs[Target(P)].fields[cmd[P].field]
  BY <1>1 DEF HasField, TargetField
<1>4. f.mask \in Word BY <1>2, <1>3, RegsAssumption DEF Field
<1>5. tmp[P] \in Word BY <1>0, Alone DEF TypeOK
<1>6. tmp[P] = Content(cmd[P], Target(P)) BY DEF Right, ModifyRight
<1>7. /\ ExtractField(w, f) = Held(cmd[P].val, f)
      /\ And(w, Not(Or(f.mask, Shl(cmd[P].val, f.shift))))
           = And(tmp[P], Not(Or(f.mask, Shl(cmd[P].val, f.shift))))
  BY <1>4, <1>5, FieldInserted
<1>8. w \in Word BY <1>5, InsertFieldType
<1>. HIDE DEF f, w
<1>9. Banks!Merged(cmd[P], Target(P), Content(cmd[P], Target(P)), w)
  BY <1>3, <1>6, <1>7, BarWords DEF Banks!Merged
<1>. QED BY <1>8, <1>9 DEF f, w

----------------------------------------------------------------------------
(***************************************************************************)
(* The steps.                                                              *)
(***************************************************************************)

(* A process that goes on is where its position and its case say. *)
LEMMA ModeOf ==
  ASSUME TypeOK
  PROVE  /\ status[P] # "running" => Mode(P) = "ended"
         /\ At(P, "idle") => Mode(P) = "idle"
         /\ status[P] = "running" /\ pc[P] \in {"select", "access", "modify", "unwind"}
              => Mode(P) = IF phase[P] = "write" THEN "write" ELSE "show"
         /\ At(P, "clear") => Mode(P) = "show"
BY Alone DEF Mode, At, TypeOK

(* The loop goes on as BankedRegs goes on. *)
LEMMA BarAdvance ==
  ASSUME TypeOK, NEW c, NEW left, NextReg(P, c, left),
         status[P] = "running", status' = status
  PROVE  Banks!Advance(c, left)
<1>1. CASE left = {}
  <2>1. /\ pc'[P] = "idle" /\ todo'[P] = {} /\ reg'[P] = reg[P]
    BY <1>1, Alone DEF NextReg, Goto, TypeOK
  <2>2. Mode(P)' = "idle" BY <2>1 DEF Mode
  <2>. QED BY <1>1, <2>1, <2>2 DEF Banks!Advance, P
<1>2. ASSUME NEW i \in left, \A j \in left : i <= j,
             pc'    = [pc EXCEPT ![P] = Enter(c)],
             todo'  = [todo EXCEPT ![P] = left \ {i}],
             reg'   = [reg EXCEPT ![P] = i],
             phase' = [phase EXCEPT ![P] = IF IsWrite(c) THEN "write" ELSE "read"]
      PROVE  Banks!Advance(c, left)
  <2>1. /\ pc'[P] \in {"select", "access"} /\ todo'[P] = left \ {i} /\ reg'[P] = i
        /\ phase'[P] = IF IsWrite(c) THEN "write" ELSE "read"
    BY <1>2, Alone DEF Enter, TypeOK
  <2>2. Mode(P)' = IF IsWrite(c) THEN "write" ELSE "show" BY <2>1 DEF Mode
  <2>. QED BY <1>2, <2>1, <2>2 DEF Banks!Advance, P, IsWrite
<1>. QED BY <1>1, <1>2 DEF NextReg, Goto

(* What BankedRegs sees is left alone. *)
Unseen ==
  /\ PlainBar' = PlainBar /\ BankBar' = BankBar
  /\ Mode(P)' = Mode(P)
  /\ cmd'[P] = cmd[P] /\ todo'[P] = todo[P] /\ reg'[P] = reg[P] /\ out'[P] = out[P]

LEMMA UnseenStutters == Unseen => UNCHANGED Banks!vars
BY DEF Unseen, Banks!vars, PlainBar, BankBar, PlainOffsets, P

(* A process may end anywhere. *)
LEMMA EndSeen ==
  ASSUME TypeOK, status[P] = "running", status'[P] # "running",
         PlainBar' = PlainBar, BankBar' = BankBar,
         cmd'[P] = cmd[P], todo'[P] = todo[P], reg'[P] = reg[P], out'[P] = out[P]
  PROVE  Banks!End
<1>1. Mode(P)' = "ended" BY DEF Mode
<1>2. Mode(P) # "ended" BY DEF Mode
<1>. QED BY <1>1, <1>2 DEF Banks!End, PlainBar, BankBar, PlainOffsets, P

(* The write of a case. *)
LEMMA WriteSeen ==
  ASSUME AloneInv, pc[P] \in {"access", "modify"}, phase[P] = "write",
         status[P] = "running", status' = status, cmd' = cmd,
         NEW word \in Word, Store(TargetOffset(P), word), NEW val, EndAccess(P, val),
         Banks!Merged(cmd[P], Target(P), Content(cmd[P], Target(P)), word)
  PROVE  Banks!WriteReg
<1>0. TypeOK /\ Walk /\ QuiescentClear /\ BankSet BY OwnedClear DEF AloneInv
<1>. PICK c : c = cmd[P] OBVIOUS
<1>. PICK i : i = Target(P) OBVIOUS
<1>1. c \in Commands /\ i \in Matches(c.reg) BY <1>0, TargetIsReg
<1>2. Mode(P) = "write" BY <1>0, ModeOf
<1>3. /\ \/ phase'[P] = "read" /\ pc'[P] \in {"select", "access"}
         \/ pc'[P] = "clear"
      /\ todo'[P] = todo[P] /\ reg'[P] = reg[P] /\ out'[P] = out[P]
  BY <1>0, Alone DEF EndAccess, EndCase, Goto, Enter, local, TypeOK
<1>4. Mode(P)' = "show" BY <1>0, <1>3, Alone DEF Mode, TypeOK
<1>5. IF Regs[i].offset \in Banked
      THEN /\ BankBar' = [BankBar EXCEPT ![OwnSel(c)][Regs[i].offset] = word]
           /\ PlainBar' = PlainBar
      ELSE /\ PlainBar' = [PlainBar EXCEPT ![Regs[i].offset] = word]
           /\ BankBar' = BankBar
  BY <1>0, TargetStored
<1>6. Banks!Merged(c, i, Banks!Contents(c, i), word)
  BY <1>0, <1>1, BarContents
<1>7. word \in Banks!Word BY BarWords
<1>8. Banks!Worked(cmd[P], reg[P]) = i BY <1>0, BarWorked
<1>. QED
  BY <1>2, <1>3, <1>4, <1>5, <1>6, <1>7, <1>8, BarSelection
     DEF Banks!WriteReg, PlainBar, BankBar, PlainOffsets, P

(* The case that shows a register. *)
LEMMA ShowSeen ==
  ASSUME TypeOK, Walk, pc[P] # "idle", phase[P] = "read", pc[P] # "unwind",
         status[P] = "running", status' = status, cmd' = cmd,
         EndCase(P, Content(cmd[P], Target(P))),
         PlainBar' = PlainBar, BankBar' = BankBar
  PROVE  Banks!ShowReg
<1>. PICK c : c = cmd[P] OBVIOUS
<1>. PICK i : i = Target(P) OBVIOUS
<1>1. c \in Commands /\ i \in Matches(c.reg) BY TargetIsReg
<1>2. Mode(P) = "show" BY Alone, ModeOf DEF At, TypeOK, PcLabels
<1>3. /\ out' = [out EXCEPT ![P] = Formatted(reg[P], Content(c, i))]
      /\ NextReg(P, c, todo[P])
  BY DEF EndCase
<1>4. out'[P].reg = reg[P] /\ out'[P].val = Content(c, i)
  BY <1>3, Alone DEF TypeOK, Formatted
<1>5. Banks!Contents(c, Banks!Worked(c, reg[P])) = Content(c, i)
  BY <1>1, BarWorked, BarContents
<1>6. Banks!Advance(c, todo[P]) BY <1>3, BarAdvance
<1>. QED BY <1>2, <1>4, <1>5, <1>6 DEF Banks!ShowReg, PlainBar, BankBar, PlainOffsets, P

LEMMA BarInit == Init => Banks!Init
<1>. SUFFICES ASSUME Init PROVE Banks!Init OBVIOUS
<1>1. TypeOK BY TypeInit
<1>2. Mode(P) = "idle" BY <1>1, Alone, ModeOf DEF Init, At
<1>3. [off \in Offsets \ (Banked \cup {GfxCntl}) |-> mmio[off]]
        = [off \in Offsets \ (Banked \cup {GfxCntl}) |-> PowerOn]
  BY DEF Init
<1>4. \A s \in Selections : bank[SelectWord(CntlFields, s)] = [off \in Banked |-> PowerOn]
  BY SelectWordType DEF Init
<1>5. cmd[P] \in Commands BY <1>1, Alone DEF TypeOK
<1>6. todo[P] = {} /\ reg[P] = 0 /\ out[P] = NothingPrinted BY Alone DEF Init
<1>. QED BY <1>2, <1>3, <1>4, <1>5, <1>6
     DEF Banks!Init, P, NothingPrinted, Banks!Zero, Zero

LEMMA BarStep == AloneInv /\ Right /\ [Next]_vars => [Banks!Next]_Banks!vars
<1>. SUFFICES ASSUME AloneInv, Right, [Next]_vars
              PROVE  Banks!Next \/ UNCHANGED Banks!vars
  OBVIOUS
<1>0. TypeOK /\ Walk /\ QuiescentClear /\ BankSet BY OwnedClear DEF AloneInv
<1>a. ASSUME mmio' = mmio, bank' = bank PROVE PlainBar' = PlainBar /\ BankBar' = BankBar
  BY <1>a DEF PlainBar, BankBar
<1>1. CASE Dispatch(P)
  <2>1. PICK d \in Commands : /\ cmd' = [cmd EXCEPT ![P] = d]
                              /\ NextReg(P, d, Matches(d.reg))
    BY <1>1 DEF Dispatch
  <2>2. /\ At(P, "idle") /\ status' = status /\ mmio' = mmio /\ bank' = bank /\ out' = out
        /\ cmd'[P] = d
    BY <1>0, <1>1, <2>1, Alone DEF Dispatch, hw, TypeOK
  <2>3. Banks!Advance(d, Matches(d.reg)) BY <1>0, <2>1, <2>2, BarAdvance DEF At
  <2>4. Matches(d.reg) = Banks!Named(d.reg) BY DEF Matches, Banks!Named
  <2>5. Mode(P) = "idle" BY <1>0, <2>2, ModeOf
  <2>6. Banks!Begin
    BY <1>a, <2>2, <2>3, <2>4, <2>5 DEF Banks!Begin, PlainBar, BankBar, PlainOffsets, P
  <2>. QED BY <2>6 DEF Banks!Next
<1>2. CASE SrbmSelect(P)
  <2>1. /\ At(P, "select") /\ pc'[P] = "access" /\ status' = status /\ phase' = phase
        /\ cmd' = cmd /\ todo' = todo /\ reg' = reg /\ out' = out
    BY <1>0, <1>2, Alone DEF SrbmSelect, Goto, local, TypeOK
  <2>2. PlainBar' = PlainBar /\ BankBar' = BankBar
    BY <1>0, <1>2, CntlStored DEF SrbmSelect
  <2>3. Mode(P)' = Mode(P) BY <2>1 DEF Mode, At
  <2>. QED BY <2>1, <2>2, <2>3, UnseenStutters DEF Unseen
<1>3. CASE Read(P)
  <2>1. /\ pc[P] = "access" /\ phase[P] = "read" /\ status[P] = "running"
        /\ status' = status /\ cmd' = cmd /\ mmio' = mmio /\ bank' = bank
        /\ EndAccess(P, Load(TargetOffset(P)))
    BY <1>3 DEF Read, At, hw
  <2>2. Load(TargetOffset(P)) = Content(cmd[P], Target(P)) BY <1>0, <2>1, LoadIsContent
  <2>3. CASE Srbm(cmd[P])
    <3>1. pc'[P] = "clear" /\ phase' = phase /\ todo' = todo /\ reg' = reg /\ out' = out
      BY <1>0, <2>1, <2>3, Alone DEF EndAccess, Goto, local, TypeOK
    <3>2. Mode(P)' = Mode(P) BY <2>1, <3>1 DEF Mode
    <3>. QED BY <1>a, <2>1, <3>1, <3>2, UnseenStutters DEF Unseen
  <2>4. CASE ~Srbm(cmd[P])
    <3>1. EndCase(P, Content(cmd[P], Target(P))) BY <2>1, <2>2, <2>4 DEF EndAccess
    <3>2. Banks!ShowReg BY <1>0, <1>a, <2>1, <3>1, ShowSeen
    <3>. QED BY <3>2 DEF Banks!Next
  <2>. QED BY <2>3, <2>4
<1>4. CASE Write(P)
  <2>1. /\ pc[P] = "access" /\ phase[P] = "write" /\ status[P] = "running"
        /\ status' = status /\ cmd' = cmd /\ cmd[P].field = ""
        /\ Store(TargetOffset(P), cmd[P].val) /\ EndAccess(P, Zero)
    BY <1>4 DEF Write, At
  <2>2. PICK w \in Word : w = cmd[P].val
    BY <1>0, Alone, CommandsAssumption DEF TypeOK
  <2>3. Banks!Merged(cmd[P], Target(P), Content(cmd[P], Target(P)), w)
    BY <2>1, <2>2 DEF Banks!Merged
  <2>4. Store(TargetOffset(P), w) BY <2>1, <2>2
  <2>5. Banks!WriteReg BY <2>1, <2>3, <2>4, WriteSeen
  <2>. QED BY <2>5 DEF Banks!Next
<1>5. CASE FieldRead(P)
  <2>1. /\ At(P, "access") /\ phase[P] = "write" /\ pc'[P] = "modify" /\ status' = status
        /\ cmd' = cmd /\ todo' = todo /\ reg' = reg /\ out' = out /\ phase' = phase
        /\ mmio' = mmio /\ bank' = bank
    BY <1>0, <1>5, Alone DEF FieldRead, Goto, hw, local, TypeOK
  <2>2. Mode(P)' = Mode(P) BY <2>1 DEF Mode, At
  <2>. QED BY <1>a, <2>1, <2>2, UnseenStutters DEF Unseen
<1>6. CASE FieldWrite(P)
  <2>1. /\ pc[P] = "modify" /\ phase[P] = "write" /\ status[P] = "running"
        /\ status' = status /\ cmd' = cmd
        /\ Store(TargetOffset(P), InsertField(tmp[P], TargetField(P), cmd[P].val))
        /\ EndAccess(P, Zero)
    BY <1>0, <1>6, Alone DEF FieldWrite, At, Walk, Walking
  <2>2. PICK w : w = InsertField(tmp[P], TargetField(P), cmd[P].val) OBVIOUS
  <2>3. w \in Word /\ Banks!Merged(cmd[P], Target(P), Content(cmd[P], Target(P)), w)
    BY <2>1, <2>2, FieldMerged
  <2>4. Store(TargetOffset(P), w) BY <2>1, <2>2
  <2>5. Banks!WriteReg BY <2>1, <2>3, <2>4, WriteSeen
  <2>. QED BY <2>5 DEF Banks!Next
<1>7. CASE SrbmClear(P)
  <2>1. /\ At(P, "clear") /\ status' = status /\ cmd' = cmd /\ EndCase(P, tmp[P])
    BY <1>7 DEF SrbmClear
  <2>2. PlainBar' = PlainBar /\ BankBar' = BankBar
    BY <1>0, <1>7, CntlStored DEF SrbmClear
  <2>3. CASE phase[P] = "write"
    <3>1. /\ phase'[P] = "read" /\ pc'[P] \in {"select", "access"}
          /\ todo' = todo /\ reg' = reg /\ out' = out
      BY <1>0, <2>1, <2>3, Alone DEF EndCase, Goto, Enter, TypeOK
    <3>2. Mode(P)' = Mode(P) BY <2>1, <3>1 DEF Mode, At
    <3>. QED BY <2>1, <2>2, <3>1, <3>2, UnseenStutters DEF Unseen
  <2>4. CASE phase[P] = "read"
    <3>1. tmp[P] = Content(cmd[P], Target(P)) BY <2>1, <2>4 DEF Right, ReadRight, At
    <3>2. Banks!ShowReg BY <1>0, <2>1, <2>2, <2>4, <3>1, ShowSeen DEF At
    <3>. QED BY <3>2 DEF Banks!Next
  <2>. QED BY <1>0, <2>3, <2>4, Alone DEF TypeOK
<1>8. CASE Unwind(P)
  <2>1. /\ status[P] = "running" /\ status'[P] # "running"
        /\ cmd' = cmd /\ todo' = todo /\ reg' = reg /\ out' = out
    BY <1>0, <1>8, Alone DEF Unwind, At, Die, local, TypeOK
  <2>2. PlainBar' = PlainBar /\ BankBar' = BankBar
    BY <1>0, <1>8, CntlStored DEF Unwind
  <2>3. Banks!End BY <1>0, <2>1, <2>2, EndSeen
  <2>. QED BY <2>3 DEF Banks!Next
<1>9. CASE AccessFails(P) /\ Srbm(cmd[P])
  <2>1. /\ status[P] = "running" /\ pc[P] \in {"access", "modify"} /\ pc'[P] = "unwind"
        /\ status' = status /\ cmd' = cmd /\ todo' = todo /\ reg' = reg /\ out' = out
        /\ phase' = phase /\ mmio' = mmio /\ bank' = bank
    BY <1>0, <1>9, Alone DEF AccessFails, At, Goto, hw, local, TypeOK
  <2>2. Mode(P)' = Mode(P) BY <2>1 DEF Mode
  <2>. QED BY <1>a, <2>1, <2>2, UnseenStutters DEF Unseen
<1>10. CASE \/ SelectFails(P) \/ (AccessFails(P) /\ ~Srbm(cmd[P])) \/ ClearFails(P)
            \/ NullFieldSpec(P) \/ Quit(P) \/ Kill(P)
  <2>1. /\ status[P] = "running" /\ status'[P] # "running"
        /\ cmd' = cmd /\ todo' = todo /\ reg' = reg /\ out' = out
        /\ mmio' = mmio /\ bank' = bank
    BY <1>0, <1>10, Alone
       DEF SelectFails, AccessFails, ClearFails, NullFieldSpec, Quit, Kill, At, Die, hw, local, TypeOK
  <2>2. Banks!End BY <1>0, <1>a, <2>1, EndSeen
  <2>. QED BY <2>2 DEF Banks!Next
<1>11. CASE UNCHANGED vars
  <2>1. UNCHANGED <<mmio, bank, status, pc, cmd, todo, reg, phase, tmp, out>>
    BY <1>11 DEF vars
  <2>2. Mode(P)' = Mode(P) BY <2>1 DEF Mode
  <2>. QED BY <1>a, <2>1, <2>2, UnseenStutters DEF Unseen
<1>. QED
  <2>1. ASSUME Next PROVE Dispatch(P) \/ Step(P) \/ Fault(P) \/ Quit(P)
    BY <2>1, Alone DEF Next
  <2>. QED BY <1>1, <1>2, <1>3, <1>4, <1>5, <1>6, <1>7, <1>8, <1>9, <1>10, <1>11, <2>1
           DEF Step, Fault

(* The register commands of a gputool that is alone, unless they name the  *)
(* selector, are atomic reads and writes of registers in the bank of the   *)
(* command: whatever the database, the values and the selections.          *)
THEOREM CommandsBanked == Spec => BankedSpec
BY BarInit, BarStep, AlwaysRight, PTL DEF Spec, BankedSpec, Banks!Spec
=============================================================================
