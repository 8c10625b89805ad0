-------------------------- MODULE RegAccessProofs --------------------------
(***************************************************************************)
(* Theorems about RegAccess, for any number of processes, any register     *)
(* database with a SRBM_GFX_CNTL, any word width and any set of commands.  *)
(***************************************************************************)
EXTENDS RegAccess, FiniteSetTheorems, WellFoundedInduction, TLAPS

(***************************************************************************)
(* The words gputool puts together, of any width.                          *)
(***************************************************************************)

(* Whatever is selected or inserted, the result is a word. *)
LEMMA SelectWordType ==
  ASSUME NEW fields, NEW sel
  PROVE  SelectWord(fields, sel) \in Word
BY DEF SelectWord, And, Shl, Word

LEMMA InsertFieldType ==
  ASSUME NEW old \in Word, NEW f, NEW val
  PROVE  InsertField(old, f, val) \in Word
BY DEF InsertField, Or, And, Not, Shl, Word

(* The arguments of srbmClear select zero. *)
LEMMA ZeroSelects ==
  ASSUME NEW K, NEW fields
  PROVE  SelectWord(fields, [k \in K |-> Zero]) = Zero
<1>1. \A k \in K : And(Shl(Zero, fields[k].shift), fields[k].mask) = Zero
  BY DEF And, Shl, Zero
<1>2. QED
  BY <1>1 DEF SelectWord, Zero

(***************************************************************************)
(* srbmSelect: in fields that do not overlap, what can be read back from   *)
(* the word is of every argument what its field holds: all of it, if it    *)
(* fits.                                                                   *)
(***************************************************************************)
THEOREM FieldsHold ==
  ASSUME NEW K, NEW fields, NEW sel, DOMAIN sel = K,
         \A j, l \in K : j # l => fields[j].mask \cap fields[l].mask = {},
         NEW k \in K
  PROVE  ExtractField(SelectWord(fields, sel), fields[k]) = Held(sel[k], fields[k])
<1> DEFINE w == SelectWord(fields, sel)
           mine == Shl(sel[k], fields[k].shift)
<1>1. w \cap fields[k].mask \subseteq mine
  <2>1. SUFFICES ASSUME NEW b \in w, b \in fields[k].mask PROVE b \in mine
    OBVIOUS
  <2>2. PICK l \in K : b \in And(Shl(sel[l], fields[l].shift), fields[l].mask)
    BY DEF SelectWord
  <2>3. b \in fields[l].mask /\ b \in Shl(sel[l], fields[l].shift)
    BY <2>2 DEF And
  <2>4. l = k
    BY <2>1, <2>3
  <2>5. QED
    BY <2>3, <2>4
<1>2. And(mine, fields[k].mask) \subseteq w
  BY DEF SelectWord
<1>3. And(w, fields[k].mask) = And(mine, fields[k].mask)
  BY <1>1, <1>2 DEF And
<1>4. QED
  BY <1>3 DEF ExtractField, Held

(***************************************************************************)
(* writeField: what can be read back from the field is what it holds of    *)
(* the value, and the bits outside the field are the old ones, except      *)
(* where the value has bits beyond the field.                              *)
(***************************************************************************)
THEOREM FieldInserted ==
  ASSUME NEW old \in Word, NEW f, f.mask \in Word, NEW val
  PROVE  LET w == InsertField(old, f, val)
             elsewhere == Not(Or(f.mask, Shl(val, f.shift))) IN
         /\ ExtractField(w, f) = Held(val, f)
         /\ And(w, elsewhere) = And(old, elsewhere)
         /\ Inside(val, f) => And(w, Not(f.mask)) = And(old, Not(f.mask))
<1> DEFINE w == InsertField(old, f, val)
           mine == Shl(val, f.shift)
           elsewhere == Not(Or(f.mask, mine))
<1>1. And(w, f.mask) = And(mine, f.mask)
  BY DEF InsertField, And, Or, Not
<1>2. And(w, elsewhere) = And(old, elsewhere)
  BY DEF InsertField, And, Or, Not, Word
<1>3. ASSUME Inside(val, f) PROVE And(w, Not(f.mask)) = And(old, Not(f.mask))
  BY <1>3 DEF Inside, InsertField, And, Or, Not, Word
<1>4. QED
  BY <1>1, <1>2, <1>3 DEF ExtractField, Held

(***************************************************************************)
(* Looking registers up.                                                   *)
(***************************************************************************)

(* Every set of natural numbers that is not empty has a least element.     *)
LEMMA LeastElement ==
  ASSUME NEW S \in SUBSET Nat, S # {}
  PROVE  \E m \in S : \A n \in S : m <= n
<1> DEFINE R == OpToRel(<, Nat)
<1>1. IsWellFoundedOn(R, Nat)
  BY NatLessThanWellFounded
<1>2. PICK m \in S : \A n \in S : <<n, m>> \notin R
  <2> HIDE DEF R
  <2>1. QED
    BY <1>1, WFMin
<1>3. \A n \in S : ~(n < m)
  BY <1>2 DEF OpToRel
<1>4. QED
  BY <1>3

(* getRegSpec finds a register with the name, if there is one.             *)
LEMMA FirstMatch ==
  ASSUME NEW name, Matches(name) # {}
  PROVE  GetRegSpec(name) \in Matches(name)
<1>1. Matches(name) \in SUBSET Nat
  BY RegsAssumption DEF Matches
<1>2. \E i \in Matches(name) : \A j \in Matches(name) : i <= j
  BY <1>1, LeastElement
<1>3. QED
  BY <1>2 DEF GetRegSpec

(* The register that srbmSelect stores to is the hardware's selector.      *)
LEMMA CntlFound ==
  /\ GetRegSpec("SRBM_GFX_CNTL") \in DOMAIN Regs
  /\ Regs[GetRegSpec("SRBM_GFX_CNTL")].offset = GfxCntl
<1>1. GetRegSpec("SRBM_GFX_CNTL") \in Matches("SRBM_GFX_CNTL")
  BY FirstMatch, HardwareAssumption
<1>2. QED
  BY <1>1, HardwareAssumption DEF Matches

----------------------------------------------------------------------------
(***************************************************************************)
(* The words the program computes.                                         *)
(***************************************************************************)

(* srbmClear stores zero.                                                  *)
LEMMA ClearWordZero == ClearWord = Zero
  BY ZeroSelects DEF ClearWord

----------------------------------------------------------------------------
(***************************************************************************)
(* Where a process is in doRegOp's loop: what its position says of its     *)
(* command and of the register it is at.                                   *)
(***************************************************************************)
Walking(p) ==
  /\ todo[p] \subseteq Matches(cmd[p].reg)
  /\ pc[p] # "idle" => reg[p] \in Matches(cmd[p].reg)
  /\ pc[p] \in {"select", "clear", "unwind"} => Srbm(cmd[p])
  /\ pc[p] # "idle" /\ phase[p] = "write" => IsWrite(cmd[p])
  /\ pc[p] = "modify" => phase[p] = "write"

Walk == \A p \in Procs : Walking(p)

(* The types of what a process keeps of its loop.                          *)
LoopType ==
  /\ pc    \in [Procs -> PcLabels]
  /\ todo  \in [Procs -> SUBSET DOMAIN Regs]
  /\ reg   \in [Procs -> DOMAIN Regs \cup {0}]
  /\ phase \in [Procs -> {"read", "write"}]
  /\ DOMAIN out = Procs
  /\ \A p \in Procs : out[p].val \in Word

(* A store leaves words in the registers, a load returns one.              *)
LEMMA StoreType ==
  ASSUME TypeOK, NEW off \in Offsets, NEW word \in Word, Store(off, word)
  PROVE  /\ mmio' \in [Offsets -> Word]
         /\ bank' \in [Word -> [Banked -> Word]]
<1>1. Selector \in Word
  BY DEF TypeOK, Selector, Offsets
<1>2. CASE off \in Banked
  <2>1. bank \in [Word -> [Banked -> Word]]
    BY DEF TypeOK
  <2> DEFINE changed == [bank[Selector] EXCEPT ![off] = word]
  <2>2. changed \in [Banked -> Word]
    BY <1>1, <2>1
  <2>3. bank' = [bank EXCEPT ![Selector] = changed] /\ mmio' = mmio
    BY <1>2 DEF Store
  <2>4. bank' \in [Word -> [Banked -> Word]]
    <3> HIDE DEF changed
    <3> QED
      BY <1>1, <2>1, <2>2, <2>3
  <2>5. QED
    BY <2>3, <2>4 DEF TypeOK
<1>3. CASE off \notin Banked
  BY <1>3 DEF Store, TypeOK
<1>4. QED
  BY <1>2, <1>3

LEMMA LoadType ==
  ASSUME TypeOK, NEW off \in Offsets
  PROVE  Load(off) \in Word
<1>1. Selector \in Word
  BY DEF TypeOK, Selector, Offsets
<1>2. QED
  BY <1>1 DEF Load, TypeOK

(* The register a device call is made on is one of the database.           *)
LEMMA TargetType ==
  ASSUME NEW p \in Procs, reg[p] \in Matches(cmd[p].reg)
  PROVE  TargetOffset(p) \in Offsets
<1>1. reg[p] \in DOMAIN Regs
  BY DEF Matches
<1>2. reg[p] \in Matches(Regs[reg[p]].name)
  BY <1>1 DEF Matches
<1>3. GetRegSpec(Regs[reg[p]].name) \in DOMAIN Regs
  BY <1>2, FirstMatch DEF Matches
<1>4. Target(p) \in DOMAIN Regs
  BY <1>1, <1>3 DEF Target
<1>5. QED
  BY <1>4 DEF TargetOffset, Offsets

(* The loop goes to the next match, or ends.                               *)
LEMMA NextRegWalks ==
  ASSUME LoopType, Walk, NEW p \in Procs,
         NEW c \in Commands, NEW left \in SUBSET Matches(c.reg),
         NextReg(p, c, left), cmd' = [cmd EXCEPT ![p] = c], DOMAIN cmd = Procs
  PROVE  /\ pc'    \in [Procs -> PcLabels]
         /\ todo'  \in [Procs -> SUBSET DOMAIN Regs]
         /\ reg'   \in [Procs -> DOMAIN Regs \cup {0}]
         /\ phase' \in [Procs -> {"read", "write"}]
         /\ Walk'
<1>1. Matches(c.reg) \subseteq DOMAIN Regs
  BY DEF Matches
<1>2. CASE left = {} /\ pc' = [pc EXCEPT ![p] = "idle"]
                     /\ todo' = [todo EXCEPT ![p] = {}]
                     /\ UNCHANGED <<reg, phase>>
  <2>1. \A q \in Procs : Walking(q)'
    BY <1>2 DEF Walk, Walking, LoopType
  <2>2. QED
    BY <1>2, <2>1 DEF LoopType, PcLabels, Walk
<1>3. ASSUME NEW i \in left,
             pc'    = [pc EXCEPT ![p] = Enter(c)],
             todo'  = [todo EXCEPT ![p] = left \ {i}],
             reg'   = [reg EXCEPT ![p] = i],
             phase' = [phase EXCEPT ![p] = IF IsWrite(c) THEN "write" ELSE "read"]
      PROVE  /\ pc'    \in [Procs -> PcLabels]
             /\ todo'  \in [Procs -> SUBSET DOMAIN Regs]
             /\ reg'   \in [Procs -> DOMAIN Regs \cup {0}]
             /\ phase' \in [Procs -> {"read", "write"}]
             /\ Walk'
  <2>1. Enter(c) \in {"select", "access"} /\ (Enter(c) = "select" => Srbm(c))
    BY DEF Enter
  <2>2. i \in Matches(c.reg) /\ left \ {i} \subseteq Matches(c.reg)
    OBVIOUS
  <2>3. /\ pc'    \in [Procs -> PcLabels]
        /\ todo'  \in [Procs -> SUBSET DOMAIN Regs]
        /\ reg'   \in [Procs -> DOMAIN Regs \cup {0}]
        /\ phase' \in [Procs -> {"read", "write"}]
    BY <1>1, <1>3, <2>1, <2>2 DEF LoopType, PcLabels
  <2>4. Walking(p)'
    BY <1>3, <2>1, <2>2 DEF Walking, LoopType
  <2>5. \A q \in Procs \ {p} : Walking(q)'
    BY <1>3 DEF Walk, Walking, LoopType
  <2>6. QED
    BY <2>3, <2>4, <2>5 DEF Walk
<1>4. QED
  BY <1>2, <1>3 DEF NextReg, Goto

(* A case of the switch falls through to "read", or goes to the next match.*)
LEMMA EndCaseWalks ==
  ASSUME TypeOK, Walk, NEW p \in Procs, pc[p] # "idle",
         NEW val \in Word, EndCase(p, val), cmd' = cmd
  PROVE  LoopType' /\ Walk'
<1>1. LoopType
  BY DEF TypeOK, LoopType
<1>2. CASE /\ phase[p] = "write"
           /\ phase' = [phase EXCEPT ![p] = "read"]
           /\ pc' = [pc EXCEPT ![p] = Enter(cmd[p])]
           /\ UNCHANGED <<todo, reg, out>>
  <2>1. /\ Enter(cmd[p]) \in {"select", "access"}
        /\ Enter(cmd[p]) = "select" => Srbm(cmd[p])
    BY DEF Enter
  <2>2. \A q \in Procs : Walking(q)'
    BY <1>1, <1>2, <2>1 DEF Walk, Walking, LoopType
  <2>3. QED
    BY <1>1, <1>2, <2>1, <2>2 DEF Walk, LoopType, PcLabels
<1>3. CASE /\ out' = [out EXCEPT ![p] = Formatted(reg[p], val)]
           /\ NextReg(p, cmd[p], todo[p])
  <2>1. /\ cmd[p] \in Commands
        /\ todo[p] \in SUBSET Matches(cmd[p].reg)
        /\ cmd' = [cmd EXCEPT ![p] = cmd[p]]
        /\ DOMAIN cmd = Procs
    BY DEF TypeOK, Walk, Walking
  <2>2. /\ pc'    \in [Procs -> PcLabels]
        /\ todo'  \in [Procs -> SUBSET DOMAIN Regs]
        /\ reg'   \in [Procs -> DOMAIN Regs \cup {0}]
        /\ phase' \in [Procs -> {"read", "write"}]
        /\ Walk'
    BY <1>1, <1>3, <2>1, NextRegWalks
  <2>3. Formatted(reg[p], val).val \in Word
    BY DEF Formatted
  <2>4. DOMAIN out' = Procs /\ \A q \in Procs : out'[q].val \in Word
    BY <1>1, <1>3, <2>3 DEF LoopType
  <2>5. QED
    BY <2>2, <2>4 DEF LoopType
<1>4. QED
  BY <1>2, <1>3 DEF EndCase, Goto

(* An srbm access goes on to its guard, another one ends its case.         *)
LEMMA EndAccessWalks ==
  ASSUME TypeOK, Walk, NEW p \in Procs, pc[p] \in {"access", "modify"},
         NEW val \in Word, EndAccess(p, val), cmd' = cmd
  PROVE  LoopType' /\ Walk'
<1>1. CASE /\ Srbm(cmd[p])
           /\ pc' = [pc EXCEPT ![p] = "clear"]
           /\ UNCHANGED local
  <2>1. LoopType'
    BY <1>1 DEF TypeOK, LoopType, PcLabels, local
  <2>2. \A q \in Procs : Walking(q)'
    BY <1>1 DEF TypeOK, Walk, Walking, local
  <2>3. QED
    BY <2>1, <2>2 DEF Walk
<1>2. CASE EndCase(p, val)
  BY <1>2, EndCaseWalks
<1>3. QED
  BY <1>1, <1>2 DEF EndAccess, Goto

----------------------------------------------------------------------------
(***************************************************************************)
(* Type correctness.  Walk is what makes TypeOK inductive: a register      *)
(* access is in the address space because reg is a match of the command.   *)
(***************************************************************************)
LEMMA TypeInit == Init => TypeOK /\ Walk
<1> SUFFICES ASSUME Init PROVE TypeOK /\ Walk
  OBVIOUS
<1>1. mmio \in [Offsets -> Word] /\ bank \in [Word -> [Banked -> Word]]
  BY HardwareAssumption DEF Init, Word, Zero
<1>2. (CHOOSE c \in Commands : TRUE) \in Commands
  BY CommandsAssumption
<1>3. tmp \in [Procs -> Word] /\ \A p \in Procs : out[p].val \in Word
  BY DEF Init, NothingPrinted, Word, Zero
<1>4. TypeOK
  BY <1>1, <1>2, <1>3 DEF Init, TypeOK, Statuses, PcLabels
<1>5. Walk
  BY DEF Init, Walk, Walking
<1>6. QED
  BY <1>4, <1>5

LEMMA TypeStep == TypeOK /\ Walk /\ [Next]_vars => TypeOK' /\ Walk'
<1> SUFFICES ASSUME TypeOK, Walk, [Next]_vars PROVE TypeOK' /\ Walk'
  OBVIOUS
<1>0. LoopType
  BY DEF TypeOK, LoopType
<1>a. Regs[GetRegSpec("SRBM_GFX_CNTL")].offset \in Offsets
  BY CntlFound DEF Offsets
<1>b. ASSUME NEW p \in Procs, pc[p] # "idle"
      PROVE  TargetOffset(p) \in Offsets /\ Load(TargetOffset(p)) \in Word
  <2>1. TargetOffset(p) \in Offsets
    BY <1>b, TargetType DEF Walk, Walking
  <2>2. QED
    BY <2>1, LoadType
<1>c. ASSUME NEW p \in Procs PROVE cmd[p].val \in Word
  BY CommandsAssumption DEF TypeOK
<1>d. Zero \in Word
  BY DEF Zero, Word
<1>1. ASSUME NEW p \in Procs, Dispatch(p) PROVE TypeOK' /\ Walk'
  <2>1. PICK c \in Commands : /\ cmd' = [cmd EXCEPT ![p] = c]
                              /\ NextReg(p, c, Matches(c.reg))
    BY <1>1 DEF Dispatch
  <2>2. cmd' \in [Procs -> Commands] /\ DOMAIN cmd = Procs
    BY <2>1 DEF TypeOK
  <2>3. /\ pc'    \in [Procs -> PcLabels]
        /\ todo'  \in [Procs -> SUBSET DOMAIN Regs]
        /\ reg'   \in [Procs -> DOMAIN Regs \cup {0}]
        /\ phase' \in [Procs -> {"read", "write"}]
        /\ Walk'
    BY <1>0, <2>1, <2>2, NextRegWalks
  <2>4. QED
    BY <1>1, <2>2, <2>3 DEF Dispatch, TypeOK, hw
<1>2. ASSUME NEW p \in Procs, SrbmSelect(p) PROVE TypeOK' /\ Walk'
  <2>1. SelectWord(CntlFields, cmd[p].sel) \in Word
    BY SelectWordType
  <2>2. mmio' \in [Offsets -> Word] /\ bank' \in [Word -> [Banked -> Word]]
    BY <1>2, <1>a, <2>1, StoreType DEF SrbmSelect
  <2>3. TypeOK'
    BY <1>2, <2>2 DEF SrbmSelect, Goto, TypeOK, PcLabels, local
  <2>4. \A q \in Procs : Walking(q)'
    BY <1>2 DEF SrbmSelect, At, Goto, Walk, Walking, TypeOK, local
  <2>5. QED
    BY <2>3, <2>4 DEF Walk
<1>3. ASSUME NEW p \in Procs, Read(p) PROVE TypeOK' /\ Walk'
  <2>1. pc[p] = "access" /\ cmd' = cmd
    BY <1>3 DEF Read, At
  <2>2. LoopType' /\ Walk'
    BY <1>3, <1>b, <2>1, EndAccessWalks DEF Read
  <2>3. tmp' \in [Procs -> Word]
    BY <1>3, <1>b, <2>1 DEF Read, TypeOK
  <2>4. QED
    BY <1>3, <2>2, <2>3 DEF Read, TypeOK, LoopType, hw
<1>4. ASSUME NEW p \in Procs, Write(p) PROVE TypeOK' /\ Walk'
  <2>1. pc[p] = "access" /\ cmd' = cmd
    BY <1>4 DEF Write, At
  <2>2. mmio' \in [Offsets -> Word] /\ bank' \in [Word -> [Banked -> Word]]
    BY <1>4, <1>b, <1>c, <2>1, StoreType DEF Write
  <2>3. LoopType' /\ Walk'
    BY <1>4, <1>d, <2>1, EndAccessWalks DEF Write
  <2>4. QED
    BY <1>4, <2>2, <2>3 DEF Write, TypeOK, LoopType
<1>5. ASSUME NEW p \in Procs, FieldRead(p) PROVE TypeOK' /\ Walk'
  <2>1. pc[p] = "access"
    BY <1>5 DEF FieldRead, At
  <2>2. TypeOK'
    BY <1>5, <1>b, <2>1 DEF FieldRead, Goto, TypeOK, PcLabels, hw, local
  <2>3. \A q \in Procs : Walking(q)'
    BY <1>5, <2>1 DEF FieldRead, Goto, Walk, Walking, TypeOK, local
  <2>4. QED
    BY <2>2, <2>3 DEF Walk
<1>6. ASSUME NEW p \in Procs, FieldWrite(p) PROVE TypeOK' /\ Walk'
  <2>1. pc[p] = "modify" /\ cmd' = cmd
    BY <1>6 DEF FieldWrite, At
  <2>2. InsertField(tmp[p], TargetField(p), cmd[p].val) \in Word
    BY InsertFieldType DEF TypeOK
  <2>3. mmio' \in [Offsets -> Word] /\ bank' \in [Word -> [Banked -> Word]]
    BY <1>6, <1>b, <2>1, <2>2, StoreType DEF FieldWrite
  <2>4. LoopType' /\ Walk'
    BY <1>6, <1>d, <2>1, EndAccessWalks DEF FieldWrite
  <2>5. QED
    BY <1>6, <2>3, <2>4 DEF FieldWrite, TypeOK, LoopType
<1>7. ASSUME NEW p \in Procs, SrbmClear(p) PROVE TypeOK' /\ Walk'
  <2>1. pc[p] = "clear" /\ cmd' = cmd
    BY <1>7 DEF SrbmClear, At
  <2>2. ClearWord \in Word
    BY <1>d, ClearWordZero
  <2>3. mmio' \in [Offsets -> Word] /\ bank' \in [Word -> [Banked -> Word]]
    BY <1>7, <1>a, <2>2, StoreType DEF SrbmClear
  <2>4. tmp[p] \in Word
    BY DEF TypeOK
  <2>5. LoopType' /\ Walk'
    BY <1>7, <2>1, <2>4, EndCaseWalks DEF SrbmClear
  <2>6. QED
    BY <1>7, <2>3, <2>5 DEF SrbmClear, TypeOK, LoopType
<1>8. ASSUME NEW p \in Procs, Unwind(p) PROVE TypeOK' /\ Walk'
  <2>1. ClearWord \in Word
    BY <1>d, ClearWordZero
  <2>2. mmio' \in [Offsets -> Word] /\ bank' \in [Word -> [Banked -> Word]]
    BY <1>8, <1>a, <2>1, StoreType DEF Unwind
  <2>3. TypeOK'
    BY <1>8, <2>2 DEF Unwind, Goto, Die, TypeOK, PcLabels, Statuses, local
  <2>4. \A q \in Procs : Walking(q)'
    BY <1>8 DEF Unwind, Goto, Walk, Walking, TypeOK, local
  <2>5. QED
    BY <2>3, <2>4 DEF Walk
<1>9. ASSUME NEW p \in Procs, SelectFails(p) PROVE TypeOK' /\ Walk'
  <2>1. TypeOK'
    BY <1>9 DEF SelectFails, Goto, Die, TypeOK, PcLabels, Statuses, hw, local
  <2>2. \A q \in Procs : Walking(q)'
    BY <1>9 DEF SelectFails, Goto, Walk, Walking, TypeOK, local
  <2>3. QED
    BY <2>1, <2>2 DEF Walk
<1>10. ASSUME NEW p \in Procs, AccessFails(p) PROVE TypeOK' /\ Walk'
  <2>1. TypeOK'
    BY <1>10 DEF AccessFails, Goto, Die, TypeOK, PcLabels, Statuses, hw, local
  <2>2. pc[p] # "idle"
    BY <1>10 DEF AccessFails, At
  <2>3. \A q \in Procs : Walking(q)'
    BY <1>10, <2>2 DEF AccessFails, Goto, Walk, Walking, TypeOK, local
  <2>4. QED
    BY <2>1, <2>3 DEF Walk
<1>11. ASSUME NEW p \in Procs,
              ClearFails(p) \/ NullFieldSpec(p) \/ Quit(p) \/ Kill(p)
       PROVE  TypeOK' /\ Walk'
  <2>1. TypeOK'
    BY <1>11 DEF ClearFails, NullFieldSpec, Quit, Kill, Die, TypeOK, Statuses,
                 hw, local
  <2>2. \A q \in Procs : Walking(q)'
    BY <1>11 DEF ClearFails, NullFieldSpec, Quit, Kill, Walk, Walking, local
  <2>3. QED
    BY <2>1, <2>2 DEF Walk
<1>12. CASE UNCHANGED vars
  <2>1. TypeOK'
    BY <1>12 DEF vars, TypeOK
  <2>2. \A q \in Procs : Walking(q)'
    BY <1>12 DEF vars, Walk, Walking
  <2>3. QED
    BY <2>1, <2>2 DEF Walk
<1>13. QED
  BY <1>1, <1>2, <1>3, <1>4, <1>5, <1>6, <1>7, <1>8, <1>9, <1>10, <1>11, <1>12
     DEF Next, Step, Fault

(* Every variable keeps its type: registers hold words, and a process is   *)
(* only ever at a register of the database.                                *)
THEOREM TypeCorrect == Spec => []TypeOK
<1>1. Spec => [](TypeOK /\ Walk)
  BY TypeInit, TypeStep, PTL DEF Spec
<1>2. QED
  BY <1>1, PTL

----------------------------------------------------------------------------
(***************************************************************************)
(* The selection is cleared.                                               *)
(***************************************************************************)

(* srbmSelect and srbmClear put their word in the selector.                *)
LEMMA SelectorStored ==
  ASSUME TypeOK, NEW word,
         Store(Regs[GetRegSpec("SRBM_GFX_CNTL")].offset, word)
  PROVE  Selector' = word
<1>1. GfxCntl \in Offsets
  BY DEF Offsets
<1>2. mmio' = [mmio EXCEPT ![GfxCntl] = word]
  BY CntlFound, HardwareAssumption DEF Store
<1>3. QED
  BY <1>1, <1>2 DEF Selector, TypeOK

(* No other store changes it.                                              *)
LEMMA SelectorKept ==
  ASSUME TypeOK, NEW off, off # GfxCntl, NEW word, Store(off, word)
  PROVE  Selector' = Selector
<1>1. mmio' = mmio \/ mmio' = [mmio EXCEPT ![off] = word]
  BY DEF Store
<1>2. mmio \in [Offsets -> Word] /\ GfxCntl \in Offsets
  BY DEF TypeOK, Offsets
<1>3. QED
  BY <1>1, <1>2 DEF Selector

(* Unless users write SRBM_GFX_CNTL themselves, an access outside an srbm  *)
(* wrapper is to another register.                                         *)
LEMMA PlainTarget ==
  ASSUME TypeOK, Walk, ~DirectSelect,
         NEW p \in Procs, pc[p] # "idle", phase[p] = "write", ~Srbm(cmd[p])
  PROVE  TargetOffset(p) # GfxCntl
<1>1. reg[p] \in Matches(cmd[p].reg) /\ IsWrite(cmd[p])
  BY DEF Walk, Walking
<1>2. cmd[p].op = "write"
  BY <1>1 DEF IsWrite, Srbm
<1>3. Regs[reg[p]].offset # GfxCntl
  BY <1>1, <1>2 DEF DirectSelect, TypeOK
<1>4. QED
  BY <1>3 DEF TargetOffset, Target

(* The selector keeps an owner when the process that owns it stays inside  *)
(* its wrapper at the same place.                                          *)
LEMMA OwnedKept ==
  ASSUME SelectionOwned, ~DirectSelect, Selector' = Selector,
         \A q \in Procs : InScope(q) =>
           /\ InScope(q)'
           /\ cmd'[q] = cmd[q]
           /\ WroteSelector(q) => WroteSelector(q)'
  PROVE  SelectionOwned'
<1>1. CASE Selector = Zero
  BY <1>1 DEF SelectionOwned
<1>2. ASSUME NEW q \in Procs, InScope(q),
             Selector = SelectWord(CntlFields, cmd[q].sel) \/ WroteSelector(q)
      PROVE  SelectionOwned'
  <2>1. InScope(q)' /\ cmd'[q] = cmd[q] /\ (WroteSelector(q) => WroteSelector(q)')
    BY <1>2
  <2>2. Selector' = SelectWord(CntlFields, cmd'[q].sel) \/ WroteSelector(q)'
    BY <1>2, <2>1
  <2>3. QED
    BY <2>1, <2>2 DEF SelectionOwned
<1>3. QED
  BY <1>1, <1>2 DEF SelectionOwned

(* Other processes are not touched by a step of p.                         *)
LEMMA OthersKept ==
  ASSUME TypeOK, NEW p \in Procs, cmd' = cmd,
         NEW l, pc' = pc \/ pc' = [pc EXCEPT ![p] = l],
         \A q \in Procs \ {p} : phase'[q] = phase[q] /\ reg'[q] = reg[q],
         NEW q \in Procs, q # p, InScope(q)
  PROVE  /\ InScope(q)'
         /\ cmd'[q] = cmd[q]
         /\ WroteSelector(q) => WroteSelector(q)'
<1>1. /\ pc'[q] = pc[q] /\ phase'[q] = phase[q] /\ reg'[q] = reg[q] /\ cmd'[q] = cmd[q]
  BY DEF TypeOK
<1>2. QED
  BY <1>1 DEF InScope, WroteSelector, TargetOffset, Target, Srbm

(* Ending a case moves only its process.                                   *)
LEMMA EndCaseOwn ==
  ASSUME TypeOK, NEW p \in Procs, NEW val, EndCase(p, val)
  PROVE  /\ \E l : pc' = [pc EXCEPT ![p] = l]
         /\ \A q \in Procs \ {p} : phase'[q] = phase[q] /\ reg'[q] = reg[q]
<1>1. \E l : pc' = [pc EXCEPT ![p] = l]
  BY DEF EndCase, NextReg, Goto
<1>2. \A q \in Procs \ {p} : phase'[q] = phase[q] /\ reg'[q] = reg[q]
  BY DEF EndCase, NextReg, TypeOK
<1>3. QED
  BY <1>1, <1>2

(* An access inside a wrapper leaves its guard to run, one outside does    *)
(* not matter to the wrappers of others.                                   *)
LEMMA EndAccessOwned ==
  ASSUME TypeOK, NEW p \in Procs, pc[p] \in {"access", "modify"},
         NEW val, EndAccess(p, val), cmd' = cmd,
         NEW q \in Procs, InScope(q)
  PROVE  /\ InScope(q)'
         /\ cmd'[q] = cmd[q]
         /\ WroteSelector(q) => WroteSelector(q)'
<1>1. CASE Srbm(cmd[p]) /\ pc' = [pc EXCEPT ![p] = "clear"] /\ UNCHANGED local
  <2>1. CASE q = p
    <3>1. ~WroteSelector(q)
      BY <2>1 DEF WroteSelector
    <3>2. InScope(q)' /\ cmd'[q] = cmd[q]
      BY <1>1, <2>1 DEF InScope, TypeOK
    <3>3. QED
      BY <3>1, <3>2
  <2>2. CASE q # p
    BY <1>1, <2>2, OthersKept DEF local
  <2>3. QED
    BY <2>1, <2>2
<1>2. CASE ~Srbm(cmd[p]) /\ EndCase(p, val)
  <2>1. q # p
    BY <1>2 DEF InScope
  <2>2. QED
    BY <1>2, <2>1, EndCaseOwn, OthersKept
<1>3. QED
  BY <1>1, <1>2 DEF EndAccess, Goto

(* A write that stores in the selector owns it, any other leaves it.       *)
LEMMA StoreOwned ==
  ASSUME TypeOK, Walk, SelectionOwned, ~DirectSelect,
         NEW p \in Procs, pc[p] \in {"access", "modify"}, phase[p] = "write",
         NEW word, Store(TargetOffset(p), word),
         NEW val, EndAccess(p, val), cmd' = cmd
  PROVE  SelectionOwned'
<1>1. CASE TargetOffset(p) # GfxCntl
  <2>1. Selector' = Selector
    BY <1>1, SelectorKept
  <2>2. QED
    BY <2>1, EndAccessOwned, OwnedKept
<1>2. CASE TargetOffset(p) = GfxCntl
  <2>1. Srbm(cmd[p])
    BY <1>2, PlainTarget
  <2>2. pc' = [pc EXCEPT ![p] = "clear"] /\ UNCHANGED local
    BY <2>1 DEF EndAccess, Goto
  <2>3. InScope(p)'
    BY <2>1, <2>2 DEF InScope, TypeOK, Srbm
  <2>4. WroteSelector(p)'
    <3>1. pc'[p] = "clear" /\ phase'[p] = "write" /\ reg'[p] = reg[p] /\ cmd'[p] = cmd[p]
      BY <2>2 DEF local, TypeOK
    <3>2. QED
      BY <1>2, <3>1 DEF WroteSelector, TargetOffset, Target, Srbm
  <2>5. QED
    BY <2>3, <2>4 DEF SelectionOwned
<1>3. QED
  BY <1>1, <1>2

LEMMA OwnedStep ==
  TypeOK /\ Walk /\ SelectionOwned /\ [Next]_vars => SelectionOwned'
<1> SUFFICES ASSUME TypeOK, Walk, SelectionOwned, [Next]_vars, ~DirectSelect
             PROVE  SelectionOwned'
  BY DEF SelectionOwned
<1>1. ASSUME NEW p \in Procs, Dispatch(p) PROVE SelectionOwned'
  <2>1. PICK c \in Commands : /\ cmd' = [cmd EXCEPT ![p] = c]
                              /\ NextReg(p, c, Matches(c.reg))
    BY <1>1 DEF Dispatch
  <2>2. PICK l : pc' = [pc EXCEPT ![p] = l]
    BY <2>1 DEF NextReg, Goto
  <2>3. Selector' = Selector /\ pc[p] = "idle"
    BY <1>1 DEF Dispatch, hw, Selector, At
  <2>4. ASSUME NEW q \in Procs, InScope(q)
        PROVE  InScope(q)' /\ cmd'[q] = cmd[q] /\ (WroteSelector(q) => WroteSelector(q)')
    <3>1. q # p
      BY <2>3, <2>4 DEF InScope
    <3>2. phase'[q] = phase[q] /\ reg'[q] = reg[q]
      BY <2>1, <3>1 DEF NextReg, TypeOK
    <3>3. cmd'[q] = cmd[q] /\ pc'[q] = pc[q]
      BY <2>1, <2>2, <3>1 DEF TypeOK
    <3>4. QED
      BY <2>4, <3>2, <3>3 DEF InScope, WroteSelector, TargetOffset, Target, Srbm
  <2>5. QED
    BY <2>3, <2>4, OwnedKept
<1>2. ASSUME NEW p \in Procs, SrbmSelect(p) PROVE SelectionOwned'
  <2>1. Srbm(cmd[p]) /\ cmd' = cmd
    BY <1>2 DEF SrbmSelect, At, Walk, Walking
  <2>2. InScope(p)'
    BY <1>2, <2>1 DEF SrbmSelect, Goto, InScope, TypeOK, Srbm
  <2>3. Selector' = SelectWord(CntlFields, cmd'[p].sel)
    BY <1>2, <2>1, SelectorStored DEF SrbmSelect
  <2>4. QED
    BY <2>2, <2>3 DEF SelectionOwned
<1>3. ASSUME NEW p \in Procs, Read(p) PROVE SelectionOwned'
  <2>1. pc[p] = "access" /\ cmd' = cmd /\ Selector' = Selector
    BY <1>3 DEF Read, At, hw, Selector
  <2>2. EndAccess(p, Load(TargetOffset(p)))
    BY <1>3 DEF Read
  <2>3. QED
    BY <2>1, <2>2, EndAccessOwned, OwnedKept
<1>4. ASSUME NEW p \in Procs, Write(p) PROVE SelectionOwned'
  BY <1>4, StoreOwned DEF Write, At
<1>5. ASSUME NEW p \in Procs, FieldRead(p) PROVE SelectionOwned'
  <2>1. Selector' = Selector /\ pc[p] = "access" /\ cmd' = cmd
    BY <1>5 DEF FieldRead, hw, Selector, At
  <2>2. pc' = [pc EXCEPT ![p] = "modify"] /\ UNCHANGED local
    BY <1>5 DEF FieldRead, Goto
  <2>3. ASSUME NEW q \in Procs, InScope(q)
        PROVE  InScope(q)' /\ cmd'[q] = cmd[q] /\ (WroteSelector(q) => WroteSelector(q)')
    <3>1. CASE q = p
      BY <2>1, <2>2, <2>3, <3>1 DEF InScope, WroteSelector, TypeOK, Srbm
    <3>2. CASE q # p
      BY <2>1, <2>2, <2>3, <3>2, OthersKept DEF local
    <3>3. QED
      BY <3>1, <3>2
  <2>4. QED
    BY <2>1, <2>3, OwnedKept
<1>6. ASSUME NEW p \in Procs, FieldWrite(p) PROVE SelectionOwned'
  BY <1>6, StoreOwned DEF FieldWrite, At, Walk, Walking
<1>7. ASSUME NEW p \in Procs, SrbmClear(p) \/ Unwind(p) PROVE SelectionOwned'
  BY <1>7, SelectorStored, ClearWordZero DEF SrbmClear, Unwind, SelectionOwned
<1>8. ASSUME NEW p \in Procs, SelectFails(p) \/ AccessFails(p)
      PROVE  SelectionOwned'
  <2>1. Selector' = Selector /\ cmd' = cmd /\ UNCHANGED local
    BY <1>8 DEF SelectFails, AccessFails, hw, Selector
  <2>2. PICK l : pc' = [pc EXCEPT ![p] = l]
    BY <1>8 DEF SelectFails, AccessFails, Goto
  <2>3. ASSUME NEW q \in Procs, InScope(q)
        PROVE  InScope(q)' /\ cmd'[q] = cmd[q] /\ (WroteSelector(q) => WroteSelector(q)')
    <3>1. CASE q = p
      BY <1>8, <2>3, <3>1 DEF SelectFails, AccessFails, At, Goto, InScope, WroteSelector, TypeOK
    <3>2. CASE q # p
      BY <2>1, <2>2, <2>3, <3>2, OthersKept DEF local
    <3>3. QED
      BY <3>1, <3>2
  <2>4. QED
    BY <2>1, <2>3, OwnedKept
<1>9. CASE UNCHANGED <<hw, pc, cmd, tmp, local>>
  <2>1. Selector' = Selector /\ cmd' = cmd
    BY <1>9 DEF hw, Selector
  <2>2. \A q \in Procs : InScope(q) => InScope(q)' /\ (WroteSelector(q) => WroteSelector(q)')
    BY <1>9 DEF local, InScope, WroteSelector, TargetOffset, Target, Srbm
  <2>3. QED
    BY <2>1, <2>2, OwnedKept
<1>10. ASSUME NEW p \in Procs,
              ClearFails(p) \/ NullFieldSpec(p) \/ Quit(p) \/ Kill(p)
       PROVE  SelectionOwned'
  BY <1>9, <1>10 DEF ClearFails, NullFieldSpec, Quit, Kill
<1>11. CASE UNCHANGED vars
  BY <1>9, <1>11 DEF vars, hw, local
<1>12. QED
  BY <1>1, <1>2, <1>3, <1>4, <1>5, <1>6, <1>7, <1>8, <1>10, <1>11
     DEF Next, Step, Fault

LEMMA OwnedInit == Init => SelectionOwned
BY DEF Init, SelectionOwned, Selector, Offsets

(* Whatever number of gputool run, fail and are killed, SRBM_GFX_CNTL is   *)
(* zero or holds the word of one of them that is, or died, between its     *)
(* select and its clear: or what that one has just written there itself.   *)
THEOREM SelectionHasOwner == Spec => []SelectionOwned
<1>1. QED
  BY OwnedInit, TypeInit, TypeStep, OwnedStep, PTL DEF Spec

(* So it is zero when there is no such process.                            *)
LEMMA OwnedClear == SelectionOwned => QuiescentClear
BY DEF SelectionOwned, QuiescentClear

THEOREM SelectionCleared == Spec => []QuiescentClear
<1>1. QED
  BY SelectionHasOwner, OwnedClear, PTL

----------------------------------------------------------------------------
(***************************************************************************)
(* Whose bank an access is made in.                                        *)
(***************************************************************************)

(* The word of srbmSelect holds of every argument what its field can hold. *)
LEMMA SelectWordDecodes ==
  ASSUME NEW sel \in [SelFields -> Word], NEW k \in SelFields
  PROVE  ExtractField(SelectWord(CntlFields, sel), CntlFields[k]) = Held(sel[k], CntlFields[k])
BY FieldsHold, HardwareAssumption

(* Nothing is left of zero. *)
LEMMA ZeroHeld ==
  ASSUME NEW f
  PROVE  ExtractField(Zero, f) = Zero /\ Held(Zero, f) = Zero
BY DEF Held, ExtractField, And, Shl, Shr, Zero

(* Between p's select and its access, the selection is p's command's.      *)
OwnBank(p) == pc[p] \in {"access", "modify"} /\ Srbm(cmd[p])
                => Selector = SelectWord(CntlFields, cmd[p].sel)

BankSet == \A p \in Procs : OwnBank(p)

LEMMA OwnBankStep ==
  ASSUME TypeOK, Walk, NEW p \in Procs, OwnBank(p),
         Dispatch(p) \/ Step(p) \/ Fault(p) \/ Quit(p)
  PROVE  OwnBank(p)'
<1> SUFFICES ASSUME pc'[p] \in {"access", "modify"}, Srbm(cmd'[p])
             PROVE  Selector' = SelectWord(CntlFields, cmd'[p].sel)
  BY DEF OwnBank, Srbm
<1>0. ASSUME Selector' = Selector, pc[p] \in {"access", "modify"}, cmd' = cmd
      PROVE  Selector' = SelectWord(CntlFields, cmd'[p].sel)
  BY <1>0 DEF OwnBank
<1>1. ASSUME Dispatch(p) PROVE FALSE
  <2>1. PICK c \in Commands : /\ cmd' = [cmd EXCEPT ![p] = c]
                              /\ NextReg(p, c, Matches(c.reg))
    BY <1>1 DEF Dispatch
  <2>2. pc'[p] \in {"idle", Enter(c)} /\ cmd'[p] = c
    BY <2>1 DEF NextReg, Goto, TypeOK
  <2>3. QED
    BY <2>2 DEF Enter
<1>2. ASSUME SrbmSelect(p)
      PROVE  Selector' = SelectWord(CntlFields, cmd'[p].sel)
  <2>1. cmd' = cmd
    BY <1>2 DEF SrbmSelect
  <2>2. QED
    BY <1>2, <2>1, SelectorStored DEF SrbmSelect
<1>3. ASSUME NEW val, EndAccess(p, val), cmd' = cmd, pc[p] # "idle" PROVE FALSE
  BY <1>3 DEF EndAccess, EndCase, NextReg, Goto, Enter, TypeOK
<1>4. ASSUME FieldRead(p)
      PROVE  Selector' = SelectWord(CntlFields, cmd'[p].sel)
  BY <1>0, <1>4 DEF FieldRead, At, hw, Selector
<1>5. ASSUME SrbmClear(p) PROVE FALSE
  BY <1>5 DEF SrbmClear, EndCase, NextReg, Goto, Enter, TypeOK
<1>6. ASSUME Unwind(p) \/ SelectFails(p) \/ AccessFails(p) PROVE FALSE
  BY <1>6 DEF Unwind, SelectFails, AccessFails, Goto, TypeOK
<1>7. ASSUME Read(p) \/ Write(p) \/ FieldWrite(p) PROVE FALSE
  BY <1>3, <1>7 DEF Read, Write, FieldWrite, At
<1>8. ASSUME ClearFails(p) \/ NullFieldSpec(p) \/ Quit(p) \/ Kill(p)
      PROVE  Selector' = SelectWord(CntlFields, cmd'[p].sel)
  BY <1>0, <1>8 DEF ClearFails, NullFieldSpec, Quit, Kill, At, hw, Selector
<1>9. QED
  BY <1>1, <1>2, <1>4, <1>5, <1>6, <1>7, <1>8 DEF Step, Fault

LEMMA OwnBankStutters ==
  ASSUME UNCHANGED vars, NEW p \in Procs, OwnBank(p)
  PROVE  OwnBank(p)'
BY DEF vars, OwnBank, Selector, Srbm

LEMMA BankStep ==
  ASSUME \A p, q \in Procs : p = q
  PROVE  TypeOK /\ Walk /\ BankSet /\ [Next]_vars => BankSet'
<1> SUFFICES ASSUME TypeOK, Walk, BankSet, [Next]_vars, NEW p \in Procs
             PROVE  OwnBank(p)'
  BY DEF BankSet
<1>1. OwnBank(p)
  BY DEF BankSet
<1>2. ASSUME NEW q \in Procs, Dispatch(q) \/ Step(q) \/ Fault(q) \/ Quit(q)
      PROVE  OwnBank(p)'
  <2>1. Dispatch(p) \/ Step(p) \/ Fault(p) \/ Quit(p)
    BY <1>2
  <2>2. QED
    BY <1>1, <2>1, OwnBankStep
<1>3. QED
  BY <1>1, <1>2, OwnBankStutters DEF Next

(* A command runs from its dispatch to its end without another process's   *)
(* command in between, as behind a lock that is taken in dispatch and that *)
(* a process gives up when it dies.                                        *)
Locked ==
  \A p, q \in Procs :
    p # q /\ status[p] = "running" /\ status[q] = "running" => pc[p] = "idle" \/ pc[q] = "idle"

RunningBankSet == \A p \in Procs : status[p] = "running" => OwnBank(p)

(* Only a process that is in a command changes a register. *)
LEMMA IdleKeeps ==
  ASSUME NEW q \in Procs, pc[q] = "idle" \/ status[q] # "running",
         Dispatch(q) \/ Step(q) \/ Fault(q) \/ Quit(q)
  PROVE  Selector' = Selector
BY DEF Dispatch, Step, Fault, Quit, SrbmSelect, Read, Write, FieldRead, FieldWrite, SrbmClear,
       Unwind, NullFieldSpec, SelectFails, AccessFails, ClearFails, Kill, At, hw, Selector

LEMMA RunningBankStep ==
  TypeOK /\ Walk /\ Locked /\ RunningBankSet /\ [Next]_vars => RunningBankSet'
<1> SUFFICES ASSUME TypeOK, Walk, Locked, RunningBankSet, [Next]_vars,
                    NEW p \in Procs, status'[p] = "running"
             PROVE  OwnBank(p)'
  BY DEF RunningBankSet
<1>1. ASSUME NEW q \in Procs, Dispatch(q) \/ Step(q) \/ Fault(q) \/ Quit(q)
      PROVE  status[p] = "running"
  BY <1>1 DEF Dispatch, Step, Fault, Quit, SrbmSelect, Read, Write, FieldRead, FieldWrite,
              SrbmClear, Unwind, NullFieldSpec, SelectFails, AccessFails, ClearFails, Kill,
              Die, TypeOK
<1>2. ASSUME NEW q \in Procs, q # p, Dispatch(q) \/ Step(q) \/ Fault(q) \/ Quit(q)
      PROVE  OwnBank(p)'
  <2>1. status[p] = "running" /\ OwnBank(p)
    BY <1>1, <1>2 DEF RunningBankSet
  <2>2. /\ pc'[p] = pc[p] /\ cmd'[p] = cmd[p]
    BY <1>2 DEF Dispatch, Step, Fault, Quit, SrbmSelect, Read, Write, FieldRead, FieldWrite,
                SrbmClear, Unwind, NullFieldSpec, SelectFails, AccessFails, ClearFails, Kill,
                EndAccess, EndCase, NextReg, Goto, TypeOK
  <2>3. SUFFICES ASSUME pc[p] \in {"access", "modify"}
                 PROVE  Selector' = Selector
    BY <2>1, <2>2 DEF OwnBank, Srbm
  <2>4. pc[q] = "idle" \/ status[q] # "running"
    BY <1>2, <2>1, <2>3 DEF Locked
  <2>5. QED
    BY <1>2, <2>4, IdleKeeps
<1>3. ASSUME Dispatch(p) \/ Step(p) \/ Fault(p) \/ Quit(p)
      PROVE  OwnBank(p)'
  BY <1>1, <1>3, OwnBankStep DEF RunningBankSet
<1>4. CASE UNCHANGED vars
  <2>1. status[p] = "running"
    BY <1>4 DEF vars
  <2>2. QED
    BY <1>4, <2>1, OwnBankStutters DEF RunningBankSet
<1>5. QED
  BY <1>2, <1>3, <1>4 DEF Next

(* p accesses the bank its command asked for. *)
InBank(p) ==
  \A k \in SelFields :
    ExtractField(Selector, CntlFields[k]) = Held(Requested(cmd[p])[k], CntlFields[k])

(* A process died between its select and its clear.                        *)
DiedSelecting == \E q \in Procs : InScope(q) /\ status[q] # "running"

LockedBank ==
  ~DirectSelect =>
    \A p \in Procs : Accessing(p) => InBank(p) \/ (~Srbm(cmd[p]) /\ DiedSelecting)

LEMMA BankRequested ==
  TypeOK /\ QuiescentClear /\ Locked /\ RunningBankSet => LockedBank
<1> SUFFICES ASSUME TypeOK, QuiescentClear, Locked, RunningBankSet, ~DirectSelect,
                    NEW p \in Procs, Accessing(p), Srbm(cmd[p]) \/ ~DiedSelecting,
                    NEW k \in SelFields
             PROVE  ExtractField(Selector, CntlFields[k])
                      = Held(Requested(cmd[p])[k], CntlFields[k])
  BY DEF LockedBank, InBank
<1>1. CASE Srbm(cmd[p])
  <2>1. Requested(cmd[p]) = cmd[p].sel /\ cmd[p].sel \in [SelFields -> Word]
    BY <1>1, CommandsAssumption DEF Requested, TypeOK
  <2>2. Selector = SelectWord(CntlFields, cmd[p].sel)
    BY <1>1 DEF Accessing, At, RunningBankSet, OwnBank
  <2>3. QED
    BY <2>1, <2>2, SelectWordDecodes
<1>2. CASE ~Srbm(cmd[p])
  <2>1. ASSUME NEW q \in Procs, InScope(q) PROVE FALSE
    <3>1. status[q] = "running"
      BY <1>2, <2>1 DEF DiedSelecting
    <3>2. pc[q] # "idle" /\ q # p
      BY <1>2, <2>1 DEF InScope
    <3>3. QED
      BY <3>1, <3>2 DEF Locked, Accessing, At
  <2>2. Selector = Zero
    BY <2>1 DEF QuiescentClear
  <2>3. Requested(cmd[p])[k] = Zero
    BY <1>2 DEF Requested
  <2>4. QED
    BY <2>2, <2>3, ZeroHeld
<1>3. QED
  BY <1>1, <1>2

(* What a lock around every command, which the code does not have, would   *)
(* and would not give to gputool processes of any number that fail and     *)
(* die: every srbm access is made with the me, pipe, queue and vmid of its *)
(* own command, and a plain access in bank zero unless a process has died  *)
(* inside an srbm wrapper.                                                 *)
THEOREM LockedInRequestedBank == Spec /\ []Locked => []LockedBank
<1>1. Init => RunningBankSet
  BY DEF Init, RunningBankSet, OwnBank
<1>2. QED
  BY <1>1, RunningBankStep, BankRequested, TypeInit, TypeStep, SelectionCleared, PTL DEF Spec

(* One gputool alone needs no lock, and is in its bank in every access. *)
THEOREM AloneInRequestedBank ==
  ASSUME \A p, q \in Procs : p = q
  PROVE  Spec => []InRequestedBank
<1>1. Locked
  BY DEF Locked
<1>2. LockedBank => InRequestedBank
  BY DEF LockedBank, InBank, DiedSelecting, InRequestedBank, Accessing, At
<1>3. QED
  BY <1>1, <1>2, LockedInRequestedBank, PTL

----------------------------------------------------------------------------
(***************************************************************************)
(* A race never makes a mixture in a field.                                *)
(***************************************************************************)

(* What a device call works on: a register with the name of the command,   *)
(* and, between the read and the write of a field, one that has the field. *)
LEMMA TargetNamed ==
  ASSUME TypeOK, Walk, NEW p \in Procs, pc[p] # "idle"
  PROVE  /\ Target(p) \in Matches(cmd[p].reg)
         /\ TargetOffset(p) \in Offsets
         /\ phase[p] = "write" => cmd[p] \in WritesTo(TargetOffset(p))
<1>1. reg[p] \in Matches(cmd[p].reg) /\ cmd[p] \in Commands
  BY DEF Walk, Walking, TypeOK
<1>2. Regs[reg[p]].name = cmd[p].reg
  BY <1>1 DEF Matches
<1>3. Target(p) \in Matches(cmd[p].reg)
  BY <1>1, <1>2, FirstMatch DEF Target
<1>4. phase[p] = "write" => IsWrite(cmd[p])
  BY DEF Walk, Walking
<1>5. QED
  BY <1>1, <1>3, <1>4, TargetType DEF TargetOffset, WritesTo

LEMMA FieldNamed ==
  ASSUME TypeOK, Walk, NEW p \in Procs, pc[p] # "idle", HasField(p)
  PROVE  /\ TargetField(p) \in FieldsAt(TargetOffset(p))
         /\ NamesField(cmd[p], TargetOffset(p), TargetField(p))
<1>1. Target(p) \in Matches(cmd[p].reg) /\ Target(p) \in DOMAIN Regs
  BY TargetNamed DEF Matches
<1>2. QED
  BY <1>1 DEF HasField, TargetField, TargetOffset, FieldsAt, NamesField

FieldMet(p) == pc[p] = "modify" => cmd[p].field # "" /\ HasField(p)

Modifying == \A p \in Procs : FieldMet(p)

(* A process stays where its field write is, with the word it has read.    *)
LEMMA ModifyKept ==
  ASSUME TypeOK, [Next]_vars, NEW p \in Procs, pc'[p] = "modify", ~FieldRead(p)
  PROVE  /\ pc[p] = "modify" /\ tmp'[p] = tmp[p] /\ cmd'[p] = cmd[p] /\ reg'[p] = reg[p]
<1>1. CASE UNCHANGED vars
  BY <1>1 DEF vars
<1>2. ASSUME Dispatch(p) \/ Step(p) \/ Fault(p) \/ Quit(p)
      PROVE  /\ pc[p] = "modify" /\ tmp'[p] = tmp[p] /\ cmd'[p] = cmd[p] /\ reg'[p] = reg[p]
  <2>1. CASE Dispatch(p)
    BY <2>1 DEF Dispatch, NextReg, Goto, Enter, TypeOK
  <2>2. ASSUME NEW val, EndCase(p, val) PROVE FALSE
    BY <2>2 DEF EndCase, NextReg, Goto, Enter, TypeOK
  <2>3. ASSUME NEW val, EndAccess(p, val) PROVE FALSE
    BY <2>2, <2>3 DEF EndAccess, Goto, TypeOK
  <2>4. CASE SrbmSelect(p) \/ Unwind(p) \/ SelectFails(p) \/ AccessFails(p)
    BY <2>4 DEF SrbmSelect, Unwind, SelectFails, AccessFails, Goto, local, TypeOK
  <2>5. CASE NullFieldSpec(p) \/ ClearFails(p) \/ Kill(p) \/ Quit(p)
    BY <2>5 DEF NullFieldSpec, ClearFails, Kill, Quit, local
  <2>6. QED
    BY <1>2, <2>1, <2>2, <2>3, <2>4, <2>5
       DEF Step, Fault, Read, Write, FieldWrite, SrbmClear
<1>3. ASSUME NEW q \in Procs, q # p, Dispatch(q) \/ Step(q) \/ Fault(q) \/ Quit(q)
      PROVE  /\ pc[p] = "modify" /\ tmp'[p] = tmp[p] /\ cmd'[p] = cmd[p] /\ reg'[p] = reg[p]
  BY <1>3 DEF Dispatch, Step, Fault, Quit, SrbmSelect, Read, Write, FieldRead, FieldWrite,
              SrbmClear, Unwind, NullFieldSpec, SelectFails, AccessFails, ClearFails, Kill,
              EndAccess, EndCase, NextReg, Goto, local, TypeOK
<1>4. QED
  BY <1>1, <1>2, <1>3 DEF Next

LEMMA ModifyingStep == TypeOK /\ Modifying /\ [Next]_vars => Modifying'
<1> SUFFICES ASSUME TypeOK, Modifying, [Next]_vars, NEW p \in Procs, pc'[p] = "modify"
             PROVE  cmd'[p].field # "" /\ HasField(p)'
  BY DEF Modifying, FieldMet
<1>1. CASE FieldRead(p)
  BY <1>1 DEF FieldRead, local, HasField, Target, Srbm
<1>2. CASE ~FieldRead(p)
  <2>1. pc[p] = "modify" /\ cmd'[p] = cmd[p] /\ reg'[p] = reg[p]
    BY <1>2, ModifyKept
  <2>2. QED
    BY <2>1 DEF Modifying, FieldMet, HasField, Target, Srbm
<1>3. QED
  BY <1>1, <1>2

(* What is loaded is what the register holds somewhere; a store leaves     *)
(* what it held, and the new word.                                         *)
LEMMA LoadThere ==
  ASSUME TypeOK, NEW off \in Offsets
  PROVE  Load(off) \in WordsAt(off)
<1>1. Selector \in Word
  BY DEF TypeOK, Selector, Offsets
<1>2. QED
  BY <1>1 DEF Load, WordsAt

LEMMA StoreThere ==
  ASSUME TypeOK, NEW at \in Offsets, NEW word, Store(at, word),
         NEW off \in Offsets, NEW w \in WordsAt(off)'
  PROVE  w \in WordsAt(off) \/ (off = at /\ w = word)
<1>1. Selector \in Word
  BY DEF TypeOK, Selector, Offsets
<1>2. CASE off \in Banked
  <2>1. PICK s \in Word : w = bank'[s][off]
    BY <1>2 DEF WordsAt
  <2>2. bank'[s][off] = bank[s][off] \/ (off = at /\ bank'[s][off] = word)
    <3>1. bank \in [Word -> [Banked -> Word]]
      BY DEF TypeOK
    <3>2. bank' = bank \/ bank' = [bank EXCEPT ![Selector] = [bank[Selector] EXCEPT ![at] = word]]
      BY DEF Store
    <3>3. bank'[s] = bank[s] \/ bank'[s] = [bank[s] EXCEPT ![at] = word]
      BY <3>1, <3>2
    <3>4. bank[s] \in [Banked -> Word]
      BY <3>1
    <3>5. QED
      BY <1>2, <3>3, <3>4
  <2>3. QED
    BY <1>2, <2>1, <2>2 DEF WordsAt
<1>3. CASE off \notin Banked
  BY <1>3 DEF WordsAt, Store, TypeOK
<1>4. QED
  BY <1>2, <1>3

(* In a tidy register, a value merged into one of its fields leaves every  *)
(* other field as it was.                                                  *)
LEMMA WholeInserted ==
  ASSUME NEW off, Tidy(off), NEW old \in Word, Whole(off, old),
         NEW c \in WritesTo(off), NEW f \in FieldsAt(off), NamesField(c, off, f)
  PROVE  Whole(off, InsertField(old, f, c.val))
<1> DEFINE w == InsertField(old, f, c.val)
<1>1. f.mask \in Word
  BY RegsAssumption DEF FieldsAt, Field
<1>2. ExtractField(w, f) = Held(c.val, f)
  BY <1>1, FieldInserted
<1>3. ASSUME NEW g \in FieldsAt(off), g # f PROVE ExtractField(w, g) = ExtractField(old, g)
  <2>1. g.mask \cap f.mask = {} /\ Shl(c.val, f.shift) \subseteq f.mask
    BY <1>3 DEF Tidy, Inside
  <2>2. g.mask \in Word
    BY RegsAssumption DEF FieldsAt, Field
  <2>3. And(w, g.mask) = And(old, g.mask)
    BY <2>1, <2>2 DEF InsertField, And, Or, Not, Word
  <2>4. QED
    BY <2>3 DEF ExtractField
<1> HIDE DEF w
<1>4. QED
  BY <1>2, <1>3 DEF Whole, w

(* Every word that a tidy register holds, or that a field write of it has  *)
(* read, is whole.                                                         *)
WholeAt(off) ==
  /\ \A word \in WordsAt(off) : Whole(off, word)
  /\ \A p \in Procs : pc[p] = "modify" /\ TargetOffset(p) = off => Whole(off, tmp[p])

LEMMA WholeStored ==
  ASSUME TypeOK, NEW off \in Offsets, \A word \in WordsAt(off) : Whole(off, word),
         NEW at \in Offsets, NEW word, Store(at, word), at = off => Whole(off, word)
  PROVE  \A w \in WordsAt(off)' : Whole(off, w)
BY StoreThere

LEMMA WholeStep ==
  ASSUME NEW off \in Offsets \ {GfxCntl}, Tidy(off)
  PROVE  TypeOK /\ Walk /\ Modifying /\ WholeAt(off) /\ [Next]_vars => WholeAt(off)'
<1> SUFFICES ASSUME TypeOK, Walk, Modifying, WholeAt(off), [Next]_vars
             PROVE  WholeAt(off)'
  OBVIOUS
<1>1. ASSUME NEW p \in Procs, pc'[p] = "modify", TargetOffset(p)' = off
      PROVE  Whole(off, tmp'[p])
  <2>1. CASE FieldRead(p)
    <3>1. TargetOffset(p) = off /\ tmp'[p] = Load(off)
      BY <1>1, <2>1 DEF FieldRead, local, TargetOffset, Target, Srbm, TypeOK
    <3>2. QED
      BY <3>1, LoadThere DEF WholeAt
  <2>2. CASE ~FieldRead(p)
    <3>1. pc[p] = "modify" /\ tmp'[p] = tmp[p] /\ cmd'[p] = cmd[p] /\ reg'[p] = reg[p]
      BY <1>1, <2>2, ModifyKept
    <3>2. TargetOffset(p) = off
      BY <1>1, <3>1 DEF TargetOffset, Target, Srbm
    <3>3. QED
      BY <3>1, <3>2 DEF WholeAt
  <2>3. QED
    BY <2>1, <2>2
<1>2. \A word \in WordsAt(off) : Whole(off, word)
  BY DEF WholeAt
<1>3. CASE UNCHANGED hw
  BY <1>1, <1>2, <1>3 DEF WholeAt, WordsAt, hw
<1>4. ASSUME NEW p \in Procs, SrbmSelect(p) \/ SrbmClear(p) \/ Unwind(p)
      PROVE  WholeAt(off)'
  <2>1. PICK word : Store(GfxCntl, word)
    BY <1>4, CntlFound DEF SrbmSelect, SrbmClear, Unwind
  <2>2. GfxCntl \in Offsets
    BY DEF Offsets
  <2>3. \A w \in WordsAt(off)' : Whole(off, w)
    BY <1>2, <2>1, <2>2, WholeStored
  <2>4. QED
    BY <1>1, <2>3 DEF WholeAt
<1>5. ASSUME NEW p \in Procs, Write(p) PROVE WholeAt(off)'
  <2>1. pc[p] # "idle" /\ phase[p] = "write" /\ cmd[p].field = ""
        /\ Store(TargetOffset(p), cmd[p].val)
    BY <1>5 DEF Write, At
  <2>2. TargetOffset(p) \in Offsets /\ cmd[p] \in WritesTo(TargetOffset(p))
    BY <2>1, TargetNamed
  <2>3. TargetOffset(p) = off => Whole(off, cmd[p].val)
    BY <2>1, <2>2 DEF Whole
  <2>4. \A w \in WordsAt(off)' : Whole(off, w)
    BY <1>2, <2>1, <2>2, <2>3, WholeStored
  <2>5. QED
    BY <1>1, <2>4 DEF WholeAt
<1>6. ASSUME NEW p \in Procs, FieldWrite(p) PROVE WholeAt(off)'
  <2>1. /\ pc[p] = "modify" /\ phase[p] = "write"
        /\ Store(TargetOffset(p), InsertField(tmp[p], TargetField(p), cmd[p].val))
    BY <1>6 DEF FieldWrite, At, Walk, Walking
  <2>2. TargetOffset(p) \in Offsets /\ cmd[p] \in WritesTo(TargetOffset(p))
    BY <2>1, TargetNamed
  <2>3. HasField(p)
    BY <2>1 DEF Modifying, FieldMet
  <2>4. /\ TargetField(p) \in FieldsAt(TargetOffset(p))
        /\ NamesField(cmd[p], TargetOffset(p), TargetField(p))
    BY <2>1, <2>3, FieldNamed
  <2>5. TargetOffset(p) = off => Whole(off, InsertField(tmp[p], TargetField(p), cmd[p].val))
    <3>1. tmp[p] \in Word
      BY DEF TypeOK
    <3>2. TargetOffset(p) = off => Whole(off, tmp[p])
      BY <2>1 DEF WholeAt
    <3>3. QED
      BY <2>2, <2>4, <3>1, <3>2, WholeInserted
  <2>6. \A w \in WordsAt(off)' : Whole(off, w)
    BY <1>2, <2>1, <2>2, <2>5, WholeStored
  <2>7. QED
    BY <1>1, <2>6 DEF WholeAt
<1>7. QED
  BY <1>3, <1>4, <1>5, <1>6
     DEF Next, Step, Fault, Dispatch, Read, FieldRead, NullFieldSpec, SelectFails, AccessFails,
         ClearFails, Kill, Quit, vars, hw

(* However many gputool race, whatever they do to each other's selection,  *)
(* and wherever they fail or die: in every register whose fields do not    *)
(* overlap, written with values that stay inside them, every field holds   *)
(* what it held at power-on or what one command wrote to it.               *)
THEOREM FieldsNeverMixed == Spec => []FieldsWhole
<1> DEFINE All == \A off \in Offsets \ {GfxCntl} : Tidy(off) => WholeAt(off)
<1>1. Init => All /\ Modifying
  <2>1. SUFFICES ASSUME Init, NEW off \in Offsets \ {GfxCntl}
                 PROVE  WholeAt(off) /\ Modifying
    BY HardwareAssumption DEF Init, Modifying, FieldMet
  <2>2. \A w \in WordsAt(off) : w = PowerOn
    BY <2>1 DEF Init, WordsAt
  <2>3. QED
    BY <2>1, <2>2 DEF WholeAt, Whole, Init, Modifying, FieldMet
<1>2. TypeOK /\ Walk /\ Modifying /\ All /\ [Next]_vars => All'
  BY WholeStep
<1>3. All => FieldsWhole
  BY DEF FieldsWhole, WholeAt
<1> HIDE DEF All
<1>4. QED
  BY <1>1, <1>2, <1>3, ModifyingStep, TypeInit, TypeStep, PTL DEF Spec

----------------------------------------------------------------------------
(***************************************************************************)
(* What a write prints at its end, of one gputool alone.                   *)
(***************************************************************************)

(* What a command of p finds in its register: in its own bank, if it       *)
(* selects one, and in the one that is selected if it does not.            *)
Found(p) ==
  IF Srbm(cmd[p]) /\ TargetOffset(p) \in Banked
  THEN bank[SelectWord(CntlFields, cmd[p].sel)][TargetOffset(p)]
  ELSE Load(TargetOffset(p))

(* The command's value is in the word of register i. *)
Wrote(c, i, word) ==
  IF c.field = "" THEN word = c.val
  ELSE /\ c.field \in DOMAIN Regs[i].fields
       /\ ExtractField(word, Regs[i].fields[c.field]) = Held(c.val, Regs[i].fields[c.field])

(* The register of p is not the selector that p's wrapper itself uses. *)
Beside(p) == Srbm(cmd[p]) => TargetOffset(p) # GfxCntl

EchoRead(p) ==
  Beside(p) /\ pc[p] = "clear" /\ phase[p] = "read" => tmp[p] = Found(p)

EchoFound(p) ==
  /\ Beside(p) /\ IsWrite(cmd[p])
  /\ \/ pc[p] = "clear"
     \/ phase[p] = "read" /\ pc[p] \in {"select", "access"}
  => Wrote(cmd[p], Target(p), Found(p))

Shown(p) == IF Srbm(cmd[p]) THEN GetRegSpec(cmd[p].reg) ELSE out[p].reg

EchoShown(p) ==
  /\ At(p, "idle") /\ IsWrite(cmd[p])
  /\ out[p].reg \in Matches(cmd[p].reg)
  /\ Srbm(cmd[p]) => Regs[Shown(p)].offset # GfxCntl
  => Wrote(cmd[p], Shown(p), out[p].val)

Echo(p) == EchoRead(p) /\ EchoFound(p) /\ EchoShown(p)

(* p's access reaches what p's command finds. *)
LEMMA LoadFound ==
  ASSUME NEW p \in Procs, OwnBank(p), pc[p] \in {"access", "modify"}
  PROVE  Load(TargetOffset(p)) = Found(p)
BY DEF OwnBank, Load, Found

(* The target does not depend on where the process is in its visit. *)
LEMMA SameTarget ==
  ASSUME NEW p \in Procs, cmd'[p] = cmd[p], reg'[p] = reg[p]
  PROVE  /\ Target(p)' = Target(p) /\ TargetOffset(p)' = TargetOffset(p)
         /\ Beside(p)' <=> Beside(p)
BY DEF Target, TargetOffset, Beside, Srbm

(* A select or clear changes no other register... *)
LEMMA CntlStoreFound ==
  ASSUME TypeOK, Walk, NEW p \in Procs, pc[p] # "idle", Srbm(cmd[p]), Beside(p),
         NEW word, Store(Regs[GetRegSpec("SRBM_GFX_CNTL")].offset, word),
         cmd'[p] = cmd[p], reg'[p] = reg[p]
  PROVE  Found(p)' = Found(p)
<1>1. bank' = bank /\ mmio' = [mmio EXCEPT ![GfxCntl] = word]
  BY CntlFound, HardwareAssumption DEF Store
<1>2. TargetOffset(p)' = TargetOffset(p) /\ TargetOffset(p) # GfxCntl
  BY SameTarget DEF Beside
<1>3. mmio'[TargetOffset(p)] = mmio[TargetOffset(p)]
  BY <1>1, <1>2 DEF TypeOK
<1>4. QED
  BY <1>1, <1>2, <1>3 DEF Found, Load, Srbm

(* ... and a store is found afterwards. *)
LEMMA StoreFound ==
  ASSUME TypeOK, Walk, NEW p \in Procs, pc[p] \in {"access", "modify"}, OwnBank(p), Beside(p),
         NEW word, Store(TargetOffset(p), word), cmd'[p] = cmd[p], reg'[p] = reg[p]
  PROVE  Found(p)' = word
<1> DEFINE off == TargetOffset(p)
<1>1. off \in Offsets
  BY TargetNamed
<1>2. TargetOffset(p)' = off /\ (Srbm(cmd[p])' <=> Srbm(cmd[p])) /\ cmd'[p].sel = cmd[p].sel
  BY SameTarget DEF Srbm
<1>3. Selector \in Word
  BY DEF Selector, TypeOK, Offsets
<1>4. CASE off \in Banked
  <2>1. off # GfxCntl
    BY <1>4, HardwareAssumption
  <2>2. Selector' = Selector
    BY <2>1, SelectorKept
  <2>3. bank[Selector] \in [Banked -> Word] /\ bank' = [bank EXCEPT ![Selector][off] = word]
    BY <1>3, <1>4 DEF Store, TypeOK
  <2>4. bank'[Selector][off] = word
    BY <1>3, <1>4, <2>3 DEF TypeOK
  <2>5. Srbm(cmd[p]) => Selector = SelectWord(CntlFields, cmd[p].sel)
    BY DEF OwnBank
  <2>6. QED
    BY <1>2, <1>4, <2>2, <2>4, <2>5 DEF Found, Load, Srbm
<1>5. CASE off \notin Banked
  <2>1. mmio'[off] = word
    BY <1>1, <1>5 DEF Store, TypeOK
  <2>2. QED
    BY <1>2, <1>5, <2>1 DEF Found, Load
<1>6. QED
  BY <1>4, <1>5

(* The loop ends, or begins the next register's first case. *)
LEMMA NextRegShape ==
  ASSUME TypeOK, NEW p \in Procs, NEW c, NEW left, NextReg(p, c, left)
  PROVE  \/ pc'[p] = "idle"
         \/ /\ pc'[p] \in {"select", "access"}
            /\ IsWrite(c) => phase'[p] = "write"
BY DEF NextReg, Goto, Enter, TypeOK

(* The case that shows a register ends. *)
LEMMA ShowEchoes ==
  ASSUME TypeOK, Walk, NEW p \in Procs, pc[p] # "idle", phase[p] = "read", cmd' = cmd,
         NEW val \in Word, EndCase(p, val),
         Beside(p) /\ IsWrite(cmd[p]) => Wrote(cmd[p], Target(p), val)
  PROVE  Echo(p)'
<1>1. /\ out' = [out EXCEPT ![p] = Formatted(reg[p], val)]
      /\ NextReg(p, cmd[p], todo[p])
  BY DEF EndCase
<1>2. out'[p].reg = reg[p] /\ out'[p].val = val
  BY <1>1 DEF Formatted, TypeOK
<1>3. reg[p] \in Matches(cmd[p].reg) /\ Regs[reg[p]].name = cmd[p].reg
  BY DEF Walk, Walking, Matches
<1>4. Shown(p)' = Target(p)
  BY <1>2, <1>3 DEF Shown, Target, Srbm
<1>5. EchoShown(p)'
  BY <1>2, <1>4 DEF EchoShown, Beside, TargetOffset, IsWrite, Srbm, Wrote
<1>6. EchoRead(p)' /\ EchoFound(p)'
  BY <1>1, NextRegShape DEF EchoRead, EchoFound, IsWrite
<1>7. QED
  BY <1>5, <1>6 DEF Echo

(* The case that writes a register ends. *)
LEMMA WriteEchoes ==
  ASSUME TypeOK, Walk, NEW p \in Procs, pc[p] # "idle", phase[p] = "write", cmd' = cmd,
         NEW val, EndCase(p, val),
         Beside(p) => Wrote(cmd[p], Target(p), Found(p)')
  PROVE  Echo(p)'
<1>1. /\ phase'[p] = "read" /\ pc'[p] \in {"select", "access"} /\ reg' = reg
  BY DEF EndCase, Goto, Enter, TypeOK
<1>2. Target(p)' = Target(p) /\ (Beside(p)' <=> Beside(p))
  BY <1>1, SameTarget
<1>3. EchoFound(p)'
  BY <1>2 DEF EchoFound, Wrote
<1>4. QED
  BY <1>1, <1>3 DEF Echo, EchoRead, EchoShown, At

(* An srbm wrapper goes on to its guard. *)
LEMMA GuardEchoes ==
  ASSUME TypeOK, NEW p \in Procs, Srbm(cmd[p]), cmd' = cmd, NEW val, EndAccess(p, val),
         Beside(p) /\ IsWrite(cmd[p]) => Wrote(cmd[p], Target(p), Found(p)'),
         Beside(p) /\ phase[p] = "read" => tmp'[p] = Found(p)'
  PROVE  Echo(p)'
<1>1. pc'[p] = "clear" /\ reg' = reg /\ phase' = phase
  BY DEF EndAccess, Goto, local, TypeOK
<1>2. Target(p)' = Target(p) /\ (Beside(p)' <=> Beside(p))
  BY <1>1, SameTarget
<1>3. EchoFound(p)' /\ EchoRead(p)'
  BY <1>1, <1>2 DEF EchoFound, EchoRead, Wrote, IsWrite
<1>4. QED
  BY <1>1, <1>3 DEF Echo, EchoShown, At

LEMMA EchoInit == Init => \A p \in Procs : Echo(p)
<1> SUFFICES ASSUME Init, NEW p \in Procs PROVE Echo(p)
  OBVIOUS
<1>1. out[p].reg = 0 /\ pc[p] = "idle"
  BY DEF Init, NothingPrinted
<1>2. \A name : 0 \notin Matches(name)
  BY RegsAssumption DEF Matches
<1>3. QED
  BY <1>1, <1>2 DEF Echo, EchoRead, EchoFound, EchoShown

LEMMA EchoStep ==
  ASSUME NEW p \in Procs, TypeOK, Walk, Modifying, OwnBank(p), Echo(p),
         Dispatch(p) \/ Step(p) \/ Fault(p) \/ Quit(p)
  PROVE  Echo(p)'
<1>0. cmd[p].val \in Word
  BY CommandsAssumption DEF TypeOK
<1>1. CASE Dispatch(p)
  <2>1. PICK d \in Commands : /\ cmd' = [cmd EXCEPT ![p] = d]
                              /\ NextReg(p, d, Matches(d.reg))
    BY <1>1 DEF Dispatch
  <2>2. cmd'[p] = d /\ out' = out
    BY <1>1, <2>1 DEF Dispatch, TypeOK
  <2>3. pc'[p] = "idle" => Matches(d.reg) = {}
    BY <2>1 DEF NextReg, Goto, Enter, TypeOK
  <2>4. EchoShown(p)'
    BY <2>2, <2>3 DEF EchoShown, At
  <2>5. EchoRead(p)' /\ EchoFound(p)'
    BY <2>1, <2>2, NextRegShape DEF EchoRead, EchoFound, IsWrite
  <2>6. QED
    BY <2>4, <2>5 DEF Echo
<1>2. CASE SrbmSelect(p)
  <2>1. /\ pc[p] = "select" /\ pc'[p] = "access" /\ Srbm(cmd[p])
        /\ cmd' = cmd /\ reg' = reg /\ phase' = phase
    BY <1>2 DEF SrbmSelect, At, Goto, local, TypeOK, Walk, Walking
  <2>2. Beside(p) => Found(p)' = Found(p)
    BY <1>2, <2>1, CntlStoreFound DEF SrbmSelect
  <2>3. Target(p)' = Target(p) /\ (Beside(p)' <=> Beside(p))
    BY <2>1, SameTarget
  <2>4. EchoFound(p)'
    BY <2>1, <2>2, <2>3 DEF Echo, EchoFound, Wrote
  <2>5. QED
    BY <2>1, <2>4 DEF Echo, EchoRead, EchoShown, At
<1>3. CASE Read(p)
  <2>1. /\ pc[p] = "access" /\ phase[p] = "read" /\ cmd' = cmd
        /\ mmio' = mmio /\ bank' = bank
        /\ EndAccess(p, Load(TargetOffset(p)))
        /\ tmp'[p] = Load(TargetOffset(p))
    BY <1>3 DEF Read, At, hw, TypeOK
  <2>2. Load(TargetOffset(p)) = Found(p)
    BY <2>1, LoadFound
  <2>3. Load(TargetOffset(p)) \in Word
    BY <2>1, TargetNamed, LoadType
  <2>4. Beside(p) /\ IsWrite(cmd[p]) => Wrote(cmd[p], Target(p), Found(p))
    BY <2>1 DEF Echo, EchoFound
  <2>5. CASE Srbm(cmd[p])
    <3>1. reg' = reg
      BY <2>1, <2>5 DEF EndAccess, local
    <3>2. Found(p)' = Found(p)
      BY <2>1, <3>1, SameTarget DEF Found, Load, Selector
    <3>3. QED
      BY <2>1, <2>2, <2>4, <2>5, <3>2, GuardEchoes
  <2>6. CASE ~Srbm(cmd[p])
    <3>1. EndCase(p, Load(TargetOffset(p)))
      BY <2>1, <2>6 DEF EndAccess
    <3>2. QED
      BY <2>1, <2>2, <2>3, <2>4, <3>1, ShowEchoes
  <2>7. QED
    BY <2>5, <2>6
<1>4. ASSUME pc[p] \in {"access", "modify"}, phase[p] = "write", cmd' = cmd,
             NEW word, Store(TargetOffset(p), word), Wrote(cmd[p], Target(p), word),
             NEW val, EndAccess(p, val)
      PROVE  Echo(p)'
  <2>1. reg' = reg
    BY <1>4 DEF EndAccess, EndCase, local
  <2>2. Beside(p) => Found(p)' = word
    BY <1>4, <2>1, StoreFound
  <2>3. CASE Srbm(cmd[p])
    BY <1>4, <2>2, <2>3, GuardEchoes
  <2>4. CASE ~Srbm(cmd[p])
    <3>1. EndCase(p, val)
      BY <1>4, <2>4 DEF EndAccess
    <3>2. QED
      BY <1>4, <2>2, <3>1, WriteEchoes
  <2>5. QED
    BY <2>3, <2>4
<1>5. CASE Write(p)
  <2>1. Wrote(cmd[p], Target(p), cmd[p].val)
    BY <1>5 DEF Write, Wrote
  <2>2. QED
    BY <1>4, <1>5, <2>1 DEF Write, At
<1>6. CASE FieldWrite(p)
  <2>1. /\ pc[p] = "modify" /\ phase[p] = "write" /\ cmd' = cmd
        /\ Store(TargetOffset(p), InsertField(tmp[p], TargetField(p), cmd[p].val))
        /\ EndAccess(p, Zero)
    BY <1>6 DEF FieldWrite, At, Walk, Walking
  <2>2. cmd[p].field # "" /\ HasField(p) /\ tmp[p] \in Word
    BY <2>1 DEF Modifying, FieldMet, TypeOK
  <2>3. TargetField(p).mask \in Word
    <3>1. Target(p) \in DOMAIN Regs
      BY <2>1, TargetNamed DEF Matches
    <3>2. QED
      BY <2>2, <3>1, RegsAssumption DEF TargetField, HasField, Field
  <2>4. ExtractField(InsertField(tmp[p], TargetField(p), cmd[p].val), TargetField(p))
          = Held(cmd[p].val, TargetField(p))
    BY <2>2, <2>3, FieldInserted
  <2>5. Wrote(cmd[p], Target(p), InsertField(tmp[p], TargetField(p), cmd[p].val))
    BY <2>2, <2>4 DEF Wrote, HasField, TargetField
  <2>6. QED
    BY <1>4, <2>1, <2>5
<1>7. CASE SrbmClear(p)
  <2>1. /\ pc[p] = "clear" /\ Srbm(cmd[p]) /\ cmd' = cmd /\ EndCase(p, tmp[p])
    BY <1>7 DEF SrbmClear, At, Walk, Walking
  <2>2. Beside(p) /\ IsWrite(cmd[p]) => Wrote(cmd[p], Target(p), Found(p))
    BY <2>1 DEF Echo, EchoFound
  <2>3. CASE phase[p] = "write"
    <3>1. reg' = reg /\ IsWrite(cmd[p])
      BY <2>1, <2>3 DEF EndCase, Walk, Walking
    <3>2. Beside(p) => Found(p)' = Found(p)
      BY <1>7, <2>1, <3>1, CntlStoreFound DEF SrbmClear
    <3>3. QED
      BY <2>1, <2>2, <2>3, <3>1, <3>2, WriteEchoes
  <2>4. CASE phase[p] = "read"
    <3>1. Beside(p) => tmp[p] = Found(p)
      BY <2>1, <2>4 DEF Echo, EchoRead
    <3>2. tmp[p] \in Word
      BY DEF TypeOK
    <3>3. QED
      BY <2>1, <2>2, <2>4, <3>1, <3>2, ShowEchoes
  <2>5. QED
    BY <2>3, <2>4 DEF TypeOK
<1>8. CASE FieldRead(p)
  <2>1. phase[p] = "write" /\ pc'[p] = "modify" /\ phase' = phase
    BY <1>8 DEF FieldRead, Goto, local, TypeOK
  <2>2. QED
    BY <2>1 DEF Echo, EchoRead, EchoFound, EchoShown, At
<1>9. CASE Unwind(p) \/ SelectFails(p) \/ AccessFails(p)
  <2>1. pc'[p] = "unwind" \/ (pc'[p] = "idle" /\ status'[p] # "running")
    BY <1>9 DEF Unwind, SelectFails, AccessFails, Goto, Die, TypeOK
  <2>2. QED
    BY <2>1 DEF Echo, EchoRead, EchoFound, EchoShown, At
<1>10. CASE ClearFails(p) \/ NullFieldSpec(p) \/ Quit(p) \/ Kill(p)
  <2>1. status'[p] # "running" /\ UNCHANGED <<mmio, bank, pc, cmd, reg, phase, tmp, out>>
    BY <1>10 DEF ClearFails, NullFieldSpec, Quit, Kill, Die, hw, local, TypeOK
  <2>2. Found(p)' = Found(p) /\ Target(p)' = Target(p) /\ (Beside(p)' <=> Beside(p))
    BY <2>1, SameTarget DEF Found, Load, Selector
  <2>3. QED
    BY <2>1, <2>2 DEF Echo, EchoRead, EchoFound, EchoShown, At, Wrote
<1>11. QED
  BY <1>1, <1>2, <1>3, <1>5, <1>6, <1>7, <1>8, <1>9, <1>10 DEF Step, Fault

(* Alone, what a write prints at its end is what was written, whatever the *)
(* database and the commands: wide values, names that several registers    *)
(* have, and commands on the selector itself.                              *)
THEOREM WritesEchoed ==
  ASSUME \A p, q \in Procs : p = q
  PROVE  Spec => []WriteEchoed
<1> DEFINE Echoes == \A p \in Procs : Echo(p)
<1>1. Init => Echoes /\ Modifying /\ BankSet
  BY EchoInit DEF Init, Modifying, FieldMet, BankSet, OwnBank
<1>2. TypeOK /\ Walk /\ Modifying /\ BankSet /\ Echoes /\ [Next]_vars => Echoes'
  <2>1. SUFFICES ASSUME TypeOK, Walk, Modifying, BankSet, Echoes, [Next]_vars, NEW p \in Procs
                 PROVE  Echo(p)'
    OBVIOUS
  <2>2. Echo(p) /\ OwnBank(p)
    BY <2>1 DEF BankSet
  <2>3. ASSUME NEW q \in Procs, Dispatch(q) \/ Step(q) \/ Fault(q) \/ Quit(q)
        PROVE  Echo(p)'
    <3>1. q = p
      OBVIOUS
    <3>2. QED
      BY <2>1, <2>2, <2>3, <3>1, EchoStep
  <2>4. CASE UNCHANGED vars
    BY <2>2, <2>4 DEF vars, Echo, EchoRead, EchoFound, EchoShown, Shown, Beside, Found, Load,
                      Selector, Target, TargetOffset, Srbm, IsWrite, Wrote, At
  <2>5. QED
    BY <2>1, <2>3, <2>4 DEF Next
<1>3. Echoes => WriteEchoed
  BY DEF Echo, EchoShown, Shown, Wrote, WriteEchoed
<1>4. TypeOK /\ Walk /\ BankSet /\ [Next]_vars => BankSet'
  BY BankStep
<1> HIDE DEF Echoes
<1>5. QED
  BY <1>1, <1>2, <1>3, <1>4, ModifyingStep, TypeInit, TypeStep, PTL DEF Spec

----------------------------------------------------------------------------
(* Every end of a process that the program has in its hands leaves no      *)
(* selection behind, if every field that srbm_write commands name is one   *)
(* of the register: an unknown field is the only way around the guard.     *)
THEOREM KnownFieldsCleared ==
  ASSUME \A c \in Commands : c.op = "srbm_write" /\ c.field # "" =>
           \A i \in Matches(c.reg) : c.field \in DOMAIN Regs[GetRegSpec(Regs[i].name)].fields
  PROVE  Spec => []ScopeExitRuns
<1>1. Init => ScopeExitRuns
  BY DEF Init, ScopeExitRuns
<1>2. TypeOK /\ Walk /\ ScopeExitRuns /\ [Next]_vars => ScopeExitRuns'
  <2>1. SUFFICES ASSUME TypeOK, Walk, ScopeExitRuns, [Next]_vars, NEW q \in Procs,
                        status'[q] \in {"exited", "terminated", "crashed"}, InScope(q)'
                 PROVE  FALSE
    BY DEF ScopeExitRuns
  <2>2. CASE status'[q] = status[q] /\ cmd'[q] = cmd[q] /\ pc'[q] = pc[q]
    BY <2>1, <2>2 DEF ScopeExitRuns, InScope, Srbm
  <2>3. ASSUME NEW p \in Procs, p # q, Dispatch(p) \/ Step(p) \/ Fault(p) \/ Quit(p)
        PROVE  status'[q] = status[q] /\ cmd'[q] = cmd[q] /\ pc'[q] = pc[q]
    <3>1. \E s : status' = status \/ status' = [status EXCEPT ![p] = s]
      BY <2>3 DEF Dispatch, Step, Fault, Quit, SrbmSelect, Read, Write, FieldRead, FieldWrite,
                  SrbmClear, Unwind, NullFieldSpec, SelectFails, AccessFails, ClearFails, Kill, Die
    <3>2. \E c : cmd' = cmd \/ cmd' = [cmd EXCEPT ![p] = c]
      BY <2>3 DEF Dispatch, Step, Fault, Quit, SrbmSelect, Read, Write, FieldRead, FieldWrite,
                  SrbmClear, Unwind, NullFieldSpec, SelectFails, AccessFails, ClearFails, Kill
    <3>3. \E l : pc' = pc \/ pc' = [pc EXCEPT ![p] = l]
      BY <2>3 DEF Dispatch, Step, Fault, Quit, SrbmSelect, Read, Write, FieldRead, FieldWrite,
                  SrbmClear, Unwind, NullFieldSpec, SelectFails, AccessFails, ClearFails, Kill,
                  EndAccess, EndCase, NextReg, Goto
    <3>4. QED
      BY <2>1, <2>3, <3>1, <3>2, <3>3 DEF TypeOK
  <2>4. CASE Dispatch(q) \/ (Step(q) /\ ~Unwind(q) /\ ~NullFieldSpec(q))
    BY <2>1, <2>4 DEF Dispatch, Step, SrbmSelect, Read, Write, FieldRead, FieldWrite, SrbmClear, At
  <2>5. CASE Unwind(q) \/ SelectFails(q)
    BY <2>1, <2>5 DEF Unwind, SelectFails, Goto, InScope, TypeOK
  <2>6. CASE AccessFails(q)
    <3>1. status[q] = "running"
      BY <2>6 DEF AccessFails, At
    <3>2. pc'[q] = "idle"
      BY <2>1, <2>6, <3>1 DEF AccessFails, Goto, TypeOK
    <3>3. QED
      BY <2>1, <3>2 DEF InScope
  <2>7. CASE ClearFails(q) \/ Kill(q)
    BY <2>1, <2>7 DEF ClearFails, Kill, Die, TypeOK
  <2>8. CASE Quit(q)
    BY <2>1, <2>8 DEF Quit, At, InScope, Srbm
  <2>9. CASE NullFieldSpec(q)
    <3>1. Srbm(cmd[q]) /\ pc[q] = "access" /\ phase[q] = "write" /\ cmd[q].field # "" /\ ~HasField(q)
      BY <2>1, <2>9 DEF NullFieldSpec, At, InScope, Srbm
    <3>2. reg[q] \in Matches(cmd[q].reg) /\ cmd[q].op = "srbm_write" /\ cmd[q] \in Commands
      BY <2>1, <3>1 DEF Walk, Walking, IsWrite, Srbm, TypeOK
    <3>3. Target(q) = GetRegSpec(Regs[reg[q]].name)
      BY <3>1 DEF Target
    <3>4. QED
      BY <3>1, <3>2, <3>3 DEF HasField
  <2>10. CASE UNCHANGED vars
    BY <2>2, <2>10 DEF vars
  <2>11. ASSUME NEW p \in Procs, Dispatch(p) \/ Step(p) \/ Fault(p) \/ Quit(p)
         PROVE  FALSE
    <3>1. CASE p # q
      BY <2>2, <2>3, <2>11, <3>1
    <3>2. CASE p = q
      BY <2>4, <2>5, <2>6, <2>7, <2>8, <2>9, <2>11, <3>2 DEF Fault
    <3>3. QED
      BY <3>1, <3>2
  <2>12. QED
    BY <2>1, <2>10, <2>11 DEF Next
<1>3. QED
  BY <1>1, <1>2, TypeInit, TypeStep, PTL DEF Spec
=============================================================================
