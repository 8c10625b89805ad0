------------------------------- MODULE RegGen -------------------------------
(***************************************************************************)
(* bin/amdgenreg.py, which writes the register database of src/amdregdb    *)
(* from the kernel's headers.  For each supported block it reads the       *)
(* definitions (_d.h) and then the masks and shifts (_sh_mask.h), line by  *)
(* line, and writes the block's .h and .cpp; at the end it writes the      *)
(* three files that name all blocks.                                       *)
(*                                                                         *)
(* It writes over the tree of an earlier run, whose list of blocks and     *)
(* kernel may have been others, and it may fail or be stopped anywhere: a  *)
(* file is cut to nothing when it is opened and has its text only later.   *)
(***************************************************************************)
EXTENDS Naturals, Sequences

CONSTANTS
  Blocks,     (* names of blocks                                           *)
  Lists,      (* SUPPORTED_BLOCKS, in the versions of the script           *)
  Kernels,    (* the kernel trees: block -> its definition and mask lines  *)
  None,       (* the shift of a field that has none yet                    *)
  MaxRuns     (* bound: runs of the script                                 *)

(* A line of the masks' header: #define reg__field_MASK word, or __SHIFT.  *)
MaskLine == [kind : {"mask", "shift"}, reg : STRING, field : STRING, word : Nat]

ASSUME RegGenAssumption ==
  /\ \A list \in Lists : /\ list \in Seq(Blocks)
                         /\ list # <<>>
                         /\ \A i, j \in DOMAIN list : list[i] = list[j] => i = j
  /\ \A k \in Kernels, b \in Blocks : /\ k[b].defs \in Seq([name : STRING, addr : Nat])
                                      /\ k[b].masks \in Seq(MaskLine)
  /\ None \notin Nat
  /\ MaxRuns \in Nat

VARIABLES
  kernel,     (* the headers of this run                                   *)
  blocks,     (* SUPPORTED_BLOCKS of this run                              *)
  run,        (* number of this run                                        *)
  pc,         (* defs, masks, open, write, or how the run ended            *)
  block,      (* position in blocks; past its end: the files of all blocks *)
  pos,        (* line, or position in Outputs                              *)
  registers,  (* GpuBlock.registers: name -> address and fields            *)
  files       (* the tree: file -> its state                               *)

input == <<kernel, blocks, run>>
vars  == <<kernel, blocks, run, pc, block, pos, registers, files>>

BlockFile(kind, b) == <<kind, b>>
TopFile(name)      == <<"top", name>>
IndexFiles         == {TopFile("AmdRegDb.h"), TopFile("CMakeLists.txt")}
Files == {BlockFile(kind, b) : kind \in {"h", "cpp"}, b \in Blocks}
           \cup IndexFiles \cup {TopFile("AmdRegDb.cpp")}

(* A file that is whole: the run that wrote it (history), and its text:    *)
(* the registers in a block's header, the blocks in an index file.         *)
Absent      == [state |-> "absent"]
Cut         == [state |-> "cut"]
Whole(text) == [state |-> "whole", run |-> run, text |-> text]
IsWhole(f)  == files[f].state = "whole"

Ended == pc \in {"idle", "done", "failed"}

Defs  == kernel[blocks[block]].defs
Masks == kernel[blocks[block]].masks

----------------------------------------------------------------------------
(***************************************************************************)
(* The dictionaries.                                                       *)
(***************************************************************************)
Update(f, key, value) ==
  [k \in DOMAIN f \cup {key} |-> IF k = key THEN value ELSE f[k]]

(* The name has lost its mm or ix: a later register of the name replaces   *)
(* an earlier one.                                                         *)
Define(regs, line) ==
  Update(regs, line.name, [addr |-> line.addr, fields |-> <<>>])

SetMaskKeeps(fields, line) ==           \* mutant: the field keeps its shift
  Update(fields, line.field,
         [mask |-> line.word, shift |-> IF line.field \in DOMAIN fields
                                        THEN fields[line.field].shift ELSE None])

(* A mask line makes a new RegField. *)
SetMask(fields, line) == Update(fields, line.field, [mask |-> line.word, shift |-> None])

SetShift(fields, line) == [fields EXCEPT ![line.field].shift = line.word]

(* A line whose register (or, of a shift, whose field) is unknown is       *)
(* dropped with a warning.                                                 *)
Refine(regs, line) ==
  IF line.reg \notin DOMAIN regs THEN regs
  ELSE IF line.kind = "mask"
       THEN [regs EXCEPT ![line.reg].fields = SetMask(@, line)]
  ELSE IF line.field \in DOMAIN regs[line.reg].fields
       THEN [regs EXCEPT ![line.reg].fields = SetShift(@, line)]
  ELSE regs

(* RegField.__str__ cannot concatenate None. *)
Printable(regs) ==
  \A name \in DOMAIN regs : \A f \in DOMAIN regs[name].fields :
    regs[name].fields[f].shift # None

----------------------------------------------------------------------------
(***************************************************************************)
(* main.                                                                   *)
(***************************************************************************)

(* The script is started, at first on no tree or the tree of another run.  *)
Start ==
  /\ Ended /\ run < MaxRuns
  /\ kernel' \in Kernels
  /\ blocks' \in Lists
  /\ run' = run + 1
  /\ pc' = "defs"
  /\ block' = 1
  /\ pos' = 1
  /\ registers' = <<>>
  /\ UNCHANGED files

(* importRegDefFile, one line. *)
ImportDef ==
  /\ pc = "defs" /\ pos <= Len(Defs)
  /\ registers' = Define(registers, Defs[pos])
  /\ pos' = pos + 1
  /\ UNCHANGED <<input, pc, block, files>>

EndDefs ==
  /\ pc = "defs" /\ pos > Len(Defs)
  /\ pc' = "masks"
  /\ pos' = 1
  /\ UNCHANGED <<input, block, registers, files>>

(* importRegMaskFile, one line. *)
ImportMask ==
  /\ pc = "masks" /\ pos <= Len(Masks)
  /\ registers' = Refine(registers, Masks[pos])
  /\ pos' = pos + 1
  /\ UNCHANGED <<input, pc, block, files>>

(* The texts are put together, and only then are the files opened. *)
EndMasks ==
  /\ pc = "masks" /\ pos > Len(Masks)
  /\ pc' = IF Printable(registers) THEN "open" ELSE "failed"
  /\ pos' = 1
  /\ UNCHANGED <<input, block, registers, files>>

TopOutputsNoCmake ==                    \* mutant: CMakeLists.txt is forgotten
  <<[file |-> TopFile("AmdRegDb.h"),     text |-> blocks],
    [file |-> TopFile("AmdRegDb.cpp"),   text |-> <<>>]>>

(* writeFile is called for these, in this order. *)
TopOutputs ==
  <<[file |-> TopFile("AmdRegDb.h"),     text |-> blocks],
    [file |-> TopFile("AmdRegDb.cpp"),   text |-> <<>>],
    [file |-> TopFile("CMakeLists.txt"), text |-> blocks]>>

BlockOutputs ==
  <<[file |-> BlockFile("h", blocks[block]),   text |-> registers],
    [file |-> BlockFile("cpp", blocks[block]), text |-> <<>>]>>

Outputs == IF block <= Len(blocks) THEN BlockOutputs ELSE TopOutputs

(* writeFile: open truncates the file, or makes it and its directory. *)
OpenFile ==
  /\ pc = "open"
  /\ files' = [files EXCEPT ![Outputs[pos].file] = Cut]
  /\ pc' = "write"
  /\ UNCHANGED <<input, block, pos, registers>>

MoreBlocksEarly == block + 1 < Len(blocks)    \* mutant: the last is left out
MoreBlocksOff   == block <= Len(blocks)       \* mutant: one block too many
MoreBlocks      == block < Len(blocks)

(* On to the next file, to the next block or, after the last, to the files *)
(* that name all blocks.                                                   *)
NextOutput ==
  \/ /\ pos < Len(Outputs)
     /\ pc' = "open"
     /\ pos' = pos + 1
     /\ UNCHANGED <<block, registers>>
  \/ /\ pos = Len(Outputs)
     /\ pos' = 1
     /\ registers' = <<>>
     /\ block' = IF MoreBlocks THEN block + 1 ELSE Len(blocks) + 1
     /\ pc' = IF MoreBlocks THEN "defs"
              ELSE IF block <= Len(blocks) THEN "open" ELSE "done"

WriteFile ==
  /\ pc = "write"
  /\ files' = [files EXCEPT ![Outputs[pos].file] = Whole(Outputs[pos].text)]
  /\ NextOutput
  /\ UNCHANGED input

(* An input cannot be read, an output cannot be written, or the user stops *)
(* the script; nothing is undone.                                          *)
Fail ==
  /\ ~Ended
  /\ pc' = "failed"
  /\ UNCHANGED <<input, block, pos, registers, files>>

----------------------------------------------------------------------------
Init ==
  /\ kernel \in Kernels
  /\ blocks \in Lists
  /\ run = 0
  /\ pc = "idle"
  /\ block = 1
  /\ pos = 1
  /\ registers = <<>>
  /\ files = [f \in Files |-> Absent]

Step == ImportDef \/ EndDefs \/ ImportMask \/ EndMasks \/ OpenFile \/ WriteFile
Next == Start \/ Step \/ Fail

Spec == Init /\ [][Next]_vars

----------------------------------------------------------------------------
(* The type of every variable. *)
TypeOK ==
  /\ kernel \in Kernels
  /\ blocks \in Lists
  /\ run \in 0 .. MaxRuns
  /\ pc \in {"idle", "defs", "masks", "open", "write", "done", "failed"}
  /\ block \in 1 .. Len(blocks) + 1
  /\ pc \in {"defs", "masks"} => block \in DOMAIN blocks
  /\ pos \in Nat \ {0}
  /\ pc \in {"open", "write"} => pos \in DOMAIN Outputs
  /\ DOMAIN files = Files
  /\ \A f \in Files : /\ files[f].state \in {"absent", "cut", "whole"}
                      /\ IsWhole(f) => files[f].run \in 1 .. run

(***************************************************************************)
(* The table in a block's header says what the kernel's headers say: the   *)
(* registers defined there and no others, each with the address of the     *)
(* last line of its name; the fields that have a mask, each with its last  *)
(* mask and the last shift after it, whatever the order of the lines.      *)
(***************************************************************************)
LastOf(lines, i, P(_)) == P(lines[i]) /\ \A j \in DOMAIN lines : j > i => ~P(lines[j])

Describes(regs, defs, masks) ==
  /\ DOMAIN regs = {defs[i].name : i \in DOMAIN defs}
  /\ \A name \in DOMAIN regs :
       LET fields == regs[name].fields
           About(field, kind, line) == /\ line.reg = name /\ line.field = field
                                       /\ line.kind = kind IN
       /\ \E i \in DOMAIN defs :
            /\ LastOf(defs, i, LAMBDA line : line.name = name)
            /\ regs[name].addr = defs[i].addr
       /\ DOMAIN fields = {masks[i].field : i \in {i \in DOMAIN masks :
                             About(masks[i].field, "mask", masks[i])}}
       /\ \A field \in DOMAIN fields : \E m, s \in DOMAIN masks :
            /\ LastOf(masks, m, LAMBDA line : About(field, "mask", line))
            /\ LastOf(masks, s, LAMBDA line : About(field, "shift", line))
            /\ m < s
            /\ fields[field] = [mask |-> masks[m].word, shift |-> masks[s].word]

Faithful ==
  \A b \in Blocks :
    LET f == BlockFile("h", b) IN
    IsWhole(f) /\ files[f].run = run
      => Describes(files[f].text, kernel[b].defs, kernel[b].masks)

(***************************************************************************)
(* A build of the tree never meets a block without its files, nor older    *)
(* files than the index that names it: whatever run was stopped where, the *)
(* files of every block AmdRegDb.h or CMakeLists.txt names are there, and  *)
(* come from the index's own run or from a later one (which may have cut   *)
(* one and stopped).                                                       *)
(***************************************************************************)
IndexLast ==
  \A idx \in IndexFiles : IsWhole(idx) =>
    \A i \in DOMAIN files[idx].text : \A kind \in {"h", "cpp"} :
      LET f == BlockFile(kind, files[idx].text[i]) IN
      /\ files[f].state # "absent"
      /\ IsWhole(f) => files[f].run >= files[idx].run

(***************************************************************************)
(* A run that ends well leaves nothing of earlier ones, stopped anywhere,  *)
(* in the files it is about: all are whole and its own, and AmdRegDb.h     *)
(* (which calls the load functions) and CMakeLists.txt (which compiles     *)
(* them) name the same blocks.                                             *)
(***************************************************************************)
Own(f) == IsWhole(f) /\ files[f].run = run

DoneWhole ==
  pc = "done" =>
    /\ \A i \in DOMAIN blocks, kind \in {"h", "cpp"} : Own(BlockFile(kind, blocks[i]))
    /\ Own(TopFile("AmdRegDb.cpp"))
    /\ \A idx \in IndexFiles : Own(idx) /\ files[idx].text = blocks
=============================================================================
