---------------------------- MODULE RegGenProofs ----------------------------
(***************************************************************************)
(* Proofs about amdgenreg.py, for every list of blocks, every kernel tree  *)
(* and every number of runs: the types, what the tree holds after any run  *)
(* was stopped anywhere, and that a header that is written says what the   *)
(* kernel's headers say.                                                   *)
(***************************************************************************)
EXTENDS RegGen, TLAPS

(* What writeFile is called for, written out. *)
LEMMA OutputsOfBlock ==
  ASSUME block <= Len(blocks)
  PROVE  /\ DOMAIN Outputs = {1, 2}
         /\ Len(Outputs) = 2
         /\ Outputs[1] = [file |-> BlockFile("h", blocks[block]), text |-> registers]
         /\ Outputs[2] = [file |-> BlockFile("cpp", blocks[block]), text |-> <<>>]
BY DEF Outputs, BlockOutputs

LEMMA OutputsOfAll ==
  ASSUME ~(block <= Len(blocks))
  PROVE  /\ DOMAIN Outputs = {1, 2, 3}
         /\ Len(Outputs) = 3
         /\ Outputs[1] = [file |-> TopFile("AmdRegDb.h"), text |-> blocks]
         /\ Outputs[2] = [file |-> TopFile("AmdRegDb.cpp"), text |-> <<>>]
         /\ Outputs[3] = [file |-> TopFile("CMakeLists.txt"), text |-> blocks]
BY DEF Outputs, TopOutputs

(* A list of blocks is a sequence of different blocks, and not empty. *)
LEMMA ListsType ==
  ASSUME NEW list \in Lists
  PROVE  /\ list \in Seq(Blocks)
         /\ Len(list) \in Nat \ {0}
         /\ DOMAIN list = 1 .. Len(list)
         /\ \A i \in DOMAIN list : list[i] \in Blocks
         /\ \A i, j \in DOMAIN list : list[i] = list[j] => i = j
<1>1. list \in Seq(Blocks) /\ list # <<>> BY RegGenAssumption
<1>2. Len(list) \in Nat /\ DOMAIN list = 1 .. Len(list) BY <1>1
<1>3. Len(list) # 0 BY <1>1, <1>2
<1>4. \A i \in DOMAIN list : list[i] \in Blocks BY <1>1
<1>5. \A i, j \in DOMAIN list : list[i] = list[j] => i = j BY RegGenAssumption
<1>. QED BY <1>1, <1>2, <1>3, <1>4, <1>5

(* Every output is a file of the tree. *)
LEMMA OutputsType ==
  ASSUME TypeOK, pos \in DOMAIN Outputs
  PROVE  Outputs[pos].file \in Files
<1>1. CASE block <= Len(blocks)
  <2>1. block \in DOMAIN blocks BY <1>1, ListsType DEF TypeOK
  <2>2. blocks[block] \in Blocks BY <2>1, ListsType DEF TypeOK
  <2>. QED BY <1>1, <2>2, OutputsOfBlock DEF Files
<1>2. CASE ~(block <= Len(blocks))
  BY <1>2, OutputsOfAll DEF Files, IndexFiles
<1>. QED BY <1>1, <1>2

(***************************************************************************)
(* Types.  A file that is written has the number of a run that began.      *)
(***************************************************************************)
TypeInv == /\ TypeOK
           /\ pc # "idle" => run # 0

LEMMA TypeInit == Init => TypeInv
<1>. SUFFICES ASSUME Init PROVE TypeInv OBVIOUS
<1>1. Len(blocks) \in Nat \ {0} BY ListsType DEF Init
<1>2. run \in 0 .. MaxRuns BY RegGenAssumption DEF Init
<1>. QED BY <1>1, <1>2 DEF Init, TypeInv, TypeOK, IsWhole, Absent

LEMMA TypeStep == TypeInv /\ [Next]_vars => TypeInv'
<1>. SUFFICES ASSUME TypeInv, [Next]_vars PROVE TypeInv' OBVIOUS
<1>. USE DEF TypeInv, TypeOK, IsWhole, Absent, Cut, Whole
<1>0. /\ Len(blocks) \in Nat \ {0}
      /\ DOMAIN blocks = 1 .. Len(blocks)
  BY ListsType
<1>1. CASE Start
  <2>1. Len(blocks') \in Nat \ {0} /\ DOMAIN blocks' = 1 .. Len(blocks')
    BY <1>1, ListsType DEF Start
  <2>. QED BY <1>1, <2>1, RegGenAssumption DEF Start
<1>2. CASE ImportDef
  BY <1>2 DEF ImportDef, input
<1>3. CASE EndDefs
  BY <1>3 DEF EndDefs, input
<1>4. CASE ImportMask
  BY <1>4 DEF ImportMask, input
<1>5. CASE EndMasks
  <2>1. pc' \in {"open", "failed"} /\ pos' = 1 /\ UNCHANGED <<input, block, files, registers>>
    BY <1>5 DEF EndMasks
  <2>4. pc = "masks" BY <1>5 DEF EndMasks
  <2>2. block' <= Len(blocks') BY <1>0, <1>5, <2>1 DEF EndMasks, input
  <2>3. DOMAIN Outputs' = {1, 2} BY <2>2 DEF Outputs, BlockOutputs
  <2>. QED BY <2>1, <2>3, <2>4 DEF input
<1>6. CASE OpenFile
  <2>1. UNCHANGED <<kernel, blocks, run, block, pos, registers>> /\ pc' = "write"
    BY <1>6 DEF OpenFile, input
  <2>2. pos \in DOMAIN Outputs BY <1>6 DEF OpenFile
  <2>3. Outputs' = Outputs
    BY <2>1 DEF Outputs, BlockOutputs, TopOutputs
  <2>4. DOMAIN files' = Files BY <1>6 DEF OpenFile
  <2>5. \A f \in Files : files'[f] = files[f] \/ files'[f] = Cut
    BY <1>6 DEF OpenFile
  <2>6. \A f \in Files : /\ files'[f].state \in {"absent", "cut", "whole"}
                         /\ files'[f].state = "whole" => files'[f].run \in 1 .. run'
    BY <2>1, <2>5
  <2>7. run # 0 BY <1>6 DEF OpenFile
  <2>. QED BY <2>1, <2>2, <2>3, <2>4, <2>6, <2>7
<1>7. CASE WriteFile
  <2>1. UNCHANGED <<kernel, blocks, run>> /\ NextOutput BY <1>7 DEF WriteFile, input
  <2>2. pos \in DOMAIN Outputs /\ run # 0 BY <1>7 DEF WriteFile
  <2>3. DOMAIN files' = Files BY <1>7 DEF WriteFile
  <2>4. \A f \in Files : \/ files'[f] = files[f]
                         \/ files'[f].state = "whole" /\ files'[f].run = run
    BY <1>7 DEF WriteFile, Whole
  <2>5. \A f \in Files : /\ files'[f].state \in {"absent", "cut", "whole"}
                         /\ files'[f].state = "whole" => files'[f].run \in 1 .. run'
    BY <2>1, <2>2, <2>4
  <2>6. CASE block <= Len(blocks)
    <3>1. DOMAIN Outputs = {1, 2} /\ Len(Outputs) = 2 BY <2>6, OutputsOfBlock
    <3>2. CASE pos < Len(Outputs)
      <4>1. pc' = "open" /\ pos' = 2 /\ block' = block
        BY <2>1, <2>2, <3>1, <3>2 DEF NextOutput
      <4>2. DOMAIN Outputs' = {1, 2}
        BY <2>1, <2>6, <4>1 DEF Outputs, BlockOutputs
      <4>. QED BY <2>1, <2>2, <2>3, <2>5, <4>1, <4>2
    <3>3. CASE pos = Len(Outputs)
      <4>1. pos' = 1 /\ block' \in 1 .. Len(blocks) + 1 BY <1>0, <2>1, <2>6, <3>1, <3>3 DEF NextOutput, MoreBlocks
      <4>2. \/ pc' = "defs" /\ block' \in DOMAIN blocks
            \/ pc' = "open" /\ ~(block' <= Len(blocks))
        BY <1>0, <2>1, <2>6, <3>1, <3>3 DEF NextOutput, MoreBlocks
      <4>3. pc' = "open" => DOMAIN Outputs' = {1, 2, 3}
        BY <2>1, <4>2 DEF Outputs, TopOutputs
      <4>. QED BY <2>1, <2>2, <2>3, <2>5, <4>1, <4>2, <4>3
    <3>. QED BY <2>2, <3>1, <3>2, <3>3
  <2>7. CASE ~(block <= Len(blocks))
    <3>1. DOMAIN Outputs = {1, 2, 3} /\ Len(Outputs) = 3 BY <2>7, OutputsOfAll
    <3>2. CASE pos < Len(Outputs)
      <4>1. pc' = "open" /\ pos' = pos + 1 /\ block' = block
        BY <2>1, <3>1, <3>2 DEF NextOutput
      <4>2. DOMAIN Outputs' = {1, 2, 3}
        BY <2>1, <2>7, <4>1 DEF Outputs, TopOutputs
      <4>. QED BY <2>1, <2>2, <2>3, <2>5, <3>1, <3>2, <4>1, <4>2
    <3>3. CASE pos = Len(Outputs)
      <4>1. pos' = 1 /\ block' = Len(blocks) + 1 /\ pc' = "done"
        BY <1>0, <2>1, <2>7, <3>1, <3>3 DEF NextOutput, MoreBlocks
      <4>. QED BY <1>0, <2>1, <2>2, <2>3, <2>5, <4>1
    <3>. QED BY <2>2, <3>1, <3>2, <3>3
  <2>. QED BY <2>6, <2>7
<1>8. CASE Fail
  BY <1>8 DEF Fail, input, Ended
<1>9. CASE UNCHANGED vars
  <2>1. Outputs' = Outputs
    BY <1>9 DEF vars, Outputs, BlockOutputs, TopOutputs
  <2>. QED BY <1>9, <2>1 DEF vars
<1>. QED
  BY <1>1, <1>2, <1>3, <1>4, <1>5, <1>6, <1>7, <1>8, <1>9 DEF Next, Step

(* Every variable has its type, whatever is stopped and started again. *)
THEOREM GeneratorTypes == Spec => []TypeOK
<1>1. TypeInv => TypeOK BY DEF TypeInv
<1>. QED BY TypeInit, TypeStep, <1>1, PTL DEF Spec

(***************************************************************************)
(* The tree.  While a run goes on, the files of the blocks before this one *)
(* and the outputs before this one are whole and its own; so the index     *)
(* files, the last, are written when those of every block are.             *)
(***************************************************************************)
IndexNames == \A idx \in IndexFiles : IsWhole(idx) => files[idx].text \in Lists

BlocksWritten ==
  pc \notin {"idle", "failed"} =>
    \A i \in DOMAIN blocks, kind \in {"h", "cpp"} :
      i < block => Own(BlockFile(kind, blocks[i]))

OutputsWritten ==
  pc \in {"open", "write"} =>
    \A j \in DOMAIN Outputs :
      j < pos => /\ Own(Outputs[j].file)
                 /\ files[Outputs[j].file].text = Outputs[j].text

IndexWritten ==
  pc = "done" => /\ block = Len(blocks) + 1
                 /\ Own(TopFile("AmdRegDb.cpp"))
                 /\ \A idx \in IndexFiles : Own(idx) /\ files[idx].text = blocks

TreeInv == TypeInv /\ IndexNames /\ IndexLast
             /\ BlocksWritten /\ OutputsWritten /\ IndexWritten

(* An output is no file of an earlier block and no other output. *)
LEMMA OutputsDiffer ==
  ASSUME TypeOK, NEW j \in DOMAIN Outputs
  PROVE  /\ \A i \in DOMAIN blocks, kind \in {"h", "cpp"} :
              i < block => BlockFile(kind, blocks[i]) # Outputs[j].file
         /\ \A k \in DOMAIN Outputs : k # j => Outputs[k].file # Outputs[j].file
         /\ ~(block <= Len(blocks)) =>
              \A b \in Blocks, kind \in {"h", "cpp"} : BlockFile(kind, b) # Outputs[j].file
         /\ block <= Len(blocks) =>
              Outputs[j].file \notin IndexFiles \cup {TopFile("AmdRegDb.cpp")}
<1>1. CASE block <= Len(blocks)
  <2>1. block \in DOMAIN blocks BY <1>1, ListsType DEF TypeOK
  <2>2. \A i \in DOMAIN blocks : i < block => blocks[i] # blocks[block]
    BY <2>1, ListsType DEF TypeOK
  <2>. QED BY <1>1, <2>2, OutputsOfBlock DEF BlockFile, TopFile, IndexFiles
<1>2. CASE ~(block <= Len(blocks))
  BY <1>2, OutputsOfAll DEF BlockFile, TopFile
<1>. QED BY <1>1, <1>2

(* A step that leaves the files alone keeps what is said of them. *)
LEMMA IndexKept ==
  ASSUME IndexNames, IndexLast, UNCHANGED files
  PROVE  IndexNames' /\ IndexLast'
BY DEF IndexNames, IndexLast, IsWhole

LEMMA TreeInit == Init => TreeInv
<1>. SUFFICES ASSUME Init PROVE TreeInv OBVIOUS
<1>1. TypeInv BY TypeInit
<1>2. \A idx \in IndexFiles : ~IsWhole(idx)
  BY DEF Init, IsWhole, Absent, Files
<1>. QED BY <1>1, <1>2
     DEF Init, TreeInv, IndexNames, IndexLast, BlocksWritten, OutputsWritten, IndexWritten

LEMMA TreeStep == TreeInv /\ [Next]_vars => TreeInv'
<1>. SUFFICES ASSUME TreeInv, [Next]_vars PROVE TreeInv' OBVIOUS
<1>0. TypeInv /\ TypeOK BY DEF TreeInv, TypeInv
<1>a. TypeInv' BY <1>0, TypeStep
<1>b. /\ Len(blocks) \in Nat \ {0}
      /\ DOMAIN blocks = 1 .. Len(blocks)
      /\ \A i \in DOMAIN blocks : blocks[i] \in Blocks
  BY <1>0, ListsType DEF TypeOK
<1>1. CASE Start
  <2>1. pc' = "defs" /\ block' = 1 /\ UNCHANGED files BY <1>1 DEF Start
  <2>2. IndexNames' /\ IndexLast' BY <2>1, IndexKept DEF TreeInv
  <2>3. DOMAIN blocks' = 1 .. Len(blocks') BY <1>1, ListsType DEF Start
  <2>. QED BY <1>a, <2>1, <2>2, <2>3
       DEF TreeInv, BlocksWritten, OutputsWritten, IndexWritten
<1>2. CASE ImportDef \/ EndDefs \/ ImportMask
  <2>1. /\ pc \in {"defs", "masks"} /\ pc' \in {"defs", "masks"}
        /\ UNCHANGED <<kernel, blocks, run, block, files>>
    BY <1>2 DEF ImportDef, EndDefs, ImportMask, input
  <2>2. IndexNames' /\ IndexLast' BY <2>1, IndexKept DEF TreeInv
  <2>3. BlocksWritten' BY <2>1 DEF TreeInv, BlocksWritten, Own, IsWhole
  <2>. QED BY <1>a, <2>1, <2>2, <2>3 DEF TreeInv, OutputsWritten, IndexWritten
<1>3. CASE EndMasks
  <2>1. /\ pc = "masks" /\ pc' \in {"open", "failed"} /\ pos' = 1
        /\ UNCHANGED <<kernel, blocks, run, block, registers, files>>
    BY <1>3 DEF EndMasks, input
  <2>2. IndexNames' /\ IndexLast' BY <2>1, IndexKept DEF TreeInv
  <2>3. BlocksWritten' BY <2>1 DEF TreeInv, BlocksWritten, Own, IsWhole
  <2>4. OutputsWritten'
    <3>1. Outputs' = Outputs BY <2>1 DEF Outputs, BlockOutputs, TopOutputs
    <3>2. DOMAIN Outputs \subseteq {1, 2, 3} BY OutputsOfBlock, OutputsOfAll
    <3>. QED BY <2>1, <3>1, <3>2 DEF OutputsWritten
  <2>. QED BY <1>a, <2>1, <2>2, <2>3, <2>4 DEF TreeInv, IndexWritten
<1>4. CASE OpenFile
  <2>. DEFINE o == Outputs[pos].file
  <2>1. /\ pc = "open" /\ pc' = "write"
        /\ files' = [files EXCEPT ![o] = Cut]
        /\ UNCHANGED <<kernel, blocks, run, block, pos, registers>>
    BY <1>4 DEF OpenFile, input
  <2>2. Outputs' = Outputs BY <2>1 DEF Outputs, BlockOutputs, TopOutputs
  <2>3. pos \in DOMAIN Outputs /\ o \in Files BY <1>0, <2>1, OutputsType DEF TypeOK
  <2>4. DOMAIN files = Files BY <1>0 DEF TypeOK
  <2>5. \A f \in Files : files'[f] = IF f = o THEN Cut ELSE files[f]
    BY <2>1, <2>3, <2>4
  <2>. HIDE DEF o
  <2>6. \A f \in Files : /\ IsWhole(f)' => IsWhole(f) /\ files'[f] = files[f]
                         /\ files'[f].state = "absent" => files[f].state = "absent"
    BY <2>5 DEF IsWhole, Cut
  <2>7. \A f \in Files : f # o => (Own(f) => Own(f)') /\ files'[f] = files[f]
    BY <2>1, <2>5 DEF Own, IsWhole
  <2>8. IndexNames'
    BY <2>6 DEF TreeInv, IndexNames, Files
  <2>9. IndexLast'
    <3>1. SUFFICES ASSUME NEW idx \in IndexFiles, files'[idx].state = "whole",
                          NEW i \in DOMAIN files'[idx].text, NEW kind \in {"h", "cpp"}
                   PROVE  /\ files'[BlockFile(kind, files'[idx].text[i])].state # "absent"
                          /\ files'[BlockFile(kind, files'[idx].text[i])].state = "whole"
                               => files'[BlockFile(kind, files'[idx].text[i])].run
                                    >= files'[idx].run
      BY DEF IndexLast, IsWhole, BlockFile
    <3>2. IsWhole(idx) /\ files'[idx] = files[idx] BY <2>6, <3>1 DEF Files, IsWhole
    <3>3. files[idx].text \in Lists BY <3>2 DEF TreeInv, IndexNames
    <3>4. files[idx].text[i] \in Blocks BY <3>1, <3>2, <3>3, ListsType
    <3>5. PICK f : f = BlockFile(kind, files[idx].text[i]) OBVIOUS
    <3>6. f \in Files BY <3>4, <3>5 DEF Files
    <3>7. files[f].state # "absent" /\ (files[f].state = "whole" => files[f].run >= files[idx].run)
      BY <3>1, <3>2, <3>5 DEF TreeInv, IndexLast, IsWhole
    <3>8. /\ files'[f].state # "absent"
          /\ files'[f].state = "whole" => files'[f].run >= files'[idx].run
      BY <2>6, <3>2, <3>6, <3>7 DEF IsWhole
    <3>. QED BY <3>2, <3>5, <3>8
  <2>10. BlocksWritten'
    <3>1. \A i \in DOMAIN blocks, kind \in {"h", "cpp"} :
            i < block => BlockFile(kind, blocks[i]) \in Files \ {o}
      BY <1>0, <1>b, <2>3, OutputsDiffer DEF Files, o
    <3>. QED BY <2>1, <2>7, <3>1 DEF TreeInv, BlocksWritten
  <2>11. OutputsWritten'
    <3>1. \A j \in DOMAIN Outputs : j < pos => Outputs[j].file # o
      BY <1>0, <2>3, OutputsDiffer DEF o, TypeOK
    <3>2. \A j \in DOMAIN Outputs : Outputs[j].file \in Files
      <4>1. CASE block <= Len(blocks)
        BY <1>0, <1>b, <4>1, OutputsOfBlock DEF TypeOK, Files
      <4>2. CASE ~(block <= Len(blocks))
        BY <4>2, OutputsOfAll DEF Files, IndexFiles
      <4>. QED BY <4>1, <4>2
    <3>. QED BY <2>1, <2>2, <2>7, <3>1, <3>2 DEF TreeInv, OutputsWritten
  <2>. QED BY <1>a, <2>1, <2>8, <2>9, <2>10, <2>11 DEF TreeInv, IndexWritten
<1>5. CASE WriteFile
  <2>. DEFINE o == Outputs[pos].file
              t == Outputs[pos].text
  <2>1. /\ pc = "write" /\ NextOutput
        /\ files' = [files EXCEPT ![o] = Whole(t)]
        /\ UNCHANGED <<kernel, blocks, run>>
    BY <1>5 DEF WriteFile, input
  <2>2. /\ pos \in DOMAIN Outputs /\ o \in Files
        /\ block \in 1 .. Len(blocks) + 1
    BY <1>0, <2>1, OutputsType DEF TypeOK
  <2>3. \A j \in DOMAIN Outputs : Outputs[j].file \in Files
    <3>1. CASE block <= Len(blocks)
      BY <1>0, <1>b, <3>1, OutputsOfBlock DEF TypeOK, Files
    <3>2. CASE ~(block <= Len(blocks))
      BY <3>2, OutputsOfAll DEF Files, IndexFiles
    <3>. QED BY <3>1, <3>2
  <2>4. \A j \in DOMAIN Outputs : j # pos => Outputs[j].file # o
    BY <1>0, <2>2, OutputsDiffer
  <2>5. block <= Len(blocks) => o \notin IndexFiles
    BY <1>0, <2>2, OutputsDiffer
  <2>6. o \in IndexFiles => t = blocks
    BY <2>2, <2>5, OutputsOfAll DEF IndexFiles, TopFile
  <2>7. \A j \in DOMAIN Outputs : j < pos => /\ Own(Outputs[j].file)
                                             /\ files[Outputs[j].file].text = Outputs[j].text
    BY <2>1 DEF TreeInv, OutputsWritten
  <2>8. \A i \in DOMAIN blocks, kind \in {"h", "cpp"} :
          i < block => Own(BlockFile(kind, blocks[i]))
    BY <2>1 DEF TreeInv, BlocksWritten
  <2>9. \A i \in DOMAIN blocks, kind \in {"h", "cpp"} : BlockFile(kind, blocks[i]) \in Files
    BY <1>b DEF Files
  <2>10. \A f \in Files : files'[f] = IF f = o THEN Whole(t) ELSE files[f]
    <3>1. DOMAIN files = Files BY <1>0 DEF TypeOK
    <3>. QED BY <2>1, <2>2, <3>1
  <2>. HIDE DEF o, t
  <2>11. \A f \in Files : Own(f) \/ f = o => Own(f)'
    BY <2>1, <2>10 DEF Own, IsWhole, Whole
  <2>12. files'[o].text = t BY <2>2, <2>10 DEF Whole
  <2>13. IndexNames'
    <3>1. SUFFICES ASSUME NEW idx \in IndexFiles, files'[idx].state = "whole"
                   PROVE  files'[idx].text \in Lists
      BY DEF IndexNames, IsWhole
    <3>2. CASE idx = o
      BY <1>0, <2>6, <2>12, <3>1, <3>2 DEF TypeOK
    <3>3. CASE idx # o
      BY <2>10, <3>1, <3>3 DEF TreeInv, IndexNames, IsWhole, Files
    <3>. QED BY <3>2, <3>3
  <2>14. IndexLast'
    <3>1. SUFFICES ASSUME NEW idx \in IndexFiles, files'[idx].state = "whole",
                          NEW i \in DOMAIN files'[idx].text, NEW kind \in {"h", "cpp"}
                   PROVE  /\ files'[BlockFile(kind, files'[idx].text[i])].state # "absent"
                          /\ files'[BlockFile(kind, files'[idx].text[i])].state = "whole"
                               => files'[BlockFile(kind, files'[idx].text[i])].run
                                    >= files'[idx].run
      BY DEF IndexLast, IsWhole, BlockFile
    <3>2. CASE idx = o
      <4>1. ~(block <= Len(blocks)) /\ t = blocks BY <2>5, <2>6, <3>2
      <4>2. files'[idx].text = blocks /\ files'[idx].run = run
        BY <2>10, <2>12, <3>2, <4>1 DEF Whole, Files
      <4>3. i \in DOMAIN blocks /\ i < block BY <1>b, <2>2, <3>1, <4>1, <4>2
      <4>4. PICK f : f = BlockFile(kind, blocks[i]) OBVIOUS
      <4>5. f \in Files /\ Own(f) BY <2>8, <2>9, <4>3, <4>4
      <4>6. Own(f)' BY <2>11, <4>5
      <4>7. files'[f].state = "whole" /\ files'[f].run = run
        BY <2>1, <4>6 DEF Own, IsWhole
      <4>8. run \in Nat BY <1>0, RegGenAssumption DEF TypeOK
      <4>. QED BY <4>2, <4>4, <4>7, <4>8
    <3>3. CASE idx # o
      <4>1. files'[idx] = files[idx] /\ IsWhole(idx)
        BY <2>10, <3>1, <3>3 DEF IsWhole, Files
      <4>2. files[idx].text \in Lists BY <4>1 DEF TreeInv, IndexNames
      <4>3. files[idx].text[i] \in Blocks BY <3>1, <4>1, <4>2, ListsType
      <4>4. PICK f : f = BlockFile(kind, files[idx].text[i]) OBVIOUS
      <4>5. f \in Files BY <4>3, <4>4 DEF Files
      <4>6. files[f].state # "absent" /\ (files[f].state = "whole" => files[f].run >= files[idx].run)
        BY <3>1, <4>1, <4>4 DEF TreeInv, IndexLast, IsWhole
      <4>7. CASE f = o
        <5>1. files'[f].state = "whole" /\ files'[f].run = run BY <2>10, <4>5, <4>7 DEF Whole
        <5>2. files[idx].run \in 1 .. run /\ run \in Nat
          <6>0. idx \in Files BY DEF Files
          <6>1. files[idx].run \in 1 .. run BY <1>0, <4>1, <6>0 DEF TypeOK, IsWhole
          <6>2. run \in 0 .. MaxRuns BY <1>0 DEF TypeOK
          <6>. QED BY <6>1, <6>2, RegGenAssumption
        <5>3. files'[f].run >= files'[idx].run BY <4>1, <5>1, <5>2
        <5>. QED BY <4>1, <4>4, <5>1, <5>3
      <4>8. CASE f # o
        BY <2>10, <4>1, <4>4, <4>5, <4>6, <4>8
      <4>. QED BY <4>7, <4>8
    <3>. QED BY <3>2, <3>3
  <2>15. CASE pos < Len(Outputs)
    <3>1. pc' = "open" /\ pos' = pos + 1 /\ UNCHANGED <<block, registers>>
      <4>1. pos # Len(Outputs) BY <2>15, OutputsOfBlock, OutputsOfAll
      <4>. QED BY <2>1, <4>1 DEF NextOutput
    <3>2. Outputs' = Outputs BY <2>1, <3>1 DEF Outputs, BlockOutputs, TopOutputs
    <3>3. BlocksWritten'
      BY <2>1, <2>8, <2>9, <2>11, <3>1 DEF BlocksWritten
    <3>4. OutputsWritten'
      <4>1. SUFFICES ASSUME NEW j \in DOMAIN Outputs, j < pos + 1
                     PROVE  Own(Outputs[j].file)' /\ files'[Outputs[j].file].text = Outputs[j].text
        BY <3>1, <3>2 DEF OutputsWritten
      <4>2. j \in Nat /\ pos \in Nat BY <2>2, OutputsOfBlock, OutputsOfAll
      <4>3. PICK f : f = Outputs[j].file OBVIOUS
      <4>4. CASE j = pos
        <5>1. f = o /\ Outputs[j].text = t BY <4>3, <4>4 DEF o, t
        <5>2. Own(f)' /\ files'[f].text = t BY <2>2, <2>11, <2>12, <5>1
        <5>. QED BY <3>2, <4>3, <5>1, <5>2
      <4>5. CASE j # pos
        <5>1. j < pos /\ f # o /\ f \in Files BY <2>3, <2>4, <4>1, <4>2, <4>3, <4>5
        <5>2. Own(f) /\ files[f].text = Outputs[j].text BY <2>7, <4>3, <5>1
        <5>3. Own(f)' /\ files'[f].text = Outputs[j].text BY <2>10, <2>11, <5>1, <5>2
        <5>. QED BY <3>2, <4>3, <5>3
      <4>. QED BY <4>4, <4>5
    <3>. QED BY <1>a, <2>13, <2>14, <3>1, <3>3, <3>4 DEF TreeInv, IndexWritten
  <2>16. CASE pos = Len(Outputs)
    <3>1. pos' = 1 /\ block' = (IF MoreBlocks THEN block + 1 ELSE Len(blocks) + 1)
      BY <2>1, <2>16 DEF NextOutput
    <3>2. OutputsWritten'
      <4>1. DOMAIN Outputs' \subseteq {1, 2, 3} BY DEF Outputs, BlockOutputs, TopOutputs
      <4>. QED BY <3>1, <4>1 DEF OutputsWritten
    <3>3. CASE block <= Len(blocks)
      <4>1. pos = 2 BY <2>16, <3>3, OutputsOfBlock
      <4>2. block' = block + 1 /\ pc' # "done"
        BY <1>b, <2>1, <2>2, <2>16, <3>1, <3>3 DEF NextOutput, MoreBlocks
      <4>3. /\ Outputs[1].file = BlockFile("h", blocks[block])
            /\ o = BlockFile("cpp", blocks[block])
        BY <3>3, <4>1, OutputsOfBlock DEF o
      <4>4. Own(BlockFile("h", blocks[block])) BY <2>7, <3>3, <4>1, <4>3, OutputsOfBlock
      <4>5. SUFFICES ASSUME NEW i \in DOMAIN blocks, NEW kind \in {"h", "cpp"}, i < block + 1
                     PROVE  Own(BlockFile(kind, blocks[i]))'
        BY <1>a, <2>1, <2>13, <2>14, <3>2, <4>2
           DEF TreeInv, BlocksWritten, IndexWritten
      <4>6. PICK f : f = BlockFile(kind, blocks[i]) OBVIOUS
      <4>7. f \in Files BY <2>9, <4>6
      <4>8. Own(f) \/ f = o
        <5>1. CASE i < block BY <2>8, <4>6, <5>1
        <5>2. CASE i = block BY <4>3, <4>4, <4>6, <5>2
        <5>. QED BY <1>b, <2>2, <4>5, <5>1, <5>2
      <4>9. Own(f)' BY <2>11, <4>7, <4>8
      <4>. QED BY <2>1, <4>6, <4>9
    <3>4. CASE ~(block <= Len(blocks))
      <4>1. pos = 3 BY <2>16, <3>4, OutputsOfAll
      <4>2. block' = block /\ block = Len(blocks) + 1
        BY <1>b, <2>2, <3>1, <3>4 DEF MoreBlocks
      <4>3. BlocksWritten' BY <2>1, <2>8, <2>9, <2>11, <4>2 DEF BlocksWritten
      <4>4. /\ Outputs[1] = [file |-> TopFile("AmdRegDb.h"), text |-> blocks]
            /\ Outputs[2] = [file |-> TopFile("AmdRegDb.cpp"), text |-> <<>>]
            /\ o = TopFile("CMakeLists.txt") /\ t = blocks
            /\ DOMAIN Outputs = {1, 2, 3}
        BY <3>4, <4>1, OutputsOfAll DEF o, t
      <4>5. /\ Own(TopFile("AmdRegDb.h")) /\ files[TopFile("AmdRegDb.h")].text = blocks
            /\ Own(TopFile("AmdRegDb.cpp"))
            /\ TopFile("AmdRegDb.h") # o
        BY <2>4, <2>7, <4>1, <4>4
      <4>6. /\ TopFile("AmdRegDb.h") \in Files
            /\ TopFile("AmdRegDb.cpp") \in Files
            /\ TopFile("CMakeLists.txt") \in Files
        BY DEF Files, IndexFiles
      <4>7. Own(TopFile("AmdRegDb.h"))' /\ Own(TopFile("AmdRegDb.cpp"))' /\ Own(TopFile("CMakeLists.txt"))'
        BY <2>11, <4>4, <4>5, <4>6
      <4>8. files'[TopFile("AmdRegDb.h")].text = blocks /\ files'[TopFile("CMakeLists.txt")].text = blocks
        BY <2>10, <2>12, <4>4, <4>5, <4>6
      <4>9. IndexWritten' BY <2>1, <4>2, <4>7, <4>8 DEF IndexWritten, IndexFiles
      <4>. QED BY <1>a, <2>13, <2>14, <3>2, <4>3, <4>9 DEF TreeInv
    <3>. QED BY <3>3, <3>4
  <2>. QED
    <3>1. pos < Len(Outputs) \/ pos = Len(Outputs)
      BY <2>2, OutputsOfBlock, OutputsOfAll
    <3>. QED BY <2>15, <2>16, <3>1
<1>6. CASE Fail
  <2>1. pc' = "failed" /\ UNCHANGED files BY <1>6 DEF Fail
  <2>2. IndexNames' /\ IndexLast' BY <2>1, IndexKept DEF TreeInv
  <2>. QED BY <1>a, <2>1, <2>2 DEF TreeInv, BlocksWritten, OutputsWritten, IndexWritten
<1>7. CASE UNCHANGED vars
  <2>1. UNCHANGED <<kernel, blocks, run, pc, block, pos, registers, files>> BY <1>7 DEF vars
  <2>2. IndexNames' /\ IndexLast' BY <2>1, IndexKept DEF TreeInv
  <2>3. Outputs' = Outputs BY <2>1 DEF Outputs, BlockOutputs, TopOutputs
  <2>. QED BY <1>a, <2>1, <2>2, <2>3
       DEF TreeInv, BlocksWritten, OutputsWritten, IndexWritten, Own, IsWhole
<1>. QED BY <1>1, <1>2, <1>3, <1>4, <1>5, <1>6, <1>7 DEF Next, Step

(* Wherever runs were stopped, no index file is newer than a block's file. *)
THEOREM IndexNeverAhead == Spec => []IndexLast
<1>1. TreeInv => IndexLast BY DEF TreeInv
<1>. QED BY TreeInit, TreeStep, <1>1, PTL DEF Spec

(* What a run that ended well leaves is all its own. *)
THEOREM NothingLeftOver == Spec => []DoneWhole
<1>1. TreeInv => DoneWhole
  <2>. SUFFICES ASSUME TreeInv, pc = "done" PROVE DoneWhole BY DEF DoneWhole
  <2>1. block = Len(blocks) + 1 BY DEF TreeInv, IndexWritten
  <2>2. Len(blocks) \in Nat /\ DOMAIN blocks = 1 .. Len(blocks)
    BY ListsType DEF TreeInv, TypeInv, TypeOK
  <2>3. \A i \in DOMAIN blocks : i < block BY <2>1, <2>2
  <2>. QED BY <2>3 DEF TreeInv, BlocksWritten, IndexWritten, DoneWhole
<1>. QED BY TreeInit, TreeStep, <1>1, PTL DEF Spec

(***************************************************************************)
(* The tables.  What the dictionaries hold after n lines of definitions    *)
(* and k lines of masks; FieldsOf speaks of one register, Held of a field. *)
(***************************************************************************)
IsAbout(line, name, field, kind) ==
  line.reg = name /\ line.field = field /\ line.kind = kind

LastLine(masks, k, i, name, field, kind) ==
  /\ i \in 1 .. k
  /\ IsAbout(masks[i], name, field, kind)
  /\ \A j \in 1 .. k : j > i => ~IsAbout(masks[j], name, field, kind)

Held(h, masks, k, name, field) ==
  \E m \in 1 .. k :
    /\ LastLine(masks, k, m, name, field, "mask")
    /\ h = [mask |-> masks[m].word, shift |-> h.shift]
    /\ \/ h.shift = None
       \/ \E s \in 1 .. k : /\ LastLine(masks, k, s, name, field, "shift")
                            /\ m < s
                            /\ h.shift = masks[s].word

FieldsOf(fields, masks, k, name) ==
  /\ \A f : f \in DOMAIN fields <=> \E i \in 1 .. k : IsAbout(masks[i], name, f, "mask")
  /\ \A f \in DOMAIN fields : Held(fields[f], masks, k, name, f)

FieldsKnown(regs, masks, k) ==
  \A name \in DOMAIN regs : FieldsOf(regs[name].fields, masks, k, name)

NamesKnown(regs, defs, n) ==
  /\ \A name : name \in DOMAIN regs <=> \E i \in 1 .. n : defs[i].name = name
  /\ \A name \in DOMAIN regs :
       /\ regs[name] = [addr |-> regs[name].addr, fields |-> regs[name].fields]
       /\ \E i \in 1 .. n : /\ defs[i].name = name
                            /\ \A j \in 1 .. n : j > i => defs[j].name # name
                            /\ regs[name].addr = defs[i].addr

(* Definitions: the line's register starts without fields. *)
LEMMA DefineKnows ==
  ASSUME NEW regs, NEW defs, NEW masks, NEW n \in Nat,
         NamesKnown(regs, defs, n), FieldsKnown(regs, masks, 0)
  PROVE  /\ NamesKnown(Define(regs, defs[n + 1]), defs, n + 1)
         /\ FieldsKnown(Define(regs, defs[n + 1]), masks, 0)
<1>. DEFINE d == defs[n + 1]
            r == Define(regs, d)
<1>1. /\ r = [name \in DOMAIN regs \cup {d.name} |->
                IF name = d.name THEN [addr |-> d.addr, fields |-> <<>>] ELSE regs[name]]
  BY DEF Define, Update
<1>2. 1 .. n + 1 = (1 .. n) \cup {n + 1} OBVIOUS
<1>3. NamesKnown(r, defs, n + 1)
  <2>. HIDE DEF r
  <2>1. \A name : name \in DOMAIN r <=> \E i \in 1 .. n + 1 : defs[i].name = name
    BY <1>1, <1>2 DEF NamesKnown
  <2>2. ASSUME NEW name \in DOMAIN r
        PROVE  /\ r[name] = [addr |-> r[name].addr, fields |-> r[name].fields]
               /\ \E i \in 1 .. n + 1 : /\ defs[i].name = name
                                        /\ \A j \in 1 .. n + 1 : j > i => defs[j].name # name
                                        /\ r[name].addr = defs[i].addr
    <3>1. CASE name = d.name
      <4>1. r[name] = [addr |-> d.addr, fields |-> <<>>] BY <1>1, <3>1
      <4>2. \A j \in 1 .. n + 1 : ~(j > n + 1) OBVIOUS
      <4>. QED BY <3>1, <4>1, <4>2
    <3>2. CASE name # d.name
      <4>1. name \in DOMAIN regs /\ r[name] = regs[name] BY <1>1, <2>2, <3>2
      <4>2. PICK i \in 1 .. n : /\ defs[i].name = name
                                /\ \A j \in 1 .. n : j > i => defs[j].name # name
                                /\ regs[name].addr = defs[i].addr
        BY <4>1 DEF NamesKnown
      <4>3. \A j \in 1 .. n + 1 : j > i => defs[j].name # name BY <1>2, <3>2, <4>2
      <4>4. regs[name] = [addr |-> regs[name].addr, fields |-> regs[name].fields]
        BY <4>1 DEF NamesKnown
      <4>. QED BY <1>2, <4>1, <4>2, <4>3, <4>4
    <3>. QED BY <3>1, <3>2
  <2>. QED BY <2>1, <2>2 DEF NamesKnown
<1>4. FieldsKnown(r, masks, 0)
  <2>. HIDE DEF r
  <2>. SUFFICES ASSUME NEW name \in DOMAIN r
                PROVE  FieldsOf(r[name].fields, masks, 0, name)
    BY DEF FieldsKnown
  <2>1. CASE name = d.name
    <3>1. r[name].fields = <<>> BY <1>1, <2>1
    <3>2. DOMAIN r[name].fields = {} BY <3>1
    <3>3. 1 .. 0 = {} OBVIOUS
    <3>. QED BY <3>2, <3>3 DEF FieldsOf
  <2>2. CASE name # d.name
    <3>1. name \in DOMAIN regs /\ r[name] = regs[name] BY <1>1, <2>2
    <3>. QED BY <3>1 DEF FieldsKnown
  <2>. QED BY <2>1, <2>2
<1>. QED BY <1>3, <1>4

(* A line about another field or register changes nothing of this field. *)
LEMMA HeldOn ==
  ASSUME NEW h, NEW masks, NEW k \in Nat, NEW name, NEW field,
         masks[k + 1].reg # name \/ masks[k + 1].field # field,
         Held(h, masks, k, name, field)
  PROVE  Held(h, masks, k + 1, name, field)
<1>1. 1 .. k + 1 = (1 .. k) \cup {k + 1} OBVIOUS
<1>2. \A i, kind : LastLine(masks, k, i, name, field, kind)
                     => LastLine(masks, k + 1, i, name, field, kind)
  BY <1>1 DEF LastLine, IsAbout
<1>. QED BY <1>1, <1>2 DEF Held

(* A mask begins the field anew. *)
LEMMA HeldMask ==
  ASSUME NEW masks, NEW k \in Nat, NEW name, NEW field,
         IsAbout(masks[k + 1], name, field, "mask")
  PROVE  Held([mask |-> masks[k + 1].word, shift |-> None], masks, k + 1, name, field)
<1>1. LastLine(masks, k + 1, k + 1, name, field, "mask") BY DEF LastLine
<1>. QED BY <1>1 DEF Held

(* A shift becomes the field's. *)
LEMMA HeldShift ==
  ASSUME NEW h, NEW masks, NEW k \in Nat, NEW name, NEW field,
         IsAbout(masks[k + 1], name, field, "shift"),
         Held(h, masks, k, name, field)
  PROVE  Held([h EXCEPT !.shift = masks[k + 1].word], masks, k + 1, name, field)
<1>1. 1 .. k + 1 = (1 .. k) \cup {k + 1} OBVIOUS
<1>2. PICK m \in 1 .. k : /\ LastLine(masks, k, m, name, field, "mask")
                          /\ h = [mask |-> masks[m].word, shift |-> h.shift]
  BY DEF Held
<1>3. PICK g : g = [h EXCEPT !.shift = masks[k + 1].word] OBVIOUS
<1>4. /\ g = [mask |-> masks[m].word, shift |-> masks[k + 1].word]
      /\ g.shift = masks[k + 1].word
  BY <1>2, <1>3
<1>5. LastLine(masks, k + 1, m, name, field, "mask")
  BY <1>1, <1>2 DEF LastLine, IsAbout
<1>6. LastLine(masks, k + 1, k + 1, name, field, "shift") BY DEF LastLine
<1>7. m < k + 1 /\ m \in 1 .. k + 1 /\ k + 1 \in 1 .. k + 1 BY <1>2
<1>8. Held(g, masks, k + 1, name, field)
  BY <1>4, <1>5, <1>6, <1>7 DEF Held
<1>. QED BY <1>3, <1>8

(* What a line about its register does to the register's fields. *)
LEMMA LineKnows ==
  ASSUME NEW fields, NEW masks, NEW k \in Nat, NEW name,
         FieldsOf(fields, masks, k, name),
         masks[k + 1].kind \in {"mask", "shift"}
  PROVE  /\ masks[k + 1].reg # name => FieldsOf(fields, masks, k + 1, name)
         /\ masks[k + 1].reg = name /\ masks[k + 1].kind = "mask"
              => FieldsOf(SetMask(fields, masks[k + 1]), masks, k + 1, name)
         /\ masks[k + 1].reg = name /\ masks[k + 1].kind = "shift"
              => IF masks[k + 1].field \in DOMAIN fields
                 THEN FieldsOf(SetShift(fields, masks[k + 1]), masks, k + 1, name)
                 ELSE FieldsOf(fields, masks, k + 1, name)
<1>. DEFINE line == masks[k + 1]
<1>1. 1 .. k + 1 = (1 .. k) \cup {k + 1} OBVIOUS
<1>2. \A f : f \in DOMAIN fields <=> \E i \in 1 .. k : IsAbout(masks[i], name, f, "mask")
  BY DEF FieldsOf
<1>3. \A f \in DOMAIN fields : Held(fields[f], masks, k, name, f) BY DEF FieldsOf
<1>4. \A f \in DOMAIN fields : line.reg # name \/ line.field # f
                               => Held(fields[f], masks, k + 1, name, f)
  BY <1>3, HeldOn
<1>5. ASSUME line.reg # name PROVE FieldsOf(fields, masks, k + 1, name)
  <2>1. \A f : f \in DOMAIN fields <=> \E i \in 1 .. k + 1 : IsAbout(masks[i], name, f, "mask")
    BY <1>1, <1>2, <1>5 DEF IsAbout
  <2>. QED BY <1>4, <1>5, <2>1 DEF FieldsOf
<1>6. ASSUME line.reg = name, line.kind = "mask"
      PROVE  FieldsOf(SetMask(fields, line), masks, k + 1, name)
  <2>1. PICK g : g = SetMask(fields, line) OBVIOUS
  <2>2. g = [f \in DOMAIN fields \cup {line.field} |->
               IF f = line.field THEN [mask |-> line.word, shift |-> None] ELSE fields[f]]
    BY <2>1 DEF SetMask, Update
  <2>3. \A f : f \in DOMAIN g <=> \E i \in 1 .. k + 1 : IsAbout(masks[i], name, f, "mask")
    BY <1>1, <1>2, <1>6, <2>2 DEF IsAbout
  <2>4. ASSUME NEW f \in DOMAIN g PROVE Held(g[f], masks, k + 1, name, f)
    <3>1. CASE f = line.field
      <4>1. g[f] = [mask |-> line.word, shift |-> None] BY <2>2, <3>1
      <4>2. IsAbout(line, name, f, "mask") BY <1>6, <3>1 DEF IsAbout
      <4>. QED BY <4>1, <4>2, HeldMask
    <3>2. CASE f # line.field
      <4>1. f \in DOMAIN fields /\ g[f] = fields[f] BY <2>2, <2>4, <3>2
      <4>. QED BY <1>4, <3>2, <4>1
    <3>. QED BY <3>1, <3>2
  <2>. QED BY <2>1, <2>3, <2>4 DEF FieldsOf
<1>7. ASSUME line.reg = name, line.kind = "shift", line.field \in DOMAIN fields
      PROVE  FieldsOf(SetShift(fields, line), masks, k + 1, name)
  <2>1. PICK g : g = SetShift(fields, line) OBVIOUS
  <2>2. /\ DOMAIN g = DOMAIN fields
        /\ g[line.field] = [fields[line.field] EXCEPT !.shift = line.word]
        /\ \A f \in DOMAIN fields : f # line.field => g[f] = fields[f]
    BY <1>7, <2>1 DEF SetShift
  <2>3. \A f : f \in DOMAIN g <=> \E i \in 1 .. k + 1 : IsAbout(masks[i], name, f, "mask")
    BY <1>1, <1>2, <1>7, <2>2 DEF IsAbout
  <2>4. ASSUME NEW f \in DOMAIN g PROVE Held(g[f], masks, k + 1, name, f)
    <3>1. CASE f = line.field
      <4>1. IsAbout(line, name, f, "shift") BY <1>7, <3>1 DEF IsAbout
      <4>2. Held(fields[f], masks, k, name, f) BY <1>3, <2>2, <2>4
      <4>. QED BY <2>2, <3>1, <4>1, <4>2, HeldShift
    <3>2. CASE f # line.field
      BY <1>4, <2>2, <2>4, <3>2
    <3>. QED BY <3>1, <3>2
  <2>. QED BY <2>1, <2>3, <2>4 DEF FieldsOf
<1>8. ASSUME line.reg = name, line.kind = "shift", line.field \notin DOMAIN fields
      PROVE  FieldsOf(fields, masks, k + 1, name)
  <2>1. \A f : f \in DOMAIN fields <=> \E i \in 1 .. k + 1 : IsAbout(masks[i], name, f, "mask")
    BY <1>1, <1>2, <1>8 DEF IsAbout
  <2>2. \A f \in DOMAIN fields : Held(fields[f], masks, k + 1, name, f) BY <1>4, <1>8
  <2>. QED BY <2>1, <2>2 DEF FieldsOf
<1>. QED BY <1>5, <1>6, <1>7, <1>8

(* Masks and shifts: the table of every register follows. *)
LEMMA RefineKnows ==
  ASSUME NEW regs, NEW defs, NEW n \in Nat, NEW masks, NEW k \in Nat,
         masks[k + 1].kind \in {"mask", "shift"},
         NamesKnown(regs, defs, n), FieldsKnown(regs, masks, k)
  PROVE  /\ NamesKnown(Refine(regs, masks[k + 1]), defs, n)
         /\ FieldsKnown(Refine(regs, masks[k + 1]), masks, k + 1)
<1>. DEFINE line == masks[k + 1]
<1>1. PICK r : r = Refine(regs, line) OBVIOUS
<1>2. /\ DOMAIN r = DOMAIN regs
      /\ \A name \in DOMAIN regs : name # line.reg => r[name] = regs[name]
  BY <1>1 DEF Refine
<1>3. ASSUME NEW name \in DOMAIN regs
      PROVE  /\ r[name] = [addr |-> regs[name].addr, fields |-> r[name].fields]
             /\ FieldsOf(r[name].fields, masks, k + 1, name)
  <2>0. FieldsOf(regs[name].fields, masks, k, name) BY DEF FieldsKnown
  <2>1. regs[name] = [addr |-> regs[name].addr, fields |-> regs[name].fields]
    BY DEF NamesKnown
  <2>2. CASE name # line.reg
    <3>1. r[name] = regs[name] BY <1>2, <2>2
    <3>. QED BY <2>0, <2>1, <2>2, <3>1, LineKnows
  <2>3. CASE name = line.reg /\ line.kind = "mask"
    <3>1. r[name] = [regs[name] EXCEPT !.fields = SetMask(regs[name].fields, line)]
      BY <1>1, <2>3 DEF Refine
    <3>2. r[name] = [addr |-> regs[name].addr, fields |-> SetMask(regs[name].fields, line)]
      BY <2>1, <3>1
    <3>3. FieldsOf(SetMask(regs[name].fields, line), masks, k + 1, name)
      BY <2>0, <2>3, LineKnows
    <3>. QED BY <3>2, <3>3
  <2>4. CASE name = line.reg /\ line.kind # "mask" /\ line.field \in DOMAIN regs[name].fields
    <3>1. r[name] = [regs[name] EXCEPT !.fields = SetShift(regs[name].fields, line)]
      BY <1>1, <2>4 DEF Refine
    <3>2. r[name] = [addr |-> regs[name].addr, fields |-> SetShift(regs[name].fields, line)]
      BY <2>1, <3>1
    <3>3. FieldsOf(SetShift(regs[name].fields, line), masks, k + 1, name)
      BY <2>0, <2>4, LineKnows
    <3>. QED BY <3>2, <3>3
  <2>5. CASE name = line.reg /\ line.kind # "mask" /\ line.field \notin DOMAIN regs[name].fields
    <3>1. r[name] = regs[name] BY <1>1, <2>5 DEF Refine
    <3>2. FieldsOf(regs[name].fields, masks, k + 1, name) BY <2>0, <2>5, LineKnows
    <3>. QED BY <2>1, <3>1, <3>2
  <2>. QED BY <2>2, <2>3, <2>4, <2>5
<1>4. \A name \in DOMAIN r : /\ r[name].addr = regs[name].addr
                             /\ r[name] = [addr |-> r[name].addr, fields |-> r[name].fields]
  BY <1>2, <1>3
<1>5. NamesKnown(r, defs, n)
  BY <1>2, <1>4 DEF NamesKnown
<1>6. FieldsKnown(r, masks, k + 1)
  BY <1>2, <1>3 DEF FieldsKnown
<1>. QED BY <1>1, <1>5, <1>6

(* At the end of the lines, a table that can be printed says what they say. *)
LEMMA KnownDescribes ==
  ASSUME NEW regs, NEW defs \in Seq([name : STRING, addr : Nat]), NEW masks \in Seq(MaskLine),
         NamesKnown(regs, defs, Len(defs)), FieldsKnown(regs, masks, Len(masks)),
         Printable(regs)
  PROVE  Describes(regs, defs, masks)
<1>1. DOMAIN defs = 1 .. Len(defs) /\ DOMAIN masks = 1 .. Len(masks) OBVIOUS
<1>2. DOMAIN regs = {defs[i].name : i \in DOMAIN defs}
  <2>1. \A name : name \in DOMAIN regs <=> \E i \in DOMAIN defs : defs[i].name = name
    BY <1>1 DEF NamesKnown
  <2>. QED BY <2>1
<1>3. ASSUME NEW name \in DOMAIN regs
      PROVE  \E i \in DOMAIN defs : /\ defs[i].name = name
                                    /\ \A j \in DOMAIN defs : j > i => defs[j].name # name
                                    /\ regs[name].addr = defs[i].addr
  BY <1>1 DEF NamesKnown
<1>4. ASSUME NEW name \in DOMAIN regs
      PROVE  /\ DOMAIN regs[name].fields =
                   {masks[i].field : i \in {i \in DOMAIN masks :
                                             IsAbout(masks[i], name, masks[i].field, "mask")}}
             /\ \A field \in DOMAIN regs[name].fields : \E m, s \in DOMAIN masks :
                  /\ LastLine(masks, Len(masks), m, name, field, "mask")
                  /\ LastLine(masks, Len(masks), s, name, field, "shift")
                  /\ m < s
                  /\ regs[name].fields[field] = [mask |-> masks[m].word, shift |-> masks[s].word]
  <2>1. FieldsOf(regs[name].fields, masks, Len(masks), name) BY DEF FieldsKnown
  <2>2. DOMAIN regs[name].fields =
          {masks[i].field : i \in {i \in DOMAIN masks :
                                    IsAbout(masks[i], name, masks[i].field, "mask")}}
    BY <1>1, <2>1 DEF FieldsOf, IsAbout
  <2>3. ASSUME NEW field \in DOMAIN regs[name].fields
        PROVE  \E m, s \in DOMAIN masks :
                  /\ LastLine(masks, Len(masks), m, name, field, "mask")
                  /\ LastLine(masks, Len(masks), s, name, field, "shift")
                  /\ m < s
                  /\ regs[name].fields[field] = [mask |-> masks[m].word, shift |-> masks[s].word]
    <3>1. Held(regs[name].fields[field], masks, Len(masks), name, field) BY <2>1, <2>3 DEF FieldsOf
    <3>2. regs[name].fields[field].shift # None BY <2>3 DEF Printable
    <3>. QED BY <1>1, <3>1, <3>2 DEF Held
  <2>. QED BY <2>2, <2>3
<1>5. ASSUME NEW name \in DOMAIN regs
      PROVE  \E i \in DOMAIN defs : /\ LastOf(defs, i, LAMBDA line : line.name = name)
                                    /\ regs[name].addr = defs[i].addr
  BY <1>3, <1>5 DEF LastOf
<1>6. ASSUME NEW name \in DOMAIN regs
      PROVE  DOMAIN regs[name].fields =
               {masks[i].field : i \in {i \in DOMAIN masks :
                                         /\ masks[i].reg = name /\ masks[i].field = masks[i].field
                                         /\ masks[i].kind = "mask"}}
  BY <1>4, <1>6 DEF IsAbout
<1>7. ASSUME NEW name \in DOMAIN regs, NEW field \in DOMAIN regs[name].fields
      PROVE  \E m, s \in DOMAIN masks :
               /\ LastOf(masks, m, LAMBDA line : /\ line.reg = name /\ line.field = field
                                                 /\ line.kind = "mask")
               /\ LastOf(masks, s, LAMBDA line : /\ line.reg = name /\ line.field = field
                                                 /\ line.kind = "shift")
               /\ m < s
               /\ regs[name].fields[field] = [mask |-> masks[m].word, shift |-> masks[s].word]
  <2>1. PICK m \in DOMAIN masks, s \in DOMAIN masks :
          /\ LastLine(masks, Len(masks), m, name, field, "mask")
          /\ LastLine(masks, Len(masks), s, name, field, "shift")
          /\ m < s
          /\ regs[name].fields[field] = [mask |-> masks[m].word, shift |-> masks[s].word]
    BY <1>4, <1>7
  <2>2. LastOf(masks, m, LAMBDA line : /\ line.reg = name /\ line.field = field
                                       /\ line.kind = "mask")
    BY <1>1, <2>1 DEF LastOf, LastLine, IsAbout
  <2>3. LastOf(masks, s, LAMBDA line : /\ line.reg = name /\ line.field = field
                                       /\ line.kind = "shift")
    BY <1>1, <2>1 DEF LastOf, LastLine, IsAbout
  <2>. QED BY <2>1, <2>2, <2>3
<1>. QED BY <1>2, <1>5, <1>6, <1>7 DEF Describes

(* What the registers of the block are while it is read and written. *)
Knows ==
  /\ pc = "defs" => /\ pos <= Len(Defs) + 1
                    /\ NamesKnown(registers, Defs, pos - 1)
                    /\ FieldsKnown(registers, Masks, 0)
  /\ pc = "masks" => /\ pos <= Len(Masks) + 1
                     /\ NamesKnown(registers, Defs, Len(Defs))
                     /\ FieldsKnown(registers, Masks, pos - 1)
  /\ pc \in {"open", "write"} /\ block <= Len(blocks)
       => Describes(registers, Defs, Masks)

FaithInv == TypeInv /\ Knows /\ Faithful

(* The headers of the block that is read. *)
LEMMA HeadersType ==
  ASSUME TypeInv, block <= Len(blocks)
  PROVE  /\ blocks[block] \in Blocks
         /\ Defs \in Seq([name : STRING, addr : Nat])
         /\ Masks \in Seq(MaskLine)
<1>1. block \in DOMAIN blocks BY ListsType DEF TypeInv, TypeOK
<1>2. blocks[block] \in Blocks BY <1>1, ListsType DEF TypeInv, TypeOK
<1>. QED BY <1>2, RegGenAssumption DEF TypeInv, TypeOK, Defs, Masks

LEMMA NothingKnown ==
  ASSUME NEW defs, NEW masks
  PROVE  NamesKnown(<<>>, defs, 0) /\ FieldsKnown(<<>>, masks, 0)
BY DEF NamesKnown, FieldsKnown

LEMMA FaithInit == Init => FaithInv
<1>. SUFFICES ASSUME Init PROVE FaithInv OBVIOUS
<1>1. \A b \in Blocks : ~IsWhole(BlockFile("h", b))
  <2>1. \A b \in Blocks : BlockFile("h", b) \in Files BY DEF Files
  <2>. QED BY <2>1 DEF Init, IsWhole, Absent
<1>. QED BY <1>1, TypeInit DEF Init, FaithInv, Knows, Faithful

LEMMA FaithStep == FaithInv /\ [Next]_vars => FaithInv'
<1>. SUFFICES ASSUME FaithInv, [Next]_vars PROVE FaithInv' OBVIOUS
<1>0. TypeInv /\ Knows /\ Faithful /\ TypeInv' BY TypeStep DEF FaithInv
<1>a. ASSUME UNCHANGED <<kernel, run, files>> PROVE Faithful'
  BY <1>0, <1>a DEF Faithful, IsWhole
<1>1. CASE Start
  <2>1. /\ pc' = "defs" /\ pos' = 1 /\ registers' = <<>>
        /\ UNCHANGED files /\ run' = run + 1
    BY <1>1 DEF Start
  <2>2. Faithful'
    <3>1. ASSUME NEW b \in Blocks, IsWhole(BlockFile("h", b))
               PROVE  files[BlockFile("h", b)].run # run + 1
      <4>1. BlockFile("h", b) \in Files BY DEF Files
      <4>2. files[BlockFile("h", b)].run \in 1 .. run /\ run \in 0 .. MaxRuns
        BY <1>0, <3>1, <4>1 DEF TypeInv, TypeOK
      <4>. QED BY <4>2, RegGenAssumption
    <3>2. ASSUME NEW b \in Blocks, files'[BlockFile("h", b)].state = "whole"
          PROVE  files'[BlockFile("h", b)].run # run'
      BY <2>1, <3>1, <3>2 DEF IsWhole
    <3>. QED BY <3>2 DEF Faithful, IsWhole
  <2>3. block' <= Len(blocks')
    BY <1>1, ListsType DEF Start
  <2>4. Defs' \in Seq([name : STRING, addr : Nat])
    <3>1. kernel' \in Kernels /\ blocks'[block'] \in Blocks BY <1>1, <2>3, ListsType DEF Start
    <3>. QED BY <3>1, RegGenAssumption DEF Defs
  <2>5. 1 <= Len(Defs') + 1 BY <2>4
  <2>6. NamesKnown(registers', Defs', pos' - 1) /\ FieldsKnown(registers', Masks', 0)
    BY <2>1, NothingKnown
  <2>. QED BY <1>0, <2>1, <2>2, <2>5, <2>6 DEF FaithInv, Knows
<1>2. CASE ImportDef
  <2>1. /\ pc = "defs" /\ pc' = "defs" /\ pos <= Len(Defs) /\ pos' = pos + 1
        /\ registers' = Define(registers, Defs[pos])
        /\ UNCHANGED <<kernel, blocks, run, block, files>>
    BY <1>2 DEF ImportDef, input
  <2>2. Defs' = Defs /\ Masks' = Masks BY <2>1 DEF Defs, Masks
  <2>3. PICK n \in Nat : n = pos - 1 BY <1>0 DEF TypeInv, TypeOK
  <2>4. pos = n + 1 /\ pos' - 1 = n + 1 BY <1>0, <2>1, <2>3 DEF TypeInv, TypeOK
  <2>5. NamesKnown(registers, Defs, n) /\ FieldsKnown(registers, Masks, 0)
    BY <1>0, <2>1, <2>3 DEF Knows
  <2>6. NamesKnown(registers', Defs, n + 1) /\ FieldsKnown(registers', Masks, 0)
    BY <2>1, <2>4, <2>5, DefineKnows
  <2>7. block <= Len(blocks) BY <1>0, <2>1, ListsType DEF TypeInv, TypeOK
  <2>8. pos' <= Len(Defs) + 1
    <3>1. Len(Defs) \in Nat /\ pos \in Nat BY <1>0, <2>7, HeadersType DEF TypeInv, TypeOK
    <3>. QED BY <2>1, <3>1
  <2>. QED BY <1>0, <1>a, <2>1, <2>2, <2>4, <2>6, <2>8 DEF FaithInv, Knows
<1>3. CASE EndDefs
  <2>1. /\ pc = "defs" /\ pc' = "masks" /\ pos > Len(Defs) /\ pos' = 1
        /\ UNCHANGED <<kernel, blocks, run, block, registers, files>>
    BY <1>3 DEF EndDefs, input
  <2>2. Defs' = Defs /\ Masks' = Masks BY <2>1 DEF Defs, Masks
  <2>3. block <= Len(blocks) BY <1>0, <2>1, ListsType DEF TypeInv, TypeOK
  <2>4. Len(Defs) \in Nat /\ Len(Masks) \in Nat /\ pos \in Nat
    BY <1>0, <2>3, HeadersType DEF TypeInv, TypeOK
  <2>5. pos - 1 = Len(Defs) BY <1>0, <2>1, <2>4 DEF Knows
  <2>6. NamesKnown(registers, Defs, Len(Defs)) /\ FieldsKnown(registers, Masks, 0)
    BY <1>0, <2>1, <2>5 DEF Knows
  <2>. QED BY <1>0, <1>a, <2>1, <2>2, <2>4, <2>6 DEF FaithInv, Knows
<1>4. CASE ImportMask
  <2>1. /\ pc = "masks" /\ pc' = "masks" /\ pos <= Len(Masks) /\ pos' = pos + 1
        /\ registers' = Refine(registers, Masks[pos])
        /\ UNCHANGED <<kernel, blocks, run, block, files>>
    BY <1>4 DEF ImportMask, input
  <2>2. Defs' = Defs /\ Masks' = Masks BY <2>1 DEF Defs, Masks
  <2>3. PICK k \in Nat : k = pos - 1 BY <1>0 DEF TypeInv, TypeOK
  <2>4. pos = k + 1 /\ pos' - 1 = k + 1 BY <1>0, <2>1, <2>3 DEF TypeInv, TypeOK
  <2>5. NamesKnown(registers, Defs, Len(Defs)) /\ FieldsKnown(registers, Masks, k)
    BY <1>0, <2>1, <2>3 DEF Knows
  <2>6. block <= Len(blocks) BY <1>0, <2>1, ListsType DEF TypeInv, TypeOK
  <2>7. Masks \in Seq(MaskLine) /\ Len(Defs) \in Nat /\ Len(Masks) \in Nat
    BY <1>0, <2>6, HeadersType
  <2>8. Masks[k + 1].kind \in {"mask", "shift"}
    <3>1. k + 1 \in 1 .. Len(Masks) BY <2>1, <2>4, <2>7
    <3>2. Masks[k + 1] \in MaskLine BY <2>7, <3>1
    <3>. QED BY <3>2 DEF MaskLine
  <2>9. NamesKnown(registers', Defs, Len(Defs)) /\ FieldsKnown(registers', Masks, k + 1)
    BY <2>1, <2>4, <2>5, <2>7, <2>8, RefineKnows
  <2>10. pos' <= Len(Masks) + 1 BY <2>1, <2>4, <2>7
  <2>. QED BY <1>0, <1>a, <2>1, <2>2, <2>4, <2>9, <2>10 DEF FaithInv, Knows
<1>5. CASE EndMasks
  <2>1. /\ pc = "masks" /\ pos > Len(Masks)
        /\ pc' = IF Printable(registers) THEN "open" ELSE "failed"
        /\ UNCHANGED <<kernel, blocks, run, block, registers, files>>
    BY <1>5 DEF EndMasks, input
  <2>2. Defs' = Defs /\ Masks' = Masks BY <2>1 DEF Defs, Masks
  <2>3. block <= Len(blocks) BY <1>0, <2>1, ListsType DEF TypeInv, TypeOK
  <2>4. Defs \in Seq([name : STRING, addr : Nat]) /\ Masks \in Seq(MaskLine)
    BY <1>0, <2>3, HeadersType
  <2>5. Len(Masks) \in Nat /\ pos \in Nat BY <1>0, <2>4 DEF TypeInv, TypeOK
  <2>6. pos - 1 = Len(Masks) BY <1>0, <2>1, <2>5 DEF Knows
  <2>7. NamesKnown(registers, Defs, Len(Defs)) /\ FieldsKnown(registers, Masks, Len(Masks))
    BY <1>0, <2>1, <2>6 DEF Knows
  <2>8. Printable(registers) => Describes(registers, Defs, Masks)
    BY <2>4, <2>7, KnownDescribes
  <2>. QED BY <1>0, <1>a, <2>1, <2>2, <2>8 DEF FaithInv, Knows
<1>6. CASE OpenFile
  <2>1. /\ pc = "open" /\ pc' = "write"
        /\ UNCHANGED <<kernel, blocks, run, block, registers>>
        /\ files' = [files EXCEPT ![Outputs[pos].file] = Cut]
    BY <1>6 DEF OpenFile, input
  <2>2. Defs' = Defs /\ Masks' = Masks BY <2>1 DEF Defs, Masks
  <2>3. DOMAIN files = Files BY <1>0 DEF TypeInv, TypeOK
  <2>4. \A f \in Files : files'[f].state = "whole" => files'[f] = files[f]
    BY <2>1, <2>3 DEF Cut
  <2>5. \A b \in Blocks : BlockFile("h", b) \in Files BY DEF Files
  <2>6. Faithful'
    BY <1>0, <2>1, <2>4, <2>5 DEF Faithful, IsWhole
  <2>. QED BY <1>0, <2>1, <2>2, <2>6 DEF FaithInv, Knows
<1>7. CASE WriteFile
  <2>. DEFINE o == Outputs[pos].file
              t == Outputs[pos].text
  <2>1. /\ pc = "write" /\ NextOutput
        /\ files' = [files EXCEPT ![o] = Whole(t)]
        /\ UNCHANGED <<kernel, blocks, run>>
    BY <1>7 DEF WriteFile, input
  <2>2. pos \in DOMAIN Outputs /\ DOMAIN files = Files BY <1>0, <2>1 DEF TypeInv, TypeOK
  <2>3. ASSUME NEW b \in Blocks, o = BlockFile("h", b)
        PROVE  Describes(t, kernel[b].defs, kernel[b].masks)
    <3>1. block <= Len(blocks)
      BY <2>2, <2>3, OutputsOfAll DEF BlockFile, TopFile
    <3>2. b = blocks[block] /\ t = registers
      BY <2>2, <2>3, <3>1, OutputsOfBlock DEF BlockFile
    <3>. QED BY <1>0, <2>1, <3>1, <3>2 DEF Knows, Defs, Masks
  <2>. HIDE DEF o, t
  <2>4. Faithful'
    <3>1. SUFFICES ASSUME NEW b \in Blocks, files'[BlockFile("h", b)].state = "whole",
                          files'[BlockFile("h", b)].run = run
                   PROVE  Describes(files'[BlockFile("h", b)].text, kernel[b].defs, kernel[b].masks)
      BY <2>1 DEF Faithful, IsWhole
    <3>2. BlockFile("h", b) \in Files BY DEF Files
    <3>3. CASE o = BlockFile("h", b)
      <4>1. files'[BlockFile("h", b)].text = t BY <2>1, <2>2, <3>2, <3>3 DEF Whole
      <4>. QED BY <2>3, <3>3, <4>1
    <3>4. CASE o # BlockFile("h", b)
      <4>1. files'[BlockFile("h", b)] = files[BlockFile("h", b)] BY <2>1, <2>2, <3>2, <3>4
      <4>. QED BY <1>0, <3>1, <4>1 DEF Faithful, IsWhole
    <3>. QED BY <3>3, <3>4
  <2>5. CASE pos < Len(Outputs)
    <3>1. pc' = "open" /\ UNCHANGED <<block, registers>>
      <4>1. pos # Len(Outputs) BY <2>5, OutputsOfBlock, OutputsOfAll
      <4>. QED BY <2>1, <4>1 DEF NextOutput
    <3>2. Defs' = Defs /\ Masks' = Masks BY <2>1, <3>1 DEF Defs, Masks
    <3>. QED BY <1>0, <2>1, <2>4, <3>1, <3>2 DEF FaithInv, Knows
  <2>6. CASE pos = Len(Outputs)
    <3>1. /\ pos' = 1 /\ registers' = <<>>
          /\ block' = (IF MoreBlocks THEN block + 1 ELSE Len(blocks) + 1)
          /\ pc' = (IF MoreBlocks THEN "defs"
                    ELSE IF block <= Len(blocks) THEN "open" ELSE "done")
      BY <2>1, <2>6, OutputsOfBlock, OutputsOfAll DEF NextOutput
    <3>2. Len(blocks) \in Nat /\ block \in Nat BY <1>0, ListsType DEF TypeInv, TypeOK
    <3>3. CASE MoreBlocks
      <4>1. pc' = "defs" /\ block' <= Len(blocks')
        BY <2>1, <3>1, <3>2, <3>3 DEF MoreBlocks
      <4>2. Defs' \in Seq([name : STRING, addr : Nat])
        <5>1. blocks'[block'] \in Blocks /\ kernel' \in Kernels
          <6>1. block' \in DOMAIN blocks' BY <1>0, <4>1 DEF TypeInv, TypeOK
          <6>. QED BY <1>0, <6>1, ListsType DEF TypeInv, TypeOK
        <5>. QED BY <5>1, RegGenAssumption DEF Defs
      <4>3. 1 <= Len(Defs') + 1 BY <4>2
      <4>4. NamesKnown(registers', Defs', pos' - 1) /\ FieldsKnown(registers', Masks', 0)
        BY <3>1, NothingKnown
      <4>. QED BY <1>0, <2>4, <3>1, <4>1, <4>3, <4>4 DEF FaithInv, Knows
    <3>4. CASE ~MoreBlocks
      <4>1. ~(block' <= Len(blocks')) /\ pc' \in {"open", "done"}
        BY <2>1, <3>1, <3>2, <3>4
      <4>. QED BY <1>0, <2>4, <4>1 DEF FaithInv, Knows
    <3>. QED BY <3>3, <3>4
  <2>. QED
    <3>1. pos < Len(Outputs) \/ pos = Len(Outputs)
      BY <2>2, OutputsOfBlock, OutputsOfAll
    <3>. QED BY <2>5, <2>6, <3>1
<1>8. CASE Fail
  BY <1>0, <1>8, <1>a DEF Fail, input, FaithInv, Knows
<1>9. CASE UNCHANGED vars
  <2>1. UNCHANGED <<kernel, blocks, run, pc, block, pos, registers, files>> BY <1>9 DEF vars
  <2>2. Defs' = Defs /\ Masks' = Masks BY <2>1 DEF Defs, Masks
  <2>. QED BY <1>0, <1>a, <2>1, <2>2 DEF FaithInv, Knows
<1>. QED
  BY <1>1, <1>2, <1>3, <1>4, <1>5, <1>6, <1>7, <1>8, <1>9 DEF Next, Step

(* Whatever the order of the lines, a header that is written says what the *)
(* kernel's headers say.                                                   *)
THEOREM HeadersFaithful == Spec => []Faithful
<1>1. FaithInv => Faithful BY DEF FaithInv
<1>. QED BY FaithInit, FaithStep, <1>1, PTL DEF Spec
=============================================================================
