--------------------------- MODULE HqdAccessProofs ---------------------------
(***************************************************************************)
(* Theorems about HqdDump and HqdAccess, for any numbers of pipes and      *)
(* queues, any list of registers and any layout of SRBM_GFX_CNTL in which  *)
(* they fit: the dump of hqd_info is whole and right, and its accesses     *)
(* implement it.                                                           *)
(***************************************************************************)
EXTENDS HqdAccess, SequenceTheorems, TLAPS

(***************************************************************************)
(* The loops.                                                              *)
(***************************************************************************)
LEMMA SlotsShape ==
  ASSUME NEW q \in Slots
  PROVE  /\ q[1] \in Nat /\ q[2] \in Nat /\ q[1] < Pipes /\ q[2] < Queues
         /\ q = <<q[1], q[2]>>
<1>1. Pipes \in Nat /\ Queues \in Nat
  BY HqdAssumption
<1>2. PICK p \in 0 .. Pipes - 1, r \in 0 .. Queues - 1 : q = <<p, r>>
  BY DEF Slots
<1>3. QED
  BY <1>1, <1>2

(* Before the queue after q come q and what was before it. *)
LEMMA NextSlotFollows ==
  ASSUME NEW q \in Slots, NEW r \in Slots
  PROVE  Before(r, NextSlot(q)) <=> r = q \/ Before(r, q)
<1>1. Pipes \in Nat /\ Queues \in Nat
  BY HqdAssumption
<1>2. /\ q[1] \in Nat /\ q[2] \in Nat /\ q[1] < Pipes /\ q[2] < Queues
      /\ r[1] \in Nat /\ r[2] \in Nat /\ r[1] < Pipes /\ r[2] < Queues
      /\ q = <<q[1], q[2]>> /\ r = <<r[1], r[2]>>
  BY SlotsShape
<1>3. r = q <=> r[1] = q[1] /\ r[2] = q[2]
  BY <1>2
<1>4. CASE q[2] + 1 < Queues
  <2>1. NextSlot(q)[1] = q[1] /\ NextSlot(q)[2] = q[2] + 1
    BY <1>4 DEF NextSlot
  <2>2. QED
    BY <1>2, <1>3, <2>1 DEF Before
<1>5. CASE ~(q[2] + 1 < Queues)
  <2>1. NextSlot(q)[1] = q[1] + 1 /\ NextSlot(q)[2] = 0
    BY <1>5 DEF NextSlot
  <2>2. QED
    BY <1>1, <1>2, <1>3, <1>5, <2>1 DEF Before
<1>6. QED
  BY <1>4, <1>5

(* When the loops end, all queues are before. *)
LEMMA NextSlotEnds ==
  ASSUME NEW q \in Slots, NextSlot(q) \notin Slots, NEW r \in Slots
  PROVE  Before(r, NextSlot(q))
<1>1. Pipes \in Nat /\ Queues \in Nat
  BY HqdAssumption
<1>2. /\ q[1] \in Nat /\ q[2] \in Nat /\ q[1] < Pipes /\ q[2] < Queues
      /\ r[1] \in Nat /\ r[2] \in Nat /\ r[1] < Pipes /\ r[2] < Queues
  BY SlotsShape
<1>3. ~(q[2] + 1 < Queues)
  <2>1. SUFFICES ASSUME q[2] + 1 < Queues PROVE FALSE
    OBVIOUS
  <2>2. NextSlot(q) = <<q[1], q[2] + 1>>
    BY <2>1 DEF NextSlot
  <2>3. q[1] \in 0 .. Pipes - 1 /\ q[2] + 1 \in 0 .. Queues - 1
    BY <1>1, <1>2, <2>1
  <2>4. QED
    BY <2>2, <2>3 DEF Slots
<1>4. NextSlot(q) = <<q[1] + 1, 0>>
  BY <1>3 DEF NextSlot
<1>5. ~(q[1] + 1 < Pipes)
  <2>1. SUFFICES ASSUME q[1] + 1 < Pipes PROVE FALSE
    OBVIOUS
  <2>2. q[1] + 1 \in 0 .. Pipes - 1 /\ 0 \in 0 .. Queues - 1
    BY <1>1, <1>2, <2>1
  <2>3. QED
    BY <1>4, <2>2 DEF Slots
<1>6. QED
  BY <1>1, <1>2, <1>4, <1>5 DEF Before

(* The first queue has none before it. *)
LEMMA FirstSlot ==
  ASSUME NEW q \in Slots
  PROVE  ~Before(q, <<0, 0>>) /\ <<0, 0>> \in Slots
<1>1. Pipes \in Nat /\ Queues \in Nat
  BY HqdAssumption
<1>2. q[1] \in Nat /\ q[2] \in Nat /\ q[1] < Pipes /\ q[2] < Queues
  BY SlotsShape
<1>3. 0 \in 0 .. Pipes - 1 /\ 0 \in 0 .. Queues - 1
  BY <1>1, <1>2
<1>4. QED
  BY <1>2, <1>3 DEF Before, Slots

----------------------------------------------------------------------------
(***************************************************************************)
(* HqdDump: the types.                                                     *)
(***************************************************************************)
Line == [queue : Slots, reg : Names, word : ActiveWords \cup Words]

LEMMA RegsFacts ==
  /\ Len(Regs) \in Nat \ {0}
  /\ DOMAIN Regs = 1 .. Len(Regs)
  /\ \A i \in DOMAIN Regs : Regs[i] \in Names
  /\ "CP_HQD_ACTIVE" \in Names
<1>1. Regs \in Seq(STRING) /\ Regs # <<>> /\ Regs[1] = "CP_HQD_ACTIVE"
  BY HqdAssumption
<1>2. Len(Regs) \in Nat /\ DOMAIN Regs = 1 .. Len(Regs) /\ Len(Regs) # 0
  BY <1>1, LenProperties, EmptySeq
<1>3. 1 \in DOMAIN Regs
  BY <1>2
<1>4. QED
  BY <1>1, <1>2, <1>3 DEF Names

(* The register that is read next is one there is. *)
LEMMA RegNamed ==
  ASSUME TypeOK, Busy
  PROVE  at \in Slots /\ Reg \in Names
BY RegsFacts DEF TypeOK, Busy, Reg

(* What Dump adds to the list. *)
LEMMA PrintedGrows ==
  ASSUME TypeOK, Dump
  PROVE  LET line == [queue |-> at, reg |-> Reg, word |-> val] IN
         /\ printed \in Seq(Line) /\ printed' \in Seq(Line)
         /\ Len(printed) \in Nat /\ Len(printed') = Len(printed) + 1
         /\ DOMAIN printed = 1 .. Len(printed)
         /\ DOMAIN printed' = 1 .. Len(printed) + 1
         /\ \A i \in 1 .. Len(printed) : printed'[i] = printed[i]
         /\ printed'[Len(printed) + 1] = line
<1> DEFINE line == [queue |-> at, reg |-> Reg, word |-> val]
<1>1. line \in Line
  BY RegNamed DEF Dump, Busy, TypeOK, Line
<1>2. printed \in Seq(Line)
  BY DEF TypeOK, Line
<1>3. printed' = Append(printed, line)
  BY DEF Dump
<1> HIDE DEF line
<1>4. /\ printed' \in Seq(Line) /\ Len(printed') = Len(printed) + 1
      /\ \A i \in 1 .. Len(printed) : printed'[i] = printed[i]
      /\ printed'[Len(printed) + 1] = line
  BY <1>1, <1>2, <1>3, AppendProperties
<1>5. Len(printed) \in Nat /\ DOMAIN printed = 1 .. Len(printed)
  BY <1>2, LenProperties
<1>6. DOMAIN printed' = 1 .. Len(printed')
  BY <1>4, LenProperties
<1>7. QED
  BY <1>2, <1>4, <1>5, <1>6 DEF line

LEMMA TypeInit == Init => TypeOK
<1>1. 1 \in 1 .. Len(Regs) + 1
  BY RegsFacts
<1>2. Init => hqd \in Contents
  BY HqdAssumption DEF Init
<1>3. <<>> \in Seq([queue : Slots, reg : Names, word : ActiveWords \cup Words])
  OBVIOUS
<1>4. QED
  BY <1>1, <1>2, <1>3 DEF Init, TypeOK, Busy

(* Advance leaves the loops in a queue, or idle. *)
LEMMA AdvanceType ==
  ASSUME Advance
  PROVE  pc' \in {"test", "idle"} /\ (pc' = "test" => at' \in Slots)
BY DEF Advance

LEMMA TypeStep == TypeOK /\ [Next]_vars => TypeOK'
<1> SUFFICES ASSUME TypeOK, [Next]_vars PROVE TypeOK'
  OBVIOUS
<1>1. CASE Dispatch
  <2>1. pc' \in {"test", "idle"} /\ (pc' = "test" => at' \in Slots)
    BY <1>1 DEF Dispatch
  <2>2. printed' \in Seq([queue : Slots, reg : Names, word : ActiveWords \cup Words])
    BY <1>1 DEF Dispatch
  <2>3. pc = "idle" /\ UNCHANGED <<hqd, next, got>> /\ changed' = {}
    BY <1>1 DEF Dispatch
  <2>4. QED
    BY <2>1, <2>2, <2>3 DEF TypeOK, Busy
<1>2. CASE SrbmRead
  <2>1. at \in Slots /\ Reg \in Names
    BY <1>2, RegNamed DEF SrbmRead
  <2>2. hqd[at][Reg] \in ActiveWords \cup Words
    BY <2>1 DEF TypeOK, Contents
  <2>3. QED
    BY <1>2, <2>2 DEF SrbmRead, TypeOK, Busy
<1>3. CASE Test
  <2>1. UNCHANGED <<hqd, changed, printed>> /\ got' = FALSE
    BY <1>3 DEF Test
  <2>2. CASE val # {}
    <3>1. pc' = "dump" /\ next' = 1 /\ at' = at /\ at \in Slots
      BY <1>3, <2>2 DEF Test, TypeOK, Busy, Advance
    <3>2. 1 \in 1 .. Len(Regs) + 1 /\ 1 \in DOMAIN Regs
      BY RegsFacts
    <3>3. QED
      BY <2>1, <3>1, <3>2 DEF TypeOK, Busy
  <2>3. CASE val = {}
    <3>1. Advance /\ next' = next
      BY <1>3, <2>3 DEF Test
    <3>2. pc' \in {"test", "idle"} /\ (pc' = "test" => at' \in Slots)
      BY <3>1, AdvanceType
    <3>3. QED
      BY <2>1, <3>1, <3>2 DEF TypeOK, Busy
  <2>4. QED
    BY <2>2, <2>3
<1>4. CASE Dump
  <2>1. UNCHANGED <<hqd, changed>> /\ got' = FALSE /\ next' = next + 1
    BY <1>4 DEF Dump
  <2>2. printed' \in Seq([queue : Slots, reg : Names, word : ActiveWords \cup Words])
    BY <1>4, PrintedGrows DEF Line
  <2>3. next \in 1 .. Len(Regs) /\ Len(Regs) \in Nat
    BY <1>4, RegsFacts DEF Dump, TypeOK
  <2>4. next' \in 1 .. Len(Regs) + 1
    BY <2>1, <2>3
  <2>5. CASE MoreRegs
    <3>1. pc' = "dump" /\ at' = at /\ at \in Slots
      BY <1>4, <2>5 DEF Dump, TypeOK, Busy
    <3>2. next' \in DOMAIN Regs
      BY <2>1, <2>3, <2>5, RegsFacts DEF MoreRegs
    <3>3. QED
      BY <2>1, <2>2, <2>4, <3>1, <3>2 DEF TypeOK, Busy
  <2>6. CASE ~MoreRegs
    <3>1. pc' \in {"test", "idle"} /\ (pc' = "test" => at' \in Slots)
      BY <1>4, <2>6, AdvanceType DEF Dump
    <3>2. QED
      BY <2>1, <2>2, <2>4, <3>1 DEF TypeOK, Busy
  <2>7. QED
    BY <2>5, <2>6
<1>5. CASE ReadFails
  BY <1>5 DEF ReadFails, TypeOK, Busy
<1>6. CASE GpuRuns
  <2>1. PICK r \in Restless : \E w \in WordsOf(r[2]) :
          /\ hqd' = [hqd EXCEPT ![r[1]][r[2]] = w]
          /\ changed' = changed \cup {r[1]}
    BY <1>6 DEF GpuRuns
  <2>2. PICK w \in WordsOf(r[2]) : hqd' = [hqd EXCEPT ![r[1]][r[2]] = w]
    BY <2>1
  <2>3. r[1] \in Slots /\ r[2] \in Names /\ w \in ActiveWords \cup Words
    BY HqdAssumption DEF WordsOf
  <2>4. hqd' \in Contents
    BY <2>2, <2>3 DEF TypeOK, Contents
  <2>5. QED
    BY <1>6, <2>1, <2>3, <2>4 DEF GpuRuns, TypeOK, Busy, Reg
<1>7. CASE UNCHANGED vars
  BY <1>7 DEF vars, TypeOK, Busy, Reg
<1>8. QED
  BY <1>1, <1>2, <1>3, <1>4, <1>5, <1>6, <1>7 DEF Next, Step

(* Every variable of hqd_info keeps its type, for any loops and registers. *)
THEOREM DumpTypes == Spec => []TypeOK
  BY TypeInit, TypeStep, PTL DEF Spec

----------------------------------------------------------------------------
(***************************************************************************)
(* HqdDump: queues that hold still are shown as they are.                  *)
(***************************************************************************)

(* Lines are right, of queues that did not change. *)
SteadyLines ==
  \A i \in DOMAIN printed :
    printed[i].queue \notin changed =>
      /\ hqd[printed[i].queue]["CP_HQD_ACTIVE"] # {}
      /\ printed[i].word = hqd[printed[i].queue][printed[i].reg]

(* So is the word that was read, and the decision to dump the queue. *)
SteadyRead ==
  /\ Busy /\ got /\ at \notin changed => val = hqd[at][Reg]
  /\ pc = "dump" /\ at \notin changed => hqd[at]["CP_HQD_ACTIVE"] # {}

(* The loops are past q. *)
Passed(q) == \/ Busy /\ Before(q, at)
             \/ pc = "idle" /\ at \notin Slots

Shown(q) == \E i \in DOMAIN printed : printed[i].queue = q

(* No active queue was passed over. *)
SteadyPassed ==
  \A q \in Slots \ changed :
    Passed(q) /\ hqd[q]["CP_HQD_ACTIVE"] # {} => Shown(q)

SteadyInv == SteadyLines /\ SteadyRead /\ SteadyPassed

LEMMA AdvancePasses ==
  ASSUME Advance, at \in Slots, NEW q \in Slots, Passed(q)'
  PROVE  q = at \/ Before(q, at)
<1>1. CASE NextSlot(at) \in Slots
  <2>1. Before(q, NextSlot(at))
    BY <1>1 DEF Advance, Passed, Busy
  <2>2. QED
    BY <2>1, NextSlotFollows
<1>2. CASE NextSlot(at) \notin Slots
  <2>1. Before(q, NextSlot(at))
    BY <1>2, NextSlotEnds
  <2>2. QED
    BY <2>1, NextSlotFollows
<1>3. QED
  BY <1>1, <1>2

LEMMA SteadyInit == Init => SteadyInv
<1> SUFFICES ASSUME Init PROVE SteadyInv
  OBVIOUS
<1>1. SteadyLines /\ SteadyRead
  BY DEF Init, SteadyLines, SteadyRead, Busy
<1>2. \A q \in Slots : ~Passed(q)
  BY FirstSlot DEF Init, Passed, Busy
<1>3. QED
  BY <1>1, <1>2 DEF SteadyInv, SteadyPassed

LEMMA SteadyStep == TypeOK /\ SteadyInv /\ [Next]_vars => SteadyInv'
<1> SUFFICES ASSUME TypeOK, SteadyInv, [Next]_vars PROVE SteadyInv'
  OBVIOUS
<1>1. CASE Dispatch
  <2>1. /\ hqd' = hqd /\ changed' = {} /\ printed' = <<>> /\ at' = <<0, 0>>
        /\ got' = FALSE /\ pc' = IF <<0, 0>> \in Slots THEN "test" ELSE "idle"
    BY <1>1 DEF Dispatch, TypeOK
  <2>2. SteadyLines' /\ SteadyRead'
    BY <2>1 DEF SteadyLines, SteadyRead
  <2>3. \A q \in Slots : ~Passed(q)'
    BY <2>1, FirstSlot DEF Passed, Busy
  <2>4. QED
    BY <2>2, <2>3 DEF SteadyInv, SteadyPassed
<1>2. CASE SrbmRead
  <2>1. /\ UNCHANGED <<hqd, changed, pc, at, next, printed>>
        /\ val' = hqd[at][Reg]
    BY <1>2 DEF SrbmRead
  <2>2. Reg' = Reg
    BY <2>1 DEF Reg
  <2>3. QED
    BY <2>1, <2>2 DEF SteadyInv, SteadyLines, SteadyRead, SteadyPassed, Passed, Shown, Busy
<1>3. CASE Test
  <2>1. /\ pc = "test" /\ got /\ got' = FALSE /\ at \in Slots
        /\ UNCHANGED <<hqd, changed, printed>>
    BY <1>3 DEF Test, TypeOK, Busy
  <2>2. at \notin changed => val = hqd[at]["CP_HQD_ACTIVE"]
    BY <2>1 DEF SteadyInv, SteadyRead, Reg, Busy
  <2>3. SteadyLines'
    BY <2>1 DEF SteadyInv, SteadyLines
  <2>4. CASE val # {}
    <3>1. pc' = "dump" /\ at' = at
      BY <1>3, <2>4 DEF Test
    <3>2. SteadyRead'
      BY <2>1, <2>2, <2>4, <3>1 DEF SteadyRead
    <3>3. SteadyPassed'
      BY <2>1, <3>1 DEF SteadyInv, SteadyPassed, Passed, Shown, Busy
    <3>4. QED
      BY <2>3, <3>2, <3>3 DEF SteadyInv
  <2>5. CASE val = {}
    <3>1. Advance
      BY <1>3, <2>5 DEF Test
    <3>2. SteadyRead'
      BY <2>1, <3>1 DEF SteadyRead, Advance
    <3>3. ASSUME NEW q \in Slots, q \notin changed, Passed(q)',
                 hqd[q]["CP_HQD_ACTIVE"] # {}
          PROVE  Shown(q)
      <4>1. q # at
        BY <2>2, <2>5, <3>3
      <4>2. Before(q, at)
        BY <2>1, <3>1, <3>3, <4>1, AdvancePasses
      <4>3. QED
        BY <2>1, <3>3, <4>2 DEF SteadyInv, SteadyPassed, Passed, Busy
    <3>4. SteadyPassed'
      BY <2>1, <3>3 DEF SteadyPassed, Shown
    <3>5. QED
      BY <2>3, <3>2, <3>4 DEF SteadyInv
  <2>6. QED
    BY <2>4, <2>5
<1>4. CASE Dump
  <2>1. /\ pc = "dump" /\ got /\ got' = FALSE /\ at \in Slots
        /\ UNCHANGED <<hqd, changed>>
    BY <1>4 DEF Dump, TypeOK, Busy
  <2>2. /\ Len(printed) \in Nat
        /\ DOMAIN printed = 1 .. Len(printed)
        /\ DOMAIN printed' = 1 .. Len(printed) + 1
        /\ \A i \in 1 .. Len(printed) : printed'[i] = printed[i]
        /\ printed'[Len(printed) + 1] = [queue |-> at, reg |-> Reg, word |-> val]
    BY <1>4, PrintedGrows
  <2>3. at \notin changed => val = hqd[at][Reg] /\ hqd[at]["CP_HQD_ACTIVE"] # {}
    BY <2>1 DEF SteadyInv, SteadyRead, Busy
  <2>4. SteadyLines'
    <3>1. SUFFICES ASSUME NEW i \in 1 .. Len(printed) + 1,
                          printed'[i].queue \notin changed
                   PROVE  /\ hqd[printed'[i].queue]["CP_HQD_ACTIVE"] # {}
                          /\ printed'[i].word = hqd[printed'[i].queue][printed'[i].reg]
      BY <2>1, <2>2 DEF SteadyLines
    <3>2. CASE i \in 1 .. Len(printed)
      BY <2>2, <3>1, <3>2 DEF SteadyInv, SteadyLines
    <3>3. CASE i = Len(printed) + 1
      BY <2>2, <2>3, <3>1, <3>3
    <3>4. QED
      BY <2>2, <3>2, <3>3
  <2>5. \A q : Shown(q) => Shown(q)'
    BY <2>2 DEF Shown
  <2>6. \E i \in DOMAIN printed' : printed'[i].queue = at
    <3>1. Len(printed) + 1 \in DOMAIN printed'
      BY <2>2
    <3>2. printed'[Len(printed) + 1].queue = at
      BY <2>2
    <3>3. QED
      BY <3>1, <3>2
  <2>7. CASE MoreRegs
    <3>1. pc' = pc /\ at' = at
      BY <1>4, <2>7 DEF Dump
    <3>2. SteadyRead'
      BY <2>1, <2>3, <3>1 DEF SteadyRead
    <3>3. SteadyPassed'
      BY <2>1, <2>5, <3>1 DEF SteadyInv, SteadyPassed, Passed, Busy
    <3>4. QED
      BY <2>4, <3>2, <3>3 DEF SteadyInv
  <2>8. CASE ~MoreRegs
    <3>1. Advance
      BY <1>4, <2>8 DEF Dump
    <3>2. SteadyRead'
      BY <2>1, <3>1 DEF SteadyRead, Advance
    <3>3. ASSUME NEW q \in Slots, q \notin changed, Passed(q)',
                 hqd[q]["CP_HQD_ACTIVE"] # {}
          PROVE  Shown(q)'
      <4>1. CASE q = at
        BY <2>6, <4>1 DEF Shown
      <4>2. CASE Before(q, at)
        BY <2>1, <2>5, <3>3, <4>2 DEF SteadyInv, SteadyPassed, Passed, Busy
      <4>3. QED
        BY <2>1, <3>1, <3>3, <4>1, <4>2, AdvancePasses
    <3>4. SteadyPassed'
      BY <2>1, <3>3 DEF SteadyPassed
    <3>5. QED
      BY <2>4, <3>2, <3>4 DEF SteadyInv
  <2>9. QED
    BY <2>7, <2>8
<1>5. CASE ReadFails
  BY <1>5 DEF ReadFails, SteadyInv, SteadyLines, SteadyRead, SteadyPassed, Passed, Shown, Busy
<1>6. CASE GpuRuns
  <2>1. PICK r \in Restless : \E w \in WordsOf(r[2]) :
          /\ hqd' = [hqd EXCEPT ![r[1]][r[2]] = w]
          /\ changed' = changed \cup {r[1]}
    BY <1>6 DEF GpuRuns
  <2>2. \A q \in Slots : q \notin changed' => q \notin changed /\ hqd'[q] = hqd[q]
    BY <2>1 DEF TypeOK, Contents
  <2>3. UNCHANGED <<pc, at, next, got, val, printed>> /\ Reg' = Reg
    BY <1>6 DEF GpuRuns, Reg
  <2>4. \A i \in DOMAIN printed : printed[i].queue \in Slots
    <3>1. printed \in Seq(Line)
      BY DEF TypeOK, Line
    <3>2. \A i \in DOMAIN printed : printed[i] \in Line
      BY <3>1, LenProperties, ElementOfSeq
    <3>3. QED
      BY <3>2 DEF Line
  <2>5. SteadyLines'
    BY <2>2, <2>3, <2>4 DEF SteadyInv, SteadyLines
  <2>6. SteadyRead'
    BY <2>2, <2>3 DEF SteadyInv, SteadyRead, TypeOK, Busy
  <2>7. SteadyPassed'
    BY <2>2, <2>3 DEF SteadyInv, SteadyPassed, Passed, Shown, Busy
  <2>8. QED
    BY <2>5, <2>6, <2>7 DEF SteadyInv
<1>7. CASE UNCHANGED vars
  BY <1>7 DEF vars, SteadyInv, SteadyLines, SteadyRead, SteadyPassed, Passed, Shown, Busy, Reg
<1>8. QED
  BY <1>1, <1>2, <1>3, <1>4, <1>5, <1>6, <1>7 DEF Next, Step

LEMMA SteadyEnough == SteadyInv => SteadyShown
  BY DEF SteadyInv, SteadyLines, SteadyPassed, Passed, Shown, SteadyShown

(* Whatever else the GPU does, the queues that hold still during hqd_info  *)
(* are shown if and only if CP_HQD_ACTIVE is set, with their own words.    *)
THEOREM QueuesShown == Spec => []SteadyShown
<1>1. Spec => [](TypeOK /\ SteadyInv)
  BY TypeInit, TypeStep, SteadyInit, SteadyStep, PTL DEF Spec
<1>2. QED
  BY <1>1, SteadyEnough, PTL

----------------------------------------------------------------------------
(***************************************************************************)
(* HqdDump: the list is made of whole records.                             *)
(***************************************************************************)
LEMMA TimesGrows ==
  ASSUME NEW a \in Nat, NEW b \in Nat, NEW n \in Nat, a < b
  PROVE  a * n + n <= b * n
<1>1. PICK c \in Nat : b = a + 1 + c
  <2>1. b - a - 1 \in Nat
    OBVIOUS
  <2>2. QED
    BY <2>1
<1>2. b * n = a * n + n + c * n
  BY <1>1
<1>3. c * n >= 0 /\ a * n \in Int /\ b * n \in Int /\ c * n \in Int
  OBVIOUS
<1>4. QED
  BY <1>2, <1>3

LEMMA OneRemainder ==
  ASSUME NEW a \in Nat, NEW b \in Nat, NEW n \in Nat,
         NEW r \in 0 .. n - 1, NEW s \in 0 .. n - 1,
         a * n + r = b * n + s
  PROVE  r = s
<1>1. a * n \in Int /\ b * n \in Int
  OBVIOUS
<1>2. CASE a < b
  <2>1. a * n + n <= b * n
    BY <1>2, TimesGrows
  <2>2. QED
    BY <1>1, <2>1
<1>3. CASE b < a
  <2>1. b * n + n <= a * n
    BY <1>3, TimesGrows
  <2>2. QED
    BY <1>1, <2>1
<1>4. CASE a = b
  BY <1>1, <1>4
<1>5. QED
  BY <1>2, <1>3, <1>4

LEMMA Division ==
  ASSUME NEW m \in Nat, NEW n \in Nat \ {0}
  PROVE  /\ m = (m \div n) * n + (m % n)
         /\ m \div n \in Nat /\ m % n \in 0 .. n - 1
OBVIOUS

(* The place in a record of the next line. *)
LEMMA NextRemainder ==
  ASSUME NEW m \in Nat, NEW n \in Nat \ {0}
  PROVE  (m + 1) % n = IF (m % n) + 1 < n THEN (m % n) + 1 ELSE 0
<1>1. PICK d \in Nat, r \in 0 .. n - 1 : m = d * n + r /\ r = m % n
  BY Division
<1>2. PICK e \in Nat, s \in 0 .. n - 1 : m + 1 = e * n + s /\ s = (m + 1) % n
  <2>1. m + 1 \in Nat
    OBVIOUS
  <2>2. QED
    BY <2>1, Division
<1>3. d * n \in Int /\ e * n \in Int
  OBVIOUS
<1>4. CASE r + 1 < n
  <2>1. d * n + (r + 1) = e * n + s
    BY <1>1, <1>2, <1>3
  <2>2. r + 1 \in 0 .. n - 1
    BY <1>4
  <2>3. r + 1 = s
    BY <2>1, <2>2, OneRemainder
  <2>4. QED
    BY <1>1, <1>2, <1>4, <2>3
<1>5. CASE ~(r + 1 < n)
  <2>1. (d + 1) * n = d * n + n
    OBVIOUS
  <2>2. (d + 1) * n + 0 = e * n + s
    BY <1>1, <1>2, <1>3, <1>5, <2>1
  <2>3. d + 1 \in Nat /\ 0 \in 0 .. n - 1
    OBVIOUS
  <2>4. 0 = s
    BY <2>2, <2>3, OneRemainder
  <2>5. QED
    BY <1>1, <1>2, <1>5, <2>4
<1>6. QED
  BY <1>4, <1>5

(* Registers are in their places, and queues in order. *)
WholeLines ==
  /\ \A i \in DOMAIN printed : printed[i].reg = Regs[Place(i)]
  /\ \A i \in 2 .. Len(printed) :
       IF Place(i) = 1
       THEN Before(printed[i - 1].queue, printed[i].queue)
       ELSE printed[i - 1].queue = printed[i].queue

(* The position in hqdRegs is the place in the record. *)
WholePlace ==
  /\ pc \in {"idle", "test"} => Len(printed) % Len(Regs) = 0
  /\ pc = "dump" => Len(printed) % Len(Regs) = next - 1

(* The last line is of this queue or of one before. *)
WholeLast ==
  Busy /\ printed # <<>> =>
    IF pc = "dump" /\ next > 1 THEN printed[Len(printed)].queue = at
    ELSE Before(printed[Len(printed)].queue, at)

WholeInv == WholeLines /\ WholePlace /\ WholeLast

LEMMA WholeInit == Init => WholeInv
<1> SUFFICES ASSUME Init PROVE WholeInv
  OBVIOUS
<1>1. 0 % Len(Regs) = 0
  BY RegsFacts
<1>2. QED
  BY <1>1 DEF Init, WholeInv, WholeLines, WholePlace, WholeLast, Busy

LEMMA WholeStep == TypeOK /\ WholeInv /\ [Next]_vars => WholeInv'
<1> SUFFICES ASSUME TypeOK, WholeInv, [Next]_vars PROVE WholeInv'
  OBVIOUS
<1> USE DEF WholeInv
<1>1. CASE Dispatch
  <2>1. printed' = <<>> /\ pc' \in {"idle", "test"}
    BY <1>1 DEF Dispatch
  <2>2. 0 % Len(Regs) = 0
    BY RegsFacts
  <2>3. QED
    BY <2>1, <2>2 DEF WholeLines, WholePlace, WholeLast
<1>2. CASE SrbmRead
  BY <1>2 DEF SrbmRead, WholeLines, WholePlace, WholeLast, Busy
<1>3. CASE Test
  <2>1. pc = "test" /\ printed' = printed /\ at \in Slots
    BY <1>3 DEF Test, TypeOK, Busy
  <2>2. WholeLines'
    BY <2>1 DEF WholeLines
  <2>3. CASE val # {}
    <3>1. pc' = "dump" /\ next' = 1 /\ at' = at
      BY <1>3, <2>3 DEF Test
    <3>2. QED
      BY <2>1, <2>2, <3>1 DEF WholePlace, WholeLast, Busy
  <2>4. CASE val = {}
    <3>1. Advance
      BY <1>3, <2>4 DEF Test
    <3>2. pc' \in {"test", "idle"} /\ at' = NextSlot(at)
      BY <3>1 DEF Advance
    <3>3. WholePlace'
      BY <2>1, <3>2 DEF WholePlace
    <3>4. WholeLast'
      <4>1. SUFFICES ASSUME printed # <<>>
                     PROVE  Before(printed[Len(printed)].queue, NextSlot(at))
        BY <2>1, <3>2 DEF WholeLast
      <4>2. Before(printed[Len(printed)].queue, at)
        BY <2>1, <4>1 DEF WholeLast, Busy
      <4>3. printed[Len(printed)].queue \in Slots
        <5>1. printed \in Seq(Line)
          BY DEF TypeOK, Line
        <5>2. Len(printed) \in 1 .. Len(printed)
          BY <4>1, <5>1, LenProperties, EmptySeq
        <5>3. printed[Len(printed)] \in Line
          BY <5>1, <5>2, ElementOfSeq
        <5>4. QED
          BY <5>3 DEF Line
      <4>4. QED
        BY <2>1, <4>2, <4>3, NextSlotFollows
    <3>5. QED
      BY <2>2, <3>3, <3>4
  <2>5. QED
    BY <2>3, <2>4
<1>4. CASE Dump
  <2> DEFINE n == Len(printed)
  <2>1. pc = "dump" /\ next' = next + 1 /\ at \in Slots /\ Reg = Regs[next]
    BY <1>4 DEF Dump, TypeOK, Busy, Reg
  <2>2. /\ n \in Nat
        /\ DOMAIN printed = 1 .. n
        /\ Len(printed') = n + 1
        /\ DOMAIN printed' = 1 .. n + 1
        /\ \A i \in 1 .. n : printed'[i] = printed[i]
        /\ printed'[n + 1] = [queue |-> at, reg |-> Reg, word |-> val]
        /\ printed \in Seq(Line)
    BY <1>4, PrintedGrows
  <2>3. next \in 1 .. Len(Regs) /\ Len(Regs) \in Nat \ {0}
    BY <2>1, RegsFacts DEF TypeOK
  <2>4. n % Len(Regs) = next - 1
    BY <2>1 DEF WholePlace
  <2>5. Place(n + 1) = next
    BY <2>2, <2>3, <2>4 DEF Place
  <2>6. (n + 1) % Len(Regs) = IF MoreRegs THEN next ELSE 0
    <3>1. (n + 1) % Len(Regs) = IF (n % Len(Regs)) + 1 < Len(Regs)
                                THEN (n % Len(Regs)) + 1 ELSE 0
      BY <2>2, <2>3, NextRemainder
    <3>2. (n % Len(Regs)) + 1 = next
      BY <2>3, <2>4
    <3>3. QED
      BY <3>1, <3>2 DEF MoreRegs
  <2>7. n > 0 => IF next > 1 THEN printed[n].queue = at ELSE Before(printed[n].queue, at)
    BY <2>1, <2>2, EmptySeq DEF WholeLast, Busy
  <2>8. WholeLines'
    <3>1. \A i \in 1 .. n + 1 : printed'[i].reg = Regs[Place(i)]
      <4>1. SUFFICES ASSUME NEW i \in 1 .. n + 1
                     PROVE  printed'[i].reg = Regs[Place(i)]
        OBVIOUS
      <4>2. CASE i \in 1 .. n
        BY <2>2, <4>2 DEF WholeLines
      <4>3. CASE i = n + 1
        BY <2>1, <2>2, <2>5, <4>3
      <4>4. QED
        BY <2>2, <4>2, <4>3
    <3>2. ASSUME NEW i \in 2 .. n + 1
          PROVE  IF Place(i) = 1
                 THEN Before(printed'[i - 1].queue, printed'[i].queue)
                 ELSE printed'[i - 1].queue = printed'[i].queue
      <4>1. CASE i \in 2 .. n
        <5>1. i \in 1 .. n /\ i - 1 \in 1 .. n
          BY <2>2, <4>1
        <5>2. printed'[i] = printed[i] /\ printed'[i - 1] = printed[i - 1]
          BY <2>2, <5>1
        <5>3. QED
          BY <4>1, <5>2 DEF WholeLines
      <4>2. CASE i = n + 1
        <5>1. n \in 1 .. n /\ i - 1 = n
          BY <2>2, <4>2
        <5>2. printed'[i].queue = at /\ printed'[i - 1].queue = printed[n].queue
          BY <2>2, <4>2, <5>1
        <5>3. Place(i) = next
          BY <2>5, <4>2
        <5>4. QED
          BY <2>3, <2>7, <5>1, <5>2, <5>3
      <4>3. QED
        BY <2>2, <4>1, <4>2
    <3>3. QED
      BY <2>2, <3>1, <3>2 DEF WholeLines, Place
  <2>9. CASE MoreRegs
    <3>1. pc' = "dump" /\ at' = at
      BY <1>4, <2>1, <2>9 DEF Dump
    <3>2. WholePlace'
      BY <2>1, <2>2, <2>3, <2>6, <2>9, <3>1 DEF WholePlace
    <3>3. WholeLast'
      BY <2>1, <2>2, <2>3, <3>1 DEF WholeLast
    <3>4. QED
      BY <2>8, <3>2, <3>3
  <2>10. CASE ~MoreRegs
    <3>1. pc' \in {"test", "idle"} /\ at' = NextSlot(at)
      BY <1>4, <2>10 DEF Dump, Advance
    <3>2. WholePlace'
      BY <2>2, <2>6, <2>10, <3>1 DEF WholePlace
    <3>3. Before(at, NextSlot(at))
      BY <2>1, NextSlotFollows
    <3>4. WholeLast'
      BY <2>2, <3>1, <3>3 DEF WholeLast
    <3>5. QED
      BY <2>8, <3>2, <3>4
  <2>11. QED
    BY <2>9, <2>10
<1>5. CASE ReadFails
  BY <1>5 DEF ReadFails, WholeLines, WholePlace, WholeLast, Busy
<1>6. CASE GpuRuns
  BY <1>6 DEF GpuRuns, WholeLines, WholePlace, WholeLast, Busy
<1>7. CASE UNCHANGED vars
  BY <1>7 DEF vars, WholeLines, WholePlace, WholeLast, Busy
<1>8. QED
  BY <1>1, <1>2, <1>3, <1>4, <1>5, <1>6, <1>7 DEF Next, Step

LEMMA WholeEnough == WholeInv => WholeRecords
  BY DEF WholeInv, WholeLines, WholePlace, WholeRecords

(* The dump is a list of whole records in the order of the queues, for any *)
(* list of registers, however the command ends.                            *)
THEOREM RecordsWhole == Spec => []WholeRecords
<1>1. Spec => [](TypeOK /\ WholeInv)
  BY TypeInit, TypeStep, WholeInit, WholeStep, PTL DEF Spec
<1>2. QED
  BY <1>1, WholeEnough, PTL

----------------------------------------------------------------------------
(***************************************************************************)
(* HqdAccess: the accesses implement the loops.                            *)
(***************************************************************************)

(* Whatever is selected is a word, and the arguments of srbmClear select   *)
(* zero.                                                                   *)
LEMMA Selects ==
  ASSUME NEW K, NEW fields, NEW sel
  PROVE  /\ SelectWord(fields, sel) \in Word
         /\ SelectWord(fields, [k \in K |-> Zero]) = Zero
<1>1. \A k \in K : And(Shl(Zero, fields[k].shift), fields[k].mask) = Zero
  BY DEF And, Shl, Zero
<1>2. QED
  BY <1>1 DEF SelectWord, And, Shl, Zero, Word

(* In fields that do not overlap, what fits its field is kept.             *)
LEMMA FieldKept ==
  ASSUME NEW K, NEW fields, NEW sel, DOMAIN sel = K,
         \A j, l \in K : j # l => fields[j].mask \cap fields[l].mask = {},
         NEW k \in K, Fits(sel[k], fields[k])
  PROVE  ExtractField(SelectWord(fields, sel), fields[k]) = sel[k]
<1> DEFINE mine == Shl(sel[k], fields[k].shift)
           part(l) == And(Shl(sel[l], fields[l].shift), fields[l].mask)
<1>1. mine \subseteq fields[k].mask
  BY DEF Fits, Inside
<1>2. And(part(k), fields[k].mask) = mine /\ \A l \in K : l # k => And(part(l), fields[k].mask) = {}
  BY <1>1 DEF And
<1>3. \A b : b \in SelectWord(fields, sel) <=> \E l \in K : b \in part(l)
  BY DEF SelectWord
<1> HIDE DEF part
<1>4. And(SelectWord(fields, sel), fields[k].mask) = mine
  BY <1>2, <1>3 DEF And
<1>5. QED
  BY <1>1, <1>4 DEF ExtractField, Fits, Held, And

(* The register that answers is that of the queue whose numbers were put   *)
(* in SRBM_GFX_CNTL.                                                       *)
LEMMA LoadsOwn ==
  ASSUME NEW q \in Slots, NEW name
  PROVE  Load(SelectWord(CntlFields, Args(q)), name) = hqd[q][name]
<1> DEFINE word == SelectWord(CntlFields, Args(q))
<1>1. DOMAIN Args(q) = SelFields
  BY DEF Args, Numbers, SelFields
<1>2. \A k \in SelFields : ExtractField(word, CntlFields[k]) = Args(q)[k]
  <2>1. SUFFICES ASSUME NEW k \in SelFields
                 PROVE  ExtractField(word, CntlFields[k]) = Args(q)[k]
    OBVIOUS
  <2>2. \A j, l \in SelFields : j # l => CntlFields[j].mask \cap CntlFields[l].mask = {}
    BY HqdAccessAssumption
  <2>3. Fits(Args(q)[k], CntlFields[k])
    BY HqdAccessAssumption
  <2>4. QED
    BY <1>1, <2>2, <2>3, FieldKept
<1>3. /\ CntlFields.PIPEID = CntlFields["PIPEID"] /\ CntlFields.MEID = CntlFields["MEID"]
      /\ CntlFields.VMID = CntlFields["VMID"] /\ CntlFields.QUEUEID = CntlFields["QUEUEID"]
  OBVIOUS
<1> HIDE DEF word
<1>4. Selected(word) = Args(q)
  <2>1. /\ ExtractField(word, CntlFields["PIPEID"]) = Args(q)["PIPEID"]
        /\ ExtractField(word, CntlFields["MEID"]) = Args(q)["MEID"]
        /\ ExtractField(word, CntlFields["VMID"]) = Args(q)["VMID"]
        /\ ExtractField(word, CntlFields["QUEUEID"]) = Args(q)["QUEUEID"]
    BY <1>2 DEF SelFields
  <2>2. Args(q) = [PIPEID |-> Args(q)["PIPEID"], MEID |-> Args(q)["MEID"],
                   VMID |-> Args(q)["VMID"], QUEUEID |-> Args(q)["QUEUEID"]]
    BY DEF Args, Numbers
  <2>3. QED
    BY <1>3, <2>1, <2>2 DEF Selected
<1>5. (CHOOSE r \in Slots : Args(r) = Args(q)) = q
  BY HqdAccessAssumption
<1>6. Load(word, name) = hqd[q][name]
  BY <1>4, <1>5 DEF Load
<1>7. QED
  BY <1>6 DEF word

(* While the register is accessed, the loops' queue is selected. *)
AccessInv ==
  /\ AccessTypeOK
  /\ SelectionCleared
  /\ stage = "access" => selector = SelectWord(CntlFields, SelectArgs(at))

(* Every step of hqd_info is a step of the loops, or none of theirs. *)
LEMMA AccessImplements == AccessInv /\ [AccessNext]_accessVars => [Next]_vars
<1> SUFFICES ASSUME AccessInv, [AccessNext]_accessVars PROVE [Next]_vars
  OBVIOUS
<1>1. CASE Select
  BY <1>1 DEF Select
<1>2. CASE Access
  <2>1. /\ Busy /\ stage = "access" /\ val' = Load(selector, Reg) /\ got' = TRUE
        /\ UNCHANGED <<hqd, changed, pc, at, next, printed>>
    BY <1>2 DEF Access
  <2>2. at \in Slots /\ ~got
    BY <2>1 DEF AccessInv, AccessTypeOK, TypeOK
  <2>3. selector = SelectWord(CntlFields, Args(at))
    BY <2>1 DEF AccessInv, SelectArgs
  <2>4. Load(selector, Reg) = hqd[at][Reg]
    BY <2>2, <2>3, LoadsOwn
  <2>5. SrbmRead
    BY <2>1, <2>2, <2>4 DEF SrbmRead
  <2>6. QED
    BY <2>5 DEF Next, Step
<1>3. CASE Clear
  BY <1>3 DEF Clear, Next, Step
<1>4. CASE Unwind
  BY <1>4 DEF Unwind, Next
<1>5. CASE AccessFails
  BY <1>5 DEF AccessFails
<1>6. CASE Dies
  BY <1>6 DEF Dies, Next
<1>7. CASE Dispatch \/ GpuRuns
  BY <1>7 DEF Next
<1>8. CASE UNCHANGED accessVars
  BY <1>8 DEF accessVars
<1>9. QED
  BY <1>1, <1>2, <1>3, <1>4, <1>5, <1>6, <1>7, <1>8 DEF AccessNext, AccessStep

LEMMA AccessStart == AccessInit => AccessInv
<1>1. AccessInit => TypeOK
  BY TypeInit DEF AccessInit
<1>2. Zero \in Word
  BY DEF Zero, Word
<1>3. QED
  BY <1>1, <1>2 DEF AccessInit, AccessInv, AccessTypeOK, SelectionCleared, Init

LEMMA AccessStepKeeps == AccessInv /\ [AccessNext]_accessVars => AccessInv'
<1> SUFFICES ASSUME AccessInv, [AccessNext]_accessVars PROVE AccessInv'
  OBVIOUS
<1>1. TypeOK'
  BY AccessImplements, TypeStep DEF AccessInv, AccessTypeOK
<1>2. ClearWord = Zero
  BY Selects DEF ClearWord
<1>3. \A w : w = SelectWord(CntlFields, SelectArgs(at)) => w \in Word
  BY Selects
<1>4. Zero \in Word
  BY DEF Zero, Word
<1>5. CASE Select
  <2>1. /\ Busy /\ UNCHANGED <<hqd, changed, pc, at, next, got, val, printed>>
        /\ selector' = SelectWord(CntlFields, SelectArgs(at))
        /\ stage = "select" /\ stage' = "access"
    BY <1>5 DEF Select, vars
  <2>2. SelectArgs(at)' = SelectArgs(at)
    BY <2>1 DEF SelectArgs, Args, Numbers
  <2>3. selector' \in Word
    BY <1>3, <2>1
  <2>4. QED
    BY <1>1, <2>1, <2>2, <2>3 DEF AccessInv, AccessTypeOK, SelectionCleared, Busy
<1>6. CASE Access
  BY <1>1, <1>6 DEF Access, AccessInv, AccessTypeOK, SelectionCleared, Busy
<1>7. CASE Clear
  <2>1. stage' = "select" /\ selector' = Zero /\ got' = FALSE
    BY <1>2, <1>7 DEF Clear, Test, Dump
  <2>2. QED
    BY <1>1, <1>4, <2>1 DEF AccessInv, AccessTypeOK, SelectionCleared
<1>8. CASE Unwind
  <2>1. stage = "unwind" /\ stage' = "select" /\ selector' = Zero /\ got' = got
    BY <1>2, <1>8 DEF Unwind, ReadFails
  <2>2. QED
    BY <1>1, <1>4, <2>1 DEF AccessInv, AccessTypeOK, SelectionCleared
<1>9. CASE AccessFails
  BY <1>1, <1>9 DEF AccessFails, vars, AccessInv, AccessTypeOK, SelectionCleared, Busy
<1>10. CASE Dies
  <2>1. UNCHANGED <<selector, stage, got, at>> /\ pc' = "terminated"
    BY <1>10 DEF Dies, ReadFails
  <2>2. SelectArgs(at)' = SelectArgs(at)
    BY <2>1 DEF SelectArgs, Args, Numbers
  <2>3. QED
    BY <1>1, <2>1, <2>2 DEF AccessInv, AccessTypeOK, SelectionCleared
<1>11. CASE Dispatch /\ UNCHANGED <<selector, stage>>
  <2>1. pc = "idle" /\ got' = got /\ UNCHANGED <<selector, stage>>
    BY <1>11 DEF Dispatch
  <2>2. stage = "select"
    BY <2>1 DEF AccessInv, AccessTypeOK
  <2>3. QED
    BY <1>1, <2>1, <2>2 DEF AccessInv, AccessTypeOK, SelectionCleared
<1>12. CASE GpuRuns /\ UNCHANGED <<selector, stage>>
  <2>1. UNCHANGED <<selector, stage, got, at, pc>>
    BY <1>12 DEF GpuRuns
  <2>2. SelectArgs(at)' = SelectArgs(at)
    BY <2>1 DEF SelectArgs, Args, Numbers
  <2>3. QED
    BY <1>1, <2>1, <2>2 DEF AccessInv, AccessTypeOK, SelectionCleared
<1>13. CASE UNCHANGED accessVars
  <2>1. UNCHANGED <<selector, stage, got, at, pc>>
    BY <1>13 DEF accessVars, vars
  <2>2. SelectArgs(at)' = SelectArgs(at)
    BY <2>1 DEF SelectArgs, Args, Numbers
  <2>3. QED
    BY <1>1, <2>1, <2>2 DEF AccessInv, AccessTypeOK, SelectionCleared
<1>14. QED
  BY <1>5, <1>6, <1>7, <1>8, <1>9, <1>10, <1>11, <1>12, <1>13
  DEF AccessNext, AccessStep

LEMMA AccessAlways == AccessSpec => []AccessInv
  BY AccessStart, AccessStepKeeps, PTL DEF AccessSpec

(* The types of HqdAccess, and the place of the loops at each stage.       *)
THEOREM AccessTypes == AccessSpec => []AccessTypeOK
<1>1. AccessInv => AccessTypeOK
  BY DEF AccessInv
<1>2. QED
  BY <1>1, AccessAlways, PTL

(* hqd_info leaves no queue selected, wherever an access threw.            *)
THEOREM NothingSelected == AccessSpec => []SelectionCleared
<1>1. AccessInv => SelectionCleared
  BY DEF AccessInv
<1>2. QED
  BY <1>1, AccessAlways, PTL

(* The accesses implement the loops, so that what is proved of HqdDump is  *)
(* true of the accesses: every read answers for the queue it is about.     *)
THEOREM DumpImplemented == AccessSpec => HqdSpec
<1>1. AccessInit => Init
  BY DEF AccessInit
<1>2. QED
  BY <1>1, AccessAlways, AccessImplements, PTL DEF AccessSpec, HqdSpec, Spec

(* So the dump that is made of accesses shows the queues that hold still,  *)
(* in whole records.                                                       *)
THEOREM AccessShows == AccessSpec => []SteadyShown /\ []WholeRecords
  BY DumpImplemented, QueuesShown, RecordsWhole DEF HqdSpec
=============================================================================
