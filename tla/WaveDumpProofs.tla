---------------------------- MODULE WaveDumpProofs ----------------------------
(***************************************************************************)
(* Theorems about WaveDump, for GPUs of any shape: a wave command reads    *)
(* every unit once, at a place of its own, and what it prints of the units *)
(* that hold still is right.                                               *)
(***************************************************************************)
EXTENDS WaveDump, SequenceTheorems, FiniteSetTheorems, FunctionTheorems, TLAPS

Reading(u) == [unit |-> u, offset |-> Offset(u), record |-> file[Offset(u)]]

LEMMA OffsetType == \A u : Offset(u) \in SUBSET Nat
<1>1. \A i : Byte(i) \in SUBSET Nat
  BY DEF Byte
<1>2. ASSUME NEW s \in SUBSET Nat, NEW n \in Nat PROVE Shift(s, n) \in SUBSET Nat
  BY DEF Shift
<1>3. QED
  BY <1>1, <1>2 DEF Offset

LEMMA ReadingType ==
  ASSUME TypeOK, NEW u \in Units(shape)
  PROVE  Reading(u) \in Wave
<1>1. file[Offset(u)] \in Records
  BY DEF TypeOK
<1>2. QED
  BY <1>1, OffsetType DEF Reading, Wave

(* What Fill adds to the vector. *)
LEMMA WavesGrow ==
  ASSUME TypeOK, Fill
  PROVE  \E u \in todo :
           /\ \A v \in todo : u = v \/ Before(u, v)
           /\ u \in Units(shape) /\ todo' = todo \ {u}
           /\ waves' \in Seq(Wave)
           /\ Len(waves) \in Nat /\ Len(waves') = Len(waves) + 1
           /\ DOMAIN waves = 1 .. Len(waves) /\ DOMAIN waves' = 1 .. Len(waves) + 1
           /\ \A i \in 1 .. Len(waves) : waves'[i] = waves[i]
           /\ waves'[Len(waves) + 1] = Reading(u)
<1>1. PICK u \in todo : /\ \A v \in todo : u = v \/ Before(u, v)
                        /\ waves' = Append(waves, Reading(u))
                        /\ todo' = todo \ {u}
  BY DEF Fill, Reading
<1>2. u \in Units(shape) /\ waves \in Seq(Wave)
  BY DEF TypeOK
<1>3. PICK w \in Wave : w = Reading(u)
  BY <1>2, ReadingType
<1>4. waves' = Append(waves, w)
  BY <1>1, <1>3
<1>5. /\ waves' \in Seq(Wave) /\ Len(waves') = Len(waves) + 1
      /\ \A i \in 1 .. Len(waves) : waves'[i] = waves[i]
      /\ waves'[Len(waves) + 1] = w
  BY <1>2, <1>4, AppendProperties
<1>6. /\ Len(waves) \in Nat /\ DOMAIN waves = 1 .. Len(waves)
      /\ DOMAIN waves' = 1 .. Len(waves')
  BY <1>2, <1>5, LenProperties
<1>7. QED
  BY <1>1, <1>2, <1>3, <1>5, <1>6

(* What is printed are records that were read. *)
LEMMA LinesType ==
  ASSUME TypeOK
  PROVE  /\ DOMAIN Lines \subseteq DOMAIN waves
         /\ DOMAIN waves \subseteq Nat /\ Len(waves) \in Nat
         /\ Lines \in [DOMAIN Lines -> Wave]
<1>1. waves \in Seq(Wave)
  BY DEF TypeOK
<1>2. Len(waves) \in Nat /\ DOMAIN waves = 1 .. Len(waves)
  BY <1>1, LenProperties
<1>3. \A i \in DOMAIN waves : waves[i] \in Wave
  BY <1>1, <1>2, ElementOfSeq
<1>4. QED
  BY <1>2, <1>3 DEF Lines

LEMMA TypeInit == Init => TypeOK
  BY DEF Init, TypeOK, NothingPrinted

LEMMA TypeStep == TypeOK /\ [Next]_vars => TypeOK'
<1> SUFFICES ASSUME TypeOK, [Next]_vars PROVE TypeOK'
  OBVIOUS
<1>1. UNCHANGED shape => Wave' = Wave
  BY DEF Wave, Units
<1>2. CASE Dispatch
  <2>1. out' = NothingPrinted /\ waves' = <<>> /\ changed' = {} /\ pc' = "open"
        /\ cmd' \in {"wave_info", "wave_priority"} /\ UNCHANGED <<shape, file, fd, todo>>
    BY <1>2 DEF Dispatch, gpu
  <2>2. QED
    BY <2>1 DEF TypeOK, NothingPrinted
<1>3. CASE Open
  BY <1>1, <1>3 DEF Open, gpu, TypeOK
<1>4. CASE Fill
  <2>1. waves' \in Seq(Wave) /\ todo' \subseteq todo
    BY <1>4, WavesGrow
  <2>2. UNCHANGED <<shape, file, changed, cmd, pc, fd, out>>
    BY <1>4 DEF Fill, gpu
  <2>3. QED
    BY <1>1, <2>1, <2>2 DEF TypeOK
<1>5. CASE Return
  BY <1>1, <1>5 DEF Return, gpu, TypeOK
<1>6. CASE Unwind
  <2>1. /\ waves' = <<>> /\ fd' = "closed" /\ pc' = "terminated"
        /\ UNCHANGED <<shape, file, changed, cmd, todo, out>>
    BY <1>6 DEF Unwind, gpu
  <2>2. QED
    BY <1>1, <2>1 DEF TypeOK
<1>7. CASE PrintWaves
  <2>1. /\ out' = [lines |-> Lines, total |-> Len(waves)] /\ pc' = "idle"
        /\ UNCHANGED <<shape, file, changed, cmd, fd, todo, waves>>
    BY <1>7 DEF PrintWaves, gpu
  <2>2. /\ out'.lines \in [DOMAIN out'.lines -> Wave] /\ DOMAIN out'.lines \subseteq Nat
        /\ out'.total \in Nat /\ out' = [lines |-> out'.lines, total |-> out'.total]
    BY <2>1, LinesType
  <2>3. QED
    BY <1>1, <2>1, <2>2 DEF TypeOK
<1>8. CASE DivideByZero
  BY <1>1, <1>8 DEF DivideByZero, gpu, TypeOK
<1>9. CASE OpenFails \/ FillFails
  BY <1>1, <1>9 DEF OpenFails, FillFails, gpu, TypeOK
<1>10. CASE GpuRuns
  <2>1. PICK off \in DOMAIN file, r \in Records :
          file' = [file EXCEPT ![off] = r] /\ changed' = changed \cup {off}
    BY <1>10 DEF GpuRuns
  <2>2. DOMAIN file' = DOMAIN file
        /\ file' \in [{Offset(u) : u \in Units(shape)} -> Records]
        /\ changed' \subseteq DOMAIN file'
    BY <2>1 DEF TypeOK
  <2>3. UNCHANGED <<shape, cmd, pc, fd, todo, waves, out>>
    BY <1>10 DEF GpuRuns
  <2>4. QED
    BY <1>1, <2>2, <2>3 DEF TypeOK
<1>11. CASE UNCHANGED vars
  BY <1>1, <1>11 DEF vars, TypeOK
<1>12. QED
  BY <1>2, <1>3, <1>4, <1>5, <1>6, <1>7, <1>8, <1>9, <1>10, <1>11 DEF Next, Step

(* Every variable of the wave commands keeps its type, whatever the shape. *)
THEOREM WaveTypes == Spec => []TypeOK
  BY TypeInit, TypeStep, PTL DEF Spec

(* getWaveInfo holds amdgpu_wave only while it reads, however it ends.     *)
THEOREM WaveFileClosed == Spec => []FileClosed
<1>1. Init => FileClosed
  BY DEF Init, FileClosed
<1>2. FileClosed /\ [Next]_vars => FileClosed'
  BY DEF FileClosed, Next, Step, vars, Dispatch, Open, Fill, Return, Unwind,
         PrintWaves, DivideByZero, OpenFails, FillFails, GpuRuns
<1>3. QED
  BY <1>1, <1>2, PTL DEF Spec

----------------------------------------------------------------------------
(***************************************************************************)
(* What has been read.                                                     *)
(***************************************************************************)

(* Every unit was read once, at its place; one that holds still, as it is. *)
ReadOnce  == \A i, j \in DOMAIN waves : waves[i].unit = waves[j].unit => i = j
ReadPlace == \A i \in DOMAIN waves : waves[i].offset = Offset(waves[i].unit)
ReadRight == \A i \in DOMAIN waves :
               Offset(waves[i].unit) \notin changed
                 => waves[i].record = file[Offset(waves[i].unit)]

(* The loops visit the units that were not read yet. *)
ReadAll ==
  /\ pc = "open" => waves = <<>>
  /\ pc = "fill" => \A u \in Units(shape) :
                      u \notin todo <=> \E i \in DOMAIN waves : waves[i].unit = u
  /\ pc = "print" => \A u \in Units(shape) : \E i \in DOMAIN waves : waves[i].unit = u

ReadInv == ReadOnce /\ ReadPlace /\ ReadRight /\ ReadAll

LEMMA ReadInit == Init => ReadInv
  BY DEF Init, ReadInv, ReadOnce, ReadPlace, ReadRight, ReadAll

LEMMA ReadStep ==
  ASSUME TypeOK, ReadInv, [Next]_vars
  PROVE  ReadInv'
<1> USE DEF ReadInv
<1>1. CASE Dispatch
  BY <1>1 DEF Dispatch, ReadOnce, ReadPlace, ReadRight, ReadAll
<1>2. CASE Open
  <2>1. waves = <<>> /\ waves' = <<>> /\ todo' = Units(shape) /\ pc' = "fill" /\ shape' = shape
    BY <1>2 DEF Open, gpu, ReadAll
  <2>2. QED
    BY <2>1 DEF ReadOnce, ReadPlace, ReadRight, ReadAll
<1>3. CASE Fill
  <2>1. PICK u \in todo :
           /\ u \in Units(shape) /\ todo' = todo \ {u}
           /\ Len(waves) \in Nat
           /\ DOMAIN waves = 1 .. Len(waves) /\ DOMAIN waves' = 1 .. Len(waves) + 1
           /\ \A i \in 1 .. Len(waves) : waves'[i] = waves[i]
           /\ waves'[Len(waves) + 1] = Reading(u)
    BY <1>3, WavesGrow
  <2> DEFINE n == Len(waves)
  <2>2. /\ n \in Nat /\ DOMAIN waves = 1 .. n /\ DOMAIN waves' = 1 .. n + 1
        /\ \A i \in 1 .. n : waves'[i] = waves[i]
        /\ waves'[n + 1] = Reading(u)
    BY <2>1
  <2>3. UNCHANGED <<shape, file, changed, pc>> /\ pc = "fill"
    BY <1>3 DEF Fill, gpu
  <2> HIDE DEF n
  <2>4. \A i \in 1 .. n : waves[i].unit # u
    BY <2>1, <2>2, <2>3 DEF ReadAll
  <2>5. /\ waves'[n + 1].unit = u /\ waves'[n + 1].offset = Offset(u)
        /\ waves'[n + 1].record = file[Offset(u)]
    BY <2>2 DEF Reading
  <2>6. \A i \in 1 .. n + 1 : i \in 1 .. n \/ i = n + 1
    BY <2>2
  <2>7. ReadOnce'
    <3>1. SUFFICES ASSUME NEW i \in 1 .. n + 1, NEW j \in 1 .. n + 1,
                          waves'[i].unit = waves'[j].unit
                   PROVE  i = j
      BY <2>2 DEF ReadOnce
    <3>2. CASE i \in 1 .. n /\ j \in 1 .. n
      BY <2>2, <3>1, <3>2 DEF ReadOnce
    <3>3. CASE i = n + 1 /\ j \in 1 .. n
      BY <2>2, <2>4, <2>5, <3>1, <3>3
    <3>4. CASE i \in 1 .. n /\ j = n + 1
      BY <2>2, <2>4, <2>5, <3>1, <3>4
    <3>5. QED
      BY <2>6, <3>2, <3>3, <3>4
  <2>8. ReadPlace'
    BY <2>2, <2>5, <2>6 DEF ReadPlace
  <2>9. ReadRight'
    <3>1. SUFFICES ASSUME NEW i \in 1 .. n + 1, Offset(waves'[i].unit) \notin changed
                   PROVE  waves'[i].record = file[Offset(waves'[i].unit)]
      BY <2>2, <2>3 DEF ReadRight
    <3>2. CASE i \in 1 .. n
      BY <2>2, <3>1, <3>2 DEF ReadRight
    <3>3. CASE i = n + 1
      BY <2>5, <3>3
    <3>4. QED
      BY <2>6, <3>2, <3>3
  <2>10. ReadAll'
    <3>1. ASSUME NEW v \in Units(shape)
          PROVE  v \notin todo' <=> \E i \in 1 .. n + 1 : waves'[i].unit = v
      <4>1. v \notin todo <=> \E i \in 1 .. n : waves[i].unit = v
        BY <2>2, <2>3 DEF ReadAll
      <4>2. v \notin todo' <=> v \notin todo \/ v = u
        BY <2>1
      <4>3. (\E i \in 1 .. n + 1 : waves'[i].unit = v)
              <=> (\E i \in 1 .. n : waves[i].unit = v) \/ v = u
        <5>1. (\E i \in 1 .. n : waves[i].unit = v) => \E i \in 1 .. n + 1 : waves'[i].unit = v
          BY <2>2
        <5>2. n + 1 \in 1 .. n + 1
          BY <2>2
        <5>3. QED
          BY <2>2, <2>5, <2>6, <5>1, <5>2
      <4>4. QED
        BY <4>1, <4>2, <4>3
    <3>2. QED
      BY <2>2, <2>3, <3>1 DEF ReadAll
  <2>11. QED
    BY <2>7, <2>8, <2>9, <2>10
<1>4. CASE Return
  BY <1>4 DEF Return, gpu, ReadOnce, ReadPlace, ReadRight, ReadAll
<1>5. CASE Unwind
  BY <1>5 DEF Unwind, gpu, ReadOnce, ReadPlace, ReadRight, ReadAll
<1>6. CASE PrintWaves \/ DivideByZero \/ OpenFails \/ FillFails
  <2>1. UNCHANGED <<shape, file, changed, waves>> /\ pc' \notin {"open", "fill", "print"}
    BY <1>6 DEF PrintWaves, DivideByZero, OpenFails, FillFails, gpu
  <2>2. QED
    BY <2>1 DEF ReadOnce, ReadPlace, ReadRight, ReadAll
<1>7. CASE GpuRuns
  <2>1. PICK off \in DOMAIN file, r \in Records :
          file' = [file EXCEPT ![off] = r] /\ changed' = changed \cup {off}
    BY <1>7 DEF GpuRuns
  <2>2. UNCHANGED <<shape, pc, todo, waves>>
    BY <1>7 DEF GpuRuns
  <2>3. \A o : o \notin changed' => o \notin changed /\ file'[o] = file[o]
    BY <2>1 DEF TypeOK
  <2>4. ReadRight'
    BY <2>2, <2>3 DEF ReadRight
  <2>5. QED
    BY <2>2, <2>4 DEF ReadOnce, ReadPlace, ReadAll
<1>8. CASE UNCHANGED vars
  BY <1>8 DEF vars, ReadOnce, ReadPlace, ReadRight, ReadAll
<1>9. QED
  BY <1>1, <1>2, <1>3, <1>4, <1>5, <1>6, <1>7, <1>8 DEF Next, Step

----------------------------------------------------------------------------
(***************************************************************************)
(* What is printed.                                                        *)
(***************************************************************************)
LEMMA ShownInit == Init => SteadyShown
  BY DEF Init, SteadyShown

LEMMA ShownStep ==
  ASSUME TypeOK, ReadInv, SteadyShown, [Next]_vars
  PROVE  SteadyShown'
<1>1. CASE Dispatch
  BY <1>1 DEF Dispatch, SteadyShown, NothingPrinted
<1>2. CASE PrintWaves
  <2>1. /\ out'.lines = Lines /\ pc = "print"
        /\ UNCHANGED <<shape, file, changed>>
    BY <1>2 DEF PrintWaves, gpu
  <2>2. \A i \in DOMAIN Lines : i \in DOMAIN waves /\ Lines[i] = waves[i]
    BY DEF Lines
  <2>3. ASSUME NEW u \in Units(shape), Offset(u) \notin changed
        PROVE  LET shown == {i \in DOMAIN Lines : Lines[i].unit = u} IN
               /\ \A i \in shown : Lines[i].record = file[Offset(u)]
               /\ file[Offset(u)] = "valid" => shown # {}
    <3>1. \A i \in DOMAIN waves : waves[i].unit = u => waves[i].record = file[Offset(u)]
      BY <2>3 DEF ReadInv, ReadRight
    <3>2. PICK i \in DOMAIN waves : waves[i].unit = u
      BY <2>1 DEF ReadInv, ReadAll
    <3>3. file[Offset(u)] = "valid" => i \in DOMAIN Lines /\ Lines[i].unit = u
      BY <3>1, <3>2 DEF Lines, Valid
    <3>4. QED
      BY <2>2, <3>1, <3>3
  <2>4. QED
    BY <2>1, <2>3 DEF SteadyShown
<1>3. CASE GpuRuns
  <2>1. PICK off \in DOMAIN file, r \in Records :
          file' = [file EXCEPT ![off] = r] /\ changed' = changed \cup {off}
    BY <1>3 DEF GpuRuns
  <2>2. UNCHANGED <<shape, out>>
    BY <1>3 DEF GpuRuns
  <2>3. \A o : o \notin changed' => o \notin changed /\ file'[o] = file[o]
    BY <2>1 DEF TypeOK
  <2>4. QED
    BY <2>2, <2>3 DEF SteadyShown, NothingPrinted
<1>4. CASE Open \/ Fill \/ Return \/ Unwind \/ DivideByZero \/ OpenFails \/ FillFails
           \/ UNCHANGED vars
  <2>1. UNCHANGED <<shape, file, changed, out>>
    BY <1>4 DEF Open, Fill, Return, Unwind, DivideByZero, OpenFails, FillFails, gpu, vars
  <2>2. QED
    BY <2>1 DEF SteadyShown, NothingPrinted
<1>5. QED
  BY <1>1, <1>2, <1>3, <1>4 DEF Next, Step

(* Of the units that hold still while a command runs, what it prints is    *)
(* right and leaves out no valid wave, whatever the others do.             *)
THEOREM WavesShown == Spec => []SteadyShown
<1>1. TypeOK /\ ReadInv /\ SteadyShown /\ [Next]_vars => (TypeOK /\ ReadInv /\ SteadyShown)'
  BY TypeStep, ReadStep, ShownStep
<1>2. Spec => [](TypeOK /\ ReadInv /\ SteadyShown)
  BY <1>1, TypeInit, ReadInit, ShownInit, PTL DEF Spec
<1>3. QED
  BY <1>2, PTL

----------------------------------------------------------------------------
(***************************************************************************)
(* The offsets: numbers below 256 are told apart by their bytes.           *)
(***************************************************************************)
LEMMA ByteSum ==
  ASSUME NEW i \in 0 .. 255
  PROVE  i = ((i \div 1) % 2) + 2 * ((i \div 2) % 2) + 4 * ((i \div 4) % 2)
               + 8 * ((i \div 8) % 2) + 16 * ((i \div 16) % 2) + 32 * ((i \div 32) % 2)
               + 64 * ((i \div 64) % 2) + 128 * ((i \div 128) % 2)
  BY SMTT(60)

LEMMA ByteBits ==
  ASSUME NEW i \in 0 .. 255
  PROVE  /\ (i \div 1) % 2 = (IF 0 \in Byte(i) THEN 1 ELSE 0)
         /\ (i \div 2) % 2 = (IF 1 \in Byte(i) THEN 1 ELSE 0)
         /\ (i \div 4) % 2 = (IF 2 \in Byte(i) THEN 1 ELSE 0)
         /\ (i \div 8) % 2 = (IF 3 \in Byte(i) THEN 1 ELSE 0)
         /\ (i \div 16) % 2 = (IF 4 \in Byte(i) THEN 1 ELSE 0)
         /\ (i \div 32) % 2 = (IF 5 \in Byte(i) THEN 1 ELSE 0)
         /\ (i \div 64) % 2 = (IF 6 \in Byte(i) THEN 1 ELSE 0)
         /\ (i \div 128) % 2 = (IF 7 \in Byte(i) THEN 1 ELSE 0)
<1>1. /\ BitValue[1] = 1 /\ BitValue[2] = 2 /\ BitValue[3] = 4 /\ BitValue[4] = 8
      /\ BitValue[5] = 16 /\ BitValue[6] = 32 /\ BitValue[7] = 64 /\ BitValue[8] = 128
  BY DEF BitValue
<1>2. \A v \in Nat \ {0} : (i \div v) % 2 \in {0, 1}
  OBVIOUS
<1>3. (i \div 1) % 2 = 1 <=> 0 \in Byte(i)
  BY <1>1 DEF Byte
<1>4. (i \div 2) % 2 = 1 <=> 1 \in Byte(i)
  BY <1>1 DEF Byte
<1>5. (i \div 4) % 2 = 1 <=> 2 \in Byte(i)
  BY <1>1 DEF Byte
<1>6. (i \div 8) % 2 = 1 <=> 3 \in Byte(i)
  BY <1>1 DEF Byte
<1>7. (i \div 16) % 2 = 1 <=> 4 \in Byte(i)
  BY <1>1 DEF Byte
<1>8. (i \div 32) % 2 = 1 <=> 5 \in Byte(i)
  BY <1>1 DEF Byte
<1>9. (i \div 64) % 2 = 1 <=> 6 \in Byte(i)
  BY <1>1 DEF Byte
<1>10. (i \div 128) % 2 = 1 <=> 7 \in Byte(i)
  BY <1>1 DEF Byte
<1>11. QED
  BY <1>2, <1>3, <1>4, <1>5, <1>6, <1>7, <1>8, <1>9, <1>10

LEMMA BytesDiffer ==
  ASSUME NEW i \in 0 .. 255, NEW j \in 0 .. 255, Byte(i) = Byte(j)
  PROVE  i = j
<1> DEFINE Bit(v) == (i \div v) % 2 = (j \div v) % 2
<1>1. Bit(1) /\ Bit(2)
  <2>1. /\ (i \div 1) % 2 = (IF 0 \in Byte(i) THEN 1 ELSE 0)
        /\ (j \div 1) % 2 = (IF 0 \in Byte(j) THEN 1 ELSE 0)
        /\ (i \div 2) % 2 = (IF 1 \in Byte(i) THEN 1 ELSE 0)
        /\ (j \div 2) % 2 = (IF 1 \in Byte(j) THEN 1 ELSE 0)
    BY ByteBits
  <2>2. QED
    BY <2>1
<1>2. Bit(4) /\ Bit(8)
  <2>1. /\ (i \div 4) % 2 = (IF 2 \in Byte(i) THEN 1 ELSE 0)
        /\ (j \div 4) % 2 = (IF 2 \in Byte(j) THEN 1 ELSE 0)
        /\ (i \div 8) % 2 = (IF 3 \in Byte(i) THEN 1 ELSE 0)
        /\ (j \div 8) % 2 = (IF 3 \in Byte(j) THEN 1 ELSE 0)
    BY ByteBits
  <2>2. QED
    BY <2>1
<1>3. Bit(16) /\ Bit(32)
  <2>1. /\ (i \div 16) % 2 = (IF 4 \in Byte(i) THEN 1 ELSE 0)
        /\ (j \div 16) % 2 = (IF 4 \in Byte(j) THEN 1 ELSE 0)
        /\ (i \div 32) % 2 = (IF 5 \in Byte(i) THEN 1 ELSE 0)
        /\ (j \div 32) % 2 = (IF 5 \in Byte(j) THEN 1 ELSE 0)
    BY ByteBits
  <2>2. QED
    BY <2>1
<1>4. Bit(64) /\ Bit(128)
  <2>1. /\ (i \div 64) % 2 = (IF 6 \in Byte(i) THEN 1 ELSE 0)
        /\ (j \div 64) % 2 = (IF 6 \in Byte(j) THEN 1 ELSE 0)
        /\ (i \div 128) % 2 = (IF 7 \in Byte(i) THEN 1 ELSE 0)
        /\ (j \div 128) % 2 = (IF 7 \in Byte(j) THEN 1 ELSE 0)
    BY ByteBits
  <2>2. QED
    BY <2>1
<1>5. QED
  BY <1>1, <1>2, <1>3, <1>4, ByteSum

LEMMA ShiftBack ==
  ASSUME NEW s \in SUBSET Nat, NEW t \in SUBSET Nat, NEW n \in Nat,
         Shift(s, n) \subseteq Shift(t, n)
  PROVE  s \subseteq t
<1>1. SUFFICES ASSUME NEW b \in s PROVE b \in t
  OBVIOUS
<1>2. b + n \in Shift(t, n)
  BY DEF Shift
<1>3. PICK c \in t : b + n = c + n
  BY <1>2 DEF Shift
<1>4. b \in Nat /\ c \in Nat
  OBVIOUS
<1>5. b = c
  BY <1>3, <1>4
<1>6. QED
  BY <1>5

(* The bytes of a unit, in places of their own. *)
LEMMA OffsetParts ==
  ASSUME NEW u
  PROVE  /\ Shift(Byte(u.se), 7) = Offset(u) \cap (7 .. 14)
         /\ Shift(Byte(u.sh), 15) = Offset(u) \cap (15 .. 22)
         /\ Shift(Byte(u.cu), 23) = Offset(u) \cap (23 .. 30)
<1>1. \A i : Byte(i) \subseteq 0 .. 7
  BY DEF Byte
<1>2. /\ Shift(Byte(u.se), 7) \subseteq 7 .. 14 /\ Shift(Byte(u.sh), 15) \subseteq 15 .. 22
      /\ Shift(Byte(u.cu), 23) \subseteq 23 .. 30
      /\ Shift(Byte(0), 31) \subseteq 31 .. 38 /\ Shift(Byte(0), 37) \subseteq 37 .. 44
  BY <1>1 DEF Shift
<1>3. QED
  BY <1>2 DEF Offset

LEMMA OffsetsDiffer ==
  ASSUME NEW u, NEW v, Offset(u) = Offset(v),
         u.se \in 0 .. 255, u.sh \in 0 .. 255, u.cu \in 0 .. 255,
         v.se \in 0 .. 255, v.sh \in 0 .. 255, v.cu \in 0 .. 255
  PROVE  u.se = v.se /\ u.sh = v.sh /\ u.cu = v.cu
<1>1. \A i : Byte(i) \in SUBSET Nat
  BY DEF Byte
<1>2. Byte(u.se) = Byte(v.se)
  <2>1. Shift(Byte(u.se), 7) = Shift(Byte(v.se), 7)
    BY OffsetParts
  <2>2. Byte(u.se) \in SUBSET Nat /\ Byte(v.se) \in SUBSET Nat /\ 7 \in Nat
    BY <1>1
  <2>3. Byte(u.se) \subseteq Byte(v.se) /\ Byte(v.se) \subseteq Byte(u.se)
    BY <2>1, <2>2, ShiftBack
  <2>4. QED
    BY <2>3
<1>3. Byte(u.sh) = Byte(v.sh)
  <2>1. Shift(Byte(u.sh), 15) = Shift(Byte(v.sh), 15)
    BY OffsetParts
  <2>2. Byte(u.sh) \in SUBSET Nat /\ Byte(v.sh) \in SUBSET Nat /\ 15 \in Nat
    BY <1>1
  <2>3. Byte(u.sh) \subseteq Byte(v.sh) /\ Byte(v.sh) \subseteq Byte(u.sh)
    BY <2>1, <2>2, ShiftBack
  <2>4. QED
    BY <2>3
<1>4. Byte(u.cu) = Byte(v.cu)
  <2>1. Shift(Byte(u.cu), 23) = Shift(Byte(v.cu), 23)
    BY OffsetParts
  <2>2. Byte(u.cu) \in SUBSET Nat /\ Byte(v.cu) \in SUBSET Nat /\ 23 \in Nat
    BY <1>1
  <2>3. Byte(u.cu) \subseteq Byte(v.cu) /\ Byte(v.cu) \subseteq Byte(u.cu)
    BY <2>1, <2>2, ShiftBack
  <2>4. QED
    BY <2>3
<1>5. QED
  BY <1>2, <1>3, <1>4, BytesDiffer

LEMMA ReadApart ==
  ASSUME \A n \in Shapes : n.se <= 256 /\ n.sh <= 256 /\ n.cu <= 256,
         TypeOK, ReadInv
  PROVE  OwnOffset
<1>1. SUFFICES ASSUME NEW i \in DOMAIN waves, NEW j \in DOMAIN waves,
                      waves[i].offset = waves[j].offset
               PROVE  i = j
  BY DEF OwnOffset
<1>2. waves \in Seq(Wave)
  BY DEF TypeOK
<1>3. waves[i] \in Wave /\ waves[j] \in Wave
  BY <1>2, LenProperties, ElementOfSeq
<1>4. PICK u \in Units(shape), v \in Units(shape) : u = waves[i].unit /\ v = waves[j].unit
  BY <1>3 DEF Wave
<1>5. Offset(u) = Offset(v)
  BY <1>1, <1>4 DEF ReadInv, ReadPlace
<1>6. shape \in Shapes /\ shape.se \in Nat /\ shape.sh \in Nat /\ shape.cu \in Nat
  BY ShapesAssumption DEF TypeOK
<1>7. /\ u.se \in 0 .. 255 /\ u.sh \in 0 .. 255 /\ u.cu \in 0 .. 255
      /\ v.se \in 0 .. 255 /\ v.sh \in 0 .. 255 /\ v.cu \in 0 .. 255
  BY <1>6 DEF Units
<1>8. u.se = v.se /\ u.sh = v.sh /\ u.cu = v.cu
  BY <1>5, <1>7, OffsetsDiffer
<1>9. u = v
  BY <1>8 DEF Units
<1>10. QED
  BY <1>4, <1>9 DEF ReadInv, ReadOnce

(***************************************************************************)
(* With at most 256 of each, which the masks of getWaveInfo presume, every *)
(* unit is read at a place of its own.                                     *)
(***************************************************************************)
THEOREM OwnPlaces ==
  ASSUME \A n \in Shapes : n.se <= 256 /\ n.sh <= 256 /\ n.cu <= 256
  PROVE  Spec => []OwnOffset
<1>1. TypeOK /\ ReadInv => OwnOffset
  BY ReadApart
<1>2. TypeOK /\ ReadInv /\ [Next]_vars => (TypeOK /\ ReadInv)'
  BY TypeStep, ReadStep
<1>3. QED
  BY <1>1, <1>2, TypeInit, ReadInit, PTL DEF Spec

----------------------------------------------------------------------------
(***************************************************************************)
(* The number of units.                                                    *)
(***************************************************************************)
LEMMA NumbersCounted ==
  ASSUME NEW n \in Nat
  PROVE  IsFiniteSet(0 .. n - 1) /\ Cardinality(0 .. n - 1) = n
<1>1. 0 \in Int /\ n - 1 \in Int
  OBVIOUS
<1>2. IsFiniteSet(0 .. n - 1)
      /\ Cardinality(0 .. n - 1) = IF 0 > n - 1 THEN 0 ELSE n - 1 - 0 + 1
  BY <1>1, FS_Interval
<1>3. QED
  BY <1>2

LEMMA UnitsCounted ==
  ASSUME NEW n \in [se : Nat, sh : Nat, cu : Nat]
  PROVE  IsFiniteSet(Units(n)) /\ Cardinality(Units(n)) = n.se * n.sh * n.cu
<1> DEFINE SE == 0 .. n.se - 1
           SH == 0 .. n.sh - 1
           CU == 0 .. n.cu - 1
           Numbers == (SE \X SH) \X CU
           f == [t \in Numbers |-> [se |-> t[1][1], sh |-> t[1][2], cu |-> t[2]]]
<1>1. n.se \in Nat /\ n.sh \in Nat /\ n.cu \in Nat
  OBVIOUS
<1>2. /\ IsFiniteSet(SE) /\ Cardinality(SE) = n.se
      /\ IsFiniteSet(SH) /\ Cardinality(SH) = n.sh
      /\ IsFiniteSet(CU) /\ Cardinality(CU) = n.cu
  BY <1>1, NumbersCounted
<1>3. Units(n) = [se : SE, sh : SH, cu : CU]
  BY DEF Units
<1> HIDE DEF SE, SH, CU
<1>4. IsFiniteSet(SE \X SH) /\ Cardinality(SE \X SH) = n.se * n.sh
  BY <1>2, FS_Product
<1>5. IsFiniteSet(Numbers) /\ Cardinality(Numbers) = n.se * n.sh * n.cu
  <2>1. /\ IsFiniteSet((SE \X SH) \X CU)
        /\ Cardinality((SE \X SH) \X CU) = Cardinality(SE \X SH) * Cardinality(CU)
    BY <1>2, <1>4, FS_Product
  <2>2. QED
    BY <1>2, <1>4, <2>1
<1>6. f \in [Numbers -> Units(n)]
  BY <1>3
<1>7. \A a, b \in Numbers : f[a] = f[b] => a = b
  <2>1. SUFFICES ASSUME NEW a \in Numbers, NEW b \in Numbers, f[a] = f[b] PROVE a = b
    OBVIOUS
  <2>2. a[1][1] = b[1][1] /\ a[1][2] = b[1][2] /\ a[2] = b[2]
    BY <2>1
  <2>3. a = <<<<a[1][1], a[1][2]>>, a[2]>> /\ b = <<<<b[1][1], b[1][2]>>, b[2]>>
    OBVIOUS
  <2>4. QED
    BY <2>2, <2>3
<1>8. \A u \in Units(n) : \E a \in Numbers : f[a] = u
  <2>1. SUFFICES ASSUME NEW u \in Units(n) PROVE \E a \in Numbers : f[a] = u
    OBVIOUS
  <2>2. u.se \in SE /\ u.sh \in SH /\ u.cu \in CU
        /\ u = [se |-> u.se, sh |-> u.sh, cu |-> u.cu]
    BY <1>3
  <2>3. <<<<u.se, u.sh>>, u.cu>> \in Numbers
    BY <2>2
  <2>4. f[<<<<u.se, u.sh>>, u.cu>>] = u
    BY <2>2, <2>3
  <2>5. QED
    BY <2>3, <2>4
<1>9. f \in Bijection(Numbers, Units(n))
  BY <1>6, <1>7, <1>8, Fun_IsBij
<1>10. ExistsBijection(Numbers, Units(n))
  BY <1>9 DEF ExistsBijection
<1>11. QED
  BY <1>5, <1>10, FS_Bijection

(* What was read and what is left make up all units. *)
CountInv ==
  /\ pc = "fill" => /\ IsFiniteSet(todo)
                    /\ Len(waves) + Cardinality(todo) = shape.se * shape.sh * shape.cu
  /\ pc = "print" => Len(waves) = shape.se * shape.sh * shape.cu

LEMMA CountInit == Init => CountInv /\ AllOrNothing
  BY DEF Init, CountInv, AllOrNothing

LEMMA CountStep ==
  ASSUME TypeOK, ReadInv, CountInv, AllOrNothing, [Next]_vars
  PROVE  CountInv' /\ AllOrNothing'
<1>1. CASE Dispatch
  BY <1>1 DEF Dispatch, CountInv, AllOrNothing, NothingPrinted
<1>2. CASE Open
  <2>1. waves = <<>> /\ waves' = <<>> /\ todo' = Units(shape) /\ pc' = "fill"
        /\ UNCHANGED <<shape, out>>
    BY <1>2 DEF Open, gpu, ReadInv, ReadAll
  <2>2. shape \in [se : Nat, sh : Nat, cu : Nat]
    BY ShapesAssumption DEF TypeOK
  <2>3. IsFiniteSet(todo') /\ Cardinality(todo') = shape.se * shape.sh * shape.cu
    BY <2>1, <2>2, UnitsCounted
  <2>4. shape.se * shape.sh * shape.cu \in Nat
    BY <2>2
  <2>5. Len(waves') + Cardinality(todo') = shape.se * shape.sh * shape.cu
    BY <2>1, <2>3, <2>4
  <2>6. QED
    BY <2>1, <2>3, <2>5 DEF CountInv, AllOrNothing, NothingPrinted
<1>3. CASE Fill
  <2>1. PICK u \in todo : /\ todo' = todo \ {u} /\ Len(waves) \in Nat
                          /\ Len(waves') = Len(waves) + 1
    BY <1>3, WavesGrow
  <2>2. pc = "fill" /\ UNCHANGED <<shape, pc, out>>
    BY <1>3 DEF Fill, gpu
  <2>3. IsFiniteSet(todo)
    BY <2>2 DEF CountInv
  <2>4. IsFiniteSet(todo') /\ Cardinality(todo') = Cardinality(todo) - 1
    BY <2>1, <2>3, FS_RemoveElement
  <2>5. Cardinality(todo) \in Nat
    BY <2>3, FS_CardinalityType
  <2>6. Len(waves') + Cardinality(todo') = Len(waves) + Cardinality(todo)
    BY <2>1, <2>4, <2>5
  <2>7. QED
    BY <2>2, <2>4, <2>6 DEF CountInv, AllOrNothing, NothingPrinted
<1>4. CASE Return
  <2>1. pc = "fill" /\ todo = {} /\ pc' = "print" /\ UNCHANGED <<shape, waves, out>>
    BY <1>4 DEF Return, gpu
  <2>2. Cardinality(todo) = 0 /\ Len(waves) \in Nat
    BY <2>1, FS_EmptySet, LenProperties DEF TypeOK
  <2>3. Len(waves) = shape.se * shape.sh * shape.cu
    BY <2>1, <2>2 DEF CountInv
  <2>4. QED
    BY <2>1, <2>3 DEF CountInv, AllOrNothing, NothingPrinted
<1>5. CASE PrintWaves
  <2>1. pc = "print" /\ pc' = "idle" /\ out'.total = Len(waves) /\ UNCHANGED shape
    BY <1>5 DEF PrintWaves, gpu
  <2>2. QED
    BY <2>1 DEF CountInv, AllOrNothing
<1>6. CASE Unwind \/ DivideByZero \/ OpenFails \/ FillFails
  <2>1. UNCHANGED <<shape, out>> /\ pc' \notin {"fill", "print"}
    BY <1>6 DEF Unwind, DivideByZero, OpenFails, FillFails, gpu
  <2>2. QED
    BY <2>1 DEF CountInv, AllOrNothing, NothingPrinted
<1>7. CASE GpuRuns \/ UNCHANGED vars
  BY <1>7 DEF GpuRuns, vars, CountInv, AllOrNothing, NothingPrinted
<1>8. QED
  BY <1>1, <1>2, <1>3, <1>4, <1>5, <1>6, <1>7 DEF Next, Step

(* A command that prints has read as many units as gca_info multiplies out *)
(* to, on any GPU: one that cannot be read is never left out.              *)
THEOREM UnitsAllOrNone == Spec => []AllOrNothing
<1> DEFINE Inv == TypeOK /\ ReadInv /\ CountInv /\ AllOrNothing
<1>1. Init => Inv
  BY TypeInit, ReadInit, CountInit
<1>2. Inv /\ [Next]_vars => Inv'
  BY TypeStep, ReadStep, CountStep
<1>3. Inv => AllOrNothing
  OBVIOUS
<1> HIDE DEF Inv
<1>4. QED
  BY <1>1, <1>2, <1>3, PTL DEF Spec
=============================================================================
