-------------------------- MODULE DeviceLifeProofs --------------------------
(***************************************************************************)
(* For every database and ASIC: the device's descriptors are owned once,   *)
(* and commands run on a whole device only.                                *)
(***************************************************************************)
EXTENDS DeviceLife, SequenceTheorems, FiniteSetTheorems, TLAPS

(* The outermost scope is about amdgpu_regs, one inside it about gca_info; *)
(* their number goes with the step, and the descriptors with their number. *)
ScopesInv ==
  /\ Len(scopes) <= 2
  /\ \A i \in 1 .. Len(scopes) :
       scopes[i].file = IF i = 1 THEN "amdgpu_regs" ELSE "amdgpu_gca_config"
  /\ pc \in {"start", "exited", "terminated"} => Len(scopes) = 0
  /\ pc \in {"load", "gca", "filter", "run"} => Len(scopes) = 1
  /\ pc = "read" => Len(scopes) = 2
  /\ files["amdgpu_regs"] = (IF Len(scopes) >= 1 THEN 1 ELSE 0)
  /\ files["amdgpu_gca_config"] = (IF Len(scopes) = 2 THEN 1 ELSE 0)

IInv == TypeOK /\ ScopesInv

(***************************************************************************)
(* Entering a scope, adding a block and leaving the innermost scope.       *)
(***************************************************************************)
LEMMA Entered ==
  ASSUME NEW scope \in Scope, scopes \in Seq(Scope), scopes' = Append(scopes, scope)
  PROVE  /\ scopes' \in Seq(Scope) /\ Len(scopes') = Len(scopes) + 1
         /\ \A i \in 1 .. Len(scopes) : scopes'[i] = scopes[i]
         /\ scopes'[Len(scopes) + 1] = scope
  BY AppendProperties

LEMMA Kept ==
  ASSUME NEW blocks \in Seq(STRING), NEW block \in STRING
  PROVE  Append(blocks, block) \in Seq(STRING)
  BY AppendProperties

LEMMA Left ==
  ASSUME scopes \in Seq(Scope), Len(scopes) \in 1 .. 2, LeaveTop
  PROVE  /\ scopes' \in Seq(Scope) /\ Len(scopes') = Len(scopes) - 1
         /\ \A i \in 1 .. Len(scopes) - 1 : scopes'[i] = scopes[i]
<1>1. PICK n \in {0, 1} : n = Len(scopes) - 1
  OBVIOUS
<1>2. \A i \in 1 .. n : scopes[i] \in Scope
  BY <1>1, ElementOfSeq
<1>3. 1 \in Int /\ n \in Int
  BY <1>1
<1>4. /\ SubSeq(scopes, 1, n) \in Seq(Scope)
      /\ Len(SubSeq(scopes, 1, n)) = IF 1 <= n THEN n - 1 + 1 ELSE 0
      /\ \A i \in 1 .. n - 1 + 1 : SubSeq(scopes, 1, n)[i] = scopes[1 + i - 1]
  BY <1>2, <1>3, SubSeqProperties
<1>5. scopes' = SubSeq(scopes, 1, n)
  BY <1>1 DEF LeaveTop
<1>6. QED
  BY <1>1, <1>4, <1>5

(* The file the innermost scope closes.                                    *)
LEMMA Innermost ==
  ASSUME IInv, Len(scopes) \in 1 .. 2
  PROVE  Top.file = IF Len(scopes) = 1 THEN "amdgpu_regs" ELSE "amdgpu_gca_config"
<1>1. Len(scopes) \in 1 .. Len(scopes)
  OBVIOUS
<1>2. QED
  BY <1>1 DEF IInv, ScopesInv, Top

LEMMA InitIInv == Init => IInv
  BY DEF Init, IInv, TypeOK, ScopesInv, Files

LEMMA StepIInv == IInv /\ [Next]_vars => IInv'
<1> SUFFICES ASSUME IInv, [Next]_vars PROVE IInv'
  OBVIOUS
<1> USE DEF IInv
<1>1. CASE OpenRegs
  <2>1. scopes = <<>> /\ scopes \in Seq(Scope)
    BY <1>1 DEF OpenRegs, ScopesInv, TypeOK
  <2>2. scopes' = <<[kind |-> "fail", file |-> "amdgpu_regs"]>>
    BY <1>1, <2>1 DEF OpenRegs, Enter
  <2>3. files' = [files EXCEPT !["amdgpu_regs"] = @ + 1]
    BY <1>1 DEF OpenRegs, Opened
  <2>4. TypeOK'
    BY <1>1, <2>2, <2>3 DEF OpenRegs, TypeOK, Scope, Files, db
  <2>5. ScopesInv'
    BY <1>1, <2>1, <2>2, <2>3 DEF OpenRegs, TypeOK, ScopesInv, Files
  <2>6. QED
    BY <2>4, <2>5
<1>2. CASE Load
  <2>1. ScopesInv'
    BY <1>2 DEF Load, ScopesInv
  <2>2. CASE next <= Len(LoadOrder)
    <3>1. next \in DOMAIN LoadOrder /\ LoadOrder[next] \in STRING
      BY <2>2, DeviceAssumption DEF TypeOK
    <3>2. gRegDb \in Seq(STRING) /\ Append(gRegDb, LoadOrder[next]) \in Seq(STRING)
      BY <3>1, Kept DEF TypeOK
    <3>3. gRegDb' \in Seq(STRING)
      BY <1>2, <2>2, <3>2, DeviceAssumption DEF Load, TypeOK
    <3>4. hasLoaded' \subseteq {LoadOrder[i] : i \in DOMAIN LoadOrder}
      BY <1>2, <2>2, <3>1, DeviceAssumption DEF Load, TypeOK
    <3>5. QED
      BY <1>2, <2>1, <2>2, <3>3, <3>4, DeviceAssumption DEF Load, TypeOK
  <2>3. CASE next > Len(LoadOrder)
    BY <1>2, <2>1, <2>3, DeviceAssumption DEF Load, TypeOK
  <2>4. QED
    BY <2>2, <2>3, DeviceAssumption DEF TypeOK
<1>3. CASE OpenGca
  <2> DEFINE gca == [kind |-> "exit", file |-> "amdgpu_gca_config"]
  <2>1. Len(scopes) = 1 /\ scopes \in Seq(Scope) /\ gca \in Scope
    BY <1>3 DEF OpenGca, ScopesInv, TypeOK, Scope, Files
  <2>2. scopes' = Append(scopes, gca)
    BY <1>3 DEF OpenGca, Enter
  <2>3. files' = [files EXCEPT !["amdgpu_gca_config"] = @ + 1]
    BY <1>3 DEF OpenGca, Opened
  <2> HIDE DEF gca
  <2>4. /\ scopes' \in Seq(Scope) /\ Len(scopes') = 2
        /\ scopes'[1] = scopes[1] /\ scopes'[2] = gca
    BY <2>1, <2>2, Entered
  <2>5. TypeOK'
    BY <1>3, <2>3, <2>4 DEF OpenGca, TypeOK, Files, db
  <2>6. ScopesInv'
    <3>1. gca.file = "amdgpu_gca_config"
      BY DEF gca
    <3>2. \A i \in 1 .. Len(scopes') :
            scopes'[i].file = IF i = 1 THEN "amdgpu_regs" ELSE "amdgpu_gca_config"
      BY <2>1, <2>4, <3>1 DEF ScopesInv
    <3>3. /\ files'["amdgpu_regs"] = 1 /\ files'["amdgpu_gca_config"] = 1
      BY <2>1, <2>3 DEF TypeOK, ScopesInv, Files
    <3>4. QED
      BY <1>3, <2>4, <3>2, <3>3 DEF OpenGca, ScopesInv
  <2>7. QED
    BY <2>5, <2>6
<1>4. CASE ReadGca
  <2>1. PICK v \in Versions :
          /\ gcaVersion' = v
          /\ \/ /\ v < RequiredGcaInfoVer
                /\ pc' = "unwind"
                /\ UNCHANGED <<files, scopes, next>>
             \/ /\ v >= RequiredGcaInfoVer
                /\ LeaveTop /\ Closed(Top.file)
                /\ pc' = "filter" /\ next' = 1
    BY <1>4 DEF ReadGca
  <2>2. gcaVersion' \in Nat
    BY <2>1, DeviceAssumption
  <2>3. CASE v < RequiredGcaInfoVer
    <3>1. pc' = "unwind" /\ UNCHANGED <<files, scopes, next>>
      BY <2>1, <2>3, DeviceAssumption DEF RequiredGcaInfoVer
    <3>2. QED
      BY <1>4, <2>2, <3>1 DEF ReadGca, TypeOK, ScopesInv
  <2>4. CASE v >= RequiredGcaInfoVer
    <3>1. /\ LeaveTop /\ Closed(Top.file) /\ pc' = "filter" /\ next' = 1
      BY <2>1, <2>4, DeviceAssumption DEF RequiredGcaInfoVer
    <3>2. scopes \in Seq(Scope) /\ Len(scopes) = 2
      BY <1>4 DEF ReadGca, ScopesInv, TypeOK
    <3>3. /\ scopes' \in Seq(Scope) /\ Len(scopes') = 1 /\ scopes'[1] = scopes[1]
      BY <3>1, <3>2, Left
    <3>4. files' = [files EXCEPT !["amdgpu_gca_config"] = @ - 1]
      <4>1. Top.file = "amdgpu_gca_config"
        BY <3>2, Innermost
      <4>2. QED
        BY <3>1, <4>1 DEF Closed
    <3>5. TypeOK'
      BY <1>4, <2>2, <3>1, <3>2, <3>3, <3>4 DEF ReadGca, TypeOK, ScopesInv, Files
    <3>6. ScopesInv'
      BY <3>1, <3>2, <3>3, <3>4 DEF TypeOK, ScopesInv, Files
    <3>7. QED
      BY <3>5, <3>6
  <2>5. QED
    BY <2>3, <2>4, DeviceAssumption DEF RequiredGcaInfoVer
<1>5. CASE Filter
  <2>1. next \in DOMAIN gRegDb /\ gRegDb[next] \in STRING
    BY <1>5 DEF Filter, TypeOK
  <2>2. mRegBlocks' \in Seq(STRING)
    <3>1. mRegBlocks \in Seq(STRING) /\ Append(mRegBlocks, gRegDb[next]) \in Seq(STRING)
      BY <2>1, Kept DEF TypeOK
    <3>2. QED
      BY <1>5, <3>1 DEF Filter
  <2>3. next' \in Nat \ {0}
    BY <1>5 DEF Filter, TypeOK
  <2>4. TypeOK'
    BY <1>5, <2>2, <2>3 DEF Filter, TypeOK
  <2>5. ScopesInv'
    BY <1>5 DEF Filter, ScopesInv
  <2>6. QED
    BY <2>4, <2>5
<1>6. CASE Built
  <2>1. scopes \in Seq(Scope) /\ Len(scopes) = 1 /\ scopes[1] \in Scope
    <3>1. scopes \in Seq(Scope) /\ Len(scopes) = 1
      BY <1>6 DEF Built, ScopesInv, TypeOK
    <3>2. 1 \in 1 .. Len(scopes)
      BY <3>1
    <3>3. QED
      BY <3>1, <3>2, ElementOfSeq
  <2> DEFINE device == [scopes[1] EXCEPT !.kind = "device"]
  <2>2. device \in Scope /\ device.file = scopes[1].file
    BY <2>1 DEF Scope
  <2>3. scopes' = [scopes EXCEPT ![1] = device]
    BY <1>6, <2>1 DEF Built
  <2> HIDE DEF device
  <2>4. /\ scopes' \in Seq(Scope) /\ Len(scopes') = 1 /\ scopes'[1] = device
    BY <2>1, <2>2, <2>3, ExceptSeq
  <2>5. TypeOK'
    BY <1>6, <2>4 DEF Built, TypeOK, db
  <2>6. scopes[1].file = "amdgpu_regs"
    BY <2>1 DEF ScopesInv
  <2>7. ScopesInv'
    <3>1. \A i \in 1 .. Len(scopes') : i = 1 /\ scopes'[i].file = "amdgpu_regs"
      BY <2>2, <2>4, <2>6
    <3>2. pc' = "run" /\ files' = files
      BY <1>6 DEF Built
    <3>3. QED
      BY <2>1, <2>4, <3>1, <3>2 DEF ScopesInv
  <2>8. QED
    BY <2>5, <2>7
<1>7. CASE Throw
  BY <1>7 DEF Throw, TypeOK, ScopesInv, db
<1>8. CASE Exit \/ Unwind
  <2>1. /\ scopes \in Seq(Scope) /\ Len(scopes) \in 1 .. 2
        /\ LeaveTop /\ Closed(Top.file)
    <3>1. scopes \in Seq(Scope) /\ LeaveTop /\ Closed(Top.file)
      BY <1>8 DEF Exit, Unwind, TypeOK
    <3>2. PICK n \in Nat : n = Len(scopes)
      BY <3>1, LenProperties
    <3>3. Exit => Len(scopes) # 0
      BY DEF Exit, ScopesInv
    <3>4. Unwind => Len(scopes) # 0
      BY <3>1, EmptySeq DEF Unwind
    <3>5. n # 0 /\ n <= 2
      BY <1>8, <3>2, <3>3, <3>4 DEF ScopesInv
    <3>6. QED
      BY <3>1, <3>2, <3>5
  <2>2. /\ scopes' \in Seq(Scope) /\ Len(scopes') = Len(scopes) - 1
        /\ \A i \in 1 .. Len(scopes) - 1 : scopes'[i] = scopes[i]
    BY <2>1, Left
  <2>3. CASE Len(scopes) = 1
    <3>1. Top.file = "amdgpu_regs"
      BY <2>3, Innermost
    <3>2. files' = [files EXCEPT !["amdgpu_regs"] = @ - 1]
      BY <2>1, <3>1 DEF Closed
    <3>3. files' \in [Files -> Nat] /\ \A f \in Files : files'[f] = 0
      <4>1. /\ files \in [Files -> Nat]
            /\ files["amdgpu_regs"] = 1 /\ files["amdgpu_gca_config"] = 0
        BY <2>3 DEF TypeOK, ScopesInv
      <4>2. QED
        BY <3>2, <4>1 DEF Files
    <3>4. Len(scopes') = 0
      BY <2>2, <2>3
    <3>5. TypeOK'
      BY <1>8, <2>2, <3>3 DEF Exit, Unwind, TypeOK, db
    <3>6. pc' \in {"exited", "unwind"}
      BY <1>8 DEF Exit, Unwind
    <3>7. ScopesInv'
      BY <3>3, <3>4, <3>6 DEF ScopesInv, Files
    <3>8. QED
      BY <3>5, <3>7
  <2>4. CASE Len(scopes) = 2
    <3>1. Top.file = "amdgpu_gca_config"
      BY <2>4, Innermost
    <3>2. files' = [files EXCEPT !["amdgpu_gca_config"] = @ - 1]
      BY <2>1, <3>1 DEF Closed
    <3>3. /\ files' \in [Files -> Nat]
          /\ files'["amdgpu_regs"] = 1 /\ files'["amdgpu_gca_config"] = 0
      BY <2>4, <3>2 DEF TypeOK, ScopesInv, Files
    <3>4. Len(scopes') = 1 /\ scopes'[1].file = "amdgpu_regs"
      BY <2>2, <2>4 DEF ScopesInv
    <3>5. pc = "unwind" /\ pc' = "unwind"
      BY <1>8, <2>4 DEF Exit, Unwind, ScopesInv
    <3>6. TypeOK'
      BY <1>8, <2>2, <3>3 DEF Exit, Unwind, TypeOK, db
    <3>7. ScopesInv'
      BY <3>3, <3>4, <3>5 DEF ScopesInv
    <3>8. QED
      BY <3>6, <3>7
  <2>5. QED
    BY <2>1, <2>3, <2>4
<1>9. CASE Terminate
  BY <1>9 DEF Terminate, TypeOK, ScopesInv, db
<1>10. CASE UNCHANGED vars
  BY <1>10 DEF vars, TypeOK, ScopesInv
<1>11. QED
  BY <1>1, <1>2, <1>3, <1>4, <1>5, <1>6, <1>7, <1>8, <1>9, <1>10 DEF Next

LEMMA OwnersCounted == IInv => OwnedOnce
<1> SUFFICES ASSUME IInv PROVE OwnedOnce
  OBVIOUS
<1> DEFINE Owners(f) == {i \in DOMAIN scopes : scopes[i].file = f}
<1>1. Len(scopes) \in 0 .. 2 /\ DOMAIN scopes = 1 .. Len(scopes)
  <2>1. scopes \in Seq(Scope) /\ Len(scopes) <= 2
    BY DEF IInv, TypeOK, ScopesInv
  <2>2. Len(scopes) \in Nat /\ DOMAIN scopes = 1 .. Len(scopes)
    BY <2>1, LenProperties
  <2>3. QED
    BY <2>1, <2>2
<1>2. Owners("amdgpu_regs") = IF Len(scopes) >= 1 THEN {1} ELSE {}
  BY <1>1 DEF IInv, ScopesInv
<1>3. Owners("amdgpu_gca_config") = IF Len(scopes) = 2 THEN {2} ELSE {}
  BY <1>1 DEF IInv, ScopesInv
<1>4. Cardinality({}) = 0 /\ Cardinality({1}) = 1 /\ Cardinality({2}) = 1
  BY FS_EmptySet, FS_Singleton
<1>5. \A f \in Files : files[f] = Cardinality(Owners(f))
  <2>1. /\ files["amdgpu_regs"] = IF Len(scopes) >= 1 THEN 1 ELSE 0
        /\ files["amdgpu_gca_config"] = IF Len(scopes) = 2 THEN 1 ELSE 0
    BY DEF IInv, ScopesInv
  <2>2. files["amdgpu_regs"] = Cardinality(Owners("amdgpu_regs"))
    BY <1>2, <1>4, <2>1
  <2>3. files["amdgpu_gca_config"] = Cardinality(Owners("amdgpu_gca_config"))
    BY <1>3, <1>4, <2>1
  <2>4. QED
    BY <2>2, <2>3 DEF Files
<1>6. pc \in {"exited", "terminated"} => \A f \in Files : files[f] = 0
  BY <1>1 DEF IInv, ScopesInv, Files
<1>7. QED
  BY <1>5, <1>6 DEF OwnedOnce

(***************************************************************************)
(* The constructor and destructor of AmdGpuDevice leak no descriptor and   *)
(* close none twice, wherever an exception strikes.                        *)
(***************************************************************************)
THEOREM DescriptorsOwned == Spec => []OwnedOnce
<1>1. Spec => []IInv
  BY InitIInv, StepIInv, PTL DEF Spec
<1>2. QED
  BY <1>1, OwnersCounted, PTL

(* Every variable of the device's life keeps its type.                     *)
THEOREM DeviceTypes == Spec => []TypeOK
<1>1. IInv => TypeOK
  BY DEF IInv
<1>2. QED
  BY <1>1, InitIInv, StepIInv, PTL DEF Spec

----------------------------------------------------------------------------
(***************************************************************************)
(* The blocks: what the loops over LoadOrder and gRegDb have collected.    *)
(***************************************************************************)
Elements(s) == {s[i] : i \in DOMAIN s}
Distinct(s) == \A i, j \in DOMAIN s : s[i] = s[j] => i = j
First(s, n) == {s[i] : i \in 1 .. n}

LEMMA Added ==
  ASSUME NEW s \in Seq(STRING), NEW e \in STRING
  PROVE  /\ Elements(Append(s, e)) = Elements(s) \cup {e}
         /\ Distinct(s) /\ e \notin Elements(s) => Distinct(Append(s, e))
<1>1. PICK t, n : t = Append(s, e) /\ n = Len(s)
  OBVIOUS
<1>2. /\ t \in Seq(STRING) /\ Len(t) = n + 1 /\ t[n + 1] = e
      /\ \A i \in 1 .. n : t[i] = s[i]
  <2>1. Append(s, e) \in Seq(STRING)
    BY AppendProperties
  <2>2. Len(Append(s, e)) = Len(s) + 1
    BY AppendProperties
  <2>3. Append(s, e)[Len(s) + 1] = e
    BY AppendProperties
  <2>4. \A i \in 1 .. Len(s) : Append(s, e)[i] = s[i]
    BY AppendProperties
  <2>5. QED
    BY <1>1, <2>1, <2>2, <2>3, <2>4
<1>3. n \in Nat /\ DOMAIN s = 1 .. n /\ DOMAIN t = 1 .. n + 1
  <2>1. Len(s) \in Nat /\ DOMAIN s = 1 .. Len(s) /\ DOMAIN t = 1 .. Len(t)
    BY <1>2, LenProperties
  <2>2. QED
    BY <1>1, <1>2, <2>1
<1>4. \A i \in 1 .. n + 1 : i \in 1 .. n \/ i = n + 1
  BY <1>3
<1>5. Elements(t) = Elements(s) \cup {e}
  <2>1. \A i \in 1 .. n + 1 : t[i] \in Elements(s) \cup {e}
    BY <1>2, <1>3, <1>4 DEF Elements
  <2>2. ASSUME NEW x \in Elements(s) \cup {e}
        PROVE  \E i \in 1 .. n + 1 : t[i] = x
    <3>1. CASE x = e
      <4>1. n + 1 \in 1 .. n + 1
        BY <1>3
      <4>2. QED
        BY <1>2, <3>1, <4>1
    <3>2. CASE x \in Elements(s)
      <4>1. PICK i \in 1 .. n : s[i] = x
        BY <1>3, <3>2 DEF Elements
      <4>2. i \in 1 .. n + 1 /\ t[i] = x
        BY <1>2, <1>3, <4>1
      <4>3. QED
        BY <4>2
    <3>3. QED
      BY <3>1, <3>2
  <2>3. QED
    BY <1>3, <2>1, <2>2 DEF Elements
<1>6. ASSUME Distinct(s), e \notin Elements(s)
      PROVE  Distinct(t)
  <2>1. SUFFICES ASSUME NEW i \in 1 .. n + 1, NEW j \in 1 .. n + 1, t[i] = t[j]
                 PROVE  i = j
    BY <1>3 DEF Distinct
  <2>2. \A k \in 1 .. n : s[k] # e
    BY <1>3, <1>6 DEF Elements
  <2>3. QED
    BY <1>2, <1>3, <1>4, <1>6, <2>1, <2>2 DEF Distinct
<1>7. QED
  BY <1>1, <1>5, <1>6

LEMMA FirstGrows ==
  ASSUME NEW s, NEW n \in Nat \ {0}
  PROVE  First(s, n) = First(s, n - 1) \cup {s[n]}
BY DEF First

(* gRegDb has the blocks whose load_ function ran, each once. *)
LoadedInv ==
  /\ Elements(gRegDb) = hasLoaded /\ Distinct(gRegDb)
  /\ pc \in {"start", "load"} => /\ next <= Len(LoadOrder) + 1
                                 /\ hasLoaded = First(LoadOrder, next - 1)
  /\ pc \in {"gca", "read", "filter", "run"} => hasLoaded = Elements(LoadOrder)

(* mRegBlocks has those of them the loop has come by and the ASIC has. *)
FilteredInv ==
  /\ pc \in {"start", "load", "gca", "read"} => mRegBlocks = <<>>
  /\ Distinct(mRegBlocks)
  /\ pc = "filter" => /\ next <= Len(gRegDb) + 1
                      /\ Elements(mRegBlocks) = First(gRegDb, next - 1) \cap Elements(Supported)
  /\ pc = "run" => Elements(mRegBlocks) = Elements(gRegDb) \cap Elements(Supported)
  /\ pc \in {"filter", "run"} => gcaVersion >= RequiredGcaInfoVer

LEMMA BlocksInit == Init => LoadedInv /\ FilteredInv
<1> SUFFICES ASSUME Init PROVE LoadedInv /\ FilteredInv
  OBVIOUS
<1>1. /\ pc = "start" /\ hasLoaded = {} /\ gRegDb = <<>> /\ next = 1
      /\ mRegBlocks = <<>>
  BY DEF Init
<1>2. Elements(<<>>) = {} /\ Distinct(<<>>) /\ First(LoadOrder, 1 - 1) = {}
  BY DEF Elements, Distinct, First
<1>3. 1 <= Len(LoadOrder) + 1
  BY DeviceAssumption, LenProperties
<1>4. QED
  BY <1>1, <1>2, <1>3 DEF LoadedInv, FilteredInv

LEMMA BlocksStep ==
  ASSUME TypeOK, LoadedInv, FilteredInv, [Next]_vars
  PROVE  LoadedInv' /\ FilteredInv'
<1>1. CASE OpenRegs
  BY <1>1 DEF OpenRegs, db, LoadedInv, FilteredInv
<1>2. CASE Load
  <2>1. next \in Nat \ {0} /\ Len(LoadOrder) \in Nat /\ DOMAIN LoadOrder = 1 .. Len(LoadOrder)
    BY DeviceAssumption, LenProperties DEF TypeOK
  <2>2. pc = "load" /\ UNCHANGED mRegBlocks
    BY <1>2 DEF Load
  <2>3. CASE next <= Len(LoadOrder)
    <3> DEFINE block == LoadOrder[next]
    <3>1. /\ hasLoaded' = hasLoaded \cup {block}
          /\ gRegDb' = IF block \in hasLoaded THEN gRegDb ELSE Append(gRegDb, block)
          /\ next' = next + 1 /\ pc' = pc
      BY <1>2, <2>1, <2>3 DEF Load
    <3>2. next \in 1 .. Len(LoadOrder) /\ block \in STRING
      BY <2>1, <2>3, DeviceAssumption, ElementOfSeq
    <3>3. First(LoadOrder, next) = First(LoadOrder, next - 1) \cup {block}
      BY <2>1, FirstGrows
    <3>4. hasLoaded' = First(LoadOrder, next' - 1) /\ next' <= Len(LoadOrder) + 1
      BY <2>1, <2>2, <3>1, <3>2, <3>3 DEF LoadedInv
    <3>5. Elements(gRegDb)' = hasLoaded' /\ Distinct(gRegDb)'
      <4> HIDE DEF block
      <4>1. gRegDb \in Seq(STRING) /\ Elements(gRegDb) = hasLoaded /\ Distinct(gRegDb)
        BY DEF TypeOK, LoadedInv
      <4>2. Elements(gRegDb') = hasLoaded' /\ Distinct(gRegDb')
        BY <3>1, <3>2, <4>1, Added
      <4>3. QED
        BY <4>2 DEF Elements, Distinct
    <3>6. QED
      BY <2>2, <3>1, <3>4, <3>5 DEF LoadedInv, FilteredInv
  <2>4. CASE next > Len(LoadOrder)
    <3>1. pc' = "gca" /\ UNCHANGED <<hasLoaded, gRegDb, next>>
      BY <1>2, <2>1, <2>4 DEF Load
    <3>2. next - 1 = Len(LoadOrder)
      BY <2>1, <2>2, <2>4 DEF LoadedInv
    <3>3. hasLoaded = Elements(LoadOrder)
      BY <2>1, <2>2, <3>2 DEF LoadedInv, First, Elements
    <3>4. QED
      BY <2>2, <3>1, <3>3 DEF LoadedInv, FilteredInv
  <2>5. QED
    BY <2>1, <2>3, <2>4
<1>3. CASE OpenGca
  BY <1>3 DEF OpenGca, db, LoadedInv, FilteredInv
<1>4. CASE ReadGca
  <2>1. /\ UNCHANGED <<hasLoaded, gRegDb, mRegBlocks>> /\ pc = "read"
        /\ \/ pc' = "unwind"
           \/ pc' = "filter" /\ next' = 1 /\ gcaVersion' >= RequiredGcaInfoVer
    BY <1>4 DEF ReadGca
  <2>2. First(gRegDb, 1 - 1) = {} /\ Elements(<<>>) = {}
    BY DEF First, Elements
  <2>3. 1 <= Len(gRegDb) + 1
    BY LenProperties DEF TypeOK
  <2>4. QED
    BY <2>1, <2>2, <2>3 DEF LoadedInv, FilteredInv
<1>5. CASE Filter
  <2>1. next \in Nat \ {0} /\ Len(gRegDb) \in Nat /\ DOMAIN gRegDb = 1 .. Len(gRegDb)
    BY LenProperties DEF TypeOK
  <2> DEFINE block == gRegDb[next]
  <2>2. /\ pc = "filter" /\ pc' = pc /\ next <= Len(gRegDb) /\ next' = next + 1
        /\ UNCHANGED <<hasLoaded, gRegDb, gcaVersion>>
        /\ mRegBlocks' = IF Supports(block) THEN Append(mRegBlocks, block) ELSE mRegBlocks
    BY <1>5 DEF Filter
  <2>3. next \in 1 .. Len(gRegDb) /\ block \in STRING
    BY <2>1, <2>2, ElementOfSeq DEF TypeOK
  <2>4. First(gRegDb, next) = First(gRegDb, next - 1) \cup {block}
    BY <2>1, FirstGrows
  <2>5. block \notin First(gRegDb, next - 1)
    BY <2>1, <2>3 DEF LoadedInv, Distinct, First
  <2>6. Supports(block) <=> block \in Elements(Supported)
    BY DEF Supports, Elements
  <2>7. Elements(mRegBlocks) = First(gRegDb, next - 1) \cap Elements(Supported)
    BY <2>2 DEF FilteredInv
  <2>8. Elements(mRegBlocks') = First(gRegDb, next) \cap Elements(Supported)
        /\ Distinct(mRegBlocks')
    <3> HIDE DEF block
    <3>1. mRegBlocks \in Seq(STRING) /\ Distinct(mRegBlocks)
      BY DEF TypeOK, FilteredInv
    <3>2. CASE Supports(block)
      <4>1. mRegBlocks' = Append(mRegBlocks, block)
        BY <2>2, <3>2
      <4>2. block \notin Elements(mRegBlocks)
        BY <2>5, <2>7
      <4>3. Elements(mRegBlocks') = Elements(mRegBlocks) \cup {block} /\ Distinct(mRegBlocks')
        BY <2>3, <3>1, <4>1, <4>2, Added
      <4>4. QED
        BY <2>4, <2>6, <2>7, <3>2, <4>3
    <3>3. CASE ~Supports(block)
      BY <2>2, <2>4, <2>6, <2>7, <3>1, <3>3
    <3>4. QED
      BY <3>2, <3>3
  <2>9. next' - 1 = next /\ next' <= Len(gRegDb) + 1
    BY <2>1, <2>2
  <2>10. LoadedInv'
    BY <2>2 DEF LoadedInv
  <2>11. /\ Elements(mRegBlocks)' = First(gRegDb, next' - 1) \cap Elements(Supported)
         /\ Distinct(mRegBlocks)'
    BY <2>8, <2>9 DEF Elements, Distinct
  <2>12. QED
    BY <2>2, <2>9, <2>10, <2>11 DEF FilteredInv, First
<1>6. CASE Built
  <2>1. /\ pc = "filter" /\ next > Len(gRegDb) /\ pc' = "run"
        /\ UNCHANGED <<hasLoaded, gRegDb, mRegBlocks, gcaVersion>>
    BY <1>6 DEF Built, db
  <2>2. Len(gRegDb) \in Nat /\ DOMAIN gRegDb = 1 .. Len(gRegDb) /\ next \in Nat
    BY LenProperties DEF TypeOK
  <2>3. next - 1 = Len(gRegDb)
    BY <2>1, <2>2 DEF FilteredInv
  <2>4. First(gRegDb, next - 1) = Elements(gRegDb)
    BY <2>2, <2>3 DEF First, Elements
  <2>5. QED
    BY <2>1, <2>4 DEF LoadedInv, FilteredInv
<1>7. CASE Throw
  BY <1>7 DEF Throw, db, LoadedInv, FilteredInv
<1>8. CASE Exit \/ Unwind
  <2>1. UNCHANGED <<hasLoaded, gRegDb, mRegBlocks>> /\ pc' \in {"exited", "unwind"}
    BY <1>8 DEF Exit, Unwind, db
  <2>2. QED
    BY <2>1 DEF LoadedInv, FilteredInv
<1>9. CASE Terminate
  BY <1>9 DEF Terminate, db, LoadedInv, FilteredInv
<1>10. CASE UNCHANGED vars
  BY <1>10 DEF vars, LoadedInv, FilteredInv
<1>11. QED
  BY <1>1, <1>2, <1>3, <1>4, <1>5, <1>6, <1>7, <1>8, <1>9, <1>10 DEF Next

LEMMA WholeDevice == IInv /\ LoadedInv /\ FilteredInv => DeviceReady
<1> SUFFICES ASSUME IInv, LoadedInv, FilteredInv, pc = "run"
             PROVE  /\ files["amdgpu_regs"] = 1 /\ files["amdgpu_gca_config"] = 0
                    /\ gcaVersion >= RequiredGcaInfoVer
                    /\ Distinct(mRegBlocks)
                    /\ Elements(mRegBlocks) = Elements(LoadOrder) \cap Elements(Supported)
  BY DEF DeviceReady, Distinct, Elements
<1>1. Len(scopes) = 1
  BY DEF IInv, ScopesInv
<1>2. files["amdgpu_regs"] = 1 /\ files["amdgpu_gca_config"] = 0
  BY <1>1 DEF IInv, ScopesInv
<1>3. QED
  BY <1>2 DEF LoadedInv, FilteredInv

(***************************************************************************)
(* Commands run on a whole device only: with its file open, with a checked *)
(* gca_info, and with every block of the database the ASIC has, each once, *)
(* however often load_all_blocks names it.                                 *)
(***************************************************************************)
THEOREM RunsWhole == Spec => []DeviceReady
<1>1. IInv /\ LoadedInv /\ FilteredInv /\ [Next]_vars
        => (IInv /\ LoadedInv /\ FilteredInv)'
  BY StepIInv, BlocksStep DEF IInv
<1>2. Spec => [](IInv /\ LoadedInv /\ FilteredInv)
  BY <1>1, InitIInv, BlocksInit, PTL DEF Spec
<1>3. QED
  BY <1>2, WholeDevice, PTL
=============================================================================
