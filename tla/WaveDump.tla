------------------------------ MODULE WaveDump ------------------------------
(***************************************************************************)
(* The commands wave_info and wave_priority: getWaveInfo opens the file    *)
(* amdgpu_wave, reads one record for every compute unit gca_info reports,  *)
(* and the command prints them once it has all of them.  The GPU starts    *)
(* and ends waves between any two reads.                                   *)
(***************************************************************************)
EXTENDS Integers, Sequences

CONSTANT Shapes   (* the numbers of se, sh and cu that gca_info may report *)

ASSUME ShapesAssumption == Shapes \subseteq [se : Nat, sh : Nat, cu : Nat]

VARIABLES
  shape,    (* mGcaInfo.max_shader_engines, max_sh_per_se, max_cu_per_sh   *)
  file,     (* amdgpu_wave: offset -> what is read there                   *)
  changed,  (* history: offsets that changed since the command began       *)
  cmd,      (* the command                                                 *)
  pc,       (* idle, open, fill, unwind, print, or how the process ended   *)
  fd,       (* the descriptor of getWaveInfo: open or closed               *)
  todo,     (* the units the loops have still to visit                     *)
  waves,    (* the vector of WaveInfo                                      *)
  out       (* what the last command printed                               *)

gpu  == <<shape, file>>
vars == <<shape, file, changed, cmd, pc, fd, todo, waves, out>>

(* wave_info records, by the VALID bit of their status. *)
Records == {"valid", "invalid"}

Units(n) == [se : 0 .. n.se - 1, sh : 0 .. n.sh - 1, cu : 0 .. n.cu - 1]

(* The order of the loops. *)
Before(u, v) == \/ u.se < v.se
                \/ u.se = v.se /\ u.sh < v.sh
                \/ u.se = v.se /\ u.sh = v.sh /\ u.cu < v.cu

(***************************************************************************)
(* The offset of a unit's first wave on its first simd.  A uint64_t is the *)
(* set of its one bits; no shift here leaves the word.                     *)
(***************************************************************************)
BitValue == <<1, 2, 4, 8, 16, 32, 64, 128>>
Byte(i)  == {b \in 0 .. 7 : (i \div BitValue[b + 1]) % 2 = 1}    \* i & 0xFF
Shift(bits, n) == {b + n : b \in bits}

OffsetSameShift(u) ==       \* mutant: the shift of se is pasted to sh
  Shift(Byte(u.se), 7) \cup Shift(Byte(u.sh), 7) \cup Shift(Byte(u.cu), 23)

Offset(u) ==                \* wave and simd are 0
  Shift(Byte(u.se), 7) \cup Shift(Byte(u.sh), 15) \cup Shift(Byte(u.cu), 23)
    \cup Shift(Byte(0), 31) \cup Shift(Byte(0), 37)

NothingPrinted == [lines |-> <<>>, total |-> -1]

----------------------------------------------------------------------------
Dispatch ==
  /\ pc = "idle"
  /\ cmd' \in {"wave_info", "wave_priority"}
  /\ pc' = "open"
  /\ changed' = {}
  /\ waves' = <<>>
  /\ out' = NothingPrinted
  /\ UNCHANGED <<gpu, fd, todo>>

OpenOneMore ==              \* mutant: <= for < in the innermost loop
  /\ pc = "open"
  /\ fd' = "open"
  /\ todo' = Units([shape EXCEPT !.cu = @ + 1])
  /\ pc' = "fill"
  /\ UNCHANGED <<gpu, changed, cmd, waves, out>>

Open ==
  /\ pc = "open"
  /\ fd' = "open"
  /\ todo' = Units(shape)
  /\ pc' = "fill"
  /\ UNCHANGED <<gpu, changed, cmd, waves, out>>

FillStale ==                \* mutant: the file position is not moved
  /\ pc = "fill"
  /\ \E u \in todo :
       /\ \A v \in todo : u = v \/ Before(u, v)
       /\ waves' = Append(waves, [unit |-> u, offset |-> Offset(u),
                                  record |-> file[CHOOSE off \in DOMAIN file : TRUE]])
       /\ todo' = todo \ {u}
  /\ UNCHANGED <<gpu, changed, cmd, pc, fd, out>>

FillWaits ==                \* mutant: a unit is read once it has a wave
  /\ pc = "fill"
  /\ \E u \in todo :
       /\ \A v \in todo : u = v \/ Before(u, v)
       /\ file[Offset(u)] = "valid"
       /\ waves' = Append(waves, [unit |-> u, offset |-> Offset(u), record |-> "valid"])
       /\ todo' = todo \ {u}
  /\ UNCHANGED <<gpu, changed, cmd, pc, fd, out>>

(* fillWaveInfo and push_back.  No version is below the required one, 0. *)
Fill ==
  /\ pc = "fill"
  /\ \E u \in todo :
       /\ \A v \in todo : u = v \/ Before(u, v)
       /\ waves' = Append(waves, [unit |-> u, offset |-> Offset(u),
                                  record |-> file[Offset(u)]])
       /\ todo' = todo \ {u}
  /\ UNCHANGED <<gpu, changed, cmd, pc, fd, out>>

(* The loops are done; the SCOPE_EXIT of getWaveInfo closes the file. *)
Return ==
  /\ pc = "fill" /\ todo = {}
  /\ fd' = "closed"
  /\ pc' = "print"
  /\ UNCHANGED <<gpu, changed, cmd, todo, waves, out>>

FillFailsReturns ==         \* mutant: what could be read is returned
  /\ pc = "fill" /\ todo # {}
  /\ todo' = {}
  /\ UNCHANGED <<gpu, changed, cmd, pc, fd, waves, out>>

(* A failed open, seek or short read throws, and main terminates... *)
OpenFails ==
  /\ pc = "open"
  /\ pc' = "terminated"
  /\ UNCHANGED <<gpu, changed, cmd, fd, todo, waves, out>>

FillFails ==
  /\ pc = "fill" /\ todo # {}
  /\ pc' = "unwind"
  /\ UNCHANGED <<gpu, changed, cmd, fd, todo, waves, out>>

UnwindKeepsFile ==          \* mutant: the guard is a SCOPE_SUCCESS
  /\ pc = "unwind"
  /\ pc' = "terminated"
  /\ UNCHANGED <<gpu, changed, cmd, fd, todo, waves, out>>

(* ... after the guard, on its way out, has closed the file. *)
Unwind ==
  /\ pc = "unwind"
  /\ fd' = "closed"
  /\ waves' = <<>>
  /\ pc' = "terminated"
  /\ UNCHANGED <<gpu, changed, cmd, todo, out>>

Valid(w) == w.record = "valid"

(* doPrintWaveInfo prints every wave, doPrintWavePriorityInfo the valid    *)
(* ones and their share of all units: position in waves -> what is shown.  *)
Lines == [i \in {j \in DOMAIN waves : cmd = "wave_info" \/ Valid(waves[j])} |-> waves[i]]

PrintWaves ==
  /\ pc = "print"
  /\ cmd = "wave_priority" => waves # <<>>
  /\ out' = [lines |-> Lines, total |-> Len(waves)]
  /\ pc' = "idle"
  /\ UNCHANGED <<gpu, changed, cmd, fd, todo, waves>>

(* Without units the share is a division by zero: SIGFPE. *)
DivideByZero ==
  /\ pc = "print"
  /\ cmd = "wave_priority" /\ waves = <<>>
  /\ pc' = "crashed"
  /\ UNCHANGED <<gpu, changed, cmd, fd, todo, waves, out>>

(* The GPU starts or ends a wave. *)
GpuRuns ==
  /\ \E off \in DOMAIN file, r \in Records :
       /\ file[off] # r
       /\ file' = [file EXCEPT ![off] = r]
       /\ changed' = changed \cup {off}
  /\ UNCHANGED <<shape, cmd, pc, fd, todo, waves, out>>

----------------------------------------------------------------------------
Init ==
  /\ shape \in Shapes
  /\ file \in [{Offset(u) : u \in Units(shape)} -> Records]
  /\ changed = {}
  /\ cmd = "wave_info"
  /\ pc = "idle"
  /\ fd = "closed"
  /\ todo = {}
  /\ waves = <<>>
  /\ out = NothingPrinted

Step == Open \/ Fill \/ Return \/ Unwind \/ PrintWaves \/ DivideByZero
Next == Dispatch \/ Step \/ OpenFails \/ FillFails \/ GpuRuns

(* The command waits for nothing; the GPU owes nothing. *)
Spec     == Init /\ [][Next]_vars
FairSpec == Spec /\ WF_vars(Step)

----------------------------------------------------------------------------
Wave == [unit : Units(shape), offset : SUBSET Nat, record : Records]

(* The type of every variable. *)
TypeOK ==
  /\ shape \in Shapes
  /\ file \in [{Offset(u) : u \in Units(shape)} -> Records]
  /\ changed \subseteq DOMAIN file
  /\ cmd \in {"wave_info", "wave_priority"}
  /\ pc \in {"idle", "open", "fill", "unwind", "print", "terminated", "crashed"}
  /\ fd \in {"open", "closed"}
  /\ todo \subseteq Units(shape)
  /\ waves \in Seq(Wave)
  /\ out = [lines |-> out.lines, total |-> out.total]
  /\ out.lines \in [DOMAIN out.lines -> Wave] /\ DOMAIN out.lines \subseteq Nat
  /\ out.total \in Nat \cup {-1}

(***************************************************************************)
(* getWaveInfo reads no place of the file twice: the bytes of different    *)
(* units do not meet in the offset.                                        *)
(***************************************************************************)
OwnOffset ==
  \A i, j \in DOMAIN waves : i # j => waves[i].offset # waves[j].offset

(***************************************************************************)
(* A command that prints has read every unit there is: one that cannot be  *)
(* read fails the command, and never shortens the list or the total that   *)
(* wave_priority relates the valid units to.                               *)
(***************************************************************************)
AllOrNothing ==
  out # NothingPrinted => out.total = shape.se * shape.sh * shape.cu

(***************************************************************************)
(* Of the units that did not change since the command began, what is       *)
(* printed is right: every line shows its own unit's record, and no unit   *)
(* with a valid wave is missing.                                           *)
(***************************************************************************)
SteadyShown ==
  out # NothingPrinted =>
    \A u \in Units(shape) : Offset(u) \notin changed =>
      LET shown == {i \in DOMAIN out.lines : out.lines[i].unit = u} IN
      /\ \A i \in shown : out.lines[i].record = file[Offset(u)]
      /\ file[Offset(u)] = "valid" => shown # {}

(* amdgpu_wave is open only while getWaveInfo is at work. *)
FileClosed == fd = "open" => pc \in {"fill", "unwind"}

(* A wave command comes to its end, whatever the GPU does meanwhile. *)
DumpEnds == pc \in {"open", "fill", "unwind", "print"}
              ~> pc \in {"idle", "terminated", "crashed"}
=============================================================================
