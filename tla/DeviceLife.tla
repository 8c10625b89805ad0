----------------------------- MODULE DeviceLife -----------------------------
(***************************************************************************)
(* The life of gputool's AmdGpuDevice: the constructor opens amdgpu_regs,  *)
(* loads the register database, reads gca_info and keeps the blocks of the *)
(* ASIC; main runs commands; the destructor closes amdgpu_regs.  Each step *)
(* may throw, and the scopes that were entered are then left innermost     *)
(* first, before main terminates.                                          *)
(***************************************************************************)
EXTENDS Integers, Sequences, FiniteSets

CONSTANTS
  LoadOrder,  (* the blocks load_all_blocks loads, in its order            *)
  Supported,  (* what populateSupportedBlocks lists for the ASIC           *)
  Versions    (* versions of gca_info a driver may report                  *)

ASSUME DeviceAssumption ==
  /\ LoadOrder \in Seq(STRING) /\ Supported \in Seq(STRING)
  /\ Versions \subseteq Nat

RequiredGcaInfoVer == 2

VARIABLES
  pc,         (* the step of the constructor, run, unwind, or the end      *)
  files,      (* file -> descriptors opened and not closed                 *)
  scopes,     (* what runs when the scopes the process is in are left      *)
  hasLoaded,  (* blocks whose load_ function has run                       *)
  gRegDb,     (* the loaded blocks                                         *)
  next,       (* the loops' position in LoadOrder and in gRegDb            *)
  gcaVersion, (* mGcaInfo.version; -1 before it is read                    *)
  mRegBlocks  (* the blocks of the device                                  *)

vars == <<pc, files, scopes, hasLoaded, gRegDb, next, gcaVersion, mRegBlocks>>
db   == <<hasLoaded, gRegDb, next, mRegBlocks>>

Files == {"amdgpu_regs", "amdgpu_gca_config"}

(* A SCOPE_FAIL or SCOPE_EXIT guard that closes file, or the device.       *)
Scope == [kind : {"fail", "exit", "device"}, file : Files]

Enter(kind, file) == scopes' = Append(scopes, [kind |-> kind, file |-> file])
Top      == scopes[Len(scopes)]
LeaveTop == scopes' = SubSeq(scopes, 1, Len(scopes) - 1)

Opened(f) == files' = [files EXCEPT ![f] = @ + 1]
Closed(f) == files' = [files EXCEPT ![f] = @ - 1]

SupportsFirst(block) == block = Supported[1]     \* mutant: returns in the loop

(* supportsBlock *)
Supports(block) == \E i \in DOMAIN Supported : Supported[i] = block

----------------------------------------------------------------------------
(***************************************************************************)
(* The constructor.                                                        *)
(***************************************************************************)
OpenRegs ==
  /\ pc = "start"
  /\ Opened("amdgpu_regs")
  /\ Enter("fail", "amdgpu_regs")
  /\ pc' = "load"
  /\ UNCHANGED <<db, gcaVersion>>

(* load_all_blocks *)
Load ==
  /\ pc = "load"
  /\ \/ /\ next <= Len(LoadOrder)
        /\ hasLoaded' = hasLoaded \cup {LoadOrder[next]}
        /\ gRegDb' = IF LoadOrder[next] \in hasLoaded THEN gRegDb
                     ELSE Append(gRegDb, LoadOrder[next])
        /\ next' = next + 1
        /\ UNCHANGED pc
     \/ /\ next > Len(LoadOrder)
        /\ pc' = "gca"
        /\ UNCHANGED <<hasLoaded, gRegDb, next>>
  /\ UNCHANGED <<files, scopes, gcaVersion, mRegBlocks>>

(* populateGcaInfo *)
OpenGca ==
  /\ pc = "gca"
  /\ Opened("amdgpu_gca_config")
  /\ Enter("exit", "amdgpu_gca_config")
  /\ pc' = "read"
  /\ UNCHANGED <<db, gcaVersion>>

ReadGcaUnchecked ==          \* mutant: the version is not checked
  /\ pc = "read"
  /\ gcaVersion' \in Versions
  /\ LeaveTop /\ Closed(Top.file)
  /\ pc' = "filter" /\ next' = 1
  /\ UNCHANGED <<hasLoaded, gRegDb, mRegBlocks>>

ReadGca ==
  /\ pc = "read"
  /\ \E v \in Versions :
       /\ gcaVersion' = v
       /\ \/ /\ v < RequiredGcaInfoVer
             /\ pc' = "unwind"
             /\ UNCHANGED <<files, scopes, next>>
          \/ /\ v >= RequiredGcaInfoVer
             /\ LeaveTop /\ Closed(Top.file)
             /\ pc' = "filter" /\ next' = 1
  /\ UNCHANGED <<hasLoaded, gRegDb, mRegBlocks>>

(* The loop over gRegDb. *)
Filter ==
  /\ pc = "filter" /\ next <= Len(gRegDb)
  /\ mRegBlocks' = IF Supports(gRegDb[next]) THEN Append(mRegBlocks, gRegDb[next])
                   ELSE mRegBlocks
  /\ next' = next + 1
  /\ UNCHANGED <<pc, files, scopes, hasLoaded, gRegDb, gcaVersion>>

BuiltClosing ==              \* mutant: the guard is a SCOPE_EXIT
  /\ pc = "filter" /\ next > Len(gRegDb)
  /\ scopes' = <<[kind |-> "device", file |-> "amdgpu_regs"]>>
  /\ Closed("amdgpu_regs")
  /\ pc' = "run"
  /\ UNCHANGED <<db, gcaVersion>>

(* Its end: the SCOPE_FAIL guard closes nothing, and there is a device.    *)
Built ==
  /\ pc = "filter" /\ next > Len(gRegDb)
  /\ scopes' = [scopes EXCEPT ![Len(scopes)].kind = "device"]
  /\ pc' = "run"
  /\ UNCHANGED <<files, db, gcaVersion>>

----------------------------------------------------------------------------
(* An open, a read or an allocation fails, or a command of run does. *)
Throw ==
  /\ pc \notin {"unwind", "exited", "terminated"}
  /\ pc' = "unwind"
  /\ UNCHANGED <<files, scopes, db, gcaVersion>>

(* run or runSingle returns, and the device is destroyed. *)
Exit ==
  /\ pc = "run"
  /\ LeaveTop /\ Closed(Top.file)
  /\ pc' = "exited"
  /\ UNCHANGED <<db, gcaVersion>>

UnwindTwice ==               \* mutant: the destructor runs after the guard
  /\ pc = "unwind" /\ scopes # <<>>
  /\ LeaveTop /\ files' = [files EXCEPT ![Top.file] = @ - 2]
  /\ UNCHANGED <<pc, db, gcaVersion>>

(* Every kind of scope closes its file when an exception leaves it. *)
Unwind ==
  /\ pc = "unwind" /\ scopes # <<>>
  /\ LeaveTop /\ Closed(Top.file)
  /\ UNCHANGED <<pc, db, gcaVersion>>

Terminate ==
  /\ pc = "unwind" /\ scopes = <<>>
  /\ pc' = "terminated"
  /\ UNCHANGED <<files, scopes, db, gcaVersion>>

----------------------------------------------------------------------------
Init ==
  /\ pc = "start"
  /\ files = [f \in Files |-> 0]
  /\ scopes = <<>>
  /\ hasLoaded = {}
  /\ gRegDb = <<>>
  /\ next = 1
  /\ gcaVersion = -1
  /\ mRegBlocks = <<>>

Next == \/ OpenRegs \/ Load \/ OpenGca \/ ReadGca \/ Filter \/ Built
        \/ Throw \/ Exit \/ Unwind \/ Terminate

Spec == Init /\ [][Next]_vars

----------------------------------------------------------------------------
(* The type of every variable. *)
TypeOK ==
  /\ pc \in {"start", "load", "gca", "read", "filter", "run",
             "unwind", "exited", "terminated"}
  /\ files \in [Files -> Nat]
  /\ scopes \in Seq(Scope)
  /\ hasLoaded \subseteq {LoadOrder[i] : i \in DOMAIN LoadOrder}
  /\ gRegDb \in Seq(STRING)
  /\ next \in Nat \ {0}
  /\ gcaVersion \in Nat \cup {-1}
  /\ mRegBlocks \in Seq(STRING)

(***************************************************************************)
(* Every open descriptor has exactly one owner that will close it: a guard *)
(* of the constructor and then the device, never both and never neither.   *)
(* So nothing is closed twice, and nothing is open when the process is     *)
(* done.                                                                   *)
(***************************************************************************)
OwnedOnce ==
  /\ \A f \in Files : files[f] = Cardinality({i \in DOMAIN scopes : scopes[i].file = f})
  /\ pc \in {"exited", "terminated"} => \A f \in Files : files[f] = 0

(***************************************************************************)
(* When commands run, the device is whole: amdgpu_regs is open, gca_info   *)
(* has the fields commands use, and the blocks are those loaded blocks the *)
(* ASIC has, each once.                                                    *)
(***************************************************************************)
DeviceReady ==
  pc = "run" =>
    /\ files["amdgpu_regs"] = 1 /\ files["amdgpu_gca_config"] = 0
    /\ gcaVersion >= RequiredGcaInfoVer
    /\ \A i, j \in DOMAIN mRegBlocks : mRegBlocks[i] = mRegBlocks[j] => i = j
    /\ {mRegBlocks[i] : i \in DOMAIN mRegBlocks}
         = {LoadOrder[i] : i \in DOMAIN LoadOrder} \cap {Supported[i] : i \in DOMAIN Supported}

(* When commands run, no block of the ASIC is missing. *)
NothingMissing ==
  pc = "run" =>
    \A i \in DOMAIN Supported : \E j \in DOMAIN mRegBlocks : mRegBlocks[j] = Supported[i]
=============================================================================
