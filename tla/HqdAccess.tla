------------------------------ MODULE HqdAccess ------------------------------
(***************************************************************************)
(* hqd_info down to its accesses: the loops of HqdDump, in which every     *)
(* srbmRead stores the queue's numbers in SRBM_GFX_CNTL, reads the         *)
(* register and stores zero again.  The register that answers is that of   *)
(* the queue whose numbers the fields of SRBM_GFX_CNTL hold.               *)
(*                                                                         *)
(* gputool is alone, as everywhere its reads are to be relied upon.        *)
(***************************************************************************)
EXTENDS HqdDump, RegWord

CONSTANTS
  CntlFields, (* the fields of SRBM_GFX_CNTL: name -> mask and shift       *)
  Binary      (* the numbers of ME, pipes and queues: number -> word       *)

(* The arguments of the srbmRead for a queue of ME 1. *)
Numbers(pipe, queue) ==
  [PIPEID |-> Binary[pipe], MEID |-> Binary[1], VMID |-> Binary[0],
   QUEUEID |-> Binary[queue]]

Args(q)   == Numbers(q[1], q[2])
SelFields == {"PIPEID", "MEID", "VMID", "QUEUEID"}

ASSUME HqdAccessAssumption ==
  /\ CntlFields \in [SelFields -> Field]
  /\ \A k, l \in SelFields :
       k # l => CntlFields[k].mask \cap CntlFields[l].mask = {}
  /\ Binary[0] = Zero
  /\ \A q \in Slots : \A k \in SelFields : Fits(Args(q)[k], CntlFields[k])
  /\ \A q, r \in Slots : Args(q) = Args(r) => q = r

VARIABLES
  selector,   (* SRBM_GFX_CNTL                                             *)
  stage       (* of the srbmRead: select, access, clear or unwind          *)

accessVars == <<vars, selector, stage>>

----------------------------------------------------------------------------
SelectArgsSwapped(q) == Numbers(q[2], q[1])   \* mutant: pipe and queue swapped

(* srbmSelect's arguments in srbmRead. *)
SelectArgs(q) == Args(q)

ClearWord == SelectWord(CntlFields, [k \in SelFields |-> Zero])

(* The hardware: the numbers in the fields of SRBM_GFX_CNTL, and the word  *)
(* of the queue they select; with no queue of ME 1 selected there is none. *)
Selected(word) ==
  [PIPEID  |-> ExtractField(word, CntlFields.PIPEID),
   MEID    |-> ExtractField(word, CntlFields.MEID),
   VMID    |-> ExtractField(word, CntlFields.VMID),
   QUEUEID |-> ExtractField(word, CntlFields.QUEUEID)]

Load(word, name) ==
  LET numbers == Selected(word) IN
  IF \E q \in Slots : Args(q) = numbers
  THEN hqd[CHOOSE q \in Slots : Args(q) = numbers][name]
  ELSE {}

Select ==
  /\ Busy /\ stage = "select"
  /\ selector' = SelectWord(CntlFields, SelectArgs(at))
  /\ stage' = "access"
  /\ UNCHANGED vars

Access ==
  /\ Busy /\ stage = "access"
  /\ val' = Load(selector, Reg)
  /\ got' = TRUE
  /\ stage' = "clear"
  /\ UNCHANGED <<hqd, changed, pc, at, next, printed, selector>>

ClearForgotten ==           \* mutant: the selection stays
  /\ stage = "clear"
  /\ stage' = "select"
  /\ Test \/ Dump
  /\ UNCHANGED selector

(* The guard of srbmRead; and then doPrintHqdInfo goes on with the word.   *)
Clear ==
  /\ stage = "clear"
  /\ selector' = ClearWord
  /\ stage' = "select"
  /\ Test \/ Dump

(* The access throws: the guard runs, and main ends the process. *)
AccessFails ==
  /\ Busy /\ stage = "access"
  /\ stage' = "unwind"
  /\ UNCHANGED <<vars, selector>>

Unwind ==
  /\ stage = "unwind"
  /\ ReadFails
  /\ selector' = ClearWord
  /\ stage' = "select"

(* The select throws, which has no guard yet; the guard throws, which is   *)
(* noexcept; or a signal ends the process, wherever it is.                 *)
Dies ==
  /\ ReadFails
  /\ UNCHANGED <<selector, stage>>

----------------------------------------------------------------------------
AccessInit ==
  /\ Init
  /\ selector = Zero
  /\ stage = "select"

AccessStep == Select \/ Access \/ Clear \/ Unwind

AccessNext ==
  \/ AccessStep
  \/ AccessFails
  \/ Dies
  \/ (Dispatch \/ GpuRuns) /\ UNCHANGED <<selector, stage>>

(* Nothing in hqd_info waits for anything but the processor. *)
AccessSpec     == AccessInit /\ [][AccessNext]_accessVars
FairAccessSpec == AccessSpec /\ WF_accessVars(AccessStep)

----------------------------------------------------------------------------
(***************************************************************************)
(* The type of every variable, and the place of the loops at each stage.   *)
(***************************************************************************)
AccessTypeOK ==
  /\ TypeOK
  /\ selector \in Word
  /\ stage \in {"select", "access", "clear", "unwind"}
  /\ got <=> stage = "clear"
  /\ stage # "select" => pc # "idle"

(***************************************************************************)
(* hqd_info leaves no queue selected: SRBM_GFX_CNTL is zero between its    *)
(* reads and after it, however it ended, unless it died inside a read with *)
(* its guard still to run or throwing.                                     *)
(***************************************************************************)
SelectionCleared == stage = "select" => selector = Zero

(***************************************************************************)
(* With its accesses, hqd_info implements HqdDump: each read returns the   *)
(* word of the very queue the loops are at, and what is printed, and the   *)
(* properties of that, are HqdDump's.                                      *)
(***************************************************************************)
HqdSpec == Spec
=============================================================================
