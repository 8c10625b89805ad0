------------------------------ MODULE HqdDump ------------------------------
(***************************************************************************)
(* The command hqd_info: for every pipe and queue of ME 1, doPrintHqdInfo  *)
(* reads CP_HQD_ACTIVE and, if it is not zero, reads and prints the six    *)
(* registers of hqdRegs, the first of them CP_HQD_ACTIVE once more.        *)
(*                                                                         *)
(* Here an srbmRead gets the word of the queue it names in one step, and   *)
(* returns with it; HqdAccess shows that its accesses amount to that.  The *)
(* GPU starts, ends and updates queues between any two steps.              *)
(***************************************************************************)
EXTENDS Naturals, Sequences, FiniteSets

CONSTANTS
  Pipes,      (* the loops' limits: 4 pipes, of 8 queues each              *)
  Queues,
  Regs,       (* hqdRegs: a sequence of register names                     *)
  ActiveWords,(* words CP_HQD_ACTIVE may have, as sets of field names      *)
  Words,      (* words of the other registers                              *)
  Initial,    (* bound: what the queues hold when gputool starts           *)
  Restless    (* bound: the registers that change: queue and name          *)

Slots == (0 .. Pipes - 1) \X (0 .. Queues - 1)     (* iPipe, iQueue *)
Names == {Regs[i] : i \in DOMAIN Regs}
Contents == [Slots -> [Names -> ActiveWords \cup Words]]
WordsOf(name) == IF name = "CP_HQD_ACTIVE" THEN ActiveWords ELSE Words

ASSUME HqdAssumption ==
  /\ Pipes \in Nat /\ Queues \in Nat
  /\ Regs \in Seq(STRING) /\ Regs # <<>>
  /\ Regs[1] = "CP_HQD_ACTIVE"
  /\ \A i, j \in DOMAIN Regs : Regs[i] = Regs[j] => i = j
  /\ ActiveWords \subseteq SUBSET {"ACTIVE", "BUSY_GATE"}
  /\ Initial \subseteq Contents
  /\ Restless \subseteq Slots \X Names

VARIABLES
  hqd,        (* the GPU: queue -> register -> word                        *)
  changed,    (* history: queues that changed since the command began      *)
  pc,         (* idle, test, dump, or terminated                           *)
  at,         (* the queue the loops are at                                *)
  next,       (* position in hqdRegs                                       *)
  got,        (* the srbmRead of this position has its word                *)
  val,        (* that word, until it is used                               *)
  printed     (* the registers that were printed: queue, register, word    *)

vars == <<hqd, changed, pc, at, next, got, val, printed>>

----------------------------------------------------------------------------
Busy == pc \in {"test", "dump"}

(* The register that is read: the loop over hqdRegs, or the test before.   *)
Reg == IF pc = "test" THEN "CP_HQD_ACTIVE" ELSE Regs[next]

SrbmRead ==
  /\ Busy /\ ~got
  /\ val' = hqd[at][Reg]
  /\ got' = TRUE
  /\ UNCHANGED <<hqd, changed, pc, at, next, printed>>

MoreRegsOff   == next <= Len(Regs)          \* mutant: one register too many
MoreRegsEarly == next + 1 < Len(Regs)       \* mutant: the last one left out

(* The loop over hqdRegs goes on. *)
MoreRegs == next < Len(Regs)

NextSlot(q) == IF q[2] + 1 < Queues THEN <<q[1], q[2] + 1>> ELSE <<q[1] + 1, 0>>

(* On to the next queue, or out of the loops. *)
Advance ==
  /\ at' = NextSlot(at)
  /\ pc' = IF NextSlot(at) \in Slots THEN "test" ELSE "idle"

Dispatch ==
  /\ pc = "idle"
  /\ at' = <<0, 0>>
  /\ pc' = IF <<0, 0>> \in Slots THEN "test" ELSE "idle"
  /\ changed' = {}
  /\ printed' = <<>>
  /\ UNCHANGED <<hqd, next, got, val>>

Test ==
  /\ pc = "test" /\ got
  /\ got' = FALSE
  /\ \/ /\ val # {}
        /\ pc' = "dump"
        /\ next' = 1
        /\ UNCHANGED at
     \/ /\ val = {}
        /\ Advance
        /\ UNCHANGED next
  /\ val' = {}
  /\ UNCHANGED <<hqd, changed, printed>>

DumpActiveOnly ==           \* mutant: goes on with a queue while it is active
  /\ pc = "dump" /\ got
  /\ hqd[at]["CP_HQD_ACTIVE"] # {}
  /\ got' = FALSE
  /\ printed' = Append(printed, [queue |-> at, reg |-> Reg, word |-> val])
  /\ next' = next + 1
  /\ IF MoreRegs THEN UNCHANGED <<pc, at>> ELSE Advance
  /\ val' = {}
  /\ UNCHANGED <<hqd, changed>>

Dump ==
  /\ pc = "dump" /\ got
  /\ got' = FALSE
  /\ printed' = Append(printed, [queue |-> at, reg |-> Reg, word |-> val])
  /\ next' = next + 1
  /\ IF MoreRegs THEN UNCHANGED <<pc, at>> ELSE Advance
  /\ val' = {}
  /\ UNCHANGED <<hqd, changed>>

(* An srbmRead throws, and nothing catches it but main; or it ends the     *)
(* process; or a signal does.                                              *)
ReadFails ==
  /\ Busy
  /\ pc' = "terminated"
  /\ UNCHANGED <<hqd, changed, at, next, got, val, printed>>

GpuRuns ==
  /\ \E r \in Restless : \E w \in WordsOf(r[2]) :
       /\ hqd[r[1]][r[2]] # w
       /\ hqd' = [hqd EXCEPT ![r[1]][r[2]] = w]
       /\ changed' = changed \cup {r[1]}
  /\ UNCHANGED <<pc, at, next, got, val, printed>>

----------------------------------------------------------------------------
Init ==
  /\ hqd \in Initial
  /\ changed = {}
  /\ pc = "idle"
  /\ at = <<0, 0>>
  /\ next = 1
  /\ got = FALSE
  /\ val = {}
  /\ printed = <<>>

Step == SrbmRead \/ Test \/ Dump
Next == Dispatch \/ Step \/ ReadFails \/ GpuRuns

Spec == Init /\ [][Next]_vars

----------------------------------------------------------------------------
(* The type of every variable. *)
TypeOK ==
  /\ hqd \in Contents
  /\ changed \subseteq Slots
  /\ pc \in {"idle", "test", "dump", "terminated"}
  /\ Busy => at \in Slots
  /\ next \in 1 .. Len(Regs) + 1
  /\ pc = "dump" => next \in DOMAIN Regs
  /\ got \in BOOLEAN
  /\ pc = "idle" => ~got
  /\ Busy /\ got => val \in ActiveWords \cup Words
  /\ printed \in Seq([queue : Slots, reg : Names, word : ActiveWords \cup Words])

(* The order of the loops. *)
Before(q, r) == q[1] < r[1] \/ (q[1] = r[1] /\ q[2] < r[2])

(***************************************************************************)
(* What is printed is a list of whole records: every queue that is shown   *)
(* is shown once, in the order of the pipes and queues, with each register *)
(* of hqdRegs in its place; only the last record may still be cut short.   *)
(***************************************************************************)
Place(i) == ((i - 1) % Len(Regs)) + 1

WholeRecords ==
  /\ \A i \in DOMAIN printed : printed[i].reg = Regs[Place(i)]
  /\ \A i \in 2 .. Len(printed) :
       IF Place(i) = 1
       THEN Before(printed[i - 1].queue, printed[i].queue)
       ELSE printed[i - 1].queue = printed[i].queue
  /\ pc = "idle" => Len(printed) % Len(Regs) = 0

(***************************************************************************)
(* Of the queues that did not change since the command began, the dump is  *)
(* right: those with CP_HQD_ACTIVE set are shown, no other is, and every   *)
(* register has the word its own queue holds.                              *)
(***************************************************************************)
SteadyShown ==
  /\ \A i \in DOMAIN printed :
       LET q == printed[i].queue IN
       q \notin changed => /\ hqd[q]["CP_HQD_ACTIVE"] # {}
                           /\ printed[i].word = hqd[q][printed[i].reg]
  /\ pc = "idle" /\ at \notin Slots =>
       \A q \in Slots \ changed :
         hqd[q]["CP_HQD_ACTIVE"] # {} => \E i \in DOMAIN printed : printed[i].queue = q

(* The dump comes to its end, whatever the GPU does meanwhile. *)
DumpEnds == Busy ~> ~Busy
=============================================================================
