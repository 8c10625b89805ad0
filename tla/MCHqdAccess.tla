----------------------------- MODULE MCHqdAccess -----------------------------
(***************************************************************************)
(* The command as it is: four pipes of eight queues, the six registers and *)
(* the fields of SRBM_GFX_CNTL in amdregdb/oss/oss_3_0.h.                  *)
(***************************************************************************)
EXTENDS HqdAccess, TLC

MCRegs == <<"CP_HQD_ACTIVE", "CP_HQD_VMID", "CP_HQD_PIPE_PRIORITY",
            "CP_HQD_QUEUE_PRIORITY", "CP_HQD_QUANTUM", "CP_HQD_ERROR">>

MCCntlFields ==
  [PIPEID  |-> [mask |-> 0 .. 1,  shift |-> 0],
   MEID    |-> [mask |-> 2 .. 3,  shift |-> 2],
   VMID    |-> [mask |-> 4 .. 7,  shift |-> 4],
   QUEUEID |-> [mask |-> 8 .. 10, shift |-> 8]]

MCBinary == 0 :> {}     @@ 1 :> {0}    @@ 2 :> {1}    @@ 3 :> {0, 1} @@
            4 :> {2}    @@ 5 :> {0, 2} @@ 6 :> {1, 2} @@ 7 :> {0, 1, 2}

MCActiveWords == {{}, {"ACTIVE"}}
MCWords       == {{}, {"VMID"}, {"SCRATCH"}}

\* Every queue has words of its own, as far as there are some.
Filled(active) ==
  [q \in Slots |-> [name \in Names |->
     CASE name = "CP_HQD_ACTIVE" -> IF q \in active THEN {"ACTIVE"} ELSE {}
       [] name = "CP_HQD_VMID"   -> IF q[1] % 2 = 1 THEN {"VMID"} ELSE {}
       [] OTHER                  -> IF q[2] % 2 = 1 THEN {"SCRATCH"} ELSE {}]]

MCInitial  == {Filled({<<0, 1>>, <<2, 3>>, <<3, 7>>})}
MCRestless == {<<<<0, 1>>, "CP_HQD_ACTIVE">>, <<<<3, 7>>, "CP_HQD_ACTIVE">>}
=============================================================================
