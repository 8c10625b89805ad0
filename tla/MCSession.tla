----------------------------- MODULE MCSession -----------------------------
(* Lines of each kind.  Numbers are three bits wide. *)
EXTENDS Session

Queue == <<Num(1), Num(0), Num(7), Num(6)>>

\* As the README gives them.
Complete ==
  { <<Word("read"), Word("TCC_CTRL")>>,
    <<Word("write"), Name("TCC_CTRL", "RATE"), Num(2)>>,
    <<Word("srbm_read")>> \o Queue \o <<Word("CP_HQD_ACTIVE")>>,
    <<Word("srbm_write")>> \o Queue \o <<Name("CP_HQD_VMID", "VMID"), Num(5)>>,
    <<Word("wave_priority")>> }

\* Without an argument, with one too many or a blank too many, with the name
\* in a selector's place, and with a number of four bits.
Odd ==
  { <<Word("write"), Word("TCC_CTRL")>>,
    <<Word("srbm_write")>> \o Queue \o <<Word("CP_HQD_VMID")>>,
    <<Word("read"), Empty, Word("TCC_CTRL")>>,
    <<Word("srbm_read"), Word("CP_HQD_ACTIVE"), Num(1), Num(9)>>,
    <<Word("write"), Word("TCC_CTRL"), Num(15), Num(3)>> }

\* No command of the device, and the two ways to leave.
Other == {<<Empty>>, <<Name("read", "x"), Word("TCC_CTRL")>>, <<Word("exit")>>, <<Word("quit")>>}

MCLines == Complete \cup Odd \cup Other
=============================================================================
