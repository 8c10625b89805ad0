------------------------------ MODULE MCRegGen ------------------------------
(* Two blocks, and header lines in the orders that matter. *)
EXTENDS RegGen

Def(name, addr)          == [name |-> name, addr |-> addr]
Mask(reg, field, word)   == [kind |-> "mask",  reg |-> reg, field |-> field, word |-> word]
Shift(reg, field, word)  == [kind |-> "shift", reg |-> reg, field |-> field, word |-> word]

\* A register, one of the same name (mm and ix), and another.
MCDefs == {<<Def("A", 1)>>, <<Def("A", 1), Def("B", 2), Def("A", 3)>>}

MCMasks ==
  { <<>>,
    <<Mask("A", "F", 240), Shift("A", "F", 4), Mask("A", "G", 15), Shift("A", "G", 0)>>,
    \* the shift first
    <<Shift("A", "F", 4), Mask("A", "F", 240)>>,
    \* the field twice, the second time without and with a shift
    <<Mask("A", "F", 240), Shift("A", "F", 4), Mask("A", "F", 15)>>,
    <<Mask("A", "F", 240), Shift("A", "F", 4), Mask("A", "F", 15), Shift("A", "F", 0)>>,
    \* an unknown register, and the field of another register
    <<Mask("X", "F", 240), Shift("X", "F", 4), Mask("B", "F", 3), Shift("A", "F", 1),
      Shift("B", "F", 0)>> }

MCHeaders == [defs : MCDefs, masks : MCMasks]

Plain == [defs |-> <<Def("A", 1)>>, masks |-> <<Mask("A", "F", 1), Shift("A", "F", 0)>>]

MCBlocks  == {"gca_gfx_8_0", "oss_oss_3_0"}
MCKernels == {[b \in MCBlocks |-> IF b = "gca_gfx_8_0" THEN h ELSE Plain] : h \in MCHeaders}
MCLists   == {<<"gca_gfx_8_0">>, <<"gca_gfx_8_0", "oss_oss_3_0">>,
              <<"oss_oss_3_0", "gca_gfx_8_0">>}
=============================================================================
