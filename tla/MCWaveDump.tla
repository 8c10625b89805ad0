----------------------------- MODULE MCWaveDump -----------------------------
(* Small GPUs: every loop runs more than once, or not at all. *)
EXTENDS WaveDump

Shape(se, sh, cu) == [se |-> se, sh |-> sh, cu |-> cu]

MCShapes == {Shape(2, 2, 1), Shape(1, 2, 2), Shape(2, 1, 2), Shape(1, 1, 3),
             Shape(0, 1, 1), Shape(2, 0, 1), Shape(1, 2, 0)}
=============================================================================
