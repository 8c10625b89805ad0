SPECIFICATION Spec
CONSTANT MaxDepth = 6
INVARIANTS TypeOK GuardKnows
\* The thread ends.
CHECK_DEADLOCK FALSE
