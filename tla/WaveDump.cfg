SPECIFICATION FairSpec
CONSTANT Shapes <- MCShapes
INVARIANTS TypeOK OwnOffset AllOrNothing SteadyShown FileClosed
PROPERTY DumpEnds
\* The command may have terminated the process.
CHECK_DEADLOCK FALSE
