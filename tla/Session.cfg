SPECIFICATION FairSpec
CONSTANTS
  Lines <- MCLines
  Modulus = 8
  MaxLines = 3
INVARIANTS TypeOK AsTyped
PROPERTY SessionEnds
\* The session ends.
CHECK_DEADLOCK FALSE
