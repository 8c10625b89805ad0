SPECIFICATION Spec
CONSTANTS
  LoadOrder <- MCLoadOrder
  Supported <- MCSupported
  Versions = {0, 1, 2, 3}
INVARIANT NothingMissing
\* The process ends.
CHECK_DEADLOCK FALSE
