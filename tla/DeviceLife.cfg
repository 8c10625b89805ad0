SPECIFICATION Spec
CONSTANTS
  LoadOrder <- MCLoadOrder
  Supported <- MCSupported
  Versions = {0, 1, 2, 3}
INVARIANTS TypeOK OwnedOnce DeviceReady
\* The process ends.
CHECK_DEADLOCK FALSE
