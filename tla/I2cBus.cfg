SPECIFICATION Spec
CONSTANTS
  Tries = 3
  NoAddr = NoAddr
CHECK_DEADLOCK FALSE
INVARIANT TransferFreesBus
INVARIANT OneTransferHeals
INVARIANT FoundIsThere
