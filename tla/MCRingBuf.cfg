\* A ring of 4 cells: requests that fill it, that wrap and that do not.
SPECIFICATION Spec
CONSTANTS
  BufLen = 4
  MaxReq = 4
  MaxBytes = 12
  Preempts <- WriterInterrupts
INVARIANTS ReadsInOrder RoomExact
PROPERTY ImplementsFifo
CHECK_DEADLOCK FALSE
