\* Heaps created and deleted, calls with and without a handle, plain and debug
\* allocations, and walks that leave the critical section to log.  The largest
\* area splits into 32, 12, 12 and 12 bytes, so that a block may be freed
\* between two free ones; both other requests take blocks of 28 bytes.
SPECIFICATION DiagSpec
CONSTANTS
  Slots = {1, 2}
  Areas <- OverlappingAreas
  Sizes = {1, 20}
  DebugSizes = {1}
  Align = 4
  HeadSize = 4
  BlockMin = 24
  FitDepth = 3
  LeakSize = 16
  WordMod = 4096
  MaxCounted = 68
  MaxMoving = 1
INVARIANTS GrantFits Tiling FullyCoalesced TagsAgree CountsAgree QuietWalkSound
PROPERTIES LostBehindGap ImplementsAllocator
CHECK_DEADLOCK FALSE
