\* Two threads that scan, scans that end within the wait.
SPECIFICATION FairSpec
CONSTANTS
  Threads = {"t1", "t2"}
  Handles = {"h1", "h2"}
  NULL = "null"
  SlowScans = FALSE
INVARIANTS OneScanOneSemaphore OkMeansScanned
PROPERTIES OverlapOnlyBeforeCreate EveryCallReturns
