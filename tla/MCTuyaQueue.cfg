\* Two threads that call every operation.
SPECIFICATION Spec
CONSTANTS
  Threads = {"t1", "t2"}
  Free = "free"
  NoItem = "no item"
  May <- MayAll
  Values = {"a", "b", "c"}
  Lengths = {1, 2}
  MaxBatch = 2
INVARIANTS PlacesAddUp NeverOverfull FreeNumNearlyRight DeletedWereRead
PROPERTY ImplementsDeque
