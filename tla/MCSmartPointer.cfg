\* Three references, got, put and deleted in every order, with and without a
\* mutex.
SPECIFICATION Spec
CONSTANTS
  Refs = {r1, r2, r3}
  MaxUint = 7
INVARIANTS NoUseAfterRelease NoLeak FreesOnce
