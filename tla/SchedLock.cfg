\* Three threads, two futexes, words that wrap around at 4; both implementations.
SPECIFICATION Spec
CONSTANTS
  t1 = t1  t2 = t2  t3 = t3
  Nobody = Nobody
  Threads <- ThreeThreads
  Impls <- Both
  Word = 4
  TL_FUTEX_COUNT = 2
INVARIANTS TypeOK MutualExclusion OwnerAssertions
PROPERTY LockSpec
