\* No faults and no guarded accesses: every block run is reported exactly.
SPECIFICATION Spec
CONSTANTS
  k1 = k1  k2 = k2  a1 = a1  a2 = a2  s1 = s1  s2 = s2
  Keys <- TwoKeys
  Addrs <- TwoAddrs
  Stacks <- TwoStacks
  Footprints <- Update
  MaxDefInstrs = 2
  GuestMaxInsns = 2
  MayFault = FALSE
  MayGuard = FALSE
  MayUnsupported = FALSE
  MaxStmts = 3
  MaxTranslations = 2
  MaxRuns = 2
  MaxEvents = 1
SYMMETRY Interchangeable
INVARIANTS TypeOK WellReferenced FaithfulRuns EventPlacement FlushAssertion
PROPERTY RecorderSpec
