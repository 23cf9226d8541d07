\* An access faults.
SPECIFICATION Spec
CONSTANTS
  k1 = k1  k2 = k2  a1 = a1  a2 = a2  s1 = s1  s2 = s2
  Keys <- OneKey
  Addrs <- TwoAddrs
  Stacks <- OneStack
  Footprints <- ReadAndUpdate
  MaxDefInstrs = 2
  GuestMaxInsns = 2
  MayFault = TRUE
  MayGuard = FALSE
  MayUnsupported = FALSE
  MaxStmts = 3
  MaxTranslations = 2
  MaxRuns = 2
  MaxEvents = 0
INVARIANT FlushAssertion
