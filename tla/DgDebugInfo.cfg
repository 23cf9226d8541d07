\* Objects loaded and unloaded at two addresses.
SPECIFICATION Spec
CONSTANTS
  f1 = f1  f2 = f2  f3 = f3  b1 = b1  b2 = b2  p1 = p1  p2 = p2  p3 = p3
  Files <- ThreeFiles
  Bases <- TwoBases
  Ptrs <- ThreePtrs
  MaxLoads = 4
SYMMETRY Interchangeable
INVARIANTS TypeOK AnnouncedOnce PlacedWhenRun
