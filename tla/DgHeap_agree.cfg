\* Malloc, calloc, realloc, free and the client's own allocator.
SPECIFICATION Spec
CONSTANTS
  a1 = a1  a2 = a2  a3 = a3  c1 = c1  c2 = c2
  Arena <- ThreeChunks
  Custom <- TwoCustom
  Sizes <- ZeroToThree
  Align = 2
  MaxWord = 5
  MaxAllocs = 4
SYMMETRY Interchangeable
INVARIANTS TypeOK ReaderAgrees TableAgrees StillAllocated
