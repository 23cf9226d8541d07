\* Fields of every width at every fill of a small buffer; short writes, a forked child, a
\* process that is killed.
SPECIFICATION Spec
CONSTANTS
  p1 = p1  p2 = p2
  Procs <- TwoProcs
  Root = p1
  W = 2
  Esc = 10
  LenW = 2
  MagicLen = 2
  BufSize = 7
  StackDepth = 1
  MaxIps = 4
  LabelMax = 1
  Records <- MixedWidths
  MayFail = TRUE
  MayFork = TRUE
  MayDie = TRUE
  MaxRecords = 2
INVARIANT OnlyGaps
