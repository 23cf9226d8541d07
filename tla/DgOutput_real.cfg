\* Records as a 64-bit build writes them, lengths on both sides of the escape; the
\* buffer and the longest stack are cut so that it fills several times.
SPECIFICATION Spec
CONSTANTS
  p1 = p1  p2 = p2
  Procs <- OneProc
  Root = p1
  W = 8
  Esc = 255
  LenW = 8
  MagicLen = 11
  BufSize = 250
  StackDepth = 8
  MaxIps = 33
  LabelMax = 64
  Records <- AroundEscape
  MayFail = FALSE
  MayFork = FALSE
  MayDie = TRUE
  MaxRecords = 2
INVARIANTS TypeOK NothingLost Skippable
PROPERTY RecorderSpec
