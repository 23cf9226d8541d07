\* Three threads and one fatal signal from outside.
SPECIFICATION Spec
CONSTANTS
  VG_N_THREADS = 4
  MaxSignals = 1
INVARIANTS OneRunner SlotsFree OneReaper
PROPERTIES ProcessSpec ExitTerminates ToldToExit
