----------------------------- MODULE MCSchedLock -----------------------------
(* Small instances of SchedLock for TLC.                                   *)
EXTENDS SchedLock

CONSTANTS t1, t2, t3

ThreeThreads == {t1, t2, t3}
Both == {"generic", "ticket"}
=============================================================================
