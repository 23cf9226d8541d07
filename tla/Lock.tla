-------------------------------- MODULE Lock --------------------------------
(***************************************************************************)
(* What Valgrind's core expects of its big lock: it is held by one thread  *)
(* at a time, it passes to a thread that asked for it, and as long as      *)
(* threads wait for it somebody gets it.  fifo tells whether threads get   *)
(* it in the order in which they asked, which --fair-sched promises and    *)
(* the portable implementation does not.  A forked child starts again with *)
(* the thread that forked, which holds its copy of the lock.               *)
(***************************************************************************)
EXTENDS Sequences, SequencesExt

CONSTANTS Threads, Nobody

VARIABLES fifo,   \* order of arrival is kept
          queue,  \* the threads that wait, in order of arrival
          holder  \* the thread that has the lock, or Nobody

vars == <<fifo, queue, holder>>

Init == fifo \in BOOLEAN /\ queue = <<>> /\ holder = Nobody

Ask(t) ==
  /\ holder # t /\ ~Contains(queue, t)
  /\ queue' = Append(queue, t)
  /\ UNCHANGED <<fifo, holder>>

Get(t) ==
  /\ holder = Nobody /\ Contains(queue, t)
  /\ fifo => Head(queue) = t
  /\ holder' = t /\ queue' = RemoveFirst(queue, t)
  /\ UNCHANGED fifo

Release(t) ==
  /\ holder = t /\ holder' = Nobody
  /\ UNCHANGED <<fifo, queue>>

Fork(t) ==
  /\ holder = t /\ queue' = <<>>
  /\ UNCHANGED <<fifo, holder>>

Grant == \E t \in Threads : Get(t)

Next == Grant \/ \E t \in Threads : Ask(t) \/ Release(t) \/ Fork(t)

Spec == Init /\ [][Next]_vars /\ WF_vars(Grant)
=============================================================================
