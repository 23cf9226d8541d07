------------------------------ MODULE Process ------------------------------
(***************************************************************************)
(* How the threads of a process come and go, and how the process ends.     *)
(* Threads are started by threads that are not to exit; a thread that was  *)
(* told to exit stays so until it leaves; nobody leaves untold.  The last  *)
(* one does not leave but ends the process, and nothing happens any more.  *)
(***************************************************************************)
CONSTANTS Threads,
          Failures   \* the ways to end that are nobody's wish

VARIABLES
  alive,   \* the threads there are
  told,    \* those of them that are to exit
  state    \* "on", or how the process ended

Init == (\E t \in Threads : alive = {t}) /\ told = {} /\ state = "on"

Start(t) ==
  /\ t \notin alive /\ alive # told
  /\ alive' = alive \cup {t}
  /\ UNCHANGED <<told, state>>

Tell(t) ==
  /\ t \in alive
  /\ told' = told \cup {t}
  /\ UNCHANGED <<alive, state>>

Leave(t) ==
  /\ t \in told /\ alive # {t}
  /\ alive' = alive \ {t} /\ told' = told \ {t}
  /\ UNCHANGED state

\* The process goes on as the child, in which the thread that forked is alone.
Fork(t) ==
  /\ t \in alive \ told
  /\ alive' = {t} /\ told' = {}
  /\ UNCHANGED state

\* The last thread shuts the process down.
Finish(t) ==
  /\ alive = {t} /\ told = {t}
  /\ alive' = {} /\ told' = {}
  /\ state' = "shut down"

\* Another program takes over when all other threads have left.
Replace(t) ==
  /\ alive = {t}
  /\ state' = "replaced"
  /\ UNCHANGED <<alive, told>>

Fail == state' \in Failures /\ UNCHANGED <<alive, told>>

Next ==
  /\ state = "on"
  /\ \/ Fail
     \/ \E t \in Threads : \/ Start(t) \/ Tell(t) \/ Leave(t)
                           \/ Fork(t) \/ Finish(t) \/ Replace(t)

Spec == Init /\ [][Next]_<<alive, told, state>>
=============================================================================
