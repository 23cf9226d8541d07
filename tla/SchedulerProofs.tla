--------------------------- MODULE SchedulerProofs ---------------------------
(***************************************************************************)
(* The scheduler, for any number of thread slots and any number of fatal   *)
(* signals.                                                                *)
(*                                                                         *)
(* What a thread is doing decides its status, and exactly the threads      *)
(* under the lock are Runnable; OneRunner and SlotsFree follow, and        *)
(* LastOneOut since the thread that runs is itself alive.  OneReaper rests *)
(* on more: a thread that has finished nuke_all_threads_except knows that  *)
(* every other living thread is to exit, and one in the middle of the loop *)
(* knows it of the slots it has passed, because it holds the lock and      *)
(* nobody fills a slot behind it.  So no client code runs any more, and    *)
(* only a signal from outside can make a second thread reap.               *)
(*                                                                         *)
(* With these invariants every step, seen through the living threads and   *)
(* those that are to exit, is a step of Process.                           *)
(***************************************************************************)
EXTENDS Scheduler, FiniteSetTheorems, TLAPS

Locked == {"run", "poll", "deliver", "nuke", "reap"}
Unlocked == {"none", "start", "slice", "yield", "syscall", "blocked", "sysret",
             "vgkill", "async", "gone"}
Statuses == {"Empty", "Init", "Runnable", "WaitSys", "Yielding", "Zombie"}
Reasons == {"None", "ExitThread", "ExitProcess", "FatalSig"}
Todos == {"ExitThread", "FatalSig", "exec"}

Types ==
  /\ status \in [Tids -> Statuses]
  /\ exitreason \in [Tids -> Reasons]
  /\ pc \in [Tids -> Locked \cup Unlocked]
  /\ waitingTo \in [Tids -> Seq(Todos)]
  /\ nuke \in [next : Nat, src : Reasons, seen : BOOLEAN]
  /\ sent \in Nat /\ pending \in Nat

\* The status of a thread follows from where it is.
Places ==
  \A t \in Tids : /\ status[t] = "Empty" <=> pc[t] = "none"
                  /\ status[t] = "Zombie" <=> pc[t] = "gone"
                  /\ status[t] = "Runnable" <=> pc[t] \in Locked

\* The loop of nuke_all_threads_except is within its bounds.
NukeLoop ==
  \A t \in Tids : pc[t] = "nuke" => /\ nuke.next \in 1 .. VG_N_THREADS
                                    /\ nuke.src # "None"
                                    /\ nuke.seen => nuke.next \in Tids \ {t}

\* Only a thread in exit_group, execve or a fatal signal has something to do when it
\* has reaped the others.
Reaping ==
  \A t \in Tids : /\ pc[t] \in {"nuke", "reap", "yield"} => waitingTo[t] # <<>>
                  /\ pc[t] \notin {"nuke", "reap", "yield", "poll"} => waitingTo[t] = <<>>

\* What a thread that reaps knows of the others: they are to exit.
Told ==
  \A t \in Reapers : \A u \in Living \ {t} :
    (pc[t] = "nuke" => u < nuke.next) => is_exiting(u)

\* Nothing has come from outside.
Quiet == pending = 0 /\ \A t \in Tids : pc[t] \notin {"async", "deliver"}

Unique == \A t, u \in Reapers : t = u

IInv ==
  /\ Types
  /\ process = "on" => Places /\ OneRunner /\ NukeLoop /\ Reaping /\ Told
  /\ process = "on" => (sent = 0 => Quiet)
  /\ LastOneOut
  /\ sent = 0 => Unique

-----------------------------------------------------------------------------
(* Steps while the process is on.                                          *)

\* The state before a step, and the step.
Before == /\ Types /\ Places /\ OneRunner /\ NukeLoop /\ Reaping /\ Told
          /\ (sent = 0 => Quiet) /\ LastOneOut /\ (sent = 0 => Unique)
          /\ process = "on"

\* One thread does something.
Act(t) == acquire_BigLock(t) \/ Step(t) \/ Choice(t)

\* Steps that begin nuke_all_threads_except, and what they have in common.
Begins(t) == \/ PollFatal(t) \/ (Deliver(t) /\ exitreason[t] # "FatalSig")
             \/ sys_exit_group(t) \/ sys_execve(t) \/ synth_fault(t)

LEMMA BeginsIs ==
  ASSUME NEW t \in Tids, Types, Begins(t)
  PROVE  /\ pc[t] \in {"run", "poll", "deliver"} /\ pc' = [pc EXCEPT ![t] = "nuke"]
         /\ (pc[t] = "run" => Client(t)) /\ (pc[t] = "poll" => pending > 0)
         /\ nuke'.next = 1 /\ nuke'.seen = FALSE /\ nuke'.src \in Reasons \ {"None"}
         /\ nuke' \in [next : Nat, src : Reasons, seen : BOOLEAN]
         /\ \E todo \in Todos : waitingTo' = [waitingTo EXCEPT ![t] = Append(@, todo)]
         /\ UNCHANGED <<status, exitreason, running_tid, lock, sent, process>>
         /\ pending' \in Nat /\ pending' <= pending
<1> USE DEF BeginNuke, default_action, Goto, Reasons, Todos
<1>1. CASE PollFatal(t)
  BY <1>1 DEF PollFatal, Types
<1>2. CASE Deliver(t) /\ exitreason[t] # "FatalSig"
  <2>1. /\ pc[t] = "deliver" /\ BeginNuke(t, "FatalSig", "FatalSig")
        /\ UNCHANGED <<status, exitreason, running_tid, lock, sent, pending, process>>
    BY <1>2 DEF Deliver
  <2>2. pending' \in Nat /\ pending' <= pending
    BY <2>1 DEF Types
  <2> QED BY <2>1, <2>2 DEF Types
<1>3. CASE sys_exit_group(t)
  BY <1>3 DEF sys_exit_group, Client, Types
<1>4. CASE sys_execve(t)
  BY <1>4 DEF sys_execve, Client, Types
<1>5. CASE synth_fault(t)
  BY <1>5 DEF synth_fault, Client, Types
<1> QED BY <1>1, <1>2, <1>3, <1>4, <1>5 DEF Begins

\* Steps that change nothing but where a thread is, apart from what is pending.
Moves(t) == \/ PollNothing(t) \/ PollVgkill(t) \/ (Deliver(t) /\ exitreason[t] = "FatalSig")
            \/ EnterKernel(t) \/ SyscallReturns(t) \/ sigvgkill_handler(t)
            \/ async_signalhandler(t)

LEMMA MovesIs ==
  ASSUME NEW t \in Tids, Types, Moves(t)
  PROVE  /\ UNCHANGED <<status, exitreason, waitingTo, running_tid, lock, nuke, sent, process>>
         /\ pending' \in Nat /\ pending' <= pending
         /\ \/ /\ pc[t] = "poll"
               /\ pc' = [pc EXCEPT ![t] = IF waitingTo[t] = <<>> THEN "run" ELSE "reap"]
            \/ pc[t] = "deliver" /\ pc' = [pc EXCEPT ![t] = "poll"]
            \/ pc[t] = "syscall" /\ pc' = [pc EXCEPT ![t] = "blocked"]
            \/ pc[t] = "blocked" /\ pc' = [pc EXCEPT ![t] = "sysret"]
            \/ pc[t] = "blocked" /\ pc' = [pc EXCEPT ![t] = "vgkill"]
            \/ pc[t] = "blocked" /\ pc' = [pc EXCEPT ![t] = "async"] /\ pending > 0
<1> USE DEF Goto, Polled, Types
<1>1. CASE PollNothing(t)
  BY <1>1 DEF PollNothing
<1>2. CASE PollVgkill(t)
  BY <1>2 DEF PollVgkill
<1>3. CASE Deliver(t) /\ exitreason[t] = "FatalSig"
  BY <1>3 DEF Deliver
<1>4. CASE EnterKernel(t)
  BY <1>4 DEF EnterKernel
<1>5. CASE SyscallReturns(t)
  BY <1>5 DEF SyscallReturns
<1>6. CASE sigvgkill_handler(t)
  BY <1>6 DEF sigvgkill_handler
<1>7. CASE async_signalhandler(t)
  BY <1>7 DEF async_signalhandler
<1> QED BY <1>1, <1>2, <1>3, <1>4, <1>5, <1>6, <1>7 DEF Moves

\* Steps that give the lock up for a while.
Pauses(t) == ReapYield(t) \/ Timeslice(t) \/ Syscall(t)

LEMMA PausesIs ==
  ASSUME NEW t \in Tids, Pauses(t)
  PROVE  /\ UNCHANGED <<exitreason, waitingTo, nuke, sent, pending, process>>
         /\ lock' = NoThread /\ running_tid' = NoThread
         /\ \E l \in {"yield", "slice", "syscall"}, w \in {"Yielding", "WaitSys"} :
              /\ pc' = [pc EXCEPT ![t] = l] /\ status' = [status EXCEPT ![t] = w]
              /\ IF l = "yield" THEN pc[t] = "reap" ELSE pc[t] = "run"
<1> USE DEF Goto, release_BigLock
<1>1. CASE ReapYield(t)
  BY <1>1 DEF ReapYield
<1>2. CASE Timeslice(t)
  BY <1>2 DEF Timeslice, Client
<1>3. CASE Syscall(t)
  BY <1>3 DEF Syscall, Client
<1> QED BY <1>1, <1>2, <1>3 DEF Pauses

\* The lock comes back.
LEMMA AcquireIs ==
  ASSUME NEW t \in Tids, acquire_BigLock(t)
  PROVE  /\ UNCHANGED <<exitreason, waitingTo, nuke, sent, pending, process>>
         /\ lock = NoThread /\ lock' = t /\ running_tid' = t
         /\ status' = [status EXCEPT ![t] = "Runnable"]
         /\ \/ pc[t] \in {"start", "sysret"} /\ pc' = [pc EXCEPT ![t] = "run"]
            \/ pc[t] \in {"slice", "yield", "vgkill"} /\ pc' = [pc EXCEPT ![t] = "poll"]
            \/ pc[t] = "async" /\ pc' = [pc EXCEPT ![t] = "deliver"]
<1>1. DOMAIN After = {"start", "slice", "yield", "sysret", "vgkill", "async"}
  BY DEF After
<1>2. /\ After["start"] = "run" /\ After["sysret"] = "run" /\ After["slice"] = "poll"
      /\ After["yield"] = "poll" /\ After["vgkill"] = "poll" /\ After["async"] = "deliver"
  BY DEF After
<1>3. pc[t] \in {"start", "slice", "yield", "sysret", "vgkill", "async"}
  BY <1>1 DEF acquire_BigLock
<1> QED BY <1>2, <1>3 DEF acquire_BigLock, Goto

\* Min of slots is one of them.
LEMMA LeastTid ==
  ASSUME NEW S, S \subseteq Tids, S # {} PROVE \E x \in S : \A y \in S : x <= y
<1> DEFINE R == OpToRel(<, Nat)
<1>0. S \subseteq Nat
  BY SchedulerAssumption DEF Tids
<1>1. IsWellFoundedOn(R, Nat)
  BY NatLessThanWellFounded
<1>2. \A x, y \in Nat : <<y, x>> \in R <=> y < x
  BY DEF OpToRel
<1> HIDE DEF R
<1>3. PICK x \in S : \A y \in S : ~ (<<y, x>> \in R)
  BY <1>0, <1>1, WFMin
<1>4. ASSUME NEW y \in S PROVE x <= y
  <2>1. x \in Nat /\ y \in Nat /\ ~ (<<y, x>> \in R)
    BY <1>0, <1>3
  <2>2. ~ (y < x)
    BY <1>2, <2>1, Zenon
  <2> QED BY <2>1, <2>2
<1> QED BY <1>4

\* The slot that alloc_ThreadState finds is Empty.
LEMMA FirstSlot == ASSUME EmptySlots # {} PROVE Min(EmptySlots) \in EmptySlots
<1>1. \E x \in EmptySlots : \A y \in EmptySlots : x <= y
  BY LeastTid DEF EmptySlots
<1> QED BY <1>1 DEF Min

\* A new thread, if there is a slot for it.
LEMMA CloneIs ==
  ASSUME NEW t \in Tids, Types, do_clone(t)
  PROVE  /\ pc[t] = "run" /\ ~is_exiting(t)
         /\ UNCHANGED <<running_tid, lock, nuke, sent, pending>>
         /\ \/ process' # "on" /\ process' # "shut down" /\ UNCHANGED threadVars
            \/ \E c \in Tids : /\ status[c] = "Empty" /\ UNCHANGED <<waitingTo, process>>
                             /\ status' = [status EXCEPT ![c] = "Init"]
                             /\ exitreason' = [exitreason EXCEPT ![c] = "None"]
                             /\ pc' = [pc EXCEPT ![c] = "start"]
<1> DEFINE c == Min(EmptySlots)
<1>1. CASE EmptySlots = {}
  BY <1>1 DEF do_clone, Client
<1>2. CASE EmptySlots # {}
  <2>1. c \in Tids /\ status[c] = "Empty"
    BY <1>2, FirstSlot DEF EmptySlots
  <2> HIDE DEF c
  <2> QED BY <1>2, <2>1 DEF do_clone, Client, Goto, c
<1> QED BY <1>1, <1>2

\* No new thread: only the exit reason of an Empty slot is lost.
LEMMA FailedIs ==
  ASSUME NEW t \in Tids, Types, do_cloneFailed(t)
  PROVE  /\ Client(t)
         /\ UNCHANGED <<status, pc, waitingTo, running_tid, lock, nuke, sent, pending, process>>
         /\ exitreason' \in [Tids -> Reasons]
         /\ \A u \in Living : exitreason'[u] = exitreason[u]
<1> DEFINE c == Min(EmptySlots)
<1>1. c \in Tids /\ status[c] = "Empty"
  BY FirstSlot DEF EmptySlots, do_cloneFailed
<1>2. c \notin Living
  BY <1>1 DEF Living
<1>3. exitreason' = [exitreason EXCEPT ![c] = "None"] /\ exitreason \in [Tids -> Reasons]
  BY DEF do_cloneFailed, Types
<1> HIDE DEF c
<1>4. exitreason' \in [Tids -> Reasons] /\ \A u \in Living : exitreason'[u] = exitreason[u]
  BY <1>1, <1>2, <1>3 DEF Reasons, Living
<1> QED BY <1>4 DEF do_cloneFailed

LEMMA ActCases ==
  ASSUME NEW t \in Tids, Act(t)
  PROVE  \/ Begins(t) \/ Moves(t) \/ Pauses(t) \/ acquire_BigLock(t)
         \/ NukeTest(t) \/ NukeMark(t) \/ NukeEnd(t) \/ ReapEnd(t)
         \/ run_a_thread_NORETURN(t) \/ Vanish(t)
         \/ do_clone(t) \/ do_cloneFailed(t) \/ do_fork_clone(t) \/ sys_exit(t)
         \/ \E u \in Tids : do_sigkill(t, u)
BY DEF Act, Step, Choice, Begins, Moves, Pauses

LEMMA TypesStep == ASSUME Before, NEW t \in Tids, Act(t) PROVE Types'
<1>0. Types /\ NukeLoop /\ Reaping
  BY DEF Before
<1>1. /\ status \in [Tids -> Statuses] /\ exitreason \in [Tids -> Reasons]
      /\ pc \in [Tids -> Locked \cup Unlocked] /\ waitingTo \in [Tids -> Seq(Todos)]
      /\ nuke \in [next : Nat, src : Reasons, seen : BOOLEAN]
      /\ sent \in Nat /\ pending \in Nat
  BY <1>0 DEF Types
<1>2. \A l \in Locked \cup Unlocked, u \in Tids :
        [pc EXCEPT ![u] = l] \in [Tids -> Locked \cup Unlocked]
  BY <1>1
<1>3. CASE Begins(t)
  <2>1. PICK todo \in Todos : waitingTo' = [waitingTo EXCEPT ![t] = Append(@, todo)]
    BY <1>0, <1>3, BeginsIs
  <2>2. Append(waitingTo[t], todo) \in Seq(Todos)
    BY <1>1
  <2>3. waitingTo' \in [Tids -> Seq(Todos)]
    BY <1>1, <2>1, <2>2
  <2> QED BY <1>0, <1>1, <1>2, <1>3, <2>3, BeginsIs DEF Types, Locked
<1>4. CASE Moves(t)
  <2>1. pc' \in [Tids -> Locked \cup Unlocked]
    BY <1>0, <1>2, <1>4, MovesIs DEF Locked, Unlocked
  <2> QED BY <1>0, <1>1, <1>4, <2>1, MovesIs DEF Types
<1>5. CASE Pauses(t)
  <2>1. PICK l \in {"yield", "slice", "syscall"}, w \in {"Yielding", "WaitSys"} :
          /\ pc' = [pc EXCEPT ![t] = l] /\ status' = [status EXCEPT ![t] = w]
    BY <1>5, PausesIs
  <2>2. pc' \in [Tids -> Locked \cup Unlocked] /\ status' \in [Tids -> Statuses]
    BY <1>1, <1>2, <2>1 DEF Unlocked, Statuses
  <2> QED BY <1>1, <1>5, <2>2, PausesIs DEF Types
<1>6. CASE acquire_BigLock(t)
  <2>1. pc' \in [Tids -> Locked \cup Unlocked]
    BY <1>2, <1>6, AcquireIs DEF Locked
  <2>2. status' \in [Tids -> Statuses]
    BY <1>1, <1>6, AcquireIs DEF Statuses
  <2> QED BY <1>1, <1>6, <2>1, <2>2, AcquireIs DEF Types
<1>7. CASE NukeTest(t)
  <2>1. nuke' \in [next : Nat, src : Reasons, seen : BOOLEAN]
    <3>1. nuke.next + 1 \in Nat
      BY <1>1
    <3>2. \/ nuke' = [nuke EXCEPT !.next = nuke.next + 1]
          \/ nuke' = [nuke EXCEPT !.seen = TRUE]
      BY <1>7 DEF NukeTest
    <3> QED BY <1>1, <3>1, <3>2
  <2> QED BY <1>1, <1>7, <2>1 DEF NukeTest, Types, threadVars
<1>8. CASE NukeMark(t)
  <2>1. nuke' \in [next : Nat, src : Reasons, seen : BOOLEAN]
    <3>1. nuke.next + 1 \in Nat
      BY <1>1
    <3>2. nuke' = [nuke EXCEPT !.next = nuke.next + 1, !.seen = FALSE]
      BY <1>8 DEF NukeMark
    <3> QED BY <1>1, <3>1, <3>2
  <2>2. exitreason' \in [Tids -> Reasons]
    BY <1>1, <1>8 DEF NukeMark
  <2> QED BY <1>1, <1>8, <2>1, <2>2 DEF NukeMark, Types
<1>9. CASE NukeEnd(t)
  BY <1>1, <1>2, <1>9 DEF NukeEnd, NoNuke, Types, Goto, Locked, Reasons
<1>10. CASE ReapEnd(t)
  <2>1. /\ pc[t] = "reap" /\ waitingTo[t] # <<>>
    BY <1>0, <1>10 DEF ReapEnd, Reaping
  <2>2. Front(waitingTo[t]) \in Seq(Todos) /\ Last(waitingTo[t]) \in Todos
    BY <1>1, <2>1 DEF Front, Last
  <2>3. Last(waitingTo[t]) # "exec" => Last(waitingTo[t]) \in Reasons
    BY <2>2 DEF Todos, Reasons
  <2>4. waitingTo' \in [Tids -> Seq(Todos)]
    BY <1>1, <1>10, <2>2 DEF ReapEnd
  <2>5. exitreason' \in [Tids -> Reasons] /\ pc' \in [Tids -> Locked \cup Unlocked]
    BY <1>1, <1>2, <1>10, <2>3 DEF ReapEnd, Goto, Locked
  <2> QED BY <1>1, <1>10, <2>4, <2>5 DEF ReapEnd, Types
<1>11. CASE run_a_thread_NORETURN(t)
  <2>1. pc' \in [Tids -> Locked \cup Unlocked] /\ status' \in [Tids -> Statuses]
    BY <1>1, <1>2, <1>11
       DEF run_a_thread_NORETURN, exit_thread, Goto, Unlocked, Statuses
  <2> QED BY <1>1, <1>11, <2>1 DEF run_a_thread_NORETURN, exit_thread, Types
<1>12. CASE Vanish(t)
  <2>1. pc' \in [Tids -> Locked \cup Unlocked] /\ status' \in [Tids -> Statuses]
    BY <1>1, <1>2, <1>12 DEF Vanish, Goto, Unlocked, Statuses
  <2> QED BY <1>1, <1>12, <2>1 DEF Vanish, Types
<1>13. CASE do_clone(t)
  <2>1. CASE UNCHANGED threadVars
    BY <1>0, <1>1, <1>13, <2>1, CloneIs DEF Types, threadVars
  <2>2. CASE ~UNCHANGED threadVars
    <3>1. PICK c \in Tids : /\ status' = [status EXCEPT ![c] = "Init"]
                           /\ exitreason' = [exitreason EXCEPT ![c] = "None"]
                           /\ pc' = [pc EXCEPT ![c] = "start"] /\ UNCHANGED waitingTo
      BY <1>0, <1>13, <2>2, CloneIs
    <3>2. /\ status' \in [Tids -> Statuses] /\ exitreason' \in [Tids -> Reasons]
          /\ pc' \in [Tids -> Locked \cup Unlocked]
      BY <1>1, <1>2, <3>1 DEF Statuses, Reasons, Unlocked
    <3> QED BY <1>0, <1>1, <1>13, <3>1, <3>2, CloneIs DEF Types
  <2> QED BY <2>1, <2>2
<1>14. CASE do_fork_clone(t)
  <2>1. status' \in [Tids -> Statuses] /\ pc' \in [Tids -> Locked \cup Unlocked]
    BY <1>1, <1>14 DEF do_fork_clone, Statuses, Unlocked
  <2> QED BY <1>1, <1>14, <2>1 DEF do_fork_clone, Types
<1>15. CASE sys_exit(t)
  <2>1. exitreason' \in [Tids -> Reasons]
    BY <1>1, <1>15 DEF sys_exit, Reasons
  <2> QED BY <1>1, <1>15, <2>1 DEF sys_exit, Types
<1>16. CASE \E u \in Tids : do_sigkill(t, u)
  <2>1. exitreason' \in [Tids -> Reasons]
    BY <1>1, <1>16 DEF do_sigkill, Reasons
  <2> QED BY <1>1, <1>16, <2>1 DEF do_sigkill, Types
<1>17. CASE do_cloneFailed(t)
  BY <1>0, <1>1, <1>17, FailedIs DEF Types
<1> QED BY ActCases, <1>3, <1>4, <1>5, <1>6, <1>7, <1>8, <1>9, <1>10, <1>11, <1>12, <1>13,
           <1>14, <1>15, <1>16, <1>17

\* The thread under the lock is the only one there.
LEMMA UnderLock ==
  ASSUME Before
  PROVE  /\ running_tid = lock
         /\ \A t \in Tids : pc[t] \in Locked <=> lock = t
         /\ NoThread \notin Tids
<1>1. NoThread \notin Tids
  BY SchedulerAssumption DEF NoThread, Tids
<1> QED BY <1>1 DEF Before, OneRunner, Places

\* While client code runs nobody reaps: a thread in the loop has the lock, and one
\* behind it has told every other to exit.
LEMMA ClientAlone ==
  ASSUME Before, NEW t \in Tids, Client(t) PROVE t \in Living /\ Reapers = {}
<1>1. pc[t] = "run" /\ ~is_exiting(t) /\ lock = t
  BY UnderLock DEF Client, Locked
<1>2. t \in Living
  BY <1>1 DEF Before, Places, Living, Locked
<1>3. ASSUME NEW r \in Reapers PROVE FALSE
  <2>1. r \in Tids /\ r # t
    BY <1>1 DEF Reapers, Before, Reaping
  <2>2. pc[r] # "nuke"
    BY <1>1, <2>1, UnderLock DEF Locked
  <2>3. is_exiting(t)
    BY <1>2, <2>1, <2>2 DEF Before, Told
  <2> QED BY <1>1, <2>3
<1> QED BY <1>2, <1>3

\* Statuses follow from places, and the lock from statuses.
LEMMA RunnerStep ==
  ASSUME Before, NEW t \in Tids, Act(t), process' = "on" PROVE Places' /\ OneRunner'
<1>0. Types /\ Places /\ OneRunner
  BY DEF Before
<1>1. status \in [Tids -> Statuses] /\ pc \in [Tids -> Locked \cup Unlocked]
  BY <1>0 DEF Types
<1>2. /\ running_tid = lock /\ NoThread \notin Tids
      /\ \A u \in Tids : pc[u] \in Locked <=> lock = u
  BY UnderLock
<1>3. \A u \in Tids : /\ status[u] = "Empty" <=> pc[u] = "none"
                      /\ status[u] = "Zombie" <=> pc[u] = "gone"
                      /\ status[u] = "Runnable" <=> pc[u] \in Locked
  BY <1>0 DEF Places
<1> SUFFICES /\ \A u \in Tids : /\ status'[u] = "Empty" <=> pc'[u] = "none"
                                /\ status'[u] = "Zombie" <=> pc'[u] = "gone"
                                /\ status'[u] = "Runnable" <=> pc'[u] \in Locked
             /\ running_tid' = lock'
             /\ \A u \in Tids : pc'[u] \in Locked <=> lock' = u
  BY DEF Places, OneRunner
<1>4. CASE Begins(t)
  <2>1. /\ pc[t] \in Locked /\ pc' = [pc EXCEPT ![t] = "nuke"]
        /\ UNCHANGED <<status, running_tid, lock>>
    BY <1>0, <1>4, BeginsIs DEF Locked
  <2> QED BY <1>1, <1>2, <1>3, <2>1 DEF Locked
<1>5. CASE Moves(t)
  BY <1>0, <1>1, <1>2, <1>3, <1>5, MovesIs DEF Locked
<1>6. CASE Pauses(t)
  BY <1>1, <1>2, <1>3, <1>6, PausesIs DEF Locked
<1>7. CASE acquire_BigLock(t)
  BY <1>1, <1>2, <1>3, <1>7, AcquireIs DEF Locked
<1>8. CASE NukeTest(t)
  BY <1>2, <1>3, <1>8 DEF NukeTest, threadVars
<1>9. CASE NukeMark(t)
  BY <1>2, <1>3, <1>9 DEF NukeMark
<1>10. CASE NukeEnd(t)
  BY <1>1, <1>2, <1>3, <1>10 DEF NukeEnd, Goto, Locked
<1>11. CASE ReapEnd(t)
  BY <1>1, <1>2, <1>3, <1>11 DEF ReapEnd, Goto, Locked
<1>12. CASE run_a_thread_NORETURN(t)
  BY <1>1, <1>2, <1>3, <1>12 DEF run_a_thread_NORETURN, exit_thread, Goto, Locked
<1>13. CASE Vanish(t)
  BY <1>1, <1>2, <1>3, <1>13 DEF Vanish, Goto, Locked
<1>14. CASE do_clone(t)
  BY <1>0, <1>1, <1>2, <1>3, <1>14, CloneIs DEF threadVars, Locked
<1>15. CASE do_fork_clone(t)
  BY <1>1, <1>2, <1>3, <1>15 DEF do_fork_clone, Client, Locked
<1>16. CASE sys_exit(t)
  BY <1>2, <1>3, <1>16 DEF sys_exit
<1>17. CASE \E u \in Tids : do_sigkill(t, u)
  BY <1>2, <1>3, <1>17 DEF do_sigkill
<1>18. CASE do_cloneFailed(t)
  BY <1>0, <1>2, <1>3, <1>18, FailedIs
<1> QED BY ActCases, <1>4, <1>5, <1>6, <1>7, <1>8, <1>9, <1>10, <1>11, <1>12, <1>13, <1>14,
           <1>15, <1>16, <1>17, <1>18

\* The loop and what comes after it.
LEMMA LoopStep ==
  ASSUME Before, NEW t \in Tids, Act(t), process' = "on" PROVE NukeLoop' /\ Reaping'
<1>0. Types /\ Places /\ OneRunner
  BY DEF Before
<1>1. /\ pc \in [Tids -> Locked \cup Unlocked] /\ waitingTo \in [Tids -> Seq(Todos)]
      /\ nuke \in [next : Nat, src : Reasons, seen : BOOLEAN]
  BY <1>0 DEF Types
<1>2. \A u, v \in Tids : pc[u] \in Locked /\ pc[v] \in Locked => u = v
  BY UnderLock
<1>3. \A u \in Tids : pc[u] = "nuke" => /\ nuke.next \in 1 .. VG_N_THREADS
                                        /\ nuke.src # "None"
                                        /\ nuke.seen => nuke.next \in Tids \ {u}
  BY DEF Before, NukeLoop
<1>4. \A u \in Tids : 
         /\ pc[u] \in {"nuke", "reap", "yield"} => waitingTo[u] # <<>>
         /\ pc[u] \notin {"nuke", "reap", "yield", "poll"} => waitingTo[u] = <<>>
  BY DEF Before, Reaping
<1> SUFFICES /\ \A u \in Tids : pc'[u] = "nuke" => 
                  /\ nuke'.next \in 1 .. VG_N_THREADS
                  /\ nuke'.src # "None"
                  /\ nuke'.seen => nuke'.next \in Tids \ {u}
             /\ \A u \in Tids :
                  /\ pc'[u] \in {"nuke", "reap", "yield"} => waitingTo'[u] # <<>>
                  /\ pc'[u] \notin {"nuke", "reap", "yield", "poll"} => waitingTo'[u] = <<>>
  BY DEF NukeLoop, Reaping
<1>5. CASE Begins(t)
  <2>1. PICK todo \in Todos : waitingTo' = [waitingTo EXCEPT ![t] = Append(@, todo)]
    BY <1>0, <1>5, BeginsIs
  <2>2. Append(waitingTo[t], todo) # <<>>
    BY <1>1
  <2>3. waitingTo'[t] # <<>> /\ \A u \in Tids \ {t} : waitingTo'[u] = waitingTo[u]
    BY <1>1, <2>1, <2>2
  <2>4. /\ pc[t] \in Locked /\ pc'[t] = "nuke" /\ \A u \in Tids \ {t} : pc'[u] = pc[u]
        /\ nuke'.next = 1 /\ nuke'.seen = FALSE /\ nuke'.src # "None"
    BY <1>0, <1>1, <1>5, BeginsIs DEF Locked
  <2>5. 1 \in 1 .. VG_N_THREADS
    BY SchedulerAssumption
  <2> QED BY <1>2, <1>4, <2>3, <2>4, <2>5 DEF Locked
<1>6. CASE Moves(t)
  BY <1>0, <1>1, <1>3, <1>4, <1>6, MovesIs
<1>7. CASE Pauses(t)
  BY <1>1, <1>3, <1>4, <1>7, PausesIs
<1>8. CASE acquire_BigLock(t)
  BY <1>1, <1>3, <1>4, <1>8, AcquireIs
<1>9. CASE NukeTest(t)
  <2>1. /\ pc[t] = "nuke" /\ nuke.next \in Tids /\ ~nuke.seen
        /\ UNCHANGED <<pc, waitingTo>>
    BY <1>9 DEF NukeTest, threadVars
  <2>2. \A u \in Tids \ {t} : pc[u] # "nuke"
    BY <1>2, <2>1 DEF Locked
  <2>3. CASE nuke.next = t \/ status[nuke.next] = "Empty"
    <3>1. nuke' = [nuke EXCEPT !.next = nuke.next + 1]
      BY <1>9, <2>3 DEF NukeTest
    <3>2. nuke.next + 1 \in 1 .. VG_N_THREADS
      BY <2>1, SchedulerAssumption DEF Tids
    <3>3. nuke'.next = nuke.next + 1 /\ nuke'.src = nuke.src /\ ~nuke'.seen
      BY <1>1, <2>1, <3>1
    <3> QED BY <1>3, <1>4, <2>1, <2>2, <3>2, <3>3
  <2>4. CASE ~(nuke.next = t \/ status[nuke.next] = "Empty")
    <3>1. nuke' = [nuke EXCEPT !.seen = TRUE]
      BY <1>9, <2>4 DEF NukeTest
    <3>2. nuke'.next = nuke.next /\ nuke'.src = nuke.src
      BY <1>1, <3>1
    <3> QED BY <1>3, <1>4, <2>1, <2>2, <2>4, <3>2
  <2> QED BY <2>3, <2>4
<1>10. CASE NukeMark(t)
  <2>1. /\ pc[t] = "nuke" /\ nuke.seen /\ UNCHANGED <<pc, waitingTo>>
        /\ nuke' = [nuke EXCEPT !.next = nuke.next + 1, !.seen = FALSE]
    BY <1>10 DEF NukeMark
  <2>2. nuke.next + 1 \in 1 .. VG_N_THREADS
    BY <1>3, <2>1, SchedulerAssumption DEF Tids
  <2>3. nuke'.next = nuke.next + 1 /\ nuke'.src = nuke.src /\ ~nuke'.seen
    BY <1>1, <2>1
  <2> QED BY <1>3, <1>4, <2>1, <2>2, <2>3
<1>11. CASE NukeEnd(t)
  <2>1. /\ pc[t] = "nuke" /\ pc' = [pc EXCEPT ![t] = "reap"] /\ UNCHANGED waitingTo
    BY <1>11 DEF NukeEnd, Goto
  <2>2. \A u \in Tids : pc'[u] # "nuke"
    BY <1>1, <1>2, <2>1 DEF Locked
  <2> QED BY <1>1, <1>4, <2>1, <2>2
<1>12. CASE ReapEnd(t)
  <2>1. /\ pc[t] = "reap" /\ UNCHANGED nuke
        /\ waitingTo' = [waitingTo EXCEPT ![t] = Front(waitingTo[t])]
        /\ pc' = [pc EXCEPT ![t] = IF Front(waitingTo[t]) = <<>> THEN "run" ELSE "reap"]
    BY <1>12 DEF ReapEnd, Goto
  <2> QED BY <1>1, <1>3, <1>4, <2>1
<1>13. CASE run_a_thread_NORETURN(t)
  BY <1>1, <1>3, <1>4, <1>13 DEF run_a_thread_NORETURN, exit_thread, Goto
<1>14. CASE Vanish(t)
  BY <1>1, <1>3, <1>4, <1>14 DEF Vanish, Goto
<1>15. CASE do_clone(t)
  <2>1. \A u \in Tids : status[u] = "Empty" => pc[u] = "none"
    BY <1>0 DEF Places
  <2> QED BY <1>0, <1>1, <1>3, <1>4, <1>15, <2>1, CloneIs DEF threadVars
<1>16. CASE do_fork_clone(t)
  <2>1. /\ Client(t) /\ pc[t] = "run" /\ UNCHANGED <<waitingTo, nuke>>
        /\ pc'[t] = "run" /\ \A u \in Tids \ {t} : pc'[u] = "none"
    BY <1>16 DEF do_fork_clone, Client
  <2>2. \A u \in Tids : waitingTo[u] = <<>>
    BY <2>1, ClientAlone DEF Reapers
  <2> QED BY <2>1, <2>2
<1>17. CASE sys_exit(t)
  BY <1>3, <1>4, <1>17 DEF sys_exit
<1>18. CASE \E u \in Tids : do_sigkill(t, u)
  BY <1>3, <1>4, <1>18 DEF do_sigkill
<1>19. CASE do_cloneFailed(t)
  BY <1>0, <1>3, <1>4, <1>19, FailedIs
<1> QED BY ActCases, <1>5, <1>6, <1>7, <1>8, <1>9, <1>10, <1>11, <1>12, <1>13, <1>14,
           <1>15, <1>16, <1>17, <1>18, <1>19

\* What a thread that reaps knows stays true.
LEMMA ToldStep ==
  ASSUME Before, NEW t \in Tids, Act(t), process' = "on" PROVE Told'
<1>0. Types /\ Places /\ Reaping
  BY DEF Before
<1>1. /\ status \in [Tids -> Statuses] /\ exitreason \in [Tids -> Reasons]
      /\ pc \in [Tids -> Locked \cup Unlocked] /\ waitingTo \in [Tids -> Seq(Todos)]
      /\ nuke \in [next : Nat, src : Reasons, seen : BOOLEAN]
  BY <1>0 DEF Types
<1>2. \A u, v \in Tids : pc[u] \in Locked /\ pc[v] \in Locked => u = v
  BY UnderLock
<1>3. \A r \in Reapers : \A u \in Living \ {r} :
        (pc[r] = "nuke" => u < nuke.next) => exitreason[u] # "None"
  BY DEF Before, Told, is_exiting
<1> SUFFICES ASSUME NEW r \in Reapers', NEW u \in Living' \ {r},
                    pc'[r] = "nuke" => u < nuke'.next
             PROVE  exitreason'[u] # "None"
  BY DEF Told, is_exiting
<1>4. r \in Tids /\ waitingTo'[r] # <<>> /\ u \in Tids /\ u # r
  BY DEF Reapers, Living
<1>5. CASE Begins(t)
  <2>1. /\ pc[t] \in Locked /\ pc' = [pc EXCEPT ![t] = "nuke"] /\ nuke'.next = 1
        /\ UNCHANGED <<status, exitreason>> /\ (pc[t] = "run" => Client(t))
        /\ pc[t] # "nuke"
    BY <1>0, <1>5, BeginsIs DEF Locked
  <2>2. \E todo \in Todos : waitingTo' = [waitingTo EXCEPT ![t] = Append(@, todo)]
    BY <1>0, <1>5, BeginsIs
  <2>3. r # t
    BY <1>1, <1>4, <2>1, SchedulerAssumption DEF Tids
  <2>4. r \in Reapers /\ u \in Living
    BY <1>1, <1>4, <2>1, <2>2, <2>3 DEF Reapers, Living
  <2>5. pc[r] # "nuke"
    BY <1>1, <1>2, <1>4, <2>1, <2>3 DEF Locked
  <2> QED BY <1>3, <1>4, <2>1, <2>4, <2>5
<1>6. CASE Moves(t)
  <2>1. /\ UNCHANGED <<status, exitreason, waitingTo, nuke>>
        /\ \A v \in Tids : pc'[v] = "nuke" <=> pc[v] = "nuke"
    BY <1>0, <1>1, <1>6, MovesIs
  <2> QED BY <1>3, <1>4, <2>1 DEF Reapers, Living
<1>7. CASE Pauses(t)
  <2>1. PICK l \in {"yield", "slice", "syscall"}, w \in {"Yielding", "WaitSys"} :
          /\ pc' = [pc EXCEPT ![t] = l] /\ status' = [status EXCEPT ![t] = w]
          /\ pc[t] \in {"reap", "run"} /\ UNCHANGED <<exitreason, waitingTo, nuke>>
    BY <1>7, PausesIs
  <2>2. \A v \in Tids : pc'[v] = "nuke" <=> pc[v] = "nuke"
    BY <1>1, <2>1
  <2>3. r \in Reapers /\ u \in Living
    BY <1>0, <1>1, <1>4, <2>1 DEF Reapers, Living, Places, Locked
  <2> QED BY <1>3, <1>4, <2>1, <2>2, <2>3
<1>8. CASE acquire_BigLock(t)
  <2>1. /\ UNCHANGED <<exitreason, waitingTo, nuke>> /\ pc[t] \notin {"none", "gone"}
        /\ status' = [status EXCEPT ![t] = "Runnable"]
        /\ \A v \in Tids : pc'[v] = "nuke" <=> pc[v] = "nuke"
    BY <1>1, <1>8, AcquireIs
  <2>2. r \in Reapers /\ u \in Living
    BY <1>0, <1>1, <1>4, <2>1 DEF Reapers, Living, Places
  <2> QED BY <1>3, <1>4, <2>1, <2>2
<1>9. CASE NukeTest(t)
  <2>1. /\ pc[t] = "nuke" /\ nuke.next \in Tids
        /\ UNCHANGED <<pc, status, waitingTo, exitreason>>
        /\ nuke' = IF nuke.next = t \/ status[nuke.next] = "Empty"
                     THEN [nuke EXCEPT !.next = nuke.next + 1]
                     ELSE [nuke EXCEPT !.seen = TRUE]
    BY <1>9 DEF NukeTest, threadVars
  <2>2. r \in Reapers /\ u \in Living
    BY <1>4, <2>1 DEF Reapers, Living
  <2>3. CASE pc[r] = "nuke"
    <3>1. r = t
      BY <1>2, <1>4, <2>1, <2>3 DEF Locked
    <3>2. u < nuke'.next
      BY <2>1, <2>3
    <3>3. u < nuke.next
      <4>1. CASE nuke.next = t \/ status[nuke.next] = "Empty"
        <5>1. nuke'.next = nuke.next + 1
          BY <1>1, <2>1, <4>1
        <5>2. u # nuke.next
          BY <1>4, <2>2, <3>1, <4>1 DEF Living
        <5> QED BY <1>4, <2>1, <3>2, <5>1, <5>2, SchedulerAssumption DEF Tids
      <4>2. CASE ~(nuke.next = t \/ status[nuke.next] = "Empty")
        BY <1>1, <2>1, <3>2, <4>2
      <4> QED BY <4>1, <4>2
    <3> QED BY <1>3, <1>4, <2>1, <2>2, <3>3
  <2>4. CASE pc[r] # "nuke"
    BY <1>3, <1>4, <2>1, <2>2, <2>4
  <2> QED BY <2>3, <2>4
<1>10. CASE NukeMark(t)
  <2>1. /\ pc[t] = "nuke" /\ nuke.seen /\ UNCHANGED <<pc, status, waitingTo>>
        /\ exitreason' = [exitreason EXCEPT ![nuke.next] = nuke.src]
        /\ nuke' = [nuke EXCEPT !.next = nuke.next + 1, !.seen = FALSE]
    BY <1>10 DEF NukeMark
  <2>2. r \in Reapers /\ u \in Living
    BY <1>4, <2>1 DEF Reapers, Living
  <2>3. nuke.src # "None" /\ nuke.next \in Tids /\ nuke'.next = nuke.next + 1
    BY <1>1, <2>1 DEF Before, NukeLoop
  <2>4. CASE u = nuke.next
    BY <1>1, <1>4, <2>1, <2>3, <2>4
  <2>5. CASE u # nuke.next
    <3>1. exitreason'[u] = exitreason[u]
      BY <1>1, <1>4, <2>1, <2>5
    <3>2. pc[r] = "nuke" => u < nuke.next
      BY <1>4, <2>1, <2>3, <2>5, SchedulerAssumption DEF Tids
    <3> QED BY <1>3, <1>4, <2>2, <3>1, <3>2
  <2> QED BY <2>4, <2>5
<1>11. CASE NukeEnd(t)
  <2>1. /\ pc[t] = "nuke" /\ nuke.next = VG_N_THREADS
        /\ pc' = [pc EXCEPT ![t] = "reap"] /\ UNCHANGED <<status, waitingTo, exitreason>>
    BY <1>11 DEF NukeEnd, Goto
  <2>2. r \in Reapers /\ u \in Living
    BY <1>4, <2>1 DEF Reapers, Living
  <2>3. u < nuke.next
    BY <1>4, <2>1, SchedulerAssumption DEF Tids
  <2> QED BY <1>3, <1>4, <2>1, <2>2, <2>3
<1>12. CASE ReapEnd(t)
  <2>1. pc[t] = "reap" /\ Living = {t} /\ UNCHANGED <<status, nuke>>
    BY <1>12 DEF ReapEnd
  <2>2. u = t
    BY <1>4, <2>1 DEF Living
  <2>3. r \in Reapers /\ pc'[r] = pc[r]
    BY <1>1, <1>4, <1>12, <2>2 DEF ReapEnd, Reapers, Goto
  <2>4. r \in Living
    BY <1>0, <1>4, <2>3 DEF Places, Reaping, Living, Reapers, Locked
  <2> QED BY <1>4, <2>1, <2>2, <2>4
<1>13. CASE run_a_thread_NORETURN(t)
  <2>1. /\ pc[t] = "run" /\ status' = [status EXCEPT ![t] = "Zombie"]
        /\ pc' = [pc EXCEPT ![t] = "gone"] /\ UNCHANGED <<exitreason, waitingTo, nuke>>
    BY <1>13 DEF run_a_thread_NORETURN, exit_thread, Goto
  <2>2. r \in Reapers /\ u \in Living /\ (pc'[r] = "nuke" <=> pc[r] = "nuke")
    BY <1>1, <1>4, <2>1 DEF Reapers, Living
  <2> QED BY <1>3, <1>4, <2>1, <2>2
<1>14. CASE Vanish(t)
  <2>1. /\ pc[t] = "gone" /\ status' = [status EXCEPT ![t] = "Empty"]
        /\ pc' = [pc EXCEPT ![t] = "none"] /\ UNCHANGED <<exitreason, waitingTo, nuke>>
    BY <1>14 DEF Vanish, Goto
  <2>2. r \in Reapers /\ u \in Living /\ (pc'[r] = "nuke" <=> pc[r] = "nuke")
    BY <1>1, <1>4, <2>1 DEF Reapers, Living
  <2> QED BY <1>3, <1>4, <2>1, <2>2
<1>15. CASE do_clone(t)
  <2>1. UNCHANGED waitingTo /\ Client(t)
    BY <1>0, <1>15, CloneIs DEF threadVars, Client
  <2> QED BY <1>4, <2>1, ClientAlone DEF Reapers
<1>16. CASE do_fork_clone(t)
  <2>1. UNCHANGED waitingTo /\ Client(t)
    BY <1>16 DEF do_fork_clone
  <2> QED BY <1>4, <2>1, ClientAlone DEF Reapers
<1>17. CASE sys_exit(t)
  <2>1. UNCHANGED waitingTo /\ Client(t)
    BY <1>17 DEF sys_exit
  <2> QED BY <1>4, <2>1, ClientAlone DEF Reapers
<1>18. CASE \E v \in Tids : do_sigkill(t, v)
  <2>1. UNCHANGED waitingTo /\ Client(t)
    BY <1>18 DEF do_sigkill
  <2> QED BY <1>4, <2>1, ClientAlone DEF Reapers
<1>19. CASE do_cloneFailed(t)
  <2>1. UNCHANGED waitingTo /\ Client(t)
    BY <1>0, <1>19, FailedIs
  <2> QED BY <1>4, <2>1, ClientAlone DEF Reapers
<1> QED BY ActCases, <1>5, <1>6, <1>7, <1>8, <1>9, <1>10, <1>11, <1>12, <1>13, <1>14,
           <1>15, <1>16, <1>17, <1>18, <1>19

\* Somebody is left, unless the last one turns the lights off.
LEMMA LastStep == ASSUME Before, NEW t \in Tids, Act(t) PROVE LastOneOut'
<1>0. Types /\ Places /\ process = "on" /\ Living # {}
  BY DEF Before, LastOneOut
<1>1. status \in [Tids -> Statuses] /\ Living \subseteq Tids
  BY <1>0 DEF Types, Living
<1>2. ASSUME UNCHANGED status, process' # "shut down" PROVE LastOneOut'
  BY <1>0, <1>2 DEF LastOneOut, Living
<1>3. ASSUME NEW u \in Tids, NEW w \in Statuses \ {"Empty", "Zombie"},
             status' = [status EXCEPT ![u] = w], process' # "shut down"
      PROVE  LastOneOut'
  BY <1>1, <1>3 DEF LastOneOut, Living
<1>4. CASE \/ Begins(t) \/ Moves(t) \/ NukeTest(t) \/ NukeMark(t) \/ NukeEnd(t)
           \/ ReapEnd(t) \/ sys_exit(t) \/ \E u \in Tids : do_sigkill(t, u)
           \/ do_cloneFailed(t)
  <2>1. UNCHANGED status /\ process' # "shut down"
    BY <1>0, <1>4, BeginsIs, MovesIs, FailedIs
       DEF NukeTest, NukeMark, NukeEnd, ReapEnd, sys_exit, do_sigkill, threadVars
  <2> QED BY <1>2, <2>1
<1>5. CASE Pauses(t)
  <2>1. PICK w \in {"Yielding", "WaitSys"} : status' = [status EXCEPT ![t] = w]
    BY <1>5, PausesIs
  <2>2. UNCHANGED process
    BY <1>5, PausesIs
  <2> QED BY <1>0, <1>3, <2>1, <2>2 DEF Statuses
<1>6. CASE acquire_BigLock(t)
  <2>1. status' = [status EXCEPT ![t] = "Runnable"] /\ UNCHANGED process
    BY <1>6, AcquireIs
  <2> QED BY <1>0, <1>3, <2>1 DEF Statuses
<1>7. CASE run_a_thread_NORETURN(t)
  <2>1. pc[t] = "run"
    BY <1>7 DEF run_a_thread_NORETURN
  <2>2. t \in Living
    BY <1>0, <2>1 DEF Places, Living, Locked
  <2>3. IsFiniteSet(Living)
    <3>1. IsFiniteSet(Tids)
      BY SchedulerAssumption, FS_Interval DEF Tids
    <3> QED BY <1>1, <3>1, FS_Subset
  <2>4. CASE Cardinality(Living) = 1
    <3>1. Living = {t}
      BY <2>2, <2>3, <2>4, FS_Singleton
    <3>2. process' = "shut down" /\ status' = [status EXCEPT ![t] = "Empty"]
      BY <1>7, <2>4 DEF run_a_thread_NORETURN
    <3> QED BY <1>1, <3>1, <3>2 DEF Living, LastOneOut
  <2>5. CASE Cardinality(Living) # 1
    <3>1. Living # {t}
      BY <2>5, FS_Singleton
    <3>2. PICK u \in Living : u # t
      BY <2>2, <3>1
    <3>3. UNCHANGED process /\ status' = [status EXCEPT ![t] = "Zombie"]
      BY <1>7, <2>5 DEF run_a_thread_NORETURN, exit_thread
    <3>4. u \in Living'
      BY <1>1, <3>2, <3>3 DEF Living
    <3> QED BY <1>0, <3>3, <3>4 DEF LastOneOut
  <2> QED BY <2>4, <2>5
<1>8. CASE Vanish(t)
  <2>1. /\ pc[t] = "gone" /\ status' = [status EXCEPT ![t] = "Empty"] /\ UNCHANGED process
    BY <1>8 DEF Vanish
  <2>2. t \notin Living
    BY <1>0, <2>1 DEF Places, Living
  <2>3. Living' = Living
    BY <1>1, <2>1, <2>2 DEF Living
  <2> QED BY <1>0, <2>1, <2>3 DEF LastOneOut
<1>9. CASE do_clone(t)
  <2>1. CASE UNCHANGED threadVars /\ process' # "shut down"
    BY <1>2, <2>1 DEF threadVars
  <2>2. CASE \E c \in Tids : status' = [status EXCEPT ![c] = "Init"] /\ UNCHANGED process
    BY <1>0, <1>3, <2>2 DEF Statuses
  <2> QED BY <1>0, <1>9, <2>1, <2>2, CloneIs
<1>10. CASE do_fork_clone(t)
  <2>1. Client(t) /\ UNCHANGED process /\ status'[t] = status[t]
    BY <1>10 DEF do_fork_clone
  <2>2. t \in Living
    BY <2>1, ClientAlone
  <2>3. t \in Living'
    BY <2>1, <2>2 DEF Living
  <2> QED BY <1>0, <2>1, <2>3 DEF LastOneOut
<1> QED BY ActCases, <1>4, <1>5, <1>6, <1>7, <1>8, <1>9, <1>10

\* Without a signal from outside nothing is pending, and nobody begins to reap while
\* another does.
LEMMA QuietStep ==
  ASSUME Before, NEW t \in Tids, Act(t), sent' = 0 PROVE Quiet' /\ Unique'
<1>0. Types /\ Places
  BY DEF Before
<1>1. /\ pc \in [Tids -> Locked \cup Unlocked] /\ waitingTo \in [Tids -> Seq(Todos)]
      /\ pending \in Nat
  BY <1>0 DEF Types
<1>2. UNCHANGED sent
  BY <1>0, ActCases, BeginsIs, MovesIs, PausesIs, AcquireIs, CloneIs, FailedIs
     DEF NukeTest, NukeMark, NukeEnd, ReapEnd, run_a_thread_NORETURN, Vanish, do_fork_clone,
         sys_exit, do_sigkill
<1>3. pending = 0 /\ (\A u \in Tids : pc[u] \notin {"async", "deliver"}) /\ Unique
  BY <1>2 DEF Before, Quiet
<1>4. ASSUME Reapers' \subseteq Reapers PROVE Unique'
  BY <1>3, <1>4 DEF Unique
<1>5. ASSUME NEW l, NEW u \in Tids, l \notin {"async", "deliver"}, pending' = 0,
             pc' = [pc EXCEPT ![u] = l]
      PROVE  Quiet'
  BY <1>1, <1>3, <1>5 DEF Quiet
<1>6. ASSUME UNCHANGED <<pc, pending>> PROVE Quiet'
  BY <1>3, <1>6 DEF Quiet
<1>7. CASE Begins(t)
  <2>1. /\ Client(t) /\ pc' = [pc EXCEPT ![t] = "nuke"]
        /\ pending' \in Nat /\ pending' <= pending
    <3>1. /\ pc[t] \in {"run", "poll", "deliver"} /\ (pc[t] = "run" => Client(t))
          /\ (pc[t] = "poll" => pending > 0) /\ pc' = [pc EXCEPT ![t] = "nuke"]
          /\ pending' \in Nat /\ pending' <= pending
      BY <1>0, <1>7, BeginsIs
    <3>2. pc[t] # "poll" /\ pc[t] # "deliver"
      BY <1>3, <3>1
    <3> QED BY <3>1, <3>2
  <2>2. \E todo \in Todos : waitingTo' = [waitingTo EXCEPT ![t] = Append(@, todo)]
    BY <1>0, <1>7, BeginsIs
  <2>3. Reapers = {}
    BY <2>1, ClientAlone
  <2>4. Reapers' \subseteq {t}
    BY <1>1, <2>2, <2>3 DEF Reapers
  <2>5. pending' = 0
    BY <1>3, <2>1
  <2> QED BY <1>5, <2>1, <2>4, <2>5 DEF Unique
<1>8. CASE Moves(t)
  <2>1. UNCHANGED waitingTo /\ pending' = 0
    BY <1>0, <1>3, <1>8, MovesIs
  <2>2. Quiet'
    BY <1>0, <1>1, <1>3, <1>5, <1>8, <2>1, MovesIs
  <2> QED BY <1>4, <2>1, <2>2 DEF Reapers
<1>9. CASE Pauses(t)
  <2>1. UNCHANGED <<waitingTo, pending>>
    BY <1>9, PausesIs
  <2>2. Quiet'
    BY <1>3, <1>5, <1>9, <2>1, PausesIs
  <2> QED BY <1>4, <2>1, <2>2 DEF Reapers
<1>10. CASE acquire_BigLock(t)
  <2>1. UNCHANGED <<waitingTo, pending>>
    BY <1>10, AcquireIs
  <2>2. Quiet'
    BY <1>3, <1>5, <1>10, <2>1, AcquireIs
  <2> QED BY <1>4, <2>1, <2>2 DEF Reapers
<1>11. CASE NukeTest(t) \/ NukeMark(t) \/ sys_exit(t) \/ \E u \in Tids : do_sigkill(t, u)
  <2>1. UNCHANGED <<waitingTo, pending, pc>>
    BY <1>11 DEF NukeTest, NukeMark, sys_exit, do_sigkill, threadVars
  <2> QED BY <1>4, <1>6, <2>1 DEF Reapers
<1>12. CASE NukeEnd(t) \/ Vanish(t)
  <2>1. UNCHANGED <<waitingTo, pending>>
    BY <1>12 DEF NukeEnd, Vanish
  <2>2. Quiet'
    BY <1>3, <1>5, <1>12, <2>1 DEF NukeEnd, Vanish, Goto
  <2> QED BY <1>4, <2>1, <2>2 DEF Reapers
<1>13. CASE ReapEnd(t)
  <2>1. t \in Reapers
    BY <1>13 DEF ReapEnd, Reapers, Before, Reaping
  <2>2. Reapers' \subseteq Reapers
    BY <1>1, <1>13, <2>1 DEF ReapEnd, Reapers
  <2>3. UNCHANGED pending
    BY <1>13 DEF ReapEnd
  <2>4. \/ UNCHANGED pc
        \/ pc' = [pc EXCEPT ![t] = IF Front(waitingTo[t]) = <<>> THEN "run" ELSE "reap"]
    BY <1>13 DEF ReapEnd, Goto
  <2> QED BY <1>3, <1>4, <1>5, <1>6, <2>2, <2>3, <2>4
<1>14. CASE run_a_thread_NORETURN(t)
  <2>1. UNCHANGED <<waitingTo, pending>>
    BY <1>14 DEF run_a_thread_NORETURN
  <2>2. UNCHANGED pc \/ pc' = [pc EXCEPT ![t] = "gone"]
    BY <1>14 DEF run_a_thread_NORETURN, exit_thread, Goto
  <2> QED BY <1>3, <1>4, <1>5, <1>6, <2>1, <2>2 DEF Reapers
<1>15. CASE do_clone(t)
  <2>1. UNCHANGED <<waitingTo, pending>>
    BY <1>0, <1>15, CloneIs DEF threadVars
  <2>2. UNCHANGED pc \/ \E c \in Tids : pc' = [pc EXCEPT ![c] = "start"]
    BY <1>0, <1>15, CloneIs DEF threadVars
  <2> QED BY <1>3, <1>4, <1>5, <1>6, <2>1, <2>2 DEF Reapers
<1>16. CASE do_fork_clone(t)
  <2>1. /\ UNCHANGED waitingTo /\ pending' = 0
        /\ pc' = [u \in Tids |-> IF u = t THEN pc[t] ELSE "none"]
    BY <1>16 DEF do_fork_clone
  <2> QED BY <1>3, <1>4, <2>1 DEF Reapers, Quiet
<1>17. CASE do_cloneFailed(t)
  <2>1. UNCHANGED <<pc, waitingTo, pending>>
    BY <1>0, <1>17, FailedIs
  <2> QED BY <1>4, <1>6, <2>1 DEF Reapers
<1> QED BY ActCases, <1>7, <1>8, <1>9, <1>10, <1>11, <1>12, <1>13, <1>14, <1>15, <1>16, <1>17

-----------------------------------------------------------------------------
(* The invariant and the theorems.                                         *)

LEMMA InitIInv == Init => IInv
<1> SUFFICES ASSUME Init PROVE IInv
  OBVIOUS
<1>1. 1 \in Tids /\ NoThread \notin Tids
  BY SchedulerAssumption DEF Tids, NoThread
<1>2. Types
  <2>1. status \in [Tids -> Statuses] /\ pc \in [Tids -> Locked \cup Unlocked]
    BY DEF Init, Statuses, Unlocked
  <2>2. exitreason \in [Tids -> Reasons] /\ waitingTo \in [Tids -> Seq(Todos)]
    BY DEF Init, Reasons
  <2> QED BY <2>1, <2>2 DEF Init, Types, NoNuke, Reasons
<1>3. Places /\ OneRunner /\ NukeLoop /\ Reaping
  BY <1>1 DEF Init, Places, OneRunner, NukeLoop, Reaping, Locked
<1>4. Reapers = {} /\ Living # {} /\ process = "on" /\ Quiet
  BY <1>1 DEF Init, Reapers, Living, Quiet
<1>5. Told /\ Unique /\ LastOneOut
  BY <1>4 DEF Told, Unique, LastOneOut
<1> QED BY <1>2, <1>3, <1>4, <1>5 DEF IInv

LEMMA NextIInv == IInv /\ [Next]_vars => IInv'
<1> SUFFICES ASSUME IInv, [Next]_vars PROVE IInv'
  OBVIOUS
<1>1. CASE UNCHANGED vars
  <2> USE <1>1 DEF vars, threadVars
  <2>1. Types' /\ LastOneOut'
    BY DEF IInv, Types, LastOneOut, Living
  <2>2. process' = "on" => Places' /\ OneRunner' /\ NukeLoop' /\ Reaping' /\ Told'
    BY DEF IInv, Places, OneRunner, NukeLoop, Reaping, Told, Reapers, Living, is_exiting
  <2>3. /\ process' = "on" => (sent' = 0 => Quiet')
        /\ sent' = 0 => Unique'
    BY DEF IInv, Quiet, Unique, Reapers
  <2> QED BY <2>1, <2>2, <2>3 DEF IInv
<1>2. CASE process = "on" /\ Send
  <2>1. /\ UNCHANGED <<status, exitreason, pc, waitingTo, running_tid, lock, nuke, process>>
        /\ sent' = sent + 1 /\ pending' = pending + 1
    BY <1>2 DEF Send, threadVars
  <2>2. Types' /\ sent' # 0
    BY <2>1 DEF IInv, Types
  <2>3. LastOneOut' /\ Places' /\ OneRunner' /\ NukeLoop' /\ Reaping' /\ Told'
    BY <1>2, <2>1 DEF IInv, Places, OneRunner, NukeLoop, Reaping, Told, Reapers, Living,
                      is_exiting, LastOneOut
  <2> QED BY <2>2, <2>3 DEF IInv
<1>3. ASSUME process = "on", NEW t \in Tids, Act(t) PROVE IInv'
  <2>1. Before
    BY <1>3 DEF IInv, Before
  <2>2. Types' /\ LastOneOut'
    BY <1>3, <2>1, TypesStep, LastStep
  <2>3. process' = "on" => Places' /\ OneRunner' /\ NukeLoop' /\ Reaping' /\ Told'
    BY <1>3, <2>1, RunnerStep, LoopStep, ToldStep
  <2>4. sent' = 0 => Quiet' /\ Unique'
    BY <1>3, <2>1, QuietStep
  <2> QED BY <2>2, <2>3, <2>4 DEF IInv
<1> QED BY <1>1, <1>2, <1>3 DEF Next, Ended, Act

\* The invariant holds in every state of the scheduler.
THEOREM SchedulerInvariant == Spec => []IInv
<1>1. Init /\ [][Next]_vars => []IInv
  BY InitIInv, NextIInv, PTL
<1> QED BY <1>1, PTL DEF Spec

\* A thread is Runnable exactly while it has the lock, and it is the running one:
\* VG_(acquire_BigLock), VG_(release_BigLock) and VG_(exit_thread).
THEOREM SchedulerRunner == Spec => []OneRunner
<1>1. IInv => OneRunner
  BY DEF IInv, OneRunner
<1> QED BY <1>1, SchedulerInvariant, PTL

\* alloc_ThreadState never gives away a slot whose thread is still on its stack.
THEOREM SchedulerSlots == Spec => []SlotsFree
<1>1. IInv => SlotsFree
  BY DEF IInv, Places, SlotsFree
<1> QED BY <1>1, SchedulerInvariant, PTL

\* As long as the process is on a thread is alive, and when it has been shut down none
\* is: run_a_thread_NORETURN and count_living_threads.
THEOREM SchedulerLast == Spec => []LastOneOut
<1>1. IInv => LastOneOut
  BY DEF IInv
<1> QED BY <1>1, SchedulerInvariant, PTL

\* With synchronous signals only, two threads never wait for each other in
\* reap_threads, however many threads call exit_group and execve or fault.
THEOREM SchedulerReaper == Spec => []OneReaper
<1>1. IInv => OneReaper
  <2> SUFFICES ASSUME IInv, sent = 0 PROVE Cardinality(Reapers) <= 1
    BY DEF OneReaper
  <2>1. \A t, u \in Reapers : t = u
    BY DEF IInv, Unique
  <2>2. CASE Reapers = {}
    BY <2>2, FS_EmptySet
  <2>3. CASE Reapers # {}
    <3>1. PICK t : Reapers = {t}
      BY <2>1, <2>3
    <3> QED BY <3>1, FS_Singleton
  <2> QED BY <2>2, <2>3
<1> QED BY <1>1, SchedulerInvariant, PTL

\* Whatever signals come: once a thread is in nuke_all_threads_except or reap_threads
\* no thread runs client code any more, the one that reaps included.
THEOREM SchedulerNoClient ==
  Spec => [](process = "on" /\ Reapers # {} => \A t \in Tids : ~Client(t))
<1>1. IInv => (process = "on" /\ Reapers # {} => \A t \in Tids : ~Client(t))
  <2> SUFFICES ASSUME IInv, process = "on", Reapers # {}, NEW t \in Tids, Client(t)
               PROVE  FALSE
    OBVIOUS
  <2>1. Before
    BY DEF IInv, Before
  <2> QED BY <2>1, ClientAlone
<1> QED BY <1>1, SchedulerInvariant, PTL

-----------------------------------------------------------------------------
(* The scheduler implements Process.                                       *)

ToldNow == {t \in Living : is_exiting(t)}

\* What a step does to the living threads and to those that are to exit.
LEMMA ProcessStep ==
  ASSUME Before, NEW t \in Tids, Act(t)
  PROVE  End!Next \/ UNCHANGED <<Living, ToldNow, process>>
<1> USE DEF ToldNow
<1>0. Types /\ Places /\ process = "on" /\ status \in [Tids -> Statuses]
      /\ exitreason \in [Tids -> Reasons] /\ Living \subseteq Tids
  BY DEF Before, Types, Living
<1>1. ASSUME NEW u \in Living, NEW r \in Reasons \ {"None"}, UNCHANGED <<status, process>>,
             exitreason' = [exitreason EXCEPT ![u] = r]
      PROVE  End!Next
  <2>1. u \in Tids /\ Living' = Living
    BY <1>0, <1>1 DEF Living
  <2>2. ToldNow' = ToldNow \cup {u}
    BY <1>0, <1>1, <2>1 DEF is_exiting
  <2>3. End!Tell(u)
    BY <1>1, <2>1, <2>2 DEF End!Tell
  <2> QED BY <1>0, <2>1, <2>3 DEF End!Next
<1>2. ASSUME NEW u \in Tids, NEW w \in Statuses \ {"Empty", "Zombie"}, u \in Living,
             UNCHANGED <<exitreason, process>>, status' = [status EXCEPT ![u] = w]
      PROVE  UNCHANGED <<Living, ToldNow, process>>
  BY <1>0, <1>2 DEF Living, is_exiting
<1>3. ASSUME UNCHANGED <<status, exitreason, process>>
      PROVE  UNCHANGED <<Living, ToldNow, process>>
  BY <1>3 DEF Living, is_exiting
<1>4. ASSUME UNCHANGED status, process' \in {"is_valid_tid failed", "max-threads too low"},
             \A u \in Living : exitreason'[u] = exitreason[u]
      PROVE  End!Next
  <2>1. Living' = Living /\ ToldNow' = ToldNow
    BY <1>4 DEF Living, is_exiting
  <2>2. End!Fail
    BY <1>4, <2>1 DEF End!Fail
  <2> QED BY <1>0, <2>2 DEF End!Next
<1>5. CASE Begins(t) \/ Moves(t) \/ NukeTest(t) \/ NukeEnd(t)
  <2>1. UNCHANGED <<status, exitreason, process>>
    BY <1>0, <1>5, BeginsIs, MovesIs DEF NukeTest, NukeEnd, threadVars
  <2> QED BY <1>3, <2>1
<1>6. CASE Pauses(t)
  <2>1. PICK w \in {"Yielding", "WaitSys"} : status' = [status EXCEPT ![t] = w]
    BY <1>6, PausesIs
  <2>2. UNCHANGED <<exitreason, process>> /\ pc[t] \in {"reap", "run"}
    BY <1>6, PausesIs
  <2>3. t \in Living
    BY <1>0, <2>2 DEF Places, Living, Locked
  <2> QED BY <1>2, <2>1, <2>2, <2>3 DEF Statuses
<1>7. CASE acquire_BigLock(t)
  <2>1. /\ status' = [status EXCEPT ![t] = "Runnable"] /\ UNCHANGED <<exitreason, process>>
        /\ pc[t] \in {"start", "sysret", "slice", "yield", "vgkill", "async"}
    BY <1>7, AcquireIs
  <2>2. t \in Living
    BY <1>0, <2>1 DEF Places, Living
  <2> QED BY <1>2, <2>1, <2>2 DEF Statuses
<1>8. CASE NukeMark(t)
  <2> DEFINE u == nuke.next
  <2>1. /\ pc[t] = "nuke" /\ nuke.seen /\ UNCHANGED status
        /\ exitreason' = [exitreason EXCEPT ![u] = nuke.src]
        /\ process' = IF status[u] = "Empty" THEN "is_valid_tid failed" ELSE process
    BY <1>8 DEF NukeMark
  <2>2. u \in Tids /\ nuke.src \in Reasons \ {"None"}
    BY <2>1 DEF Before, NukeLoop, Types
  <2> HIDE DEF u
  <2>3. CASE status[u] = "Empty"
    <3>1. u \notin Living
      BY <2>3 DEF Living
    <3>2. \A v \in Living : exitreason'[v] = exitreason[v]
      BY <1>0, <2>1, <3>1
    <3> QED BY <1>4, <2>1, <2>3, <3>2
  <2>4. CASE status[u] = "Zombie"
    <3>1. u \notin Living
      BY <2>4 DEF Living
    <3>2. \A v \in Living : exitreason'[v] = exitreason[v]
      BY <1>0, <2>1, <3>1
    <3> QED BY <2>1, <2>4, <3>2 DEF Living, is_exiting
  <2>5. CASE u \in Living
    <3>1. UNCHANGED process
      BY <2>1, <2>5 DEF Living
    <3> QED BY <1>1, <2>1, <2>2, <2>5, <3>1
  <2> QED BY <2>2, <2>3, <2>4, <2>5 DEF Living
<1>9. CASE ReapEnd(t)
  <2> DEFINE todo == Last(waitingTo[t])
  <2>1. Living = {t} /\ UNCHANGED status
    BY <1>9 DEF ReapEnd
  <2>2. CASE todo = "exec"
    <3>1. process' = "replaced" /\ UNCHANGED exitreason
      BY <1>9, <2>2 DEF ReapEnd
    <3>2. Living' = Living /\ ToldNow' = ToldNow
      BY <2>1, <3>1 DEF Living, is_exiting
    <3>3. End!Replace(t)
      BY <2>1, <3>1, <3>2 DEF End!Replace
    <3> QED BY <1>0, <3>3 DEF End!Next
  <2>3. CASE todo # "exec"
    <3>1. UNCHANGED process /\ exitreason' = [exitreason EXCEPT ![t] = todo]
      BY <1>9, <2>3 DEF ReapEnd
    <3>2. todo \in Todos
      <4>1. waitingTo[t] \in Seq(Todos) /\ waitingTo[t] # <<>>
        BY <1>9 DEF Before, Types, Reaping, ReapEnd
      <4> QED BY <4>1 DEF Last
    <3>3. todo \in Reasons \ {"None"}
      BY <2>3, <3>2 DEF Todos, Reasons
    <3> HIDE DEF todo
    <3> QED BY <1>1, <2>1, <3>1, <3>3
  <2> QED BY <2>2, <2>3
<1>10. CASE run_a_thread_NORETURN(t)
  <2>1. pc[t] = "run" /\ is_exiting(t) /\ UNCHANGED exitreason
    BY <1>10 DEF run_a_thread_NORETURN
  <2>2. t \in Living /\ t \in ToldNow
    BY <1>0, <2>1 DEF Places, Living, Locked
  <2>3. IsFiniteSet(Living)
    <3>1. IsFiniteSet(Tids)
      BY SchedulerAssumption, FS_Interval DEF Tids
    <3> QED BY <1>0, <3>1, FS_Subset
  <2>4. CASE Cardinality(Living) = 1
    <3>1. Living = {t} /\ ToldNow = {t}
      <4>1. Living = {t}
        BY <2>2, <2>3, <2>4, FS_Singleton
      <4> QED BY <2>2, <4>1
    <3>2. process' = "shut down" /\ status' = [status EXCEPT ![t] = "Empty"]
      BY <1>10, <2>4 DEF run_a_thread_NORETURN
    <3>3. Living' = {} /\ ToldNow' = {}
      BY <1>0, <3>1, <3>2 DEF Living
    <3>4. End!Finish(t)
      BY <3>1, <3>2, <3>3 DEF End!Finish
    <3> QED BY <1>0, <3>4 DEF End!Next
  <2>5. CASE Cardinality(Living) # 1
    <3>1. Living # {t}
      BY <2>5, FS_Singleton
    <3>2. UNCHANGED process /\ status' = [status EXCEPT ![t] = "Zombie"]
      BY <1>10, <2>5 DEF run_a_thread_NORETURN, exit_thread
    <3>3. Living' = Living \ {t}
      BY <1>0, <3>2 DEF Living
    <3>4. ToldNow' = ToldNow \ {t}
      BY <2>1, <3>3 DEF is_exiting
    <3>5. End!Leave(t)
      BY <2>2, <3>1, <3>2, <3>3, <3>4 DEF End!Leave
    <3> QED BY <1>0, <3>5 DEF End!Next
  <2> QED BY <2>4, <2>5
<1>11. CASE Vanish(t)
  <2>1. /\ pc[t] = "gone" /\ status' = [status EXCEPT ![t] = "Empty"]
        /\ UNCHANGED <<exitreason, process>>
    BY <1>11 DEF Vanish
  <2>2. t \notin Living
    BY <1>0, <2>1 DEF Places, Living
  <2>3. Living' = Living
    BY <1>0, <2>1, <2>2 DEF Living
  <2> QED BY <2>1, <2>3 DEF is_exiting
<1>12. CASE do_clone(t)
  <2>1. Client(t) /\ t \in Living
    BY <1>12, ClientAlone DEF do_clone
  <2>2. CASE \A c \in Tids : status[c] # "Empty"
    <3>1. EmptySlots = {}
      BY <2>2 DEF EmptySlots
    <3>2. process' = "max-threads too low" /\ UNCHANGED threadVars
      BY <1>12, <3>1 DEF do_clone
    <3> QED BY <1>4, <3>2 DEF threadVars
  <2>3. CASE \E c \in Tids : /\ status[c] = "Empty" /\ UNCHANGED <<waitingTo, process>>
                             /\ status' = [status EXCEPT ![c] = "Init"]
                             /\ exitreason' = [exitreason EXCEPT ![c] = "None"]
                             /\ pc' = [pc EXCEPT ![c] = "start"]
    <3>1. PICK c \in Tids : /\ status[c] = "Empty" /\ UNCHANGED process
                            /\ status' = [status EXCEPT ![c] = "Init"]
                            /\ exitreason' = [exitreason EXCEPT ![c] = "None"]
      BY <2>3
    <3>2. c \notin Living /\ Living' = Living \cup {c}
      BY <1>0, <3>1 DEF Living
    <3>3. ToldNow' = ToldNow
      BY <1>0, <3>1, <3>2 DEF is_exiting
    <3>4. Living # ToldNow
      BY <2>1 DEF Client
    <3>5. End!Start(c)
      BY <3>1, <3>2, <3>3, <3>4 DEF End!Start
    <3> QED BY <1>0, <3>5 DEF End!Next
  <2>4. CASE process' # "on" /\ UNCHANGED threadVars /\ \E c \in Tids : status[c] = "Empty"
    <3>1. EmptySlots # {}
      BY <2>4 DEF EmptySlots
    <3>2. UNCHANGED process
      BY <1>12, <3>1 DEF do_clone
    <3> QED BY <1>0, <2>4, <3>2
  <2> QED BY <1>0, <1>12, <2>2, <2>3, <2>4, CloneIs
<1>13. CASE do_fork_clone(t)
  <2>1. /\ Client(t) /\ UNCHANGED <<exitreason, process>>
        /\ status' = [u \in Tids |-> IF u = t THEN status[t] ELSE "Empty"]
    BY <1>13 DEF do_fork_clone
  <2>2. t \in Living /\ t \notin ToldNow
    BY <2>1, ClientAlone DEF Client
  <2>3. Living' = {t}
    BY <2>1, <2>2 DEF Living
  <2>4. ToldNow' = {}
    BY <2>1, <2>2, <2>3 DEF is_exiting
  <2>5. End!Fork(t)
    BY <2>1, <2>2, <2>3, <2>4 DEF End!Fork
  <2> QED BY <1>0, <2>5 DEF End!Next
<1>14. CASE sys_exit(t)
  <2>1. Client(t) /\ UNCHANGED <<status, process>>
        /\ exitreason' = [exitreason EXCEPT ![t] = "ExitThread"]
    BY <1>14 DEF sys_exit
  <2>2. t \in Living
    BY <2>1, ClientAlone
  <2> QED BY <1>1, <2>1, <2>2 DEF Reasons
<1>15. CASE \E u \in Tids : do_sigkill(t, u)
  <2>1. PICK u \in Tids : do_sigkill(t, u)
    BY <1>15
  <2>2. u \in Living /\ UNCHANGED <<status, process>>
        /\ exitreason' = [exitreason EXCEPT ![u] = "FatalSig"]
    BY <2>1 DEF do_sigkill, Living
  <2> QED BY <1>1, <2>2 DEF Reasons
<1>16. CASE do_cloneFailed(t)
  <2>1. /\ UNCHANGED <<status, process>>
        /\ \A u \in Living : exitreason'[u] = exitreason[u]
    BY <1>0, <1>16, FailedIs
  <2> QED BY <2>1 DEF Living, is_exiting
<1> QED BY ActCases, <1>5, <1>6, <1>7, <1>8, <1>9, <1>10, <1>11, <1>12, <1>13, <1>14, <1>15,
           <1>16

\* The threads come and go, and the process ends, as Process says: exit_thread,
\* nuke_all_threads_except, reap_threads and run_a_thread_NORETURN, with do_clone and
\* forks in between.
THEOREM SchedulerEnds == Spec => ProcessSpec
<1>1. Init => End!Init
  <2> SUFFICES ASSUME Init PROVE End!Init
    OBVIOUS
  <2>1. 1 \in Tids
    BY SchedulerAssumption DEF Tids
  <2>2. Living = {1}
    BY <2>1 DEF Init, Living
  <2>3. ToldNow = {}
    BY <2>1, <2>2 DEF Init, ToldNow, is_exiting
  <2> QED BY <2>1, <2>2, <2>3 DEF Init, End!Init, ToldNow
<1>2. IInv /\ [Next]_vars => [End!Next]_<<Living, ToldNow, process>>
  <2> SUFFICES ASSUME IInv, [Next]_vars
               PROVE  End!Next \/ UNCHANGED <<Living, ToldNow, process>>
    OBVIOUS
  <2>1. CASE process = "on" /\ \E t \in Tids : Act(t)
    <3>1. Before
      BY <2>1 DEF IInv, Before
    <3> QED BY <2>1, <3>1, ProcessStep
  <2>2. CASE Send \/ UNCHANGED vars
    <3>1. UNCHANGED <<status, exitreason, process>>
      BY <2>2 DEF Send, vars, threadVars
    <3> QED BY <3>1 DEF Living, ToldNow, is_exiting
  <2> QED BY <2>1, <2>2 DEF Next, Ended, Act
<1>3. Init /\ [][Next]_vars /\ []IInv
        => End!Init /\ [][End!Next]_<<Living, ToldNow, process>>
  BY <1>1, <1>2, PTL
<1>4. Spec => Init /\ [][Next]_vars
  BY PTL DEF Spec
<1> QED BY <1>3, <1>4, SchedulerInvariant, PTL DEF ProcessSpec, End!Spec, ToldNow
=============================================================================
