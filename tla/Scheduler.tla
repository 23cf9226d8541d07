------------------------------ MODULE Scheduler ------------------------------
(***************************************************************************)
(* The threads of the client under Valgrind's core: the scheduler loop and *)
(* the big lock (m_scheduler/scheduler.c), blocking system calls           *)
(* (m_syswrap/syswrap-main.c), thread creation, exit, exit_group, execve   *)
(* and kill (m_syswrap/syswrap-linux.c, syswrap-generic.c), and signals    *)
(* whose default action is to kill (m_signals.c).                          *)
(*                                                                         *)
(* A thread runs client code, and with it Datagrind's callbacks, only      *)
(* while it holds the lock; a section under the lock is one action unless  *)
(* something can change meanwhile.  The one thing that can is a Zombie     *)
(* that becomes Empty, which is why the loop of nuke_all_threads_except is *)
(* taken step by step.  The lock is a Lock, which SchedLock implements;    *)
(* SchedLock also shows that a section under it is not interrupted.        *)
(*                                                                         *)
(* Signals with a handler only redirect client code and are left out, as   *)
(* are exit codes, gdbserver and final_tidyup, which runs for tools that   *)
(* need libc_freeres (Datagrind does not).                                 *)
(***************************************************************************)
EXTENDS Integers, Sequences, FiniteSets, FiniteSetsExt, SequencesExt

CONSTANTS VG_N_THREADS,  \* slots; slot 0 is not used
          MaxSignals     \* bound: asynchronous fatal signals sent to the process

ASSUME SchedulerAssumption ==
  VG_N_THREADS \in Nat /\ VG_N_THREADS > 1 /\ MaxSignals \in Nat

VARIABLES
  status, exitreason,  \* VG_(threads)[tid]
  running_tid,
  lock,      \* the thread that holds the big lock, or NoThread
  pc,        \* where a thread is
  vgkill,    \* a SIGVGKILL is pending for it in the kernel
  waitingTo, \* what it will do when reap_threads returns, innermost call last
  nuke,      \* the loop of nuke_all_threads_except
  sent,      \* fatal signals sent so far
  pending,   \* fatal signals pending for the process
  process    \* "on", or how it ended

threadVars == <<status, exitreason, pc, vgkill, waitingTo>>
vars == <<threadVars, running_tid, lock, nuke, sent, pending, process>>

Tids == 1 .. VG_N_THREADS - 1
NoThread == 0                       \* VG_INVALID_THREADID

NoNuke == [next |-> 0, src |-> "None", seen |-> FALSE]

Init ==
  /\ status = [t \in Tids |-> IF t = 1 THEN "Init" ELSE "Empty"]
  /\ exitreason = [t \in Tids |-> "None"]
  /\ pc = [t \in Tids |-> IF t = 1 THEN "start" ELSE "none"]
  /\ vgkill = [t \in Tids |-> FALSE]
  /\ waitingTo = [t \in Tids |-> <<>>]
  /\ running_tid = NoThread /\ lock = NoThread
  /\ nuke = NoNuke
  /\ sent = 0 /\ pending = 0
  /\ process = "on"

is_exiting(t) == exitreason[t] # "None"

\* Mutant: Zombies are counted.
LivingWithZombies == {t \in Tids : status[t] # "Empty"}

\* The threads count_living_threads counts.
Living == {t \in Tids : status[t] \notin {"Empty", "Zombie"}}

Goto(t, l) == pc' = [pc EXCEPT ![t] = l]

-----------------------------------------------------------------------------
(* The big lock.                                                           *)

\* Where a thread goes on once it has the lock.  A thread that left its system
\* call through a signal handler, ended its time slice or yielded while it reaps
\* polls for signals first.
After == [start   |-> "run",     \* thread_wrapper
          slice   |-> "poll",    \* VG_(scheduler)
          yield   |-> "poll",    \* reap_threads
          sysret  |-> "run",     \* client_syscall
          vgkill  |-> "poll",    \* sigvgkill_handler, then handle_syscall
          async   |-> "deliver"] \* async_signalhandler

\* VG_(acquire_BigLock)
acquire_BigLock(t) ==
  /\ pc[t] \in DOMAIN After /\ lock = NoThread
  /\ lock' = t /\ running_tid' = t
  /\ status' = [status EXCEPT ![t] = "Runnable"]
  /\ Goto(t, After[pc[t]])
  /\ UNCHANGED <<exitreason, vgkill, waitingTo, nuke, sent, pending, process>>

\* VG_(release_BigLock)
release_BigLock(t, sleepstate) ==
  /\ lock' = NoThread /\ running_tid' = NoThread
  /\ status' = [status EXCEPT ![t] = sleepstate]

-----------------------------------------------------------------------------
(* The end of threads and of the process.                                  *)

\* nuke_all_threads_except begins; todo is what its caller does after reaping.
BeginNuke(t, src, todo) ==
  /\ nuke' = [next |-> 1, src |-> src, seen |-> FALSE]
  /\ waitingTo' = [waitingTo EXCEPT ![t] = Append(@, todo)]
  /\ Goto(t, "nuke")

\* The loop finds slot next in use.
NukeTest(t) ==
  LET u == nuke.next IN
  /\ pc[t] = "nuke" /\ u \in Tids /\ ~nuke.seen
  /\ nuke' = IF u = t \/ status[u] = "Empty" THEN [nuke EXCEPT !.next = u + 1]
             ELSE [nuke EXCEPT !.seen = TRUE]
  /\ UNCHANGED <<threadVars, running_tid, lock, sent, pending, process>>

\* Mutant: only a thread that is already in the kernel gets the signal.
ZapIfBlocked(u) == vgkill' = [vgkill EXCEPT ![u] = @ \/ pc[u] = "blocked"]

\* get_thread_out_of_syscall: tkill with SIGVGKILL.  The signal stays pending if the
\* thread has not reached its system call yet or has just left it.
get_thread_out_of_syscall(u) ==
  vgkill' = [vgkill EXCEPT ![u] = @ \/ status[u] = "WaitSys"]

\* The loop marks the thread and gets it out of its system call; is_valid_tid is
\* asserted on the way, which fails if the slot has become Empty.
NukeMark(t) ==
  LET u == nuke.next IN
  /\ pc[t] = "nuke" /\ nuke.seen
  /\ exitreason' = [exitreason EXCEPT ![u] = nuke.src]
  /\ get_thread_out_of_syscall(u)
  /\ nuke' = [nuke EXCEPT !.next = u + 1, !.seen = FALSE]
  /\ process' = IF status[u] = "Empty" THEN "is_valid_tid failed" ELSE process
  /\ UNCHANGED <<status, pc, waitingTo, running_tid, lock, sent, pending>>

NukeEnd(t) ==
  /\ pc[t] = "nuke" /\ nuke.next = VG_N_THREADS
  /\ nuke' = NoNuke
  /\ Goto(t, "reap")
  /\ UNCHANGED <<status, exitreason, vgkill, waitingTo, running_tid, lock, sent,
                 pending, process>>

\* reap_threads, others being there: vg_yield; poll_signals follows.
ReapYield(t) ==
  /\ pc[t] = "reap" /\ Living # {t}
  /\ release_BigLock(t, "Yielding")
  /\ Goto(t, "yield")
  /\ UNCHANGED <<exitreason, vgkill, waitingTo, nuke, sent, pending, process>>

\* reap_threads returns: exit_group and default_action set the exit reason, and the
\* call before goes on with its own reap_threads; execve leaves for the new program.
ReapEnd(t) ==
  LET todo == Last(waitingTo[t])
      left == Front(waitingTo[t])
  IN /\ pc[t] = "reap" /\ Living = {t}
     /\ waitingTo' = [waitingTo EXCEPT ![t] = left]
     /\ IF todo = "exec"
          THEN process' = "replaced" /\ UNCHANGED <<exitreason, pc>>
          ELSE /\ exitreason' = [exitreason EXCEPT ![t] = todo]
               /\ Goto(t, IF left = <<>> THEN "run" ELSE "reap")
               /\ UNCHANGED process
     /\ UNCHANGED <<status, vgkill, running_tid, lock, nuke, sent, pending>>

\* Mutants: the thread still counts as the running one; its slot is given free before
\* it is off its stack.
exit_threadRunning(t) ==
  /\ status' = [status EXCEPT ![t] = "Zombie"]
  /\ lock' = NoThread
  /\ Goto(t, "gone")
  /\ UNCHANGED running_tid
exit_threadEmpty(t) ==
  /\ status' = [status EXCEPT ![t] = "Empty"]
  /\ running_tid' = NoThread /\ lock' = NoThread
  /\ Goto(t, "gone")

exit_thread(t) ==
  /\ status' = [status EXCEPT ![t] = "Zombie"]
  /\ running_tid' = NoThread /\ lock' = NoThread
  /\ Goto(t, "gone")

\* The scheduler loop ends for a thread that is to exit.  The last one shuts the
\* process down, with dg_fini; others leave a Zombie.
run_a_thread_NORETURN(t) ==
  /\ pc[t] = "run" /\ is_exiting(t)
  /\ IF Cardinality(Living) = 1
       THEN /\ process' = "shut down"
            /\ status' = [status EXCEPT ![t] = "Empty"]
            /\ UNCHANGED <<pc, running_tid, lock>>
       ELSE exit_thread(t) /\ UNCHANGED process
  /\ UNCHANGED <<exitreason, vgkill, waitingTo, nuke, sent, pending>>

\* The few instructions behind it, without the lock: the slot is given free and the
\* kernel ends the thread, and with it the signals pending for it.
Vanish(t) ==
  /\ pc[t] = "gone"
  /\ status' = [status EXCEPT ![t] = "Empty"]
  /\ vgkill' = [vgkill EXCEPT ![t] = FALSE]
  /\ Goto(t, "none")
  /\ UNCHANGED <<exitreason, waitingTo, running_tid, lock, nuke, sent, pending, process>>

-----------------------------------------------------------------------------
(* Signals.                                                                *)

\* default_action of a signal that kills.
default_action(t) == BeginNuke(t, "FatalSig", "FatalSig")

Polled(t) == IF waitingTo[t] = <<>> THEN "run" ELSE "reap"

\* VG_(poll_signals) finds nothing, finds a SIGVGKILL, or finds a fatal signal; it
\* does not look if the thread is to die of a fatal signal already.
PollNothing(t) ==
  /\ pc[t] = "poll"
  /\ exitreason[t] = "FatalSig" \/ (pending = 0 /\ ~vgkill[t])
  /\ Goto(t, Polled(t))
  /\ UNCHANGED <<status, exitreason, vgkill, waitingTo, running_tid, lock, nuke, sent,
                 pending, process>>

PollVgkill(t) ==
  /\ pc[t] = "poll" /\ exitreason[t] # "FatalSig" /\ vgkill[t]
  /\ vgkill' = [vgkill EXCEPT ![t] = FALSE]
  /\ Goto(t, Polled(t))
  /\ UNCHANGED <<status, exitreason, waitingTo, running_tid, lock, nuke, sent, pending,
                 process>>

PollFatal(t) ==
  /\ pc[t] = "poll" /\ exitreason[t] # "FatalSig" /\ pending > 0
  /\ pending' = pending - 1
  /\ default_action(t)
  /\ UNCHANGED <<status, exitreason, vgkill, running_tid, lock, sent, process>>

\* The rest of async_signalhandler, with the lock: a thread that is to die of a
\* fatal signal does not handle another one.
Deliver(t) ==
  /\ pc[t] = "deliver"
  /\ IF exitreason[t] = "FatalSig"
       THEN Goto(t, "poll") /\ UNCHANGED <<nuke, waitingTo>>
       ELSE default_action(t)
  /\ UNCHANGED <<status, exitreason, vgkill, running_tid, lock, sent, pending, process>>

\* Somebody sends the process a fatal signal.
Send ==
  /\ sent < MaxSignals
  /\ sent' = sent + 1 /\ pending' = pending + 1
  /\ UNCHANGED <<threadVars, running_tid, lock, nuke, process>>

-----------------------------------------------------------------------------
(* What client code does to be noticed here: a thread that runs and is not  *)
(* to exit.                                                                 *)

\* Mutant: the loop does not ask whether the thread is to exit.
ClientAnyway(t) == pc[t] = "run"

Client(t) == pc[t] = "run" /\ ~is_exiting(t)

\* dispatch_ctr is 0.
Timeslice(t) ==
  /\ Client(t)
  /\ release_BigLock(t, "Yielding")
  /\ Goto(t, "slice")
  /\ UNCHANGED <<exitreason, vgkill, waitingTo, nuke, sent, pending, process>>

\* client_syscall with SfMayBlock: the lock is given up, then do_syscall_for_client
\* unblocks signals and enters the kernel.
Syscall(t) ==
  /\ Client(t)
  /\ release_BigLock(t, "WaitSys")
  /\ Goto(t, "syscall")
  /\ UNCHANGED <<exitreason, vgkill, waitingTo, nuke, sent, pending, process>>

EnterKernel(t) ==
  /\ pc[t] = "syscall" /\ Goto(t, "blocked")
  /\ UNCHANGED <<status, exitreason, vgkill, waitingTo, running_tid, lock, nuke, sent,
                 pending, process>>

\* The system call ends and signals are blocked again.
SyscallReturns(t) ==
  /\ pc[t] = "blocked" /\ Goto(t, "sysret")
  /\ UNCHANGED <<status, exitreason, vgkill, waitingTo, running_tid, lock, nuke, sent,
                 pending, process>>

\* Mutant: the handler returns into the system call, which is restarted.
sigvgkillReturns(t) ==
  /\ pc[t] = "blocked" /\ vgkill[t]
  /\ vgkill' = [vgkill EXCEPT ![t] = FALSE]
  /\ UNCHANGED <<status, exitreason, pc, waitingTo, running_tid, lock, nuke, sent, pending,
                 process>>

\* sigvgkill_handler and async_signalhandler, up to acquire_BigLock.
sigvgkill_handler(t) ==
  /\ pc[t] = "blocked" /\ vgkill[t]
  /\ vgkill' = [vgkill EXCEPT ![t] = FALSE]
  /\ Goto(t, "vgkill")
  /\ UNCHANGED <<status, exitreason, waitingTo, running_tid, lock, nuke, sent, pending,
                 process>>

async_signalhandler(t) ==
  /\ pc[t] = "blocked" /\ pending > 0
  /\ pending' = pending - 1
  /\ Goto(t, "async")
  /\ UNCHANGED <<status, exitreason, vgkill, waitingTo, running_tid, lock, nuke, sent,
                 process>>

\* alloc_ThreadState takes the first of the slots it finds Empty.
EmptySlots == {u \in Tids : status[u] = "Empty"}

\* do_clone; alloc_ThreadState panics if no slot is Empty.
do_clone(t) ==
  /\ Client(t)
  /\ LET c == Min(EmptySlots)
     IN IF EmptySlots = {}
          THEN process' = "max-threads too low" /\ UNCHANGED threadVars
          ELSE /\ status' = [status EXCEPT ![c] = "Init"]
               /\ exitreason' = [exitreason EXCEPT ![c] = "None"]
               /\ Goto(c, "start")
               /\ UNCHANGED <<vgkill, waitingTo, process>>
  /\ UNCHANGED <<running_tid, lock, nuke, sent, pending>>

\* do_clone when the kernel refuses ("clone failed"): the slot is Empty again.
do_cloneFailed(t) ==
  /\ Client(t) /\ EmptySlots # {}
  /\ exitreason' = [exitreason EXCEPT ![Min(EmptySlots)] = "None"]
  /\ UNCHANGED <<status, pc, vgkill, waitingTo, running_tid, lock, nuke, sent, pending,
                 process>>

\* The child of do_fork_clone: sched_fork_cleanup.  Signals that are pending in the
\* parent are not pending in the child.
do_fork_clone(t) ==
  /\ Client(t)
  /\ status' = [u \in Tids |-> IF u = t THEN status[t] ELSE "Empty"]
  /\ pc' = [u \in Tids |-> IF u = t THEN pc[t] ELSE "none"]
  /\ vgkill' = [u \in Tids |-> FALSE]
  /\ pending' = 0
  /\ lock' = t
  /\ UNCHANGED <<exitreason, waitingTo, running_tid, nuke, sent, process>>

sys_exit(t) ==
  /\ Client(t)
  /\ exitreason' = [exitreason EXCEPT ![t] = "ExitThread"]
  /\ UNCHANGED <<status, pc, vgkill, waitingTo, running_tid, lock, nuke, sent, pending,
                 process>>

sys_exit_group(t) ==
  /\ Client(t)
  /\ BeginNuke(t, "ExitProcess", "ExitThread")
  /\ UNCHANGED <<status, exitreason, vgkill, running_tid, lock, sent, pending, process>>

sys_execve(t) ==
  /\ Client(t)
  /\ BeginNuke(t, "ExitThread", "exec")
  /\ UNCHANGED <<status, exitreason, vgkill, running_tid, lock, sent, pending, process>>

\* A synchronous fault without a handler.
synth_fault(t) ==
  /\ Client(t)
  /\ default_action(t)
  /\ UNCHANGED <<status, exitreason, vgkill, running_tid, lock, sent, pending, process>>

\* kill or tgkill of a thread of this process with SIGKILL.  A thread has an lwpid
\* from its first action under the lock until it is a Zombie.
do_sigkill(t, u) ==
  /\ Client(t)
  /\ status[u] \notin {"Empty", "Init", "Zombie"} /\ ~is_exiting(u)
  /\ exitreason' = [exitreason EXCEPT ![u] = "FatalSig"]
  /\ IF u = running_tid THEN UNCHANGED vgkill ELSE get_thread_out_of_syscall(u)
  /\ UNCHANGED <<status, pc, waitingTo, running_tid, lock, nuke, sent, pending, process>>

-----------------------------------------------------------------------------

\* What a thread does by itself, with the lock or in a handler.
Step(t) == \/ NukeTest(t) \/ NukeMark(t) \/ NukeEnd(t)
           \/ ReapYield(t) \/ ReapEnd(t)
           \/ run_a_thread_NORETURN(t) \/ Vanish(t)
           \/ PollNothing(t) \/ PollVgkill(t) \/ PollFatal(t) \/ Deliver(t)
           \/ Timeslice(t) \/ EnterKernel(t) \/ sigvgkill_handler(t)

\* What it may do, or the world may do to it.
Choice(t) == \/ Syscall(t) \/ SyscallReturns(t) \/ async_signalhandler(t)
             \/ do_clone(t) \/ do_cloneFailed(t) \/ do_fork_clone(t)
             \/ sys_exit(t) \/ sys_exit_group(t) \/ sys_execve(t) \/ synth_fault(t)
             \/ \E u \in Tids : do_sigkill(t, u)

Ended == process # "on" /\ UNCHANGED vars

Next == \/ /\ process = "on"
           /\ Send \/ \E t \in Tids : acquire_BigLock(t) \/ Step(t) \/ Choice(t)
        \/ Ended

On(A) == process = "on" /\ A

\* A thread that can go on by itself does: time slices end, the kernel delivers a
\* pending SIGVGKILL.  A system call need not return.  Every thread that wants the lock
\* again and again finds it free gets it: with --fair-sched that follows from the
\* order the ticket lock keeps; without, it is left to the kernel.
Fairness == \A t \in Tids : /\ WF_vars(On(Step(t)))
                            /\ SF_vars(On(acquire_BigLock(t)))

Spec == Init /\ [][Next]_vars /\ Fairness

-----------------------------------------------------------------------------
(* Properties.                                                             *)

\* VG_(acquire_BigLock), VG_(release_BigLock) and VG_(exit_thread) keep the lock, the
\* running thread and the statuses together: a thread is Runnable exactly while it has
\* the lock, through hand-overs, forks, handlers and exits.  All assertions of
\* is_running_thread rest on it.
OneRunner ==
  process = "on" =>
    /\ running_tid = lock
    /\ \A t \in Tids : status[t] = "Runnable" <=> t = lock

\* A slot that alloc_ThreadState may give away has no thread in it any more: nobody
\* is still on its stack.
SlotsFree == \A t \in Tids : status[t] = "Empty" /\ process = "on" => pc[t] = "none"

\* The lights are turned off by the last one out and by nobody else: as long as the
\* process is on there is a thread that will call dg_fini, and when it is shut down no
\* thread is left that could run client code behind dg_fini's back.
LastOneOut == /\ process = "on" => Living # {}
              /\ process = "shut down" => Living = {}

\* Threads in reap_threads, or on their way there, waiting for all others to go.
Reapers == {t \in Tids : waitingTo[t] # <<>>}

\* syswrap-linux.c, PRE(sys_exit_group), argues that no thread that calls exit in
\* parallel waits for this one.  As long as there are only synchronous signals it is
\* so: exit_group, execve, faults and thread kills never make two threads wait for
\* each other.
OneReaper == sent = 0 => Cardinality(Reapers) <= 1

\* exit_group, execve and fatal signals come to an end, whatever the other threads
\* do, in a system call, on the way into one or out of it, unstarted or at the end of
\* a slice; unless two threads wait for each other.
ExitTerminates == Reapers # {} ~> (process # "on" \/ Cardinality(Reapers) > 1)

\* A thread that was told to exit goes, with the same exception: no SIGVGKILL is lost
\* because its target was not in the kernel yet.
ToldToExit == \A t \in Tids : (t \in Living /\ is_exiting(t)) ~>
                (t \notin Living \/ process # "on" \/ Cardinality(Reapers) > 1)

\* The threads come and go, and the process ends, like those of a Process: nobody
\* leaves untold or is let off, no thread starts when all are to exit, and shutting down
\* (dg_fini) and execve wait until the others have gone.
End == INSTANCE Process WITH
         Threads  <- Tids,
         Failures <- {"is_valid_tid failed", "max-threads too low"},
         alive    <- Living,
         told     <- {t \in Living : is_exiting(t)},
         state    <- process
ProcessSpec == End!Spec
=============================================================================
