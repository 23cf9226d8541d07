------------------------------ MODULE SchedLock ------------------------------
(***************************************************************************)
(* The big lock of Valgrind's core (coregrind/m_scheduler): sched-lock.c   *)
(* dispatches to one of two implementations, chosen once at start-up.      *)
(*   generic  sema.c: a pipe that holds one byte, the token;               *)
(*   ticket   ticket-lock-linux.c: tickets and an array of futexes.        *)
(* Every read or write of shared memory and every system call is a step of *)
(* its own.  The byte passed through the pipe (sema_char) is left out: any *)
(* letter is a token.  A read of the pipe that EINTR interrupts is done    *)
(* again, which is no step at all.                                         *)
(*                                                                         *)
(* head, tail and the futexes are 32-bit words that wrap around.  There    *)
(* are at most Word - 1 threads, so a ticket is never in use twice.        *)
(* A local is 0 where the function does not need its value any more.       *)
(***************************************************************************)
EXTENDS Integers, FiniteSets, Sequences, SequencesExt

CONSTANTS Threads, Nobody,  \* Nobody: owner 0
          Impls,            \* the implementations that can be chosen
          Word,             \* 2^32
          TL_FUTEX_COUNT    \* 16

ASSUME LockAssumption ==
  /\ IsFiniteSet(Threads) /\ Nobody \notin Threads
  /\ Impls \subseteq {"generic", "ticket"}
  /\ Word \in Nat /\ Cardinality(Threads) < Word
  /\ TL_FUTEX_COUNT \in Nat \ {0} /\ Word % TL_FUTEX_COUNT = 0

VARIABLES
  sched_lock_ops,  \* the implementation in use
  pipe,            \* tokens in the pipe
  head, tail, futex,
  owner,           \* owner_lwpid or owner
  pc,              \* where each thread is in acquire or release
  ticket, futex_value,  \* the locals of acquire_sched_lock
  wakeup_ticket,        \* and of release_sched_lock
  arrived          \* ghost: who waits, in the order of the first shared step

lockVars == <<pipe, head, tail, futex, owner>>
localVars == <<ticket, futex_value, wakeup_ticket>>
vars == <<sched_lock_ops, lockVars, pc, localVars, arrived>>

Slots == 0 .. TL_FUTEX_COUNT - 1

\* Mutant: a word that does not wrap around.
IncWide(x) == x + 1

\* The next value of a 32-bit word.
Inc(x) == (x + 1) % Word

\* init_BigLock: create_sched_lock of the implementation.
Init ==
  /\ sched_lock_ops \in Impls
  /\ pipe = 1
  /\ head = 0 /\ tail = 0 /\ futex = [i \in Slots |-> 0]
  /\ owner = Nobody
  /\ pc = [t \in Threads |-> "out"]
  /\ ticket = [t \in Threads |-> 0] /\ futex_value = [t \in Threads |-> 0]
  /\ wakeup_ticket = [t \in Threads |-> 0]
  /\ arrived = <<>>

generic == sched_lock_ops = "generic"
At(t, l) == pc[t] = l
Goto(t, l) == pc' = [pc EXCEPT ![t] = l]

-----------------------------------------------------------------------------
(* generic: sema_down and sema_up.                                         *)

\* sema_down, up to the read.
sema_down(t) ==
  /\ generic /\ At(t, "out")
  /\ Goto(t, "read pipe") /\ arrived' = Append(arrived, t)
  /\ UNCHANGED <<sched_lock_ops, lockVars, localVars>>

\* Mutant: the token stays in the pipe.
ReadTokenPeek(t) ==
  /\ At(t, "read pipe") /\ pipe > 0
  /\ Goto(t, "got it")
  /\ UNCHANGED <<sched_lock_ops, lockVars, localVars, arrived>>

\* The read returns with the token.
ReadToken(t) ==
  /\ At(t, "read pipe") /\ pipe > 0
  /\ pipe' = pipe - 1
  /\ Goto(t, "got it")
  /\ UNCHANGED <<sched_lock_ops, head, tail, futex, owner, localVars, arrived>>

\* sema_up's write.
WriteToken(t) ==
  /\ generic /\ At(t, "disowned")
  /\ pipe' = pipe + 1
  /\ Goto(t, "out")
  /\ UNCHANGED <<sched_lock_ops, head, tail, futex, owner, localVars, arrived>>

-----------------------------------------------------------------------------
(* ticket: acquire_sched_lock and release_sched_lock.                      *)

slot(x) == x % TL_FUTEX_COUNT

\* __sync_fetch_and_add(&p->tail, 1)
TakeTicket(t) ==
  /\ ~generic /\ At(t, "out")
  /\ ticket' = [ticket EXCEPT ![t] = tail]
  /\ tail' = Inc(tail)
  /\ Goto(t, "read futex") /\ arrived' = Append(arrived, t)
  /\ UNCHANGED <<sched_lock_ops, pipe, head, futex, owner, futex_value, wakeup_ticket>>

\* futex_value = *futex
ReadFutex(t) ==
  /\ At(t, "read futex")
  /\ futex_value' = [futex_value EXCEPT ![t] = futex[slot(ticket[t])]]
  /\ Goto(t, "test head")
  /\ UNCHANGED <<sched_lock_ops, lockVars, ticket, wakeup_ticket, arrived>>

\* if (ticket == p->head) break;
TestHead(t) ==
  /\ At(t, "test head")
  /\ IF ticket[t] # head
       THEN Goto(t, "futex wait") /\ UNCHANGED localVars
       ELSE /\ Goto(t, "got it")
            /\ ticket' = [ticket EXCEPT ![t] = 0]
            /\ futex_value' = [futex_value EXCEPT ![t] = 0]
            /\ UNCHANGED wakeup_ticket
  /\ UNCHANGED <<sched_lock_ops, lockVars, arrived>>

\* Mutant: the thread sleeps whatever the futex holds by now.
FutexWaitBlindly(t) ==
  /\ At(t, "futex wait")
  /\ Goto(t, "asleep")
  /\ UNCHANGED <<sched_lock_ops, lockVars, localVars, arrived>>

\* FUTEX_WAIT: the kernel compares and puts to sleep in one step (EAGAIN).
FutexWait(t) ==
  /\ At(t, "futex wait")
  /\ Goto(t, IF futex[slot(ticket[t])] = futex_value[t] THEN "asleep"
             ELSE "read futex")
  /\ futex_value' = [futex_value EXCEPT ![t] = 0]
  /\ UNCHANGED <<sched_lock_ops, lockVars, ticket, wakeup_ticket, arrived>>

\* FUTEX_WAIT may return without a reason.
SpuriousWakeup(t) ==
  /\ At(t, "asleep")
  /\ Goto(t, "read futex")
  /\ UNCHANGED <<sched_lock_ops, lockVars, localVars, arrived>>

\* wakeup_ticket = __sync_fetch_and_add(&p->head, 1) + 1
PassHead(t) ==
  /\ ~generic /\ At(t, "disowned")
  /\ head' = Inc(head)
  /\ wakeup_ticket' = [wakeup_ticket EXCEPT ![t] = Inc(head)]
  /\ Goto(t, "test tail")
  /\ UNCHANGED <<sched_lock_ops, pipe, tail, futex, owner, ticket, futex_value, arrived>>

\* if (p->tail != wakeup_ticket)
TestTail(t) ==
  /\ At(t, "test tail")
  /\ IF tail # wakeup_ticket[t]
       THEN Goto(t, "bump") /\ UNCHANGED wakeup_ticket
       ELSE Goto(t, "out") /\ wakeup_ticket' = [wakeup_ticket EXCEPT ![t] = 0]
  /\ UNCHANGED <<sched_lock_ops, lockVars, ticket, futex_value, arrived>>

\* __sync_fetch_and_add(futex, 1)
BumpFutex(t) ==
  /\ At(t, "bump")
  /\ futex' = [futex EXCEPT ![slot(wakeup_ticket[t])] = Inc(@)]
  /\ Goto(t, "wake")
  /\ UNCHANGED <<sched_lock_ops, pipe, head, tail, owner, localVars, arrived>>

\* FUTEX_WAKE of everybody who sleeps on the futex.
FutexWake(t) ==
  /\ At(t, "wake")
  /\ pc' = [u \in Threads |->
              IF u = t THEN "out"
              ELSE IF pc[u] = "asleep" /\ slot(ticket[u]) = slot(wakeup_ticket[t])
                     THEN "read futex" ELSE pc[u]]
  /\ wakeup_ticket' = [wakeup_ticket EXCEPT ![t] = 0]
  /\ UNCHANGED <<sched_lock_ops, lockVars, ticket, futex_value, arrived>>

-----------------------------------------------------------------------------
(* Both.                                                                   *)

\* The end of acquire: the thread writes down that it is the owner.
Own(t) ==
  /\ At(t, "got it")
  /\ owner' = t
  /\ Goto(t, "in") /\ arrived' = RemoveFirst(arrived, t)
  /\ UNCHANGED <<sched_lock_ops, pipe, head, tail, futex, localVars>>

\* Mutant: the owner is left where it is.
DisownNot(t) ==
  /\ At(t, "in")
  /\ Goto(t, "disowned")
  /\ UNCHANGED <<sched_lock_ops, lockVars, localVars, arrived>>

\* The beginning of release.
Disown(t) ==
  /\ At(t, "in")
  /\ owner' = Nobody
  /\ Goto(t, "disowned")
  /\ UNCHANGED <<sched_lock_ops, pipe, head, tail, futex, localVars, arrived>>

\* The child of a fork (sched_fork_cleanup): only t is there, the lock is destroyed
\* and made again, and t takes it.
ForkChild(t) ==
  /\ At(t, "in")
  /\ pc' = [u \in Threads |-> IF u = t THEN "in" ELSE "out"]
  /\ arrived' = <<>>
  /\ pipe' = IF generic THEN 0 ELSE 1
  /\ head' = 0 /\ tail' = IF generic THEN 0 ELSE 1
  /\ futex' = [i \in Slots |-> 0]
  /\ owner' = t
  /\ ticket' = [u \in Threads |-> 0] /\ futex_value' = [u \in Threads |-> 0]
  /\ wakeup_ticket' = [u \in Threads |-> 0]
  /\ UNCHANGED sched_lock_ops

\* The steps a thread takes by itself once it has called acquire or release.
Acquiring(t) == \/ ReadToken(t) \/ ReadFutex(t) \/ TestHead(t) \/ FutexWait(t) \/ Own(t)
Releasing(t) == \/ Disown(t) \/ WriteToken(t)
                \/ PassHead(t) \/ TestTail(t) \/ BumpFutex(t) \/ FutexWake(t)

Step(t) == \/ sema_down(t) \/ TakeTicket(t)
           \/ Acquiring(t) \/ Releasing(t)
           \/ SpuriousWakeup(t) \/ ForkChild(t)

Next == \E t \in Threads : Step(t)

\* A thread that has begun goes on, and one that holds the lock gives it back.
Fairness == \A t \in Threads : WF_vars(Acquiring(t)) /\ WF_vars(Releasing(t))

Spec == Init /\ [][Next]_vars /\ Fairness

-----------------------------------------------------------------------------
(* Properties.                                                             *)

Labels == {"out", "read pipe", "read futex", "test head", "futex wait", "asleep",
           "got it", "in", "disowned", "test tail", "bump", "wake"}

\* The types of the variables.
TypeOK ==
  /\ sched_lock_ops \in Impls
  /\ pipe \in 0..1
  /\ head \in 0 .. Word - 1 /\ tail \in 0 .. Word - 1
  /\ futex \in [Slots -> 0 .. Word - 1]
  /\ owner \in Threads \cup {Nobody}
  /\ pc \in [Threads -> Labels]
  /\ ticket \in [Threads -> 0 .. Word - 1]
  /\ futex_value \in [Threads -> 0 .. Word - 1]
  /\ wakeup_ticket \in [Threads -> 0 .. Word - 1]
  /\ arrived \in Seq(Threads)

\* Between the moment a thread has the token, or its ticket has come up, and the
\* moment it gives the token back, or passes head on, no other thread is there.
\* This holds across the wrap-around of head and tail, and in the child of a fork.
MutualExclusion ==
  \A t, u \in Threads :
    pc[t] \in {"got it", "in", "disowned"} /\ pc[u] \in {"got it", "in", "disowned"}
      => t = u

\* The assertions about the owner, made by other threads than the ones that wrote
\* it: acquire_sched_lock finds no owner, sema_down not itself, sema_up itself.
OwnerAssertions ==
  \A t \in Threads : /\ At(t, "got it") => owner = Nobody
                     /\ At(t, "in") => owner = t
                     /\ At(t, "out") => owner # t

\* Both implementations are a Lock: while threads wait and nobody has it, one of
\* them gets it.  No wake-up of a futex is lost, also when several tickets share
\* one, and the child of a fork is not stuck with tickets of its parent's threads.
\* The ticket lock keeps the order of arrival, so nobody starves; the pipe does not.
L == INSTANCE Lock WITH fifo <- ~generic, queue <- arrived, holder <- owner
LockSpec == L!Spec
=============================================================================
