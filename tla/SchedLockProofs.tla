-------------------------- MODULE SchedLockProofs --------------------------
(***************************************************************************)
(* The big lock, for any number of threads below the number of values of a *)
(* word and any number of futexes.                                         *)
(*                                                                         *)
(* The inductive invariant of the pipe is that the token is either in the  *)
(* pipe or with one thread.  That of the tickets is that the tickets of    *)
(* the threads that wait are, in the order of their arrival, the words     *)
(* head, head + 1, ... up to tail, with head itself left out while a       *)
(* thread is inside: so the tickets in use are consecutive, also across    *)
(* the wrap-around, and they are less than a word's values, so head names  *)
(* one of them at most.                                                    *)
(***************************************************************************)
EXTENDS SchedLock, FiniteSetTheorems, TLAPS

Waiting == {"read pipe", "read futex", "test head", "futex wait", "asleep"}
Critical == {"got it", "in", "disowned"}

\* A thread between Own and the step that gives the lock away.
Inside == {t \in Threads : pc[t] \in {"in", "disowned"}}
\* How many tickets from head on belong to no thread of arrived.
Ahead == IF Inside = {} THEN 0 ELSE 1

\* Each implementation is in its own functions only.
OwnCode ==
  \A t \in Threads :
    /\ generic => pc[t] \in {"out", "read pipe"} \cup Critical
    /\ ~generic => pc[t] # "read pipe"

\* The owner is written exactly while its thread is between Own and Disown.
OwnerIsIn == \A t \in Threads : owner = t <=> pc[t] = "in"

\* arrived lists every thread that waits or has just got the lock, once.
ArrivedIs ==
  /\ \A i, j \in 1 .. Len(arrived) : arrived[i] = arrived[j] => i = j
  /\ \A t \in Threads :
       pc[t] \in Waiting \cup {"got it"} <=> \E i \in 1 .. Len(arrived) : arrived[i] = t

\* The token is in the pipe or with a thread, never lost and never doubled.
Token ==
  /\ pipe \in 0..1
  /\ generic => (pipe = 0 <=> \E t \in Threads : pc[t] \in Critical)

\* The word k places after x.
Plus(x, k) == IF x + k < Word THEN x + k ELSE x + k - Word

\* Tickets are the words from head to tail, in the order of arrival.
Window ==
  ~generic =>
    /\ tail = Plus(head, Ahead + Len(arrived))
    /\ \A i \in 1 .. Len(arrived) :
         IF pc[arrived[i]] = "got it" THEN i = 1 /\ Ahead = 0
         ELSE ticket[arrived[i]] = Plus(head, Ahead + i - 1)

IInv == /\ TypeOK /\ OwnCode /\ OwnerIsIn /\ ArrivedIs /\ Token /\ Window
        /\ MutualExclusion
-----------------------------------------------------------------------------
(* Words, futexes and the queue.                                           *)

\* Inc of a word is the next word, and 0 after the last one.
LEMMA IncIs ==
  ASSUME NEW x \in 0 .. Word - 1
  PROVE  /\ Inc(x) = IF x + 1 = Word THEN 0 ELSE x + 1
         /\ Inc(x) \in 0 .. Word - 1
<1>1. Word \in Nat
  BY LockAssumption
<1> QED BY <1>1 DEF Inc

\* Every word has a futex.
LEMMA SlotIs == ASSUME NEW x \in Nat PROVE slot(x) \in Slots
<1>1. TL_FUTEX_COUNT \in Nat \ {0}
  BY LockAssumption
<1> QED BY <1>1 DEF slot, Slots

\* What Remove takes out of a queue without repetitions.
LEMMA RemoveFirstIs ==
  ASSUME NEW S, NEW s \in Seq(S), NEW k \in 1 .. Len(s),
         \A i, j \in 1 .. Len(s) : s[i] = s[j] => i = j
  PROVE  LET r == RemoveFirst(s, s[k]) IN
         /\ r \in Seq(S) /\ Len(r) = Len(s) - 1
         /\ \A i \in 1 .. Len(s) - 1 : r[i] = IF i < k THEN s[i] ELSE s[i + 1]
<1>1. {i \in 1 .. Len(s) : s[i] = s[k]} = {k}
  OBVIOUS
<1>2. SelectInSeq(s, LAMBDA v : v = s[k]) = k
  BY <1>1 DEF SelectInSeq, Min
<1>3. RemoveFirst(s, s[k]) = RemoveAt(s, k)
  BY <1>2 DEF RemoveFirst
<1>4. /\ RemoveAt(s, k) \in Seq(S) /\ Len(RemoveAt(s, k)) = Len(s) - 1
      /\ \A i \in 1 .. Len(s) - 1 :
           RemoveAt(s, k)[i] = IF i < k THEN s[i] ELSE s[i + 1]
  <2> DEFINE a == SubSeq(s, 1, k - 1)
             b == SubSeq(s, k + 1, Len(s))
  <2>1. a \in Seq(S) /\ Len(a) = k - 1 /\ \A i \in 1 .. k - 1 : a[i] = s[i]
    OBVIOUS
  <2>2. /\ b \in Seq(S) /\ Len(b) = Len(s) - k
        /\ \A i \in 1 .. Len(s) - k : b[i] = s[k + i]
    OBVIOUS
  <2>3. RemoveAt(s, k) = a \o b
    BY DEF RemoveAt
  <2> HIDE DEF a, b
  <2>4. a \o b \in Seq(S) /\ Len(a \o b) = Len(s) - 1
    BY <2>1, <2>2
  <2>5. ASSUME NEW i \in 1 .. Len(s) - 1
        PROVE  (a \o b)[i] = IF i < k THEN s[i] ELSE s[i + 1]
    <3>1. CASE i < k
      BY <3>1, <2>1, <2>2
    <3>2. CASE ~(i < k)
      <4>1. i \in Len(a) + 1 .. Len(a) + Len(b) /\ i - Len(a) = i - (k - 1)
            /\ i - (k - 1) \in 1 .. Len(s) - k
        BY <3>2, <2>1, <2>2
      <4>3. (a \o b)[i] = b[i - Len(a)]
        BY <4>1, <2>1, <2>2
      <4>2. b[i - (k - 1)] = s[k + (i - (k - 1))] /\ k + (i - (k - 1)) = i + 1
        BY <4>1, <2>2
      <4> QED BY <4>1, <4>2, <4>3, <3>2
    <3> QED BY <3>1, <3>2
  <2> QED BY <2>3, <2>4, <2>5
<1> QED BY <1>3, <1>4

\* How many elements an interval has.
LEMMA CardInterval ==
  ASSUME NEW n \in Nat PROVE IsFiniteSet(1 .. n) /\ Cardinality(1 .. n) = n
<1>1. 1 \in Int /\ n \in Int
  OBVIOUS
<1>2. /\ IsFiniteSet(1 .. n)
      /\ Cardinality(1 .. n) = IF 1 > n THEN 0 ELSE n - 1 + 1
  BY <1>1, FS_Interval, Zenon
<1> QED BY <1>2

\* The queue has threads in it.
LEMMA ArrivedType ==
  ASSUME TypeOK
  PROVE  Len(arrived) \in Nat /\ \A i \in 1 .. Len(arrived) : arrived[i] \in Threads
BY DEF TypeOK

\* There are fewer tickets in use than words.
LEMMA Room ==
  ASSUME TypeOK, ArrivedIs
  PROVE  Ahead \in 0..1 /\ Len(arrived) \in Nat /\ Ahead + Len(arrived) < Word
<1> DEFINE n == Len(arrived)
<1>1. n \in Nat /\ Word \in Nat /\ Cardinality(Threads) < Word /\ IsFiniteSet(Threads)
  BY LockAssumption DEF TypeOK
<1>2. Cardinality(Threads) \in Nat
  BY <1>1, FS_CardinalityType
<1>3. IsFiniteSet(1 .. n) /\ Cardinality(1 .. n) = n
  BY <1>1, CardInterval
<1>4. CASE Inside = {}
  <2>a. arrived \in [1 .. n -> Threads] /\ DOMAIN arrived = 1 .. n
    BY DEF TypeOK
  <2>1. arrived \in Injection(1 .. n, Threads)
    BY <2>a DEF ArrivedIs, Injection, IsInjective
  <2>2. Cardinality(1 .. n) <= Cardinality(Threads)
    BY <2>1, <1>1, FS_Injection
  <2> QED BY <1>1, <1>2, <1>3, <1>4, <2>2 DEF Ahead
<1>5. CASE Inside # {}
  <2>1. PICK x \in Threads : pc[x] \in {"in", "disowned"}
    BY <1>5 DEF Inside
  <2>a. arrived \in [1 .. n -> Threads] /\ DOMAIN arrived = 1 .. n
    BY DEF TypeOK
  <2>b. \A i \in 1 .. n : arrived[i] # x
    BY <2>1 DEF ArrivedIs, Waiting
  <2>2. arrived \in [1 .. n -> Threads \ {x}]
    BY <2>a, <2>b
  <2>3. arrived \in Injection(1 .. n, Threads \ {x})
    BY <2>2, <2>a DEF ArrivedIs, Injection, IsInjective
  <2>4. /\ IsFiniteSet(Threads \ {x})
        /\ Cardinality(Threads \ {x}) = Cardinality(Threads) - 1
    BY <1>1, FS_RemoveElement
  <2>5. Cardinality(1 .. n) <= Cardinality(Threads \ {x})
    BY <2>3, <2>4, FS_Injection
  <2> QED BY <1>1, <1>2, <1>3, <1>5, <2>4, <2>5 DEF Ahead
<1> QED BY <1>4, <1>5

-----------------------------------------------------------------------------
(* The invariant.                                                          *)

\* A thread that has the lock, or waits for it, or neither.
Away == {"out", "test tail", "bump", "wake"}

LEMMA InitIInv == Init => IInv
<1> SUFFICES ASSUME Init PROVE IInv
  OBVIOUS
<1>1. Word \in Nat /\ 0 \in 0 .. Word - 1 /\ Nobody \notin Threads
  <2>1. Cardinality(Threads) \in Nat
    BY LockAssumption, FS_CardinalityType
  <2> QED BY <2>1, LockAssumption
<1>2. TypeOK
  BY <1>1 DEF Init, TypeOK, Labels
<1>3. Inside = {} /\ Len(arrived) = 0
  BY DEF Init, Inside
<1>4. Window
  BY <1>1, <1>3 DEF Init, Window, Ahead, Plus
<1>5. OwnCode /\ OwnerIsIn /\ ArrivedIs
  BY <1>1, <1>3 DEF Init, OwnCode, OwnerIsIn, ArrivedIs, Waiting, Critical
<1>6. Token /\ MutualExclusion
  BY DEF Init, Token, MutualExclusion, Critical
<1> QED BY <1>2, <1>4, <1>5, <1>6 DEF IInv

\* Steps of the ticket lock that move threads about while they wait, or after they
\* have passed the lock on.
LEMMA Shuffle ==
  ASSUME IInv, TypeOK', ~generic,
         UNCHANGED <<sched_lock_ops, pipe, head, tail, owner, ticket, arrived>>,
         \A u \in Threads : \/ pc'[u] = pc[u]
                            \/ {pc[u], pc'[u]} \subseteq Waiting \ {"read pipe"}
                            \/ {pc[u], pc'[u]} \subseteq Away
  PROVE  IInv'
<1>0. /\ TypeOK /\ OwnCode /\ OwnerIsIn /\ ArrivedIs /\ Token /\ Window
      /\ MutualExclusion
  BY DEF IInv
<1> USE DEF generic
<1>1. Inside' = Inside /\ Ahead' = Ahead
  <2>1. Inside' = Inside
    BY DEF Inside, Waiting, Away
  <2> QED BY <2>1 DEF Ahead
<1>2. \A u \in Threads : /\ pc'[u] \in Waiting \cup {"got it"} <=> pc[u] \in Waiting \cup {"got it"}
                         /\ pc'[u] \in Critical <=> pc[u] \in Critical
                         /\ pc'[u] = "in" <=> pc[u] = "in"
                         /\ pc'[u] = "got it" <=> pc[u] = "got it"
                         /\ pc[u] # "read pipe" => pc'[u] # "read pipe"
  BY DEF Waiting, Away, Critical
<1>3. OwnCode' /\ OwnerIsIn' /\ ArrivedIs' /\ Token'
  BY <1>0, <1>2 DEF OwnCode, OwnerIsIn, ArrivedIs, Token
<1>4. MutualExclusion'
  BY <1>0, <1>2 DEF MutualExclusion, Critical
<1>5. Window'
  <2>1. \A i \in 1 .. Len(arrived) : arrived[i] \in Threads
    BY <1>0, ArrivedType
  <2> QED BY <1>0, <1>1, <1>2, <2>1 DEF Window, Plus
<1> QED BY <1>3, <1>4, <1>5 DEF IInv

\* Every step keeps the types.
LEMMA TypeStep == ASSUME IInv, NEW t \in Threads, Step(t) PROVE TypeOK'
<1>a. TypeOK /\ Token /\ ArrivedIs
  BY DEF IInv
<1>b. \A l \in Labels : Goto(t, l) => pc' \in [Threads -> Labels]
  BY <1>a DEF TypeOK, Goto
<1> USE <1>a DEF TypeOK, At
<1>0. /\ Word \in Nat /\ 0 \in 0 .. Word - 1
      /\ \A x \in 0 .. Word - 1 : Inc(x) \in 0 .. Word - 1
      /\ \A x \in 0 .. Word - 1 : slot(x) \in Slots
  <2>1. Cardinality(Threads) \in Nat
    BY LockAssumption, FS_CardinalityType
  <2>2. Word \in Nat /\ 0 \in 0 .. Word - 1
    BY <2>1, LockAssumption
  <2>3. \A x \in 0 .. Word - 1 : Inc(x) \in 0 .. Word - 1
    BY IncIs
  <2>4. \A x \in 0 .. Word - 1 : slot(x) \in Slots
    BY <2>2, SlotIs
  <2> QED BY <2>2, <2>3, <2>4
<1>1. CASE sema_down(t)
  <2>1. Append(arrived, t) \in Seq(Threads)
    OBVIOUS
  <2> QED BY <1>1, <1>b, <2>1 DEF sema_down, lockVars, localVars, Labels
<1>2. CASE ReadToken(t)
  <2>1. pipe' \in 0..1
    <3>1. pipe \in 0..1 /\ pipe > 0 /\ pipe' = pipe - 1
      BY <1>2 DEF ReadToken
    <3> QED BY <3>1
  <2>2. pc' \in [Threads -> Labels]
    BY <1>2, <1>b DEF ReadToken, Labels
  <2> QED BY <1>2, <2>1, <2>2 DEF ReadToken, localVars
<1>3. CASE WriteToken(t)
  <2>1. pipe = 0
    BY <1>3 DEF WriteToken, Token, Critical
  <2>2. pc' \in [Threads -> Labels]
    BY <1>3, <1>b DEF WriteToken, Labels
  <2> QED BY <1>3, <2>1, <2>2 DEF WriteToken, localVars
<1>4. CASE TakeTicket(t)
  <2>1. Append(arrived, t) \in Seq(Threads)
    OBVIOUS
  <2>2. [ticket EXCEPT ![t] = tail] \in [Threads -> 0 .. Word - 1]
    OBVIOUS
  <2> QED BY <1>0, <1>4, <1>b, <2>1, <2>2 DEF TakeTicket, Labels
<1>5. CASE ReadFutex(t)
  <2>1. futex[slot(ticket[t])] \in 0 .. Word - 1
    BY <1>0
  <2> QED BY <1>5, <1>b, <2>1 DEF ReadFutex, lockVars, Labels
<1>6. CASE TestHead(t)
  BY <1>0, <1>6, <1>b DEF TestHead, lockVars, localVars, Labels
<1>7. CASE FutexWait(t)
  BY <1>0, <1>7, <1>b DEF FutexWait, lockVars, Labels
<1>8. CASE SpuriousWakeup(t)
  BY <1>8, <1>b DEF SpuriousWakeup, lockVars, localVars, Labels
<1>9. CASE PassHead(t)
  BY <1>0, <1>9, <1>b DEF PassHead, Labels
<1>10. CASE TestTail(t)
  BY <1>0, <1>10, <1>b DEF TestTail, lockVars, Labels
<1>11. CASE BumpFutex(t)
  BY <1>0, <1>11, <1>b DEF BumpFutex, localVars, Labels
<1>12. CASE FutexWake(t)
  BY <1>0, <1>12 DEF FutexWake, lockVars, Labels
<1>13. CASE Own(t)
  <2>1. PICK k \in 1 .. Len(arrived) : arrived[k] = t
    BY <1>13 DEF Own, ArrivedIs
  <2>2. RemoveFirst(arrived, t) \in Seq(Threads)
    BY <2>1, RemoveFirstIs DEF ArrivedIs
  <2> QED BY <1>13, <1>b, <2>2 DEF Own, localVars, Labels
<1>14. CASE Disown(t)
  BY <1>14, <1>b DEF Disown, localVars, Labels
<1>15. CASE ForkChild(t)
  <2>1. ~generic => 1 \in 0 .. Word - 1
    <3>1. IsFiniteSet({t}) /\ Cardinality({t}) = 1 /\ {t} \in SUBSET Threads
      BY FS_Singleton
    <3>2. 1 <= Cardinality(Threads)
      BY <3>1, LockAssumption, FS_Subset
    <3> QED BY <3>2, LockAssumption, FS_CardinalityType
  <2>2. pc' \in [Threads -> Labels] /\ arrived' \in Seq(Threads)
    <3>1. \A u \in Threads : (IF u = t THEN "in" ELSE "out") \in Labels
      BY DEF Labels
    <3>2. pc' = [u \in Threads |-> IF u = t THEN "in" ELSE "out"] /\ arrived' = <<>>
      BY <1>15 DEF ForkChild
    <3> QED BY <3>1, <3>2
  <2>3. /\ futex' \in [Slots -> 0 .. Word - 1] /\ ticket' \in [Threads -> 0 .. Word - 1]
        /\ futex_value' \in [Threads -> 0 .. Word - 1]
        /\ wakeup_ticket' \in [Threads -> 0 .. Word - 1]
    BY <1>0, <1>15 DEF ForkChild
  <2> QED BY <1>0, <1>15, <2>1, <2>2, <2>3 DEF ForkChild
<1> QED BY <1>1, <1>2, <1>3, <1>4, <1>5, <1>6, <1>7, <1>8, <1>9, <1>10, <1>11, <1>12,
           <1>13, <1>14, <1>15 DEF Step, Acquiring, Releasing

\* A queue one thread longer.
Longer(r, s, t) == /\ Len(r) = Len(s) + 1 /\ r[Len(s) + 1] = t
                   /\ \A i \in 1 .. Len(s) : r[i] = s[i]

LEMMA AppendIs ==
  ASSUME NEW S, NEW s \in Seq(S), NEW t \in S PROVE Longer(Append(s, t), s, t)
BY DEF Longer

\* A thread joins the queue.
LEMMA Joins ==
  ASSUME TypeOK, ArrivedIs, NEW t \in Threads, NEW l \in Waiting,
         pc[t] = "out", pc' = [pc EXCEPT ![t] = l], Longer(arrived', arrived, t)
  PROVE  /\ ArrivedIs' /\ Inside' = Inside /\ Ahead' = Ahead
         /\ \A i \in 1 .. Len(arrived) : arrived[i] # t
<1>1. /\ arrived \in Seq(Threads) /\ Len(arrived) \in Nat
      /\ pc \in [Threads -> Labels]
  BY DEF TypeOK
<1>2. /\ Len(arrived') = Len(arrived) + 1 /\ arrived'[Len(arrived) + 1] = t
      /\ \A i \in 1 .. Len(arrived) : arrived'[i] = arrived[i]
  BY DEF Longer
<1>3. \A i \in 1 .. Len(arrived) : arrived[i] # t
  BY DEF ArrivedIs, Waiting
<1>4. pc'[t] = l /\ \A u \in Threads \ {t} : pc'[u] = pc[u]
  BY <1>1
<1>5. Inside' = Inside /\ Ahead' = Ahead
  <2>1. Inside' = Inside
    BY <1>4 DEF Inside, Waiting
  <2> QED BY <2>1 DEF Ahead
<1>6. ArrivedIs'
  <2> DEFINE n == Len(arrived)
  <2>1. \A i \in 1 .. n + 1 : i \in 1 .. n \/ i = n + 1
    BY <1>1
  <2>2. \A i, j \in 1 .. n + 1 : arrived'[i] = arrived'[j] => i = j
    <3> TAKE i, j \in 1 .. n + 1
    <3>1. CASE i \in 1 .. n /\ j \in 1 .. n
      <4>1. arrived'[i] = arrived[i] /\ arrived'[j] = arrived[j]
        BY <1>2, <3>1
      <4>2. arrived[i] = arrived[j] => i = j
        BY <3>1 DEF ArrivedIs
      <4> QED BY <4>1, <4>2
    <3>2. CASE i = n + 1 \/ j = n + 1
      BY <1>2, <1>3, <2>1, <3>2
    <3> QED BY <2>1, <3>1, <3>2
  <2>3. ASSUME NEW u \in Threads
        PROVE  pc'[u] \in Waiting \cup {"got it"}
                 <=> \E i \in 1 .. n + 1 : arrived'[i] = u
    <3>1. CASE u = t
      <4>1. n + 1 \in 1 .. n + 1
        BY <1>1
      <4> QED BY <1>2, <1>4, <3>1, <4>1
    <3>2. CASE u # t
      <4>1. pc'[u] = pc[u]
        BY <1>4, <3>2
      <4>2. (\E i \in 1 .. n + 1 : arrived'[i] = u) <=> \E i \in 1 .. n : arrived[i] = u
        BY <1>1, <1>2, <2>1, <3>2
      <4> QED BY <4>1, <4>2 DEF ArrivedIs
    <3> QED BY <3>1, <3>2
  <2>4. 1 .. Len(arrived') = 1 .. n + 1
    BY <1>2
  <2> HIDE DEF n
  <2> QED BY <2>2, <2>3, <2>4 DEF ArrivedIs
<1> QED BY <1>3, <1>5, <1>6

\* A thread leaves the queue, from anywhere.
LEMMA Leaves ==
  ASSUME TypeOK, ArrivedIs, NEW k \in 1 .. Len(arrived),
         pc' = [pc EXCEPT ![arrived[k]] = "in"],
         arrived' = RemoveFirst(arrived, arrived[k])
  PROVE  /\ ArrivedIs' /\ Len(arrived') = Len(arrived) - 1
         /\ \A i \in 1 .. Len(arrived) - 1 :
              arrived'[i] = IF i < k THEN arrived[i] ELSE arrived[i + 1]
<1> DEFINE n == Len(arrived)
<1>1. /\ arrived \in Seq(Threads) /\ n \in Nat /\ pc \in [Threads -> Labels]
      /\ arrived[k] \in Threads
  BY DEF TypeOK
<1>2. \A i, j \in 1 .. n : arrived[i] = arrived[j] => i = j
  BY DEF ArrivedIs
<1>3. /\ Len(arrived') = n - 1
      /\ \A i \in 1 .. n - 1 : arrived'[i] = IF i < k THEN arrived[i] ELSE arrived[i + 1]
  BY <1>1, <1>2, RemoveFirstIs
<1>4. \A i, j \in 1 .. n - 1 : arrived'[i] = arrived'[j] => i = j
  <2> TAKE i, j \in 1 .. n - 1
  <2>1. i \in 1 .. n /\ j \in 1 .. n /\ i + 1 \in 1 .. n /\ j + 1 \in 1 .. n
    BY <1>1
  <2> QED BY <1>2, <1>3, <2>1
<1>5. ASSUME NEW u \in Threads
      PROVE  pc'[u] \in Waiting \cup {"got it"} <=> \E i \in 1 .. n - 1 : arrived'[i] = u
  <2>1. CASE u = arrived[k]
    <3>1. pc'[u] \notin Waiting \cup {"got it"}
      BY <1>1, <2>1 DEF Waiting
    <3>2. ASSUME NEW i \in 1 .. n - 1, arrived'[i] = u PROVE FALSE
      <4>1. i \in 1 .. n /\ i + 1 \in 1 .. n
        BY <1>1
      <4> QED BY <1>2, <1>3, <2>1, <3>2, <4>1
    <3> QED BY <3>1, <3>2
  <2>2. CASE u # arrived[k]
    <3>1. pc'[u] = pc[u]
      BY <1>1, <2>2
    <3>2. ASSUME NEW i \in 1 .. n, arrived[i] = u PROVE \E j \in 1 .. n - 1 : arrived'[j] = u
      <4>1. CASE i < k
        BY <1>1, <1>3, <3>2, <4>1
      <4>2. CASE ~(i < k)
        <5>1. i - 1 \in 1 .. n - 1 /\ ~(i - 1 < k) /\ (i - 1) + 1 = i
          BY <1>1, <2>2, <3>2, <4>2
        <5> QED BY <1>3, <3>2, <5>1
      <4> QED BY <4>1, <4>2
    <3>3. ASSUME NEW j \in 1 .. n - 1, arrived'[j] = u PROVE \E i \in 1 .. n : arrived[i] = u
      <4>1. j \in 1 .. n /\ j + 1 \in 1 .. n
        BY <1>1
      <4> QED BY <1>3, <3>3, <4>1
    <3> QED BY <3>1, <3>2, <3>3 DEF ArrivedIs
  <2> QED BY <2>1, <2>2
<1> QED BY <1>3, <1>4, <1>5 DEF ArrivedIs

\* The next word of a word is the next word of the window.
LEMMA PlusIs ==
  ASSUME NEW x \in 0 .. Word - 1, NEW k \in Nat, k < Word
  PROVE  /\ Plus(x, 0) = x
         /\ Plus(x, k) = x => k = 0
         /\ Plus(x, k) \in 0 .. Word - 1
         /\ Inc(Plus(x, k)) = Plus(x, k + 1)
         /\ Plus(Inc(x), k) = Plus(x, k + 1)
<1>1. Word \in Nat
  BY LockAssumption
<1>2. Plus(x, k) \in 0 .. Word - 1
  BY <1>1 DEF Plus
<1>3. /\ Inc(x) = IF x + 1 = Word THEN 0 ELSE x + 1
      /\ Inc(Plus(x, k)) = IF Plus(x, k) + 1 = Word THEN 0 ELSE Plus(x, k) + 1
  BY <1>2, IncIs
<1> QED BY <1>1, <1>2, <1>3 DEF Plus

\* The steps of the pipe.
LEMMA GenericStep ==
  ASSUME IInv, TypeOK', NEW t \in Threads,
         sema_down(t) \/ ReadToken(t) \/ WriteToken(t)
  PROVE  IInv'
<1>0. /\ TypeOK /\ OwnCode /\ OwnerIsIn /\ ArrivedIs /\ Token /\ Window
      /\ MutualExclusion
  BY DEF IInv
<1>1. generic /\ generic' /\ Window'
  BY <1>0 DEF sema_down, ReadToken, WriteToken, OwnCode, At, generic, Window
<1>2. pc \in [Threads -> Labels] /\ pipe \in 0..1
  BY <1>0 DEF TypeOK
<1>3. CASE sema_down(t)
  <2>1. /\ pc[t] = "out" /\ pc' = [pc EXCEPT ![t] = "read pipe"]
        /\ UNCHANGED <<pipe, owner>>
    BY <1>3 DEF sema_down, At, Goto, lockVars
  <2>2. Longer(arrived', arrived, t)
    BY <1>0, <1>3, AppendIs DEF sema_down, TypeOK
  <2>3. ArrivedIs'
    BY <1>0, <2>1, <2>2, Joins DEF Waiting
  <2>4. pc'[t] = "read pipe" /\ \A u \in Threads \ {t} : pc'[u] = pc[u]
    BY <1>2, <2>1
  <2>5. OwnCode' /\ OwnerIsIn' /\ Token' /\ MutualExclusion'
    BY <1>0, <1>1, <2>1, <2>4
       DEF OwnCode, OwnerIsIn, Token, MutualExclusion, Critical
  <2> QED BY <1>1, <2>3, <2>5 DEF IInv
<1>4. CASE ReadToken(t)
  <2>1. /\ pc[t] = "read pipe" /\ pc' = [pc EXCEPT ![t] = "got it"]
        /\ UNCHANGED <<owner, arrived>>
    BY <1>4 DEF ReadToken, At, Goto
  <2>2. pc'[t] = "got it" /\ \A u \in Threads \ {t} : pc'[u] = pc[u]
    BY <1>2, <2>1
  <2>3. pipe = 1 /\ pipe' = 0
    <3>1. pipe \in 0..1 /\ pipe > 0 /\ pipe' = pipe - 1
      BY <1>2, <1>4 DEF ReadToken
    <3> QED BY <3>1
  <2>4. \A u \in Threads : pc[u] \notin Critical
    BY <1>0, <1>1, <2>3 DEF Token
  <2>5. OwnCode' /\ OwnerIsIn' /\ MutualExclusion'
    BY <1>0, <1>1, <2>1, <2>2, <2>4 DEF OwnCode, OwnerIsIn, MutualExclusion, Critical
  <2>6. Token'
    <3>1. pipe' \in 0..1
      BY <2>3
    <3>2. \E u \in Threads : pc'[u] \in Critical
      BY <2>2 DEF Critical
    <3> QED BY <2>3, <3>1, <3>2 DEF Token
  <2>7. ArrivedIs'
    BY <1>0, <2>1, <2>2 DEF ArrivedIs, Waiting
  <2> QED BY <1>1, <2>5, <2>6, <2>7 DEF IInv
<1>5. CASE WriteToken(t)
  <2>1. /\ pc[t] = "disowned" /\ pc' = [pc EXCEPT ![t] = "out"]
        /\ UNCHANGED <<owner, arrived>>
    BY <1>5 DEF WriteToken, At, Goto
  <2>2. pc'[t] = "out" /\ \A u \in Threads \ {t} : pc'[u] = pc[u]
    BY <1>2, <2>1
  <2>3. pipe = 0 /\ pipe' = 1
    <3>1. pipe = 0
      BY <1>0, <1>1, <2>1 DEF Token, Critical
    <3>2. pipe' = pipe + 1
      BY <1>5 DEF WriteToken
    <3> QED BY <3>1, <3>2
  <2>4. \A u \in Threads : pc'[u] \notin Critical
    BY <1>0, <2>1, <2>2 DEF MutualExclusion, Critical
  <2>5. OwnCode' /\ OwnerIsIn' /\ MutualExclusion'
    BY <1>0, <1>1, <2>1, <2>2, <2>4 DEF OwnCode, OwnerIsIn, MutualExclusion, Critical
  <2>6. Token'
    <3>1. pipe' \in 0..1
      BY <2>3
    <3> QED BY <2>3, <2>4, <3>1 DEF Token
  <2>7. ArrivedIs'
    BY <1>0, <2>1, <2>2 DEF ArrivedIs, Waiting
  <2> QED BY <1>1, <2>5, <2>6, <2>7 DEF IInv
<1> QED BY <1>3, <1>4, <1>5

\* The steps of the ticket lock that take a ticket, win, or pass head on.
LEMMA TicketStep ==
  ASSUME IInv, TypeOK', NEW t \in Threads,
         \/ TakeTicket(t) \/ PassHead(t)
         \/ TestHead(t) /\ ticket[t] = head
  PROVE  IInv'
<1>0. /\ TypeOK /\ OwnCode /\ OwnerIsIn /\ ArrivedIs /\ Token /\ Window
      /\ MutualExclusion
  BY DEF IInv
<1>1. ~generic /\ ~generic'
  BY <1>0 DEF TakeTicket, PassHead, TestHead, OwnCode, At, generic, Critical
<1>2. /\ pc \in [Threads -> Labels] /\ ticket \in [Threads -> 0 .. Word - 1]
      /\ head \in 0 .. Word - 1 /\ tail \in 0 .. Word - 1
  BY <1>0 DEF TypeOK
<1>3. /\ Ahead \in 0..1 /\ Len(arrived) \in Nat /\ Ahead + Len(arrived) < Word
      /\ Word \in Nat
  BY <1>0, Room, LockAssumption
<1>4. /\ tail = Plus(head, Ahead + Len(arrived))
      /\ \A i \in 1 .. Len(arrived) :
           IF pc[arrived[i]] = "got it" THEN i = 1 /\ Ahead = 0
           ELSE ticket[arrived[i]] = Plus(head, Ahead + i - 1)
  BY <1>0, <1>1 DEF Window
<1>5. \A i \in 1 .. Len(arrived) : arrived[i] \in Threads
  BY <1>0, ArrivedType
<1>6. CASE TakeTicket(t)
  <2>1. /\ pc[t] = "out" /\ pc' = [pc EXCEPT ![t] = "read futex"]
        /\ UNCHANGED <<pipe, head, owner>>
        /\ ticket' = [ticket EXCEPT ![t] = tail] /\ tail' = Inc(tail)
    BY <1>6 DEF TakeTicket, At, Goto
  <2>2. Longer(arrived', arrived, t)
    BY <1>0, <1>6, AppendIs DEF TakeTicket, TypeOK
  <2>3. /\ ArrivedIs' /\ Ahead' = Ahead
        /\ \A i \in 1 .. Len(arrived) : arrived[i] # t
    BY <1>0, <2>1, <2>2, Joins DEF Waiting
  <2>4. pc'[t] = "read futex" /\ \A u \in Threads \ {t} : pc'[u] = pc[u]
    BY <1>2, <2>1
  <2>5. OwnCode' /\ OwnerIsIn' /\ Token' /\ MutualExclusion'
    BY <1>0, <1>1, <2>1, <2>4
       DEF OwnCode, OwnerIsIn, Token, MutualExclusion, Critical
  <2>6. tail' = Plus(head', Ahead' + Len(arrived'))
    <3>0. Ahead + Len(arrived) \in Nat
      BY <1>3
    <3>1. Inc(tail) = Plus(head, (Ahead + Len(arrived)) + 1)
      BY <1>2, <1>3, <1>4, <3>0, PlusIs
    <3>2. Ahead' + Len(arrived') = (Ahead + Len(arrived)) + 1
      BY <1>3, <2>2, <2>3 DEF Longer
    <3> QED BY <2>1, <3>1, <3>2 DEF Plus
  <2>7. ASSUME NEW i \in 1 .. Len(arrived')
        PROVE  IF pc'[arrived'[i]] = "got it" THEN i = 1 /\ Ahead' = 0
               ELSE ticket'[arrived'[i]] = Plus(head', Ahead' + i - 1)
    <3>1. CASE i \in 1 .. Len(arrived)
      <4>1. arrived'[i] = arrived[i] /\ arrived[i] \in Threads \ {t}
        BY <1>5, <2>2, <2>3, <3>1 DEF Longer
      <4>2. pc'[arrived[i]] = pc[arrived[i]] /\ ticket'[arrived[i]] = ticket[arrived[i]]
        BY <1>2, <2>1, <4>1
      <4> QED BY <1>4, <2>1, <2>3, <3>1, <4>1, <4>2 DEF Plus
    <3>2. CASE i = Len(arrived) + 1
      <4>1. arrived'[i] = t /\ pc'[t] = "read futex" /\ ticket'[t] = tail
        BY <1>2, <2>1, <2>2, <2>4, <3>2 DEF Longer
      <4>2. Ahead' + i - 1 = Ahead + Len(arrived)
        BY <1>3, <2>3, <3>2
      <4> QED BY <1>4, <2>1, <4>1, <4>2 DEF Plus
    <3>3. i \in 1 .. Len(arrived) \/ i = Len(arrived) + 1
      BY <1>3, <2>2 DEF Longer
    <3> QED BY <3>1, <3>2, <3>3
  <2>8. Window'
    BY <2>6, <2>7 DEF Window, Plus
  <2> QED BY <2>3, <2>5, <2>8 DEF IInv
<1>7. CASE TestHead(t) /\ ticket[t] = head
  <2>1. /\ pc[t] = "test head" /\ pc' = [pc EXCEPT ![t] = "got it"]
        /\ UNCHANGED <<pipe, head, tail, owner, arrived>>
        /\ ticket' = [ticket EXCEPT ![t] = 0]
    BY <1>7 DEF TestHead, At, Goto, lockVars
  <2>2. pc'[t] = "got it" /\ \A u \in Threads \ {t} : pc'[u] = pc[u]
    BY <1>2, <2>1
  <2>3. PICK k \in 1 .. Len(arrived) : arrived[k] = t
    BY <1>0, <2>1 DEF ArrivedIs, Waiting
  <2>4. k = 1 /\ Ahead = 0
    <3>1. Plus(head, Ahead + k - 1) = head
      BY <1>4, <1>7, <2>1, <2>3
    <3>2. Ahead + k - 1 \in Nat /\ Ahead + k - 1 < Word
      BY <1>3
    <3>3. Ahead + k - 1 = 0
      BY <1>2, <3>1, <3>2, PlusIs
    <3> QED BY <1>3, <3>3
  <2>5. Inside = {}
    BY <2>4 DEF Ahead
  <2>6. \A u \in Threads : pc[u] # "got it"
    <3> SUFFICES ASSUME NEW u \in Threads, pc[u] = "got it" PROVE FALSE
      OBVIOUS
    <3>1. PICK i \in 1 .. Len(arrived) : arrived[i] = u
      BY <1>0 DEF ArrivedIs
    <3>2. i = 1
      BY <1>4, <3>1
    <3> QED BY <2>1, <2>3, <2>4, <3>1, <3>2
  <2>7. \A u \in Threads : pc[u] \notin Critical
    BY <2>5, <2>6 DEF Inside, Critical
  <2>8. OwnCode' /\ OwnerIsIn' /\ MutualExclusion'
    <3>1. OwnCode' /\ OwnerIsIn'
      BY <1>0, <1>1, <2>1, <2>2 DEF OwnCode, OwnerIsIn, Critical
    <3>2. MutualExclusion'
      BY <2>2, <2>7 DEF MutualExclusion, Critical
    <3> QED BY <3>1, <3>2
  <2>9. Token'
    BY <1>0, <1>1, <2>1 DEF Token
  <2>10. ArrivedIs'
    BY <1>0, <2>1, <2>2 DEF ArrivedIs, Waiting
  <2>11. Ahead' = 0
    <3>1. Inside' = {}
      BY <2>2, <2>5 DEF Inside
    <3> QED BY <3>1 DEF Ahead
  <2>12. ASSUME NEW i \in 1 .. Len(arrived)
         PROVE  IF pc'[arrived[i]] = "got it" THEN i = 1 /\ Ahead' = 0
                ELSE ticket'[arrived[i]] = Plus(head, Ahead' + i - 1)
    <3>1. CASE i = 1
      BY <2>2, <2>3, <2>4, <2>11, <3>1
    <3>2. CASE i # 1
      <4>1. arrived[i] \in Threads \ {t}
        BY <1>0, <1>5, <2>3, <2>4, <3>2 DEF ArrivedIs
      <4>2. pc'[arrived[i]] = pc[arrived[i]] /\ ticket'[arrived[i]] = ticket[arrived[i]]
        BY <1>2, <2>1, <4>1
      <4> QED BY <1>4, <2>4, <2>6, <2>11, <4>1, <4>2
    <3> QED BY <3>1, <3>2
  <2>13. Window'
    <3>1. tail' = Plus(head', Ahead' + Len(arrived'))
      BY <1>4, <2>1, <2>4, <2>11
    <3> QED BY <2>1, <2>12, <3>1 DEF Window, Plus
  <2> QED BY <2>8, <2>9, <2>10, <2>13 DEF IInv
<1>8. CASE PassHead(t)
  <2>1. /\ pc[t] = "disowned" /\ pc' = [pc EXCEPT ![t] = "test tail"]
        /\ UNCHANGED <<pipe, tail, owner, arrived, ticket>>
        /\ head' = Inc(head)
    BY <1>8 DEF PassHead, At, Goto
  <2>2. pc'[t] = "test tail" /\ \A u \in Threads \ {t} : pc'[u] = pc[u]
    BY <1>2, <2>1
  <2>3. \A u \in Threads \ {t} : pc[u] \notin Critical
    BY <1>0, <2>1 DEF MutualExclusion, Critical
  <2>4. Ahead = 1 /\ Ahead' = 0
    <3>1. t \in Inside /\ Inside' = {}
      BY <2>1, <2>2, <2>3 DEF Inside, Critical
    <3> QED BY <3>1 DEF Ahead
  <2>5. OwnCode' /\ OwnerIsIn' /\ MutualExclusion'
    BY <1>0, <1>1, <2>1, <2>2, <2>3 DEF OwnCode, OwnerIsIn, MutualExclusion, Critical
  <2>6. Token'
    BY <1>0, <1>1, <2>1 DEF Token
  <2>7. ArrivedIs'
    BY <1>0, <2>1, <2>2 DEF ArrivedIs, Waiting
  <2>8. tail' = Plus(head', Ahead' + Len(arrived'))
    <3>0. Len(arrived) < Word
      BY <1>3
    <3>1. Plus(Inc(head), Len(arrived)) = Plus(head, Len(arrived) + 1)
      BY <1>2, <1>3, <3>0, PlusIs
    <3>2. Ahead + Len(arrived) = Len(arrived) + 1 /\ Ahead' + Len(arrived) = Len(arrived)
      BY <1>3, <2>4
    <3> QED BY <1>4, <2>1, <3>1, <3>2
  <2>9. ASSUME NEW i \in 1 .. Len(arrived)
        PROVE  /\ pc'[arrived[i]] # "got it"
               /\ ticket'[arrived[i]] = Plus(head', Ahead' + i - 1)
    <3>1. arrived[i] \in Threads \ {t}
      BY <1>0, <1>5, <2>1 DEF ArrivedIs, Waiting
    <3>2. pc'[arrived[i]] # "got it" /\ pc[arrived[i]] # "got it"
      BY <2>2, <2>3, <3>1 DEF Critical
    <3>0. i - 1 \in Nat /\ i - 1 < Word
      BY <1>3
    <3>3. Plus(Inc(head), i - 1) = Plus(head, (i - 1) + 1)
      BY <1>2, <3>0, PlusIs
    <3>4. Ahead + i - 1 = (i - 1) + 1 /\ Ahead' + i - 1 = i - 1
      BY <2>4
    <3> QED BY <1>4, <2>1, <3>2, <3>3, <3>4
  <2>10. Window'
    BY <2>1, <2>8, <2>9 DEF Window, Plus
  <2> QED BY <2>5, <2>6, <2>7, <2>10 DEF IInv
<1> QED BY <1>6, <1>7, <1>8

\* The steps both implementations have.
LEMMA OwnerStep ==
  ASSUME IInv, TypeOK', NEW t \in Threads, Own(t) \/ Disown(t) \/ ForkChild(t)
  PROVE  IInv'
<1>0. /\ TypeOK /\ OwnCode /\ OwnerIsIn /\ ArrivedIs /\ Token /\ Window
      /\ MutualExclusion
  BY DEF IInv
<1>1. generic' = generic
  BY DEF Own, Disown, ForkChild, generic
<1>2. /\ pc \in [Threads -> Labels] /\ Nobody \notin Threads /\ pipe \in 0..1
  BY <1>0, LockAssumption DEF TypeOK
<1>3. \A i \in 1 .. Len(arrived) : arrived[i] \in Threads
  BY <1>0, ArrivedType
<1>4. CASE Own(t)
  <2>1. /\ pc[t] = "got it" /\ pc' = [pc EXCEPT ![t] = "in"] /\ owner' = t
        /\ UNCHANGED <<pipe, head, tail, ticket>>
        /\ arrived' = RemoveFirst(arrived, t)
    BY <1>4 DEF Own, At, Goto, localVars
  <2>2. pc'[t] = "in" /\ \A u \in Threads \ {t} : pc'[u] = pc[u]
    BY <1>2, <2>1
  <2>3. \A u \in Threads \ {t} : pc[u] \notin Critical
    BY <1>0, <2>1 DEF MutualExclusion, Critical
  <2>4. PICK k \in 1 .. Len(arrived) : arrived[k] = t
    BY <1>0, <2>1 DEF ArrivedIs
  <2>5. /\ ArrivedIs' /\ Len(arrived') = Len(arrived) - 1
        /\ \A i \in 1 .. Len(arrived) - 1 :
              arrived'[i] = IF i < k THEN arrived[i] ELSE arrived[i + 1]
    BY <1>0, <2>1, <2>4, Leaves
  <2>6. OwnCode' /\ OwnerIsIn'
    BY <1>0, <1>1, <2>1, <2>2, <2>3 DEF OwnCode, OwnerIsIn, Critical
  <2>7. MutualExclusion'
    BY <2>2, <2>3 DEF MutualExclusion, Critical
  <2>8. Token'
    <3>1. \A u \in Threads : pc'[u] \in Critical <=> pc[u] \in Critical
      BY <2>1, <2>2 DEF Critical
    <3> QED BY <1>0, <1>1, <2>1, <3>1 DEF Token
  <2>9. Window'
    <3> SUFFICES ASSUME ~generic
                 PROVE  /\ tail' = Plus(head', Ahead' + Len(arrived'))
                        /\ \A i \in 1 .. Len(arrived') :
                             /\ pc'[arrived'[i]] # "got it"
                             /\ ticket'[arrived'[i]] = Plus(head', Ahead' + i - 1)
      BY <1>1 DEF Window, Plus
    <3>1. /\ tail = Plus(head, Ahead + Len(arrived))
          /\ \A i \in 1 .. Len(arrived) :
               IF pc[arrived[i]] = "got it" THEN i = 1 /\ Ahead = 0
               ELSE ticket[arrived[i]] = Plus(head, Ahead + i - 1)
      BY <1>0 DEF Window
    <3>2. k = 1 /\ Ahead = 0 /\ Len(arrived) \in Nat
      BY <1>0, <2>1, <2>4, <3>1, ArrivedType
    <3>3. Ahead' = 1
      <4>1. t \in Inside'
        BY <2>2 DEF Inside
      <4> QED BY <4>1 DEF Ahead
    <3>4. tail' = Plus(head', Ahead' + Len(arrived'))
      <4>1. Ahead' + Len(arrived') = Ahead + Len(arrived)
        BY <2>5, <3>2, <3>3
      <4> QED BY <2>1, <3>1, <4>1
    <3>5. ASSUME NEW i \in 1 .. Len(arrived')
          PROVE  /\ pc'[arrived'[i]] # "got it"
                 /\ ticket'[arrived'[i]] = Plus(head', Ahead' + i - 1)
      <4>1. /\ i \in 1 .. Len(arrived) - 1 /\ i + 1 \in 1 .. Len(arrived)
            /\ i + 1 # 1 /\ ~(i < k)
        BY <2>5, <3>2
      <4>2. arrived'[i] = arrived[i + 1] /\ arrived[i + 1] \in Threads
        BY <1>3, <2>5, <4>1
      <4>3. arrived[i + 1] # t
        BY <1>0, <2>4, <3>2, <4>1 DEF ArrivedIs
      <4>4. pc'[arrived[i + 1]] = pc[arrived[i + 1]] /\ pc[arrived[i + 1]] # "got it"
        BY <2>2, <2>3, <4>2, <4>3 DEF Critical
      <4>5. ticket[arrived[i + 1]] = Plus(head, Ahead + (i + 1) - 1)
        BY <3>1, <4>1, <4>4
      <4>6. Ahead + (i + 1) - 1 = Ahead' + i - 1
        BY <3>2, <3>3
      <4> QED BY <2>1, <4>2, <4>4, <4>5, <4>6
    <3> QED BY <3>4, <3>5
  <2> QED BY <2>5, <2>6, <2>7, <2>8, <2>9 DEF IInv
<1>5. CASE Disown(t)
  <2>1. /\ pc[t] = "in" /\ pc' = [pc EXCEPT ![t] = "disowned"] /\ owner' = Nobody
        /\ UNCHANGED <<pipe, head, tail, ticket, arrived>>
    BY <1>5 DEF Disown, At, Goto, localVars
  <2>2. pc'[t] = "disowned" /\ \A u \in Threads \ {t} : pc'[u] = pc[u]
    BY <1>2, <2>1
  <2>3. \A u \in Threads \ {t} : pc[u] \notin Critical
    BY <1>0, <2>1 DEF MutualExclusion, Critical
  <2>4. OwnCode' /\ OwnerIsIn'
    BY <1>0, <1>1, <1>2, <2>1, <2>2, <2>3 DEF OwnCode, OwnerIsIn, Critical
  <2>5. MutualExclusion'
    BY <2>2, <2>3 DEF MutualExclusion, Critical
  <2>6. Token'
    <3>1. \A u \in Threads : pc'[u] \in Critical <=> pc[u] \in Critical
      BY <2>1, <2>2 DEF Critical
    <3> QED BY <1>0, <1>1, <2>1, <3>1 DEF Token
  <2>7. ArrivedIs'
    BY <1>0, <2>1, <2>2 DEF ArrivedIs, Waiting
  <2>8. Ahead' = Ahead
    <3>1. Inside' = Inside
      BY <2>1, <2>2 DEF Inside
    <3> QED BY <3>1 DEF Ahead
  <2>9. \A u \in Threads : pc'[u] = "got it" <=> pc[u] = "got it"
    BY <2>1, <2>2
  <2>10. Window'
    BY <1>0, <1>1, <1>3, <2>1, <2>8, <2>9 DEF Window, Plus
  <2> QED BY <2>4, <2>5, <2>6, <2>7, <2>10 DEF IInv
<1>6. CASE ForkChild(t)
  <2>1. /\ pc' = [u \in Threads |-> IF u = t THEN "in" ELSE "out"]
        /\ owner' = t /\ arrived' = <<>> /\ head' = 0
    BY <1>6 DEF ForkChild
  <2>2. pc'[t] = "in" /\ \A u \in Threads \ {t} : pc'[u] = "out"
    BY <2>1
  <2>3. OwnCode' /\ OwnerIsIn' /\ MutualExclusion'
    BY <2>1, <2>2 DEF OwnCode, OwnerIsIn, MutualExclusion, Critical
  <2>4. Token'
    <3>1. /\ pipe' \in 0..1 /\ (generic => pipe' = 0)
      BY <1>6 DEF ForkChild
    <3>2. \E u \in Threads : pc'[u] \in Critical
      BY <2>2 DEF Critical
    <3> QED BY <1>1, <3>1, <3>2 DEF Token
  <2>5. Len(arrived') = 0 /\ ArrivedIs'
    BY <2>1, <2>2 DEF ArrivedIs, Waiting
  <2>6. Window'
    <3> SUFFICES ASSUME ~generic PROVE tail' = Plus(head', Ahead' + Len(arrived'))
      BY <1>1, <2>5 DEF Window, Plus
    <3>1. tail' = 1 /\ Word \in Nat /\ 1 < Word
      BY <1>6, LockAssumption DEF ForkChild, TypeOK
    <3>2. Ahead' = 1
      <4>1. t \in Inside'
        BY <2>2 DEF Inside
      <4> QED BY <4>1 DEF Ahead
    <3> QED BY <2>1, <2>5, <3>1, <3>2 DEF Plus
  <2> QED BY <2>3, <2>4, <2>5, <2>6 DEF IInv
<1> QED BY <1>4, <1>5, <1>6

LEMMA NextIInv == IInv /\ [Next]_vars => IInv'
<1> SUFFICES ASSUME IInv, [Next]_vars PROVE IInv'
  OBVIOUS
<1>1. CASE UNCHANGED vars
  <2> USE <1>1 DEF vars, lockVars, localVars
  <2>1. generic' = generic /\ Ahead' = Ahead
    BY DEF generic, Ahead, Inside
  <2>2. TypeOK'
    BY DEF IInv, TypeOK
  <2>3. OwnCode' /\ OwnerIsIn' /\ ArrivedIs' /\ Token' /\ MutualExclusion'
    BY <2>1 DEF IInv, OwnCode, OwnerIsIn, ArrivedIs, Token, MutualExclusion
  <2>4. Window'
    BY <2>1 DEF IInv, Window, Plus
  <2> QED BY <2>2, <2>3, <2>4 DEF IInv
<1>2. ASSUME NEW t \in Threads, Step(t) PROVE IInv'
  <2>1. TypeOK'
    BY <1>2, TypeStep
  <2>2. CASE sema_down(t) \/ ReadToken(t) \/ WriteToken(t)
    BY <2>1, <2>2, GenericStep
  <2>3. CASE TakeTicket(t) \/ PassHead(t) \/ (TestHead(t) /\ ticket[t] = head)
    BY <2>1, <2>3, TicketStep
  <2>4. CASE Own(t) \/ Disown(t) \/ ForkChild(t)
    BY <2>1, <2>4, OwnerStep
  <2>5. CASE \/ ReadFutex(t) \/ (TestHead(t) /\ ticket[t] # head) \/ FutexWait(t)
             \/ SpuriousWakeup(t) \/ TestTail(t) \/ BumpFutex(t) \/ FutexWake(t)
    <3>1. pc \in [Threads -> Labels] /\ OwnCode
      BY DEF IInv, TypeOK
    <3>2. ~generic
      BY <2>5, <3>1 DEF OwnCode, Critical, At, ReadFutex, TestHead, FutexWait,
                        SpuriousWakeup, TestTail, BumpFutex, FutexWake
    <3>3. UNCHANGED <<sched_lock_ops, pipe, head, tail, owner, ticket, arrived>>
      BY <2>5 DEF ReadFutex, TestHead, FutexWait, SpuriousWakeup, TestTail, BumpFutex,
                  FutexWake, lockVars, localVars
    <3>4. ASSUME NEW u \in Threads
          PROVE  \/ pc'[u] = pc[u]
                 \/ {pc[u], pc'[u]} \subseteq Waiting \ {"read pipe"}
                 \/ {pc[u], pc'[u]} \subseteq Away
      BY <2>5, <3>1 DEF ReadFutex, TestHead, FutexWait, SpuriousWakeup, TestTail,
                        BumpFutex, FutexWake, At, Goto, Waiting, Away
    <3> QED BY <2>1, <3>2, <3>3, <3>4, Shuffle
  <2> QED BY <1>2, <2>2, <2>3, <2>4, <2>5 DEF Step, Acquiring, Releasing
<1> QED BY <1>1, <1>2 DEF Next

-----------------------------------------------------------------------------
(* The theorems.                                                           *)

\* The invariant holds in every state of the lock.
THEOREM LockInvariant == Spec => []IInv
<1>1. Init /\ [][Next]_vars => []IInv
  BY InitIInv, NextIInv, PTL
<1> QED BY <1>1, PTL DEF Spec

\* Words stay words, and there is one token at most.
THEOREM LockTypes == Spec => []TypeOK
<1>1. IInv => TypeOK
  BY DEF IInv
<1> QED BY <1>1, LockInvariant, PTL

\* No two threads are between getting the lock and giving it away, for any number of
\* threads and across the wrap-around of head and tail: sema.c and
\* ticket-lock-linux.c.
THEOREM LockExcludes == Spec => []MutualExclusion
<1>1. IInv => MutualExclusion
  BY DEF IInv
<1> QED BY <1>1, LockInvariant, PTL

\* The assertions on the owner in sema_down, sema_up, acquire_sched_lock and
\* release_sched_lock never fail.
THEOREM LockOwners == Spec => []OwnerAssertions
<1>1. IInv => OwnerAssertions
  <2> SUFFICES ASSUME IInv, NEW t \in Threads
               PROVE  /\ At(t, "got it") => owner = Nobody
                      /\ At(t, "in") => owner = t
                      /\ At(t, "out") => owner # t
    BY DEF OwnerAssertions
  <2>1. OwnerIsIn /\ MutualExclusion /\ owner \in Threads \cup {Nobody}
    BY DEF IInv, TypeOK
  <2> QED BY <2>1 DEF OwnerIsIn, MutualExclusion, At
<1> QED BY <1>1, LockInvariant, PTL

\* Every step of either implementation is a step of the abstract Lock or none: the
\* pipe hands the lock to any thread that waits, the tickets to the one that has
\* waited longest.
LEMMA RefinesStep == IInv /\ IInv' /\ [Next]_vars => [L!Next]_(L!vars)
<1> SUFFICES ASSUME IInv, IInv', [Next]_vars PROVE [L!Next]_(L!vars)
  OBVIOUS
<1>0. /\ TypeOK /\ OwnerIsIn /\ ArrivedIs /\ Window /\ MutualExclusion
      /\ Nobody \notin Threads
  BY LockAssumption DEF IInv
<1>1. CASE UNCHANGED vars
  BY <1>1 DEF vars, lockVars, L!vars, generic
<1>2. ASSUME NEW t \in Threads, Step(t) PROVE [L!Next]_(L!vars)
  <2>1. generic' = generic
    BY <1>2 DEF Step, Acquiring, Releasing, generic, sema_down, ReadToken, WriteToken,
       TakeTicket, ReadFutex, TestHead, FutexWait, SpuriousWakeup, PassHead, TestTail,
       BumpFutex, FutexWake, Own, Disown, ForkChild
  <2>2. CASE sema_down(t) \/ TakeTicket(t)
    <3>1. /\ pc[t] = "out" /\ arrived' = Append(arrived, t) /\ UNCHANGED owner
      BY <2>2 DEF sema_down, TakeTicket, At, lockVars
    <3>2. owner # t /\ ~Contains(arrived, t)
      BY <1>0, <3>1 DEF OwnerIsIn, ArrivedIs, Waiting, Contains
    <3>3. L!Ask(t)
      BY <2>1, <3>1, <3>2 DEF L!Ask, L!Contains, Contains
    <3> QED BY <3>3 DEF L!Next
  <2>3. CASE Own(t)
    <3>1. /\ pc[t] = "got it" /\ owner' = t /\ arrived' = RemoveFirst(arrived, t)
      BY <2>3 DEF Own, At
    <3>2. owner = Nobody
      BY <1>0, <3>1 DEF OwnerIsIn, MutualExclusion, TypeOK
    <3>3. PICK k \in 1 .. Len(arrived) : arrived[k] = t
      BY <1>0, <3>1 DEF ArrivedIs
    <3>4. ~generic => Head(arrived) = t
      <4>1. arrived \in Seq(Threads)
        BY <1>0 DEF TypeOK
      <4>2. ~generic => k = 1
        BY <1>0, <3>1, <3>3 DEF Window
      <4> QED BY <3>3, <4>1, <4>2
    <3>5. Contains(arrived, t)
      BY <3>3 DEF Contains
    <3>6. L!RemoveFirst(arrived, t) = RemoveFirst(arrived, t)
      BY DEF L!RemoveFirst, L!RemoveAt, L!SelectInSeq, L!Min, RemoveFirst, RemoveAt,
             SelectInSeq, Min
    <3>7. L!Contains(arrived, t)
      BY <3>5 DEF L!Contains, Contains
    <3>8. L!Get(t)
      BY <2>1, <3>1, <3>2, <3>4, <3>6, <3>7 DEF L!Get
    <3> QED BY <3>8 DEF L!Next, L!Grant
  <2>4. CASE Disown(t)
    <3>1. pc[t] = "in" /\ owner' = Nobody /\ UNCHANGED arrived
      BY <2>4 DEF Disown, At
    <3>2. L!Release(t)
      BY <1>0, <2>1, <3>1 DEF OwnerIsIn, L!Release
    <3> QED BY <3>2 DEF L!Next
  <2>5. CASE ForkChild(t)
    <3>1. pc[t] = "in" /\ owner' = t /\ arrived' = <<>>
      BY <2>5 DEF ForkChild, At
    <3>2. L!Fork(t)
      BY <1>0, <2>1, <3>1 DEF OwnerIsIn, L!Fork
    <3> QED BY <3>2 DEF L!Next
  <2>6. CASE \/ ReadToken(t) \/ WriteToken(t) \/ ReadFutex(t) \/ TestHead(t)
             \/ FutexWait(t) \/ SpuriousWakeup(t) \/ PassHead(t) \/ TestTail(t)
             \/ BumpFutex(t) \/ FutexWake(t)
    <3>1. UNCHANGED <<owner, arrived>>
      BY <2>6 DEF ReadToken, WriteToken, ReadFutex, TestHead, FutexWait, SpuriousWakeup,
                  PassHead, TestTail, BumpFutex, FutexWake, lockVars
    <3> QED BY <2>1, <3>1 DEF L!vars
  <2> QED BY <1>2, <2>2, <2>3, <2>4, <2>5, <2>6 DEF Step, Acquiring, Releasing
<1> QED BY <1>1, <1>2 DEF Next

\* Both implementations have no behaviour that the Lock does not have: the lock goes
\* to threads that asked for it, to one at a time, and with tickets in the order in
\* which they asked.
THEOREM LockRefines == Spec => L!Init /\ [][L!Next]_(L!vars)
<1>1. Init => L!Init
  BY DEF Init, L!Init, generic
<1> QED BY <1>1, LockInvariant, RefinesStep, PTL DEF Spec
=============================================================================
