------------------------------ MODULE DgBlocks ------------------------------
(***************************************************************************)
(* Datagrind's core, exp-datagrind/dg_main.c: the translation-time half    *)
(* (dg_instrument and the dg_bbdef_* helpers), which defines a block and   *)
(* injects tracing calls into it, and the run-time half (trace_bb_start,   *)
(* trace_access, trace_update_instrs, trace_bb_flush), which those calls   *)
(* drive while the client runs.  The two meet only through the output: a   *)
(* BBRUN record names a CONTEXT by its ordinal, a CONTEXT names a BBDEF by *)
(* its ordinal, and the addresses of a BBRUN are matched with the accesses *)
(* of the BBDEF by position.                                               *)
(*                                                                         *)
(* An instrumented statement is one element of sbOut: the tracing calls    *)
(* put in front of an original statement and the statement itself.         *)
(* Nothing can come between them except a fault of the statement, which    *)
(* has an action of its own.  Instruction addresses are abstracted to the  *)
(* key (nraddr) of the superblock, call stacks to the set Stacks of        *)
(* ExeContexts, access sizes to whether they pass the assertion, and the   *)
(* records of client requests and of the heap to one kind, EVENT.  The     *)
(* clean_debuginfo at the head of dg_instrument writes TEXT_AVMA records,  *)
(* which no ordinal counts; it is modelled in DgDebugInfo.                 *)
(***************************************************************************)
EXTENDS Integers, Sequences, SequencesExt

CONSTANTS Keys,            \* superblock addresses (closure->nraddr)
          Addrs,           \* data addresses
          Stacks,          \* ExeContexts
          MaxDefInstrs,    \* 255: instructions a BBDEF can hold
          Footprints,      \* the accesses an IR statement makes, in traced order
          GuestMaxInsns,   \* VEX's guest_max_insns: instructions in a superblock
          MayFault,        \* the client's instructions may fault
          MayGuard,        \* the guest has LoadG, StoreG, helpers with a guard
          MayUnsupported,  \* the guest has statements dg_instrument rejects
          MaxStmts,        \* bound: statements of a superblock
          MaxTranslations, \* bound: superblocks instrumented
          MaxRuns,         \* bound: superblocks executed
          MaxEvents        \* bound: records of client requests

\* VEX/priv/main_main.c:224 requires 1 <= guest_max_insns <= 100, and
\* guest_generic_bb_to_IR.c:227 disassembles no more, so dg_bbdef_add_instr
\* is never called with 255 instructions in the definition.
ASSUME BlocksAssumption ==
  /\ MaxDefInstrs \in Nat /\ GuestMaxInsns \in Nat
  /\ 1 <= GuestMaxInsns /\ GuestMaxInsns <= MaxDefInstrs
  /\ MayFault \in BOOLEAN /\ MayGuard \in BOOLEAN /\ MayUnsupported \in BOOLEAN
  /\ MaxStmts \in Nat /\ MaxTranslations \in Nat /\ MaxRuns \in Nat
  /\ MaxEvents \in Nat

\* A load or a reading helper makes one read; a store or a writing helper one
\* write; a CAS or a modifying helper a read and then a write.
ASSUME FootprintAssumption ==
  Footprints \subseteq {<<"R">>, <<"W">>, <<"R", "W">>}

VARIABLES
  log,      \* the records written, in file order
  defAt, ctxAt, runAt,  \* positions in log of the BBDEFs, CONTEXTs, BBRUNs:
                        \* the index a reader builds while it scans the file
  global_bbdef_index,
  global_context_index,
  bbdefs,   \* every DgBBDef allocated, in order; its number is its address
  dgsbs,    \* key -> the DgBBDefs of the superblock's DgSB
  tt,       \* key -> the instrumented code, <<>> if there is none
  mode,     \* what runs: "sched", "instr", "run", "done" or "panic"
  cur,      \* the key being instrumented or executed
  sbOut,    \* the code dg_instrument has emitted so far
  insns,    \* IMarks VEX has put into the superblock so far
  pc,       \* the next statement of tt[cur] to execute
  out_bbr,  \* the DgBBRun being collected
  now,      \* ghost: what the current execution has really done
  happened  \* ghost: what the finished executions really did

instrVars == <<bbdefs, dgsbs, global_bbdef_index, defAt, sbOut, insns>>
traceVars == <<out_bbr, global_context_index, ctxAt, runAt>>
ghostVars == <<now, happened>>
vars == <<log, instrVars, traceVars, ghostVars, tt, mode, cur, pc>>

Dirs == {"R", "W"}               \* DG_ACC_READ, DG_ACC_WRITE
NoContext == -1

BBDEF(at, n, accs) == [type |-> "BBDEF", at |-> at, n |-> n, accs |-> accs]
CONTEXT(b, ec)     == [type |-> "CONTEXT", bbdef |-> b, stack |-> ec]
BBRUN(bbr)         == [type |-> "BBRUN", ctx |-> bbr.ctx, n |-> bbr.n,
                       addrs |-> bbr.accs]
\* after is a ghost: the executions that were over when it was written.
EVENT              == [type |-> "EVENT", after |-> Len(happened)]

EmptyRun == [at |-> "none", stack |-> "none", n |-> 0, accs |-> <<>>]

Init ==
  /\ log = <<>> /\ defAt = <<>> /\ ctxAt = <<>> /\ runAt = <<>>
  /\ global_bbdef_index = 0 /\ global_context_index = 0
  /\ bbdefs = <<>>
  /\ dgsbs = [k \in Keys |-> <<>>]
  /\ tt = [k \in Keys |-> <<>>]
  /\ mode = "sched" /\ cur = "none" /\ sbOut = <<>> /\ insns = 0 /\ pc = 0
  /\ out_bbr = [ctx |-> 0, n |-> 0, accs |-> <<>>]
  /\ now = EmptyRun /\ happened = <<>>

-----------------------------------------------------------------------------
(* Translation time.                                                       *)

dg_bbdef_new(k) == [at |-> k, index |-> -1, n |-> 0, accs |-> <<>>, live |-> TRUE,
                    ctxs |-> [ec \in Stacks |-> NoContext]]

\* The DgBBDef that dg_instrument is filling: the last one allocated.
bbd == bbdefs[Len(bbdefs)]

\* What the guard of a memory statement is on: there is none; it is on the statement
\* and its trace_access call; it is on the helper that the statement calls only.
Guards == {"none", "both", "helper"}

\* One instrumented statement.  n and k are the numbers of instructions and
\* accesses of the definition up to and including it.
Stmt(kind, b, n, k, dirs, guard) ==
  [kind |-> kind, bbd |-> b, n |-> n, k |-> k, dirs |-> dirs, guard |-> guard]

\* dg_instrument up to its statement loop: a DgSB and its first DgBBDef.
InstrumentBegin(k) ==
  /\ mode = "sched" /\ tt[k] = <<>>
  /\ Len(bbdefs) < MaxTranslations
  /\ mode' = "instr" /\ cur' = k /\ sbOut' = <<>> /\ insns' = 0
  /\ bbdefs' = Append(bbdefs, dg_bbdef_new(k))
  /\ dgsbs' = [dgsbs EXCEPT ![k] = <<Len(bbdefs) + 1>>]
  /\ UNCHANGED <<log, global_bbdef_index, defAt, traceVars, ghostVars, tt, pc>>

\* dg_bbdef_flush: the BBDEF record is written and the definition gets its
\* index; nothing happens to a definition without instructions.
dg_bbdef_flush ==
  IF bbd.n = 0
    THEN UNCHANGED <<log, defAt, global_bbdef_index>>
    ELSE /\ log' = Append(log, BBDEF(bbd.at, bbd.n, bbd.accs))
         /\ defAt' = Append(defAt, Len(log) + 1)
         /\ global_bbdef_index' = global_bbdef_index + 1

\* Mutants: the index is never stored; it is taken after the increment.
FlushedNoIndex(d) == IF d.n = 0 THEN d ELSE [d EXCEPT !.n = 0, !.accs = <<>>]
FlushedLateIndex(d) ==
  IF d.n = 0 THEN d
  ELSE [d EXCEPT !.index = global_bbdef_index + 1, !.n = 0, !.accs = <<>>]

Flushed(d) == IF d.n = 0 THEN d
              ELSE [d EXCEPT !.index = global_bbdef_index, !.n = 0, !.accs = <<>>]

\* dg_bbdef_add_instr.  A full definition is flushed and a new one begun; the
\* first instruction of a definition injects trace_bb_start in front of it.
dg_bbdef_add_instr ==
  LET b == Len(bbdefs) IN
  IF bbd.n = MaxDefInstrs
    THEN /\ dg_bbdef_flush
         /\ bbdefs' = Append([bbdefs EXCEPT ![b] = Flushed(bbd)],
                             [dg_bbdef_new(cur) EXCEPT !.n = 1])
         /\ dgsbs' = [dgsbs EXCEPT ![cur] = Append(@, b + 1)]
         /\ sbOut' = Append(sbOut, Stmt("imark", b + 1, 1, 0, <<>>, "none"))
    ELSE /\ bbdefs' = [bbdefs EXCEPT ![b].n = @ + 1]
         /\ sbOut' = Append(sbOut, Stmt("imark", b, bbd.n + 1, Len(bbd.accs),
                                        <<>>, "none"))
         /\ UNCHANGED <<log, defAt, global_bbdef_index, dgsbs>>

\* Ist_IMark.
AddInstr ==
  /\ mode = "instr"
  /\ insns < GuestMaxInsns /\ insns' = insns + 1
  /\ Len(sbOut) < MaxStmts
  /\ dg_bbdef_add_instr
  /\ UNCHANGED <<traceVars, ghostVars, tt, mode, cur, pc>>

\* Mutant: iseq counts from 1.
EntriesFromOne(dirs, n) == [i \in 1..Len(dirs) |-> [dir |-> dirs[i], iseq |-> n]]

\* The entries dg_bbdef_add_access adds to a definition of n instructions, one
\* for every access of the statement.
Entries(dirs, n) == [i \in 1..Len(dirs) |-> [dir |-> dirs[i], iseq |-> n - 1]]

\* dg_bbdef_add_access for every access of the footprint.  The guard goes to
\* the trace_access call only; the entry is added either way.
dg_bbdef_add_access(dirs, guard) ==
  LET b == Len(bbdefs)
      accs == bbd.accs \o Entries(dirs, bbd.n)
  IN /\ bbdefs' = [bbdefs EXCEPT ![b].accs = accs]
     /\ sbOut' = Append(sbOut, Stmt("mem", b, bbd.n, Len(accs), dirs, guard))

\* Ist_WrTmp of a load, Ist_Store, Ist_Dirty with a memory effect, Ist_CAS; guarded,
\* Ist_StoreG and Ist_LoadG; and Ist_Dirty of a helper with a guard, which is not
\* passed on.
AddAccess(dirs, guard) ==
  /\ mode = "instr" /\ sbOut # <<>>
  /\ guard # "none" => MayGuard
  /\ guard = "both" => Len(dirs) = 1
  /\ Len(sbOut) < MaxStmts
  /\ dg_bbdef_add_access(dirs, guard)
  /\ UNCHANGED <<log, dgsbs, global_bbdef_index, defAt, insns, traceVars,
                 ghostVars, tt, mode, cur, pc>>

\* A way out of the superblock with trace_update_instrs(n) in front of it.
dg_bbdef_update_instrs(kind) ==
  Stmt(kind, Len(bbdefs), bbd.n, Len(bbd.accs), <<>>, "none")

\* Ist_Exit.
AddExit ==
  /\ mode = "instr" /\ sbOut # <<>>
  /\ Len(sbOut) < MaxStmts
  /\ sbOut' = Append(sbOut, dg_bbdef_update_instrs("exit"))
  /\ UNCHANGED <<log, bbdefs, dgsbs, global_bbdef_index, defAt, insns, traceVars,
                 ghostVars, tt, mode, cur, pc>>

\* A statement that dg_instrument does not know (LLSC, the default case) or an
\* access of more than 255 bytes (the FXSAVE helper): an assertion fails.
AddUnsupported ==
  /\ MayUnsupported
  /\ mode = "instr" /\ sbOut # <<>>
  /\ mode' = "panic"
  /\ UNCHANGED <<log, instrVars, traceVars, ghostVars, tt, cur, pc>>

\* The end of dg_instrument: the last trace_update_instrs, the flush of the
\* definition, and the return of the code, which the core puts into its
\* translation table.  VEX never makes a superblock without instructions.
InstrumentEnd ==
  /\ mode = "instr" /\ sbOut # <<>>
  /\ dg_bbdef_flush
  /\ bbdefs' = [bbdefs EXCEPT ![Len(bbdefs)] = Flushed(bbd)]
  /\ tt' = [tt EXCEPT ![cur] = Append(sbOut, dg_bbdef_update_instrs("end"))]
  /\ mode' = "sched" /\ cur' = "none" /\ sbOut' = <<>> /\ insns' = 0
  /\ UNCHANGED <<dgsbs, traceVars, ghostVars, pc>>

\* The core throws a translation away; dg_discard_superblock_info frees its
\* DgSB and the DgBBDefs in it.  The functions of this module are neither redirected
\* nor wrapped: they have one translation, and its code is not entered after the
\* discard.  Both are shown of the core in DgSuperblocks, where it is also seen what
\* is different for the others.
dg_discard_superblock_info(k) ==
  /\ mode = "sched" /\ tt[k] # <<>>
  /\ tt' = [tt EXCEPT ![k] = <<>>]
  /\ dgsbs' = [dgsbs EXCEPT ![k] = <<>>]
  /\ bbdefs' = [b \in DOMAIN bbdefs |->
                  IF \E i \in DOMAIN dgsbs[k] : dgsbs[k][i] = b
                    THEN [bbdefs[b] EXCEPT !.live = FALSE,
                            !.ctxs = [ec \in Stacks |-> NoContext]]
                    ELSE bbdefs[b]]
  /\ UNCHANGED <<log, global_bbdef_index, defAt, sbOut, insns, traceVars, ghostVars,
                 mode, cur, pc>>

-----------------------------------------------------------------------------
(* Run time.                                                               *)

stmt == tt[cur][pc]

\* The scheduler enters the translation of k, some thread's stack being ec.
\* Threads change only here, so one out_bbr serves all of them.
Execute(k, ec) ==
  /\ mode = "sched" /\ tt[k] # <<>>
  /\ Len(happened) < MaxRuns
  /\ mode' = "run" /\ cur' = k /\ pc' = 1
  /\ now' = [at |-> k, stack |-> ec, n |-> 0, accs |-> <<>>]
  /\ UNCHANGED <<log, instrVars, traceVars, happened, tt>>

\* trace_bb_flush.  The record is written when n_instrs is set; then the
\* assertion that no accesses are left behind.
FlushFails == out_bbr.n = 0 /\ out_bbr.accs # <<>>
FlushedLog == IF out_bbr.n > 0 THEN Append(log, BBRUN(out_bbr)) ELSE log
FlushedRunAt == IF out_bbr.n > 0 THEN Append(runAt, Len(log) + 1) ELSE runAt

\* Mutant: the flush forgets to drop the addresses it has written.
trace_bb_startKeeping(b) ==
  LET ec == now.stack
      c  == IF bbdefs[b].ctxs[ec] = NoContext
              THEN global_context_index ELSE bbdefs[b].ctxs[ec]
  IN /\ runAt' = FlushedRunAt
     /\ out_bbr' = [out_bbr EXCEPT !.ctx = c, !.n = 0]
     /\ bbdefs' = [bbdefs EXCEPT ![b].ctxs[ec] = c]
     /\ IF bbdefs[b].ctxs[ec] # NoContext
          THEN log' = FlushedLog /\ UNCHANGED <<ctxAt, global_context_index>>
          ELSE /\ log' = Append(FlushedLog, CONTEXT(bbdefs[b].index, ec))
               /\ ctxAt' = Append(ctxAt, Len(FlushedLog) + 1)
               /\ global_context_index' = global_context_index + 1

\* Mutant: the flush forgets to clear the count.
trace_bb_startCounting(b) ==
  LET ec == now.stack
      c  == IF bbdefs[b].ctxs[ec] = NoContext
              THEN global_context_index ELSE bbdefs[b].ctxs[ec]
  IN /\ runAt' = FlushedRunAt
     /\ out_bbr' = [out_bbr EXCEPT !.ctx = c, !.accs = <<>>]
     /\ bbdefs' = [bbdefs EXCEPT ![b].ctxs[ec] = c]
     /\ IF bbdefs[b].ctxs[ec] # NoContext
          THEN log' = FlushedLog /\ UNCHANGED <<ctxAt, global_context_index>>
          ELSE /\ log' = Append(FlushedLog, CONTEXT(bbdefs[b].index, ec))
               /\ ctxAt' = Append(ctxAt, Len(FlushedLog) + 1)
               /\ global_context_index' = global_context_index + 1

\* trace_bb_start: flush the previous run, then find or write the context.
trace_bb_start(b) ==
  LET ec    == now.stack
      known == bbdefs[b].ctxs[ec] # NoContext
  IN /\ runAt' = FlushedRunAt
     /\ IF known
          THEN /\ log' = FlushedLog
               /\ out_bbr' = [ctx |-> bbdefs[b].ctxs[ec], n |-> 0, accs |-> <<>>]
               /\ UNCHANGED <<bbdefs, ctxAt, global_context_index>>
          ELSE /\ log' = Append(FlushedLog, CONTEXT(bbdefs[b].index, ec))
               /\ ctxAt' = Append(ctxAt, Len(FlushedLog) + 1)
               /\ global_context_index' = global_context_index + 1
               /\ bbdefs' = [bbdefs EXCEPT ![b].ctxs[ec] = global_context_index]
               /\ out_bbr' = [ctx |-> global_context_index, n |-> 0, accs |-> <<>>]

\* An IMark: the client enters the next instruction.  On the first one of a
\* definition trace_bb_start runs.
RunIMark ==
  /\ mode = "run" /\ stmt.kind = "imark"
  /\ now' = [now EXCEPT !.n = @ + 1]
  /\ pc' = pc + 1
  /\ IF stmt.n > 1
       THEN UNCHANGED <<log, bbdefs, traceVars, mode>>
       ELSE IF FlushFails
              THEN mode' = "panic" /\ UNCHANGED <<log, bbdefs, traceVars>>
              ELSE trace_bb_start(stmt.bbd) /\ UNCHANGED mode
  /\ UNCHANGED <<dgsbs, global_bbdef_index, defAt, sbOut, insns, happened, tt, cur>>

\* The client's own accesses and the addresses trace_access appends for them.
Touched(dirs, a) == [i \in 1..Len(dirs) |->
                      [dir |-> dirs[i], iseq |-> now.n - 1, addr |-> a]]
Traced(dirs, a)  == [i \in 1..Len(dirs) |-> a]

\* A statement that touches address a, with its trace_access calls.
RunAccess(a) ==
  /\ mode = "run" /\ stmt.kind = "mem"
  /\ out_bbr' = [out_bbr EXCEPT !.accs = @ \o Traced(stmt.dirs, a)]
  /\ now' = [now EXCEPT !.accs = @ \o Touched(stmt.dirs, a)]
  /\ pc' = pc + 1
  /\ UNCHANGED <<log, instrVars, global_context_index, ctxAt, runAt, happened, tt,
                 mode, cur>>

\* A guarded statement whose guard is false: neither the call nor the access.
RunSkipped ==
  /\ mode = "run" /\ stmt.kind = "mem" /\ stmt.guard = "both"
  /\ pc' = pc + 1
  /\ UNCHANGED <<log, instrVars, traceVars, ghostVars, tt, mode, cur>>

\* A helper whose guard is false: trace_access is called for what is not touched.
RunUntouched(a) ==
  /\ mode = "run" /\ stmt.kind = "mem" /\ stmt.guard = "helper"
  /\ out_bbr' = [out_bbr EXCEPT !.accs = @ \o Traced(stmt.dirs, a)]
  /\ pc' = pc + 1
  /\ UNCHANGED <<log, instrVars, global_context_index, ctxAt, runAt, ghostVars, tt,
                 mode, cur>>

\* Control leaves the superblock.
Leave == /\ mode' = "sched" /\ cur' = "none" /\ pc' = 0
         /\ now' = EmptyRun /\ happened' = Append(happened, now)

\* Mutant: side exits do not update the count.
UpdateAtEndOnly ==
  /\ mode = "run" /\ stmt.kind \in {"exit", "end"}
  /\ out_bbr' = [out_bbr EXCEPT !.n = IF stmt.kind = "end" THEN stmt.n ELSE @]
  /\ UNCHANGED <<log, instrVars, global_context_index, ctxAt, runAt, tt>>

\* A side exit, taken or not, or the end of the superblock:
\* trace_update_instrs runs first.
trace_update_instrs ==
  /\ mode = "run" /\ stmt.kind \in {"exit", "end"}
  /\ out_bbr' = [out_bbr EXCEPT !.n = stmt.n]
  /\ UNCHANGED <<log, instrVars, global_context_index, ctxAt, runAt, tt>>

RunLeave == trace_update_instrs /\ Leave

RunStay == /\ trace_update_instrs /\ stmt.kind = "exit"
           /\ pc' = pc + 1
           /\ UNCHANGED <<ghostVars, mode, cur>>

\* A statement faults after its trace_access calls have run: the signal's
\* longjmp leaves the superblock, and no trace_update_instrs is executed.
RunFault(a) ==
  /\ MayFault
  /\ mode = "run" /\ stmt.kind = "mem"
  /\ out_bbr' = [out_bbr EXCEPT !.accs = @ \o Traced(stmt.dirs, a)]
  /\ Leave
  /\ UNCHANGED <<log, instrVars, global_context_index, ctxAt, runAt, tt>>

\* A statement without a data access traps (a division), inside an instruction.
RunTrap ==
  /\ MayFault
  /\ mode = "run" /\ pc > 1
  /\ Leave
  /\ UNCHANGED <<log, instrVars, traceVars, tt>>

\* A client request or an allocation between two superblocks writes its record at
\* once, while the run before it is still in out_bbr.
dg_handle_client_request ==
  /\ mode = "sched"
  /\ Cardinality({p \in DOMAIN log : log[p].type = "EVENT"}) < MaxEvents
  /\ log' = Append(log, EVENT)
  /\ UNCHANGED <<instrVars, traceVars, ghostVars, tt, mode, cur, pc>>

\* Mutant: the file is closed with the last run still in out_bbr.
FiniWithoutFlush ==
  /\ mode = "sched" /\ mode' = "done"
  /\ UNCHANGED <<log, instrVars, traceVars, ghostVars, tt, cur, pc>>

\* dg_fini: the last run is flushed and the file closed.
dg_fini ==
  /\ mode = "sched"
  /\ IF FlushFails
       THEN mode' = "panic" /\ UNCHANGED <<log, runAt, out_bbr>>
       ELSE /\ mode' = "done"
            /\ log' = FlushedLog /\ runAt' = FlushedRunAt
            /\ out_bbr' = [out_bbr EXCEPT !.n = 0, !.accs = <<>>]
  /\ UNCHANGED <<instrVars, global_context_index, ctxAt, ghostVars, tt, cur, pc>>

Terminating == mode \in {"done", "panic"} /\ UNCHANGED vars

Instrument == \/ \E k \in Keys : InstrumentBegin(k)
              \/ AddInstr
              \/ \E dirs \in Footprints, g \in Guards : AddAccess(dirs, g)
              \/ AddExit
              \/ AddUnsupported
              \/ InstrumentEnd

Run == \/ \E k \in Keys, ec \in Stacks : Execute(k, ec)
       \/ RunIMark
       \/ \E a \in Addrs : RunAccess(a) \/ RunFault(a) \/ RunUntouched(a)
       \/ RunSkipped
       \/ RunLeave \/ RunStay
       \/ RunTrap

Next == \/ Instrument
        \/ Run
        \/ \E k \in Keys : dg_discard_superblock_info(k)
        \/ dg_handle_client_request
        \/ dg_fini
        \/ Terminating

Spec == Init /\ [][Next]_vars

-----------------------------------------------------------------------------
(* Properties.                                                             *)

Positions == Seq(Nat \ {0})
Entry  == [dir : Dirs, iseq : Nat]
Touch  == [dir : Dirs, iseq : Nat, addr : Addrs]
Record == [type : {"BBDEF"}, at : Keys, n : Nat, accs : Seq(Entry)]
            \cup [type : {"CONTEXT"}, bbdef : Nat, stack : Stacks]
            \cup [type : {"BBRUN"}, ctx : Nat, n : Nat, addrs : Seq(Addrs)]
            \cup [type : {"EVENT"}, after : Nat]
Def    == [at : Keys, index : Nat \cup {-1}, n : Nat, accs : Seq(Entry),
           live : BOOLEAN, ctxs : [Stacks -> Nat \cup {NoContext}]]
Statement == [kind : {"imark", "mem", "exit", "end"}, bbd : Nat \ {0}, n : Nat,
              k : Nat, dirs : Footprints \cup {<<>>}, guard : Guards]
Code   == Seq(Statement)
Bbr    == [ctx : Nat, n : Nat, accs : Seq(Addrs)]
Truth  == [at : Keys, stack : Stacks, n : Nat, accs : Seq(Touch)]

\* The types of the variables; the program counter is inside the code that is
\* executing and every DgBBDef a superblock owns has been allocated.
TypeOK ==
  /\ log \in Seq(Record)
  /\ defAt \in Positions /\ ctxAt \in Positions /\ runAt \in Positions
  /\ global_bbdef_index \in Nat /\ global_context_index \in Nat
  /\ bbdefs \in Seq(Def)
  /\ dgsbs \in [Keys -> Seq(Nat \ {0})]
  /\ tt \in [Keys -> Code]
  /\ mode \in {"sched", "instr", "run", "done", "panic"}
  /\ cur \in Keys \cup {"none"}
  /\ mode \in {"instr", "run"} => cur \in Keys
  /\ mode = "instr" => bbdefs # <<>>
  /\ sbOut \in Code
  /\ insns \in Nat
  /\ pc \in Nat
  /\ mode = "run" => pc \in DOMAIN tt[cur]
  /\ out_bbr \in Bbr
  /\ now \in Truth \cup {EmptyRun}
  /\ mode = "run" => now \in Truth
  /\ happened \in Seq(Truth)

\* idx is what a scan of the file lg finds: its i-th position holds the i-th
\* record of the type.
Scans(lg, idx, type) ==
  /\ \A i \in DOMAIN idx : idx[i] \in DOMAIN lg /\ lg[idx[i]].type = type
  /\ \A i, j \in DOMAIN idx : i < j => idx[i] < idx[j]
  /\ \A p \in DOMAIN lg : lg[p].type = type => \E i \in DOMAIN idx : idx[i] = p

\* Every reference of the file lg is to an earlier record.
Resolves(lg, defs, ctxs) ==
  \A p \in DOMAIN lg :
    /\ lg[p].type = "CONTEXT" =>
         lg[p].bbdef + 1 \in DOMAIN defs /\ defs[lg[p].bbdef + 1] < p
    /\ lg[p].type = "BBRUN" =>
         lg[p].ctx + 1 \in DOMAIN ctxs /\ ctxs[lg[p].ctx + 1] < p

\* Every CONTEXT names, by ordinal, a BBDEF written before it, and every BBRUN a
\* CONTEXT written before it (dg_bbdef_flush, trace_bb_start, trace_bb_flush and
\* their two global counters): a reader never meets a forward reference.
WellReferenced ==
  /\ Scans(log, defAt, "BBDEF") /\ Scans(log, ctxAt, "CONTEXT")
  /\ Scans(log, runAt, "BBRUN")
  /\ Resolves(log, defAt, ctxAt)

\* What a reader of the file makes of BBRUN record r: it follows the ordinals
\* and pairs the addresses with the definition's accesses by position.
ContextOf(r) == log[ctxAt[r.ctx + 1]]
DefOf(r)     == log[defAt[ContextOf(r).bbdef + 1]]
Decode(r) ==
  LET d == DefOf(r)
      m == IF Len(r.addrs) <= Len(d.accs) THEN Len(r.addrs) ELSE Len(d.accs)
  IN [at |-> d.at, stack |-> ContextOf(r).stack, n |-> r.n,
      accs |-> [i \in 1..m |-> [dir |-> d.accs[i].dir, iseq |-> d.accs[i].iseq,
                                addr |-> r.addrs[i]]]]

\* The runs a reader of the whole file sees.
Reported == [i \in DOMAIN runAt |-> Decode(log[runAt[i]])]

\* The i-th BBRUN of the file decodes to exactly what the i-th executed
\* superblock did: which block, from which stack, how many instructions, and
\* every access with its direction, instruction and address.  At most one
\* execution, the one in out_bbr, is missing.
FaithfulRuns ==
  /\ Len(runAt) <= Len(happened) /\ Len(happened) <= Len(runAt) + 1
  /\ \A i \in DOMAIN runAt : Decode(log[runAt[i]]) = happened[i]

\* The assertion at the end of trace_bb_flush never fails: whenever a block
\* starts, or Datagrind finishes, no access is left without an instruction
\* count.
FlushAssertion == mode # "panic"

\* The BBRUN records match, in order, executions that happened, each with its
\* own block and stack, and with all of its addresses in order among the ones
\* written; no access is ever attributed to the run of another block, even when
\* blocks are left by a fault and the assertion in trace_bb_flush fires, and no
\* record has more addresses than its definition has accesses.
Attribution ==
  \E f \in [DOMAIN runAt -> DOMAIN happened] :
    /\ \A i, j \in DOMAIN runAt : i < j => f[i] < f[j]
    /\ \A i \in DOMAIN runAt :
         LET r == log[runAt[i]]
             h == happened[f[i]]
         IN /\ DefOf(r).at = h.at /\ ContextOf(r).stack = h.stack
            /\ \E g \in [DOMAIN h.accs -> DOMAIN r.addrs] :
                 /\ \A j \in DOMAIN g : r.addrs[g[j]] = h.accs[j].addr
                 /\ \A j, l \in DOMAIN g : j < l => g[j] < g[l]
            /\ Len(r.addrs) <= Len(DefOf(r).accs)

\* The elements of s are among those of t, in order.
Within(s, t) ==
  \E g \in [DOMAIN s -> DOMAIN t] :
    /\ \A j \in DOMAIN g : t[g[j]] = s[j]
    /\ \A j, l \in DOMAIN g : j < l => g[j] < g[l]

\* What a reader may rely on when blocks are left by faults and guards are false.
\* The count of a BBRUN, which a fault leaves at the last exit that was passed, is
\* of this execution and never more than the instructions it entered
\* (trace_update_instrs, reset in trace_bb_flush); and a BBRUN with as many
\* addresses as its BBDEF has accesses, whatever was not touched or faulted on the
\* way, decodes to every access that was made, with its direction and instruction.
ReadableRuns ==
  \E f \in [DOMAIN runAt -> DOMAIN happened] :
    /\ \A i, j \in DOMAIN runAt : i < j => f[i] < f[j]
    /\ \A i \in DOMAIN runAt :
         LET r == log[runAt[i]]
             d == Decode(r)
             h == happened[f[i]]
         IN /\ d.at = h.at /\ d.stack = h.stack /\ d.n <= h.n
            /\ Len(r.addrs) = Len(DefOf(r).accs) => Within(h.accs, d.accs)

\* A record written between two executions is at most one run too early in the file:
\* all runs that come before it were over, and at most the last of those that were
\* over comes after it.
EventPlacement ==
  \A p \in DOMAIN log : log[p].type = "EVENT" =>
    LET before == Cardinality({i \in DOMAIN runAt : runAt[i] < p})
    IN before <= log[p].after /\ log[p].after <= before + 1

\* Without faults and guards the tracer is a Recorder of block runs that is at
\* most one run late.
Stage == INSTANCE Recorder WITH
           Lag <- 1, reported <- Reported,
           status <- CASE mode = "done" -> "closed" [] mode = "panic" -> "dead"
                       [] OTHER -> "open"
RecorderSpec == Stage!Spec
=============================================================================
