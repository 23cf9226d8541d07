# A TLA+ model of Datagrind

Datagrind (`exp-datagrind/`) is a Valgrind tool. It records every read and write
of a client program, the block and the call stack each was made from, the heap
blocks, and labels the client sets, in a binary file that `dg_view` displays. The
repository is a copy of Valgrind with this one tool added; the models are about the
tool and about what it relies on in Valgrind's core.

## Inventory

| Component | State | Operations | Hard part |
|---|---|---|---|
| Block definition and tracing, `dg_main.c` | `dgsbs`, DgBBDefs, `global_bbdef_index`, `global_context_index`, `out_bbr` | `dg_instrument`, `dg_bbdef_*`, `trace_*`, `dg_discard_superblock_info`, `dg_fini` | two halves that meet only through ordinals and positions in the file; faults and guards in the middle of a block |
| Output file, `dg_main.c`, `dg_record.h` | `out_buf`, `out_buf_used`, the file | `out_*`, `prepare_out_file`, the record writers, `dg_handle_client_request` | buffer boundary, length escape, short writes, fork, kill |
| Heap, `dg_main.c` | `block_table`, the client arena | `dg_malloc`, `dg_calloc`, `dg_memalign`, `dg_free`, `dg_realloc`, `MALLOCLIKE`, `FREELIKE` | three views of the heap that have to agree |
| Superblock data, `dg_main.c` | `dgsbs` | create, discard | raw pointers in generated code; discard by address |
| Translation table, `m_transtab.c` | sectors, edges, `tt_fast`, the unredirected table | translate, recycle, chain, unchain, discard | patched jumps into code that goes away |
| Object files, `dg_main.c` with `m_debuginfo/debuginfo.c` | `debuginfo_dirty`, `debuginfo_table`, `debugInfo_list` | `clean_debuginfo`, mmap and munmap notifications | identity by pointer, mappings that arrive in parts |
| Hash table, `m_hashtable.c` | chains, counts | all but `HT_print_stats` | growth with equal and colliding keys; removal while iterating |
| Command line, registration | file name | option parsing | none |
| Big lock, `m_scheduler/sched-lock.c`, `sema.c`, `ticket-lock-linux.c` | pipe, or `head`, `tail`, `futex`; `owner` | create, acquire, release, re-create after fork | lost wake-ups, wrap-around |
| Scheduler, thread life and fatal signals, `scheduler.c`, `m_syswrap`, `m_signals.c` | `VG_(threads)`, `running_tid` | run, yield, system call, clone, fork, exit, exit_group, execve, kill | everybody waits for everybody at the end; signals that arrive too early |
| VEX, the other core modules, the other tools, `dg_view` | | | not modelled, see below |

How they interact: the core calls `dg_instrument` once for each superblock it
translates; the generated code calls `trace_bb_start`, `trace_access` and
`trace_update_instrs`; the core calls `dg_discard_superblock_info` when it throws a
translation away, the malloc functions and `dg_handle_client_request` when the client
calls them, `dg_track_new_mem_mmap_or_startup` after the debug information module has
seen a mapping, and `dg_fini` at the end. Everything that writes a record goes
through `out_buf`. All of this happens under Valgrind's big lock: a thread holds it
while it runs generated code or a callback and gives it up only between superblocks
and around blocking system calls. So callbacks are atomic with respect to one
another, and the one `out_bbr` is shared by all threads safely. What interleaves is
coarser: translations, executions, discards, faults, mappings, heap calls and forks in
any order.

The big lock itself is what `SchedLock` is about, and how the scheduler's threads take,
lose and leave it is what `Scheduler` is about.

What makes each part correct: every reference in the file is to an earlier record and
every run decodes to what the client did (blocks); no overflow, nothing lost or out of
order, every record can be skipped (output); client, table and records agree (heap);
data lives exactly as long as the code that points to it (superblocks); an object is
placed before its code is seen (object files); a look-up finds what was added and an
iteration everything (hash table); no jump and no cached look-up leads to code that is gone
(translation table); one holder, and no lost wake-up (lock); one runner, and every exit
ends with one `dg_fini` (scheduler).
The hazards behind these are listed, with their lines, in `PROJECT.json`.

## Modules

| Module | Is | About |
|---|---|---|
| `Recorder` | abstract specification | a buffering stage: in order, at most `Lag` late, complete when closed |
| `Multimap` | abstract specification | a set of nodes with keys |
| `DgBlocks` | detailed | translation and run time of a traced block; implements `Recorder` |
| `DgOutput` | detailed | records, buffer, file; implements `Recorder` |
| `DgHeap` | detailed | malloc replacement |
| `TransTab` | detailed | `m_transtab.c`: sectors, chaining, fast cache, unredirected table |
| `DgSuperblocks` | composition | `TransTab` and the DgSBs Datagrind keeps for its translations |
| `DgDebugInfo` | detailed | TEXT_AVMA records against the core's DebugInfos |
| `HashTable` | detailed | `m_hashtable.c`; implements `Multimap` |
| `Lock` | abstract specification | a lock: one holder, passed to one who asked, in order if `fifo`; somebody gets it |
| `SchedLock` | detailed | the two big locks; implements `Lock` |
| `Process` | abstract specification | threads that come, are told to exit and go, and the end of a process |
| `Scheduler` | detailed | threads under the big lock: system calls, signals, exit; implements `Process` |
| `MC...` | instances | constants for TLC |
| `...Proofs` | theorems | one for each detailed module but `TransTab`, whose theorems are with `DgSuperblocks` |

Operators have the names of the C functions they stand for; `map` in `PROJECT.json`
gives the lines. Definitions whose comment begins with "Mutant" are plausible
mistakes; no specification uses them. They show that each property can fail.

### DgBlocks

`InstrumentBegin`, `AddInstr`, `AddAccess`, `AddExit`, `AddUnsupported` and
`InstrumentEnd` are `dg_instrument` cut at its statement loop: the sequence of actions
enumerates every superblock up to `MaxStmts` statements. The code that results, `sbOut`
and then `tt[k]`, is a sequence of original statements each with the calls put in front
of it. `Execute` and the `Run...` actions interpret that code, with branches taken or
not, any data address, any stack, false guards and faults (`RunFault`, `RunTrap`).
`Guards` are of two kinds: those of LoadG and StoreG, which `dg_instrument` passes on to the
`trace_access` call (`RunSkipped`), and those of a dirty helper, which it does not
(`RunUntouched`: the address is traced and nothing is touched).
`dg_handle_client_request` stands for every record that is written between two superblocks
while a run is still in `out_bbr`; its ghost field `after` says how many executions were
over. `trace_bb_flush` is inlined in its two callers, `trace_bb_start` and
`dg_fini`, because a failing assertion stops either before it writes anything else.
The superblocks are of functions that are neither redirected nor wrapped: each has one
translation, which is not entered after `dg_discard_superblock_info`. That the core keeps to
this is not put into a property here, where it would be so by construction; it is
`OrdinaryExact` of `DgSuperblocks`, which also shows where it fails for the other functions.

`log` is the file. `defAt`, `ctxAt` and `runAt` are the index a reader builds: where
the i-th BBDEF, CONTEXT and BBRUN stand. They depend on `log` alone (`Scans`, part of
`WellReferenced`) and are kept as variables so that no property needs recursion.
`now` and `happened` are ghosts: what the client really did, against which `Decode`,
what a reader makes of a run, is compared.

`UWord` counters are not wrapped: 2^64 blocks are out of reach on the usual hosts.
The branch of `dg_bbdef_add_instr` for a full definition is in the model and cannot be
taken: VEX puts at most 100 instructions in a superblock (`BlocksAssumption`).

### DgOutput

A record is the sequence of fields its writer emits, each with its width and, for the
type and the length, its value as the byte it becomes (`% 256` for a one-byte length).
`BeginRecord` starts any record, `Emit` is one `out_byte` or `out_bytes`. Field
contents that no reader needs to find the next record are left out. `Fork` and `Die`
are the environment's. File names are at most as long as the buffer (PATH_MAX is
4096 with the final NUL).

### DgHeap

`held` is what the client may use, `live` what a reader of the records believes.
`dg_malloc` also stands for `dg_memalign` and the `operator new`s, which differ in the
alignment only. The arena gives out any free address (`cli_malloc`) and rounds sizes
up. `m * szB` is not wrapped because `dg_calloc` refuses the products that would be;
`TypeOK` checks that. `calloc(m, 0)` divides by zero: `crashed`.

### TransTab

A translation has the address it is entered by (`key`, `.entry`), the address its code was
taken from (`base`, `.vge_base[0]`), which differs for a redirected function, and a place in a
code area (`at`). `handle_tt_miss` and `handle_chain_me` are the scheduler's two ways to a
translation; both end in `add_to_transtab` if there is none, which moves on to the next
sector when the youngest is full and throws out what was in it. `patched` is what the code
really does, `in_edges` and `out_edges` what the table believes of it; `Unchained`,
`InEdges` and `OutEdges` are `unchain_in_preparation_for_deletion` as it follows one list and
repairs the other. `handle_chain_me` may start from a translation that is only in the fast
cache any more. `tt_tc_do_chaining` has four outcomes: the source is there and is patched; it
is gone; it is gone and another translation lies in its place, with an exit at the same
offset or without one. `handle_noredir_jump` translates the original of a wrapped function
into the separate table that has neither chaining nor cache, and is dumped when it is full.
`discard_translations` takes any set of addresses. The hash of a sector, its equivalence
classes and its host extents only find entries quickly; they are sets here. Discards that
gdbserver asks for while a translation executes are not modelled.

### DgSuperblocks

The operations of `TransTab` with the calls of the tool that each makes on its way. A look-up
that has to translate (`Translated`) calls `dg_instrument`, then, if a sector is recycled,
`initialiseSector` calls `dg_discard_superblock_info` for every translation in it.
`add_to_unredir_transtab` is preceded by `dg_instrument` and tells the tool nothing
(`TranslatedUnredir`). `discard_translations` tells it, in `delete_tte`, of each
translation deleted from a sector, and of no unredirected one (`DeletedTold`). Since keys in `dgsbs` may repeat and growth of the hash table reverses the
order of equal keys, `Discarded` lets `HT_remove` take any of them.

### DgDebugInfo

`Map` is one mapping of a part of an object: the core's notification, then Datagrind's.
The core reads debug information when it has seen an r-x and an rw- mapping
(`di_notify_mmap`), and then discards DebugInfos that overlap. `placed` is what a
reader believes. `fresh` marks the objects Datagrind had no reason to take for known.

### HashTable

The chains as sequences. `Rehashed` is `resize`: nodes are moved one by one, from the first
chain to the last, to the front of their new chains, which turns equal keys around. The table's one iterator is
`iterNode`, `iterChain`, `iterOK`; the assertions on `iterOK` are guards. `due` is a ghost:
what the iteration has still to return. `HT_gen_lookup` and `HT_gen_remove` are given the
identity as comparison. `resize` looks for a prime above `n_chains + 1`; that the next one always
is, is the part of `HashTableAssumption` about `Primes`, which the code's table of primes satisfies.

### SchedLock

One action for every access to shared memory and every system call, in the order of the
code; `sched_lock_ops` says which of the two locks is in use. The kernel's side: a futex
compares and sleeps in one step, may wake up for no reason, and wakes all sleepers of one word
(the code asks for 0x7fffffff); a pipe gives a byte to one reader. `ForkChild` is
`sched_fork_cleanup`: the thread that forked is alone with a new lock, which it takes. Memory
is sequentially consistent: the code puts a full barrier at each place where it matters.
`arrived` is a ghost, the queue of `Lock`.

### Scheduler

`pc` is where a thread is between the places that touch shared state; what a thread does
under the lock is one action, except `nuke_all_threads_except`, whose loop meets threads that
change from Zombie to Empty without the lock. `vgkill` is a SIGVGKILL pending in the kernel:
signals are blocked except in `do_syscall_for_client`, so it is taken there
(`sigvgkill_handler`) or by `poll_signals`. `waitingTo` is a stack because `poll_signals`
inside `reap_threads` may start another `default_action`. `process` says how it ended:
`shut down` is the one way through `dg_fini`. `do_fork_clone` continues with the child; the
parent is as if nothing had happened. A clone that the kernel refuses (`do_cloneFailed`) gives its
slot back under the lock, so that only the exit reason of the slot's last thread is lost.

## Runs

Passing runs:

| Run | Shows | Cases the bounds allow |
|---|---|---|
| `blocks_plain` | references, faithful runs, placement of other records, the assertion; `DgBlocks` implements `Recorder` with lag 1 | two superblocks of up to 3 statements and the final exit, or one translated twice; statements with two accesses; two stacks; two runs, and one record of a client request anywhere between them |
| `blocks_faults` | attribution, and what of a run can be read (its count, and all of a run with all addresses), with faults, both kinds of guards, unsupported statements | two superblocks, two runs |
| `output_real` | no overflow, nothing lost, skippable, with kills; `DgOutput` implements `Recorder` | every kind of record as a 64-bit build writes it, lengths around 255, two records after the header; the buffer is 250 bytes and the longest stack 33, so that it fills several times |
| `output_small` | only gaps, with short writes, a fork and kills | fields of 1, 2 and 6 bytes at every fill of a buffer of 7 bytes, two processes |
| `hashtable` | look-ups, count, iteration; `HashTable` implements `Multimap` | 6 nodes, growth from 2 chains to 5, collisions, equal keys, removal at the iterator |
| `heap_agree` | client, table, records agree | 3 chunks, 2 custom addresses, sizes 0..3, words up to 5, 4 allocations |
| `superblocks` | DgSBs of functions not redirected are exactly those of the translations that can be reached; those of all translations in sectors are safe, with wrapped functions too; jumps, edges and the entries of the fast cache that are not redirected lead to translations that are there | 3 addresses, one redirected, 2 sectors of 2, an unredirected table of 1, 5 translations: both sectors are recycled, the unredirected table runs out of room, blocks jump to themselves and to each other |
| `sched_lock` | mutual exclusion, owner assertions; both locks implement `Lock` with its fairness | 3 threads, 2 futexes, so that two tickets share one, words that wrap around at 4, both implementations, any number of acquisitions and forks |
| `scheduler` | one runner, free slots, one reaper, exits terminate; `Scheduler` implements `Process` | 3 slots, all of them used and used again, one fatal signal from outside, any number of system calls, clones, forks, exits, execs and kills |
| `debuginfo` | announced once, placed when run | 3 files, 2 bases, 3 pointers, 4 loads |

Two of everything that is only compared (keys, addresses, stacks) is enough to confuse
one with the other; where a third party matters (sectors, pointers, chunks) there are
three. Symmetry is used only for sets whose members are compared for equality, and only
with invariants and with the refinement in `blocks_plain`, which is a step property that
all the permutations preserve.

Runs that end in a violation, each showing a disagreement between the code and what is
said of it (quoted in `findings`):

* `blocks_assertion`: a fault in a block leads to the failed assertion in `trace_bb_flush`.
* `transtab_erase`: the translation that asks to be chained is thrown out to make room for
  the one it asked for, which is put in its place; the chaining goes by host address and finds
  the new one.

Further disagreements with `docs/dg-manual.xml` and with comments, which the models contain
and no run is spent on:

* A guarded access whose guard is false has an entry in the definition and no address in the
  run, so that the addresses behind it belong to other entries. The manual (line 357): "in
  the same order as the data-access entries in the definition". Guards of dirty helpers are
  not passed on, so that an access that is not made has an address.
* The branch of `dg_realloc` that moves a block (line 776) never frees the old chunk.
* `unredir_discard_translations` and the dump of the unredirected table do not call the tool,
  and Datagrind keeps the DgSBs of both kinds of translation under the same address: a
  discard of the ordinary translation may free the data of the unredirected one, which can
  still run. `include/pub_tool_tooliface.h:375`: "Each translation will be discarded exactly
  once."
* The fast cache is filled under `.entry` and, when one translation is discarded, invalidated
  under `.vge_base[0]` (`m_transtab.c:2039`). A redirected translation stays in it and can run
  after it was discarded, when Datagrind has freed the DgBBDefs that its code points to.
  `FastCacheFresh` and `OrdinaryExact` are about the functions that are not redirected.
* A DebugInfo that lies in memory where a freed one lay is in `debuginfo_table` already and is never
  announced; one that is seen by `clean_debuginfo` between the mappings of its object is announced
  at 0, for good. The ghost `fresh` excludes both from `PlacedWhenRun`.
* `dg_calloc` divides by its second argument before it looks at it (line 727): `calloc(m, 0)`
  ends Valgrind.
* `sys_exit_group` argues (`syswrap-linux.c:1181`) that it cannot deadlock with another thread
  that exits. `poll_signals` and `async_signalhandler` keep a thread from taking a fatal signal
  only if its exit reason is `VgSrc_FatalSig` already. A thread that exit_group or execve has told to exit
  with another reason may take one, begin to reap, and wait for the first reaper while that
  waits for it. The two yield to each other for ever. `OneReaper` (`sent = 0`) and the exception
  in the two liveness properties are this case.
* A fatal signal taken by the thread that reaps for exit_group nests: the inner reason
  `VgSrc_FatalSig` is overwritten by `VgSrc_ExitThread` when the outer call returns.
* `nuke_all_threads_except` tests that a slot is not Empty and then calls
  `get_thread_out_of_syscall`, which asserts `is_valid_tid` (`scheduler.c:469`). A Zombie
  becomes Empty in between without the lock: the process ends as `is_valid_tid failed`.
* `execve` leaves without `dg_fini`: what is in `out_bbr` and `out_buf` is lost.
* A fault after an exit that was not taken: the BBRUN has the count of that exit and
  addresses of later instructions. The manual (line 360): "only the data accesses for this
  many instructions will be reported".
* `dg_bbdef_add_instr` limits the instructions of a definition and not its accesses.
  The manual (line 316): "limited to 255 instructions and accesses".
* A client that forks before the first flush: `out_buf`, with the header, is written by
  both processes. The manual (line 245): "This is the only place the header record may
  appear." From then on the two interleave at the granularity of buffers.
* `out_flush` ignores what `VG_(write)` returns: after a short write a record's length no
  longer leads to the next record (line 206: "enough information for the record to be
  skipped"). `OnlyGaps` says what remains true.

Fairness. The runs of Datagrind's own modules assume none: they check safety and refinement
of safety specifications. `SchedLock` assumes that a thread which has called acquire or
release goes on (weak fairness of its steps), and that a holder gives the lock back, which the
scheduler does at the end of every time slice and before every blocking system call. A
thread need not ask for the lock. `Scheduler` assumes that a thread that can go on by itself
does, that time slices end (`dispatch_ctr` counts down), that the kernel delivers a pending
SIGVGKILL to a thread in a system call, and that a thread which again and again finds the
lock free gets it (strong fairness of `acquire_BigLock`). With `--fair-sched` the last follows
from the order that `sched_lock` shows the ticket lock to keep; with the pipe it is left to the
kernel's treatment of readers. No system call need return by itself, no client need ever
exit, and signals need not be sent.

Deadlock is checked in every run; where the system may stop (the file closed, the process
dead) there is an explicit stuttering step.

## Proofs

All theorems hold for every value of the constants that satisfies the named
assumptions (`BlocksAssumption`, `FootprintAssumption`, `OutputAssumption`,
`OneByteAssumption`, `HeapAssumption`, `TransTabAssumption`, `DebugInfoAssumption`,
`HashTableAssumption`, `LockAssumption`, `SchedulerAssumption`); TLC evaluates these in the runs.

* `DgBlocksProofs`: `TypeCorrect` and `ReferencesResolve` (`WellReferenced`), with faults, guards
  and unsupported statements allowed. The invariant is `RefInv`. `WellReferenced` alone is not inductive: that the
  CONTEXT written by `trace_bb_start` resolves depends on the index in the DgBBDef, which
  depends on the definition having been flushed before its code ran; that a BBRUN
  resolves depends on `out_bbr.ctx` having been handed out. `RefInv` therefore says that
  the two counters are the lengths of the indexes, that a definition reached by code in
  `tt` is allocated and has an index below the counter, that context numbers in use are
  below theirs, and that code begins with the instruction that starts a definition.
* The second part of `DgBlocksProofs`: what the records say about the executions. `FileOnlyGrows` is an
  action property: records and the reader's indices are never changed, only added to. On it
  rests that what was once true of a record stays true. Three invariants build on each other:
  - `CodeInv` (`CodeInvariant`) adds to `RefInv` that the code of every translation lays out
    the accesses of the BBDEF its index names one after the other, instruction by instruction
    (`Drawn`; `Drawing` says it of the definitions under construction), that every remembered
    context is in the file, and that `out_bbr` belongs to the block that runs. It holds with
    faults, guards and discards.
  - `RunInv` adds that what `out_bbr` has collected so far is what the execution has done so far
    (`Collected`), or, between two executions, all of the last one (`Waiting`). Without faults
    and guarded accesses it gives `RunsFaithful` (`FaithfulRuns`), `EventsPlaced`
    (`EventPlacement`), `TracerRecords` (`DgBlocks` implements `Recorder` with a lag of 1) and, if
    dg_instrument knows all statements, `AssertionHolds` (`FlushAssertion`). Faults and false
    guards break it; the run `blocks_assertion` shows how.
  - `AttrInv` is what remains with them: the accesses made are among the addresses collected, in
    order, and each BBRUN is assigned to one execution of its own block. It gives
    `AccessesAttributed` (`Attribution`) with no condition at all. It also says that the count is
    not ahead of the execution and that, as long as no address has been left out, each address
    stands at the place of its entry (`Placed`), which gives `RunsReadable` (`ReadableRuns`). The
    second half is inductive because an address once left out is never made up for: a run
    that has all of its addresses at the end had them all the way.
* `DgOutputProofs`: `BufferNeverOverflows` (`TypeOK`), whatever fails; and, if writes
  work, `NothingIsLost` (`NothingLost`). `BufferInv` says that a process which has not
  been started has nothing in its buffer, that what a process wrote and what is in its
  buffer are together what it emitted, and that the file is what the first process wrote
  as long as there is no other. If writes may fail, `GapsOnly` (`OnlyGaps`): `GapInv` says that
  there is an increasing map from the fields a process wrote to places in what it emitted
  that ends before the fields still in its buffer; `SubsequenceMet` shows that the greedy
  search of `OnlyGaps` then meets all of them. With one process and working writes,
  `OutputRecords` (`DgOutput` implements `Recorder`; `StageInv` adds that there is one process
  and that a buffer holds no more fields than bytes) and `RecordsSkippable` (`Skippable`). The
  latter has two halves. `RecordComplete` computes, for every kind of record and any number
  of addresses, instructions and accesses, that the fields written after the length take up the bytes
  it says; it needs `OneByteAssumption`, that the lengths written as one byte without a test
  (header, heap blocks, client requests) are below the escape value. `SkipInv` says that what
  was emitted and what is still to be emitted are a sequence of complete records, of which
  the file is a prefix, so that it holds in the middle of a record too.
* `DgHeapProofs`: `RecordsTellTheHeap`, `TableIsTheHeap`, `HeldIsAllocated`. `HeapInv`
  adds that the nodes are exactly the client's blocks and the reader's (`OneTable`), that
  addresses and numbers both identify a node and numbers are below `count` (`Distinct`),
  and that the node of an arena block knows its chunk (`Chunks`).
* `DgSuperblocksProofs`: `SuperblockTypes` (`TypeOK`), `OrdinaryTranslationsSafe`
  (`MainSafe`), `OrdinaryNoLeakNoDangling` (`OrdinaryExact`), `JumpsLeadSomewhere`
  (`NoDanglingJump`), `EdgesFindable` (`EdgesMatch`) and `FastCacheInvalidated`
  (`FastCacheFresh`), for any numbers of sectors, exits and addresses and any redirection. `SuperblockInv` adds that an address has at most one ordinary
  translation, which is what makes removal by address safe, and that all numbers of
  translations are below `count`, so that a new one is none of the old. For `OrdinaryExact` it adds
  that a DgSB under an address that is not redirected is of a translation in a sector
  (`NoneLeft`): such an address never gets an unredirected translation, so it never has two DgSBs
  and the discard takes the right one; and that entries of the fast cache have the base their
  redirection says (`Cached`), so that those of such functions are found when they have to go.
  The dump of an unredirected table that is not empty, for which the run has too few
  redirected functions, is covered here. Jumps and edges need
  each other: a jump is undone because it is in `in_edges`, and an edge is taken off a list
  because it is on the other one. The case in which chaining meets another translation in the
  source's place is part of the proof: it patches the wrong exit but leaves the lists consistent.
* `DgDebugInfoProofs`: `ObjectsPlaced` (`PlacedWhenRun`), `NoSecondRecord`
  (`AnnouncedOnce`). `DebugInfoInv` adds that a known text address is that of the first
  r-x mapping, that a DebugInfo which is not in the table has had no record, and that one
  whose text is mapped and which is not in the table keeps `debuginfo_dirty` set.
* `DgHeapProofs.HeapTypes` and `DgDebugInfoProofs.DebugInfoTypes` are the two modules' `TypeOK`,
  the first of which says that no size that calloc computes overflows a word.
* `HashTableProofs`: `LookupsComplete` (`LookupComplete`), `CountExact` (`CountIsExact`),
  `IterationsExact` (`IterationExact`), `DueNodesHeld` and `TableIsMultimap` (`HashTable` implements
  `Multimap`), for any nodes, keys and chain counts. The invariant is `TableInv`
  (`TableInvariant`): each chain holds only nodes whose keys lead to it, none twice (`Chained`);
  `n_elements` is the number of nodes; and, while the iteration is not spoilt, the iterator is before a
  chain or at a node of the chain before, and exactly the nodes behind it are due (`Iterating`).
  A look-up searches one chain, so it is complete only because of `Chained`. That growing keeps it is
  an induction over the nodes resize moves (`PutOneByOne`): after k of them the new chains are
  `Chained` and hold just these. The array of `HT_to_array` has the nodes of the chains below k after
  k steps (`Gathered`). When `HT_remove_at_Iter` steps back, what was behind the node is behind
  the one before it, or, for the head of a chain, is the whole chain (`AfterRemoved`, `FromNext`).
* `SchedLockProofs`: `LockTypes` (`TypeOK`), `LockExcludes` (`MutualExclusion`), `LockOwners`
  (`OwnerAssertions`) and `LockRefines`: both implementations start and step like `Lock`. For the
  pipe the invariant is that the one token is in the pipe or with a thread (`Token`). For the
  tickets it is that the threads that wait hold, in the order of their arrival, consecutive
  words that begin at `head` (or just after it while a thread is inside) and end at `tail`
  (`Window`), with wrap-around. As there are fewer threads than words (`LockAssumption`), no two
  tickets are equal and `head` lets one thread in. A fork empties the window.
* `SchedulerProofs`: `SchedulerRunner` (`OneRunner`), `SchedulerSlots` (`SlotsFree`), `SchedulerLast`
  (`LastOneOut`), `SchedulerReaper` (`OneReaper`) and `SchedulerNoClient`: once a thread is in
  `nuke_all_threads_except` or `reap_threads`, none runs client code. The invariant ties the status
  of a thread to where it is (`Places`), and says what a thread that reaps knows of the others:
  each is to exit, or, in the middle of the loop, each in a slot that the loop has passed (`Told`).
  `SchedulerEnds` (`ProcessSpec`): `Scheduler` implements `Process`. It rests
  on `Places`: the thread that clones, forks, exits or counts the others is itself one of the living,
  and a slot that is given away or marked after its thread has gone is none of them.

Induction. The provers cannot instantiate the library's induction theorems, which take an operator.
Where a proof needs one (how many bytes a repeated group takes, where resize puts a node) it is about
a set instead: `UpTo` says that a set which has 0 and with each number below n the next one has all
numbers up to n, and follows from the least element of what is left out.

Only model-checked:

* The fairness part of `Lock`, `ExitTerminates` and `ToldToExit`: liveness and ENABLED are out of the
  prover's reach.
* The two violations, which are existence claims.

## Not modelled

* VEX is a compiler; its output is enumerated instead.
* ELF and DWARF readers, the address space manager, gdbserver, most system call wrappers: not
  Datagrind's, and it does not depend on their internals.
* The other tools of the Valgrind distribution, which are never loaded together with this one.
* `dg_view` is in another repository; its view of the file is in `Decode`, `EndOf`,
  `live` and `placed`.
* Signal handlers of the client (a handler only redirects client code), the queue of signals,
  `final_tidyup`, exit codes.
* `--keep-debuginfo`, objects that cannot be read, a client that closes Datagrind's file
  descriptor or passes wrong addresses to client requests.

The repository is a whole Valgrind of some 690 000 lines; Datagrind is one file of it. The models
cover that file and what it rests on in the core. The rest is independent of it.

## Plan

Done, in this order: `DgBlocks`, `DgOutput`, `Recorder` and the two refinements,
`HashTable` and `Multimap`, `DgHeap`, `DgSuperblocks`, `DgDebugInfo`, the first five proof modules;
then records between runs and guards of helpers in `DgBlocks`, iteration in `HashTable`,
`TransTab` under `DgSuperblocks` and its proofs, `Lock` and `SchedLock`, `Scheduler`; then the proofs
about `SchedLock` and `Scheduler`, what the runs of `DgBlocks` decode to, the refinements of
`Recorder` by `DgBlocks` and `DgOutput`, and skippable records; then the proofs about `HashTable`
and, in place of an invariant about the last thread, `Process` and its implementation by `Scheduler`.

Left, most important first:

1. A proof that `Scheduler` and `SchedLock` compose: the lock of the first, one variable, is the lock
   that the second implements. Today each is proved by itself.
2. The liveness of `SchedLock` and `Scheduler` for any number of threads, which needs a prover for
   fairness.
