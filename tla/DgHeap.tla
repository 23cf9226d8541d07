------------------------------- MODULE DgHeap -------------------------------
(***************************************************************************)
(* Datagrind's malloc replacement and its block table,                     *)
(* exp-datagrind/dg_main.c: add_block, remove_block, dg_malloc, dg_calloc, *)
(* dg_memalign, dg_free, dg_realloc, and the MALLOCLIKE and FREELIKE       *)
(* client requests.  Three views of the heap have to agree: the blocks the *)
(* client holds, the nodes of block_table, and the blocks a reader of the  *)
(* MALLOC_BLOCK and FREE_BLOCK records takes to be live.                   *)
(*                                                                         *)
(* block_table is a Multimap, which HashTable implements.  The client is a *)
(* correct one: it frees and resizes what it holds, or an address the tool *)
(* knows nothing of.                                                       *)
(***************************************************************************)
EXTENDS Integers

CONSTANTS Arena,     \* addresses cli_malloc may return
          Custom,    \* addresses the client's own allocator hands out
          Sizes,     \* sizes, and counts of calloc, the client asks for
          Align,     \* granularity of the client arena
          MaxWord,   \* ~(SizeT) 0
          MaxAllocs  \* bound: blocks allocated

ASSUME HeapAssumption ==
  /\ Arena \cap Custom = {}
  /\ MaxWord \in Nat /\ Sizes \subseteq 0..MaxWord
  /\ Align \in Nat \ {0} /\ MaxAllocs \in Nat

VARIABLES
  arena,       \* the client arena: [addr, usable] of every chunk allocated
  block_table, \* the DgMallocBlocks
  held,        \* ghost: the blocks the client holds
  live,        \* ghost: the blocks a reader of the records takes to be live
  count,       \* blocks allocated; numbers the nodes
  crashed      \* Valgrind has died of a signal of its own

vars == <<arena, block_table, held, live, count, crashed>>

Init == /\ arena = {} /\ block_table = {} /\ held = {} /\ live = {}
        /\ count = 0 /\ crashed = FALSE

-----------------------------------------------------------------------------
(* The client arena (m_mallocfree.c).                                      *)

Allocated == {c.addr : c \in arena}

\* A chunk holds at least one granule.
Usable(szB) == IF szB = 0 THEN Align ELSE ((szB + Align - 1) \div Align) * Align

cli_malloc(p, szB) == /\ p \in Arena \ Allocated
                      /\ arena' = arena \cup {[addr |-> p, usable |-> Usable(szB)]}

cli_free(p) == arena' = {c \in arena : c.addr # p}

-----------------------------------------------------------------------------
(* Records and nodes.                                                      *)

Block(id, p, szB) == [id |-> id, addr |-> p, szB |-> szB]

\* A reader meets a MALLOC_BLOCK record, or a FREE_BLOCK record.
out_add_block(blocks, id, p, szB) == blocks \cup {Block(id, p, szB)}
out_remove_block(blocks, p) == {b \in blocks : b.addr # p}

Node(id, p, szB, actual) ==
  [id |-> id, key |-> p, szB |-> szB, actual_szB |-> actual]

\* add_block of a block with actual usable bytes: what the arena says, or, for
\* the client's own allocator, what the client says.
add_block(p, szB, actual) ==
  /\ count < MaxAllocs /\ count' = count + 1
  /\ block_table' = block_table \cup {Node(count, p, szB, actual)}
  /\ live' = out_add_block(live, count, p, szB)
  /\ held' = held \cup {Block(count, p, szB)}

\* Mutants: the node is freed and no record written; the record is written and
\* the node stays.
remove_blockSilently(n) == block_table' = block_table \ {n} /\ UNCHANGED live
remove_blockNot(n) == live' = out_remove_block(live, n.key) /\ UNCHANGED block_table

\* remove_block of the node n that HT_remove returns.
remove_block(n) == /\ block_table' = block_table \ {n}
                   /\ live' = out_remove_block(live, n.key)

Tracked(p) == {n \in block_table : n.key = p}

\* The client gives the block at p away, or gets it back at q with a new size.
Dropped(p) == {b \in held : b.addr # p}
Resized(p, q, szB) == Dropped(p) \cup {Block(b.id, q, szB) : b \in held \ Dropped(p)}

-----------------------------------------------------------------------------
(* The replacement functions.                                              *)

\* dg_malloc and dg_memalign (and operator new).
dg_malloc(szB) ==
  \E p \in Arena : /\ cli_malloc(p, szB) /\ add_block(p, szB, Usable(szB))
                   /\ UNCHANGED crashed

\* Mutant: no test for overflow.
dg_callocUnchecked(m, szB) == dg_malloc(m * szB)

\* dg_calloc.  The test for overflow divides by szB.
dg_calloc(m, szB) ==
  \/ /\ szB = 0 /\ crashed' = TRUE
     /\ UNCHANGED <<arena, block_table, held, live, count>>
  \/ /\ szB > 0 /\ m <= MaxWord \div szB
     /\ dg_malloc(m * szB)

\* cli_malloc fails, the product overflows, or the tool does not know the address
\* of a free or a realloc: NULL, or nothing, and nothing changes.
Refused == UNCHANGED vars

\* dg_free (and operator delete).
dg_free(p) ==
  /\ \E n \in Tracked(p) : remove_block(n) /\ cli_free(p)
  /\ held' = Dropped(p)
  /\ UNCHANGED <<count, crashed>>

\* A realloc that fits: a FREE_BLOCK and a MALLOC_BLOCK record for the same
\* address, and the node keeps its actual_szB.
ReallocInPlace(n, szB) ==
  /\ szB <= n.actual_szB
  /\ block_table' = (block_table \ {n}) \cup {[n EXCEPT !.szB = szB]}
  /\ live' = out_add_block(out_remove_block(live, n.key), n.id, n.key, szB)
  /\ held' = Resized(n.key, n.key, szB)
  /\ UNCHANGED arena

\* Mutant: the moved node keeps the actual_szB of the old block.
ReallocMovesStale(n, szB, p) ==
  /\ szB > n.actual_szB
  /\ cli_malloc(p, szB)
  /\ block_table' = (block_table \ {n}) \cup {[n EXCEPT !.key = p, !.szB = szB]}
  /\ live' = out_add_block(out_remove_block(live, n.key), n.id, p, szB)
  /\ held' = Resized(n.key, p, szB)

\* A realloc that does not fit: the node moves to a new chunk.  The old chunk
\* is not given back.
ReallocMoves(n, szB, p) ==
  /\ szB > n.actual_szB
  /\ cli_malloc(p, szB)
  /\ block_table' = (block_table \ {n}) \cup {Node(n.id, p, szB, Usable(szB))}
  /\ live' = out_add_block(out_remove_block(live, n.key), n.id, p, szB)
  /\ held' = Resized(n.key, p, szB)

\* dg_realloc; the wrapper has dealt with NULL and with size 0.
dg_realloc(p, szB) ==
  /\ szB > 0
  /\ \E n \in Tracked(p) : \/ ReallocInPlace(n, szB)
                           \/ \E new_p \in Arena : ReallocMoves(n, szB, new_p)
  /\ UNCHANGED <<count, crashed>>

\* VALGRIND_MALLOCLIKE_BLOCK and VALGRIND_FREELIKE_BLOCK.
MALLOCLIKE_BLOCK(p, szB) == /\ p \notin {b.addr : b \in held}
                            /\ add_block(p, szB, szB)
                            /\ UNCHANGED <<arena, crashed>>

FREELIKE_BLOCK(p) == /\ \E n \in Tracked(p) : remove_block(n)
                     /\ held' = Dropped(p)
                     /\ UNCHANGED <<arena, count, crashed>>

\* What dg_malloc_usable_size tells the client of p; 0 for an unknown address.
dg_malloc_usable_size(p) ==
  IF Tracked(p) = {} THEN 0 ELSE (CHOOSE n \in Tracked(p) : TRUE).actual_szB

Client == \/ \E szB \in Sizes : dg_malloc(szB)
          \/ \E m, szB \in Sizes : dg_calloc(m, szB)
          \/ \E p \in Arena : dg_free(p)
          \/ \E p \in Arena, szB \in Sizes : dg_realloc(p, szB)
          \/ \E p \in Custom, szB \in Sizes : MALLOCLIKE_BLOCK(p, szB)
          \/ \E p \in Custom : FREELIKE_BLOCK(p)

Next == (~crashed /\ Client) \/ Refused

Spec == Init /\ [][Next]_vars

-----------------------------------------------------------------------------
(* Properties.                                                             *)

Words == 0..MaxWord
BlockType == [id : Nat, addr : Arena \cup Custom, szB : Words]
NodeType  == [id : Nat, key : Arena \cup Custom, szB : Words, actual_szB : Nat]

\* The types of the variables; no size has overflowed a word.
TypeOK ==
  /\ arena \subseteq [addr : Arena, usable : Nat]
  /\ block_table \subseteq NodeType
  /\ held \subseteq BlockType /\ live \subseteq BlockType
  /\ count \in Nat /\ crashed \in BOOLEAN

\* The records tell the truth: the blocks a reader takes to be live are exactly
\* the blocks the client holds, with their present sizes.
ReaderAgrees == live = held

\* block_table tracks exactly the blocks the client holds: one node for each, no
\* two for the same address, and no node for a block that is gone (dg_free and
\* dg_realloc would act on it, and a later block at its address be confused
\* with it).
TableAgrees ==
  /\ \A b \in held : \E n \in block_table : n.id = b.id
  /\ \A n \in block_table : Block(n.id, n.key, n.szB) \in held
  /\ \A n, o \in block_table : n.key = o.key => n = o

\* Every block of the arena that the client holds is still allocated there, and
\* the size dg_realloc and dg_malloc_usable_size go by is the chunk's real size,
\* which the client may use.
StillAllocated ==
  \A n \in block_table : n.key \in Arena =>
    /\ n.szB <= n.actual_szB
    /\ [addr |-> n.key, usable |-> dg_malloc_usable_size(n.key)] \in arena
=============================================================================
