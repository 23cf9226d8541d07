---------------------------- MODULE DgHeapProofs ----------------------------
(***************************************************************************)
(* The three views of the heap agree for every arena, every allocator of   *)
(* the client, every granularity and every word size.  The inductive       *)
(* invariant says that the table is the heap: the client's blocks are the  *)
(* images of its nodes, and no two nodes share an address or a number.     *)
(***************************************************************************)
EXTENDS DgHeap, TLAPS

\* The block that node n stands for.
BlockOf(n) == Block(n.id, n.key, n.szB)

\* The nodes are the client's blocks, and the reader's.
OneTable ==
  /\ held = {BlockOf(n) : n \in block_table}
  /\ live = held

\* Addresses and numbers identify nodes.
Distinct ==
  /\ \A n, o \in block_table : n.key = o.key \/ n.id = o.id => n = o
  /\ \A n \in block_table : n.id < count

\* The node of an arena block knows its chunk.
Chunks ==
  \A n \in block_table : n.key \in Arena =>
    n.szB <= n.actual_szB /\ [addr |-> n.key, usable |-> n.actual_szB] \in arena

HeapInv == TypeOK /\ OneTable /\ Distinct /\ Chunks

\* Rounding up to the granularity makes room for what was asked for.
LEMMA UsableEnough ==
  ASSUME NEW szB \in Nat
  PROVE  Usable(szB) \in Nat /\ szB <= Usable(szB)
<1>1. CASE szB = 0
  BY <1>1, HeapAssumption DEF Usable
<1>2. CASE szB # 0
  <2> DEFINE x == szB + Align - 1
             q == x \div Align
  <2>1. x \in Nat /\ Align \in Nat /\ Align > 0
    BY <1>2, HeapAssumption
  <2> HIDE DEF x
  <2>2. q \in Nat /\ x = Align * q + (x % Align) /\ x % Align <= Align - 1
    BY <2>1
  <2>3. q * Align = Align * q /\ q * Align \in Nat
    BY <2>1, <2>2
  <2>4. x % Align \in Int
    BY <2>1
  <2> HIDE DEF q
  <2>5. szB <= q * Align
    BY <2>1, <2>2, <2>3, <2>4 DEF x
  <2> QED BY <1>2, <2>3, <2>5 DEF Usable, q, x
<1> QED BY <1>1, <1>2

\* The division in dg_calloc is a test for overflow of the product.
LEMMA NoOverflow ==
  ASSUME NEW m \in Nat, NEW szB \in Nat, szB > 0, m <= MaxWord \div szB
  PROVE  m * szB \in 0..MaxWord
<1> DEFINE q == MaxWord \div szB
<1>1. q \in Nat /\ MaxWord = szB * q + (MaxWord % szB) /\ MaxWord % szB >= 0
  BY HeapAssumption
<1>2. MaxWord % szB \in Int /\ szB * q \in Int /\ m * szB \in Nat
  BY <1>1, HeapAssumption
<1>3. m * szB <= szB * q
  BY <1>1
<1> QED BY <1>1, <1>2, <1>3, HeapAssumption

\* A node for an address that no node has, or no node anymore.
LEMMA AddNode ==
  ASSUME HeapInv, NEW p \in Arena \cup Custom, NEW szB \in Words, NEW actual \in Nat,
         \A n \in block_table : n.key # p,
         p \in Arena => szB <= actual /\ [addr |-> p, usable |-> actual] \in arena',
         arena \subseteq arena', arena' \subseteq [addr : Arena, usable : Nat],
         add_block(p, szB, actual), UNCHANGED crashed
  PROVE  HeapInv'
<1> DEFINE new == Node(count, p, szB, actual)
<1>1. /\ new \in NodeType /\ new.id = count /\ new.key = p /\ new.szB = szB
      /\ new.actual_szB = actual
  BY DEF Node, NodeType, HeapInv, TypeOK
<1>2. BlockOf(new) = Block(count, p, szB) /\ BlockOf(new) \in BlockType
  BY DEF Node, Block, BlockOf, BlockType, HeapInv, TypeOK
<1>3. /\ block_table' = block_table \cup {new} /\ count' = count + 1
      /\ live' = live \cup {Block(count, p, szB)}
      /\ held' = held \cup {Block(count, p, szB)}
  BY DEF add_block, out_add_block
<1> HIDE DEF new
<1>4. TypeOK'
  BY <1>1, <1>2, <1>3 DEF HeapInv, TypeOK
<1>5. OneTable'
  BY <1>2, <1>3 DEF HeapInv, OneTable
<1>6. Distinct'
  BY <1>1, <1>3 DEF HeapInv, TypeOK, Distinct, NodeType
<1>7. Chunks'
  BY <1>1, <1>3 DEF HeapInv, Chunks
<1> QED BY <1>4, <1>5, <1>6, <1>7 DEF HeapInv

\* A chunk that is not allocated belongs to no node.
LEMMA FreshChunk ==
  ASSUME HeapInv, NEW p \in Arena \ Allocated
  PROVE  \A n \in block_table : n.key # p
<1> SUFFICES ASSUME NEW n \in block_table, n.key = p PROVE FALSE
  OBVIOUS
<1> DEFINE c == [addr |-> n.key, usable |-> n.actual_szB]
<1>1. c \in arena /\ c.addr = p
  BY DEF HeapInv, Chunks
<1> QED BY <1>1 DEF Allocated

\* Any allocation from the arena.
LEMMA StepMalloc ==
  ASSUME HeapInv, NEW szB \in Words, dg_malloc(szB)
  PROVE  HeapInv'
<1>1. PICK p \in Arena : /\ cli_malloc(p, szB) /\ add_block(p, szB, Usable(szB))
                         /\ UNCHANGED crashed
  BY DEF dg_malloc
<1>2. Usable(szB) \in Nat /\ szB <= Usable(szB) /\ szB \in Nat
  BY UsableEnough, HeapAssumption DEF Words
<1>3. \A n \in block_table : n.key # p
  BY <1>1, FreshChunk DEF cli_malloc
<1>4. arena' = arena \cup {[addr |-> p, usable |-> Usable(szB)]}
  BY <1>1 DEF cli_malloc
<1>5. arena' \subseteq [addr : Arena, usable : Nat]
  BY <1>2, <1>4 DEF HeapInv, TypeOK
<1> QED BY <1>1, <1>2, <1>3, <1>4, <1>5, AddNode

\* What is left after one node is taken out is still right.
LEMMA DropNode ==
  ASSUME HeapInv, NEW n \in block_table, remove_block(n), held' = Dropped(n.key),
         arena' = arena \/ cli_free(n.key), UNCHANGED <<count, crashed>>
  PROVE  HeapInv'
<1>1. /\ block_table' = block_table \ {n}
      /\ live' = {b \in live : b.addr # n.key}
      /\ held' = {b \in held : b.addr # n.key}
  BY DEF remove_block, out_remove_block, Dropped
<1>2. arena' \subseteq arena /\ \A c \in arena : c.addr # n.key => c \in arena'
  BY DEF cli_free
<1>3. \A o \in block_table : o # n <=> o.key # n.key
  BY DEF HeapInv, Distinct
<1>4. \A o \in block_table : BlockOf(o).addr = o.key
  BY DEF BlockOf, Block
<1>5. TypeOK'
  BY <1>1, <1>2 DEF HeapInv, TypeOK
<1>6. OneTable'
  BY <1>1, <1>3, <1>4 DEF HeapInv, OneTable
<1>7. Distinct'
  BY <1>1 DEF HeapInv, Distinct
<1>8. Chunks'
  BY <1>1, <1>2, <1>3 DEF HeapInv, Chunks
<1> QED BY <1>5, <1>6, <1>7, <1>8 DEF HeapInv

\* A realloc, in place or not: node n becomes node m.
LEMMA SwapNode ==
  ASSUME HeapInv, NEW n \in block_table, NEW p \in Arena, NEW szB \in Words,
         NEW actual \in Nat, NEW m, m = Node(n.id, p, szB, actual),
         p = n.key \/ \A o \in block_table : o.key # p,
         szB <= actual, [addr |-> p, usable |-> actual] \in arena',
         arena \subseteq arena', arena' \subseteq [addr : Arena, usable : Nat],
         block_table' = (block_table \ {n}) \cup {m},
         live' = out_add_block(out_remove_block(live, n.key), n.id, p, szB),
         held' = Resized(n.key, p, szB), UNCHANGED <<count, crashed>>
  PROVE  HeapInv'
<1>1. /\ m.id = n.id /\ m.key = p /\ m.szB = szB /\ m.actual_szB = actual
      /\ BlockOf(m) = Block(n.id, p, szB)
  BY DEF Node, BlockOf, Block
<1>2. n \in NodeType /\ m \in NodeType /\ BlockOf(m) \in BlockType
  BY <1>1 DEF HeapInv, TypeOK, NodeType, BlockType, Node, Block
<1>3. \A o \in block_table : o # n <=> o.key # n.key
  BY DEF HeapInv, Distinct
<1>4. \A o \in block_table : BlockOf(o).addr = o.key /\ BlockOf(o).id = o.id
  BY DEF BlockOf, Block
<1>5. held \ Dropped(n.key) = {BlockOf(n)}
  BY <1>3, <1>4 DEF Dropped, HeapInv, OneTable
<1>6. Dropped(n.key) = {BlockOf(o) : o \in block_table \ {n}}
  BY <1>3, <1>4 DEF Dropped, HeapInv, OneTable
<1>7. held' = Dropped(n.key) \cup {BlockOf(m)}
  BY <1>1, <1>4, <1>5 DEF Resized
<1>8. live' = Dropped(n.key) \cup {BlockOf(m)}
  BY <1>1 DEF out_add_block, out_remove_block, Dropped, HeapInv, OneTable
<1>9. TypeOK'
  BY <1>2, <1>7, <1>8 DEF HeapInv, TypeOK, Dropped
<1>10. OneTable'
  BY <1>6, <1>7, <1>8 DEF OneTable
<1>11. Distinct'
  BY <1>1, <1>3 DEF HeapInv, Distinct
<1>12. Chunks'
  BY <1>1 DEF HeapInv, Chunks
<1> QED BY <1>9, <1>10, <1>11, <1>12 DEF HeapInv

\* dg_realloc.
LEMMA StepRealloc ==
  ASSUME HeapInv, NEW p \in Arena, NEW szB \in Words, dg_realloc(p, szB)
  PROVE  HeapInv'
<1>1. PICK n \in Tracked(p) : \/ ReallocInPlace(n, szB)
                              \/ \E new_p \in Arena : ReallocMoves(n, szB, new_p)
  BY DEF dg_realloc
<1>2. n \in block_table /\ n.key = p /\ n \in NodeType /\ UNCHANGED <<count, crashed>>
  BY DEF Tracked, HeapInv, TypeOK, dg_realloc
<1>3. CASE ReallocInPlace(n, szB)
  <2>1. [n EXCEPT !.szB = szB] = Node(n.id, n.key, szB, n.actual_szB)
    BY <1>2 DEF NodeType, Node
  <2>2. n.actual_szB \in Nat /\ [addr |-> n.key, usable |-> n.actual_szB] \in arena
    BY <1>2 DEF NodeType, HeapInv, Chunks
  <2>3. /\ szB <= n.actual_szB /\ arena' = arena
        /\ block_table' = (block_table \ {n}) \cup {Node(n.id, n.key, szB, n.actual_szB)}
        /\ live' = out_add_block(out_remove_block(live, n.key), n.id, n.key, szB)
        /\ held' = Resized(n.key, n.key, szB)
    BY <1>3, <2>1 DEF ReallocInPlace
  <2>4. arena' \subseteq [addr : Arena, usable : Nat]
    BY <2>3 DEF HeapInv, TypeOK
  <2> QED BY <1>2, <2>2, <2>3, <2>4, SwapNode
<1>4. CASE \E new_p \in Arena : ReallocMoves(n, szB, new_p)
  <2>1. PICK new_p \in Arena : ReallocMoves(n, szB, new_p)
    BY <1>4
  <2>2. Usable(szB) \in Nat /\ szB <= Usable(szB)
    BY UsableEnough, HeapAssumption DEF Words
  <2>3. \A o \in block_table : o.key # new_p
    BY <2>1, FreshChunk DEF ReallocMoves, cli_malloc
  <2>4. arena' = arena \cup {[addr |-> new_p, usable |-> Usable(szB)]}
    BY <2>1 DEF ReallocMoves, cli_malloc
  <2>5. /\ block_table' = (block_table \ {n}) \cup {Node(n.id, new_p, szB, Usable(szB))}
        /\ live' = out_add_block(out_remove_block(live, n.key), n.id, new_p, szB)
        /\ held' = Resized(n.key, new_p, szB)
    BY <2>1 DEF ReallocMoves
  <2>6. arena' \subseteq [addr : Arena, usable : Nat]
    BY <2>2, <2>4 DEF HeapInv, TypeOK
  <2> QED BY <1>2, <2>2, <2>3, <2>4, <2>5, <2>6, SwapNode
<1> QED BY <1>1, <1>3, <1>4

\* A step of the client.
LEMMA StepClient == ASSUME HeapInv, Client PROVE HeapInv'
<1> USE HeapAssumption
<1>1. Sizes \subseteq Words /\ Words \subseteq Nat
  BY DEF Words
<1>2. CASE \E szB \in Sizes : dg_malloc(szB)
  BY <1>1, <1>2, StepMalloc
<1>3. CASE \E m, szB \in Sizes : dg_calloc(m, szB)
  <2>1. PICK m, szB \in Sizes : dg_calloc(m, szB)
    BY <1>3
  <2>2. CASE szB = 0
    <3>1. crashed' = TRUE /\ UNCHANGED <<arena, block_table, held, live, count>>
      BY <2>1, <2>2 DEF dg_calloc
    <3>2. TypeOK'
      BY <3>1 DEF HeapInv, TypeOK
    <3>3. OneTable' /\ Distinct' /\ Chunks'
      BY <3>1 DEF HeapInv, OneTable, Distinct, Chunks
    <3> QED BY <3>2, <3>3 DEF HeapInv
  <2>3. CASE szB > 0 /\ m <= MaxWord \div szB /\ dg_malloc(m * szB)
    <3>1. m * szB \in Words
      BY <1>1, <2>3, NoOverflow DEF Words
    <3> QED BY <2>3, <3>1, StepMalloc
  <2> QED BY <1>1, <2>1, <2>2, <2>3 DEF dg_calloc
<1>4. CASE \E p \in Arena : dg_free(p)
  <2>1. PICK p \in Arena : dg_free(p)
    BY <1>4
  <2>2. PICK n \in Tracked(p) : remove_block(n) /\ cli_free(p)
    BY <2>1 DEF dg_free
  <2>3. n \in block_table /\ n.key = p /\ held' = Dropped(n.key)
    BY <2>1 DEF Tracked, dg_free
  <2> QED BY <2>1, <2>2, <2>3, DropNode DEF dg_free
<1>5. CASE \E p \in Arena, szB \in Sizes : dg_realloc(p, szB)
  BY <1>1, <1>5, StepRealloc
<1>6. CASE \E p \in Custom, szB \in Sizes : MALLOCLIKE_BLOCK(p, szB)
  <2>1. PICK p \in Custom, szB \in Sizes : MALLOCLIKE_BLOCK(p, szB)
    BY <1>6
  <2>2. \A n \in block_table : n.key # p
    <3>1. \A n \in block_table : BlockOf(n) \in held /\ BlockOf(n).addr = n.key
      BY DEF HeapInv, OneTable, BlockOf, Block
    <3> QED BY <2>1, <3>1 DEF MALLOCLIKE_BLOCK
  <2>3. p \notin Arena /\ szB \in Words /\ szB \in Nat
    BY <1>1
  <2>4. /\ add_block(p, szB, szB) /\ UNCHANGED <<arena, crashed>>
        /\ arena \subseteq [addr : Arena, usable : Nat]
    BY <2>1 DEF MALLOCLIKE_BLOCK, HeapInv, TypeOK
  <2> QED BY <2>2, <2>3, <2>4, AddNode
<1>7. CASE \E p \in Custom : FREELIKE_BLOCK(p)
  <2>1. PICK p \in Custom : FREELIKE_BLOCK(p)
    BY <1>7
  <2>2. PICK n \in Tracked(p) : remove_block(n)
    BY <2>1 DEF FREELIKE_BLOCK
  <2>3. n \in block_table /\ n.key = p /\ held' = Dropped(n.key)
    BY <2>1 DEF Tracked, FREELIKE_BLOCK
  <2> QED BY <2>1, <2>2, <2>3, DropNode DEF FREELIKE_BLOCK
<1> QED BY <1>2, <1>3, <1>4, <1>5, <1>6, <1>7 DEF Client

\* The inductive invariant holds in every reachable state.
THEOREM HeapInvariant == Spec => []HeapInv
<1>1. Init => HeapInv
  <2> SUFFICES ASSUME Init PROVE HeapInv
    OBVIOUS
  <2>1. TypeOK
    BY DEF Init, TypeOK
  <2>2. OneTable
    BY DEF Init, OneTable
  <2>3. Distinct /\ Chunks
    BY DEF Init, Distinct, Chunks
  <2> QED BY <2>1, <2>2, <2>3 DEF HeapInv
<1>2. HeapInv /\ [Next]_vars => HeapInv'
  <2> SUFFICES ASSUME HeapInv, [Next]_vars PROVE HeapInv'
    OBVIOUS
  <2>1. CASE Client
    BY <2>1, StepClient
  <2>2. CASE UNCHANGED vars
    BY <2>2 DEF vars, HeapInv, TypeOK, OneTable, Distinct, Chunks
  <2> QED BY <2>1, <2>2 DEF Next, Refused
<1> QED BY <1>1, <1>2, PTL DEF Spec

\* No size overflows a word, whatever calloc is asked for, and every variable keeps
\* its type.
THEOREM HeapTypes == Spec => []TypeOK
  BY HeapInvariant, PTL DEF HeapInv

\* A reader of the MALLOC_BLOCK and FREE_BLOCK records knows exactly the blocks
\* the client holds.
THEOREM RecordsTellTheHeap == Spec => []ReaderAgrees
<1>1. HeapInv => ReaderAgrees
  BY DEF HeapInv, OneTable, ReaderAgrees
<1> QED BY <1>1, HeapInvariant, PTL

\* block_table has exactly one node for every block the client holds.
THEOREM TableIsTheHeap == Spec => []TableAgrees
<1>1. HeapInv => TableAgrees
  <2> SUFFICES ASSUME HeapInv PROVE TableAgrees
    OBVIOUS
  <2>1. \A n \in block_table : BlockOf(n).id = n.id
    BY DEF BlockOf, Block
  <2>2. \A b \in held : \E n \in block_table : n.id = b.id
    BY <2>1 DEF HeapInv, OneTable
  <2>3. \A n \in block_table : Block(n.id, n.key, n.szB) \in held
    BY DEF HeapInv, OneTable, BlockOf
  <2> QED BY <2>2, <2>3 DEF HeapInv, Distinct, TableAgrees
<1> QED BY <1>1, HeapInvariant, PTL

\* What the client holds is allocated, with the size Datagrind says it has.
THEOREM HeldIsAllocated == Spec => []StillAllocated
<1>1. HeapInv => StillAllocated
  <2> SUFFICES ASSUME HeapInv, NEW n \in block_table, n.key \in Arena
               PROVE  /\ n.szB <= n.actual_szB
                      /\ [addr |-> n.key, usable |-> dg_malloc_usable_size(n.key)] \in arena
    BY DEF StillAllocated
  <2>1. \A o \in Tracked(n.key) : o = n
    BY DEF Tracked, HeapInv, Distinct
  <2>2. n \in Tracked(n.key)
    BY DEF Tracked
  <2>3. (CHOOSE o \in Tracked(n.key) : TRUE) = n
    BY <2>1, <2>2
  <2>4. dg_malloc_usable_size(n.key) = n.actual_szB
    BY <2>2, <2>3 DEF dg_malloc_usable_size
  <2> QED BY <2>4 DEF HeapInv, Chunks
<1> QED BY <1>1, HeapInvariant, PTL
=============================================================================
