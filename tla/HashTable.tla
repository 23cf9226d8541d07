----------------------------- MODULE HashTable -----------------------------
(***************************************************************************)
(* coregrind/m_hashtable.c, which keeps Datagrind's dgsbs, context_indices *)
(* debuginfo_table and block_table: separate chaining, new nodes at the    *)
(* head of their chain, and a table that grows to the next prime when it   *)
(* holds more nodes than chains.  Growing rehashes every chain node by     *)
(* node and so turns the order of equal keys around.  A table has one      *)
(* iterator, which survives the removal of the node it is at and no other  *)
(* change: the assertions on iterOK are guards, on calls no user makes.    *)
(***************************************************************************)
EXTENDS Integers, Sequences, SequencesExt

CONSTANTS Nodes,   \* the nodes, records [id, key]
          Primes   \* the chain counts, increasing

ASSUME HashTableAssumption ==
  /\ Primes \in Seq(Nat \ {0}) /\ Primes # <<>>
  /\ \A i, j \in DOMAIN Primes : i < j => Primes[i] + 1 < Primes[j]
  /\ \A n \in Nodes : n.key \in Nat

VARIABLES
  n_chains, n_elements, chains,
  iterNode,   \* the node the iterator is at; no node stands for NULL
  iterChain,  \* the next chain it goes to
  iterOK,     \* nothing but the iterator has changed the table since it started
  due         \* ghost: the nodes the iteration has still to return

iterVars == <<iterNode, iterChain, iterOK, due>>
vars == <<n_chains, n_elements, chains, iterVars>>

CHAIN_NO(key, size) == key % size

HT_construct ==
  /\ n_chains = Primes[1]
  /\ n_elements = 0
  /\ chains = [c \in 0 .. Primes[1] - 1 |-> <<>>]
  /\ iterNode = {} /\ iterChain = 0 /\ iterOK = TRUE /\ due = {}

\* Other changes than HT_remove_at_Iter make the iterator unusable.
IterSpoilt == iterOK' = FALSE /\ UNCHANGED <<iterNode, iterChain, due>>

\* The first prime above n_chains + 1, as the code looks for it.
NextPrime == Primes[CHOOSE i \in DOMAIN Primes :
                      /\ Primes[i] > n_chains + 1
                      /\ \A j \in 1 .. i - 1 : Primes[j] <= n_chains + 1]

\* Mutant: the nodes stay in the chains they were in.
RehashedInPlace(cs, size) == [c \in 0 .. size - 1 |->
                               IF c \in DOMAIN cs THEN cs[c] ELSE <<>>]

\* The chains after resize: the nodes of the chains cs, taken one by one from
\* the first chain to the last, are put in front of their new chains.
Rehashed(cs, size) ==
  LET all == FlattenSeq([i \in 1 .. n_chains |-> cs[i - 1]])
      moved[k \in 0 .. Len(all)] ==
        IF k = 0 THEN [c \in 0 .. size - 1 |-> <<>>]
        ELSE [moved[k - 1] EXCEPT ![CHAIN_NO(all[k].key, size)] = <<all[k]>> \o @]
  IN moved[Len(all)]

\* Mutant: a node with the key that is there already is replaced.
HT_add_nodeReplacing(n) ==
  LET c == CHAIN_NO(n.key, n_chains)
      others == SelectSeq(chains[c], LAMBDA m : m.key # n.key)
  IN /\ chains' = [chains EXCEPT ![c] = <<n>> \o others]
     /\ n_elements' = n_elements + 1 + Len(others) - Len(chains[c])
     /\ UNCHANGED n_chains
     /\ IterSpoilt

\* HT_add_node and, in it, resize.
HT_add_node(n) ==
  LET c  == CHAIN_NO(n.key, n_chains)
      cs == [chains EXCEPT ![c] = <<n>> \o @]
  IN /\ n_elements' = n_elements + 1
     /\ IF n_elements + 1 > n_chains /\ n_chains # Primes[Len(Primes)]
          THEN n_chains' = NextPrime /\ chains' = Rehashed(cs, NextPrime)
          ELSE n_chains' = n_chains /\ chains' = cs
     /\ IterSpoilt

\* The place of the first node with the key that passes the test in its chain, 0 if
\* there is none.
First(key, Same(_)) ==
  SelectInSeq(chains[CHAIN_NO(key, n_chains)], LAMBDA n : n.key = key /\ Same(n))

\* The node found; no node stands for NULL.
Found(key, Same(_)) ==
  {chains[CHAIN_NO(key, n_chains)][i] : i \in {First(key, Same)} \ {0}}

HT_lookup(key) == Found(key, LAMBDA m : TRUE)

HT_gen_lookup(n) == Found(n.key, LAMBDA m : m = n)

\* Mutant: everything in front of the node goes with it.
UnlinkUpTo(key, i) ==
  /\ chains' = [chains EXCEPT ![CHAIN_NO(key, n_chains)] = SubSeq(@, i + 1, Len(@))]
  /\ n_elements' = n_elements - 1
  /\ UNCHANGED n_chains

\* The i-th node of the key's chain is taken out.
Unlink(key, i) ==
  /\ chains' = [chains EXCEPT ![CHAIN_NO(key, n_chains)] = RemoveAt(@, i)]
  /\ n_elements' = n_elements - 1
  /\ UNCHANGED n_chains

UnlinkFound(key, i) ==
  /\ IF i = 0 THEN UNCHANGED <<n_chains, n_elements, chains>> ELSE Unlink(key, i)
  /\ IterSpoilt

HT_remove(key) == UnlinkFound(key, First(key, LAMBDA m : TRUE))

HT_gen_remove(n) == UnlinkFound(n.key, First(n.key, LAMBDA m : m = n))

\* The nodes in the order of the chains.
HT_to_array == FlattenSeq([i \in 1 .. n_chains |-> chains[i - 1]])

NodesIn == ToSet(HT_to_array)

HT_ResetIter ==
  /\ iterNode' = {} /\ iterChain' = 0 /\ iterOK' = TRUE
  /\ due' = NodesIn
  /\ UNCHANGED <<n_chains, n_elements, chains>>

\* The place of a node in its chain.
Place(n) == SelectInSeq(chains[CHAIN_NO(n.key, n_chains)], LAMBDA m : m = n)

\* The node behind the iterator's in its chain, if it is at one.
Behind == LET chain(n) == chains[CHAIN_NO(n.key, n_chains)]
          IN {chain(n)[Place(n) + 1] :
                n \in {m \in iterNode : Place(m) < Len(chain(m))}}

\* The chain HT_Next goes on to when there is no such node.
NextChain == {c \in iterChain .. n_chains - 1 :
                /\ chains[c] # <<>>
                /\ \A d \in iterChain .. c - 1 : chains[d] = <<>>}

\* What HT_Next returns; no node stands for NULL.
NextNode == IF Behind # {} THEN Behind ELSE {Head(chains[c]) : c \in NextChain}

HT_Next ==
  /\ iterOK
  /\ iterNode' = IF NextNode = {} THEN iterNode ELSE NextNode
  /\ iterChain' = IF Behind # {} \/ NextChain = {} THEN iterChain
                  ELSE (CHOOSE c \in NextChain : TRUE) + 1
  /\ due' = due \ NextNode
  /\ UNCHANGED <<n_chains, n_elements, chains, iterOK>>

\* Mutant: the iterator does not go back to the chain whose head is removed.
SteppedBackInChain(n) ==
  IF Place(n) = 1
    THEN iterNode' = {} /\ UNCHANGED iterChain
    ELSE /\ iterNode' = {chains[iterChain - 1][Place(n) - 1]}
         /\ UNCHANGED iterChain

\* The iterator goes to the node before n, or, n being the first of its chain, to
\* where it will find the new first one.
SteppedBack(n) ==
  IF Place(n) = 1
    THEN iterNode' = {} /\ iterChain' = iterChain - 1
    ELSE /\ iterNode' = {chains[iterChain - 1][Place(n) - 1]}
         /\ UNCHANGED iterChain

\* HT_remove_at_Iter; a second call in a row takes out the node before, if there is one.
HT_remove_at_Iter ==
  /\ iterOK
  /\ \E n \in iterNode : Unlink(n.key, Place(n)) /\ SteppedBack(n)
  /\ UNCHANGED <<iterOK, due>>

\* HT_destruct frees the nodes and the table; another table is constructed.
HT_destruct ==
  /\ n_chains' = Primes[1] /\ n_elements' = 0
  /\ chains' = [c \in 0 .. Primes[1] - 1 |-> <<>>]
  /\ iterNode' = {} /\ iterChain' = 0 /\ iterOK' = TRUE /\ due' = {}

Next == \/ \E n \in Nodes \ NodesIn : HT_add_node(n)
        \/ \E n \in Nodes : HT_remove(n.key) \/ HT_gen_remove(n)
        \/ HT_ResetIter \/ HT_Next \/ HT_remove_at_Iter
        \/ HT_destruct

Spec == HT_construct /\ [][Next]_vars

-----------------------------------------------------------------------------

\* A look-up, by key or by node, finds one exactly when it was added and not yet
\* removed, wherever growing the table has put it.
LookupComplete ==
  \A n \in Nodes :
    /\ {m.key : m \in HT_lookup(n.key)} = {m.key : m \in NodesIn} \cap {n.key}
    /\ HT_gen_lookup(n) = NodesIn \cap {n}

\* n_elements, which decides when the table grows and how large the array of
\* HT_to_array is, counts the nodes; no node is in two places.
CountIsExact == n_elements = Len(HT_to_array) /\ IsInjective(HT_to_array)

\* Every node that was in the table when HT_ResetIter was called is returned by
\* HT_Next exactly once, before it returns NULL, whichever nodes HT_remove_at_Iter
\* takes out on the way.
IterationExact ==
  iterOK => IF NextNode = {} THEN due = {} ELSE NextNode \subseteq due

\* The hash table is a Multimap.
Table == INSTANCE Multimap WITH nodes <- NodesIn
MultimapSpec == Table!Spec
=============================================================================
