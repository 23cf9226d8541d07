---------------------------- MODULE MCHashTable ----------------------------
(* A small instance of HashTable for TLC.                                  *)
EXTENDS HashTable

\* Two nodes have the key 1 and three more meet it in the chains of 2 or 5.
SixNodes == {[id |-> 1, key |-> 1], [id |-> 2, key |-> 1], [id |-> 3, key |-> 3],
             [id |-> 4, key |-> 6], [id |-> 5, key |-> 11], [id |-> 6, key |-> 2]}
SmallPrimes == <<2, 5>>
=============================================================================
