------------------------------ MODULE Multimap ------------------------------
(***************************************************************************)
(* What Datagrind's tables promise their users: a set of nodes, each with  *)
(* a key.  Keys need not be distinct, and it is not said which of several  *)
(* nodes with the same key a removal takes.                                *)
(***************************************************************************)
CONSTANT Nodes      \* every node there is; a node is a record with a key

VARIABLE nodes      \* the nodes in the table

Init == nodes = {}

Add(n) == n \notin nodes /\ nodes' = nodes \cup {n}

Remove(n) == n \in nodes /\ nodes' = nodes \ {n}

Clear == nodes' = {}

Next == (\E n \in Nodes : Add(n) \/ Remove(n)) \/ Clear

Spec == Init /\ [][Next]_nodes
=============================================================================
