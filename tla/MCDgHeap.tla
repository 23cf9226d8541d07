------------------------------ MODULE MCDgHeap ------------------------------
(* Small instances of DgHeap for TLC.                                      *)
EXTENDS DgHeap, TLC

CONSTANTS a1, a2, a3, c1, c2

ThreeChunks == {a1, a2, a3}
TwoCustom   == {c1, c2}
ZeroToThree == 0..3

\* Addresses are only compared for equality.
Interchangeable == Permutations(Arena) \cup Permutations(Custom)
=============================================================================
