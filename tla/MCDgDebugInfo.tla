--------------------------- MODULE MCDgDebugInfo ---------------------------
(* A small instance of DgDebugInfo for TLC.                                *)
EXTENDS DgDebugInfo, TLC

CONSTANTS f1, f2, f3, b1, b2, p1, p2, p3

ThreeFiles == {f1, f2, f3}
TwoBases   == {b1, b2}
ThreePtrs  == {p1, p2, p3}

\* Files, base addresses and DebugInfo addresses are only compared for equality.
Interchangeable == Permutations(Files) \cup Permutations(Bases) \cup Permutations(Ptrs)
=============================================================================
