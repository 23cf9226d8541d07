----------------------------- MODULE MCDgBlocks -----------------------------
(* Small instances of DgBlocks for TLC.                                    *)
EXTENDS DgBlocks, TLC

CONSTANTS k1, k2, a1, a2, s1, s2

TwoKeys   == {k1, k2}
TwoAddrs  == {a1, a2}
TwoStacks == {s1, s2}
OneKey    == {k1}
ReadAndUpdate == {<<"R">>, <<"R", "W">>}
Update == {<<"R", "W">>}
Read == {<<"R">>}
OneStack  == {s1}

\* Keys, data addresses and stacks are only compared for equality.
Interchangeable == Permutations(Keys) \cup Permutations(Addrs)
                     \cup Permutations(Stacks)
=============================================================================
