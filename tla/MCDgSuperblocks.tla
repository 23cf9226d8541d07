-------------------------- MODULE MCDgSuperblocks --------------------------
(* Small instances of DgSuperblocks for TLC.                               *)
EXTENDS DgSuperblocks, TLC

CONSTANTS k1, k2, k3

ThreeKeys == {k1, k2, k3}

\* k1 is redirected, to code that is nobody's target otherwise.
FirstRedirected == (k1 :> k3) @@ (k2 :> k2) @@ (k3 :> k3)
=============================================================================
