------------------------------ MODULE Recorder ------------------------------
(***************************************************************************)
(* What a buffering stage of Datagrind promises.  Items happen one after   *)
(* the other; the stage reports them in the same order, each exactly as it *)
(* happened, at most Lag items late, and a stage that is closed in an      *)
(* orderly way has reported all of them.  A stage that dies loses no more  *)
(* than the last Lag items and nothing in the middle.                      *)
(*                                                                         *)
(* DgBlocks implements it with block runs as the items (out_bbr holds the  *)
(* late one), DgOutput with fields (out_buf holds the late ones).          *)
(***************************************************************************)
EXTENDS Naturals, Sequences, SequencesExt

CONSTANT Lag        \* how many items may be waiting inside the stage

VARIABLES happened, \* the items so far, in order
          reported, \* the items the stage has passed on
          status    \* "open", "closed" (orderly) or "dead"

vars == <<happened, reported, status>>

Init == /\ happened = <<>>
        /\ reported = <<>>
        /\ status = "open"

\* Items happen and waiting items are passed on.
Grow == /\ status = "open"
        /\ status' = "open"
        /\ IsPrefix(happened, happened')
        /\ IsPrefix(reported, reported')
        /\ IsPrefix(reported', happened')
        /\ Len(happened') - Len(reported') <= Lag

\* The orderly end: everything that was waiting is passed on.
Close == /\ status = "open"
         /\ status' = "closed"
         /\ happened' = happened
         /\ reported' = happened

\* The process disappears; what was waiting is lost.
Die == /\ status = "open"
       /\ status' = "dead"
       /\ UNCHANGED <<happened, reported>>

Next == Grow \/ Close \/ Die

Spec == Init /\ [][Next]_vars
=============================================================================
