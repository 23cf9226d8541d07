----------------------------- MODULE MCDgOutput -----------------------------
(* Small instances of DgOutput for TLC.                                    *)
EXTENDS DgOutput

CONSTANTS p1, p2

OneProc  == {p1}
TwoProcs == {p1, p2}

Rec(kind, n, m) == [kind |-> kind, n |-> n, m |-> m]

\* With words of 8 bytes: the lengths just below and above the escape (BBRUN and
\* CONTEXT 249 and 257, BBDEF 252 and 255, TEXT_AVMA 254 and 255), stacks with more
\* ips than are kept, empty and overlong labels; every kind of record.
AroundEscape ==
  {Rec("BBRUN", n, 0) : n \in {0, 30, 31}}
    \cup {Rec("CONTEXT", n, 0) : n \in {1, 30, 31, 34}}
    \cup {Rec("BBDEF", 20, m) : m \in {21, 22}}
    \cup {Rec("TEXT_AVMA", n, 0) : n \in {1, 245, 246}}
    \cup {Rec("MALLOC_BLOCK", n, 0) : n \in {1, 9}}
    \cup {Rec("TRACK_RANGE", 0, 65), Rec("TRACK_RANGE", 300, 64)}
    \cup {Rec("START_EVENT", 70, 0), Rec("END_EVENT", 0, 0)}
    \cup {Rec("FREE_BLOCK", 0, 0), Rec("UNTRACK_RANGE", 0, 0)}

\* With words of 2 bytes and a buffer of 7 bytes: fields of 1, 2 and 6 bytes that meet
\* the buffer at every fill.
MixedWidths == {Rec("BBRUN", 0, 0), Rec("FREE_BLOCK", 0, 0), Rec("TEXT_AVMA", 6, 0)}
=============================================================================
