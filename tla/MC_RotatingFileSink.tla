------------------------- MODULE MC_RotatingFileSink -------------------------
(***************************************************************************)
(* Model of RotatingFileSink for TLC.  Call 1's line needs a newline, call *)
(* 2's already has one; both take 3 bytes in the file.                     *)
(***************************************************************************)
EXTENDS RotatingFileSink

MCLineLen == SubSeq(<<2, 3, 2>>, 1, K)
MCTerminated == {2}
NoFaults == {}
AllFaults == {"flush", "rename", "open", "list", "remove"}
RotFaults == {"flush", "rename", "open"}
\* A rotated file an earlier run left, taken in the sink's first second.
SameSecond == {[ts |-> 0, seq |-> 0]}
\* No rotated file on disk at start.
NoOld == {}
\* Two rotated files an earlier run left.
TwoOld == {[ts |-> 0, seq |-> 0], [ts |-> 0, seq |-> 1]}
=============================================================================
