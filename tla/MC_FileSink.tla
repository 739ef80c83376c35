---------------------------- MODULE MC_FileSink ----------------------------
(***************************************************************************)
(* Model of FileSink for TLC: two threads, two calls each; call 1's line   *)
(* needs its newline appended, call 2's line already ends in one.          *)
(***************************************************************************)
EXTENDS FileSink

MCLineLen == SubSeq(<<2, 3, 1>>, 1, K)
MCTerminated == {2}
NoFaults == {}
WriteFaults == {"write"}
=============================================================================
