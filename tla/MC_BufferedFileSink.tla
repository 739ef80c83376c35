------------------------- MODULE MC_BufferedFileSink -------------------------
(***************************************************************************)
(* Model of the buffered FileSink for TLC: call 1's line needs a newline,  *)
(* call 2's already has one.                                               *)
(***************************************************************************)
EXTENDS BufferedFileSink

MCLineLen == SubSeq(<<2, 3, 1>>, 1, K)
MCTerminated == {2}
NoFaults == {}
FlushFaults == {"flush"}
=============================================================================
