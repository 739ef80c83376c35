----------------------------- MODULE AppendLog -----------------------------
(***************************************************************************)
(* Abstract specification of what a file sink promises its callers: the   *)
(* log is one append-only sequence of lines; each write() call either     *)
(* adds its message to the log exactly once or fails visibly (an error to *)
(* the caller, spec section 4.2); each thread's messages appear in the    *)
(* order the thread wrote them.  Different threads' messages interleave   *)
(* in any order (the order in which they take the sink's mutex).          *)
(***************************************************************************)
EXTENDS Naturals, Sequences, FiniteSets

CONSTANTS Threads,   \* the caller threads
          K          \* number of write() calls each thread makes

VARIABLES log,       \* the sequence of logged messages, <<thread, index>>
          failed     \* the calls that failed without logging their message

Msgs == Threads \X (1..K)

\* Number of t's calls already decided: logged or failed.
Decided(t) ==
  Cardinality({i \in DOMAIN log : log[i][1] = t}) + Cardinality({m \in failed : m[1] = t})

Init == log = <<>> /\ failed = {}

\* Thread t's next call logs its message.
Append1(t) ==
  /\ Decided(t) < K
  /\ log' = Append(log, <<t, Decided(t) + 1>>)
  /\ UNCHANGED failed

\* Thread t's next call fails and logs nothing.
Fail(t) ==
  /\ Decided(t) < K
  /\ failed' = failed \cup {<<t, Decided(t) + 1>>}
  /\ UNCHANGED log

Next == \E t \in Threads : Append1(t) \/ Fail(t)

Spec == Init /\ [][Next]_<<log, failed>>
=============================================================================
