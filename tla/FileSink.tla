------------------------------ MODULE FileSink ------------------------------
(***************************************************************************)
(* FileSink (src/logger_core/src/file_sink.cpp): one FILE* opened on the   *)
(* base path in append mode, a std::mutex serialising every caller, and   *)
(* the byte counter bytes_written_.  write() renders the record outside   *)
(* the lock, then under the lock calls write_line_locked, which issues    *)
(* two fwrite calls: the line, then "\n" when the line lacks one.  Each   *)
(* fwrite can fail after writing a prefix; the exception propagates to    *)
(* the caller, which goes on with its next call.                          *)
(*                                                                         *)
(* Data abstraction: a file's content is a sequence of chunks             *)
(* [m |-> what, n |-> bytes]: n bytes of message m's line, of the         *)
(* pre-existing content Old, or the newline NL.  A line is what lies      *)
(* between newline bytes.                                                 *)
(*                                                                         *)
(* The stdio buffer is not modelled: fwrite is taken to reach the file at *)
(* once, so flush() has no effect on this state (see README).             *)
(***************************************************************************)
EXTENDS Naturals, Sequences, FiniteSets, SequencesExt, TLC

CONSTANTS
  Threads,     \* caller threads
  K,           \* write() calls per thread
  LineLen,     \* LineLen[i]: bytes of the rendered line of call i
  Terminated,  \* calls whose rendered line already ends in '\n'
  Faults,      \* which I/O calls may fail: "write", "flush", "rename", "open",
               \* "list" (directory scan), "remove"
  Base,        \* the base path (model value)
  PreBase,     \* bytes in the base file before the sink is constructed
  Old, NL,     \* chunk tags: pre-existing content, the newline byte
  NoThread     \* lock is free

ASSUME /\ K \in Nat \ {0}
       /\ LineLen \in [1..K -> Nat \ {0}]
       /\ Terminated \subseteq 1..K
       /\ Faults \subseteq {"write", "flush", "rename", "open", "list", "remove"}
       /\ PreBase \in Nat

VARIABLES
  disk,     \* existing files: name -> sequence of chunks
  isOpen,   \* file_ != nullptr
  bytes,    \* bytes_written_
  lock,     \* holder of mu_, or NoThread
  pc,       \* where each thread is in its call
  cur,      \* cur[t]: calls thread t has completed
  result    \* result[m]: "none", "ok" or "err" (exception) for call m

fsVars == <<disk, isOpen, bytes, lock, pc, cur, result>>

Msgs == Threads \X (1..K)

\* The call thread t is executing (or will execute next).
CurMsg(t) == <<t, cur[t] + 1>>

Chunk == [m : Msgs \cup {Old, NL}, n : Nat]

\* Byte length of a content sequence.
Size(c) == FoldLeft(LAMBDA acc, ch : acc + ch.n, 0, c)

\* Whether a chunk ends in a newline byte: the NL chunk, pre-existing
\* content (whole lines), or the whole line of a call whose rendered line
\* was already terminated.
EndsLine(ch) ==
  \/ ch.m \in {NL, Old}
  \/ ch.m \in Msgs /\ ch.m[2] \in Terminated /\ ch.n = LineLen[ch.m[2]]

\* The messages whose whole rendered line is in content c, in file order.
MsgSeq(c) ==
  LET full == SelectSeq(c, LAMBDA ch : ch.m \in Msgs /\ ch.n = LineLen[ch.m[2]])
  IN  [i \in 1..Len(full) |-> full[i].m]

\* The lines of content c: maximal runs of chunks, each closed by a chunk
\* that ends in a newline (the last line may be unterminated).
RECURSIVE LinesOf(_)
LinesOf(c) ==
  IF c = <<>> THEN <<>>
  ELSE LET ends == {i \in DOMAIN c : EndsLine(c[i])}
           e    == IF ends = {} THEN Len(c) ELSE Min(ends)
       IN  <<SubSeq(c, 1, e)>> \o LinesOf(SubSeq(c, e + 1, Len(c)))

\* Content of the base file, empty when it does not exist.
BaseContent == IF Base \in DOMAIN disk THEN disk[Base] ELSE <<>>

\* Append a chunk to the base file (the FILE* is opened on Base).
AppendBase(ch) == disk' = [disk EXCEPT ![Base] = Append(@, ch)]

(***************************************************************************)
(* The locked helpers FileSink offers RotatingFileSink.                    *)
(***************************************************************************)
\* flush_locked can throw: it must on a null FILE*, and it may when
\* fflush (or fsync, when durable_flush_ is set) fails.  It succeeds
\* only on an open FILE*.
FlushMayThrow == ~isOpen \/ "flush" \in Faults

\* close_locked_noexcept: fclose when open, and zero the counter.
CloseLocked == isOpen' = FALSE /\ bytes' = 0

\* The files after fopen(Base, "a"), which creates Base when absent.
OpenedDisk == IF Base \in DOMAIN disk THEN disk ELSE disk @@ (Base :> <<>>)

\* open_locked_or_throw, successful: the FILE* is open on Base and the
\* counter is seeded with the file's size.
OpenLocked ==
  /\ disk' = OpenedDisk
  /\ isOpen' = TRUE
  /\ bytes' = Size(OpenedDisk[Base])

(***************************************************************************)
(* A call ends: the lock_guard releases mu_ and the thread moves on to its *)
(* next call.  r is "ok" on return and "err" when an exception escapes.    *)
(***************************************************************************)
Finish(t, r) ==
  /\ lock' = NoThread
  /\ pc' = [pc EXCEPT ![t] = "idle"]
  /\ cur' = [cur EXCEPT ![t] = @ + 1]
  /\ result' = [result EXCEPT ![CurMsg(t)] = r]

(***************************************************************************)
(* FileSink constructor: path_ is Base, open_or_throw() opens it with      *)
(* fopen(path, "a") (creating it if absent) and seeds bytes_written_ from  *)
(* its size.  A failing constructor yields no sink, so is not a state.     *)
(***************************************************************************)
InitDisk == Base :> IF PreBase = 0 THEN <<>> ELSE <<[m |-> Old, n |-> PreBase]>>

Init ==
  /\ disk = InitDisk
  /\ isOpen = TRUE
  /\ bytes = PreBase
  /\ lock = NoThread
  /\ pc = [t \in Threads |-> "idle"]
  /\ cur = [t \in Threads |-> 0]
  /\ result = [m \in Msgs |-> "none"]

(***************************************************************************)
(* FileSink::write: take the mutex, then write_line_locked.                *)
(***************************************************************************)
Write(t) ==
  /\ pc[t] = "idle" /\ cur[t] < K
  /\ lock = NoThread
  /\ lock' = t
  /\ pc' = [pc EXCEPT ![t] = "write_line"]
  /\ UNCHANGED <<disk, isOpen, bytes, cur, result>>

\* Mutant: the short count of fwrite is not checked.
WriteLine_IgnoreShort(t) ==
  LET m   == CurMsg(t)
      len == LineLen[m[2]]
  IN  /\ pc[t] = "write_line"
      /\ \E k \in IF "write" \in Faults THEN 1..len ELSE {len} :
           AppendBase([m |-> m, n |-> k])
      /\ bytes' = bytes + len
      /\ IF m[2] \in Terminated THEN Finish(t, "ok")
         ELSE pc' = [pc EXCEPT ![t] = "write_nl"] /\ UNCHANGED <<lock, cur, result>>
      /\ UNCHANGED isOpen

\* Mutant: a failed fwrite throws without releasing the mutex.
WriteLine_LeakLock(t) ==
  LET m   == CurMsg(t)
      len == LineLen[m[2]]
  IN  /\ pc[t] = "write_line" /\ isOpen
      /\ \/ /\ "write" \in Faults
            /\ pc' = [pc EXCEPT ![t] = "idle"]
            /\ cur' = [cur EXCEPT ![t] = @ + 1]
            /\ result' = [result EXCEPT ![m] = "err"]
            /\ UNCHANGED <<disk, isOpen, bytes, lock>>
         \/ /\ AppendBase([m |-> m, n |-> len])
            /\ bytes' = bytes + len
            /\ IF m[2] \in Terminated THEN Finish(t, "ok")
               ELSE pc' = [pc EXCEPT ![t] = "write_nl"] /\ UNCHANGED <<lock, cur, result>>
            /\ UNCHANGED isOpen

(***************************************************************************)
(* write_line_locked, first fwrite: the line itself.  A null FILE* throws; *)
(* a short fwrite throws after a prefix reached the file, without counting *)
(* it in bytes_written_.  On success the counter grows by the line length, *)
(* and the call returns unless the line needs its newline.                 *)
(***************************************************************************)
WriteLine(t) ==
  LET m   == CurMsg(t)
      len == LineLen[m[2]]
  IN
  /\ pc[t] = "write_line"
  /\ \/ /\ ~isOpen
        /\ Finish(t, "err")
        /\ UNCHANGED <<disk, isOpen, bytes>>
     \/ /\ isOpen /\ "write" \in Faults
        /\ \E k \in 0..(len - 1) :
             IF k = 0 THEN UNCHANGED disk ELSE AppendBase([m |-> m, n |-> k])
        /\ Finish(t, "err")
        /\ UNCHANGED <<isOpen, bytes>>
     \/ /\ isOpen
        /\ AppendBase([m |-> m, n |-> len])
        /\ bytes' = bytes + len
        /\ IF m[2] \in Terminated
             THEN Finish(t, "ok")
             ELSE /\ pc' = [pc EXCEPT ![t] = "write_nl"]
                  /\ UNCHANGED <<lock, cur, result>>
        /\ UNCHANGED isOpen

\* Mutant: the newline byte is not added to bytes_written_.
WriteNL_Uncounted(t) ==
  /\ pc[t] = "write_nl"
  /\ AppendBase([m |-> NL, n |-> 1])
  /\ Finish(t, "ok")
  /\ UNCHANGED <<isOpen, bytes>>

(***************************************************************************)
(* write_line_locked, second fwrite: the single "\n" byte.                 *)
(***************************************************************************)
WriteNL(t) ==
  /\ pc[t] = "write_nl"
  /\ \/ /\ "write" \in Faults
        /\ Finish(t, "err")
        /\ UNCHANGED <<disk, bytes>>
     \/ /\ AppendBase([m |-> NL, n |-> 1])
        /\ bytes' = bytes + 1
        /\ Finish(t, "ok")
  /\ UNCHANGED isOpen

\* Every thread has returned from all of its calls.
AllDone == \A t \in Threads : pc[t] = "idle" /\ cur[t] = K

Next ==
  \/ \E t \in Threads : Write(t) \/ WriteLine(t) \/ WriteNL(t)
  \/ AllDone /\ UNCHANGED fsVars

Spec == Init /\ [][Next]_fsVars /\ \A t \in Threads : WF_fsVars(Write(t) \/ WriteLine(t) \/ WriteNL(t))

-----------------------------------------------------------------------------
\* The calls that failed without their whole line reaching the file.
FailedCalls(view) == {m \in Msgs : result[m] = "err"} \ Range(view)

\* The file the sink writes to holds one sequence of messages in mutex
\* order, each thread's in call order, none doubled, and every call whose
\* line is missing reported an error: FileSink::write refines AppendLog.
AL == INSTANCE AppendLog WITH log <- MsgSeq(BaseContent),
                              failed <- FailedCalls(MsgSeq(BaseContent))
AppendLogSpec == AL!Spec

\* A call that returned normally has its whole line in the file.
OkCallsLogged == \A m \in Msgs : result[m] = "ok" => m \in Range(MsgSeq(BaseContent))

\* Every call eventually returns to its caller, normally or with an
\* exception: mu_ is released on every path, so no thread waits forever.
AllCallsReturn == <>AllDone

\* Spec section 3: bytes_written_ equals the byte length of the open file.
\* write_line_locked counts only what a successful fwrite wrote.
CounterMatchesFile == isOpen => bytes = Size(BaseContent)

\* Every line of the file holds at most one message: the sink never
\* commits part of a line and lets the next call continue it (spec
\* section 9, "never partially commit a line").
LinesHoldOneMessage ==
  \A f \in DOMAIN disk :
    \A l \in Range(LinesOf(disk[f])) :
      Cardinality({l[i].m : i \in DOMAIN l} \cap Msgs) <= 1
=============================================================================
