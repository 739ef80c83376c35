-------------------------- MODULE RotatingFileSink --------------------------
(***************************************************************************)
(* RotatingFileSink (src/logger_core/src/rotating_file_sink.cpp) on top of *)
(* FileSink's locked helpers, all under FileSink's one mutex.  write()     *)
(* computes the projected size; when it reaches max_bytes the call first   *)
(* rotates: flush, close, pick <base>.<timestamp>[.<seq>], rename the base *)
(* file to it, reopen the base file, count the rotation, prune the oldest  *)
(* rotated files beyond max_rotated_files.  Every step of a rotation may   *)
(* throw; the exception leaves the call (and releases the mutex) from that *)
(* point on, and the thread goes on with its next call.                    *)
(*                                                                         *)
(* A rotated file name <base>.<YYYYMMDD_HHMMSS>[.<seq>] is the record      *)
(* [ts |-> s, seq |-> q]: s is the UTC second it was taken at (the fixed-  *)
(* width timestamp orders as the seconds do) and q is 0 when there is no   *)
(* .<seq> suffix, as parse_rotation_suffix returns it.                     *)
(***************************************************************************)
EXTENDS FileSink

CONSTANTS
  MaxBytes,     \* max_bytes_ (> 0, checked by the constructor)
  MaxRotated,   \* max_rotated_files_ (0 = unlimited)
  SeqLimit,     \* the probe's bound on .<seq> (10000 in the code)
  MaxTime,      \* last UTC second the model's clock reaches
  PreRotated,   \* rotated files left on disk by an earlier run
  ClockStepsBack, \* whether system_clock may be set back (NTP, operator)
  NoName        \* no free rotated name

ASSUME /\ MaxBytes \in Nat \ {0}
       /\ MaxRotated \in Nat
       /\ SeqLimit \in Nat \ {0}
       /\ MaxTime \in Nat
       /\ ClockStepsBack \in BOOLEAN

RotName == [ts : 0..MaxTime, seq : 0..(SeqLimit - 1)]

ASSUME PreRotated \subseteq RotName

VARIABLES
  now,          \* system_clock, in whole seconds
  rotations,    \* rotations_performed_
  history       \* names given to rotated files, in rotation order (history variable)

vars == <<fsVars, now, rotations, history>>

\* The sort order of the pruner's candidates: timestamp, then sequence.
Older(a, b) == a.ts < b.ts \/ (a.ts = b.ts /\ a.seq < b.seq)

\* The rotated files on disk (every name but Base parses as rotated).
Rotated == DOMAIN disk \ {Base}

\* The mutex is held by a thread inside write().
Busy == lock # NoThread

(***************************************************************************)
(* Constructor: FileSink's, plus the rotated files already on disk.        *)
(***************************************************************************)
RInit ==
  /\ disk = InitDisk @@ [f \in PreRotated |-> <<[m |-> Old, n |-> 1]>>]
  /\ isOpen = TRUE
  /\ bytes = PreBase
  /\ lock = NoThread
  /\ pc = [t \in Threads |-> "idle"]
  /\ cur = [t \in Threads |-> 0]
  /\ result = [m \in Msgs |-> "none"]
  /\ now = 0
  /\ rotations = 0
  /\ history = <<>>

RWrite_PruneAlways(t) ==
  LET i         == cur[t] + 1
      projected == bytes + LineLen[i] + (IF i \in Terminated THEN 0 ELSE 1)
  IN  /\ pc[t] = "idle" /\ cur[t] < K /\ lock = NoThread
      /\ lock' = t
      /\ pc' = [pc EXCEPT ![t] = IF projected >= MaxBytes THEN "rotate" ELSE "prune"]
      /\ UNCHANGED <<disk, isOpen, bytes, cur, result, now, rotations, history>>

\* Mutant: write() does not take the mutex (a missing lock_guard).
RWrite_NoLock(t) ==
  LET i         == cur[t] + 1
      projected == bytes + LineLen[i] + (IF i \in Terminated THEN 0 ELSE 1)
  IN  /\ pc[t] = "idle" /\ cur[t] < K
      /\ lock' = t
      /\ pc' = [pc EXCEPT ![t] = IF projected >= MaxBytes THEN "rotate" ELSE "write_line"]
      /\ UNCHANGED <<disk, isOpen, bytes, cur, result, now, rotations, history>>

RWrite(t) ==
  LET i         == cur[t] + 1
      projected == bytes + LineLen[i] + (IF i \in Terminated THEN 0 ELSE 1)
  IN
  /\ pc[t] = "idle" /\ cur[t] < K
  /\ lock = NoThread
  /\ lock' = t
  /\ pc' = [pc EXCEPT ![t] = IF projected >= MaxBytes THEN "rotate" ELSE "write_line"]
  /\ UNCHANGED <<disk, isOpen, bytes, cur, result, now, rotations, history>>

(***************************************************************************)
(* rotate_locked: flush_locked (throws on a null FILE* or a failing        *)
(* fflush/fsync), then close_locked_noexcept, which also zeroes the        *)
(* counter.                                                                 *)
(***************************************************************************)
RotFlushClose(t) ==
  /\ pc[t] = "rotate"
  /\ \/ /\ FlushMayThrow
        /\ Finish(t, "err")
        /\ UNCHANGED <<isOpen, bytes>>
     \/ /\ isOpen
        /\ CloseLocked
        /\ pc' = [pc EXCEPT ![t] = "rename"]
        /\ UNCHANGED <<lock, cur, result>>
  /\ UNCHANGED <<disk, now, rotations, history>>

(***************************************************************************)
(* The name rotate_locked picks at second ts: <base>.<ts> when free, else  *)
(* the first free <base>.<ts>.<seq> for seq in 1..SeqLimit-1, else none.   *)
(***************************************************************************)
\* Mutant: the probe runs seq up to and including its bound.
RotatedName_OffByOne(ts) ==
  LET free == {q \in 1..SeqLimit : [ts |-> ts, seq |-> q] \notin DOMAIN disk}
  IN  IF [ts |-> ts, seq |-> 0] \notin DOMAIN disk THEN [ts |-> ts, seq |-> 0]
      ELSE IF free = {} THEN NoName
      ELSE [ts |-> ts, seq |-> Min(free)]

\* Mutant: no uniqueness probe; rename() may replace an existing file.
RotatedName_NoProbe(ts) == [ts |-> ts, seq |-> 0]

\* file_exists: fs::exists on the name (an error reads as absent).
FileExists(f) == f \in DOMAIN disk

RotatedName(ts) ==
  LET free == {q \in 1..(SeqLimit - 1) : ~FileExists([ts |-> ts, seq |-> q])}
  IN  IF ~FileExists([ts |-> ts, seq |-> 0]) THEN [ts |-> ts, seq |-> 0]
      ELSE IF free = {} THEN NoName
      ELSE [ts |-> ts, seq |-> Min(free)]

(***************************************************************************)
(* make_timestamp_utc, the uniqueness probe and rename_or_throw.  Both a   *)
(* failed probe and a failed rename throw with the sink already closed.    *)
(***************************************************************************)
\* Mutant: the naming-exhaustion error leaves without releasing the mutex.
RotRename_LeakLock(t) ==
  LET name == RotatedName(now)
  IN  /\ pc[t] = "rename"
      /\ \/ /\ name = NoName
            /\ pc' = [pc EXCEPT ![t] = "idle"]
            /\ cur' = [cur EXCEPT ![t] = @ + 1]
            /\ result' = [result EXCEPT ![CurMsg(t)] = "err"]
            /\ UNCHANGED <<disk, history, lock>>
         \/ /\ name # NoName /\ Base \in DOMAIN disk
            /\ disk' = [f \in (DOMAIN disk \ {Base}) \cup {name} |->
                          IF f = name THEN disk[Base] ELSE disk[f]]
            /\ history' = Append(history, name)
            /\ pc' = [pc EXCEPT ![t] = "reopen"]
            /\ UNCHANGED <<lock, cur, result>>
      /\ UNCHANGED <<isOpen, bytes, now, rotations>>

RotRename(t) ==
  LET name == RotatedName(now)
  IN
  /\ pc[t] = "rename"
  /\ \/ /\ name = NoName
        /\ Finish(t, "err")
        /\ UNCHANGED <<disk, history>>
     \/ /\ name # NoName /\ "rename" \in Faults
        /\ Finish(t, "err")
        /\ UNCHANGED <<disk, history>>
     \/ /\ name # NoName /\ Base \in DOMAIN disk
        /\ disk' = [f \in (DOMAIN disk \ {Base}) \cup {name} |->
                      IF f = name THEN disk[Base] ELSE disk[f]]
        /\ history' = Append(history, name)
        /\ pc' = [pc EXCEPT ![t] = "reopen"]
        /\ UNCHANGED <<lock, cur, result>>
  /\ UNCHANGED <<isOpen, bytes, now, rotations>>

(***************************************************************************)
(* reopen_locked(base_path_): close (a no-op, already closed), then        *)
(* fopen(base, "a"), which creates the file, and reseed the counter from   *)
(* its size; then ++rotations_performed_.  A failing fopen throws and      *)
(* leaves the sink closed.                                                 *)
(***************************************************************************)
RotReopen(t) ==
  /\ pc[t] = "reopen"
  /\ \/ /\ "open" \in Faults
        /\ Finish(t, "err")
        /\ UNCHANGED <<disk, isOpen, bytes, rotations>>
     \/ /\ OpenLocked
        /\ rotations' = rotations + 1
        /\ pc' = [pc EXCEPT ![t] = "prune"]
        /\ UNCHANGED <<lock, cur, result>>
  /\ UNCHANGED <<now, history>>

(***************************************************************************)
(* prune_old_rotations_locked: when a limit is set and more rotated files  *)
(* exist than it allows, remove the oldest (by timestamp, then sequence)   *)
(* beyond the limit.  A failing remove is ignored.  Then write the line.   *)
(***************************************************************************)
\* The k oldest members of a set of rotated names.
\* Mutant: one file fewer than the excess is removed.
OldestOf_OffByOne(S, k) == {c \in S : Cardinality({d \in S : Older(d, c)}) < k - 1}

\* Mutant: one file more than the excess is removed.
OldestOf_OneMore(S, k) == {c \in S : Cardinality({d \in S : Older(d, c)}) < k + 1}

OldestOf(S, k) == {c \in S : Cardinality({d \in S : Older(d, c)}) < k}

Prune(t) ==
  /\ pc[t] = "prune"
  /\ \/ /\ MaxRotated = 0
        /\ UNCHANGED disk
     \/ /\ MaxRotated > 0
        \* The directory scan: a failing directory_iterator ends it early
        \* (or throws out of the try block), leaving any subset listed.
        /\ \E listed \in IF "list" \in Faults THEN SUBSET Rotated ELSE {Rotated} :
             LET doomed == OldestOf(listed, Cardinality(listed) - MaxRotated)
             IN  \/ /\ Cardinality(listed) <= MaxRotated
                    /\ UNCHANGED disk
                 \/ /\ Cardinality(listed) > MaxRotated
                    /\ \E removed \in IF "remove" \in Faults THEN SUBSET doomed ELSE {doomed} :
                         disk' = [f \in DOMAIN disk \ removed |-> disk[f]]
  /\ pc' = [pc EXCEPT ![t] = "write_line"]
  /\ UNCHANGED <<isOpen, bytes, lock, cur, result, now, rotations, history>>

\* system_clock moves to another second: forward, or back when it may be
\* set back.
Tick ==
  /\ \E next \in 0..MaxTime :
       /\ next > now \/ (ClockStepsBack /\ next < now)
       /\ now' = next
  /\ UNCHANGED <<fsVars, rotations, history>>

\* A thread's steps inside RotatingFileSink::write.
Step(t) ==
  \/ RWrite(t) \/ RotFlushClose(t) \/ RotRename(t) \/ RotReopen(t) \/ Prune(t)
  \/ (WriteLine(t) \/ WriteNL(t)) /\ UNCHANGED <<now, rotations, history>>

RNext ==
  \/ \E t \in Threads : Step(t)
  \/ Tick
  \/ AllDone /\ UNCHANGED vars

RSpec == RInit /\ [][RNext]_vars /\ \A t \in Threads : WF_vars(Step(t))

-----------------------------------------------------------------------------
RTypeOK ==
  /\ DOMAIN disk \subseteq RotName \cup {Base}
  /\ \A f \in DOMAIN disk : disk[f] \in Seq(Chunk)
  /\ isOpen \in BOOLEAN
  /\ bytes \in Nat
  /\ lock \in Threads \cup {NoThread}
  /\ pc \in [Threads -> {"idle", "rotate", "rename", "reopen", "prune", "write_line", "write_nl"}]
  /\ cur \in [Threads -> 0..K]
  /\ result \in [Msgs -> {"none", "ok", "err"}]
  /\ now \in 0..MaxTime
  /\ rotations \in Nat
  /\ history \in Seq(RotName)

\* The whole log as a reader sees it: the rotated files in the pruner's
\* (timestamp, sequence) order, then the base file.
LogView ==
  LET rank(c) == Cardinality({d \in Rotated : Older(d, c)})
      order    == [i \in 1..Cardinality(Rotated) |-> CHOOSE c \in Rotated : rank(c) = i - 1]
  IN  FlattenSeq([i \in DOMAIN order |-> MsgSeq(disk[order[i]])]) \o MsgSeq(BaseContent)

\* Spec section 8: across the base file and all rotated files every message
\* appears exactly once, in mutex order, each thread's in call order, or its
\* call failed visibly; rotation neither loses nor duplicates nor reorders
\* lines (no retention limit: pruning deletes by design).
RAL == INSTANCE AppendLog WITH log <- LogView, failed <- FailedCalls(LogView)
RAppendLogSpec == RAL!Spec

RetentionBound ==
  rotations > 0 /\ ~Busy =>
    Cardinality(Rotated) = Min({MaxRotated, Cardinality(PreRotated) + rotations})

\* Spec section 8: pruning runs only after a successful rotation, so
\* rotated files already on disk survive as long as the sink never rotates.
PreexistingKeptUntilRotation == rotations = 0 => PreRotated \subseteq DOMAIN disk

\* Spec section 8: after pruning, the rotated files kept are the most
\* recently created ones; in particular the last max_rotated_files names
\* given by rotations still exist between calls.
RetainsNewest ==
  ~Busy => \A i \in DOMAIN history :
             i > Len(history) - MaxRotated => history[i] \in DOMAIN disk

\* The max_rotated_files rotated files with the newest names.
NewestByName == {c \in Rotated : Cardinality({d \in Rotated : Older(c, d)}) < MaxRotated}

\* Spec section 4.4: pruning deletes only the oldest beyond the limit, so no
\* step ever removes one of the max_rotated_files newest-named rotated files,
\* even when the directory scan stops early and lists only some of them,
\* and when removes fail.
PruneKeepsNewest == [][\A f \in NewestByName : f \in DOMAIN disk']_vars

\* Spec section 7: a rotation that cannot find a unique name (or fails)
\* leaves the original file the active one, so between calls the sink
\* has an open file.
SinkOpenBetweenCalls == ~Busy => isOpen
=============================================================================
