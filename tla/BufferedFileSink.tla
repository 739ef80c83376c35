-------------------------- MODULE BufferedFileSink --------------------------
(***************************************************************************)
(* FileSink with the stdio buffer of its FILE* and a process crash.        *)
(*                                                                         *)
(* write_line_locked's fwrite calls only fill the stdio buffer of file_;   *)
(* the bytes reach the operating system when stdio flushes a full buffer   *)
(* (at any byte, a line may be split), when flush() calls fflush, or on    *)
(* fclose.  disk[Base] stays the content written through the FILE*, as in *)
(* FileSink; its first `flushed` chunks are the part the OS holds.  A      *)
(* process crash loses the rest; the next process constructs a new         *)
(* FileSink on the same path (open_or_throw, append mode) and its threads  *)
(* go on with their remaining calls.  Of the OS-held prefix, the first     *)
(* `synced` chunks are on stable storage: fsync (flush() with              *)
(* durable_flush_) or the OS's own write-back puts them there, and a power *)
(* loss keeps only them.  A failing fsync may leave the pages it could    *)
(* not write marked clean (Linux drops them): a later fsync does not write *)
(* them again, and after a power loss their bytes are not the lines.       *)
(***************************************************************************)
EXTENDS FileSink

CONSTANTS
  MaxCrashes,  \* process crashes and power losses in a behaviour
  Durable      \* durable_flush_: flush() also calls fsync

ASSUME MaxCrashes \in Nat /\ Durable \in BOOLEAN

VARIABLES
  flushed,   \* chunks of the base file's content handed to the OS
  crashed,   \* the process is down
  crashes,   \* crashes so far
  durable,   \* calls that returned normally before a flush() returned (history)
  synced,    \* chunks of the OS-held prefix that are clean (written back or dropped)
  dropped,   \* indices of the chunks whose write-back failed and was dropped
  exposed,   \* lines pending write-back when an fsync failed (history)
  destroyed  \* the sink's destructor has run

bVars == <<fsVars, flushed, crashed, crashes, durable, synced, dropped, exposed, destroyed>>

BInit ==
  /\ Init
  /\ flushed = Len(InitDisk[Base])
  /\ crashed = FALSE
  /\ crashes = 0
  /\ durable = {}
  /\ synced = Len(InitDisk[Base])
  /\ dropped = {} /\ exposed = {}
  /\ destroyed = FALSE

\* A step of write() in a running process; the stdio buffer keeps the bytes.
BWrite(t) ==
  /\ ~crashed
  /\ Write(t) \/ WriteLine(t) \/ WriteNL(t)
  /\ UNCHANGED <<flushed, crashed, crashes, durable, synced, dropped, exposed, destroyed>>

\* The bytes of a chunk whose page was dropped: what the disk holds there
\* is not a line of this sink.
Hole(ch) == [m |-> Old, n |-> ch.n]

\* The base file as stable storage holds it: the clean prefix, with the
\* dropped pages in it.
Stable == [i \in 1..synced |-> IF i \in dropped THEN Hole(BaseContent[i]) ELSE BaseContent[i]]

\* fsync_or_throw fails after fflush handed everything to the OS: the kernel
\* wrote back the dirty pages in order up to some w, could not write those
\* from w + 1 to done and marked them clean, and left the rest dirty; the
\* lines on all pending pages were at risk.
FsyncFails ==
  /\ \E w \in synced..flushed', done \in synced..flushed' :
       /\ w <= done
       /\ synced' = done
       /\ dropped' = dropped \cup (w + 1)..done
  /\ exposed' = exposed \cup ({BaseContent[i].m : i \in (synced + 1)..flushed'} \cap Msgs)

Flush(t) ==
  /\ ~crashed /\ ~destroyed /\ pc[t] = "idle" /\ lock = NoThread
  /\ \/ /\ FlushMayThrow
        /\ flushed' \in flushed..Len(BaseContent)
        /\ UNCHANGED <<durable, synced, dropped, exposed>>
     \/ /\ isOpen /\ Durable /\ "flush" \in Faults
        /\ flushed' = Len(BaseContent)
        /\ FsyncFails
        /\ UNCHANGED durable
     \/ /\ isOpen
        /\ flushed' = Len(BaseContent)
        /\ synced' = IF Durable THEN Len(BaseContent) ELSE synced
        /\ durable' = durable \cup {m \in Range(MsgSeq(BaseContent)) : result[m] = "ok"}
        /\ UNCHANGED <<dropped, exposed>>
  /\ UNCHANGED <<fsVars, crashed, crashes, destroyed>>

\* stdio writes out a full buffer on its own, at any point of the content.
AutoFlush ==
  /\ ~crashed /\ isOpen
  /\ flushed < Len(BaseContent)
  /\ flushed' \in (flushed + 1)..Len(BaseContent)
  /\ UNCHANGED <<fsVars, crashed, crashes, durable, synced, dropped, exposed, destroyed>>

\* The OS writes part of its page cache for the file back to disk.
WriteBack ==
  /\ synced < flushed
  /\ synced' \in (synced + 1)..flushed
  /\ UNCHANGED <<fsVars, flushed, crashed, crashes, durable, dropped, exposed, destroyed>>

\* The process ends: the FILE* and mu_ go with it, and the calls in
\* progress never return.
Dies ==
  /\ isOpen' = FALSE
  /\ lock' = NoThread
  /\ pc' = [t \in Threads |-> "idle"]
  /\ cur' = [t \in Threads |-> IF pc[t] = "idle" THEN cur[t] ELSE cur[t] + 1]
  /\ crashed' = TRUE
  /\ crashes' = crashes + 1

\* The process dies: the unflushed stdio buffer is lost.
Crash ==
  /\ ~crashed /\ crashes < MaxCrashes
  /\ disk' = [disk EXCEPT ![Base] = SubSeq(@, 1, flushed)]
  /\ Dies
  /\ UNCHANGED <<bytes, result, flushed, durable, synced, dropped, exposed, destroyed>>

\* The machine loses power: the file keeps only what reached the disk,
\* dropped pages included, and the process dies with it.
PowerLoss ==
  /\ ~crashed /\ crashes < MaxCrashes
  /\ disk' = [disk EXCEPT ![Base] = Stable]
  /\ flushed' = synced
  /\ dropped' = {}
  /\ Dies
  /\ UNCHANGED <<bytes, result, durable, synced, exposed, destroyed>>

(***************************************************************************)
(* The next process constructs its FileSink: fopen(path, "a") on the file  *)
(* as the OS left it, and bytes_written_ seeded from its size.             *)
(***************************************************************************)
Restart ==
  /\ crashed
  /\ OpenLocked
  /\ flushed' = Len(OpenedDisk[Base])
  /\ crashed' = FALSE /\ destroyed' = FALSE
  /\ UNCHANGED <<lock, pc, cur, result, crashes, durable, synced, dropped, exposed>>

(***************************************************************************)
(* ~FileSink, once every call has returned: close_noexcept takes mu_ and   *)
(* close_locked_noexcept fcloses, which writes out the buffer; a failure   *)
(* of that write is swallowed, leaving any part of the buffer unwritten.   *)
(***************************************************************************)
Destroy ==
  /\ AllDone /\ ~crashed /\ ~destroyed
  /\ flushed' \in IF ~isOpen THEN {flushed}
                  ELSE IF "flush" \in Faults THEN flushed..Len(BaseContent)
                  ELSE {Len(BaseContent)}
  /\ CloseLocked
  /\ destroyed' = TRUE
  /\ UNCHANGED <<disk, lock, pc, cur, result, crashed, crashes, durable, synced, dropped, exposed>>

BNext ==
  \/ \E t \in Threads : BWrite(t) \/ Flush(t)
  \/ AutoFlush \/ WriteBack \/ Crash \/ PowerLoss \/ Restart \/ Destroy
  \/ AllDone /\ UNCHANGED bVars

BSpec == BInit /\ [][BNext]_bVars

-----------------------------------------------------------------------------
=============================================================================
