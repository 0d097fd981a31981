------------------------------ MODULE WalStore ------------------------------
(***************************************************************************)
(* The disk write-ahead log of the agent (statix/src/wal): the segmented   *)
(* store behind one mutex, the writer thread that appends to it in group   *)
(* commits, the drainer's peek / hand-over / commit cycle, and recovery    *)
(* after a crash.  The environment is open: any batch may be queued for    *)
(* the writer, and the retry queue may accept or refuse a replayed frame.  *)
(* Module Spillway closes it.                                              *)
(***************************************************************************)
EXTENDS Integers, Sequences

CONSTANTS Batch,            \* the batches that may be spilled
          NoBatch,          \* a thread that holds no batch
          PayloadLen,       \* payload length of each batch, in bytes
          MaxBytes,         \* WalConfig.max_bytes
          SegmentBytes,     \* WalConfig.segment_bytes
          FsyncFrames,      \* WalConfig.fsync_frames
          MaxFramePayload,  \* MAX_FRAME_PAYLOAD
          MaxCrashes,       \* bound on the crashes of a behaviour
          MaxErrors         \* bound on the I/O errors of a behaviour

\* WalConfig::from_env raises max_bytes to segment_bytes and fsync_frames to 1;
\* a serialised batch is never empty, and the aggregator flushes at max_keys, long
\* before a batch reaches MAX_FRAME_PAYLOAD.
ASSUME WalConfigAssumption ==
  /\ NoBatch \notin Batch
  /\ MaxFramePayload \in Nat
  /\ PayloadLen \in [Batch -> 1..MaxFramePayload]
  /\ SegmentBytes \in Nat \ {0}
  /\ MaxBytes \in Nat /\ MaxBytes >= SegmentBytes
  /\ FsyncFrames \in Nat \ {0}
  /\ MaxCrashes \in Nat /\ MaxErrors \in Nat

VARIABLES
  \* WalInner
  segments,         \* metadata of the live segments, oldest first
  active,           \* the segment being written, or NoActive
  position,         \* where the next write to its file goes
  total_bytes,
  next_seq,
  next_batch_seq,
  read_seq,         \* the drainer's committed cursor
  read_offset,
  pending_advance,  \* offset past the peeked frame, or None
  \* the directory
  disk,             \* the segment files, by sequence number
  \* the mutex and the two threads that take it
  lock,
  wpc, wbatch, burst, since_sync,
  dpc, dbatch, trial,
  \* the process
  mode,             \* "up", "recovering", or "disabled" (Wal::open failed)
  found,            \* files recovery has still to walk
  \* history
  appended,         \* batches received by the writer thread
  crashes, errors

walVars == <<segments, active, position, total_bytes, next_seq, next_batch_seq,
             read_seq, read_offset, pending_advance, disk>>
writerVars == <<wpc, wbatch, burst, since_sync, appended>>
drainerVars == <<dpc, dbatch, trial>>
processVars == <<mode, found, crashes>>
vars == <<walVars, lock, writerVars, drainerVars, processVars, errors>>

cursor == <<read_seq, read_offset, pending_advance>>
-----------------------------------------------------------------------------
(* segment.rs: the on-disk layout. *)

SEGMENT_HEADER_LEN == 16
FRAME_HEADER_LEN == 16

None == -1
NoActive == [seq |-> None, offset |-> 0]

frame_len_on_disk(b) == FRAME_HEADER_LEN + PayloadLen[b]

Frame == [off : Nat, batch : Batch, batch_seq : Nat]

\* A file: is its header valid, the complete frames it holds, and the length
\* known to be on stable storage (0: not even the file itself).
File == [header : BOOLEAN, frames : SUBSET Frame, synced : Nat]

End(f) == f.off + frame_len_on_disk(f.batch)

\* read_frame_at: the frame at an offset.  No element stands for FrameRead::End
\* and FrameRead::Corrupt, which both of its callers treat alike.
read_frame_at(file, offset) ==
  {f \in file.frames : f.off = offset /\ PayloadLen[f.batch] <= MaxFramePayload}

\* SegmentMeta.  base is auxiliary: the bytes of all the segments created
\* before this one, so that the sum of the bytes of a run of segments is a
\* difference of two positions.  The count of frames, which only a metric and a log
\* line read, is left out.
SegmentMeta == [seq : Nat, bytes : Nat, base : Nat]

Seqs == {segments[i].seq : i \in DOMAIN segments}
Oldest == segments[1]
Newest == segments[Len(segments)]
NextBase == IF segments = <<>> THEN 0 ELSE Newest.base + Newest.bytes
-----------------------------------------------------------------------------
Init ==
  /\ segments = <<>> /\ active = NoActive /\ position = 0 /\ total_bytes = 0
  /\ next_seq = 0 /\ next_batch_seq = 0
  /\ read_seq = 0 /\ read_offset = SEGMENT_HEADER_LEN /\ pending_advance = None
  /\ disk = [s \in {} |-> [header |-> TRUE, frames |-> {}, synced |-> 0]]
  /\ lock = "free"
  /\ wpc = "recv" /\ wbatch = NoBatch /\ burst = FALSE /\ since_sync = 0
  /\ dpc = "sweep" /\ dbatch = NoBatch /\ trial = FALSE
  /\ mode = "up" /\ found = {}
  /\ appended = {} /\ crashes = 0 /\ errors = 0

IoError == errors < MaxErrors /\ errors' = errors + 1
-----------------------------------------------------------------------------
(* The writer thread (writer.rs) and the append path of WalInner. *)

\* blocking_recv returns the first payload of a group.
WriterRecv(b) ==
  /\ mode = "up" /\ wpc = "recv" /\ b \notin appended
  /\ wbatch' = b /\ appended' = appended \cup {b} /\ wpc' = "lock"
  /\ UNCHANGED <<walVars, lock, burst, since_sync, drainerVars, processVars, errors>>

WriterLock ==
  /\ wpc = "lock" /\ lock = "free"
  /\ lock' = "writer" /\ wpc' = "cap" /\ burst' = FALSE /\ since_sync' = 0
  /\ UNCHANGED <<walVars, wbatch, appended, drainerVars, processVars, errors>>

\* try_recv, while the mutex is held: the payload joins this group commit.
WriterTryRecv(b) ==
  /\ wpc = "drain" /\ b \notin appended
  /\ wbatch' = b /\ appended' = appended \cup {b} /\ wpc' = "cap" /\ burst' = TRUE
  /\ UNCHANGED <<walVars, lock, since_sync, drainerVars, processVars, errors>>

\* Mutant: the incoming frame is left out of the comparison.
OverCapWithoutFrame == total_bytes > MaxBytes /\ Len(segments) > 1

OverCap ==
  /\ total_bytes + frame_len_on_disk(wbatch) > MaxBytes
  /\ Len(segments) > 1

\* Mutant: the byte count is not reduced.
ReleaseForgotten(bytes) == total_bytes' = total_bytes /\ bytes \in Nat

\* total_bytes gives up a deleted segment's bytes (saturating_sub).
Release(bytes) ==
  total_bytes' = IF bytes <= total_bytes THEN total_bytes - bytes ELSE 0

\* Mutant: the pending advance survives the move of the cursor.
CursorAfterDropKeepsPending ==
  IF read_seq = Oldest.seq
  THEN /\ read_seq' = segments[2].seq /\ read_offset' = SEGMENT_HEADER_LEN
       /\ UNCHANGED pending_advance
  ELSE UNCHANGED cursor

\* If the drainer was reading the dropped segment, move its cursor.
CursorAfterDrop ==
  IF read_seq = Oldest.seq
  THEN /\ read_seq' = segments[2].seq
       /\ read_offset' = SEGMENT_HEADER_LEN
       /\ pending_advance' = None
  ELSE UNCHANGED cursor

\* One turn of the loop of enforce_cap: drop the oldest segment.
EnforceCap ==
  /\ wpc = "cap" /\ OverCap
  /\ segments' = Tail(segments)
  /\ Release(Oldest.bytes)
  /\ disk' = [s \in DOMAIN disk \ {Oldest.seq} |-> disk[s]]
  /\ CursorAfterDrop
  /\ UNCHANGED <<active, position, next_seq, next_batch_seq, lock, writerVars,
                 drainerVars, processVars, errors>>

NeedsRotate ==
  \/ active = NoActive
  \/ /\ active.offset > SEGMENT_HEADER_LEN
     /\ active.offset + frame_len_on_disk(wbatch) > SegmentBytes

\* The end of append_one, whether or not the append succeeded.
AppendReturns ==
  /\ wpc' = (IF burst THEN "bound" ELSE "drain")
  /\ wbatch' = NoBatch /\ since_sync' = since_sync + 1
  /\ UNCHANGED <<burst, appended>>

\* rotate closes the old segment with an fdatasync whose error is ignored.
SyncOld(file, ok) ==
  IF ok THEN [file EXCEPT !.synced = active.offset] ELSE file

DiskAfterRotate(ok) ==
  [s \in DOMAIN disk |-> IF s = active.seq THEN SyncOld(disk[s], ok) ELSE disk[s]]

NewFile(header) == [header |-> header, frames |-> {}, synced |-> 0]

AddFile(d, file) ==
  [s \in DOMAIN d \cup {next_seq} |-> IF s = next_seq THEN file ELSE d[s]]

\* rotate succeeds; the fdatasync of the old segment may have failed.
Rotate ==
  /\ wpc = "cap" /\ ~OverCap /\ NeedsRotate
  /\ \/ disk' = AddFile(DiskAfterRotate(TRUE), NewFile(TRUE)) /\ UNCHANGED errors
     \/ disk' = AddFile(DiskAfterRotate(FALSE), NewFile(TRUE)) /\ IoError
  /\ segments' = Append(segments, [seq |-> next_seq, bytes |-> SEGMENT_HEADER_LEN,
                                   base |-> NextBase])
  /\ total_bytes' = total_bytes + SEGMENT_HEADER_LEN
  /\ active' = [seq |-> next_seq, offset |-> SEGMENT_HEADER_LEN]
  /\ position' = SEGMENT_HEADER_LEN
  /\ next_seq' = next_seq + 1
  /\ wpc' = "write"
  /\ UNCHANGED <<next_batch_seq, cursor, lock, wbatch, burst, since_sync,
                 appended, drainerVars, processVars>>

\* rotate fails: in create_dir_all, in open, or while it writes the header,
\* which leaves a file that no SegmentMeta knows of.  The batch is dropped.
RotateFails ==
  /\ wpc = "cap" /\ ~OverCap /\ NeedsRotate /\ IoError
  /\ active' = NoActive /\ position' = 0
  /\ \E ok \in BOOLEAN :
       \/ disk' = DiskAfterRotate(ok) /\ next_seq' \in {next_seq, next_seq + 1}
       \/ /\ disk' = AddFile(DiskAfterRotate(ok), NewFile(FALSE))
          /\ next_seq' = next_seq + 1
  /\ AppendReturns
  /\ UNCHANGED <<segments, total_bytes, next_batch_seq, cursor, lock,
                 drainerVars, processVars>>

ReadyToWrite == wpc = "write" \/ (wpc = "cap" /\ ~OverCap /\ ~NeedsRotate)

\* write_all of header and payload, at the position of the file.
WriteFrame ==
  LET f == [off |-> position, batch |-> wbatch, batch_seq |-> next_batch_seq]
  IN /\ ReadyToWrite
     /\ disk' = [disk EXCEPT ![active.seq].frames = @ \cup {f}]
     /\ position' = End(f)
     /\ active' = [active EXCEPT !.offset = @ + frame_len_on_disk(wbatch)]
     /\ segments' = [segments EXCEPT ![Len(segments)].bytes = @ + frame_len_on_disk(wbatch)]
     /\ total_bytes' = total_bytes + frame_len_on_disk(wbatch)
     /\ next_batch_seq' = next_batch_seq + 1
     /\ AppendReturns
     /\ UNCHANGED <<next_seq, cursor, lock, drainerVars, processVars, errors>>

\* Mutant: the file is cut back but not repositioned.
recover_active_without_seek(torn) == position' = torn

\* A failed write left the file at position torn: set_len and seek go back to the
\* last good frame.  The torn bytes are no complete frame, so if set_len fails no
\* reader takes them for one, and the next frame is written over them.
recover_active_after_error(torn) == position' = active.offset

\* A write fails after some of the frame's bytes.  The batch number is consumed
\* and the batch dropped.
WriteFails ==
  /\ ReadyToWrite /\ IoError
  /\ \E n \in 0..frame_len_on_disk(wbatch) - 1 : recover_active_after_error(position + n)
  /\ next_batch_seq' = next_batch_seq + 1
  /\ AppendReturns
  /\ UNCHANGED <<segments, active, total_bytes, next_seq, cursor, disk, lock,
                 drainerVars, processVars>>

\* sync_active: nothing to do without an active segment.
Sync ==
  \/ /\ disk' = DiskAfterRotate(TRUE)
     /\ UNCHANGED errors
  \/ active # NoActive /\ IoError /\ UNCHANGED disk

\* After an append inside a burst: sync when enough frames are unsynced or
\* fsync_interval has elapsed, which it may have at any time.
BoundBurst ==
  /\ wpc = "bound" /\ wpc' = "drain"
  /\ \/ Sync /\ since_sync' = 0
     \/ since_sync < FsyncFrames /\ UNCHANGED <<since_sync, disk, errors>>
  /\ UNCHANGED <<segments, active, position, total_bytes, next_seq, next_batch_seq,
                 cursor, lock, wbatch, burst, appended, drainerVars, processVars>>

\* Mutant: the tail is synced only when it is a full group.
SyncTailWhenFull == IF since_sync >= FsyncFrames THEN Sync ELSE UNCHANGED <<disk, errors>>

SyncTail == IF since_sync > 0 THEN Sync ELSE UNCHANGED <<disk, errors>>

\* try_recv finds the channel empty: sync the tail, release the mutex.
GroupCommit ==
  /\ wpc = "drain" /\ wpc' = "recv" /\ lock' = "free"
  /\ SyncTail
  /\ UNCHANGED <<segments, active, position, total_bytes, next_seq, next_batch_seq,
                 cursor, wbatch, burst, since_sync, appended, drainerVars, processVars>>
-----------------------------------------------------------------------------
(* The drainer (drainer.rs) and the read path of WalInner. *)

\* Mutant: older segments are forgotten.
has_backlogInActive == active # NoActive /\ read_seq = active.seq /\ read_offset < active.offset

has_backlog ==
  /\ active # NoActive
  /\ read_seq # active.seq \/ read_offset < active.offset

\* A sweep that finds backlog: one trial replay, or a drain loop.
Sweep(t) ==
  /\ mode = "up" /\ dpc = "sweep" /\ lock = "free" /\ has_backlog
  /\ trial' = t /\ dpc' = (IF t THEN "want" ELSE "loop")
  /\ UNCHANGED <<walVars, lock, writerVars, dbatch, processVars, errors>>

\* The head of the drain loop: replay another frame, or leave it (no room in
\* the retry queue, or the circuit is no longer closed).
DrainLoop(more) ==
  /\ dpc = "loop" /\ dpc' = (IF more THEN "want" ELSE "sweep")
  /\ UNCHANGED <<walVars, lock, writerVars, dbatch, trial, processVars, errors>>

PeekLock ==
  /\ dpc = "want" /\ lock = "free" /\ lock' = "drainer" /\ dpc' = "peek"
  /\ UNCHANGED <<walVars, writerVars, dbatch, trial, processVars, errors>>

PeekReturnsNone ==
  /\ lock' = "free" /\ dpc' = "sweep"
  /\ UNCHANGED <<dbatch, trial>>

\* The cursor peek_next reads at: resynced to the front if its segment is gone.
PeekSeq == IF read_seq \in Seqs THEN read_seq ELSE Oldest.seq
PeekOffset == IF read_seq \in Seqs THEN read_offset ELSE SEGMENT_HEADER_LEN

PeekEmpty ==
  /\ dpc = "peek" /\ segments = <<>> /\ PeekReturnsNone
  /\ UNCHANGED <<walVars, writerVars, processVars, errors>>

\* peek_next finds a frame; it is handed over after the mutex is released.
PeekFrame ==
  /\ dpc = "peek" /\ segments # <<>>
  /\ \E f \in read_frame_at(disk[PeekSeq], PeekOffset) :
       pending_advance' = End(f) /\ dbatch' = f.batch
  /\ read_seq' = PeekSeq /\ read_offset' = PeekOffset
  /\ lock' = "free" /\ dpc' = "send"
  /\ UNCHANGED <<segments, active, position, total_bytes, next_seq, next_batch_seq, disk,
                 writerVars, trial, processVars, errors>>

AtEnd == segments # <<>> /\ read_frame_at(disk[PeekSeq], PeekOffset) = {}

\* The end of the active segment, or an error opening the file.
PeekNothing ==
  /\ dpc = "peek" /\ segments # <<>> /\ PeekReturnsNone
  /\ \/ AtEnd /\ active.seq = PeekSeq /\ UNCHANGED errors
     \/ IoError
  /\ read_seq' = PeekSeq /\ read_offset' = PeekOffset
  /\ UNCHANGED <<segments, active, position, total_bytes, next_seq, next_batch_seq,
                 pending_advance, disk, writerVars, processVars>>

\* The end of any other segment: delete it and go round the loop again.
gc_front_consumed ==
  LET i == CHOOSE j \in DOMAIN segments : segments[j].seq = PeekSeq
      rest == [j \in 1..Len(segments) - 1 |-> segments[IF j < i THEN j ELSE j + 1]]
  IN /\ dpc = "peek" /\ AtEnd /\ active.seq # PeekSeq
     /\ segments' = rest
     /\ Release(segments[i].bytes)
     /\ disk' = [s \in DOMAIN disk \ {PeekSeq} |-> disk[s]]
     /\ IF rest # <<>>
        THEN read_seq' = rest[1].seq /\ read_offset' = SEGMENT_HEADER_LEN
        ELSE read_seq' = PeekSeq /\ read_offset' = PeekOffset
     /\ pending_advance' = None
     /\ UNCHANGED <<active, position, next_seq, next_batch_seq, lock, writerVars,
                    drainerVars, processVars, errors>>

\* try_send into the retry queue, with the mutex free.
Handover(accepted) ==
  /\ dpc = "send" /\ dpc' = (IF accepted THEN "commit" ELSE "sweep")
  /\ dbatch' = NoBatch
  /\ UNCHANGED <<walVars, lock, writerVars, trial, processVars, errors>>

\* Mutant: the pending advance is taken without looking.
AdvancedUnchecked == pending_advance

\* Where the commit moves the cursor: nowhere if drop-oldest took the frame away.
Advanced == IF pending_advance = None THEN read_offset ELSE pending_advance

commit_pending ==
  /\ dpc = "commit" /\ lock = "free"
  /\ dpc' = (IF trial THEN "sweep" ELSE "loop")
  /\ pending_advance' = None
  /\ read_offset' = Advanced
  /\ UNCHANGED <<segments, active, position, total_bytes, next_seq, next_batch_seq,
                 read_seq, disk, lock, writerVars, dbatch, trial, processVars, errors>>
-----------------------------------------------------------------------------
(* Crash, restart and recovery (recovery.rs). *)

\* What may be left of a file: what was synced, and of the rest any part.
Survives(file, left) ==
  /\ left.synced = file.synced
  /\ {f \in file.frames : f.off < file.synced} \subseteq left.frames
  /\ left.frames \subseteq file.frames
  /\ left.header => file.header
  /\ file.synced > 0 => left.header = file.header

Leftovers(file) ==
  {left \in [header : BOOLEAN, frames : SUBSET file.frames, synced : {file.synced}] :
     Survives(file, left)}

\* The process or the node dies and the agent starts again: in-memory state is
\* gone, and recover lists the directory.
Crash ==
  /\ crashes < MaxCrashes /\ crashes' = crashes + 1
  /\ \E kept \in SUBSET DOMAIN disk :
       /\ \A s \in DOMAIN disk \ kept : disk[s].synced = 0
       /\ \E d \in [kept -> UNION {Leftovers(disk[s]) : s \in kept}] :
            (\A s \in kept : Survives(disk[s], d[s])) /\ disk' = d
       /\ found' = kept
  /\ mode' = "recovering"
  /\ segments' = <<>> /\ active' = NoActive /\ position' = 0 /\ total_bytes' = 0
  /\ next_seq' = 0 /\ next_batch_seq' = 0
  /\ read_seq' = 0 /\ read_offset' = SEGMENT_HEADER_LEN /\ pending_advance' = None
  /\ lock' = "free"
  /\ wpc' = "recv" /\ wbatch' = NoBatch /\ burst' = FALSE /\ since_sync' = 0
  /\ dpc' = "sweep" /\ dbatch' = NoBatch /\ trial' = FALSE
  /\ UNCHANGED <<appended, errors>>

\* The offset where the walk over a file's frames stops.
Boundaries(file) == {SEGMENT_HEADER_LEN} \cup {End(f) : f \in file.frames}
WalkEndsAt(file, o) ==
  /\ o \in Boundaries(file) /\ read_frame_at(file, o) = {}
  /\ \A x \in Boundaries(file) : x < o => read_frame_at(file, x) # {}

IsNextFound(s) == s \in found /\ \A t \in found : s <= t

\* A file with a valid header: walk it, cut the tail, keep the segment.
RecoverSegment(s) ==
  /\ mode = "recovering" /\ IsNextFound(s) /\ disk[s].header
  /\ \E o \in Boundaries(disk[s]) :
       LET kept == {f \in disk[s].frames : f.off < o}
           seen == {next_batch_seq} \cup {f.batch_seq + 1 : f \in kept}
       IN /\ WalkEndsAt(disk[s], o)
          /\ \E n \in seen : (\A m \in seen : m <= n) /\ next_batch_seq' = n
          /\ disk' = [disk EXCEPT ![s].frames = kept]
          /\ segments' = Append(segments, [seq |-> s, bytes |-> o, base |-> NextBase])
          /\ total_bytes' = total_bytes + o
  /\ next_seq' = s + 1 /\ found' = found \ {s}
  /\ UNCHANGED <<active, position, cursor, lock, writerVars, drainerVars, mode, crashes,
                 errors>>

\* A file whose header is bad or cannot be read is deleted; one that cannot be
\* opened is skipped.
RecoverDrops(s) ==
  /\ mode = "recovering" /\ IsNextFound(s)
  /\ \/ /\ (~disk[s].header /\ UNCHANGED errors) \/ IoError
        /\ disk' = [t \in DOMAIN disk \ {s} |-> disk[t]]
     \/ IoError /\ UNCHANGED disk
  /\ next_seq' = s + 1 /\ found' = found \ {s}
  /\ UNCHANGED <<segments, active, position, total_bytes, next_batch_seq, cursor, lock,
                 writerVars, drainerVars, mode, crashes>>

\* Mutant: the cursor starts at the newest segment.
ReplayFromNewest == IF segments = <<>> THEN next_seq ELSE Newest.seq

\* Where the rebuilt cursor starts: at the front segment, if there is one.
ReplayFrom == IF segments = <<>> THEN next_seq ELSE Oldest.seq

\* The newest surviving segment becomes the active one.
RecoverFinish ==
  /\ mode = "recovering" /\ found = {} /\ mode' = "up"
  /\ active' = (IF segments = <<>> THEN NoActive
                ELSE [seq |-> Newest.seq, offset |-> Newest.bytes])
  /\ position' = (IF segments = <<>> THEN 0 ELSE Newest.bytes)
  /\ read_seq' = ReplayFrom
  /\ UNCHANGED <<segments, total_bytes, next_seq, next_batch_seq, read_offset,
                 pending_advance, disk, lock, writerVars, drainerVars, found,
                 crashes, errors>>

\* An I/O error makes recover, and so Wal::open, fail: no WAL until a restart.
RecoverFails ==
  /\ mode = "recovering" /\ IoError /\ mode' = "disabled"
  /\ UNCHANGED <<walVars, lock, writerVars, drainerVars, found, crashes>>
-----------------------------------------------------------------------------
Writer ==
  \/ \E b \in Batch : WriterRecv(b) \/ WriterTryRecv(b)
  \/ WriterLock \/ EnforceCap \/ Rotate \/ RotateFails \/ WriteFrame
  \/ WriteFails \/ BoundBurst \/ GroupCommit

Drainer ==
  \/ \E t \in BOOLEAN : Sweep(t) \/ DrainLoop(t) \/ Handover(t)
  \/ PeekLock \/ PeekEmpty \/ PeekFrame \/ PeekNothing \/ gc_front_consumed
  \/ commit_pending

Recovery ==
  \/ \E s \in found : RecoverSegment(s) \/ RecoverDrops(s)
  \/ RecoverFinish \/ RecoverFails

Next == Writer \/ Drainer \/ Recovery \/ Crash

Spec == Init /\ [][Next]_vars

\* Both threads keep running, the mutex is fair to each (parking_lot), recovery
\* finishes, and the environment is kind: the circuit is closed again and again
\* and the retry queue has room again and again.
Fairness ==
  /\ SF_vars(WriterLock) /\ WF_vars(EnforceCap) /\ WF_vars(Rotate)
  /\ WF_vars(WriteFrame) /\ WF_vars(BoundBurst) /\ WF_vars(GroupCommit)
  /\ SF_vars(Sweep(FALSE)) /\ SF_vars(DrainLoop(TRUE)) /\ SF_vars(Handover(TRUE))
  /\ SF_vars(PeekLock) /\ WF_vars(PeekEmpty) /\ WF_vars(PeekFrame)
  /\ WF_vars(PeekNothing) /\ WF_vars(gc_front_consumed) /\ SF_vars(commit_pending)
  /\ WF_vars(\E s \in found : RecoverSegment(s) \/ RecoverDrops(s))
  /\ WF_vars(RecoverFinish)

FairSpec == Spec /\ Fairness
-----------------------------------------------------------------------------
(* Properties. *)

\* Type invariant: every variable of WalInner, of the two threads and of the
\* directory stays in its range.
TypeOK ==
  /\ segments \in Seq(SegmentMeta)
  /\ active \in [seq : Nat, offset : Nat] \cup {NoActive} /\ position \in Nat
  /\ total_bytes \in Nat /\ next_seq \in Nat /\ next_batch_seq \in Nat
  /\ read_seq \in Nat /\ read_offset \in Nat /\ pending_advance \in Nat \cup {None}
  /\ DOMAIN disk \subseteq Nat /\ disk \in [DOMAIN disk -> File]
  /\ lock \in {"free", "writer", "drainer"}
  /\ wpc \in {"recv", "lock", "cap", "write", "bound", "drain"}
  /\ wbatch \in Batch \cup {NoBatch} /\ burst \in BOOLEAN /\ since_sync \in Nat
  /\ dpc \in {"sweep", "loop", "want", "peek", "send", "commit"}
  /\ dbatch \in Batch \cup {NoBatch} /\ trial \in BOOLEAN
  /\ mode \in {"up", "recovering", "disabled"} /\ found \subseteq DOMAIN disk
  /\ appended \subseteq Batch /\ crashes \in Nat /\ errors \in Nat

\* What the WAL still owes the gateway: the frames at or after the read cursor
\* in the segments it knows of (while it recovers, in every file found).
Backlog ==
  {x \in UNION {{<<s, f>> : f \in disk[s].frames} : s \in Seqs \cup found} :
     \/ x[1] > read_seq
     \/ x[1] = read_seq /\ x[2].off >= read_offset}

Unsynced(x) == x[2].off >= disk[x[1]].synced

\* NoSilentLoss: a spilled batch leaves the backlog only when it is the frame at
\* the cursor and the drainer has just put it into the retry queue; when
\* enforce_cap drops the oldest segment because the hard cap is exceeded; when a
\* crash takes a frame that was not yet synced; or when an I/O error is reported.
\* In particular no race between the writer's drop-oldest and the drainer's
\* peek ... commit window makes the cursor skip a frame.
NoSilentLoss ==
  [][\A x \in Backlog \ Backlog' :
       \/ dpc = "commit" /\ x[1] = read_seq /\ x[2].off = read_offset
       \/ wpc = "cap" /\ OverCap /\ x[1] = Oldest.seq
       \/ "recovering" \in {mode, mode'} /\ Unsynced(x)
       \/ errors' > errors]_vars

-----------------------------------------------------------------------------
(* The refinement of WalLog. *)

\* The frames that a reader of a file from its start would find.
Chained(file) ==
  {f \in file.frames : file.header /\
     \A x \in Boundaries(file) : x <= f.off => read_frame_at(file, x) # {}}

\* The frames of the live segments and, while recovering, of the files found.
OnDisk == UNION {{<<s, f>> : f \in Chained(disk[s])} : s \in Seqs \cup found}

\* Frames are written in the order of their segments and of their offsets.
Before(x, y) == x[1] < y[1] \/ (x[1] = y[1] /\ x[2].off < y[2].off)

BatchOf(x) == x[2].batch

\* The frames that the cursor has passed.
Consumed == OnDisk \ Backlog

WL == INSTANCE WalLog WITH log <- OnDisk, replayed <- Consumed, out <- dbatch,
                           full <- wpc = "cap" /\ OverCap

\* FifoLog: until an I/O error leaves a gap, the segmented store with its cursor,
\* caps and recovery implements the log of WalLog: batches are replayed in the order
\* they were written, loss is of the oldest at the cap or of the newest in a crash,
\* and otherwise only replayed batches are deleted.
FifoLog == WL!LogInit /\ [][errors' > 0 \/ WL!LogNext]_(WL!logVars)

-----------------------------------------------------------------------------
(* The inductive invariant behind the safety properties. *)

\* The largest frame, and the largest segment: one oversized frame is accepted
\* by an empty segment.
MaxFrameLen == FRAME_HEADER_LEN + MaxFramePayload
MaxSegmentLen ==
  IF SegmentBytes > SEGMENT_HEADER_LEN + MaxFrameLen
  THEN SegmentBytes ELSE SEGMENT_HEADER_LEN + MaxFrameLen

\* Frames of one file never overlap, and fit into the largest segment.
FileOK(file) ==
  /\ \A f \in file.frames : f.off >= SEGMENT_HEADER_LEN /\ End(f) <= MaxSegmentLen
  /\ \A f, g \in file.frames : f = g \/ End(f) <= g.off \/ End(g) <= f.off

\* The frames of a live segment fill it without a gap up to its length.
Filled(file, len) ==
  /\ file.header /\ SEGMENT_HEADER_LEN <= len /\ len <= MaxSegmentLen
  /\ len = SEGMENT_HEADER_LEN \/ \E f \in file.frames : f.off = SEGMENT_HEADER_LEN
  /\ \A f \in file.frames : End(f) = len \/ \E g \in file.frames : g.off = End(f)
  /\ \A f \in file.frames : End(f) <= len

\* The files are those of the live segments, older leftovers, and, during
\* recovery, the ones still to walk; new sequence numbers are fresh.
SeqInv ==
  /\ \A i, j \in DOMAIN segments : i < j => segments[i].seq < segments[j].seq
  /\ \A i \in DOMAIN segments : segments[i].seq < next_seq
  /\ \A s \in DOMAIN disk : s < next_seq \/ s \in found
  /\ \A s \in found : next_seq <= s

DiskInv ==
  /\ \A s \in DOMAIN disk : FileOK(disk[s])
  /\ \A i \in DOMAIN segments :
       /\ segments[i].seq \in DOMAIN disk
       /\ Filled(disk[segments[i].seq], segments[i].bytes)

\* total_bytes is the length of the run of live segments.
BytesInv ==
  /\ \A i \in DOMAIN segments :
       i > 1 => segments[i].base = segments[i-1].base + segments[i-1].bytes
  /\ \A i, j \in DOMAIN segments :
       i < j => segments[i].base + segments[i].bytes <= segments[j].base
  /\ total_bytes = IF segments = <<>> THEN 0
                   ELSE Newest.base + Newest.bytes - Oldest.base

\* "active is always the back element" (enforce_cap), and they agree on the length.
ActiveInv ==
  active # NoActive =>
    segments # <<>> /\ active.seq = Newest.seq /\ active.offset = Newest.bytes

\* The file is positioned behind its last good frame, after failed writes too.
PositionInv == active # NoActive => position = active.offset

\* The cursor is on a frame boundary of the oldest segment or before all of them,
\* and a pending advance leads over exactly one frame.
CursorInv ==
  /\ \A i \in DOMAIN segments : read_seq <= segments[i].seq
  /\ read_seq <= next_seq
  /\ read_seq = next_seq => read_offset = SEGMENT_HEADER_LEN
  /\ segments # <<>> /\ read_seq = Oldest.seq =>
       \/ read_offset = Oldest.bytes
       \/ \E f \in disk[Oldest.seq].frames : f.off = read_offset
  /\ pending_advance # None =>
       /\ segments # <<>> /\ read_seq = Oldest.seq
       /\ \E f \in disk[Oldest.seq].frames :
            f.off = read_offset /\ pending_advance = End(f)

\* Who holds the mutex, and what a thread holds at each point.
ControlInv ==
  /\ lock = "writer" <=> wpc \in {"cap", "write", "bound", "drain"}
  /\ lock = "drainer" <=> dpc = "peek"
  /\ wpc \in {"lock", "cap", "write"} => wbatch \in Batch
  /\ wpc = "write" => active # NoActive /\ active.offset = SEGMENT_HEADER_LEN
  /\ mode = "up" => found = {}
  /\ mode # "up" =>
       /\ wpc = "recv" /\ dpc = "sweep" /\ active = NoActive /\ crashes > 0
       /\ read_seq = 0 /\ read_offset = SEGMENT_HEADER_LEN /\ pending_advance = None

\* What the loop of enforce_cap left to the write that follows a rotation.
RoomInv ==
  wpc = "write" =>
    \/ total_bytes + frame_len_on_disk(wbatch) <= MaxBytes + SEGMENT_HEADER_LEN
    \/ Len(segments) <= 2 /\ total_bytes <= MaxSegmentLen + SEGMENT_HEADER_LEN

\* Without I/O errors only the active segment has unsynced frames, and those were
\* appended since the last sync of the group.
SyncInv ==
  crashes = 0 /\ errors = 0 =>
    /\ segments # <<>> => active # NoActive
    /\ \A i \in DOMAIN segments :
         \/ disk[segments[i].seq].synced = segments[i].bytes
         \/ /\ i = Len(segments) /\ lock = "writer"
            /\ wpc = "write" \/ since_sync > 0

\* What an fdatasync made durable is a gapless run of frames from the start of the
\* file, so that the walk of recovery reaches its end.
SyncedOK(file) ==
  file.synced > 0 =>
    /\ file.header
    /\ file.synced <= SEGMENT_HEADER_LEN \/ \E f \in file.frames : f.off = SEGMENT_HEADER_LEN
    /\ \A f \in file.frames :
         f.off < file.synced =>
           \/ End(f) = file.synced
           \/ End(f) < file.synced /\ \E g \in file.frames : g.off = End(f)

DurableInv ==
  /\ \A s \in DOMAIN disk : SyncedOK(disk[s])
  /\ \A i \in DOMAIN segments : disk[segments[i].seq].synced <= segments[i].bytes

\* StoreInv: the structural invariant of the store.  Segment files, in-memory
\* metadata, active segment, write position, byte count and read cursor agree at
\* every point of every interleaving of writer, drainer, crash and recovery.
StoreInv ==
  /\ SeqInv /\ DiskInv /\ BytesInv /\ ActiveInv /\ PositionInv /\ CursorInv
  /\ ControlInv /\ RoomInv /\ SyncInv /\ DurableInv

\* What else the refinement of WalLog rests on: the drainer holds a batch exactly
\* between peek and handover; and without I/O errors every file is known, a store
\* that runs and has segments has an active one, and rotate has synced every file
\* but the newest, so that a crash can only cut the end of the log.
Sealed(file) == file.header /\ file.synced > 0 /\ \A f \in file.frames : f.off < file.synced

LogInv ==
  /\ dpc = "send" <=> dbatch # NoBatch
  /\ errors = 0 =>
       /\ DOMAIN disk = Seqs \cup found
       /\ mode = "up" /\ segments # <<>> => active # NoActive
       /\ \A s, t \in DOMAIN disk : s < t => Sealed(disk[s])

\* The bytes of the first n live segments.
BytesUpTo[n \in 0..Len(segments)] ==
  IF n = 0 THEN 0 ELSE BytesUpTo[n - 1] + segments[n].bytes

\* TotalBytesExact: total_bytes, which enforce_cap compares with the hard cap, is
\* the sum of the bytes of the live segments through every append, rotation, drop,
\* collection and recovery.
TotalBytesExact == total_bytes = BytesUpTo[Len(segments)]

\* CapBound: after every append, successful or not, the WAL is within its hard
\* cap plus one segment header, unless only the last two segments are left, which
\* drop-oldest cannot reduce further.
CapBound ==
  wpc \in {"bound", "drain"} =>
    \/ total_bytes <= MaxBytes + SEGMENT_HEADER_LEN
    \/ Len(segments) <= 2 /\ total_bytes <= MaxSegmentLen + SEGMENT_HEADER_LEN + MaxFrameLen

\* DurableAtRest: group commit.  Whenever the writer does not hold the mutex, so
\* whenever the drainer can look, every frame written is on stable storage, as long
\* as there was no I/O error and no crash yet.  (After a crash a file that recovery
\* kept may hold frames that are synced only when its segment is written again.)
DurableAtRest ==
  crashes = 0 /\ errors = 0 /\ lock # "writer" =>
    \A i \in DOMAIN segments : disk[segments[i].seq].synced = segments[i].bytes

\* BacklogEmpties: as long as no I/O error occurs, the backlog is empty again and
\* again, also after a crash, when the circuit closes and the retry queue has room
\* again and again.
BacklogEmpties == []<>(Backlog = {} \/ errors > 0)

\* BacklogDrains: every batch on disk is replayed or dropped in the end, whatever
\* I/O errors there were, under the same conditions.
BacklogDrains ==
  \A b \in Batch :
    (\E x \in Backlog : x[2].batch = b) ~> ~(\E x \in Backlog : x[2].batch = b)
=============================================================================
