--------------------------- MODULE WalStoreProofs ---------------------------
(* The structural invariant of WalStore and what follows from it, for every  *)
(* set of batches, every cap and segment size, and any number of crashes and *)
(* I/O errors.                                                               *)
EXTENDS WalStoreFiles

-----------------------------------------------------------------------------
(* What a record in hand finds room in, and the records waiting for a sync. *)

\* While the writer holds the mutex nobody else changes the store.
LEMMA WriterAlone ==
  ASSUME TypeOK, ControlInv, wpc \in {"cap", "write", "bound", "drain"}, Drainer \/ Recovery
  PROVE  UNCHANGED <<segments, active, total_bytes, disk, wpc, wbatch, since_sync, lock, crashes, errors>>
  <1> USE DEF walVars, writerVars, drainerVars, processVars, cursor
  <1>1. lock = "writer" /\ dpc # "peek" /\ mode = "up"
    BY Zenon DEF TypeOK, ControlInv
  <1>2. ASSUME NEW t \in BOOLEAN, Sweep(t) \/ DrainLoop(t) \/ Handover(t)
        PROVE  UNCHANGED <<segments, active, total_bytes, disk, wpc, wbatch, since_sync, lock, crashes, errors>>
    BY <1>2, SMTT(60) DEF Sweep, DrainLoop, Handover
  <1>3. ~(PeekLock \/ PeekEmpty \/ PeekFrame \/ PeekNothing \/ gc_front_consumed \/ commit_pending)
    BY <1>1, Zenon DEF PeekLock, PeekEmpty, PeekFrame, PeekNothing, gc_front_consumed, commit_pending
  <1>4. ~Recovery
    BY <1>1, Zenon DEF Recovery, RecoverSegment, RecoverDrops, RecoverFinish, RecoverFails
  <1> QED
    BY <1>2, <1>3, <1>4, Zenon DEF Drainer

\* Neither the drainer nor recovery moves the writer thread.
LEMMA WriterStays == Drainer \/ Recovery => UNCHANGED <<wpc, since_sync>>
  <1> USE DEF walVars, writerVars
  <1>1. ASSUME NEW t \in BOOLEAN, Sweep(t) \/ DrainLoop(t) \/ Handover(t)
        PROVE  UNCHANGED <<wpc, since_sync>>
    BY <1>1, SMTT(60) DEF Sweep, DrainLoop, Handover
  <1>2. ASSUME PeekLock \/ PeekEmpty \/ PeekFrame \/ PeekNothing \/ gc_front_consumed \/ commit_pending
        PROVE  UNCHANGED <<wpc, since_sync>>
    BY <1>2, Zenon DEF PeekLock, PeekEmpty, PeekFrame, PeekNothing, gc_front_consumed, commit_pending
  <1>3. ASSUME NEW s \in found, RecoverSegment(s) \/ RecoverDrops(s)
        PROVE  UNCHANGED <<wpc, since_sync>>
    BY <1>3, Zenon DEF RecoverSegment, RecoverDrops
  <1>4. ASSUME RecoverFinish \/ RecoverFails PROVE UNCHANGED <<wpc, since_sync>>
    BY <1>4, Zenon DEF RecoverFinish, RecoverFails
  <1> QED
    BY <1>1, <1>2, <1>3, <1>4, Zenon DEF Drainer, Recovery

\* With at most one segment, the WAL is no longer than the largest segment.
LEMMA OneSegment ==
  ASSUME TypeOK, StoreInv, Len(segments) <= 1
  PROVE  total_bytes <= MaxSegmentLen
  <1>1. CASE segments = <<>>
    BY <1>1, MaxSegment DEF StoreInv, BytesInv
  <1>2. CASE segments # <<>>
    <2>1. Len(segments) = 1 /\ 1 \in DOMAIN segments /\ segments[1].base \in Nat /\ segments[1].bytes \in Nat
      BY <1>2, SegType
    <2>2. total_bytes = segments[1].base + segments[1].bytes - segments[1].base
      BY <1>2, <2>1, Zenon DEF StoreInv, BytesInv, Newest, Oldest
    <2>3. segments[1].bytes <= MaxSegmentLen
      BY <2>1, Zenon DEF StoreInv, DiskInv, Filled
    <2> QED
      BY <2>1, <2>2, <2>3
  <1> QED
    BY <1>1, <1>2, Zenon

\* enforce_cap leaves room for the frame, or nothing more to drop.
LEMMA RoomStep == TypeOK /\ StoreInv /\ [Next]_vars => RoomInv'
  <1> SUFFICES ASSUME TypeOK, StoreInv, [Next]_vars, wpc' = "write"
               PROVE  \/ total_bytes' + frame_len_on_disk(wbatch') <= MaxBytes + SEGMENT_HEADER_LEN
                      \/ Len(segments') <= 2 /\ total_bytes' <= MaxSegmentLen + SEGMENT_HEADER_LEN
    BY Zenon DEF RoomInv, frame_len_on_disk
  <1>i. RoomInv /\ ControlInv
    BY Zenon DEF StoreInv
  <1>1. CASE wpc = "write" /\ UNCHANGED <<segments, total_bytes, wbatch>>
    BY <1>1, <1>i, Zenon DEF RoomInv
  <1>2. CASE Rotate
    <2>1. /\ ~OverCap /\ wbatch \in Batch /\ wbatch' = wbatch
          /\ total_bytes' = total_bytes + SEGMENT_HEADER_LEN
      BY <1>2, <1>i, SMTT(60) DEF Rotate, ControlInv
    <2>2. Len(segments') = Len(segments) + 1 /\ Len(segments) \in Nat /\ total_bytes \in Nat
      BY <1>2, RotateEffect, OneMoreSegment, SegType, ZenonT(60) DEF TypeOK
    <2>3. frame_len_on_disk(wbatch) \in Nat /\ MaxBytes \in Nat
      BY <2>1, FrameLen, WalConfigAssumption, Zenon
    <2>4. CASE Len(segments) <= 1
      BY <2>1, <2>2, <2>4, OneSegment, MaxSegment DEF SEGMENT_HEADER_LEN
    <2>5. CASE Len(segments) > 1
      <3>1. total_bytes + frame_len_on_disk(wbatch) <= MaxBytes
        BY <2>1, <2>2, <2>3, <2>5 DEF OverCap
      <3> QED
        BY <2>1, <2>2, <2>3, <3>1 DEF SEGMENT_HEADER_LEN
    <2> QED
      BY <2>2, <2>4, <2>5
  <1>3. CASE Drainer \/ Recovery
    BY <1>1, <1>3, <1>i, WriterStays, WriterAlone, Zenon
  <1>4. CASE UNCHANGED vars
    BY <1>1, <1>4, SMTT(60) DEF vars, walVars, writerVars
  <1>5. CASE Crash
    BY <1>5, Zenon DEF Crash
  <1>6. CASE Writer
    <2>1. ASSUME NEW b \in Batch, WriterRecv(b) \/ WriterTryRecv(b) PROVE FALSE
      BY <2>1, Zenon DEF WriterRecv, WriterTryRecv
    <2>2. ~WriterLock /\ ~EnforceCap
      BY Zenon DEF WriterLock, EnforceCap, writerVars
    <2>3. ~RotateFails /\ ~WriteFrame /\ ~WriteFails
      BY Zenon DEF RotateFails, WriteFrame, WriteFails, AppendReturns
    <2>4. ~BoundBurst /\ ~GroupCommit
      BY Zenon DEF BoundBurst, GroupCommit
    <2> QED
      BY <1>2, <1>6, <2>1, <2>2, <2>3, <2>4, Zenon DEF Writer
  <1> QED
    BY <1>3, <1>4, <1>5, <1>6, Zenon DEF Next

-----------------------------------------------------------------------------
\* An fdatasync of the active segment makes every live segment durable.
LEMMA AllSynced ==
  ASSUME TypeOK, StoreInv, crashes = 0, errors = 0, NEW i \in DOMAIN segments
  PROVE  DiskAfterRotate(TRUE)[segments[i].seq].synced = segments[i].bytes
  <1> DEFINE n == Len(segments)
  <1>1. /\ n \in DOMAIN segments /\ segments # <<>> /\ segments[i].seq \in DOMAIN disk
        /\ active # NoActive /\ active.seq = segments[n].seq /\ active.offset = segments[n].bytes
    BY SegType DEF StoreInv, SyncInv, ActiveInv, DiskInv, Newest
  <1>2. DiskAfterRotate(TRUE)[segments[i].seq].synced =
          IF segments[i].seq = active.seq THEN active.offset ELSE disk[segments[i].seq].synced
    BY <1>1, RotatedFiles, ZenonT(60)
  <1>3. CASE i = n
    BY <1>1, <1>2, <1>3, Zenon
  <1>4. CASE i # n
    <2>1. segments[i].seq < segments[n].seq /\ segments[i].seq \in Nat /\ segments[n].seq \in Nat
      BY <1>1, <1>4, SegType DEF StoreInv, SeqInv
    <2>2. disk[segments[i].seq].synced = segments[i].bytes
      BY <1>4, Zenon DEF StoreInv, SyncInv
    <2>3. segments[i].seq # segments[n].seq
      BY <2>1
    <2>4. segments[i].seq # active.seq
      BY <1>1, <2>3, Zenon
    <2> QED
      BY <1>2, <2>2, <2>4, Zenon
  <1> QED
    BY <1>3, <1>4, ZenonT(60)

\* The writer reports at most one I/O error per step, and survives it.
LEMMA WriterErrors == Writer => UNCHANGED crashes /\ errors' \in {errors, errors + 1}
  <1> USE DEF processVars
  <1>1. ASSUME NEW b \in Batch, WriterRecv(b) \/ WriterTryRecv(b)
        PROVE  UNCHANGED <<crashes, errors>>
    BY <1>1, Zenon DEF WriterRecv, WriterTryRecv
  <1>2. ASSUME WriterLock \/ EnforceCap \/ WriteFrame PROVE UNCHANGED <<crashes, errors>>
    BY <1>2, SMTT(60) DEF WriterLock, EnforceCap, WriteFrame
  <1>3. ASSUME Rotate \/ RotateFails \/ WriteFails
        PROVE  UNCHANGED crashes /\ errors' \in {errors, errors + 1}
    BY <1>3, Zenon DEF Rotate, RotateFails, WriteFails, IoError
  <1>4. ASSUME BoundBurst \/ GroupCommit
        PROVE  UNCHANGED crashes /\ errors' \in {errors, errors + 1}
    BY <1>4, ZenonT(60) DEF BoundBurst, GroupCommit, SyncTail, Sync, IoError
  <1> QED
    BY <1>1, <1>2, <1>3, <1>4, Zenon DEF Writer

\* Outside the writer's critical section every live segment is durable.
LEMMA SyncStep == TypeOK /\ StoreInv /\ [Next]_vars => SyncInv'
  <1> DEFINE Durable(i) == disk[segments[i].seq].synced = segments[i].bytes
             Pending(i) == /\ i = Len(segments) /\ lock = "writer"
                           /\ wpc = "write" \/ since_sync > 0
  <1> SUFFICES ASSUME TypeOK, StoreInv, [Next]_vars, crashes' = 0, errors' = 0
               PROVE  /\ segments' # <<>> => active' # NoActive'
                      /\ \A i \in DOMAIN segments' : Durable(i)' \/ Pending(i)'
    BY Zenon DEF SyncInv
  <1> USE DEF walVars, writerVars, drainerVars, processVars, cursor
  <1>i. ControlInv /\ DiskInv /\ ActiveInv /\ SeqInv /\ CursorInv
    BY Zenon DEF StoreInv
  <1>t. /\ wpc \in {"recv", "lock", "cap", "write", "bound", "drain"}
        /\ dpc \in {"sweep", "loop", "want", "peek", "send", "commit"}
        /\ lock \in {"free", "writer", "drainer"}
        /\ crashes \in Nat /\ errors \in Nat /\ since_sync \in Nat
    BY SMTT(60) DEF TypeOK
  <1>s. ASSUME crashes = 0, errors = 0
        PROVE  /\ segments # <<>> => active # NoActive
               /\ \A i \in DOMAIN segments : Durable(i) \/ Pending(i)
    BY <1>s, Zenon DEF StoreInv, SyncInv
  <1>n. NoActive' = NoActive
    BY Zenon DEF NoActive, None
  <1>1. CASE UNCHANGED <<segments, active, disk, lock, wpc, since_sync, crashes, errors>>
    BY <1>1, <1>s, <1>n, SMTT(60)
  <1>2. CASE Crash
    BY <1>2, <1>t, SMTT(60) DEF Crash
  <1>3. CASE Recovery
    <2>1. mode # "up" /\ crashes' = crashes
      BY <1>3, ZenonT(60) DEF Recovery, RecoverSegment, RecoverDrops, RecoverFinish, RecoverFails
    <2> QED
      BY <1>i, <1>t, <2>1 DEF ControlInv
  <1>4. CASE Drainer
    <2>1. CASE lock = "writer"
      BY <1>1, <1>4, <1>i, <1>t, <2>1, WriterAlone, Zenon DEF ControlInv
    <2>2. ASSUME lock # "writer", UNCHANGED <<crashes, errors>>
          PROVE  /\ crashes = 0 /\ errors = 0
                 /\ segments # <<>> => active # NoActive
                 /\ \A i \in DOMAIN segments : Durable(i)
      BY <1>s, <2>2, Zenon
    <2>3. CASE lock # "writer" /\ UNCHANGED <<segments, active, disk, crashes, errors>>
      BY <2>2, <2>3, <1>n, SMTT(60)
    <2>4. CASE gc_front_consumed
      <3>1. lock # "writer" /\ UNCHANGED <<active, crashes, errors>>
        BY <1>i, <2>4, Zenon DEF gc_front_consumed, ControlInv
      <3>2. \A i \in DOMAIN segments : Durable(i)
        BY <2>2, <3>1, SMTT(60)
      <3>3. /\ disk' = [s \in DOMAIN disk \ {Oldest.seq} |-> disk[s]] /\ segments # <<>>
            /\ \A i \in DOMAIN segments' : i + 1 \in DOMAIN segments /\ segments'[i] = segments[i + 1]
            /\ DOMAIN segments' = 1..Len(segments) - 1
        BY <1>i, <2>4, OldestDropped, SMTT(60)
      <3>4. \A i \in DOMAIN segments' : segments[i + 1].seq \in DOMAIN disk /\ segments[i + 1].seq # Oldest.seq
        <4> SUFFICES ASSUME NEW i \in DOMAIN segments'
                     PROVE  segments[i + 1].seq \in DOMAIN disk /\ segments[i + 1].seq # Oldest.seq
          BY Zenon
        <4>1. 1 < i + 1 /\ 1 \in DOMAIN segments /\ i + 1 \in DOMAIN segments
          BY <3>3, SegType
        <4>2. segments[1].seq < segments[i + 1].seq /\ segments[1].seq \in Nat
          BY <1>i, <4>1, SegType, SMTT(60) DEF SeqInv
        <4> QED
          BY <1>i, <4>1, <4>2 DEF DiskInv, Oldest
      <3>5. \A i \in DOMAIN segments' : Durable(i)'
        BY <3>2, <3>3, <3>4, Zenon
      <3> QED
        BY <2>2, <3>1, <3>3, <3>5, <1>n, ZenonT(60)
    <2>5. CASE PeekNothing
      <3>1. UNCHANGED <<segments, active, disk, crashes>> /\ lock # "writer" /\ (errors' = errors \/ errors' = errors + 1)
        BY <1>i, <2>5, Zenon DEF PeekNothing, IoError, ControlInv
      <3>2. UNCHANGED errors
        BY <1>t, <3>1, SMTT(60)
      <3> QED
        BY <2>3, <3>1, <3>2, Zenon
    <2>6. ASSUME NEW t \in BOOLEAN, Sweep(t) \/ DrainLoop(t) \/ Handover(t), lock # "writer"
          PROVE  UNCHANGED <<segments, active, disk, crashes, errors>>
      BY <2>6, SMTT(60) DEF Sweep, DrainLoop, Handover
    <2>7. ASSUME PeekLock \/ PeekEmpty \/ PeekFrame \/ commit_pending
          PROVE  UNCHANGED <<segments, active, disk, crashes, errors>>
      BY <2>7, SMTT(60) DEF PeekLock, PeekEmpty, PeekFrame, commit_pending
    <2> QED
      BY <1>4, <2>1, <2>3, <2>4, <2>5, <2>6, <2>7, Zenon DEF Drainer
  <1>5. CASE Writer
    <2>0. crashes = 0 /\ errors = 0
      BY <1>5, <1>t, WriterErrors
    <2>e. errors' # errors + 1
      BY <2>0
    <2>s. /\ segments # <<>> => active # NoActive
          /\ \A i \in DOMAIN segments : Durable(i) \/ Pending(i)
      BY <1>s, <2>0, Zenon
    <2>1. ASSUME NEW b \in Batch, WriterRecv(b)
          PROVE  lock # "writer" /\ UNCHANGED <<segments, active, disk>>
      BY <1>i, <2>1, Zenon DEF WriterRecv, ControlInv
    <2>2. ASSUME WriterLock PROVE lock # "writer" /\ UNCHANGED <<segments, active, disk>>
      BY <2>2, Zenon DEF WriterLock
    <2>3. CASE lock # "writer" /\ UNCHANGED <<segments, active, disk>>
      BY <2>s, <2>3, <1>n, Zenon
    <2>4. ASSUME NEW b \in Batch, WriterTryRecv(b)
          PROVE  wpc # "write" /\ UNCHANGED <<segments, active, disk, lock, since_sync>>
      BY <2>4, Zenon DEF WriterTryRecv
    <2>5. CASE wpc # "write" /\ UNCHANGED <<segments, active, disk, lock, since_sync>>
      BY <2>s, <2>5, <1>n, Zenon
    <2>6. CASE EnforceCap
      <3>1. UNCHANGED <<active, lock, wpc, since_sync>> /\ wpc # "write"
        BY <2>6, Zenon DEF EnforceCap
      <3>2. /\ disk' = [s \in DOMAIN disk \ {Oldest.seq} |-> disk[s]] /\ segments # <<>>
            /\ \A i \in DOMAIN segments' : i + 1 \in DOMAIN segments /\ segments'[i] = segments[i + 1]
            /\ DOMAIN segments' = 1..Len(segments) - 1 /\ Len(segments') = Len(segments) - 1
        BY <1>i, <2>6, OldestDropped, SMTT(60)
      <3>3. ASSUME NEW i \in DOMAIN segments' PROVE Durable(i)' \/ Pending(i)'
        <4>1. /\ 1 < i + 1 /\ 1 \in DOMAIN segments /\ i + 1 \in DOMAIN segments
              /\ i + 1 = Len(segments) => i = Len(segments')
          BY <3>2, SegType
        <4>2. segments[1].seq < segments[i + 1].seq /\ segments[1].seq \in Nat
          BY <1>i, <4>1, SegType, SMTT(60) DEF SeqInv
        <4>a. segments[i + 1].seq \in DOMAIN disk
          BY <1>i, <4>1, Zenon DEF DiskInv
        <4>b. segments[i + 1].seq # segments[1].seq /\ segments'[i].seq = segments[i + 1].seq
          BY <3>2, <4>1, <4>2
        <4>3. disk'[segments'[i].seq] = disk[segments[i + 1].seq]
          BY <3>2, <4>a, <4>b, Zenon DEF Oldest
        <4>4. Durable(i + 1) \/ Pending(i + 1)
          BY <2>s, <4>1, Zenon
        <4> QED
          BY <3>1, <3>2, <4>1, <4>3, <4>4, Zenon
      <3> QED
        BY <2>s, <3>1, <3>2, <3>3, <1>n, ZenonT(60)
    <2>7. CASE Rotate
      <3> DEFINE m == [seq |-> next_seq, bytes |-> SEGMENT_HEADER_LEN, base |-> NextBase]
      <3>1. UNCHANGED lock /\ lock = "writer" /\ wpc' = "write"
        BY <1>i, <2>7, SMTT(60) DEF Rotate, ControlInv
      <3>2. active'.seq = next_seq /\ next_seq \in Nat
        BY <2>7, Zenon DEF Rotate, TypeOK
      <3>3. active' # NoActive'
        BY <3>2 DEF NoActive, None
      <3>4. disk' = AddFile(DiskAfterRotate(TRUE), NewFile(TRUE))
        BY <2>7, <2>e, ZenonT(60) DEF Rotate, IoError
      <3>5. segments' = Append(segments, m) /\ m \in SegmentMeta /\ next_seq \notin DOMAIN disk
        BY <2>7, RotateEffect, Zenon
      <3> HIDE DEF m
      <3>6. /\ \A i \in DOMAIN segments : segments'[i] = segments[i]
            /\ \A i \in DOMAIN segments' : i \in DOMAIN segments \/ i = Len(segments) + 1
            /\ Len(segments') = Len(segments) + 1
        BY <3>5, OneMoreSegment, SMTT(60)
      <3>7. ASSUME NEW i \in DOMAIN segments PROVE Durable(i)'
        <4>1. segments[i].seq \in DOMAIN disk
          BY <1>i, Zenon DEF DiskInv
        <4>2. disk'[segments[i].seq] = DiskAfterRotate(TRUE)[segments[i].seq]
          BY <3>4, <3>5, <4>1, RotatedFiles, Zenon DEF AddFile
        <4>3. DiskAfterRotate(TRUE)[segments[i].seq].synced = segments[i].bytes
          BY <2>0, AllSynced, ZenonT(60)
        <4> QED
          BY <3>6, <4>2, <4>3, Zenon
      <3>8. ASSUME NEW i \in DOMAIN segments' PROVE Durable(i)' \/ Pending(i)'
        BY <3>1, <3>6, <3>7, Zenon
      <3> QED
        BY <3>3, <3>8, Zenon
    <2>8. CASE WriteFrame
      <3>1. lock = "writer" /\ UNCHANGED lock
        BY <1>i, <2>8, Zenon DEF WriteFrame, ReadyToWrite, ControlInv
      <3>2. since_sync' > 0
        BY <1>t, <2>8, SMTT(60) DEF WriteFrame, AppendReturns
      <3>3. /\ active.seq = Newest.seq /\ active' = [seq |-> active.seq, offset |-> active.offset + frame_len_on_disk(wbatch)]
            /\ active # NoActive /\ \A s \in DOMAIN disk : s # active.seq => disk'[s] = disk[s]
        BY <2>8, WriteEffect, ZenonT(60)
      <3>4. active' # NoActive'
        BY <3>3 DEF NoActive, TypeOK, None
      <3>5. /\ Len(segments') = Len(segments) /\ DOMAIN segments' = DOMAIN segments
            /\ Len(segments) \in DOMAIN segments
            /\ \A i \in DOMAIN segments :
                 /\ segments'[i].seq = segments[i].seq
                 /\ segments'[i].bytes = segments[i].bytes
                      + (IF i = Len(segments) THEN frame_len_on_disk(wbatch) ELSE 0)
        BY <2>8, LastSegmentGrows, SMTT(60)
      <3>6. ASSUME NEW i \in DOMAIN segments, i # Len(segments) PROVE Durable(i)'
        <4>1. segments[i].seq < Newest.seq /\ segments[i].seq \in Nat /\ segments[i].seq \in DOMAIN disk
          BY <1>i, <3>5, <3>6, SegType, SMTT(60) DEF SeqInv, DiskInv, Newest
        <4>a. active.seq = Newest.seq
          BY <3>3, Zenon
        <4>b. Newest.seq \in Nat
          BY <3>5, SegType, Zenon DEF Newest
        <4>2. segments[i].seq # active.seq
          BY ONLY <4>1, <4>a, <4>b
        <4>3. segments'[i].bytes = segments[i].bytes /\ segments'[i].seq = segments[i].seq
          BY <3>5, <3>6, SegType
        <4>4. Durable(i)
          BY <2>s, <3>6, SMTT(60)
        <4> QED
          BY <3>3, <4>1, <4>2, <4>3, <4>4, ZenonT(60)
      <3>7. ASSUME NEW i \in DOMAIN segments' PROVE Durable(i)' \/ Pending(i)'
        BY <3>1, <3>2, <3>5, <3>6, SMTT(60)
      <3> QED
        BY <3>4, <3>7, Zenon
    <2>9. CASE RotateFails \/ WriteFails
      BY <2>9, <2>e, ZenonT(60) DEF RotateFails, WriteFails, IoError
    <2>10. ASSUME UNCHANGED <<segments, active>>, disk' = DiskAfterRotate(TRUE)
           PROVE  /\ segments' # <<>> => active' # NoActive'
                  /\ \A i \in DOMAIN segments' : Durable(i)' \/ Pending(i)'
      BY <2>0, <2>s, <2>10, <1>n, AllSynced, ZenonT(60)
    <2>11. CASE BoundBurst
      <3>1. wpc # "write" /\ UNCHANGED <<segments, active, lock>>
        BY <2>11, Zenon DEF BoundBurst
      <3>2. \/ disk' = DiskAfterRotate(TRUE)
            \/ UNCHANGED <<disk, since_sync>>
        BY <2>11, <2>e, Zenon DEF BoundBurst, Sync, IoError
      <3> QED
        BY <2>5, <2>10, <3>1, <3>2, Zenon
    <2>12. CASE GroupCommit
      <3>1. wpc = "drain" /\ UNCHANGED <<segments, active>>
        BY <2>12, Zenon DEF GroupCommit
      <3>2. \/ disk' = DiskAfterRotate(TRUE)
            \/ UNCHANGED disk /\ ~(since_sync > 0)
        BY <2>12, <2>e, ZenonT(60) DEF GroupCommit, SyncTail, Sync, IoError
      <3>3. CASE UNCHANGED disk /\ ~(since_sync > 0)
        BY <2>s, <3>1, <3>3, <1>n, Zenon
      <3> QED
        BY <2>10, <3>1, <3>2, <3>3, Zenon
    <2> QED
      BY <1>5, <2>1, <2>2, <2>3, <2>4, <2>5, <2>6, <2>7, <2>8, <2>9, <2>11, <2>12, ZenonT(60) DEF Writer
  <1> QED
    BY <1>1, <1>2, <1>3, <1>4, <1>5, Zenon DEF Next, vars
-----------------------------------------------------------------------------
(* What is on stable storage. *)

\* An fdatasync of a filled file makes all of it durable.
LEMMA FilledSynced ==
  ASSUME TypeOK, NEW s \in DOMAIN disk, NEW len \in Nat, Filled(disk[s], len),
         NEW G, G.header = disk[s].header, G.frames = disk[s].frames, G.synced = len
  PROVE  SyncedOK(G)
  <1>1. \A f \in disk[s].frames : End(f) \in Nat
    BY FrameType, Zenon
  <1>2. /\ G.header /\ SEGMENT_HEADER_LEN <= len
        /\ len = SEGMENT_HEADER_LEN \/ \E f \in G.frames : f.off = SEGMENT_HEADER_LEN
        /\ \A f \in G.frames : End(f) = len \/ \E g \in G.frames : g.off = End(f)
        /\ \A f \in G.frames : End(f) <= len /\ End(f) \in Nat
    BY <1>1, SMTT(60) DEF Filled
  <1>3. \A f \in G.frames : End(f) = len \/ (End(f) < len /\ \E g \in G.frames : g.off = End(f))
    BY <1>2
  <1> QED
    BY <1>2, <1>3, Zenon DEF SyncedOK, SEGMENT_HEADER_LEN

\* The walk of recovery never stops before the end of what is durable.
LEMMA WalkKeepsSynced ==
  ASSUME TypeOK, NEW s \in DOMAIN disk, SyncedOK(disk[s]),
         NEW o \in Boundaries(disk[s]), WalkEndsAt(disk[s], o)
  PROVE  disk[s].synced <= o /\ o \in Nat /\ disk[s].synced \in Nat
  <1>1. disk[s].synced \in Nat
    BY SMTT(60) DEF TypeOK, File
  <1>2. \A f \in disk[s].frames :
          f.off \in Nat /\ End(f) \in Nat /\ f.off < End(f) /\ PayloadLen[f.batch] <= MaxFramePayload
    BY FrameType, FrameLen DEF FRAME_HEADER_LEN
  <1>a. o = SEGMENT_HEADER_LEN \/ \E f \in disk[s].frames : o = End(f)
    BY Zenon DEF Boundaries
  <1>3. o \in Nat
    BY <1>2, <1>a DEF SEGMENT_HEADER_LEN
  <1>b. {f \in disk[s].frames : f.off = o /\ PayloadLen[f.batch] <= MaxFramePayload} = {}
    BY Zenon DEF WalkEndsAt, read_frame_at
  <1>4. \A f \in disk[s].frames : f.off # o
    BY ONLY <1>2, <1>b, Zenon
  <1>5. SUFFICES ASSUME o < disk[s].synced PROVE FALSE
    BY <1>1, <1>3
  <1>6. disk[s].synced > 0
    BY <1>1, <1>3, <1>5, SMTT(60)
  <1>7. CASE o = SEGMENT_HEADER_LEN
    BY <1>1, <1>4, <1>5, <1>6, <1>7, SMTT(60) DEF SyncedOK, SEGMENT_HEADER_LEN
  <1>8. CASE o # SEGMENT_HEADER_LEN
    <2>1. PICK f \in disk[s].frames : o = End(f)
      BY <1>8, Zenon DEF Boundaries
    <2>2. f.off < disk[s].synced /\ End(f) # disk[s].synced
      BY <1>1, <1>2, <1>3, <1>5, <2>1
    <2> QED
      BY <1>4, <1>6, <2>1, <2>2, Zenon DEF SyncedOK
  <1> QED
    BY <1>7, <1>8, Zenon

\* What is durable stays a gapless prefix that no cut removes.
LEMMA DurableStep == TypeOK /\ TypeOK' /\ StoreInv /\ [Next]_vars => DurableInv'
  <1> SUFFICES ASSUME TypeOK, TypeOK', StoreInv, StoreStep \/ UNCHANGED storeVars PROVE DurableInv'
    BY StoreSteps, Zenon
  <1>i. DurableInv /\ DiskInv /\ SeqInv /\ CursorInv /\ ActiveInv
    BY Zenon DEF StoreInv
  <1>0. \A s \in DOMAIN disk : disk[s] \in File /\ disk[s].synced \in Nat
    BY SMTT(60) DEF TypeOK, File
  <1>1. CASE UNCHANGED <<segments, disk>>
    BY <1>1, <1>i, Zenon DEF DurableInv
  <1>r. ASSUME NEW ok \in BOOLEAN
        PROVE  /\ \A s \in DOMAIN disk : SyncedOK(DiskAfterRotate(ok)[s])
               /\ \A i \in DOMAIN segments :
                    DiskAfterRotate(ok)[segments[i].seq].synced <= segments[i].bytes
    <2> DEFINE d == DiskAfterRotate(ok)
    <2>1. \A s \in DOMAIN disk :
            /\ d[s].frames = disk[s].frames /\ d[s].header = disk[s].header
            /\ d[s].synced = IF ok /\ s = active.seq THEN active.offset ELSE disk[s].synced
      BY RotatedFiles, SMTT(60)
    <2> HIDE DEF d
    <2>2. ASSUME NEW s \in DOMAIN disk, s = active.seq
          PROVE  /\ active # NoActive /\ segments # <<>> /\ Len(segments) \in DOMAIN segments
                 /\ active.seq = segments[Len(segments)].seq
                 /\ active.offset = segments[Len(segments)].bytes /\ active.offset \in Nat
                 /\ Filled(disk[s], active.offset)
      <3>1. active # NoActive /\ active.offset \in Nat
        <4>1. s \in Nat /\ (active = NoActive \/ active \in [seq : Nat, offset : Nat])
          BY SMTT(60) DEF TypeOK
        <4> QED
          BY <2>2, <4>1, SMTT(60) DEF NoActive, None
      <3>2. /\ segments # <<>> /\ Len(segments) \in DOMAIN segments
            /\ active.seq = segments[Len(segments)].seq
            /\ active.offset = segments[Len(segments)].bytes
        BY <1>i, <3>1, SegType, Zenon DEF ActiveInv, Newest
      <3> QED
        BY <1>i, <2>2, <3>1, <3>2, Zenon DEF DiskInv
    <2>3. ASSUME NEW s \in DOMAIN disk PROVE SyncedOK(d[s])
      <3>1. CASE ok /\ s = active.seq
        BY <2>1, <2>2, <3>1, FilledSynced, SMTT(60)
      <3>2. CASE ~(ok /\ s = active.seq)
        <4>1. d[s].frames = disk[s].frames /\ d[s].header = disk[s].header /\ d[s].synced = disk[s].synced
          BY <2>1, <3>2, Zenon
        <4>2. SyncedOK(disk[s])
          BY <1>i, Zenon DEF DurableInv
        <4> QED
          BY <4>1, <4>2, Zenon DEF SyncedOK
      <3> QED
        BY <3>1, <3>2, Zenon
    <2>4. ASSUME NEW i \in DOMAIN segments PROVE d[segments[i].seq].synced <= segments[i].bytes
      <3>1. segments[i].seq \in DOMAIN disk
        BY <1>i, SMTT(60) DEF DiskInv
      <3>2. CASE ok /\ segments[i].seq = active.seq
        <4>a. /\ Len(segments) \in DOMAIN segments /\ i <= Len(segments)
              /\ segments[i].seq = segments[Len(segments)].seq /\ i \in Nat /\ Len(segments) \in Nat
          BY <2>2, <3>1, <3>2, SegType, Zenon
        <4>b. i < Len(segments) => segments[i].seq < segments[Len(segments)].seq
          BY <1>i, <4>a, Zenon DEF SeqInv
        <4>c. segments[i].seq \in Nat /\ segments[Len(segments)].seq \in Nat
          BY <4>a, SegType, Zenon
        <4>1. i = Len(segments)
          BY ONLY <4>a, <4>b, <4>c
        <4> QED
          BY <2>1, <2>2, <3>1, <3>2, <4>1, SMTT(60)
      <3>3. CASE ~(ok /\ segments[i].seq = active.seq)
        BY <1>i, <2>1, <3>1, <3>3, SMTT(60) DEF DurableInv
      <3> QED
        BY <3>2, <3>3, Zenon
    <2> QED
      BY <2>3, <2>4, SMTT(60) DEF d
  <1>2. CASE EnforceCap \/ gc_front_consumed
    <2>1. /\ disk' = [s \in DOMAIN disk \ {Oldest.seq} |-> disk[s]] /\ 1 \in DOMAIN segments
          /\ \A i \in DOMAIN segments' : i + 1 \in DOMAIN segments /\ segments'[i] = segments[i + 1]
          /\ DOMAIN segments' = 1..Len(segments) - 1
      BY <1>2, <1>i, OldestDropped, Zenon
    <2>2. ASSUME NEW i \in DOMAIN segments' PROVE disk'[segments'[i].seq] = disk[segments[i + 1].seq]
      <3>1. 1 < i + 1 /\ i + 1 \in DOMAIN segments
        BY <2>1, SegType, SMTT(60)
      <3>2. segments[1].seq < segments[i + 1].seq /\ segments[1].seq \in Nat
        BY <1>i, <2>1, <3>1, SegType, Zenon DEF SeqInv
      <3> QED
        BY <1>i, <2>1, <3>1, <3>2 DEF DiskInv, Oldest
    <2> QED
      BY <1>i, <2>1, <2>2, ZenonT(60) DEF DurableInv
  <1>3. CASE Rotate
    <2> DEFINE m == [seq |-> next_seq, bytes |-> SEGMENT_HEADER_LEN, base |-> NextBase]
    <2>1. PICK ok \in BOOLEAN : disk' = AddFile(DiskAfterRotate(ok), NewFile(TRUE))
      BY <1>3, ZenonT(60) DEF Rotate
    <2>2. /\ DOMAIN disk' = DOMAIN disk \cup {next_seq} /\ next_seq \notin DOMAIN disk
          /\ disk'[next_seq] = NewFile(TRUE)
          /\ segments' = Append(segments, m) /\ m \in SegmentMeta
      BY <1>3, RotateEffect, Zenon
    <2>3. \A s \in DOMAIN disk : disk'[s] = DiskAfterRotate(ok)[s]
      BY <2>1, <2>2, RotatedFiles, ZenonT(60) DEF AddFile
    <2>4. NewFile(TRUE).synced = 0 /\ SyncedOK(NewFile(TRUE)) /\ m.seq = next_seq /\ m.bytes = 16
      BY DEF NewFile, SyncedOK, SEGMENT_HEADER_LEN
    <2> HIDE DEF m
    <2>5. /\ \A i \in DOMAIN segments : segments'[i] = segments[i]
          /\ \A i \in DOMAIN segments' : i \in DOMAIN segments \/ i = Len(segments) + 1
          /\ segments'[Len(segments) + 1] = m
      BY <2>2, OneMoreSegment, Zenon
    <2>6. ASSUME NEW i \in DOMAIN segments' PROVE disk'[segments'[i].seq].synced <= segments'[i].bytes
      <3>1. CASE i \in DOMAIN segments
        <4>1. segments[i].seq \in DOMAIN disk
          BY <1>i, <3>1, Zenon DEF DiskInv
        <4> QED
          BY <1>r, <2>3, <2>5, <3>1, <4>1, SMTT(60)
      <3>2. CASE i = Len(segments) + 1
        <4>1. segments'[i].seq = next_seq /\ segments'[i].bytes = 16
          BY <2>4, <2>5, <3>2, Zenon
        <4>2. disk'[segments'[i].seq].synced = 0
          BY <2>2, <2>4, <4>1, Zenon
        <4> QED
          BY <4>1, <4>2
      <3> QED
        BY <2>5, <3>1, <3>2, SMTT(60)
    <2>7. ASSUME NEW s \in DOMAIN disk' PROVE SyncedOK(disk'[s])
      BY <1>r, <2>2, <2>3, <2>4, ZenonT(60)
    <2> QED
      BY <2>6, <2>7, Zenon DEF DurableInv
  <1>4. CASE RotateFails
    <2>1. PICK ok \in BOOLEAN :
            disk' = DiskAfterRotate(ok) \/ disk' = AddFile(DiskAfterRotate(ok), NewFile(FALSE))
      BY <1>4, Zenon DEF RotateFails
    <2>2. /\ DOMAIN disk \subseteq DOMAIN disk' /\ UNCHANGED segments /\ next_seq \notin DOMAIN disk
          /\ \A s \in DOMAIN disk' \ DOMAIN disk : disk'[s] = NewFile(FALSE)
      BY <1>4, RotateFailsEffect, Zenon
    <2>3. \A s \in DOMAIN disk : disk'[s] = DiskAfterRotate(ok)[s]
      BY <2>1, <2>2, RotatedFiles, ZenonT(60) DEF AddFile
    <2>4. SyncedOK(NewFile(FALSE))
      BY DEF NewFile, SyncedOK
    <2>5. \A i \in DOMAIN segments : segments[i].seq \in DOMAIN disk
      BY <1>i, Zenon DEF DiskInv
    <2>6. ASSUME NEW s \in DOMAIN disk' PROVE SyncedOK(disk'[s])
      BY <1>r, <2>2, <2>3, <2>4, ZenonT(60)
    <2> QED
      BY <1>r, <2>2, <2>3, <2>5, <2>6, Zenon DEF DurableInv
  <1>5. CASE WriteFrame
    <2> DEFINE s == active.seq
               f == [off |-> active.offset, batch |-> wbatch, batch_seq |-> next_batch_seq]
    <2>1. /\ s = segments[Len(segments)].seq /\ active.offset = segments[Len(segments)].bytes
          /\ s \in DOMAIN disk /\ active.offset \in Nat
          /\ DOMAIN disk' = DOMAIN disk
          /\ \A t \in DOMAIN disk : t # s => disk'[t] = disk[t]
          /\ disk'[s].header = disk[s].header /\ disk'[s].synced = disk[s].synced
          /\ disk'[s].frames = disk[s].frames \cup {f} /\ wbatch \in Batch
      BY <1>5, WriteEffect, Zenon DEF Newest
    <2>2. /\ Len(segments) \in DOMAIN segments /\ DOMAIN segments' = DOMAIN segments
          /\ \A i \in DOMAIN segments :
              /\ segments'[i].seq = segments[i].seq
              /\ segments'[i].bytes = segments[i].bytes
                   + (IF i = Len(segments) THEN frame_len_on_disk(wbatch) ELSE 0)
      BY <1>5, LastSegmentGrows, SMTT(60)
    <2>3. SyncedOK(disk[s]) /\ disk[s].synced <= active.offset
      BY <1>i, <2>1, <2>2, ZenonT(60) DEF DurableInv
    <2>4. f.off = active.offset
      BY SMTT(60)
    <2> HIDE DEF s, f
    <2>a. disk[s].synced \in Nat
      BY <2>1, Zenon DEF TypeOK, File
    <2>5. ~(f.off < disk[s].synced)
      BY ONLY <2>1, <2>3, <2>4, <2>a
    <2>6. SyncedOK(disk'[s])
      BY <2>1, <2>3, <2>5, ZenonT(60) DEF SyncedOK
    <2>7. \A i \in DOMAIN segments : segments[i].seq \in DOMAIN disk
      BY <1>i, SMTT(60) DEF DiskInv
    <2>8. \A t \in DOMAIN disk : disk'[t].synced = disk[t].synced
      BY <2>1, SMTT(60)
    <2>9. ASSUME NEW i \in DOMAIN segments' PROVE disk'[segments'[i].seq].synced <= segments'[i].bytes
      <3>1. disk[segments[i].seq].synced <= segments[i].bytes /\ disk[segments[i].seq].synced \in Nat
        BY <1>0, <1>i, <2>2, <2>7, SMTT(60) DEF DurableInv
      <3>2. disk'[segments'[i].seq].synced = disk[segments[i].seq].synced
        BY <2>2, <2>7, <2>8, SMTT(60)
      <3>3. segments[i].bytes \in Nat /\ frame_len_on_disk(wbatch) \in Nat
        BY <2>1, <2>2, SegType, FrameLen, ZenonT(60)
      <3>4. segments'[i].bytes = segments[i].bytes
              \/ segments'[i].bytes = segments[i].bytes + frame_len_on_disk(wbatch)
        BY <2>2, <3>3, SMTT(60)
      <3> QED
        BY ONLY <3>1, <3>2, <3>3, <3>4, SMTT(60)
    <2>10. \A t \in DOMAIN disk' : SyncedOK(disk'[t])
      BY <1>i, <2>1, <2>6, Zenon DEF DurableInv
    <2> QED
      BY <2>9, <2>10, Zenon DEF DurableInv
  <1>6. CASE BoundBurst \/ GroupCommit
    <2>1. (disk' = disk \/ disk' = DiskAfterRotate(TRUE)) /\ UNCHANGED segments
      BY <1>6, Zenon DEF BoundBurst, GroupCommit, SyncTail, Sync
    <2>2. CASE disk' = DiskAfterRotate(TRUE)
      BY <1>r, <2>1, <2>2, RotatedFiles, Zenon DEF DurableInv
    <2> QED
      BY <1>1, <2>1, <2>2, Zenon
  <1>7. ASSUME NEW s \in found, RecoverSegment(s) PROVE DurableInv'
    <2>1. PICK o \in Boundaries(disk[s]) :
            /\ o \in Nat /\ WalkEndsAt(disk[s], o)
            /\ disk' = [disk EXCEPT ![s].frames = {f \in disk[s].frames : f.off < o}]
            /\ segments' = Append(segments, [seq |-> s, bytes |-> o, base |-> NextBase])
      BY <1>7, WalkEffect, Zenon
    <2> DEFINE m == [seq |-> s, bytes |-> o, base |-> NextBase]
    <2>2. s \in DOMAIN disk /\ s \in Nat /\ \A i \in DOMAIN segments : segments[i].seq # s
      BY <1>i, FoundFresh, Zenon
    <2>3. m \in SegmentMeta /\ m.seq = s /\ m.bytes = o /\ segments' = Append(segments, m)
      BY <2>1, <2>2, SegType, Zenon DEF SegmentMeta
    <2> HIDE DEF m
    <2>4. /\ \A i \in DOMAIN segments : segments'[i] = segments[i]
          /\ \A i \in DOMAIN segments' : i \in DOMAIN segments \/ i = Len(segments) + 1
          /\ segments'[Len(segments) + 1] = m
      BY <2>3, OneMoreSegment, Zenon
    <2>5. /\ DOMAIN disk' = DOMAIN disk /\ \A t \in DOMAIN disk : t # s => disk'[t] = disk[t]
          /\ disk'[s] = [disk[s] EXCEPT !.frames = {f \in disk[s].frames : f.off < o}]
      BY <2>1, <2>2, Zenon
    <2>6. /\ disk'[s].header = disk[s].header /\ disk'[s].synced = disk[s].synced
          /\ disk'[s].frames = {f \in disk[s].frames : f.off < o}
      BY <1>0, <2>2, <2>5, Zenon DEF File
    <2>7. disk[s].synced <= o /\ disk[s].synced \in Nat /\ SyncedOK(disk[s])
      BY <1>i, <2>1, <2>2, WalkKeepsSynced, SMTT(60) DEF DurableInv
    <2>8. SyncedOK(disk'[s])
      <3>1. \A f \in disk[s].frames : f.off \in Nat /\ End(f) \in Nat
        BY <2>2, FrameType, Zenon
      <3>2. \A f \in disk[s].frames : f.off < disk[s].synced => f \in disk'[s].frames
        BY <2>1, <2>6, <2>7, <3>1
      <3>3. disk[s].synced <= SEGMENT_HEADER_LEN \/ SEGMENT_HEADER_LEN < disk[s].synced
        BY <2>7, SMTT(60) DEF SEGMENT_HEADER_LEN
      <3> QED
        BY <2>6, <2>7, <3>2, <3>3, ZenonT(60) DEF SyncedOK
    <2>9. ASSUME NEW i \in DOMAIN segments' PROVE disk'[segments'[i].seq].synced <= segments'[i].bytes
      <3>1. CASE i = Len(segments) + 1
        BY <2>3, <2>4, <2>6, <2>7, <3>1, Zenon
      <3>2. CASE i \in DOMAIN segments
        BY <1>i, <2>2, <2>4, <2>5, <3>2, Zenon DEF DurableInv, DiskInv
      <3> QED
        BY <2>4, <3>1, <3>2, SMTT(60)
    <2> QED
      BY <1>i, <2>5, <2>8, <2>9, Zenon DEF DurableInv
  <1>8. ASSUME NEW s \in found, RecoverDrops(s) PROVE DurableInv'
    <2>1. (disk' = [t \in DOMAIN disk \ {s} |-> disk[t]] \/ disk' = disk) /\ UNCHANGED segments
      BY <1>8, Zenon DEF RecoverDrops
    <2>2. \A i \in DOMAIN segments : segments[i].seq # s /\ segments[i].seq \in DOMAIN disk
      BY <1>i, FoundFresh, Zenon DEF DiskInv
    <2> QED
      BY <1>i, <2>1, <2>2, SMTT(60) DEF DurableInv
  <1>9. CASE Crash
    <2>1. /\ DOMAIN disk' \subseteq DOMAIN disk /\ segments' = <<>>
          /\ \A s \in DOMAIN disk' : Survives(disk[s], disk'[s])
      BY <1>9, CrashEffect, ZenonT(60) DEF Crash
    <2>2. ASSUME NEW s \in DOMAIN disk' PROVE SyncedOK(disk'[s])
      <3>1. SyncedOK(disk[s]) /\ s \in DOMAIN disk
        BY <1>i, <2>1, Zenon DEF DurableInv
      <3>2. /\ disk'[s].synced = disk[s].synced /\ disk'[s].frames \subseteq disk[s].frames
            /\ \A f \in disk[s].frames : f.off < disk[s].synced => f \in disk'[s].frames
            /\ disk[s].synced > 0 => disk'[s].header = disk[s].header
        BY <2>1, Zenon DEF Survives
      <3>3. disk[s].synced <= SEGMENT_HEADER_LEN \/ SEGMENT_HEADER_LEN < disk[s].synced
        BY <1>0, <3>1 DEF SEGMENT_HEADER_LEN
      <3> QED
        BY <3>1, <3>2, <3>3, ZenonT(60) DEF SyncedOK
    <2> QED
      BY <2>1, <2>2, SMTT(60) DEF DurableInv
  <1>10. CASE PeekFrame \/ PeekNothing \/ commit_pending \/ RecoverFinish
    BY <1>1, <1>10, Zenon DEF PeekFrame, PeekNothing, commit_pending, RecoverFinish
  <1> QED
    BY <1>1, <1>2, <1>3, <1>4, <1>5, <1>6, <1>7, <1>8, <1>9, <1>10, Zenon DEF StoreStep, storeVars

-----------------------------------------------------------------------------
\* The empty log satisfies the invariant.
LEMMA StoreInit == Init => StoreInv
  <1> SUFFICES ASSUME Init PROVE StoreInv
    BY Zenon
  <1>1. segments = <<>> /\ DOMAIN segments = {} /\ DOMAIN disk = {} /\ found = {} /\ next_seq = 0
    BY DEF Init
  <1>2. SeqInv /\ DiskInv
    BY <1>1, SMTT(60) DEF SeqInv, DiskInv
  <1>3. BytesInv /\ ActiveInv /\ RoomInv /\ SyncInv
    BY <1>1, SMTT(60) DEF Init, BytesInv, ActiveInv, RoomInv, SyncInv
  <1>a. CursorInv
    BY <1>1, SMTT(60) DEF Init, CursorInv
  <1>b. ControlInv
    BY <1>1, SMTT(60) DEF Init, ControlInv
  <1>5. DurableInv
    BY <1>1, Zenon DEF DurableInv
  <1>6. PositionInv
    BY Zenon DEF Init, PositionInv
  <1> QED
    BY <1>2, <1>3, <1>a, <1>b, <1>5, <1>6, Zenon DEF StoreInv

\* Together with the types the structural invariant is inductive.
LEMMA StoreInductive ==
  TypeOK /\ StoreInv /\ [Next]_vars => TypeOK' /\ StoreInv'
  BY TypeStep, SeqStep, DiskStep, BytesStep, ActiveStep, PositionStep, CursorStep, ControlStep,
     RoomStep, SyncStep, DurableStep, Zenon DEF StoreInv

\* TypeCorrect: every variable of WalInner, of the writer thread, of the drainer
\* and of the directory keeps its type, whatever the configuration.
THEOREM TypeCorrect == Spec => []TypeOK
  <1>1. Init => TypeOK /\ StoreInv
    BY TypeInit, StoreInit, Zenon
  <1>2. TypeOK /\ StoreInv /\ [Next]_vars => (TypeOK /\ StoreInv)'
    BY StoreInductive, Zenon
  <1> QED
    BY <1>1, <1>2, PTL DEF Spec

\* StoreCorrect: segment files, in-memory metadata, active segment, byte count and
\* read cursor of WalInner agree at every point of every interleaving of writer
\* thread, drainer, crash and recovery, with any number of crashes and I/O errors.
THEOREM StoreCorrect == Spec => []StoreInv
  <1>1. Init => TypeOK /\ StoreInv
    BY TypeInit, StoreInit, Zenon
  <1>2. TypeOK /\ StoreInv /\ [Next]_vars => (TypeOK /\ StoreInv)'
    BY StoreInductive, Zenon
  <1> QED
    BY <1>1, <1>2, PTL DEF Spec

\* GroupCommitDurable: whenever the writer thread does not hold the mutex, every
\* frame of a live segment is on stable storage, as long as the process has not
\* crashed and no I/O error was reported.
THEOREM GroupCommitDurable == Spec => []DurableAtRest
  <1>1. StoreInv => DurableAtRest
    BY Zenon DEF StoreInv, SyncInv, DurableAtRest
  <1> QED
    BY <1>1, StoreCorrect, PTL
-----------------------------------------------------------------------------
(* The two promises the rest of the agent relies on: the log stays within its *)
(* hard cap, and no frame leaves the backlog without a reason.                *)

\* An append returns within the cap, or with at most two segments left.
LEMMA CapStep == TypeOK /\ StoreInv /\ CapBound /\ [Next]_vars => CapBound'
  <1> SUFFICES ASSUME TypeOK, StoreInv, CapBound, [Next]_vars, wpc' \in {"bound", "drain"}
               PROVE  \/ total_bytes' <= MaxBytes + SEGMENT_HEADER_LEN
                      \/ /\ Len(segments') <= 2
                         /\ total_bytes' <= MaxSegmentLen + SEGMENT_HEADER_LEN + MaxFrameLen
    BY Zenon DEF CapBound
  <1>0. total_bytes \in Nat /\ Len(segments) \in Nat /\ MaxBytes \in Nat
    BY SegType, WalConfigAssumption, Zenon DEF TypeOK
  <1>1. CASE UNCHANGED <<segments, total_bytes, wpc>>
    BY <1>1, Zenon DEF CapBound
  <1>2. CASE RotateFails \/ WriteFrame \/ WriteFails
    <2>1. /\ wpc = "write" \/ (wpc = "cap" /\ ~OverCap)
          /\ \/ UNCHANGED <<segments, total_bytes>>
             \/ /\ WriteFrame /\ total_bytes' = total_bytes + frame_len_on_disk(wbatch)
      BY <1>2, Zenon DEF RotateFails, WriteFrame, WriteFails, ReadyToWrite
    <2>2. Len(segments') = Len(segments)
      BY <2>1, LastSegmentGrows, Zenon
    <2>3. wbatch \in Batch
      BY <2>1, Zenon DEF StoreInv, ControlInv
    <2>4. frame_len_on_disk(wbatch) \in Nat /\ frame_len_on_disk(wbatch) <= MaxFrameLen
      BY <2>3, FrameLen, Zenon
    <2>5. \/ total_bytes + frame_len_on_disk(wbatch) <= MaxBytes + SEGMENT_HEADER_LEN
          \/ Len(segments) <= 2 /\ total_bytes <= MaxSegmentLen + SEGMENT_HEADER_LEN
      <3>1. CASE wpc = "write"
        BY <3>1, Zenon DEF StoreInv, RoomInv
      <3>2. CASE ~OverCap
        <4>1. CASE Len(segments) <= 1
          <5>1. total_bytes <= MaxSegmentLen
            BY <4>1, OneSegment, Zenon
          <5> QED
            BY <1>0, <4>1, <5>1, MaxSegment DEF SEGMENT_HEADER_LEN
        <4>2. CASE ~(Len(segments) <= 1)
          BY <1>0, <2>4, <3>2, <4>2 DEF OverCap, SEGMENT_HEADER_LEN
        <4> QED
          BY <4>1, <4>2, Zenon
      <3> QED
        BY <2>1, <3>1, <3>2, Zenon
    <2>6. total_bytes' = total_bytes \/ total_bytes' = total_bytes + frame_len_on_disk(wbatch)
      BY <2>1, Zenon
    <2>7. MaxSegmentLen \in Nat /\ MaxFrameLen \in Nat /\ SEGMENT_HEADER_LEN \in Nat
      BY MaxSegment, Zenon DEF SEGMENT_HEADER_LEN
    <2> QED
      BY ONLY <1>0, <2>2, <2>4, <2>5, <2>6, <2>7
  <1>3. CASE BoundBurst
    <2>1. wpc = "bound" /\ UNCHANGED <<segments, total_bytes>>
      BY <1>3, Zenon DEF BoundBurst
    <2> QED
      BY <2>1, Zenon DEF CapBound
  <1>4. CASE Writer
    <2>1. ~(\E b \in Batch : WriterRecv(b) \/ WriterTryRecv(b))
      BY Zenon DEF WriterRecv, WriterTryRecv
    <2>2. ~WriterLock /\ ~Rotate /\ ~GroupCommit
      BY Zenon DEF WriterLock, Rotate, GroupCommit
    <2>3. ~EnforceCap
      BY Zenon DEF EnforceCap, writerVars
    <2> QED
      BY <1>2, <1>3, <1>4, <2>1, <2>2, <2>3, Zenon DEF Writer
  <1>5. CASE Drainer \/ Recovery
    <2>1. UNCHANGED wpc
      BY <1>5, WriterStays, Zenon
    <2>2. UNCHANGED <<segments, total_bytes>>
      BY <1>5, <2>1, WriterAlone, Zenon DEF StoreInv
    <2> QED
      BY <1>1, <2>1, <2>2, Zenon
  <1>6. CASE Crash
    BY <1>6, Zenon DEF Crash
  <1>7. CASE UNCHANGED vars
    BY <1>1, <1>7, Zenon DEF vars, walVars, writerVars
  <1> QED
    BY <1>4, <1>5, <1>6, <1>7, Zenon DEF Next

\* CapRespected: after every append, successful or not, the log is within the
\* hard cap plus one segment header, unless drop-oldest has nothing left to drop
\* (enforce_cap followed by rotate and the write in append_one).
THEOREM CapRespected == Spec => []CapBound
  <1>1. Init => CapBound
    BY Zenon DEF Init, CapBound
  <1> QED
    BY <1>1, CapStep, TypeCorrect, StoreCorrect, PTL DEF Spec

-----------------------------------------------------------------------------
\* A frame is owed: it is in a known file, at or after the read cursor.
Owed(s, f) ==
  /\ s \in Seqs \cup found /\ f \in disk[s].frames
  /\ s > read_seq \/ (s = read_seq /\ f.off >= read_offset)

\* The backlog is the set of the frames that are owed.
LEMMA BacklogOwed ==
  /\ \A x \in Backlog : \E s, f : x = <<s, f>> /\ Owed(s, f)
  /\ \A s, f : Owed(s, f) => <<s, f>> \in Backlog
  /\ \A s, f : Owed(s, f)' => <<s, f>> \in Backlog'
  <1>1. \A x \in Backlog : \E s, f : x = <<s, f>> /\ Owed(s, f)
    <2> SUFFICES ASSUME NEW x \in Backlog PROVE \E s, f : x = <<s, f>> /\ Owed(s, f)
      BY Zenon
    <2>1. PICK s \in Seqs \cup found : \E f \in disk[s].frames : x = <<s, f>>
      BY Zenon DEF Backlog
    <2>2. PICK f \in disk[s].frames : x = <<s, f>>
      BY <2>1, Zenon
    <2>3. x[1] > read_seq \/ (x[1] = read_seq /\ x[2].off >= read_offset)
      BY Zenon DEF Backlog
    <2> QED
      BY <2>2, <2>3, Zenon DEF Owed
  <1>2. ASSUME NEW s, NEW f, Owed(s, f)' PROVE <<s, f>> \in Backlog'
    BY <1>2 DEF Backlog, Owed
  <1>3. ASSUME NEW s, NEW f, Owed(s, f) PROVE <<s, f>> \in Backlog
    BY <1>3 DEF Backlog, Owed
  <1> QED
    BY <1>1, <1>2, <1>3, Zenon

\* Why a frame may leave the backlog.
Reason(s, f) ==
  \/ commit_pending /\ pending_advance # None /\ s = read_seq /\ f.off = read_offset
  \/ EnforceCap /\ s = Oldest.seq
  \/ "recovering" \in {mode, mode'} /\ (f.off >= disk[s].synced \/ errors' > errors)

\* No step takes a frame out of the backlog without one of these reasons.
LEMMA LossStep ==
  ASSUME TypeOK, TypeOK', StoreInv, [Next]_vars, NEW s, NEW f, Owed(s, f)
  PROVE  Owed(s, f)' \/ Reason(s, f)
  <1>i. DiskInv /\ SeqInv /\ CursorInv /\ ControlInv /\ DurableInv /\ ActiveInv
    BY Zenon DEF StoreInv
  <1>s. StoreStep \/ UNCHANGED storeVars
    BY StoreSteps, Zenon
  <1>0. /\ s \in DOMAIN disk /\ s \in Nat
        /\ s \in found \/ \E i \in DOMAIN segments : s = segments[i].seq
    BY <1>i, SegType, Zenon DEF Owed, Seqs, TypeOK, DiskInv
  <1>1. /\ f \in disk[s].frames /\ f.off \in Nat /\ End(f) \in Nat /\ f.off < End(f)
        /\ f.off >= SEGMENT_HEADER_LEN
        /\ read_seq \in Nat /\ read_offset \in Nat /\ disk[s].synced \in Nat /\ errors \in Nat
    <2>1. f \in disk[s].frames
      BY Zenon DEF Owed
    <2>2. f.off \in Nat /\ End(f) \in Nat /\ f.off < End(f)
      BY <1>0, <2>1, FrameType DEF FRAME_HEADER_LEN
    <2>3. f.off >= SEGMENT_HEADER_LEN
      BY <1>0, <1>i, <2>1, Zenon DEF DiskInv, FileOK
    <2> QED
      BY <1>0, <2>1, <2>2, <2>3, Zenon DEF TypeOK, File
  <1>2. s > read_seq \/ (s = read_seq /\ f.off >= read_offset)
    BY Zenon DEF Owed
  <1>3. CASE /\ UNCHANGED <<read_seq, read_offset>>
             /\ s \in (Seqs \cup found)' /\ f \in disk'[s].frames
    BY <1>2, <1>3, Zenon DEF Owed
  <1>4. CASE UNCHANGED storeVars
    BY <1>3, <1>4, Zenon DEF storeVars, Owed, Seqs
  <1>5. CASE EnforceCap \/ gc_front_consumed
    <2>1. /\ segments # <<>> /\ 1 \in DOMAIN segments /\ Len(segments) \in Nat
          /\ DOMAIN segments = 1..Len(segments) /\ DOMAIN segments' = 1..Len(segments) - 1
          /\ \A i \in DOMAIN segments' : i + 1 \in DOMAIN segments /\ segments'[i] = segments[i + 1]
          /\ disk' = [t \in DOMAIN disk \ {Oldest.seq} |-> disk[t]]
      BY <1>5, <1>i, OldestDropped, SegType, ZenonT(60)
    <2>2. found = {} /\ found' = {} /\ (wpc = "cap" \/ dpc = "peek")
      BY <1>5, <1>i, Up, Zenon DEF EnforceCap, gc_front_consumed, processVars
    <2>3. PICK i \in DOMAIN segments : s = segments[i].seq
      BY <1>0, <2>2, Zenon
    <2>4. CASE s # Oldest.seq
      <3>1. i # 1 /\ i \in Nat /\ 1 < i
        BY <2>1, <2>3, <2>4, SegType DEF Oldest
      <3>2. i - 1 \in DOMAIN segments' /\ segments'[i - 1] = segments[i]
        BY <2>1, <3>1
      <3>3. s \in Seqs' /\ f \in disk'[s].frames
        BY <1>0, <1>1, <2>1, <2>3, <2>4, <3>2, Zenon DEF Seqs
      <3>4. 2 \in DOMAIN segments /\ 1 \in DOMAIN segments' /\ segments'[1] = segments[2]
            /\ segments[2].seq <= s
        <4>1. 2 \in DOMAIN segments /\ 1 \in DOMAIN segments' /\ segments'[1] = segments[2]
          BY <2>1, <3>1
        <4>2. segments[2].seq \in Nat /\ (i = 2 \/ 2 < i)
          BY <3>1, <4>1, SegType
        <4>3. 2 < i => segments[2].seq < segments[i].seq
          BY <1>i, <4>1, Zenon DEF SeqInv
        <4> QED
          BY <1>0, <2>3, <4>1, <4>2, <4>3
      <3>5. \/ UNCHANGED <<read_seq, read_offset>>
            \/ read_seq' = segments[2].seq /\ read_offset' = SEGMENT_HEADER_LEN
        <4>1. CASE EnforceCap
          BY <4>1, Zenon DEF EnforceCap, CursorAfterDrop, cursor
        <4>2. CASE gc_front_consumed
          <5>1. segments' # <<>>
            BY <3>4
          <5>2. read_seq' = segments'[1].seq /\ read_offset' = SEGMENT_HEADER_LEN
            BY <4>2, <5>1, Zenon DEF gc_front_consumed
          <5> QED
            BY <3>4, <5>2, Zenon
        <4> QED
          BY <1>5, <4>1, <4>2, Zenon
      <3>6. segments[2].seq \in Nat
        BY <3>4, SegType, Zenon
      <3> QED
        BY <1>0, <1>1, <1>3, <3>3, <3>4, <3>5, <3>6 DEF Owed, SEGMENT_HEADER_LEN
    <2>5. CASE s = Oldest.seq /\ EnforceCap
      BY <2>5, Zenon DEF Reason
    <2>6. CASE s = Oldest.seq /\ gc_front_consumed
      <3>1. PeekSeq = s /\ AtEnd /\ s = segments[1].seq
        BY <1>i, <2>1, <2>6, PeekOldest, Zenon DEF gc_front_consumed, Oldest
      <3>2. Filled(disk[s], segments[1].bytes) /\ segments[1].bytes \in Nat /\ s \in Seqs
        BY <1>i, <2>1, <3>1, SegType, Zenon DEF DiskInv, Seqs
      <3>3. End(f) <= segments[1].bytes
        BY <1>1, <3>2, Zenon DEF Filled
      <3>4. PeekOffset = segments[1].bytes \/ \E g \in disk[s].frames : g.off = PeekOffset
        <4>1. CASE read_seq \in Seqs
          BY <1>i, <2>1, <2>6, <3>1, <4>1, Zenon DEF CursorInv, PeekSeq, PeekOffset, Oldest
        <4>2. CASE read_seq \notin Seqs
          BY <1>i, <2>1, <3>1, <4>2, SegmentStart, Zenon DEF PeekOffset
        <4> QED
          BY <4>1, <4>2, Zenon
      <3>5. \A g \in disk[s].frames : g.off # PeekOffset
        BY <1>0, <3>1, FrameType, FrameLen, Zenon DEF AtEnd, read_frame_at
      <3>6. PeekOffset <= f.off
        <4>1. CASE read_seq \in Seqs
          BY <1>1, <1>2, <3>1, <4>1 DEF PeekSeq, PeekOffset
        <4>2. CASE read_seq \notin Seqs
          BY <1>1, <4>2, Zenon DEF PeekOffset
        <4> QED
          BY <4>1, <4>2, Zenon
      <3>7. PeekOffset = segments[1].bytes
        BY <3>4, <3>5, Zenon
      <3>8. FALSE
        BY <1>1, <3>2, <3>3, <3>6, <3>7
      <3> QED
        BY <3>8, Zenon
    <2> QED
      BY <1>5, <2>4, <2>5, <2>6, SMTT(60)
  <1>6. CASE Rotate
    <2>1. /\ found = {} /\ UNCHANGED <<read_seq, read_offset>>
          /\ disk'[s].frames = disk[s].frames
      BY <1>0, <1>6, RotateEffect, Zenon
    <2>2. \A i \in DOMAIN segments : i \in DOMAIN segments' /\ segments'[i] = segments[i]
      BY <1>6, RotateEffect, OneMoreSegment, Zenon
    <2> QED
      BY <1>0, <1>1, <1>3, <2>1, <2>2, Zenon DEF Seqs
  <1>7. CASE RotateFails
    <2>1. /\ UNCHANGED <<segments, read_seq, read_offset>> /\ found = {}
          /\ disk'[s].frames = disk[s].frames
      BY <1>0, <1>7, RotateFailsEffect, Zenon
    <2> QED
      BY <1>0, <1>1, <1>3, <2>1, Zenon DEF Seqs
  <1>8. CASE WriteFrame
    <2>1. UNCHANGED <<read_seq, read_offset, found>>
      BY <1>8, Zenon DEF WriteFrame, cursor, processVars
    <2>2. DOMAIN segments' = DOMAIN segments
          /\ \A i \in DOMAIN segments : segments'[i].seq = segments[i].seq
      BY <1>8, LastSegmentGrows, Zenon
    <2>3. f \in disk'[s].frames
      BY <1>0, <1>1, <1>8, WriteEffect, Zenon
    <2> QED
      BY <1>0, <1>3, <2>1, <2>2, <2>3, Zenon DEF Seqs
  <1>9. CASE BoundBurst \/ GroupCommit
    <2>1. /\ UNCHANGED <<segments, read_seq, read_offset, found>>
          /\ disk'[s].frames = disk[s].frames
      BY <1>0, <1>9, SyncEffect, Zenon
    <2> QED
      BY <1>0, <1>1, <1>3, <2>1, Zenon DEF Seqs
  <1>10. CASE PeekFrame \/ PeekNothing
    <2>1. /\ UNCHANGED <<segments, disk, found>> /\ segments # <<>> /\ dpc = "peek"
          /\ read_seq' = PeekSeq /\ read_offset' = PeekOffset
      BY <1>10, Zenon DEF PeekFrame, PeekNothing, processVars
    <2>2. found = {} /\ PeekSeq = Oldest.seq /\ PeekSeq \in Nat /\ PeekOffset \in Nat
      BY <1>i, <2>1, Up, PeekOldest, PeekSegment, Zenon
    <2>3. PICK i \in DOMAIN segments : s = segments[i].seq
      BY <1>0, <2>2, Zenon
    <2>4. s = PeekSeq \/ s > PeekSeq
      <3>1. i \in Nat /\ (i = 1 \/ 1 < i) /\ 1 \in DOMAIN segments
        BY <2>1, SegType
      <3>2. 1 < i => segments[1].seq < segments[i].seq
        BY <1>i, <3>1, Zenon DEF SeqInv
      <3> QED
        BY <2>2, <2>3, <3>1, <3>2, Zenon DEF Oldest
    <2>5. s \in Seqs' /\ f \in disk'[s].frames
      BY <1>1, <2>1, <2>3, Zenon DEF Seqs
    <2>6. s = PeekSeq => f.off >= PeekOffset
      <3>1. CASE read_seq \in Seqs
        BY <1>1, <1>2, <3>1 DEF PeekSeq, PeekOffset
      <3>2. CASE read_seq \notin Seqs
        BY <1>1, <3>2, Zenon DEF PeekOffset
      <3> QED
        BY <3>1, <3>2, Zenon
    <2> QED
      BY <2>1, <2>4, <2>5, <2>6, Zenon DEF Owed
  <1>11. CASE commit_pending
    <2>1. /\ UNCHANGED <<segments, disk, found, read_seq>> /\ dpc = "commit"
          /\ read_offset' = Advanced
      BY <1>11, Zenon DEF commit_pending, processVars
    <2>2. s \in (Seqs \cup found)' /\ f \in disk'[s].frames
      BY <1>1, <2>1, Zenon DEF Owed, Seqs
    <2>3. CASE pending_advance = None
      BY <1>3, <2>1, <2>2, <2>3, Zenon DEF Advanced
    <2>4. CASE s > read_seq
      BY <2>1, <2>2, <2>4, Zenon DEF Owed
    <2>5. CASE pending_advance # None /\ s = read_seq /\ f.off = read_offset
      BY <1>11, <2>5, Zenon DEF Reason
    <2>6. CASE pending_advance # None /\ s = read_seq /\ f.off > read_offset
      <3>1. PICK g \in disk[s].frames : g.off = read_offset /\ pending_advance = End(g)
        BY <1>i, <2>6, Zenon DEF CursorInv
      <3>2. End(g) <= f.off \/ End(f) <= g.off \/ f = g
        BY <1>0, <1>1, <1>i, Zenon DEF DiskInv, FileOK
      <3>3. f # g /\ ~(End(f) <= g.off)
        BY <1>1, <2>6, <3>1
      <3>4. End(g) <= f.off /\ End(g) \in Nat
        BY <1>0, <3>1, <3>2, <3>3, FrameType, Zenon
      <3>5. read_offset' = End(g)
        BY <2>1, <2>6, <3>1, Zenon DEF Advanced
      <3> QED
        BY <1>1, <2>1, <2>2, <2>6, <3>4, <3>5, Zenon DEF Owed
    <2> QED
      BY <1>1, <1>2, <2>3, <2>4, <2>5, <2>6
  <1>12. ASSUME NEW t \in found, RecoverSegment(t) PROVE Owed(s, f)' \/ Reason(s, f)
    <2>1. PICK o \in Boundaries(disk[t]) :
            /\ o \in Nat /\ WalkEndsAt(disk[t], o)
            /\ disk' = [disk EXCEPT ![t].frames = {g \in disk[t].frames : g.off < o}]
            /\ segments' = Append(segments, [seq |-> t, bytes |-> o, base |-> NextBase])
      BY <1>12, WalkEffect, ZenonT(60)
    <2> DEFINE m == [seq |-> t, bytes |-> o, base |-> NextBase]
    <2>2. t \in DOMAIN disk /\ t \in Nat
      BY <1>i, FoundFresh, Zenon
    <2>3. m \in SegmentMeta /\ m.seq = t /\ segments' = Append(segments, m)
      BY <2>1, <2>2, SegType, Zenon DEF SegmentMeta
    <2> HIDE DEF m
    <2>4. /\ \A i \in DOMAIN segments : i \in DOMAIN segments' /\ segments'[i] = segments[i]
          /\ Len(segments) + 1 \in DOMAIN segments' /\ segments'[Len(segments) + 1] = m
      BY <2>3, OneMoreSegment, SegType
    <2>5. found' = found \ {t} /\ mode = "recovering" /\ UNCHANGED <<read_seq, read_offset>>
      BY <1>12, Zenon DEF RecoverSegment, cursor
    <2>6. s \in (Seqs \cup found)'
      BY <1>0, <2>3, <2>4, <2>5, Zenon DEF Seqs
    <2>7. CASE s # t \/ f.off < o
      <3>1. f \in disk'[s].frames
        <4>1. s # t => disk'[s] = disk[s]
          BY <1>0, <2>1, Zenon
        <4>2. disk[t] \in File
          BY <2>2, Zenon DEF TypeOK
        <4>3. disk'[t].frames = {g \in disk[t].frames : g.off < o}
          BY <2>1, <2>2, <4>2, Zenon DEF File
        <4> QED
          BY <1>1, <2>7, <4>1, <4>3, Zenon
      <3> QED
        BY <1>3, <2>5, <2>6, <3>1, Zenon
    <2>8. CASE s = t /\ ~(f.off < o)
      <3>1. disk[s].synced <= o
        BY <1>0, <1>i, <2>1, <2>8, WalkKeepsSynced, Zenon DEF DurableInv
      <3>2. f.off >= disk[s].synced
        BY <1>1, <2>1, <2>8, <3>1
      <3> QED
        BY <2>5, <3>2, Zenon DEF Reason
    <2> QED
      BY <2>7, <2>8, Zenon
  <1>13. ASSUME NEW t \in found, RecoverDrops(t) PROVE Owed(s, f)' \/ Reason(s, f)
    <2>1. /\ UNCHANGED <<segments, read_seq, read_offset>> /\ mode = "recovering"
          /\ found' = found \ {t}
          /\ \/ /\ disk' = [u \in DOMAIN disk \ {t} |-> disk[u]]
                /\ ~disk[t].header \/ errors' = errors + 1
             \/ errors' = errors + 1
      BY <1>13, Zenon DEF RecoverDrops, cursor, IoError
    <2>2. CASE errors' = errors + 1
      BY <1>1, <2>1, <2>2 DEF Reason
    <2>3. CASE errors' # errors + 1 /\ s # t
      BY <1>0, <1>1, <1>3, <2>1, <2>3, Zenon DEF Seqs
    <2>4. CASE errors' # errors + 1 /\ s = t
      <3>1. ~disk[s].header
        BY <2>1, <2>4, Zenon
      <3>2. ~(disk[s].synced > 0)
        BY <1>0, <1>i, <3>1, Zenon DEF DurableInv, SyncedOK
      <3>3. f.off >= disk[s].synced
        BY <1>1, <3>2
      <3> QED
        BY <2>1, <3>3, Zenon DEF Reason
    <2> QED
      BY <2>2, <2>3, <2>4, Zenon
  <1>14. CASE RecoverFinish
    <2>1. /\ UNCHANGED <<segments, disk, found, read_offset>> /\ found = {} /\ mode = "recovering"
          /\ read_seq' = ReplayFrom
      BY <1>14, Zenon DEF RecoverFinish
    <2>2. PICK i \in DOMAIN segments : s = segments[i].seq
      BY <1>0, <2>1, Zenon
    <2>3. i \in Nat /\ (i = 1 \/ 1 < i) /\ 1 \in DOMAIN segments /\ segments # <<>>
          /\ segments[1].seq \in Nat
      BY <2>2, SegType
    <2>4. 1 < i => segments[1].seq < segments[i].seq
      BY <1>i, <2>3, Zenon DEF SeqInv
    <2>5. s = read_seq' \/ s > read_seq'
      BY <2>1, <2>2, <2>3, <2>4, Zenon DEF ReplayFrom, Oldest
    <2>6. read_offset' = SEGMENT_HEADER_LEN
      BY <1>i, <2>1, Zenon DEF ControlInv
    <2>7. s \in Seqs' /\ f \in disk'[s].frames
      BY <1>1, <2>1, <2>2, Zenon DEF Seqs
    <2> QED
      BY <1>1, <2>5, <2>6, <2>7, Zenon DEF Owed
  <1>15. CASE Crash
    <2>1. mode' = "recovering" /\ read_seq' = 0 /\ read_offset' = SEGMENT_HEADER_LEN
      BY <1>15, Zenon DEF Crash
    <2>2. CASE f.off >= disk[s].synced
      BY <2>1, <2>2, Zenon DEF Reason
    <2>3. CASE f.off < disk[s].synced
      <3>1. s \in DOMAIN disk' /\ s \in found'
        BY <1>0, <1>1, <1>15, <2>3, CrashEffect
      <3>2. f \in disk'[s].frames
        BY <1>1, <1>15, <2>3, <3>1, CrashEffect, Zenon DEF Survives
      <3> QED
        BY <1>0, <1>1, <2>1, <3>1, <3>2 DEF Owed
    <2> QED
      BY <1>1, <2>2, <2>3
  <1> QED
    BY <1>s, <1>4, <1>5, <1>6, <1>7, <1>8, <1>9, <1>10, <1>11, <1>12, <1>13, <1>14, <1>15, Zenon DEF StoreStep

\* NothingLostSilently: a spilled batch leaves the backlog only when it was handed
\* over and the cursor is committed over it, when drop-oldest takes its segment,
\* when it was unsynced at a crash, or when an I/O error is reported
\* (append_one, peek_next, commit_pending, enforce_cap and recover together).
THEOREM NothingLostSilently == Spec => NoSilentLoss
  <1> DEFINE Lost == \A x \in Backlog \ Backlog' :
                       \/ dpc = "commit" /\ x[1] = read_seq /\ x[2].off = read_offset
                       \/ wpc = "cap" /\ OverCap /\ x[1] = Oldest.seq
                       \/ "recovering" \in {mode, mode'} /\ Unsynced(x)
                       \/ errors' > errors
  <1>1. TypeOK /\ TypeOK' /\ StoreInv /\ [Next]_vars => [Lost]_vars
    <2> SUFFICES ASSUME TypeOK, TypeOK', StoreInv, [Next]_vars, NEW x \in Backlog \ Backlog'
                 PROVE  \/ dpc = "commit" /\ x[1] = read_seq /\ x[2].off = read_offset
                        \/ wpc = "cap" /\ OverCap /\ x[1] = Oldest.seq
                        \/ "recovering" \in {mode, mode'} /\ Unsynced(x)
                        \/ errors' > errors
      BY Zenon DEF Lost
    <2>1. PICK s, f : x = <<s, f>> /\ Owed(s, f)
      BY BacklogOwed, Zenon
    <2>2. x[1] = s /\ x[2] = f
      BY <2>1, Zenon
    <2>3. ~Owed(s, f)'
      BY <2>1, BacklogOwed, Zenon
    <2>4. Reason(s, f)
      BY <2>1, <2>3, LossStep, Zenon
    <2> QED
      BY <2>2, <2>4, Zenon DEF Reason, Unsynced, commit_pending, EnforceCap
  <1> QED
    BY <1>1, TypeCorrect, StoreCorrect, PTL DEF Spec, NoSilentLoss, Lost

-----------------------------------------------------------------------------
(* What a step does to the frames, the threads' hands and the known files, for *)
(* the user of the log.                                                       *)

\* A frame on disk was there before, or the writer has just appended it.
LEMMA NewFrames ==
  ASSUME TypeOK, StoreInv, [Next]_vars, NEW s \in DOMAIN disk', NEW f \in disk'[s].frames
  PROVE  \/ s \in DOMAIN disk /\ f \in disk[s].frames
         \/ /\ WriteFrame /\ s = active.seq
            /\ f.off = active.offset /\ f.batch = wbatch
  <1>i. SeqInv /\ CursorInv /\ ControlInv
    BY Zenon DEF StoreInv
  <1>1. CASE UNCHANGED disk
    BY <1>1, Zenon
  <1>2. CASE EnforceCap \/ gc_front_consumed
    <2>1. disk' = [t \in DOMAIN disk \ {Oldest.seq} |-> disk[t]]
      BY <1>2, <1>i, OldestDropped, Zenon
    <2> QED
      BY <2>1, Zenon
  <1>3. CASE Rotate
    <2>1. /\ \A t \in DOMAIN disk : disk'[t].frames = disk[t].frames
          /\ DOMAIN disk' = DOMAIN disk \cup {next_seq}
          /\ disk'[next_seq] = NewFile(TRUE)
      BY <1>3, RotateEffect, Zenon
    <2>2. NewFile(TRUE).frames = {}
      BY Zenon DEF NewFile
    <2> QED
      BY <2>1, <2>2, Zenon
  <1>4. CASE RotateFails
    <2>1. /\ \A t \in DOMAIN disk : disk'[t].frames = disk[t].frames
          /\ \A t \in DOMAIN disk' \ DOMAIN disk : disk'[t] = NewFile(FALSE)
      BY <1>4, RotateFailsEffect, Zenon
    <2>2. NewFile(FALSE).frames = {}
      BY Zenon DEF NewFile
    <2> QED
      BY <2>1, <2>2, Zenon
  <1>5. CASE WriteFrame
    <2> DEFINE g == [off |-> active.offset, batch |-> wbatch, batch_seq |-> next_batch_seq]
    <2>1. /\ DOMAIN disk' = DOMAIN disk
          /\ \A t \in DOMAIN disk : t # active.seq => disk'[t] = disk[t]
          /\ disk'[active.seq].frames = disk[active.seq].frames \cup {g}
      BY <1>5, WriteEffect, Zenon
    <2>2. g.off = active.offset /\ g.batch = wbatch
      BY Zenon
    <2> HIDE DEF g
    <2> QED
      BY <1>5, <2>1, <2>2, Zenon
  <1>6. CASE BoundBurst \/ GroupCommit
    BY <1>6, SyncEffect, Zenon
  <1>7. ASSUME NEW t \in found, RecoverSegment(t)
        PROVE  s \in DOMAIN disk /\ f \in disk[s].frames
    <2>1. PICK o : disk' = [disk EXCEPT ![t].frames = {g \in disk[t].frames : g.off < o}]
      BY <1>7, WalkEffect, ZenonT(60)
    <2>2. t \in DOMAIN disk /\ disk[t] \in File /\ DOMAIN disk' = DOMAIN disk
      BY <1>i, <2>1, FoundFresh, Zenon DEF TypeOK
    <2>3. /\ s # t => disk'[s] = disk[s]
          /\ disk'[t].frames = {g \in disk[t].frames : g.off < o}
      BY <2>1, <2>2, Zenon DEF File
    <2> QED
      BY <2>2, <2>3, Zenon
  <1>8. ASSUME NEW t \in found, RecoverDrops(t)
        PROVE  s \in DOMAIN disk /\ f \in disk[s].frames
    <2>1. UNCHANGED disk \/ disk' = [u \in DOMAIN disk \ {t} |-> disk[u]]
      BY <1>8, Zenon DEF RecoverDrops
    <2> QED
      BY <1>1, <2>1, Zenon
  <1>9. CASE Crash
    BY <1>9, CrashEffect, Zenon DEF Survives
  <1>10. CASE PeekFrame \/ PeekNothing \/ commit_pending \/ RecoverFinish
    BY <1>1, <1>10, Zenon DEF PeekFrame, PeekNothing, commit_pending, RecoverFinish
  <1> QED
    BY <1>1, <1>2, <1>3, <1>4, <1>5, <1>6, <1>7, <1>8, <1>9, <1>10, StoreSteps, Zenon DEF StoreStep, storeVars

\* Every frame of a known file is owed.
AllOwed == \A s \in Seqs \cup found : \A f \in disk[s].frames : Owed(s, f)

\* Nothing is consumed while the cursor is at the start of a segment.
LEMMA StartOwed == TypeOK /\ StoreInv /\ read_offset = SEGMENT_HEADER_LEN => AllOwed
  <1> SUFFICES ASSUME TypeOK, StoreInv, read_offset = SEGMENT_HEADER_LEN,
                      NEW s \in Seqs \cup found, NEW f \in disk[s].frames
               PROVE  Owed(s, f)
    BY Zenon DEF AllOwed
  <1>1. s \in DOMAIN disk /\ s \in Nat /\ read_seq \in Nat
    BY SegType, Zenon DEF StoreInv, DiskInv, TypeOK, Seqs
  <1>2. f.off \in Nat /\ f.off >= SEGMENT_HEADER_LEN
    BY <1>1, FrameType, Zenon DEF StoreInv, DiskInv, FileOK
  <1>3. read_seq <= s
    <2>1. CASE s \in Seqs
      BY <2>1, Zenon DEF Seqs, StoreInv, CursorInv
    <2>2. CASE s \in found
      <3>1. mode # "up"
        BY <2>2, Zenon DEF StoreInv, ControlInv
      <3>2. read_seq = 0
        BY <3>1, Zenon DEF StoreInv, ControlInv
      <3> QED
        BY <1>1, <3>2
    <2> QED
      BY <2>1, <2>2, Zenon
  <1> QED
    BY <1>1, <1>2, <1>3 DEF Owed

\* What the writer appends is owed.
LEMMA AppendOwed ==
  ASSUME TypeOK, StoreInv, WriteFrame, NEW s, s = active.seq, NEW f \in disk'[s].frames,
         f.off = active.offset
  PROVE  Owed(s, f)'
  <1>i. SeqInv /\ DiskInv /\ CursorInv
    BY Zenon DEF StoreInv
  <1>1. /\ segments # <<>> /\ active.seq = Newest.seq /\ active.offset = Newest.bytes
        /\ active.offset \in Nat
    BY WriteEffect, Zenon
  <1>2. UNCHANGED <<read_seq, read_offset, found>>
    BY Zenon DEF WriteFrame, cursor, processVars
  <1>3. Len(segments) \in DOMAIN segments /\ DOMAIN segments' = DOMAIN segments
        /\ segments'[Len(segments)].seq = segments[Len(segments)].seq
    BY LastSegmentGrows, Zenon
  <1>4. active.seq \in Seqs' /\ active.seq = segments[Len(segments)].seq
    BY <1>1, <1>3, Zenon DEF Newest, Seqs
  <1>5. active.seq \in Nat /\ read_seq \in Nat /\ read_offset \in Nat /\ read_seq <= active.seq
    BY <1>3, <1>4, <1>i, SegType, Zenon DEF CursorInv, TypeOK
  <1>6. ASSUME read_seq = active.seq PROVE read_offset <= active.offset
    <2>1. 1 \in DOMAIN segments /\ Len(segments) \in Nat /\ segments[1].seq \in Nat
      BY <1>1, SegType, Zenon
    <2>2. Len(segments) = 1
      <3>1. read_seq <= segments[1].seq
        BY <1>i, <2>1, Zenon DEF CursorInv
      <3>2. 1 < Len(segments) => segments[1].seq < segments[Len(segments)].seq
        BY <1>3, <1>i, <2>1, Zenon DEF SeqInv
      <3> QED
        BY <1>3, <1>4, <1>5, <1>6, <2>1, <3>1, <3>2, SegType
    <2>3. Oldest = Newest
      BY <2>2, Zenon DEF Oldest, Newest
    <2>4. read_offset = Oldest.bytes \/ \E g \in disk[Oldest.seq].frames : g.off = read_offset
      BY <1>1, <1>6, <1>i, <2>3, Zenon DEF CursorInv
    <2>5. CASE read_offset = Oldest.bytes
      BY <1>1, <2>3, <2>5
    <2>6. ASSUME NEW g \in disk[Oldest.seq].frames, g.off = read_offset PROVE read_offset <= active.offset
      <3>1. Oldest.seq \in DOMAIN disk /\ Filled(disk[Oldest.seq], Oldest.bytes)
        BY <1>i, <2>1, Zenon DEF DiskInv, Oldest
      <3>2. End(g) <= Oldest.bytes
        BY <3>1, Zenon DEF Filled
      <3>3. g.off \in Nat /\ End(g) \in Nat /\ g.off < End(g)
        BY <3>1, FrameType DEF FRAME_HEADER_LEN
      <3> QED
        BY <1>1, <2>3, <2>6, <3>2, <3>3
    <2> QED
      BY <2>4, <2>5, <2>6, Zenon
  <1> QED
    BY <1>1, <1>2, <1>4, <1>5, <1>6 DEF Owed

\* How the steps of the log change the threads' hands.
LEMMA Hands ==
  ASSUME TypeOK, StoreInv, [Next]_vars
  PROVE  /\ \/ UNCHANGED <<wpc, wbatch>>
            \/ wbatch' = wbatch /\ (wpc \in {"lock", "cap", "write"} <=> wpc' \in {"lock", "cap", "write"})
            \/ wbatch' = NoBatch /\ wpc' \notin {"lock", "cap", "write"}
            \/ \E b \in Batch : WriterRecv(b) \/ WriterTryRecv(b)
         /\ \/ dpc' # "send"
            \/ UNCHANGED <<dpc, dbatch>>
            \/ \E s \in DOMAIN disk : \E f \in disk[s].frames : dbatch' = f.batch
  <1> USE DEF writerVars, drainerVars
  <1>1. CASE Writer
    <2>1. ASSUME NEW b \in Batch, WriterRecv(b) \/ WriterTryRecv(b)
          PROVE  UNCHANGED <<dpc, dbatch>>
      BY <2>1, Zenon DEF WriterRecv, WriterTryRecv
    <2>2. CASE WriterLock \/ EnforceCap \/ Rotate
      BY <2>2, Zenon DEF WriterLock, EnforceCap, Rotate
    <2>3. CASE RotateFails \/ WriteFrame \/ WriteFails
      BY <2>3, Zenon DEF RotateFails, WriteFrame, WriteFails, AppendReturns
    <2>4. CASE BoundBurst \/ GroupCommit
      BY <2>4, Zenon DEF BoundBurst, GroupCommit
    <2> QED
      BY <1>1, <2>1, <2>2, <2>3, <2>4, Zenon DEF Writer
  <1>2. CASE Drainer
    <2>1. UNCHANGED <<wpc, wbatch>>
      <3>1. ASSUME NEW t \in BOOLEAN, Sweep(t) \/ DrainLoop(t) \/ Handover(t)
            PROVE  UNCHANGED <<wpc, wbatch>>
        BY <3>1, SMTT(60) DEF Sweep, DrainLoop, Handover
      <3>2. CASE PeekLock \/ PeekEmpty \/ PeekFrame \/ PeekNothing \/ gc_front_consumed \/ commit_pending
        BY <3>2, Zenon DEF PeekLock, PeekEmpty, PeekFrame, PeekNothing, gc_front_consumed, commit_pending
      <3> QED
        BY <1>2, <3>1, <3>2, Zenon DEF Drainer
    <2>2. CASE PeekFrame
      <3>1. PICK f \in read_frame_at(disk[PeekSeq], PeekOffset) : dbatch' = f.batch
        BY <2>2, Zenon DEF PeekFrame
      <3>2. PeekSeq \in DOMAIN disk /\ f \in disk[PeekSeq].frames
        BY <2>2, <3>1, PeekSegment, Zenon DEF PeekFrame, StoreInv, DiskInv, read_frame_at
      <3> QED
        BY <2>1, <3>1, <3>2, Zenon
    <2>3. ASSUME NEW t \in BOOLEAN, Sweep(t) \/ DrainLoop(t) \/ Handover(t) PROVE dpc' # "send"
      BY <2>3, SMTT(60) DEF Sweep, DrainLoop, Handover
    <2>4. CASE PeekLock \/ PeekEmpty \/ PeekNothing \/ gc_front_consumed \/ commit_pending
      BY <2>1, <2>4, Zenon DEF PeekLock, PeekEmpty, PeekNothing, PeekReturnsNone, gc_front_consumed, commit_pending
    <2> QED
      BY <1>2, <2>1, <2>2, <2>3, <2>4, Zenon DEF Drainer
  <1>3. CASE Recovery
    <2>1. ASSUME NEW s \in found, RecoverSegment(s) \/ RecoverDrops(s)
          PROVE  UNCHANGED <<wpc, wbatch, dpc, dbatch>>
      BY <2>1, Zenon DEF RecoverSegment, RecoverDrops
    <2>2. CASE RecoverFinish \/ RecoverFails
      BY <2>2, Zenon DEF RecoverFinish, RecoverFails
    <2> QED
      BY <1>3, <2>1, <2>2, Zenon DEF Recovery
  <1>4. CASE Crash
    BY <1>4, Zenon DEF Crash
  <1>5. CASE UNCHANGED vars
    BY <1>5, Zenon DEF vars
  <1> QED
    BY <1>1, <1>2, <1>3, <1>4, <1>5, Zenon DEF Next

\* While a frame is between peek and commit, the cursor and the frame stay.
LEMMA CursorFrame ==
  ASSUME TypeOK, TypeOK', StoreInv, StoreInv', [Next]_vars, ~PeekFrame,
         dpc' \in {"send", "commit"}, pending_advance' # None
  PROVE  /\ pending_advance # None /\ UNCHANGED <<read_seq, read_offset>>
         /\ \/ UNCHANGED <<dpc, dbatch>>
            \/ dpc = "send" /\ dpc' = "commit"
         /\ \A f \in disk'[read_seq].frames : f.off = read_offset => f \in disk[read_seq].frames
  <1>i. CursorInv /\ ControlInv /\ DiskInv /\ CursorInv' /\ DiskInv'
    BY Zenon DEF StoreInv
  <1>1. /\ UNCHANGED cursor
        /\ UNCHANGED <<dpc, dbatch>> \/ (dpc = "send" /\ dpc' = "commit")
    <2> USE DEF cursor, drainerVars, walVars
    <2>1. CASE Writer
      <3>1. ASSUME NEW b \in Batch, WriterRecv(b) \/ WriterTryRecv(b)
            PROVE  UNCHANGED <<cursor, dpc, dbatch>>
        BY <3>1, Zenon DEF WriterRecv, WriterTryRecv
      <3>2. CASE EnforceCap
        BY <3>2, Zenon DEF EnforceCap, CursorAfterDrop
      <3>3. CASE WriterLock \/ Rotate \/ BoundBurst \/ GroupCommit
        BY <3>3, Zenon DEF WriterLock, Rotate, BoundBurst, GroupCommit
      <3>4. CASE RotateFails \/ WriteFrame \/ WriteFails
        BY <3>4, Zenon DEF RotateFails, WriteFrame, WriteFails
      <3> QED
        BY <2>1, <3>1, <3>2, <3>3, <3>4, Zenon DEF Writer
    <2>2. CASE Drainer
      <3>1. ASSUME NEW t \in BOOLEAN, Sweep(t) \/ DrainLoop(t) PROVE FALSE
        BY <3>1, Zenon DEF Sweep, DrainLoop
      <3>2. ASSUME NEW t \in BOOLEAN, Handover(t)
            PROVE  UNCHANGED cursor /\ dpc = "send" /\ dpc' = "commit"
        BY <3>2, Zenon DEF Handover
      <3>3. ~(PeekLock \/ PeekEmpty \/ PeekNothing \/ gc_front_consumed \/ commit_pending)
        BY Zenon DEF PeekLock, PeekEmpty, PeekNothing, PeekReturnsNone, gc_front_consumed, commit_pending
      <3> QED
        BY <2>2, <3>1, <3>2, <3>3, Zenon DEF Drainer
    <2>3. CASE Recovery
      <3>1. mode = "recovering"
        BY <2>3, Zenon DEF Recovery, RecoverSegment, RecoverDrops, RecoverFinish, RecoverFails
      <3>2. dpc = "sweep"
        BY <1>i, <3>1, Zenon DEF ControlInv
      <3>3. dpc' = dpc
        BY <2>3, Zenon DEF Recovery, RecoverSegment, RecoverDrops, RecoverFinish, RecoverFails
      <3> QED
        BY <3>2, <3>3, Zenon
    <2>4. CASE Crash
      BY <2>4, Zenon DEF Crash
    <2>5. CASE UNCHANGED vars
      BY <2>5, Zenon DEF vars
    <2> QED
      BY <2>1, <2>2, <2>3, <2>4, <2>5, Zenon DEF Next
  <1>2. UNCHANGED <<read_seq, read_offset, pending_advance>>
    BY <1>1, Zenon DEF cursor
  <1>3. /\ read_seq \in DOMAIN disk /\ read_seq \in DOMAIN disk'
        /\ \E g \in disk[read_seq].frames : g.off = read_offset
    <2>1. segments # <<>> /\ read_seq = Oldest.seq /\ segments' # <<>> /\ read_seq = (Oldest.seq)'
          /\ \E g \in disk[Oldest.seq].frames : g.off = read_offset
      BY <1>2, <1>i, Zenon DEF CursorInv
    <2>2. 1 \in DOMAIN segments
      BY <2>1, SegType, Zenon
    <2>3. 1 \in DOMAIN segments'
      BY <2>1, FirstIn, Zenon DEF TypeOK
    <2> QED
      BY <1>i, <2>1, <2>2, <2>3, Zenon DEF DiskInv, Oldest
  <1>4. ASSUME NEW f \in disk'[read_seq].frames, f.off = read_offset
        PROVE  f \in disk[read_seq].frames
    <2>1. CASE WriteFrame
      <3>1. PICK g \in disk[read_seq].frames : g.off = read_offset
        BY <1>3, Zenon
      <3>2. g \in disk'[read_seq].frames
        <4>1. read_seq # active.seq => disk'[read_seq] = disk[read_seq]
          BY <1>3, <2>1, WriteEffect, Zenon
        <4>2. disk[active.seq].frames \subseteq disk'[active.seq].frames
          BY <2>1, WriteEffect, Zenon
        <4> QED
          BY <3>1, <4>1, <4>2, Zenon
      <3>3. f = g \/ End(f) <= g.off \/ End(g) <= f.off
        BY <1>3, <1>i, <3>2, Zenon DEF DiskInv, FileOK
      <3>4. f \in Frame /\ g \in Frame
        BY <1>3, <3>1, <3>2, Zenon DEF TypeOK, File
      <3>5. f.off < End(f) /\ g.off < End(g) /\ f.off \in Nat /\ g.off \in Nat /\ End(f) \in Nat /\ End(g) \in Nat
        BY <3>4, FrameLen DEF Frame, End, FRAME_HEADER_LEN
      <3>6. f = g
        BY <1>4, <3>1, <3>3, <3>5
      <3> QED
        BY <3>1, <3>6, Zenon
    <2>2. CASE ~WriteFrame
      BY <1>3, <2>2, NewFrames, Zenon
    <2> QED
      BY <2>1, <2>2, Zenon
  <1> QED
    BY <1>1, <1>2, <1>4, Zenon

\* A crash is counted, and nothing else changes the count.
LEMMA CrashCount ==
  ASSUME TypeOK, [Next]_vars
  PROVE  crashes \in Nat /\ (crashes' = crashes \/ Crash) /\ (crashes' = 0 => crashes' = crashes)
  <1> USE DEF processVars
  <1>1. crashes \in Nat
    BY Zenon DEF TypeOK
  <1>2. CASE Writer
    BY <1>1, <1>2, WriterErrors, Zenon
  <1>3. CASE Drainer
    <2>1. ASSUME NEW t \in BOOLEAN, Sweep(t) \/ DrainLoop(t) \/ Handover(t) PROVE UNCHANGED crashes
      BY <2>1, SMTT(60) DEF Sweep, DrainLoop, Handover
    <2>2. ASSUME PeekLock \/ PeekEmpty \/ PeekFrame \/ PeekNothing \/ gc_front_consumed \/ commit_pending
          PROVE  UNCHANGED crashes
      BY <2>2, Zenon DEF PeekLock, PeekEmpty, PeekFrame, PeekNothing, gc_front_consumed, commit_pending
    <2> QED
      BY <1>1, <1>3, <2>1, <2>2, Zenon DEF Drainer
  <1>4. CASE Recovery
    BY <1>1, <1>4, Zenon DEF Recovery, RecoverSegment, RecoverDrops, RecoverFinish, RecoverFails
  <1>5. CASE Crash
    <2>1. crashes' = crashes + 1
      BY <1>5, Zenon DEF Crash
    <2> QED
      BY ONLY <1>1, <1>5, <2>1
  <1>6. CASE UNCHANGED vars
    BY <1>1, <1>6, Zenon DEF vars
  <1> QED
    BY <1>2, <1>3, <1>4, <1>5, <1>6, Zenon DEF Next

\* A pending advance is in a file on disk.
LEMMA PendingSegment ==
  ASSUME TypeOK, StoreInv, pending_advance # None
  PROVE  read_seq \in DOMAIN disk /\ read_seq \in Seqs
  <1>1. segments # <<>> /\ read_seq = Oldest.seq
    BY Zenon DEF StoreInv, CursorInv
  <1>2. 1 \in DOMAIN segments
    BY <1>1, SegType, Zenon
  <1> QED
    BY <1>1, <1>2, Zenon DEF StoreInv, DiskInv, Oldest, Seqs

\* I/O errors are counted.
LEMMA ErrorCount ==
  ASSUME TypeOK, [Next]_vars
  PROVE  errors \in Nat /\ errors' \in {errors, errors + 1}
  <1>1. errors \in Nat
    BY Zenon DEF TypeOK
  <1>2. CASE Writer
    BY <1>1, <1>2, WriterErrors, Zenon
  <1>3. CASE Drainer
    <2>1. ASSUME NEW t \in BOOLEAN, Sweep(t) \/ DrainLoop(t) \/ Handover(t) PROVE UNCHANGED errors
      BY <2>1, SMTT(60) DEF Sweep, DrainLoop, Handover
    <2>2. ASSUME PeekLock \/ PeekEmpty \/ PeekFrame \/ gc_front_consumed \/ commit_pending
          PROVE  UNCHANGED errors
      BY <2>2, Zenon DEF PeekLock, PeekEmpty, PeekFrame, gc_front_consumed, commit_pending
    <2>3. ASSUME PeekNothing PROVE errors' \in {errors, errors + 1}
      BY <2>3, Zenon DEF PeekNothing, IoError
    <2> QED
      BY <1>1, <1>3, <2>1, <2>2, <2>3, Zenon DEF Drainer
  <1>4. CASE Recovery
    BY <1>1, <1>4, Zenon DEF Recovery, RecoverSegment, RecoverDrops, RecoverFinish, RecoverFails, IoError
  <1>5. CASE Crash
    BY <1>1, <1>5, Zenon DEF Crash
  <1>6. CASE UNCHANGED vars
    BY <1>1, <1>6, Zenon DEF vars
  <1> QED
    BY <1>2, <1>3, <1>4, <1>5, <1>6, Zenon DEF Next

\* What is on stable storage in a file that stays is never less.
LEMMA SyncedKept ==
  ASSUME TypeOK, StoreInv, [Next]_vars, NEW s \in DOMAIN disk, s \in DOMAIN disk'
  PROVE  disk[s].synced \in Nat /\ disk'[s].synced \in Nat /\ disk[s].synced <= disk'[s].synced
  <1>i. SeqInv /\ CursorInv /\ ControlInv
    BY Zenon DEF StoreInv
  <1>0. disk[s] \in File /\ disk[s].synced \in Nat
    BY Zenon DEF TypeOK, File
  <1>r. ASSUME NEW ok \in BOOLEAN
        PROVE  /\ DiskAfterRotate(ok)[s].synced \in Nat
               /\ disk[s].synced <= DiskAfterRotate(ok)[s].synced
    <2>1. DiskAfterRotate(ok)[s].synced = IF ok /\ s = active.seq THEN active.offset ELSE disk[s].synced
      BY RotatedFiles, Zenon
    <2>2. ASSUME s = active.seq PROVE active.offset \in Nat /\ disk[s].synced <= active.offset
      <3>1. active # NoActive /\ active.offset \in Nat
        BY <2>2 DEF TypeOK, NoActive, None
      <3>2. segments # <<>> /\ s = Newest.seq /\ active.offset = Newest.bytes
        BY <2>2, <3>1, Zenon DEF StoreInv, ActiveInv
      <3>3. Len(segments) \in DOMAIN segments
        BY <3>2, SegType, Zenon
      <3> QED
        BY <3>1, <3>2, <3>3, Zenon DEF StoreInv, DurableInv, Newest
    <2>3. disk[s].synced <= disk[s].synced
      BY ONLY <1>0
    <2> QED
      BY <1>0, <2>1, <2>2, <2>3, Zenon
  <1>1. CASE disk'[s].synced = disk[s].synced
    <2>1. disk[s].synced <= disk[s].synced
      BY ONLY <1>0
    <2> QED
      BY <1>0, <1>1, <2>1, Zenon
  <1>2. CASE EnforceCap \/ gc_front_consumed
    <2>1. disk' = [t \in DOMAIN disk \ {Oldest.seq} |-> disk[t]]
      BY <1>2, <1>i, OldestDropped, Zenon
    <2> QED
      BY <1>1, <2>1, Zenon
  <1>3. CASE Rotate
    <2>1. PICK ok \in BOOLEAN : disk' = AddFile(DiskAfterRotate(ok), NewFile(TRUE))
      BY <1>3, Zenon DEF Rotate
    <2>2. s # next_seq
      BY <1>3, RotateEffect, Zenon
    <2>3. DOMAIN DiskAfterRotate(ok) = DOMAIN disk
      BY RotatedFiles, Zenon
    <2>4. disk'[s] = DiskAfterRotate(ok)[s]
      BY <2>1, <2>2, <2>3, Zenon DEF AddFile
    <2> QED
      BY <1>0, <1>r, <2>4, Zenon
  <1>4. CASE RotateFails
    <2>1. PICK ok \in BOOLEAN : \/ disk' = DiskAfterRotate(ok)
                                \/ disk' = AddFile(DiskAfterRotate(ok), NewFile(FALSE))
      BY <1>4, Zenon DEF RotateFails
    <2>2. s # next_seq
      BY <1>4, RotateFailsEffect, Zenon
    <2>3. DOMAIN DiskAfterRotate(ok) = DOMAIN disk
      BY RotatedFiles, Zenon
    <2>4. disk'[s] = DiskAfterRotate(ok)[s]
      BY <2>1, <2>2, <2>3, Zenon DEF AddFile
    <2> QED
      BY <1>0, <1>r, <2>4, Zenon
  <1>5. CASE WriteFrame
    BY <1>1, <1>5, WriteEffect, Zenon
  <1>6. CASE BoundBurst \/ GroupCommit
    <2>1. disk' = disk \/ disk' = DiskAfterRotate(TRUE)
      BY <1>6, Zenon DEF BoundBurst, GroupCommit, SyncTail, Sync
    <2>2. CASE disk' = disk
      BY <1>1, <2>2, Zenon
    <2>3. CASE disk' = DiskAfterRotate(TRUE)
      <3>1. TRUE \in BOOLEAN
        BY Zenon
      <3>2. /\ DiskAfterRotate(TRUE)[s].synced \in Nat
            /\ disk[s].synced <= DiskAfterRotate(TRUE)[s].synced
        BY <1>r, <3>1, Zenon
      <3> QED
        BY <1>0, <2>3, <3>2, Zenon
    <2> QED
      BY <2>1, <2>2, <2>3, Zenon
  <1>7. ASSUME NEW t \in found, RecoverSegment(t) PROVE disk'[s].synced = disk[s].synced
    <2>1. PICK o : disk' = [disk EXCEPT ![t].frames = {g \in disk[t].frames : g.off < o}]
      BY <1>7, WalkEffect, ZenonT(60)
    <2> QED
      BY <1>0, <2>1, Zenon DEF File
  <1>8. ASSUME NEW t \in found, RecoverDrops(t) PROVE disk'[s].synced = disk[s].synced
    <2>1. UNCHANGED disk \/ disk' = [u \in DOMAIN disk \ {t} |-> disk[u]]
      BY <1>8, Zenon DEF RecoverDrops
    <2> QED
      BY <2>1, Zenon
  <1>9. CASE Crash
    BY <1>1, <1>9, CrashEffect, Zenon DEF Survives
  <1>10. CASE UNCHANGED disk
    BY <1>1, <1>10, Zenon
  <1>11. CASE PeekFrame \/ PeekNothing \/ commit_pending \/ RecoverFinish
    BY <1>10, <1>11, Zenon DEF PeekFrame, PeekNothing, commit_pending, RecoverFinish
  <1> QED
    BY <1>1, <1>2, <1>3, <1>4, <1>5, <1>6, <1>7, <1>8, <1>9, <1>10, <1>11, StoreSteps, Zenon
       DEF StoreStep, storeVars

\* Without I/O errors the log knows every file in its directory.
LEMMA FilesKnown ==
  ASSUME TypeOK, TypeOK', StoreInv, [Next]_vars, errors' = 0,
         errors = 0 => DOMAIN disk \subseteq Seqs \cup found
  PROVE  DOMAIN disk' \subseteq (Seqs \cup found)'
  <1>i. SeqInv /\ CursorInv /\ ControlInv /\ DiskInv
    BY Zenon DEF StoreInv
  <1>e. errors = 0
    BY ErrorCount
  <1>0. DOMAIN disk \subseteq Seqs \cup found
    BY <1>e, Zenon
  <1>1. CASE DOMAIN disk' = DOMAIN disk /\ UNCHANGED <<segments, found>>
    BY <1>0, <1>1, Zenon DEF Seqs
  <1>2. CASE EnforceCap \/ gc_front_consumed
    <2>1. /\ segments # <<>> /\ DOMAIN segments = 1..Len(segments) /\ Len(segments) \in Nat
          /\ DOMAIN segments' = 1..Len(segments) - 1
          /\ \A i \in DOMAIN segments' : segments'[i] = segments[i + 1]
          /\ disk' = [t \in DOMAIN disk \ {Oldest.seq} |-> disk[t]]
      BY <1>2, <1>i, OldestDropped, SegType, ZenonT(60)
    <2>2. found = {}
      <3>1. wpc = "cap" \/ dpc = "peek"
        BY <1>2, Zenon DEF EnforceCap, gc_front_consumed
      <3> QED
        BY <1>i, <3>1, Up, Zenon
    <2> SUFFICES ASSUME NEW s \in DOMAIN disk' PROVE s \in Seqs'
      BY Zenon
    <2>3. s \in DOMAIN disk /\ s # Oldest.seq
      BY <2>1, Zenon
    <2>4. PICK i \in DOMAIN segments : s = segments[i].seq
      BY <1>0, <2>2, <2>3, Zenon DEF Seqs
    <2>5. i # 1
      BY <2>3, <2>4, Zenon DEF Oldest
    <2>6. i - 1 \in DOMAIN segments' /\ segments'[i - 1] = segments[i]
      BY <2>1, <2>5
    <2> QED
      BY <2>4, <2>6, Zenon DEF Seqs
  <1>3. CASE Rotate
    <2>1. /\ found = {} /\ DOMAIN disk' = DOMAIN disk \cup {next_seq}
          /\ segments' = Append(segments, [seq |-> next_seq, bytes |-> SEGMENT_HEADER_LEN,
                                           base |-> NextBase])
          /\ [seq |-> next_seq, bytes |-> SEGMENT_HEADER_LEN, base |-> NextBase] \in SegmentMeta
      BY <1>3, RotateEffect, Zenon
    <2>2. /\ \A i \in DOMAIN segments : i \in DOMAIN segments' /\ segments'[i] = segments[i]
          /\ Len(segments) + 1 \in DOMAIN segments' /\ segments'[Len(segments) + 1].seq = next_seq
      <3>1. PICK m : m \in SegmentMeta /\ m.seq = next_seq /\ segments' = Append(segments, m)
        BY <2>1, Zenon
      <3>2. /\ \A i \in DOMAIN segments : i \in DOMAIN segments' /\ segments'[i] = segments[i]
            /\ segments'[Len(segments) + 1] = m /\ DOMAIN segments' = 1..Len(segments) + 1
        BY <3>1, OneMoreSegment, Zenon
      <3>3. Len(segments) + 1 \in 1..Len(segments) + 1
        BY SegType
      <3> QED
        BY <3>1, <3>2, <3>3, Zenon
    <2> QED
      BY <1>0, <2>1, <2>2, ZenonT(30) DEF Seqs
  <1>4. CASE RotateFails
    BY <1>4, <1>e, RotateFailsEffect
  <1>5. CASE WriteFrame
    <2>1. DOMAIN disk' = DOMAIN disk
      BY <1>5, WriteEffect, Zenon
    <2>2. DOMAIN segments' = DOMAIN segments /\ \A i \in DOMAIN segments : segments'[i].seq = segments[i].seq
      BY <1>5, LastSegmentGrows, Zenon
    <2>3. found' = found
      BY <1>5, Zenon DEF WriteFrame, processVars
    <2> QED
      BY <1>0, <2>1, <2>2, <2>3, Zenon DEF Seqs
  <1>6. CASE BoundBurst \/ GroupCommit
    BY <1>1, <1>6, SyncEffect, Zenon
  <1>7. ASSUME NEW t \in found, RecoverSegment(t) PROVE DOMAIN disk' \subseteq (Seqs \cup found)'
    <2>1. PICK o \in Nat :
            /\ DOMAIN disk' = DOMAIN disk
            /\ segments' = Append(segments, [seq |-> t, bytes |-> o, base |-> NextBase])
      BY <1>7, WalkEffect, ZenonT(60)
    <2> DEFINE m == [seq |-> t, bytes |-> o, base |-> NextBase]
    <2>2. t \in Nat
      BY <1>i, FoundFresh, Zenon
    <2>3. m \in SegmentMeta /\ m.seq = t /\ segments' = Append(segments, m)
      BY <2>1, <2>2, SegType, Zenon DEF SegmentMeta
    <2> HIDE DEF m
    <2>4. /\ \A i \in DOMAIN segments : i \in DOMAIN segments' /\ segments'[i] = segments[i]
          /\ Len(segments) + 1 \in DOMAIN segments' /\ segments'[Len(segments) + 1] = m
      BY <2>3, OneMoreSegment, SegType
    <2>5. found' = found \ {t}
      BY <1>7, Zenon DEF RecoverSegment
    <2> QED
      BY <1>0, <2>1, <2>3, <2>4, <2>5, Zenon DEF Seqs
  <1>8. ASSUME NEW t \in found, RecoverDrops(t) PROVE DOMAIN disk' \subseteq (Seqs \cup found)'
    <2>1. /\ UNCHANGED segments /\ found' = found \ {t}
          /\ errors' = errors + 1 \/ disk' = [u \in DOMAIN disk \ {t} |-> disk[u]]
      BY <1>8, Zenon DEF RecoverDrops, IoError
    <2> QED
      BY <1>0, <1>e, <2>1 DEF Seqs
  <1>9. CASE Crash
    BY <1>9, CrashEffect, Zenon
  <1>10. CASE UNCHANGED <<disk, segments, found>>
    BY <1>1, <1>10, Zenon
  <1>11. CASE PeekFrame \/ PeekNothing \/ commit_pending \/ RecoverFinish
    BY <1>10, <1>11, Zenon DEF PeekFrame, PeekNothing, commit_pending, RecoverFinish, processVars
  <1> QED
    BY <1>2, <1>3, <1>4, <1>5, <1>6, <1>7, <1>8, <1>9, <1>10, <1>11, StoreSteps, Zenon DEF StoreStep, storeVars

\* The cursor is at the start of a segment until recovery is over.
LEMMA RecoveringAtStart ==
  ASSUME TypeOK, StoreInv, StoreInv', [Next]_vars, read_offset' # SEGMENT_HEADER_LEN
  PROVE  mode = "up" /\ mode' = "up"
  <1>1. mode' = "up"
    BY Zenon DEF StoreInv, ControlInv
  <1>2. ASSUME mode # "up" PROVE FALSE
    <2>1. wpc = "recv" /\ dpc = "sweep" /\ read_offset = SEGMENT_HEADER_LEN
      BY <1>2, Zenon DEF StoreInv, ControlInv
    <2>2. CASE UNCHANGED storeVars
      BY <2>1, <2>2, Zenon DEF storeVars
    <2>3. ~(EnforceCap \/ Rotate \/ RotateFails \/ WriteFrame \/ BoundBurst \/ GroupCommit)
      BY <2>1, Zenon DEF EnforceCap, Rotate, RotateFails, WriteFrame, ReadyToWrite, BoundBurst, GroupCommit
    <2>4. ~(PeekFrame \/ PeekNothing \/ gc_front_consumed \/ commit_pending)
      BY <2>1, Zenon DEF PeekFrame, PeekNothing, gc_front_consumed, commit_pending
    <2>5. ASSUME NEW s \in found, RecoverSegment(s) \/ RecoverDrops(s) PROVE FALSE
      BY <2>1, <2>5, Zenon DEF RecoverSegment, RecoverDrops, cursor
    <2>6. CASE RecoverFinish \/ Crash
      BY <2>1, <2>6, Zenon DEF RecoverFinish, Crash
    <2> QED
      BY <2>2, <2>3, <2>4, <2>5, <2>6, StoreSteps, Zenon DEF StoreStep
  <1> QED
    BY <1>1, <1>2, Zenon

\* While the agent is up, a known file that was on disk before was known before.
LEMMA KnownBefore ==
  ASSUME TypeOK, StoreInv, StoreInv', [Next]_vars, mode = "up", mode' = "up",
         NEW s \in (Seqs \cup found)', s \in DOMAIN disk
  PROVE  s \in Seqs
  <1>i. SeqInv /\ CursorInv /\ ControlInv
    BY Zenon DEF StoreInv
  <1>1. s \in Seqs' /\ found = {}
    BY Zenon DEF StoreInv, ControlInv
  <1>2. PICK i \in DOMAIN segments' : s = segments'[i].seq
    BY <1>1, Zenon DEF Seqs
  <1>3. CASE i \in DOMAIN segments /\ segments'[i].seq = segments[i].seq
    BY <1>2, <1>3, Zenon DEF Seqs
  <1>4. CASE EnforceCap \/ gc_front_consumed
    <2>1. i + 1 \in DOMAIN segments /\ segments'[i] = segments[i + 1]
      BY <1>4, <1>i, OldestDropped, Zenon
    <2> QED
      BY <1>2, <2>1, Zenon DEF Seqs
  <1>5. CASE Rotate
    <2> DEFINE m == [seq |-> next_seq, bytes |-> SEGMENT_HEADER_LEN, base |-> NextBase]
    <2>1. next_seq \notin DOMAIN disk /\ segments' = Append(segments, m) /\ m \in SegmentMeta
      BY <1>5, RotateEffect, Zenon
    <2>m. m.seq = next_seq
      BY Zenon
    <2> HIDE DEF m
    <2>a. /\ \A j \in DOMAIN segments : segments'[j] = segments[j]
          /\ \A j \in DOMAIN segments' : j \in DOMAIN segments \/ j = Len(segments) + 1
          /\ segments'[Len(segments) + 1] = m
      BY <2>1, OneMoreSegment, Zenon
    <2>2. /\ \A j \in DOMAIN segments : segments'[j] = segments[j]
          /\ i \in DOMAIN segments \/ i = Len(segments) + 1
          /\ segments'[Len(segments) + 1].seq = next_seq
      BY <2>a, <2>m, Zenon
    <2> QED
      BY <1>2, <1>3, <2>1, <2>2, Zenon
  <1>6. CASE WriteFrame
    BY <1>3, <1>6, LastSegmentGrows, Zenon
  <1>7. CASE UNCHANGED segments
    BY <1>3, <1>7, Zenon
  <1>8. CASE RotateFails
    BY <1>7, <1>8, Zenon DEF RotateFails
  <1>9. CASE BoundBurst \/ GroupCommit \/ PeekFrame \/ PeekNothing \/ commit_pending
    BY <1>7, <1>9, Zenon DEF BoundBurst, GroupCommit, PeekFrame, PeekNothing, commit_pending
  <1>10. ASSUME (\E t \in found : RecoverSegment(t) \/ RecoverDrops(t)) \/ RecoverFinish \/ Crash
         PROVE  FALSE
    BY <1>10, Zenon DEF RecoverFinish, Crash, RecoverSegment, RecoverDrops
  <1> QED
    BY <1>4, <1>5, <1>6, <1>7, <1>8, <1>9, <1>10, StoreSteps, Zenon DEF StoreStep, storeVars

\* A running agent recovers only after a crash.
LEMMA OnlyCrashRecovers ==
  ASSUME TypeOK, [Next]_vars, mode = "up", crashes' = crashes
  PROVE  mode' # "recovering"
  <1> USE DEF processVars
  <1>1. CASE Writer
    <2>1. ASSUME NEW b \in Batch, WriterRecv(b) \/ WriterTryRecv(b) PROVE mode' = mode
      BY <2>1, Zenon DEF WriterRecv, WriterTryRecv
    <2>2. ASSUME WriterLock \/ EnforceCap \/ Rotate \/ BoundBurst \/ GroupCommit PROVE mode' = mode
      BY <2>2, Zenon DEF WriterLock, EnforceCap, Rotate, BoundBurst, GroupCommit
    <2>3. ASSUME RotateFails \/ WriteFrame \/ WriteFails PROVE mode' = mode
      BY <2>3, Zenon DEF RotateFails, WriteFrame, WriteFails
    <2> QED
      BY <1>1, <2>1, <2>2, <2>3, Zenon DEF Writer
  <1>2. CASE Drainer
    <2>1. ASSUME NEW t \in BOOLEAN, Sweep(t) \/ DrainLoop(t) \/ Handover(t) PROVE mode' = mode
      BY <2>1, SMTT(60) DEF Sweep, DrainLoop, Handover
    <2>2. ASSUME PeekLock \/ PeekEmpty \/ PeekFrame \/ PeekNothing \/ gc_front_consumed \/ commit_pending
          PROVE  mode' = mode
      BY <2>2, Zenon DEF PeekLock, PeekEmpty, PeekFrame, PeekNothing, gc_front_consumed, commit_pending
    <2> QED
      BY <1>2, <2>1, <2>2, Zenon DEF Drainer
  <1>3. CASE Recovery
    BY <1>3, Zenon DEF Recovery, RecoverSegment, RecoverDrops, RecoverFinish, RecoverFails
  <1>4. CASE Crash
    BY <1>4 DEF Crash, TypeOK
  <1>5. CASE UNCHANGED vars
    BY <1>5, Zenon DEF vars
  <1> QED
    BY <1>1, <1>2, <1>3, <1>4, <1>5, Zenon DEF Next

\* While the agent is up the backlog gains only the frame that WriteFrame appends: the
\* cursor never moves back.
LEMMA BacklogNew ==
  ASSUME TypeOK, TypeOK', StoreInv, StoreInv', [Next]_vars, mode = "up", mode' = "up",
         NEW s, NEW f, Owed(s, f)'
  PROVE  \/ Owed(s, f)
         \/ WriteFrame /\ s = active.seq /\ f.off = active.offset /\ f.batch = wbatch
  <1>i. SeqInv /\ CursorInv /\ DiskInv
    BY Zenon DEF StoreInv
  <1>1. /\ s \in (Seqs \cup found)' /\ s \in Seqs' /\ s \in DOMAIN disk' /\ f \in disk'[s].frames
        /\ s > read_seq' \/ (s = read_seq' /\ f.off >= read_offset')
    <2>1. s \in (Seqs \cup found)' /\ s \in Seqs'
      BY Zenon DEF Owed, StoreInv, ControlInv
    <2> QED
      BY <2>1, Zenon DEF Owed, StoreInv, DiskInv, Seqs
  <1> SUFFICES ASSUME s \in DOMAIN disk, f \in disk[s].frames PROVE Owed(s, f)
    BY <1>1, NewFrames, Zenon
  <1>2. s \in Seqs
    BY <1>1, KnownBefore, Zenon
  <1>3. /\ s \in Nat /\ read_seq \in Nat /\ read_seq' \in Nat /\ read_seq <= s /\ segments # <<>>
        /\ f.off \in Nat /\ read_offset \in Nat /\ read_offset' \in Nat
    <2>1. read_seq <= s /\ s \in Nat /\ segments # <<>>
      BY <1>2, <1>i, SegType DEF CursorInv, Seqs
    <2> QED
      BY <2>1, FrameType, Zenon DEF TypeOK
  <1>4. CASE s # read_seq
    BY <1>2, <1>3, <1>4 DEF Owed
  <1>5. CASE s = read_seq
    <2>1. ASSUME s = read_seq', read_offset <= read_offset' PROVE Owed(s, f)
      BY <1>1, <1>2, <1>3, <1>5, <2>1 DEF Owed
    <2>2. CASE UNCHANGED <<read_seq, read_offset>>
      BY <1>3, <1>5, <2>1, <2>2
    <2>3. PeekSeq = read_seq /\ PeekOffset = read_offset /\ Oldest.seq = read_seq
      <3>1. PeekSeq = Oldest.seq
        BY <1>3, <1>i, PeekOldest, Zenon
      <3> QED
        BY <1>2, <1>5, <3>1, Zenon DEF PeekSeq, PeekOffset
    <2>4. ~(EnforceCap \/ gc_front_consumed)
      <3>1. EnforceCap \/ gc_front_consumed => s \notin DOMAIN disk'
        BY <1>5, <1>i, <2>3, OldestDropped, Zenon
      <3> QED
        BY <1>1, <3>1, Zenon
    <2>5. CASE PeekFrame \/ PeekNothing
      BY <2>2, <2>3, <2>5, Zenon DEF PeekFrame, PeekNothing
    <2>6. CASE commit_pending
      <3>1. read_seq' = read_seq /\ (pending_advance = None => read_offset' = read_offset)
            /\ (pending_advance # None => read_offset' = pending_advance)
        BY <2>6, Zenon DEF commit_pending, Advanced
      <3>2. ASSUME pending_advance # None PROVE read_offset <= pending_advance
        <4>1. PICK g \in disk[Oldest.seq].frames : g.off = read_offset /\ pending_advance = End(g)
          BY <1>i, <3>2, Zenon DEF CursorInv
        <4> QED
          BY <1>5, <2>3, <4>1, FrameType DEF FRAME_HEADER_LEN
      <3> QED
        BY <1>3, <1>5, <2>1, <3>1, <3>2
    <2>7. CASE Rotate \/ RotateFails \/ WriteFrame \/ BoundBurst \/ GroupCommit
      BY <2>2, <2>7, Zenon DEF Rotate, RotateFails, WriteFrame, BoundBurst, GroupCommit, cursor
    <2>8. ASSUME (\E t \in found : RecoverSegment(t) \/ RecoverDrops(t)) \/ RecoverFinish \/ Crash
          PROVE  FALSE
      BY <2>8, Zenon DEF RecoverFinish, Crash, RecoverSegment, RecoverDrops
    <2> QED
      BY <2>2, <2>4, <2>5, <2>6, <2>7, <2>8, StoreSteps, Zenon DEF StoreStep, storeVars
  <1> QED
    BY <1>4, <1>5, Zenon

\* A frame that the drainer has peeked at stays at the cursor as long as it is owed.
LEMMA CursorHeld ==
  ASSUME TypeOK, StoreInv, [Next]_vars, mode = "up", mode' = "up", dpc \in {"send", "commit"},
         pending_advance # None, NEW s, NEW f, s = read_seq, f.off = read_offset, Owed(s, f), Owed(s, f)'
  PROVE  UNCHANGED <<read_seq, read_offset, pending_advance>>
  <1>i. SeqInv /\ CursorInv /\ DiskInv /\ ControlInv
    BY Zenon DEF StoreInv
  <1>1. read_seq = Oldest.seq /\ segments # <<>>
        /\ \E g \in disk[Oldest.seq].frames : g.off = read_offset /\ pending_advance = End(g)
    BY <1>i, Zenon DEF CursorInv
  <1>2. ~EnforceCap
    <2>1. ASSUME EnforceCap PROVE s \notin (Seqs \cup found)'
      <3>1. found' = {}
        BY <1>i, <2>1, Up, Zenon DEF EnforceCap, processVars
      <3>2. ASSUME NEW i \in DOMAIN segments' PROVE segments'[i].seq # s
        <4>1. i + 1 \in DOMAIN segments /\ segments'[i] = segments[i + 1] /\ 1 \in DOMAIN segments /\ 1 < i + 1
          BY <1>i, <2>1, OldestDropped, SegType
        <4>2. segments[1].seq < segments[i + 1].seq /\ segments[1].seq \in Nat /\ segments[i + 1].seq \in Nat
          BY <1>i, <4>1, SegType, Zenon DEF SeqInv
        <4> QED
          BY <1>1, <4>1, <4>2 DEF Oldest
      <3> QED
        BY <3>1, <3>2, Zenon DEF Seqs
    <2> QED
      BY <2>1, Zenon DEF Owed
  <1>3. ~commit_pending
    <2>1. ASSUME commit_pending PROVE FALSE
      <3>1. PICK g \in disk[s].frames : g.off = read_offset /\ pending_advance = End(g)
        BY <1>1, Zenon
      <3>2. s \in DOMAIN disk
        BY PendingSegment, Zenon
      <3>3. g.off < End(g) /\ g.off \in Nat /\ End(g) \in Nat /\ s \in Nat
        BY <3>1, <3>2, FrameType DEF FRAME_HEADER_LEN, TypeOK
      <3>4. read_seq' = s /\ read_offset' = End(g)
        BY <2>1, <3>1, Zenon DEF commit_pending, Advanced
      <3> QED
        BY <3>1, <3>3, <3>4 DEF Owed
    <2> QED
      BY <2>1, Zenon
  <1>4. ~(PeekFrame \/ PeekNothing \/ gc_front_consumed)
    BY Zenon DEF PeekFrame, PeekNothing, gc_front_consumed
  <1>5. CASE Rotate \/ RotateFails \/ WriteFrame \/ BoundBurst \/ GroupCommit
    BY <1>5, Zenon DEF Rotate, RotateFails, WriteFrame, BoundBurst, GroupCommit, cursor
  <1>6. ASSUME (\E t \in found : RecoverSegment(t) \/ RecoverDrops(t)) \/ RecoverFinish \/ Crash
        PROVE  FALSE
    BY <1>6, Zenon DEF RecoverFinish, Crash, RecoverSegment, RecoverDrops
  <1> QED
    BY <1>2, <1>3, <1>4, <1>5, <1>6, StoreSteps, Zenon DEF StoreStep, storeVars

\* The drainer goes on to its commit and takes a batch in hand at a peek only.
LEMMA DrainerMoves ==
  ASSUME TypeOK, StoreInv, [Next]_vars, mode = "up", mode' = "up"
  PROVE  /\ dpc = "commit" => dpc' = dpc \/ commit_pending
         /\ dpc' = "send" => UNCHANGED <<dpc, dbatch>> \/ PeekFrame
  <1> USE DEF drainerVars
  <1>1. CASE Writer
    <2>1. ASSUME NEW b \in Batch, WriterRecv(b) \/ WriterTryRecv(b) PROVE UNCHANGED <<dpc, dbatch>>
      BY <2>1, Zenon DEF WriterRecv, WriterTryRecv
    <2>2. CASE WriterLock \/ EnforceCap \/ Rotate \/ BoundBurst \/ GroupCommit
      BY <2>2, Zenon DEF WriterLock, EnforceCap, Rotate, BoundBurst, GroupCommit
    <2>3. CASE RotateFails \/ WriteFrame \/ WriteFails
      BY <2>3, Zenon DEF RotateFails, WriteFrame, WriteFails
    <2> QED
      BY <1>1, <2>1, <2>2, <2>3, Zenon DEF Writer
  <1>2. CASE Drainer
    <2>1. ASSUME NEW t \in BOOLEAN, Sweep(t) \/ DrainLoop(t) \/ Handover(t) PROVE dpc # "commit" /\ dpc' # "send"
      BY <2>1, Zenon DEF Sweep, DrainLoop, Handover
    <2>2. CASE PeekLock \/ PeekEmpty \/ PeekNothing \/ gc_front_consumed
      BY <2>2, Zenon DEF PeekLock, PeekEmpty, PeekNothing, PeekReturnsNone, gc_front_consumed
    <2>3. CASE PeekFrame \/ commit_pending
      BY <2>3, Zenon DEF PeekFrame, commit_pending
    <2> QED
      BY <1>2, <2>1, <2>2, <2>3, Zenon DEF Drainer
  <1>3. ASSUME Recovery \/ Crash PROVE FALSE
    BY <1>3, Zenon DEF Recovery, RecoverSegment, RecoverDrops, RecoverFinish, RecoverFails, Crash
  <1>4. CASE UNCHANGED vars
    BY <1>4, Zenon DEF vars
  <1> QED
    BY <1>1, <1>2, <1>3, <1>4, Zenon DEF Next

\* The frame that peek_next finds is owed.
LEMMA PeekedOwed ==
  ASSUME TypeOK, StoreInv, segments # <<>>, NEW g \in read_frame_at(disk[PeekSeq], PeekOffset)
  PROVE  Owed(PeekSeq, g) /\ g.off = PeekOffset
  <1>1. g \in disk[PeekSeq].frames /\ g.off = PeekOffset
    BY Zenon DEF read_frame_at
  <1>2. PeekSeq \in Seqs /\ PeekSeq \in Nat /\ read_seq <= PeekSeq /\ read_seq \in Nat /\ PeekOffset \in Nat
    BY PeekSegment, Zenon DEF Seqs, StoreInv, CursorInv, TypeOK
  <1>3. PeekSeq > read_seq \/ (PeekSeq = read_seq /\ g.off >= read_offset)
    <2>1. CASE read_seq \in Seqs
      BY <1>1, <1>2, <2>1 DEF PeekSeq, PeekOffset
    <2>2. CASE read_seq \notin Seqs
      BY <1>2, <2>2
    <2> QED
      BY <2>1, <2>2, Zenon
  <1> QED
    BY <1>1, <1>2, <1>3, Zenon DEF Owed
=============================================================================
