--------------------------- MODULE WalStoreFiles ----------------------------
(* Type correctness of WalStore, and what every step does to the segments    *)
(* and their files: sequence numbers, file contents, byte count, active      *)
(* segment, read cursor and mutex (the first half of the induction step of   *)
(* StoreInv), for every set of batches, every cap and segment size, and any  *)
(* number of crashes and I/O errors.                                         *)
EXTENDS WalStore, TLAPS

\* A frame occupies at least a header and one byte of payload.
LEMMA FrameLen ==
  ASSUME NEW b \in Batch
  PROVE  /\ frame_len_on_disk(b) \in Nat
         /\ frame_len_on_disk(b) > FRAME_HEADER_LEN
         /\ frame_len_on_disk(b) <= MaxFrameLen
         /\ PayloadLen[b] <= MaxFramePayload
  BY WalConfigAssumption DEF frame_len_on_disk, FRAME_HEADER_LEN, MaxFrameLen

\* Frames of a typed file have typed fields.
LEMMA FrameType ==
  ASSUME TypeOK, NEW s \in DOMAIN disk, NEW f \in disk[s].frames
  PROVE  /\ f.off \in Nat /\ f.batch \in Batch /\ f.batch_seq \in Nat
         /\ End(f) \in Nat /\ End(f) > f.off + FRAME_HEADER_LEN
         /\ f \in Frame
  <1>1. f \in Frame
    BY Zenon DEF TypeOK, File
  <1> QED
    BY <1>1, FrameLen DEF Frame, End, FRAME_HEADER_LEN

\* A sequence that is not empty has a first element.
LEMMA FirstIn == \A S : \A q \in Seq(S) : q # <<>> => 1 \in DOMAIN q
  OBVIOUS

\* Segment metadata has typed fields.
LEMMA SegType ==
  ASSUME TypeOK
  PROVE  /\ Len(segments) \in Nat /\ DOMAIN segments = 1..Len(segments)
         /\ \A i \in DOMAIN segments :
              /\ segments[i] \in SegmentMeta
              /\ segments[i].seq \in Nat /\ segments[i].bytes \in Nat
              /\ segments[i].base \in Nat
         /\ segments # <<>> => Len(segments) \in DOMAIN segments /\ 1 \in DOMAIN segments
         /\ NextBase \in Nat
         /\ \A i \in DOMAIN segments : i \in Nat /\ 1 <= i /\ i <= Len(segments)
  <1>1. segments \in Seq(SegmentMeta)
    BY Zenon DEF TypeOK
  <1>2. /\ Len(segments) \in Nat /\ DOMAIN segments = 1..Len(segments)
        /\ segments # <<>> => Len(segments) \in DOMAIN segments /\ 1 \in DOMAIN segments
    BY <1>1
  <1>3. \A i \in DOMAIN segments : segments[i] \in SegmentMeta
    BY <1>1
  <1>4. \A i \in DOMAIN segments :
              /\ segments[i].seq \in Nat /\ segments[i].bytes \in Nat
              /\ segments[i].base \in Nat
    BY <1>3, Zenon DEF SegmentMeta
  <1>5. NextBase \in Nat
    BY <1>2, <1>4 DEF NextBase, Newest
  <1>6. \A i \in DOMAIN segments : i \in Nat /\ 1 <= i /\ i <= Len(segments)
    BY <1>2
  <1> QED
    BY <1>2, <1>3, <1>4, <1>5, <1>6, Zenon

\* The segment a peek reads is a live one.
LEMMA PeekSegment ==
  ASSUME TypeOK, segments # <<>>
  PROVE  /\ \E i \in DOMAIN segments : segments[i].seq = PeekSeq
         /\ PeekSeq \in Nat /\ PeekOffset \in Nat
  <1>1. \E i \in DOMAIN segments : segments[i].seq = PeekSeq
    BY SegType, Zenon DEF PeekSeq, Seqs, Oldest
  <1>2. PeekOffset \in Nat
    BY Zenon DEF TypeOK, PeekOffset, SEGMENT_HEADER_LEN
  <1> QED
    BY <1>1, <1>2, SegType, Zenon

-----------------------------------------------------------------------------
\* Every variable has its type initially.
LEMMA TypeInit == Init => TypeOK
  <1> SUFFICES ASSUME Init PROVE TypeOK
    BY Zenon
  <1>1. DOMAIN disk = {} /\ disk \in [DOMAIN disk -> File]
    BY Zenon DEF Init
  <1>2. segments \in Seq(SegmentMeta)
    BY DEF Init
  <1>3. read_offset \in Nat
    BY Zenon DEF Init, SEGMENT_HEADER_LEN
  <1> QED
    BY <1>1, <1>2, <1>3, Zenon DEF Init, TypeOK

\* The types of the directory, the part of TypeOK that needs care.
DiskType ==
  DOMAIN disk \subseteq Nat /\ disk \in [DOMAIN disk -> File]

\* Deleting files, syncing the active one and adding one keep the types.
LEMMA DiskTypes ==
  ASSUME TypeOK
  PROVE  /\ \A S : disk' = [s \in DOMAIN disk \ S |-> disk[s]] => DiskType'
         /\ \A ok \in BOOLEAN : disk' = DiskAfterRotate(ok) =>
              DiskType' /\ DOMAIN disk' = DOMAIN disk
         /\ \A ok, h \in BOOLEAN : disk' = AddFile(DiskAfterRotate(ok), NewFile(h)) =>
              DiskType' /\ DOMAIN disk' = DOMAIN disk \cup {next_seq}
  <1>1. ASSUME NEW S, disk' = [s \in DOMAIN disk \ S |-> disk[s]] PROVE DiskType'
    BY <1>1, Zenon DEF TypeOK, DiskType
  <1>2. ASSUME NEW ok \in BOOLEAN
        PROVE  /\ DOMAIN DiskAfterRotate(ok) = DOMAIN disk
               /\ \A s \in DOMAIN disk :
                    /\ DiskAfterRotate(ok)[s] \in File
                    /\ DiskAfterRotate(ok)[s].frames = disk[s].frames
    <2> SUFFICES ASSUME NEW s \in DOMAIN disk
                 PROVE  /\ DiskAfterRotate(ok)[s] \in File
                        /\ DiskAfterRotate(ok)[s].frames = disk[s].frames
      BY Zenon DEF DiskAfterRotate
    <2>1. disk[s] \in File /\ active.offset \in Nat
      BY DEF TypeOK, NoActive
    <2>2. SyncOld(disk[s], ok) \in File /\ SyncOld(disk[s], ok).frames = disk[s].frames
      BY <2>1, Zenon DEF SyncOld, File
    <2> QED
      BY <2>1, <2>2, Zenon DEF DiskAfterRotate
  <1>3. ASSUME NEW ok \in BOOLEAN, disk' = DiskAfterRotate(ok)
        PROVE  DiskType' /\ DOMAIN disk' = DOMAIN disk
    <2>1. DOMAIN disk' = DOMAIN disk /\ disk' \in [DOMAIN disk -> File]
      BY <1>2, <1>3, Zenon DEF DiskAfterRotate
    <2> QED
      BY <2>1, Zenon DEF TypeOK, DiskType
  <1>4. ASSUME NEW ok \in BOOLEAN, NEW h \in BOOLEAN,
               disk' = AddFile(DiskAfterRotate(ok), NewFile(h))
        PROVE  DiskType' /\ DOMAIN disk' = DOMAIN disk \cup {next_seq}
    <2>1. NewFile(h) \in File
      BY Zenon DEF NewFile, File
    <2>2. DOMAIN disk' = DOMAIN disk \cup {next_seq}
      BY <1>2, <1>4, Zenon DEF AddFile
    <2>3. \A s \in DOMAIN disk' : disk'[s] = NewFile(h) \/ (s \in DOMAIN disk /\ disk'[s] = DiskAfterRotate(ok)[s])
      BY <1>2, <1>4, <2>2, Zenon DEF AddFile
    <2>4. \A s \in DOMAIN disk' : disk'[s] \in File
      BY <1>2, <2>1, <2>3, ZenonT(60) DEF TypeOK
    <2>5. disk' \in [DOMAIN disk' -> File]
      BY <1>4, <2>4, Zenon DEF AddFile
    <2> QED
      BY <2>2, <2>4, <2>5, Zenon DEF TypeOK, DiskType
  <1> QED
    BY <1>1, <1>3, <1>4, Zenon

\* The steps of the writer thread keep the types.
LEMMA TypeWriter == TypeOK /\ StoreInv /\ Writer => TypeOK'
  <1> SUFFICES ASSUME TypeOK, StoreInv, Writer PROVE TypeOK'
    BY Zenon
  <1> USE DEF walVars, writerVars, drainerVars, processVars, cursor
  <1>0. /\ read_seq \in Nat /\ read_offset \in Nat /\ pending_advance \in Nat \cup {None}
        /\ next_seq \in Nat /\ errors \in Nat /\ since_sync \in Nat /\ DiskType
        /\ total_bytes \in Nat /\ next_batch_seq \in Nat /\ position \in Nat
        /\ segments \in Seq(SegmentMeta)
    BY Zenon DEF TypeOK, DiskType
  <1>a. active.offset \in Nat
    <2>1. active \in [seq : Nat, offset : Nat] \cup {NoActive}
      BY Zenon DEF TypeOK
    <2> QED
      BY <2>1 DEF NoActive
  <1>1. ASSUME NEW b \in Batch, WriterRecv(b) PROVE TypeOK'
    BY <1>1 DEF TypeOK, WriterRecv
  <1>2. ASSUME NEW b \in Batch, WriterTryRecv(b) PROVE TypeOK'
    BY <1>2 DEF TypeOK, WriterTryRecv
  <1>3. CASE WriterLock
    BY <1>3, ZenonT(60) DEF TypeOK, WriterLock
  <1>4. CASE EnforceCap
    <2>1. Len(segments) > 1 /\ segments \in Seq(SegmentMeta)
      BY <1>4, Zenon DEF TypeOK, EnforceCap, OverCap
    <2>2. /\ segments' \in Seq(SegmentMeta)
          /\ segments[2].seq \in Nat /\ Oldest.bytes \in Nat
      <3>1. segments' \in Seq(SegmentMeta) /\ 1 \in DOMAIN segments /\ 2 \in DOMAIN segments
        BY <1>4, <2>1 DEF EnforceCap
      <3> QED
        BY <3>1, SegType, Zenon DEF Oldest
    <2>3. total_bytes' \in Nat
      <3>1. Release(Oldest.bytes)
        BY <1>4, Zenon DEF EnforceCap
      <3> QED
        BY <1>0, <2>2, <3>1 DEF Release
    <2>4. read_seq' \in Nat /\ read_offset' \in Nat /\ pending_advance' \in Nat \cup {None}
      <3>1. CursorAfterDrop
        BY <1>4, Zenon DEF EnforceCap
      <3> QED
        BY <1>0, <2>2, <3>1 DEF CursorAfterDrop, SEGMENT_HEADER_LEN
    <2>5. DiskType'
      BY <1>4, DiskTypes, Zenon DEF EnforceCap
    <2>6. found = {}
      BY <1>4, Zenon DEF TypeOK, EnforceCap, StoreInv, ControlInv
    <2>7. UNCHANGED <<active, position, next_seq, next_batch_seq, lock, writerVars, drainerVars, processVars,
                      errors>>
      BY <1>4, Zenon DEF EnforceCap
    <2> QED
      BY <2>2, <2>3, <2>4, <2>5, <2>6, <2>7, SMTT(60) DEF TypeOK, DiskType
  <1>5. CASE Rotate
    <2>1. segments' \in Seq(SegmentMeta)
      <3>1. [seq |-> next_seq, bytes |-> SEGMENT_HEADER_LEN, base |-> NextBase]
              \in SegmentMeta
        BY SegType, Zenon DEF TypeOK, SegmentMeta, SEGMENT_HEADER_LEN
      <3>2. segments' = Append(segments, [seq |-> next_seq, bytes |-> SEGMENT_HEADER_LEN, base |-> NextBase])
        BY <1>5, Zenon DEF Rotate
      <3> QED
        BY <1>0, <3>1, <3>2
    <2>2. DiskType' /\ DOMAIN disk' = DOMAIN disk \cup {next_seq}
      BY <1>5, DiskTypes, Zenon DEF Rotate
    <2>3. errors' \in Nat
      <3>1. errors' = errors \/ errors' = errors + 1
        BY <1>5, Zenon DEF Rotate, IoError
      <3> QED
        BY <1>0, <3>1
    <2>4. total_bytes' \in Nat /\ next_seq' \in Nat /\ SEGMENT_HEADER_LEN \in Nat
      <3>1. total_bytes' = total_bytes + SEGMENT_HEADER_LEN /\ next_seq' = next_seq + 1
        BY <1>5, Zenon DEF Rotate
      <3> QED
        BY <1>0, <3>1 DEF SEGMENT_HEADER_LEN
    <2>5. active' \in [seq : Nat, offset : Nat] /\ position' \in Nat
      BY <1>0, <1>5, <2>4, Zenon DEF Rotate
    <2>6. /\ UNCHANGED <<next_batch_seq, cursor, lock, wbatch, burst, since_sync, appended, drainerVars,
                         processVars>>
          /\ wpc' = "write"
      BY <1>5, Zenon DEF Rotate
    <2> QED
      BY <2>1, <2>2, <2>3, <2>4, <2>5, <2>6, ZenonT(60) DEF TypeOK, DiskType
  <1>6. CASE RotateFails
    <2>1. DiskType' /\ DOMAIN disk \subseteq DOMAIN disk' /\ next_seq' \in Nat
      <3>1. PICK ok \in BOOLEAN :
              \/ disk' = DiskAfterRotate(ok) /\ next_seq' \in {next_seq, next_seq + 1}
              \/ /\ disk' = AddFile(DiskAfterRotate(ok), NewFile(FALSE))
                 /\ next_seq' = next_seq + 1
        BY <1>6, Zenon DEF RotateFails
      <3>2. DiskType' /\ DOMAIN disk \subseteq DOMAIN disk'
        BY <3>1, DiskTypes, Zenon
      <3>3. next_seq' \in Nat
        <4>1. next_seq' = next_seq \/ next_seq' = next_seq + 1
          BY <3>1, Zenon
        <4> QED
          BY <1>0, <4>1
      <3> QED
        BY <3>2, <3>3, Zenon
    <2>2. /\ UNCHANGED <<segments, total_bytes, next_batch_seq, cursor, lock, burst, appended, drainerVars,
                         processVars>>
          /\ active' = NoActive /\ position' = 0 /\ wpc' \in {"bound", "drain"} /\ wbatch' = NoBatch
          /\ since_sync' = since_sync + 1 /\ errors' = errors + 1
      BY <1>6, Zenon DEF RotateFails, AppendReturns, IoError
    <2>3. since_sync' \in Nat /\ errors' \in Nat
      BY <1>0, <2>2
    <2> QED
      BY <2>1, <2>2, <2>3, ZenonT(60) DEF TypeOK, DiskType
  <1>7. CASE WriteFrame
    <2> DEFINE f == [off |-> position, batch |-> wbatch, batch_seq |-> next_batch_seq]
    <2>1. /\ disk' = [disk EXCEPT ![active.seq].frames = @ \cup {f}]
          /\ active' = [active EXCEPT !.offset = @ + frame_len_on_disk(wbatch)]
          /\ position' = End(f)
      BY <1>7, Zenon DEF WriteFrame
    <2>2. wbatch \in Batch /\ frame_len_on_disk(wbatch) \in Nat
      BY <1>7, FrameLen, Zenon DEF TypeOK, WriteFrame, ReadyToWrite, StoreInv, ControlInv
    <2>3. active # NoActive /\ segments # <<>>
      BY <1>7, Zenon DEF TypeOK, WriteFrame, ReadyToWrite, NeedsRotate, StoreInv, ControlInv, ActiveInv
    <2>4. f \in Frame /\ End(f) \in Nat /\ active.offset + frame_len_on_disk(wbatch) \in Nat
      <3>1. position + frame_len_on_disk(wbatch) \in Nat /\ active.offset + frame_len_on_disk(wbatch) \in Nat
        BY <1>0, <1>a, <2>2
      <3>2. End(f) = position + frame_len_on_disk(wbatch)
        BY Zenon DEF End
      <3> QED
        BY <1>0, <2>2, <3>1, <3>2, Zenon DEF Frame
    <2>5. active' \in [seq : Nat, offset : Nat]
      BY <2>1, <2>3, <2>4, Zenon DEF TypeOK
    <2>6. DiskType' /\ DOMAIN disk' = DOMAIN disk
      <3>1. DOMAIN disk' = DOMAIN disk
        BY <2>1, Zenon
      <3>2. ASSUME NEW s \in DOMAIN disk PROVE disk'[s] \in File
        <4>1. disk[s] \in File
          BY Zenon DEF TypeOK
        <4>2. CASE s = active.seq
          <5>1. disk'[s] = [disk[s] EXCEPT !.frames = @ \cup {f}]
            BY <2>1, <4>2, Zenon
          <5> QED
            BY <4>1, <5>1, <2>4, Zenon DEF File
        <4>3. CASE s # active.seq
          BY <2>1, <4>1, <4>3, Zenon
        <4> QED
          BY <4>2, <4>3, Zenon
      <3>3. disk' \in [DOMAIN disk -> File]
        BY <2>1, <3>2, Zenon
      <3> QED
        BY <3>1, <3>2, <3>3, Zenon DEF TypeOK, DiskType
    <2>7. segments' \in Seq(SegmentMeta)
      <3> DEFINE n == Len(segments)
      <3>1. n \in 1..n /\ n \in Nat /\ DOMAIN segments = 1..n /\ segments[n] \in SegmentMeta
        BY <2>3, SegType, Zenon
      <3>2. segments' = [segments EXCEPT ![n] = [segments[n] EXCEPT !.bytes = @ + frame_len_on_disk(wbatch)]]
        BY <1>7, Zenon DEF WriteFrame
      <3>3. [segments[n] EXCEPT !.bytes = @ + frame_len_on_disk(wbatch)] \in SegmentMeta
        <4>1. segments[n].bytes + frame_len_on_disk(wbatch) \in Nat
          BY <2>2, <3>1, SegType
        <4> HIDE DEF n
        <4> QED
          BY <3>1, <4>1, Zenon DEF SegmentMeta
      <3> QED
        BY <1>0, <3>1, <3>2, <3>3
    <2>8. total_bytes' \in Nat /\ next_batch_seq' \in Nat
      <3>1. total_bytes' = total_bytes + frame_len_on_disk(wbatch) /\ next_batch_seq' = next_batch_seq + 1
        BY <1>7, Zenon DEF WriteFrame
      <3> QED
        BY <1>0, <2>2, <3>1
    <2>9. /\ UNCHANGED <<next_seq, cursor, lock, burst, appended, drainerVars, processVars, errors>>
          /\ wpc' \in {"bound", "drain"} /\ wbatch' = NoBatch
      BY <1>7, Zenon DEF WriteFrame, AppendReturns
    <2>10. since_sync' \in Nat
      BY <1>0, <1>7 DEF WriteFrame, AppendReturns
    <2>11. found' \subseteq DOMAIN disk'
      BY <2>6, <2>9, Zenon DEF TypeOK
    <2>12. position' \in Nat
      BY <2>1, <2>4, Zenon
    <2> QED
      BY <2>5, <2>6, <2>7, <2>8, <2>9, <2>10, <2>11, <2>12, ZenonT(60) DEF TypeOK, DiskType
  <1>8. CASE WriteFails
    <2>1. position' = active.offset
      BY <1>8, Zenon DEF WriteFails, recover_active_after_error
    <2>2. position' \in Nat
      BY <1>a, <2>1, Zenon
    <2>3. /\ UNCHANGED <<segments, active, total_bytes, next_seq, cursor, disk, lock, burst, appended,
                         drainerVars, processVars>>
          /\ wpc' \in {"bound", "drain"} /\ wbatch' = NoBatch /\ since_sync' = since_sync + 1
          /\ next_batch_seq' = next_batch_seq + 1 /\ errors' = errors + 1
      BY <1>8, Zenon DEF WriteFails, AppendReturns, IoError
    <2>4. since_sync' \in Nat /\ next_batch_seq' \in Nat /\ errors' \in Nat
      BY <1>0, <2>3
    <2> QED
      BY <2>2, <2>3, <2>4, SMTT(60) DEF TypeOK
  <1>9. CASE BoundBurst
    <2>1. DiskType' /\ DOMAIN disk' = DOMAIN disk /\ errors' \in Nat /\ since_sync' \in Nat
      <3>1. disk' = disk \/ disk' = DiskAfterRotate(TRUE)
        BY <1>9, Zenon DEF BoundBurst, Sync
      <3>2. DiskType' /\ DOMAIN disk' = DOMAIN disk
        BY <1>0, <3>1, DiskTypes, Zenon DEF DiskType
      <3>3. errors' \in {errors, errors + 1} /\ since_sync' \in {since_sync, 0}
        BY <1>9, Zenon DEF BoundBurst, Sync, IoError
      <3> QED
        BY <1>0, <3>2, <3>3
    <2> QED
      BY <1>9, <2>1 DEF TypeOK, DiskType, BoundBurst
  <1>10. CASE GroupCommit
    <2>1. DiskType' /\ DOMAIN disk' = DOMAIN disk /\ errors' \in Nat
      <3>1. disk' = disk \/ disk' = DiskAfterRotate(TRUE)
        BY <1>10, Zenon DEF GroupCommit, SyncTail, Sync
      <3>2. DiskType' /\ DOMAIN disk' = DOMAIN disk
        BY <1>0, <3>1, DiskTypes, Zenon DEF DiskType
      <3>3. errors' \in {errors, errors + 1}
        BY <1>10, Zenon DEF GroupCommit, SyncTail, Sync, IoError
      <3> QED
        BY <1>0, <3>2, <3>3
    <2> QED
      BY <1>10, <2>1 DEF TypeOK, DiskType, GroupCommit
  <1> QED
    BY <1>1, <1>2, <1>3, <1>4, <1>5, <1>6, <1>7, <1>8, <1>9, <1>10, Zenon DEF Writer

\* The drainer always reads the oldest segment: its cursor is never past it.
LEMMA PeekOldest ==
  ASSUME TypeOK, SeqInv, CursorInv, segments # <<>>
  PROVE  /\ PeekSeq = Oldest.seq
         /\ \A i \in DOMAIN segments : segments[i].seq = PeekSeq => i = 1
  <1>1. 1 \in DOMAIN segments /\ \A i \in DOMAIN segments : i \in Nat /\ 1 <= i
    BY SegType, Zenon
  <1>2. \A i \in DOMAIN segments : i = 1 \/ segments[1].seq < segments[i].seq
    BY <1>1 DEF SeqInv
  <1>3. PeekSeq = Oldest.seq
    <2>1. CASE read_seq \in Seqs
      <3>1. PICK i \in DOMAIN segments : read_seq = segments[i].seq
        BY <2>1, Zenon DEF Seqs
      <3>2. read_seq <= segments[1].seq
        BY <1>1, Zenon DEF CursorInv
      <3>3. i = 1
        BY <1>1, <1>2, <3>1, <3>2, SegType
      <3> QED
        BY <2>1, <3>1, <3>3, Zenon DEF PeekSeq, Oldest
    <2>2. CASE read_seq \notin Seqs
      BY <2>2, Zenon DEF PeekSeq
    <2> QED
      BY <2>1, <2>2, Zenon
  <1> QED
    BY <1>1, <1>2, <1>3, SegType DEF Oldest

\* What deleting the oldest segment does, by the writer's enforce_cap or by the
\* drainer's gc_front_consumed.
LEMMA OldestDropped ==
  ASSUME TypeOK, SeqInv, CursorInv, EnforceCap \/ gc_front_consumed
  PROVE  /\ segments # <<>> /\ 1 \in DOMAIN segments
         /\ segments' \in Seq(SegmentMeta) /\ Len(segments') = Len(segments) - 1
         /\ DOMAIN segments' = 1..Len(segments) - 1
         /\ \A i \in DOMAIN segments' : i + 1 \in DOMAIN segments /\ segments'[i] = segments[i + 1]
         /\ disk' = [s \in DOMAIN disk \ {Oldest.seq} |-> disk[s]]
         /\ Release(Oldest.bytes)
  <1>1. CASE EnforceCap
    <2>1. segments' = Tail(segments) /\ Len(segments) > 1
      BY <1>1, Zenon DEF EnforceCap, OverCap
    <2>2. segments \in Seq(SegmentMeta) /\ Len(segments) \in Nat /\ segments # <<>>
      BY <2>1 DEF TypeOK
    <2>3. /\ segments' \in Seq(SegmentMeta) /\ Len(segments') = Len(segments) - 1
          /\ DOMAIN segments' = 1..Len(segments) - 1
          /\ \A i \in DOMAIN segments' : i + 1 \in DOMAIN segments /\ segments'[i] = segments[i + 1]
      BY <2>1, <2>2
    <2> QED
      BY <1>1, <2>2, <2>3 DEF EnforceCap
  <1>2. CASE gc_front_consumed
    <2> DEFINE k == CHOOSE j \in DOMAIN segments : segments[j].seq = PeekSeq
               rest == [j \in 1..Len(segments) - 1 |-> segments[IF j < k THEN j ELSE j + 1]]
    <2>1. segments # <<>> /\ Len(segments) \in Nat /\ DOMAIN segments = 1..Len(segments)
      BY <1>2, SegType, Zenon DEF gc_front_consumed, AtEnd
    <2>2. k = 1 /\ PeekSeq = Oldest.seq
      <3>1. k \in DOMAIN segments /\ segments[k].seq = PeekSeq
        BY <2>1, PeekSegment, Zenon
      <3> HIDE DEF k
      <3> QED
        BY <2>1, <3>1, PeekOldest, Zenon
    <2>3. segments' = rest /\ disk' = [s \in DOMAIN disk \ {PeekSeq} |-> disk[s]] /\ Release(segments[k].bytes)
      BY <1>2, Zenon DEF gc_front_consumed
    <2> HIDE DEF k
    <2>4. /\ DOMAIN segments' = 1..Len(segments) - 1
          /\ \A i \in DOMAIN segments' : i + 1 \in DOMAIN segments /\ segments'[i] = segments[i + 1]
      BY <2>1, <2>2, <2>3
    <2>5. \A i \in DOMAIN segments' : segments'[i] \in SegmentMeta
      BY <2>4, SegType, Zenon
    <2>6. segments' \in Seq(SegmentMeta) /\ Len(segments') = Len(segments) - 1
      <3>1. segments' \in [1..Len(segments) - 1 -> SegmentMeta] /\ Len(segments) - 1 \in Nat
        <4>1. segments' = [i \in 1..Len(segments) - 1 |-> segments'[i]]
          BY <2>3, Zenon
        <4>2. Len(segments) # 0
          BY <2>1 DEF TypeOK
        <4> QED
          BY <2>1, <2>4, <2>5, <4>1, <4>2
      <3> QED
        BY <3>1
    <2> QED
      BY <2>1, <2>2, <2>3, <2>4, <2>6 DEF Oldest
  <1> QED
    BY <1>1, <1>2, Zenon

\* The steps of the drainer keep the types.
LEMMA TypeDrainer == TypeOK /\ StoreInv /\ Drainer => TypeOK'
  <1> SUFFICES ASSUME TypeOK, StoreInv, Drainer PROVE TypeOK'
    BY Zenon
  <1> USE DEF walVars, writerVars, drainerVars, processVars, cursor
  <1>1. ASSUME NEW t \in BOOLEAN, Sweep(t) PROVE TypeOK'
    BY <1>1, Zenon DEF TypeOK, Sweep
  <1>2. ASSUME NEW t \in BOOLEAN, DrainLoop(t) PROVE TypeOK'
    BY <1>2 DEF TypeOK, DrainLoop
  <1>3. ASSUME NEW t \in BOOLEAN, Handover(t) PROVE TypeOK'
    BY <1>3 DEF TypeOK, Handover
  <1>4. CASE PeekLock
    BY <1>4 DEF TypeOK, PeekLock
  <1>5. CASE PeekEmpty
    BY <1>5 DEF TypeOK, PeekEmpty, PeekReturnsNone
  <1>6. CASE PeekFrame
    <2>1. PICK f \in read_frame_at(disk[PeekSeq], PeekOffset) : pending_advance' = End(f) /\ dbatch' = f.batch
      BY <1>6, Zenon DEF PeekFrame
    <2>2. PeekSeq \in DOMAIN disk /\ PeekSeq \in Nat /\ PeekOffset \in Nat
      BY <1>6, PeekSegment, Zenon DEF PeekFrame, StoreInv, DiskInv
    <2>3. f \in disk[PeekSeq].frames
      BY Zenon DEF read_frame_at
    <2>4. End(f) \in Nat /\ f.batch \in Batch
      BY <2>2, <2>3, FrameType, Zenon
    <2> QED
      BY <1>6, <2>1, <2>2, <2>4, Zenon DEF TypeOK, PeekFrame
  <1>7. CASE PeekNothing
    <2>1. PeekSeq \in Nat /\ PeekOffset \in Nat
      BY <1>7, PeekSegment, Zenon DEF PeekNothing
    <2> QED
      BY <1>7, <2>1 DEF TypeOK, PeekNothing, PeekReturnsNone, IoError
  <1>8. CASE gc_front_consumed
    <2>1. /\ segments' \in Seq(SegmentMeta) /\ Release(Oldest.bytes) /\ segments # <<>>
          /\ disk' = [s \in DOMAIN disk \ {Oldest.seq} |-> disk[s]]
          /\ \A i \in DOMAIN segments' : segments'[i] \in SegmentMeta
      BY <1>8, OldestDropped DEF StoreInv
    <2>2. DiskType'
      BY <2>1, DiskTypes, Zenon
    <2>3. found' = {}
      BY <1>8, Zenon DEF gc_front_consumed, StoreInv, ControlInv, TypeOK
    <2>4. total_bytes' \in Nat
      <3>1. total_bytes \in Nat /\ Oldest.bytes \in Nat
        BY <2>1, SegType, Zenon DEF TypeOK, Oldest
      <3> QED
        BY <2>1, <3>1 DEF Release
    <2>5. read_seq' \in Nat /\ read_offset' \in Nat
      <3>1. \/ read_seq' = PeekSeq /\ read_offset' = PeekOffset
            \/ segments' # <<>> /\ read_seq' = segments'[1].seq /\ read_offset' = SEGMENT_HEADER_LEN
        BY <1>8, Zenon DEF gc_front_consumed
      <3>2. segments' # <<>> => segments'[1].seq \in Nat
        <4>1. segments' # <<>> => 1 \in DOMAIN segments'
          BY <2>1
        <4> QED
          BY <2>1, <4>1, Zenon DEF SegmentMeta
      <3> QED
        BY <2>1, <3>1, <3>2, PeekSegment DEF SEGMENT_HEADER_LEN
    <2> QED
      BY <1>8, <2>1, <2>2, <2>3, <2>4, <2>5, ZenonT(60) DEF TypeOK, DiskType, gc_front_consumed
  <1>9. CASE commit_pending
    <2>1. Advanced \in Nat
      BY Zenon DEF TypeOK, Advanced
    <2> QED
      BY <1>9, <2>1 DEF TypeOK, commit_pending
  <1> QED
    BY <1>1, <1>2, <1>3, <1>4, <1>5, <1>6, <1>7, <1>8, <1>9, Zenon DEF Drainer

\* What walking one file does: it keeps the frames before the offset o where the
\* walk stopped, and the segment is o bytes long.
LEMMA WalkEffect ==
  ASSUME TypeOK, NEW s \in found, RecoverSegment(s)
  PROVE  \E o \in Boundaries(disk[s]) :
           LET kept == {f \in disk[s].frames : f.off < o}
           IN /\ o \in Nat /\ WalkEndsAt(disk[s], o)
              /\ next_batch_seq' \in Nat
              /\ disk' = [disk EXCEPT ![s].frames = kept]
              /\ segments' = Append(segments, [seq |-> s, bytes |-> o, base |-> NextBase])
              /\ total_bytes' = total_bytes + o
  <1> DEFINE kept(o) == {f \in disk[s].frames : f.off < o}
             seen(o) == {next_batch_seq} \cup {f.batch_seq + 1 : f \in kept(o)}
  <1>1. PICK o \in Boundaries(disk[s]) :
          /\ WalkEndsAt(disk[s], o)
          /\ \E n \in seen(o) : (\A m \in seen(o) : m <= n) /\ next_batch_seq' = n
          /\ disk' = [disk EXCEPT ![s].frames = kept(o)]
          /\ segments' = Append(segments, [seq |-> s, bytes |-> o, base |-> NextBase])
          /\ total_bytes' = total_bytes + o
    BY Zenon DEF RecoverSegment
  <1>2. s \in DOMAIN disk
    BY Zenon DEF TypeOK
  <1>3. o \in Nat
    BY <1>2, FrameType DEF Boundaries, SEGMENT_HEADER_LEN
  <1>5. next_batch_seq' \in Nat
    <2>1. \A n \in seen(o) : n \in Nat
      <3>1. next_batch_seq \in Nat
        BY Zenon DEF TypeOK
      <3>2. \A f \in kept(o) : f.batch_seq \in Nat
        BY <1>2, FrameType, Zenon
      <3>3. \A f \in kept(o) : f.batch_seq + 1 \in Nat
        BY <3>2
      <3> QED
        BY <3>1, <3>3, Zenon
    <2> QED
      BY <1>1, <2>1, Zenon
  <1> QED
    BY <1>1, <1>3, <1>5, Zenon

\* The steps of recovery keep the types.
LEMMA TypeRecovery == TypeOK /\ Recovery => TypeOK'
  <1> SUFFICES ASSUME TypeOK, Recovery PROVE TypeOK'
    BY Zenon
  <1> USE DEF walVars, writerVars, drainerVars, processVars, cursor
  <1>1. ASSUME NEW s \in found, RecoverSegment(s) PROVE TypeOK'
    <2> DEFINE kept(o) == {f \in disk[s].frames : f.off < o}
    <2>1. PICK o \in Boundaries(disk[s]) :
             /\ o \in Nat
             /\ next_batch_seq' \in Nat
             /\ disk' = [disk EXCEPT ![s].frames = kept(o)]
             /\ segments' = Append(segments, [seq |-> s, bytes |-> o, base |-> NextBase])
             /\ total_bytes' = total_bytes + o
      BY <1>1, WalkEffect, Zenon
    <2>2. s \in Nat /\ s \in DOMAIN disk /\ NextBase \in Nat
      BY SegType, Zenon DEF TypeOK
    <2>3. segments' \in Seq(SegmentMeta) /\ total_bytes' \in Nat
      <3>1. [seq |-> s, bytes |-> o, base |-> NextBase] \in SegmentMeta
        BY <2>1, <2>2, Zenon DEF SegmentMeta
      <3> QED
        BY <2>1, <3>1 DEF TypeOK
    <2>4. DiskType' /\ DOMAIN disk' = DOMAIN disk
      <3>1. DOMAIN disk' = DOMAIN disk
        BY <2>1, Zenon
      <3>2. ASSUME NEW t \in DOMAIN disk PROVE disk'[t] \in File
        <4>1. disk[t] \in File
          BY Zenon DEF TypeOK
        <4>2. disk'[t] = IF t = s THEN [disk[t] EXCEPT !.frames = kept(o)] ELSE disk[t]
          BY <2>1, Zenon
        <4> QED
          BY <2>1, <4>1, <4>2, Zenon DEF File
      <3>3. disk' \in [DOMAIN disk' -> File]
        BY <2>1, <3>1, <3>2, Zenon
      <3> QED
        BY <3>1, <3>2, <3>3, Zenon DEF TypeOK, DiskType
    <2>5. /\ UNCHANGED <<active, position, cursor, lock, writerVars, drainerVars, mode, crashes, errors>>
          /\ next_seq' = s + 1 /\ found' = found \ {s}
      BY <1>1, Zenon DEF RecoverSegment
    <2>6. next_seq' \in Nat /\ found' \subseteq DOMAIN disk'
      BY <2>2, <2>4, <2>5 DEF TypeOK
    <2>7. next_batch_seq' \in Nat
      BY <2>1, Zenon
    <2> QED
      BY <2>3, <2>4, <2>5, <2>6, <2>7, SMTT(60) DEF TypeOK, DiskType
  <1>2. ASSUME NEW s \in found, RecoverDrops(s) PROVE TypeOK'
    <2>1. disk' = [t \in DOMAIN disk \ {s} |-> disk[t]] \/ disk' = disk
      BY <1>2, Zenon DEF RecoverDrops
    <2>2. DiskType'
      BY <2>1, DiskTypes, Zenon DEF TypeOK, DiskType
    <2>3. found' \subseteq DOMAIN disk'
      BY <1>2, <2>1, Zenon DEF TypeOK, RecoverDrops
    <2>4. errors' \in Nat /\ next_seq' \in Nat
      <3>1. errors' = errors \/ errors' = errors + 1
        BY <1>2, Zenon DEF RecoverDrops, IoError
      <3>2. next_seq' = s + 1 /\ s \in Nat
        BY <1>2, Zenon DEF RecoverDrops, TypeOK
      <3> QED
        BY <3>1, <3>2 DEF TypeOK
    <2>5. UNCHANGED <<segments, active, position, total_bytes, next_batch_seq, cursor, lock,
                      writerVars, drainerVars, mode, crashes>>
      BY <1>2, Zenon DEF RecoverDrops
    <2> QED
      BY <2>2, <2>3, <2>4, <2>5 DEF TypeOK, DiskType
  <1>3. CASE RecoverFinish
    <2>1. active' \in [seq : Nat, offset : Nat] \cup {NoActive}
      BY <1>3, SegType, Zenon DEF RecoverFinish, Newest
    <2>2. read_seq' \in Nat
      BY <1>3, SegType, Zenon DEF RecoverFinish, ReplayFrom, Oldest, TypeOK
    <2>3. position' \in Nat
      BY <1>3, SegType, Zenon DEF RecoverFinish, Newest
    <2> QED
      BY <1>3, <2>1, <2>2, <2>3 DEF TypeOK, RecoverFinish
  <1>4. CASE RecoverFails
    BY <1>4 DEF TypeOK, RecoverFails, IoError
  <1> QED
    BY <1>1, <1>2, <1>3, <1>4, Zenon DEF Recovery

\* What a crash leaves of the directory.
LEMMA CrashEffect ==
  ASSUME TypeOK, Crash
  PROVE  /\ DOMAIN disk' \subseteq DOMAIN disk /\ found' = DOMAIN disk' /\ DiskType'
         /\ \A s \in DOMAIN disk' : Survives(disk[s], disk'[s])
         /\ \A s \in DOMAIN disk \ DOMAIN disk' : disk[s].synced = 0
  <1>1. PICK kept \in SUBSET DOMAIN disk :
          /\ \A s \in DOMAIN disk \ kept : disk[s].synced = 0
          /\ disk' \in [kept -> UNION {Leftovers(disk[s]) : s \in kept}]
          /\ \A s \in kept : Survives(disk[s], disk'[s])
          /\ found' = kept
    BY Zenon DEF Crash
  <1>2. DOMAIN disk' = kept
    BY <1>1, Zenon
  <1>3. ASSUME NEW s \in kept
        PROVE  disk'[s] \in File
    <2>1. PICK t \in kept : disk'[s] \in Leftovers(disk[t])
      BY <1>1, Zenon
    <2>2. disk[t] \in File
      BY Zenon DEF TypeOK
    <2>3. disk'[s] \in [header : BOOLEAN, frames : SUBSET disk[t].frames, synced : {disk[t].synced}]
      BY <2>1, Zenon DEF Leftovers
    <2> QED
      BY <2>2, <2>3, Zenon DEF File
  <1>4. DiskType'
    BY <1>1, <1>2, <1>3, Zenon DEF TypeOK, DiskType
  <1> QED
    BY <1>1, <1>2, <1>4, Zenon

\* A crash keeps the types.
LEMMA TypeCrash == TypeOK /\ Crash => TypeOK'
  <1> SUFFICES ASSUME TypeOK, Crash PROVE TypeOK'
    BY Zenon
  <1> USE DEF walVars, writerVars, drainerVars, processVars, cursor
  <1>1. DiskType' /\ found' = DOMAIN disk'
    BY CrashEffect, Zenon
  <1>2. segments' \in Seq(SegmentMeta) /\ read_offset' \in Nat
    BY DEF Crash, SEGMENT_HEADER_LEN
  <1>3. /\ active' = NoActive /\ position' = 0 /\ total_bytes' = 0 /\ next_seq' = 0 /\ next_batch_seq' = 0
        /\ read_seq' = 0 /\ pending_advance' = None /\ lock' = "free"
        /\ wpc' = "recv" /\ wbatch' = NoBatch /\ burst' = FALSE /\ since_sync' = 0
        /\ dpc' = "sweep" /\ dbatch' = NoBatch /\ trial' = FALSE /\ mode' = "recovering"
        /\ UNCHANGED <<appended, errors>> /\ crashes' = crashes + 1
    BY Zenon DEF Crash
  <1>4. crashes' \in Nat
    BY <1>3 DEF TypeOK
  <1> QED
    BY <1>1, <1>2, <1>3, <1>4, Zenon DEF TypeOK, DiskType

\* TypeStep: the store's invariant makes the types inductive.
LEMMA TypeStep == TypeOK /\ StoreInv /\ [Next]_vars => TypeOK'
  <1>1. ASSUME TypeOK, UNCHANGED vars PROVE TypeOK'
    BY <1>1 DEF TypeOK, vars, walVars, writerVars, drainerVars, processVars
  <1> QED
    BY <1>1, TypeWriter, TypeDrainer, TypeRecovery, TypeCrash, Zenon DEF Next
-----------------------------------------------------------------------------
(* Segments and files. *)

\* What the structural invariant is about.
storeVars == <<segments, active, total_bytes, next_seq, read_seq, read_offset,
               pending_advance, disk, found>>

\* The steps that change the store; every other step leaves storeVars alone.
StoreStep ==
  \/ EnforceCap \/ Rotate \/ RotateFails \/ WriteFrame \/ BoundBurst \/ GroupCommit
  \/ PeekFrame \/ PeekNothing \/ gc_front_consumed \/ commit_pending
  \/ \E s \in found : RecoverSegment(s) \/ RecoverDrops(s)
  \/ RecoverFinish \/ Crash

\* Every step changes the store through one of the actions of StoreStep, or not at all.
LEMMA StoreSteps == [Next]_vars => StoreStep \/ UNCHANGED storeVars
  <1> SUFFICES ASSUME [Next]_vars PROVE StoreStep \/ UNCHANGED storeVars
    BY Zenon
  <1> USE DEF storeVars, walVars, writerVars, drainerVars, processVars, cursor
  <1>1. CASE UNCHANGED vars
    BY <1>1, Zenon DEF vars
  <1>2. CASE Writer
    <2>1. ASSUME NEW b \in Batch, WriterRecv(b) \/ WriterTryRecv(b) PROVE UNCHANGED storeVars
      BY <2>1, Zenon DEF WriterRecv, WriterTryRecv
    <2>2. CASE WriterLock
      BY <2>2, Zenon DEF WriterLock
    <2>3. CASE WriteFails
      BY <2>3, Zenon DEF WriteFails
    <2> QED
      BY <1>2, <2>1, <2>2, <2>3, Zenon DEF Writer, StoreStep
  <1>3. CASE Drainer
    <2>1. ASSUME NEW t \in BOOLEAN, Sweep(t) \/ DrainLoop(t) \/ Handover(t) PROVE UNCHANGED storeVars
      BY <2>1, Zenon DEF Sweep, DrainLoop, Handover
    <2>2. CASE PeekLock \/ PeekEmpty
      BY <2>2, Zenon DEF PeekLock, PeekEmpty
    <2> QED
      BY <1>3, <2>1, <2>2, Zenon DEF Drainer, StoreStep
  <1>4. CASE Recovery
    <2>1. CASE RecoverFails
      BY <2>1, Zenon DEF RecoverFails
    <2> QED
      BY <1>4, <2>1, Zenon DEF Recovery, StoreStep
  <1> QED
    BY <1>1, <1>2, <1>3, <1>4, Zenon DEF Next, StoreStep

\* No thread works on the store before recovery is over.
LEMMA Up ==
  ASSUME TypeOK, ControlInv, wpc # "recv" \/ dpc # "sweep"
  PROVE  mode = "up" /\ found = {}
  BY Zenon DEF TypeOK, ControlInv

\* Appending one segment to the list.
LEMMA OneMoreSegment ==
  ASSUME TypeOK, NEW m, m \in SegmentMeta, segments' = Append(segments, m)
  PROVE  /\ Len(segments') = Len(segments) + 1 /\ DOMAIN segments' = 1..Len(segments) + 1
         /\ \A i \in DOMAIN segments : i \in DOMAIN segments' /\ segments'[i] = segments[i]
         /\ \A i \in DOMAIN segments' : i \in DOMAIN segments \/ i = Len(segments) + 1
         /\ segments'[Len(segments) + 1] = m /\ segments' # <<>>
         /\ Newest' = m
         /\ Oldest' = IF segments = <<>> THEN m ELSE Oldest
  <1>1. segments \in Seq(SegmentMeta)
    BY Zenon DEF TypeOK
  <1>2. /\ Len(segments') = Len(segments) + 1 /\ DOMAIN segments' = 1..Len(segments) + 1
        /\ \A i \in DOMAIN segments : i \in DOMAIN segments' /\ segments'[i] = segments[i]
        /\ \A i \in DOMAIN segments' : i \in DOMAIN segments \/ i = Len(segments) + 1
        /\ segments'[Len(segments) + 1] = m /\ segments' # <<>>
    BY <1>1
  <1>3. Newest' = m
    BY <1>2, Zenon DEF Newest
  <1>4. Oldest' = IF segments = <<>> THEN m ELSE Oldest
    BY <1>1, <1>2, SegType DEF Oldest
  <1> QED
    BY <1>2, <1>3, <1>4, Zenon

\* What an append of a frame does to the list.
LEMMA LastSegmentGrows ==
  ASSUME TypeOK, StoreInv, WriteFrame
  PROVE  /\ wbatch \in Batch /\ active # NoActive /\ segments # <<>>
         /\ Len(segments') = Len(segments) /\ DOMAIN segments' = DOMAIN segments
         /\ \A i \in DOMAIN segments :
              /\ segments'[i].seq = segments[i].seq /\ segments'[i].base = segments[i].base
              /\ segments'[i].bytes = segments[i].bytes
                   + (IF i = Len(segments) THEN frame_len_on_disk(wbatch) ELSE 0)
         /\ Len(segments) \in DOMAIN segments /\ segments' # <<>>
  <1> DEFINE n == Len(segments)
             m == [segments[n] EXCEPT !.bytes = @ + frame_len_on_disk(wbatch)]
  <1>1. wbatch \in Batch /\ active # NoActive /\ segments # <<>>
    BY Zenon DEF TypeOK, WriteFrame, ReadyToWrite, NeedsRotate, StoreInv, ControlInv, ActiveInv
  <1>2. segments' = [segments EXCEPT ![n] = m]
    BY Zenon DEF WriteFrame
  <1>3. n \in DOMAIN segments /\ n \in Nat /\ DOMAIN segments = 1..n /\ segments \in Seq(SegmentMeta)
    BY <1>1, SegType, Zenon DEF TypeOK
  <1>4. segments[n] \in SegmentMeta /\ frame_len_on_disk(wbatch) \in Nat
    BY <1>1, <1>3, SegType, FrameLen, Zenon
  <1>5. /\ m.seq = segments[n].seq /\ m.base = segments[n].base
        /\ m.bytes = segments[n].bytes + frame_len_on_disk(wbatch)
    BY <1>4, Zenon DEF SegmentMeta
  <1>6. m \in SegmentMeta
    <2>1. segments[n].bytes + frame_len_on_disk(wbatch) \in Nat
      BY <1>3, <1>4, SegType
    <2> HIDE DEF n
    <2> QED
      BY <1>4, <2>1, Zenon DEF SegmentMeta
  <1> HIDE DEF m
  <1>7. /\ DOMAIN segments' = DOMAIN segments /\ segments'[n] = m
        /\ \A i \in DOMAIN segments : i # n => segments'[i] = segments[i]
    BY <1>2, <1>3, Zenon
  <1>8. segments' \in Seq(SegmentMeta)
    BY <1>2, <1>3, <1>6
  <1>9. Len(segments') = n /\ segments' # <<>>
    BY <1>3, <1>7, <1>8
  <1>10. \A i \in DOMAIN segments : segments[i].bytes \in Nat
    BY SegType, Zenon
  <1> HIDE DEF n
  <1>11. \A i \in DOMAIN segments :
              /\ segments'[i].seq = segments[i].seq /\ segments'[i].base = segments[i].base
              /\ segments'[i].bytes = segments[i].bytes
                   + (IF i = n THEN frame_len_on_disk(wbatch) ELSE 0)
    BY <1>5, <1>7, <1>10
  <1> QED
    BY <1>1, <1>3, <1>7, <1>9, <1>11, Zenon DEF n

\* An fdatasync of the active segment changes no frame and no header.
LEMMA RotatedFiles ==
  ASSUME TypeOK, NEW ok \in BOOLEAN
  PROVE  /\ DOMAIN DiskAfterRotate(ok) = DOMAIN disk
         /\ \A s \in DOMAIN disk :
              /\ DiskAfterRotate(ok)[s].frames = disk[s].frames
              /\ DiskAfterRotate(ok)[s].header = disk[s].header
              /\ DiskAfterRotate(ok)[s].synced =
                   IF ok /\ s = active.seq THEN active.offset ELSE disk[s].synced
  <1>1. DOMAIN DiskAfterRotate(ok) = DOMAIN disk
    BY Zenon DEF DiskAfterRotate
  <1>2. ASSUME NEW s \in DOMAIN disk
        PROVE  /\ DiskAfterRotate(ok)[s].frames = disk[s].frames
               /\ DiskAfterRotate(ok)[s].header = disk[s].header
               /\ DiskAfterRotate(ok)[s].synced =
                    IF ok /\ s = active.seq THEN active.offset ELSE disk[s].synced
    <2>1. disk[s] \in File
      BY Zenon DEF TypeOK
    <2>2. DiskAfterRotate(ok)[s] = IF s = active.seq THEN SyncOld(disk[s], ok) ELSE disk[s]
      BY Zenon DEF DiskAfterRotate
    <2> QED
      BY <2>1, <2>2, Zenon DEF SyncOld, File
  <1> QED
    BY <1>1, <1>2, Zenon

\* The two syncs of a group commit change nothing but what is durable.
LEMMA SyncEffect ==
  ASSUME TypeOK, BoundBurst \/ GroupCommit
  PROVE  /\ DOMAIN disk' = DOMAIN disk
         /\ \A s \in DOMAIN disk : disk'[s].frames = disk[s].frames /\ disk'[s].header = disk[s].header
         /\ UNCHANGED <<segments, active, total_bytes, next_seq, read_seq, read_offset,
                        pending_advance, found>>
  <1>1. disk' = disk \/ disk' = DiskAfterRotate(TRUE)
    BY Zenon DEF BoundBurst, GroupCommit, SyncTail, Sync
  <1>2. UNCHANGED <<segments, active, total_bytes, next_seq, read_seq, read_offset,
                        pending_advance, found>>
    BY Zenon DEF BoundBurst, GroupCommit, cursor, processVars
  <1> QED
    BY <1>1, <1>2, RotatedFiles, Zenon

\* What a rotation that succeeds does.
LEMMA RotateEffect ==
  ASSUME TypeOK, StoreInv, Rotate
  PROVE  /\ found = {} /\ found' = {} /\ next_seq \notin DOMAIN disk
         /\ DOMAIN disk' = DOMAIN disk \cup {next_seq}
         /\ \A s \in DOMAIN disk : disk'[s].frames = disk[s].frames /\ disk'[s].header = disk[s].header
         /\ disk'[next_seq] = NewFile(TRUE)
         /\ segments' = Append(segments, [seq |-> next_seq, bytes |-> SEGMENT_HEADER_LEN,
                                          base |-> NextBase])
         /\ [seq |-> next_seq, bytes |-> SEGMENT_HEADER_LEN, base |-> NextBase] \in SegmentMeta
         /\ next_seq' = next_seq + 1
         /\ UNCHANGED <<read_seq, read_offset, pending_advance>>
  <1>1. found = {} /\ found' = {}
    BY Up, Zenon DEF Rotate, processVars, StoreInv
  <1>2. next_seq \notin DOMAIN disk
    BY <1>1 DEF TypeOK, StoreInv, SeqInv
  <1>3. PICK ok \in BOOLEAN : disk' = AddFile(DiskAfterRotate(ok), NewFile(TRUE))
    BY Zenon DEF Rotate
  <1>4. /\ DOMAIN disk' = DOMAIN disk \cup {next_seq} /\ disk'[next_seq] = NewFile(TRUE)
        /\ \A s \in DOMAIN disk : disk'[s] = DiskAfterRotate(ok)[s]
    BY <1>2, <1>3, RotatedFiles, Zenon DEF AddFile
  <1>5. \A s \in DOMAIN disk : disk'[s].frames = disk[s].frames /\ disk'[s].header = disk[s].header
    BY <1>4, RotatedFiles
  <1>6. [seq |-> next_seq, bytes |-> SEGMENT_HEADER_LEN, base |-> NextBase] \in SegmentMeta
    BY SegType, Zenon DEF TypeOK, SegmentMeta, SEGMENT_HEADER_LEN
  <1>7. /\ segments' = Append(segments, [seq |-> next_seq, bytes |-> SEGMENT_HEADER_LEN,
                                         base |-> NextBase])
        /\ next_seq' = next_seq + 1 /\ UNCHANGED <<read_seq, read_offset, pending_advance>>
    BY Zenon DEF Rotate, cursor
  <1> QED
    BY <1>1, <1>2, <1>4, <1>5, <1>6, <1>7, Zenon

\* A rotation that fails leaves at most one new, empty file behind.
LEMMA RotateFailsEffect ==
  ASSUME TypeOK, StoreInv, RotateFails
  PROVE  /\ found = {} /\ found' = {} /\ next_seq \notin DOMAIN disk
         /\ DOMAIN disk \subseteq DOMAIN disk'
         /\ \A s \in DOMAIN disk : disk'[s].frames = disk[s].frames /\ disk'[s].header = disk[s].header
         /\ \A s \in DOMAIN disk' \ DOMAIN disk : s = next_seq /\ disk'[s] = NewFile(FALSE)
         /\ \A s \in DOMAIN disk' : s < next_seq'
         /\ next_seq' \in {next_seq, next_seq + 1} /\ errors' = errors + 1
         /\ UNCHANGED <<segments, total_bytes, read_seq, read_offset, pending_advance>>
         /\ active' = NoActive
  <1>1. found = {} /\ found' = {}
    BY Up, Zenon DEF RotateFails, processVars, StoreInv
  <1>2. next_seq \notin DOMAIN disk /\ \A s \in DOMAIN disk : s < next_seq
    BY <1>1 DEF TypeOK, StoreInv, SeqInv
  <1>3. PICK ok \in BOOLEAN :
          \/ disk' = DiskAfterRotate(ok) /\ next_seq' \in {next_seq, next_seq + 1}
          \/ disk' = AddFile(DiskAfterRotate(ok), NewFile(FALSE)) /\ next_seq' = next_seq + 1
    BY Zenon DEF RotateFails
  <1>4. /\ \A s \in DOMAIN disk : s \in DOMAIN disk' /\ disk'[s] = DiskAfterRotate(ok)[s]
        /\ \A s \in DOMAIN disk' \ DOMAIN disk :
             s = next_seq /\ disk'[s] = NewFile(FALSE) /\ next_seq' = next_seq + 1
    <2>1. CASE disk' = DiskAfterRotate(ok)
      BY <2>1, RotatedFiles, Zenon
    <2>2. CASE disk' = AddFile(DiskAfterRotate(ok), NewFile(FALSE)) /\ next_seq' = next_seq + 1
      BY <1>2, <2>2, RotatedFiles, Zenon DEF AddFile
    <2> QED
      BY <1>3, <2>1, <2>2, Zenon
  <1>5. \A s \in DOMAIN disk : disk'[s].frames = disk[s].frames /\ disk'[s].header = disk[s].header
    BY <1>4, RotatedFiles
  <1>6. next_seq \in Nat /\ (next_seq' = next_seq \/ next_seq' = next_seq + 1) /\ DOMAIN disk \subseteq Nat
    BY <1>3, Zenon DEF TypeOK
  <1>7. \A s \in DOMAIN disk' : s < next_seq'
    <2> SUFFICES ASSUME NEW s \in DOMAIN disk' PROVE s < next_seq'
      BY Zenon
    <2>1. CASE s \in DOMAIN disk
      <3>1. s < next_seq /\ s \in Nat
        BY <1>2, <1>6, <2>1, Zenon
      <3> QED
        BY ONLY <1>6, <3>1
    <2>2. CASE s \notin DOMAIN disk
      <3>1. s = next_seq /\ next_seq' = next_seq + 1
        BY <1>4, <2>2, Zenon
      <3> QED
        BY ONLY <1>6, <3>1
    <2> QED
      BY <2>1, <2>2, Zenon
  <1>8. /\ UNCHANGED <<segments, total_bytes, read_seq, read_offset, pending_advance>>
        /\ active' = NoActive /\ errors' = errors + 1
    BY Zenon DEF RotateFails, IoError, cursor
  <1> QED
    BY <1>1, <1>2, <1>4, <1>5, <1>6, <1>7, <1>8, Zenon

-----------------------------------------------------------------------------
\* Segment numbers stay ordered and fresh: rotation and recovery only number upwards.
LEMMA SeqStep == TypeOK /\ TypeOK' /\ StoreInv /\ [Next]_vars => SeqInv'
  <1> SUFFICES ASSUME TypeOK, TypeOK', StoreInv, StoreStep \/ UNCHANGED storeVars PROVE SeqInv'
    BY StoreSteps, Zenon
  <1>0. /\ next_seq \in Nat /\ DOMAIN disk \subseteq Nat /\ found \subseteq DOMAIN disk
        /\ \A i \in DOMAIN segments : segments[i].seq \in Nat /\ i \in Nat
        /\ DOMAIN segments = 1..Len(segments) /\ Len(segments) \in Nat
    BY SegType, Zenon DEF TypeOK
  <1>i. SeqInv /\ ControlInv /\ CursorInv
    BY Zenon DEF StoreInv
  <1>1. CASE UNCHANGED <<segments, next_seq, disk, found>>
    BY <1>1, <1>i, Zenon DEF SeqInv
  <1>2. CASE EnforceCap \/ gc_front_consumed
    <2>1. /\ DOMAIN disk' \subseteq DOMAIN disk
          /\ DOMAIN segments' = 1..Len(segments) - 1
          /\ \A i \in DOMAIN segments' : i + 1 \in DOMAIN segments /\ segments'[i] = segments[i + 1]
      BY <1>2, <1>i, OldestDropped, Zenon
    <2>2. UNCHANGED <<next_seq, found>>
      BY <1>2, Zenon DEF EnforceCap, gc_front_consumed, processVars
    <2>3. \A i, j \in DOMAIN segments' : i < j => segments'[i].seq < segments'[j].seq
      <3> SUFFICES ASSUME NEW i \in DOMAIN segments', NEW j \in DOMAIN segments', i < j
                   PROVE  segments'[i].seq < segments'[j].seq
        BY Zenon
      <3>1. i + 1 \in DOMAIN segments /\ j + 1 \in DOMAIN segments /\ i + 1 < j + 1
        BY <1>0, <2>1
      <3> QED
        BY <1>i, <2>1, <3>1, Zenon DEF SeqInv
    <2> QED
      BY <1>i, <2>1, <2>2, <2>3, Zenon DEF SeqInv
  <1>3. CASE Rotate
    <2> DEFINE m == [seq |-> next_seq, bytes |-> SEGMENT_HEADER_LEN, base |-> NextBase]
    <2>1. /\ found' = {} /\ found = {} /\ DOMAIN disk' = DOMAIN disk \cup {next_seq}
          /\ segments' = Append(segments, m) /\ m \in SegmentMeta /\ next_seq' = next_seq + 1
      BY <1>3, RotateEffect, Zenon
    <2>2. m.seq = next_seq
      BY Zenon
    <2> HIDE DEF m
    <2>3. /\ \A i \in DOMAIN segments : segments'[i] = segments[i]
          /\ \A i \in DOMAIN segments' : i \in DOMAIN segments \/ i = Len(segments) + 1
          /\ segments'[Len(segments) + 1] = m
      BY <2>1, OneMoreSegment, Zenon
    <2> QED
      BY <1>0, <1>i, <2>1, <2>2, <2>3 DEF SeqInv
  <1>4. CASE RotateFails
    BY <1>0, <1>4, <1>i, RotateFailsEffect DEF SeqInv
  <1>5. CASE WriteFrame
    <2>1. DOMAIN disk' = DOMAIN disk /\ UNCHANGED <<next_seq, found>>
      BY <1>5, Zenon DEF WriteFrame, processVars
    <2>2. DOMAIN segments' = DOMAIN segments /\ \A i \in DOMAIN segments : segments'[i].seq = segments[i].seq
      BY <1>5, LastSegmentGrows, Zenon
    <2> QED
      BY <1>i, <2>1, <2>2 DEF SeqInv
  <1>6. CASE BoundBurst \/ GroupCommit
    BY <1>6, <1>i, SyncEffect, Zenon DEF SeqInv
  <1>7. ASSUME NEW s \in found, RecoverSegment(s) PROVE SeqInv'
    <2>1. PICK m \in SegmentMeta : segments' = Append(segments, m) /\ m.seq = s
      <3>1. PICK o : /\ segments' = Append(segments, [seq |-> s, bytes |-> o, base |-> NextBase])
                     /\ o \in Nat
        BY <1>7, WalkEffect, Zenon
      <3>2. [seq |-> s, bytes |-> o, base |-> NextBase] \in SegmentMeta
        BY <1>0, <3>1, SegType, Zenon DEF SegmentMeta
      <3> QED
        BY <3>1, <3>2, Zenon
    <2>2. /\ \A i \in DOMAIN segments : segments'[i] = segments[i]
          /\ \A i \in DOMAIN segments' : i \in DOMAIN segments \/ i = Len(segments) + 1
          /\ segments'[Len(segments) + 1] = m
      BY <2>1, OneMoreSegment, Zenon
    <2>3. DOMAIN disk' = DOMAIN disk /\ next_seq' = s + 1 /\ found' = found \ {s}
          /\ \A t \in found : s <= t
      BY <1>7, Zenon DEF RecoverSegment, IsNextFound
    <2>4. s \in Nat /\ next_seq <= s
      BY <1>0, <1>i, Zenon DEF SeqInv
    <2> QED
      BY <1>0, <1>i, <2>1, <2>2, <2>3, <2>4 DEF SeqInv
  <1>8. ASSUME NEW s \in found, RecoverDrops(s) PROVE SeqInv'
    <2>3. DOMAIN disk' \subseteq DOMAIN disk /\ next_seq' = s + 1 /\ found' = found \ {s}
          /\ UNCHANGED segments /\ \A t \in found : s <= t
      BY <1>8, Zenon DEF RecoverDrops, IsNextFound
    <2>4. s \in Nat /\ next_seq <= s
      BY <1>0, <1>i, Zenon DEF SeqInv
    <2> QED
      BY <1>0, <1>i, <2>3, <2>4 DEF SeqInv
  <1>9. CASE Crash
    <2>1. segments' = <<>> /\ next_seq' = 0 /\ found' = DOMAIN disk' /\ DOMAIN disk' \subseteq Nat
      BY <1>0, <1>9, CrashEffect, Zenon DEF Crash
    <2> QED
      BY <2>1 DEF SeqInv
  <1>10. CASE PeekFrame \/ PeekNothing \/ commit_pending \/ RecoverFinish
    BY <1>1, <1>10, Zenon DEF PeekFrame, PeekNothing, commit_pending, RecoverFinish, processVars
  <1> QED
    BY <1>1, <1>2, <1>3, <1>4, <1>5, <1>6, <1>7, <1>8, <1>9, <1>10, Zenon DEF StoreStep, storeVars

-----------------------------------------------------------------------------
\* The bounds of a segment and of a frame.
LEMMA MaxSegment ==
  /\ MaxSegmentLen \in Nat /\ SegmentBytes <= MaxSegmentLen /\ SegmentBytes \in Nat
  /\ MaxFrameLen \in Nat /\ SEGMENT_HEADER_LEN + MaxFrameLen <= MaxSegmentLen
  BY WalConfigAssumption DEF MaxSegmentLen, MaxFrameLen, SEGMENT_HEADER_LEN, FRAME_HEADER_LEN

\* FileOK and Filled look at frames and header only.
LEMMA SameContents ==
  ASSUME NEW F, NEW G, G.frames = F.frames, G.header = F.header
  PROVE  (FileOK(F) => FileOK(G)) /\ \A len : Filled(F, len) => Filled(G, len)
  BY Zenon DEF FileOK, Filled

\* Taking frames out of a file keeps it well-formed.
LEMMA FewerFrames ==
  ASSUME NEW F, NEW G, G.frames \subseteq F.frames, FileOK(F)
  PROVE  FileOK(G)
  BY Zenon DEF FileOK

\* A new file is an empty segment.
LEMMA EmptyFile ==
  /\ \A h \in BOOLEAN : FileOK(NewFile(h))
  /\ Filled(NewFile(TRUE), SEGMENT_HEADER_LEN)
  BY MaxSegment DEF FileOK, Filled, NewFile, SEGMENT_HEADER_LEN

\* Appending a frame at the end of a filled file keeps it filled: here the guard
\* of rotate makes the frame fit.
LEMMA FrameAppended ==
  ASSUME TypeOK, NEW s \in DOMAIN disk, NEW len \in Nat, NEW b \in Batch, NEW q \in Nat,
         FileOK(disk[s]), Filled(disk[s], len),
         len + frame_len_on_disk(b) <= MaxSegmentLen,
         NEW G, G.header = disk[s].header,
         G.frames = disk[s].frames \cup {[off |-> len, batch |-> b, batch_seq |-> q]}
  PROVE  FileOK(G) /\ Filled(G, len + frame_len_on_disk(b))
  <1> DEFINE f == [off |-> len, batch |-> b, batch_seq |-> q]
             L == len + frame_len_on_disk(b)
  <1>1. f.off = len /\ End(f) = L /\ frame_len_on_disk(b) \in Nat /\ frame_len_on_disk(b) > 0
    BY FrameLen DEF End, FRAME_HEADER_LEN
  <1>2. L \in Nat /\ len <= L /\ L <= MaxSegmentLen /\ len < L
    BY <1>1
  <1>3. /\ disk[s].header /\ SEGMENT_HEADER_LEN <= len
        /\ len = SEGMENT_HEADER_LEN \/ \E g \in disk[s].frames : g.off = SEGMENT_HEADER_LEN
        /\ \A g \in disk[s].frames : End(g) = len \/ \E h \in disk[s].frames : h.off = End(g)
        /\ \A g \in disk[s].frames : End(g) <= len
    BY Zenon DEF Filled
  <1>4. /\ \A g \in disk[s].frames : g.off >= SEGMENT_HEADER_LEN /\ End(g) <= MaxSegmentLen
        /\ \A g, h \in disk[s].frames : g = h \/ End(g) <= h.off \/ End(h) <= g.off
    BY Zenon DEF FileOK
  <1>5. \A g \in disk[s].frames : g.off \in Nat /\ End(g) \in Nat
    BY FrameType, Zenon
  <1>6. G.frames = disk[s].frames \cup {f}
    BY Zenon
  <1> HIDE DEF f, L
  <1>7. FileOK(G)
    BY <1>1, <1>2, <1>3, <1>4, <1>6, Zenon DEF FileOK, SEGMENT_HEADER_LEN
  <1>8. Filled(G, L)
    <2>0. SEGMENT_HEADER_LEN <= L
      BY ONLY <1>2, <1>3, len \in Nat DEF SEGMENT_HEADER_LEN
    <2>1. G.header /\ SEGMENT_HEADER_LEN <= L /\ L <= MaxSegmentLen
      BY <1>2, <1>3, <2>0, Zenon
    <2>2. \E g \in G.frames : g.off = SEGMENT_HEADER_LEN
      BY <1>1, <1>3, <1>6, ZenonT(60)
    <2>3. \A g \in G.frames : End(g) = L \/ \E h \in G.frames : h.off = End(g)
      BY <1>1, <1>3, <1>6, Zenon
    <2>4. \A g \in G.frames : End(g) <= L
      BY <1>1, <1>2, <1>3, <1>5, <1>6
    <2> QED
      BY <2>1, <2>2, <2>3, <2>4, Zenon DEF Filled
  <1> QED
    BY <1>7, <1>8, Zenon DEF L

\* The walk of recovery keeps exactly a filled prefix of the file.
LEMMA WalkFills ==
  ASSUME TypeOK, NEW s \in DOMAIN disk, FileOK(disk[s]), disk[s].header,
         NEW o \in Boundaries(disk[s]), WalkEndsAt(disk[s], o),
         NEW G, G.header = disk[s].header, G.frames = {f \in disk[s].frames : f.off < o}
  PROVE  Filled(G, o)
  <1>1. \A f \in disk[s].frames :
          /\ f.off \in Nat /\ End(f) \in Nat /\ End(f) > f.off
          /\ f.off >= SEGMENT_HEADER_LEN /\ End(f) <= MaxSegmentLen
    BY FrameType DEF FileOK, FRAME_HEADER_LEN
  <1>2. o \in Nat /\ SEGMENT_HEADER_LEN <= o /\ o <= MaxSegmentLen
    <2>1. CASE o = SEGMENT_HEADER_LEN
      BY <2>1, MaxSegment DEF SEGMENT_HEADER_LEN
    <2>2. CASE o # SEGMENT_HEADER_LEN
      <3>1. PICK f \in disk[s].frames : o = End(f)
        BY <2>2, Zenon DEF Boundaries
      <3> QED
        BY <1>1, <3>1 DEF SEGMENT_HEADER_LEN
    <2> QED
      BY <2>1, <2>2, Zenon
  <1>3. \A x \in Boundaries(disk[s]) : x < o => \E g \in G.frames : g.off = x
    <2> SUFFICES ASSUME NEW x \in Boundaries(disk[s]), x < o PROVE \E g \in G.frames : g.off = x
      BY Zenon
    <2>1. PICK g \in read_frame_at(disk[s], x) : TRUE
      BY Zenon DEF WalkEndsAt
    <2> QED
      BY <2>1, Zenon DEF read_frame_at
  <1>4. o = SEGMENT_HEADER_LEN \/ \E f \in G.frames : f.off = SEGMENT_HEADER_LEN
    BY <1>2, <1>3 DEF Boundaries, SEGMENT_HEADER_LEN
  <1>5. ASSUME NEW f \in G.frames PROVE End(f) <= o
    <2>1. f \in disk[s].frames /\ f.off < o
      BY Zenon
    <2>2. o # SEGMENT_HEADER_LEN
      BY <1>1, <2>1 DEF SEGMENT_HEADER_LEN
    <2>3. PICK h \in disk[s].frames : o = End(h)
      BY <2>2, Zenon DEF Boundaries
    <2>4. f = h \/ End(f) <= h.off \/ End(h) <= f.off
      BY <2>1, Zenon DEF FileOK
    <2> QED
      BY <1>1, <1>2, <2>1, <2>3, <2>4
  <1>6. \A f \in G.frames : End(f) = o \/ \E g \in G.frames : g.off = End(f)
    <2> SUFFICES ASSUME NEW f \in G.frames, End(f) # o PROVE \E g \in G.frames : g.off = End(f)
      BY Zenon
    <2>1. f \in disk[s].frames /\ End(f) \in Boundaries(disk[s])
      BY Zenon DEF Boundaries
    <2>2. End(f) < o
      BY <1>1, <1>2, <1>5, <2>1
    <2> QED
      BY <1>3, <2>1, <2>2, Zenon
  <1> QED
    BY <1>2, <1>4, <1>5, <1>6, Zenon DEF Filled

\* A file recovery has still to walk belongs to no live segment.
LEMMA FoundFresh ==
  ASSUME TypeOK, SeqInv, NEW s \in found
  PROVE  s \in DOMAIN disk /\ s \in Nat /\ \A i \in DOMAIN segments : segments[i].seq # s
  <1>1. s \in DOMAIN disk /\ s \in Nat /\ next_seq \in Nat
    BY Zenon DEF TypeOK
  <1>2. next_seq <= s /\ \A i \in DOMAIN segments : segments[i].seq < next_seq /\ segments[i].seq \in Nat
    BY SegType, Zenon DEF SeqInv
  <1> QED
    BY <1>1, <1>2

\* Where an append writes, and that it fits into the segment.
LEMMA WriteEffect ==
  ASSUME TypeOK, StoreInv, WriteFrame
  PROVE  /\ wbatch \in Batch /\ active # NoActive /\ segments # <<>>
         /\ active.seq = Newest.seq /\ active.offset = Newest.bytes
         /\ active.seq \in DOMAIN disk /\ active.offset \in Nat
         /\ active.offset + frame_len_on_disk(wbatch) <= MaxSegmentLen
         /\ DOMAIN disk' = DOMAIN disk
         /\ \A s \in DOMAIN disk : s # active.seq => disk'[s] = disk[s]
         /\ disk'[active.seq].header = disk[active.seq].header
         /\ disk'[active.seq].synced = disk[active.seq].synced
         /\ disk'[active.seq].frames = disk[active.seq].frames \cup
              {[off |-> active.offset, batch |-> wbatch, batch_seq |-> next_batch_seq]}
         /\ active' = [seq |-> active.seq, offset |-> active.offset + frame_len_on_disk(wbatch)]
  <1> DEFINE f == [off |-> active.offset, batch |-> wbatch, batch_seq |-> next_batch_seq]
  <1>1. wbatch \in Batch /\ active # NoActive /\ segments # <<>> /\ Len(segments) \in DOMAIN segments
    BY LastSegmentGrows, Zenon
  <1>2. active.seq = Newest.seq /\ active.offset = Newest.bytes
    BY <1>1, Zenon DEF StoreInv, ActiveInv
  <1>3. active \in [seq : Nat, offset : Nat] /\ active.offset \in Nat
    BY <1>1, Zenon DEF TypeOK
  <1>4. active.seq \in DOMAIN disk
    BY <1>1, <1>2, Zenon DEF StoreInv, DiskInv, Newest
  <1>5. active.offset + frame_len_on_disk(wbatch) <= MaxSegmentLen
    <2>1. \/ active.offset = SEGMENT_HEADER_LEN
          \/ active.offset <= SEGMENT_HEADER_LEN
          \/ active.offset + frame_len_on_disk(wbatch) <= SegmentBytes
      <3>1. CASE wpc = "write"
        BY <3>1, Zenon DEF StoreInv, ControlInv
      <3>2. CASE ~NeedsRotate
        BY <1>1, <1>3, <3>2, FrameLen, MaxSegment DEF NeedsRotate, SEGMENT_HEADER_LEN
      <3> QED
        BY <3>1, <3>2, Zenon DEF WriteFrame, ReadyToWrite
    <2> QED
      BY <1>1, <1>3, <2>1, FrameLen, MaxSegment DEF SEGMENT_HEADER_LEN
  <1>p. position = active.offset
    BY <1>1, Zenon DEF StoreInv, PositionInv
  <1>6. /\ disk' = [disk EXCEPT ![active.seq].frames = @ \cup {f}]
        /\ active' = [active EXCEPT !.offset = @ + frame_len_on_disk(wbatch)]
    BY <1>p, Zenon DEF WriteFrame
  <1>7. disk[active.seq] \in File
    BY <1>4, Zenon DEF TypeOK
  <1>8. disk'[active.seq] = [disk[active.seq] EXCEPT !.frames = @ \cup {f}]
    BY <1>4, <1>6, Zenon
  <1>9. /\ disk'[active.seq].header = disk[active.seq].header
        /\ disk'[active.seq].synced = disk[active.seq].synced
        /\ disk'[active.seq].frames = disk[active.seq].frames \cup {f}
    BY <1>7, <1>8, Zenon DEF File
  <1>10. active' = [seq |-> active.seq, offset |-> active.offset + frame_len_on_disk(wbatch)]
    BY <1>3, <1>6, Zenon
  <1>11. DOMAIN disk' = DOMAIN disk /\ \A s \in DOMAIN disk : s # active.seq => disk'[s] = disk[s]
    BY <1>6, Zenon
  <1> QED
    BY <1>1, <1>2, <1>3, <1>4, <1>5, <1>9, <1>10, <1>11, Zenon

\* Frames stay apart, and every live segment stays filled up to its length.
LEMMA DiskStep == TypeOK /\ TypeOK' /\ StoreInv /\ [Next]_vars => DiskInv'
  <1> SUFFICES ASSUME TypeOK, TypeOK', StoreInv, StoreStep \/ UNCHANGED storeVars PROVE DiskInv'
    BY StoreSteps, Zenon
  <1>i. DiskInv /\ SeqInv /\ CursorInv
    BY Zenon DEF StoreInv
  <1>1. CASE UNCHANGED <<segments, disk>>
    BY <1>1, <1>i, Zenon DEF DiskInv
  <1>2. CASE EnforceCap \/ gc_front_consumed
    <2>1. /\ disk' = [s \in DOMAIN disk \ {Oldest.seq} |-> disk[s]] /\ 1 \in DOMAIN segments
          /\ \A i \in DOMAIN segments' : i + 1 \in DOMAIN segments /\ segments'[i] = segments[i + 1]
          /\ DOMAIN segments' = 1..Len(segments) - 1
      BY <1>2, <1>i, OldestDropped, Zenon
    <2>2. \A i \in DOMAIN segments' : 1 < i + 1
      BY <2>1, SegType
    <2>3. \A i \in DOMAIN segments' : segments'[i].seq # Oldest.seq
      <3> SUFFICES ASSUME NEW i \in DOMAIN segments' PROVE segments'[i].seq # Oldest.seq
        BY Zenon
      <3>1. segments[1].seq < segments[i + 1].seq
        BY <1>i, <2>1, <2>2, Zenon DEF SeqInv
      <3> QED
        BY <2>1, <3>1, SegType DEF Oldest
    <2>4. \A i \in DOMAIN segments' :
            /\ segments'[i].seq \in DOMAIN disk' /\ disk'[segments'[i].seq] = disk[segments[i + 1].seq]
      BY <1>i, <2>1, <2>3, Zenon DEF DiskInv
    <2> QED
      BY <1>i, <2>1, <2>4, Zenon DEF DiskInv
  <1>3. CASE Rotate
    <2> DEFINE m == [seq |-> next_seq, bytes |-> SEGMENT_HEADER_LEN, base |-> NextBase]
    <2>1. /\ DOMAIN disk' = DOMAIN disk \cup {next_seq} /\ disk'[next_seq] = NewFile(TRUE)
          /\ \A s \in DOMAIN disk : disk'[s].frames = disk[s].frames /\ disk'[s].header = disk[s].header
          /\ segments' = Append(segments, m) /\ m \in SegmentMeta
      BY <1>3, RotateEffect, Zenon
    <2>2. m.seq = next_seq /\ m.bytes = SEGMENT_HEADER_LEN
      BY Zenon
    <2> HIDE DEF m
    <2>3. /\ \A i \in DOMAIN segments : segments'[i] = segments[i]
          /\ \A i \in DOMAIN segments' : i \in DOMAIN segments \/ i = Len(segments) + 1
          /\ segments'[Len(segments) + 1] = m
      BY <2>1, OneMoreSegment, Zenon
    <2>4. \A s \in DOMAIN disk' : FileOK(disk'[s])
      BY <1>i, <2>1, EmptyFile, SameContents, Zenon DEF DiskInv
    <2>5. ASSUME NEW i \in DOMAIN segments
          PROVE  segments'[i].seq \in DOMAIN disk' /\ Filled(disk'[segments'[i].seq], segments'[i].bytes)
      <3>1. segments[i].seq \in DOMAIN disk /\ Filled(disk[segments[i].seq], segments[i].bytes)
        BY <1>i, Zenon DEF DiskInv
      <3>2. Filled(disk'[segments[i].seq], segments[i].bytes)
        BY <2>1, <3>1, SameContents, Zenon
      <3> QED
        BY <2>1, <2>3, <3>1, <3>2, Zenon
    <2>6. ASSUME NEW i \in DOMAIN segments'
          PROVE  segments'[i].seq \in DOMAIN disk' /\ Filled(disk'[segments'[i].seq], segments'[i].bytes)
      <3>1. CASE i = Len(segments) + 1
        BY <2>1, <2>2, <2>3, <3>1, EmptyFile, Zenon
      <3> QED
        BY <2>3, <2>5, <3>1, Zenon
    <2> QED
      BY <2>4, <2>6, Zenon DEF DiskInv
  <1>4. CASE RotateFails
    <2>1. /\ DOMAIN disk \subseteq DOMAIN disk' /\ UNCHANGED segments
          /\ \A s \in DOMAIN disk : disk'[s].frames = disk[s].frames /\ disk'[s].header = disk[s].header
          /\ \A s \in DOMAIN disk' \ DOMAIN disk : disk'[s] = NewFile(FALSE)
      BY <1>4, RotateFailsEffect, Zenon
    <2>2. \A s \in DOMAIN disk' : FileOK(disk'[s])
      BY <1>i, <2>1, EmptyFile, SameContents, ZenonT(60) DEF DiskInv
    <2> QED
      BY <1>i, <2>1, <2>2, SameContents DEF DiskInv
  <1>5. CASE WriteFrame
    <2> DEFINE s == active.seq
               n == Len(segments)
    <2>1. /\ wbatch \in Batch /\ s \in DOMAIN disk /\ active.offset \in Nat
          /\ s = segments[n].seq /\ active.offset = segments[n].bytes
          /\ active.offset + frame_len_on_disk(wbatch) <= MaxSegmentLen
          /\ DOMAIN disk' = DOMAIN disk
          /\ \A t \in DOMAIN disk : t # s => disk'[t] = disk[t]
          /\ disk'[s].header = disk[s].header
          /\ disk'[s].frames = disk[s].frames \cup
               {[off |-> active.offset, batch |-> wbatch, batch_seq |-> next_batch_seq]}
      BY <1>5, WriteEffect, Zenon DEF Newest
    <2>2. /\ n \in DOMAIN segments /\ DOMAIN segments' = DOMAIN segments
          /\ \A i \in DOMAIN segments :
              /\ segments'[i].seq = segments[i].seq
              /\ segments'[i].bytes = segments[i].bytes
                   + (IF i = n THEN frame_len_on_disk(wbatch) ELSE 0)
      BY <1>5, LastSegmentGrows, Zenon
    <2>3. FileOK(disk'[s]) /\ Filled(disk'[s], active.offset + frame_len_on_disk(wbatch))
      <3>1. FileOK(disk[s]) /\ Filled(disk[s], active.offset)
        BY <1>i, <2>1, <2>2, Zenon DEF DiskInv
      <3>2. next_batch_seq \in Nat
        BY Zenon DEF TypeOK
      <3> HIDE DEF s
      <3> QED
        BY <2>1, <3>1, <3>2, FrameAppended, Zenon
    <2> HIDE DEF s
    <2>4. \A t \in DOMAIN disk' : FileOK(disk'[t])
      BY <1>i, <2>1, <2>3, Zenon DEF DiskInv
    <2>5. ASSUME NEW i \in DOMAIN segments, i # n
          PROVE  segments'[i].seq \in DOMAIN disk' /\ Filled(disk'[segments'[i].seq], segments'[i].bytes)
      <3>1. segments[i].seq # segments[n].seq
        BY <1>i, <2>2, <2>5, SegType DEF SeqInv
      <3>2. segments'[i].bytes = segments[i].bytes
        BY <2>2, <2>5, SegType
      <3> QED
        BY <1>i, <2>1, <2>2, <3>1, <3>2, Zenon DEF DiskInv
    <2>6. segments'[n].seq \in DOMAIN disk' /\ Filled(disk'[segments'[n].seq], segments'[n].bytes)
      BY <2>1, <2>2, <2>3, Zenon
    <2> QED
      BY <2>2, <2>4, <2>5, <2>6, Zenon DEF DiskInv
  <1>6. CASE BoundBurst \/ GroupCommit
    <2>1. /\ DOMAIN disk' = DOMAIN disk /\ UNCHANGED segments
          /\ \A s \in DOMAIN disk : disk'[s].frames = disk[s].frames /\ disk'[s].header = disk[s].header
      BY <1>6, SyncEffect, Zenon
    <2> QED
      BY <1>i, <2>1, SameContents DEF DiskInv
  <1>7. ASSUME NEW s \in found, RecoverSegment(s) PROVE DiskInv'
    <2>1. PICK o \in Boundaries(disk[s]) :
            /\ o \in Nat /\ WalkEndsAt(disk[s], o)
            /\ disk' = [disk EXCEPT ![s].frames = {f \in disk[s].frames : f.off < o}]
            /\ segments' = Append(segments, [seq |-> s, bytes |-> o, base |-> NextBase])
      BY <1>7, WalkEffect, Zenon
    <2> DEFINE m == [seq |-> s, bytes |-> o, base |-> NextBase]
    <2>2. s \in DOMAIN disk /\ disk[s] \in File /\ disk[s].header /\ s \in Nat
      BY <1>7, Zenon DEF TypeOK, RecoverSegment
    <2>3. m \in SegmentMeta /\ m.seq = s /\ m.bytes = o
      BY <2>1, <2>2, SegType, Zenon DEF SegmentMeta
    <2>4. segments' = Append(segments, m)
      BY <2>1, Zenon
    <2> HIDE DEF m
    <2>5. /\ \A i \in DOMAIN segments : segments'[i] = segments[i]
          /\ \A i \in DOMAIN segments' : i \in DOMAIN segments \/ i = Len(segments) + 1
          /\ segments'[Len(segments) + 1] = m
      BY <2>3, <2>4, OneMoreSegment, Zenon
    <2>6. /\ DOMAIN disk' = DOMAIN disk /\ \A t \in DOMAIN disk : t # s => disk'[t] = disk[t]
          /\ disk'[s] = [disk[s] EXCEPT !.frames = {f \in disk[s].frames : f.off < o}]
      BY <2>1, <2>2, Zenon
    <2>7. disk'[s].header = disk[s].header /\ disk'[s].frames = {f \in disk[s].frames : f.off < o}
      BY <2>2, <2>6, Zenon DEF File
    <2>8. FileOK(disk[s])
      BY <1>i, <2>2, Zenon DEF DiskInv
    <2>9. Filled(disk'[s], o)
      BY <2>1, <2>2, <2>7, <2>8, WalkFills, Zenon
    <2>10. \A t \in DOMAIN disk' : FileOK(disk'[t])
      <3>1. FileOK(disk'[s])
        BY <2>7, <2>8, FewerFrames, Zenon
      <3> QED
        BY <1>i, <2>6, <3>1, Zenon DEF DiskInv
    <2>11. \A i \in DOMAIN segments : segments[i].seq # s
      BY <1>i, FoundFresh, Zenon
    <2>12. ASSUME NEW i \in DOMAIN segments'
           PROVE  segments'[i].seq \in DOMAIN disk' /\ Filled(disk'[segments'[i].seq], segments'[i].bytes)
      <3>1. CASE i = Len(segments) + 1
        BY <2>2, <2>3, <2>5, <2>6, <2>9, <3>1, Zenon
      <3>2. CASE i \in DOMAIN segments
        <4>1. segments[i].seq \in DOMAIN disk /\ Filled(disk[segments[i].seq], segments[i].bytes)
          BY <1>i, <3>2, Zenon DEF DiskInv
        <4> QED
          BY <2>5, <2>6, <2>11, <3>2, <4>1, Zenon
      <3> QED
        BY <2>5, <3>1, <3>2, Zenon
    <2> QED
      BY <2>10, <2>12, Zenon DEF DiskInv
  <1>8. ASSUME NEW s \in found, RecoverDrops(s) PROVE DiskInv'
    <2>1. (disk' = [t \in DOMAIN disk \ {s} |-> disk[t]] \/ disk' = disk) /\ UNCHANGED segments
      BY <1>8, Zenon DEF RecoverDrops
    <2>2. \A i \in DOMAIN segments : segments[i].seq # s
      BY <1>i, FoundFresh, Zenon
    <2> QED
      BY <1>i, <2>1, <2>2, Zenon DEF DiskInv
  <1>9. CASE Crash
    <2>1. /\ DOMAIN disk' \subseteq DOMAIN disk /\ segments' = <<>>
          /\ \A s \in DOMAIN disk' : disk'[s].frames \subseteq disk[s].frames
      BY <1>9, CrashEffect, Zenon DEF Crash, Survives
    <2> QED
      BY <1>i, <2>1, FewerFrames, SMTT(60) DEF DiskInv
  <1>10. CASE PeekFrame \/ PeekNothing \/ commit_pending \/ RecoverFinish
    BY <1>1, <1>10, Zenon DEF PeekFrame, PeekNothing, commit_pending, RecoverFinish
  <1> QED
    BY <1>1, <1>2, <1>3, <1>4, <1>5, <1>6, <1>7, <1>8, <1>9, <1>10, Zenon DEF StoreStep, storeVars

-----------------------------------------------------------------------------
\* A new segment at the end of the run.
LEMMA BytesAppend ==
  ASSUME TypeOK, BytesInv, NEW m, m \in SegmentMeta, m.base = NextBase,
         segments' = Append(segments, m), total_bytes' = total_bytes + m.bytes
  PROVE  BytesInv'
  <1> DEFINE n == Len(segments)
  <1>1. /\ \A i \in DOMAIN segments : i \in DOMAIN segments' /\ segments'[i] = segments[i]
        /\ \A i \in DOMAIN segments' : i \in DOMAIN segments \/ i = n + 1
        /\ segments'[n + 1] = m /\ segments' # <<>> /\ Newest' = m
        /\ Oldest' = IF segments = <<>> THEN m ELSE Oldest
    BY OneMoreSegment, Zenon
  <1>2. /\ m.base \in Nat /\ m.bytes \in Nat /\ total_bytes \in Nat /\ n \in Nat
        /\ DOMAIN segments = 1..n
        /\ \A i \in DOMAIN segments : /\ segments[i].base \in Nat /\ segments[i].bytes \in Nat
                                      /\ i \in Nat /\ 1 <= i /\ i <= n
    BY SegType, Zenon DEF SegmentMeta, TypeOK
  <1>3. segments # <<>> => n \in DOMAIN segments /\ 1 \in DOMAIN segments
    BY SegType, Zenon
  <1>4. segments # <<>> => m.base = segments[n].base + segments[n].bytes
    BY Zenon DEF NextBase, Newest
  <1>5. segments = <<>> => n = 0
    OBVIOUS
  <1>6. \A i \in DOMAIN segments : segments[i].base + segments[i].bytes <= m.base
    <2> SUFFICES ASSUME NEW i \in DOMAIN segments
                 PROVE  segments[i].base + segments[i].bytes <= m.base
      BY Zenon
    <2>1. segments # <<>> /\ n \in DOMAIN segments
      BY <1>3
    <2>2. i = n \/ segments[i].base + segments[i].bytes <= segments[n].base
      BY <1>2, <2>1 DEF BytesInv
    <2>3. /\ segments[i].base \in Nat /\ segments[i].bytes \in Nat
          /\ segments[n].base \in Nat /\ segments[n].bytes \in Nat
          /\ m.base = segments[n].base + segments[n].bytes
      BY <1>2, <1>4, <2>1, Zenon
    <2> HIDE DEF n
    <2> QED
      BY ONLY <2>2, <2>3
  <1> HIDE DEF n
  <1>7. \A i \in DOMAIN segments' :
          i > 1 => segments'[i].base = segments'[i-1].base + segments'[i-1].bytes
    <2> SUFFICES ASSUME NEW i \in DOMAIN segments', i > 1
                 PROVE  segments'[i].base = segments'[i-1].base + segments'[i-1].bytes
      BY Zenon
    <2>1. CASE i = n + 1
      <3>1. segments # <<>> /\ i - 1 = n
        BY <1>2, <1>5, <2>1
      <3> QED
        BY <1>1, <1>3, <1>4, <2>1, <3>1, Zenon
    <2>2. CASE i \in DOMAIN segments
      <3>1. i - 1 \in DOMAIN segments
        BY <1>2, <2>2
      <3> QED
        BY <1>1, <2>2, <3>1, Zenon DEF BytesInv
    <2> QED
      BY <1>1, <2>1, <2>2, Zenon
  <1>8. \A i, j \in DOMAIN segments' :
          i < j => segments'[i].base + segments'[i].bytes <= segments'[j].base
    BY <1>1, <1>2, <1>6 DEF BytesInv
  <1>9. total_bytes' = Newest'.base + Newest'.bytes - Oldest'.base
    <2>1. CASE segments = <<>>
      BY <1>1, <1>2, <2>1 DEF BytesInv
    <2>2. CASE segments # <<>>
      <3>1. total_bytes = m.base - Oldest.base /\ Oldest.base \in Nat
        BY <1>2, <1>3, <1>4, <2>2 DEF BytesInv, Newest, Oldest, n
      <3>2. Newest' = m /\ Oldest' = Oldest /\ total_bytes' = total_bytes + m.bytes
        BY <1>1, <2>2, Zenon
      <3> QED
        BY <1>2, <3>1, <3>2
    <2> QED
      BY <2>1, <2>2, Zenon
  <1> QED
    BY <1>1, <1>7, <1>8, <1>9, Zenon DEF BytesInv

\* total_bytes stays exact through every append, drop, collection and recovery.
LEMMA BytesStep == TypeOK /\ TypeOK' /\ StoreInv /\ [Next]_vars => BytesInv'
  <1> SUFFICES ASSUME TypeOK, TypeOK', StoreInv, StoreStep \/ UNCHANGED storeVars PROVE BytesInv'
    BY StoreSteps, Zenon
  <1>i. BytesInv /\ SeqInv /\ CursorInv
    BY Zenon DEF StoreInv
  <1>0. /\ \A i \in DOMAIN segments : /\ segments[i].base \in Nat /\ segments[i].bytes \in Nat
                                      /\ i \in Nat /\ 1 <= i /\ i <= Len(segments)
        /\ total_bytes \in Nat /\ Len(segments) \in Nat /\ DOMAIN segments = 1..Len(segments)
        /\ segments # <<>> => Len(segments) \in DOMAIN segments /\ 1 \in DOMAIN segments
    BY SegType, ZenonT(60) DEF TypeOK
  <1>1. CASE UNCHANGED <<segments, total_bytes>>
    BY <1>1, <1>i, Zenon DEF BytesInv, Newest, Oldest
  <1>2. CASE EnforceCap \/ gc_front_consumed
    <2> DEFINE n == Len(segments)
    <2>1. /\ segments # <<>> /\ Len(segments') = n - 1 /\ Release(Oldest.bytes)
          /\ \A i \in DOMAIN segments' : i + 1 \in DOMAIN segments /\ segments'[i] = segments[i + 1]
          /\ DOMAIN segments' = 1..n - 1
      BY <1>2, <1>i, OldestDropped, Zenon
    <2>2. \A i \in DOMAIN segments' :
            i > 1 => segments'[i].base = segments'[i-1].base + segments'[i-1].bytes
      <3> SUFFICES ASSUME NEW i \in DOMAIN segments', i > 1
                   PROVE  segments'[i].base = segments'[i-1].base + segments'[i-1].bytes
        BY Zenon
      <3>1. i \in Nat /\ i - 1 \in DOMAIN segments' /\ (i - 1) + 1 = i /\ (i + 1) - 1 = i /\ i + 1 > 1
        BY <1>0, <2>1
      <3>2. segments'[i] = segments[i + 1] /\ segments'[i - 1] = segments[i] /\ i + 1 \in DOMAIN segments
        BY <2>1, <3>1, Zenon
      <3> QED
        BY <1>i, <3>1, <3>2, Zenon DEF BytesInv
    <2>3. \A i, j \in DOMAIN segments' :
            i < j => segments'[i].base + segments'[i].bytes <= segments'[j].base
      <3> SUFFICES ASSUME NEW i \in DOMAIN segments', NEW j \in DOMAIN segments', i < j
                   PROVE  segments'[i].base + segments'[i].bytes <= segments'[j].base
        BY Zenon
      <3>1. i + 1 \in DOMAIN segments /\ j + 1 \in DOMAIN segments /\ i + 1 < j + 1
        BY <1>0, <2>1
      <3> QED
        BY <1>i, <2>1, <3>1, Zenon DEF BytesInv
    <2>4. total_bytes = segments[n].base + segments[n].bytes - segments[1].base
      BY <1>i, <2>1, Zenon DEF BytesInv, Newest, Oldest
    <2>5. CASE n = 1
      <3>1. segments' = <<>>
        BY <2>1, <2>5 DEF TypeOK
      <3>2. total_bytes = Oldest.bytes
        BY <1>0, <2>1, <2>4, <2>5 DEF Oldest
      <3>3. total_bytes' = 0
        BY <1>0, <2>1, <3>2 DEF Release
      <3> QED
        BY <3>1, <3>3 DEF BytesInv
    <2>6. CASE n # 1
      <3>1. n \in Nat /\ n > 1 /\ 2 \in DOMAIN segments /\ 1 \in DOMAIN segments /\ n \in DOMAIN segments
        BY <1>0, <2>1, <2>6
      <3>2. /\ segments[2].base = segments[1].base + segments[1].bytes
            /\ segments[1].base + segments[1].bytes <= segments[n].base
        <4>1. 2 > 1 /\ 2 - 1 = 1
          OBVIOUS
        <4> QED
          BY <1>i, <3>1, <4>1, Zenon DEF BytesInv
      <3>3. total_bytes' = segments[n].base + segments[n].bytes - segments[2].base
        <4>1. /\ segments[n].base \in Nat /\ segments[n].bytes \in Nat /\ total_bytes \in Nat
              /\ segments[1].base \in Nat /\ segments[1].bytes \in Nat /\ segments[2].base \in Nat
          BY <1>0, <3>1, Zenon
        <4>2. total_bytes' = IF segments[1].bytes <= total_bytes THEN total_bytes - segments[1].bytes ELSE 0
          BY <2>1, Zenon DEF Release, Oldest
        <4> HIDE DEF n
        <4> QED
          BY ONLY <2>4, <3>2, <4>1, <4>2
      <3>4. segments' # <<>> /\ Newest' = segments[n] /\ Oldest' = segments[2]
        <4>1. n - 1 \in DOMAIN segments' /\ 1 \in DOMAIN segments' /\ (n - 1) + 1 = n /\ 1 + 1 = 2
          BY <2>1, <3>1
        <4>2. segments'[n - 1] = segments[n] /\ segments'[1] = segments[2]
          BY <2>1, <4>1, Zenon
        <4>3. segments' # <<>>
          BY <4>1
        <4> QED
          BY <2>1, <4>2, <4>3, Zenon DEF Newest, Oldest
      <3> QED
        BY <2>2, <2>3, <3>3, <3>4, Zenon DEF BytesInv
    <2> QED
      BY <2>5, <2>6, Zenon
  <1>3. CASE Rotate
    <2> DEFINE m == [seq |-> next_seq, bytes |-> SEGMENT_HEADER_LEN, base |-> NextBase]
    <2>1. segments' = Append(segments, m) /\ m \in SegmentMeta
      BY <1>3, RotateEffect, Zenon
    <2>2. total_bytes' = total_bytes + m.bytes
      BY <1>3, Zenon DEF Rotate
    <2>3. m.base = NextBase
      BY Zenon
    <2> HIDE DEF m
    <2> QED
      BY <1>i, <2>1, <2>2, <2>3, BytesAppend, Zenon
  <1>5. CASE WriteFrame
    <2> DEFINE n == Len(segments)
               x == frame_len_on_disk(wbatch)
    <2>1. /\ n \in DOMAIN segments /\ DOMAIN segments' = DOMAIN segments /\ Len(segments') = n
          /\ wbatch \in Batch /\ segments # <<>> /\ segments' # <<>>
          /\ \A i \in DOMAIN segments :
              /\ segments'[i].base = segments[i].base
              /\ segments'[i].bytes = segments[i].bytes + (IF i = n THEN x ELSE 0)
      BY <1>5, LastSegmentGrows, Zenon
    <2>2. x \in Nat
      BY <2>1, FrameLen, Zenon
    <2>3. total_bytes' = total_bytes + x
      BY <1>5, Zenon DEF WriteFrame
    <2> HIDE DEF x
    <2>4. \A i \in DOMAIN segments : i # n => segments'[i].bytes = segments[i].bytes
      BY <1>0, <2>1
    <2>5. \A i \in DOMAIN segments' :
            i > 1 => segments'[i].base = segments'[i-1].base + segments'[i-1].bytes
      <3> SUFFICES ASSUME NEW i \in DOMAIN segments', i > 1
                   PROVE  segments'[i].base = segments'[i-1].base + segments'[i-1].bytes
        BY Zenon
      <3>1. i \in DOMAIN segments /\ i - 1 \in DOMAIN segments /\ i - 1 # n
        BY <1>0, <2>1
      <3> QED
        BY <1>i, <2>1, <2>4, <3>1, Zenon DEF BytesInv
    <2>6. \A i, j \in DOMAIN segments' :
            i < j => segments'[i].base + segments'[i].bytes <= segments'[j].base
      <3> SUFFICES ASSUME NEW i \in DOMAIN segments', NEW j \in DOMAIN segments', i < j
                   PROVE  segments'[i].base + segments'[i].bytes <= segments'[j].base
        BY Zenon
      <3>1. i \in DOMAIN segments /\ j \in DOMAIN segments /\ i # n
        BY <1>0, <2>1
      <3> QED
        BY <1>i, <2>1, <2>4, <3>1, Zenon DEF BytesInv
    <2>7. total_bytes' = segments'[n].base + segments'[n].bytes - segments'[1].base
      <3>1. 1 \in DOMAIN segments /\ n \in DOMAIN segments
        BY <1>0, <2>1, Zenon
      <3>2. total_bytes = segments[n].base + segments[n].bytes - segments[1].base
        BY <1>i, <2>1, Zenon DEF BytesInv, Newest, Oldest
      <3> HIDE DEF n
      <3>3. /\ segments'[n].base = segments[n].base /\ segments'[1].base = segments[1].base
            /\ segments'[n].bytes = segments[n].bytes + x
        BY <2>1, <3>1, Zenon
      <3>4. segments[n].base \in Nat /\ segments[n].bytes \in Nat /\ segments[1].base \in Nat
        BY <1>0, <3>1, Zenon
      <3> QED
        BY <2>2, <2>3, <3>2, <3>3, <3>4
    <2> QED
      BY <2>1, <2>5, <2>6, <2>7, Zenon DEF BytesInv, Newest, Oldest
  <1>7. ASSUME NEW s \in found, RecoverSegment(s) PROVE BytesInv'
    <2>1. PICK o \in Nat :
            /\ segments' = Append(segments, [seq |-> s, bytes |-> o, base |-> NextBase])
            /\ total_bytes' = total_bytes + o
      BY <1>7, WalkEffect, ZenonT(60)
    <2> DEFINE m == [seq |-> s, bytes |-> o, base |-> NextBase]
    <2>2. s \in Nat
      BY <1>i, FoundFresh, Zenon
    <2>3. m \in SegmentMeta /\ m.bytes = o /\ m.base = NextBase /\ segments' = Append(segments, m)
      BY <2>1, <2>2, SegType, Zenon DEF SegmentMeta
    <2> HIDE DEF m
    <2> QED
      BY <1>i, <2>1, <2>3, BytesAppend, Zenon
  <1>9. CASE Crash
    BY <1>9 DEF Crash, BytesInv
  <1>10. CASE \/ RotateFails \/ BoundBurst \/ GroupCommit \/ PeekFrame \/ PeekNothing
              \/ commit_pending \/ RecoverFinish \/ \E s \in found : RecoverDrops(s)
    BY <1>1, <1>10, ZenonT(60) DEF RotateFails, BoundBurst, GroupCommit, PeekFrame, PeekNothing,
       commit_pending, RecoverFinish, RecoverDrops
  <1> QED
    BY <1>1, <1>2, <1>3, <1>5, <1>7, <1>9, <1>10, Zenon DEF StoreStep, storeVars

-----------------------------------------------------------------------------
\* "active is always the back element": no drop ever takes the active segment.
LEMMA ActiveStep == TypeOK /\ TypeOK' /\ StoreInv /\ [Next]_vars => ActiveInv'
  <1> SUFFICES ASSUME TypeOK, TypeOK', StoreInv, StoreStep \/ UNCHANGED storeVars PROVE ActiveInv'
    BY StoreSteps, Zenon
  <1>i. ActiveInv /\ SeqInv /\ CursorInv /\ ControlInv
    BY Zenon DEF StoreInv
  <1>1. CASE UNCHANGED <<segments, active>>
    BY <1>1, <1>i, Zenon DEF ActiveInv, Newest
  <1>2. CASE EnforceCap \/ gc_front_consumed
    <2> DEFINE n == Len(segments)
    <2> SUFFICES ASSUME active' # NoActive
                 PROVE  segments' # <<>> /\ active'.seq = Newest'.seq /\ active'.offset = Newest'.bytes
      BY SMTT(60) DEF ActiveInv
    <2>1. /\ segments # <<>> /\ Len(segments') = n - 1 /\ n \in Nat
          /\ DOMAIN segments' = 1..n - 1
          /\ \A i \in DOMAIN segments' : segments'[i] = segments[i + 1]
      BY <1>2, <1>i, OldestDropped, SegType, ZenonT(60)
    <2>2. UNCHANGED active
      BY <1>2, Zenon DEF EnforceCap, gc_front_consumed
    <2>3. active.seq = segments[n].seq /\ active.offset = segments[n].bytes
      BY <1>i, <2>2, Zenon DEF ActiveInv, Newest
    <2>4. n > 1
      <3>1. CASE EnforceCap
        BY <3>1, Zenon DEF EnforceCap, OverCap
      <3>2. CASE gc_front_consumed
        <4>1. active.seq # PeekSeq
          BY <3>2, Zenon DEF gc_front_consumed
        <4>2. PeekSeq = segments[1].seq
          BY <1>i, <2>1, PeekOldest, Zenon DEF Oldest
        <4>3. n # 1 /\ n # 0
          BY <2>1, <2>3, <4>1, <4>2, SegType
        <4> QED
          BY <2>1, <4>3
      <3> QED
        BY <1>2, <3>1, <3>2, Zenon
    <2>5. n - 1 \in DOMAIN segments' /\ (n - 1) + 1 = n
      BY <2>1, <2>4
    <2>6. segments'[n - 1] = segments[n] /\ segments' # <<>>
      BY <2>1, <2>5
    <2> QED
      BY <2>1, <2>2, <2>3, <2>6, Zenon DEF Newest
  <1>3. CASE Rotate
    <2> DEFINE m == [seq |-> next_seq, bytes |-> SEGMENT_HEADER_LEN, base |-> NextBase]
    <2>1. segments' = Append(segments, m) /\ m \in SegmentMeta
      BY <1>3, RotateEffect, Zenon
    <2>2. active'.seq = m.seq /\ active'.offset = m.bytes
      BY <1>3, Zenon DEF Rotate
    <2> HIDE DEF m
    <2>3. segments' # <<>> /\ Newest' = m
      BY <2>1, OneMoreSegment, Zenon
    <2> QED
      BY <2>2, <2>3, Zenon DEF ActiveInv
  <1>4. CASE WriteFrame
    <2>1. /\ segments' # <<>> /\ Len(segments') = Len(segments) /\ Len(segments) \in DOMAIN segments
          /\ Newest'.seq = Newest.seq /\ Newest'.bytes = Newest.bytes + frame_len_on_disk(wbatch)
      BY <1>4, LastSegmentGrows, Zenon DEF Newest
    <2>2. /\ active.seq = Newest.seq /\ active.offset = Newest.bytes
          /\ active' = [seq |-> active.seq, offset |-> active.offset + frame_len_on_disk(wbatch)]
      BY <1>4, WriteEffect, Zenon
    <2> QED
      BY <2>1, <2>2, Zenon DEF ActiveInv
  <1>5. CASE RotateFails \/ Crash
    BY <1>5, Zenon DEF RotateFails, Crash, ActiveInv
  <1>6. CASE RecoverFinish
    BY <1>6, Zenon DEF RecoverFinish, ActiveInv, Newest
  <1>7. ASSUME NEW s \in found, RecoverSegment(s) PROVE ActiveInv'
    <2>1. active' = NoActive
      BY <1>7, <1>i, Zenon DEF RecoverSegment, ControlInv
    <2> QED
      BY <2>1, Zenon DEF ActiveInv, NoActive
  <1>8. CASE \/ BoundBurst \/ GroupCommit \/ PeekFrame \/ PeekNothing
             \/ commit_pending \/ \E s \in found : RecoverDrops(s)
    BY <1>1, <1>8, Zenon DEF BoundBurst, GroupCommit, PeekFrame, PeekNothing, commit_pending, RecoverDrops
  <1> QED
    BY <1>1, <1>2, <1>3, <1>4, <1>5, <1>6, <1>7, <1>8, Zenon DEF StoreStep, storeVars

\* The file stays positioned behind its last good frame: a failed write seeks back.
LEMMA PositionStep == TypeOK /\ StoreInv /\ [Next]_vars => PositionInv'
  <1> SUFFICES ASSUME TypeOK, StoreInv, [Next]_vars PROVE PositionInv'
    BY Zenon
  <1> USE DEF walVars
  <1>1. CASE UNCHANGED <<active, position>>
    BY <1>1, Zenon DEF StoreInv, PositionInv
  <1>2. CASE WriteFrame
    <2> DEFINE f == [off |-> active.offset, batch |-> wbatch, batch_seq |-> next_batch_seq]
    <2>1. /\ active # NoActive
          /\ active' = [seq |-> active.seq, offset |-> active.offset + frame_len_on_disk(wbatch)]
      BY <1>2, WriteEffect, Zenon
    <2>2. position = active.offset
      BY <2>1, Zenon DEF StoreInv, PositionInv
    <2>3. position' = End(f)
      BY <1>2, <2>2, Zenon DEF WriteFrame
    <2> QED
      BY <2>1, <2>3, Zenon DEF PositionInv, End
  <1>3. CASE WriteFails
    BY <1>3, Zenon DEF WriteFails, recover_active_after_error, PositionInv
  <1>r. CASE Rotate
    <2>1. active'.offset = SEGMENT_HEADER_LEN /\ position' = SEGMENT_HEADER_LEN
      BY <1>r, Zenon DEF Rotate
    <2> QED
      BY <2>1, Zenon DEF PositionInv
  <1>4. CASE RotateFails \/ Crash
    BY <1>4, Zenon DEF RotateFails, Crash, PositionInv
  <1>5. CASE RecoverFinish
    BY <1>5, Zenon DEF RecoverFinish, PositionInv
  <1>6. ASSUME NEW b \in Batch, WriterRecv(b) \/ WriterTryRecv(b) PROVE UNCHANGED <<active, position>>
    BY <1>6, Zenon DEF WriterRecv, WriterTryRecv
  <1>7. CASE WriterLock \/ EnforceCap \/ BoundBurst \/ GroupCommit
    BY <1>1, <1>7, Zenon DEF WriterLock, EnforceCap, BoundBurst, GroupCommit
  <1>8. ASSUME NEW t \in BOOLEAN, Sweep(t) \/ DrainLoop(t) \/ Handover(t)
        PROVE  UNCHANGED <<active, position>>
    BY <1>8, Zenon DEF Sweep, DrainLoop, Handover
  <1>9. CASE PeekLock \/ PeekEmpty \/ PeekFrame \/ PeekNothing
    BY <1>1, <1>9, Zenon DEF PeekLock, PeekEmpty, PeekFrame, PeekNothing
  <1>10. CASE gc_front_consumed \/ commit_pending \/ RecoverFails
    BY <1>1, <1>10, Zenon DEF gc_front_consumed, commit_pending, RecoverFails
  <1>11. ASSUME NEW s \in found, RecoverSegment(s) \/ RecoverDrops(s)
         PROVE  UNCHANGED <<active, position>>
    BY <1>11, Zenon DEF RecoverSegment, RecoverDrops
  <1>12. CASE UNCHANGED vars
    BY <1>1, <1>12, Zenon DEF vars
  <1> QED
    BY <1>1, <1>2, <1>3, <1>r, <1>4, <1>5, <1>6, <1>7, <1>8, <1>9, <1>10, <1>11, <1>12, Zenon
       DEF Next, Writer, Drainer, Recovery
-----------------------------------------------------------------------------
(* The read cursor, and who holds the mutex. *)

\* The start of a filled segment is its end or the place of a frame.
LEMMA SegmentStart ==
  ASSUME DiskInv, NEW i \in DOMAIN segments
  PROVE  \/ SEGMENT_HEADER_LEN = segments[i].bytes
         \/ \E f \in disk[segments[i].seq].frames : f.off = SEGMENT_HEADER_LEN
  BY Zenon DEF DiskInv, Filled

\* The drainer's cursor stays on a frame boundary of the oldest segment, however
\* drop-oldest, collection and rotation fall between its peek and its commit.
LEMMA CursorStep ==
  TypeOK /\ TypeOK' /\ StoreInv /\ SeqInv' /\ DiskInv' /\ [Next]_vars => CursorInv'
  <1> SUFFICES ASSUME TypeOK, TypeOK', StoreInv, SeqInv', DiskInv', StoreStep \/ UNCHANGED storeVars
               PROVE  CursorInv'
    BY StoreSteps, Zenon
  <1> USE DEF cursor
  <1>i. DiskInv /\ ActiveInv /\ SeqInv /\ CursorInv /\ ControlInv
    BY Zenon DEF StoreInv
  <1>0. /\ \A i \in DOMAIN segments : segments[i].seq \in Nat /\ i \in Nat /\ 1 <= i
        /\ read_seq \in Nat /\ next_seq \in Nat /\ read_offset \in Nat
        /\ segments # <<>> => 1 \in DOMAIN segments
    <2>1. read_seq \in Nat /\ next_seq \in Nat /\ read_offset \in Nat
      BY Zenon DEF TypeOK
    <2> QED
      BY <2>1, SegType, SMTT(60)
  <1>r. read_seq <= next_seq /\ read_seq \in Nat /\ next_seq \in Nat
    BY <1>0, <1>i, Zenon DEF CursorInv
  <1>1. CASE UNCHANGED <<segments, next_seq, read_seq, read_offset, pending_advance, disk>>
    BY <1>1, <1>i, Zenon DEF CursorInv, Oldest
  <1>2. CASE EnforceCap \/ gc_front_consumed
    <2> DEFINE n == Len(segments)
    <2>1. /\ segments # <<>> /\ 1 \in DOMAIN segments /\ DOMAIN segments' = 1..n - 1
          /\ \A i \in DOMAIN segments' : i + 1 \in DOMAIN segments /\ segments'[i] = segments[i + 1]
      BY <1>2, <1>i, OldestDropped, Zenon
    <2>2. \A i \in DOMAIN segments' : Oldest.seq < segments'[i].seq
      <3> SUFFICES ASSUME NEW i \in DOMAIN segments' PROVE Oldest.seq < segments'[i].seq
        BY Zenon
      <3>1. i + 1 \in DOMAIN segments /\ 1 < i + 1
        BY <2>1, SegType
      <3> QED
        BY <1>i, <2>1, <3>1, Zenon DEF SeqInv, Oldest
    <2>3. /\ UNCHANGED next_seq /\ Oldest.seq < next_seq /\ Oldest.seq \in Nat
          /\ \A i \in DOMAIN segments' : segments'[i].seq < next_seq' /\ segments'[i].seq \in Nat
      <3>1. UNCHANGED next_seq
        BY <1>2, Zenon DEF EnforceCap, gc_front_consumed
      <3>2. Oldest.seq < next_seq /\ Oldest.seq \in Nat
        BY <1>0, <1>i, <2>1, Zenon DEF SeqInv, Oldest
      <3>3. \A i \in DOMAIN segments' : segments'[i].seq < next_seq' /\ segments'[i].seq \in Nat
        BY <1>0, <2>1, Zenon DEF SeqInv
      <3> QED
        BY <3>1, <3>2, <3>3, Zenon
    <2>4. segments' # <<>> => 1 \in DOMAIN segments'
      BY FirstIn, Zenon DEF TypeOK
    <2>5. CASE segments' # <<>> /\ read_seq' = segments'[1].seq /\ read_offset' = SEGMENT_HEADER_LEN
               /\ pending_advance' = None
      <3>1. \A i \in DOMAIN segments' : i = 1 \/ 1 < i
        BY <2>1, SegType
      <3>2. \A i \in DOMAIN segments' : read_seq' <= segments'[i].seq
        <4> SUFFICES ASSUME NEW i \in DOMAIN segments' PROVE read_seq' <= segments'[i].seq
          BY Zenon
        <4>1. i = 1 \/ segments'[1].seq < segments'[i].seq
          BY <2>4, <2>5, <3>1, Zenon DEF SeqInv
        <4> QED
          BY <2>3, <2>4, <2>5, <4>1
      <3>3. read_seq' <= next_seq' /\ read_seq' # next_seq'
        BY <2>3, <2>4, <2>5, <1>0
      <3>4. \/ SEGMENT_HEADER_LEN = segments'[1].bytes
            \/ \E f \in disk'[segments'[1].seq].frames : f.off = SEGMENT_HEADER_LEN
        BY <2>4, <2>5, Zenon DEF DiskInv, Filled
      <3> QED
        BY <2>5, <3>2, <3>3, <3>4, Zenon DEF CursorInv, Oldest
    <2>6. CASE read_seq' <= Oldest.seq /\ pending_advance' = None
      <3>0. read_seq' \in Nat
        BY Zenon DEF TypeOK
      <3>1. \A i \in DOMAIN segments' : read_seq' < segments'[i].seq /\ read_seq' <= segments'[i].seq
        BY <2>2, <2>3, <2>6, <3>0
      <3>2. read_seq' <= next_seq' /\ read_seq' # next_seq'
        BY <1>0, <2>3, <2>6, <3>0
      <3>3. segments' # <<>> => read_seq' # Oldest'.seq
        BY <2>3, <2>4, <3>0, <3>1 DEF Oldest
      <3> QED
        BY <2>6, <3>1, <3>2, <3>3, Zenon DEF CursorInv
    <2>7. CASE EnforceCap
      <3>1. CursorAfterDrop /\ n > 1 /\ n \in Nat
        BY <2>7, SegType, Zenon DEF EnforceCap, OverCap
      <3>2. 1 \in DOMAIN segments' /\ segments'[1] = segments[2] /\ segments' # <<>>
        <4>1. 1 \in DOMAIN segments' /\ 1 + 1 = 2
          BY <2>1, <3>1
        <4> QED
          BY <2>1, <4>1
      <3>3. CASE read_seq = Oldest.seq
        BY <2>5, <3>1, <3>2, <3>3, Zenon DEF CursorAfterDrop
      <3>4. CASE read_seq # Oldest.seq
        <4>1. UNCHANGED <<read_seq, pending_advance>> /\ pending_advance = None
          BY <1>i, <3>1, <3>4, Zenon DEF CursorAfterDrop, CursorInv
        <4>2. read_seq <= Oldest.seq
          BY <1>i, <2>1, Zenon DEF CursorInv, Oldest
        <4> QED
          BY <2>6, <4>1, <4>2, Zenon
      <3> QED
        BY <3>3, <3>4, Zenon
    <2>8. CASE gc_front_consumed
      <3>1. /\ pending_advance' = None
            /\ \/ read_seq' = PeekSeq
               \/ segments' # <<>> /\ read_seq' = segments'[1].seq /\ read_offset' = SEGMENT_HEADER_LEN
        BY <2>8, Zenon DEF gc_front_consumed
      <3>2. PeekSeq = Oldest.seq
        BY <1>i, <2>1, PeekOldest, Zenon
      <3> QED
        BY <2>3, <2>5, <2>6, <3>1, <3>2
    <2> QED
      BY <1>2, <2>7, <2>8, Zenon
  <1>3. CASE Rotate
    <2> DEFINE m == [seq |-> next_seq, bytes |-> SEGMENT_HEADER_LEN, base |-> NextBase]
    <2>1. /\ segments' = Append(segments, m) /\ m \in SegmentMeta /\ next_seq' = next_seq + 1
          /\ \A s \in DOMAIN disk : disk'[s].frames = disk[s].frames
          /\ UNCHANGED <<read_seq, read_offset, pending_advance>>
      BY <1>3, RotateEffect, Zenon
    <2>2. m.seq = next_seq /\ m.bytes = SEGMENT_HEADER_LEN
      BY Zenon
    <2> HIDE DEF m
    <2>3. /\ \A i \in DOMAIN segments : segments'[i] = segments[i]
          /\ \A i \in DOMAIN segments' : i \in DOMAIN segments \/ i = Len(segments) + 1
          /\ segments'[Len(segments) + 1] = m /\ segments' # <<>>
          /\ Oldest' = IF segments = <<>> THEN m ELSE Oldest
      BY <2>1, OneMoreSegment, Zenon
    <2>4. \A i \in DOMAIN segments' : read_seq' <= segments'[i].seq
      BY <1>i, <2>1, <2>2, <2>3, Zenon DEF CursorInv
    <2>5. read_seq' <= next_seq' /\ read_seq' # next_seq'
      BY <1>r, <2>1
    <2>6. CASE segments = <<>>
      BY <1>i, <2>1, <2>2, <2>3, <2>4, <2>5, <2>6, SMTT(60) DEF CursorInv
    <2>7. CASE segments # <<>>
      <3>1. Oldest' = Oldest /\ disk'[Oldest.seq].frames = disk[Oldest.seq].frames
        BY <1>0, <1>i, <2>1, <2>3, <2>7, Zenon DEF DiskInv, Oldest
      <3> QED
        BY <1>i, <2>1, <2>3, <2>4, <2>5, <2>7, <3>1, Zenon DEF CursorInv
    <2> QED
      BY <2>6, <2>7, Zenon
  <1>4. CASE RotateFails
    <2>1. /\ UNCHANGED <<segments, read_seq, read_offset, pending_advance>>
          /\ \A s \in DOMAIN disk : disk'[s].frames = disk[s].frames
          /\ next_seq' = next_seq \/ next_seq' = next_seq + 1
      BY <1>4, RotateFailsEffect, Zenon
    <2>2. segments # <<>> => disk'[Oldest.seq].frames = disk[Oldest.seq].frames
      BY <1>0, <1>i, <2>1, Zenon DEF DiskInv, Oldest
    <2>3. read_seq' <= next_seq' /\ (read_seq' = next_seq' => read_seq = next_seq)
      BY <1>r, <2>1
    <2> QED
      BY <1>i, <2>1, <2>2, <2>3, Zenon DEF CursorInv, Oldest
  <1>5. CASE WriteFrame
    <2> DEFINE f == [off |-> active.offset, batch |-> wbatch, batch_seq |-> next_batch_seq]
    <2>1. /\ UNCHANGED <<next_seq, read_seq, read_offset, pending_advance>>
      BY <1>5, Zenon DEF WriteFrame
    <2>2. /\ segments # <<>> /\ segments' # <<>> /\ DOMAIN segments' = DOMAIN segments
          /\ \A i \in DOMAIN segments :
              /\ segments'[i].seq = segments[i].seq
              /\ segments'[i].bytes = segments[i].bytes
                   + (IF i = Len(segments) THEN frame_len_on_disk(wbatch) ELSE 0)
      BY <1>5, LastSegmentGrows, Zenon
    <2>3. /\ active.seq = Newest.seq /\ active.offset = Newest.bytes
          /\ \A s \in DOMAIN disk : s # active.seq => disk'[s] = disk[s]
          /\ disk'[active.seq].frames = disk[active.seq].frames \cup {f}
      BY <1>5, WriteEffect, Zenon
    <2>4. 1 \in DOMAIN segments /\ Oldest.seq \in DOMAIN disk /\ Oldest'.seq = Oldest.seq
      BY <1>0, <1>i, <2>2, Zenon DEF DiskInv, Oldest
    <2>5. disk[Oldest.seq].frames \subseteq disk'[Oldest.seq].frames
      BY <2>3, <2>4, Zenon
    <2>6. ASSUME read_offset = Oldest.bytes
          PROVE  \/ read_offset = Oldest'.bytes
                 \/ \E g \in disk'[Oldest.seq].frames : g.off = read_offset
      <3>1. CASE Len(segments) = 1
        <4>1. f \in disk'[Oldest.seq].frames /\ f.off = read_offset
          BY <2>3, <2>6, <3>1, Zenon DEF Newest, Oldest
        <4> QED
          BY <4>1, Zenon
      <3>2. CASE Len(segments) # 1
        <4>1. Oldest'.bytes = Oldest.bytes
          BY <2>2, <2>4, <3>2, SegType DEF Oldest
        <4> QED
          BY <2>6, <4>1, Zenon
      <3> QED
        BY <3>1, <3>2, Zenon
    <2>7. \A i \in DOMAIN segments' : read_seq' <= segments'[i].seq
      BY <1>i, <2>1, <2>2, Zenon DEF CursorInv
    <2>8. read_seq = Oldest.seq =>
            \/ read_offset = Oldest'.bytes
            \/ \E g \in disk'[Oldest.seq].frames : g.off = read_offset
      BY <1>i, <2>2, <2>5, <2>6, Zenon DEF CursorInv
    <2>9. pending_advance # None =>
            /\ read_seq = Oldest.seq
            /\ \E g \in disk'[Oldest.seq].frames : g.off = read_offset /\ pending_advance = End(g)
      BY <1>i, <2>2, <2>5, Zenon DEF CursorInv
    <2> QED
      BY <1>i, <2>1, <2>2, <2>4, <2>7, <2>8, <2>9, Zenon DEF CursorInv
  <1>6. CASE BoundBurst \/ GroupCommit
    <2>1. /\ UNCHANGED <<segments, next_seq, read_seq, read_offset, pending_advance>>
          /\ \A s \in DOMAIN disk : disk'[s].frames = disk[s].frames
      BY <1>6, SyncEffect, ZenonT(60)
    <2>2. segments # <<>> => disk'[Oldest.seq].frames = disk[Oldest.seq].frames
      BY <1>0, <1>i, <2>1, Zenon DEF DiskInv, Oldest
    <2> QED
      BY <1>i, <2>1, <2>2, SMTT(60) DEF CursorInv, Oldest
  <1>7. CASE PeekFrame \/ PeekNothing
    <2>1. /\ segments # <<>> /\ read_seq' = PeekSeq /\ read_offset' = PeekOffset
          /\ UNCHANGED <<segments, next_seq, disk>>
      BY <1>7, ZenonT(60) DEF PeekFrame, PeekNothing
    <2>2. PeekSeq = Oldest.seq /\ 1 \in DOMAIN segments /\ Oldest.seq < next_seq /\ Oldest.seq \in Nat
      BY <1>0, <1>i, <2>1, PeekOldest, Zenon DEF SeqInv, Oldest
    <2>3. \A i \in DOMAIN segments : Oldest.seq <= segments[i].seq
      BY <1>0, <1>i, <2>2 DEF SeqInv, Oldest
    <2>4. \/ PeekOffset = Oldest.bytes
          \/ \E f \in disk[Oldest.seq].frames : f.off = PeekOffset
      <3>1. CASE read_seq \in Seqs
        BY <1>i, <2>1, <2>2, <3>1, Zenon DEF CursorInv, PeekSeq, PeekOffset
      <3>2. CASE read_seq \notin Seqs
        BY <1>i, <2>2, <3>2, SegmentStart, Zenon DEF PeekOffset, Oldest
      <3> QED
        BY <3>1, <3>2, Zenon
    <2>5. pending_advance' # None =>
            \E f \in disk[Oldest.seq].frames : f.off = PeekOffset /\ pending_advance' = End(f)
      <3>1. CASE PeekFrame
        BY <2>2, <3>1, Zenon DEF PeekFrame, read_frame_at
      <3>2. CASE PeekNothing
        <4>1. UNCHANGED pending_advance
          BY <3>2, Zenon DEF PeekNothing
        <4>2. read_seq = Oldest.seq => PeekOffset = read_offset
          BY <2>2, Zenon DEF PeekOffset, Seqs, Oldest
        <4> QED
          BY <1>i, <4>1, <4>2, Zenon DEF CursorInv
      <3> QED
        BY <1>7, <3>1, <3>2, Zenon
    <2>6. read_seq' <= next_seq' /\ read_seq' # next_seq'
      BY <1>0, <2>1, <2>2
    <2> QED
      BY <2>1, <2>2, <2>3, <2>4, <2>5, <2>6, SMTT(60) DEF CursorInv, Oldest
  <1>8. CASE commit_pending
    <2>1. /\ UNCHANGED <<segments, next_seq, disk, read_seq>>
          /\ pending_advance' = None /\ read_offset' = Advanced
      BY <1>8, Zenon DEF commit_pending
    <2>2. CASE pending_advance = None
      BY <1>i, <2>1, <2>2, SMTT(60) DEF CursorInv, Advanced, Oldest
    <2>3. CASE pending_advance # None
      <3>1. PICK f \in disk[Oldest.seq].frames : f.off = read_offset /\ pending_advance = End(f)
        BY <1>i, <2>3, Zenon DEF CursorInv
      <3>a. segments # <<>> /\ read_seq = Oldest.seq /\ read_seq <= next_seq
        BY <1>i, <2>3, Zenon DEF CursorInv
      <3>b. 1 \in DOMAIN segments
        BY <3>a, SegType, Zenon
      <3>c. segments[1].seq < next_seq /\ segments[1].seq \in Nat /\ next_seq \in Nat
        BY <1>0, <1>i, <3>b, SegType, Zenon DEF SeqInv
      <3>d. read_seq # next_seq
        BY ONLY <3>a, <3>c DEF Oldest
      <3>2. /\ segments # <<>> /\ read_seq = Oldest.seq /\ 1 \in DOMAIN segments
            /\ read_seq <= next_seq /\ read_seq # next_seq
        BY <3>a, <3>b, <3>d, Zenon
      <3>3. End(f) = Oldest.bytes \/ \E g \in disk[Oldest.seq].frames : g.off = End(f)
        BY <1>i, <3>1, <3>2, Zenon DEF DiskInv, Filled, Oldest
      <3>4. read_offset' = End(f)
        BY <2>1, <2>3, <3>1, SMTT(60) DEF Advanced
      <3> QED
        BY <1>i, <2>1, <3>2, <3>3, <3>4, SMTT(60) DEF CursorInv, Oldest
    <2> QED
      BY <2>2, <2>3, Zenon
  <1>9. ASSUME NEW s \in found, RecoverSegment(s) \/ RecoverDrops(s) PROVE CursorInv'
    <2>1. /\ read_seq' = 0 /\ read_offset' = SEGMENT_HEADER_LEN /\ pending_advance' = None
          /\ next_seq' = s + 1
      BY <1>9, <1>i, Zenon DEF RecoverSegment, RecoverDrops, ControlInv
    <2>2. s \in Nat
      BY <1>i, FoundFresh, Zenon
    <2>3. \A i \in DOMAIN segments' : segments'[i].seq \in Nat
      <3>1. segments' \in Seq(SegmentMeta)
        BY Zenon DEF TypeOK
      <3>2. \A i \in DOMAIN segments' : segments'[i] \in SegmentMeta
        BY <3>1
      <3> QED
        BY <3>2, Zenon DEF SegmentMeta
    <2>4. segments' # <<>> =>
            \/ SEGMENT_HEADER_LEN = Oldest'.bytes
            \/ \E f \in disk'[Oldest'.seq].frames : f.off = SEGMENT_HEADER_LEN
      <3>1. segments' # <<>> => 1 \in DOMAIN segments'
        BY FirstIn, Zenon DEF TypeOK
      <3> QED
        BY <3>1, Zenon DEF DiskInv, Filled, Oldest
    <2>5. /\ \A i \in DOMAIN segments' : read_seq' <= segments'[i].seq
          /\ read_seq' <= next_seq' /\ read_seq' # next_seq'
      BY <2>1, <2>2, <2>3
    <2> QED
      BY <2>1, <2>4, <2>5, Zenon DEF CursorInv
  <1>10. CASE RecoverFinish
    <2>1. /\ UNCHANGED <<segments, next_seq, disk>> /\ read_seq' = ReplayFrom
          /\ read_offset' = SEGMENT_HEADER_LEN /\ pending_advance' = None
      BY <1>10, <1>i, Zenon DEF RecoverFinish, ControlInv
    <2>2. CASE segments = <<>>
      <3>1. segments' = <<>> /\ read_seq' = next_seq' /\ next_seq' = next_seq
        BY <2>1, <2>2, Zenon DEF ReplayFrom
      <3>2. next_seq <= next_seq
        BY <1>0
      <3>3. DOMAIN segments' = {}
        BY ONLY <3>1
      <3> QED
        BY <2>1, <3>1, <3>2, <3>3, Zenon DEF CursorInv
    <2>3. CASE segments # <<>>
      <3>1. 1 \in DOMAIN segments /\ read_seq' = Oldest.seq /\ Oldest.seq < next_seq /\ Oldest.seq \in Nat
        BY <1>0, <1>i, <2>1, <2>3, SMTT(60) DEF ReplayFrom, SeqInv, Oldest
      <3>2. \A i \in DOMAIN segments : Oldest.seq <= segments[i].seq
        BY <1>0, <1>i, <3>1 DEF SeqInv, Oldest
      <3>3. read_seq' <= next_seq' /\ read_seq' # next_seq'
        BY <1>0, <2>1, <3>1
      <3>4. \/ SEGMENT_HEADER_LEN = Oldest.bytes
            \/ \E f \in disk[Oldest.seq].frames : f.off = SEGMENT_HEADER_LEN
        BY <1>i, <3>1, SegmentStart, Zenon DEF Oldest
      <3> QED
        BY <2>1, <2>3, <3>1, <3>2, <3>3, <3>4, SMTT(60) DEF CursorInv, Oldest
    <2> QED
      BY <2>2, <2>3, Zenon
  <1>11. CASE Crash
    <2>1. /\ segments' = <<>> /\ read_seq' = 0 /\ next_seq' = 0 /\ read_offset' = SEGMENT_HEADER_LEN
          /\ pending_advance' = None
      BY <1>11, Zenon DEF Crash
    <2> QED
      BY <2>1 DEF CursorInv
  <1> QED
    BY <1>1, <1>2, <1>3, <1>4, <1>5, <1>6, <1>7, <1>8, <1>9, <1>10, <1>11, Zenon DEF StoreStep, storeVars

-----------------------------------------------------------------------------
\* The mutex is held by the thread the program counters say, and no thread runs
\* before recovery is over.
LEMMA ControlStep == TypeOK /\ TypeOK' /\ StoreInv /\ [Next]_vars => ControlInv'
  <1> SUFFICES ASSUME TypeOK, TypeOK', StoreInv, [Next]_vars PROVE ControlInv'
    BY Zenon
  <1> USE DEF walVars, writerVars, drainerVars, processVars, cursor
  <1>i. ControlInv
    BY Zenon DEF StoreInv
  <1>t. /\ wpc \in {"recv", "lock", "cap", "write", "bound", "drain"} /\ crashes \in Nat
        /\ dpc \in {"sweep", "loop", "want", "peek", "send", "commit"}
        /\ lock \in {"free", "writer", "drainer"} /\ mode \in {"up", "recovering", "disabled"}
    BY Zenon DEF TypeOK
  <1>1. CASE UNCHANGED vars
    BY <1>1, <1>i, Zenon DEF ControlInv, vars
  <1>2. ASSUME NEW b \in Batch, WriterRecv(b) PROVE ControlInv'
    BY <1>2, <1>i, <1>t, Zenon DEF ControlInv, WriterRecv
  <1>3. ASSUME NEW b \in Batch, WriterTryRecv(b) PROVE ControlInv'
    BY <1>3, <1>i, <1>t, Zenon DEF ControlInv, WriterTryRecv
  <1>4. CASE WriterLock
    BY <1>4, <1>i, <1>t, Zenon DEF ControlInv, WriterLock
  <1>5. CASE EnforceCap
    <2>1. /\ mode = "up" /\ wpc = "cap"
          /\ UNCHANGED <<active, lock, wpc, wbatch, dpc, mode, found>>
      BY <1>5, <1>i, <1>t, Zenon DEF ControlInv, EnforceCap
    <2> QED
      BY <1>i, <2>1, Zenon DEF ControlInv
  <1>6. CASE Rotate
    <2>1. /\ mode = "up" /\ wpc = "cap" /\ UNCHANGED <<lock, wbatch, dpc, mode, found>>
          /\ wpc' = "write" /\ active' = [seq |-> next_seq, offset |-> SEGMENT_HEADER_LEN]
      BY <1>6, <1>i, <1>t, SMTT(60) DEF ControlInv, Rotate
    <2>2. active' # NoActive /\ active'.offset = SEGMENT_HEADER_LEN
      BY <2>1 DEF NoActive, None, TypeOK
    <2> QED
      BY <1>i, <2>1, <2>2, SMTT(60) DEF ControlInv
  <1>7. CASE RotateFails
    <2>1. /\ mode = "up" /\ wpc = "cap" /\ UNCHANGED <<lock, dpc, mode, found>> /\ wpc' \in {"bound", "drain"}
      BY <1>7, <1>i, <1>t, Zenon DEF ControlInv, RotateFails, AppendReturns
    <2> QED
      BY <1>i, <2>1, Zenon DEF ControlInv
  <1>8. CASE WriteFrame
    <2>1. /\ mode = "up" /\ wpc \in {"cap", "write"} /\ UNCHANGED <<lock, dpc, mode, found>> /\ wpc' \in {"bound", "drain"}
      BY <1>8, <1>i, <1>t, SMTT(60) DEF ControlInv, WriteFrame, ReadyToWrite, AppendReturns
    <2> QED
      BY <1>i, <2>1, Zenon DEF ControlInv
  <1>9. CASE WriteFails
    <2>1. /\ mode = "up" /\ wpc \in {"cap", "write"} /\ UNCHANGED <<lock, dpc, mode, found>> /\ wpc' \in {"bound", "drain"}
      BY <1>9, <1>i, <1>t, Zenon DEF ControlInv, WriteFails, ReadyToWrite, AppendReturns
    <2> QED
      BY <1>i, <2>1, Zenon DEF ControlInv
  <1>10. CASE BoundBurst
    <2>1. /\ mode = "up" /\ wpc = "bound" /\ UNCHANGED <<lock, dpc, mode, found>> /\ wpc' = "drain"
      BY <1>10, <1>i, <1>t, Zenon DEF ControlInv, BoundBurst
    <2> QED
      BY <1>i, <2>1, Zenon DEF ControlInv
  <1>11. CASE GroupCommit
    <2>1. /\ mode = "up" /\ wpc = "drain" /\ UNCHANGED <<dpc, mode, found>> /\ wpc' = "recv" /\ lock' = "free"
      BY <1>11, <1>i, <1>t, Zenon DEF ControlInv, GroupCommit
    <2> QED
      BY <1>i, <2>1, Zenon DEF ControlInv
  <1>12. ASSUME NEW t \in BOOLEAN, Sweep(t) PROVE ControlInv'
    BY <1>12, <1>i, <1>t, SMTT(60) DEF ControlInv, Sweep
  <1>13. ASSUME NEW t \in BOOLEAN, DrainLoop(t) PROVE ControlInv'
    BY <1>13, <1>i, <1>t, Zenon DEF ControlInv, DrainLoop
  <1>14. ASSUME NEW t \in BOOLEAN, Handover(t) PROVE ControlInv'
    BY <1>14, <1>i, <1>t, Zenon DEF ControlInv, Handover
  <1>15. CASE PeekLock
    BY <1>15, <1>i, <1>t, SMTT(60) DEF ControlInv, PeekLock
  <1>16. CASE PeekEmpty
    BY <1>16, <1>i, <1>t, Zenon DEF ControlInv, PeekEmpty, PeekReturnsNone
  <1>17. CASE PeekFrame \/ PeekNothing
    <2>1. /\ mode = "up" /\ dpc = "peek" /\ lock' = "free" /\ dpc' \in {"send", "sweep"}
          /\ UNCHANGED <<active, wpc, wbatch, mode, found>>
      BY <1>17, <1>i, <1>t, Zenon DEF ControlInv, PeekFrame, PeekNothing, PeekReturnsNone
    <2> QED
      BY <1>i, <2>1, SMTT(60) DEF ControlInv
  <1>18. CASE gc_front_consumed
    <2>1. /\ mode = "up" /\ dpc = "peek" /\ UNCHANGED <<active, lock, wpc, wbatch, dpc, mode, found>>
      BY <1>18, <1>i, <1>t, Zenon DEF ControlInv, gc_front_consumed
    <2> QED
      BY <1>i, <2>1, SMTT(60) DEF ControlInv
  <1>19. CASE commit_pending
    <2>1. /\ mode = "up" /\ dpc = "commit" /\ dpc' \in {"sweep", "loop"}
          /\ UNCHANGED <<active, lock, wpc, wbatch, mode, found>>
      BY <1>19, <1>i, <1>t, Zenon DEF ControlInv, commit_pending
    <2> QED
      BY <1>i, <2>1, Zenon DEF ControlInv
  <1>20. ASSUME NEW s \in found, RecoverSegment(s) \/ RecoverDrops(s) PROVE ControlInv'
    <2>1. /\ mode = "recovering"
          /\ UNCHANGED <<active, read_seq, read_offset, pending_advance, lock, wpc, wbatch, dpc, mode, crashes>>
      BY <1>20, Zenon DEF RecoverSegment, RecoverDrops
    <2> QED
      BY <1>i, <2>1, Zenon DEF ControlInv
  <1>21. CASE RecoverFinish
    <2>1. /\ mode = "recovering" /\ mode' = "up" /\ found' = {} /\ UNCHANGED <<lock, wpc, wbatch, dpc>>
      BY <1>21, Zenon DEF RecoverFinish
    <2> QED
      BY <1>i, <2>1, Zenon DEF ControlInv
  <1>22. CASE RecoverFails
    <2>1. /\ mode = "recovering" /\ mode' = "disabled"
          /\ UNCHANGED <<active, read_seq, read_offset, pending_advance, lock, wpc, wbatch, dpc, crashes>>
      BY <1>22, Zenon DEF RecoverFails
    <2> QED
      BY <1>i, <2>1, Zenon DEF ControlInv
  <1>23. CASE Crash
    <2>1. /\ mode' = "recovering" /\ lock' = "free" /\ wpc' = "recv" /\ dpc' = "sweep"
          /\ active' = NoActive /\ read_seq' = 0 /\ read_offset' = SEGMENT_HEADER_LEN
          /\ pending_advance' = None /\ crashes' = crashes + 1
      BY <1>23, Zenon DEF Crash
    <2>2. crashes' > 0
      BY <1>t, <2>1
    <2> QED
      BY <2>1, <2>2, SMTT(60) DEF ControlInv
  <1> QED
    BY <1>1, <1>2, <1>3, <1>4, <1>5, <1>6, <1>7, <1>8, <1>9, <1>10, <1>11, <1>12, <1>13, <1>14,
       <1>15, <1>16, <1>17, <1>18, <1>19, <1>20, <1>21, <1>22, <1>23, Zenon DEF Next, Writer, Drainer, Recovery

=============================================================================
