--------------------------- MODULE SpillwayProofs ---------------------------
(* The delivery path of module Spillway implements the open specification of *)
(* WalStore, so what is proved of the log holds in the running agent.  The   *)
(* circuit breaker never reads Closed after OPEN_THRESHOLD failures, and the *)
(* hand-overs between queues, threads and log neither lose a batch in one    *)
(* life of the process nor, once it is synced, in several.                   *)
EXTENDS Spillway, WalStoreProofs

\* What the append channel and the hot path hold, and the breaker's counter.
AgentInv ==
  /\ appendq \in Seq(Batch) /\ (hpc # "idle" => hbatch \in Batch)
  /\ failures \in 0..FailureWrap - 1 /\ ClosedMeansFew

\* The hot path queues batches only, and a failure that leaves the circuit Closed
\* keeps the counter below the threshold, whatever the drainer's probe does.
LEMMA AgentInductive == AgentInv /\ [SpillNext]_allVars => AgentInv'
  <1> SUFFICES ASSUME AgentInv, SpillNext \/ UNCHANGED allVars PROVE AgentInv'
    BY Zenon
  <1>0. OpenThreshold \in Nat \ {0} /\ FailureWrap \in Nat /\ OpenThreshold < FailureWrap
    BY SpillwayAssumption, Zenon
  <1>1. CASE UNCHANGED <<appendq, hpc, hbatch, circuit, failures>>
    BY <1>1, Zenon DEF AgentInv, ClosedMeansFew
  <1>2. CASE UNCHANGED allVars
    BY <1>1, <1>2, Zenon DEF allVars, spillVars, queueVars, hotVars, circuitVars
  <1>3. ASSUME NEW b \in Batch, Emit(b) PROVE AgentInv'
    <2>1. UNCHANGED <<appendq, circuit, failures>>
      BY <1>3, Zenon DEF Emit, circuitVars
    <2>2. (hpc' = hpc /\ hbatch' = hbatch) \/ hbatch' = b
      BY <1>3, Zenon DEF Emit
    <2> QED
      BY <2>1, <2>2, Zenon DEF AgentInv, ClosedMeansFew
  <1>4. CASE TryAppend
    <2>1. UNCHANGED <<circuit, failures>> /\ hpc = "spill"
      BY <1>4, Zenon DEF TryAppend, circuitVars
    <2>2. \/ appendq' = Append(appendq, hbatch) /\ hpc' = "idle"
          \/ UNCHANGED <<appendq, hbatch>>
      BY <1>4, Zenon DEF TryAppend
    <2>3. hbatch \in Batch /\ appendq \in Seq(Batch)
      BY <2>1, Zenon DEF AgentInv
    <2>4. appendq' \in Seq(Batch) /\ (hpc' # "idle" => hbatch' \in Batch)
      BY <2>2, <2>3
    <2> QED
      BY <2>1, <2>4, Zenon DEF AgentInv, ClosedMeansFew
  <1>5. CASE DropOldest \/ Resend
    <2>1. UNCHANGED <<appendq, circuit, failures>> /\ hpc # "idle"
      BY <1>5, Zenon DEF DropOldest, Resend, circuitVars
    <2>2. hpc' = "idle" \/ hbatch' = hbatch
      BY <1>5, Zenon DEF DropOldest, Resend
    <2> QED
      BY <2>1, <2>2, Zenon DEF AgentInv, ClosedMeansFew
  <1>6. CASE WorkerRecv
    BY <1>1, <1>6, Zenon DEF WorkerRecv, hotVars, circuitVars
  <1>7. CASE PostSuccess \/ PostNonRetryable
    <2>1. UNCHANGED <<appendq, hpc, hbatch>> /\ failures' = 0
      BY <1>7, Zenon DEF PostSuccess, PostNonRetryable, record_post_success, queueVars, hotVars
    <2> QED
      BY <1>0, <2>1 DEF AgentInv, ClosedMeansFew
  <1>8. CASE PostRetryable
    <2>1. UNCHANGED <<appendq, hpc, hbatch>>
      BY <1>8, Zenon DEF PostRetryable, queueVars, hotVars
    <2>2. /\ failures' = (failures + 1) % FailureWrap
          /\ circuit' = (IF failures + 1 >= OpenThreshold THEN "Open" ELSE circuit)
      BY <1>8, Zenon DEF PostRetryable, record_post_failure
    <2>3. failures \in Nat /\ failures < FailureWrap
      BY <1>0 DEF AgentInv
    <2>4. failures' \in 0..FailureWrap - 1
      BY <1>0, <2>2, <2>3
    <2>5. ASSUME circuit' = "Closed" PROVE failures' < OpenThreshold
      <3>1. failures + 1 < OpenThreshold
        BY <1>0, <2>2, <2>3, <2>5
      <3>2. (failures + 1) % FailureWrap = failures + 1
        BY <1>0, <2>3, <3>1
      <3> QED
        BY <2>2, <3>1, <3>2, Zenon
    <2> QED
      BY <2>1, <2>4, <2>5, Zenon DEF AgentInv, ClosedMeansFew
  <1>9. CASE TryHalfOpenStore
    BY <1>9, Zenon DEF TryHalfOpenStore, DrainerStep, hotVars, AgentInv, ClosedMeansFew
  <1>10. CASE SweepOpen \/ TryHalfOpenLoad
    BY <1>1, <1>10, Zenon DEF SweepOpen, TryHalfOpenLoad, DrainerStep, hotVars, circuitVars
  <1>11. CASE SweepHalfOpen \/ SweepClosed \/ DrainMore \/ ReplaySent \/ ReplayNoCapacity \/ ReplayRest
    BY <1>1, <1>11, Zenon DEF SweepHalfOpen, SweepClosed, DrainMore, ReplaySent, ReplayNoCapacity,
       ReplayRest, DrainerStep, hotVars, circuitVars
  <1>12. CASE WriterTakes
    <2>1. UNCHANGED <<hpc, hbatch, circuit, failures>> /\ appendq # <<>> /\ appendq' = Tail(appendq)
      BY <1>12, Zenon DEF WriterTakes, WriterStep, hotVars, circuitVars
    <2>2. appendq' \in Seq(Batch)
      BY <2>1 DEF AgentInv
    <2> QED
      BY <2>1, <2>2, Zenon DEF AgentInv, ClosedMeansFew
  <1>13. CASE WriterCommits \/ WriterWorks \/ WriterDrops \/ WriterFails
    BY <1>1, <1>13, Zenon DEF WriterCommits, WriterWorks, WriterDrops, WriterFails, WriterStep,
       hotVars, circuitVars
  <1>14. CASE AgentCrash \/ OrderlyStop
    <2>1. appendq' = <<>> /\ hpc' = "idle" /\ failures' = 0
      BY <1>14, Zenon DEF AgentCrash, OrderlyStop, Restart
    <2> QED
      BY <1>0, <2>1 DEF AgentInv, ClosedMeansFew
  <1>15. CASE Recover \/ GatewayFails \/ GatewayRecovers
    BY <1>1, <1>15, Zenon DEF Recover, GatewayFails, GatewayRecovers, spillVars, queueVars, hotVars,
       circuitVars
  <1> QED
    BY <1>2, <1>3, <1>4, <1>5, <1>6, <1>7, <1>8, <1>9, <1>10, <1>11, <1>12, <1>13, <1>14, <1>15, Zenon DEF SpillNext

\* The invariant of the channel and the breaker.
LEMMA AgentCorrect == SpillSpec => []AgentInv
  <1>1. SpillInit => AgentInv
    BY SpillwayAssumption DEF SpillInit, AgentInv, ClosedMeansFew
  <1> QED
    BY <1>1, AgentInductive, PTL DEF SpillSpec

\* CircuitClosedMeansFew: the circuit reads Closed only below OPEN_THRESHOLD consecutive
\* failures, although the counter wraps and try_half_open is a load and a store
\* (record_post_failure, record_post_success, try_half_open).
THEOREM CircuitClosedMeansFew == SpillSpec => []ClosedMeansFew
  <1>1. AgentInv => ClosedMeansFew
    BY Zenon DEF AgentInv
  <1> QED
    BY <1>1, AgentCorrect, PTL

-----------------------------------------------------------------------------
\* Every step of the agent is a step of the log, or leaves the log alone.
LEMMA SpillStep == AgentInv /\ [SpillNext]_allVars => [Next]_vars
  <1> SUFFICES ASSUME AgentInv, [SpillNext]_allVars PROVE Next \/ UNCHANGED vars
    BY Zenon
  <1>1. CASE UNCHANGED allVars
    BY <1>1, Zenon DEF allVars
  <1>2. CASE (\E b \in Batch : Emit(b)) \/ TryAppend \/ DropOldest \/ Resend
    BY <1>2, Zenon DEF Emit, TryAppend, DropOldest, Resend
  <1>3. CASE WorkerRecv \/ PostSuccess \/ PostNonRetryable \/ PostRetryable
    BY <1>3, Zenon DEF WorkerRecv, PostSuccess, PostNonRetryable, PostRetryable
  <1>4. CASE SweepOpen \/ TryHalfOpenLoad \/ TryHalfOpenStore
    BY <1>4, Zenon DEF SweepOpen, TryHalfOpenLoad, TryHalfOpenStore, DrainerStep
  <1>5. CASE SweepHalfOpen \/ SweepClosed
    <2>1. \E t \in BOOLEAN : Sweep(t)
      BY <1>5, Zenon DEF SweepHalfOpen, SweepClosed, DrainerStep
    <2> QED
      BY <2>1, Zenon DEF Next, Drainer
  <1>6. CASE DrainMore
    <2>1. DrainLoop(Room /\ circuit = "Closed") /\ (Room /\ circuit = "Closed") \in BOOLEAN
      BY <1>6, Zenon DEF DrainMore, DrainerStep
    <2> QED
      BY <2>1, Zenon DEF Next, Drainer
  <1>7. CASE ReplaySent \/ ReplayNoCapacity
    <2>1. \E t \in BOOLEAN : Handover(t)
      BY <1>7, Zenon DEF ReplaySent, ReplayNoCapacity, DrainerStep
    <2> QED
      BY <2>1, Zenon DEF Next, Drainer
  <1>8. CASE ReplayRest
    BY <1>8, Zenon DEF ReplayRest, DrainerStep, Next, Drainer
  <1>9. CASE WriterTakes
    <2>1. (WriterRecv(Head(appendq)) \/ WriterTryRecv(Head(appendq))) /\ appendq # <<>>
      BY <1>9, Zenon DEF WriterTakes, WriterStep
    <2>2. Head(appendq) \in Batch
      BY <2>1 DEF AgentInv
    <2> QED
      BY <2>1, <2>2, Zenon DEF Next, Writer
  <1>10. CASE WriterCommits \/ WriterWorks \/ WriterDrops \/ WriterFails
    BY <1>10, Zenon DEF WriterCommits, WriterWorks, WriterDrops, WriterFails, WriterStep, Next, Writer
  <1>11. CASE AgentCrash \/ OrderlyStop \/ Recover
    BY <1>11, Zenon DEF AgentCrash, OrderlyStop, Recover, Next
  <1>12. CASE GatewayFails \/ GatewayRecovers
    BY <1>12, Zenon DEF GatewayFails, GatewayRecovers
  <1> QED
    BY <1>1, <1>2, <1>3, <1>4, <1>5, <1>6, <1>7, <1>8, <1>9, <1>10, <1>11, <1>12, Zenon DEF SpillNext

\* SpillImplementsStore: the hot path, the retry worker and the drainer use the log
\* only in ways the open specification of the log allows.
THEOREM SpillImplementsStore == SpillSpec => Spec
  <1>1. SpillInit => Init
    BY Zenon DEF SpillInit
  <1> QED
    BY <1>1, SpillStep, AgentCorrect, PTL DEF SpillSpec, Spec

\* AgentLosesNothingSilently: in the running agent no spilled batch leaves the
\* backlog without a hand-over, a drop at the cap, an unsynced crash or an error,
\* the log stays within its cap, and what it holds while the writer is at rest is synced.
THEOREM AgentLosesNothingSilently == SpillSpec => NoSilentLoss /\ []CapBound /\ []DurableAtRest
  BY SpillImplementsStore, NothingLostSilently, CapRespected, GroupCommitDurable, PTL

-----------------------------------------------------------------------------
(* The invariant of the delivery path. *)

\* Who holds a batch at each point, and that only emitted batches are about.
PlaceInv ==
  /\ retryq \in Seq(produced) /\ appendq \in Seq(produced)
  /\ IF hpc = "idle" THEN hbatch = NoBatch ELSE hbatch \in produced
  /\ IF kpc = "recv" THEN body = NoBatch ELSE body \in produced
  /\ IF wpc \in {"lock", "cap", "write"} THEN wbatch \in produced ELSE wbatch = NoBatch
  /\ dpc = "send" => dbatch \in produced
  /\ \A s \in DOMAIN disk : \A f \in disk[s].frames : f.batch \in produced

\* A batch that has reached the retry queue, and what becomes of it.
Sent(b) == b \in Range(retryq) \/ b = body \/ b \in delivered \/ b \in lost

\* Between peek and commit the frame at the cursor is the one in the drainer's
\* hands, then the one it has just put into the retry queue.
HandInv ==
  pending_advance # None =>
    \A f \in disk[read_seq].frames : f.off = read_offset =>
      /\ dpc = "send" => f.batch = dbatch
      /\ dpc = "commit" => f.batch \in replayed /\ (crashes = 0 => Sent(f.batch))

\* A frame that is not owed any more has been replayed; without I/O errors the
\* log knows every file in its directory.
ConsumedInv ==
  /\ \A s \in Seqs \cup found : \A f \in disk[s].frames : Owed(s, f) \/ f.batch \in replayed
  /\ errors = 0 => DOMAIN disk \subseteq Seqs \cup found

\* A batch that was on stable storage is replayed, reported, or in a synced frame
\* that is owed.
SyncedOwed(b) == \E s, f : Owed(s, f) /\ f.batch = b /\ f.off < disk[s].synced
DurableKept == errors = 0 => \A b \in durable : b \in replayed \cup lost \/ SyncedOwed(b)

\* What a queue holds after a send and after a receive.
LEMMA Queues ==
  ASSUME NEW S, NEW q \in Seq(S)
  PROVE  /\ \A b \in S : Append(q, b) \in Seq(S) /\ Len(Append(q, b)) = Len(q) + 1
                         /\ Range(Append(q, b)) = Range(q) \cup {b}
         /\ q # <<>> => /\ Head(q) \in S /\ Tail(q) \in Seq(S) /\ Len(Tail(q)) = Len(q) - 1
                        /\ Range(q) \subseteq Range(Tail(q)) \cup {Head(q)}
         /\ \A T : S \subseteq T => q \in Seq(T)
         /\ Range(q) \subseteq S /\ Len(q) \in Nat
  <1>0. DOMAIN q = 1..Len(q) /\ Len(q) \in Nat /\ \A i \in DOMAIN q : q[i] \in S
    OBVIOUS
  <1>1. ASSUME NEW b \in S
        PROVE  Append(q, b) \in Seq(S) /\ Len(Append(q, b)) = Len(q) + 1
               /\ Range(Append(q, b)) = Range(q) \cup {b}
    <2>1. /\ Append(q, b) \in Seq(S) /\ Len(Append(q, b)) = Len(q) + 1
          /\ \A i \in 1..Len(q) : Append(q, b)[i] = q[i]
          /\ Append(q, b)[Len(q) + 1] = b
          /\ DOMAIN Append(q, b) = 1..Len(q) + 1
      OBVIOUS
    <2>2. ASSUME NEW x \in Range(Append(q, b)) PROVE x \in Range(q) \cup {b}
      <3>1. PICK i \in 1..Len(q) + 1 : x = Append(q, b)[i]
        BY <2>1, <2>2, Zenon DEF Range
      <3>2. i \in 1..Len(q) \/ i = Len(q) + 1
        BY <1>0
      <3> QED
        BY <1>0, <2>1, <3>1, <3>2, Zenon DEF Range
    <2>3. ASSUME NEW x \in Range(q) \cup {b} PROVE x \in Range(Append(q, b))
      <3>1. CASE x = b
        <4>1. Len(q) + 1 \in DOMAIN Append(q, b)
          BY <1>0, <2>1
        <4> QED
          BY <2>1, <3>1, <4>1, Zenon DEF Range
      <3>2. CASE x \in Range(q)
        <4>1. PICK i \in 1..Len(q) : x = q[i]
          BY <1>0, <3>2, Zenon DEF Range
        <4>2. i \in DOMAIN Append(q, b) /\ Append(q, b)[i] = x
          BY <1>0, <2>1, <4>1
        <4> QED
          BY <4>2, Zenon DEF Range
      <3> QED
        BY <2>3, <3>1, <3>2, Zenon
    <2> QED
      BY <2>1, <2>2, <2>3, Zenon
  <1>2. ASSUME q # <<>>
        PROVE  /\ Head(q) \in S /\ Tail(q) \in Seq(S) /\ Len(Tail(q)) = Len(q) - 1
               /\ Range(q) \subseteq Range(Tail(q)) \cup {Head(q)}
    <2>1. /\ Head(q) \in S /\ Tail(q) \in Seq(S) /\ Len(Tail(q)) = Len(q) - 1
          /\ Head(q) = q[1] /\ DOMAIN Tail(q) = 1..Len(q) - 1
          /\ \A i \in 1..Len(q) - 1 : Tail(q)[i] = q[i + 1]
      BY <1>2
    <2>2. ASSUME NEW x \in Range(q) PROVE x \in Range(Tail(q)) \cup {Head(q)}
      <3>1. PICK i \in 1..Len(q) : x = q[i]
        BY <1>0, <2>2, Zenon DEF Range
      <3>2. CASE i = 1
        BY <2>1, <3>1, <3>2, Zenon
      <3>3. CASE i # 1
        <4>1. i - 1 \in 1..Len(q) - 1 /\ Tail(q)[i - 1] = q[i]
          BY <1>0, <2>1, <3>3
        <4> QED
          BY <2>1, <3>1, <4>1, Zenon DEF Range
      <3> QED
        BY <3>2, <3>3, Zenon
    <2> QED
      BY <2>1, <2>2, Zenon
  <1>3. ASSUME NEW T, S \subseteq T PROVE q \in Seq(T)
    <2>1. q = [i \in 1..Len(q) |-> q[i]] /\ \A i \in 1..Len(q) : q[i] \in T
      BY <1>0, <1>3
    <2> QED
      BY <1>0, <2>1
  <1>4. Range(q) \subseteq S
    BY <1>0, Zenon DEF Range
  <1> QED
    BY <1>0, <1>1, <1>2, <1>3, <1>4, Zenon

\* Which task takes a step that the log tells apart: only WriterTakes gives the
\* writer a batch, only WriterDrops drops a segment, only ReplaySent hands over.
LEMMA WhoActs ==
  ASSUME TypeOK, StoreInv, SpillNext
  PROVE  /\ wpc \in {"recv", "drain"} /\ wpc' \in {"lock", "cap"} => WriterTakes
         /\ EnforceCap => WriterDrops
         /\ dpc = "send" /\ dpc' = "commit" => ReplaySent
  <1> DEFINE Goal == /\ wpc \in {"recv", "drain"} /\ wpc' \in {"lock", "cap"} => WriterTakes
                     /\ EnforceCap => WriterDrops
                     /\ dpc = "send" /\ dpc' = "commit" => ReplaySent
  <1>0. EnforceCap => wpc = "cap" /\ wpc' = "cap" /\ OverCap /\ segments' # segments /\ dpc' = dpc
    <2> SUFFICES ASSUME EnforceCap PROVE segments' # segments
      BY Zenon DEF EnforceCap, writerVars, drainerVars
    <2>1. segments \in Seq(SegmentMeta) /\ Len(segments) > 1 /\ segments' = Tail(segments)
      BY Zenon DEF EnforceCap, OverCap, TypeOK
    <2>2. Len(segments') = Len(segments) - 1 /\ Len(segments) \in Nat
      BY <2>1
    <2> QED
      BY <2>2
  <1>c. ControlInv
    BY Zenon DEF StoreInv
  <1> SUFFICES Goal
    BY Zenon
  <1>1. CASE UNCHANGED vars
    <2>1. UNCHANGED <<wpc, dpc, segments>>
      BY <1>1, Zenon DEF vars, walVars, writerVars, drainerVars
    <2> QED
      BY <1>0, <2>1, Zenon
  <1>2. CASE (\E b \in Batch : Emit(b)) \/ TryAppend \/ DropOldest \/ Resend
    BY <1>1, <1>2, Zenon DEF Emit, TryAppend, DropOldest, Resend
  <1>3. CASE WorkerRecv \/ PostSuccess \/ PostNonRetryable \/ PostRetryable \/ GatewayFails \/ GatewayRecovers
    BY <1>1, <1>3, Zenon DEF WorkerRecv, PostSuccess, PostNonRetryable, PostRetryable, GatewayFails, GatewayRecovers
  <1>4. CASE SweepOpen \/ TryHalfOpenLoad \/ TryHalfOpenStore
    BY <1>1, <1>4, Zenon DEF SweepOpen, TryHalfOpenLoad, TryHalfOpenStore, DrainerStep
  <1>5. CASE SweepHalfOpen \/ SweepClosed \/ DrainMore \/ ReplayNoCapacity
    <2>1. (\E t : Sweep(t) \/ DrainLoop(t)) \/ Handover(FALSE)
      BY <1>5, Zenon DEF SweepHalfOpen, SweepClosed, DrainMore, ReplayNoCapacity, DrainerStep
    <2>2. ASSUME NEW t, Sweep(t) \/ DrainLoop(t)
          PROVE  UNCHANGED <<wpc, segments>> /\ dpc' # "commit"
      <3>1. UNCHANGED <<wpc, segments>>
        BY <2>2, Zenon DEF Sweep, DrainLoop, writerVars, walVars
      <3>2. dpc' # "commit"
        BY <2>2, Zenon DEF Sweep, DrainLoop
      <3> QED
        BY <3>1, <3>2, Zenon
    <2>3. ASSUME Handover(FALSE) PROVE UNCHANGED <<wpc, segments>> /\ dpc' # "commit"
      BY <2>3, Zenon DEF Handover, writerVars, walVars
    <2> QED
      BY <1>0, <2>1, <2>2, <2>3, Zenon
  <1>6. CASE ReplaySent
    <2>1. UNCHANGED <<wpc, segments>>
      BY <1>6, Zenon DEF ReplaySent, DrainerStep, Handover, writerVars, walVars
    <2> QED
      BY <1>0, <1>6, <2>1, Zenon
  <1>7. CASE ReplayRest
    <2>1. \/ PeekLock \/ PeekEmpty \/ PeekFrame \/ PeekNothing
          \/ gc_front_consumed \/ commit_pending
      BY <1>7, Zenon DEF ReplayRest, DrainerStep
    <2>2. wpc' = wpc /\ dpc # "send" /\ (segments' # segments => dpc = "peek")
      BY <2>1, Zenon DEF PeekLock, PeekEmpty, PeekFrame, PeekNothing, gc_front_consumed, commit_pending,
         writerVars, walVars
    <2>3. ~EnforceCap
      BY <1>0, <1>c, <2>2, Zenon DEF ControlInv
    <2> QED
      BY <2>2, <2>3, Zenon
  <1>8. CASE WriterTakes
    <2>1. wpc # "cap" /\ dpc' = dpc
      BY <1>8, Zenon DEF WriterTakes, WriterStep, WriterRecv, WriterTryRecv, drainerVars
    <2> QED
      BY <1>0, <1>8, <2>1, Zenon
  <1>9. CASE WriterCommits
    <2>1. wpc = "drain" /\ wpc' = "recv" /\ dpc' = dpc
      BY <1>9, Zenon DEF WriterCommits, WriterStep, GroupCommit, drainerVars
    <2> QED
      BY <1>0, <2>1, Zenon
  <1>10. CASE WriterWorks
    <2>1. WriterLock \/ Rotate \/ WriteFrame \/ BoundBurst
      BY <1>10, Zenon DEF WriterWorks, WriterStep
    <2>2. wpc \notin {"recv", "drain"} /\ dpc' = dpc /\ (wpc = "cap" => ~OverCap)
      BY <2>1, Zenon DEF WriterLock, Rotate, WriteFrame, BoundBurst, ReadyToWrite, drainerVars
    <2> QED
      BY <1>0, <2>2, Zenon
  <1>11. CASE WriterDrops
    <2>1. wpc = "cap" /\ dpc' = dpc
      BY <1>11, Zenon DEF WriterDrops, WriterStep, EnforceCap, drainerVars
    <2> QED
      BY <1>11, <2>1, Zenon
  <1>12. CASE WriterFails
    <2>1. RotateFails \/ WriteFails
      BY <1>12, Zenon DEF WriterFails, WriterStep
    <2>2. wpc \notin {"recv", "drain"} /\ dpc' = dpc /\ (wpc = "cap" => ~OverCap)
      BY <2>1, Zenon DEF RotateFails, WriteFails, ReadyToWrite, drainerVars
    <2> QED
      BY <1>0, <2>2, Zenon
  <1>13. CASE AgentCrash \/ OrderlyStop
    <2>1. wpc' = "recv" /\ dpc' = "sweep"
      BY <1>13, Zenon DEF AgentCrash, OrderlyStop, Crash
    <2> QED
      BY <1>0, <2>1, Zenon
  <1>14. CASE Recover
    <2>1. mode = "recovering"
      BY <1>14, Zenon DEF Recover, Recovery, RecoverSegment, RecoverDrops, RecoverFinish, RecoverFails
    <2>2. wpc = "recv" /\ dpc = "sweep"
      BY <1>c, <2>1, Zenon DEF ControlInv
    <2>3. wpc' = wpc
      BY <1>14, WriterStays, Zenon DEF Recover
    <2> QED
      BY <1>0, <2>2, <2>3, Zenon
  <1> QED
    BY <1>2, <1>3, <1>4, <1>5, <1>6, <1>7, <1>8, <1>9, <1>10, <1>11, <1>12, <1>13, <1>14, Zenon DEF SpillNext

\* What the delivery path keeps of its own state in a step that is not its own.
LEMMA QuietSteps ==
  ASSUME SpillNext,
         \/ SweepOpen \/ TryHalfOpenLoad \/ TryHalfOpenStore \/ SweepHalfOpen \/ SweepClosed
         \/ DrainMore \/ ReplayNoCapacity \/ ReplayRest
         \/ WriterCommits \/ WriterWorks \/ WriterDrops \/ WriterFails
         \/ Recover \/ GatewayFails \/ GatewayRecovers
  PROVE  UNCHANGED <<retryq, appendq, hpc, hbatch, kpc, body, produced, delivered>>
         /\ lost \subseteq lost'
  <1> USE DEF queueVars, hotVars, workerVars, spillVars
  <1>1. CASE SweepOpen \/ TryHalfOpenLoad \/ TryHalfOpenStore
    BY <1>1, Zenon DEF SweepOpen, TryHalfOpenLoad, TryHalfOpenStore, DrainerStep
  <1>2. CASE SweepHalfOpen \/ SweepClosed \/ DrainMore \/ ReplayNoCapacity \/ ReplayRest
    BY <1>2, Zenon DEF SweepHalfOpen, SweepClosed, DrainMore, ReplayNoCapacity, ReplayRest, DrainerStep
  <1>3. CASE WriterCommits \/ WriterWorks \/ WriterDrops \/ WriterFails
    BY <1>3, Zenon DEF WriterCommits, WriterWorks, WriterDrops, WriterFails, WriterStep
  <1>4. CASE Recover \/ GatewayFails \/ GatewayRecovers
    BY <1>4, Zenon DEF Recover, GatewayFails, GatewayRecovers
  <1> QED
    BY <1>1, <1>2, <1>3, <1>4, Zenon

\* Queues, hot path and worker hold emitted batches, each where its control is.
LEMMA PlaceOwn ==
  ASSUME PlaceInv, SpillNext
  PROVE  /\ produced \subseteq produced'
         /\ retryq' \in Seq(produced') /\ appendq' \in Seq(produced')
         /\ IF hpc' = "idle" THEN hbatch' = NoBatch ELSE hbatch' \in produced'
         /\ IF kpc' = "recv" THEN body' = NoBatch ELSE body' \in produced'
  <1> DEFINE Goal == /\ produced \subseteq produced'
                     /\ retryq' \in Seq(produced') /\ appendq' \in Seq(produced')
                     /\ IF hpc' = "idle" THEN hbatch' = NoBatch ELSE hbatch' \in produced'
                     /\ IF kpc' = "recv" THEN body' = NoBatch ELSE body' \in produced'
  <1> SUFFICES Goal
    BY Zenon
  <1>i. /\ retryq \in Seq(produced) /\ appendq \in Seq(produced)
        /\ IF hpc = "idle" THEN hbatch = NoBatch ELSE hbatch \in produced
        /\ IF kpc = "recv" THEN body = NoBatch ELSE body \in produced
    BY Zenon DEF PlaceInv
  <1>q. /\ \A b \in produced : Append(retryq, b) \in Seq(produced) /\ Append(appendq, b) \in Seq(produced)
        /\ retryq # <<>> => Head(retryq) \in produced /\ Tail(retryq) \in Seq(produced)
        /\ appendq # <<>> => Tail(appendq) \in Seq(produced)
    BY <1>i, Queues, Zenon
  <1>1. CASE UNCHANGED <<retryq, appendq, hpc, hbatch, kpc, body, produced>>
    BY <1>i, <1>1, Zenon
  <1>2. ASSUME NEW b \in Batch, Emit(b) PROVE Goal
    <2>1. produced' = produced \cup {b} /\ UNCHANGED <<appendq, kpc, body>> /\ hpc = "idle"
      BY <1>2, Zenon DEF Emit, workerVars
    <2>2. retryq \in Seq(produced') /\ appendq' \in Seq(produced')
      BY <1>i, <2>1, Queues, Zenon
    <2>3. Append(retryq, b) \in Seq(produced')
      BY <2>1, <2>2, Queues, Zenon
    <2>4. \/ retryq' = Append(retryq, b) /\ UNCHANGED <<hpc, hbatch>>
          \/ hpc' = "spill" /\ hbatch' = b /\ UNCHANGED retryq
      BY <1>2, Zenon DEF Emit
    <2> QED
      BY <1>i, <2>1, <2>2, <2>3, <2>4, Zenon
  <1>3. CASE TryAppend
    BY <1>3, <1>i, <1>q, Zenon DEF TryAppend, workerVars
  <1>4. CASE DropOldest
    BY <1>4, <1>i, <1>q, Zenon DEF DropOldest, workerVars
  <1>5. CASE Resend
    BY <1>5, <1>i, <1>q, Zenon DEF Resend, workerVars
  <1>6. CASE WorkerRecv
    BY <1>6, <1>i, <1>q, Zenon DEF WorkerRecv, hotVars
  <1>7. CASE PostSuccess \/ PostNonRetryable
    BY <1>7, <1>i, Zenon DEF PostSuccess, PostNonRetryable, hotVars, queueVars
  <1>8. CASE PostRetryable
    BY <1>1, <1>8, Zenon DEF PostRetryable, hotVars, queueVars
  <1>9. CASE ReplaySent
    <2>1. retryq' = Append(retryq, dbatch) /\ dpc = "send"
          /\ UNCHANGED <<appendq, hpc, hbatch, kpc, body, produced>>
      BY <1>9, Zenon DEF ReplaySent, DrainerStep, Handover, hotVars, workerVars
    <2>2. dbatch \in produced
      BY <2>1, Zenon DEF PlaceInv
    <2> QED
      BY <1>i, <1>q, <2>1, <2>2, Zenon
  <1>10. CASE WriterTakes
    <2>1. appendq # <<>> /\ appendq' = Tail(appendq)
          /\ UNCHANGED <<retryq, hpc, hbatch, kpc, body, produced>>
      BY <1>10, Zenon DEF WriterTakes, WriterStep, hotVars, workerVars
    <2> QED
      BY <1>i, <1>q, <2>1, Zenon
  <1>11. CASE AgentCrash \/ OrderlyStop
    <2>1. /\ retryq' = <<>> /\ appendq' = <<>> /\ hpc' = "idle" /\ hbatch' = NoBatch
          /\ kpc' = "recv" /\ body' = NoBatch /\ produced' = produced
      BY <1>11, Zenon DEF AgentCrash, OrderlyStop, Restart
    <2> QED
      BY <2>1
  <1> QED
    BY <1>1, <1>2, <1>3, <1>4, <1>5, <1>6, <1>7, <1>8, <1>9, <1>10, <1>11, QuietSteps, Zenon DEF SpillNext

\* The whole of PlaceInv is preserved.
LEMMA PlaceStep ==
  ASSUME TypeOK, StoreInv, AgentInv, PlaceInv, SpillNext
  PROVE  PlaceInv'
  <1>1. /\ produced \subseteq produced'
        /\ retryq' \in Seq(produced') /\ appendq' \in Seq(produced')
        /\ IF hpc' = "idle" THEN hbatch' = NoBatch ELSE hbatch' \in produced'
        /\ IF kpc' = "recv" THEN body' = NoBatch ELSE body' \in produced'
    BY PlaceOwn, Zenon
  <1>2. [Next]_vars
    BY SpillStep, Zenon
  <1>3. \A s \in DOMAIN disk : \A f \in disk[s].frames : f.batch \in produced
    BY Zenon DEF PlaceInv
  <1>4. IF wpc' \in {"lock", "cap", "write"} THEN wbatch' \in produced' ELSE wbatch' = NoBatch
    <2>1. ASSUME NEW b \in Batch, WriterRecv(b) \/ WriterTryRecv(b)
          PROVE  wpc' \in {"lock", "cap"} /\ wbatch' \in produced'
      <3>1. wpc \in {"recv", "drain"} /\ wpc' \in {"lock", "cap"}
        BY <2>1, Zenon DEF WriterRecv, WriterTryRecv
      <3>2. appendq # <<>> /\ (WriterRecv(Head(appendq)) \/ WriterTryRecv(Head(appendq)))
        BY <3>1, WhoActs, Zenon DEF WriterTakes, WriterStep
      <3>3. wbatch' = Head(appendq)
        BY <3>2, Zenon DEF WriterRecv, WriterTryRecv
      <3>4. Head(appendq) \in produced
        BY <3>2, Queues, Zenon DEF PlaceInv
      <3> QED
        BY <1>1, <3>1, <3>3, <3>4, Zenon
    <2>2. IF wpc \in {"lock", "cap", "write"} THEN wbatch \in produced ELSE wbatch = NoBatch
      BY Zenon DEF PlaceInv
    <2>3. \/ UNCHANGED <<wpc, wbatch>>
          \/ wbatch' = wbatch /\ (wpc \in {"lock", "cap", "write"} <=> wpc' \in {"lock", "cap", "write"})
          \/ wbatch' = NoBatch /\ wpc' \notin {"lock", "cap", "write"}
          \/ \E b \in Batch : WriterRecv(b) \/ WriterTryRecv(b)
      BY <1>2, Hands, Zenon
    <2> QED
      BY <1>1, <2>1, <2>2, <2>3, Zenon
  <1>5. dpc' = "send" => dbatch' \in produced'
    <2>1. \/ dpc' # "send"
          \/ UNCHANGED <<dpc, dbatch>>
          \/ \E s \in DOMAIN disk : \E f \in disk[s].frames : dbatch' = f.batch
      BY <1>2, Hands, Zenon
    <2> QED
      BY <1>1, <1>3, <2>1, Zenon DEF PlaceInv
  <1>6. ASSUME NEW s \in DOMAIN disk', NEW f \in disk'[s].frames PROVE f.batch \in produced'
    <2>1. CASE WriteFrame /\ f.batch = wbatch
      <3>1. wpc \in {"cap", "write"}
        BY <2>1, Zenon DEF WriteFrame, ReadyToWrite
      <3> QED
        BY <1>1, <2>1, <3>1, Zenon DEF PlaceInv
    <2>2. CASE s \in DOMAIN disk /\ f \in disk[s].frames
      BY <1>1, <1>3, <2>2, Zenon
    <2> QED
      BY <1>2, <2>1, <2>2, NewFrames, Zenon
  <1> QED
    BY <1>1, <1>4, <1>5, <1>6, Zenon DEF PlaceInv

\* The sets that record an outcome only grow.
LEMMA HistoryGrows ==
  ASSUME SpillNext
  PROVE  delivered \subseteq delivered' /\ lost \subseteq lost' /\ replayed \subseteq replayed'
  <1>1. replayed \subseteq replayed'
    BY Zenon DEF SpillNext, History
  <1>2. CASE (\E b \in Batch : Emit(b)) \/ TryAppend \/ DropOldest \/ Resend
    BY <1>1, <1>2, Zenon DEF Emit, TryAppend, DropOldest, Resend, workerVars
  <1>3. CASE WorkerRecv \/ PostSuccess \/ PostNonRetryable \/ PostRetryable
    BY <1>1, <1>3, Zenon DEF WorkerRecv, PostSuccess, PostNonRetryable, PostRetryable
  <1>4. CASE ReplaySent
    BY <1>1, <1>4, Zenon DEF ReplaySent, DrainerStep, workerVars
  <1>5. CASE WriterTakes
    BY <1>1, <1>5, Zenon DEF WriterTakes, WriterStep, workerVars
  <1>6. CASE AgentCrash \/ OrderlyStop
    BY <1>1, <1>6, Zenon DEF AgentCrash, OrderlyStop, Restart
  <1> QED
    BY <1>1, <1>2, <1>3, <1>4, <1>5, <1>6, QuietSteps, Zenon DEF SpillNext

\* Between the retry queue, the worker's hands and the outcome no batch is dropped.
LEMMA SentKept ==
  ASSUME PlaceInv, SpillNext, crashes' = crashes, crashes \in Nat, NEW b \in Batch, Sent(b)
  PROVE  Sent(b)'
  <1>g. delivered \subseteq delivered' /\ lost \subseteq lost'
    BY HistoryGrows, Zenon
  <1>n. b # NoBatch
    BY WalConfigAssumption, Zenon
  <1>i. retryq \in Seq(produced) /\ (kpc = "recv" => body = NoBatch)
    BY Zenon DEF PlaceInv
  <1>q. /\ \A c \in produced : Range(Append(retryq, c)) = Range(retryq) \cup {c}
        /\ retryq # <<>> => Range(retryq) \subseteq Range(Tail(retryq)) \cup {Head(retryq)}
    BY <1>i, Queues, Zenon
  <1>1. CASE UNCHANGED <<retryq, body>>
    BY <1>1, <1>g, Zenon DEF Sent
  <1>2. CASE UNCHANGED body /\ Range(retryq) \subseteq Range(retryq')
    BY <1>2, <1>g, Zenon DEF Sent
  <1>3. ASSUME NEW c \in Batch, Emit(c) PROVE Sent(b)'
    <2>1. UNCHANGED body /\ (retryq' = retryq \/ retryq' = Append(retryq, c))
      BY <1>3, Zenon DEF Emit, workerVars
    <2>2. retryq \in Seq(produced \cup {c})
      BY <1>i, Queues, Zenon
    <2>3. Range(Append(retryq, c)) = Range(retryq) \cup {c}
      BY <2>2, Queues
    <2> QED
      BY <1>2, <2>1, <2>3, Zenon
  <1>4. CASE TryAppend
    BY <1>1, <1>4, Zenon DEF TryAppend, workerVars
  <1>5. CASE DropOldest
    <2>1. /\ UNCHANGED body
          /\ \/ UNCHANGED retryq
             \/ retryq # <<>> /\ retryq' = Tail(retryq) /\ lost' = lost \cup {Head(retryq)}
      BY <1>5, Zenon DEF DropOldest, workerVars
    <2> QED
      BY <1>1, <1>g, <1>q, <2>1, Zenon DEF Sent
  <1>6. CASE Resend
    <2>1. UNCHANGED body /\ (retryq' = retryq \/ retryq' = Append(retryq, hbatch)) /\ hpc = "resend"
      BY <1>6, Zenon DEF Resend, workerVars
    <2>2. hbatch \in produced
      BY <2>1, Zenon DEF PlaceInv
    <2> QED
      BY <1>2, <1>q, <2>1, <2>2, Zenon
  <1>7. CASE WorkerRecv
    <2>1. body = NoBatch /\ retryq # <<>> /\ body' = Head(retryq) /\ retryq' = Tail(retryq)
      BY <1>7, <1>i, Zenon DEF WorkerRecv
    <2> QED
      BY <1>g, <1>n, <1>q, <2>1, Zenon DEF Sent
  <1>8. CASE PostSuccess \/ PostNonRetryable
    <2>1. UNCHANGED retryq /\ (body \in delivered' \/ body \in lost')
      BY <1>8, Zenon DEF PostSuccess, PostNonRetryable, queueVars
    <2> QED
      BY <1>g, <2>1, Zenon DEF Sent
  <1>9. CASE PostRetryable
    BY <1>1, <1>9, Zenon DEF PostRetryable, queueVars
  <1>10. CASE ReplaySent
    <2>1. UNCHANGED body /\ retryq' = Append(retryq, dbatch) /\ dpc = "send"
      BY <1>10, Zenon DEF ReplaySent, DrainerStep, Handover, workerVars
    <2>2. dbatch \in produced
      BY <2>1, Zenon DEF PlaceInv
    <2> QED
      BY <1>2, <1>q, <2>1, <2>2, Zenon
  <1>11. CASE WriterTakes
    BY <1>1, <1>11, Zenon DEF WriterTakes, WriterStep, workerVars
  <1>12. CASE AgentCrash \/ OrderlyStop
    <2>1. crashes' = crashes + 1
      BY <1>12, Zenon DEF AgentCrash, OrderlyStop, Crash
    <2> QED
      BY <2>1
  <1> QED
    BY <1>1, <1>3, <1>4, <1>5, <1>6, <1>7, <1>8, <1>9, <1>10, <1>11, <1>12, QuietSteps, Zenon DEF SpillNext

\* HandInv is preserved: in the commit window the frame at the cursor is the one
\* that ReplaySent put into the retry queue, also when the writer appends or drops
\* a segment meanwhile.
LEMMA HandStep ==
  ASSUME TypeOK, TypeOK', StoreInv, StoreInv', AgentInv, PlaceInv, PlaceInv', HandInv, SpillNext
  PROVE  HandInv'
  <1>n. [Next]_vars
    BY SpillStep, Zenon
  <1> SUFFICES ASSUME pending_advance' # None, NEW f \in disk'[read_seq'].frames, f.off = read_offset'
               PROVE  /\ dpc' = "send" => f.batch = dbatch'
                      /\ dpc' = "commit" => f.batch \in replayed' /\ (crashes' = 0 => Sent(f.batch)')
    BY Zenon DEF HandInv, Sent
  <1>1. CASE PeekFrame
    <2>1. dpc' = "send" /\ disk' = disk /\ segments' = segments /\ segments # <<>>
          /\ read_seq' = PeekSeq /\ read_offset' = PeekOffset
      BY <1>1, Zenon DEF PeekFrame
    <2>2. PICK g \in read_frame_at(disk[PeekSeq], PeekOffset) : dbatch' = g.batch
      BY <1>1, Zenon DEF PeekFrame
    <2>3. g \in disk[PeekSeq].frames /\ g.off = PeekOffset /\ f \in disk[PeekSeq].frames /\ f.off = g.off
      BY <2>1, <2>2, Zenon DEF read_frame_at
    <2>4. PeekSeq \in DOMAIN disk
      BY <2>1, PeekSegment, Zenon DEF StoreInv, DiskInv
    <2>5. f = g \/ End(f) <= g.off \/ End(g) <= f.off
      BY <2>3, <2>4, Zenon DEF StoreInv, DiskInv, FileOK
    <2>6. f.off < End(f) /\ g.off < End(g) /\ f.off \in Nat /\ g.off \in Nat /\ End(f) \in Nat /\ End(g) \in Nat
      BY <2>3, <2>4, FrameType DEF FRAME_HEADER_LEN
    <2>7. f = g
      BY <2>3, <2>5, <2>6
    <2> QED
      BY <2>1, <2>2, <2>7, Zenon
  <1>2. CASE ~PeekFrame /\ dpc' \in {"send", "commit"}
    <2>1. /\ pending_advance # None /\ read_seq' = read_seq /\ read_offset' = read_offset
          /\ UNCHANGED <<dpc, dbatch>> \/ (dpc = "send" /\ dpc' = "commit")
          /\ \A h \in disk'[read_seq].frames : h.off = read_offset => h \in disk[read_seq].frames
      BY <1>2, <1>n, CursorFrame, Zenon
    <2>2. f \in disk[read_seq].frames /\ f.off = read_offset
      BY <2>1, Zenon
    <2>3. /\ dpc = "send" => f.batch = dbatch
          /\ dpc = "commit" => f.batch \in replayed /\ (crashes = 0 => Sent(f.batch))
      BY <2>1, <2>2, Zenon DEF HandInv
    <2>4. CASE UNCHANGED <<dpc, dbatch>>
      <3>1. replayed \subseteq replayed'
        BY HistoryGrows, Zenon
      <3>2. ASSUME dpc = "commit", crashes' = 0 PROVE Sent(f.batch)'
        <4>1. crashes' = crashes /\ crashes \in Nat
          BY <1>n, <3>2, CrashCount, Zenon
        <4>2. f.batch \in Batch
          BY <2>1, <2>2, PendingSegment, FrameType, Zenon
        <4>3. PICK b : b = f.batch
          BY Zenon
        <4>4. Sent(b)'
          BY <2>3, <3>2, <4>1, <4>2, <4>3, SentKept, Zenon
        <4> QED
          BY <4>3, <4>4, Zenon
      <3> QED
        BY <2>3, <2>4, <3>1, <3>2, Zenon
    <2>5. CASE dpc = "send" /\ dpc' = "commit"
      <3>1. retryq' = Append(retryq, dbatch)
        BY <2>5, WhoActs, Zenon DEF ReplaySent, DrainerStep
      <3>2. retryq \in Seq(produced) /\ dbatch \in produced
        BY <2>5, Zenon DEF PlaceInv
      <3>3. dbatch \in Range(retryq')
        BY <3>1, <3>2, Queues
      <3>4. dbatch \in replayed'
        BY <2>5, Zenon DEF SpillNext, History
      <3> QED
        BY <2>3, <2>5, <3>3, <3>4, Zenon DEF Sent
    <2> QED
      BY <2>1, <2>4, <2>5, Zenon
  <1> QED
    BY <1>1, <1>2, Zenon

\* The agent's reasons for a frame to leave the backlog leave its batch replayed or
\* reported, unless the process is recovering.
LEMMA LeavesReported ==
  ASSUME TypeOK, TypeOK', StoreInv, HandInv, SpillNext, [Next]_vars,
         NEW s, NEW f, Owed(s, f), ~Owed(s, f)'
  PROVE  \/ /\ commit_pending /\ f.batch \in replayed /\ (crashes = 0 => Sent(f.batch))
         \/ EnforceCap /\ s = Oldest.seq /\ f.batch \in lost'
         \/ "recovering" \in {mode, mode'} /\ (f.off >= disk[s].synced \/ errors' > errors)
  <1>1. Reason(s, f)
    BY LossStep, Zenon
  <1>2. CASE commit_pending /\ pending_advance # None /\ s = read_seq /\ f.off = read_offset
    <2>1. dpc = "commit" /\ f \in disk[read_seq].frames
      BY <1>2, Zenon DEF commit_pending, Owed
    <2> QED
      BY <1>2, <2>1, Zenon DEF HandInv
  <1>3. CASE EnforceCap /\ s = Oldest.seq
    <2>1. lost' = lost \cup {x[2].batch : x \in {y \in Backlog : y[1] = Oldest.seq}}
      BY <1>3, WhoActs, Zenon DEF WriterDrops, WriterStep
    <2>2. PICK p : p = <<s, f>>
      BY Zenon
    <2>3. p \in Backlog /\ p[1] = Oldest.seq /\ p[2].batch = f.batch
      BY <1>3, <2>2, BacklogOwed, Zenon
    <2> QED
      BY <1>3, <2>1, <2>3, Zenon
  <1> QED
    BY <1>1, <1>2, <1>3, Zenon DEF Reason

\* A frame that is not owed any more was replayed.
LEMMA ConsumedStep ==
  ASSUME TypeOK, TypeOK', StoreInv, StoreInv', AgentInv, HandInv, ConsumedInv, SpillNext
  PROVE  ConsumedInv'
  <1>n. [Next]_vars
    BY SpillStep, Zenon
  <1>g. replayed \subseteq replayed'
    BY HistoryGrows, Zenon
  <1>1. ASSUME errors' = 0 PROVE DOMAIN disk' \subseteq (Seqs \cup found)'
    BY <1>1, <1>n, FilesKnown, Zenon DEF ConsumedInv
  <1>2. ASSUME NEW s \in (Seqs \cup found)', NEW f \in disk'[s].frames
        PROVE  Owed(s, f)' \/ f.batch \in replayed'
    <2>0. s \in DOMAIN disk'
      BY <1>2, Zenon DEF Seqs, TypeOK, StoreInv, DiskInv
    <2>1. CASE read_offset' = SEGMENT_HEADER_LEN
      <3>1. (TypeOK /\ StoreInv /\ read_offset = SEGMENT_HEADER_LEN => AllOwed)'
        BY StartOwed, PTL
      <3> QED
        BY <1>2, <2>1, <3>1, Zenon DEF AllOwed
    <2>2. CASE WriteFrame /\ s = active.seq /\ f.off = active.offset
      BY <2>2, AppendOwed, Zenon
    <2>3. CASE /\ read_offset' # SEGMENT_HEADER_LEN
               /\ s \in DOMAIN disk /\ f \in disk[s].frames
      <3>1. mode = "up" /\ mode' = "up"
        BY <1>n, <2>3, RecoveringAtStart, Zenon
      <3>2. s \in Seqs \cup found
        BY <1>n, <2>0, <2>3, <3>1, KnownBefore, Zenon
      <3>3. CASE ~Owed(s, f)
        BY <1>g, <2>3, <3>2, <3>3, Zenon DEF ConsumedInv
      <3>4. CASE Owed(s, f) /\ ~Owed(s, f)'
        <4>1. \/ f.batch \in replayed
              \/ EnforceCap /\ s = Oldest.seq
              \/ "recovering" \in {mode, mode'}
          BY <1>n, <3>4, LeavesReported, Zenon
        <4>2. ~(EnforceCap /\ s = Oldest.seq)
          BY <2>0, Zenon DEF EnforceCap
        <4> QED
          BY <1>g, <3>1, <4>1, <4>2, Zenon
      <3> QED
        BY <3>3, <3>4, Zenon
    <2> QED
      BY <1>n, <2>0, <2>1, <2>2, <2>3, NewFrames, Zenon
  <1> QED
    BY <1>1, <1>2, Zenon DEF ConsumedInv

\* A batch that was on stable storage is replayed, reported or owed, across crashes.
LEMMA KeptStep ==
  ASSUME TypeOK, TypeOK', StoreInv, StoreInv', AgentInv, HandInv, ConsumedInv', DurableKept, SpillNext
  PROVE  DurableKept'
  <1>n. [Next]_vars
    BY SpillStep, Zenon
  <1>g. replayed \subseteq replayed' /\ lost \subseteq lost'
    BY HistoryGrows, Zenon
  <1> SUFFICES ASSUME errors' = 0, NEW b \in durable'
               PROVE  b \in replayed' \/ b \in lost' \/ SyncedOwed(b)'
    BY Zenon DEF DurableKept
  <1>e. errors = 0
    BY <1>n, ErrorCount
  <1>1. b \in durable \/ b \in SyncedBatches'
    BY Zenon DEF SpillNext, History
  <1>2. CASE b \in durable
    <2>1. b \in replayed \cup lost \/ SyncedOwed(b)
      BY <1>2, <1>e, Zenon DEF DurableKept
    <2>2. ASSUME NEW s, NEW f, Owed(s, f), f.batch = b, f.off < disk[s].synced
          PROVE  b \in replayed' \/ b \in lost' \/ SyncedOwed(b)'
      <3>1. s \in DOMAIN disk /\ f \in disk[s].frames
        BY <2>2, Zenon DEF Owed, Seqs, TypeOK, StoreInv, DiskInv
      <3>2. CASE Owed(s, f)'
        <4>1. s \in DOMAIN disk'
          BY <3>2, Zenon DEF Owed, Seqs, TypeOK, StoreInv, DiskInv
        <4>2. disk[s].synced \in Nat /\ disk'[s].synced \in Nat /\ disk[s].synced <= disk'[s].synced
          BY <1>n, <3>1, <4>1, SyncedKept, Zenon
        <4>3. f.off \in Nat
          BY <3>1, FrameType, Zenon
        <4>4. f.off < disk'[s].synced
          <5>1. \A x, y, z \in Nat : x < y /\ y <= z => x < z
            BY ONLY TRUE
          <5> QED
            BY <2>2, <4>2, <4>3, <5>1, Zenon
        <4> QED
          BY <2>2, <3>2, <4>4, Zenon DEF SyncedOwed
      <3>3. CASE ~Owed(s, f)'
        <4>1. \/ f.batch \in replayed
              \/ f.batch \in lost'
              \/ f.off >= disk[s].synced \/ errors' > errors
          BY <1>n, <2>2, <3>3, LeavesReported, Zenon
        <4>2. f.off \in Nat /\ disk[s].synced \in Nat
          BY <3>1, FrameType, Zenon DEF TypeOK, File
        <4>3. ~(f.off >= disk[s].synced \/ errors' > errors)
          BY <1>e, <2>2, <4>2
        <4> QED
          BY <1>g, <2>2, <4>1, <4>3, Zenon
      <3> QED
        BY <3>2, <3>3, Zenon
    <2>3. CASE SyncedOwed(b)
      <3>1. PICK s, f : Owed(s, f) /\ f.batch = b /\ f.off < disk[s].synced
        BY <2>3, Zenon DEF SyncedOwed
      <3> QED
        BY <2>2, <3>1, Zenon
    <2> QED
      BY <1>g, <2>1, <2>3, Zenon
  <1>3. CASE b \in SyncedBatches'
    <2>1. PICK s \in DOMAIN disk' : \E f \in disk'[s].frames : f.batch = b /\ f.off < disk'[s].synced
      BY <1>3, Zenon DEF SyncedBatches
    <2>2. PICK f \in disk'[s].frames : f.batch = b /\ f.off < disk'[s].synced
      BY <2>1, Zenon
    <2>3. s \in (Seqs \cup found)'
      BY Zenon DEF ConsumedInv
    <2>4. Owed(s, f)' \/ f.batch \in replayed'
      BY <2>3, Zenon DEF ConsumedInv
    <2> QED
      BY <2>2, <2>4, Zenon DEF SyncedOwed
  <1> QED
    BY <1>1, <1>2, <1>3, Zenon

\* A batch is new only when the hot path emits it.
LEMMA NewlyEmitted ==
  ASSUME SpillNext, produced' # produced
  PROVE  \E b \in Batch : Emit(b)
  <1>1. CASE TryAppend \/ DropOldest \/ Resend
    BY <1>1, Zenon DEF TryAppend, DropOldest, Resend
  <1>2. CASE WorkerRecv \/ PostSuccess \/ PostNonRetryable \/ PostRetryable
    BY <1>2, Zenon DEF WorkerRecv, PostSuccess, PostNonRetryable, PostRetryable, hotVars
  <1>3. CASE ReplaySent \/ WriterTakes
    BY <1>3, Zenon DEF ReplaySent, DrainerStep, WriterTakes, WriterStep, hotVars
  <1>4. CASE AgentCrash \/ OrderlyStop
    BY <1>4, Zenon DEF AgentCrash, OrderlyStop, Restart
  <1> QED
    BY <1>1, <1>2, <1>3, <1>4, QuietSteps, Zenon DEF SpillNext

\* The hot path lets go of a batch only to a queue or to a report.
LEMMA HotKept ==
  ASSUME PlaceInv, SpillNext, crashes' = crashes, crashes \in Nat, hbatch # NoBatch
  PROVE  hbatch' = hbatch \/ hbatch \in Range(appendq') \/ hbatch \in Range(retryq') \/ hbatch \in lost'
  <1>i. retryq \in Seq(produced) /\ appendq \in Seq(produced) /\ hpc # "idle" /\ hbatch \in produced
    BY Zenon DEF PlaceInv
  <1>q. hbatch \in Range(Append(retryq, hbatch)) /\ hbatch \in Range(Append(appendq, hbatch))
    BY <1>i, Queues
  <1>1. CASE \E b \in Batch : Emit(b)
    BY <1>1, <1>i, Zenon DEF Emit
  <1>2. CASE TryAppend
    BY <1>2, <1>q, Zenon DEF TryAppend
  <1>3. CASE DropOldest
    BY <1>3, Zenon DEF DropOldest
  <1>4. CASE Resend
    BY <1>4, <1>q, Zenon DEF Resend
  <1>5. CASE WorkerRecv \/ PostSuccess \/ PostNonRetryable \/ PostRetryable
    BY <1>5, Zenon DEF WorkerRecv, PostSuccess, PostNonRetryable, PostRetryable, hotVars
  <1>6. CASE ReplaySent \/ WriterTakes
    BY <1>6, Zenon DEF ReplaySent, DrainerStep, WriterTakes, WriterStep, hotVars
  <1>7. CASE AgentCrash \/ OrderlyStop
    <2>1. crashes' = crashes + 1
      BY <1>7, Zenon DEF AgentCrash, OrderlyStop, Crash
    <2> QED
      BY <2>1
  <1> QED
    BY <1>1, <1>2, <1>3, <1>4, <1>5, <1>6, <1>7, QuietSteps, Zenon DEF SpillNext

\* The append channel lets go of a batch only to the writer thread.
LEMMA QueueKept ==
  ASSUME PlaceInv, SpillNext, crashes' = crashes, crashes \in Nat, NEW b \in Range(appendq)
  PROVE  b \in Range(appendq') \/ b = wbatch'
  <1>i. appendq \in Seq(produced)
    BY Zenon DEF PlaceInv
  <1>1. CASE appendq' = appendq
    BY <1>1, Zenon
  <1>2. CASE (\E c \in Batch : Emit(c)) \/ DropOldest \/ Resend
    BY <1>1, <1>2, Zenon DEF Emit, DropOldest, Resend
  <1>3. CASE TryAppend
    <2>1. hbatch \in produced
      BY <1>3, Zenon DEF TryAppend, PlaceInv
    <2>2. Range(Append(appendq, hbatch)) = Range(appendq) \cup {hbatch}
      BY <1>i, <2>1, Queues, Zenon
    <2>3. appendq' = appendq \/ appendq' = Append(appendq, hbatch)
      BY <1>3, Zenon DEF TryAppend
    <2> QED
      BY <1>1, <2>2, <2>3, Zenon
  <1>4. CASE WorkerRecv \/ PostSuccess \/ PostNonRetryable \/ PostRetryable
    BY <1>1, <1>4, Zenon DEF WorkerRecv, PostSuccess, PostNonRetryable, PostRetryable, queueVars
  <1>5. CASE ReplaySent
    BY <1>1, <1>5, Zenon DEF ReplaySent, DrainerStep
  <1>6. CASE WriterTakes
    <2>1. appendq # <<>> /\ appendq' = Tail(appendq)
          /\ (WriterRecv(Head(appendq)) \/ WriterTryRecv(Head(appendq)))
      BY <1>6, Zenon DEF WriterTakes, WriterStep
    <2>2. wbatch' = Head(appendq)
      BY <2>1, Zenon DEF WriterRecv, WriterTryRecv
    <2>3. Range(appendq) \subseteq Range(Tail(appendq)) \cup {Head(appendq)}
      BY <1>i, <2>1, Queues, Zenon
    <2> QED
      BY <2>1, <2>2, <2>3, Zenon
  <1>7. CASE AgentCrash \/ OrderlyStop
    <2>1. crashes' = crashes + 1
      BY <1>7, Zenon DEF AgentCrash, OrderlyStop, Crash
    <2> QED
      BY <2>1
  <1> QED
    BY <1>1, <1>2, <1>3, <1>4, <1>5, <1>6, <1>7, QuietSteps, Zenon DEF SpillNext

\* The writer thread lets go of a batch only to the log or to a report.
LEMMA WriterKept ==
  ASSUME TypeOK, StoreInv, AgentInv, PlaceInv, SpillNext, crashes' = crashes, crashes \in Nat,
         wbatch # NoBatch
  PROVE  wbatch' = wbatch \/ wbatch \in lost' \/ \E s, f : Owed(s, f)' /\ f.batch = wbatch
  <1>i. wpc \in {"lock", "cap", "write"}
    BY Zenon DEF PlaceInv
  <1>1. CASE wbatch' = wbatch
    BY <1>1, Zenon
  <1>2. CASE WriterTakes
    BY <1>2, <1>i, Zenon DEF WriterTakes, WriterStep, WriterRecv, WriterTryRecv
  <1>3. CASE WriterCommits \/ WriterDrops
    BY <1>1, <1>3, Zenon DEF WriterCommits, WriterDrops, WriterStep, GroupCommit, EnforceCap, writerVars
  <1>4. CASE WriterWorks
    <2>1. CASE WriterLock \/ Rotate \/ BoundBurst
      BY <1>1, <2>1, Zenon DEF WriterLock, Rotate, BoundBurst
    <2>2. CASE WriteFrame
      <3> DEFINE g == [off |-> active.offset, batch |-> wbatch, batch_seq |-> next_batch_seq]
      <3>1. disk'[active.seq].frames = disk[active.seq].frames \cup {g}
        BY <2>2, WriteEffect, Zenon
      <3>2. g.off = active.offset /\ g.batch = wbatch
        BY Zenon
      <3> HIDE DEF g
      <3>3. PICK s : s = active.seq
        BY Zenon
      <3>4. PICK f : f = g
        BY Zenon
      <3>5. f \in disk'[s].frames /\ f.off = active.offset /\ f.batch = wbatch
        BY <3>1, <3>2, <3>3, <3>4, Zenon
      <3>6. Owed(s, f)'
        BY <2>2, <3>3, <3>5, AppendOwed, Zenon
      <3> QED
        BY <3>5, <3>6, Zenon
    <2> QED
      BY <1>4, <2>1, <2>2, Zenon DEF WriterWorks, WriterStep
  <1>5. CASE WriterFails
    BY <1>5, Zenon DEF WriterFails, WriterStep
  <1>6. CASE UNCHANGED vars
    BY <1>1, <1>6, Zenon DEF vars, writerVars
  <1>7. CASE (\E b \in Batch : Emit(b)) \/ TryAppend \/ DropOldest \/ Resend
    BY <1>6, <1>7, Zenon DEF Emit, TryAppend, DropOldest, Resend
  <1>8. CASE WorkerRecv \/ PostSuccess \/ PostNonRetryable \/ PostRetryable \/ GatewayFails \/ GatewayRecovers
    BY <1>6, <1>8, Zenon DEF WorkerRecv, PostSuccess, PostNonRetryable, PostRetryable, GatewayFails, GatewayRecovers
  <1>9. CASE SweepOpen \/ TryHalfOpenLoad \/ TryHalfOpenStore
    BY <1>6, <1>9, Zenon DEF SweepOpen, TryHalfOpenLoad, TryHalfOpenStore, DrainerStep
  <1>10. CASE SweepHalfOpen \/ SweepClosed \/ DrainMore \/ ReplaySent \/ ReplayNoCapacity
    <2>1. \E t : Sweep(t) \/ DrainLoop(t) \/ Handover(t)
      BY <1>10, Zenon DEF SweepHalfOpen, SweepClosed, DrainMore, ReplaySent, ReplayNoCapacity, DrainerStep
    <2>2. UNCHANGED writerVars
      BY <2>1, Zenon DEF Sweep, DrainLoop, Handover
    <2> QED
      BY <1>1, <2>2, Zenon DEF writerVars
  <1>11. CASE ReplayRest
    BY <1>1, <1>11, Zenon DEF ReplayRest, DrainerStep, PeekLock, PeekEmpty, PeekFrame, PeekNothing,
       gc_front_consumed, commit_pending, writerVars
  <1>12. CASE AgentCrash \/ OrderlyStop
    <2>1. crashes' = crashes + 1
      BY <1>12, Zenon DEF AgentCrash, OrderlyStop, Crash
    <2> QED
      BY <2>1
  <1>13. CASE Recover
    BY <1>1, <1>13, Zenon DEF Recover, Recovery, RecoverSegment, RecoverDrops, RecoverFinish, RecoverFails,
       writerVars
  <1> QED
    BY <1>2, <1>3, <1>4, <1>5, <1>7, <1>8, <1>9, <1>10, <1>11, <1>12, <1>13, Zenon DEF SpillNext

\* Accounted is preserved: every batch goes from one holder to the next.
LEMMA AccountedStep ==
  ASSUME TypeOK, TypeOK', StoreInv, AgentInv, PlaceInv, PlaceInv', HandInv, Accounted, SpillNext,
         produced \subseteq Batch
  PROVE  Accounted'
  <1>n. [Next]_vars
    BY SpillStep, Zenon
  <1> DEFINE Kept(b) == b \in Held' \/ b \in delivered' \/ b \in lost'
  <1> SUFFICES ASSUME crashes' = 0, NEW b \in produced' PROVE Kept(b)
    BY Zenon DEF Accounted
  <1>c. crashes = 0 /\ crashes' = crashes /\ crashes \in Nat /\ mode = "up"
    BY <1>n, CrashCount DEF StoreInv, ControlInv
  <1>g. delivered \subseteq delivered' /\ lost \subseteq lost'
    BY HistoryGrows, Zenon
  <1>h. Held' = (InMemory \cup OnDiskBacklog)'
    BY Zenon DEF Held
  <1>1. ASSUME b \in Batch, Sent(b)' PROVE Kept(b)
    <2>1. b # NoBatch
      BY <1>1, WalConfigAssumption, Zenon
    <2> QED
      BY <1>1, <1>h, <2>1, Zenon DEF Sent, InMemory
  <1>2. ASSUME NEW s, NEW f, Owed(s, f)', f.batch = b PROVE Kept(b)
    <2>1. <<s, f>> \in Backlog'
      BY <1>2, BacklogOwed, Zenon
    <2>2. <<s, f>>[2] = f
      BY Zenon
    <2>3. b \in OnDiskBacklog'
      BY <1>2, <2>1, <2>2, Zenon DEF OnDiskBacklog
    <2> QED
      BY <1>h, <2>3, Zenon
  <1>3. CASE b \notin produced
    <2>1. PICK c \in Batch : Emit(c)
      BY <1>3, NewlyEmitted, Zenon
    <2>2. b = c
      BY <1>3, <2>1, Zenon DEF Emit
    <2>3. retryq' = Append(retryq, c) \/ hbatch' = c
      BY <2>1, Zenon DEF Emit
    <2>4. retryq \in Seq(produced \cup {c})
      BY Queues, Zenon DEF PlaceInv
    <2>5. Range(Append(retryq, c)) = Range(retryq) \cup {c}
      BY <2>4, Queues
    <2>e. b \in Range(retryq') \/ b = hbatch'
      BY <2>2, <2>3, <2>5, Zenon
    <2>6. b # NoBatch
      BY <2>2, WalConfigAssumption, Zenon
    <2> QED
      BY <1>h, <2>e, <2>6, Zenon DEF InMemory
  <1>4. CASE b \in produced
    <2>0. b \in Batch /\ b # NoBatch
      BY <1>4, WalConfigAssumption, Zenon
    <2>1. b \in InMemory \/ b \in OnDiskBacklog \/ b \in delivered \/ b \in lost
      BY <1>4, <1>c, Zenon DEF Accounted, Held
    <2>2. CASE Sent(b)
      BY <1>1, <1>c, <2>0, <2>2, SentKept, Zenon
    <2>3. CASE b = hbatch
      <3>1. b = hbatch' \/ b \in Range(appendq') \/ b \in Range(retryq') \/ b \in lost'
        BY <1>c, <2>0, <2>3, HotKept, Zenon
      <3> QED
        BY <1>h, <2>0, <3>1, Zenon DEF InMemory
    <2>4. CASE b \in Range(appendq)
      <3>1. b \in Range(appendq') \/ b = wbatch'
        BY <1>c, <2>0, <2>4, QueueKept, Zenon
      <3> QED
        BY <1>h, <2>0, <3>1, Zenon DEF InMemory
    <2>5. CASE b = wbatch
      <3>1. b = wbatch' \/ b \in lost' \/ \E s, f : Owed(s, f)' /\ f.batch = b
        BY <1>n, <1>c, <2>0, <2>5, WriterKept, Zenon
      <3> QED
        BY <1>2, <1>h, <2>0, <3>1, Zenon DEF InMemory
    <2>6. CASE b \in OnDiskBacklog
      <3>1. PICK x \in Backlog : b = x[2].batch
        BY <2>6, Zenon DEF OnDiskBacklog
      <3>2. PICK s, f : x = <<s, f>> /\ Owed(s, f)
        BY BacklogOwed, Zenon
      <3>3. f.batch = b
        BY <3>1, <3>2, Zenon
      <3>4. CASE Owed(s, f)'
        BY <1>2, <3>3, <3>4, Zenon
      <3>5. CASE ~Owed(s, f)'
        <4>1. (crashes = 0 => Sent(f.batch)) \/ f.batch \in lost' \/ "recovering" \in {mode, mode'}
          BY <1>n, <3>2, <3>5, LeavesReported, Zenon
        <4>2. mode' # "recovering"
          BY <1>n, <1>c, OnlyCrashRecovers, Zenon
        <4>3. Sent(b) \/ b \in lost'
          BY <1>c, <3>3, <4>1, <4>2, Zenon
        <4> QED
          BY <1>g, <2>2, <4>3, Zenon
      <3> QED
        BY <3>4, <3>5, Zenon
    <2> QED
      BY <1>g, <2>0, <2>1, <2>2, <2>3, <2>4, <2>5, <2>6, Zenon DEF InMemory, Sent
  <1> QED
    BY <1>3, <1>4, Zenon

\* The queues stay within their capacities.
LEMMA QueueBounds ==
  ASSUME PlaceInv, SpillNext, Len(retryq) <= RetryCap, Len(appendq) <= AppendCap
  PROVE  Len(retryq') <= RetryCap /\ Len(appendq') <= AppendCap
  <1>c. RetryCap \in Nat /\ AppendCap \in Nat
    BY SpillwayAssumption, Zenon
  <1>i. /\ retryq \in Seq(produced) /\ appendq \in Seq(produced)
        /\ Len(retryq) \in Nat /\ Len(appendq) \in Nat
    BY DEF PlaceInv
  <1>q. /\ \A b : Len(Append(retryq, b)) = Len(retryq) + 1 /\ Len(Append(appendq, b)) = Len(appendq) + 1
        /\ retryq # <<>> => Len(Tail(retryq)) = Len(retryq) - 1
        /\ appendq # <<>> => Len(Tail(appendq)) = Len(appendq) - 1
    BY <1>i
  <1>1. CASE UNCHANGED <<retryq, appendq>>
    BY <1>1, Zenon
  <1>2. CASE (\E b \in Batch : Emit(b)) \/ Resend
    <2>1. UNCHANGED appendq
      BY <1>2, Zenon DEF Emit, Resend
    <2>2. UNCHANGED retryq \/ (Room /\ \E b : retryq' = Append(retryq, b))
      BY <1>2, Zenon DEF Emit, Resend
    <2> QED
      BY <1>c, <1>i, <1>q, <2>1, <2>2 DEF Room
  <1>3. CASE TryAppend
    <2>1. UNCHANGED retryq
      BY <1>3, Zenon DEF TryAppend
    <2>2. UNCHANGED appendq \/ (Len(appendq) < AppendCap /\ appendq' = Append(appendq, hbatch))
      BY <1>3, Zenon DEF TryAppend
    <2> QED
      BY <1>c, <1>i, <1>q, <2>1, <2>2
  <1>4. CASE DropOldest \/ WorkerRecv
    <2>1. UNCHANGED appendq /\ (UNCHANGED retryq \/ (retryq # <<>> /\ retryq' = Tail(retryq)))
      BY <1>4, Zenon DEF DropOldest, WorkerRecv
    <2> QED
      BY <1>c, <1>i, <1>q, <2>1
  <1>5. CASE PostSuccess \/ PostNonRetryable \/ PostRetryable
    BY <1>1, <1>5, Zenon DEF PostSuccess, PostNonRetryable, PostRetryable, queueVars
  <1>6. CASE ReplaySent
    <2>1. UNCHANGED appendq /\ Room /\ retryq' = Append(retryq, dbatch)
      BY <1>6, Zenon DEF ReplaySent, DrainerStep
    <2> QED
      BY <1>c, <1>i, <1>q, <2>1 DEF Room
  <1>7. CASE WriterTakes
    <2>1. UNCHANGED retryq /\ appendq # <<>> /\ appendq' = Tail(appendq)
      BY <1>7, Zenon DEF WriterTakes, WriterStep
    <2> QED
      BY <1>c, <1>i, <1>q, <2>1
  <1>8. CASE AgentCrash \/ OrderlyStop
    <2>1. retryq' = <<>> /\ appendq' = <<>>
      BY <1>8, Zenon DEF AgentCrash, OrderlyStop, Restart
    <2> QED
      BY <1>c, <2>1
  <1> QED
    BY <1>1, <1>2, <1>3, <1>4, <1>5, <1>6, <1>7, <1>8, QuietSteps, Zenon DEF SpillNext

\* The control points, the breaker and the environment stay in their ranges.
ControlOK ==
  /\ hpc \in {"idle", "spill", "last", "resend"} /\ kpc \in {"recv", "post"}
  /\ circuit \in {"Closed", "HalfOpen", "Open"} /\ probe \in {"none", "spread", "half"}
  /\ gateway \in {"up", "down"} /\ outages \in 0..MaxOutages

\* Every task moves between its own control points.
LEMMA ControlRanges ==
  ASSUME ControlOK, SpillNext
  PROVE  ControlOK'
  <1> USE DEF ControlOK
  <1>m. MaxOutages \in Nat
    BY SpillwayAssumption, Zenon
  <1>1. CASE (\E b \in Batch : Emit(b)) \/ TryAppend \/ DropOldest \/ Resend
    BY <1>1, Zenon DEF Emit, TryAppend, DropOldest, Resend, workerVars, circuitVars, envVars
  <1>2. CASE WorkerRecv \/ PostSuccess \/ PostNonRetryable
    BY <1>2, Zenon DEF WorkerRecv, PostSuccess, PostNonRetryable, record_post_success, hotVars, circuitVars, envVars
  <1>3. CASE PostRetryable
    BY <1>3, Zenon DEF PostRetryable, record_post_failure, hotVars, envVars
  <1>4. CASE SweepOpen \/ TryHalfOpenLoad \/ TryHalfOpenStore
    BY <1>4, Zenon DEF SweepOpen, TryHalfOpenLoad, TryHalfOpenStore, DrainerStep, hotVars, workerVars, circuitVars, envVars
  <1>5. CASE SweepHalfOpen \/ SweepClosed \/ DrainMore \/ ReplaySent \/ ReplayNoCapacity \/ ReplayRest
    <2>1. UNCHANGED <<hotVars, workerVars, circuitVars, envVars, probe>>
      BY <1>5, Zenon DEF SweepHalfOpen, SweepClosed, DrainMore, ReplaySent, ReplayNoCapacity,
         ReplayRest, DrainerStep
    <2> QED
      BY <2>1, Zenon DEF hotVars, workerVars, circuitVars, envVars
  <1>6. CASE WriterTakes \/ WriterCommits \/ WriterWorks \/ WriterDrops \/ WriterFails
    BY <1>6, Zenon DEF WriterTakes, WriterCommits, WriterWorks, WriterDrops, WriterFails, WriterStep,
       hotVars, workerVars, circuitVars, envVars
  <1>7. CASE AgentCrash \/ OrderlyStop
    BY <1>7, Zenon DEF AgentCrash, OrderlyStop, Restart
  <1>8. CASE Recover
    BY <1>8, Zenon DEF Recover, spillVars, hotVars, workerVars, circuitVars, envVars
  <1>9. CASE GatewayFails \/ GatewayRecovers
    BY <1>9, <1>m DEF GatewayFails, GatewayRecovers, hotVars, workerVars, circuitVars
  <1> QED
    BY <1>1, <1>2, <1>3, <1>4, <1>5, <1>6, <1>7, <1>8, <1>9, Zenon DEF SpillNext

\* Outcomes are recorded of emitted batches only.
OutcomesOK ==
  /\ produced \subseteq Batch /\ delivered \subseteq produced /\ lost \subseteq produced
  /\ durable \subseteq produced /\ replayed \subseteq produced /\ stop_lost \subseteq produced

\* Whatever is delivered, given up, synced or replayed was in somebody's hands.
LEMMA OutcomesStep ==
  ASSUME TypeOK, StoreInv, PlaceInv, PlaceInv', OutcomesOK, SpillNext
  PROVE  OutcomesOK'
  <1>p. produced \subseteq produced' /\ produced' \subseteq Batch
    <2>1. produced' = produced \/ \E b \in Batch : produced' = produced \cup {b}
      BY NewlyEmitted, Zenon DEF Emit
    <2> QED
      BY <2>1, Zenon DEF OutcomesOK
  <1>i. /\ retryq \in Seq(produced) /\ appendq \in Seq(produced)
        /\ hpc # "idle" => hbatch \in produced
        /\ kpc # "recv" => body \in produced
        /\ wpc \in {"lock", "cap", "write"} => wbatch \in produced
        /\ wbatch \in produced \cup {NoBatch}
        /\ dpc = "send" => dbatch \in produced
        /\ \A s \in DOMAIN disk : \A f \in disk[s].frames : f.batch \in produced
    BY Zenon DEF PlaceInv
  <1>d. durable' \subseteq produced'
    <2>1. SyncedBatches' \subseteq produced'
      BY Zenon DEF SyncedBatches, PlaceInv
    <2> QED
      BY <1>p, <2>1, Zenon DEF SpillNext, History, OutcomesOK
  <1>r. replayed' \subseteq produced'
    BY <1>i, <1>p, Zenon DEF SpillNext, History, OutcomesOK
  <1>q. Range(appendq) \subseteq produced /\ (retryq # <<>> => Head(retryq) \in produced)
    BY <1>i, Queues, Zenon
  <1>o. delivered' \subseteq produced /\ stop_lost' \subseteq produced /\ lost' \subseteq produced
    <2> USE DEF OutcomesOK
    <2>1. CASE UNCHANGED <<delivered, stop_lost, lost>>
      BY <2>1, Zenon
    <2>2. CASE (\E b \in Batch : Emit(b)) \/ TryAppend
      BY <2>1, <2>2, Zenon DEF Emit, TryAppend, workerVars, envVars
    <2>3. CASE DropOldest \/ Resend
      <3>1. UNCHANGED <<delivered, stop_lost>> /\ hpc # "idle"
        BY <2>3, Zenon DEF DropOldest, Resend, workerVars, envVars
      <3>2. \/ lost' = lost
            \/ lost' = lost \cup {hbatch}
            \/ retryq # <<>> /\ lost' = lost \cup {Head(retryq)}
        BY <2>3, Zenon DEF DropOldest, Resend
      <3> QED
        BY <1>i, <1>q, <3>1, <3>2, Zenon
    <2>4. CASE WorkerRecv
      BY <2>1, <2>4, Zenon DEF WorkerRecv, envVars
    <2>5. CASE PostSuccess \/ PostNonRetryable \/ PostRetryable
      <3>1. /\ UNCHANGED stop_lost /\ kpc # "recv"
            /\ delivered' \in {delivered, delivered \cup {body}} /\ lost' \in {lost, lost \cup {body}}
        BY <2>5, Zenon DEF PostSuccess, PostNonRetryable, PostRetryable, envVars
      <3> QED
        BY <1>i, <3>1, Zenon
    <2>6. CASE SweepOpen \/ TryHalfOpenLoad \/ TryHalfOpenStore
      BY <2>1, <2>6, Zenon DEF SweepOpen, TryHalfOpenLoad, TryHalfOpenStore, DrainerStep, workerVars, envVars
    <2>7. CASE SweepHalfOpen \/ SweepClosed \/ DrainMore \/ ReplaySent \/ ReplayNoCapacity \/ ReplayRest
      <3>1. UNCHANGED <<workerVars, envVars, lost>>
        BY <2>7, Zenon DEF SweepHalfOpen, SweepClosed, DrainMore, ReplaySent, ReplayNoCapacity,
           ReplayRest, DrainerStep
      <3> QED
        BY <2>1, <3>1, Zenon DEF workerVars, envVars
    <2>8. CASE WriterTakes \/ WriterCommits \/ WriterWorks
      BY <2>1, <2>8, Zenon DEF WriterTakes, WriterCommits, WriterWorks, WriterStep, workerVars, envVars
    <2>9. CASE WriterDrops
      <3>1. /\ UNCHANGED <<delivered, stop_lost>>
            /\ lost' = lost \cup {x[2].batch : x \in {y \in Backlog : y[1] = Oldest.seq}}
        BY <2>9, Zenon DEF WriterDrops, WriterStep, workerVars, envVars
      <3>2. ASSUME NEW x \in Backlog PROVE x[2].batch \in produced
        <4>1. PICK s, f : x = <<s, f>> /\ Owed(s, f)
          BY BacklogOwed, Zenon
        <4>2. s \in DOMAIN disk /\ f \in disk[s].frames
          BY <4>1, Zenon DEF Owed, Seqs, TypeOK, StoreInv, DiskInv
        <4> QED
          BY <1>i, <4>1, <4>2, Zenon
      <3> QED
        BY <3>1, <3>2, Zenon
    <2>10. CASE WriterFails
      <3>1. UNCHANGED <<delivered, stop_lost>> /\ lost' = lost \cup {wbatch}
        BY <2>10, Zenon DEF WriterFails, WriterStep, workerVars, envVars
      <3>2. wpc \in {"cap", "write"}
        BY <2>10, Zenon DEF WriterFails, WriterStep, RotateFails, WriteFails, ReadyToWrite
      <3> QED
        BY <1>i, <3>1, <3>2, Zenon
    <2>11. CASE AgentCrash
      BY <2>1, <2>11, Zenon DEF AgentCrash, Restart
    <2>12. CASE OrderlyStop
      BY <1>i, <1>q, <2>12, Zenon DEF OrderlyStop, Restart
    <2>13. CASE Recover
      BY <2>1, <2>13, Zenon DEF Recover, spillVars, workerVars, envVars
    <2>14. CASE GatewayFails \/ GatewayRecovers
      BY <2>1, <2>14, Zenon DEF GatewayFails, GatewayRecovers, workerVars
    <2> QED
      BY <2>2, <2>3, <2>4, <2>5, <2>6, <2>7, <2>8, <2>9, <2>10, <2>11, <2>12, <2>13, <2>14, Zenon DEF SpillNext
  <1> QED
    BY <1>d, <1>o, <1>p, <1>r, Zenon DEF OutcomesOK

\* The inductive invariant of the delivery path.
SpillInv ==
  /\ AgentInv /\ PlaceInv /\ HandInv /\ ConsumedInv /\ DurableKept /\ Accounted
  /\ ControlOK /\ OutcomesOK /\ Len(retryq) <= RetryCap /\ Len(appendq) <= AppendCap

\* It holds when the agent starts.
LEMMA SpillInvInit == SpillInit => SpillInv
  <1> SUFFICES ASSUME SpillInit PROVE SpillInv
    BY Zenon
  <1>0. Init
    BY Zenon DEF SpillInit
  <1>d. DOMAIN disk = {} /\ segments = <<>> /\ found = {} /\ pending_advance = None
        /\ wpc = "recv" /\ wbatch = NoBatch /\ dpc = "sweep"
    BY <1>0, Zenon DEF Init
  <1>1. AgentInv
    BY SpillwayAssumption DEF SpillInit, AgentInv, ClosedMeansFew
  <1>2. PlaceInv
    BY <1>d DEF SpillInit, PlaceInv
  <1>3. HandInv
    BY <1>d, Zenon DEF HandInv
  <1>4. ConsumedInv
    BY <1>d DEF ConsumedInv, Seqs
  <1>5. DurableKept /\ Accounted
    BY Zenon DEF SpillInit, DurableKept, Accounted
  <1>6. ControlOK /\ OutcomesOK
    BY SpillwayAssumption DEF SpillInit, ControlOK, OutcomesOK
  <1>7. Len(retryq) <= RetryCap /\ Len(appendq) <= AppendCap
    BY SpillwayAssumption DEF SpillInit
  <1> QED
    BY <1>1, <1>2, <1>3, <1>4, <1>5, <1>6, <1>7, Zenon DEF SpillInv

\* Nothing of it changes without a step.
LEMMA SpillInvStutter == SpillInv /\ UNCHANGED allVars => SpillInv'
  <1> SUFFICES ASSUME SpillInv, UNCHANGED allVars PROVE SpillInv'
    BY Zenon
  <1>1. /\ UNCHANGED <<segments, disk, found, read_seq, read_offset, pending_advance, wpc, wbatch, dpc, dbatch,
                       crashes, errors>>
        /\ UNCHANGED <<retryq, appendq, hpc, hbatch, kpc, body, circuit, failures, probe, gateway, outages,
                       produced, delivered, lost, durable, replayed, stop_lost>>
    BY Zenon DEF allVars, vars, walVars, writerVars, drainerVars, processVars, spillVars, queueVars, hotVars,
       workerVars, circuitVars, envVars
  <1>2. AgentInv' /\ PlaceInv' /\ ControlOK' /\ OutcomesOK'
        /\ Len(retryq') <= RetryCap /\ Len(appendq') <= AppendCap
    BY <1>1, Zenon DEF SpillInv, AgentInv, ClosedMeansFew, PlaceInv, ControlOK, OutcomesOK
  <1>3. HandInv'
    BY <1>1, Zenon DEF SpillInv, HandInv, Sent
  <1>4. ConsumedInv'
    BY <1>1, Zenon DEF SpillInv, ConsumedInv, Owed, Seqs
  <1>5. DurableKept'
    <2>1. \A s, f : Owed(s, f)' <=> Owed(s, f)
      BY <1>1, Zenon DEF Owed, Seqs
    <2>2. \A b : SyncedOwed(b)' <=> SyncedOwed(b)
      BY <1>1, <2>1, Zenon DEF SyncedOwed
    <2> QED
      BY <1>1, <2>2, Zenon DEF SpillInv, DurableKept
  <1>6. Accounted'
    <2>1. OnDiskBacklog \subseteq OnDiskBacklog'
      <3> SUFFICES ASSUME NEW x \in Backlog PROVE x[2].batch \in OnDiskBacklog'
        BY Zenon DEF OnDiskBacklog
      <3>1. PICK s, f : x = <<s, f>> /\ Owed(s, f)
        BY BacklogOwed, Zenon
      <3>2. Owed(s, f)'
        BY <1>1, <3>1, Zenon DEF Owed, Seqs
      <3>3. x \in Backlog'
        BY <3>1, <3>2, BacklogOwed, Zenon
      <3> QED
        BY <3>3, Zenon DEF OnDiskBacklog
    <2> QED
      BY <1>1, <2>1, Zenon DEF SpillInv, Accounted, Held, InMemory
  <1> QED
    BY <1>2, <1>3, <1>4, <1>5, <1>6, Zenon DEF SpillInv

\* Every step of every task preserves it.
LEMMA SpillInvStep ==
  TypeOK /\ TypeOK' /\ StoreInv /\ StoreInv' /\ SpillInv /\ [SpillNext]_allVars => SpillInv'
  <1> SUFFICES ASSUME TypeOK, TypeOK', StoreInv, StoreInv', SpillInv, SpillNext PROVE SpillInv'
    BY SpillInvStutter, Zenon
  <1>i. /\ AgentInv /\ PlaceInv /\ HandInv /\ ConsumedInv /\ DurableKept /\ Accounted
        /\ ControlOK /\ OutcomesOK /\ Len(retryq) <= RetryCap /\ Len(appendq) <= AppendCap
    BY Zenon DEF SpillInv
  <1>1. AgentInv'
    BY <1>i, AgentInductive, Zenon
  <1>2. PlaceInv'
    BY <1>i, PlaceStep, Zenon
  <1>3. HandInv'
    BY <1>2, <1>i, HandStep, Zenon
  <1>4. ConsumedInv'
    BY <1>i, ConsumedStep, Zenon
  <1>5. DurableKept'
    BY <1>4, <1>i, KeptStep, Zenon
  <1>6. Accounted'
    BY <1>2, <1>i, AccountedStep, Zenon DEF OutcomesOK
  <1>7. ControlOK' /\ OutcomesOK' /\ Len(retryq') <= RetryCap /\ Len(appendq') <= AppendCap
    BY <1>2, <1>i, ControlRanges, OutcomesStep, QueueBounds, Zenon
  <1> QED
    BY <1>1, <1>2, <1>3, <1>4, <1>5, <1>6, <1>7, Zenon DEF SpillInv

\* The invariant of the delivery path.
LEMMA SpillCorrect == SpillSpec => []SpillInv
  <1>1. SpillSpec => []TypeOK /\ []StoreInv
    BY SpillImplementsStore, TypeCorrect, StoreCorrect, PTL
  <1> QED
    BY <1>1, SpillInvInit, SpillInvStep, PTL DEF SpillSpec

\* AgentTypeCorrect: both channels stay within their capacities, and only emitted
\* batches are delivered, given up, synced or replayed (output.rs, client.rs, wal/).
THEOREM AgentTypeCorrect == SpillSpec => []SpillTypeOK
  <1>1. SpillInv => SpillTypeOK
    <2> SUFFICES ASSUME SpillInv PROVE SpillTypeOK
      BY Zenon
    <2>1. PlaceInv /\ OutcomesOK /\ ControlOK /\ AgentInv
      BY Zenon DEF SpillInv
    <2>2. retryq \in Seq(Batch) /\ appendq \in Seq(Batch)
      BY <2>1, Queues, Zenon DEF PlaceInv, OutcomesOK
    <2>3. hbatch \in Batch \cup {NoBatch} /\ body \in Batch \cup {NoBatch}
      BY <2>1, Zenon DEF PlaceInv, OutcomesOK
    <2>4. failures \in 0..FailureWrap - 1
      BY <2>1, Zenon DEF AgentInv
    <2> QED
      BY <2>1, <2>2, <2>3, <2>4, Zenon DEF SpillInv, SpillTypeOK, ControlOK, OutcomesOK
  <1> QED
    BY <1>1, SpillCorrect, PTL

\* NoBatchFallsBetween: in one life of the process every emitted batch is delivered,
\* reported as given up, in a queue, in a task's hands or in the log's backlog,
\* in every interleaving of enqueue_batch_json, the retry worker, the writer thread
\* and the drainer (output.rs, client.rs, writer.rs, drainer.rs).
THEOREM NoBatchFallsBetween == SpillSpec => []Accounted
  <1>1. SpillInv => Accounted
    BY Zenon DEF SpillInv
  <1> QED
    BY <1>1, SpillCorrect, PTL

\* SyncedBatchesSurvive: without I/O errors a batch that an fdatasync covered stays in
\* the backlog, through any number of crashes and recoveries, until it is replayed
\* or dropped with a report (recover, peek_next, commit_pending, enforce_cap).
THEOREM SyncedBatchesSurvive == SpillSpec => []DurableUntilReplayed
  <1>1. SpillInv => DurableUntilReplayed
    <2> SUFFICES ASSUME SpillInv, errors = 0, NEW b \in durable
                 PROVE  b \in OnDiskBacklog \cup replayed \cup lost
      BY Zenon DEF DurableUntilReplayed
    <2>1. b \in replayed \cup lost \/ SyncedOwed(b)
      BY Zenon DEF SpillInv, DurableKept
    <2>2. ASSUME SyncedOwed(b) PROVE b \in OnDiskBacklog
      <3>1. PICK s, f : Owed(s, f) /\ f.batch = b
        BY <2>2, Zenon DEF SyncedOwed
      <3>2. <<s, f>> \in Backlog
        BY <3>1, BacklogOwed, Zenon
      <3>3. <<s, f>>[2] = f
        BY Zenon
      <3> QED
        BY <3>1, <3>2, <3>3, Zenon DEF OnDiskBacklog
    <2> QED
      BY <2>1, <2>2, Zenon
  <1> QED
    BY <1>1, SpillCorrect, PTL
-----------------------------------------------------------------------------
(* A batch is held once. *)

\* The batches that are on their way to the log, and those that are past it.
Waits == Range(appendq) \cup ({hbatch, wbatch} \ {NoBatch})
Gone == Range(retryq) \cup ({body} \ {NoBatch}) \cup delivered

Once(q) == \A i, j \in DOMAIN q : q[i] = q[j] => i = j

\* The queues and hands hold different batches, and none is on both sides of the log.
MemOnce ==
  /\ Once(retryq) /\ Once(appendq)
  /\ hbatch # NoBatch => hbatch # wbatch
  /\ hbatch \notin Range(appendq) /\ wbatch \notin Range(appendq)
  /\ body \notin Range(retryq) /\ delivered \cap Range(retryq) = {}
  /\ Waits \cap Gone = {}

AtCursor(x) == pending_advance # None /\ x[1] = read_seq /\ x[2].off = read_offset

\* The backlog has a batch once, before it has gone; what the drainer peeked at is
\* still ahead of the retry queue, and only its frame may be found there until the
\* commit.
LogOnce ==
  /\ \A x, y \in Backlog : x[2].batch = y[2].batch => x = y
  /\ \A x \in Backlog : x[2].batch \notin Waits
  /\ \A x \in Backlog : x[2].batch \in Gone => dpc = "commit" /\ AtCursor(x)
  /\ dpc = "send" => /\ dbatch \notin Waits \cup Gone
                     /\ \A x \in Backlog : x[2].batch = dbatch => AtCursor(x)

OnceInv == crashes = 0 => MemOnce /\ LogOnce

\* Sending and receiving keep the batches of a queue different.
LEMMA OnceQueues ==
  ASSUME NEW S, NEW q \in Seq(S), Once(q)
  PROVE  /\ \A b \in S : b \notin Range(q) => Once(Append(q, b))
         /\ q # <<>> => /\ Once(Tail(q)) /\ Head(q) \in Range(q)
                        /\ Range(Tail(q)) = Range(q) \ {Head(q)}
  <1>0. DOMAIN q = 1..Len(q) /\ Len(q) \in Nat
    OBVIOUS
  <1>1. ASSUME NEW b \in S, b \notin Range(q) PROVE Once(Append(q, b))
    <2>1. /\ \A i \in 1..Len(q) : Append(q, b)[i] = q[i] /\ Append(q, b)[i] # b
          /\ Append(q, b)[Len(q) + 1] = b
          /\ \A i \in DOMAIN Append(q, b) : i \in 1..Len(q) \/ i = Len(q) + 1
      <3>1. \A i \in 1..Len(q) : q[i] # b
        BY <1>0, <1>1, Zenon DEF Range
      <3> QED
        BY <1>0, <3>1
    <2> QED
      BY <1>0, <2>1, Zenon DEF Once
  <1>2. ASSUME q # <<>>
        PROVE  Once(Tail(q)) /\ Head(q) \in Range(q) /\ Range(Tail(q)) = Range(q) \ {Head(q)}
    <2>1. /\ Head(q) = q[1] /\ 1 \in DOMAIN q /\ DOMAIN Tail(q) = 1..Len(q) - 1
          /\ \A i \in 1..Len(q) - 1 : Tail(q)[i] = q[i + 1] /\ i + 1 \in DOMAIN q /\ i + 1 # 1
          /\ \A i, j \in 1..Len(q) - 1 : i + 1 = j + 1 => i = j
          /\ \A i \in DOMAIN q : i = 1 \/ (i - 1 \in 1..Len(q) - 1 /\ Tail(q)[i - 1] = q[i])
      BY <1>0, <1>2
    <2>2. Once(Tail(q))
      <3>1. ASSUME NEW i \in 1..Len(q) - 1, NEW j \in 1..Len(q) - 1, Tail(q)[i] = Tail(q)[j] PROVE i = j
        <4>1. q[i + 1] = q[j + 1] /\ i + 1 \in DOMAIN q /\ j + 1 \in DOMAIN q
          BY <2>1, <3>1, Zenon
        <4>2. i + 1 = j + 1
          BY <4>1, Zenon DEF Once
        <4> QED
          BY <2>1, <4>2, Zenon
      <3> QED
        BY <2>1, <3>1, Zenon DEF Once
    <2>3. ASSUME NEW x \in Range(Tail(q)) PROVE x \in Range(q) /\ x # Head(q)
      <3>1. PICK i \in 1..Len(q) - 1 : x = q[i + 1]
        BY <2>1 DEF Range
      <3>2. i + 1 \in DOMAIN q /\ 1 \in DOMAIN q /\ i + 1 # 1
        BY <2>1, Zenon
      <3> QED
        BY <2>1, <3>1, <3>2, Zenon DEF Once, Range
    <2>4. ASSUME NEW x \in Range(q), x # Head(q) PROVE x \in Range(Tail(q))
      <3>1. PICK i \in DOMAIN q : x = q[i]
        BY Zenon DEF Range
      <3>2. i - 1 \in DOMAIN Tail(q) /\ Tail(q)[i - 1] = x
        BY <2>1, <2>4, <3>1, Zenon
      <3> QED
        BY <3>2, Zenon DEF Range
    <2>5. Head(q) \in Range(q)
      BY <2>1, Zenon DEF Range
    <2> QED
      BY <2>2, <2>3, <2>4, <2>5, Zenon
  <1> QED
    BY <1>1, <1>2, Zenon

\* What the queues and hands hold after a step, and where it came from: a batch gets
\* past the log from before it or by the drainer's hand-over, and never back.
LEMMA MemStep ==
  ASSUME TypeOK, StoreInv, PlaceInv, OutcomesOK, MemOnce, SpillNext, [Next]_vars, ~(AgentCrash \/ OrderlyStop),
         dpc = "send" => dbatch \notin Waits \cup Gone
  PROVE  /\ MemOnce'
         /\ \A c \in produced : c \in Waits' => c \in Waits
         /\ \A c \in produced : c \in Gone' => c \in Gone \cup Waits \/ (ReplaySent /\ c = dbatch)
         /\ wbatch # NoBatch /\ wbatch' # wbatch => wbatch \notin Waits' \cup Gone'
  <1> DEFINE Goal == /\ MemOnce'
                     /\ \A c \in produced : c \in Waits' => c \in Waits
                     /\ \A c \in produced : c \in Gone' => c \in Gone \cup Waits \/ (ReplaySent /\ c = dbatch)
                     /\ wbatch # NoBatch /\ wbatch' # wbatch => wbatch \notin Waits' \cup Gone'
  <1> SUFFICES Goal
    BY Zenon
  <1>i. /\ retryq \in Seq(produced) /\ appendq \in Seq(produced) /\ delivered \subseteq produced
        /\ Range(retryq) \subseteq produced /\ Range(appendq) \subseteq produced
        /\ hbatch = NoBatch \/ hbatch \in produced
        /\ body = NoBatch \/ body \in produced
        /\ hpc = "idle" => hbatch = NoBatch
        /\ hpc # "idle" => hbatch \in produced
        /\ kpc = "recv" => body = NoBatch
        /\ wbatch = NoBatch \/ wbatch \in produced
        /\ NoBatch \notin produced
        /\ Once(retryq) /\ Once(appendq)
        /\ hbatch # NoBatch => hbatch # wbatch
        /\ hbatch \notin Range(appendq) /\ wbatch \notin Range(appendq)
        /\ body \notin Range(retryq) /\ delivered \cap Range(retryq) = {}
        /\ Waits \cap Gone = {}
        /\ Waits' = Range(appendq') \cup ({hbatch', wbatch'} \ {NoBatch})
        /\ Gone' = Range(retryq') \cup ({body'} \ {NoBatch}) \cup delivered'
    <2>1. /\ NoBatch \notin produced
          /\ Waits' = Range(appendq') \cup ({hbatch', wbatch'} \ {NoBatch})
          /\ Gone' = Range(retryq') \cup ({body'} \ {NoBatch}) \cup delivered'
      BY WalConfigAssumption, Zenon DEF OutcomesOK, Waits, Gone
    <2> QED
      BY <2>1, Queues, Zenon DEF PlaceInv, OutcomesOK, MemOnce
  <1>q. /\ \A b \in produced : /\ Range(Append(retryq, b)) = Range(retryq) \cup {b}
                               /\ Range(Append(appendq, b)) = Range(appendq) \cup {b}
                               /\ b \notin Range(retryq) => Once(Append(retryq, b))
                               /\ b \notin Range(appendq) => Once(Append(appendq, b))
        /\ retryq # <<>> => /\ Once(Tail(retryq)) /\ Head(retryq) \in Range(retryq)
                            /\ Range(Tail(retryq)) = Range(retryq) \ {Head(retryq)}
        /\ appendq # <<>> => /\ Once(Tail(appendq)) /\ Head(appendq) \in Range(appendq)
                             /\ Range(Tail(appendq)) = Range(appendq) \ {Head(appendq)}
    BY <1>i, Queues, OnceQueues
  <1>1. ASSUME NEW b \in Batch, Emit(b) PROVE Goal
    <2>1. /\ b \notin produced /\ hbatch = NoBatch /\ b # NoBatch
          /\ UNCHANGED <<appendq, kpc, body, delivered, wbatch>>
          /\ \/ retryq' = Append(retryq, b) /\ hbatch' = hbatch
             \/ hbatch' = b /\ retryq' = retryq
      BY <1>1, <1>i, WalConfigAssumption, Zenon DEF Emit, workerVars, vars, writerVars
    <2>2. Range(Append(retryq, b)) = Range(retryq) \cup {b} /\ Once(Append(retryq, b))
      <3>1. retryq \in Seq(produced \cup {b}) /\ b \notin Range(retryq)
        BY <1>i, <2>1, Queues, Zenon
      <3> QED
        BY <1>i, <3>1, Queues, OnceQueues
    <2>3. CASE retryq' = Append(retryq, b) /\ hbatch' = hbatch
      BY <1>i, <2>1, <2>2, <2>3, SMTT(30) DEF MemOnce, Waits, Gone
    <2>4. CASE hbatch' = b /\ retryq' = retryq
      BY <1>i, <2>1, <2>4, SMTT(30) DEF MemOnce, Waits, Gone
    <2> QED
      BY <2>1, <2>3, <2>4, Zenon
  <1>2. CASE TryAppend
    <2>1. /\ hbatch \in produced /\ UNCHANGED <<retryq, kpc, body, delivered, wbatch>>
          /\ \/ appendq' = Append(appendq, hbatch) /\ hbatch' = NoBatch
             \/ UNCHANGED <<appendq, hbatch>>
      BY <1>2, <1>i, Zenon DEF TryAppend, workerVars, vars, writerVars
    <2>2. CASE appendq' = Append(appendq, hbatch) /\ hbatch' = NoBatch
      <3>1. Range(appendq') = Range(appendq) \cup {hbatch} /\ Once(appendq')
        BY <1>i, <1>q, <2>1, <2>2, Zenon
      <3> QED
        BY <1>i, <2>1, <2>2, <3>1, SMTT(30) DEF MemOnce, Waits, Gone
    <2>3. CASE UNCHANGED <<appendq, hbatch>>
      BY <1>i, <2>1, <2>3, SMTT(30) DEF MemOnce, Waits, Gone
    <2> QED
      BY <2>1, <2>2, <2>3, Zenon
  <1>3. CASE DropOldest
    <2>1. /\ UNCHANGED <<appendq, kpc, body, delivered, wbatch>>
          /\ \/ hbatch' = NoBatch /\ retryq' = retryq
             \/ retryq # <<>> /\ retryq' = Tail(retryq) /\ hbatch' = hbatch
             \/ UNCHANGED <<hbatch, retryq>>
      BY <1>3, Zenon DEF DropOldest, workerVars, vars, writerVars
    <2>2. Range(retryq') \subseteq Range(retryq) /\ Once(retryq') /\ hbatch' \in {hbatch, NoBatch}
      BY <1>i, <1>q, <2>1, Zenon
    <2> QED
      BY <1>i, <2>1, <2>2, SMTT(30) DEF MemOnce, Waits, Gone
  <1>4. CASE Resend
    <2>1. /\ hbatch \in produced /\ hbatch' = NoBatch /\ UNCHANGED <<appendq, kpc, body, delivered, wbatch>>
          /\ retryq' = Append(retryq, hbatch) \/ retryq' = retryq
      BY <1>4, <1>i, Zenon DEF Resend, workerVars, vars, writerVars
    <2>2. hbatch \notin Gone
      BY <1>i, <2>1, Zenon DEF Waits
    <2>3. Once(retryq') /\ Range(retryq') \subseteq Range(retryq) \cup {hbatch}
      BY <1>i, <1>q, <2>1, <2>2, Zenon DEF Gone
    <2>4. hbatch # body /\ hbatch \notin delivered /\ hbatch # wbatch
      BY <1>i, <2>1, <2>2, Zenon DEF Gone
    <2> QED
      BY <1>i, <2>1, <2>3, <2>4, SMTT(30) DEF MemOnce, Waits, Gone
  <1>5. CASE WorkerRecv
    <2>1. /\ retryq # <<>> /\ body' = Head(retryq) /\ retryq' = Tail(retryq) /\ body = NoBatch
          /\ UNCHANGED <<appendq, hpc, hbatch, delivered, wbatch>>
      BY <1>5, <1>i, Zenon DEF WorkerRecv, hotVars, vars, writerVars
    <2>2. /\ Once(retryq') /\ Range(retryq') = Range(retryq) \ {body'} /\ body' \in Range(retryq)
      BY <1>q, <2>1, Zenon
    <2> QED
      BY <1>i, <2>1, <2>2, SMTT(30) DEF MemOnce, Waits, Gone
  <1>6. CASE PostSuccess \/ PostNonRetryable \/ PostRetryable
    <2>1. /\ UNCHANGED <<retryq, appendq, hbatch, wbatch>> /\ body' \in {body, NoBatch}
          /\ body \in produced
          /\ delivered' \in {delivered, delivered \cup {body}}
      BY <1>6, Zenon DEF PostSuccess, PostNonRetryable, PostRetryable, queueVars, hotVars, vars, writerVars, PlaceInv
    <2> QED
      BY <1>i, <2>1, SMTT(30) DEF MemOnce, Waits, Gone
  <1>7. CASE ReplaySent
    <2>1. /\ retryq' = Append(retryq, dbatch) /\ dpc = "send" /\ dbatch \in produced
          /\ UNCHANGED <<appendq, hbatch, body, delivered, wbatch>>
      BY <1>7, Zenon DEF ReplaySent, DrainerStep, Handover, hotVars, workerVars, writerVars, PlaceInv
    <2>2. dbatch \notin Waits /\ dbatch \notin Gone
      BY <2>1, Zenon
    <2>3. Once(retryq') /\ Range(retryq') = Range(retryq) \cup {dbatch}
      BY <1>q, <2>1, <2>2, Zenon DEF Gone
    <2> QED
      BY <1>7, <1>i, <2>1, <2>2, <2>3, SMTT(30) DEF MemOnce, Waits, Gone
  <1>8. CASE WriterTakes
    <2>1. /\ appendq # <<>> /\ appendq' = Tail(appendq) /\ wbatch' = Head(appendq) /\ wpc \in {"recv", "drain"}
          /\ UNCHANGED <<retryq, hbatch, body, delivered>>
      BY <1>8, Zenon DEF WriterTakes, WriterStep, WriterRecv, WriterTryRecv, hotVars, workerVars
    <2>2. wbatch = NoBatch
      BY <2>1, Zenon DEF PlaceInv
    <2>3. Once(appendq') /\ Range(appendq') = Range(appendq) \ {wbatch'} /\ wbatch' \in Range(appendq)
      BY <1>q, <2>1, Zenon
    <2> QED
      BY <1>i, <2>1, <2>2, <2>3, SMTT(30) DEF MemOnce, Waits, Gone
  <1>9. ASSUME ~WriterTakes, UNCHANGED <<retryq, appendq, hbatch, body, delivered>> PROVE Goal
    <2>1. wbatch' \in {wbatch, NoBatch}
      <3>1. ASSUME NEW b \in Batch, WriterRecv(b) \/ WriterTryRecv(b) PROVE FALSE
        BY <1>9, <3>1, WhoActs, Zenon DEF WriterRecv, WriterTryRecv
      <3> QED
        BY <3>1, Hands, Zenon
    <2> QED
      BY <1>9, <1>i, <2>1, SMTT(30) DEF MemOnce, Waits, Gone
  <1> HIDE DEF Goal
  <1> QED
    BY <1>1, <1>2, <1>3, <1>4, <1>5, <1>6, <1>7, <1>8, <1>9, QuietSteps, Zenon DEF SpillNext

\* Every entry of the backlog is a frame that is owed, before and after a step.
LEMMA BacklogIs == \A x \in Backlog : \E s, f : x = <<s, f>> /\ Owed(s, f)
  BY BacklogOwed, Zenon

LEMMA BacklogBecomes == \A x \in Backlog' : \E s, f : x = <<s, f>> /\ Owed(s, f)'
  <1>1. (\A x \in Backlog : \E s, f : x = <<s, f>> /\ Owed(s, f))'
    BY BacklogIs, PTL
  <1> QED
    BY <1>1, Zenon

\* The backlog has a batch once, before it has gone, after every step.
LEMMA LogOnceStep ==
  ASSUME TypeOK, TypeOK', StoreInv, StoreInv', PlaceInv, OutcomesOK, MemOnce, LogOnce, SpillNext, [Next]_vars,
         mode = "up", mode' = "up", ~(AgentCrash \/ OrderlyStop)
  PROVE  MemOnce' /\ LogOnce'
  <1>l. /\ \A x, y \in Backlog : x[2].batch = y[2].batch => x = y
        /\ \A x \in Backlog : x[2].batch \notin Waits
        /\ \A x \in Backlog : x[2].batch \in Gone => dpc = "commit" /\ AtCursor(x)
        /\ dpc = "send" => /\ dbatch \notin Waits \cup Gone
                           /\ \A x \in Backlog : x[2].batch = dbatch => AtCursor(x)
    BY Zenon DEF LogOnce
  <1>f. /\ MemOnce'
        /\ \A c \in produced : c \in Waits' => c \in Waits
        /\ \A c \in produced : c \in Gone' => c \in Gone \cup Waits \/ (ReplaySent /\ c = dbatch)
        /\ wbatch # NoBatch /\ wbatch' # wbatch => wbatch \notin Waits' \cup Gone'
    BY <1>l, MemStep, Zenon
  <1>p. /\ \A x \in Backlog : x[2].batch \in produced
        /\ dpc = "send" => dbatch \in produced
    <2>1. ASSUME NEW x \in Backlog PROVE x[2].batch \in produced
      <3>1. PICK s, f : x = <<s, f>> /\ Owed(s, f)
        BY BacklogOwed, Zenon
      <3>2. s \in DOMAIN disk /\ f \in disk[s].frames
        BY <3>1, Zenon DEF Owed, StoreInv, DiskInv, Seqs, TypeOK
      <3> QED
        BY <3>1, <3>2, Zenon DEF PlaceInv
    <2> QED
      BY <2>1, Zenon DEF PlaceInv
  <1>w. WriteFrame => wbatch \in Waits /\ wbatch \notin Waits' \cup Gone' /\ UNCHANGED <<dpc, dbatch>>
    <2> SUFFICES ASSUME WriteFrame
                 PROVE  wbatch \in Waits /\ wbatch \notin Waits' \cup Gone' /\ UNCHANGED <<dpc, dbatch>>
      BY Zenon
    <2>1. wbatch' = NoBatch /\ UNCHANGED <<dpc, dbatch>> /\ wbatch \in Batch
      BY LastSegmentGrows, Zenon DEF WriteFrame, AppendReturns, drainerVars
    <2>2. wbatch # NoBatch
      BY <2>1, WalConfigAssumption, Zenon
    <2> QED
      BY <1>f, <2>1, <2>2, Zenon DEF Waits
  <1>b. \A x \in Backlog' : \/ x \in Backlog
                            \/ /\ WriteFrame /\ x[2].batch = wbatch
                               /\ x[1] = active.seq /\ x[2].off = active.offset
    <2> SUFFICES ASSUME NEW x \in Backlog', x \notin Backlog
                 PROVE  WriteFrame /\ x[2].batch = wbatch /\ x[1] = active.seq /\ x[2].off = active.offset
      BY Zenon
    <2>2. PICK s, f : x = <<s, f>> /\ Owed(s, f)'
      BY BacklogBecomes, Zenon
    <2>3. ~Owed(s, f)
      BY <2>2, BacklogOwed, Zenon
    <2> QED
      BY <2>2, <2>3, BacklogNew, Zenon
  <1>c. ASSUME NEW x \in Backlog, x \in Backlog', AtCursor(x), dpc \in {"send", "commit"}
        PROVE  AtCursor(x)' /\ (dpc = "commit" => dpc' = "commit")
    <2>1. PICK s, f : x = <<s, f>> /\ Owed(s, f)
      BY BacklogOwed, Zenon
    <2>3. PICK t, g : x = <<t, g>> /\ Owed(t, g)'
      BY <1>c, BacklogBecomes, Zenon
    <2>4. Owed(s, f)' /\ s = read_seq /\ f.off = read_offset /\ pending_advance # None
      BY <1>c, <2>1, <2>3 DEF AtCursor
    <2>5. UNCHANGED <<read_seq, read_offset, pending_advance>>
      BY <1>c, <2>1, <2>4, CursorHeld, Zenon
    <2>6. ~commit_pending
      BY <2>4, <2>5, Zenon DEF commit_pending
    <2> QED
      BY <1>c, <2>5, <2>6, DrainerMoves, Zenon DEF AtCursor
  <1>1. ASSUME NEW x \in Backlog', NEW y \in Backlog', x[2].batch = y[2].batch PROVE x = y
    <2>1. CASE x \in Backlog /\ y \in Backlog
      BY <1>1, <1>l, <2>1, Zenon
    <2>2. CASE x \in Backlog /\ y \notin Backlog
      BY <1>1, <1>b, <1>l, <1>w, <2>2, Zenon
    <2>3. CASE x \notin Backlog /\ y \in Backlog
      BY <1>1, <1>b, <1>l, <1>w, <2>3, Zenon
    <2>4. CASE x \notin Backlog /\ y \notin Backlog
      <3>2. PICK s, f : x = <<s, f>> /\ Owed(s, f)'
        BY BacklogBecomes, Zenon
      <3>3. PICK t, g : y = <<t, g>> /\ Owed(t, g)'
        BY BacklogBecomes, Zenon
      <3>4. s = t /\ f.off = g.off
        BY <1>b, <2>4, <3>2, <3>3, Zenon
      <3>5. s \in DOMAIN disk' /\ f \in disk'[s].frames /\ g \in disk'[s].frames
        BY <3>2, <3>3, <3>4, Zenon DEF Owed, StoreInv, DiskInv, Seqs, TypeOK
      <3>6. f = g \/ End(f) <= g.off \/ End(g) <= f.off
        BY <3>5, Zenon DEF StoreInv, DiskInv, FileOK
      <3>7. f \in Frame /\ g \in Frame
        BY <3>5, Zenon DEF TypeOK, File
      <3>8. f.off < End(f) /\ g.off < End(g) /\ f.off \in Nat /\ g.off \in Nat /\ End(f) \in Nat /\ End(g) \in Nat
        BY <3>7, FrameLen DEF Frame, End, FRAME_HEADER_LEN
      <3> QED
        BY <3>2, <3>3, <3>4, <3>6, <3>8
    <2> QED
      BY <2>1, <2>2, <2>3, <2>4, Zenon
  <1>2. ASSUME NEW x \in Backlog' PROVE x[2].batch \notin Waits'
    BY <1>b, <1>f, <1>l, <1>p, <1>w, Zenon
  <1>3. ASSUME NEW x \in Backlog', x[2].batch \in Gone' PROVE dpc' = "commit" /\ AtCursor(x)'
    <2>1. x \in Backlog
      BY <1>3, <1>b, <1>w, Zenon
    <2>2. CASE x[2].batch \in Gone
      BY <1>c, <1>l, <2>1, <2>2, Zenon
    <2>3. CASE ReplaySent /\ x[2].batch = dbatch
      <3>1. dpc = "send" /\ dpc' = "commit"
        BY <2>3, Zenon DEF ReplaySent, DrainerStep, Handover
      <3> QED
        BY <1>c, <1>l, <2>1, <2>3, <3>1, Zenon
    <2> QED
      BY <1>3, <1>f, <1>l, <1>p, <2>1, <2>2, <2>3, Zenon
  <1>4. ASSUME dpc' = "send"
        PROVE  /\ dbatch' \notin (Waits \cup Gone)'
               /\ \A x \in Backlog' : x[2].batch = dbatch' => AtCursor(x)'
    <2>r. ~ReplaySent
      BY <1>4, Zenon DEF ReplaySent, DrainerStep, Handover
    <2>1. CASE PeekFrame
      <3>1. /\ dpc = "peek" /\ segments # <<>> /\ read_seq' = PeekSeq /\ read_offset' = PeekOffset
        BY <2>1, Zenon DEF PeekFrame
      <3>2. PICK g \in read_frame_at(disk[PeekSeq], PeekOffset) : pending_advance' = End(g) /\ dbatch' = g.batch
        BY <2>1, Zenon DEF PeekFrame
      <3>3. PICK p : p = <<PeekSeq, g>>
        BY Zenon
      <3>4. p \in Backlog /\ p[1] = PeekSeq /\ p[2] = g /\ g.off = PeekOffset
        BY <3>1, <3>3, PeekedOwed, BacklogOwed, Zenon
      <3>5. dbatch' \in produced /\ dbatch' \notin Waits /\ dbatch' \notin Gone
        BY <1>l, <1>p, <3>1, <3>2, <3>4, Zenon
      <3>6. ~WriteFrame
        BY <1>4, <1>w, <3>1, Zenon
      <3>7. ASSUME NEW x \in Backlog', x[2].batch = dbatch' PROVE AtCursor(x)'
        <4>1. x = p
          BY <1>b, <1>l, <3>2, <3>4, <3>6, <3>7, Zenon
        <4>2. pending_advance' # None
          <5>1. PeekSeq \in DOMAIN disk /\ g \in disk[PeekSeq].frames
            BY <3>1, <3>2, PeekSegment, Zenon DEF StoreInv, DiskInv, read_frame_at
          <5>2. End(g) \in Nat
            BY <5>1, FrameType, Zenon
          <5> QED
            BY <3>2, <5>2 DEF None
        <4> QED
          BY <3>1, <3>4, <4>1, <4>2, Zenon DEF AtCursor
      <3> QED
        BY <1>f, <2>r, <3>5, <3>7, Zenon
    <2>2. CASE UNCHANGED <<dpc, dbatch>>
      <3>1. dbatch \in produced /\ dbatch \notin Waits \cup Gone
        BY <1>4, <1>l, <1>p, <2>2, Zenon
      <3>2. ASSUME NEW x \in Backlog', x[2].batch = dbatch PROVE AtCursor(x)'
        <4>1. x \in Backlog
          BY <1>b, <1>w, <3>1, <3>2, Zenon
        <4> QED
          BY <1>4, <1>c, <1>l, <2>2, <3>2, <4>1, Zenon
      <3> QED
        BY <1>f, <2>2, <2>r, <3>1, <3>2, Zenon
    <2> QED
      BY <1>4, <2>1, <2>2, DrainerMoves, Zenon
  <1> QED
    BY <1>1, <1>2, <1>3, <1>4, <1>f, Zenon DEF LogOnce

LEMMA OnceInvInit == SpillInit => OnceInv
  <1> SUFFICES ASSUME SpillInit PROVE MemOnce /\ LogOnce
    BY Zenon DEF OnceInv
  <1>1. /\ retryq = <<>> /\ appendq = <<>> /\ hbatch = NoBatch /\ body = NoBatch /\ delivered = {}
        /\ segments = <<>> /\ found = {} /\ dpc = "sweep" /\ wbatch = NoBatch
    BY Zenon DEF SpillInit, Init
  <1>2. Range(retryq) = {} /\ Range(appendq) = {} /\ Once(retryq) /\ Once(appendq)
    BY <1>1 DEF Range, Once
  <1>3. Backlog = {}
    BY <1>1 DEF Backlog, Seqs
  <1> QED
    BY <1>1, <1>2, <1>3, Zenon DEF MemOnce, LogOnce, Waits, Gone

LEMMA OnceInvStep ==
  TypeOK /\ TypeOK' /\ StoreInv /\ StoreInv' /\ SpillInv /\ OnceInv /\ [SpillNext]_allVars => OnceInv'
  <1> SUFFICES ASSUME TypeOK, TypeOK', StoreInv, StoreInv', SpillInv, OnceInv, SpillNext \/ UNCHANGED allVars,
                      crashes' = 0
               PROVE  MemOnce' /\ LogOnce'
    BY Zenon DEF OnceInv
  <1>1. AgentInv /\ PlaceInv /\ OutcomesOK
    BY Zenon DEF SpillInv
  <1>2. [Next]_vars
    BY <1>1, SpillStep, Zenon
  <1>3. crashes = 0 /\ MemOnce /\ LogOnce
    BY <1>2, CrashCount, Zenon DEF OnceInv
  <1>4. mode = "up" /\ mode' = "up"
    BY <1>3 DEF StoreInv, ControlInv
  <1>5. ~(AgentCrash \/ OrderlyStop)
    BY <1>3 DEF AgentCrash, OrderlyStop, Crash
  <1>6. CASE SpillNext
    BY <1>1, <1>2, <1>3, <1>4, <1>5, <1>6, LogOnceStep, Zenon
  <1>7. CASE UNCHANGED allVars
    <2>1. /\ UNCHANGED <<retryq, appendq, hbatch, body, delivered, wbatch, dpc, dbatch, pending_advance>>
          /\ UNCHANGED <<segments, disk, found, read_seq, read_offset>>
      BY <1>7, Zenon DEF allVars, vars, walVars, writerVars, drainerVars, processVars, cursor, spillVars, queueVars,
         hotVars, workerVars
    <2>2. Backlog' = Backlog /\ Waits' = Waits /\ Gone' = Gone
      <3>1. Seqs' = Seqs
        BY <2>1, Zenon DEF Seqs
      <3>2. Backlog' = Backlog
        <4>1. \A s, f : Owed(s, f)' <=> Owed(s, f)
          BY <2>1, <3>1, Zenon DEF Owed
        <4>2. \A x : x \in Backlog' <=> x \in Backlog
          BY <4>1, BacklogOwed, BacklogBecomes
        <4> QED
          BY <4>2, Zenon
      <3> QED
        BY <2>1, <3>2, Zenon DEF Waits, Gone
    <2>3. MemOnce'
      BY <1>3, <2>1, <2>2, Zenon DEF MemOnce, Once
    <2>4. LogOnce'
      BY <1>3, <2>1, <2>2, Zenon DEF LogOnce, AtCursor
    <2> QED
      BY <2>3, <2>4, Zenon
  <1> QED
    BY <1>6, <1>7, Zenon

\* Two queues of different batches in a row.
LEMMA OnceConcat ==
  ASSUME NEW S, NEW p \in Seq(S), NEW q \in Seq(S), Once(p), Once(q), Range(p) \cap Range(q) = {}
  PROVE  p \o q \in Seq(S) /\ Once(p \o q) /\ Range(p \o q) = Range(p) \cup Range(q)
  <1>1. /\ p \o q \in Seq(S) /\ DOMAIN p = 1..Len(p) /\ DOMAIN q = 1..Len(q) /\ Len(p) \in Nat /\ Len(q) \in Nat
        /\ DOMAIN (p \o q) = 1..Len(p) + Len(q)
        /\ \A i \in DOMAIN (p \o q) : (p \o q)[i] = IF i <= Len(p) THEN p[i] ELSE q[i - Len(p)]
    OBVIOUS
  <1>2. ASSUME NEW i \in DOMAIN (p \o q)
        PROVE  \/ i \in DOMAIN p /\ (p \o q)[i] = p[i] /\ p[i] \in Range(p)
               \/ i - Len(p) \in DOMAIN q /\ (p \o q)[i] = q[i - Len(p)] /\ q[i - Len(p)] \in Range(q)
    <2>1. CASE i <= Len(p)
      <3>1. i \in DOMAIN p /\ (p \o q)[i] = p[i]
        BY <1>1, <2>1
      <3> QED
        BY <3>1, Zenon DEF Range
    <2>2. CASE ~(i <= Len(p))
      <3>1. i - Len(p) \in DOMAIN q /\ (p \o q)[i] = q[i - Len(p)]
        BY <1>1, <2>2
      <3> QED
        BY <3>1, Zenon DEF Range
    <2> QED
      BY <2>1, <2>2, Zenon
  <1>3. Once(p \o q)
    <2> SUFFICES ASSUME NEW i \in DOMAIN (p \o q), NEW j \in DOMAIN (p \o q), (p \o q)[i] = (p \o q)[j]
                 PROVE  i = j
      BY Zenon DEF Once
    <2>1. i \in Nat /\ j \in Nat
      BY <1>1
    <2>2. \/ i \in DOMAIN p /\ j \in DOMAIN p /\ p[i] = p[j]
          \/ i - Len(p) \in DOMAIN q /\ j - Len(p) \in DOMAIN q /\ q[i - Len(p)] = q[j - Len(p)]
      BY <1>2, Zenon
    <2>3. i = j \/ i - Len(p) = j - Len(p)
      BY <2>2, Zenon DEF Once
    <2> QED
      BY <1>1, <2>1, <2>3
  <1>4. ASSUME NEW x PROVE x \in Range(p \o q) <=> x \in Range(p) \cup Range(q)
    <2>1. ASSUME x \in Range(p \o q) PROVE x \in Range(p) \cup Range(q)
      BY <1>2, <2>1, Zenon DEF Range
    <2>2. ASSUME x \in Range(p) PROVE x \in Range(p \o q)
      <3>1. PICK i \in DOMAIN p : x = p[i]
        BY <2>2, Zenon DEF Range
      <3>2. i \in DOMAIN (p \o q) /\ (p \o q)[i] = x
        BY <1>1, <3>1
      <3> QED
        BY <3>2, Zenon DEF Range
    <2>3. ASSUME x \in Range(q) PROVE x \in Range(p \o q)
      <3>1. PICK i \in DOMAIN q : x = q[i]
        BY <2>3, Zenon DEF Range
      <3>2. i + Len(p) \in DOMAIN (p \o q) /\ (p \o q)[i + Len(p)] = x
        BY <1>1, <3>1
      <3> QED
        BY <3>2, Zenon DEF Range
    <2> QED
      BY <2>1, <2>2, <2>3, Zenon
  <1> QED
    BY <1>1, <1>3, <1>4, Zenon

\* OnePlace follows: the slots are five queues of different batches in a row.
LEMMA OnceHeld == SpillInv /\ OnceInv => OnePlace
  <1> SUFFICES ASSUME SpillInv, MemOnce, LogOnce
               PROVE  /\ \A i, j \in DOMAIN Slots : Slots[i] = Slots[j] => i = j
                      /\ \A x \in Backlog : x[2].batch \in Range(Slots) =>
                           dpc = "commit" /\ x[1] = read_seq /\ x[2].off = read_offset
                      /\ \A x \in Backlog : x[2].batch \in delivered =>
                           dpc = "commit" /\ x[1] = read_seq /\ x[2].off = read_offset
                      /\ delivered \cap Range(Slots) \subseteq {body}
    BY Zenon DEF OnePlace, OnceInv
  <1> DEFINE Slot(b) == IF b = NoBatch THEN <<>> ELSE <<b>>
  <1>1. /\ retryq \in Seq(produced) /\ appendq \in Seq(produced)
        /\ hbatch = NoBatch \/ hbatch \in produced
        /\ body = NoBatch \/ body \in produced
        /\ wbatch = NoBatch \/ wbatch \in produced
    BY Zenon DEF SpillInv, PlaceInv
  <1>2. ASSUME NEW b, b = NoBatch \/ b \in produced
        PROVE  Slot(b) \in Seq(produced) /\ Once(Slot(b)) /\ Range(Slot(b)) = {b} \ {NoBatch}
    <2>1. CASE b = NoBatch
      BY <2>1 DEF Once, Range
    <2>2. CASE b # NoBatch
      <3>1. Slot(b) = <<b>> /\ b \in produced
        BY <1>2, <2>2, Zenon
      <3>2. <<b>> \in Seq(produced) /\ DOMAIN <<b>> = {1} /\ <<b>>[1] = b
        BY <3>1
      <3> HIDE DEF Slot
      <3> QED
        BY <2>2, <3>1, <3>2 DEF Once, Range
    <2> QED
      BY <2>1, <2>2, Zenon
  <1> HIDE DEF Slot
  <1>3. PICK k, h, w : k = Slot(body) /\ h = Slot(hbatch) /\ w = Slot(wbatch)
    BY Zenon
  <1>4. /\ k \in Seq(produced) /\ Once(k) /\ Range(k) = {body} \ {NoBatch}
        /\ h \in Seq(produced) /\ Once(h) /\ Range(h) = {hbatch} \ {NoBatch}
        /\ w \in Seq(produced) /\ Once(w) /\ Range(w) = {wbatch} \ {NoBatch}
    BY <1>1, <1>2, <1>3, Zenon
  <1>5. Slots = k \o retryq \o h \o appendq \o w
    BY <1>3, Zenon DEF Slots, Slot
  <1>m. /\ Once(retryq) /\ Once(appendq) /\ Range(k) \cap Range(retryq) = {}
        /\ (Range(k) \cup Range(retryq)) \cap Range(h) = {}
        /\ (Range(k) \cup Range(retryq) \cup Range(h)) \cap Range(appendq) = {}
        /\ (Range(k) \cup Range(retryq) \cup Range(h) \cup Range(appendq)) \cap Range(w) = {}
    BY <1>4 DEF MemOnce, Waits, Gone
  <1>6. k \o retryq \in Seq(produced) /\ Once(k \o retryq) /\ Range(k \o retryq) = Range(k) \cup Range(retryq)
    BY <1>1, <1>4, <1>m, OnceConcat
  <1>7. PICK p : p = k \o retryq
    BY Zenon
  <1>7a. p \in Seq(produced) /\ Once(p) /\ Range(p) = Range(k) \cup Range(retryq) /\ Range(p) \cap Range(h) = {}
    BY <1>6, <1>7, <1>m, Zenon
  <1>8. p \o h \in Seq(produced) /\ Once(p \o h) /\ Range(p \o h) = Range(p) \cup Range(h)
    BY <1>4, <1>7a, OnceConcat
  <1>9. PICK q : q = p \o h
    BY Zenon
  <1>9a. q \in Seq(produced) /\ Once(q) /\ Range(q) = Range(k) \cup Range(retryq) \cup Range(h)
         /\ Range(q) \cap Range(appendq) = {}
    BY <1>7a, <1>8, <1>9, <1>m, Zenon
  <1>10. q \o appendq \in Seq(produced) /\ Once(q \o appendq) /\ Range(q \o appendq) = Range(q) \cup Range(appendq)
    BY <1>1, <1>9a, <1>m, OnceConcat
  <1>11. PICK r : r = q \o appendq
    BY Zenon
  <1>11a. r \in Seq(produced) /\ Once(r) /\ Range(r) = Range(k) \cup Range(retryq) \cup Range(h) \cup Range(appendq)
          /\ Range(r) \cap Range(w) = {}
    BY <1>9a, <1>10, <1>11, <1>m, Zenon
  <1>12. Once(r \o w) /\ Range(r \o w) = Range(r) \cup Range(w)
    BY <1>4, <1>11a, OnceConcat
  <1>13. Slots = r \o w
    BY <1>5, <1>7, <1>9, <1>11, Zenon
  <1>14. Range(Slots) \subseteq Waits \cup Gone
    BY <1>4, <1>11a, <1>12, <1>13, Zenon DEF Waits, Gone
  <1>15. delivered \subseteq Gone /\ delivered \cap Waits = {} /\ delivered \cap Range(retryq) = {}
    BY Zenon DEF MemOnce, Gone
  <1>16. delivered \cap Range(Slots) \subseteq {body}
    BY <1>4, <1>11a, <1>12, <1>13, <1>15, Zenon DEF Waits
  <1>17. \A x \in Backlog : x[2].batch \in Waits \cup Gone =>
           dpc = "commit" /\ x[1] = read_seq /\ x[2].off = read_offset
    BY Zenon DEF LogOnce, AtCursor
  <1> QED
    BY <1>12, <1>13, <1>14, <1>15, <1>16, <1>17, Zenon DEF Once

\* HeldOnce: until a crash no batch is in two queues or hands, none is in memory and in
\* the backlog except between the drainer's hand-over and its commit, and what the
\* gateway has acknowledged is held nowhere (enqueue_batch_json, the retry worker, the
\* writer thread, the drainer, enforce_cap).
THEOREM HeldOnce == SpillSpec => []OnePlace
  <1>1. SpillSpec => []TypeOK /\ []StoreInv
    BY SpillImplementsStore, TypeCorrect, StoreCorrect, PTL
  <1>2. SpillSpec => []OnceInv
    BY <1>1, SpillCorrect, OnceInvInit, OnceInvStep, PTL DEF SpillSpec
  <1> QED
    BY <1>2, SpillCorrect, OnceHeld, PTL
=============================================================================
