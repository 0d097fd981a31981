------------------------------ MODULE Spillway ------------------------------
(***************************************************************************)
(* The agent's delivery path: the hot path that queues a batch or spills   *)
(* it (output.rs, enqueue_batch_json), the bounded retry queue, the retry  *)
(* worker that POSTs to the gateway, the circuit breaker it drives, the    *)
(* append channel, and the WAL of module WalStore with its writer thread   *)
(* and drainer.  Every step of the WAL here is a step of WalStore under    *)
(* the guard its caller imposes.                                           *)
(***************************************************************************)
EXTENDS WalStore, Functions

CONSTANTS RetryCap,       \* RETRY_QUEUE_CAPACITY
          AppendCap,      \* APPEND_CHANNEL_CAPACITY
          OpenThreshold,  \* OPEN_THRESHOLD
          FailureWrap,    \* CONSECUTIVE_FAILURES is an AtomicU8: it wraps here
          MaxOutages      \* bound on the gateway outages of a behaviour

ASSUME SpillwayAssumption ==
  /\ RetryCap \in Nat \ {0} /\ AppendCap \in Nat \ {0}
  /\ OpenThreshold \in Nat \ {0}
  /\ FailureWrap \in Nat /\ FailureWrap > OpenThreshold
  /\ MaxOutages \in Nat

VARIABLES
  retryq,           \* the retry queue
  appendq,          \* the append channel
  hpc, hbatch,      \* the hot path inside enqueue_batch_json
  kpc, body,        \* the retry worker
  circuit, failures,
  probe,            \* the drainer inside the Open arm of its sweep
  gateway, outages, \* the environment
  \* history
  produced, delivered,
  lost,             \* batches given up with a log line or a metric
  durable,          \* batches that have been on stable storage
  replayed,         \* batches the drainer has put into the retry queue
  stop_lost         \* spilled batches an orderly stop left in memory

queueVars == <<retryq, appendq>>
hotVars == <<hpc, hbatch, produced>>
workerVars == <<kpc, body, delivered>>
circuitVars == <<circuit, failures>>
envVars == <<gateway, outages, stop_lost>>
spillVars == <<queueVars, hotVars, workerVars, circuitVars, probe, envVars, lost>>
allVars == <<vars, spillVars, durable, replayed>>

SyncedBatches ==
  {f.batch : f \in UNION {{g \in disk[s].frames : g.off < disk[s].synced} : s \in DOMAIN disk}}

SpillInit ==
  /\ Init
  /\ retryq = <<>> /\ appendq = <<>>
  /\ hpc = "idle" /\ hbatch = NoBatch /\ kpc = "recv" /\ body = NoBatch
  /\ circuit = "Closed" /\ failures = 0 /\ probe = "none"
  /\ gateway = "up" /\ outages = 0
  /\ produced = {} /\ delivered = {} /\ lost = {} /\ durable = {} /\ replayed = {}
  /\ stop_lost = {}
-----------------------------------------------------------------------------
(* enqueue_batch_json, one step per call on a shared channel or lock. *)

\* Mutant: off by one at the capacity.
RoomForOneMore == Len(retryq) <= RetryCap

\* capacity() and try_send of the retry queue.
Room == Len(retryq) < RetryCap

\* try_send into the retry queue.
Emit(b) ==
  /\ mode # "recovering" /\ hpc = "idle" /\ b \notin produced
  /\ produced' = produced \cup {b}
  /\ IF Room
     THEN retryq' = Append(retryq, b) /\ UNCHANGED <<hpc, hbatch>>
     ELSE hpc' = "spill" /\ hbatch' = b /\ UNCHANGED retryq
  /\ UNCHANGED <<vars, appendq, workerVars, circuitVars, probe, envVars, lost>>

\* The queue was full: try_append to the WAL's writer thread.
TryAppend ==
  /\ hpc = "spill"
  /\ IF mode = "up" /\ Len(appendq) < AppendCap
     THEN appendq' = Append(appendq, hbatch) /\ hpc' = "idle" /\ hbatch' = NoBatch
     ELSE hpc' = "last" /\ UNCHANGED <<appendq, hbatch>>
  /\ UNCHANGED <<vars, retryq, produced, workerVars, circuitVars, probe, envVars, lost>>

\* Last resort: take the receiver's lock, which a worker waiting in recv may
\* hold, and drop the oldest queued batch.
DropOldest ==
  /\ hpc = "last"
  /\ \/ /\ kpc = "recv" /\ hpc' = "idle" /\ hbatch' = NoBatch
        /\ lost' = lost \cup {hbatch} /\ UNCHANGED retryq
     \/ /\ retryq # <<>> /\ retryq' = Tail(retryq) /\ lost' = lost \cup {Head(retryq)}
        /\ hpc' = "resend" /\ UNCHANGED hbatch
     \/ retryq = <<>> /\ hpc' = "resend" /\ UNCHANGED <<hbatch, retryq, lost>>
  /\ UNCHANGED <<vars, appendq, produced, workerVars, circuitVars, probe, envVars>>

\* try_send again; the drainer may have taken the freed place.
Resend ==
  /\ hpc = "resend" /\ hpc' = "idle" /\ hbatch' = NoBatch
  /\ IF Room
     THEN retryq' = Append(retryq, hbatch) /\ UNCHANGED lost
     ELSE lost' = lost \cup {hbatch} /\ UNCHANGED retryq
  /\ UNCHANGED <<vars, appendq, produced, workerVars, circuitVars, probe, envVars>>
-----------------------------------------------------------------------------
(* The retry worker and the circuit breaker. *)

record_post_success == failures' = 0 /\ circuit' = "Closed"

\* Mutant: one failure more than the threshold.
record_post_failureLate ==
  /\ failures' = (failures + 1) % FailureWrap
  /\ circuit' = (IF failures + 1 > OpenThreshold THEN "Open" ELSE circuit)

\* fetch_add wraps; the comparison uses the value before it, plus one, saturating.
record_post_failure ==
  /\ failures' = (failures + 1) % FailureWrap
  /\ circuit' = (IF failures + 1 >= OpenThreshold THEN "Open" ELSE circuit)

WorkerRecv ==
  /\ kpc = "recv" /\ hpc # "resend" /\ retryq # <<>> /\ mode # "recovering"
  /\ body' = Head(retryq) /\ retryq' = Tail(retryq) /\ kpc' = "post"
  /\ UNCHANGED <<vars, appendq, hotVars, delivered, circuitVars, probe, envVars, lost>>

PostSuccess ==
  /\ kpc = "post" /\ gateway = "up"
  /\ delivered' = delivered \cup {body}
  /\ record_post_success /\ kpc' = "recv" /\ body' = NoBatch
  /\ UNCHANGED <<vars, queueVars, hotVars, probe, envVars, lost>>

\* A 4xx answer: the batch is discarded, the gateway counts as healthy.
PostNonRetryable ==
  /\ kpc = "post" /\ gateway = "up"
  /\ lost' = lost \cup {body}
  /\ record_post_success /\ kpc' = "recv" /\ body' = NoBatch
  /\ UNCHANGED <<vars, queueVars, hotVars, delivered, probe, envVars>>

\* An error, a 429 or a 5xx; the gateway may have taken the batch all the same.
\* The worker sleeps and posts the same body again.
PostRetryable ==
  /\ kpc = "post" /\ gateway = "down"
  /\ delivered' \in {delivered, delivered \cup {body}}
  /\ record_post_failure
  /\ UNCHANGED <<vars, queueVars, hotVars, kpc, body, probe, envVars, lost>>
-----------------------------------------------------------------------------
(* The drainer's sweep, by circuit state. *)

DrainerStep(A) == A /\ UNCHANGED <<appendq, hotVars, workerVars, envVars, lost>>

\* Open: sleep for the recovery spread, then try_half_open, whose load and store
\* are two steps.
SweepOpen ==
  /\ mode = "up" /\ dpc = "sweep" /\ probe = "none" /\ circuit = "Open"
  /\ probe' = "spread"
  /\ DrainerStep(UNCHANGED <<vars, retryq, circuitVars>>)

TryHalfOpenLoad ==
  /\ probe = "spread" /\ probe' = (IF circuit = "Open" THEN "half" ELSE "none")
  /\ DrainerStep(UNCHANGED <<vars, retryq, circuitVars>>)

TryHalfOpenStore ==
  /\ probe = "half" /\ probe' = "none"
  /\ circuit' = "HalfOpen"
  /\ DrainerStep(UNCHANGED <<vars, retryq, failures>>)

SweepHalfOpen ==
  /\ probe = "none" /\ circuit = "HalfOpen"
  /\ DrainerStep(Sweep(TRUE) /\ UNCHANGED <<retryq, circuitVars, probe>>)

SweepClosed ==
  /\ probe = "none" /\ circuit = "Closed"
  /\ DrainerStep(Sweep(FALSE) /\ UNCHANGED <<retryq, circuitVars, probe>>)

DrainMore ==
  DrainerStep(DrainLoop(Room /\ circuit = "Closed")
              /\ UNCHANGED <<retryq, circuitVars, probe>>)

\* Mutant: the frame is sent and not committed.
ReplaySentWithoutCommit ==
  DrainerStep(/\ Room /\ Handover(FALSE) /\ retryq' = Append(retryq, dbatch)
              /\ UNCHANGED <<circuitVars, probe>>)

\* try_send took the frame: go on to the commit.
ReplaySent ==
  DrainerStep(/\ Room /\ Handover(TRUE) /\ retryq' = Append(retryq, dbatch)
              /\ UNCHANGED <<circuitVars, probe>>)

\* Mutant: the frame is committed although the queue refused it.
ReplayNoCapacityCommits ==
  DrainerStep(~Room /\ Handover(TRUE) /\ UNCHANGED <<retryq, circuitVars, probe>>)

ReplayNoCapacity ==
  DrainerStep(~Room /\ Handover(FALSE) /\ UNCHANGED <<retryq, circuitVars, probe>>)

ReplayRest ==
  DrainerStep(/\ PeekLock \/ PeekEmpty \/ PeekFrame \/ PeekNothing
                 \/ gc_front_consumed \/ commit_pending
              /\ UNCHANGED <<retryq, circuitVars, probe>>)
-----------------------------------------------------------------------------
(* The writer thread at the other end of the append channel. *)

WriterStep(A) ==
  A /\ UNCHANGED <<retryq, hotVars, workerVars, circuitVars, probe, envVars>>

WriterTakes ==
  WriterStep(/\ appendq # <<>> /\ appendq' = Tail(appendq)
             /\ WriterRecv(Head(appendq)) \/ WriterTryRecv(Head(appendq))
             /\ UNCHANGED lost)

\* The group ends when the channel is empty.
WriterCommits ==
  WriterStep(appendq = <<>> /\ GroupCommit /\ UNCHANGED <<appendq, lost>>)

WriterWorks ==
  WriterStep(/\ WriterLock \/ Rotate \/ WriteFrame \/ BoundBurst
             /\ UNCHANGED <<appendq, lost>>)

\* Drop-oldest at the hard cap and failed appends give batches up, with a metric.
WriterDrops ==
  WriterStep(/\ EnforceCap /\ UNCHANGED appendq
             /\ lost' = lost \cup {x[2].batch : x \in {y \in Backlog : y[1] = Oldest.seq}})

WriterFails ==
  WriterStep(/\ RotateFails \/ WriteFails
             /\ lost' = lost \cup {wbatch} /\ UNCHANGED appendq)
-----------------------------------------------------------------------------
(* Process and environment. *)

\* Everything in memory is gone.
Restart ==
  /\ retryq' = <<>> /\ appendq' = <<>>
  /\ hpc' = "idle" /\ hbatch' = NoBatch /\ kpc' = "recv" /\ body' = NoBatch
  /\ circuit' = "Closed" /\ failures' = 0 /\ probe' = "none"
  /\ UNCHANGED <<produced, delivered, gateway, outages, lost>>

AgentCrash == Crash /\ Restart /\ UNCHANGED stop_lost

InMemory ==
  ({hbatch, body, wbatch} \cup Range(retryq) \cup Range(appendq)) \ {NoBatch}

\* SIGTERM or SIGINT: main flushes the window (an Emit), leaves its loop and
\* returns.  The process ends with whatever the queues, the other tasks and the
\* writer thread still hold; what was written to the files stays.
OrderlyStop ==
  /\ mode = "up" /\ hpc = "idle"
  /\ Crash /\ disk' = disk /\ Restart
  /\ stop_lost' = stop_lost \cup ((Range(appendq) \cup {wbatch}) \ {NoBatch})

Recover ==
  /\ Recovery
  /\ UNCHANGED spillVars

GatewayFails ==
  /\ gateway = "up" /\ outages < MaxOutages /\ gateway' = "down" /\ outages' = outages + 1
  /\ UNCHANGED <<vars, queueVars, hotVars, workerVars, circuitVars, probe, stop_lost, lost>>

GatewayRecovers ==
  /\ gateway = "down" /\ gateway' = "up" /\ UNCHANGED outages
  /\ UNCHANGED <<vars, queueVars, hotVars, workerVars, circuitVars, probe, stop_lost, lost>>

\* The history variables that follow the others.
History ==
  /\ durable' = durable \cup SyncedBatches'
  /\ replayed' = replayed \cup (IF dpc = "send" /\ dpc' = "commit" THEN {dbatch} ELSE {})

SpillNext ==
  /\ \/ \E b \in Batch : Emit(b)
     \/ TryAppend \/ DropOldest \/ Resend
     \/ WorkerRecv \/ PostSuccess \/ PostNonRetryable \/ PostRetryable
     \/ SweepOpen \/ TryHalfOpenLoad \/ TryHalfOpenStore
     \/ SweepHalfOpen \/ SweepClosed \/ DrainMore \/ ReplaySent \/ ReplayNoCapacity \/ ReplayRest
     \/ WriterTakes \/ WriterCommits \/ WriterWorks \/ WriterDrops \/ WriterFails
     \/ AgentCrash \/ OrderlyStop \/ Recover \/ GatewayFails \/ GatewayRecovers
  /\ History

SpillSpec == SpillInit /\ [][SpillNext]_allVars

\* Every task and thread keeps running and the mutex is fair.  The gateway
\* recovers from every outage, and there are finitely many.
Act(A) == A /\ History
SpillFairness ==
  /\ WF_allVars(Act(TryAppend)) /\ WF_allVars(Act(DropOldest)) /\ WF_allVars(Act(Resend))
  /\ WF_allVars(Act(WorkerRecv)) /\ WF_allVars(Act(PostSuccess \/ PostNonRetryable))
  /\ WF_allVars(Act(SweepOpen)) /\ WF_allVars(Act(TryHalfOpenLoad))
  /\ WF_allVars(Act(TryHalfOpenStore))
  /\ SF_allVars(Act(SweepHalfOpen)) /\ SF_allVars(Act(SweepClosed))
  /\ WF_allVars(Act(DrainMore)) /\ WF_allVars(Act(ReplaySent \/ ReplayNoCapacity)) /\ SF_allVars(Act(ReplayRest))
  /\ WF_allVars(Act(WriterTakes)) /\ WF_allVars(Act(WriterCommits))
  /\ SF_allVars(Act(WriterWorks)) /\ WF_allVars(Act(WriterDrops))
  /\ WF_allVars(Act(Recover)) /\ WF_allVars(Act(GatewayRecovers))

FairSpillSpec == SpillSpec /\ SpillFairness
-----------------------------------------------------------------------------
(* Properties. *)

\* Type invariant of the delivery path's own state.
SpillTypeOK ==
  /\ retryq \in Seq(Batch) /\ Len(retryq) <= RetryCap
  /\ appendq \in Seq(Batch) /\ Len(appendq) <= AppendCap
  /\ hpc \in {"idle", "spill", "last", "resend"} /\ hbatch \in Batch \cup {NoBatch}
  /\ kpc \in {"recv", "post"} /\ body \in Batch \cup {NoBatch}
  /\ circuit \in {"Closed", "HalfOpen", "Open"} /\ failures \in 0..FailureWrap - 1
  /\ probe \in {"none", "spread", "half"}
  /\ gateway \in {"up", "down"} /\ outages \in 0..MaxOutages
  /\ produced \subseteq Batch /\ delivered \subseteq produced /\ lost \subseteq produced
  /\ durable \subseteq produced /\ replayed \subseteq produced /\ stop_lost \subseteq produced

OnDiskBacklog == {x[2].batch : x \in Backlog}
Held == InMemory \cup OnDiskBacklog

\* Accounted: in one life of the process every batch emitted is delivered, or
\* still in a queue, in a thread's hands or in the WAL's backlog, or was given
\* up at a place that reports it.  No hand-over between hot path, queues, worker,
\* writer thread and drainer lets a batch fall between two of them.
Accounted == crashes = 0 => produced \subseteq Held \cup delivered \cup lost

\* The memory of the process as one sequence of slots.
Slots ==
  LET Slot(b) == IF b = NoBatch THEN <<>> ELSE <<b>>
  IN Slot(body) \o retryq \o Slot(hbatch) \o appendq \o Slot(wbatch)

\* OnePlace: until a crash a batch is held once.  It is not in two queues, it is
\* not in memory and in the backlog except between the drainer's hand-over and its
\* commit, and what the gateway has acknowledged is held nowhere.  So without a crash
\* or a lost reply the gateway sees a batch once.
OnePlace ==
  crashes = 0 =>
    /\ \A i, j \in DOMAIN Slots : Slots[i] = Slots[j] => i = j
    /\ \A x \in Backlog : x[2].batch \in Range(Slots) =>
         dpc = "commit" /\ x[1] = read_seq /\ x[2].off = read_offset
    /\ \A x \in Backlog : x[2].batch \in delivered =>
         dpc = "commit" /\ x[1] = read_seq /\ x[2].off = read_offset
    /\ delivered \cap Range(Slots) \subseteq {body}

\* ClosedMeansFew: the circuit is never Closed once OPEN_THRESHOLD failures have
\* run together, whatever the drainer's half-open probe does meanwhile.
ClosedMeansFew == circuit = "Closed" => failures < OpenThreshold

\* EventuallyDelivered: once the gateway stays up, every batch is delivered or was
\* given up with a report; nothing waits for ever in a queue, in the WAL or
\* behind the circuit breaker, as long as no crash empties the queues and no I/O error
\* disables the WAL.  (The three sets only grow, so this says it of each batch.)
EventuallyDelivered == []<>(crashes > 0 \/ errors > 0 \/ produced \subseteq delivered \cup lost)

\* DurableUntilReplayed: a batch that reached stable storage stays in the backlog,
\* across crashes and recoveries, until the drainer has put it into the retry
\* queue or it was given up with a report.
DurableUntilReplayed == errors = 0 => durable \subseteq OnDiskBacklog \cup replayed \cup lost

\* AtLeastOnce: a batch that was ever on stable storage is delivered, reported as
\* given up, or still held ("Delivery is at-least-once", recovery.rs).
AtLeastOnce == durable \subseteq Held \cup delivered \cup lost

\* OrderlyStopLosesNothing: a signalled stop leaves no spilled batch in the append
\* channel or in the writer's hands ("an orderly stop loses nothing", writer.rs).
OrderlyStopLosesNothing == stop_lost = {}
=============================================================================
