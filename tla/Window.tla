------------------------------- MODULE Window -------------------------------
(***************************************************************************)
(* How the agent turns kernel activity into batches: the exec events in    *)
(* the ring buffer, the double-buffered aggregator (aggregator.rs), the    *)
(* CPU and memory sampler with its baselines (memory_sampler.rs), the      *)
(* cgroup paths of the attribution cache, and the select loop of main.rs,  *)
(* one arm at a time.                                                      *)
(***************************************************************************)
EXTENDS Integers, Sequences, FiniteSets, FiniteSetsExt

CONSTANTS Cgroup,
          MaxKeys,     \* Aggregator.max_keys
          RingSlots,   \* events the ring buffer holds
          MaxExecs, MaxUsage  \* bounds: exec events, CPU time of a cgroup

ASSUME WindowAssumption ==
  /\ IsFiniteSet(Cgroup)
  /\ MaxKeys \in Nat \ {0} /\ RingSlots \in Nat
  /\ MaxExecs \in Nat /\ MaxUsage \in Nat

VARIABLES
  \* the kernel
  future, alive,   \* cgroups not created yet; cgroups that exist
  usage,           \* cpu.stat of each
  ring, drops,     \* the ring buffer and RING_DROPS
  \* the agent
  paths,           \* cgroups whose files the cache knows
  buffers, active, \* Aggregator
  baseline,        \* Sampler.cpu_baseline
  pc,              \* the arm of select! that runs
  targets, readings, stopping,
  \* history
  execs,           \* exec events the kernel raised
  seen,            \* per cgroup: exec events taken from the ring
  out,             \* per cgroup: exec_count and CPU in batches so far
  origin           \* per cgroup: cpu.stat at priming, less what was out before

kernelVars == <<future, alive, usage, ring, drops, execs>>
aggVars == <<buffers, active, out>>
samplerVars == <<baseline, origin, targets, readings>>
vars == <<kernelVars, paths, aggVars, samplerVars, pc, stopping, seen>>

EmptyMap == [c \in {} |-> 0]
NoStats == [exec |-> 0, samples |-> 0, cpu |-> 0]
None == -1

Init ==
  /\ alive \in SUBSET Cgroup /\ future = Cgroup \ alive /\ usage = [c \in Cgroup |-> 0]
  /\ ring = <<>> /\ drops = 0 /\ execs = 0
  /\ paths = {} /\ buffers = [i \in {0, 1} |-> EmptyMap] /\ active = 0
  /\ baseline = EmptyMap /\ pc = "bootstrap"
  /\ targets = {} /\ readings = <<>> /\ stopping = FALSE
  /\ seen = [c \in Cgroup |-> 0] /\ out = [c \in Cgroup |-> [exec |-> 0, cpu |-> 0]]
  /\ origin = [c \in Cgroup |-> 0]
-----------------------------------------------------------------------------
(* The kernel. *)

\* capture_identity: an event, or a drop when the ring is full.
Exec(c) ==
  /\ c \in alive /\ execs < MaxExecs /\ execs' = execs + 1
  /\ IF Len(ring) < RingSlots
     THEN ring' = Append(ring, c) /\ UNCHANGED drops
     ELSE drops' = drops + 1 /\ UNCHANGED ring
  /\ UNCHANGED <<future, alive, usage, paths, aggVars, samplerVars, pc, stopping, seen>>

Burn(c) ==
  /\ c \in alive /\ usage[c] < MaxUsage /\ usage' = [usage EXCEPT ![c] = @ + 1]
  /\ UNCHANGED <<future, alive, ring, drops, execs, paths, aggVars, samplerVars, pc, stopping, seen>>

CgroupStarts(c) ==
  /\ c \in future /\ future' = future \ {c} /\ alive' = alive \cup {c}
  /\ UNCHANGED <<usage, ring, drops, execs, paths, aggVars, samplerVars, pc, stopping, seen>>

\* A cgroup id is an inode number and is not used again.
CgroupEnds(c) ==
  /\ c \in alive /\ alive' = alive \ {c}
  /\ UNCHANGED <<future, usage, ring, drops, execs, paths, aggVars, samplerVars, pc, stopping, seen>>
-----------------------------------------------------------------------------
(* The aggregator. *)

Stats(buffer, c) == IF c \in DOMAIN buffer THEN buffer[c] ELSE NoStats

\* The entry of c in the active buffer is replaced (or inserted).
Upsert(c, stats) ==
  [k \in DOMAIN buffers[active] \cup {c} |-> IF k = c THEN stats ELSE buffers[active][k]]

\* Mutant: the flushed buffer is not cleared.
ClearedNot(buffer) == buffer

\* The flushed buffer after the rows were taken.
Cleared(buffer) == [c \in {} |-> buffer[c]]

\* Mutant: the next buffer instead of the other one.
FlushOfNextBuffer(b) ==
  IF b = EmptyMap
  THEN UNCHANGED aggVars
  ELSE /\ active' = active + 1
       /\ buffers' = [buffers EXCEPT ![active] = Cleared(b)]
       /\ out' = [c \in Cgroup |-> [exec |-> out[c].exec + Stats(b, c).exec,
                                     cpu |-> out[c].cpu + Stats(b, c).cpu]]

\* flush with the active buffer holding b: flip, emit the rows, clear.
FlushOf(b) ==
  IF b = EmptyMap
  THEN UNCHANGED aggVars
  ELSE /\ active' = 1 - active
       /\ buffers' = [buffers EXCEPT ![active] = Cleared(b)]
       /\ out' = [c \in Cgroup |-> [exec |-> out[c].exec + Stats(b, c).exec,
                                     cpu |-> out[c].cpu + Stats(b, c).cpu]]

EarlyFlush(b) == Cardinality(DOMAIN b) >= MaxKeys

\* The active buffer becomes b, and try_early_flush follows.
Ingest(b) ==
  IF EarlyFlush(b)
  THEN FlushOf(b)
  ELSE buffers' = [buffers EXCEPT ![active] = b] /\ UNCHANGED <<active, out>>

\* Mutant: the new row starts from zero.
OneMoreExecOnly(c) == [NoStats EXCEPT !.exec = 1]

OneMoreExec(c) == [Stats(buffers[active], c) EXCEPT !.exec = @ + 1]

\* on_identity_event learns the cgroup's paths, unless the process has already gone.
LearnsPath(c) == paths' \in {paths} \cup {paths \cup ({c} \cap alive)}

\* A ring arm of select! takes an event, from the readable ring or by polling, and
\* passes it to on_statix_event.
OnEvent ==
  /\ pc = "select" /\ ring # <<>> /\ ring' = Tail(ring)
  /\ LET c == Head(ring)
     IN /\ LearnsPath(c)
        /\ seen' = [seen EXCEPT ![c] = @ + 1]
        /\ Ingest(Upsert(c, OneMoreExec(c)))
  /\ UNCHANGED <<future, alive, usage, drops, execs, samplerVars, pc, stopping>>
-----------------------------------------------------------------------------
(* Startup, and the sampler. *)

\* bootstrap_existing_cgroups registers the cgroups its walk can read.
Registered == SUBSET alive

Bootstrap ==
  /\ pc = "bootstrap" /\ paths' \in Registered /\ targets' = paths' /\ pc' = "prime"
  /\ UNCHANGED <<kernelVars, aggVars, baseline, origin, readings, stopping, seen>>

\* for_each_sample_target
SampleTargets == paths

\* The flush timer, or a signal: sample_and_flush asks for every known cgroup.
StartTick(stop) ==
  /\ pc = "select" /\ stopping' = stop /\ targets' = SampleTargets /\ pc' = "read"
  /\ UNCHANGED <<kernelVars, paths, aggVars, baseline, origin, readings, seen>>

Reading == [cgroup : Cgroup, memory : BOOLEAN, cpu : Nat \cup {None}]

\* prime's blocking task reads the CPU of one target, if it is a leaf and can be read.
PrimeOne(c) ==
  /\ pc = "prime" /\ c \in targets /\ targets' = targets \ {c}
  /\ \/ UNCHANGED readings
     \/ /\ c \in alive
        /\ readings' = Append(readings, [cgroup |-> c, memory |-> FALSE, cpu |-> usage[c]])
  /\ UNCHANGED <<kernelVars, paths, aggVars, baseline, origin, pc, stopping, seen>>

\* tick's blocking task reads one target: nothing if it is no leaf; the memory and
\* the CPU file may each fail to be read.
ReadOne(c) ==
  /\ pc = "read" /\ c \in targets /\ targets' = targets \ {c}
  /\ \/ UNCHANGED readings
     \/ /\ c \in alive
        /\ \E m \in BOOLEAN, u \in {usage[c], None} :
             readings' = Append(readings, [cgroup |-> c, memory |-> m, cpu |-> u])
  /\ UNCHANGED <<kernelVars, paths, aggVars, baseline, origin, pc, stopping, seen>>

ReadSet == {readings[i].cgroup : i \in DOMAIN readings}
CpuRead(c) == readings[CHOOSE i \in DOMAIN readings : readings[i].cgroup = c].cpu

OutCpu(c) == out[c].cpu + Stats(buffers[active], c).cpu

\* prime: every CPU value read becomes a baseline.
Primed ==
  /\ pc = "prime" /\ targets = {} /\ pc' = "select"
  /\ baseline' = [c \in ReadSet |-> CpuRead(c)]
  /\ origin' = [c \in Cgroup |-> IF c \in ReadSet THEN CpuRead(c) ELSE origin[c]]
  /\ readings' = <<>>
  /\ UNCHANGED <<kernelVars, paths, aggVars, targets, stopping, seen>>

\* tick goes on with the readings: baselines of cgroups not read are forgotten.
ReadsDone ==
  /\ pc = "read" /\ targets = {} /\ pc' = "memory"
  /\ baseline' = [c \in DOMAIN baseline \cap ReadSet |-> baseline[c]]
  /\ UNCHANGED <<kernelVars, paths, aggVars, origin, targets, readings, stopping, seen>>

\* The blocking task failed: no readings, the baselines stay.
ReadsFail ==
  /\ pc = "read" /\ pc' = "memory" /\ targets' = {} /\ readings' = <<>>
  /\ UNCHANGED <<kernelVars, paths, aggVars, baseline, origin, stopping, seen>>

\* ingest_memory_sample for the next reading.
IngestMemory ==
  /\ pc = "memory" /\ readings # <<>> /\ pc' = "cpu"
  /\ LET c == Head(readings).cgroup
     IN IF Head(readings).memory
        THEN Ingest(Upsert(c, [Stats(buffers[active], c) EXCEPT !.samples = @ + 1]))
        ELSE UNCHANGED aggVars
  /\ UNCHANGED <<kernelVars, paths, samplerVars, stopping, seen>>

\* Mutant: the baseline stays where it was primed.
NewBaselineOnce(c, v) ==
  [k \in DOMAIN baseline \cup {c} |-> IF k = c /\ c \notin DOMAIN baseline THEN v ELSE baseline[k]]

NewBaseline(c, v) ==
  [k \in DOMAIN baseline \cup {c} |-> IF k = c THEN v ELSE baseline[k]]

\* cpu_delta and ingest_cpu_sample; the first reading of a cgroup only primes.
IngestCpu ==
  /\ pc = "cpu" /\ pc' = "memory" /\ readings' = Tail(readings)
  /\ LET c == Head(readings).cgroup
         v == Head(readings).cpu
         d == IF v >= baseline[c] THEN v - baseline[c] ELSE 0
     IN \/ v = None /\ UNCHANGED <<aggVars, baseline, origin>>
        \/ /\ v # None /\ c \in DOMAIN baseline
           /\ baseline' = NewBaseline(c, v)
           /\ Ingest(Upsert(c, [Stats(buffers[active], c) EXCEPT !.cpu = @ + d]))
           /\ UNCHANGED origin
        \/ /\ v # None /\ c \notin DOMAIN baseline
           /\ baseline' = NewBaseline(c, v)
           /\ origin' = [origin EXCEPT ![c] = v - OutCpu(c)]
           /\ UNCHANGED aggVars
  /\ UNCHANGED <<kernelVars, paths, targets, stopping, seen>>

\* All readings are in: close the window.
Flush ==
  /\ pc = "memory" /\ readings = <<>>
  /\ pc' = (IF stopping THEN "stopped" ELSE "select")
  /\ FlushOf(buffers[active])
  /\ UNCHANGED <<kernelVars, paths, samplerVars, stopping, seen>>

\* evict_stale_cgroups: forget cgroups whose memory.current is gone.  Here every cgroup
\* has the memory controller; module Attribution has some without.
Evict ==
  /\ pc = "select" /\ ~(paths \subseteq alive) /\ paths' = paths \cap alive
  /\ UNCHANGED <<kernelVars, aggVars, samplerVars, pc, stopping, seen>>

Next ==
  \/ \E c \in Cgroup : Exec(c) \/ Burn(c) \/ CgroupStarts(c) \/ CgroupEnds(c)
                      \/ PrimeOne(c) \/ ReadOne(c)
  \/ Bootstrap \/ Primed \/ OnEvent \/ Evict
  \/ \E stop \in BOOLEAN : StartTick(stop)
  \/ ReadsDone \/ ReadsFail \/ IngestMemory \/ IngestCpu \/ Flush

Spec == Init /\ [][Next]_vars
-----------------------------------------------------------------------------
(* Properties. *)

\* Type invariant of kernel, aggregator, sampler and select loop.
TypeOK ==
  /\ alive \subseteq Cgroup /\ future \subseteq Cgroup /\ usage \in [Cgroup -> 0..MaxUsage]
  /\ ring \in Seq(Cgroup) /\ Len(ring) <= RingSlots /\ drops \in Nat /\ execs \in 0..MaxExecs
  /\ paths \subseteq Cgroup /\ active \in {0, 1} /\ DOMAIN buffers = {0, 1}
  /\ \A i \in {0, 1} : DOMAIN buffers[i] \subseteq Cgroup
  /\ DOMAIN baseline \subseteq Cgroup /\ \A c \in DOMAIN baseline : baseline[c] \in 0..MaxUsage
  /\ pc \in {"bootstrap", "prime", "select", "read", "memory", "cpu", "stopped"}
  /\ targets \subseteq Cgroup /\ readings \in Seq(Reading) /\ stopping \in BOOLEAN
  /\ seen \in [Cgroup -> Nat]

\* Every event taken is in the open window or in a batch.
Counted == \A c \in Cgroup : seen[c] = out[c].exec + Stats(buffers[active], c).exec

\* ExecConserved: "never drop telemetry": every exec the kernel reports is in the
\* ring, a counted drop, or taken; and every one taken is counted once, in the open
\* window or in a batch, across flushes, early flushes and buffer flips.
ExecConserved ==
  /\ execs = drops + Len(ring) + MapThenSumSet(LAMBDA c : seen[c], Cgroup)
  /\ Counted

\* CpuConserved: the CPU billed to a cgroup since it was primed is exactly the
\* advance of its counter up to the current baseline: no interval is billed twice
\* or skipped, whichever reads fail and however windows are cut by early flushes.
CpuConserved ==
  \A c \in DOMAIN baseline : OutCpu(c) = baseline[c] - origin[c]

\* BelowMaxKeys: the open window never holds max_keys rows, so a batch never has
\* more than max_keys.
BelowMaxKeys == Cardinality(DOMAIN buffers[active]) < MaxKeys

\* OneSampleAtMost: no row of a window carries two readings (a second one would
\* double its CPU rate), although windows are cut by timers, signals and max_keys.
OneSampleAtMost ==
  \A c \in DOMAIN buffers[active] : buffers[active][c].samples <= 1
=============================================================================
