---------------------------- MODULE WindowProofs ----------------------------
(* The aggregator and the sampler of Window, for every finite set of         *)
(* cgroups, every max_keys and ring size, and any number of events.          *)
EXTENDS Window, FiniteSetTheorems, WellFoundedInduction, TLAPS

Row == [exec : Nat, samples : Nat, cpu : Nat]

IsBuffer(b) == DOMAIN b \subseteq Cgroup /\ b \in [DOMAIN b -> Row]

\* The open window, the one before it (drained), and what has gone out.
AggInv ==
  /\ active \in {0, 1} /\ buffers = [i \in {0, 1} |-> buffers[i]]
  /\ IsBuffer(buffers[0]) /\ IsBuffer(buffers[1]) /\ DOMAIN buffers[1 - active] = {}
  /\ out \in [Cgroup -> [exec : Nat, cpu : Nat]]
  /\ BelowMaxKeys

\* Values the sampler holds: readings are of different cgroups, each of them not older
\* than the baseline and not ahead of the kernel's counter.
ReadingOK(r) ==
  /\ r.cgroup \notin targets
  /\ pc = "prime" => r.cpu # None
  /\ r.cpu # None => /\ r.cpu <= usage[r.cgroup]
                     /\ r.cgroup \in DOMAIN baseline => baseline[r.cgroup] <= r.cpu

SamplerInv ==
  /\ baseline = [c \in DOMAIN baseline |-> baseline[c]] /\ origin \in [Cgroup -> Int]
  /\ \A c \in DOMAIN baseline : baseline[c] <= usage[c]
  /\ \A i \in DOMAIN readings : ReadingOK(readings[i])
  /\ \A i, j \in DOMAIN readings : readings[i].cgroup = readings[j].cgroup => i = j
  /\ pc \in {"bootstrap", "select", "stopped"} => readings = <<>>
  /\ pc = "cpu" => readings # <<>>
  /\ pc \in {"bootstrap", "prime"} => DOMAIN baseline = {} /\ \A c \in Cgroup : OutCpu(c) = 0

\* The readings whose memory is still to be ingested.
Waiting == {i \in DOMAIN readings : pc = "memory" \/ i > 1}

\* Outside a tick no row is sampled; in a tick none whose reading still waits.
SampleInv ==
  /\ OneSampleAtMost
  /\ pc \notin {"memory", "cpu"} =>
       \A c \in DOMAIN buffers[active] : buffers[active][c].samples = 0
  /\ \A i \in Waiting :
       readings[i].cgroup \in DOMAIN buffers[active]
         => buffers[active][readings[i].cgroup].samples = 0

WindowInv == TypeOK /\ AggInv /\ SamplerInv /\ Counted /\ CpuConserved /\ SampleInv
-----------------------------------------------------------------------------
(* The aggregator. *)

LEMMA StatsType ==
  ASSUME NEW b, IsBuffer(b), NEW c
  PROVE  Stats(b, c) \in Row
  BY Zenon DEF IsBuffer, Stats, NoStats, Row

\* The keys of a buffer can be counted.
LEMMA BufferFinite ==
  ASSUME NEW b, IsBuffer(b)
  PROVE  IsFiniteSet(DOMAIN b) /\ Cardinality(DOMAIN b) \in Nat
  BY WindowAssumption, FS_Subset, FS_CardinalityType, Zenon DEF IsBuffer

\* Upsert changes one row.
LEMMA UpsertEffect ==
  ASSUME AggInv, NEW c \in Cgroup, NEW s \in Row, NEW b,
         b = [k \in DOMAIN buffers[active] \cup {c} |-> IF k = c THEN s ELSE buffers[active][k]]
  PROVE  /\ IsBuffer(b) /\ DOMAIN b = DOMAIN buffers[active] \cup {c}
         /\ b[c] = s /\ Stats(b, c) = s
         /\ \A k \in DOMAIN buffers[active] : k # c => b[k] = buffers[active][k]
         /\ \A k \in Cgroup : k # c => Stats(b, k) = Stats(buffers[active], k)
  <1>1. IsBuffer(buffers[active])
    BY Zenon DEF AggInv
  <1> QED BY <1>1, Zenon DEF IsBuffer, Stats

\* What a flush of the rows b does: they are out, and the open window is empty.
LEMMA FlushEffect ==
  ASSUME AggInv, NEW b, IsBuffer(b), FlushOf(b), b = EmptyMap => b = buffers[active]
  PROVE  /\ AggInv' /\ DOMAIN (buffers[active])' = {}
         /\ \A c \in Cgroup :
              /\ (out[c].exec + Stats(buffers[active], c).exec)' = out[c].exec + Stats(b, c).exec
              /\ OutCpu(c)' = out[c].cpu + Stats(b, c).cpu
  <1>1. Cardinality({}) = 0 /\ MaxKeys \in Nat \ {0}
    BY WindowAssumption, FS_EmptySet, Zenon
  <1>2. CASE b = EmptyMap
    <2>1. UNCHANGED aggVars /\ buffers[active] = b
      BY <1>2, Zenon DEF FlushOf
    <2>2. DOMAIN (buffers[active])' = {}
      BY <1>2, <2>1, Zenon DEF EmptyMap, aggVars
    <2>3. AggInv'
      BY <2>1, Zenon DEF AggInv, aggVars, BelowMaxKeys
    <2>4. ASSUME NEW c \in Cgroup
          PROVE  /\ (out[c].exec + Stats(buffers[active], c).exec)' = out[c].exec + Stats(b, c).exec
                 /\ OutCpu(c)' = out[c].cpu + Stats(b, c).cpu
      BY <2>1, Zenon DEF aggVars, OutCpu, Stats
    <2> QED BY <2>2, <2>3, <2>4, Zenon
  <1>3. CASE b # EmptyMap
    <2>1. /\ active' = 1 - active
          /\ buffers' = [buffers EXCEPT ![active] = Cleared(b)]
          /\ out' = [c \in Cgroup |-> [exec |-> out[c].exec + Stats(b, c).exec,
                                       cpu |-> out[c].cpu + Stats(b, c).cpu]]
      BY <1>3, Zenon DEF FlushOf
    <2>2. DOMAIN Cleared(b) = {} /\ IsBuffer(Cleared(b))
      BY Zenon DEF Cleared, IsBuffer
    <2>3. /\ active \in {0, 1} /\ active' \in {0, 1} /\ active' # active /\ 1 - active' = active
          /\ DOMAIN buffers = {0, 1}
      BY <2>1 DEF AggInv
    <2>4. buffers'[active] = Cleared(b) /\ buffers'[active'] = buffers[1 - active]
      BY <2>1, <2>3, Zenon
    <2>5. DOMAIN (buffers[active])' = {}
      BY <2>4, Zenon DEF AggInv
    <2>6. IsBuffer(buffers[0])' /\ IsBuffer(buffers[1])'
      BY <2>1, <2>2, <2>3, Zenon DEF AggInv, IsBuffer
    <2>7. \A c \in Cgroup : Stats(b, c) \in Row
      BY StatsType, Zenon
    <2>8. out' \in [Cgroup -> [exec : Nat, cpu : Nat]]
      BY <2>1, <2>7 DEF AggInv, Row
    <2>9. BelowMaxKeys'
      BY <1>1, <2>5 DEF BelowMaxKeys
    <2>10. AggInv'
      BY <2>1, <2>2, <2>3, <2>4, <2>6, <2>8, <2>9, Zenon DEF AggInv
    <2>11. ASSUME NEW c \in Cgroup
           PROVE  /\ (out[c].exec + Stats(buffers[active], c).exec)' = out[c].exec + Stats(b, c).exec
                  /\ OutCpu(c)' = out[c].cpu + Stats(b, c).cpu
      <3>1. Stats(buffers[active], c)' = NoStats
        BY <2>5, Zenon DEF Stats
      <3>2. out'[c].exec = out[c].exec + Stats(b, c).exec /\ out'[c].cpu = out[c].cpu + Stats(b, c).cpu
        BY <2>1, Zenon
      <3>3. out'[c].exec \in Nat /\ out'[c].cpu \in Nat
        BY <2>8, Zenon
      <3> QED BY <3>1, <3>2, <3>3 DEF NoStats, OutCpu
    <2> QED BY <2>5, <2>10, <2>11, Zenon
  <1> QED BY <1>2, <1>3, Zenon

\* What it means that the open window becomes b, flushed early or not.
LEMMA IngestEffect ==
  ASSUME AggInv, NEW b, IsBuffer(b), DOMAIN b # {}, Ingest(b)
  PROVE  /\ AggInv'
         /\ \A c \in DOMAIN (buffers[active])' :
              c \in DOMAIN b /\ (buffers[active])'[c] = b[c]
         /\ \A c \in Cgroup :
              /\ (out[c].exec + Stats(buffers[active], c).exec)' = out[c].exec + Stats(b, c).exec
              /\ OutCpu(c)' = out[c].cpu + Stats(b, c).cpu
  <1>1. CASE EarlyFlush(b)
    <2>1. FlushOf(b) /\ b # EmptyMap
      BY <1>1, Zenon DEF Ingest, EmptyMap
    <2> QED BY <2>1, FlushEffect, Zenon
  <1>2. CASE ~EarlyFlush(b)
    <2>1. buffers' = [buffers EXCEPT ![active] = b] /\ UNCHANGED <<active, out>>
      BY <1>2, Zenon DEF Ingest
    <2>2. active \in {0, 1} /\ DOMAIN buffers = {0, 1} /\ 1 - active # active /\ 1 - active \in {0, 1}
      BY DEF AggInv
    <2>3. buffers'[active'] = b /\ buffers'[1 - active'] = buffers[1 - active]
      BY <2>1, <2>2, Zenon
    <2>4. IsBuffer(buffers[0])' /\ IsBuffer(buffers[1])'
      BY <2>1, <2>2, Zenon DEF AggInv, IsBuffer
    <2>5. BelowMaxKeys'
      BY <1>2, <2>3, BufferFinite, WindowAssumption DEF BelowMaxKeys, EarlyFlush
    <2>6. AggInv'
      BY <2>1, <2>2, <2>3, <2>4, <2>5, Zenon DEF AggInv
    <2>7. ASSUME NEW c \in Cgroup
          PROVE  /\ (out[c].exec + Stats(buffers[active], c).exec)' = out[c].exec + Stats(b, c).exec
                 /\ OutCpu(c)' = out[c].cpu + Stats(b, c).cpu
      BY <2>1, <2>3 DEF OutCpu, Stats
    <2> QED BY <2>3, <2>6, <2>7, Zenon
  <1> QED BY <1>1, <1>2, Zenon
-----------------------------------------------------------------------------
(* Steps that leave the aggregator alone. *)

LEMMA AggKept ==
  ASSUME AggInv, UNCHANGED aggVars
  PROVE  AggInv' /\ \A c \in Cgroup : OutCpu(c)' = OutCpu(c)
  BY Zenon DEF AggInv, aggVars, BelowMaxKeys, OutCpu, Stats

LEMMA CountsKept ==
  ASSUME UNCHANGED <<aggVars, seen, baseline, origin>>, Counted, CpuConserved
  PROVE  Counted' /\ CpuConserved'
  BY Zenon DEF Counted, CpuConserved, aggVars, OutCpu, Stats

\* The kernel: counters only grow.
LEMMA KernelStep ==
  ASSUME WindowInv, NEW c \in Cgroup,
         Exec(c) \/ Burn(c) \/ CgroupStarts(c) \/ CgroupEnds(c)
  PROVE  WindowInv'
  <1> USE DEF WindowInv
  <1>1. UNCHANGED <<paths, aggVars, samplerVars, pc, stopping, seen>>
    BY Zenon DEF Exec, Burn, CgroupStarts, CgroupEnds
  <1>2. AggInv' /\ (\A k \in Cgroup : OutCpu(k)' = OutCpu(k)) /\ Counted' /\ CpuConserved'
    BY <1>1, AggKept, CountsKept, Zenon DEF samplerVars
  <1>3. usage' \in [Cgroup -> 0..MaxUsage] /\ \A k \in Cgroup : usage[k] <= usage'[k]
    <2>1. usage \in [Cgroup -> 0..MaxUsage] /\ MaxUsage \in Nat
      BY WindowAssumption, Zenon DEF TypeOK
    <2>2. CASE UNCHANGED usage
      BY <2>1, <2>2
    <2>3. CASE usage[c] < MaxUsage /\ usage' = [usage EXCEPT ![c] = @ + 1]
      BY <2>1, <2>3
    <2> QED BY <2>2, <2>3, Zenon DEF Exec, Burn, CgroupStarts, CgroupEnds
  <1>4. TypeOK'
    <2>1. ring' \in Seq(Cgroup) /\ Len(ring') <= RingSlots /\ drops' \in Nat /\ execs' \in 0..MaxExecs
      <3>1. CASE Exec(c)
        <4>1. /\ ring \in Seq(Cgroup) /\ Len(ring) \in Nat /\ Len(ring) <= RingSlots /\ drops \in Nat
              /\ execs \in Nat /\ execs < MaxExecs /\ execs' = execs + 1
              /\ RingSlots \in Nat /\ MaxExecs \in Nat
          BY <3>1, WindowAssumption DEF TypeOK, Exec
        <4>2. execs' \in 0..MaxExecs
          BY <4>1
        <4>3. CASE Len(ring) < RingSlots /\ ring' = Append(ring, c) /\ UNCHANGED drops
          BY <4>1, <4>2, <4>3
        <4>4. CASE drops' = drops + 1 /\ UNCHANGED ring
          BY <4>1, <4>2, <4>4
        <4> QED BY <3>1, <4>3, <4>4, Zenon DEF Exec
      <3>2. CASE Burn(c) \/ CgroupStarts(c) \/ CgroupEnds(c)
        BY <3>2, Zenon DEF TypeOK, Burn, CgroupStarts, CgroupEnds
      <3> QED BY <3>1, <3>2, Zenon
    <2>2. alive' \subseteq Cgroup /\ future' \subseteq Cgroup
      BY Zenon DEF TypeOK, Exec, Burn, CgroupStarts, CgroupEnds
    <2> QED BY <1>1, <1>3, <2>1, <2>2, Zenon DEF TypeOK, aggVars, samplerVars
  <1>5. SampleInv'
    BY <1>1, Zenon DEF SampleInv, OneSampleAtMost, Waiting, aggVars, samplerVars
  <1>6. SamplerInv'
    <2>1. \A k \in DOMAIN baseline : k \in Cgroup /\ baseline[k] \in Nat /\ usage[k] \in Nat /\ usage'[k] \in Nat
      BY <1>3 DEF TypeOK
    <2>2. \A k \in DOMAIN baseline : baseline[k] <= usage'[k]
      BY <1>3, <2>1 DEF SamplerInv
    <2>3. ASSUME NEW i \in DOMAIN readings PROVE ReadingOK(readings[i])'
      <3>1. readings[i] \in Reading
        BY DEF TypeOK
      <3>2. readings[i].cgroup \in Cgroup /\ (readings[i].cpu # None => readings[i].cpu \in Nat)
        BY <3>1, Zenon DEF Reading
      <3>3. readings[i].cpu # None => readings[i].cpu <= usage'[readings[i].cgroup]
        BY <1>3, <3>2 DEF SamplerInv, ReadingOK, TypeOK
      <3> QED BY <1>1, <3>3, Zenon DEF SamplerInv, ReadingOK, samplerVars
    <2> QED BY <1>1, <1>2, <2>2, <2>3, Zenon DEF SamplerInv, samplerVars
  <1> QED BY <1>2, <1>4, <1>5, <1>6, Zenon

\* Start of a tick, and the reads of the blocking tasks.
LEMMA ReadStep ==
  ASSUME WindowInv, NEW c \in Cgroup, PrimeOne(c) \/ ReadOne(c)
  PROVE  WindowInv'
  <1> USE DEF WindowInv
  <1>1. UNCHANGED <<kernelVars, paths, aggVars, baseline, origin, pc, stopping, seen>>
    BY Zenon DEF PrimeOne, ReadOne
  <1>2. AggInv' /\ (\A k \in Cgroup : OutCpu(k)' = OutCpu(k)) /\ Counted' /\ CpuConserved'
    BY <1>1, AggKept, CountsKept, Zenon
  <1>3. pc \in {"prime", "read"} /\ c \in targets /\ targets' = targets \ {c}
    BY Zenon DEF PrimeOne, ReadOne
  <1>4. CASE UNCHANGED readings
    <2>1. TypeOK'
      BY <1>1, <1>3, <1>4, Zenon DEF TypeOK, kernelVars, aggVars
    <2>2. SampleInv'
      BY <1>1, <1>4, Zenon DEF SampleInv, OneSampleAtMost, Waiting, aggVars
    <2>3. \A i \in DOMAIN readings : ReadingOK(readings[i])'
      BY <1>1, <1>3, <1>4, Zenon DEF SamplerInv, ReadingOK, kernelVars
    <2>4. SamplerInv'
      BY <1>1, <1>2, <1>4, <2>3, Zenon DEF SamplerInv, kernelVars
    <2> QED BY <1>2, <2>1, <2>2, <2>4, Zenon
  <1>5. ASSUME NEW r \in Reading, readings' = Append(readings, r), r.cgroup = c,
               r.cpu = usage[c] \/ (pc = "read" /\ r.cpu = None)
        PROVE  WindowInv'
    <2>1. /\ readings \in Seq(Reading) /\ readings' \in Seq(Reading) /\ Len(readings) \in Nat
          /\ DOMAIN readings = 1..Len(readings) /\ DOMAIN readings' = 1..Len(readings) + 1
          /\ readings'[Len(readings) + 1] = r
          /\ \A i \in DOMAIN readings : readings'[i] = readings[i]
      BY <1>5 DEF TypeOK
    <2>2. \A i \in DOMAIN readings' : i \in DOMAIN readings \/ i = Len(readings) + 1
      BY <2>1
    <2>3. TypeOK'
      BY <1>1, <1>3, <2>1, Zenon DEF TypeOK, kernelVars, aggVars
    <2>4. SampleInv'
      BY <1>1, <1>3, <2>1, <2>2, Zenon DEF SampleInv, OneSampleAtMost, Waiting, aggVars, TypeOK, AggInv, IsBuffer
    <2>5. \A i \in DOMAIN readings : ReadingOK(readings[i])' /\ readings[i].cgroup # c
      BY <1>1, <1>3, <2>1 DEF SamplerInv, ReadingOK, kernelVars
    <2>6. ReadingOK(r)'
      <3>1. c \in DOMAIN baseline => baseline[c] <= usage[c]
        BY Zenon DEF SamplerInv
      <3>2. usage[c] \in Nat /\ None \notin Nat /\ usage' = usage
        BY <1>1 DEF TypeOK, None, kernelVars
      <3> QED BY <1>1, <1>3, <1>5, <3>1, <3>2 DEF ReadingOK
    <2>7. (\A i \in DOMAIN readings : ReadingOK(readings[i]))'
      BY <2>1, <2>2, <2>5, <2>6, Zenon DEF ReadingOK
    <2>8. \A i, j \in DOMAIN readings' : readings'[i].cgroup = readings'[j].cgroup => i = j
      BY <1>5, <2>1, <2>2, <2>5 DEF SamplerInv
    <2>9. SamplerInv'
      BY <1>1, <1>2, <1>3, <2>7, <2>8, Zenon DEF SamplerInv, kernelVars
    <2> QED BY <1>2, <2>3, <2>4, <2>9, Zenon
  <1>6. usage[c] \in Nat
    BY DEF TypeOK
  <1>7. ASSUME ~UNCHANGED readings
        PROVE  \E r \in Reading : /\ readings' = Append(readings, r) /\ r.cgroup = c
                                  /\ r.cpu = usage[c] \/ (pc = "read" /\ r.cpu = None)
    <2>1. CASE PrimeOne(c)
      <3> DEFINE r == [cgroup |-> c, memory |-> FALSE, cpu |-> usage[c]]
      <3>1. r \in Reading /\ readings' = Append(readings, r)
        BY <1>6, <1>7, <2>1, Zenon DEF PrimeOne, Reading
      <3> QED BY <3>1, Zenon
    <2>2. CASE ReadOne(c)
      <3>1. PICK m \in BOOLEAN, u \in {usage[c], None} :
              readings' = Append(readings, [cgroup |-> c, memory |-> m, cpu |-> u])
        BY <1>7, <2>2, Zenon DEF ReadOne
      <3> DEFINE r == [cgroup |-> c, memory |-> m, cpu |-> u]
      <3>2. r \in Reading /\ readings' = Append(readings, r) /\ r.cgroup = c
            /\ r.cpu \in {usage[c], None} /\ pc = "read"
        BY <1>6, <2>2, <3>1, Zenon DEF ReadOne, Reading
      <3> QED BY <3>2, Zenon
    <2> QED BY <2>1, <2>2, Zenon
  <1> QED BY <1>4, <1>5, <1>7, Zenon

\* The other steps of the loop and the sampler without the aggregator.
LEMMA SamplerStep ==
  ASSUME WindowInv,
         \/ Bootstrap \/ Primed \/ Evict \/ ReadsDone \/ ReadsFail
         \/ \E stop \in BOOLEAN : StartTick(stop)
  PROVE  WindowInv'
  <1> USE DEF WindowInv
  <1>1. UNCHANGED <<kernelVars, aggVars, seen>>
    BY Zenon DEF Bootstrap, Primed, Evict, ReadsDone, ReadsFail, StartTick
  <1>2. AggInv' /\ (\A k \in Cgroup : OutCpu(k)' = OutCpu(k)) /\ Counted'
    BY <1>1, AggKept, Zenon DEF Counted, aggVars, Stats
  <1>3. CASE Bootstrap
    <2>1. /\ pc = "bootstrap" /\ pc' = "prime" /\ readings = <<>> /\ paths' \subseteq alive
          /\ targets' = paths' /\ UNCHANGED <<baseline, origin, readings, stopping>>
      BY <1>3, Zenon DEF Bootstrap, Registered, SamplerInv
    <2>2. TypeOK'
      BY <1>1, <2>1, Zenon DEF TypeOK, kernelVars, aggVars
    <2>3. SamplerInv' /\ SampleInv'
      BY <1>1, <1>2, <2>1 DEF SamplerInv, SampleInv, OneSampleAtMost, Waiting, kernelVars, aggVars
    <2> QED BY <1>1, <1>2, <2>1, <2>2, <2>3, CountsKept, Zenon
  <1>4. CASE Evict
    <2>1. paths' \subseteq paths /\ UNCHANGED <<samplerVars, pc, stopping>>
      BY <1>4, Zenon DEF Evict
    <2>2. TypeOK'
      BY <1>1, <2>1, Zenon DEF TypeOK, kernelVars, aggVars, samplerVars
    <2>3. (\A i \in DOMAIN readings : ReadingOK(readings[i]))'
      BY <1>1, <2>1, Zenon DEF SamplerInv, ReadingOK, samplerVars, kernelVars
    <2>4. SamplerInv' /\ SampleInv'
      BY <1>1, <1>2, <2>1, <2>3, Zenon DEF SamplerInv, SampleInv, OneSampleAtMost, Waiting, kernelVars, aggVars, samplerVars
    <2> QED BY <1>1, <1>2, <2>1, <2>2, <2>4, CountsKept, Zenon DEF samplerVars
  <1>5. CASE \E stop \in BOOLEAN : StartTick(stop)
    <2>1. /\ pc = "select" /\ pc' = "read" /\ readings = <<>> /\ stopping' \in BOOLEAN
          /\ targets' = paths /\ UNCHANGED <<paths, baseline, origin, readings>>
      BY <1>5, Zenon DEF StartTick, SampleTargets, SamplerInv
    <2>2. TypeOK'
      BY <1>1, <2>1, Zenon DEF TypeOK, kernelVars, aggVars
    <2>3. SamplerInv' /\ SampleInv'
      BY <1>1, <1>2, <2>1 DEF SamplerInv, SampleInv, OneSampleAtMost, Waiting, kernelVars, aggVars
    <2> QED BY <1>1, <1>2, <2>1, <2>2, <2>3, CountsKept, Zenon
  <1>6. CASE ReadsFail
    <2>1. /\ pc = "read" /\ pc' = "memory" /\ readings' = <<>> /\ targets' = {}
          /\ UNCHANGED <<paths, baseline, origin, stopping>>
      BY <1>6, Zenon DEF ReadsFail
    <2>2. TypeOK'
      BY <1>1, <2>1 DEF TypeOK, kernelVars, aggVars
    <2>3. SamplerInv'
      BY <1>1, <1>2, <2>1 DEF SamplerInv, kernelVars
    <2>4. SampleInv'
      BY <1>1, <2>1, Zenon DEF SampleInv, OneSampleAtMost, Waiting, aggVars
    <2> QED BY <1>1, <1>2, <2>1, <2>2, <2>3, <2>4, CountsKept, Zenon
  <1>7. CASE ReadsDone
    <2>1. /\ pc = "read" /\ pc' = "memory" /\ UNCHANGED <<paths, origin, readings, stopping, targets>>
          /\ baseline' = [c \in DOMAIN baseline \cap ReadSet |-> baseline[c]]
      BY <1>7, Zenon DEF ReadsDone
    <2>2. TypeOK'
      BY <1>1, <2>1, Zenon DEF TypeOK, kernelVars, aggVars
    <2>3. (\A i \in DOMAIN readings : ReadingOK(readings[i]))'
      BY <1>1, <2>1, Zenon DEF SamplerInv, ReadingOK, kernelVars
    <2>4. SamplerInv'
      BY <1>1, <1>2, <2>1, <2>3, Zenon DEF SamplerInv, kernelVars
    <2>5. SampleInv'
      BY <1>1, <2>1, Zenon
         DEF SampleInv, OneSampleAtMost, Waiting, aggVars, TypeOK, AggInv, IsBuffer, SamplerInv, ReadingOK, Reading
    <2>6. CpuConserved'
      BY <1>2, <2>1, Zenon DEF CpuConserved, TypeOK
    <2> QED BY <1>2, <2>2, <2>4, <2>5, <2>6, Zenon
  <1>8. CASE Primed
    <2>1. /\ pc = "prime" /\ pc' = "select" /\ readings' = <<>>
          /\ baseline' = [c \in ReadSet |-> CpuRead(c)]
          /\ origin' = [c \in Cgroup |-> IF c \in ReadSet THEN CpuRead(c) ELSE origin[c]]
          /\ UNCHANGED <<paths, targets, stopping>>
      BY <1>8, Zenon DEF Primed
    <2>2. ASSUME NEW c \in ReadSet
          PROVE  c \in Cgroup /\ CpuRead(c) \in 0..MaxUsage /\ CpuRead(c) <= usage[c]
      <3>1. \E i \in DOMAIN readings : readings[i].cgroup = c
        BY Zenon DEF ReadSet
      <3>2. PICK i \in DOMAIN readings : readings[i].cgroup = c /\ CpuRead(c) = readings[i].cpu
        BY <3>1, Zenon DEF CpuRead
      <3>3. readings[i] \in Reading /\ ReadingOK(readings[i])
        BY DEF TypeOK, SamplerInv
      <3>4. c \in Cgroup /\ CpuRead(c) \in Nat /\ CpuRead(c) <= usage[c]
        BY <2>1, <3>2, <3>3, Zenon DEF Reading, ReadingOK
      <3>5. usage[c] \in 0..MaxUsage /\ MaxUsage \in Nat
        BY <3>4, WindowAssumption, Zenon DEF TypeOK
      <3> QED BY <3>4, <3>5
    <2> HIDE DEF CpuRead, ReadSet
    <2>3. TypeOK'
      BY <1>1, <2>1, <2>2 DEF TypeOK, kernelVars, aggVars
    <2>4. SamplerInv'
      BY <1>1, <2>1, <2>2 DEF SamplerInv, kernelVars
    <2>5. SampleInv'
      BY <1>1, <2>1, Zenon DEF SampleInv, OneSampleAtMost, Waiting, aggVars
    <2>6. CpuConserved'
      BY <1>2, <2>1, <2>2 DEF CpuConserved, SamplerInv
    <2> QED BY <1>2, <2>3, <2>4, <2>5, <2>6, Zenon
  <1> QED BY <1>3, <1>4, <1>5, <1>6, <1>7, <1>8, Zenon
-----------------------------------------------------------------------------
(* Steps of the aggregator. *)

\* An exec event.
LEMMA EventStep ==
  ASSUME WindowInv, OnEvent
  PROVE  WindowInv'
  <1> USE DEF WindowInv
  <1>1. /\ pc = "select" /\ readings = <<>> /\ ring # <<>> /\ ring' = Tail(ring)
        /\ UNCHANGED <<future, alive, usage, drops, execs, samplerVars, pc, stopping>>
    BY Zenon DEF OnEvent, SamplerInv
  <1>2. PICK c : c = Head(ring)
    BY Zenon
  <1>3. /\ c \in Cgroup /\ ring' \in Seq(Cgroup) /\ Len(ring') <= RingSlots
    BY <1>1, <1>2, WindowAssumption DEF TypeOK
  <1>4. PICK old : old = Stats(buffers[active], c)
    BY Zenon
  <1>5. old \in Row /\ old.samples = 0
    BY <1>1, <1>4, StatsType, Zenon DEF AggInv, SampleInv, Stats, NoStats
  <1>6. PICK s : s = [old EXCEPT !.exec = @ + 1]
    BY Zenon
  <1>7. s \in Row /\ s.exec = old.exec + 1 /\ s.samples = 0 /\ s.cpu = old.cpu
    BY <1>5, <1>6 DEF Row
  <1>8. PICK b : b = Upsert(c, s)
    BY Zenon
  <1>9. /\ Ingest(b) /\ seen' = [seen EXCEPT ![c] = @ + 1] /\ LearnsPath(c)
    BY <1>2, <1>4, <1>6, <1>8, Zenon DEF OnEvent, OneMoreExec
  <1>10. /\ IsBuffer(b) /\ DOMAIN b = DOMAIN buffers[active] \cup {c}
         /\ b[c] = s /\ Stats(b, c) = s
         /\ \A k \in DOMAIN buffers[active] : k # c => b[k] = buffers[active][k]
         /\ \A k \in Cgroup : k # c => Stats(b, k) = Stats(buffers[active], k)
    <2>1. c \in Cgroup /\ s \in Row /\ AggInv
      BY <1>3, <1>7, Zenon
    <2>2. b = [k \in DOMAIN buffers[active] \cup {c} |-> IF k = c THEN s ELSE buffers[active][k]]
      BY <1>8, Zenon DEF Upsert
    <2> QED BY <2>1, <2>2, UpsertEffect
  <1>11. /\ AggInv'
         /\ \A k \in DOMAIN (buffers[active])' :
              k \in DOMAIN b /\ (buffers[active])'[k] = b[k]
         /\ \A k \in Cgroup :
              /\ (out[k].exec + Stats(buffers[active], k).exec)' = out[k].exec + Stats(b, k).exec
              /\ OutCpu(k)' = out[k].cpu + Stats(b, k).cpu
    BY <1>9, <1>10, IngestEffect, Zenon
  <1>12. TypeOK'
    <2>1. paths' \subseteq Cgroup
      BY <1>9, Zenon DEF LearnsPath, TypeOK
    <2>2. seen' \in [Cgroup -> Nat]
      BY <1>3, <1>9 DEF TypeOK
    <2> QED BY <1>1, <1>3, <1>11, <2>1, <2>2, Zenon DEF TypeOK, AggInv, IsBuffer, samplerVars
  <1>13. \A k \in Cgroup : out[k].exec \in Nat /\ out[k].cpu \in Nat
    BY Zenon DEF AggInv
  <1>14. Counted'
    <2>1. ASSUME NEW k \in Cgroup PROVE seen'[k] = out[k].exec + Stats(b, k).exec
      <3>1. seen[k] = out[k].exec + Stats(buffers[active], k).exec /\ seen[k] \in Nat
        BY Zenon DEF Counted, TypeOK
      <3>2. old.exec \in Nat
        BY <1>5, Zenon DEF Row
      <3>3. CASE k = c
        <4>1. seen'[c] = seen[c] + 1
          BY <1>3, <1>9, Zenon DEF TypeOK
        <4>2. Stats(b, k).exec = old.exec + 1 /\ Stats(buffers[active], k).exec = old.exec
          BY <1>4, <1>7, <1>10, <3>3, Zenon
        <4> QED BY <1>13, <3>1, <3>2, <3>3, <4>1, <4>2
      <3>4. CASE k # c
        BY <1>9, <1>10, <3>1, <3>4, Zenon DEF TypeOK
      <3> QED BY <3>3, <3>4, Zenon
    <2> QED BY <1>11, <2>1, Zenon DEF Counted
  <1>15. \A k \in Cgroup : OutCpu(k)' = OutCpu(k)
    BY <1>4, <1>7, <1>10, <1>11 DEF OutCpu
  <1>16. CpuConserved'
    BY <1>1, <1>15, Zenon DEF CpuConserved, samplerVars, TypeOK
  <1>17. \A k \in DOMAIN (buffers[active])' : (buffers[active])'[k].samples = 0
    BY <1>1, <1>7, <1>10, <1>11, Zenon DEF SampleInv
  <1>18. SampleInv'
    BY <1>1, <1>17 DEF SampleInv, OneSampleAtMost, Waiting, samplerVars
  <1>19. SamplerInv'
    BY <1>1, <1>15 DEF SamplerInv, samplerVars
  <1> QED BY <1>11, <1>12, <1>14, <1>16, <1>18, <1>19, Zenon

\* The memory of the next reading: its row was not sampled before.
LEMMA MemoryStep ==
  ASSUME WindowInv, IngestMemory
  PROVE  WindowInv'
  <1> USE DEF WindowInv
  <1>1. /\ pc = "memory" /\ pc' = "cpu" /\ readings # <<>>
        /\ UNCHANGED <<kernelVars, paths, samplerVars, stopping, seen>>
    BY Zenon DEF IngestMemory
  <1>2. PICK c : c = Head(readings).cgroup
    BY Zenon
  <1>3. /\ 1 \in DOMAIN readings /\ Head(readings) = readings[1] /\ readings[1] \in Reading
        /\ \A i \in DOMAIN readings : i \in Nat /\ i >= 1 /\ i \in Waiting
    BY <1>1 DEF TypeOK, Waiting
  <1>4. c \in Cgroup /\ \A i \in DOMAIN readings : i > 1 => readings[i].cgroup # c
    BY <1>2, <1>3 DEF Reading, SamplerInv
  <1>5. /\ (\A i \in DOMAIN readings : ReadingOK(readings[i]))'
        /\ Waiting' = {i \in DOMAIN readings : i > 1}
    BY <1>1, Zenon DEF SamplerInv, ReadingOK, samplerVars, kernelVars, Waiting
  <1>6. CASE ~Head(readings).memory
    <2>1. UNCHANGED aggVars
      BY <1>6, Zenon DEF IngestMemory
    <2>2. AggInv' /\ (\A k \in Cgroup : OutCpu(k)' = OutCpu(k)) /\ Counted' /\ CpuConserved'
      BY <1>1, <2>1, AggKept, CountsKept, Zenon DEF samplerVars
    <2>3. TypeOK'
      BY <1>1, <2>1, Zenon DEF TypeOK, kernelVars, aggVars, samplerVars
    <2>4. SampleInv'
      BY <1>1, <1>3, <1>5, <2>1, Zenon DEF SampleInv, OneSampleAtMost, aggVars, samplerVars
    <2>5. SamplerInv'
      BY <1>1, <1>5, <2>2, Zenon DEF SamplerInv, samplerVars, kernelVars
    <2> QED BY <2>2, <2>3, <2>4, <2>5, Zenon
  <1>7. CASE Head(readings).memory
    <2>1. PICK old : old = Stats(buffers[active], c)
      BY Zenon
    <2>2. old \in Row /\ old.samples = 0
      <3>1. c \in DOMAIN buffers[active] => buffers[active][c].samples = 0
        BY <1>2, <1>3, Zenon DEF SampleInv
      <3> QED BY <2>1, <3>1, StatsType, Zenon DEF AggInv, Stats, NoStats
    <2>3. PICK s : s = [old EXCEPT !.samples = @ + 1]
      BY Zenon
    <2>4. s \in Row /\ s.exec = old.exec /\ s.samples = 1 /\ s.cpu = old.cpu
      BY <2>2, <2>3 DEF Row
    <2>5. PICK b : b = Upsert(c, s)
      BY Zenon
    <2>6. Ingest(b)
      BY <1>2, <1>7, <2>1, <2>3, <2>5, Zenon DEF IngestMemory
    <2>7. /\ IsBuffer(b) /\ DOMAIN b = DOMAIN buffers[active] \cup {c}
          /\ b[c] = s /\ Stats(b, c) = s
          /\ \A k \in DOMAIN buffers[active] : k # c => b[k] = buffers[active][k]
          /\ \A k \in Cgroup : k # c => Stats(b, k) = Stats(buffers[active], k)
      BY <1>4, <2>4, <2>5, UpsertEffect DEF Upsert
    <2>8. /\ AggInv'
          /\ \A k \in DOMAIN (buffers[active])' :
               k \in DOMAIN b /\ (buffers[active])'[k] = b[k]
          /\ \A k \in Cgroup :
               /\ (out[k].exec + Stats(buffers[active], k).exec)' = out[k].exec + Stats(b, k).exec
               /\ OutCpu(k)' = out[k].cpu + Stats(b, k).cpu
      BY <2>6, <2>7, IngestEffect, Zenon
    <2>9. \A k \in Cgroup : Stats(b, k).exec = Stats(buffers[active], k).exec
                            /\ Stats(b, k).cpu = Stats(buffers[active], k).cpu
      BY <2>1, <2>4, <2>7, Zenon
    <2>10. Counted' /\ \A k \in Cgroup : OutCpu(k)' = OutCpu(k)
      BY <1>1, <2>8, <2>9, Zenon DEF Counted, OutCpu
    <2>11. CpuConserved'
      BY <1>1, <2>10, Zenon DEF CpuConserved, samplerVars, TypeOK
    <2>12. TypeOK'
      BY <1>1, <2>8, Zenon DEF TypeOK, AggInv, IsBuffer, kernelVars, samplerVars
    <2>13. SampleInv'
      <3>1. ASSUME NEW k \in DOMAIN (buffers[active])' PROVE (buffers[active])'[k].samples <= 1
        BY <2>4, <2>7, <2>8 DEF SampleInv, OneSampleAtMost
      <3>2. ASSUME NEW i \in DOMAIN readings, i > 1,
                   readings[i].cgroup \in DOMAIN (buffers[active])'
            PROVE  (buffers[active])'[readings[i].cgroup].samples = 0
        BY <1>3, <1>4, <2>7, <2>8, <3>2 DEF SampleInv
      <3> QED BY <1>1, <1>5, <3>1, <3>2, Zenon DEF SampleInv, OneSampleAtMost, samplerVars
    <2>14. SamplerInv'
      BY <1>1, <1>5, <2>10, Zenon DEF SamplerInv, samplerVars, kernelVars
    <2> QED BY <2>8, <2>10, <2>11, <2>12, <2>13, <2>14, Zenon
  <1> QED BY <1>6, <1>7, Zenon

\* The CPU of the reading: billed from the baseline, or the first one.
LEMMA CpuStep ==
  ASSUME WindowInv, IngestCpu
  PROVE  WindowInv'
  <1> USE DEF WindowInv
  <1>1. /\ pc = "cpu" /\ pc' = "memory" /\ readings # <<>> /\ readings' = Tail(readings)
        /\ UNCHANGED <<kernelVars, paths, targets, stopping, seen>>
    BY Zenon DEF IngestCpu, SamplerInv
  <1>2. PICK c, v : c = Head(readings).cgroup /\ v = Head(readings).cpu
    BY Zenon
  <1>3. /\ 1 \in DOMAIN readings /\ Head(readings) = readings[1] /\ readings[1] \in Reading
        /\ \A i \in DOMAIN readings : i \in Nat /\ i >= 1
        /\ readings' \in Seq(Reading)
        /\ \A i \in DOMAIN readings' :
             /\ i \in Nat /\ i + 1 \in DOMAIN readings /\ i + 1 > 1
             /\ readings'[i] = readings[i + 1]
    BY <1>1 DEF TypeOK
  <1>4. /\ c \in Cgroup /\ v \in Nat \cup {None} /\ ReadingOK(readings[1])
        /\ \A i \in DOMAIN readings : i > 1 => readings[i].cgroup # c
    BY <1>2, <1>3 DEF Reading, SamplerInv
  <1>5. usage[c] \in 0..MaxUsage /\ MaxUsage \in Nat /\ None \notin Nat
    BY <1>4, WindowAssumption DEF TypeOK, None
  <1>6. v # None => v \in 0..MaxUsage /\ v <= usage[c] /\ (c \in DOMAIN baseline => baseline[c] <= v)
    BY <1>2, <1>3, <1>4, <1>5 DEF ReadingOK
  <1>7. \A i, j \in DOMAIN readings' : readings'[i].cgroup = readings'[j].cgroup => i = j
    BY <1>3 DEF SamplerInv
  <1>8. ASSUME origin' \in [Cgroup -> Int],
               \/ UNCHANGED baseline
               \/ v # None /\ baseline' = NewBaseline(c, v)
        PROVE  /\ SamplerInv'
               /\ DOMAIN baseline' \subseteq Cgroup
               /\ \A k \in DOMAIN baseline' : baseline'[k] \in 0..MaxUsage
    <2>1. /\ DOMAIN baseline' \in {DOMAIN baseline, DOMAIN baseline \cup {c}}
          /\ baseline' = [k \in DOMAIN baseline' |-> baseline'[k]]
          /\ \A k \in DOMAIN baseline' :
               \/ k \in DOMAIN baseline /\ baseline'[k] = baseline[k]
               \/ v # None /\ k = c /\ baseline'[k] = v
      BY <1>8, Zenon DEF NewBaseline, SamplerInv
    <2>2. /\ DOMAIN baseline' \subseteq Cgroup
          /\ \A k \in DOMAIN baseline' : baseline'[k] \in 0..MaxUsage /\ baseline'[k] <= usage[k]
      BY <1>4, <1>6, <2>1, Zenon DEF TypeOK, SamplerInv
    <2>3. ASSUME NEW i \in DOMAIN readings' PROVE ReadingOK(readings[i])'
      <3>1. ReadingOK(readings[i + 1]) /\ readings[i + 1].cgroup # c /\ readings'[i] = readings[i + 1]
        BY <1>3, <1>4, Zenon DEF SamplerInv
      <3> QED BY <1>1, <2>1, <3>1, Zenon DEF ReadingOK, kernelVars
    <2> QED BY <1>1, <1>7, <1>8, <2>1, <2>2, <2>3, Zenon DEF SamplerInv, kernelVars
  <1>9. ASSUME OneSampleAtMost',
               \A k \in DOMAIN (buffers[active])' :
                 k = c \/ (k \in DOMAIN buffers[active] /\ (buffers[active])'[k].samples = buffers[active][k].samples)
        PROVE  SampleInv'
    <2>1. ASSUME NEW i \in DOMAIN readings', readings'[i].cgroup \in DOMAIN (buffers[active])'
          PROVE  (buffers[active])'[readings'[i].cgroup].samples = 0
      <3>1. i + 1 \in Waiting /\ readings'[i] = readings[i + 1] /\ readings[i + 1].cgroup # c
        BY <1>3, <1>4, Zenon DEF Waiting
      <3> QED BY <1>9, <2>1, <3>1, Zenon DEF SampleInv
    <2> QED BY <1>1, <1>9, <2>1, Zenon DEF SampleInv, Waiting
  <1>10. CASE v = None /\ UNCHANGED <<aggVars, baseline, origin>>
    <2>1. AggInv' /\ Counted' /\ CpuConserved'
      BY <1>1, <1>10, AggKept, CountsKept, Zenon
    <2>2. SamplerInv'
      BY <1>8, <1>10, Zenon DEF SamplerInv
    <2>3. SampleInv'
      BY <1>9, <1>10, Zenon DEF SampleInv, OneSampleAtMost, aggVars
    <2>4. TypeOK'
      BY <1>1, <1>3, <1>10, Zenon DEF TypeOK, kernelVars, aggVars
    <2> QED BY <2>1, <2>2, <2>3, <2>4, Zenon
  <1>11. ASSUME NEW d, v # None, c \in DOMAIN baseline, baseline' = NewBaseline(c, v), UNCHANGED origin,
                d = (IF v >= baseline[c] THEN v - baseline[c] ELSE 0),
                Ingest(Upsert(c, [Stats(buffers[active], c) EXCEPT !.cpu = @ + d]))
         PROVE  WindowInv'
    <2>1. baseline[c] \in Nat /\ d \in Nat /\ d = v - baseline[c] /\ v \in Nat
      BY <1>6, <1>11 DEF TypeOK
    <2>2. PICK old : old = Stats(buffers[active], c)
      BY Zenon
    <2>3. old \in Row /\ old.samples <= 1
      BY <2>2, StatsType DEF AggInv, SampleInv, OneSampleAtMost, Stats, NoStats
    <2>4. PICK s : s = [old EXCEPT !.cpu = @ + d]
      BY Zenon
    <2>5. s \in Row /\ s.exec = old.exec /\ s.samples = old.samples /\ s.cpu = old.cpu + d
      BY <2>1, <2>3, <2>4 DEF Row
    <2>6. PICK b : b = Upsert(c, s)
      BY Zenon
    <2>7. Ingest(b)
      BY <1>11, <2>2, <2>4, <2>6, Zenon
    <2>8. /\ IsBuffer(b) /\ DOMAIN b = DOMAIN buffers[active] \cup {c}
          /\ b[c] = s /\ Stats(b, c) = s
          /\ \A k \in DOMAIN buffers[active] : k # c => b[k] = buffers[active][k]
          /\ \A k \in Cgroup : k # c => Stats(b, k) = Stats(buffers[active], k)
      BY <1>4, <2>5, <2>6, UpsertEffect DEF Upsert
    <2>9. /\ AggInv'
          /\ \A k \in DOMAIN (buffers[active])' :
               k \in DOMAIN b /\ (buffers[active])'[k] = b[k]
          /\ \A k \in Cgroup :
               /\ (out[k].exec + Stats(buffers[active], k).exec)' = out[k].exec + Stats(b, k).exec
               /\ OutCpu(k)' = out[k].cpu + Stats(b, k).cpu
      BY <2>7, <2>8, IngestEffect, Zenon
    <2>10. Counted'
      BY <1>1, <2>2, <2>5, <2>8, <2>9 DEF Counted
    <2>11. CpuConserved'
      <3>1. DOMAIN baseline' = DOMAIN baseline /\ baseline'[c] = v
            /\ \A k \in DOMAIN baseline : k # c => baseline'[k] = baseline[k]
        BY <1>11, Zenon DEF NewBaseline
      <3>2. \A k \in Cgroup : k # c => OutCpu(k)' = OutCpu(k)
        BY <2>8, <2>9, Zenon DEF OutCpu
      <3>3. OutCpu(c) = out[c].cpu + old.cpu /\ OutCpu(c)' = out[c].cpu + (old.cpu + d)
        BY <1>4, <2>2, <2>5, <2>8, <2>9, Zenon DEF OutCpu
      <3>4. out[c].cpu \in Nat /\ old.cpu \in Nat /\ origin[c] \in Int
        BY <1>4, <2>3, Zenon DEF AggInv, Row, SamplerInv
      <3>5. OutCpu(c) = baseline[c] - origin[c]
        BY <1>11, Zenon DEF CpuConserved
      <3>6. OutCpu(c)' = v - origin[c]
        BY <2>1, <3>3, <3>4, <3>5
      <3> QED BY <1>11, <3>1, <3>2, <3>6, Zenon DEF CpuConserved, TypeOK
    <2>12. SampleInv'
      <3>1. OneSampleAtMost'
        BY <2>3, <2>5, <2>8, <2>9 DEF SampleInv, OneSampleAtMost
      <3> QED BY <1>9, <2>8, <2>9, <3>1, Zenon
    <2>13. /\ SamplerInv' /\ DOMAIN baseline' \subseteq Cgroup
           /\ \A k \in DOMAIN baseline' : baseline'[k] \in 0..MaxUsage
      BY <1>8, <1>11, Zenon DEF SamplerInv
    <2>14. TypeOK'
      BY <1>1, <1>3, <2>9, <2>13, Zenon DEF TypeOK, AggInv, IsBuffer, kernelVars
    <2> QED BY <2>9, <2>10, <2>11, <2>12, <2>13, <2>14, Zenon
  <1>12. CASE /\ v # None /\ c \notin DOMAIN baseline /\ baseline' = NewBaseline(c, v)
              /\ origin' = [origin EXCEPT ![c] = v - OutCpu(c)] /\ UNCHANGED aggVars
    <2>1. AggInv' /\ (\A k \in Cgroup : OutCpu(k)' = OutCpu(k)) /\ Counted'
      BY <1>1, <1>12, AggKept, Zenon DEF Counted, aggVars, Stats
    <2>2. OutCpu(c) \in Nat /\ v \in Nat
      BY <1>4, <1>12, StatsType DEF OutCpu, AggInv, Row
    <2>3. origin' \in [Cgroup -> Int] /\ origin'[c] = v - OutCpu(c)
          /\ \A k \in Cgroup : k # c => origin'[k] = origin[k]
      BY <1>4, <1>12, <2>2 DEF SamplerInv
    <2>4. /\ SamplerInv' /\ DOMAIN baseline' \subseteq Cgroup
          /\ \A k \in DOMAIN baseline' : baseline'[k] \in 0..MaxUsage
      BY <1>8, <1>12, <2>3, Zenon
    <2>5. CpuConserved'
      <3>1. DOMAIN baseline' = DOMAIN baseline \cup {c} /\ baseline'[c] = v
            /\ \A k \in DOMAIN baseline : k # c => baseline'[k] = baseline[k]
        BY <1>12, Zenon DEF NewBaseline
      <3>2. OutCpu(c)' = baseline'[c] - origin'[c]
        BY <1>4, <2>1, <2>2, <2>3, <3>1
      <3> QED BY <2>1, <2>3, <3>1, <3>2, Zenon DEF CpuConserved, TypeOK
    <2>6. SampleInv'
      BY <1>9, <1>12, Zenon DEF SampleInv, OneSampleAtMost, aggVars
    <2>7. TypeOK'
      BY <1>1, <1>3, <1>12, <2>4, Zenon DEF TypeOK, kernelVars, aggVars
    <2> QED BY <2>1, <2>4, <2>5, <2>6, <2>7, Zenon
  <1> QED
    <2>1. \/ v = None /\ UNCHANGED <<aggVars, baseline, origin>>
          \/ /\ v # None /\ c \in DOMAIN baseline /\ baseline' = NewBaseline(c, v) /\ UNCHANGED origin
             /\ \E d : /\ d = (IF v >= baseline[c] THEN v - baseline[c] ELSE 0)
                       /\ Ingest(Upsert(c, [Stats(buffers[active], c) EXCEPT !.cpu = @ + d]))
          \/ /\ v # None /\ c \notin DOMAIN baseline /\ baseline' = NewBaseline(c, v)
             /\ origin' = [origin EXCEPT ![c] = v - OutCpu(c)] /\ UNCHANGED aggVars
      BY <1>2, Zenon DEF IngestCpu
    <2> QED BY <1>10, <1>11, <1>12, <2>1, Zenon

\* The end of a window.
LEMMA FlushStep ==
  ASSUME WindowInv, Flush
  PROVE  WindowInv'
  <1> USE DEF WindowInv
  <1>1. /\ pc = "memory" /\ pc' \in {"select", "stopped"} /\ readings = <<>>
        /\ UNCHANGED <<kernelVars, paths, samplerVars, stopping, seen>>
    BY Zenon DEF Flush
  <1>2. PICK b : b = buffers[active]
    BY Zenon
  <1>3. FlushOf(b) /\ IsBuffer(b)
    BY <1>2, Zenon DEF Flush, AggInv
  <1>4. /\ AggInv' /\ DOMAIN (buffers[active])' = {}
        /\ \A c \in Cgroup :
             /\ (out[c].exec + Stats(buffers[active], c).exec)' = out[c].exec + Stats(b, c).exec
             /\ OutCpu(c)' = out[c].cpu + Stats(b, c).cpu
    BY <1>2, <1>3, FlushEffect, Zenon
  <1>5. Counted' /\ \A c \in Cgroup : OutCpu(c)' = OutCpu(c)
    BY <1>1, <1>2, <1>4, Zenon DEF Counted, OutCpu
  <1>6. CpuConserved'
    BY <1>1, <1>5, Zenon DEF CpuConserved, samplerVars, TypeOK
  <1>7. TypeOK'
    BY <1>1, <1>4, Zenon DEF TypeOK, AggInv, IsBuffer, kernelVars, samplerVars
  <1>8. SampleInv'
    BY <1>1, <1>4, Zenon DEF SampleInv, OneSampleAtMost, Waiting, samplerVars
  <1>9. SamplerInv'
    BY <1>1, <1>5 DEF SamplerInv, samplerVars, kernelVars
  <1> QED BY <1>4, <1>5, <1>6, <1>7, <1>8, <1>9, Zenon
-----------------------------------------------------------------------------
(* The exec events taken, over all cgroups.  The invariant carries the       *)
(* partial sums themselves, which one event changes pointwise; that the      *)
(* recursion of MapThenSumSet has no other solution is well-founded          *)
(* induction on the subsets of Cgroup.                                       *)

First(s) == CHOOSE c \in s : TRUE

\* f sums n over every set of cgroups, in the order in which MapThenSumSet visits it.
Sums(f, n) ==
  f = [s \in SUBSET Cgroup |-> IF s = {} THEN 0 ELSE n[First(s)] + f[s \ {First(s)}]]

ExecInv ==
  \E f \in [SUBSET Cgroup -> Nat] :
    Sums(f, seen) /\ execs = drops + Len(ring) + f[Cgroup]

LEMMA FirstOf == \A s \in SUBSET Cgroup : s # {} => First(s) \in s /\ First(s) \in Cgroup
  BY Zenon DEF First

LEMMA SumsUnique ==
  ASSUME NEW n, NEW f, NEW g, Sums(f, n), Sums(g, n)
  PROVE  f = g
  <1> DEFINE R == StrictSubsetOrdering(Cgroup)
             T == {s \in SUBSET Cgroup : f[s] # g[s]}
  <1>1. /\ f = [s \in SUBSET Cgroup |-> f[s]] /\ g = [s \in SUBSET Cgroup |-> g[s]]
        /\ \A s \in SUBSET Cgroup :
             /\ f[s] = IF s = {} THEN 0 ELSE n[First(s)] + f[s \ {First(s)}]
             /\ g[s] = IF s = {} THEN 0 ELSE n[First(s)] + g[s \ {First(s)}]
    BY Zenon DEF Sums
  <1>2. IsWellFoundedOn(R, FiniteSubsetsOf(Cgroup)) /\ SUBSET Cgroup = FiniteSubsetsOf(Cgroup)
    BY WindowAssumption, FS_Subset, FS_StrictSubsetOrderingWellFounded, Zenon DEF FiniteSubsetsOf
  <1>3. ASSUME T # {} PROVE FALSE
    <2>1. PICK s \in T : \A r \in T : ~(<<r, s>> \in R)
      <3>1. T \subseteq FiniteSubsetsOf(Cgroup)
        BY <1>2, Zenon
      <3> HIDE DEF R, T
      <3> QED BY <1>2, <1>3, <3>1, WFMin, Zenon
    <2>2. s \in SUBSET Cgroup /\ f[s] # g[s]
      BY <2>1, Zenon
    <2>3. s # {} /\ First(s) \in s
      BY <1>1, <2>2, FirstOf, Zenon
    <2>4. <<s \ {First(s)}, s>> \in R /\ s \ {First(s)} \in SUBSET Cgroup
      BY <2>2, <2>3, Zenon DEF StrictSubsetOrdering
    <2>5. f[s \ {First(s)}] = g[s \ {First(s)}]
      BY <2>1, <2>4, Zenon
    <2> QED BY <1>1, <2>2, <2>3, <2>5, Zenon
  <1> QED BY <1>1, <1>3, Zenon

\* One more event of a cgroup is one more in every sum over a set that has it.
LEMMA SumsStep ==
  ASSUME NEW n \in [Cgroup -> Nat], NEW f \in [SUBSET Cgroup -> Nat], Sums(f, n), NEW c \in Cgroup
  PROVE  \E g \in [SUBSET Cgroup -> Nat] :
           Sums(g, [n EXCEPT ![c] = @ + 1]) /\ g[Cgroup] = f[Cgroup] + 1
  <1> DEFINE g == [s \in SUBSET Cgroup |-> IF c \in s THEN f[s] + 1 ELSE f[s]]
             m == [n EXCEPT ![c] = @ + 1]
  <1>1. g \in [SUBSET Cgroup -> Nat] /\ g[Cgroup] = f[Cgroup] + 1
    OBVIOUS
  <1>2. ASSUME NEW s \in SUBSET Cgroup
        PROVE  g[s] = IF s = {} THEN 0 ELSE m[First(s)] + g[s \ {First(s)}]
    <2>1. f[s] = IF s = {} THEN 0 ELSE n[First(s)] + f[s \ {First(s)}]
      BY Zenon DEF Sums
    <2>2. CASE s = {}
      BY <2>1, <2>2, Zenon
    <2>3. CASE s # {}
      <3>1. PICK x, r : x = First(s) /\ r = s \ {First(s)}
        BY Zenon
      <3>2. x \in s /\ x \in Cgroup /\ r \in SUBSET Cgroup /\ (c \in s <=> c = x \/ c \in r) /\ x \notin r
        BY <2>3, <3>1, FirstOf, Zenon
      <3>3. /\ f[s] = n[x] + f[r] /\ n[x] \in Nat /\ f[r] \in Nat /\ f[s] \in Nat
            /\ g[s] = IF c \in s THEN f[s] + 1 ELSE f[s]
            /\ g[r] = IF c \in r THEN f[r] + 1 ELSE f[r]
            /\ m[x] = IF x = c THEN n[x] + 1 ELSE n[x]
        BY <2>1, <2>3, <3>1, <3>2, Zenon
      <3>4. g[s] = m[x] + g[r]
        <4> HIDE DEF g, m
        <4> QED BY <3>2, <3>3
      <3> QED BY <2>3, <3>1, <3>4, Zenon
    <2> QED BY <2>2, <2>3, Zenon
  <1>3. Sums(g, m)
    BY <1>2, Zenon DEF Sums
  <1> QED BY <1>1, <1>3, Zenon

-----------------------------------------------------------------------------
LEMMA WindowInit == Init => WindowInv
  <1> SUFFICES ASSUME Init PROVE WindowInv
    BY Zenon
  <1> USE DEF Init
  <1>1. TypeOK
    <2>1. /\ usage \in [Cgroup -> 0..MaxUsage] /\ drops \in Nat /\ execs \in 0..MaxExecs /\ seen \in [Cgroup -> Nat]
      BY WindowAssumption
    <2>2. ring \in Seq(Cgroup) /\ Len(ring) = 0 /\ Len(ring) <= RingSlots /\ readings \in Seq(Reading)
      BY WindowAssumption
    <2>3. DOMAIN buffers = {0, 1} /\ \A i \in {0, 1} : DOMAIN buffers[i] = {}
      BY Zenon DEF EmptyMap
    <2> QED BY <2>1, <2>2, <2>3, Zenon DEF TypeOK, EmptyMap
  <1>2. Cardinality({}) = 0 /\ MaxKeys \in Nat \ {0}
    BY WindowAssumption, FS_EmptySet, Zenon
  <1>3. AggInv
    BY <1>2 DEF AggInv, IsBuffer, EmptyMap, BelowMaxKeys
  <1>4. \A c \in Cgroup : Stats(buffers[active], c) = NoStats
    BY Zenon DEF Stats, EmptyMap
  <1>5. Counted /\ CpuConserved /\ \A c \in Cgroup : OutCpu(c) = 0
    BY <1>4 DEF Counted, CpuConserved, OutCpu, NoStats, EmptyMap
  <1>6. SamplerInv /\ SampleInv
    BY <1>5 DEF SamplerInv, SampleInv, OneSampleAtMost, Waiting, EmptyMap
  <1> QED BY <1>1, <1>3, <1>5, <1>6, Zenon DEF WindowInv

LEMMA WindowStep == WindowInv /\ [Next]_vars => WindowInv'
  <1> SUFFICES ASSUME WindowInv, [Next]_vars PROVE WindowInv'
    BY Zenon
  <1>1. CASE UNCHANGED vars
    <2> USE DEF vars, kernelVars, aggVars, samplerVars
    <2>1. TypeOK' BY <1>1 DEF WindowInv, TypeOK
    <2>2. AggInv' BY <1>1 DEF WindowInv, AggInv, IsBuffer, BelowMaxKeys
    <2>3. SamplerInv' BY <1>1 DEF WindowInv, SamplerInv, ReadingOK, OutCpu, Stats
    <2>4. Counted' BY <1>1 DEF WindowInv, Counted
    <2>5. CpuConserved' BY <1>1 DEF WindowInv, CpuConserved, OutCpu, Stats
    <2>6. SampleInv' BY <1>1 DEF WindowInv, SampleInv, OneSampleAtMost, Waiting
    <2> QED BY <2>1, <2>2, <2>3, <2>4, <2>5, <2>6, Zenon DEF WindowInv
  <1>2. CASE Next
    BY <1>2, KernelStep, ReadStep, SamplerStep, EventStep, MemoryStep, CpuStep, FlushStep, Zenon DEF Next
  <1> QED BY <1>1, <1>2, Zenon

LEMMA WindowInductive == Spec => []WindowInv
  BY WindowInit, WindowStep, PTL DEF Spec

\* Kernel, aggregator, sampler and select loop of the agent are well-typed in every
\* reachable state, and the ring buffer is within its slots.
THEOREM WindowTypeCorrect == Spec => []TypeOK
  <1>1. WindowInv => TypeOK
    BY Zenon DEF WindowInv
  <1> QED BY <1>1, WindowInductive, PTL

LEMMA ExecInvInit == Init => ExecInv
  <1> SUFFICES ASSUME Init PROVE ExecInv
    BY Zenon
  <1> DEFINE f == [s \in SUBSET Cgroup |-> 0]
  <1>1. \A c \in Cgroup : seen[c] = 0
    BY Zenon DEF Init
  <1>2. Sums(f, seen)
    <2>1. \A s \in SUBSET Cgroup : f[s] = IF s = {} THEN 0 ELSE seen[First(s)] + f[s \ {First(s)}]
      BY <1>1, FirstOf
    <2> QED BY <2>1, Zenon DEF Sums
  <1>3. f \in [SUBSET Cgroup -> Nat] /\ f[Cgroup] = 0 /\ execs = drops + Len(ring) + 0
    BY DEF Init
  <1> QED BY <1>2, <1>3, Zenon DEF ExecInv

LEMMA ExecInvStep == TypeOK /\ ExecInv /\ [Next]_vars => ExecInv'
  <1> SUFFICES ASSUME TypeOK, ExecInv, [Next]_vars PROVE ExecInv'
    BY Zenon
  <1>1. PICK f \in [SUBSET Cgroup -> Nat] : Sums(f, seen) /\ execs = drops + Len(ring) + f[Cgroup]
    BY Zenon DEF ExecInv
  <1>2. /\ ring \in Seq(Cgroup) /\ Len(ring) \in Nat /\ drops \in Nat /\ execs \in Nat
        /\ seen \in [Cgroup -> Nat] /\ f[Cgroup] \in Nat
    BY <1>1 DEF TypeOK
  <1>3. CASE UNCHANGED <<ring, drops, execs, seen>>
    BY <1>1, <1>3, Zenon DEF ExecInv
  <1>4. ASSUME NEW c \in Cgroup, Exec(c) PROVE ExecInv'
    <2>1. /\ execs' = execs + 1 /\ seen' = seen
          /\ \/ ring' = Append(ring, c) /\ drops' = drops
             \/ ring' = ring /\ drops' = drops + 1
      BY <1>4, Zenon DEF Exec
    <2>2. execs' = drops' + Len(ring') + f[Cgroup]
      BY <1>1, <1>2, <2>1
    <2> QED BY <1>1, <2>1, <2>2, Zenon DEF ExecInv
  <1>5. ASSUME OnEvent PROVE ExecInv'
    <2>1. PICK c : c = Head(ring)
      BY Zenon
    <2>2. /\ ring # <<>> /\ ring' = Tail(ring) /\ seen' = [seen EXCEPT ![c] = @ + 1]
          /\ drops' = drops /\ execs' = execs
      BY <1>5, <2>1, Zenon DEF OnEvent
    <2>3. c \in Cgroup /\ Len(ring') = Len(ring) - 1
      BY <1>2, <2>1, <2>2
    <2>4. PICK g \in [SUBSET Cgroup -> Nat] : Sums(g, seen') /\ g[Cgroup] = f[Cgroup] + 1
      <3>1. PICK g \in [SUBSET Cgroup -> Nat] :
              Sums(g, [seen EXCEPT ![c] = @ + 1]) /\ g[Cgroup] = f[Cgroup] + 1
        BY <1>1, <1>2, <2>3, SumsStep, Zenon
      <3> QED BY <2>2, <3>1, Zenon
    <2>5. execs' = drops' + Len(ring') + g[Cgroup]
      BY <1>1, <1>2, <2>2, <2>3, <2>4
    <2> QED BY <2>4, <2>5, Zenon DEF ExecInv
  <1>6. ASSUME NEW c \in Cgroup, Burn(c) \/ CgroupStarts(c) \/ CgroupEnds(c) \/ PrimeOne(c) \/ ReadOne(c)
        PROVE  UNCHANGED <<ring, drops, execs, seen>>
    BY <1>6, Zenon DEF Burn, CgroupStarts, CgroupEnds, PrimeOne, ReadOne, kernelVars
  <1>7. ASSUME \/ Bootstrap \/ Primed \/ Evict \/ ReadsDone \/ ReadsFail \/ IngestMemory \/ IngestCpu \/ Flush
               \/ \E stop \in BOOLEAN : StartTick(stop)
        PROVE  UNCHANGED <<ring, drops, execs, seen>>
    BY <1>7, Zenon DEF Bootstrap, Primed, Evict, ReadsDone, ReadsFail, IngestMemory, IngestCpu, Flush, StartTick,
       kernelVars
  <1>8. CASE UNCHANGED vars
    BY <1>3, <1>8, Zenon DEF vars, kernelVars
  <1>9. CASE Next
    BY <1>3, <1>4, <1>5, <1>6, <1>7, <1>9, Zenon DEF Next
  <1> QED
    BY <1>8, <1>9, Zenon

\* ExecsConserved: every exec event the kernel raises is in the ring buffer, in
\* RING_DROPS, or taken by the agent; and every one taken is counted once, in the open
\* window or in a batch, across flips of the two buffers and early flushes.
THEOREM ExecsConserved == Spec => []ExecConserved
  <1>1. ASSUME WindowInv, ExecInv PROVE ExecConserved
    <2>1. PICK f : Sums(f, seen) /\ execs = drops + Len(ring) + f[Cgroup]
      BY <1>1, Zenon DEF ExecInv
    <2>2. MapThenSumSet(LAMBDA c : seen[c], Cgroup) = (CHOOSE h : Sums(h, seen))[Cgroup]
      BY Zenon DEF MapThenSumSet, MapThenFoldSet, Sums, First
    <2>3. (CHOOSE h : Sums(h, seen)) = f
      BY <2>1, SumsUnique, Zenon
    <2> QED BY <1>1, <2>1, <2>2, <2>3, Zenon DEF ExecConserved, WindowInv
  <1>2. Spec => []ExecInv
    BY ExecInvInit, ExecInvStep, WindowTypeCorrect, PTL DEF Spec
  <1> QED BY <1>1, <1>2, WindowInductive, PTL

\* The CPU billed to a cgroup is the advance of its counter up to the baseline,
\* whichever reads of the sampler fail and wherever early flushes cut a tick.
THEOREM CpuBilledOnce == Spec => []CpuConserved
  <1>1. WindowInv => CpuConserved
    BY Zenon DEF WindowInv
  <1> QED BY <1>1, WindowInductive, PTL

\* The open window of the aggregator always has fewer than max_keys rows.
THEOREM WindowBelowMaxKeys == Spec => []BelowMaxKeys
  <1>1. WindowInv => BelowMaxKeys
    BY Zenon DEF WindowInv, AggInv
  <1> QED BY <1>1, WindowInductive, PTL

\* No row of a window carries two memory readings, for every order of timers,
\* signals, exec events and early flushes.
THEOREM SampledOnce == Spec => []OneSampleAtMost
  <1>1. WindowInv => OneSampleAtMost
    BY Zenon DEF WindowInv, SampleInv
  <1> QED BY <1>1, WindowInductive, PTL
=============================================================================
