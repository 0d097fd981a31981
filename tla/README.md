# Statix in TLA+

Statix bills CPU and memory of Kubernetes workloads.  An agent on every node
(`src/statix`, with the eBPF probe `src/statix-ebpf`) turns kernel activity into
one batch of rows per window and posts it to a gateway (`src/statix-gateway`),
which stores the rows in ClickHouse.  The hard part is what happens when one of
them is slow, full, restarted or gone: the agent's retry queue, its disk
write-ahead log (WAL) and circuit breaker, and the gateway's bounded channel and
health flag.  Around it are the tasks that name what is billed (the attribution
cache and its Kubernetes watcher) and the dashboard's read tier (response cache and
rate limiter).  These modules model that machinery, check it with TLC and prove its
central parts with TLAPS.

## The system and its modules

| Part of the system | State | Operations | Module |
|---|---|---|---|
| WAL store, `wal/mod.rs`, `wal/segment.rs` | segment list, active segment, byte count, cursor, pending advance, files | append, rotate, drop-oldest, peek, commit, collect, error recovery | `WalStore` |
| WAL writer thread, `wal/writer.rs` | program counter, group state, the mutex | receive, append, mid-burst sync, tail sync | `WalStore` |
| WAL recovery, `wal/recovery.rs` | files still to walk | walk a file, cut its tail, drop a bad file, rebuild the cursor | `WalStore` |
| WAL drainer and circuit breaker, `wal/drainer.rs`, `wal/mod.rs` | sweep state, circuit, failure count | sweep by circuit state, half-open probe, replay, commit | `WalStore`, `Spillway` |
| Delivery path, `output.rs` | retry queue, append channel, hot path, retry worker | queue, spill, drop, post, retry | `Spillway` |
| Aggregator, `aggregator.rs` | two buffers, active index | ingest, early flush, flush | `Window` |
| Sampler, `memory_sampler.rs` | CPU baselines, readings | prime, read, ingest deltas | `Window` |
| Agent loop and ring, `main.rs`, `statix-ebpf` | ring, drop counter, known cgroups | event, timer, signal, eviction | `Window` (partly) |
| Attribution cache, `attribution/mod.rs` | paths, labels, pods | walk, register, exec event, evict, merge | `Attribution` |
| Pod watcher, `attribution/mod.rs`, `main.rs` | stream, list, merge in flight, JoinHandle | list, apply, delete, break, refresh, reconnect, join | `Attribution` |
| Gateway handlers, `routes/ingest.rs` | request state, permits | post, reserve, send, answer | `Gateway` |
| ClickHouse writer, `clickhouse_writer.rs` | batch, attempt, `ch_healthy` | ping, fill, insert, retry, drop, drain | `Gateway` |
| Gateway shutdown, `statix-gateway/src/main.rs` | phase | stop, drain, time out | `Gateway` |
| Dashboard handlers, `routes/dashboard/mod.rs` | a question per request | guard, hit, two queries, failure, store | `Dashboard` |
| Response cache and rate limiter, `routes/dashboard/cache.rs` | entries with age and pin, window and count | get, put, allow | `Dashboard` |

How they interact: the hot path emits a batch into the retry queue; when that is
full it goes to the append channel, and the writer thread puts it into the WAL
under a mutex.  The drainer, under the same mutex, peeks the oldest frame,
releases the mutex, offers the batch to the retry queue with `try_send`, and
takes the mutex again to commit the cursor.  The retry worker posts the head of
the queue; its outcomes drive the circuit breaker, which the drainer reads.  On
the gateway, handlers reserve room for all rows of a batch, send them into the
channel, and the writer task inserts them in groups; a failed insert clears
`ch_healthy`, and handlers refuse batches while it is false.  On the agent, the main
task learns and forgets cgroups while the watcher task merges pods into their labels
under locks it takes twice; on the gateway, dashboard handlers share one cache and
one limiter.

What makes it hard: drop-oldest can run inside the drainer's peek ... commit
window; a crash leaves any part of an unsynced tail; a rotation can fail half
way; the half-open transition is a load followed by a store; handlers hold
permits that are not yet rows; an early flush may close a window in the middle
of a tick; and two liveness questions depend on flags that only progress resets
(`has_backlog`, `ch_healthy`).  `PROJECT.json` lists each hazard with its line.

### WalStore

`WalStore` models `WalInner` field by field, the segment files, and the two
threads.  The state of the code maps as follows: `segments` is the `VecDeque` of
`SegmentMeta`, `active` the open file (with `NoActive` for `None`),
`read_seq`/`read_offset` the `ReadCursor`, `pending_advance` the option of the
same name.  `position` is where the open file's next write goes, which the code keeps only
in the file handle.  A segment's count of frames, which only a metric and a log line read, is left
out.  `disk` gives each file its header, its complete frames (offset, batch,
number) and `synced`, the length an fdatasync has made durable.  `wpc` and `dpc`
are the points of `writer.rs` and `drainer.rs` between which the other thread can
run: the mutex is held from `WriterLock` to `GroupCommit`, and for a peek from
`PeekLock` to the end of `peek_next`; a commit is one step.

One action is one step of a function that can fail or be interleaved:
`EnforceCap` is one turn of the loop in `enforce_cap`, `Rotate`/`RotateFails` are
`rotate`, `WriteFrame`/`WriteFails` the write of `append_one`; a failed one leaves any
part of the frame behind, and `recover_active_after_error` seeks back over it.  `BoundBurst` and `GroupCommit` the two places that
sync.  `PeekFrame`, `PeekNothing`, `PeekEmpty` and `gc_front_consumed` are the turns
of the loop in `peek_next`.  `Crash` may happen in every state: every file keeps
what was synced, any subset of the rest (a file never synced may vanish), and
`RecoverSegment`/`RecoverDrops`/`RecoverFinish` walk the files in order.  Frames
have real lengths (a header of 16 bytes and the payload), so the cap and the
offsets are arithmetic, not counters of frames.

The field `base` of a segment is a ghost: the sum of the lengths of the segments
before it.  With it the exactness of `total_bytes` is a fact about the two ends of
the list, which is inductive; the sum over the list follows.

`WalLog` is the abstract specification: a set of entries in the order they were
written, of which the oldest have been replayed.  An entry is written behind all
others, the oldest one not yet replayed is offered next, a prefix goes when it was
replayed or when the log is over its cap (the input `full`), a suffix goes in a crash,
after which everything counts as not replayed.  The refinement mapping is at the end
of `WalStore`: an entry is a frame with the number of its file, in the order of
number and offset; the log has every frame that a reader of the known files reaches
(`OnDisk`), those behind the cursor are replayed, and `full` is the test of
`enforce_cap`.

### Spillway

`Spillway` extends `WalStore` with its environment: every WAL step is a step of
`WalStore` under the guard its caller imposes (`WriterTakes` receives what
`TryAppend` queued; `ReplaySent` hands over only when the retry queue has room).
`Emit`, `TryAppend`, `DropOldest` and `Resend` are the calls of
`enqueue_batch_json`, in order.  `SweepOpen`, `TryHalfOpenLoad` and
`TryHalfOpenStore` are separate because `try_half_open` loads and stores the
circuit in two steps.  The failure counter wraps, as the `AtomicU8` does.
`AgentCrash` loses everything in memory; `OrderlyStop` is SIGTERM, after which
`main` returns without waiting for the other tasks.

### Gateway

One request per batch at a time, many batches concurrently.  `Post` ends at the
load of `ch_healthy`; `Reserve` is `try_reserve_many`; `Send` is one `permit.send`.
The writer task is `fill_first`/`fill_more`/`fill_done` (`fill_batch`), `InsertOk` and
`InsertFails` (`flush_with_retry`; ClickHouse is down or, with `MayReject`, refuses the
rows), `drain_final`.  `Closed` says when every `Sender`
is dropped, the depth sampler's clone included.  An agent posts a refused batch
again, and also one whose answer it missed.

### Window

The kernel side (exec events into a ring that can be full, CPU time, cgroups that
start and end) and the agent's `select!` loop, one arm at a time; inside a tick,
one step per file read and per ingested reading, so that early flushes fall
between any two of them.

### Attribution

`paths`, `labels` and `pods` are `cgroup_paths`, `cgroup_labels` and `pod_by_uid` (the three
maps of precomputed file names always have the domain of `cgroup_paths`).  The main
task walks, registers one directory at a time, then handles exec events and the
eviction timer.  `cgroup_path_from_pid` answers nothing, the right directory, or any
other live one, because `/proc` is read after the event.  The watcher is
`watch_k8s_pods` event by event; `MergeRead` and `MergeWrite` are the two halves of
`merge_cgroup_labels_from_k8s`, between which the main task may do anything.
Eviction asks for `memory.current`, which only cgroups in `WithMemory` have; a directory
may be made again by another cgroup.  `StreamEnds` loses what the stream held; `refresh_k8s_pods` lists or fails.
`WatcherJoined` is the arm of `select!` that polls a completed JoinHandle, and panics.

Labels are abstracted to the directory they were made from, whether the pod is known,
and whether the container has an id or a name.  `on_identity_event` and
`evict_stale_cgroups` take several locks but are one step each: only the watcher can
come in between, and it never changes `paths`; what it reads of them it reads in one
lock.  `Apply` joins the upsert of the pod and the read half of the merge, since no
other task reads `pod_by_uid`.

### Dashboard

One action per stretch between two awaits of a handler: `state_handler` and
`health_handler` up to the first query, `build_state_rows`, `build_state_totals` (which
ends with the `put`), `build_state_fails`, `build_health`.  `NormalizedQuery` and
`cache_key` are operators over questions; a filter is a sequence of tokens, so that the
text joined by `&q=` in the key can be as ambiguous as it is in the code.  A body is
represented by the question it answers.  `grants` is a history of the limiter's
decisions.  A request answered with 404, 401 or 429 changes nothing.

## Runs

Three or four batches suffice for the interesting cases, so the bounds
are chosen for those rather than for size.

| Run | Question | Result |
|---|---|---|
| `WalStore_log` | Is the store well-formed, its byte count exact, the cap kept, a released mutex a synced log, and every loss explained? Does it implement the FIFO log, and does the backlog empty, also after a crash? Three batches, one of them larger than a segment, a cap of two segments, one crash, one I/O error | holds |
| `WalStore_stuck` | Does the backlog drain after a failed rotation? | violated |
| `Spillway_flow` | Is every batch accounted for, held in one place, is a synced batch in the backlog until it is replayed, does Closed mean few failures? With an outage, an I/O error, a crash or a stop. And without crash and error: is every batch delivered or reported as given up in the end? | holds |
| `Spillway_atleastonce` | Is a batch that was durable delivered, reported or still held, across a crash? | violated |
| `Spillway_stop` | Does an orderly stop lose no spilled batch? | violated |
| `Gateway_ingest` | Do permits and rows stay within the channel, do batches enter whole, does a shutdown leave no acknowledged row behind, and is every one stored or counted in the end? | holds |
| `Gateway_drain` | Does the shutdown drain as the program is? | violated |
| `Gateway_lockout` | Is a batch refused after an outage accepted once ClickHouse is back? | violated |
| `Window_counts` | Are exec events and CPU time counted exactly once, rows sampled at most once? | holds |
| `Attribution_labels` | Do labels fit the sampled directory, do names stay once known and come in the end, is what has lost its `memory.current` evicted, do deleted pods leave while the stream lasts? | holds |
| `Attribution_footprint` | Is what is cached of ended cgroups and deleted pods removed in the end? | violated |
| `Dashboard_cache` | Do filtered views leave the cache bounded, does a hit answer the question asked, do unfiltered views stay, how large can a burst get? | holds |

### Bounds

- WAL: a segment of 80 bytes takes two small frames, a cap of 128 bytes is
  reached by the third, and a batch of 80 bytes is larger than a segment. So
  rotation, drop-oldest with the cursor in the dropped segment, an oversized frame
  in an empty segment, and collection all occur within three batches. One crash
  and one I/O error each come at every point; the proofs below have no bound on
  either.
- Spillway: queue and channel of one place make every refusal reachable with three
  batches. `OpenThreshold` is 2 and the failure counter wraps at 4, so that the wrap happens after the circuit has opened, as 256
  does after 3 in the code. One outage of any length.
- Gateway: a channel of two rows (three in the violated runs) and batches of one and
  two rows make two concurrent reservations collide; an empty and a rejected batch
  are included. Two insert
  attempts, one outage, one lost answer, and inserts rejected at any time. ClickHouse may be down at the start.
- Window: two cgroups with `max_keys` 2 make an early flush happen in a tick and
  outside one; a ring of one slot is full at the second event.
- Attribution: one cgroup of a pod and two of a service, the second in the directory of
  the first (which has no memory controller), each started and ended at any time, before or after the walk, the events and the merges; one exec event
  answered from the wrong cgroup; one broken stream, which may come before, in or
  after the initial list and may be followed by a failed refresh. That is enough for a
  second list, a second merge and a reconnect. `Attribution_footprint` has the container
  alone.
- Dashboard: a cache of two entries with four different questions (the blank filter
  and the over-long node name are normalised away), so that it is full of pinned
  views, of others, or both; a limit of one request in a window of two ticks, so that
  the seam of two windows is met, and two requests at a time that rebuild the same or
  different answers over six ticks.
- Batches (cgroups) of equal length and dashboard handlers are interchangeable, so the
  safety runs that use them take symmetry. Runs with liveness do not: `OrderedSpec` lets
  the batches be emitted (the two services be started) in one order instead.

`CHECK_DEADLOCK FALSE` stands in every configuration because the programs come to
rest: all batches are processed, the process has stopped or the bounds are used up.

### Fairness

Weak fairness for each task and thread that is scheduled by the OS or tokio. Strong
fairness where a thread takes the shared mutex (`parking_lot` is eventually fair)
or acts on a condition others switch on and off (a sweep, which happens on a
timer, by circuit state). `WalStore` alone assumes its environment is kind again
and again: the circuit closes and the retry queue has room. `Spillway` replaces
that assumption by the modelled worker and gateway, where only the recovery of
the gateway is assumed; no fairness is assumed of failures, crashes, I/O errors or
4xx answers. In `Gateway` agents keep posting a refused batch and ClickHouse comes
back. In `Attribution` both tasks run (`MainStep`, `WatcherStep`), which includes the
eviction timer and the API server's answer to a new list; nothing is assumed of the
node, the pods, exec events, broken streams or a client that cannot be made. The
environment's failures are bounded in number, so "in the end" means
after the last one.

`WalStore_log` is fair in every behaviour; `FifoLog` and `BacklogEmpties` speak of
those before (or without) an I/O error, `WalStore_stuck` of what one error does.
`Gateway_ingest` sets `SampleDepth` to FALSE, so that a shutdown can also end by itself
and the final drain is reached both ways; with the depth sampler as in the program
(`Gateway_drain`) only the timeout ends it. `PromptDrain` leaves out, in `Gateway_drain`,
the timeout of a drain that is merely slow.

### What the violated runs show

Each one states what a comment or a document of the repository says, quoted in
`PROJECT.json`.

- `WalStore_stuck`: a failed `rotate` leaves `active` empty, and `has_backlog` then
  answers false although older segments hold frames, until the next spill or a
  restart.
- `Spillway_atleastonce`: a replayed frame is committed, and its segment may be
  deleted, when it is in the memory queue; a crash before the POST loses it.
- `Spillway_stop`: the `Wal` handles are statics, so the append channel is not closed
  when `main` returns, and spilled batches in it are gone.
- `Gateway_drain`: the depth sampler keeps a `Sender`, so the channel never closes and
  every shutdown runs into the ten-second limit.
- `Gateway_lockout`: a batch is accepted, ClickHouse goes down, and after the last insert
  attempt the rows are dropped with `ch_healthy` false and an empty channel. Only a
  successful insert sets the flag, and no row can get in to cause one: the next batch is
  refused for ever, although ClickHouse is back. (Rejected inserts are left out of this run.)
- `Attribution_footprint`: an exec event is handled when its process has gone, and the labels
  it stores have no path; `evict_stale_cgroups` goes over the known paths, so they stay.
  The same property fails for labels that a merge writes back after an eviction, and for
  pods deleted while the watch stream is down, which no later list removes.

Smaller observations are not runs. A half-open circuit is swept again before the
answer to the trial (the comment in `drainer.rs` speaks of a single trial). An early
flush closes a window without a sample. When the watcher task ends, the `select!` arm in
`main.rs` awaits the JoinHandle that has just completed, and the main task panics where
ADR 049 asks for a restart (`WatcherJoined`). A service that
starts again in its directory before the eviction timer fires stays in the cache under both ids,
and both read the same files. Unfiltered views are pinned, and nothing bounds their number, where ADR 061
speaks of a bounded LRU; `FilteredBounded` is what `put` keeps. Two questions whose filters contain `&q=` in the right
places share a cache key.

## What is proved

Every theorem holds for all values of the constants, under the named assumptions
of the modules: `WalConfigAssumption` (batches of up to `MaxFramePayload` bytes, any
cap, segment and group size that `WalConfig` admits), `SpillwayAssumption` (non-empty
queues, a failure counter that wraps above the threshold), `GatewayAssumption`
(finite batches that share no row, a channel and a batch size of at least one),
`WindowAssumption` (finitely many cgroups, a positive `max_keys`),
`AttributionAssumption` (every cgroup has a directory, named directories are container
directories) and `DashboardAssumption` (filters are texts; positive limits).
The bounds on crashes, I/O errors, outages, lost answers, moved processes, broken
streams and the clock are constants too: a theorem holds for any number of them.

| Theorem | Statement |
|---|---|
| `TypeCorrect` (`WalStoreProofs`) | `Spec => []TypeOK` |
| `StoreCorrect` (`WalStoreProofs`) | `Spec => []StoreInv` |
| `GroupCommitDurable` (`WalStoreProofs`) | `Spec => []DurableAtRest` |
| `CapRespected` (`WalStoreProofs`) | `Spec => []CapBound` |
| `NothingLostSilently` (`WalStoreProofs`) | `Spec => NoSilentLoss` |
| `LogInvCorrect` (`WalLogProofs`) | `Spec => []LogInv` |
| `ImplementsLog` (`WalLogProofs`) | `Spec => FifoLog` |
| `TotalBytesCorrect` (`WalLogProofs`) | `Spec => []TotalBytesExact` |
| `SpillImplementsStore` (`SpillwayProofs`) | `SpillSpec => Spec` |
| `AgentLosesNothingSilently` (`SpillwayProofs`) | `SpillSpec => NoSilentLoss /\ []CapBound /\ []DurableAtRest` |
| `CircuitClosedMeansFew` (`SpillwayProofs`) | `SpillSpec => []ClosedMeansFew` |
| `AgentTypeCorrect` (`SpillwayProofs`) | `SpillSpec => []SpillTypeOK` |
| `NoBatchFallsBetween` (`SpillwayProofs`) | `SpillSpec => []Accounted` |
| `SyncedBatchesSurvive` (`SpillwayProofs`) | `SpillSpec => []DurableUntilReplayed` |
| `HeldOnce` (`SpillwayProofs`) | `SpillSpec => []OnePlace` |
| `PermitsFit` (`GatewayProofs`) | `Spec => []ChannelBounded` |
| `AcceptedWhole` (`GatewayProofs`) | `Spec => []AllOrNothing` |
| `GatewayTypeCorrect` (`GatewayProofs`) | `Spec => []TypeOK` |
| `NothingLeftBehind` (`GatewayProofs`) | `Spec => []DrainSettles` |
| `AttributionTypeCorrect` (`AttributionProofs`) | `Spec => []TypeOK` |
| `LabelsAlwaysFit` (`AttributionProofs`) | `Spec => []LabelsFitPath` |
| `NamesStay` (`AttributionProofs`) | `Spec => NoUnresolve` |
| `DashboardTypeCorrect` (`DashboardProofs`) | `Spec => []TypeOK` |
| `FiltersDoNotGrow` (`DashboardProofs`) | `Spec => []FilteredBounded` |
| `HitsAnswerTheQuestion` (`DashboardProofs`) | `Spec => []AnswersTheQuestion` |
| `RateIsBounded` (`DashboardProofs`) | `Spec => []RateBounded` |
| `PinnedEntriesStay` (`DashboardProofs`) | `Spec => PinnedStays` |
| `WindowTypeCorrect` (`WindowProofs`) | `Spec => []TypeOK` |
| `ExecsConserved` (`WindowProofs`) | `Spec => []ExecConserved` |
| `CpuBilledOnce` (`WindowProofs`) | `Spec => []CpuConserved` |
| `WindowBelowMaxKeys` (`WindowProofs`) | `Spec => []BelowMaxKeys` |
| `SampledOnce` (`WindowProofs`) | `Spec => []OneSampleAtMost` |

### The log

`DurableAtRest`, `CapBound` and `NoSilentLoss` are not inductive. The strengthening is `StoreInv`, together with
`TypeOK`; TLC checks it in `WalStore_log`. Its conjuncts, and what each is for:

- `SeqInv`: sequence numbers of the live segments increase and are below `next_seq`;
  during recovery the files still to walk are all newer. Without it a rotation could
  overwrite a file, and the drop of one segment could hit another.
- `DiskInv`: frames of a file do not overlap, and those of a live segment fill it
  without a gap up to its recorded length. This is why a failing read at the cursor
  means the end of the segment, so that `gc_front_consumed` deletes nothing unread.
- `BytesInv`: `total_bytes` is the length of the run of segments (through `base`).
  `RoomInv`: what `enforce_cap` left before a rotation. Both are for `CapBound`.
- `ActiveInv`: the active segment is the last one, of the same length. `PositionInv`: its file
  is positioned at that length, also after failed writes; otherwise the next frame would
  lie behind a gap that no reader crosses.
- `CursorInv`: the cursor is at a frame boundary of the oldest segment or before all of
  them, and a pending advance leads over exactly the frame at the cursor. It is what
  a drop-oldest inside the peek ... commit window could break.
- `ControlInv`: who holds the mutex, and that nobody works during recovery.
- `SyncInv`: which segments may have unsynced bytes, for `DurableAtRest`.
- `DurableInv`: the synced part of every file is a gapless run of frames, so that the
  walk of recovery reaches its end; this is the crash half of `NoSilentLoss`.

`WalStoreFiles` proves that types are preserved, and what the compound steps do
(`OldestDropped`, `WalkEffect`, `CrashEffect`). Each conjunct has one lemma with one
step per action: `SeqStep`, `DiskStep`, `BytesStep`, `ActiveStep`, `PositionStep`, `CursorStep` and
`ControlStep` in the same module, `RoomStep`, `SyncStep` and
`DurableStep` in `WalStoreProofs`, where `StoreInductive` joins them and the
two promises follow: `CapStep`, and `LossStep`, which follows one frame through every
action. The last lemmas of the module say what a step of the log does to the things
its user relies on: new frames (`NewFrames`, `AppendOwed`), the threads' hands
(`Hands`), the frame at the cursor between peek and commit (`CursorFrame`), the
synced length of a file (`SyncedKept`), the files the log knows (`FilesKnown`), the backlog
and the drainer's moves while the agent is up (`BacklogNew`, `DrainerMoves`).

### The log as a FIFO

`WalLogProofs` shows that every step of the store is a step of `WalLog` under the mapping, or
a stutter, until the first I/O error. Besides `StoreInv` this needs `LogInv`: the drainer's
hand is full exactly between peek and handover, no file is unknown, and every
file but the newest is `Sealed`, because `rotate` syncs the segment it closes. The last
one is what makes a crash cut the log only at its end.

The lemmas about chains of frames come first. `ChainPrefix` says that whatever part of a
file survives, the frames a reader reaches in it are a prefix of those it reached before;
it takes the least frame that is not, by `NatMin`. `FilledChained` says that in
a live segment nothing is out of reach, `WalkChained` that recovery keeps exactly what is in
reach. Then one lemma per action: `WriteAppends`, `PeekOffers`, `CommitReplays`,
`OldestLeaves` (drop-oldest), `ConsumedLeaves` (collection), `CrashCuts`, and `QuietFiles`
for rotation, fdatasync and the steps of recovery, which leave the log as it is.
`CommitReplays` also covers the commit after a drop-oldest in the peek ... commit window, which
replays nothing.

`TotalBytesExact` follows from `BytesInv`: the sum of the first n segments is the distance
of the n-th one's end from the first one's start, for the least n where it is not.

### The agent

`SpillwayProofs` shows that the agent uses the log only as the log's own, open
specification allows: `SpillStep` maps every step of `SpillNext` to a step of `Next` or
to a stutter. It needs only that what travels to the writer is a batch, which is
the first part of `AgentInv`. The theorems about the log then hold in the agent
without a second induction. `ClosedMeansFew` is inductive together with the range of
the counter: a wrap to zero is preceded by the failures that opened the circuit.

`Accounted` and `DurableUntilReplayed` speak of batches, the log of frames, and neither is
inductive. The strengthening is `SpillInv`: `AgentInv`, the ranges of queues, program
counters and outcomes, `Accounted`, and

- `PlaceInv`: who holds a batch at each program counter, and that whatever is held or on
  disk was emitted. Without it a step could hand over something else than it took.
- `HandInv`: between peek and commit the frame at the cursor is the one in the drainer's
  hands, then one it has already put into the retry queue. The cursor moves over a
  frame in a later step than the one that replays its batch, with appends, drop-oldest
  and rotations in between; this is what ties the two together.
- `ConsumedInv`: a frame of a known file that is not owed any more has been replayed, and
  without I/O errors the log knows every file in its directory. A batch that
  becomes durable behind the cursor, by the fsync of a segment that is already partly
  drained, is covered only through it.
- `DurableKept`: the witness for a durable batch is a synced frame, not just any owed
  one: an unsynced copy may go in the next crash.

`LeavesReported` restates `LossStep` for the agent: a frame that leaves the backlog, other
than in a recovery, was replayed, or its batch is reported lost. For `Accounted`, `HotKept`,
`QueueKept`, `WriterKept` and `SentKept` follow a batch from the hot path to the
queues, the writer, the log, the drainer and the worker, one lemma per holder; `AccountedStep`
joins them.

`OnePlace` is about copies, so it needs the opposite of what `Accounted` needs: where a batch
is not. `OnceInv` says it for the time before a crash. `MemOnce`: the queues, the hot path
and the writer's hand hold different batches (`Waits` for those on the way to the log, `Gone`
for those past it), and what was delivered is held by nobody but the worker that is about to
learn it. `LogOnce`: two frames of the backlog hold different batches, none of them in `Waits`,
and in `Gone` only that of the frame at the cursor, between the handover to the retry queue and
the commit. `MemStep` follows the memory, `LogOnceStep` the
log; the second uses that the backlog gains only the frame that the writer appends
(`BacklogNew`), that the cursor stays at a peeked frame as long as it is owed (`CursorHeld`) and
that the drainer offers an owed frame (`PeekedOwed`). After a crash the property does not hold and
is not claimed: recovery replays batches again.

### The gateway

`GatewayInv` joins the type invariant, `ChannelBounded`, `AllOrNothing` and `PermitInv`: rows still
to be sent belong to the handler's batch and only a handler between reservation and
answer has any, an answer 200 is on record, and the writer holds rows only while it
fills or inserts. `ChannelBounded` needs it because a permit becomes a row one send at
a time; `AllOrNothing` because a row of one batch could otherwise be mistaken for one of
another (`Separate`). `PostStep`, `ReserveStep`, `SendStep` and `WriterEffect` give the
effect of each group of actions, `GatewayInductive` puts them together.

`NothingLeftBehind` is the safety half of the shutdown: `DrainSettles` says that when it
ends with the writer drained, or on the timeout with an idle writer (`PromptDrain`), every
row of a batch answered 200 is stored or counted as dropped. `StopInv` is what it adds to
`GatewayInv`: no handler outlives the server, the writer ends only on an empty channel,
and it is the writer's end that the drain waits for. That the drain ends at all is
`ShutdownDrains`, which the depth sampler breaks (`Gateway_drain`). The lemma `SettledStays` shows that
nothing acknowledged, stored or dropped is taken back, which is how the `[]<>` of
`AckedSettles` is to be read.

### The attribution cache

`LabelsFitPath` and `NoUnresolve` fail to be inductive for the same reason the code is hard:
the merge writes what it computed earlier. `CacheInv` adds `PathInv` (a path has labels,
and is the cgroup's own unless a process had moved), `MergeInv` (labels in flight are of
a path the cgroup had, resolved when the pod is known; and when the cgroup was forgotten
and learned anew with another path meanwhile, its current labels are unresolved, so the
write cannot unresolve it) and `StartInv` (the walk precedes exec events). `Learns`,
`LearnsNothing` and `Evicts` give the effect of the main task on it, `ReadStep` and
`WriteStep` that of the two halves of a merge; `AttributionStep` joins them and also yields
the action property.

### The dashboard

`DashboardInv` joins `TypeOK`, `FilteredBounded` and `RateBounded` with `CacheInv` (every entry is
stored under the key of the question it answers, and pinned exactly for unfiltered
views), `QueryInv` (requests in progress carry a question) and `RateInv` (grants of the
current window lie in it, those before it before its start, and those older than
`MaxPerWindow` before that a whole window earlier: the reason why two windows bound every
burst). `Split` shows that a text without the separator can be split off a key in one way
only, `SameKey` that equal keys mean equal questions; `PutState` is the step of `put`, case by
case: nothing evicted, the oldest evicted, pinned views only.

### The window

`WindowInv` joins `TypeOK`, `Counted` and `CpuConserved` with

- `AggInv`: the buffer that is not active is empty and the open one is below
  `max_keys`. A flush swaps the buffers, so rows left in the other one would be counted
  in the wrong window.
- `SamplerInv`: the readings of a tick are of different cgroups, none newer than the
  kernel's counter or older than the baseline; before the first tick nothing has been billed.
  `CpuConserved` needs it because the baseline advances when a reading is applied, not
  when it is taken.
- `SampleInv`: outside a tick no row of the open window has a sample, and in a tick none
  whose reading still waits. `OneSampleAtMost` alone does not exclude that a row is sampled
  when its second reading comes.

`Counted` is the part of `ExecConserved` for one cgroup. The other part is a sum over cgroups,
defined by recursion over sets. `ExecInv` carries the partial sums as a witness: a
function with the value of the sum for every set of cgroups. An event taken from
the ring adds one at every set that has its cgroup (`SumsStep`), and `SumsUnique` says
that no other function satisfies the recursion, by the least set where two differ.

### Only model-checked

Liveness (`BacklogEmpties`, `EventuallyDelivered`, `AckedSettles`, `LabelsCatchUp`,
`DeletedPodsLeave`, `StaleForgotten`), which the installed provers cannot handle, and the
violated properties. Every invariant and every action property that a passing run checks
has a theorem, and so has the refinement.

Facts that would be proved by induction over data are proved by a least counterexample
(`NatMin`, `WFMin`), since the induction rules cannot be instantiated.

Leaves without arithmetic name Zenon: translating an obligation for the SMT solver takes
longer the more of them a module has, and a late one then runs out of time.

## Abstractions and assumptions

- fdatasync makes the file and its directory entry durable, and one that fails leaves
  the data unsynced. unlink and truncation are durable at once. `set_len` in recovery
  succeeds, and so does a seek in an open file; bytes that a failed `set_len` leaves behind a
  seek are overwritten or cut later. A frame is complete or missing: CRC and length checks are assumed to tell a
  torn frame.
- A batch fits into `MAX_FRAME_PAYLOAD` (the aggregator flushes at `max_keys`).
- A cgroup id is not used again. In `Window` the path read from `/proc` for an event is
  the path of that cgroup; `Attribution` drops that assumption.
- `Attribution` is the agent inside Kubernetes. Uids, container ids and quantities are
  read off texts by constants (`UidIn`, `ContainerDir`, `NamedDir`); resources and labels
  other than pod, namespace and container follow the same writes and are left out.
- In `Dashboard`, rows and JSON are represented by the question; the clock is one counter
  for cache and limiter; a poisoned lock does not occur.
- Sleeps, backoff and recovery spread are nondeterministic delays. Metrics, logs, page
  cache advice and JSON are left out. A place that reports a loss by a log line or
  a metric adds to `lost` (`dropped` on the gateway).
- An insert attempt ends; a hang of the ClickHouse client is not modelled.

## Not modelled

- `routes/dashboard/sql.rs`, `routes/query.rs` and the dashboard page: SQL and HTML text;
  nothing is changed, and what a statement means is up to ClickHouse.
- Health and readiness endpoints: they read `ch_healthy` and the channel's depth, both of
  which `Gateway` has, and change nothing.
- The arm of the agent's `select!` for the ring monitor, which only logs, and the loader,
  which attaches one program at start-up.
- The loss bounds of the agent and the gateway together: `Spillway` has the gateway as an
  environment that is up or down, `Gateway` has agents that post again; the state space
  of their product is out of TLC's reach.
- A hang of the ClickHouse client outside the insert timeout.
- Configuration, clock, error texts, the eBPF object selection and the build scripts:
  straight-line start-up code without state changes.
