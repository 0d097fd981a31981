------------------------------ MODULE Gateway -------------------------------
(***************************************************************************)
(* The gateway's ingest path: the POST /ingest handlers                    *)
(* (routes/ingest.rs), the bounded row channel, the ClickHouse writer task *)
(* with its bounded insert retries (clickhouse_writer.rs), the ch_healthy  *)
(* flag that turns requests away, and the shutdown of main.rs.  Agents     *)
(* post a batch again after a 503 or when they miss the answer.            *)
(***************************************************************************)
EXTENDS Integers, Sequences, FiniteSets, Functions

CONSTANTS Batch,          \* the batches agents post
          Rows,           \* Rows[b]: the workload rows of batch b
          Rejected,       \* the batches refused with a 4xx (schema_version, bearer token)
          ChannelCap,     \* ingest_channel_capacity
          BatchMax,       \* STATIX_CH_BATCH_MAX
          MaxInsertRetries,  \* MAX_INSERT_RETRIES
          MayReject,      \* a ClickHouse that is up may reject an insert
          SampleDepth,    \* main spawned the channel depth sampler (it does)
          PromptDrain,    \* the shutdown timeout leaves enough time to drain
          MaxOutages, MaxLost  \* bounds: outages of ClickHouse, lost answers

ASSUME GatewayAssumption ==
  /\ Rows \in [Batch -> SUBSET UNION {Rows[b] : b \in Batch}]
  /\ \A b \in Batch : IsFiniteSet(Rows[b])
  /\ \A b, c \in Batch : b # c => Rows[b] \cap Rows[c] = {}
  /\ Rejected \subseteq Batch
  /\ ChannelCap \in Nat \ {0} /\ BatchMax \in Nat \ {0}
  /\ MaxInsertRetries \in Nat \ {0}
  /\ MayReject \in BOOLEAN /\ SampleDepth \in BOOLEAN /\ PromptDrain \in BOOLEAN
  /\ MaxOutages \in Nat /\ MaxLost \in Nat

VARIABLES
  req,          \* per batch: where its request is
  to_send,      \* per batch: rows its handler holds a permit for
  channel,      \* the row channel
  ch_healthy,
  wpc,          \* the writer task
  batch,        \* the rows of the insert in progress
  attempt,
  phase,        \* "serving", "draining", "drained" or "timed_out"
  clickhouse, outages, lost_answers,
  \* history
  acked,        \* batches answered 200
  inserted,     \* rows ClickHouse has stored (a set: ReplacingMergeTree)
  dropped       \* rows given up with a metric

handlerVars == <<req, to_send, acked>>
writerVars == <<wpc, batch, attempt, inserted, dropped>>
envVars == <<clickhouse, outages, lost_answers>>
vars == <<handlerVars, channel, ch_healthy, writerVars, phase, envVars>>

Row == UNION {Rows[b] : b \in Batch}

Init ==
  /\ req = [b \in Batch |-> "new"] /\ to_send = [b \in Batch |-> {}]
  /\ acked = {} /\ lost_answers = 0
  /\ channel = <<>> /\ ch_healthy = FALSE
  /\ wpc = "ping" /\ batch = <<>> /\ attempt = 0 /\ inserted = {} /\ dropped = {}
  /\ phase = "serving" /\ clickhouse \in {"up", "down"} /\ outages = 0
-----------------------------------------------------------------------------
(* POST /ingest. *)

InFlight == {b \in Batch : req[b] \in {"healthy", "send"}}
Permits == UNION {to_send[b] : b \in Batch}

Answer(b, status) ==
  /\ req' = [req EXCEPT ![b] = status]
  /\ acked' = IF status = "200" THEN acked \cup {b} ELSE acked

\* A request arrives; handler and ingest_inner up to the load of ch_healthy.
Post(b) ==
  /\ phase = "serving" /\ req[b] \in {"new", "503"}
  /\ Answer(b, IF b \in Rejected THEN "400" ELSE IF ch_healthy THEN "healthy" ELSE "503")
  /\ UNCHANGED <<to_send, channel, ch_healthy, writerVars, phase, envVars>>

\* Mutant: the permits other handlers hold are not counted.
FitsWithoutPermits(b) == Len(channel) + Cardinality(Rows[b]) <= ChannelCap

Fits(b) == Len(channel) + Cardinality(Permits) + Cardinality(Rows[b]) <= ChannelCap

\* An empty batch is done; otherwise try_reserve_many: a permit for every row, or
\* none.  (The writer task, and with it the receiver, outlives every request.)
Reserve(b) ==
  /\ req[b] = "healthy"
  /\ \/ Rows[b] = {} /\ Answer(b, "200") /\ UNCHANGED to_send
     \/ /\ Rows[b] # {} /\ Fits(b)
        /\ Answer(b, "send") /\ to_send' = [to_send EXCEPT ![b] = Rows[b]]
     \/ Rows[b] # {} /\ ~Fits(b) /\ Answer(b, "503") /\ UNCHANGED to_send
  /\ UNCHANGED <<channel, ch_healthy, writerVars, phase, envVars>>

\* Mutant: the handler answers after its first row.
SendFirstRow(b) ==
  /\ req[b] = "send"
  /\ \E r \in to_send[b] :
       channel' = Append(channel, r) /\ to_send' = [to_send EXCEPT ![b] = {}]
  /\ Answer(b, "200")
  /\ UNCHANGED <<ch_healthy, writerVars, phase, envVars>>

\* The next permit sends its row; after the last one the answer is 200.
Send(b) ==
  /\ req[b] = "send"
  /\ \E r \in to_send[b] :
       /\ channel' = Append(channel, r)
       /\ to_send' = [to_send EXCEPT ![b] = @ \ {r}]
       /\ Answer(b, IF to_send[b] = {r} THEN "200" ELSE "send")
  /\ UNCHANGED <<ch_healthy, writerVars, phase, envVars>>

\* The agent misses the answer and will post the batch again.
AnswerLost(b) ==
  /\ req[b] = "200" /\ lost_answers < MaxLost
  /\ req' = [req EXCEPT ![b] = "new"] /\ lost_answers' = lost_answers + 1
  /\ UNCHANGED <<to_send, acked, channel, ch_healthy, writerVars, phase, clickhouse, outages>>
-----------------------------------------------------------------------------
(* The writer task. *)

WriterOnly == UNCHANGED <<handlerVars, phase, envVars>>

ping_ready ==
  /\ wpc = "ping" /\ wpc' = "recv" /\ ch_healthy' = (clickhouse = "up")
  /\ WriterOnly /\ UNCHANGED <<channel, batch, attempt, inserted, dropped>>

\* Every Sender is gone: the server's (AppState) and ChWriter.tx are dropped in
\* shutdown; the depth sampler's clone lives in a task that never ends.
Closed == phase = "draining" /\ InFlight = {} /\ ~SampleDepth

Take(n) ==
  /\ batch' = batch \o SubSeq(channel, 1, n)
  /\ channel' = SubSeq(channel, n + 1, Len(channel))

\* fill_batch: the first row, then rows until the batch is full, the linger time
\* is over or the channel is closed.
fill_first ==
  /\ wpc = "recv" /\ channel # <<>> /\ Take(1) /\ wpc' = "fill"
  /\ WriterOnly /\ UNCHANGED <<ch_healthy, attempt, inserted, dropped>>

\* Mutant: the room in the batch is not passed to recv_many.
ReceivedAll == Len(channel)

\* recv_many with the room left in the batch.
Received ==
  LET room == BatchMax - Len(batch)
  IN IF Len(channel) < room THEN Len(channel) ELSE room

fill_more ==
  /\ wpc = "fill" /\ channel # <<>> /\ Len(batch) < BatchMax
  /\ Take(Received)
  /\ WriterOnly /\ UNCHANGED <<ch_healthy, wpc, attempt, inserted, dropped>>

\* Mutant: no linger timeout.
fill_doneWhenFull ==
  /\ wpc = "fill" /\ Len(batch) = BatchMax /\ wpc' = "insert" /\ attempt' = 0
  /\ WriterOnly /\ UNCHANGED <<channel, ch_healthy, batch, inserted, dropped>>

fill_done ==
  /\ wpc = "fill" /\ wpc' = "insert" /\ attempt' = 0
  /\ WriterOnly /\ UNCHANGED <<channel, ch_healthy, batch, inserted, dropped>>

\* Mutant: the loop ends as soon as the channel is closed.
drain_finalAtOnce ==
  /\ wpc = "recv" /\ Closed /\ wpc' = "done"
  /\ WriterOnly /\ UNCHANGED <<channel, ch_healthy, batch, attempt, inserted, dropped>>

\* recv returns None, so the channel is closed and empty: the loop ends, and
\* drain_final finds nothing more to take.
drain_final ==
  /\ wpc = "recv" /\ channel = <<>> /\ Closed /\ wpc' = "done"
  /\ WriterOnly /\ UNCHANGED <<channel, ch_healthy, batch, attempt, inserted, dropped>>

AfterFlush == wpc' = "recv" /\ batch' = <<>>

\* flush_with_retry: an attempt succeeds.
InsertOk ==
  /\ wpc = "insert" /\ clickhouse = "up"
  /\ inserted' = inserted \cup Range(batch) /\ ch_healthy' = TRUE /\ AfterFlush
  /\ WriterOnly /\ UNCHANGED <<channel, attempt, dropped>>

\* An attempt fails or times out, or a ClickHouse that answers rejects it; rows may
\* have been stored all the same.  They are dropped when the last attempt fails.
InsertFails ==
  /\ wpc = "insert" /\ (clickhouse = "down" \/ MayReject)
  /\ inserted' \in {inserted, inserted \cup Range(batch)}
  /\ ch_healthy' = FALSE /\ attempt' = attempt + 1
  /\ IF attempt + 1 >= MaxInsertRetries
     THEN dropped' = dropped \cup Range(batch) /\ AfterFlush
     ELSE UNCHANGED <<dropped, wpc, batch>>
  /\ WriterOnly /\ UNCHANGED channel
-----------------------------------------------------------------------------
(* Shutdown and environment. *)

\* The server has stopped: no request is in flight any more, and shutdown drops
\* ChWriter.tx and waits for the task.
Shutdown ==
  /\ phase = "serving" /\ InFlight = {} /\ phase' = "draining"
  /\ UNCHANGED <<handlerVars, channel, ch_healthy, writerVars, envVars>>

Drained ==
  /\ phase = "draining" /\ wpc = "done" /\ phase' = "drained"
  /\ UNCHANGED <<handlerVars, channel, ch_healthy, writerVars, envVars>>

\* Ten seconds are over.  With PromptDrain they are over only when the writer
\* has nothing left to do.
DrainTimeout ==
  /\ phase = "draining" /\ wpc # "done"
  /\ PromptDrain => wpc = "recv" /\ channel = <<>> /\ ~Closed
  /\ phase' = "timed_out"
  /\ UNCHANGED <<handlerVars, channel, ch_healthy, writerVars, envVars>>

ClickHouseFails ==
  /\ clickhouse = "up" /\ outages < MaxOutages
  /\ clickhouse' = "down" /\ outages' = outages + 1
  /\ UNCHANGED <<handlerVars, channel, ch_healthy, writerVars, phase, lost_answers>>

ClickHouseRecovers ==
  /\ clickhouse = "down" /\ clickhouse' = "up"
  /\ UNCHANGED <<handlerVars, channel, ch_healthy, writerVars, phase, outages, lost_answers>>

WriterNext ==
  /\ phase \in {"serving", "draining"}
  /\ \/ ping_ready \/ fill_first \/ fill_more \/ fill_done \/ drain_final
     \/ InsertOk \/ InsertFails

Next ==
  \/ \E b \in Batch : Post(b) \/ Reserve(b) \/ Send(b) \/ AnswerLost(b)
  \/ WriterNext
  \/ Shutdown \/ Drained \/ DrainTimeout \/ ClickHouseFails \/ ClickHouseRecovers

Spec == Init /\ [][Next]_vars

\* Handlers and the writer task keep running, the runtime notices the end of the
\* drain, agents post a refused batch again, and ClickHouse comes back.
Fairness ==
  /\ \A b \in Batch : WF_vars(Post(b)) /\ WF_vars(Reserve(b) \/ Send(b))
  /\ WF_vars(WriterNext) /\ WF_vars(Drained) /\ WF_vars(ClickHouseRecovers)

FairSpec == Spec /\ Fairness
-----------------------------------------------------------------------------
(* Properties. *)

\* Type invariant of handlers, channel, writer task and shutdown.
TypeOK ==
  /\ req \in [Batch -> {"new", "healthy", "send", "200", "400", "503"}]
  /\ to_send \in [Batch -> SUBSET Row] /\ acked \subseteq Batch
  /\ channel \in Seq(Row) /\ ch_healthy \in BOOLEAN
  /\ wpc \in {"ping", "recv", "fill", "insert", "done"}
  /\ batch \in Seq(Row) /\ Len(batch) <= BatchMax /\ attempt \in 0..MaxInsertRetries
  /\ inserted \subseteq Row /\ dropped \subseteq Row
  /\ phase \in {"serving", "draining", "drained", "timed_out"}
  /\ clickhouse \in {"up", "down"} /\ outages \in 0..MaxOutages
  /\ lost_answers \in 0..MaxLost

\* ChannelBounded: rows in the channel and permits handed out never exceed its
\* capacity, however many handlers run at once, so every permit can send its row.
ChannelBounded == Len(channel) + Cardinality(Permits) <= ChannelCap

Taken == Range(channel) \cup Range(batch) \cup inserted \cup dropped

\* AllOrNothing: a batch enters the pipeline whole or not at all.  Every row of a
\* batch answered 200 is in the channel, in the writer's hands, in ClickHouse or
\* counted as dropped; of a batch never answered 200 no row is anywhere, unless its
\* handler is between try_reserve_many and the last send.
AllOrNothing ==
  \A b \in Batch :
    /\ b \in acked => Rows[b] \subseteq Taken
    /\ b \notin acked => Rows[b] \cap Taken = (IF req[b] = "send" THEN Rows[b] \ to_send[b] ELSE {})

\* DrainSettles: when the shutdown ends with the writer drained, or ends on its timeout
\* with the writer idle on an empty channel, every row of every batch answered 200 is
\* stored or counted as dropped: nothing accepted is left in the channel or in the
\* writer's hands (shutdown, drain_final).
DrainSettles ==
  phase = "drained" \/ (phase = "timed_out" /\ PromptDrain) =>
    \A b \in acked : Rows[b] \subseteq inserted \cup dropped

\* AckedSettles: no row of an acknowledged batch stays behind for ever: again and
\* again all of them are stored or counted as dropped, unless a shutdown runs out of
\* time.  (Neither acked nor the settled rows ever shrink.)
AckedSettles ==
  []<>((\A b \in acked : Rows[b] \subseteq inserted \cup dropped) \/ phase = "timed_out")

\* ShutdownDrains: the shutdown ends with the writer drained ("drain mpsc",
\* PATTERNS.md; "drop ingest tx -> ... drains mpsc -> flush", ADR 005).
ShutdownDrains == (phase = "draining") ~> (phase = "drained")

\* RefusedGetsThrough: a gateway that has accepted batches, and refuses one while
\* ClickHouse is away, accepts it once ClickHouse is back and the agent posts it again
\* ("unpause -> WAL drains", the drill for a ClickHouse that is paused for a while).
RefusedGetsThrough ==
  \A b \in Batch :
    (req[b] = "503" /\ acked # {} /\ clickhouse = "up")
      ~> (req[b] = "200" \/ clickhouse = "down" \/ phase # "serving")
=============================================================================
