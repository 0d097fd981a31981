---------------------------- MODULE GatewayProofs ----------------------------
(* The ingest path of the gateway, for any number of concurrent requests, any *)
(* batches, capacity and retry budget, and any number of outages.             *)
EXTENDS Gateway, FiniteSetTheorems, TLAPS

\* A permit belongs to the handler that reserved it, an insert in progress has an
\* attempt left, and the writer holds rows only while it fills or inserts.
PermitInv ==
  /\ \A b \in Batch : to_send[b] \subseteq Rows[b]
  /\ \A b \in Batch : to_send[b] # {} => req[b] = "send"
  /\ IsFiniteSet(Permits)
  /\ \A b \in Batch : req[b] = "200" => b \in acked
  /\ wpc = "insert" => attempt < MaxInsertRetries
  /\ wpc \notin {"fill", "insert"} => batch = <<>>

GatewayInv == TypeOK /\ PermitInv /\ ChannelBounded /\ AllOrNothing

-----------------------------------------------------------------------------
(* Sequences of rows. *)

\* The rows of a channel after one more was sent.
LEMMA RangeAppend ==
  ASSUME NEW S, NEW s \in Seq(S), NEW r \in S
  PROVE  /\ Append(s, r) \in Seq(S) /\ Len(Append(s, r)) = Len(s) + 1
         /\ Range(Append(s, r)) = Range(s) \cup {r}
  <1>1. /\ Append(s, r) \in Seq(S) /\ Len(Append(s, r)) = Len(s) + 1
        /\ \A i \in 1..Len(s) : Append(s, r)[i] = s[i]
        /\ Append(s, r)[Len(s) + 1] = r
        /\ DOMAIN s = 1..Len(s) /\ DOMAIN Append(s, r) = 1..Len(s) + 1 /\ Len(s) \in Nat
    OBVIOUS
  <1>2. ASSUME NEW x \in Range(Append(s, r)) PROVE x \in Range(s) \cup {r}
    <2>1. PICK i \in 1..Len(s) + 1 : x = Append(s, r)[i]
      BY <1>1, Zenon DEF Range
    <2>2. i \in 1..Len(s) \/ i = Len(s) + 1
      BY <1>1
    <2> QED
      BY <1>1, <2>1, <2>2, Zenon DEF Range
  <1>3. ASSUME NEW x \in Range(s) \cup {r} PROVE x \in Range(Append(s, r))
    <2>1. CASE x = r
      <3>1. Len(s) + 1 \in 1..Len(s) + 1
        BY <1>1
      <3> QED
        BY <1>1, <2>1, <3>1, Zenon DEF Range
    <2>2. CASE x \in Range(s)
      <3>1. PICK i \in 1..Len(s) : x = s[i]
        BY <1>1, <2>2, Zenon DEF Range
      <3>2. i \in 1..Len(s) + 1
        BY <1>1
      <3> QED
        BY <1>1, <3>1, <3>2, Zenon DEF Range
    <2> QED
      BY <2>1, <2>2, Zenon
  <1> QED
    BY <1>1, <1>2, <1>3, Zenon

\* Splitting a channel into a prefix and the rest keeps every row.
LEMMA RangeSplit ==
  ASSUME NEW S, NEW s \in Seq(S), NEW t \in Seq(S), NEW n \in 0..Len(s)
  PROVE  /\ t \o SubSeq(s, 1, n) \in Seq(S) /\ SubSeq(s, n + 1, Len(s)) \in Seq(S)
         /\ Len(t \o SubSeq(s, 1, n)) = Len(t) + n
         /\ Len(SubSeq(s, n + 1, Len(s))) = Len(s) - n
         /\ Range(t \o SubSeq(s, 1, n)) \cup Range(SubSeq(s, n + 1, Len(s))) = Range(t) \cup Range(s)
  <1> DEFINE p == SubSeq(s, 1, n)
             q == SubSeq(s, n + 1, Len(s))
             u == t \o p
  <1>0. n \in Nat /\ n <= Len(s) /\ Len(s) \in Nat /\ Len(t) \in Nat
    OBVIOUS
  <1>1. p \in Seq(S) /\ Len(p) = n /\ \A i \in 1..n : p[i] = s[i]
    BY <1>0
  <1>2. q \in Seq(S) /\ Len(q) = Len(s) - n /\ \A i \in 1..Len(s) - n : q[i] = s[n + i]
    BY <1>0
  <1> HIDE DEF p, q
  <1>3. /\ u \in Seq(S) /\ Len(u) = Len(t) + n
        /\ \A i \in 1..Len(t) : u[i] = t[i]
        /\ \A i \in 1..n : u[Len(t) + i] = p[i]
    BY <1>0, <1>1
  <1>4. /\ DOMAIN s = 1..Len(s) /\ DOMAIN t = 1..Len(t) /\ DOMAIN q = 1..Len(s) - n
        /\ DOMAIN u = 1..Len(t) + n
    BY <1>0, <1>1, <1>2, <1>3
  <1> HIDE DEF u
  <1>5. ASSUME NEW x \in Range(u) PROVE x \in Range(t) \cup Range(s)
    <2>1. PICK i \in 1..Len(t) + n : x = u[i]
      BY <1>4, Zenon DEF Range
    <2>2. CASE i <= Len(t)
      <3>1. i \in 1..Len(t)
        BY <1>0, <2>2
      <3> QED
        BY <1>3, <1>4, <2>1, <3>1, Zenon DEF Range
    <2>3. CASE i > Len(t)
      <3>1. i - Len(t) \in 1..n /\ i - Len(t) \in 1..Len(s) /\ i = Len(t) + (i - Len(t))
        BY <1>0, <2>3
      <3>2. x = s[i - Len(t)]
        BY <1>1, <1>3, <2>1, <3>1, Zenon
      <3> QED
        BY <1>4, <3>1, <3>2, Zenon DEF Range
    <2> QED
      BY <1>0, <2>2, <2>3
  <1>6. ASSUME NEW x \in Range(q) PROVE x \in Range(s)
    <2>1. PICK i \in 1..Len(s) - n : x = q[i]
      BY <1>4, Zenon DEF Range
    <2>2. n + i \in 1..Len(s)
      BY <1>0
    <2> QED
      BY <1>2, <1>4, <2>1, <2>2, Zenon DEF Range
  <1>7. ASSUME NEW x \in Range(t) PROVE x \in Range(u)
    <2>1. PICK i \in 1..Len(t) : x = t[i]
      BY <1>4, Zenon DEF Range
    <2>2. i \in 1..Len(t) + n
      BY <1>0
    <2> QED
      BY <1>3, <1>4, <2>1, <2>2, Zenon DEF Range
  <1>8. ASSUME NEW x \in Range(s) PROVE x \in Range(u) \cup Range(q)
    <2>1. PICK i \in 1..Len(s) : x = s[i]
      BY <1>4, Zenon DEF Range
    <2>2. CASE i <= n
      <3>1. i \in 1..n /\ Len(t) + i \in 1..Len(t) + n
        BY <1>0, <2>2
      <3>2. x = u[Len(t) + i]
        BY <1>1, <1>3, <2>1, <3>1, Zenon
      <3> QED
        BY <1>4, <3>1, <3>2, Zenon DEF Range
    <2>3. CASE i > n
      <3>1. i - n \in 1..Len(s) - n /\ n + (i - n) = i
        BY <1>0, <2>3
      <3>2. x = q[i - n]
        BY <1>2, <2>1, <3>1, Zenon
      <3> QED
        BY <1>4, <3>1, <3>2, Zenon DEF Range
    <2> QED
      BY <1>0, <2>2, <2>3
  <1>9. Range(u) \cup Range(q) = Range(t) \cup Range(s)
    BY <1>5, <1>6, <1>7, <1>8, Zenon
  <1> QED
    BY <1>2, <1>3, <1>9, Zenon DEF u, p, q


-----------------------------------------------------------------------------
(* One step of a handler. *)

\* Permits of distinct handlers are for distinct rows.
LEMMA Separate ==
  ASSUME PermitInv, NEW b \in Batch, NEW c \in Batch, b # c
  PROVE  to_send[b] \cap Rows[c] = {}
  BY GatewayAssumption, Zenon DEF PermitInv

\* A request arrives, or its answer is lost: nothing enters the pipeline.
LEMMA PostStep ==
  ASSUME GatewayInv, NEW b \in Batch, Post(b) \/ AnswerLost(b)
  PROVE  GatewayInv'
  <1>i. TypeOK /\ PermitInv /\ ChannelBounded /\ AllOrNothing
    BY Zenon DEF GatewayInv
  <1>1. UNCHANGED <<to_send, acked, channel, ch_healthy, wpc, batch, attempt, inserted, dropped, phase,
                    clickhouse, outages>>
    BY Zenon DEF Post, AnswerLost, Answer, writerVars, envVars
  <1>2. \E v \in {"new", "healthy", "400", "503"} : req' = [req EXCEPT ![b] = v]
    BY Zenon DEF Post, AnswerLost, Answer
  <1>3. req \in [Batch -> {"new", "healthy", "send", "200", "400", "503"}] /\ lost_answers \in 0..MaxLost
    BY <1>i, Zenon DEF TypeOK
  <1>4. req[b] # "send"
    BY Zenon DEF Post, AnswerLost
  <1>5. /\ req' \in [Batch -> {"new", "healthy", "send", "200", "400", "503"}]
        /\ req'[b] # "send" /\ req'[b] # "200" /\ \A c \in Batch : c # b => req'[c] = req[c]
    BY <1>2, <1>3, Zenon
  <1>6. lost_answers' \in 0..MaxLost
    BY <1>3, GatewayAssumption DEF Post, AnswerLost, envVars
  <1>7. TypeOK'
    BY <1>1, <1>5, <1>6, <1>i, Zenon DEF TypeOK
  <1>8. Permits' = Permits /\ Taken' = Taken
    BY <1>1, Zenon DEF Permits, Taken
  <1>9. PermitInv'
    BY <1>1, <1>4, <1>5, <1>8, <1>i, Zenon DEF PermitInv
  <1>10. ChannelBounded'
    BY <1>1, <1>8, <1>i, Zenon DEF ChannelBounded
  <1>11. AllOrNothing'
    BY <1>1, <1>4, <1>5, <1>8, <1>i, Zenon DEF AllOrNothing
  <1> QED
    BY <1>7, <1>9, <1>10, <1>11, Zenon DEF GatewayInv

\* try_reserve_many hands out a permit per row or none.
LEMMA ReserveStep ==
  ASSUME GatewayInv, NEW b \in Batch, Reserve(b)
  PROVE  GatewayInv'
  <1>i. TypeOK /\ PermitInv /\ ChannelBounded /\ AllOrNothing
    BY Zenon DEF GatewayInv
  <1>1. /\ UNCHANGED <<channel, ch_healthy, wpc, batch, attempt, inserted, dropped, phase,
                       clickhouse, outages, lost_answers>>
        /\ req[b] = "healthy" /\ to_send[b] = {}
    BY <1>i, Zenon DEF Reserve, writerVars, envVars, PermitInv
  <1>2. PICK v \in {"200", "send", "503"} :
          /\ req' = [req EXCEPT ![b] = v]
          /\ acked' = (IF v = "200" THEN acked \cup {b} ELSE acked)
          /\ v = "200" => Rows[b] = {} /\ to_send' = to_send
          /\ v = "503" => to_send' = to_send
          /\ v = "send" => Fits(b) /\ to_send' = [to_send EXCEPT ![b] = Rows[b]]
    BY Zenon DEF Reserve, Answer
  <1>3. /\ req \in [Batch -> {"new", "healthy", "send", "200", "400", "503"}] /\ acked \subseteq Batch
        /\ to_send \in [Batch -> SUBSET Row] /\ Rows[b] \subseteq Row
    BY <1>i, Zenon DEF TypeOK, Row
  <1>4. /\ req' \in [Batch -> {"new", "healthy", "send", "200", "400", "503"}]
        /\ req'[b] = v /\ \A c \in Batch : c # b => req'[c] = req[c] /\ to_send'[c] = to_send[c]
        /\ to_send' \in [Batch -> SUBSET Row] /\ acked' \subseteq Batch
        /\ to_send'[b] = IF v = "send" THEN Rows[b] ELSE {}
    BY <1>1, <1>2, <1>3, Zenon
  <1>5. TypeOK'
    BY <1>1, <1>4, <1>i, Zenon DEF TypeOK
  <1>6. Taken' = Taken
    BY <1>1, Zenon DEF Taken
  <1>7. Permits' = IF v = "send" THEN Permits \cup Rows[b] ELSE Permits
    <2>1. CASE v # "send"
      BY <1>2, <2>1, Zenon DEF Permits
    <2>2. CASE v = "send"
      <3>1. \A c \in Batch : to_send'[c] = IF c = b THEN Rows[b] ELSE to_send[c]
        BY <1>4, <2>2, Zenon
      <3> QED
        BY <1>1, <2>2, <3>1, Zenon DEF Permits
    <2> QED
      BY <2>1, <2>2, Zenon
  <1>8. IsFiniteSet(Permits) /\ IsFiniteSet(Rows[b])
    BY <1>i, GatewayAssumption, Zenon DEF PermitInv
  <1>9. /\ IsFiniteSet(Permits')
        /\ v = "send" => Cardinality(Permits') <= Cardinality(Permits) + Cardinality(Rows[b])
        /\ Cardinality(Permits') \in Nat /\ Cardinality(Permits) \in Nat /\ Cardinality(Rows[b]) \in Nat
    <2>1. /\ IsFiniteSet(Permits \cup Rows[b])
          /\ Cardinality(Permits \cup Rows[b]) =
               Cardinality(Permits) + Cardinality(Rows[b]) - Cardinality(Permits \cap Rows[b])
      BY <1>8, FS_Union, Zenon
    <2>2. IsFiniteSet(Permits \cap Rows[b])
      BY <1>8, FS_Intersection, Zenon
    <2>3. /\ Cardinality(Permits) \in Nat /\ Cardinality(Rows[b]) \in Nat
          /\ Cardinality(Permits \cap Rows[b]) \in Nat /\ Cardinality(Permits \cup Rows[b]) \in Nat
      BY <1>8, <2>1, <2>2, FS_CardinalityType, Zenon
    <2> QED
      BY <1>7, <1>8, <2>1, <2>3
  <1>10. PermitInv'
    BY <1>1, <1>2, <1>4, <1>9, <1>i, Zenon DEF PermitInv
  <1>11. ChannelBounded'
    <2>1. Len(channel) \in Nat /\ ChannelCap \in Nat
      BY <1>i, GatewayAssumption DEF TypeOK
    <2>2. CASE v = "send"
      <3>1. Len(channel) + Cardinality(Permits) + Cardinality(Rows[b]) <= ChannelCap
        BY <1>2, <2>2, Zenon DEF Fits
      <3> QED
        BY <1>1, <1>9, <2>1, <2>2, <3>1 DEF ChannelBounded
    <2>3. CASE v # "send"
      BY <1>1, <1>7, <1>i, <2>3, Zenon DEF ChannelBounded
    <2> QED
      BY <2>2, <2>3, Zenon
  <1>12. AllOrNothing'
    <2>1. ASSUME NEW c \in Batch, c # b
          PROVE  /\ c \in acked' => Rows[c] \subseteq Taken'
                 /\ c \notin acked' =>
                      Rows[c] \cap Taken' = (IF req'[c] = "send" THEN Rows[c] \ to_send'[c] ELSE {})
      <3>1. c \in acked' <=> c \in acked
        BY <1>2, <2>1, Zenon
      <3> QED
        BY <1>4, <1>6, <1>i, <2>1, <3>1, Zenon DEF AllOrNothing
    <2>2. /\ b \in acked' => Rows[b] \subseteq Taken'
          /\ b \notin acked' =>
               Rows[b] \cap Taken' = (IF req'[b] = "send" THEN Rows[b] \ to_send'[b] ELSE {})
      <3>1. /\ b \in acked => Rows[b] \subseteq Taken
            /\ b \notin acked => Rows[b] \cap Taken = {}
        BY <1>1, <1>i, Zenon DEF AllOrNothing
      <3> QED
        BY <1>2, <1>4, <1>6, <3>1, Zenon
    <2> QED
      BY <2>1, <2>2, Zenon DEF AllOrNothing
  <1> QED
    BY <1>5, <1>10, <1>11, <1>12, Zenon DEF GatewayInv

\* A permit sends its row.
LEMMA SendStep ==
  ASSUME GatewayInv, NEW b \in Batch, Send(b)
  PROVE  GatewayInv'
  <1>i. TypeOK /\ PermitInv /\ ChannelBounded /\ AllOrNothing
    BY Zenon DEF GatewayInv
  <1>1. /\ UNCHANGED <<ch_healthy, wpc, batch, attempt, inserted, dropped, phase,
                       clickhouse, outages, lost_answers>>
        /\ req[b] = "send"
    BY Zenon DEF Send, writerVars, envVars
  <1>2. PICK r \in to_send[b] :
          /\ channel' = Append(channel, r)
          /\ to_send' = [to_send EXCEPT ![b] = @ \ {r}]
          /\ req' = [req EXCEPT ![b] = IF to_send[b] = {r} THEN "200" ELSE "send"]
          /\ acked' = (IF to_send[b] = {r} THEN acked \cup {b} ELSE acked)
    BY Zenon DEF Send, Answer
  <1>3. /\ req \in [Batch -> {"new", "healthy", "send", "200", "400", "503"}] /\ acked \subseteq Batch
        /\ to_send \in [Batch -> SUBSET Row] /\ channel \in Seq(Row) /\ r \in Row
    BY <1>i, Zenon DEF TypeOK
  <1>4. /\ req' \in [Batch -> {"new", "healthy", "send", "200", "400", "503"}]
        /\ req'[b] = (IF to_send[b] = {r} THEN "200" ELSE "send")
        /\ \A c \in Batch : c # b => req'[c] = req[c] /\ to_send'[c] = to_send[c]
        /\ to_send' \in [Batch -> SUBSET Row] /\ acked' \subseteq Batch
        /\ to_send'[b] = to_send[b] \ {r}
    BY <1>2, <1>3, Zenon
  <1>5. channel' \in Seq(Row) /\ Len(channel') = Len(channel) + 1 /\ Range(channel') = Range(channel) \cup {r}
    BY <1>2, <1>3, RangeAppend
  <1>6. TypeOK'
    BY <1>1, <1>4, <1>5, <1>i, Zenon DEF TypeOK
  <1>7. Taken' = Taken \cup {r}
    BY <1>1, <1>5, Zenon DEF Taken
  <1>8. \A c \in Batch : c # b => r \notin Rows[c] /\ r \notin to_send[c]
    BY <1>i, Separate, Zenon DEF PermitInv
  <1>9. Permits' = Permits \ {r} /\ r \in Permits
    <2>1. \A c \in Batch : to_send'[c] = to_send[c] \ {r}
      BY <1>4, <1>8, Zenon
    <2> QED
      BY <2>1 DEF Permits
  <1>10. /\ IsFiniteSet(Permits') /\ Cardinality(Permits') = Cardinality(Permits) - 1
         /\ Cardinality(Permits) \in Nat
    BY <1>9, <1>i, FS_RemoveElement, FS_CardinalityType, Zenon DEF PermitInv
  <1>11. PermitInv'
    <2>1. \A c \in Batch : to_send'[c] \subseteq Rows[c] /\ (to_send'[c] # {} => req'[c] = "send")
      BY <1>4, <1>i, Zenon DEF PermitInv
    <2>2. \A c \in Batch : req'[c] = "200" => c \in acked'
      BY <1>2, <1>4, <1>i, Zenon DEF PermitInv
    <2> QED
      BY <1>1, <1>10, <1>i, <2>1, <2>2, Zenon DEF PermitInv
  <1>12. ChannelBounded'
    <2>1. Len(channel) \in Nat /\ ChannelCap \in Nat
      BY <1>3, GatewayAssumption
    <2> QED
      BY <1>5, <1>10, <1>i, <2>1 DEF ChannelBounded
  <1>13. AllOrNothing'
    <2>1. ASSUME NEW c \in Batch, c # b
          PROVE  /\ c \in acked' => Rows[c] \subseteq Taken'
                 /\ c \notin acked' =>
                      Rows[c] \cap Taken' = (IF req'[c] = "send" THEN Rows[c] \ to_send'[c] ELSE {})
      <3>1. (c \in acked' <=> c \in acked) /\ Rows[c] \cap Taken' = Rows[c] \cap Taken
        BY <1>2, <1>7, <1>8, <2>1, Zenon
      <3>2. /\ c \in acked => Rows[c] \subseteq Taken
            /\ c \notin acked => Rows[c] \cap Taken = (IF req[c] = "send" THEN Rows[c] \ to_send[c] ELSE {})
        BY <1>i, Zenon DEF AllOrNothing
      <3> QED
        BY <1>4, <1>7, <2>1, <3>1, <3>2, Zenon
    <2>2. /\ b \in acked' => Rows[b] \subseteq Taken'
          /\ b \notin acked' =>
               Rows[b] \cap Taken' = (IF req'[b] = "send" THEN Rows[b] \ to_send'[b] ELSE {})
      <3>1. /\ b \in acked => Rows[b] \subseteq Taken
            /\ b \notin acked => Rows[b] \cap Taken = Rows[b] \ to_send[b]
            /\ to_send[b] \subseteq Rows[b]
        BY <1>1, <1>i, Zenon DEF AllOrNothing, PermitInv
      <3>2. CASE b \in acked
        <4>1. b \in acked'
          BY <1>2, <3>2, Zenon
        <4> QED
          BY <1>7, <3>1, <3>2, <4>1, Zenon
      <3>3. CASE b \notin acked /\ to_send[b] = {r}
        <4>1. b \in acked'
          BY <1>2, <3>3, Zenon
        <4> QED
          BY <1>7, <3>1, <3>3, <4>1, Zenon
      <3>4. CASE b \notin acked /\ to_send[b] # {r}
        <4>1. b \notin acked' /\ req'[b] = "send" /\ r \in Rows[b]
          BY <1>2, <1>4, <3>1, <3>4, Zenon
        <4>2. Rows[b] \cap Taken' = Rows[b] \ to_send'[b]
          BY <1>4, <1>7, <3>1, <3>4, <4>1, Zenon
        <4> QED
          BY <4>1, <4>2, Zenon
      <3> QED
        BY <3>2, <3>3, <3>4, Zenon
    <2> QED
      BY <2>1, <2>2, Zenon DEF AllOrNothing
  <1> QED
    BY <1>6, <1>11, <1>12, <1>13, Zenon DEF GatewayInv


-----------------------------------------------------------------------------
(* The writer task, shutdown and environment. *)

\* What the writer task does to the rows: it moves them, and never loses one.
LEMMA WriterEffect ==
  ASSUME TypeOK, PermitInv, WriterNext
  PROVE  /\ channel' \in Seq(Row) /\ Len(channel') <= Len(channel)
         /\ batch' \in Seq(Row) /\ Len(batch') <= BatchMax
         /\ inserted' \subseteq Row /\ dropped' \subseteq Row
         /\ wpc' \in {"ping", "recv", "fill", "insert", "done"} /\ ch_healthy' \in BOOLEAN
         /\ attempt' \in 0..MaxInsertRetries
         /\ wpc' = "insert" => attempt' < MaxInsertRetries
         /\ wpc' \notin {"fill", "insert"} => batch' = <<>>
         /\ Taken' = Taken
         /\ UNCHANGED <<handlerVars, phase, envVars>>
  <1>0. /\ channel \in Seq(Row) /\ batch \in Seq(Row) /\ Len(batch) <= BatchMax
        /\ Len(channel) \in Nat /\ Len(batch) \in Nat /\ BatchMax \in Nat \ {0}
        /\ inserted \subseteq Row /\ dropped \subseteq Row /\ ch_healthy \in BOOLEAN
        /\ attempt \in 0..MaxInsertRetries /\ MaxInsertRetries \in Nat \ {0} /\ attempt \in Nat
        /\ wpc = "insert" => attempt < MaxInsertRetries
        /\ wpc \notin {"fill", "insert"} => batch = <<>>
    BY GatewayAssumption DEF TypeOK, PermitInv
  <1>u. UNCHANGED <<handlerVars, phase, envVars>>
    BY Zenon DEF WriterNext, ping_ready, fill_first, fill_more, fill_done, drain_final, InsertOk, InsertFails,
           WriterOnly
  <1>e. /\ <<>> \in Seq(Row) /\ Len(<<>>) = 0 /\ Range(<<>>) = {}
        /\ Range(batch) \subseteq Row
    <2>1. Range(<<>>) = {}
      BY DEF Range
    <2>2. Range(batch) \subseteq Row
      BY <1>0 DEF Range
    <2> QED
      BY <2>1, <2>2
  <1>1. CASE ping_ready
    <2>1. /\ wpc = "ping" /\ wpc' = "recv" /\ ch_healthy' \in BOOLEAN
          /\ UNCHANGED <<channel, batch, attempt, inserted, dropped>>
      BY <1>1, Zenon DEF ping_ready
    <2> QED
      BY <1>0, <1>u, <2>1 DEF Taken
  <1>t. ASSUME NEW n \in 0..Len(channel), Take(n), Len(batch) + n <= BatchMax
        PROVE  /\ channel' \in Seq(Row) /\ Len(channel') <= Len(channel)
               /\ batch' \in Seq(Row) /\ Len(batch') <= BatchMax
               /\ Range(batch') \cup Range(channel') = Range(batch) \cup Range(channel)
    <2>1. /\ batch' \in Seq(Row) /\ channel' \in Seq(Row)
          /\ Len(batch') = Len(batch) + n /\ Len(channel') = Len(channel) - n
          /\ Range(batch') \cup Range(channel') = Range(batch) \cup Range(channel)
      BY <1>0, <1>t, RangeSplit DEF Take
    <2> QED
      BY <1>0, <1>t, <2>1
  <1>2. CASE fill_first
    <2>1. Take(1) /\ wpc' = "fill" /\ channel # <<>> /\ UNCHANGED <<ch_healthy, attempt, inserted, dropped>>
      BY <1>2, Zenon DEF fill_first
    <2>2. wpc = "recv"
      BY <1>2, Zenon DEF fill_first
    <2>3. 1 \in 0..Len(channel)
      BY <1>0, <2>1
    <2>4. Len(batch) + 1 <= BatchMax
      BY <1>0, <1>e, <2>2
    <2> QED
      BY <1>0, <1>t, <1>u, <2>1, <2>3, <2>4, Zenon DEF Taken
  <1>3. CASE fill_more
    <2>1. /\ Take(Received) /\ wpc = "fill" /\ wpc' = wpc
          /\ UNCHANGED <<ch_healthy, attempt, inserted, dropped>> /\ Len(batch) < BatchMax
      BY <1>3, Zenon DEF fill_more
    <2>2. Received \in 0..Len(channel) /\ Len(batch) + Received <= BatchMax
      BY <1>0, <2>1 DEF Received
    <2> QED
      BY <1>0, <1>t, <1>u, <2>1, <2>2, Zenon DEF Taken
  <1>4. CASE fill_done
    BY <1>0, <1>4, <1>u DEF fill_done, Taken
  <1>5. CASE drain_final
    BY <1>0, <1>5, <1>u DEF drain_final, Taken
  <1>6. CASE InsertOk
    <2>1. /\ inserted' = inserted \cup Range(batch) /\ ch_healthy' = TRUE /\ wpc' = "recv" /\ batch' = <<>>
          /\ UNCHANGED <<channel, attempt, dropped>>
      BY <1>6, Zenon DEF InsertOk, AfterFlush
    <2>2. Taken' = Taken
      BY <1>e, <2>1, Zenon DEF Taken
    <2> QED
      BY <1>0, <1>e, <1>u, <2>1, <2>2
  <1>7. CASE InsertFails
    <2>1. /\ inserted' \in {inserted, inserted \cup Range(batch)} /\ ch_healthy' = FALSE
          /\ attempt' = attempt + 1 /\ wpc = "insert" /\ UNCHANGED channel
          /\ \/ /\ attempt + 1 >= MaxInsertRetries /\ dropped' = dropped \cup Range(batch)
                /\ wpc' = "recv" /\ batch' = <<>>
             \/ ~(attempt + 1 >= MaxInsertRetries) /\ UNCHANGED <<dropped, wpc, batch>>
      BY <1>7, Zenon DEF InsertFails, AfterFlush
    <2>2. attempt' \in 0..MaxInsertRetries /\ (wpc' = "insert" => attempt' < MaxInsertRetries)
      BY <1>0, <2>1
    <2>3. /\ Taken' = Taken /\ inserted' \subseteq Row /\ dropped' \subseteq Row
          /\ batch' \in Seq(Row) /\ Len(batch') <= BatchMax
      <3>1. CASE dropped' = dropped \cup Range(batch) /\ batch' = <<>>
        BY <1>0, <1>e, <2>1, <3>1 DEF Taken
      <3>2. CASE dropped' = dropped /\ batch' = batch
        BY <1>0, <1>e, <2>1, <3>2, Zenon DEF Taken
      <3> QED
        BY <2>1, <3>1, <3>2, Zenon
    <2>4. ch_healthy' \in BOOLEAN
      BY <2>1, Zenon
    <2>5. /\ channel' = channel /\ (wpc' = "recv" \/ wpc' = "insert")
          /\ wpc' \notin {"fill", "insert"} => batch' = <<>>
      BY <2>1, Zenon
    <2> QED
      BY <1>0, <1>u, <2>2, <2>3, <2>4, <2>5
  <1> QED
    BY <1>1, <1>2, <1>3, <1>4, <1>5, <1>6, <1>7, Zenon DEF WriterNext


\* Every step keeps the invariant.
LEMMA GatewayInductive == GatewayInv /\ [Next]_vars => GatewayInv'
  <1> SUFFICES ASSUME GatewayInv, Next \/ UNCHANGED vars PROVE GatewayInv'
    BY Zenon
  <1>i. TypeOK /\ PermitInv /\ ChannelBounded /\ AllOrNothing
    BY Zenon DEF GatewayInv
  <1>1. ASSUME NEW b \in Batch, Post(b) \/ Reserve(b) \/ Send(b) \/ AnswerLost(b) PROVE GatewayInv'
    BY <1>1, PostStep, ReserveStep, SendStep, Zenon
  <1>2. CASE WriterNext
    <2>1. /\ channel' \in Seq(Row) /\ Len(channel') <= Len(channel)
          /\ batch' \in Seq(Row) /\ Len(batch') <= BatchMax
          /\ inserted' \subseteq Row /\ dropped' \subseteq Row
          /\ wpc' \in {"ping", "recv", "fill", "insert", "done"} /\ ch_healthy' \in BOOLEAN
          /\ attempt' \in 0..MaxInsertRetries
          /\ wpc' = "insert" => attempt' < MaxInsertRetries
          /\ wpc' \notin {"fill", "insert"} => batch' = <<>>
          /\ Taken' = Taken
          /\ UNCHANGED <<req, to_send, acked, phase, clickhouse, outages, lost_answers>>
      BY <1>2, <1>i, WriterEffect, Zenon DEF handlerVars, envVars
    <2>2. Permits' = Permits
      BY <2>1, Zenon DEF Permits
    <2>3. TypeOK'
      BY <1>i, <2>1, Zenon DEF TypeOK
    <2>4. PermitInv'
      BY <1>i, <2>1, <2>2, Zenon DEF PermitInv
    <2>5. ChannelBounded'
      <3>1. Len(channel) \in Nat /\ Len(channel') \in Nat /\ ChannelCap \in Nat /\ Cardinality(Permits) \in Nat
        BY <1>i, <2>1, GatewayAssumption, FS_CardinalityType DEF TypeOK, PermitInv
      <3> QED
        BY <1>i, <2>1, <2>2, <3>1 DEF ChannelBounded
    <2>6. AllOrNothing'
      BY <1>i, <2>1, Zenon DEF AllOrNothing
    <2> QED
      BY <2>1, <2>3, <2>4, <2>5, <2>6, Zenon DEF GatewayInv
  <1>3. CASE /\ UNCHANGED <<handlerVars, channel, ch_healthy, writerVars>>
             /\ phase' \in {"serving", "draining", "drained", "timed_out"}
             /\ clickhouse' \in {"up", "down"} /\ outages' \in 0..MaxOutages
             /\ lost_answers' \in 0..MaxLost
    <2>1. UNCHANGED <<req, to_send, acked, channel, ch_healthy, wpc, batch, attempt, inserted, dropped>>
      BY <1>3, Zenon DEF handlerVars, writerVars
    <2>2. TypeOK'
      BY <1>3, <1>i, <2>1, Zenon DEF TypeOK
    <2>3. Permits' = Permits /\ Taken' = Taken
      BY <2>1, Zenon DEF Permits, Taken
    <2>4. PermitInv' /\ ChannelBounded'
      BY <1>i, <2>1, <2>3, Zenon DEF PermitInv, ChannelBounded
    <2>5. AllOrNothing'
      BY <1>i, <2>1, <2>3, Zenon DEF AllOrNothing
    <2> QED
      BY <2>2, <2>4, <2>5, Zenon DEF GatewayInv
  <1>4. CASE Shutdown \/ Drained \/ DrainTimeout
    BY <1>3, <1>4, <1>i, Zenon DEF Shutdown, Drained, DrainTimeout, envVars, TypeOK
  <1>5. CASE ClickHouseFails \/ ClickHouseRecovers
    <2>1. outages \in 0..MaxOutages /\ MaxOutages \in Nat
      BY <1>i, GatewayAssumption, Zenon DEF TypeOK
    <2>2. outages' \in 0..MaxOutages /\ clickhouse' \in {"up", "down"}
      BY <1>5, <2>1 DEF ClickHouseFails, ClickHouseRecovers
    <2>3. UNCHANGED <<handlerVars, channel, ch_healthy, writerVars, phase, lost_answers>>
      BY <1>5, Zenon DEF ClickHouseFails, ClickHouseRecovers
    <2> QED
      BY <1>3, <1>i, <2>2, <2>3, Zenon DEF TypeOK
  <1>6. CASE UNCHANGED vars
    <2>1. UNCHANGED <<handlerVars, channel, ch_healthy, writerVars, phase, clickhouse, outages, lost_answers>>
      BY <1>6, Zenon DEF vars, envVars
    <2>2. /\ phase \in {"serving", "draining", "drained", "timed_out"} /\ clickhouse \in {"up", "down"}
          /\ outages \in 0..MaxOutages /\ lost_answers \in 0..MaxLost
      BY <1>i, Zenon DEF TypeOK
    <2> QED
      BY <1>3, <2>1, <2>2, Zenon
  <1> QED
    BY <1>1, <1>2, <1>4, <1>5, <1>6, Zenon DEF Next

\* The gateway starts with no request and an empty channel.
LEMMA GatewayInit == Init => GatewayInv
  <1> SUFFICES ASSUME Init PROVE GatewayInv
    BY Zenon
  <1>1. Permits = {} /\ Range(<<>>) = {}
    BY DEF Init, Permits, Range
  <1>2. Taken = {}
    BY <1>1, Zenon DEF Init, Taken
  <1>3. IsFiniteSet(Permits) /\ Cardinality(Permits) = 0
    BY <1>1, FS_EmptySet, Zenon
  <1>4. TypeOK
    <2>1. /\ channel \in Seq(Row) /\ batch \in Seq(Row) /\ Len(batch) = 0
          /\ to_send \in [Batch -> SUBSET Row]
      BY DEF Init
    <2>2. /\ Len(batch) <= BatchMax /\ 0 \in 0..MaxInsertRetries
          /\ 0 \in 0..MaxOutages /\ 0 \in 0..MaxLost
      BY <2>1, GatewayAssumption
    <2> QED
      BY <2>1, <2>2, Zenon DEF Init, TypeOK
  <1>5. PermitInv
    BY <1>3, Zenon DEF Init, PermitInv
  <1>6. ChannelBounded
    <2>1. Len(channel) = 0
      BY Zenon DEF Init
    <2> QED
      BY <1>3, <2>1, GatewayAssumption DEF ChannelBounded
  <1>7. AllOrNothing
    BY <1>2, Zenon DEF Init, AllOrNothing
  <1> QED
    BY <1>4, <1>5, <1>6, <1>7, Zenon DEF GatewayInv

\* The invariant of the ingest path.
LEMMA GatewayCorrect == Spec => []GatewayInv
  BY GatewayInit, GatewayInductive, PTL DEF Spec

\* GatewayTypeCorrect: the channel, the handlers, the writer task and the shutdown keep
\* their types, whatever the batches, the capacity and the retry budget.
THEOREM GatewayTypeCorrect == Spec => []TypeOK
  <1>1. GatewayInv => TypeOK
    BY Zenon DEF GatewayInv
  <1> QED
    BY <1>1, GatewayCorrect, PTL

\* PermitsFit: however many handlers run at once, rows and permits never exceed the
\* channel's capacity (try_reserve_many against the sends of other handlers).
THEOREM PermitsFit == Spec => []ChannelBounded
  <1>1. GatewayInv => ChannelBounded
    BY Zenon DEF GatewayInv
  <1> QED
    BY <1>1, GatewayCorrect, PTL

\* AcceptedWhole: a batch is in the pipeline whole or not at all, and no row of an
\* acknowledged batch is lost without being counted, through outages, retries of the
\* insert and repeated posts (ingest_inner, fill_batch, flush_with_retry).
THEOREM AcceptedWhole == Spec => []AllOrNothing
  <1>1. GatewayInv => AllOrNothing
    BY Zenon DEF GatewayInv
  <1> QED
    BY <1>1, GatewayCorrect, PTL
-----------------------------------------------------------------------------
(* The end of the shutdown. *)

\* No handler outlives the server, and the writer ends on an empty, closed channel.
StopInv ==
  /\ phase # "serving" => \A b \in Batch : req[b] \notin {"healthy", "send"}
  /\ wpc = "done" => channel = <<>> /\ phase # "serving"
  /\ phase = "drained" => wpc = "done"
  /\ phase = "timed_out" /\ PromptDrain => wpc = "recv" /\ channel = <<>>

\* Every step keeps it: requests end before the channel closes.
LEMMA StopStep ==
  ASSUME TypeOK, StopInv, [Next]_vars
  PROVE  StopInv'
  <1>1. ASSUME NEW b \in Batch, Post(b) \/ Reserve(b) PROVE StopInv'
    <2>1. /\ phase = "serving" \/ req[b] = "healthy"
          /\ UNCHANGED <<channel, wpc, phase>>
      BY <1>1, Zenon DEF Post, Reserve, writerVars
    <2>2. phase = "serving"
      BY <2>1, Zenon DEF StopInv
    <2> QED
      BY <2>1, <2>2, Zenon DEF StopInv
  <1>2. ASSUME NEW b \in Batch, Send(b) PROVE StopInv'
    <2>1. req[b] = "send" /\ UNCHANGED <<wpc, phase>>
      BY <1>2, Zenon DEF Send, writerVars
    <2>2. phase = "serving"
      BY <2>1, Zenon DEF StopInv
    <2> QED
      BY <2>1, <2>2, Zenon DEF StopInv
  <1>3. ASSUME NEW b \in Batch, AnswerLost(b) PROVE StopInv'
    <2>1. req' = [req EXCEPT ![b] = "new"] /\ UNCHANGED <<channel, wpc, phase>>
      BY <1>3, Zenon DEF AnswerLost, writerVars
    <2>2. \A c \in Batch : req'[c] = "new" \/ req'[c] = req[c]
      BY <2>1 DEF TypeOK
    <2> QED
      BY <2>1, <2>2, Zenon DEF StopInv
  <1>4. CASE WriterNext
    <2>1. phase \in {"serving", "draining"} /\ phase' = phase /\ req' = req
      BY <1>4, Zenon DEF WriterNext, ping_ready, fill_first, fill_more, fill_done, drain_final, InsertOk,
             InsertFails, WriterOnly, handlerVars
    <2>2. wpc' = "done" => channel' = <<>> /\ phase # "serving"
      <3>1. CASE drain_final
        BY <3>1, Zenon DEF drain_final, Closed
      <3>2. CASE wpc' # "done"
        BY <3>2, Zenon
      <3>3. ping_ready \/ fill_first \/ fill_done \/ InsertOk => wpc' # "done"
        BY Zenon DEF ping_ready, fill_first, fill_done, InsertOk, AfterFlush
      <3>4. fill_more \/ InsertFails => wpc' # "done"
        BY Zenon DEF fill_more, InsertFails, AfterFlush
      <3> QED
        BY <1>4, <3>1, <3>2, <3>3, <3>4, Zenon DEF WriterNext
    <2>3. phase # "drained" /\ phase # "timed_out"
      BY <2>1, Zenon
    <2> QED
      BY <2>1, <2>2, <2>3, Zenon DEF StopInv
  <1>5. CASE Shutdown
    <2>1. /\ InFlight = {} /\ phase' = "draining" /\ UNCHANGED <<req, channel, wpc>>
      BY <1>5, Zenon DEF Shutdown, handlerVars, writerVars
    <2>2. \A b \in Batch : req[b] \notin {"healthy", "send"}
      BY <2>1, Zenon DEF InFlight
    <2> QED
      BY <2>1, <2>2, Zenon DEF StopInv
  <1>6. CASE Drained \/ DrainTimeout
    <2>1. /\ phase = "draining" /\ UNCHANGED <<req, channel, wpc>>
          /\ \/ phase' = "drained" /\ wpc = "done"
             \/ phase' = "timed_out" /\ (PromptDrain => wpc = "recv" /\ channel = <<>>)
      BY <1>6, Zenon DEF Drained, DrainTimeout, handlerVars, writerVars
    <2> QED
      BY <2>1, Zenon DEF StopInv
  <1>7. CASE ClickHouseFails \/ ClickHouseRecovers \/ UNCHANGED vars
    <2>1. UNCHANGED <<req, channel, wpc, phase>>
      BY <1>7, Zenon DEF ClickHouseFails, ClickHouseRecovers, vars, handlerVars, writerVars
    <2> QED
      BY <2>1, Zenon DEF StopInv
  <1> QED
    BY <1>1, <1>2, <1>3, <1>4, <1>5, <1>6, <1>7, Zenon DEF Next

\* With the channel empty and the writer idle, AllOrNothing leaves two places for a row.
LEMMA SettledAtStop == GatewayInv /\ StopInv => DrainSettles
  <1> SUFFICES ASSUME GatewayInv, StopInv, phase = "drained" \/ (phase = "timed_out" /\ PromptDrain),
                      NEW b \in acked
               PROVE  Rows[b] \subseteq inserted \cup dropped
    BY Zenon DEF DrainSettles
  <1>1. channel = <<>> /\ wpc \in {"recv", "done"}
    BY Zenon DEF StopInv
  <1>2. batch = <<>>
    BY <1>1, Zenon DEF GatewayInv, PermitInv
  <1>3. Range(<<>>) = {}
    BY DEF Range
  <1>4. Rows[b] \subseteq Taken
    BY Zenon DEF GatewayInv, TypeOK, AllOrNothing
  <1> QED
    BY <1>1, <1>2, <1>3, <1>4, Zenon DEF Taken

\* NothingLeftBehind: an orderly end of the shutdown leaves no accepted row unsettled,
\* whatever requests, outages and lost answers came before it (shutdown, drain_final,
\* flush_with_retry).
THEOREM NothingLeftBehind == Spec => []DrainSettles
  <1>1. Init => StopInv
    BY Zenon DEF Init, StopInv
  <1>2. GatewayInv /\ StopInv /\ [Next]_vars => StopInv'
    BY StopStep, Zenon DEF GatewayInv
  <1> QED
    BY <1>1, <1>2, GatewayCorrect, SettledAtStop, PTL DEF Spec

\* SettledStays: a batch answered 200 stays answered, and a row stored or counted as
\* dropped stays so; with it the []<> of AckedSettles says that every such row settles
\* for good (InsertOk, InsertFails, ingest_inner).
LEMMA SettledStays ==
  Spec => [][acked \subseteq acked' /\ inserted \subseteq inserted' /\ dropped \subseteq dropped']_vars
  <1>1. ASSUME NEW b \in Batch, Post(b) \/ Reserve(b) \/ Send(b) \/ AnswerLost(b)
        PROVE  acked \subseteq acked' /\ inserted' = inserted /\ dropped' = dropped
    BY <1>1, Zenon DEF Post, Reserve, Send, AnswerLost, Answer, writerVars
  <1>2. WriterNext => acked' = acked /\ inserted \subseteq inserted' /\ dropped \subseteq dropped'
    BY Zenon DEF WriterNext, ping_ready, fill_first, fill_more, fill_done, drain_final, InsertOk,
           InsertFails, WriterOnly, handlerVars
  <1>3. Shutdown \/ Drained \/ DrainTimeout \/ ClickHouseFails \/ ClickHouseRecovers
          => UNCHANGED <<acked, inserted, dropped>>
    BY Zenon DEF Shutdown, Drained, DrainTimeout, ClickHouseFails, ClickHouseRecovers, handlerVars, writerVars
  <1>4. [Next]_vars =>
          [acked \subseteq acked' /\ inserted \subseteq inserted' /\ dropped \subseteq dropped']_vars
    BY <1>1, <1>2, <1>3, Zenon DEF Next
  <1> QED
    BY <1>4, PTL DEF Spec
=============================================================================
