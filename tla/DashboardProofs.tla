--------------------------- MODULE DashboardProofs ---------------------------
(* The dashboard's cache and rate limiter, for every set of questions, every  *)
(* number of concurrent requests, every TTL, cache size, window and limit.    *)
EXTENDS Dashboard, FiniteSetTheorems, TLAPS

IsQuestion(v) == \E p \in Params : v = NormalizedQuery(p)

\* What a cache entry is: the answer to a question, under the key of that question,
\* pinned if the question has no filter.
CacheInv ==
  /\ IsFiniteSet(DOMAIN state_cache)
  /\ \A k \in DOMAIN state_cache :
       /\ IsQuestion(state_cache[k].body) /\ k = cache_key(state_cache[k].body)
       /\ state_cache[k].pinned <=> is_hot_view(state_cache[k].body)

\* Requests in progress carry a question.
QueryInv ==
  /\ query = [h \in Handler |-> query[h]]
  /\ \A h \in Handler : pc[h] \in {"rows", "totals"} => IsQuestion(query[h])

Before == Len(grants) - count

\* Where the grants lie: in order; those of the current window in it; those before it
\* before its start; and those before the window before it a window earlier.
RateInv ==
  /\ Before \in Nat
  /\ \A i \in DOMAIN grants : grants[i] < started + Window
  /\ \A i \in DOMAIN grants : i <= Before => grants[i] < started
  /\ \A i \in DOMAIN grants : i <= Before - MaxPerWindow => grants[i] + Window < started

DashboardInv == TypeOK /\ CacheInv /\ QueryInv /\ RateInv /\ RateBounded /\ FilteredBounded
-----------------------------------------------------------------------------
(* Questions and keys. *)

\* A filter is missing or a text that is not empty.
LEMMA FilterType ==
  ASSUME NEW v, IsQuestion(v)
  PROVE  /\ v.node = None \/ (v.node \in Seq(Token) /\ v.node # <<>>)
         /\ v.q = None \/ (v.q \in Seq(Token) /\ v.q # <<>>)
  <1>1. PICK p \in Params : v = NormalizedQuery(p)
    BY Zenon DEF IsQuestion
  <1>2. /\ v.node = (IF p.node \in TooLong \cup {<<>>} THEN None ELSE p.node)
        /\ v.q = (IF p.q = None \/ Short(p.q) = <<>> THEN None ELSE Short(p.q))
    BY <1>1, Zenon DEF NormalizedQuery
  <1>3. /\ p.node = None \/ p.node \in Seq(Token)
        /\ p.q = None \/ Short(p.q) \in Seq(Token)
    BY DashboardAssumption, Zenon
  <1> QED BY <1>2, <1>3, Zenon

LEMMA TextType ==
  ASSUME NEW v, IsQuestion(v)
  PROVE  /\ text(v.node) \in Seq(Token) /\ text(v.q) \in Seq(Token)
         /\ v.node = None <=> text(v.node) = <<>>
         /\ v.q = None <=> text(v.q) = <<>>
  <1>1. <<>> \in Seq(Token)
    OBVIOUS
  <1>2. None # <<>>
    BY <1>1, DashboardAssumption, Zenon
  <1> QED BY <1>1, <1>2, FilterType, Zenon DEF text

\* Range and limit are clamped, whatever was asked.
LEMMA KeyType ==
  ASSUME NEW v, IsQuestion(v)
  PROVE  KeyOK(cache_key(v)) /\ v.unattributed \in BOOLEAN
  <1>1. PICK p \in Params : v = NormalizedQuery(p)
    BY Zenon DEF IsQuestion
  <1>2. p.range \in Nat /\ p.limit \in Nat /\ p.unattributed \in BOOLEAN /\ MaxLimit \in Nat \ {0}
    BY DashboardAssumption, Zenon
  <1>3. /\ v.range = Clamp(p.range, MIN_RANGE_SECS, MAX_RANGE_SECS)
        /\ v.limit = Clamp(p.limit, 1, MaxLimit) /\ v.unattributed = p.unattributed
    BY <1>1, Zenon DEF NormalizedQuery
  <1>4. v.range \in MIN_RANGE_SECS..MAX_RANGE_SECS
    <2>1. v.range = (IF p.range < 60 THEN 60 ELSE IF p.range > 3600 THEN 3600 ELSE p.range)
      BY <1>3, Zenon DEF Clamp, MIN_RANGE_SECS, MAX_RANGE_SECS
    <2>2. p.range \in Nat
      BY <1>2
    <2>3. v.range \in Nat /\ 60 <= v.range /\ v.range <= 3600
      BY ONLY <2>1, <2>2
    <2>4. /\ v.range \in Nat /\ MIN_RANGE_SECS \in Nat /\ MAX_RANGE_SECS \in Nat
          /\ MIN_RANGE_SECS <= v.range /\ v.range <= MAX_RANGE_SECS
      BY <2>3 DEF MIN_RANGE_SECS, MAX_RANGE_SECS
    <2> QED BY ONLY <2>4
  <1>5. v.limit \in 1..MaxLimit
    BY <1>2, <1>3 DEF Clamp
  <1> QED BY <1>2, <1>3, <1>4, <1>5, Zenon DEF KeyOK, cache_key

\* Two texts joined by a separator that the first does not contain can be told apart.
LEMMA Split ==
  ASSUME NEW S, NEW s \in S, NEW a \in Seq(S), NEW b \in Seq(S), NEW c \in Seq(S),
         NEW d \in Seq(S), s \notin Range(a), s \notin Range(c),
         a \o <<s>> \o b = c \o <<s>> \o d
  PROVE  a = c /\ b = d
  <1> DEFINE l == a \o <<s>> \o b
             r == c \o <<s>> \o d
  <1>1. /\ Len(l) = Len(a) + 1 + Len(b) /\ l[Len(a) + 1] = s
        /\ \A i \in 1..Len(a) : l[i] = a[i]
        /\ \A i \in 1..Len(b) : l[Len(a) + 1 + i] = b[i]
    OBVIOUS
  <1>2. /\ Len(r) = Len(c) + 1 + Len(d) /\ r[Len(c) + 1] = s
        /\ \A i \in 1..Len(c) : r[i] = c[i]
        /\ \A i \in 1..Len(d) : r[Len(c) + 1 + i] = d[i]
    OBVIOUS
  <1>3. l = r
    BY Zenon
  <1>4. (\A i \in 1..Len(a) : a[i] # s) /\ (\A i \in 1..Len(c) : c[i] # s)
    BY DEF Range
  <1> HIDE DEF l, r
  <1>5. Len(a) = Len(c)
    <2>0. Len(a) \in Nat /\ Len(c) \in Nat
      OBVIOUS
    <2>1. ASSUME Len(a) < Len(c) PROVE FALSE
      <3>1. Len(a) + 1 \in 1..Len(c)
        BY <2>0, <2>1
      <3>2. r[Len(a) + 1] = c[Len(a) + 1] /\ c[Len(a) + 1] # s
        BY <3>1, <1>2, <1>4, Zenon
      <3> QED BY ONLY <3>2, <1>1, <1>3, Zenon
    <2>2. ASSUME Len(c) < Len(a) PROVE FALSE
      <3>1. Len(c) + 1 \in 1..Len(a)
        BY <2>0, <2>2
      <3>2. l[Len(c) + 1] = a[Len(c) + 1] /\ a[Len(c) + 1] # s
        BY <3>1, <1>1, <1>4, Zenon
      <3> QED BY ONLY <3>2, <1>2, <1>3, Zenon
    <2> QED BY ONLY <2>0, <2>1, <2>2
  <1>6. Len(b) = Len(d)
    BY <1>1, <1>2, <1>3, <1>5
  <1>7. \A i \in 1..Len(a) : a[i] = c[i]
    BY <1>1, <1>2, <1>3, <1>5, Zenon
  <1>8. \A i \in 1..Len(b) : b[i] = d[i]
    BY <1>1, <1>2, <1>3, <1>5, <1>6, Zenon
  <1>9. ASSUME NEW x \in Seq(S), NEW y \in Seq(S), Len(x) = Len(y),
               \A i \in 1..Len(x) : x[i] = y[i]
        PROVE  x = y
    <2>1. x = [i \in 1..Len(x) |-> x[i]] /\ y = [i \in 1..Len(y) |-> y[i]]
      OBVIOUS
    <2> QED BY <1>9, <2>1, Zenon
  <1>10. a = c
    BY <1>5, <1>7, <1>9, Zenon
  <1> QED BY <1>6, <1>8, <1>9, <1>10, Zenon

\* Questions with the same key are the same question, up to a "&q=" in a node filter.
LEMMA SameKey ==
  ASSUME NEW v, NEW w, IsQuestion(v), IsQuestion(w), Plain(v), Plain(w),
         cache_key(v) = cache_key(w)
  PROVE  v = w
  <1> DEFINE S == Token \cup {"&q="}
  <1>1. /\ text(v.node) \in Seq(S) /\ text(v.q) \in Seq(S)
        /\ text(w.node) \in Seq(S) /\ text(w.q) \in Seq(S)
    BY TextType
  <1>2. /\ v.range = w.range /\ v.limit = w.limit /\ v.sort = w.sort
        /\ v.unattributed = w.unattributed
        /\ text(v.node) \o <<"&q=">> \o text(v.q) = text(w.node) \o <<"&q=">> \o text(w.q)
    BY Zenon DEF cache_key
  <1>3. text(v.node) = text(w.node) /\ text(v.q) = text(w.q)
    <2>1. "&q=" \in S
      BY Zenon
    <2> HIDE DEF S
    <2> QED BY <1>1, <1>2, <2>1, Split, Zenon DEF Plain
  <1>4. v.node = w.node /\ v.q = w.q
    BY <1>3, TextType DEF text
  <1> QED BY <1>2, <1>4 DEF IsQuestion, NormalizedQuery

\* Whether a question is pinned can be read off its key.
LEMMA HotKey ==
  ASSUME NEW v, NEW w, IsQuestion(v), IsQuestion(w), cache_key(v) = cache_key(w)
  PROVE  is_hot_view(v) <=> is_hot_view(w)
  <1>1. ASSUME NEW u, IsQuestion(u)
        PROVE  u.node = None /\ u.q = None <=> Len(cache_key(u).filters) = 1
    <2>1. /\ text(u.node) \in Seq(Token \cup {"&q="}) /\ text(u.q) \in Seq(Token \cup {"&q="})
      BY <1>1, TextType
    <2>2. Len(cache_key(u).filters) = Len(text(u.node)) + 1 + Len(text(u.q))
      BY <2>1 DEF cache_key
    <2>3. (text(u.node) = <<>> <=> Len(text(u.node)) = 0) /\ (text(u.q) = <<>> <=> Len(text(u.q)) = 0)
      BY <2>1
    <2> QED BY <1>1, <2>1, <2>2, <2>3, TextType
  <1>2. v.unattributed = w.unattributed
    BY Zenon DEF cache_key
  <1>3. (v.node = None /\ v.q = None) <=> (w.node = None /\ w.q = None)
    BY <1>1, Zenon
  <1> QED BY <1>2, <1>3, Zenon DEF is_hot_view
-----------------------------------------------------------------------------
(* The rate limiter. *)

\* A granted request keeps the limiter's counters in their range.
LEMMA AllowType ==
  ASSUME TypeOK, Allow, now' = now
  PROVE  started' \in 0..now' /\ count' \in 0..MaxPerWindow /\ grants' \in Seq(0..now')
  <1>1. now \in Nat /\ started \in 0..now /\ count \in 0..MaxPerWindow /\ grants \in Seq(0..now)
    BY DEF TypeOK
  <1>2. MaxPerWindow \in Nat \ {0} /\ Window \in Nat \ {0}
    BY DashboardAssumption, Zenon
  <1>3. grants' \in Seq(0..now')
    BY <1>1 DEF Allow
  <1>4. started' \in 0..now' /\ count' \in 0..MaxPerWindow
    BY <1>1, <1>2 DEF Allow, WindowOver
  <1> QED BY <1>3, <1>4, Zenon

\* A granted request that opens a window leaves a window between itself and every
\* grant before the last window, and one that joins a window finds no more than
\* MaxPerWindow - 1 grants in it.
LEMMA AllowStep ==
  ASSUME TypeOK, RateInv, RateBounded, Allow, now' = now
  PROVE  RateInv' /\ RateBounded'
  <1> DEFINE n == Len(grants)
             M == MaxPerWindow
  <1>1. /\ now \in Nat /\ started \in Nat /\ started <= now /\ count \in Nat /\ count <= M
        /\ n \in Nat /\ DOMAIN grants = 1..n
        /\ \A i \in 1..n : grants[i] \in Nat /\ grants[i] <= now
    BY DashboardAssumption DEF TypeOK
  <1>2. M \in Nat /\ M >= 1 /\ Window \in Nat /\ Window >= 1
    BY DashboardAssumption
  <1>3. /\ Len(grants') = n + 1 /\ DOMAIN grants' = 1..(n + 1) /\ grants'[n + 1] = now
        /\ \A i \in 1..n : grants'[i] = grants[i]
    BY DEF Allow, TypeOK
  <1>4. /\ n - count \in Nat
        /\ \A i \in 1..n : grants[i] < started + Window
        /\ \A i \in 1..n : i <= n - count => grants[i] < started
        /\ \A i \in 1..n : i <= n - count - M => grants[i] + Window < started
    BY <1>1, Zenon DEF RateInv, Before
  <1>5. \A i \in 1..n : i + 2 * M \in 1..n => grants[i + 2 * M] - grants[i] > Window
    BY <1>1, Zenon DEF RateBounded
  <1>6. \/ now - started >= Window /\ started' = now /\ count' = 1
        \/ now - started < Window /\ started' = started /\ count' = count + 1 /\ count < M
    BY <1>1, <1>2 DEF Allow, WindowOver
  <1> HIDE DEF n, M
  <1>7. ASSUME NEW i \in 1..n, i + 2 * M = n + 1 PROVE now - grants[i] > Window
    <2>1. grants[i] \in Nat
      BY <1>1, Zenon
    <2>2. CASE now - started >= Window
      <3>1. i <= n - count
        BY ONLY <1>1, <1>2, <1>7
      <3>2. grants[i] < started
        BY <3>1, <1>4, Zenon
      <3> QED BY ONLY <3>2, <2>1, <2>2, <1>1, <1>2
    <2>3. CASE count < M
      <3>1. i <= n - count - M
        BY ONLY <1>1, <1>2, <1>7, <2>3
      <3>2. grants[i] + Window < started
        BY <3>1, <1>4, Zenon
      <3> QED BY ONLY <3>2, <2>1, <1>1, <1>2
    <2> QED BY <1>6, <2>2, <2>3, Zenon
  <1>8. /\ (n + 1) - count' \in Nat
        /\ \A i \in 1..(n + 1) : grants'[i] < started' + Window
        /\ \A i \in 1..(n + 1) : i <= (n + 1) - count' => grants'[i] < started'
        /\ \A i \in 1..(n + 1) : i <= (n + 1) - count' - M => grants'[i] + Window < started'
    <2>1. CASE now - started >= Window /\ started' = now /\ count' = 1
      BY ONLY <2>1, <1>1, <1>2, <1>3, <1>4
    <2>2. CASE now - started < Window /\ started' = started /\ count' = count + 1 /\ count < M
      BY ONLY <2>2, <1>1, <1>2, <1>3, <1>4
    <2> QED BY ONLY <1>6, <2>1, <2>2, Zenon
  <1>9. \A i \in 1..(n + 1) : i + 2 * M \in 1..(n + 1) => grants'[i + 2 * M] - grants'[i] > Window
    BY ONLY <1>1, <1>2, <1>3, <1>5, <1>7
  <1>10. RateInv'
    <2>1. Before' = (n + 1) - count'
      BY <1>3, Zenon DEF Before
    <2> QED BY <1>3, <1>8, <2>1, Zenon DEF RateInv, M
  <1>11. RateBounded'
    BY <1>3, <1>9, Zenon DEF RateBounded, M
  <1> QED BY <1>10, <1>11, Zenon
-----------------------------------------------------------------------------
(* The cache. *)

LEMMA AtMostOne ==
  ASSUME NEW S, IsFiniteSet(S), Cardinality(S) <= 1, NEW u \in S, NEW w \in S
  PROVE  u = w
  <1> SUFFICES ASSUME u # w PROVE FALSE
    BY Zenon
  <1>1. /\ IsFiniteSet({u}) /\ Cardinality({u}) = 1
    BY FS_Singleton, Zenon
  <1>2. Cardinality({u} \cup {w}) = 2
    <2>1. w \notin {u}
      BY Zenon
    <2>2. Cardinality({u} \cup {w}) = Cardinality({u}) + 1
      BY <1>1, <2>1, FS_AddElement, Zenon
    <2> QED BY ONLY <1>1, <2>2
  <1>3. Cardinality({u} \cup {w}) <= Cardinality(S)
    BY FS_Subset, Zenon
  <1>4. Cardinality(S) \in Nat
    BY FS_CardinalityType, Zenon
  <1> QED BY ONLY <1>2, <1>3, <1>4, Cardinality(S) <= 1

\* An answer is stored under the key of its question, and the bound on the cache
\* holds again: an entry that was there stays pinned or free, one that is new finds
\* room, or takes the place of a free one, or finds pinned ones only.
LEMMA PutState ==
  ASSUME TypeOK, CacheInv, FilteredBounded, NEW v, IsQuestion(v),
         state_cache' \in Put(state_cache, cache_key(v), v, is_hot_view(v)), now' = now
  PROVE  /\ CacheInv' /\ FilteredBounded'
         /\ (\A k \in DOMAIN state_cache : KeyOK(k) /\ IsEntry(state_cache[k]))'
         /\ \A k \in DOMAIN state_cache : state_cache[k].pinned => k \in DOMAIN state_cache'
  <1> DEFINE k0 == cache_key(v)
             keys == Retained(state_cache)
             D == DOMAIN state_cache
  <1>1. PICK R \in SUBSET keys :
           /\ DOMAIN state_cache' = R \cup {k0}
           /\ state_cache'[k0] = [stored_at |-> now, body |-> v, pinned |-> is_hot_view(v)]
           /\ \A j \in R : j # k0 => state_cache'[j] = state_cache[j]
           /\ \/ /\ Full(keys, k0)
                 /\ \E u \in Free(state_cache, keys) : R = keys \ {u}
              \/ /\ ~Full(keys, k0) \/ Free(state_cache, keys) = {}
                 /\ R = keys
    <2> DEFINE entry == [stored_at |-> now, body |-> v, pinned |-> is_hot_view(v)]
               with(rest) == [j \in rest \cup {k0} |-> IF j = k0 THEN entry ELSE state_cache[j]]
    <2>1. \/ /\ Full(keys, k0) /\ \E u \in Oldest(state_cache, keys) : state_cache' = with(keys \ {u})
          \/ /\ ~Full(keys, k0) \/ Free(state_cache, keys) = {}
             /\ state_cache' = with(keys)
      BY Zenon DEF Put
    <2>2. CASE Full(keys, k0) /\ \E u \in Oldest(state_cache, keys) : state_cache' = with(keys \ {u})
      <3>1. PICK u \in Oldest(state_cache, keys) : state_cache' = with(keys \ {u})
        BY <2>2, Zenon
      <3>2. u \in Free(state_cache, keys)
        BY Zenon DEF Oldest
      <3>3. keys \ {u} \in SUBSET keys
        BY Zenon
      <3> WITNESS keys \ {u} \in SUBSET keys
      <3> QED BY <2>2, <3>1, <3>2, Zenon
    <2>3. CASE (~Full(keys, k0) \/ Free(state_cache, keys) = {}) /\ state_cache' = with(keys)
      <3> WITNESS keys \in SUBSET keys
      <3> QED BY <2>3, Zenon
    <2> QED BY <2>1, <2>2, <2>3, Zenon
  <1>2. keys \subseteq D /\ IsFiniteSet(D)
    BY Zenon DEF Retained, CacheInv
  <1>3. /\ \A k \in D : IsQuestion(state_cache[k].body) /\ k = cache_key(state_cache[k].body)
        /\ \A k \in D : state_cache[k].pinned <=> is_hot_view(state_cache[k].body)
    BY Zenon DEF CacheInv
  <1>4. IsFiniteSet(keys) /\ IsFiniteSet(R) /\ IsFiniteSet(R \cup {k0})
    <2>1. IsFiniteSet(keys)
      BY <1>2, FS_Subset, Zenon
    <2>2. IsFiniteSet(R)
      BY <2>1, FS_Subset, Zenon
    <2> QED BY <2>1, <2>2, FS_AddElement, Zenon
  <1>5. is_hot_view(v) \in BOOLEAN
    BY Zenon DEF is_hot_view
  <1>6. CacheInv'
    <2>1. /\ state_cache'[k0].body = v /\ (state_cache'[k0].pinned <=> is_hot_view(v))
      BY <1>1, <1>5
    <2>2. ASSUME NEW k \in DOMAIN state_cache'
          PROVE  /\ IsQuestion(state_cache'[k].body) /\ k = cache_key(state_cache'[k].body)
                 /\ state_cache'[k].pinned <=> is_hot_view(state_cache'[k].body)
      <3>1. CASE k = k0
        BY <3>1, <2>1, Zenon
      <3>2. CASE k # k0
        BY <3>2, <1>1, <1>2, <1>3, Zenon
      <3> QED BY <3>1, <3>2, Zenon
    <2> QED BY <1>1, <1>4, <2>2, Zenon DEF CacheInv, IsQuestion, cache_key, is_hot_view, NormalizedQuery
  <1>7. ASSUME NEW k \in D, k = k0 PROVE state_cache[k].pinned <=> is_hot_view(v)
    BY <1>3, <1>7, HotKey, Zenon
  <1>8. (\A k \in DOMAIN state_cache : KeyOK(k) /\ IsEntry(state_cache[k]))'
    <2> SUFFICES ASSUME NEW k \in DOMAIN state_cache'
                 PROVE  KeyOK(k) /\ state_cache'[k].stored_at \in 0..now' /\ state_cache'[k].pinned \in BOOLEAN
      BY Zenon DEF IsEntry
    <2>1. CASE k = k0
      <3>1. KeyOK(k0) /\ now \in Nat
        BY KeyType DEF TypeOK
      <3>2. state_cache'[k0].stored_at = now /\ state_cache'[k0].pinned = is_hot_view(v)
        BY <1>1
      <3>3. state_cache'[k0].stored_at \in 0..now'
        BY <3>1, <3>2
      <3> QED BY <2>1, <3>1, <3>2, <3>3, <1>5, Zenon
    <2>2. CASE k # k0
      <3>1. k \in D /\ state_cache'[k] = state_cache[k]
        BY <2>2, <1>1, <1>2, Zenon
      <3>2. KeyOK(k) /\ state_cache[k].stored_at \in 0..now /\ state_cache[k].pinned \in BOOLEAN
        BY <3>1, Zenon DEF TypeOK, IsEntry
      <3> QED BY <3>1, <3>2, Zenon
    <2> QED BY <2>1, <2>2, Zenon
  <1>9. \A k \in D : state_cache[k].pinned => k \in DOMAIN state_cache'
    BY <1>1, Zenon DEF Retained, Free
  <1>10. FilteredBounded'
    <2> DEFINE U == Unpinned
               U1 == {k \in R \cup {k0} : ~state_cache'[k].pinned}
    <2> SUFFICES Cardinality(R \cup {k0}) <= MaxEntries \/ Cardinality(U1) <= 1
      BY <1>1, Zenon DEF FilteredBounded, Unpinned
    <2>1. /\ U \subseteq D /\ IsFiniteSet(U) /\ IsFiniteSet(U1) /\ MaxEntries \in Nat
          /\ Cardinality(D) <= MaxEntries \/ Cardinality(U) <= 1
      <3>1. U \subseteq D
        BY Zenon DEF Unpinned
      <3>2. IsFiniteSet(U)
        BY <3>1, <1>2, FS_Subset, Zenon
      <3>3. IsFiniteSet(U1)
        BY <1>4, FS_Subset, Zenon
      <3> QED BY <3>1, <3>2, <3>3, DashboardAssumption, Zenon DEF FilteredBounded
    <2>2. /\ Cardinality(D) \in Nat /\ Cardinality(U) \in Nat /\ Cardinality(U1) \in Nat
          /\ Cardinality(keys) \in Nat /\ Cardinality(R) \in Nat
          /\ Cardinality(R \cup {k0}) \in Nat
          /\ Cardinality(keys) <= Cardinality(D)
      BY <1>2, <1>4, <2>1, FS_CardinalityType, FS_Subset, Zenon
    <2>3. U1 \subseteq {k \in R : ~state_cache[k].pinned} \cup {k0}
      BY <1>1, Zenon
    <2>4. CASE k0 \in keys
      <3>1. R = keys
        BY <2>4, <1>1, Zenon DEF Full
      <3>2. R \cup {k0} \subseteq D
        BY <2>4, <3>1, <1>2, Zenon
      <3>3. state_cache[k0].pinned <=> state_cache'[k0].pinned
        BY <1>1, <1>2, <1>7, <2>4
      <3>4. U1 \subseteq U
        BY <2>3, <3>2, <3>3, Zenon DEF Unpinned
      <3>5. Cardinality(R \cup {k0}) <= Cardinality(D)
        BY <3>2, <1>2, FS_Subset, Zenon
      <3>6. Cardinality(U1) <= Cardinality(U)
        BY <3>4, <2>1, FS_Subset, Zenon
      <3> HIDE DEF U, U1, D
      <3> QED BY ONLY <3>5, <3>6, <2>1, <2>2
    <2>5. CASE k0 \notin keys /\ Cardinality(keys) < MaxEntries
      <3>1. R = keys
        BY <2>5, <1>1, <2>1, <2>2 DEF Full
      <3>2. Cardinality(R \cup {k0}) = Cardinality(keys) + 1
        BY <3>1, <2>5, <1>4, FS_AddElement, Zenon
      <3> QED BY <3>2, <2>5, <2>1, <2>2
    <2>6. Cardinality({k0}) = 1 /\ IsFiniteSet({k0})
      BY FS_Singleton, Zenon
    <2>7. ASSUME U1 \subseteq {k0} PROVE Cardinality(U1) <= 1
      BY <2>6, <2>7, FS_Subset, Zenon
    <2>8. CASE R = keys /\ Free(state_cache, keys) = {}
      <3>1. U1 \subseteq {k0}
        BY <2>8, <2>3, Zenon DEF Free
      <3> QED BY <3>1, <2>7, Zenon
    <2>9. CASE k0 \notin keys /\ \E u \in Free(state_cache, keys) : R = keys \ {u}
      <3>1. PICK u \in Free(state_cache, keys) : R = keys \ {u}
        BY <2>9, Zenon
      <3>2. u \in keys /\ u \in U
        BY <1>2, Zenon DEF Free, Unpinned
      <3>3. Cardinality(R) = Cardinality(keys) - 1
        BY <3>1, <3>2, <1>4, FS_RemoveElement, Zenon
      <3>4. Cardinality(R \cup {k0}) = Cardinality(keys)
        <4>1. k0 \notin R
          BY <3>1, <2>9, Zenon
        <4>2. Cardinality(R \cup {k0}) = Cardinality(R) + 1
          BY <4>1, <1>4, FS_AddElement, Zenon
        <4> QED BY ONLY <4>2, <3>3, <2>2
      <3>5. CASE Cardinality(D) <= MaxEntries
        BY ONLY <3>4, <3>5, <2>1, <2>2
      <3>6. CASE Cardinality(U) <= 1
        <4>1. \A w \in U : w = u
          BY <3>2, <3>6, <2>1, <2>2, AtMostOne, Zenon
        <4>2. U1 \subseteq {k0}
          BY <4>1, <2>3, <3>1, <1>2, Zenon DEF Unpinned
        <4> QED BY <4>2, <2>7, Zenon
      <3> QED BY <3>5, <3>6, <2>1, Zenon
    <2> QED BY <1>1, <2>1, <2>2, <2>4, <2>5, <2>8, <2>9 DEF Full
  <1> QED BY <1>6, <1>8, <1>9, <1>10, Zenon
-----------------------------------------------------------------------------
(* The parts of the invariant that a step leaves alone. *)

StateEntries == \A k \in DOMAIN state_cache : KeyOK(k) /\ IsEntry(state_cache[k])

HealthEntries ==
  DOMAIN health_cache \subseteq {"health"} /\ \A k \in DOMAIN health_cache : IsEntry(health_cache[k])

LimiterType == started \in 0..now /\ count \in 0..MaxPerWindow /\ grants \in Seq(0..now)

HandlerType == pc \in [Handler -> {"idle", "rows", "totals", "nodes"}]

StateInv == StateEntries /\ CacheInv /\ FilteredBounded

LimiterInv == LimiterType /\ RateInv /\ RateBounded

HandlerInv == HandlerType /\ QueryInv

LEMMA Parts ==
  DashboardInv <=> now \in 0..MaxTime /\ StateInv /\ HealthEntries /\ LimiterInv /\ HandlerInv
  <1>1. ASSUME HandlerInv
        PROVE  \A h \in Handler : pc[h] \in {"rows", "totals"} => KeyOK(cache_key(query[h]))
    BY <1>1, KeyType, Zenon DEF HandlerInv, QueryInv
  <1> QED BY <1>1, Zenon DEF DashboardInv, TypeOK, StateInv, StateEntries, HealthEntries, LimiterInv,
             LimiterType, HandlerInv, HandlerType

LEMMA StateKept ==
  ASSUME now \in Nat, now' \in Nat, now <= now', UNCHANGED state_cache, StateInv
  PROVE  /\ StateInv'
         /\ \A k \in DOMAIN state_cache : state_cache[k].pinned => k \in DOMAIN state_cache'
  <1>1. StateEntries'
    BY DEF StateInv, StateEntries, IsEntry, KeyOK
  <1>2. CacheInv' /\ FilteredBounded'
    BY Zenon DEF StateInv, CacheInv, FilteredBounded, Unpinned
  <1> QED BY <1>1, <1>2, Zenon DEF StateInv

LEMMA HealthKept ==
  ASSUME now \in Nat, now' \in Nat, now <= now', UNCHANGED health_cache, HealthEntries
  PROVE  HealthEntries'
  BY DEF HealthEntries, IsEntry

LEMMA LimiterKept ==
  ASSUME now \in Nat, now' \in Nat, now <= now', UNCHANGED limiterVars, LimiterInv
  PROVE  LimiterInv'
  <1>1. UNCHANGED <<started, count, grants>>
    BY Zenon DEF limiterVars
  <1>2. 0..now \subseteq 0..now'
    OBVIOUS
  <1>3. LimiterType'
    BY <1>1, <1>2 DEF LimiterInv, LimiterType
  <1>4. RateInv' /\ RateBounded'
    BY <1>1, Zenon DEF LimiterInv, RateInv, RateBounded, Before
  <1> QED BY <1>3, <1>4, Zenon DEF LimiterInv

LEMMA HandlerKept ==
  ASSUME UNCHANGED handlerVars, HandlerInv
  PROVE  HandlerInv'
  BY Zenon DEF handlerVars, HandlerInv, HandlerType, QueryInv, IsQuestion

\* A handler moves on: to a query with a question, or to anywhere else.
LEMMA HandlerMoved ==
  ASSUME HandlerInv, NEW h \in Handler, NEW label \in {"idle", "rows", "totals", "nodes"}, NEW v,
         label \in {"rows", "totals"} => IsQuestion(v), Goto(h, label, v)
  PROVE  HandlerInv'
  <1>1. /\ pc' = [pc EXCEPT ![h] = label] /\ query' = [query EXCEPT ![h] = v]
        /\ pc \in [Handler -> {"idle", "rows", "totals", "nodes"}]
        /\ query = [g \in Handler |-> query[g]]
        /\ \A g \in Handler : pc[g] \in {"rows", "totals"} => IsQuestion(query[g])
    BY Zenon DEF Goto, HandlerInv, HandlerType, QueryInv
  <1>2. HandlerType'
    BY <1>1, Zenon DEF HandlerType
  <1>3. query' = [g \in Handler |-> query'[g]]
    BY <1>1, Zenon
  <1>4. \A g \in Handler : pc'[g] = (IF g = h THEN label ELSE pc[g])
                        /\ query'[g] = (IF g = h THEN v ELSE query[g])
    BY <1>1, Zenon
  <1>5. \A g \in Handler : pc'[g] \in {"rows", "totals"} => IsQuestion(query'[g])
    BY <1>1, <1>4, Zenon
  <1> QED BY <1>2, <1>3, <1>5, Zenon DEF HandlerInv, QueryInv, IsQuestion

\* The answers about the nodes' health: one entry, never stored in the future.
LEMMA HealthStored ==
  ASSUME now \in Nat, now' = now, HealthEntries, NEW b,
         health_cache' \in Put(health_cache, "health", b, TRUE)
  PROVE  HealthEntries'
  <1> DEFINE entry == [stored_at |-> now, body |-> b, pinned |-> TRUE]
             with(rest) == [j \in rest \cup {"health"} |-> IF j = "health" THEN entry ELSE health_cache[j]]
  <1>1. Retained(health_cache) \subseteq DOMAIN health_cache
    BY Zenon DEF Retained
  <1>2. PICK rest \in SUBSET {"health"} : health_cache' = with(rest)
    <2>1. Retained(health_cache) \subseteq {"health"}
      BY <1>1, Zenon DEF HealthEntries
    <2> QED BY <2>1, Zenon DEF Put
  <1>3. DOMAIN health_cache' \subseteq {"health"} /\ health_cache'["health"] = entry
    BY <1>2, Zenon
  <1>4. entry.stored_at \in 0..now' /\ entry.pinned \in BOOLEAN
    OBVIOUS
  <1> QED BY <1>3, <1>4, Zenon DEF HealthEntries, IsEntry
-----------------------------------------------------------------------------
LEMMA DashboardInit == Init => DashboardInv
  <1> SUFFICES ASSUME Init PROVE DashboardInv
    BY Zenon
  <1>1. DOMAIN EmptyMap = {}
    BY Zenon DEF EmptyMap
  <1>2. now \in 0..MaxTime
    BY DashboardAssumption DEF Init
  <1>3. StateInv
    <2>1. StateEntries /\ DOMAIN state_cache = {} /\ Unpinned = {}
      BY <1>1, Zenon DEF Init, StateEntries, Unpinned
    <2>2. IsFiniteSet({}) /\ Cardinality({}) = 0
      BY FS_EmptySet, Zenon
    <2> QED BY <2>1, <2>2, DashboardAssumption DEF StateInv, CacheInv, FilteredBounded
  <1>4. HealthEntries
    BY <1>1, Zenon DEF Init, HealthEntries
  <1>5. LimiterInv
    BY DashboardAssumption DEF Init, LimiterInv, LimiterType, RateInv, RateBounded, Before
  <1>6. HandlerInv
    BY Zenon DEF Init, HandlerInv, HandlerType, QueryInv
  <1> QED BY <1>2, <1>3, <1>4, <1>5, <1>6, Parts, Zenon

\* Every step keeps the invariant and every pinned entry.
LEMMA DashboardStep ==
  ASSUME DashboardInv, [Next]_vars
  PROVE  /\ DashboardInv'
         /\ \A k \in DOMAIN state_cache : state_cache[k].pinned => k \in DOMAIN state_cache'
  <1> DEFINE Pinned == \A k \in DOMAIN state_cache :
                         state_cache[k].pinned => k \in DOMAIN state_cache'
  <1>1. /\ now \in 0..MaxTime /\ now \in Nat /\ MaxTime \in Nat
        /\ StateInv /\ HealthEntries /\ LimiterInv /\ HandlerInv
    BY Parts, DashboardAssumption
  <1>2. TypeOK /\ CacheInv /\ FilteredBounded /\ RateInv /\ RateBounded /\ QueryInv
    BY Zenon DEF DashboardInv
  <1> SUFFICES /\ now' \in 0..MaxTime /\ StateInv' /\ Pinned
               /\ HealthEntries' /\ LimiterInv' /\ HandlerInv'
    <2>1. DashboardInv' <=> (now \in 0..MaxTime /\ StateInv /\ HealthEntries /\ LimiterInv /\ HandlerInv)'
      BY Parts, PTL
    <2> QED BY <2>1, Zenon
  <1> HIDE DEF Pinned
  <1>3. ASSUME now' = now PROVE now' \in 0..MaxTime /\ now' \in Nat /\ now <= now'
    BY <1>1, <1>3
  <1>4. ASSUME now' = now, UNCHANGED state_cache PROVE StateInv' /\ Pinned
    BY <1>1, <1>3, <1>4, StateKept, Zenon DEF Pinned
  <1>5. ASSUME now' = now, UNCHANGED health_cache PROVE HealthEntries'
    BY <1>1, <1>3, <1>5, HealthKept, Zenon
  <1>6. ASSUME now' = now, UNCHANGED limiterVars PROVE LimiterInv'
    BY <1>1, <1>3, <1>6, LimiterKept, Zenon
  <1>7. ASSUME now' = now, Allow PROVE LimiterInv'
    BY <1>2, <1>7, AllowType, AllowStep, Zenon DEF LimiterInv, LimiterType
  <1>8. ASSUME NEW h \in Handler, NEW p \in Params, state_handler(h, p)
        PROVE  /\ now' \in 0..MaxTime /\ StateInv' /\ Pinned
               /\ HealthEntries' /\ LimiterInv' /\ HandlerInv'
    <2>1. /\ now' = now /\ UNCHANGED state_cache /\ UNCHANGED health_cache /\ Allow
          /\ UNCHANGED handlerVars \/ Goto(h, "rows", NormalizedQuery(p))
      BY <1>8, Zenon DEF state_handler, cacheVars
    <2>2. IsQuestion(NormalizedQuery(p))
      BY Zenon DEF IsQuestion
    <2>3. HandlerInv'
      BY <1>1, <2>1, <2>2, HandlerKept, HandlerMoved, Zenon
    <2> QED BY <2>1, <2>3, <1>3, <1>4, <1>5, <1>7, Zenon
  <1>9. ASSUME NEW h \in Handler, health_handler(h)
        PROVE  /\ now' \in 0..MaxTime /\ StateInv' /\ Pinned
               /\ HealthEntries' /\ LimiterInv' /\ HandlerInv'
    <2>1. /\ now' = now /\ UNCHANGED state_cache /\ UNCHANGED health_cache /\ Allow
          /\ UNCHANGED handlerVars \/ Goto(h, "nodes", None)
      BY <1>9, Zenon DEF health_handler, cacheVars
    <2>2. HandlerInv'
      BY <1>1, <2>1, HandlerKept, HandlerMoved, Zenon
    <2> QED BY <2>1, <2>2, <1>3, <1>4, <1>5, <1>7, Zenon
  <1>10. ASSUME NEW h \in Handler, build_state_rows(h)
        PROVE  /\ now' \in 0..MaxTime /\ StateInv' /\ Pinned
               /\ HealthEntries' /\ LimiterInv' /\ HandlerInv'
    <2>1. /\ now' = now /\ UNCHANGED state_cache /\ UNCHANGED health_cache /\ UNCHANGED limiterVars
          /\ pc[h] = "rows" /\ Goto(h, "totals", query[h])
      BY <1>10, Zenon DEF build_state_rows, HandlerOnly, cacheVars
    <2>2. IsQuestion(query[h])
      BY <2>1, <1>2, Zenon DEF QueryInv
    <2>3. HandlerInv'
      BY <1>1, <2>1, <2>2, HandlerMoved, Zenon
    <2> QED BY <2>1, <2>3, <1>3, <1>4, <1>5, <1>6, Zenon
  <1>11. ASSUME NEW h \in Handler, build_state_totals(h)
        PROVE  /\ now' \in 0..MaxTime /\ StateInv' /\ Pinned
               /\ HealthEntries' /\ LimiterInv' /\ HandlerInv'
    <2>1. /\ now' = now /\ UNCHANGED health_cache /\ UNCHANGED limiterVars
          /\ pc[h] = "totals" /\ Goto(h, "idle", None)
          /\ state_cache' \in Put(state_cache, cache_key(query[h]), query[h], is_hot_view(query[h]))
      BY <1>11, Zenon DEF build_state_totals, HandlerOnly
    <2>2. PICK v : v = query[h]
      BY Zenon
    <2>3. IsQuestion(v)
      BY <2>1, <2>2, <1>2, Zenon DEF QueryInv
    <2>4. state_cache' \in Put(state_cache, cache_key(v), v, is_hot_view(v))
      BY <2>1, <2>2, Zenon
    <2>5. StateInv' /\ Pinned
      BY <1>2, <2>1, <2>3, <2>4, PutState, Zenon DEF StateInv, StateEntries, Pinned
    <2>6. HandlerInv'
      BY <1>1, <2>1, HandlerMoved, Zenon
    <2> QED BY <2>1, <2>5, <2>6, <1>3, <1>5, <1>6, Zenon
  <1>12. ASSUME NEW h \in Handler, build_state_fails(h)
        PROVE  /\ now' \in 0..MaxTime /\ StateInv' /\ Pinned
               /\ HealthEntries' /\ LimiterInv' /\ HandlerInv'
    <2>1. /\ now' = now /\ UNCHANGED state_cache /\ UNCHANGED health_cache /\ UNCHANGED limiterVars
          /\ Goto(h, "idle", None)
      BY <1>12, Zenon DEF build_state_fails, HandlerOnly, cacheVars
    <2>2. HandlerInv'
      BY <1>1, <2>1, HandlerMoved, Zenon
    <2> QED BY <2>1, <2>2, <1>3, <1>4, <1>5, <1>6, Zenon
  <1>13. ASSUME NEW h \in Handler, build_health(h)
        PROVE  /\ now' \in 0..MaxTime /\ StateInv' /\ Pinned
               /\ HealthEntries' /\ LimiterInv' /\ HandlerInv'
    <2>1. /\ now' = now /\ UNCHANGED state_cache /\ UNCHANGED limiterVars
          /\ Goto(h, "idle", None)
          /\ \E ok \in BOOLEAN : health_cache' \in Put(health_cache, "health", ok, TRUE)
      BY <1>13, Zenon DEF build_health, HandlerOnly
    <2>2. PICK ok \in BOOLEAN : health_cache' \in Put(health_cache, "health", ok, TRUE)
      BY <2>1, Zenon
    <2>3. HealthEntries'
      BY <2>1, <2>2, <1>1, HealthStored, Zenon
    <2>4. HandlerInv'
      BY <1>1, <2>1, HandlerMoved, Zenon
    <2> QED BY <2>1, <2>3, <2>4, <1>3, <1>4, <1>6, Zenon
  <1>14. ASSUME Tick
        PROVE  /\ now' \in 0..MaxTime /\ StateInv' /\ Pinned
               /\ HealthEntries' /\ LimiterInv' /\ HandlerInv'
    <2>1. /\ now < MaxTime /\ now' = now + 1 /\ UNCHANGED state_cache /\ UNCHANGED health_cache
          /\ UNCHANGED limiterVars /\ UNCHANGED handlerVars
      BY <1>14, Zenon DEF Tick, cacheVars
    <2>2. now' \in 0..MaxTime /\ now' \in Nat /\ now <= now'
      BY ONLY <2>1, <1>1
    <2> QED BY <1>1, <2>1, <2>2, StateKept, HealthKept, LimiterKept, HandlerKept, Zenon DEF Pinned
  <1>15. CASE UNCHANGED vars
    <2>1. /\ now' = now /\ UNCHANGED state_cache /\ UNCHANGED health_cache
          /\ UNCHANGED limiterVars /\ UNCHANGED handlerVars
      BY <1>15, Zenon DEF vars, cacheVars
    <2> QED BY <1>1, <2>1, <1>3, <1>4, <1>5, <1>6, HandlerKept, Zenon
  <1> QED BY <1>8, <1>9, <1>10, <1>11, <1>12, <1>13, <1>14, <1>15, Zenon DEF Next

LEMMA DashboardInductive == Spec => []DashboardInv
  <1>1. DashboardInv /\ [Next]_vars => DashboardInv'
    BY DashboardStep, Zenon
  <1> QED BY DashboardInit, <1>1, PTL DEF Spec
-----------------------------------------------------------------------------
(* Theorems. *)

\* The keys stay within the bounds NormalizedQuery sets, the limiter within its limit,
\* and no entry is stored in the future.
THEOREM DashboardTypeCorrect == Spec => []TypeOK
  <1>1. DashboardInv => TypeOK
    BY Zenon DEF DashboardInv
  <1> QED BY DashboardInductive, <1>1, PTL

\* put bounds what filters can do to the cache of answers: no number of them makes it
\* grow past max_entries, whatever the pinned views do.
THEOREM FiltersDoNotGrow == Spec => []FilteredBounded
  <1>1. DashboardInv => FilteredBounded
    BY Zenon DEF DashboardInv
  <1> QED BY DashboardInductive, <1>1, PTL

\* RateLimiter::allow lets in at most twice its limit within a window.
THEOREM RateIsBounded == Spec => []RateBounded
  <1>1. DashboardInv => RateBounded
    BY Zenon DEF DashboardInv
  <1> QED BY DashboardInductive, <1>1, PTL

\* cache_key tells questions apart: a hit is the answer to the question asked.
THEOREM HitsAnswerTheQuestion == Spec => []AnswersTheQuestion
  <1>1. ASSUME DashboardInv PROVE AnswersTheQuestion
    <2> SUFFICES ASSUME NEW k \in DOMAIN state_cache, NEW p \in Params,
                        cache_key(NormalizedQuery(p)) = k, Plain(NormalizedQuery(p)),
                        Plain(state_cache[k].body)
                 PROVE  state_cache[k].body = NormalizedQuery(p)
      BY Zenon DEF AnswersTheQuestion
    <2>1. PICK v : v = NormalizedQuery(p)
      BY Zenon
    <2>2. PICK asked : asked = state_cache[k].body
      BY Zenon
    <2>3. IsQuestion(v) /\ Plain(v) /\ Plain(asked)
      BY <2>1, <2>2, Zenon DEF IsQuestion
    <2>4. IsQuestion(asked) /\ k = cache_key(asked)
      BY <1>1, <2>2, Zenon DEF DashboardInv, CacheInv
    <2>5. cache_key(v) = cache_key(asked)
      BY <2>1, <2>4, Zenon
    <2> QED BY <2>1, <2>2, <2>3, <2>4, <2>5, SameKey, Zenon
  <1> QED BY DashboardInductive, <1>1, PTL

\* put never pushes an unfiltered view out.
THEOREM PinnedEntriesStay == Spec => PinnedStays
  <1>1. DashboardInv /\ [Next]_vars =>
          [\A k \in DOMAIN state_cache : state_cache[k].pinned => k \in DOMAIN state_cache']_vars
    BY DashboardStep, Zenon
  <1> QED BY DashboardInductive, <1>1, PTL DEF Spec, PinnedStays
==============================================================================
