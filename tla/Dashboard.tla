------------------------------ MODULE Dashboard ------------------------------
(***************************************************************************)
(* The gateway's dashboard read tier (routes/dashboard): requests that     *)
(* pass the fixed-window rate limiter, the short-lived response caches     *)
(* (cache.rs), and the handlers that rebuild an expired answer from        *)
(* ClickHouse, several at a time.                                          *)
(***************************************************************************)
EXTENDS Integers, Sequences, FiniteSets, Functions

CONSTANTS Handler,         \* concurrent requests
          Params,          \* query strings of /state, defaults filled in; sort stands for the
                           \* column and the order
          Token, None,     \* pieces of text: a filter is a sequence of them, or None
          Short(_),        \* a filter's text: trimmed, in lower case, its first MAX_Q_LEN characters
          TooLong,         \* node names (trimmed) longer than that
          MaxLimit,        \* STATIX_DASHBOARD_MAX_LIMIT
          Ttl,             \* STATIX_DASHBOARD_CACHE_MS
          MaxEntries,      \* TtlCache.max_entries
          Window, MaxPerWindow,   \* RateLimiter
          MaxTime          \* bound on the clock

ASSUME DashboardAssumption ==
  /\ None \notin Seq(Token)
  /\ \A p \in Params :
       /\ p.range \in Nat /\ p.limit \in Nat /\ p.unattributed \in BOOLEAN
       /\ p.node = None \/ p.node \in Seq(Token)
       /\ p.q = None \/ Short(p.q) \in Seq(Token)
  /\ MaxLimit \in Nat \ {0} /\ Ttl \in Nat /\ MaxEntries \in Nat \ {0}
  /\ Window \in Nat \ {0} /\ MaxPerWindow \in Nat \ {0} /\ MaxTime \in Nat

VARIABLES
  now,             \* the clock
  state_cache, health_cache,
  started, count,  \* RateLimiter
  pc, query,       \* per handler: where it is, and its question
  grants           \* history: when the limiter let requests in

handlerVars == <<pc, query>>
limiterVars == <<started, count, grants>>
cacheVars == <<state_cache, health_cache>>
vars == <<now, cacheVars, limiterVars, handlerVars>>

EmptyMap == [k \in {} |-> None]

Init ==
  /\ now = 0
  /\ state_cache = EmptyMap /\ health_cache = EmptyMap
  /\ started = 0 /\ count = 0 /\ grants = <<>>
  /\ pc = [h \in Handler |-> "idle"] /\ query = [h \in Handler |-> None]
-----------------------------------------------------------------------------
(* Questions. *)

MIN_RANGE_SECS == 60
MAX_RANGE_SECS == 3600

\* Mutant: the upper bound is forgotten.
ClampLow(x, lo, hi) == IF x < lo THEN lo ELSE x

Clamp(x, lo, hi) == IF x < lo THEN lo ELSE IF x > hi THEN hi ELSE x

\* NormalizedQuery::new: bounds applied, and filters that say nothing left out.
NormalizedQuery(p) ==
  [range |-> Clamp(p.range, MIN_RANGE_SECS, MAX_RANGE_SECS),
   limit |-> Clamp(p.limit, 1, MaxLimit), sort |-> p.sort,
   q |-> IF p.q = None \/ Short(p.q) = <<>> THEN None ELSE Short(p.q),
   node |-> IF p.node \in TooLong \cup {<<>>} THEN None ELSE p.node,
   unattributed |-> p.unattributed]

text(t) == IF t = None THEN <<>> ELSE t

\* Mutant: the node filter is not part of the key.
cache_keyNoNode(v) ==
  [range |-> v.range, limit |-> v.limit, sort |-> v.sort, unattributed |-> v.unattributed,
   filters |-> <<"&q=">> \o text(v.q)]

\* cache_key: the fields printed one after the other; "r=..&s=..&o=..&u=..&l=..&n=" can
\* be read back, the two filters are joined by "&q=", and a missing one is empty.
cache_key(v) ==
  [range |-> v.range, limit |-> v.limit, sort |-> v.sort, unattributed |-> v.unattributed,
   filters |-> text(v.node) \o <<"&q=">> \o text(v.q)]

is_hot_view(v) == v.q = None /\ v.node = None /\ ~v.unattributed
-----------------------------------------------------------------------------
(* TtlCache. *)

Fresh(entry) == now - entry.stored_at <= Ttl

\* get
Has(cache, k) == k \in DOMAIN cache /\ Fresh(cache[k])

Retained(cache) == {k \in DOMAIN cache : Fresh(cache[k]) \/ cache[k].pinned}

\* Entries that may be evicted.
Free(cache, keys) == {k \in keys : ~cache[k].pinned}

\* Mutant: the victim is the oldest entry, pinned or not.
OldestOfAll(cache, keys) ==
  {k \in keys : \A j \in keys : cache[k].stored_at <= cache[j].stored_at}

\* The oldest entries that are not pinned.
Oldest(cache, keys) ==
  {k \in Free(cache, keys) :
     \A j \in Free(cache, keys) : cache[k].stored_at <= cache[j].stored_at}

\* Mutant: room is made one entry too late.
FullLate(keys, k) == Cardinality(keys) > MaxEntries /\ k \notin keys

Full(keys, k) == Cardinality(keys) >= MaxEntries /\ k \notin keys

\* put: the caches it may leave behind (the victim is any of the oldest).  The cache of
\* health answers has one key, so that its own limit of 4 is never met.
Put(cache, k, b, pinned) ==
  LET keys == Retained(cache)
      entry == [stored_at |-> now, body |-> b, pinned |-> pinned]
      with(rest) == [j \in rest \cup {k} |-> IF j = k THEN entry ELSE cache[j]]
  IN IF Full(keys, k) /\ Free(cache, keys) # {}
     THEN {with(keys \ {victim}) : victim \in Oldest(cache, keys)}
     ELSE {with(keys)}
-----------------------------------------------------------------------------
(* Requests. *)

\* Mutant: every request may open a new window.
WindowOverAlways == TRUE

WindowOver == now - started >= Window

\* guard and RateLimiter::allow.  A request that is turned away (404 and 401 before the
\* limiter is asked, 429 by it) changes nothing.
Allow ==
  /\ started' = (IF WindowOver THEN now ELSE started)
  /\ count' = (IF WindowOver THEN 0 ELSE count) + 1
  /\ WindowOver \/ count < MaxPerWindow
  /\ grants' = Append(grants, now)

Goto(h, label, v) == pc' = [pc EXCEPT ![h] = label] /\ query' = [query EXCEPT ![h] = v]

\* state_handler up to the first query: the guard, then a hit or a miss.
state_handler(h, p) ==
  /\ pc[h] = "idle" /\ Allow
  /\ IF Has(state_cache, cache_key(NormalizedQuery(p)))
     THEN UNCHANGED handlerVars
     ELSE Goto(h, "rows", NormalizedQuery(p))
  /\ UNCHANGED <<now, cacheVars>>

\* health_handler up to its query.
health_handler(h) ==
  /\ pc[h] = "idle" /\ Allow
  /\ IF Has(health_cache, "health") THEN UNCHANGED handlerVars ELSE Goto(h, "nodes", None)
  /\ UNCHANGED <<now, cacheVars>>

HandlerOnly == UNCHANGED <<now, limiterVars>>

\* build_state: the rows, then the totals, each an await of its own.
build_state_rows(h) ==
  /\ pc[h] = "rows" /\ Goto(h, "totals", query[h])
  /\ HandlerOnly /\ UNCHANGED cacheVars

\* The answer is complete and stored under the key of its question.
build_state_totals(h) ==
  /\ pc[h] = "totals"
  /\ state_cache' \in Put(state_cache, cache_key(query[h]), query[h], is_hot_view(query[h]))
  /\ Goto(h, "idle", None)
  /\ HandlerOnly /\ UNCHANGED health_cache

\* Either query fails: 503, and nothing is stored.
build_state_fails(h) ==
  /\ pc[h] \in {"rows", "totals"} /\ Goto(h, "idle", None)
  /\ HandlerOnly /\ UNCHANGED cacheVars

\* build_health: when its query fails the list of nodes is empty, and the answer is
\* stored all the same.
build_health(h) ==
  /\ pc[h] = "nodes"
  /\ \E query_ok \in BOOLEAN : health_cache' \in Put(health_cache, "health", query_ok, TRUE)
  /\ Goto(h, "idle", None)
  /\ HandlerOnly /\ UNCHANGED state_cache
-----------------------------------------------------------------------------
Tick ==
  /\ now < MaxTime /\ now' = now + 1
  /\ UNCHANGED <<cacheVars, limiterVars, handlerVars>>

Next ==
  \/ \E h \in Handler :
       \/ \E p \in Params : state_handler(h, p)
       \/ health_handler(h) \/ build_state_rows(h) \/ build_state_totals(h)
       \/ build_state_fails(h) \/ build_health(h)
  \/ Tick

Spec == Init /\ [][Next]_vars
-----------------------------------------------------------------------------
(* Properties. *)

IsEntry(e) == e.stored_at \in 0..now /\ e.pinned \in BOOLEAN

KeyOK(k) == k.range \in MIN_RANGE_SECS..MAX_RANGE_SECS /\ k.limit \in 1..MaxLimit

\* Type invariant: the keys of the cache stay within the bounds NormalizedQuery sets,
\* the limiter within its limit, and nothing is stored in the future.
TypeOK ==
  /\ now \in 0..MaxTime
  /\ \A k \in DOMAIN state_cache : KeyOK(k) /\ IsEntry(state_cache[k])
  /\ DOMAIN health_cache \subseteq {"health"}
  /\ \A k \in DOMAIN health_cache : IsEntry(health_cache[k])
  /\ started \in 0..now /\ count \in 0..MaxPerWindow /\ grants \in Seq(0..now)
  /\ pc \in [Handler -> {"idle", "rows", "totals", "nodes"}]
  /\ \A h \in Handler : pc[h] \in {"rows", "totals"} => KeyOK(cache_key(query[h]))

Unpinned == {k \in DOMAIN state_cache : ~state_cache[k].pinned}

\* FilteredBounded: filtered views never make the cache grow past max_entries; once
\* pinned views have filled it, there is room for one filtered view at a time.  The pinned
\* ones have no bound of their own, whatever ADR 061 says ("bounded LRU").
FilteredBounded == Cardinality(DOMAIN state_cache) <= MaxEntries \/ Cardinality(Unpinned) <= 1

\* PinnedStays: "arbitrary q values must never evict it" (cache.rs): no answer to
\* another question ever pushes an unfiltered view out, however full the cache.
PinnedStays ==
  [][\A k \in DOMAIN state_cache : state_cache[k].pinned => k \in DOMAIN state_cache']_vars

\* A node filter with "&q=" in it reads like a node and a text filter in the key.
Plain(v) == "&q=" \notin Range(text(v.node))

\* AnswersTheQuestion: a request that finds its key in the cache gets the answer to its
\* own question ("everything that changes the answer lives here - and therefore in the
\* cache key", dashboard/mod.rs), as long as no node filter contains "&q=".
AnswersTheQuestion ==
  \A k \in DOMAIN state_cache, p \in Params :
    LET v == NormalizedQuery(p)
        asked == state_cache[k].body
    IN cache_key(v) = k /\ Plain(v) /\ Plain(asked) => asked = v

\* RateBounded: of any 2 * MaxPerWindow + 1 requests let in one after the other, the
\* first and the last are more than a window apart: a burst over the seam of two
\* fixed windows is twice the limit, and never more.
RateBounded ==
  \A i \in DOMAIN grants :
    i + 2 * MaxPerWindow \in DOMAIN grants => grants[i + 2 * MaxPerWindow] - grants[i] > Window
==============================================================================
