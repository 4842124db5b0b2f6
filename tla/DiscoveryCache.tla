--------------------------- MODULE DiscoveryCache ---------------------------
(***************************************************************************)
(* The cache of OpenAPI schemas (internal/providers/cache): callers of     *)
(* ResolveSchema, the singleflight groups that fetch for them, and the     *)
(* eviction loop.  A schema is represented by its age, the time since the  *)
(* API server produced it, and an expiry by the time that is left, so that *)
(* time itself needs no bound: ages saturate, expired entries stay at -1.  *)
(***************************************************************************)
EXTENDS Integers, FiniteSets, Functions, GoMaps

CONSTANTS
    Keys,           \* cluster/group/version/kind
    Callers,        \* concurrent calls of ResolveSchema
    Ttl,            \* ttl, in ticks
    ClientTimeout,  \* clientTimeout, of one HTTP request, in ticks
    MaxEntries      \* maxSchemaEntries

ASSUME CacheAssumption ==
    Keys # {} /\ Ttl \in Nat \ {0} /\ ClientTimeout \in Nat \ {0} /\ MaxEntries \in Nat \ {0}

VARIABLES
    schemaCache,  \* map Key -> [age, left]
    flight,       \* Key -> the fetch in progress: [st, age, left]; left is what
                  \* its present HTTP request has of ClientTimeout
    call          \* Caller -> [pc, key, entry]: entry is the schema it has

cacheVars == <<schemaCache, flight, call>>

Old == Ttl + ClientTimeout          \* ages saturate here
NoEntry == [age |-> 0, left |-> -1]
NoFlight == [st |-> "none", age |-> 0, left |-> 0]

CacheInit ==
    /\ schemaCache = [k \in {} |-> NoEntry]
    /\ flight = [k \in Keys |-> NoFlight]
    /\ call = [c \in Callers |-> [pc |-> "idle", key |-> CHOOSE k \in Keys : TRUE,
                                  entry |-> NoEntry]]

\* A fetch makes two requests one after the other: for the paths of the OpenAPI
\* document, then for the schemas of the group and version.  Each is bounded by
\* the timeout of the rest.Config.  The deadline of fetchCtx bounds neither: the
\* discovery client takes no context for its requests.
HttpRequest(st) == [st |-> st, age |-> 0, left |-> ClientTimeout]

CallAt(c, pc) == call[c].pc = pc
Goto(c, pc) == call' = [call EXCEPT ![c].pc = pc]
-----------------------------------------------------------------------------
(***************************************************************************)
(* ResolveSchema.                                                          *)
(***************************************************************************)
ResolveSchema(c, k) ==
    /\ CallAt(c, "idle")
    /\ call' = [call EXCEPT ![c] = [pc |-> "lookup", key |-> k, entry |-> NoEntry]]
    /\ UNCHANGED <<schemaCache, flight>>

\* Under the read lock.
Lookup(c) ==
    LET k == call[c].key IN
    /\ CallAt(c, "lookup")
    /\ call' = [call EXCEPT ![c] =
                   [pc |-> "check", key |-> k,
                    entry |-> IF k \in DOMAIN schemaCache THEN schemaCache[k] ELSE NoEntry]]
    /\ UNCHANGED <<schemaCache, flight>>

\* (mutation) an entry is served until it is evicted
HitUnchecked(c) ==
    /\ CallAt(c, "check") /\ call[c].entry # NoEntry
    /\ Goto(c, "got")
    /\ UNCHANGED <<schemaCache, flight>>

\* The clock is read after the lock is released.
Hit(c) ==
    /\ CallAt(c, "check") /\ call[c].entry.left > 0
    /\ Goto(c, "got")
    /\ UNCHANGED <<schemaCache, flight>>

\* Do: the first caller for a key starts a fetch, later ones wait for it.
Miss(c) ==
    LET k == call[c].key IN
    /\ CallAt(c, "check") /\ call[c].entry.left <= 0
    /\ Goto(c, "wait")
    /\ flight' = IF flight[k] # NoFlight THEN flight
                 ELSE [flight EXCEPT ![k] = HttpRequest("paths")]
    /\ UNCHANGED schemaCache

Return(c) ==
    /\ call[c].pc \in {"got", "failed"}
    /\ Goto(c, "idle")
    /\ UNCHANGED <<schemaCache, flight>>
-----------------------------------------------------------------------------
(***************************************************************************)
(* The function run by singleflight.                                       *)
(***************************************************************************)

\* Do returns to every caller that waits for the key (external).
Finish(k, pc, age) ==
    call' = [c \in Callers |->
                IF CallAt(c, "wait") /\ call[c].key = k
                THEN [pc |-> pc, key |-> k, entry |-> [call[c].entry EXCEPT !.age = age]]
                ELSE call[c]]

\* The API server answers the first request, and the second one begins ...
NextRequest(k) ==
    /\ flight[k].st = "paths"
    /\ flight' = [flight EXCEPT ![k] = HttpRequest("schema")]
    /\ UNCHANGED <<schemaCache, call>>

\* ... for which it produces the schema (external).
Answer(k) ==
    /\ flight[k].st = "schema"
    /\ flight' = [flight EXCEPT ![k] = [st |-> "answered", age |-> 0, left |-> flight[k].left]]
    /\ UNCHANGED <<schemaCache, call>>

\* (mutation) a fetch that fails starts again
FetchRetries(k) ==
    /\ flight[k] # NoFlight
    /\ flight' = [flight EXCEPT ![k] = HttpRequest("paths")]
    /\ UNCHANGED <<schemaCache, call>>

\* The fetch fails, in any of its requests: nothing is cached.
FetchFails(k) ==
    /\ flight[k] # NoFlight
    /\ Finish(k, "failed", 0)
    /\ flight' = [flight EXCEPT ![k] = NoFlight]
    /\ UNCHANGED schemaCache

\* A request has used up its time.
TimesOut(k) ==
    /\ flight[k].left = 0
    /\ FetchFails(k)

\* (mutation) nothing is evicted
UnexpiredAll(cache) == cache

\* evictExpiredSchemas: an entry goes when the clock is after its expiry.
Unexpired(cache) == Restrict(cache, {k \in DOMAIN cache : cache[k].left >= 0})

\* Under the lock: expired entries are evicted when the cache is full, and the
\* new one is put only if there is room then.
Store(k, entry) ==
    LET cache == IF Cardinality(DOMAIN schemaCache) >= MaxEntries
                 THEN Unexpired(schemaCache) ELSE schemaCache
    IN  IF Cardinality(DOMAIN cache) < MaxEntries THEN MapPut(cache, k, entry) ELSE cache

\* The second request returns in time; its result is stored and given to the waiters.
FetchReturns(k) ==
    /\ flight[k].st = "answered"
    /\ schemaCache' = Store(k, [age |-> flight[k].age, left |-> Ttl])
    /\ flight' = [flight EXCEPT ![k] = NoFlight]
    /\ Finish(k, "got", flight[k].age)
-----------------------------------------------------------------------------
\* The eviction loop's tick.
Evict ==
    /\ schemaCache' = Unexpired(schemaCache)
    /\ schemaCache' # schemaCache
    /\ UNCHANGED <<flight, call>>

Older(age) == IF age < Old THEN age + 1 ELSE Old
Later(left) == IF left = -1 THEN -1 ELSE left - 1
Aged(entry) == [age |-> Older(entry.age), left |-> Later(entry.left)]

\* Time passes (environment), but no request outlives its timeout.
Tick ==
    /\ \A k \in Keys : flight[k] # NoFlight => flight[k].left > 0
    /\ schemaCache' = [k \in DOMAIN schemaCache |-> Aged(schemaCache[k])]
    /\ flight' = [k \in Keys |-> IF flight[k] = NoFlight THEN NoFlight ELSE
                     [flight[k] EXCEPT !.age = IF flight[k].st = "answered" THEN Older(@) ELSE 0,
                                       !.left = @ - 1]]
    /\ call' = [c \in Callers |-> IF CallAt(c, "check") /\ call[c].entry # NoEntry
                                  THEN [call[c] EXCEPT !.entry = Aged(@)] ELSE call[c]]

CallStep(c) == Lookup(c) \/ Hit(c) \/ Miss(c) \/ Return(c)
FetchStep(k) == TimesOut(k) \/ FetchReturns(k)

CacheNext ==
    \/ \E c \in Callers : CallStep(c) \/ \E k \in Keys : ResolveSchema(c, k)
    \/ \E k \in Keys : FetchStep(k) \/ NextRequest(k) \/ Answer(k) \/ FetchFails(k)
    \/ Evict \/ Tick

CacheSpec == CacheInit /\ [][CacheNext]_cacheVars

\* Every call, every fetch, the eviction loop and the clock make progress; the
\* API server need not answer.
FairCacheSpec ==
    /\ CacheSpec
    /\ \A c \in Callers : WF_cacheVars(CallStep(c))
    /\ \A k \in Keys : WF_cacheVars(FetchStep(k))
    /\ WF_cacheVars(Evict) /\ WF_cacheVars(Tick)
-----------------------------------------------------------------------------
Entry == [age : 0..Old, left : -1..Ttl]

\* Every variable has the shape of the Go value it stands for, and the cache
\* never holds more entries than it may, whatever is fetched at the same time.
CacheTypeOK ==
    /\ IsMap(schemaCache, Keys, Entry)
    /\ Cardinality(DOMAIN schemaCache) <= MaxEntries
    /\ flight \in [Keys -> [st : {"none", "paths", "schema", "answered"}, age : 0..Old,
                            left : 0..ClientTimeout]]
    /\ call \in [Callers -> [pc : {"idle", "lookup", "check", "wait", "got", "failed"},
                             key : Keys, entry : Entry]]

\* No caller gets a schema that is older than the TTL and one HTTP request
\* together, from the cache or from a fetch that it joined late.
Fresh == \A c \in Callers : CallAt(c, "got") => call[c].entry.age < Ttl + ClientTimeout

\* Every call of ResolveSchema returns, even if the API server never answers the
\* first request or the second.
CallsReturn == \A c \in Callers : (call[c].pc # "idle") ~> (call[c].pc = "idle")

\* The eviction loop removes what is no longer queried: no entry stays
\* expired for ever.
ExpiredLeave ==
    \A k \in Keys : (k \in DOMAIN schemaCache /\ schemaCache[k].left = -1)
                       ~> (k \notin DOMAIN schemaCache \/ schemaCache[k].left > -1)
=============================================================================
