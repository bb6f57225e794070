---------------------------- MODULE EventsCache ----------------------------
(***************************************************************************)
(* GET /events: the cache-aside of EventsService.findAll in Redis and the  *)
(* invalidation that ends every write to events.                           *)
(*                                                                         *)
(* A reader that misses queries the database and sets the key in two       *)
(* awaited calls; a writer commits, scans the keys in batches and deletes  *)
(* what it found.  A version number stands for the published events.       *)
(* Whatever else the lists show (stock, categories) changes without        *)
(* invalidation: the age of an entry bounds how old that can be.           *)
(***************************************************************************)
EXTENDS Integers

CONSTANTS
    Keys,         \* events:list:page:limit
    NoKey,
    Handlers,     \* requests in flight at once
    TTL,          \* CACHE_TTL, in ticks
    MaxLatency,   \* bound: ticks between a reader's query and its SET
    MaxWrites,    \* bound: writes to events
    MaxFailures   \* bound: rejected calls and crashes

ASSUME NullKey == NoKey \notin Keys
ASSUME CacheBounds ==
    TTL \in Nat \ {0} /\ MaxLatency \in Nat /\ MaxWrites \in Nat /\ MaxFailures \in Nat

VARIABLES
    version,   \* of the published events in the database
    val,       \* cached version of each key
    ttl,       \* what is left of its TTL; 0: the key is not in Redis
    age,       \* ticks since the query that the entry shows
    pc,        \* the await each handler has reached
    key,       \* reader: its key
    got,       \* reader: the version it queried
    wait,      \* reader: ticks since then
    todo,      \* writer: keys the cursor has not passed
    found,     \* writer: keys to delete
    failures

cacheVars == <<val, ttl, age>>
readVars == <<key, got, wait>>
scanVars == <<todo, found>>
vars == <<version, cacheVars, pc, readVars, scanVars, failures>>

Init ==
    /\ version = 0
    /\ val = [k \in Keys |-> 0] /\ ttl = [k \in Keys |-> 0] /\ age = [k \in Keys |-> 0]
    /\ pc = [h \in Handlers |-> "idle"]
    /\ key = [h \in Handlers |-> NoKey]
    /\ got = [h \in Handlers |-> 0] /\ wait = [h \in Handlers |-> 0]
    /\ todo = [h \in Handlers |-> {}] /\ found = [h \in Handlers |-> {}]
    /\ failures = 0

Await(h, step) == pc' = [pc EXCEPT ![h] = step]
Return(h) ==
    /\ Await(h, "idle")
    /\ key' = [key EXCEPT ![h] = NoKey]
    /\ got' = [got EXCEPT ![h] = 0]
    /\ wait' = [wait EXCEPT ![h] = 0]
    /\ todo' = [todo EXCEPT ![h] = {}]
    /\ found' = [found EXCEPT ![h] = {}]

-----------------------------------------------------------------------------
(* findAll *)

\* Mutation: a hit starts the TTL again.
SlidingHit(k) ==
    /\ ttl[k] > 0
    /\ ttl' = [ttl EXCEPT ![k] = TTL]
    /\ UNCHANGED <<version, val, age, pc, readVars, scanVars, failures>>
CacheHit(k) ==
    /\ ttl[k] > 0
    /\ UNCHANGED vars

CacheMiss(h, k) ==
    /\ pc[h] = "idle"
    /\ ttl[k] = 0
    /\ Await(h, "query")
    /\ key' = [key EXCEPT ![h] = k]
    /\ UNCHANGED <<version, cacheVars, got, wait, scanVars, failures>>

\* findMany and count, in one transaction.
Query(h) ==
    /\ pc[h] = "query"
    /\ got' = [got EXCEPT ![h] = version]
    /\ Await(h, "set")
    /\ UNCHANGED <<version, cacheVars, key, wait, scanVars, failures>>

\* SET key EX CACHE_TTL, and the answer.
SetCache(h) ==
    /\ pc[h] = "set"
    /\ val' = [val EXCEPT ![key[h]] = got[h]]
    /\ ttl' = [ttl EXCEPT ![key[h]] = TTL]
    /\ age' = [age EXCEPT ![key[h]] = wait[h]]
    /\ Return(h)
    /\ UNCHANGED <<version, failures>>

-----------------------------------------------------------------------------
(* create, update, updateStatus, remove: the write and invalidateCache *)

\* Mutation: the keys are collected before the write.
WriteAfterScan(h) ==
    /\ pc[h] = "idle"
    /\ version < MaxWrites
    /\ version' = version + 1
    /\ todo' = [todo EXCEPT ![h] = {}]
    /\ Await(h, "scan")
    /\ UNCHANGED <<cacheVars, readVars, found, failures>>

\* The commit; the cursor starts.
Write(h) ==
    /\ pc[h] = "idle"
    /\ version < MaxWrites
    /\ version' = version + 1
    /\ todo' = [todo EXCEPT ![h] = Keys]
    /\ Await(h, "scan")
    /\ UNCHANGED <<cacheVars, readVars, found, failures>>

\* SCAN passes a key: a key that is there all along is found; one that comes
\* or goes meanwhile may be.
Scan(h, k) ==
    /\ pc[h] = "scan"
    /\ k \in todo[h]
    /\ todo' = [todo EXCEPT ![h] = @ \ {k}]
    /\ found' = [found EXCEPT ![h] = IF ttl[k] > 0 THEN @ \cup {k} ELSE @]
    /\ UNCHANGED <<version, cacheVars, pc, readVars, failures>>

\* Mutation: DEL of no keys.
AlwaysDelete(h) ==
    /\ pc[h] = "scan"
    /\ todo[h] = {}
    /\ Await(h, "del")
    /\ UNCHANGED <<version, cacheVars, readVars, scanVars, failures>>

\* The cursor is back at 0.
ScanDone(h) ==
    /\ pc[h] = "scan"
    /\ todo[h] = {}
    /\ IF found[h] = {}
       THEN Return(h)
       ELSE Await(h, "del") /\ UNCHANGED <<readVars, scanVars>>
    /\ UNCHANGED <<version, cacheVars, failures>>

Drop(S) ==
    /\ val' = [k \in Keys |-> IF k \in S THEN 0 ELSE val[k]]
    /\ ttl' = [k \in Keys |-> IF k \in S THEN 0 ELSE ttl[k]]
    /\ age' = [k \in Keys |-> IF k \in S THEN 0 ELSE age[k]]

Delete(h) ==
    /\ pc[h] = "del"
    /\ Drop(found[h])
    /\ Return(h)
    /\ UNCHANGED <<version, failures>>

-----------------------------------------------------------------------------
(* Failures and time *)

\* A call to Redis or the database rejects, or the process dies, in handler h.
Rejects(h) ==
    /\ pc[h] # "idle"
    /\ failures < MaxFailures
    /\ failures' = failures + 1
    /\ Return(h)
    /\ UNCHANGED <<version, cacheVars>>

Crash ==
    /\ failures < MaxFailures
    /\ failures' = failures + 1
    /\ pc' = [h \in Handlers |-> "idle"]
    /\ key' = [h \in Handlers |-> NoKey]
    /\ got' = [h \in Handlers |-> 0] /\ wait' = [h \in Handlers |-> 0]
    /\ todo' = [h \in Handlers |-> {}] /\ found' = [h \in Handlers |-> {}]
    /\ UNCHANGED <<version, cacheVars>>

\* Ages past this one are not told apart.
Old == TTL + MaxLatency

\* A tick passes: Redis drops the keys whose TTL is over.
Tick ==
    LET over == {k \in Keys : ttl[k] <= 1}
    IN  /\ \A h \in Handlers : pc[h] = "set" => wait[h] < MaxLatency
        /\ wait' = [h \in Handlers |-> IF pc[h] = "set" THEN wait[h] + 1 ELSE 0]
        /\ val' = [k \in Keys |-> IF k \in over THEN 0 ELSE val[k]]
        /\ ttl' = [k \in Keys |-> IF k \in over THEN 0 ELSE ttl[k] - 1]
        /\ age' = [k \in Keys |-> CASE k \in over -> 0
                                  [] k \notin over /\ age[k] < Old -> age[k] + 1
                                  [] OTHER -> age[k]]
        /\ UNCHANGED <<version, pc, key, got, scanVars, failures>>

Continue(h) ==
    \/ Query(h) \/ SetCache(h)
    \/ \E k \in Keys : Scan(h, k)
    \/ ScanDone(h) \/ Delete(h)

Next ==
    \/ \E h \in Handlers : Continue(h) \/ Write(h) \/ Rejects(h)
    \/ \E h \in Handlers, k \in Keys : CacheMiss(h, k)
    \/ \E k \in Keys : CacheHit(k)
    \/ Crash
    \/ Tick

Spec == Init /\ [][Next]_vars

\* The event loop resumes a handler whose call has returned; time passes.
FairSpec == Spec /\ WF_vars(Tick) /\ \A h \in Handlers : WF_vars(Continue(h))

-----------------------------------------------------------------------------
(* Properties *)

\* Every variable has its type, a reader has a key, and DEL gets one at least.
TypeOK ==
    /\ version \in Nat
    /\ val \in [Keys -> Nat] /\ ttl \in [Keys -> Nat] /\ age \in [Keys -> Nat]
    /\ pc \in [Handlers -> {"idle", "query", "set", "scan", "del"}]
    /\ key \in [Handlers -> Keys \cup {NoKey}]
    /\ got \in [Handlers -> Nat] /\ wait \in [Handlers -> Nat]
    /\ todo \in [Handlers -> SUBSET Keys] /\ found \in [Handlers -> SUBSET Keys]
    /\ failures \in Nat
    /\ \A h \in Handlers : pc[h] \in {"query", "set"} => key[h] \in Keys
    /\ \A h \in Handlers : pc[h] = "del" => found[h] # {}

\* No answer shows anything older than the TTL and the time the reader took to
\* set it, not even what changes without invalidation.
BoundedAge == \A k \in Keys : ttl[k] > 0 => age[k] < Old

\* An entry's age and the rest of its TTL never add up to more (why BoundedAge
\* holds).
AgeAndRest ==
    /\ \A k \in Keys : ttl[k] > 0 => age[k] + ttl[k] <= Old
    /\ \A h \in Handlers : wait[h] <= MaxLatency

Fresh(k) == ttl[k] = 0 \/ val[k] = version

\* Writer h is still going to delete k, if it finds it.
Pending(h, k) ==
    \/ pc[h] = "scan" /\ k \in todo[h] \cup found[h]
    \/ pc[h] = "del" /\ k \in found[h]

Covered == \A k \in Keys : Fresh(k) \/ \E h \in Handlers : Pending(h, k)

\* A reader sets what it queried before a write.
LateSet == \E h \in Handlers : pc[h] = "set" /\ pc'[h] = "idle" /\ got[h] # version

\* An old list stays in the cache after its invalidation in two ways only: a
\* reader sets it late, or a call of the invalidation fails.
StaleOnlyByLateSet == [][Covered /\ ~Covered' => LateSet \/ failures' > failures]_vars

\* Once the writes stop, every page shows the events as they are.
Converges == <>[](\A k \in Keys : Fresh(k))

=============================================================================
