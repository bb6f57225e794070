------------------------- MODULE EventsCacheProofs -------------------------
(***************************************************************************)
(* Proofs about EventsCache, for any keys, requests in flight, TTL and     *)
(* latency: its types, the age of what it serves, and the two ways in      *)
(* which an old list outlives its invalidation.                            *)
(***************************************************************************)
EXTENDS EventsCache, TLAPS

USE NullKey, CacheBounds DEF Old

\* Every variable of the cache, its readers and its writers has its type.
THEOREM CacheTyped == Spec => []TypeOK
<1>1. Init => TypeOK
  BY DEF Init, TypeOK
<1>2. TypeOK /\ [Next]_vars => TypeOK'
  <2> SUFFICES ASSUME TypeOK, [Next]_vars PROVE TypeOK'
    OBVIOUS
  <2> USE DEF TypeOK, cacheVars, readVars, scanVars, Await, Return
  <2>1. ASSUME NEW h \in Handlers, NEW k \in Keys, CacheMiss(h, k) PROVE TypeOK'
    BY <2>1 DEF CacheMiss
  <2>2. ASSUME NEW h \in Handlers, Query(h) PROVE TypeOK'
    BY <2>2 DEF Query
  <2>3. ASSUME NEW h \in Handlers, SetCache(h) PROVE TypeOK'
    BY <2>3 DEF SetCache
  <2>4. ASSUME NEW h \in Handlers, Write(h) PROVE TypeOK'
    BY <2>4 DEF Write
  <2>5. ASSUME NEW h \in Handlers, NEW k \in Keys, Scan(h, k) PROVE TypeOK'
    BY <2>5 DEF Scan
  <2>6. ASSUME NEW h \in Handlers, ScanDone(h) PROVE TypeOK'
    BY <2>6 DEF ScanDone
  <2>7. ASSUME NEW h \in Handlers, Delete(h) PROVE TypeOK'
    BY <2>7 DEF Delete, Drop
  <2>8. ASSUME NEW h \in Handlers, Rejects(h) PROVE TypeOK'
    BY <2>8 DEF Rejects
  <2>9. CASE Crash
    BY <2>9 DEF Crash
  <2>10. CASE Tick
    BY <2>10 DEF Tick
  <2>11. CASE UNCHANGED vars
    BY <2>11 DEF vars
  <2>12. QED
    BY <2>1, <2>2, <2>3, <2>4, <2>5, <2>6, <2>7, <2>8, <2>9, <2>10, <2>11
       DEF Next, Continue, CacheHit
<1>3. QED
  BY <1>1, <1>2, PTL DEF Spec

-----------------------------------------------------------------------------

\* The age of an entry and the rest of its TTL are bounded together, and so is
\* the time between a reader's query and its SET.
THEOREM AgeAndRestBounded == Spec => []AgeAndRest
<1>1. Init => AgeAndRest
  BY DEF Init, AgeAndRest
<1>2. TypeOK /\ AgeAndRest /\ [Next]_vars => AgeAndRest'
  <2> SUFFICES ASSUME TypeOK, AgeAndRest, [Next]_vars PROVE AgeAndRest'
    OBVIOUS
  <2> USE DEF TypeOK, AgeAndRest, cacheVars, readVars, scanVars, Await, Return
  <2>1. ASSUME UNCHANGED <<cacheVars, wait>> PROVE AgeAndRest'
    BY <2>1
  <2>2. ASSUME NEW h \in Handlers, SetCache(h) PROVE AgeAndRest'
    <3>1. key[h] \in Keys /\ wait[h] \in 0..MaxLatency
      BY <2>2 DEF SetCache
    <3>2. QED
      BY <2>2, <3>1 DEF SetCache
  <2>3. ASSUME NEW h \in Handlers, ScanDone(h) PROVE AgeAndRest'
    BY <2>3 DEF ScanDone
  <2>4. ASSUME NEW h \in Handlers, Delete(h) PROVE AgeAndRest'
    BY <2>4 DEF Delete, Drop
  <2>5. ASSUME NEW h \in Handlers, Rejects(h) PROVE AgeAndRest'
    BY <2>5 DEF Rejects
  <2>6. CASE Crash
    BY <2>6 DEF Crash
  <2>7. CASE Tick
    <3>1. \A k \in Keys : ttl'[k] > 0 => age'[k] + ttl'[k] <= Old
      BY <2>7 DEF Tick
    <3>2. \A h \in Handlers : wait'[h] <= MaxLatency
      BY <2>7 DEF Tick
    <3>3. QED
      BY <3>1, <3>2
  <2>8. QED
    BY <2>1, <2>2, <2>3, <2>4, <2>5, <2>6, <2>7
       DEF Next, Continue, CacheHit, CacheMiss, Query, Write, Scan, vars
<1>3. QED
  BY <1>1, <1>2, CacheTyped, PTL DEF Spec

\* No answer shows anything older than the TTL and the time a reader took.
THEOREM AgeIsBounded == Spec => []BoundedAge
<1>1. TypeOK /\ AgeAndRest => BoundedAge
  BY DEF TypeOK, AgeAndRest, BoundedAge
<1>2. QED
  BY <1>1, CacheTyped, AgeAndRestBounded, PTL

-----------------------------------------------------------------------------

\* An old list outlives its invalidation only when a reader sets it late or a
\* call fails.
THEOREM OnlyLateSetsAreStale == Spec => StaleOnlyByLateSet
<1> USE DEF TypeOK, cacheVars, readVars, scanVars, Await, Return, Fresh, Pending
<1>1. ASSUME TypeOK, Covered, [Next]_vars, ~LateSet, ~(failures' > failures)
      PROVE  Covered'
  <2>1. ASSUME NEW h \in Handlers, NEW k \in Keys, CacheMiss(h, k) PROVE Covered'
    BY <1>1, <2>1 DEF CacheMiss, Covered
  <2>2. ASSUME NEW h \in Handlers, Query(h) PROVE Covered'
    BY <1>1, <2>2 DEF Query, Covered
  <2>3. ASSUME NEW h \in Handlers, SetCache(h) PROVE Covered'
    <3>1. got[h] = version
      BY <1>1, <2>3 DEF SetCache, LateSet
    <3>2. QED
      BY <1>1, <2>3, <3>1 DEF SetCache, Covered
  <2>4. ASSUME NEW h \in Handlers, Write(h) PROVE Covered'
    BY <1>1, <2>4 DEF Write, Covered
  <2>5. ASSUME NEW h \in Handlers, NEW k \in Keys, Scan(h, k) PROVE Covered'
    BY <1>1, <2>5 DEF Scan, Covered
  <2>6. ASSUME NEW h \in Handlers, ScanDone(h) PROVE Covered'
    BY <1>1, <2>6 DEF ScanDone, Covered
  <2>7. ASSUME NEW h \in Handlers, Delete(h) PROVE Covered'
    BY <1>1, <2>7 DEF Delete, Drop, Covered
  <2>8. CASE Tick
    BY <1>1, <2>8 DEF Tick, Covered
  <2>9. CASE UNCHANGED vars
    BY <1>1, <2>9 DEF vars, Covered
  <2>10. ~Crash /\ \A h \in Handlers : ~Rejects(h)
    BY <1>1 DEF Crash, Rejects
  <2>11. QED
    BY <1>1, <2>1, <2>2, <2>3, <2>4, <2>5, <2>6, <2>7, <2>8, <2>9, <2>10
       DEF Next, Continue, CacheHit
<1>2. TypeOK /\ [Next]_vars => [Covered /\ ~Covered' => LateSet \/ failures' > failures]_vars
  BY <1>1
<1>3. QED
  BY <1>2, CacheTyped, PTL DEF Spec, StaleOnlyByLateSet

=============================================================================
