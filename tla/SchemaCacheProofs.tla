------------------------- MODULE SchemaCacheProofs --------------------------
(***************************************************************************)
(* Proofs about module SchemaCache: how stale a schema can be, for any     *)
(* number of handlers, any life of the entries, any delay of a handler     *)
(* and any bounds.                                                         *)
(***************************************************************************)
EXTENDS SchemaCache, TLAPS

Record == [pc : Progress, begun : Nat, version : Version, at : Nat]

\* What one step can do to the request of one handler.
RequestStep(h, r) == request' = [request EXCEPT ![h] = r]

LEMMA Constants == TTL \in Nat /\ TTL >= 1 /\ Delay \in Nat /\ MaxPuts \in Nat /\ Life \in Nat /\ 0 \in Version
  BY SchemaAssumption DEF Life, Version

LEMMA Records ==
  /\ NoRequest \in Record /\ Done \in Record
  /\ Done = [pc |-> "done", begun |-> 0, version |-> 0, at |-> 0]
  BY Constants DEF NoRequest, Done, Record, Progress

LEMMA InitType == Init => TypeOK
  BY Records, Constants DEF Init, TypeOK, Record, NoEntry

\* Each action of a handler replaces its record by one of these.
LEMMA HandlerSteps ==
  ASSUME TypeOK, NEW h \in Handler, HandlerStep(h)
  PROVE  \E r \in Record : RequestStep(h, r)
<1> USE Constants DEF TypeOK, RequestStep, Record, Progress
<1>1. request[h] \in Record /\ clock \in Nat /\ cached.version \in Version
      /\ items.version \in Version /\ current \in Version
  OBVIOUS
<1>2. \A v \in Version, pc \in Progress :
        Takes(h, v, pc) => \E r \in Record : RequestStep(h, r)
  <2> SUFFICES ASSUME NEW v \in Version, NEW pc \in Progress, Takes(h, v, pc)
               PROVE  \E r \in Record : RequestStep(h, r)
    OBVIOUS
  <2> DEFINE r == [pc |-> pc, begun |-> IF request[h].pc = "new" THEN clock ELSE request[h].begun,
                   version |-> v, at |-> clock]
  <2>1. r \in Record
    BY <1>1
  <2>2. RequestStep(h, r)
    BY DEF Takes
  <2> QED
    BY <2>1, <2>2
<1>3. \A pc \in Progress : Goes(h, pc) => \E r \in Record : RequestStep(h, r)
  <2> SUFFICES ASSUME NEW pc \in Progress, Goes(h, pc)
               PROVE  \E r \in Record : RequestStep(h, r)
    OBVIOUS
  <2> DEFINE r == [request[h] EXCEPT !.pc = pc]
  <2>1. r \in Record
    BY <1>1
  <2>2. RequestStep(h, r)
    BY DEF Goes
  <2> QED
    BY <2>1, <2>2
<1>4. Ends(h) => \E r \in Record : RequestStep(h, r)
  BY Records DEF Ends
<1> QED
  BY <1>1, <1>2, <1>3, <1>4 DEF HandlerStep, CacheHit, CacheMiss, GetSchema, FetchFails, cacheSchema,
     Fetched, CompiledHit, Compile, StoreCompiled, Reject, CreateRow

LEMMA NextType == TypeOK /\ [Next]_vars => TypeOK'
<1> SUFFICES ASSUME TypeOK, [Next]_vars PROVE TypeOK'
  OBVIOUS
<1> USE Constants DEF identity
<1>1. CASE UNCHANGED vars
  BY <1>1 DEF vars, TypeOK
<1>2. CASE Tick
  BY <1>2 DEF Tick, TypeOK
<1>3. CASE PutSchema
  <2>1. /\ current' = current + 1 /\ current' \in Version
        /\ replaced' = [replaced EXCEPT ![current] = clock]
        /\ broken' \in {broken, broken \cup {current + 1}}
        /\ UNCHANGED <<clock, cached, items, request, restarts>>
    BY <1>3 DEF PutSchema, UpsertFieldSchema, TypeOK, Version
  <2> QED
    BY <2>1 DEF TypeOK
<1>4. CASE Restart
  <2>1. request' \in [Handler -> Record]
    BY <1>4, Records DEF Restart, TypeOK, Record
  <2> QED
    BY <1>4, <2>1 DEF Restart, TypeOK, Record, NoEntry
<1>5. ASSUME NEW h \in Handler, HandlerStep(h) PROVE TypeOK'
  <2>1. request' \in [Handler -> Record]
    BY <1>5, HandlerSteps DEF RequestStep, TypeOK, Record
  <2>2. UNCHANGED <<clock, identity, restarts>>
    BY <1>5 DEF HandlerStep, CacheHit, CacheMiss, GetSchema, FetchFails, cacheSchema,
       CompiledHit, Compile, StoreCompiled, Reject, CreateRow
  <2>3. /\ cached' \in [version : Version, expires : Nat]
        /\ items' \in [version : Version, expires : Nat]
    <3>1. /\ cached' = cached \/ cached' = Entry(request[h].version)
          /\ items' = items \/ items' = Entry(request[h].version)
      BY <1>5 DEF HandlerStep, CacheHit, CacheMiss, GetSchema, FetchFails, cacheSchema,
         CompiledHit, Compile, StoreCompiled, Reject, CreateRow
    <3>2. Entry(request[h].version) \in [version : Version, expires : Nat]
      BY DEF Entry, TypeOK
    <3> QED
      BY <3>1, <3>2 DEF TypeOK
  <2> QED
    BY <2>1, <2>2, <2>3 DEF TypeOK, Record
<1> QED
  BY <1>1, <1>2, <1>3, <1>4, <1>5 DEF Next

\* The caches and handlers keep their types (clients.go, schema.go).
THEOREM SchemaTypeCorrect == Spec => []TypeOK
  BY InitType, NextType, PTL DEF Spec

-----------------------------------------------------------------------------

\* Was version v the current one at time t, or later?
Since(v, t) == v = current \/ replaced[v] >= t

FetchedOf(h) == request[h].pc \in {"fetched", "unregistered", "compiled", "broken"}

\* Why the staleness is bounded: each handler acts within Delay of its beginning, so what
\* it stores was right Delay before it stored it, and each entry is used for less than
\* TTL after that.
StaleInv ==
  /\ cached.expires <= clock + TTL /\ items.expires <= clock + TTL
  /\ Since(cached.version, cached.expires - TTL - Delay)
  /\ items.expires > 0 => Since(items.version, items.expires - TTL - Delay - Life)
  /\ \A h \in Handler :
       /\ InFlight(h) => /\ clock - request[h].begun <= Delay
                         /\ request[h].begun <= request[h].at
                         /\ request[h].at <= clock
       /\ request[h].pc = "answered" => Since(request[h].version, request[h].at)
       /\ FetchedOf(h) => Since(request[h].version, request[h].at - Life)
       /\ request[h].pc = "validating" => Since(request[h].version, request[h].at - 2 * Life)

\* A version that meets a bound that lies in the past still does after any step: it can
\* only be replaced now.
LEMMA SincePersists ==
  ASSUME TypeOK, [Next]_vars, NEW v \in Version, NEW t \in Int, Since(v, t), t <= clock
  PROVE  Since(v, t)'
<1>1. CASE PutSchema
  <2>1. current' = current + 1 /\ replaced' = [replaced EXCEPT ![current] = clock]
    BY <1>1 DEF PutSchema, UpsertFieldSchema
  <2> QED
    BY <2>1 DEF Since, TypeOK
<1>2. CASE ~PutSchema
  <2>1. UNCHANGED <<current, replaced>>
    BY <1>2 DEF Next, vars, Tick, Restart, HandlerStep, CacheHit, CacheMiss, GetSchema, FetchFails,
       cacheSchema, CompiledHit, Compile, StoreCompiled, Reject, CreateRow, identity
  <2> QED
    BY <2>1 DEF Since
<1> QED
  BY <1>1, <1>2

LEMMA InitStale == Init => StaleInv
<1> SUFFICES ASSUME Init PROVE StaleInv
  OBVIOUS
<1>1. /\ clock = 0 /\ current = 0 /\ cached = NoEntry /\ items = NoEntry
      /\ \A h \in Handler : request[h].pc = "new"
  BY DEF Init, NoRequest
<1> QED
  BY <1>1, Constants DEF StaleInv, NoEntry, Since, InFlight, FetchedOf

\* Any action of a handler keeps StaleInv for all the others and for the entries it leaves
\* alone; what it stores and takes is as fresh as StaleInv asks.
LEMMA HandlerStale ==
  ASSUME TypeOK, StaleInv, [Next]_vars, NEW h \in Handler, HandlerStep(h)
  PROVE  StaleInv'
<1> USE Constants
<1> DEFINE V == request[h].version
<1>1. /\ clock \in Nat /\ current \in Version /\ replaced \in [Version -> Nat]
      /\ request \in [Handler -> Record] /\ V \in Version
      /\ cached.version \in Version /\ cached.expires \in Nat
      /\ items.version \in Version /\ items.expires \in Nat
      /\ \A g \in Handler : request[g].begun \in Nat /\ request[g].at \in Nat /\ request[g].version \in Version
  BY DEF TypeOK, Record
<1>2. UNCHANGED <<clock, current, replaced>>
  BY DEF HandlerStep, CacheHit, CacheMiss, GetSchema, FetchFails, cacheSchema,
     CompiledHit, Compile, StoreCompiled, Reject, CreateRow, identity
<1>3. \A v, t : Since(v, t)' = Since(v, t)
  BY <1>2 DEF Since
<1>4. \A pc : Takes(h, V, pc) \/ Takes(h, 0, pc) \/ Takes(h, current, pc)
             \/ Takes(h, cached.version, pc) \/ Takes(h, items.version, pc) \/ Goes(h, pc) \/ Ends(h)
        => \A g \in Handler : g # h => request'[g] = request[g]
  BY <1>1 DEF Takes, Goes, Ends
<1>5. \A g \in Handler : g # h => request'[g] = request[g]
  BY <1>4 DEF HandlerStep, CacheHit, CacheMiss, GetSchema, FetchFails, cacheSchema, Fetched,
     CompiledHit, Compile, StoreCompiled, Reject, CreateRow
<1>6. \A v, pc : Takes(h, v, pc) =>
        /\ request'[h].pc = pc /\ request'[h].version = v /\ request'[h].at = clock
        /\ request'[h].begun = IF request[h].pc = "new" THEN clock ELSE request[h].begun
  BY <1>1 DEF Takes
<1>7. \A pc : Goes(h, pc) =>
        /\ request'[h].pc = pc /\ request'[h].version = V /\ request'[h].at = request[h].at
        /\ request'[h].begun = request[h].begun
  BY <1>1 DEF Goes, Record
<1>8. Ends(h) => request'[h].pc = "done"
  BY <1>1, Records DEF Ends
\* What is left to show of each action: the entries, and the handler's own record.
<1> DEFINE OwnRecord ==
      /\ InFlight(h)' => /\ clock - request'[h].begun <= Delay
                         /\ request'[h].begun <= request'[h].at
                         /\ request'[h].at <= clock
      /\ request'[h].pc = "answered" => Since(request'[h].version, request'[h].at)
      /\ FetchedOf(h)' => Since(request'[h].version, request'[h].at - Life)
      /\ request'[h].pc = "validating" => Since(request'[h].version, request'[h].at - 2 * Life)
<1> DEFINE Entries ==
      /\ cached'.expires <= clock + TTL /\ items'.expires <= clock + TTL
      /\ Since(cached'.version, cached'.expires - TTL - Delay)
      /\ items'.expires > 0 => Since(items'.version, items'.expires - TTL - Delay - Life)
<1>9. OwnRecord /\ Entries => StaleInv'
  BY <1>2, <1>3, <1>5 DEF StaleInv, InFlight, FetchedOf
<1>10. Life = Delay + (TTL - 1)
  BY DEF Life
<1>11. UNCHANGED <<cached, items>> => Entries
  BY DEF StaleInv
<1> USE DEF InFlight, FetchedOf
<1>12. CASE CacheHit(h)
  <2>1. /\ request[h].pc = "new" /\ clock < cached.expires /\ UNCHANGED <<cached, items>>
        /\ Takes(h, cached.version, IF cached.version = 0 THEN "unregistered" ELSE "fetched")
    BY <1>12 DEF CacheHit, Fetched, Alive
  <2>2. Since(cached.version, clock - Life)
    BY <2>1, <1>1, <1>10 DEF StaleInv, Since
  <2>3. OwnRecord
    BY <2>1, <2>2, <1>1, <1>6
  <2> QED
    BY <2>1, <2>3, <1>9, <1>11
<1>13. CASE CacheMiss(h)
  <2>1. request[h].pc = "new" /\ Takes(h, 0, "fetching") /\ UNCHANGED <<cached, items>>
    BY <1>13 DEF CacheMiss
  <2>2. OwnRecord
    BY <2>1, <1>1, <1>6
  <2> QED
    BY <2>1, <2>2, <1>9, <1>11
<1>14. CASE GetSchema(h)
  <2>1. request[h].pc = "fetching" /\ Takes(h, current, "answered") /\ UNCHANGED <<cached, items>>
    BY <1>14 DEF GetSchema
  <2>2. Since(current, clock)
    BY DEF Since
  <2>3. OwnRecord
    BY <2>1, <2>2, <1>1, <1>6 DEF StaleInv
  <2> QED
    BY <2>1, <2>3, <1>9, <1>11
<1>15. CASE FetchFails(h)
  <2>1. request[h].pc \in {"fetching", "answered"} /\ Goes(h, "failed") /\ UNCHANGED <<cached, items>>
    BY <1>15 DEF FetchFails
  <2>2. OwnRecord
    BY <2>1, <1>1, <1>7 DEF StaleInv
  <2> QED
    BY <2>1, <2>2, <1>9, <1>11
<1>16. CASE cacheSchema(h)
  <2>1. /\ request[h].pc = "answered" /\ cached' = Entry(V) /\ UNCHANGED items
        /\ Takes(h, V, IF V = 0 THEN "unregistered" ELSE "fetched")
    BY <1>16 DEF cacheSchema, Fetched
  <2>2. /\ Since(V, request[h].at) /\ clock - request[h].begun <= Delay
        /\ request[h].begun <= request[h].at /\ request[h].at <= clock
    BY <2>1 DEF StaleInv
  <2>3. Since(V, clock - Delay) /\ Since(V, clock - Life)
    BY <2>2, <1>1, <1>10 DEF Since
  <2>4. cached'.version = V /\ cached'.expires = clock + TTL
    BY <2>1 DEF Entry
  <2>5. Entries
    <3>1. cached'.expires - TTL - Delay = clock - Delay /\ cached'.expires <= clock + TTL
      BY <2>4, <1>1
    <3>2. Since(cached'.version, cached'.expires - TTL - Delay)
      BY <2>3, <2>4, <3>1
    <3>3. items' = items
      BY <2>1
    <3>4. /\ items'.expires <= clock + TTL
          /\ items'.expires > 0 => Since(items'.version, items'.expires - TTL - Delay - Life)
      BY <3>3 DEF StaleInv
    <3> QED
      BY <3>1, <3>2, <3>4
  <2>6. OwnRecord
    BY <2>1, <2>2, <2>3, <1>1, <1>6
  <2> QED
    BY <2>5, <2>6, <1>9
<1>17. CASE CompiledHit(h)
  <2>1. /\ request[h].pc = "fetched" /\ clock < items.expires /\ UNCHANGED <<cached, items>>
        /\ Takes(h, items.version, "validating")
    BY <1>17 DEF CompiledHit, Alive
  <2>2. Since(items.version, items.expires - TTL - Delay - Life)
    BY <2>1, <1>1 DEF StaleInv
  <2>3. Since(items.version, clock - 2 * Life)
    BY <2>1, <2>2, <1>1, <1>10 DEF Since
  <2>4. OwnRecord
    BY <2>1, <2>3, <1>1, <1>6 DEF StaleInv
  <2> QED
    BY <2>1, <2>4, <1>9, <1>11
<1>18. CASE Compile(h)
  <2>1. /\ request[h].pc = "fetched" /\ UNCHANGED <<cached, items>>
        /\ Goes(h, "broken") \/ Goes(h, "compiled")
    BY <1>18 DEF Compile
  <2>2. OwnRecord
    BY <2>1, <1>1, <1>7 DEF StaleInv
  <2> QED
    BY <2>1, <2>2, <1>9, <1>11
<1>19. CASE StoreCompiled(h)
  <2>1. request[h].pc = "compiled" /\ items' = Entry(V) /\ Takes(h, V, "validating") /\ UNCHANGED cached
    BY <1>19 DEF StoreCompiled
  <2>2. /\ Since(V, request[h].at - Life) /\ clock - request[h].begun <= Delay
        /\ request[h].begun <= request[h].at /\ request[h].at <= clock
    BY <2>1 DEF StaleInv
  <2>3. Since(V, clock - Delay - Life) /\ Since(V, clock - 2 * Life)
    BY <2>2, <1>1, <1>10 DEF Since
  <2>4. items'.version = V /\ items'.expires = clock + TTL
    BY <2>1 DEF Entry
  <2>5. Entries
    <3>1. items'.expires - TTL - Delay - Life = clock - Delay - Life /\ items'.expires <= clock + TTL
      BY <2>4, <1>1
    <3>2. Since(items'.version, items'.expires - TTL - Delay - Life)
      BY <2>3, <2>4, <3>1
    <3>3. cached' = cached
      BY <2>1
    <3>4. /\ cached'.expires <= clock + TTL
          /\ Since(cached'.version, cached'.expires - TTL - Delay)
      BY <3>3 DEF StaleInv
    <3> QED
      BY <3>1, <3>2, <3>4
  <2>6. OwnRecord
    BY <2>1, <2>2, <2>3, <1>1, <1>6
  <2> QED
    BY <2>5, <2>6, <1>9
<1>20. CASE Reject(h) \/ CreateRow(h)
  <2>1. Ends(h) /\ UNCHANGED <<cached, items>>
    BY <1>20 DEF Reject, CreateRow
  <2>2. OwnRecord
    BY <2>1, <1>8
  <2> QED
    BY <2>1, <2>2, <1>9, <1>11
<1> QED
  BY <1>12, <1>13, <1>14, <1>15, <1>16, <1>17, <1>18, <1>19, <1>20 DEF HandlerStep

LEMMA NextStale == TypeOK /\ StaleInv /\ [Next]_vars => StaleInv'
<1> SUFFICES ASSUME TypeOK, StaleInv, [Next]_vars PROVE StaleInv'
  OBVIOUS
<1> USE Constants
<1>1. /\ clock \in Nat /\ request \in [Handler -> Record]
      /\ cached.version \in Version /\ cached.expires \in Nat
      /\ items.version \in Version /\ items.expires \in Nat
      /\ \A g \in Handler : request[g].begun \in Nat /\ request[g].at \in Nat /\ request[g].version \in Version
  BY DEF TypeOK, Record
<1>2. CASE UNCHANGED vars
  BY <1>2 DEF vars, identity, StaleInv, Since, InFlight, FetchedOf
<1>3. CASE Tick
  <2>1. /\ clock' = clock + 1 /\ UNCHANGED <<current, replaced, cached, items, request>>
        /\ \A h \in Handler : InFlight(h) => clock - request[h].begun < Delay
    BY <1>3 DEF Tick, identity
  <2> QED
    BY <2>1, <1>1 DEF StaleInv, Since, InFlight, FetchedOf
<1>4. CASE PutSchema
  <2>1. UNCHANGED <<clock, cached, items, request>>
    BY <1>4 DEF PutSchema
  <2>2. \A v \in Version, t \in Int : (Since(v, t) /\ t <= clock) => Since(v, t)'
    BY SincePersists
  <2>3. Since(cached.version, cached.expires - TTL - Delay)'
    BY <2>1, <2>2, <1>1 DEF StaleInv
  <2>4. items.expires > 0 => Since(items.version, items.expires - TTL - Delay - Life)'
    BY <2>1, <2>2, <1>1 DEF StaleInv
  <2>5. ASSUME NEW h \in Handler
        PROVE  /\ request[h].pc = "answered" => Since(request[h].version, request[h].at)'
               /\ FetchedOf(h) => Since(request[h].version, request[h].at - Life)'
               /\ request[h].pc = "validating" => Since(request[h].version, request[h].at - 2 * Life)'
    <3>1. InFlight(h) => request[h].at <= clock
      BY DEF StaleInv
    <3>2. request[h].pc \in {"answered", "validating"} \/ FetchedOf(h) => InFlight(h)
      BY DEF InFlight, FetchedOf
    <3>3. request[h].at - Life \in Int /\ request[h].at - 2 * Life \in Int
      BY <1>1
    <3>4. FetchedOf(h) => Since(request[h].version, request[h].at - Life)'
      BY <3>1, <3>2, <3>3, <2>1, <2>2, <1>1 DEF StaleInv
    <3>5. request[h].pc = "validating" => Since(request[h].version, request[h].at - 2 * Life)'
      BY <3>1, <3>2, <3>3, <2>1, <2>2, <1>1 DEF StaleInv
    <3>6. request[h].pc = "answered" => Since(request[h].version, request[h].at)'
      BY <3>1, <3>2, <2>1, <2>2, <1>1 DEF StaleInv
    <3> QED
      BY <3>4, <3>5, <3>6
  <2> QED
    BY <2>1, <2>3, <2>4, <2>5 DEF StaleInv, InFlight, FetchedOf
<1>5. CASE Restart
  <2>1. /\ UNCHANGED <<clock, current, replaced>> /\ cached' = NoEntry /\ items' = NoEntry
        /\ \A h \in Handler : request'[h] = request[h] \/ request'[h] = Done
        /\ \A h \in Handler : InFlight(h)' => FALSE
    BY <1>5, Records DEF Restart, identity, InFlight
  <2>2. Since(0, 0 - TTL - Delay)
    BY DEF Since, TypeOK
  <2>3. \A h \in Handler : ~FetchedOf(h)' /\ request'[h].pc \notin {"answered", "validating"}
    BY <2>1 DEF InFlight, FetchedOf
  <2>4. cached'.expires = 0 /\ cached'.version = 0 /\ items'.expires = 0
    BY <2>1 DEF NoEntry
  <2>5. Since(cached.version, cached.expires - TTL - Delay)'
    BY <2>1, <2>2, <2>4 DEF Since
  <2>6. cached'.expires <= clock' + TTL /\ items'.expires <= clock' + TTL
    BY <2>1, <2>4, <1>1
  <2> QED
    BY <2>1, <2>3, <2>4, <2>5, <2>6 DEF StaleInv
<1>6. ASSUME NEW h \in Handler, HandlerStep(h) PROVE StaleInv'
  BY <1>6, HandlerStale
<1> QED
  BY <1>2, <1>3, <1>4, <1>5, <1>6 DEF Next

\* A replaced schema is used for at most two lives of a cache entry, each extended by the
\* time a handler takes (fetchSchema, validate.Cache.compiled).
THEOREM StalenessBounded == Spec => []BoundedStaleness
<1>1. TypeOK /\ StaleInv => BoundedStaleness
  <2> SUFFICES ASSUME TypeOK, StaleInv, NEW h \in Handler, request[h].pc = "validating"
               PROVE  FreshWithin(request[h].version, request[h].at, 2 * Life)
    BY DEF BoundedStaleness
  <2>1. Since(request[h].version, request[h].at - 2 * Life)
    BY DEF StaleInv
  <2>2. replaced[request[h].version] \in Nat /\ request[h].at \in Nat
    BY DEF TypeOK
  <2> QED
    BY <2>1, <2>2, Constants DEF Since, FreshWithin
<1>2. Init => TypeOK /\ StaleInv
  BY InitType, InitStale
<1>3. TypeOK /\ StaleInv /\ [Next]_vars => (TypeOK /\ StaleInv)'
  BY NextType, NextStale
<1> QED
  BY <1>1, <1>2, <1>3, PTL DEF Spec

-----------------------------------------------------------------------------

\* Which versions are where: a handler looks for a compiler error before it stores or uses
\* what it compiled, and for a missing schema before it compiles.
Usable == (1..current) \ broken

VersionInv ==
  /\ broken \subseteq 1..current
  /\ cached.version \in 0..current
  /\ items.expires > 0 => items.version \in Usable
  /\ \A h \in Handler :
       /\ request[h].version \in 0..current
       /\ request[h].pc = "fetched" => request[h].version # 0
       /\ request[h].pc \in {"compiled", "validating"} => request[h].version \in Usable
       /\ request[h].pc = "unregistered" => request[h].version = 0
       /\ request[h].pc = "broken" => request[h].version \in broken

LEMMA InitVersion == Init => VersionInv
  BY DEF Init, VersionInv, NoEntry, NoRequest

\* Any action of a handler keeps VersionInv: what it fetched and compiled was registered.
LEMMA HandlerVersion ==
  ASSUME TypeOK, VersionInv, [Next]_vars, NEW h \in Handler, HandlerStep(h)
  PROVE  VersionInv'
<1> DEFINE V == request[h].version
<1>1. /\ clock \in Nat /\ current \in Nat /\ request \in [Handler -> Record]
      /\ items.expires \in Nat /\ V \in 0..current
  BY DEF TypeOK, Record, Version, VersionInv
<1>2. UNCHANGED <<clock, current, broken>>
  BY DEF HandlerStep, CacheHit, CacheMiss, GetSchema, FetchFails, cacheSchema,
     CompiledHit, Compile, StoreCompiled, Reject, CreateRow, identity
<1>3. \A v, pc : Takes(h, v, pc) =>
        /\ request'[h].pc = pc /\ request'[h].version = v
        /\ \A g \in Handler : g # h => request'[g] = request[g]
  BY <1>1 DEF Takes
<1>4. \A pc : Goes(h, pc) =>
        /\ request'[h].pc = pc /\ request'[h].version = V
        /\ \A g \in Handler : g # h => request'[g] = request[g]
  BY <1>1 DEF Goes, Record
<1>5. Ends(h) =>
        /\ request'[h].pc = "done" /\ request'[h].version = 0
        /\ \A g \in Handler : g # h => request'[g] = request[g]
  BY <1>1, Records DEF Ends
<1> DEFINE OwnRecord ==
      /\ request'[h].version \in 0..current
      /\ request'[h].pc = "fetched" => request'[h].version # 0
      /\ request'[h].pc \in {"compiled", "validating"} => request'[h].version \in Usable
      /\ request'[h].pc = "unregistered" => request'[h].version = 0
      /\ request'[h].pc = "broken" => request'[h].version \in broken
<1> DEFINE Entries ==
      /\ cached'.version \in 0..current
      /\ items'.expires > 0 => items'.version \in Usable
<1> DEFINE Others == \A g \in Handler : g # h => request'[g] = request[g]
<1>6. OwnRecord /\ Entries /\ Others => VersionInv'
  BY <1>2 DEF VersionInv, Usable
<1>7. UNCHANGED <<cached, items>> => Entries
  BY DEF VersionInv
<1>8. CASE CacheHit(h)
  <2>1. /\ UNCHANGED <<cached, items>>
        /\ Takes(h, cached.version, IF cached.version = 0 THEN "unregistered" ELSE "fetched")
    BY <1>8 DEF CacheHit, Fetched
  <2> QED
    BY <2>1, <1>3, <1>6, <1>7 DEF VersionInv
<1>9. CASE CacheMiss(h) \/ GetSchema(h)
  <2>1. /\ UNCHANGED <<cached, items>>
        /\ Takes(h, 0, "fetching") \/ Takes(h, current, "answered")
    BY <1>9 DEF CacheMiss, GetSchema
  <2>2. 0 \in 0..current /\ current \in 0..current
    BY <1>1
  <2> QED
    BY <2>1, <2>2, <1>3, <1>6, <1>7
<1>10. CASE FetchFails(h)
  <2>1. Goes(h, "failed") /\ UNCHANGED <<cached, items>>
    BY <1>10 DEF FetchFails
  <2> QED
    BY <2>1, <1>1, <1>4, <1>6, <1>7
<1>11. CASE cacheSchema(h)
  <2>1. /\ cached' = Entry(V) /\ UNCHANGED items
        /\ Takes(h, V, IF V = 0 THEN "unregistered" ELSE "fetched")
    BY <1>11 DEF cacheSchema, Fetched
  <2>2. cached'.version = V
    BY <2>1 DEF Entry
  <2>3. Entries
    BY <2>1, <2>2, <1>1 DEF VersionInv
  <2> QED
    BY <2>1, <2>3, <1>1, <1>3, <1>6
<1>12. CASE CompiledHit(h)
  <2>1. /\ clock < items.expires /\ UNCHANGED <<cached, items>>
        /\ Takes(h, items.version, "validating")
    BY <1>12 DEF CompiledHit, Alive
  <2>2. items.version \in Usable
    BY <2>1, <1>1 DEF VersionInv
  <2>3. items.version \in 0..current
    BY <2>2, <1>1 DEF Usable
  <2> QED
    BY <2>1, <2>2, <2>3, <1>3, <1>6, <1>7
<1>13. CASE Compile(h)
  <2>1. /\ request[h].pc = "fetched" /\ UNCHANGED <<cached, items>>
        /\ Goes(h, IF V \in broken THEN "broken" ELSE "compiled")
    BY <1>13 DEF Compile
  <2>2. V # 0
    BY <2>1 DEF VersionInv
  <2>3. V \notin broken => V \in Usable
    BY <2>2, <1>1 DEF Usable
  <2> QED
    BY <2>1, <2>3, <1>1, <1>4, <1>6, <1>7
<1>14. CASE StoreCompiled(h)
  <2>1. /\ request[h].pc = "compiled" /\ items' = Entry(V) /\ UNCHANGED cached
        /\ Takes(h, V, "validating")
    BY <1>14 DEF StoreCompiled
  <2>2. items'.version = V /\ V \in Usable
    BY <2>1 DEF Entry, VersionInv
  <2>3. Entries
    BY <2>1, <2>2 DEF VersionInv
  <2> QED
    BY <2>1, <2>2, <2>3, <1>1, <1>3, <1>6
<1>15. CASE Reject(h) \/ CreateRow(h)
  <2>1. Ends(h) /\ UNCHANGED <<cached, items>>
    BY <1>15 DEF Reject, CreateRow
  <2>2. 0 \in 0..current
    BY <1>1
  <2> QED
    BY <2>1, <2>2, <1>5, <1>6, <1>7
<1> QED
  BY <1>8, <1>9, <1>10, <1>11, <1>12, <1>13, <1>14, <1>15 DEF HandlerStep

LEMMA NextVersion == TypeOK /\ VersionInv /\ [Next]_vars => VersionInv'
<1> SUFFICES ASSUME TypeOK, VersionInv, [Next]_vars PROVE VersionInv'
  OBVIOUS
<1>1. CASE UNCHANGED vars \/ Tick
  BY <1>1 DEF vars, identity, Tick, VersionInv, Usable
<1>2. CASE PutSchema
  <2>1. /\ current' = current + 1 /\ UNCHANGED <<cached, items, request>>
        /\ broken' = broken \/ broken' = broken \cup {current + 1}
    BY <1>2 DEF PutSchema, UpsertFieldSchema
  <2>2. current \in Nat
    BY DEF TypeOK, Version
  <2>3. broken' \subseteq 1..current' /\ broken \subseteq broken'
    <3>1. broken \subseteq 1..current
      BY DEF VersionInv
    <3>2. 1..current \subseteq 1..current' /\ current + 1 \in 1..current'
      BY <2>1, <2>2
    <3> QED
      BY <2>1, <3>1, <3>2
  <2>4. Usable \subseteq Usable' /\ 0..current \subseteq 0..current'
    BY <2>1, <2>2 DEF Usable
  <2> QED
    BY <2>1, <2>3, <2>4 DEF VersionInv
<1>3. CASE Restart
  <2>1. /\ UNCHANGED <<current, broken>> /\ cached' = NoEntry /\ items' = NoEntry
        /\ \A h \in Handler : request'[h] = request[h] \/ request'[h] = Done
    BY <1>3 DEF Restart, identity
  <2>2. 0 \in 0..current /\ Usable' = Usable
    BY <2>1 DEF TypeOK, Version, Usable
  <2> QED
    BY <2>1, <2>2, Records DEF VersionInv, NoEntry
<1>4. ASSUME NEW h \in Handler, HandlerStep(h) PROVE VersionInv'
  BY <1>4, HandlerVersion
<1> QED
  BY <1>1, <1>2, <1>3, <1>4 DEF Next

\* A document that does not compile is never validated with (Cache.compiled returns before
\* it stores).
THEOREM CompiledAreSound == Spec => []CompiledSound
<1>1. VersionInv => CompiledSound
  BY DEF VersionInv, CompiledSound, Usable
<1> QED
  BY <1>1, InitType, InitVersion, NextType, NextVersion, PTL DEF Spec

\* Without a failure of identity, metadata goes unvalidated only when there was shortly
\* before no schema, or a broken one (ValidateMetadata).
THEOREM UnvalidatedCaused == Spec => []UnvalidatedForCause
<1>1. TypeOK /\ StaleInv /\ VersionInv => UnvalidatedForCause
  <2> SUFFICES ASSUME TypeOK, StaleInv, VersionInv,
                      NEW h \in Handler, request[h].pc \in {"unregistered", "broken"}
               PROVE  /\ request[h].version \in {0} \cup broken
                      /\ FreshWithin(request[h].version, request[h].at, Life)
    BY DEF UnvalidatedForCause
  <2>1. Since(request[h].version, request[h].at - Life)
    BY DEF StaleInv, FetchedOf
  <2>2. replaced[request[h].version] \in Nat /\ request[h].at \in Nat
    BY DEF TypeOK
  <2>3. FreshWithin(request[h].version, request[h].at, Life)
    BY <2>1, <2>2, Constants DEF Since, FreshWithin
  <2> QED
    BY <2>3 DEF VersionInv
<1>2. Init => TypeOK /\ StaleInv /\ VersionInv
  BY InitType, InitStale, InitVersion
<1>3. TypeOK /\ StaleInv /\ VersionInv /\ [Next]_vars => (TypeOK /\ StaleInv /\ VersionInv)'
  BY NextType, NextStale, NextVersion
<1> QED
  BY <1>1, <1>2, <1>3, PTL DEF Spec
=============================================================================
