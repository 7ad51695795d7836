------------------------ MODULE RateLimiterProofs ---------------------------
(***************************************************************************)
(* Proofs about module RateLimiter, for any numbers of requests, addresses *)
(* and pool slots, any limit and window, and any bounds.                   *)
(***************************************************************************)
EXTENDS RateLimiter, FiniteSetTheorems, SequenceTheorems, TLAPS

LEMMA InitType == Init => TypeOK
  BY LimiterAssumption DEF Init, TypeOK, Progress, Conn

\* What a receive and a send do to the pool's channel.
LEMMA PoolReceive ==
  ASSUME TypeOK, pool # <<>>
  PROVE  /\ Head(pool) \in Conn \cup {Nil} /\ Head(pool) = pool[1]
         /\ Tail(pool) \in Seq(Conn \cup {Nil})
         /\ Len(Tail(pool)) = Len(pool) - 1
         /\ \A i \in 1..(Len(pool) - 1) : Tail(pool)[i] = pool[i + 1]
         /\ Len(Tail(pool)) <= Capacity
<1>1. pool \in Seq(Conn \cup {Nil}) /\ Len(pool) <= Capacity /\ Capacity \in Nat /\ Len(pool) \in Nat
  BY LimiterAssumption DEF TypeOK
<1>2. /\ Head(pool) \in Conn \cup {Nil} /\ Head(pool) = pool[1]
      /\ Tail(pool) \in Seq(Conn \cup {Nil})
      /\ Len(Tail(pool)) = Len(pool) - 1
      /\ \A i \in 1..(Len(pool) - 1) : Tail(pool)[i] = pool[i + 1]
  BY <1>1
<1> QED
  BY <1>1, <1>2

LEMMA PoolSend ==
  ASSUME TypeOK, Len(pool) < Capacity, NEW c \in Conn \cup {Nil}
  PROVE  /\ Append(pool, c) \in Seq(Conn \cup {Nil})
         /\ Len(Append(pool, c)) = Len(pool) + 1
         /\ \A i \in 1..Len(pool) : Append(pool, c)[i] = pool[i]
         /\ Append(pool, c)[Len(pool) + 1] = c
         /\ Len(Append(pool, c)) <= Capacity
<1>1. pool \in Seq(Conn \cup {Nil}) /\ Capacity \in Nat /\ Len(pool) \in Nat
  BY LimiterAssumption DEF TypeOK
<1> QED
  BY <1>1

\* Each step keeps the types; the pool's bound is its channel's capacity.
LEMMA NextType == TypeOK /\ [Next]_vars => TypeOK'
<1> SUFFICES ASSUME TypeOK, [Next]_vars PROVE TypeOK'
  OBVIOUS
<1> USE DEF TypeOK, Progress, Conn, Goto, window, redis, server
<1>1. CASE UNCHANGED vars
  BY <1>1 DEF vars
<1>2. CASE Tick
  BY <1>2 DEF Tick
<1>3. ASSUME NEW r \in Request, Arrive(r) PROVE TypeOK'
  BY <1>3 DEF Arrive
<1>4. ASSUME NEW r \in Request, AllowMemory(r) PROVE TypeOK'
  BY <1>4 DEF AllowMemory, Kept
<1>5. ASSUME NEW r \in Request, AcquirePooled(r) PROVE TypeOK'
  <2>1. /\ Head(pool) \in Request \cup {Nil}
        /\ Tail(pool) \in Seq(Request \cup {Nil}) /\ Len(Tail(pool)) <= Capacity
    BY <1>5, PoolReceive DEF AcquirePooled
  <2> QED
    BY <1>5, <2>1 DEF AcquirePooled
<1>6. ASSUME NEW r \in Request, Dial(r) PROVE TypeOK'
  <2>1. pool' \in Seq(Request \cup {Nil}) /\ Len(pool') <= Capacity
    BY <1>6, PoolReceive DEF Dial, NoPooled
  <2> QED
    BY <1>6, <2>1 DEF Dial, NoPooled
<1>7. ASSUME NEW r \in Request, DialFails(r) PROVE TypeOK'
  BY <1>7, PoolReceive DEF DialFails, NoPooled
<1>8. ASSUME NEW r \in Request, WritePipeline(r) PROVE TypeOK'
  BY <1>8 DEF WritePipeline
<1>9. ASSUME NEW r \in Request, WriteFails(r) PROVE TypeOK'
  BY <1>9 DEF WriteFails
<1>10. ASSUME NEW r \in Request, Invalidate(r) PROVE TypeOK'
  <2>1. pool' \in Seq(Request \cup {Nil}) /\ Len(pool') <= Capacity
    BY <1>10, PoolSend DEF Invalidate
  <2> QED
    BY <1>10, <2>1 DEF Invalidate
<1>11. ASSUME NEW r \in Request, ReadFails(r) PROVE TypeOK'
  BY <1>11 DEF ReadFails
<1>12. ASSUME NEW r \in Request, Release(r) PROVE TypeOK'
  <2>1. pool' \in Seq(Request \cup {Nil}) /\ Len(pool') <= Capacity
    <3>1. conn[r] \in Request \cup {Nil}
      OBVIOUS
    <3> QED
      BY <1>12, <3>1, PoolSend DEF Release
  <2>2. link' \in [Request -> {"unused", "open", "ended", "shut"}]
    BY <1>12 DEF Release
  <2> QED
    BY <1>12, <2>1, <2>2 DEF Release
<1>13. CASE RedisStops
  <2>1. link' \in [Request -> {"unused", "open", "ended", "shut"}]
    BY <1>13 DEF RedisStops
  <2>2. outages' \in Nat
    BY <1>13 DEF RedisStops
  <2>3. up' = FALSE /\ UNCHANGED <<mode, clock, pc, address, stamp, recent, conn, pool>>
    BY <1>13 DEF RedisStops
  <2> HIDE DEF RedisStops
  <2> QED
    BY <2>1, <2>2, <2>3
<1>14. CASE RedisStarts
  BY <1>14 DEF RedisStarts
<1> QED
  BY <1>1, <1>2, <1>3, <1>4, <1>5, <1>6, <1>7, <1>8, <1>9, <1>10, <1>11, <1>12, <1>13,
     <1>14 DEF Next, Handle

\* The limiter keeps its types (ratelimit.go).
THEOREM LimiterTypeCorrect == Spec => []TypeOK
<1>1. Init => TypeOK
  BY InitType
<1>2. TypeOK /\ [Next]_vars => TypeOK'
  BY NextType
<1> QED
  BY <1>1, <1>2, PTL DEF Spec

-----------------------------------------------------------------------------

\* What makes the window slide: in memory only decided requests are recorded, each
\* under its own address, all those that read the clock within the last window still
\* are, and no more than Limit of the recorded ones were allowed.
Recorded ==
  /\ \A r \in Request : stamp[r] <= clock
  /\ mode = "memory" =>
       /\ \A r \in Request : pc[r] \in {"new", "arrived", "allowed", "refused"}
       /\ \A k \in Address : \A q \in recent[k] : address[q] = k /\ Decided(q)
       /\ \A q \in Request : (Decided(q) /\ stamp[q] > clock - Window) => q \in recent[address[q]]
       /\ \A k \in Address : Cardinality({q \in recent[k] : pc[q] = "allowed"}) <= Limit

LEMMA InitRecorded == Init => Recorded
<1> SUFFICES ASSUME Init PROVE Recorded
  OBVIOUS
<1>1. \A k \in Address : {q \in recent[k] : pc[q] = "allowed"} = {}
  BY DEF Init
<1> QED
  BY <1>1, FS_EmptySet, LimiterAssumption DEF Init, Recorded, Decided

\* A set of at most Limit requests has no larger part.
LEMMA PartOf ==
  ASSUME NEW A \in SUBSET Request, NEW B \in SUBSET A
  PROVE  /\ IsFiniteSet(A) /\ IsFiniteSet(B)
         /\ Cardinality(B) <= Cardinality(A)
         /\ Cardinality(A) \in Nat /\ Cardinality(B) \in Nat
  BY FS_Subset, FS_CardinalityType, LimiterAssumption

\* A decision in memory: pruning by an older reading of the clock drops nothing that a
\* newer one would keep, and what is left is counted under the lock.
LEMMA DecisionRecorded ==
  ASSUME TypeOK, Recorded, NEW r \in Request, AllowMemory(r)
  PROVE  Recorded'
<1> DEFINE k == address[r]
           N == Kept(r) \cup {r}
<1>1. /\ k \in Address /\ recent[k] \subseteq Request /\ N \subseteq Request
      /\ recent' = [recent EXCEPT ![k] = N]
      /\ pc' = [pc EXCEPT ![r] = IF Cardinality(N) <= Limit THEN "allowed" ELSE "refused"]
      /\ mode = "memory" /\ pc[r] = "arrived"
      /\ UNCHANGED <<mode, clock, address, stamp>>
  BY DEF AllowMemory, TypeOK, Kept, Goto
<1>2. pc \in [Request -> Progress] /\ recent \in [Address -> SUBSET Request]
      /\ clock \in Nat /\ stamp \in [Request -> Nat] /\ address \in [Request -> Address]
      /\ Window \in Nat /\ Limit \in Nat
  BY LimiterAssumption DEF TypeOK
<1>3. \A q \in Request : stamp'[q] <= clock'
  BY <1>1 DEF Recorded
<1>4. \A q \in Request : pc'[q] \in {"new", "arrived", "allowed", "refused"}
  BY <1>1, <1>2 DEF Recorded
<1>5. \A j \in Address : \A q \in recent'[j] : address'[q] = j /\ Decided(q)'
  BY <1>1, <1>2 DEF Recorded, Decided, Kept
<1>6. \A q \in Request : (Decided(q)' /\ stamp'[q] > clock' - Window) => q \in recent'[address'[q]]
  <2> SUFFICES ASSUME NEW q \in Request, Decided(q)', stamp[q] > clock - Window
               PROVE  q \in recent'[address[q]]
    BY <1>1
  <2>1. CASE q = r
    BY <2>1, <1>1, <1>2
  <2>2. CASE q # r
    <3>1. Decided(q) /\ q \in recent[address[q]]
      BY <2>2, <1>1, <1>2 DEF Decided, Recorded
    <3>2. stamp[r] - stamp[q] < Window
      BY <1>2 DEF Recorded
    <3> QED
      BY <3>1, <3>2, <1>1, <1>2 DEF Kept
  <2> QED
    BY <2>1, <2>2
<1>7. \A j \in Address : Cardinality({q \in recent'[j] : pc'[q] = "allowed"}) <= Limit
  <2> TAKE j \in Address
  <2>1. CASE j # k
    <3>1. {q \in recent'[j] : pc'[q] = "allowed"} = {q \in recent[j] : pc[q] = "allowed"}
      BY <2>1, <1>1, <1>2 DEF Recorded
    <3> QED
      BY <3>1, <1>1 DEF Recorded
  <2>2. CASE j = k /\ Cardinality(N) <= Limit
    <3>1. {q \in recent'[j] : pc'[q] = "allowed"} \in SUBSET N
      BY <2>2, <1>1, <1>2
    <3> QED
      BY <3>1, <2>2, <1>1, <1>2, PartOf
  <2>3. CASE j = k /\ ~(Cardinality(N) <= Limit)
    <3> DEFINE A == {q \in recent[k] : pc[q] = "allowed"}
               B == {q \in recent'[j] : pc'[q] = "allowed"}
    <3>1. pc'[r] = "refused" /\ recent'[j] = N
      BY <2>3, <1>1, <1>2
    <3>2. B \subseteq A
      BY <3>1, <1>1, <1>2 DEF Kept
    <3>3. A \in SUBSET Request /\ Cardinality(A) <= Limit
      BY <1>1 DEF Recorded
    <3> HIDE DEF A, B
    <3>4. Cardinality(B) <= Limit
      BY <3>2, <3>3, <1>2, PartOf
    <3> QED
      BY <3>4 DEF B
  <2> QED
    BY <2>1, <2>2, <2>3
<1> QED
  BY <1>1, <1>3, <1>4, <1>5, <1>6, <1>7 DEF Recorded

LEMMA NextRecorded == TypeOK /\ Recorded /\ [Next]_vars => Recorded'
<1> SUFFICES ASSUME TypeOK, Recorded, [Next]_vars PROVE Recorded'
  OBVIOUS
<1> USE DEF window, redis, server
<1>1. CASE UNCHANGED vars
  BY <1>1 DEF vars, Recorded, Decided
<1>2. CASE Tick
  <2>1. clock' = clock + 1 /\ clock \in Nat /\ stamp \in [Request -> Nat] /\ Window \in Nat
        /\ UNCHANGED <<mode, pc, address, stamp, recent>>
    BY <1>2, LimiterAssumption DEF Tick, TypeOK
  <2>2. \A q \in Request : stamp[q] <= clock + 1 /\ (stamp[q] > clock + 1 - Window => stamp[q] > clock - Window)
    BY <2>1 DEF Recorded
  <2> QED
    BY <2>1, <2>2 DEF Recorded, Decided
<1>3. ASSUME NEW r \in Request, Arrive(r) PROVE Recorded'
  <2>1. /\ pc[r] = "new" /\ pc' = [pc EXCEPT ![r] = "arrived"]
        /\ stamp' = [stamp EXCEPT ![r] = clock]
        /\ UNCHANGED <<mode, clock, address, recent>>
        /\ pc \in [Request -> Progress] /\ stamp \in [Request -> Nat] /\ clock \in Nat
        /\ recent \in [Address -> SUBSET Request]
    BY <1>3 DEF Arrive, Goto, TypeOK
  <2>2. \A q \in Request : stamp'[q] <= clock'
    BY <2>1 DEF Recorded
  <2>3. \A q \in Request : Decided(q)' => Decided(q) /\ q # r /\ stamp'[q] = stamp[q]
    BY <2>1 DEF Decided
  <2>4. \A q \in Request : pc[q] \in {"allowed", "refused"} => pc'[q] = pc[q]
    BY <2>1
  <2>5. \A q \in Request : pc'[q] = "allowed" <=> pc[q] = "allowed"
    BY <2>1
  <2>6. \A k \in Address : {q \in recent'[k] : pc'[q] = "allowed"} = {q \in recent[k] : pc[q] = "allowed"}
    BY <2>1, <2>5
  <2>7. mode = "memory" => \A q \in Request : pc'[q] \in {"new", "arrived", "allowed", "refused"}
    BY <2>1 DEF Recorded
  <2>8. mode = "memory" => \A k \in Address : \A q \in recent'[k] : address'[q] = k /\ Decided(q)'
    BY <2>1, <2>4 DEF Recorded, Decided
  <2> QED
    BY <2>1, <2>2, <2>3, <2>6, <2>7, <2>8 DEF Recorded
<1>4. ASSUME NEW r \in Request, AllowMemory(r) PROVE Recorded'
  BY <1>4, DecisionRecorded
<1>5. ASSUME NEW r \in Request, mode = "redis", UNCHANGED <<mode, clock>>,
             stamp' = stamp \/ stamp' = [stamp EXCEPT ![r] = clock]
      PROVE  Recorded'
  <2>1. clock \in Nat /\ stamp \in [Request -> Nat]
    BY DEF TypeOK
  <2>2. \A q \in Request : stamp'[q] <= clock'
    BY <1>5, <2>1 DEF Recorded
  <2>3. mode' # "memory"
    BY <1>5
  <2> QED
    BY <2>2, <2>3 DEF Recorded
<1>6. ASSUME NEW r \in Request, Handle(r) PROVE Recorded'
  <2>1. mode = "memory" => pc[r] \in {"new", "arrived", "allowed", "refused"}
    BY DEF Recorded
  <2>2. mode \in {"memory", "redis"}
    BY DEF TypeOK
  <2>3. CASE AllowMemory(r)
    BY <2>3, <1>4
  <2>4. CASE AcquirePooled(r)
    BY <2>4, <1>5 DEF AcquirePooled
  <2>5. CASE Dial(r)
    BY <2>5, <1>5 DEF Dial, NoPooled
  <2>6. CASE DialFails(r)
    BY <2>6, <1>5 DEF DialFails, NoPooled
  <2>7. CASE WritePipeline(r)
    BY <2>7, <1>5, <2>1, <2>2 DEF WritePipeline
  <2>8. CASE WriteFails(r)
    BY <2>8, <1>5, <2>1, <2>2 DEF WriteFails
  <2>9. CASE Invalidate(r)
    BY <2>9, <1>5, <2>1, <2>2 DEF Invalidate
  <2>10. CASE ReadFails(r)
    BY <2>10, <1>5, <2>1, <2>2 DEF ReadFails
  <2>11. CASE Release(r)
    BY <2>11, <1>5, <2>1, <2>2 DEF Release
  <2> QED
    BY <1>6, <2>3, <2>4, <2>5, <2>6, <2>7, <2>8, <2>9, <2>10, <2>11 DEF Handle
<1>7. CASE RedisStops \/ RedisStarts
  <2>1. UNCHANGED <<mode, clock, pc, address, stamp, recent>>
    BY <1>7 DEF RedisStops, RedisStarts
  <2> QED
    BY <2>1 DEF Recorded, Decided
<1> QED
  BY <1>1, <1>2, <1>3, <1>6, <1>7 DEF Next

\* The window in memory slides (memoryLimiter.Allow): the requests of an address that
\* read the clock within the last window are all recorded, and of those recorded at
\* most Limit were allowed - whatever waited for the lock.
THEOREM WindowSlides == Spec => []SlidingWindow
<1>1. TypeOK /\ Recorded => SlidingWindow
  <2> SUFFICES ASSUME TypeOK, Recorded, mode = "memory", NEW k \in Address
               PROVE  Cardinality(Granted(k)) <= Limit
    BY DEF SlidingWindow
  <2> DEFINE A == {q \in recent[k] : pc[q] = "allowed"}
  <2>1. A \in SUBSET Request /\ Cardinality(A) <= Limit
    BY DEF TypeOK, Recorded
  <2>2. Granted(k) \in SUBSET A
    BY DEF Granted, Recorded, Decided
  <2>3. Limit \in Nat
    BY LimiterAssumption
  <2> HIDE DEF A
  <2> QED
    BY <2>1, <2>2, <2>3, PartOf
<1>2. Init => TypeOK /\ Recorded
  BY InitType, InitRecorded
<1>3. TypeOK /\ Recorded /\ [Next]_vars => (TypeOK /\ Recorded)'
  BY NextType, NextRecorded
<1> QED
  BY <1>1, <1>2, <1>3, PTL DEF Spec

-----------------------------------------------------------------------------

\* A decision is final: neither the verdict nor what was read from the clock changes.
LEMMA DecisionsStand ==
  ASSUME TypeOK, [Next]_vars, NEW q \in Request, Decided(q)
  PROVE  pc'[q] = pc[q] /\ stamp'[q] = stamp[q] /\ address' = address
<1> USE DEF window, redis, server, Decided
<1>0. pc \in [Request -> Progress] /\ stamp \in [Request -> Nat]
  BY DEF TypeOK
<1>1. CASE UNCHANGED vars \/ Tick \/ RedisStops \/ RedisStarts
  BY <1>1 DEF vars, Tick, RedisStops, RedisStarts
<1>2. ASSUME NEW r \in Request, Arrive(r) \/ Handle(r)
      PROVE  pc'[q] = pc[q] /\ stamp'[q] = stamp[q] /\ address' = address
  <2>1. /\ pc[r] \notin {"allowed", "refused"}
        /\ \E l : pc' = [pc EXCEPT ![r] = l]
        /\ stamp' = stamp \/ stamp' = [stamp EXCEPT ![r] = clock]
        /\ address' = address
    BY <1>2 DEF Arrive, Handle, AllowMemory, AcquirePooled, Dial, DialFails, NoPooled, WritePipeline,
                WriteFails, Invalidate, ReadFails, Release, Goto
  <2> QED
    BY <2>1, <1>0
<1> QED
  BY <1>1, <1>2 DEF Next

\* Requests that were decided with a reading in r's window or after it.
Counted(r) == {q \in Request : /\ address[q] = address[r] /\ Decided(q)
                               /\ stamp[q] > stamp[r] - Window}

LEMMA NextRefused == TypeOK /\ Recorded /\ RefusedForCause /\ [Next]_vars => RefusedForCause'
<1> SUFFICES ASSUME TypeOK, Recorded, RefusedForCause, [Next]_vars,
                    NEW r \in Request, pc'[r] = "refused"
             PROVE  Cardinality(Counted(r)') > Limit
  BY DEF RefusedForCause, Counted
<1>0. Limit \in Nat /\ stamp \in [Request -> Nat] /\ pc \in [Request -> Progress] /\ Window \in Nat
  BY LimiterAssumption DEF TypeOK
<1>1. CASE pc[r] = "refused"
  <2>1. Counted(r) \in SUBSET Counted(r)' /\ Counted(r)' \in SUBSET Request
    BY <1>1, DecisionsStand DEF Counted, Decided
  <2>2. Cardinality(Counted(r)) > Limit
    BY <1>1 DEF RefusedForCause, Counted
  <2> QED
    BY <2>1, <2>2, <1>0, PartOf
<1>2. CASE pc[r] # "refused"
  <2>1. AllowMemory(r)
    BY <1>2, <1>0 DEF Next, vars, Tick, RedisStops, RedisStarts, Arrive, Handle, AllowMemory,
       AcquirePooled, Dial, DialFails, NoPooled, WritePipeline, WriteFails, Invalidate, ReadFails,
       Release, Goto
  <2>2. ~(Cardinality(Kept(r) \cup {r}) <= Limit)
    BY <2>1, <1>0, <1>2 DEF AllowMemory, Goto
  <2>3. Kept(r) \cup {r} \in SUBSET Counted(r)' /\ Counted(r)' \in SUBSET Request
    <3>1. \A q \in Kept(r) : q \in Request /\ address[q] = address[r] /\ Decided(q) /\ stamp[r] - stamp[q] < Window
      BY <2>1 DEF Kept, Recorded, AllowMemory, TypeOK
    <3>2. \A q \in Kept(r) : pc'[q] \in {"allowed", "refused"}
      BY <3>1, DecisionsStand DEF Decided
    <3>3. UNCHANGED <<address, stamp>>
      BY <2>1 DEF AllowMemory
    <3>4. \A q \in Kept(r) : q \in Counted(r)'
      BY <3>1, <3>2, <3>3, <1>0 DEF Counted, Decided
    <3>5. r \in Counted(r)'
      BY <3>3, <1>0, LimiterAssumption DEF Counted, Decided
    <3> QED
      BY <3>4, <3>5 DEF Counted
  <2> QED
    BY <2>2, <2>3, <1>0, PartOf
<1> QED
  BY <1>1, <1>2

\* A refusal has a cause that stays: more than Limit decided requests of the address
\* read the clock in its window or later (memoryLimiter.Allow).
THEOREM RefusalsCaused == Spec => []RefusedForCause
<1>1. Init => TypeOK /\ Recorded /\ RefusedForCause
  <2>1. Init => RefusedForCause
    BY DEF Init, RefusedForCause
  <2> QED
    BY <2>1, InitType, InitRecorded
<1>2. TypeOK /\ Recorded /\ RefusedForCause /\ [Next]_vars => (TypeOK /\ Recorded /\ RefusedForCause)'
  BY NextType, NextRecorded, NextRefused
<1> QED
  BY <1>1, <1>2, PTL DEF Spec

-----------------------------------------------------------------------------

\* ConnectionsAccountedFor with what makes it inductive: who holds a connection, and
\* that one which was never dialled is nowhere.
Places ==
  /\ \A r \in Request : conn[r] # Nil => pc[r] \in {"writing", "reading", "invalidating", "releasing"}
  /\ \A r \in Request : pc[r] \in {"writing", "reading", "invalidating", "releasing"} => conn[r] # Nil
  /\ \A r \in Request : pc[r] \in {"new", "arrived"} => link[r] = "unused"
  /\ \A c \in Request : link[c] = "unused" =>
       /\ \A r \in Request : conn[r] # c
       /\ \A i \in 1..Len(pool) : pool[i] # c
  /\ \A q, r \in Request : (conn[q] # Nil /\ conn[q] = conn[r]) => q = r
  /\ \A i, j \in 1..Len(pool) : (pool[i] # Nil /\ pool[i] = pool[j]) => i = j
  /\ \A r \in Request : \A i \in 1..Len(pool) : conn[r] # Nil => pool[i] # conn[r]
  /\ \A c \in Request : link[c] \in {"open", "ended"} =>
       (\E r \in Request : conn[r] = c) \/ (\E i \in 1..Len(pool) : pool[i] = c)

LEMMA PlacesAccount == TypeOK /\ Places => ConnectionsAccountedFor
<1> SUFFICES ASSUME TypeOK, Places PROVE ConnectionsAccountedFor
  OBVIOUS
<1>1. DOMAIN pool = 1..Len(pool) /\ Nil \notin Request /\ Conn = Request
  BY LimiterAssumption DEF TypeOK, Conn
<1>2. Held \cap Pooled = {}
  BY <1>1 DEF Held, Pooled, Places
<1>3. \A c \in Conn : link[c] \in {"open", "ended"} => c \in Held \cup Pooled
  BY <1>1 DEF Held, Pooled, Places
<1> QED
  BY <1>1, <1>2, <1>3 DEF Places, ConnectionsAccountedFor

LEMMA NextPlaces == TypeOK /\ Places /\ [Next]_vars => Places'
<1> SUFFICES ASSUME TypeOK, Places, [Next]_vars PROVE Places'
  OBVIOUS
<1> USE DEF window, redis, server, Goto
<1>0. /\ pc \in [Request -> Progress] /\ conn \in [Request -> Request \cup {Nil}]
      /\ link \in [Request -> {"unused", "open", "ended", "shut"}]
      /\ Len(pool) \in Nat /\ Nil \notin Request
      /\ \A i \in 1..Len(pool) : pool[i] \in Request \cup {Nil}
  BY LimiterAssumption DEF TypeOK, Conn
<1>1. CASE UNCHANGED vars \/ Tick \/ RedisStarts
  BY <1>1 DEF vars, Tick, RedisStarts, Places
<1>2. CASE RedisStops
  <2>1. UNCHANGED <<pc, conn, pool>>
    BY <1>2 DEF RedisStops
  <2>2. \A c \in Request : /\ link'[c] = "unused" <=> link[c] = "unused"
                           /\ link'[c] \in {"open", "ended"} <=> link[c] \in {"open", "ended"}
    BY <1>2, <1>0 DEF RedisStops, Conn
  <2> QED
    BY <2>1, <2>2 DEF Places
<1>3. ASSUME NEW r \in Request, Arrive(r) PROVE Places'
  BY <1>3, <1>0 DEF Arrive, Places
<1>4. ASSUME NEW r \in Request, AllowMemory(r) PROVE Places'
  BY <1>4, <1>0 DEF AllowMemory, Places
<1>5. ASSUME NEW r \in Request, WritePipeline(r) \/ WriteFails(r) \/ ReadFails(r) PROVE Places'
  <2>1. /\ \E l \in {"reading", "invalidating", "releasing"} : pc' = [pc EXCEPT ![r] = l]
        /\ UNCHANGED <<conn, pool>>
        /\ pc[r] \in {"writing", "reading"}
    BY <1>5 DEF WritePipeline, WriteFails, ReadFails
  <2>2. /\ link' = link \/ link' = [link EXCEPT ![conn[r]] = "ended"]
                       \/ link' = [link EXCEPT ![conn[r]] = "shut"]
        /\ conn[r] \in Request
    BY <1>5, <2>1, <1>0 DEF WritePipeline, WriteFails, ReadFails, Places
  <2>3. \A c \in Request : /\ link'[c] = "unused" => link[c] = "unused"
                           /\ link[c] = "unused" => link'[c] = "unused"
                           /\ link'[c] \in {"open", "ended"} => link[c] \in {"open", "ended"} \/ c = conn[r]
    BY <2>2, <1>0 DEF Places
  <2> QED
    BY <2>1, <2>2, <2>3, <1>0 DEF Places
<1>6. ASSUME NEW r \in Request, AcquirePooled(r) PROVE Places'
  <2>1. /\ pc[r] = "arrived" /\ pool # <<>> /\ Head(pool) # Nil
        /\ conn' = [conn EXCEPT ![r] = Head(pool)] /\ pool' = Tail(pool)
        /\ pc' = [pc EXCEPT ![r] = "writing"] /\ link' = link
    BY <1>6 DEF AcquirePooled
  <2>2. /\ Head(pool) = pool[1] /\ Len(pool') = Len(pool) - 1 /\ 1 \in 1..Len(pool)
        /\ \A i \in 1..Len(pool') : pool'[i] = pool[i + 1] /\ i + 1 \in 1..Len(pool) /\ i + 1 # 1
    BY <2>1, <1>0, PoolReceive
  <2>3. conn'[r] = pool[1] /\ \A q \in Request : q # r => conn'[q] = conn[q]
    BY <2>1, <2>2, <1>0
  <2>4. conn[r] = Nil /\ pool[1] \in Request
    BY <2>1, <2>2, <1>0 DEF Places
  <2>5. \A i, j \in 1..Len(pool') : (pool'[i] # Nil /\ pool'[i] = pool'[j]) => i = j
    <3> TAKE i \in 1..Len(pool'), j \in 1..Len(pool')
    <3> HAVE pool'[i] # Nil /\ pool'[i] = pool'[j]
    <3>1. i + 1 = j + 1
      BY <2>2 DEF Places
    <3> QED
      BY <3>1, <1>0
  <2>6. \A c \in Request : link[c] \in {"open", "ended"} =>
          (\E q \in Request : conn'[q] = c) \/ (\E i \in 1..Len(pool') : pool'[i] = c)
    <3> SUFFICES ASSUME NEW c \in Request, link[c] \in {"open", "ended"}
                 PROVE  (\E q \in Request : conn'[q] = c) \/ (\E i \in 1..Len(pool') : pool'[i] = c)
      OBVIOUS
    <3>1. CASE \E q \in Request : conn[q] = c
      BY <3>1, <2>3, <2>4, <1>0
    <3>2. CASE \E i \in 1..Len(pool) : pool[i] = c
      <4>1. PICK i \in 1..Len(pool) : pool[i] = c
        BY <3>2
      <4>2. CASE i = 1
        BY <4>1, <4>2, <2>3
      <4>3. CASE i # 1
        <5>1. i - 1 \in 1..Len(pool') /\ (i - 1) + 1 = i
          BY <4>3, <2>2, <1>0
        <5>2. pool'[i - 1] = c
          BY <5>1, <4>1, <2>2
        <5> QED
          BY <5>1, <5>2
      <4> QED
        BY <4>2, <4>3
    <3> QED
      BY <3>1, <3>2 DEF Places
  <2>7. \A c \in Request : link[c] = "unused" =>
          (\A q \in Request : conn'[q] # c) /\ (\A i \in 1..Len(pool') : pool'[i] # c)
    BY <2>2, <2>3 DEF Places
  <2>8. \A q \in Request : \A i \in 1..Len(pool') : conn'[q] # Nil => pool'[i] # conn'[q]
    BY <2>2, <2>3, <2>4, <1>0 DEF Places
  <2>9. \A p, q \in Request : (conn'[p] # Nil /\ conn'[p] = conn'[q]) => p = q
    BY <2>2, <2>3, <2>4, <1>0 DEF Places
  <2>10. /\ \A q \in Request : conn'[q] # Nil => pc'[q] \in {"writing", "reading", "invalidating", "releasing"}
         /\ \A q \in Request : pc'[q] \in {"writing", "reading", "invalidating", "releasing"} => conn'[q] # Nil
         /\ \A q \in Request : pc'[q] \in {"new", "arrived"} => link'[q] = "unused"
    BY <2>1, <2>3, <2>4, <1>0 DEF Places
  <2> QED
    BY <2>1, <2>5, <2>6, <2>7, <2>8, <2>9, <2>10 DEF Places
<1>7. ASSUME NEW r \in Request, NoPooled(r)
      PROVE  /\ \A i \in 1..Len(pool') : \E j \in 1..Len(pool) : pool'[i] = pool[j]
             /\ \A i, j \in 1..Len(pool') : (pool'[i] # Nil /\ pool'[i] = pool'[j]) => i = j
             /\ \A c \in Request : (\E i \in 1..Len(pool) : pool[i] = c) =>
                                    (\E i \in 1..Len(pool') : pool'[i] = c)
             /\ Len(pool') \in Nat
  <2>1. CASE pool' = pool
    BY <2>1, <1>0 DEF Places
  <2>2. CASE pool # <<>> /\ Head(pool) = Nil /\ pool' = Tail(pool)
    <3>1. /\ pool[1] = Nil /\ Len(pool') = Len(pool) - 1 /\ Len(pool') \in Nat
          /\ \A i \in 1..Len(pool') : pool'[i] = pool[i + 1] /\ i + 1 \in 1..Len(pool)
      BY <2>2, <1>0, PoolReceive
    <3>2. \A i, j \in 1..Len(pool') : (pool'[i] # Nil /\ pool'[i] = pool'[j]) => i = j
      <4> TAKE i \in 1..Len(pool'), j \in 1..Len(pool')
      <4> HAVE pool'[i] # Nil /\ pool'[i] = pool'[j]
      <4>1. i + 1 = j + 1
        BY <3>1 DEF Places
      <4> QED
        BY <4>1, <1>0
    <3>3. \A c \in Request : (\E i \in 1..Len(pool) : pool[i] = c) => (\E i \in 1..Len(pool') : pool'[i] = c)
      <4> SUFFICES ASSUME NEW c \in Request, NEW i \in 1..Len(pool), pool[i] = c
                   PROVE  \E j \in 1..Len(pool') : pool'[j] = c
        OBVIOUS
      <4>1. i # 1
        BY <3>1, <1>0
      <4>2. i - 1 \in 1..Len(pool') /\ (i - 1) + 1 = i
        BY <4>1, <3>1, <1>0
      <4>3. pool'[i - 1] = c
        BY <4>2, <3>1
      <4> QED
        BY <4>2, <4>3
    <3>4. \A i \in 1..Len(pool') : \E j \in 1..Len(pool) : pool'[i] = pool[j]
      BY <3>1
    <3> QED
      BY <3>1, <3>2, <3>3, <3>4
  <2> QED
    BY <1>7, <2>1, <2>2 DEF NoPooled
<1>8. ASSUME NEW r \in Request, Dial(r) PROVE Places'
  <2>1. /\ pc[r] = "arrived" /\ NoPooled(r)
        /\ conn' = [conn EXCEPT ![r] = r] /\ link' = [link EXCEPT ![r] = "open"]
        /\ pc' = [pc EXCEPT ![r] = "writing"]
    BY <1>8 DEF Dial, NoPooled
  <2>2. /\ link[r] = "unused" /\ conn[r] = Nil
        /\ \A q \in Request : conn[q] # r
        /\ \A i \in 1..Len(pool) : pool[i] # r
    BY <2>1, <1>0 DEF Places
  <2>3. conn'[r] = r /\ \A q \in Request : q # r => conn'[q] = conn[q] /\ link'[q] = link[q] /\ pc'[q] = pc[q]
    BY <2>1, <1>0
  <2>4. \A i \in 1..Len(pool') : pool'[i] # r
    BY <2>1, <2>2, <1>7
  <2>5. \A c \in Request : link'[c] \in {"open", "ended"} =>
          (\E q \in Request : conn'[q] = c) \/ (\E i \in 1..Len(pool') : pool'[i] = c)
    BY <2>1, <2>2, <2>3, <1>7, <1>0 DEF Places
  <2>6. \A c \in Request : link'[c] = "unused" =>
          (\A q \in Request : conn'[q] # c) /\ (\A i \in 1..Len(pool') : pool'[i] # c)
    BY <2>1, <2>3, <1>7, <1>0 DEF Places
  <2>7. \A q \in Request : \A i \in 1..Len(pool') : conn'[q] # Nil => pool'[i] # conn'[q]
    BY <2>1, <2>3, <2>4, <1>7 DEF Places
  <2>8. /\ \A p, q \in Request : (conn'[p] # Nil /\ conn'[p] = conn'[q]) => p = q
        /\ \A i, j \in 1..Len(pool') : (pool'[i] # Nil /\ pool'[i] = pool'[j]) => i = j
    BY <2>1, <2>2, <2>3, <1>7 DEF Places
  <2>9. /\ \A q \in Request : conn'[q] # Nil => pc'[q] \in {"writing", "reading", "invalidating", "releasing"}
        /\ \A q \in Request : pc'[q] \in {"writing", "reading", "invalidating", "releasing"} => conn'[q] # Nil
        /\ \A q \in Request : pc'[q] \in {"new", "arrived"} => link'[q] = "unused"
    BY <2>1, <2>3, <1>0 DEF Places
  <2> QED
    BY <2>5, <2>6, <2>7, <2>8, <2>9 DEF Places
<1>9. ASSUME NEW r \in Request, DialFails(r) PROVE Places'
  <2>1. /\ pc[r] = "arrived" /\ NoPooled(r) /\ UNCHANGED <<conn, link>>
        /\ pc' = [pc EXCEPT ![r] = "allowed"]
    BY <1>9 DEF DialFails, NoPooled
  <2>2. /\ \A i \in 1..Len(pool') : \E j \in 1..Len(pool) : pool'[i] = pool[j]
        /\ \A i, j \in 1..Len(pool') : (pool'[i] # Nil /\ pool'[i] = pool'[j]) => i = j
        /\ \A c \in Request : (\E i \in 1..Len(pool) : pool[i] = c) =>
                               (\E i \in 1..Len(pool') : pool'[i] = c)
    BY <2>1, <1>7
  <2> QED
    BY <2>1, <2>2, <1>0 DEF Places
<1>10. ASSUME NEW r \in Request, Invalidate(r) PROVE Places'
  <2>1. /\ pc[r] = "invalidating" /\ Len(pool) < Capacity /\ pool' = Append(pool, Nil)
        /\ pc' = [pc EXCEPT ![r] = "releasing"] /\ UNCHANGED <<conn, link>>
    BY <1>10 DEF Invalidate
  <2>2. /\ Len(pool') = Len(pool) + 1 /\ pool'[Len(pool) + 1] = Nil
        /\ \A i \in 1..Len(pool) : pool'[i] = pool[i]
    BY <2>1, PoolSend
  <2>3. \A i \in 1..Len(pool') : i \in 1..Len(pool) \/ i = Len(pool) + 1
    BY <2>2, <1>0
  <2>4. \A i \in 1..Len(pool) : i \in 1..Len(pool')
    BY <2>2, <1>0
  <2> QED
    BY <2>1, <2>2, <2>3, <2>4, <1>0 DEF Places
<1>11. ASSUME NEW r \in Request, Release(r) PROVE Places'
  <2>1. /\ pc[r] = "releasing" /\ conn' = [conn EXCEPT ![r] = Nil]
        /\ pc' = [pc EXCEPT ![r] = "allowed"]
        /\ conn[r] \in Request
    BY <1>11, <1>0 DEF Release, Places
  <2>2. conn'[r] = Nil /\ \A q \in Request : q # r => conn'[q] = conn[q] /\ conn[q] # conn[r]
    BY <2>1, <1>0 DEF Places
  <2>3. CASE Len(pool) < Capacity /\ pool' = Append(pool, conn[r]) /\ link' = link
    <3>1. /\ Len(pool') = Len(pool) + 1 /\ pool'[Len(pool) + 1] = conn[r]
          /\ \A i \in 1..Len(pool) : pool'[i] = pool[i]
      BY <2>1, <2>3, PoolSend DEF Conn
    <3>2. /\ \A i \in 1..Len(pool') : i \in 1..Len(pool) \/ i = Len(pool) + 1
          /\ \A i \in 1..Len(pool) : i \in 1..Len(pool')
          /\ Len(pool) + 1 \in 1..Len(pool')
      BY <3>1, <1>0
    <3>3. \A i \in 1..Len(pool) : pool[i] # conn[r]
      BY <2>1, <1>0 DEF Places
    <3>4. \A c \in Request : link'[c] \in {"open", "ended"} =>
            (\E q \in Request : conn'[q] = c) \/ (\E i \in 1..Len(pool') : pool'[i] = c)
      BY <2>1, <2>2, <2>3, <3>1, <3>2 DEF Places
    <3>5. \A i, j \in 1..Len(pool') : (pool'[i] # Nil /\ pool'[i] = pool'[j]) => i = j
      BY <3>1, <3>2, <3>3 DEF Places
    <3>6. \A q \in Request : \A i \in 1..Len(pool') : conn'[q] # Nil => pool'[i] # conn'[q]
      BY <2>2, <3>1, <3>2 DEF Places
    <3>7. \A c \in Request : link'[c] = "unused" =>
            (\A q \in Request : conn'[q] # c) /\ (\A i \in 1..Len(pool') : pool'[i] # c)
      BY <2>2, <2>3, <3>1, <3>2, <1>0 DEF Places
    <3> QED
      BY <2>1, <2>2, <2>3, <3>4, <3>5, <3>6, <3>7, <1>0 DEF Places
  <2>4. CASE pool' = pool /\ link' = [link EXCEPT ![conn[r]] = "shut"]
    <3>1. \A c \in Request : c # conn[r] => link'[c] = link[c]
      BY <2>4, <1>0
    <3>2. link'[conn[r]] = "shut" /\ link[conn[r]] # "unused"
      BY <2>4, <2>1, <1>0 DEF Places
    <3>3. \A q \in Request : pc'[q] \in {"new", "arrived"} => link'[q] = "unused"
      BY <2>1, <3>1, <3>2, <1>0 DEF Places
    <3> QED
      BY <2>1, <2>2, <2>4, <3>1, <3>2, <3>3, <1>0 DEF Places
  <2> QED
    BY <1>11, <2>3, <2>4 DEF Release
<1> QED
  BY <1>1, <1>2, <1>3, <1>4, <1>5, <1>6, <1>8, <1>9, <1>10, <1>11 DEF Next, Handle

\* Whatever fails, a connection has one place (redisLimiter.acquire, release and the
\* write-error path): it is held by one request or in the pool once, and one that was
\* not closed is not forgotten.
THEOREM ConnectionsKept == Spec => []ConnectionsAccountedFor
<1>1. Init => TypeOK /\ Places
  <2>1. Init => Places
    BY LimiterAssumption DEF Init, Places, Conn
  <2> QED
    BY <2>1, InitType
<1>2. TypeOK /\ Places /\ [Next]_vars => (TypeOK /\ Places)'
  BY NextType, NextPlaces
<1>3. TypeOK /\ Places => ConnectionsAccountedFor
  BY PlacesAccount
<1> QED
  BY <1>1, <1>2, <1>3, PTL DEF Spec
=============================================================================
