---------------------------- MODULE RateLimiter -----------------------------
(***************************************************************************)
(* The rate limiter of one gateway replica.  newRateLimiter chooses, once, *)
(* between a sliding window in memory (no REDIS_URL, or Redis not          *)
(* reachable at the start) and one that asks Redis over raw TCP.           *)
(*                                                                         *)
(* In memory: a request reads the clock, takes the lock, drops what is     *)
(* older than its own reading, records itself and is allowed while no more *)
(* than Limit are recorded - refused requests count too.                   *)
(*                                                                         *)
(* Redis: a request takes a connection from a pool (a channel of Capacity  *)
(* slots) or dials one, writes four commands at once and reads their       *)
(* replies; every error lets it pass.  The first command word is announced *)
(* as $17 and has 16 bytes, so Redis takes the byte after it as part of    *)
(* the word, finds no '$' where the next one should be, answers            *)
(* "-ERR Protocol error" and closes the connection: no pipeline is ever    *)
(* executed, which is why this module has no sorted sets.                  *)
(***************************************************************************)
EXTENDS Integers, FiniteSets, Sequences

CONSTANTS Request,    (* requests on rate-limited routes; each may dial one connection *)
          Address,    (* the RemoteAddr of a request: address and port                 *)
          Limit,      (* RATE_LIMIT_PER_MIN                                            *)
          Window,     (* its window, in ticks of the clock                             *)
          Capacity,   (* slots of the pool (16 in the code)                            *)
          MaxClock,   (* bound: ticks                                                  *)
          MaxOutages, (* bound: times Redis stops                                      *)
          Nil         (* the nil connection                                            *)

ASSUME LimiterAssumption ==
  /\ IsFiniteSet(Request)
  /\ Limit \in Nat
  /\ Window \in Nat \ {0}
  /\ Capacity \in Nat \ {0}
  /\ Nil \notin Request

\* A connection is named after the request that dialled it.
Conn == Request

VARIABLES
  mode,     (* "memory" or "redis", fixed by newRateLimiter               *)
  clock,    (* the monotonic clock time.Now() reads                       *)
  pc,       (* each request's progress                                    *)
  address,  (* its RemoteAddr, the key of its window                      *)
  stamp,    (* what it read from the clock                                *)
  recent,   (* memoryLimiter.requests: those recorded under each key      *)
  conn,     (* the connection a request has acquired                      *)
  pool,     (* redisLimiter.pool                                          *)
  link,     (* each connection: "unused", "open", "ended" (by Redis) or   *)
            (* "shut" (by the gateway)                                    *)
  up,       (* does Redis answer?                                         *)
  outages   (* times it stopped                                           *)

window == <<recent>>
redis  == <<conn, pool, link>>
server == <<up, outages>>
vars   == <<mode, clock, pc, address, stamp, window, redis, server>>

Init ==
  /\ mode \in {"memory", "redis"}
  /\ clock = 0
  /\ pc = [r \in Request |-> "new"]
  /\ address \in [Request -> Address]
  /\ stamp = [r \in Request |-> 0]
  /\ recent = [k \in Address |-> {}]
  /\ conn = [r \in Request |-> Nil]
  /\ pool = <<>>
  /\ link = [c \in Conn |-> "unused"]
  /\ up = TRUE
  /\ outages = 0

Tick ==
  /\ clock < MaxClock
  /\ clock' = clock + 1
  /\ UNCHANGED <<mode, pc, address, stamp, window, redis, server>>

Goto(r, l) == pc' = [pc EXCEPT ![r] = l]

\* rateLimitMiddleware calls Allow; the memory limiter reads the clock before it locks.
Arrive(r) ==
  /\ pc[r] = "new"
  /\ Goto(r, "arrived")
  /\ stamp' = [stamp EXCEPT ![r] = clock]
  /\ UNCHANGED <<mode, clock, address, window, redis, server>>

-----------------------------------------------------------------------------
(* The window in memory.                                                     *)

\* Old entries are never dropped.
Kept_Mutant(r) == recent[address[r]]

\* Those recorded under r's address that its own reading of the clock keeps.
Kept(r) == {q \in recent[address[r]] : stamp[r] - stamp[q] < Window}

(* Definitions named ..._Mutant stand for a plausible bug in the definition    *)
(* that follows them; no behaviour of the specification uses them.             *)

\* The limit is compared before the request itself is recorded.
AllowMemory_Mutant(r) ==
  /\ mode = "memory"
  /\ pc[r] = "arrived"
  /\ recent' = [recent EXCEPT ![address[r]] = Kept(r) \cup {r}]
  /\ Goto(r, IF Cardinality(Kept(r)) <= Limit THEN "allowed" ELSE "refused")
  /\ UNCHANGED <<mode, clock, address, stamp, redis, server>>

\* memoryLimiter.Allow, from the lock to its release.
AllowMemory(r) ==
  /\ mode = "memory"
  /\ pc[r] = "arrived"
  /\ recent' = [recent EXCEPT ![address[r]] = Kept(r) \cup {r}]
  /\ Goto(r, IF Cardinality(Kept(r) \cup {r}) <= Limit THEN "allowed" ELSE "refused")
  /\ UNCHANGED <<mode, clock, address, stamp, redis, server>>

-----------------------------------------------------------------------------
(* The connections to Redis.                                                 *)

\* A pooled connection, unless the pool is empty or its first entry is nil.
AcquirePooled(r) ==
  /\ mode = "redis"
  /\ pc[r] = "arrived"
  /\ pool # <<>> /\ Head(pool) # Nil
  /\ conn' = [conn EXCEPT ![r] = Head(pool)]
  /\ pool' = Tail(pool)
  /\ stamp' = [stamp EXCEPT ![r] = clock]
  /\ Goto(r, "writing")
  /\ UNCHANGED <<mode, clock, address, window, link, server>>

\* Otherwise a nil entry is consumed and Redis is dialled.
NoPooled(r) ==
  /\ mode = "redis"
  /\ pc[r] = "arrived"
  /\ \/ pool = <<>> /\ UNCHANGED pool
     \/ pool # <<>> /\ Head(pool) = Nil /\ pool' = Tail(pool)

Dial(r) ==
  /\ NoPooled(r)
  /\ up
  /\ conn' = [conn EXCEPT ![r] = r]
  /\ link' = [link EXCEPT ![r] = "open"]
  /\ stamp' = [stamp EXCEPT ![r] = clock]
  /\ Goto(r, "writing")
  /\ UNCHANGED <<mode, clock, address, window, server>>

\* It fails: the limiter fails open.
DialFails(r) ==
  /\ NoPooled(r)
  /\ ~up
  /\ Goto(r, "allowed")
  /\ UNCHANGED <<mode, clock, address, stamp, window, conn, link, server>>

\* The pipeline is written: Redis refuses it and closes.  A connection Redis has closed
\* may take the bytes once more; one the gateway has closed never does.
WritePipeline(r) ==
  /\ pc[r] = "writing"
  /\ link[conn[r]] # "shut"
  /\ link' = [link EXCEPT ![conn[r]] = "ended"]
  /\ Goto(r, "reading")
  /\ UNCHANGED <<mode, clock, address, stamp, window, conn, pool, server>>

\* A write error closes the connection.
WriteFails(r) ==
  /\ pc[r] = "writing"
  /\ link[conn[r]] # "open"
  /\ link' = [link EXCEPT ![conn[r]] = "shut"]
  /\ Goto(r, "invalidating")
  /\ UNCHANGED <<mode, clock, address, stamp, window, conn, pool, server>>

\* The closed connection is put back in place of the nil that is to replace it.
Invalidate_Mutant(r) ==
  /\ pc[r] = "invalidating"
  /\ Len(pool) < Capacity
  /\ pool' = Append(pool, conn[r])
  /\ Goto(r, "releasing")
  /\ UNCHANGED <<mode, clock, address, stamp, window, conn, link, server>>

\* r.pool <- nil, which waits for a free slot ...
Invalidate(r) ==
  /\ pc[r] = "invalidating"
  /\ Len(pool) < Capacity
  /\ pool' = Append(pool, Nil)
  /\ Goto(r, "releasing")
  /\ UNCHANGED <<mode, clock, address, stamp, window, conn, link, server>>

\* readRESP: a connection on which Redis has refused the pipeline has "-ERR ..." to read, and
\* then its end.
readRESP(c) == IF link[c] = "ended" THEN "error" ELSE "value"

\* The request remembers its connection and reads once more.
ReadFails_Mutant(r) ==
  /\ pc[r] = "reading"
  /\ Goto(r, "retrying")
  /\ UNCHANGED <<mode, clock, address, stamp, window, redis, server>>

\* The first reply is an error: slidingWindow returns it and leaves the other replies unread.
ReadFails(r) ==
  /\ pc[r] = "reading"
  /\ readRESP(conn[r]) = "error"
  /\ Goto(r, "releasing")
  /\ UNCHANGED <<mode, clock, address, stamp, window, redis, server>>

\* ... and, after either error, the deferred release: the connection goes back to the
\* pool as it is, or is closed when the pool is full.  The request passes.
Release(r) ==
  /\ pc[r] = "releasing"
  /\ \/ /\ Len(pool) < Capacity
        /\ pool' = Append(pool, conn[r])
        /\ UNCHANGED link
     \/ /\ Len(pool) = Capacity
        /\ link' = [link EXCEPT ![conn[r]] = "shut"]
        /\ UNCHANGED pool
  /\ conn' = [conn EXCEPT ![r] = Nil]
  /\ Goto(r, "allowed")
  /\ UNCHANGED <<mode, clock, address, stamp, window, server>>

\* Redis stops, and its connections end; and starts again.
RedisStops ==
  /\ up
  /\ outages < MaxOutages
  /\ up' = FALSE
  /\ outages' = outages + 1
  /\ link' = [c \in Conn |-> IF link[c] = "open" THEN "ended" ELSE link[c]]
  /\ UNCHANGED <<mode, clock, pc, address, stamp, window, conn, pool>>

RedisStarts ==
  /\ ~up
  /\ up' = TRUE
  /\ UNCHANGED <<mode, clock, pc, address, stamp, window, redis, outages>>

-----------------------------------------------------------------------------

Handle(r) ==
  \/ AllowMemory(r)
  \/ AcquirePooled(r) \/ Dial(r) \/ DialFails(r)
  \/ WritePipeline(r) \/ WriteFails(r) \/ Invalidate(r) \/ ReadFails(r) \/ Release(r)

Next ==
  \/ Tick
  \/ \E r \in Request : Arrive(r) \/ Handle(r)
  \/ RedisStops \/ RedisStarts

Spec == Init /\ [][Next]_vars

-----------------------------------------------------------------------------

Progress == {"new", "arrived", "writing", "reading", "invalidating", "releasing",
             "allowed", "refused"}

TypeOK ==
  /\ mode \in {"memory", "redis"}
  /\ clock \in Nat
  /\ pc \in [Request -> Progress]
  /\ address \in [Request -> Address]
  /\ stamp \in [Request -> Nat]
  /\ recent \in [Address -> SUBSET Request]
  /\ conn \in [Request -> Conn \cup {Nil}]
  /\ pool \in Seq(Conn \cup {Nil}) /\ Len(pool) <= Capacity
  /\ link \in [Conn -> {"unused", "open", "ended", "shut"}]
  /\ up \in BOOLEAN
  /\ outages \in Nat

Decided(r) == pc[r] \in {"allowed", "refused"}

\* The requests from k, allowed by now, that read the clock within the last window.
Granted(k) == {r \in Request : address[r] = k /\ pc[r] = "allowed" /\ stamp[r] > clock - Window}

\* The window in memory slides: at any time, at most Limit of the requests of one
\* address that read the clock within the last window have been allowed.  It is not
\* obvious, because a request may wait for the lock with an old reading of the clock
\* while one with a newer reading prunes for it.
SlidingWindow ==
  mode = "memory" => \A k \in Address : Cardinality(Granted(k)) <= Limit

\* A request is refused only when more than Limit requests of its address (itself and
\* refused ones included) fall into its window or follow it: old ones never count.
RefusedForCause ==
  \A r \in Request : pc[r] = "refused" =>
    Cardinality({q \in Request : /\ address[q] = address[r] /\ Decided(q)
                                 /\ stamp[q] > stamp[r] - Window}) > Limit

Held   == {conn[r] : r \in Request} \ {Nil}
Pooled == {pool[i] : i \in DOMAIN pool} \ {Nil}

\* A connection has one place: no two requests hold it, none holds one that is in the
\* pool, it is not in the pool twice, and one that was not closed is not forgotten.
ConnectionsAccountedFor ==
  /\ \A q, r \in Request : (conn[q] # Nil /\ conn[q] = conn[r]) => q = r
  /\ \A i, j \in DOMAIN pool : (pool[i] # Nil /\ pool[i] = pool[j]) => i = j
  /\ Held \cap Pooled = {}
  /\ \A c \in Conn : link[c] \in {"open", "ended"} => c \in Held \cup Pooled

\* architecture.md: each replica shares state via Redis, so the limit is consistent.
\* With Redis up all the time, it holds as it does in memory.
RedisLimits ==
  (mode = "redis" /\ outages = 0) => \A k \in Address : Cardinality(Granted(k)) <= Limit
=============================================================================
