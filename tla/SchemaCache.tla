---------------------------- MODULE SchemaCache -----------------------------
(***************************************************************************)
(* The metadata schema of one resource type, from identity's table to the  *)
(* create handlers of one replica of a domain service.  Two caches are     *)
(* stacked: fetchSchema keeps the document identity answered, and          *)
(* validate.Cache keeps a compiled schema under the resource type.  Each   *)
(* entry lives for TTL from its own storing, both are read and written     *)
(* without a lock across the whole, and a compiled entry that is alive is  *)
(* used whatever document was just fetched.                                *)
(*                                                                         *)
(* A document is known by the number of the PutSchema that registered it;  *)
(* 0 stands for "no schema registered" (404).  A document may be valid     *)
(* JSON and no valid JSON Schema: PutSchema takes it, compiling it fails,  *)
(* and the handlers then create their rows without validation, as they do  *)
(* when identity cannot be asked.                                          *)
(***************************************************************************)
EXTENDS Integers

CONSTANTS Handler,    (* create requests with metadata, of one resource type            *)
          TTL,        (* life of an entry of either cache (60 s in the code)            *)
          Delay,      (* ticks a handler may take (client timeout 5 s, then computing)  *)
          MaxClock,   (* bound: ticks                                                   *)
          MaxPuts,    (* bound: schemas registered                                      *)
          MaxRestarts (* bound: restarts of the domain service                          *)

ASSUME SchemaAssumption ==
  /\ TTL \in Nat \ {0}
  /\ Delay \in Nat
  /\ MaxPuts \in Nat

Version == 0..MaxPuts

VARIABLES
  clock,     (* time                                                             *)
  current,   (* identity: the version in field_schemas, 0 before the first PUT   *)
  broken,    (* the versions that are no JSON Schema                             *)
  replaced,  (* history: when each version stopped being the current one         *)
  cached,    (* schemaValidator.cached: a version, and when its entry expires    *)
  items,     (* validate.Cache.items: likewise                                   *)
  request,   (* each create request's progress and local variables               *)
  restarts   (* restarts so far                                                  *)

identity == <<current, broken, replaced>>
vars == <<clock, identity, cached, items, request, restarts>>

\* An entry that expires at 0 has never been made.
NoEntry == [version |-> 0, expires |-> 0]

\* begun: when the handler began.  version, at: the schema it goes by, and when it took
\* that from a cache or was done fetching it.
NoRequest == [pc |-> "new", begun |-> 0, version |-> 0, at |-> 0]
Done == [NoRequest EXCEPT !.pc = "done"]

Init ==
  /\ clock = 0
  /\ current = 0
  /\ broken = {}
  /\ replaced = [v \in Version |-> 0]
  /\ cached = NoEntry
  /\ items = NoEntry
  /\ request = [h \in Handler |-> NoRequest]
  /\ restarts = 0

InFlight(h) == request[h].pc \notin {"new", "done"}

\* Time passes, but not more than Delay while a handler is under way.
Tick ==
  /\ clock < MaxClock
  /\ \A h \in Handler : InFlight(h) => clock - request[h].begun < Delay
  /\ clock' = clock + 1
  /\ UNCHANGED <<identity, cached, items, request, restarts>>

-----------------------------------------------------------------------------
(* Identity.                                                                 *)

\* The upsert replaces the one row of the resource type.
UpsertFieldSchema ==
  /\ current' = current + 1
  /\ replaced' = [replaced EXCEPT ![current] = clock]

\* PutSchema checks that the body is JSON, not that it is a schema.
PutSchema ==
  /\ current < MaxPuts
  /\ UpsertFieldSchema
  /\ broken' \in {broken, broken \cup {current + 1}}
  /\ UNCHANGED <<clock, cached, items, request, restarts>>

-----------------------------------------------------------------------------
(* The domain service.                                                       *)

(* Definitions named ..._Mutant stand for a plausible bug in the definition    *)
(* that follows them; no behaviour of the specification uses them.             *)

\* The expiry is never looked at.
Alive_Mutant(entry) == entry.expires > 0

\* time.Now().Before(expiresAt)
Alive(entry) == clock < entry.expires

Entry(v) == [version |-> v, expires |-> clock + TTL]

Goes(h, pc) == request' = [request EXCEPT ![h].pc = pc]
Ends(h) == request' = [request EXCEPT ![h] = Done]

\* The handler goes by version v from now on.
Takes(h, v, pc) ==
  request' = [request EXCEPT ![h] =
    [pc |-> pc, begun |-> IF request[h].pc = "new" THEN clock ELSE @.begun,
     version |-> v, at |-> clock]]

\* Without a schema there is nothing to validate against.
Fetched(h, v) == Takes(h, v, IF v = 0 THEN "unregistered" ELSE "fetched")

\* CreatePermit, CreateRequest, CreateFOIARequest reach ValidateMetadata, which asks the
\* first cache ...
CacheHit(h) ==
  /\ request[h].pc = "new"
  /\ Alive(cached)
  /\ Fetched(h, cached.version)
  /\ UNCHANGED <<clock, identity, cached, items, restarts>>

\* ... or sends a request to identity.
CacheMiss(h) ==
  /\ request[h].pc = "new"
  /\ ~Alive(cached)
  /\ Takes(h, 0, "fetching")
  /\ UNCHANGED <<clock, identity, cached, items, restarts>>

\* Identity's GetSchema: the row, or 404.
GetSchema(h) ==
  /\ request[h].pc = "fetching"
  /\ Takes(h, current, "answered")
  /\ UNCHANGED <<clock, identity, cached, items, restarts>>

\* Whatever is not an answer is taken for "no schema".
FetchFails_Mutant(h) ==
  /\ request[h].pc \in {"fetching", "answered"}
  /\ Fetched(h, 0)
  /\ UNCHANGED <<clock, identity, cached, items, restarts>>

\* A failure is met by one more attempt, in a state the handler does not know.
FetchFails_Mutant2(h) ==
  /\ request[h].pc \in {"fetching", "answered"}
  /\ Goes(h, "retrying")
  /\ UNCHANGED <<clock, identity, cached, items, restarts>>

\* Identity fails, or its answer does not arrive in time: ValidateMetadata returns an
\* error, which the handler logs before it creates the row.
FetchFails(h) ==
  /\ request[h].pc \in {"fetching", "answered"}
  /\ Goes(h, "failed")
  /\ UNCHANGED <<clock, identity, cached, items, restarts>>

\* cacheSchema stores what identity answered, a 404 too.
cacheSchema(h) ==
  /\ request[h].pc = "answered"
  /\ cached' = Entry(request[h].version)
  /\ Fetched(h, request[h].version)
  /\ UNCHANGED <<clock, identity, items, restarts>>

\* validate.Cache: a compiled schema that is alive, of whichever document ...
CompiledHit(h) ==
  /\ request[h].pc = "fetched"
  /\ Alive(items)
  /\ Takes(h, items.version, "validating")
  /\ UNCHANGED <<clock, identity, cached, items, restarts>>

\* The error of the compiler is not looked at.
Compile_Mutant(h) ==
  /\ request[h].pc = "fetched"
  /\ ~Alive(items)
  /\ Goes(h, "compiled")
  /\ UNCHANGED <<clock, identity, cached, items, restarts>>

\* ... or the fetched document is compiled.  If that fails the row is created.
Compile(h) ==
  /\ request[h].pc = "fetched"
  /\ ~Alive(items)
  /\ Goes(h, IF request[h].version \in broken THEN "broken" ELSE "compiled")
  /\ UNCHANGED <<clock, identity, cached, items, restarts>>

StoreCompiled(h) ==
  /\ request[h].pc = "compiled"
  /\ items' = Entry(request[h].version)
  /\ Takes(h, request[h].version, "validating")
  /\ UNCHANGED <<clock, identity, cached, restarts>>

\* The metadata does not fit: 422.
Reject(h) ==
  /\ request[h].pc = "validating"
  /\ Ends(h)
  /\ UNCHANGED <<clock, identity, cached, items, restarts>>

\* The row is created: the metadata fits, or validation ended without a verdict.
CreateRow(h) ==
  /\ request[h].pc \in {"validating", "unregistered", "broken", "failed"}
  /\ Ends(h)
  /\ UNCHANGED <<clock, identity, cached, items, restarts>>

\* The service restarts: empty caches, and its handlers are gone.
Restart ==
  /\ restarts < MaxRestarts
  /\ restarts' = restarts + 1
  /\ cached' = NoEntry
  /\ items' = NoEntry
  /\ request' = [h \in Handler |-> IF InFlight(h) THEN Done
                                                  ELSE request[h]]
  /\ UNCHANGED <<clock, identity>>

HandlerStep(h) ==
  \/ CacheHit(h) \/ CacheMiss(h) \/ GetSchema(h) \/ FetchFails(h) \/ cacheSchema(h)
  \/ CompiledHit(h) \/ Compile(h) \/ StoreCompiled(h)
  \/ Reject(h) \/ CreateRow(h)

Next == Tick \/ PutSchema \/ Restart \/ \E h \in Handler : HandlerStep(h)

Spec == Init /\ [][Next]_vars

-----------------------------------------------------------------------------

Progress == {"new", "fetching", "answered", "fetched", "compiled", "validating",
             "unregistered", "broken", "failed", "done"}

TypeOK ==
  /\ clock \in Nat
  /\ current \in Version
  /\ broken \subseteq Version
  /\ replaced \in [Version -> Nat]
  /\ cached \in [version : Version, expires : Nat]
  /\ items \in [version : Version, expires : Nat]
  /\ request \in [Handler -> [pc : Progress, begun : Nat, version : Version, at : Nat]]
  /\ restarts \in Nat

\* How long after identity answered a cache may hand out the answer: a handler stores it
\* Delay later at most, and it is found in the TTL - 1 ticks after that one.
Life == Delay + (TTL - 1)

\* Was version v replaced at most n ticks before time t, or never?
FreshWithin(v, t, n) == v = current \/ t - replaced[v] <= n

\* A schema that was replaced is used for no longer than two lives, one after the other: a
\* handler that finds it at the end of its life in the first cache may compile it and
\* store it for a life in the second.
BoundedStaleness ==
  \A h \in Handler : request[h].pc = "validating" =>
    FreshWithin(request[h].version, request[h].at, 2 * Life)

\* Metadata escapes validation, other than by a failure of identity, only when within one
\* life before there was no schema, or one that does not compile.
UnvalidatedForCause ==
  \A h \in Handler : request[h].pc \in {"unregistered", "broken"} =>
    /\ request[h].version \in {0} \cup broken
    /\ FreshWithin(request[h].version, request[h].at, Life)

\* A document that is no schema is never validated with, and no compiled schema is one
\* that was not registered: what fails to compile leaves the cache as it was.
CompiledSound ==
  /\ items.expires > 0 => items.version \in (1..current) \ broken
  /\ \A h \in Handler : request[h].pc = "validating" => request[h].version \in (1..current) \ broken
=============================================================================
