# Fieldstone: a TLA+ verification project

Fieldstone is a set of Go services for a city hall: permits, 311 service requests and
FOIA (public records) requests, each in a service and a database schema of its own,
joined by an event stream, an audit log, durable workflows and webhooks, and reached
through one gateway. The services hold little state in memory. What is hard about them
lies between them: a row and its event, an event and its log entry, a row and its
workflow, an event and its deliveries must agree although each pair is changed by
processes that fail separately; and what little is kept in memory (rate-limit windows,
connections, signing keys, schemas, the pages a client has read) is a copy that others
change meanwhile.

This directory models those relations and copies, checks them with TLC and proves the
safety part of what holds of them with TLAPS.

## 1. The system

| component | state | operations | talks to |
|---|---|---|---|
| domain services (`services/permits`, `requests`, `records`, `identity`) | rows, `outbox` table | create, update status, assign, schedule inspection | workflow worker, Temporal, outbox |
| outbox (`internal/outbox`) | `outbox` table | `PublishTx` in the handler's transaction; `drain` every second in each replica | JetStream |
| event stream (`internal/nats`) | stream `FIELDSTONE`, interest retention | publish, deliver, ack, nak | audit, webhooks, notify |
| audit (`services/audit`) | `audit.events` | persist each event; queries | JetStream |
| workflow configuration (`internal/workflows`, `config/workflows`) | three YAML workflows | initial status, validate, terminal, auto-expiry | worker, HTTP fallback |
| workflow worker (`services/workflow-worker`) | Temporal executions | update `validate-transition`, timers, signal `withdraw`, activities | domain databases, outbox |
| webhooks (`services/webhooks`) | endpoints, deliveries, delivery workflows | dispatch, deliver, count failures, disable; create, test, delete | JetStream, Temporal, endpoints |
| gateway (`services/gateway`) | rate-limit windows, connection pool | authenticate, limit, proxy | every service |
| token verification (`internal/auth`) | cache of signing keys | get key, refresh | OIDC provider |
| schema caches (`services/*/clients.go`, `internal/validate`) | two stacked 60 s caches | fetch, compile, validate | identity |
| notify, extension template, frontend, infra | none of their own | - | - |

What is hard, and what makes each part correct:

* **Outbox.** Several pollers, rollbacks after a publication, `created_at` fixed at the
  begin of a transaction. Correct: no event without its record and no record without
  its event, duplicates only from failed drains, order for a single poller.
* **Audit ingestion.** Redelivery, lost acknowledgements, interest retention. Correct:
  what commits is recorded in the end, once, and nothing else ever is.
* **Cases.** A handler reads, asks the workflow and writes, without a lock; the workflow
  keeps no status; timers and activities write on their own; each step can fail after
  its effect. Correct: a case's events reproduce its row; every change was allowed for
  what its author had read; timers do their work; repeats come only from retries; what
  has ended stays so.
* **Webhooks.** Acknowledgement before dispatch, concurrent deliveries sharing a failure
  counter, deletion under way. Correct: only subscribers get an event, posts repeat only
  after failed attempts, endpoints are disabled only for failed deliveries, deletion is
  complete, and what is received is delivered.
* **Rate limiter.** Requests read the clock before they wait for a lock; a pool hands out
  connections that may be broken. Correct: a window never lets more than its limit
  through, nobody is refused for old requests, no connection is lost or shared.
* **Access.** Keys are fetched by overlapping lookups, and the last one to answer wins; two
  issuers; identity travels in headers. Correct: withdrawn keys stop being taken, new ones
  are found, a resident sees the resident's own cases.
* **Schema caches.** Two caches, one filled from the other, each with its own expiry.
  Correct: staleness has a bound, validation is skipped only for a reason, a schema that
  does not compile is never used.
* **Listings.** Pages are separate statements over a table that changes. Correct: who reads
  to the end misses a row, or is shown one twice, only for a reason.

PROJECT.json lists every hazard with its line and the properties that watch it.

## 2. Modules

```
Outbox ----------+                                 WorkflowConfig     EventPattern
AuditService ----+--> EventPipeline ==> AuditTrail       |                 |
                                                   CaseLifecycle     WebhookDelivery
                                                         ||                ||
                                                         \/                \/
                                                   CaseLedger        DeliveryPromise

RateLimiter          Access           SchemaCache       Paging

proofs     OutboxProofs  EventPipelineProofs  CaseLifecycleProofs
           WebhookProofs  RateLimiterProofs  AccessProofs  SchemaCacheProofs  PagingProofs
for TLC    MCOutbox  MCEventPipeline  MCCaseLifecycle (+ DefaultWorkflows)  MCWebhooks
           MCRateLimiter  MCAccess  MCSchemaCache  MCPaging
```

`-->` is composition by INSTANCE, `==>` the abstract specification implemented. MC modules
hold what only TLC needs; proofs are in modules of their own. No module declares a
RECURSIVE operator. Definitions whose name ends in `_Mutant` are plausible bugs of the
definition they precede, which show that the properties can fail; no specification uses
them.

**Outbox** (`internal/outbox/poller.go`, `publisher.go`). An element of `Event` stands for
one domain transaction with its row and its envelope; any handler of this form is meant
(create permit, provision user, schedule inspection, ...). `BeginTx`, `PublishTx`,
`CommitTx`, `RollbackTx` are the handler; `DrainBegin`, `PublishNext`, `DrainCommit`,
`DrainAbort` the statements of `drain`. `clock` ticks at begins and commits; `created`
is the column `created_at`, whose default `now()` is the begin of the transaction.
`Selections` is `ORDER BY created_at LIMIT n FOR UPDATE SKIP LOCKED`.

**AuditService** (`services/audit/subscriber.go`, `db/generated/query.sql.go`,
`internal/nats/connect.go`). JetStream is external and modelled by how the code uses it:
interest retention, no message ids, one callback goroutine, a limit of unacknowledged
messages. `Receive` is the whole callback up to its answer; `acking`/`naking` is the gap
between the INSERT and the answer, in which the process may die (`LoseReply`). A
conflicting INSERT returns no row, which the code reports as an error: the duplicate is
Nak'd.

**EventPipeline** composes the two: a poller's `PublishNext` is the stream's `Store`.
**AuditTrail** is what the composition promises: changes commit, and committed changes
are recorded, once.

**WorkflowConfig, DefaultWorkflows** (`internal/workflows/types.go`, `loader.go`,
`config/workflows/*.yaml`). The first transition between two statuses decides for all
roles, as the loop in the code does.

**CaseLifecycle** (`services/{permits,requests,records}/handlers`, `clients.go`,
`services/workflow-worker`). One case of one of the three kinds. Handlers: `ReadForUpdate`
or `ReadForAssign`, then the answer of the workflow (`UpdateAccepted`, `UpdateReplyLost`,
`UpdateRefused`, `TemporalUnavailable`, or `ValidateHTTP` when there is no execution),
then `WriteStatus` or `WriteFails`. `WorkflowAccepts` is the update handler, which may
complete the execution or start an expiry timer. `TimerFires`, `ExpiryCommits`,
`NoticeCommits`, `AttemptFails`, `AttemptDropped`, `ActivityReturns` are the timers and
the activities they schedule. `WithdrawSignal`, `ExecutionTimeout` and `Purge` (namespace
retention) end or erase the execution. The outbox is abstracted to the sequence
`announced` of committed events, which module Outbox justifies.
**CaseLedger** is what remains of a case for those who see it from outside: a status, and
a list of events that tells how it came about. Its `Change` goes along a transition
allowed for the role, from a status the case has, or once had if something disturbed it.
The mapping reads the row, `announced`, and `contended \/ faults > 0`, the history of
whether operations overlapped or an attempt failed.

**EventPattern, WebhookDelivery** (`services/webhooks`). `Receive` acknowledges and starts
a goroutine, `FanOut` lists the endpoints and starts a workflow for each match,
`DeliverSucceeds`, `DeliverFails`, `ActivityCompletes`, `ActivityFails` are the workflow's
activities, each of which may fail before or after its effect. `Restart` kills goroutines
and spares workflows. `DeleteDeliveries` and `DeleteEndpoint` are the two statements of
the deletion's transaction, with the foreign key that may forbid the second. The
endpoint's own server is nondeterministic: a failed attempt may or may not have reached
it. **DeliveryPromise** is what that server is promised: attempts at deliveries that were
asked for, bounded in number, and none after one was accepted or the delivery given up.
What was asked for is stated without `matchPattern`: `Means` is what the documentation
says of `*` and `>`, `Lenient` the two cases in which the code takes more (section 4).
The mapping reads attempts and outcome from the workflow and what was received from
`posts`.

**RateLimiter** (`services/gateway/ratelimit.go`). One replica, in one of its two modes.
In memory: `Arrive` reads the clock, `AllowMemory` is what happens under the lock. Redis:
`AcquirePooled`, `Dial`, `DialFails`, `WritePipeline`, `WriteFails`, `Invalidate` (the
blocking send of a nil connection), `ReadFails` and `Release` follow the connection of a
request. Redis itself is external. The bytes `slidingWindow` writes announce a command
word one byte longer than it is, so that Redis answers with a protocol error and closes;
hence there is no action in which a pipeline succeeds. `RedisStops` and `RedisStarts` are
outages.

**Access** (`internal/auth`, `services/gateway/main.go`, `proxy.go`, the create and get
handlers of the three case services, identity's `GetMe`). `Arrive` is the route with its
middleware; `LookupHit`, `LookupMiss`, `Answer`, `AnswerError`, `FetchFails`, `Store` and
`FindKey` are `GetKey` and `refresh`, each lock region a step; `ClaimsFail` and `Identify`
are the rest of the middleware; `Proxy` drops what does not travel. `Publish` and
`Withdraw` are the issuers' rotations. `Init` may start with an empty cache: the first
refresh looks at the status of the answer as little as any later one. `FirstKeys` bounds
the keys the issuers may have when the gateway starts. `since`, `until`, `blank`,
`submitted` and a request's `begun` are history.

**SchemaCache** (`services/*/clients.go`, `internal/validate/jsonschema.go`, identity's
`schemas.go`). One resource type, one replica. `CacheHit`, `CacheMiss`, `GetSchema`,
`FetchFails`, `cacheSchema` are the first cache, `CompiledHit`, `Compile`, `StoreCompiled`
the second; `Reject` and `CreateRow` are the handler's verdict.

**Paging** (the list handlers and queries of permits, requests, FOIA and audit). `List`
and `Count` are the two statements of a page. Rows get their stamp at the begin of their
transaction and appear at its commit; `Ranks` is every order `ORDER BY created_at DESC`
permits. `int32` is the conversion of `limit` and `offset`, with its width: `Begin` converts
the limit, `List` the offset the client has counted up to. The client is external: it
asks for the next page until one is short.

## 3. Runs

| run | instance | shows |
|---|---|---|
| `outbox` | 3 transactions, 2 pollers, batch of 2, 2 failed drains | safety of the outbox |
| `pipeline` | 2 transactions, 2 pollers, 1 fault, stream of 4 messages, 4 unacknowledged | nothing lost, refinement of AuditTrail, eventual recording, what duplicates cost the consumer |
| `pipeline_nak` | the same with 1 poller | **violated**: a redelivered event is never acknowledged |
| `cases` | 3 kinds, 2 handlers, 3 requests for 8 of the statuses, role admin, 2 faults, 2 attempts | refinement of CaseLedger, safety of cases, ends that last, timers fire |
| `case_transitions` | the same, roles admin and system, no fault | **violated**: overlapping requests leave the configuration's transitions |
| `webhooks` | 1 endpoint, 2 events (one not subscribed), 1 test event, 2 attempts to deliver and to record, threshold 2, 2 faults or restarts together | refinement of DeliveryPromise, safety and delivery of webhooks |
| `ratelimit` | 3 requests, 2 addresses, limit 1, window of 2 ticks, pool of 1, 4 ticks, 1 outage | the window in memory, the pool |
| `ratelimit_redis` | 3 requests, 1 address, pool of 2, 2 ticks, no outage | **violated**: with Redis there is no limit |
| `schemas` | 3 handlers, life of 2 ticks, delay 1, 5 ticks, 2 schemas, 1 restart | staleness and soundness of the schemas in use |
| `access` | 2 requests, 2 issuers with 1 key each (the residents' there at the start, or not yet), 3 tokens, 1 case, life of 2 ticks, delay 1, 3 ticks, 1 rotation | key lookups and who sees which case |
| `access_me` | the same with 1 request and 2 ticks | **violated**: nobody is given their own user record |
| `paging` | 3 rows, 1 client, limits none, -1, 1, 2, 3, 6 at a width of 6, default 2, 3 stamps, 2 updates | what a client that reads to the end may miss, and what it may see twice |

**Why the bounds are enough.** Every hazard needs few actors: two pollers for the locks,
three rows with a batch of two for an order across batches, two handlers for a stale
read and a third request for what follows it (a second expiry timer, a change after a
terminal status), one fault for each "failed after its effect", two attempts for a retry
and two faults for one that is exhausted (a deadline whose notice is never sent, a
delivery that is never recorded), two failed deliveries and a threshold of two for the
counter. `MaxFaults`, `MaxCalls`, `MaxSeq` and `MaxRestarts` bound what is otherwise
unbounded; they are guards, so that liveness is not checked on truncated behaviours.
`Requested` in `cases` leaves out `assigned`, which an assignment sets, `denied` and
`awaiting_clarification`, whose part `fulfilled` and `processing` play, and the two targets
that only the system may ask for; the proofs take any set. MCWebhooks compares
`matchPattern` with the documentation's words for every pattern and subject of up to three
tokens, those at whose end a `>` finds nothing left included. A cached copy
needs its life, one change of the original and a second reader: lives of two ticks tell
"expires now" from "expired", five ticks hold two lives of a schema one after the other,
and three of them a withdrawal, an answer that is stored late and the last use of it. A
limit of one and three requests are the least that a window can be exceeded with. Limits
of 3 and 6 at a width of 6 are the first that convert to a negative number and to zero, and
the offset after three pages of one row converts to a negative number too. In `pipeline`
`MaxSeq` leaves room for every duplicate one fault can cause, and `MaxAckPending` is
above their number: a duplicate is never acknowledged (`pipeline_nak`) and holds its slot
for good (`StuckForGood`), so after as many duplicates as the consumer's limit
`EventuallyRecorded` would fail; `SlotsLostToFaults` bounds how many there can be. CHECK_DEADLOCK is off everywhere: when all transactions, requests or deliveries
are over and the bounds used up, the system rests.

**Fairness.** Pollers run on a ticker that restarts with the process: weak fairness of
each drain step. The audit callback answers every message; redeliveries and new messages
share one queue, so a message that is deliverable again and again reaches the callback:
strong fairness of `Receive(m)`. Temporal's timers are durable and its activities are
retried: weak fairness of each timer; the workflow of a delivery likewise. Goroutines of
the webhooks dispatcher run until the process ends: weak fairness of receiving, fanning
out and starting. HTTP clients, operators and residents owe nothing, and no failure is
ever required to happen. The gateway, the caches and the listings are driven by clients
alone: no fairness, and safety only.

## 4. What the violated runs say

* `pipeline_nak`: `ON CONFLICT DO NOTHING ... RETURNING` yields no row for a duplicate,
  the query returns `ErrNotFound`, and the subscriber Naks. docs/services.md:165 and
  ADR-0018 call redelivery idempotent. The log stays correct (`ImplementsTrail`); the
  message is redelivered for ever. What the run shows of one duplicate, theorem
  DuplicatesStayForGood proves of all, and SlotsAreLostToFaults bounds what it costs: one
  batch of the consumer's slots for each failed drain or lost reply.
* `case_transitions`: `UpdatePermitStatus` and its siblings write unconditionally after a
  read and a validation. `ImplementsLedger` holds all the same: each change is legal for a
  status the case had at some time, and CaseLedger lets it start from another than the
  row's own only when operations overlap or an attempt fails.
* `ratelimit_redis`: the first command of the pipeline is `ZREMRANGEBYSCORE`, 16 bytes,
  announced as `$17`. Redis refuses the pipeline, the limiter fails open, and every request
  passes, while docs/architecture.md promises a limit that all replicas share.
* `access_me`: identity's `GetMe` reads the claims from its context, which only the
  gateway's middleware fills; in the service there are none, and the answer is the user
  made up for development. Its comment says that it returns the caller's record.

Smaller divergences, without a run of their own (some are in the hazards of PROJECT.json):

* Events. Interest retention drops what is published before the first subscription, while
  ADR-0004 wants no event lost. The webhooks consumer acknowledges before the dispatch: a
  restart, or an error of the query, loses the event, against ADR-0023; what has become a
  workflow survives (`Restart` of WebhookDelivery). `EventuallyDelivered` excuses this loss
  and no other. The failures that disable an endpoint need not be consecutive, as
  docs/extensions.md:216 has it: the statement that disables follows a count that a
  concurrent success may have reset. `DisabledForCause` checks their number. Nothing
  enables an endpoint again.
* Patterns. docs/services.md:137-142 and docs/extensions.md:148-157 call the patterns
  NATS-style, with a `>` for everything under what comes before it. `matchPattern` returns
  true at the first `>` it meets (subscriber.go:90-91): it takes one for which the subject
  has no token left (`permits.permit.created.>` for `permits.permit.created`), and one that
  is not the last token, whatever follows. `Lenient` names the two cases, theorem
  PatternMeaning proves that there is no third, and `OnlySubscribed` allows them as
  `Surplus`.
* Delivery log. docs/services.md says that each attempt is recorded, the code records each
  delivery once, twice if the report of the first recording is lost, and not at all when
  every attempt to record fails (`DeliveriesLogged`). `TestWebhook` is documented as
  synchronous and only starts the workflow.
* Cases. The workflow of a 311 request completes at `resolved`; Temporal then answers
  "already completed", which is not taken for "not found", so that the legal change to
  `closed` is refused; changes are refused in the same way while Temporal is down, against
  ADR-0022 and a comment in `clients.go`. An accepted withdrawal of a FOIA request
  completes the workflow and never reaches the row. Every 311 status change is published
  as `closed`. A permit whose workflow could not be started never expires. A transition
  that the workflow accepted and the database then refused, or whose reply was lost, leaves
  a workflow that has completed beside an open row, whose changes are refused from then on;
  `SerialAgreement` checks that row and workflow disagree in no other way, and
  `EndedForGood` that the opposite, a case that has ended and comes back, does not happen.
  The notice of a FOIA deadline whose attempts are exhausted is never sent, and the
  workflow goes on without a word (`TimersFire` excuses exactly that).
  `UpdateInspection` overwrites the fields a request leaves out with NULL.
* Caches. A changed schema takes effect after at most two lives of 60 s (`BoundedStaleness`,
  and TLC reaches the bound), while ADR-0008 and a comment in `schemas.go` speak of one
  minute. A document that is JSON and no schema is accepted, and turns validation off.
  Metadata `{}` is not validated. An error document from the issuer is decoded as a key
  set without keys and empties the cache.
* Listings. A limit that converts to 0 answers an empty page that looks like the last
  (`MissedForCause` excepts it); a limit or an offset that converts to a negative number
  ends in an error of the server.
* Gateway. The key of a window is the remote address with its port, the comment says "per
  IP". A send of nil to a full pool blocks for good, and connections that Redis has closed
  circulate. The public route for a permit's status has no handler behind it.
* Audit. Migration 002 creates indexes under names that migration 001 has taken.

## 5. Proofs

All theorems hold for every value of the constants that the named assumptions allow
(`OutboxAssumption`, `PipelineAssumption`, `CaseAssumption`, `StatusAssumption`,
`WebhookAssumption`, `LimiterAssumption`, `SchemaAssumption`, `AccessAssumption`,
`PagingAssumption`), bounds included: they say nothing that a larger `MaxFaults`
or `MaxClock` would change.

**Outbox** (`OutboxProofs`). The inductive invariant joins `TypeOK`, `DrainInv` (a drain
holds rows of the outbox, disjoint from those of other drains, and deletes what it has
published) and `FaultBudget` (a row that is queued and not deleted by an open drain has
been published by failed drains only). `DuplicatesNeedFaults` alone is not inductive:
nothing in it says that a row about to be published still has a publication left.
`EventNeverLost`, `EventNeverPhantom`, `DrainsDisjoint` and `DuplicatesBounded` follow
(no run lists `DrainInv`: an overlap of drains is seen as a duplicate nobody paid for).
`PublicationOrder` adds `ClockInv` and two facts about the single poller: the rows of its
batch are older than those it left, and of its batch it has published the oldest.

**Pipeline** (`EventPipelineProofs`). `NothingLost` needs `HandOver` (what an open drain
has deleted, the audit consumer holds; what is about to be acknowledged is in the log),
which needs the outbox invariant. `PipelineImplementsTrail` maps `committed` to the
committed transactions and `recorded` to the audit rows: each step is a `Commit`, a
`Record` of a committed event (by `NoPhantomRecord`), or a stutter.
`SlotsAreLostToFaults` rests on `Balance`: messages that wait in the stream, rows of the
log and envelopes that were missed are together no more than the envelopes published by
drains that have not failed, but for a batch per fault. Each of those envelopes is itself
recorded, missed, or waits without a row, so what is left, the messages that are stuck,
comes out of the allowance for faults. Neither half can be had alone: a publication adds to
both sides, and only a failed drain or a lost reply takes from one.
`DuplicatesStayForGood` holds because the handler's INSERT conflicts with a row that no
statement ever deletes.

**Cases** (`CaseLifecycleProofs`). `Groundwork` is the invariant `TypeOK /\ WorkInv`: a
handler past validation holds a transition that is valid for the status it read, and an
expiry timer belongs to a permit's expiring status. `RowMatchesEvents` is then preserved
because each action that writes the row appends its event in the same step.
`CaseImplementsLedger` maps each action that writes to a `Create`, `Change` or `Expire`
of CaseLedger, the first overlap or failure to a `Disturb`, and all else to a stutter. It
needs `ReadInv` (what a handler has read the case had at some time, and its events say
so), `NumberInv` below for "once", and `SerialInv` below for "from the status it has".
`LegalHistory` and it assume `ExpiryAllowed`, a condition on the configuration, since the
expiry activity asks nobody.
`RepeatsCaused` counts: by `NumberInv` each request has a number of its own and no number has
more than one change of a request; by `BudgetInv` the changes an expiry has written, and the
notices a deadline has sent, are at most one more than the attempts that failed, and no more than
those while its last attempt has yet to write.
What holds of a case left to itself rests on the invariant `SerialInv`, which
holds while operations have not overlapped and nothing has failed. `Exclusive` says that at
most one of handlers, timers and the start of the workflow is at work; `Current`, that
what the one at work has read is still the row's status; `InStep`, that the workflow
and its timers are what the status the row is heading for asks for, which is the
target of a transition once it is accepted and the row's status otherwise.
`RowAndWorkflowAgree` allows failures, and has an invariant `AloneInv` of its own for them:
a running workflow is one that may run (no end, a timer asleep if the status expires) both
with the row's status and with the one it has accepted, because a write that fails
leaves the first and one that succeeds the second. `EndsAreFinal` needs no restriction on
overlaps or failures: `Ended` is preserved by every step, since whoever is under way in a
case that has ended has read a terminal status, and nothing leads out of those.
`SerialCases`, `RowAndWorkflowAgree`, `CaseImplementsLedger` and `EndsAreFinal` assume `OrderlyEnds`: a case does not begin in a
terminal or expiring status, nothing leads from a terminal status to one that is not,
and what leaves an expiring status is terminal. A configuration without it would
start a workflow twice or leave a timer asleep, which the code does not guard against.
`ShippedWorkflows` proves both conditions of the three configurations in
`config/workflows`, status by status and transition by transition, so that `ShippedCases`
states the results with no condition but that these files are loaded; TLC evaluates the
conditions as assumptions of MCCaseLifecycle as well.

**Webhooks** (`WebhookProofs`). `WorkflowInv` ties a workflow's place to its attempts. A
deletion and the last activities of a workflow interleave, so `DeliveriesLogged` is
strengthened to `LogInv`: while a workflow records there are as many rows as attempts to
record have failed at most, and once it is past, one more at most; none are there before,
none once the endpoint is gone, and nothing is under way for an endpoint that was never
created. Counting a failure, comparing with the threshold and disabling are
three steps, between which other deliveries count or reset; `CounterInv` therefore has
each of the three (the counter, a workflow that has decided to disable, a disabled
endpoint) paid for by failed deliveries that were counted, and by faults.
`SubscriptionInv` says that whatever was started was subscribed or is surplus; it rests on
`PatternMeaning`, which proves that the loop of `matchPattern` accepts a subject exactly if
`Means` or `Lenient` does, for patterns of any length. `WebhooksKeepPromise` joins
`WorkflowInv` and `SubscriptionInv`: a workflow that delivers was asked for, has no
outcome yet and an attempt left, so that each of its attempts is one of DeliveryPromise,
and whatever comes, is listed or is started again is a stutter.

**Rate limiter** (`RateLimiterProofs`). `SlidingWindow` says nothing of the list a request
is recorded in, so it is not inductive. The strengthening `Recorded` is: every request
that has decided and is recent for the latest reading in use is still in the list of its
address, although others have pruned that list with readings of their own. The allowed
requests of a window are then a part of one list, which had at most `Limit` elements when
the last of them was allowed. `Places` gives `ConnectionsAccountedFor`: each connection
that is not closed has exactly one place, in the pool or with a request.

**Schemas** (`SchemaCacheProofs`). `StaleInv` says of each entry and each request in flight
how old its version may be, from the time left until the entry expires; `VersionInv` that
each version has been registered and what is compiled compiles. The three properties are
its instances where a schema is used.

**Access** (`AccessProofs`). The invariant `IInv` is `TypeOK`, `CacheInv` (each cached set is
an answer the issuer gave at most `Delay` before it was stored), `CaseInv` (a row names
the resident of the token it was submitted with) and, for each request, `RequestInv`, in
parts named for time, token, answer and identity. Frame lemmas carry the parts a step
leaves alone. `RefusedForCause` needs the answer and the cache in one argument: an answer
that was stored late was given after the request began, or before, and then at most
`Delay` before.

**Listings** (`PagingProofs`). `MissedForCause` speaks of the end of a listing only. The
invariant `PageInv` says of each row that is due, not seen and not excused that it is
pending: it matches, and at least as many matching rows are newer as the client has
behind it; or it is on the page at hand; or that page is full. Rows that appear only add
to the newer ones, and one that leaves is an excuse. An order of the rows is a bijection
onto places (`SliceSize`), so a row with `offset` newer ones is not on an earlier page, and
a page that stops before it is full and not the last. `Fits` keeps the offset of a client
from coming round: one past the half of the width converts to a negative number
(`Unconverted`), at which the client stops, and a limit is too small to pass by that
half. `RepeatedForCause` looks back instead. `ShownInv` says of each row seen that those
newer ones that were there when the client began and have not left since are fewer than the
places it has read: a row can only move towards the front through them. A row that is shown
again has as many newer ones as the places before its page, so one of them is of another
sort, which is the cause the property names.

**Only model-checked.** Liveness under fairness (`EventuallyRecorded`, `TimersFire`,
`EventuallyDelivered`), which the prover cannot do. Every safety property of a passing run
is proved.

## 6. Not modelled

Payloads, signatures, logging and metrics; the contents of metadata; the filters of the
queries other than one status; reads of single rows that decide nothing (`GetEvent`,
`GetWebhook`, identity's departments and users); retries inside the clients of PostgreSQL,
JetStream and Redis; HTTP middleware other than authentication and limits; migrations and
partitions; the notify service and the extension template, which keep no state; the
frontend. Identity's provisioning of users is a transaction with an event and is covered
by module Outbox, its other writes are single statements. `UpdateInspection` writes no
event and asks nobody. `UpdateRequestStatus` and `UpdateFOIAStatus` of the worker are
registered but scheduled by no workflow.

Assumptions the models make. A workflow keeps the configuration it was started with while
the HTTP fallback uses the one loaded now: the model has one configuration per case. Two
simultaneous goroutines for one event in the webhooks dispatcher count as one, which runs
again when the event does. A key lookup takes at most `Delay`, though the code sets no
limit: without one, no bound on withdrawn keys could hold. Both issuers are configured,
no user has an empty sub, and the staff issuer gives nobody the role "resident". The
bypass of authentication for development is left out. A restart of the gateway is its
`Init` again.

## 7. What is left

In order of what it would add: a configuration reload between the start of a workflow and
the HTTP fallback; an envelope the stream never accepts, and what it does to the rows
behind it; the webhooks consumer as a second subscriber in EventPipeline; two replicas of
the gateway behind one Redis, once its pipeline is one that Redis accepts.

## 8. Running the checks

```
tlc -workers 2 -config MCOutbox.cfg MCOutbox.tla
tlapm OutboxProofs.tla
```

and likewise for the other runs of PROJECT.json and the other `*Proofs` modules. A step
that changes several fields of one record is written `![r] = [@ EXCEPT !.a = ..., !.b = ...]`
throughout: of the shorter `![r].a = ..., ![r].b = ...` the SMT translation of tlapm 1.4.5
makes something that contradicts itself, from which anything follows.
