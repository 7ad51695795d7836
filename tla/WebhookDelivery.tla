--------------------------- MODULE WebhookDelivery --------------------------
(***************************************************************************)
(* The webhooks service: events arriving on its durable consumer are       *)
(* acknowledged, fanned out by a goroutine to the enabled endpoints whose  *)
(* patterns match, and delivered by one durable workflow per endpoint and  *)
(* event, while clients register, test and delete endpoints.               *)
(*                                                                         *)
(* A goroutine dies with the process; a workflow does not.  JetStream and  *)
(* Temporal are outside src/.  A pair <<p, e>> is a delivery of event e to *)
(* endpoint p.                                                             *)
(***************************************************************************)
EXTENDS EventPattern, FiniteSets

(* Definitions named ..._Mutant stand for a plausible bug in the definition    *)
(* that follows them; no behaviour of the specification uses them.             *)

CONSTANTS Endpoint,          (* endpoints that may be registered                    *)
          Event,             (* the events published to the stream                  *)
          TestEvent,         (* the synthetic events of TestWebhook                 *)
          Patterns,          (* the event patterns each endpoint registers          *)
          Subject,           (* the subject (type) of each published event          *)
          DeliverAttempts,   (* attempts of Deliver (5 in the code)                 *)
          RecordAttempts,    (* attempts of each other activity (3 in the code)     *)
          maxConsecutiveFailures,  (* fail_count that disables (10 in the code)     *)
          MaxFaults          (* bound: lost acks, database, Temporal or report      *)
                             (* errors and restarts of the service, together        *)

ASSUME WebhookAssumption ==
  /\ IsFiniteSet(Endpoint) /\ IsFiniteSet(Event) /\ IsFiniteSet(TestEvent)
  /\ Event \cap TestEvent = {}
  /\ Patterns \in [Endpoint -> SUBSET Seq(STRING)]
  /\ Subject \in [Event -> Seq(STRING)]
  /\ DeliverAttempts \in Nat \ {0} /\ RecordAttempts \in Nat \ {0}
  /\ maxConsecutiveFailures \in Nat \ {0}
  /\ MaxFaults \in Nat

VARIABLES
  endpoint,    (* each endpoint: "none", "enabled", "disabled", "deleted"         *)
  failCount,   (* its fail_count column                                           *)
  deliveries,  (* rows of the deliveries table per pair                           *)
  deleting,    (* endpoints whose DeleteWebhook has deleted their deliveries, in  *)
               (* a transaction that is still open                                *)
  inserted,    (* those of them that have got a new delivery row since            *)
  stream,      (* events the consumer has not acknowledged                        *)
  listing,     (* events whose fanOut goroutine is about to list the endpoints    *)
  starting,    (* pairs whose workflow a goroutine is about to start              *)
  wf,          (* the delivery workflow of each pair                              *)
  posts,       (* history: POSTs the endpoint's server has received               *)
  faults,      (* faults so far                                                   *)
  restarts     (* restarts so far                                                 *)

tables     == <<endpoint, failCount, deliveries, deleting, inserted>>
dispatcher == <<stream, listing, starting>>
vars == <<tables, dispatcher, wf, posts, faults, restarts>>

Pair == Endpoint \X (Event \cup TestEvent)

\* A workflow: its next activity, the failed attempts of Deliver, of the activity at
\* hand, and whether Deliver succeeded in the end.
NoWorkflow == [pc |-> "none", failed |-> 0, tries |-> 0, ok |-> FALSE]

Fail == faults + restarts < MaxFaults /\ faults' = faults + 1 /\ UNCHANGED restarts
NoFault == UNCHANGED <<faults, restarts>>

Init ==
  /\ endpoint = [p \in Endpoint |-> "none"]
  /\ failCount = [p \in Endpoint |-> 0]
  /\ deliveries = [x \in Pair |-> 0]
  /\ deleting = {} /\ inserted = {}
  /\ stream = Event
  /\ listing = {} /\ starting = {}
  /\ wf = [x \in Pair |-> NoWorkflow]
  /\ posts = [x \in Pair |-> 0]
  /\ faults = 0 /\ restarts = 0

-----------------------------------------------------------------------------
(* The subscriber.                                                           *)

\* The message is acknowledged before anything is done with it; a lost
\* acknowledgement makes it come again.
Receive(e) ==
  /\ e \in stream
  /\ listing' = listing \cup {e}
  /\ \/ stream' = stream \ {e} /\ NoFault
     \/ Fail /\ UNCHANGED stream
  /\ UNCHANGED <<tables, starting, wf, posts>>

\* The patterns are not looked at.
Recipients_Mutant(e) == {p \in Endpoint : endpoint[p] = "enabled"}

\* ListEnabledEndpoints, and those of them that match.
Recipients(e) ==
  {p \in Endpoint : endpoint[p] = "enabled" /\ matchesAny(Patterns[p], Subject[e])}

FanOut(e) ==
  /\ e \in listing
  /\ listing' = listing \ {e}
  /\ starting' = starting \cup (Recipients(e) \X {e})
  /\ UNCHANGED <<tables, stream, wf, posts, faults, restarts>>

\* An error of the query is logged; the event is not dispatched.
FanOutFails(e) ==
  /\ e \in listing
  /\ Fail
  /\ listing' = listing \ {e}
  /\ UNCHANGED <<tables, stream, starting, wf, posts>>

\* The workflow id is not unique: a second start begins again.
StartDelivery_Mutant(x) ==
  /\ x \in starting
  /\ starting' = starting \ {x}
  /\ wf' = [wf EXCEPT ![x] = [NoWorkflow EXCEPT !.pc = "deliver"]]
  /\ UNCHANGED <<tables, stream, listing, posts, faults, restarts>>

\* startDeliveryWorkflow: the id names the pair and duplicates are rejected.
StartDelivery(x) ==
  /\ x \in starting
  /\ starting' = starting \ {x}
  /\ wf' = IF wf[x] = NoWorkflow THEN [wf EXCEPT ![x].pc = "deliver"] ELSE wf
  /\ UNCHANGED <<tables, stream, listing, posts, faults, restarts>>

\* An error of ExecuteWorkflow is logged; the loop goes on with the next endpoint.
StartFails(x) ==
  /\ x \in starting
  /\ Fail
  /\ starting' = starting \ {x}
  /\ UNCHANGED <<tables, stream, listing, wf, posts>>

\* The service restarts: its goroutines are gone.
Restart ==
  /\ listing # {} \/ starting # {}
  /\ faults + restarts < MaxFaults /\ restarts' = restarts + 1
  /\ listing' = {} /\ starting' = {}
  /\ UNCHANGED <<tables, stream, wf, posts, faults>>

-----------------------------------------------------------------------------
(* WebhookDeliveryWorkflow.                                                  *)

\* The POST is answered with a 2xx.
DeliverSucceeds(x) ==
  /\ wf[x].pc = "deliver"
  /\ posts' = [posts EXCEPT ![x] = @ + 1]
  /\ wf' = [wf EXCEPT ![x] = [@ EXCEPT !.pc = "record", !.ok = TRUE]]
  /\ UNCHANGED <<tables, dispatcher, faults, restarts>>

\* One attempt too many.
DeliverFails_Mutant(x) ==
  /\ wf[x].pc = "deliver"
  /\ wf' = [wf EXCEPT ![x] =
       [@ EXCEPT !.failed = wf[x].failed + 1,
                 !.pc = IF wf[x].failed < DeliverAttempts THEN "deliver" ELSE "record"]]
  /\ UNCHANGED <<tables, dispatcher, posts, faults, restarts>>

\* Anything else - another status, a timeout, a connection that breaks before or
\* after the server got the request, the death of the worker - is a failed attempt.
DeliverFails(x) ==
  /\ wf[x].pc = "deliver"
  /\ posts' \in {posts, [posts EXCEPT ![x] = @ + 1]}
  /\ wf' = [wf EXCEPT ![x] =
       [@ EXCEPT !.failed = wf[x].failed + 1,
                 !.pc = IF wf[x].failed + 1 < DeliverAttempts THEN "deliver" ELSE "record"]]
  /\ UNCHANGED <<tables, dispatcher, faults, restarts>>

Exists(p) == endpoint[p] \in {"enabled", "disabled"}

\* One row, which the foreign key ties to the endpoint.
RecordDelivery(x) ==
  /\ Exists(x[1])
  /\ deliveries' = [deliveries EXCEPT ![x] = @ + 1]
  /\ inserted' = inserted \cup ({x[1]} \cap deleting)
  /\ UNCHANGED <<endpoint, failCount, deleting>>

ResetFailCount(p) ==
  /\ failCount' = [failCount EXCEPT ![p] = 0]
  /\ UNCHANGED <<endpoint, deliveries, deleting, inserted>>

IncrementFailCount(p) ==
  /\ failCount' = [failCount EXCEPT ![p] = @ + 1]
  /\ UNCHANGED <<endpoint, deliveries, deleting, inserted>>

DisableEndpoint(p) ==
  /\ endpoint' = [endpoint EXCEPT ![p] = "disabled"]
  /\ UNCHANGED <<failCount, deliveries, deleting, inserted>>

\* The effect of the activity at hand on the tables.  Of a deleted endpoint there is
\* nothing to change: an INSERT and an increment fail, the other two do nothing.
Perform(x) ==
  IF ~Exists(x[1]) THEN UNCHANGED tables
  ELSE \/ wf[x].pc = "record"  /\ RecordDelivery(x)
       \/ wf[x].pc = "count"   /\ wf[x].ok  /\ ResetFailCount(x[1])
       \/ wf[x].pc = "count"   /\ ~wf[x].ok /\ IncrementFailCount(x[1])
       \/ wf[x].pc = "disable" /\ DisableEndpoint(x[1])

Goto(x, pc) == wf' = [wf EXCEPT ![x] = [@ EXCEPT !.pc = pc, !.tries = 0]]

\* Disabled one failure early.
Excessive_Mutant(count) == count >= maxConsecutiveFailures - 1

Excessive(count) == count >= maxConsecutiveFailures

\* The activity completes: the workflow goes on with the next one.
ActivityCompletes(x) ==
  /\ wf[x].pc \in {"record", "count", "disable"}
  /\ Perform(x)
  /\ \/ wf[x].pc = "record" /\ Goto(x, "count")
     \/ /\ wf[x].pc = "count"
        /\ IF ~wf[x].ok /\ Exists(x[1]) /\ Excessive(failCount'[x[1]])
             THEN Goto(x, "disable") ELSE Goto(x, "done")
     \/ wf[x].pc = "disable" /\ Goto(x, "done")
  /\ UNCHANGED <<dispatcher, posts, faults, restarts>>

\* An error of an activity is not retried.
ActivityFails_Mutant(x) ==
  /\ wf[x].pc \in {"record", "count", "disable"}
  /\ Fail
  /\ Perform(x) \/ UNCHANGED tables
  /\ Goto(x, IF wf[x].pc = "record" THEN "count" ELSE "done")
  /\ UNCHANGED <<dispatcher, posts>>

\* An attempt fails before or after its effect.  When none is left the workflow goes
\* on without the result, and never disables on a count it does not know.
ActivityFails(x) ==
  /\ wf[x].pc \in {"record", "count", "disable"}
  /\ Fail
  /\ Perform(x) \/ UNCHANGED tables
  /\ IF wf[x].tries + 1 < RecordAttempts THEN wf' = [wf EXCEPT ![x].tries = @ + 1]
     ELSE Goto(x, IF wf[x].pc = "record" THEN "count" ELSE "done")
  /\ UNCHANGED <<dispatcher, posts>>

-----------------------------------------------------------------------------
(* The HTTP handlers.                                                        *)

CreateWebhook(p) ==
  /\ endpoint[p] = "none"
  /\ endpoint' = [endpoint EXCEPT ![p] = "enabled"]
  /\ UNCHANGED <<failCount, deliveries, deleting, inserted, dispatcher, wf, posts, faults, restarts>>

\* The endpoint is read, enabled or not, and a workflow for a fresh event is started.
TestWebhook(p, e) ==
  /\ Exists(p)
  /\ \A q \in Endpoint : <<q, e>> \notin starting /\ wf[<<q, e>>] = NoWorkflow
  /\ starting' = starting \cup {<<p, e>>}
  /\ UNCHANGED <<tables, stream, listing, wf, posts, faults, restarts>>

\* DeleteWebhook, up to the deletion of the deliveries (seen by nobody yet).
DeleteDeliveries(p) ==
  /\ Exists(p) /\ p \notin deleting
  /\ deleting' = deleting \cup {p}
  /\ UNCHANGED <<endpoint, failCount, deliveries, inserted, dispatcher, wf, posts, faults, restarts>>

\* No foreign key: rows inserted meanwhile stay behind.
DeleteEndpoint_Mutant(p) ==
  /\ p \in deleting
  /\ endpoint' = [endpoint EXCEPT ![p] = "deleted"]
  /\ deliveries' = [x \in Pair |-> IF x[1] = p /\ p \notin inserted THEN 0 ELSE deliveries[x]]
  /\ deleting' = deleting \ {p}
  /\ UNCHANGED <<failCount, inserted, dispatcher, wf, posts, faults, restarts>>

\* Then the endpoint is deleted and the transaction commits.
DeleteEndpoint(p) ==
  /\ p \in deleting /\ p \notin inserted
  /\ endpoint' = [endpoint EXCEPT ![p] = "deleted"]
  /\ deliveries' = [x \in Pair |-> IF x[1] = p THEN 0 ELSE deliveries[x]]
  /\ deleting' = deleting \ {p}
  /\ UNCHANGED <<failCount, inserted, dispatcher, wf, posts, faults, restarts>>

\* The foreign key forbids it, or the transaction fails otherwise: all of it is undone.
DeleteFails(p) ==
  /\ p \in deleting
  /\ deleting' = deleting \ {p} /\ inserted' = inserted \ {p}
  /\ \/ p \in inserted /\ NoFault
     \/ Fail
  /\ UNCHANGED <<endpoint, failCount, deliveries, dispatcher, wf, posts>>

-----------------------------------------------------------------------------

SubscriberStep ==
  \/ \E e \in Event : Receive(e) \/ FanOut(e) \/ FanOutFails(e)
  \/ \E x \in Pair : StartDelivery(x) \/ StartFails(x)
  \/ Restart
WorkflowStep(x) ==
  DeliverSucceeds(x) \/ DeliverFails(x) \/ ActivityCompletes(x) \/ ActivityFails(x)
HandlerStep(p) ==
  \/ CreateWebhook(p) \/ \E e \in TestEvent : TestWebhook(p, e)
  \/ DeleteDeliveries(p) \/ DeleteEndpoint(p) \/ DeleteFails(p)

Next ==
  \/ SubscriberStep
  \/ \E x \in Pair : WorkflowStep(x)
  \/ \E p \in Endpoint : HandlerStep(p)

\* The subscription's callback and the goroutines it starts run; Temporal retries an
\* activity until it succeeds or its attempts are used up.  Clients owe nothing.
Fairness ==
  /\ \A e \in Event : WF_vars(Receive(e)) /\ WF_vars(FanOut(e))
  /\ \A x \in Pair : /\ WF_vars(StartDelivery(x))
                     /\ WF_vars(DeliverSucceeds(x) \/ DeliverFails(x) \/ ActivityCompletes(x))

Spec == Init /\ [][Next]_vars /\ Fairness

-----------------------------------------------------------------------------

Workflow == [pc : {"none", "deliver", "record", "count", "disable", "done"},
             failed : 0..DeliverAttempts, tries : 0..RecordAttempts, ok : BOOLEAN]

TypeOK ==
  /\ endpoint \in [Endpoint -> {"none", "enabled", "disabled", "deleted"}]
  /\ failCount \in [Endpoint -> Nat]
  /\ deliveries \in [Pair -> Nat]
  /\ deleting \in SUBSET Endpoint /\ inserted \in SUBSET Endpoint
  /\ stream \in SUBSET Event /\ listing \in SUBSET Event
  /\ starting \in SUBSET Pair
  /\ wf \in [Pair -> Workflow]
  /\ posts \in [Pair -> Nat]
  /\ faults \in Nat /\ restarts \in Nat

\* Deliveries to p that have used up their attempts.
Failed(p) == {x \in Pair : x[1] = p /\ wf[x].pc \notin {"none", "deliver"} /\ ~wf[x].ok}

\* An endpoint is disabled, and its counter grows, only through deliveries that failed
\* every attempt - up to increments that were repeated because their report was lost.
DisabledForCause ==
  \A p \in Endpoint :
    /\ failCount[p] <= Cardinality(Failed(p)) + faults
    /\ endpoint[p] = "disabled" => Cardinality(Failed(p)) + faults >= maxConsecutiveFailures

\* However often an event is received and fanned out, an endpoint gets it once more
\* than attempts to deliver it failed.
RepostsNeedRetries ==
  \A x \in Pair : posts[x] <= wf[x].failed + (IF wf[x].ok THEN 1 ELSE 0)

\* The delivery log of an endpoint that is there tells of no delivery that is not over, of
\* one that is over as often as recording it was reported to fail and once more at most,
\* and it is silent only when every attempt to record failed.
DeliveriesLogged ==
  \A x \in Pair :
    /\ wf[x].pc \in {"none", "deliver"} => deliveries[x] = 0
    /\ (Exists(x[1]) /\ wf[x].pc \in {"count", "disable", "done"}) =>
         /\ deliveries[x] <= 1 + faults
         /\ deliveries[x] = 0 => faults >= RecordAttempts

\* A deletion leaves nothing behind, whatever workflows are still under way, and an
\* endpoint that is gone never comes back.
DeletedForGood ==
  [][\A p \in Endpoint : endpoint[p] = "deleted" =>
        endpoint'[p] = "deleted" /\ \A x \in Pair : x[1] = p => deliveries'[x] = 0]_vars

\* What the documentation says of a pattern: "*" is one token, and a final ">" all that
\* remain, which is everything under what comes before it.
Means(pattern, subject) ==
  \E n \in 0..Len(subject) :
    /\ n <= Len(pattern) /\ \A i \in 1..n : pattern[i] \in {"*", subject[i]}
    /\ \/ n = Len(pattern) /\ n = Len(subject)
       \/ n + 1 = Len(pattern) /\ pattern[n + 1] = ">" /\ n < Len(subject)

\* What matchPattern takes besides: a ">" for which no token is left, and one that is not
\* the last of its pattern, whatever follows it.
Lenient(pattern, subject) ==
  \E n \in 0..Len(subject) :
    /\ n < Len(pattern) /\ \A i \in 1..n : pattern[i] \in {"*", subject[i]}
    /\ pattern[n + 1] = ">"
    /\ n = Len(subject) \/ n + 1 < Len(pattern)

Describes(p, e) == \E pattern \in Patterns[p] : Means(pattern, Subject[e])
Tolerates(p, e) == \E pattern \in Patterns[p] : Lenient(pattern, Subject[e])

\* The pairs whose owner asked for them in the documentation's words, and those that are
\* delivered only because of the two cases above.
Subscription == {x \in Endpoint \X Event : Describes(x[1], x[2])}
Surplus == {x \in Endpoint \X Event : Tolerates(x[1], x[2])}

\* Nobody gets an event that no pattern of theirs describes, but for the surplus that the
\* documentation does not speak of.
OnlySubscribed ==
  \A x \in Endpoint \X Event : posts[x] > 0 => x \in Subscription \cup Surplus

Asked == Subscription \cup Surplus \cup (Endpoint \X TestEvent)

\* However often an event comes, is listed and started, the endpoint's server sees the
\* promise of module DeliveryPromise kept: attempts at what was asked for only, bounded
\* in number, and none after one is accepted or the delivery is given up.
Promise == INSTANCE DeliveryPromise
  WITH Wanted   <- Asked,
       Attempts <- DeliverAttempts,
       attempts <- [x \in Pair |-> wf[x].failed + IF wf[x].ok THEN 1 ELSE 0],
       received <- posts,
       outcome  <- [x \in Pair |-> CASE wf[x].ok -> "delivered"
                                     [] wf[x].pc \in {"none", "deliver"} -> "open"
                                     [] OTHER -> "given_up"]

ImplementsPromise == Promise!Spec

\* x is nowhere any more: after the acknowledgement, a restart or an error took it.
Lost(x) ==
  /\ x[2] \notin stream \cup listing /\ x \notin starting /\ wf[x].pc = "none"
  /\ faults + restarts > 0

\* An event on the stream is delivered, or given up after all attempts, to each enabled
\* subscriber, unless it is lost or the endpoint disabled before its workflow starts: the
\* workflow ends, whatever fails and whoever restarts.
EventuallyDelivered ==
  \A x \in Subscription :
    (x[2] \in stream /\ endpoint[x[1]] = "enabled") ~>
      \/ wf[x].pc = "done"
      \/ wf[x].pc = "none" /\ (endpoint[x[1]] # "enabled" \/ Lost(x))
=============================================================================
