---------------------------- MODULE WebhookProofs ------------------------------
(***************************************************************************)
(* Proofs about modules EventPattern and WebhookDelivery, for any finite   *)
(* sets of endpoints and events, any patterns, numbers of attempts and     *)
(* threshold, and any bounds.                                              *)
(***************************************************************************)
EXTENDS WebhookDelivery, FiniteSetTheorems, WellFoundedInduction, TLAPS

-----------------------------------------------------------------------------
(* Patterns.                                                                 *)

\* A set of positions that is not empty has a first one.
LEMMA FirstOf ==
  ASSUME NEW T \in SUBSET Nat, T # {}
  PROVE  \E t \in T : \A u \in T : t <= u
<1>1. PICK t \in T : \A u \in T : <<u, t>> \notin OpToRel(<, Nat)
  BY NatLessThanWellFounded, WFMin
<1>2. \A u \in T : ~(u < t)
  BY <1>1 DEF OpToRel
<1> QED
  BY <1>2

\* The loop of matchPattern (services/webhooks/subscriber.go) takes whatever the documentation
\* says a pattern matches, and besides that only a subject at whose end a ">" begins, or
\* what comes before a ">" that is not the last token of its pattern.
THEOREM PatternMeaning ==
  ASSUME NEW pattern \in Seq(STRING), NEW subject \in Seq(STRING)
  PROVE  matchPattern(pattern, subject) <=> Means(pattern, subject) \/ Lenient(pattern, subject)
<1> DEFINE L == Len(pattern)
           M == Len(subject)
           tails == {i \in DOMAIN pattern : pattern[i] = ">"}
           Agrees(i) == pattern[i] \in {"*", subject[i]}
           Upto(n) == \A i \in 1..n : Agrees(i)
           Matches == \E n \in 0..L : /\ n <= M /\ Upto(n)
                                      /\ n = L => n = M
                                      /\ n # L => pattern[n + 1] = ">"
<1>1. L \in Nat /\ M \in Nat /\ DOMAIN pattern = 1..L /\ DOMAIN subject = 1..M
  OBVIOUS
<1>2. tails \subseteq 1..L /\ \A i \in 1..L : i \in tails <=> pattern[i] = ">"
  BY <1>1
<1>3. matchPattern(pattern, subject) <=>
        /\ \A i \in 1..L : (\A t \in tails : i < t) => i \in 1..M /\ Agrees(i)
        /\ tails # {} \/ L = M
  BY <1>1, Zenon DEF matchPattern
<1>4. Matches <=> Means(pattern, subject) \/ Lenient(pattern, subject)
  <2>1. Means(pattern, subject) <=>
          \E n \in 0..M : /\ n <= L /\ Upto(n)
                          /\ \/ n = L /\ n = M
                             \/ n + 1 = L /\ pattern[n + 1] = ">" /\ n < M
    BY Zenon DEF Means
  <2>2. Lenient(pattern, subject) <=>
          \E n \in 0..M : /\ n < L /\ Upto(n)
                          /\ pattern[n + 1] = ">"
                          /\ n = M \/ n + 1 < L
    BY Zenon DEF Lenient
  <2> HIDE DEF L, M, Upto, Agrees
  <2>3. ASSUME NEW n \in 0..L, n <= M, n = L => n = M, n # L => pattern[n + 1] = ">"
        PROVE  /\ n \in 0..M /\ n <= L
               /\ \/ n = L /\ n = M
                  \/ n + 1 = L /\ pattern[n + 1] = ">" /\ n < M
                  \/ n < L /\ pattern[n + 1] = ">" /\ (n = M \/ n + 1 < L)
    BY <1>1, <2>3
  <2>4. Matches => Means(pattern, subject) \/ Lenient(pattern, subject)
    BY <2>1, <2>2, <2>3
  <2>5. Means(pattern, subject) => Matches
    BY <1>1, <2>1
  <2>6. Lenient(pattern, subject) => Matches
    BY <1>1, <2>2
  <2> QED
    BY <2>4, <2>5, <2>6
<1> HIDE DEF L, M, tails, Agrees
<1>5. ASSUME matchPattern(pattern, subject) PROVE Matches
  <2>1. CASE tails = {}
    <3>1. L = M /\ \A i \in 1..L : Agrees(i)
      BY <1>3, <1>5, <2>1
    <3> QED
      BY <1>1, <3>1
  <2>2. CASE tails # {}
    <3>1. PICK t \in tails : \A u \in tails : t <= u
      BY <1>1, <1>2, <2>2, FirstOf
    <3>2. t \in 1..L /\ pattern[t] = ">"
      BY <1>2
    <3>3. \A i \in 1..(t - 1) : i \in 1..M /\ Agrees(i)
      BY <1>1, <1>2, <1>3, <1>5, <3>1, <3>2
    <3>4. t - 1 <= M
      BY <1>1, <3>2, <3>3
    <3>5. t - 1 \in 0..L /\ t - 1 # L /\ (t - 1) + 1 = t
      BY <1>1, <3>2
    <3> QED
      BY <1>1, <3>2, <3>3, <3>4, <3>5
  <2> QED
    BY <2>1, <2>2
<1>6. ASSUME Matches PROVE matchPattern(pattern, subject)
  <2>1. PICK n \in 0..L : /\ n <= M
                          /\ \A i \in 1..n : Agrees(i)
                          /\ n = L => n = M
                          /\ n # L => pattern[n + 1] = ">"
    BY <1>6
  <2>2. \A i \in 1..n : i \in 1..M
    BY <1>1, <2>1
  <2>3. CASE n = L
    <3>1. L = M /\ \A i \in 1..L : i \in 1..M /\ Agrees(i)
      BY <2>1, <2>2, <2>3
    <3> QED
      BY <1>3, <3>1
  <2>4. CASE n # L
    <3>1. n + 1 \in tails
      BY <1>1, <1>2, <2>1, <2>4
    <3>2. \A i \in 1..L : (\A t \in tails : i < t) => i \in 1..n
      BY <1>1, <3>1
    <3>3. \A i \in 1..n : i \in 1..M /\ Agrees(i)
      BY <2>1, <2>2
    <3>4. \A i \in 1..L : (\A t \in tails : i < t) => i \in 1..M /\ Agrees(i)
      BY <3>2, <3>3
    <3>5. tails # {}
      BY <3>1
    <3> QED
      BY <1>3, <3>4, <3>5
  <2> QED
    BY <2>3, <2>4
<1> QED
  BY <1>4, <1>5, <1>6

-----------------------------------------------------------------------------
(* Types, and the shape of a delivery workflow.                              *)

\* A workflow that has not started is blank; one that delivers has an attempt left and no
\* success; every other activity has an attempt left.
WorkflowInv ==
  \A x \in Pair :
    /\ wf[x].pc = "none" => wf[x] = NoWorkflow
    /\ wf[x].pc = "deliver" => ~wf[x].ok /\ wf[x].failed < DeliverAttempts
    /\ wf[x].tries < RecordAttempts

Ground == TypeOK /\ WorkflowInv

LEMMA InitGround == Init => Ground
  BY WebhookAssumption DEF Init, Ground, TypeOK, WorkflowInv, Workflow, NoWorkflow

LEMMA PairParts ==
  ASSUME NEW x \in Pair
  PROVE  x[1] \in Endpoint /\ x[2] \in Event \cup TestEvent
  BY DEF Pair

\* No workflow but x's changes.
Others(x) == \A y \in Pair \ {x} : wf'[y] = wf[y]

\* What each step of a workflow does to it.
LEMMA StartEffect ==
  ASSUME Ground, NEW x \in Pair, StartDelivery(x)
  PROVE  /\ wf' \in [Pair -> Workflow] /\ Others(x)
         /\ \/ wf[x].pc # "none" /\ wf'[x] = wf[x]
            \/ /\ wf[x] = NoWorkflow /\ wf[x].pc = "none" /\ wf[x].ok = FALSE /\ wf[x].failed = 0
               /\ wf'[x].pc = "deliver"
               /\ wf'[x].failed = 0 /\ wf'[x].tries = 0 /\ wf'[x].ok = FALSE
<1>1. wf \in [Pair -> Workflow]
  BY DEF Ground, TypeOK
<1>0. 0 \in 0..DeliverAttempts /\ 0 \in 0..RecordAttempts
  BY WebhookAssumption
<1>2. [NoWorkflow EXCEPT !.pc = "deliver"] \in Workflow
  BY <1>0 DEF NoWorkflow, Workflow
<1>3. wf' = [wf EXCEPT ![x] = IF wf[x] = NoWorkflow THEN [NoWorkflow EXCEPT !.pc = "deliver"]
                                                   ELSE wf[x]]
  BY <1>1 DEF StartDelivery
<1>4. CASE wf[x] = NoWorkflow
  BY <1>1, <1>2, <1>3, <1>4 DEF NoWorkflow, Others
<1>5. CASE wf[x] # NoWorkflow
  BY <1>1, <1>3, <1>5 DEF Ground, WorkflowInv, Others
<1> QED
  BY <1>4, <1>5

LEMMA SuccessEffect ==
  ASSUME Ground, NEW x \in Pair, DeliverSucceeds(x)
  PROVE  /\ wf' \in [Pair -> Workflow] /\ Others(x)
         /\ wf[x].pc = "deliver" /\ wf'[x].pc = "record" /\ wf'[x].ok = TRUE
         /\ wf'[x].failed = wf[x].failed /\ wf'[x].tries = wf[x].tries
  BY DEF Ground, TypeOK, Workflow, DeliverSucceeds, Others

LEMMA FailureEffect ==
  ASSUME Ground, NEW x \in Pair, DeliverFails(x)
  PROVE  /\ wf' \in [Pair -> Workflow] /\ Others(x)
         /\ wf[x].pc = "deliver" /\ wf[x].ok = FALSE /\ wf'[x].ok = FALSE
         /\ wf'[x].failed = wf[x].failed + 1 /\ wf'[x].tries = wf[x].tries
         /\ \/ wf'[x].pc = "deliver" /\ wf'[x].failed < DeliverAttempts
            \/ wf'[x].pc = "record"
<1>1. /\ wf \in [Pair -> Workflow] /\ wf[x] \in Workflow
      /\ wf[x].pc = "deliver" /\ ~wf[x].ok /\ wf[x].failed < DeliverAttempts
      /\ DeliverAttempts \in Nat /\ RecordAttempts \in Nat
  BY WebhookAssumption DEF Ground, TypeOK, WorkflowInv, DeliverFails
<1>2. wf[x].failed \in Nat /\ wf[x].failed + 1 \in 0..DeliverAttempts
  BY <1>1 DEF Workflow
<1>3. CASE wf[x].failed + 1 < DeliverAttempts
  <2>1. wf' = [wf EXCEPT ![x] = [@ EXCEPT !.failed = wf[x].failed + 1, !.pc = "deliver"]]
    BY <1>1, <1>3 DEF DeliverFails
  <2> QED
    BY <1>1, <1>2, <1>3, <2>1 DEF Workflow, Others
<1>4. CASE ~(wf[x].failed + 1 < DeliverAttempts)
  <2>1. wf' = [wf EXCEPT ![x] = [@ EXCEPT !.failed = wf[x].failed + 1, !.pc = "record"]]
    BY <1>1, <1>4 DEF DeliverFails
  <2> QED
    BY <1>1, <1>2, <2>1 DEF Workflow, Others
<1> QED
  BY <1>3, <1>4

\* What follows an activity: pc moves on with no attempt used, and nothing else changes.
LEMMA GotoEffect ==
  ASSUME Ground, NEW x \in Pair,
         NEW pc \in {"none", "deliver", "record", "count", "disable", "done"}, Goto(x, pc)
  PROVE  /\ wf' \in [Pair -> Workflow] /\ Others(x)
         /\ wf'[x].pc = pc /\ wf'[x].tries = 0
         /\ wf'[x].ok = wf[x].ok /\ wf'[x].failed = wf[x].failed
<1>1. wf \in [Pair -> Workflow] /\ wf[x] \in Workflow
  BY DEF Ground, TypeOK
<1>2. 0 \in 0..RecordAttempts
  BY WebhookAssumption
<1>3. [wf[x] EXCEPT !.pc = pc, !.tries = 0] \in Workflow
  BY <1>1, <1>2 DEF Workflow
<1>4. wf' = [wf EXCEPT ![x] = [wf[x] EXCEPT !.pc = pc, !.tries = 0]]
  BY <1>1 DEF Goto
<1> QED
  BY <1>1, <1>3, <1>4 DEF Workflow, Others

LEMMA CompletionEffect ==
  ASSUME Ground, NEW x \in Pair, ActivityCompletes(x)
  PROVE  /\ wf' \in [Pair -> Workflow] /\ Others(x)
         /\ wf'[x].tries = 0 /\ wf'[x].ok = wf[x].ok /\ wf'[x].failed = wf[x].failed
         /\ \/ wf[x].pc = "record" /\ wf'[x].pc = "count"
            \/ /\ wf[x].pc = "count" /\ wf'[x].pc = "disable"
               /\ ~wf[x].ok /\ Exists(x[1]) /\ Excessive(failCount'[x[1]])
            \/ wf[x].pc \in {"count", "disable"} /\ wf'[x].pc = "done"
  BY GotoEffect DEF ActivityCompletes

LEMMA RetryEffect ==
  ASSUME Ground, NEW x \in Pair, ActivityFails(x)
  PROVE  /\ wf' \in [Pair -> Workflow] /\ Others(x)
         /\ wf'[x].tries < RecordAttempts
         /\ wf'[x].ok = wf[x].ok /\ wf'[x].failed = wf[x].failed
         /\ \/ /\ wf[x].pc \in {"record", "count", "disable"} /\ wf'[x].pc = wf[x].pc
               /\ wf'[x].tries = wf[x].tries + 1
            \/ /\ wf[x].pc = "record" /\ wf'[x].pc = "count"
               /\ wf'[x].tries = 0 /\ wf[x].tries + 1 >= RecordAttempts
            \/ /\ wf[x].pc \in {"count", "disable"} /\ wf'[x].pc = "done"
               /\ wf'[x].tries = 0
<1>1. /\ wf \in [Pair -> Workflow] /\ wf[x] \in Workflow
      /\ wf[x].tries < RecordAttempts /\ RecordAttempts \in Nat \ {0}
      /\ wf[x].pc \in {"record", "count", "disable"}
  BY WebhookAssumption DEF Ground, TypeOK, WorkflowInv, ActivityFails
<1>2. CASE wf[x].tries + 1 < RecordAttempts
  <2>1. wf[x].tries + 1 \in 0..RecordAttempts
    BY <1>1, <1>2 DEF Workflow
  <2>2. wf' = [wf EXCEPT ![x].tries = wf[x].tries + 1]
    BY <1>1, <1>2 DEF ActivityFails
  <2> QED
    BY <1>1, <1>2, <2>1, <2>2 DEF Workflow, Others
<1>3. CASE ~(wf[x].tries + 1 < RecordAttempts)
  <2>1. \E pc \in {"count", "done"} :
          /\ Goto(x, pc)
          /\ pc = "count" <=> wf[x].pc = "record"
    BY <1>3 DEF ActivityFails
  <2>2. wf[x].tries \in Nat
    BY <1>1 DEF Workflow
  <2> QED
    BY <1>1, <1>3, <2>1, <2>2, GotoEffect
<1> QED
  BY <1>2, <1>3

\* What an activity does to the tables of an endpoint that is there; of another one nothing
\* changes.
LEMMA PerformEffect ==
  ASSUME Ground, NEW x \in Pair, wf[x].pc \in {"record", "count", "disable"}, Perform(x)
  PROVE  /\ endpoint' \in [Endpoint -> {"none", "enabled", "disabled", "deleted"}]
         /\ failCount' \in [Endpoint -> Nat] /\ deliveries' \in [Pair -> Nat]
         /\ inserted' \in SUBSET Endpoint /\ deleting' = deleting
         /\ \A p \in Endpoint :
              endpoint'[p] = IF p = x[1] /\ Exists(p) /\ wf[x].pc = "disable"
                             THEN "disabled" ELSE endpoint[p]
         /\ \A p \in Endpoint :
              failCount'[p] = IF p = x[1] /\ Exists(p) /\ wf[x].pc = "count"
                              THEN IF wf[x].ok THEN 0 ELSE failCount[p] + 1
                              ELSE failCount[p]
         /\ \A y \in Pair :
              deliveries'[y] = IF y = x /\ Exists(x[1]) /\ wf[x].pc = "record"
                               THEN deliveries[y] + 1 ELSE deliveries[y]
<1>1. /\ endpoint \in [Endpoint -> {"none", "enabled", "disabled", "deleted"}]
      /\ failCount \in [Endpoint -> Nat] /\ deliveries \in [Pair -> Nat]
      /\ deleting \in SUBSET Endpoint /\ inserted \in SUBSET Endpoint
      /\ x[1] \in Endpoint
  BY PairParts DEF Ground, TypeOK
<1>2. CASE ~Exists(x[1])
  BY <1>1, <1>2 DEF Perform, tables
<1>3. CASE Exists(x[1]) /\ wf[x].pc = "record"
  BY <1>1, <1>3 DEF Perform, RecordDelivery
<1>4. CASE Exists(x[1]) /\ wf[x].pc = "count"
  BY <1>1, <1>4 DEF Perform, ResetFailCount, IncrementFailCount
<1>5. CASE Exists(x[1]) /\ wf[x].pc = "disable"
  BY <1>1, <1>5 DEF Perform, DisableEndpoint
<1> QED
  BY <1>2, <1>3, <1>4, <1>5

\* Events of the stream are fanned out to pairs.
LEMMA RecipientPairs ==
  ASSUME NEW e \in Event
  PROVE  Recipients(e) \X {e} \in SUBSET Pair
  BY DEF Recipients, Pair

\* Each step keeps the types and the workflows' shape.
LEMMA NextGround == Ground /\ [Next]_vars => Ground'
<1> SUFFICES ASSUME Ground, [Next]_vars PROVE Ground'
  OBVIOUS
<1>0. faults \in Nat /\ restarts \in Nat /\ posts \in [Pair -> Nat]
  BY DEF Ground, TypeOK
<1>1. CASE UNCHANGED <<tables, wf, posts>> /\ faults' \in {faults, faults + 1}
           /\ restarts' \in {restarts, restarts + 1}
           /\ stream' \in SUBSET Event /\ listing' \in SUBSET Event /\ starting' \in SUBSET Pair
  BY <1>0, <1>1 DEF Ground, TypeOK, WorkflowInv, tables
<1>2. CASE UNCHANGED vars
  BY <1>1, <1>2 DEF Ground, TypeOK, vars, tables, dispatcher
<1>3. ASSUME NEW e \in Event, Receive(e) \/ FanOut(e) \/ FanOutFails(e) PROVE Ground'
  <2>1. /\ stream' \in SUBSET Event /\ listing' \in SUBSET Event /\ starting' \in SUBSET Pair
        /\ UNCHANGED <<tables, wf, posts>> /\ faults' \in {faults, faults + 1}
        /\ restarts' \in {restarts, restarts + 1}
    BY <1>3, RecipientPairs DEF Ground, TypeOK, Receive, FanOut, FanOutFails, Fail, NoFault
  <2> QED
    BY <1>1, <2>1
<1>4. ASSUME NEW x \in Pair, StartFails(x) PROVE Ground'
  <2>1. /\ stream' \in SUBSET Event /\ listing' \in SUBSET Event /\ starting' \in SUBSET Pair
        /\ UNCHANGED <<tables, wf, posts>> /\ faults' \in {faults, faults + 1}
        /\ restarts' \in {restarts, restarts + 1}
    BY <1>4 DEF Ground, TypeOK, StartFails, Fail
  <2> QED
    BY <1>1, <2>1
<1>5. CASE Restart
  <2>1. /\ stream' \in SUBSET Event /\ listing' \in SUBSET Event /\ starting' \in SUBSET Pair
        /\ UNCHANGED <<tables, wf, posts>> /\ faults' \in {faults, faults + 1}
        /\ restarts' \in {restarts, restarts + 1}
    BY <1>5 DEF Ground, TypeOK, Restart
  <2> QED
    BY <1>1, <2>1
<1>6. ASSUME NEW x \in Pair, StartDelivery(x) PROVE Ground'
  <2>1. WorkflowInv'
    <3>1. /\ wf'[x].pc = "none" => wf'[x] = NoWorkflow
          /\ wf'[x].pc = "deliver" => ~wf'[x].ok /\ wf'[x].failed < DeliverAttempts
          /\ wf'[x].tries < RecordAttempts
      <4>1. CASE wf'[x] = wf[x]
        BY <4>1 DEF Ground, WorkflowInv
      <4>2. CASE wf'[x] # wf[x]
        <5>1. /\ wf'[x].pc = "deliver" /\ wf'[x].failed = 0 /\ wf'[x].tries = 0
              /\ wf'[x].ok = FALSE
          BY <1>6, <4>2, StartEffect
        <5>2. 0 < DeliverAttempts /\ 0 < RecordAttempts
          BY WebhookAssumption
        <5> QED
          BY <5>1, <5>2
      <4> QED
        BY <4>1, <4>2
    <3> QED
      BY <1>6, <3>1, StartEffect DEF Ground, WorkflowInv, Others
  <2>2. TypeOK'
    BY <1>6, StartEffect DEF StartDelivery, Ground, TypeOK, tables
  <2> QED
    BY <2>1, <2>2 DEF Ground
<1>7. ASSUME NEW x \in Pair, DeliverSucceeds(x) PROVE Ground'
  <2>1. WorkflowInv'
    BY <1>7, SuccessEffect DEF Ground, WorkflowInv, Others
  <2>2. posts' \in [Pair -> Nat]
    <3>1. [posts EXCEPT ![x] = @ + 1] \in [Pair -> Nat]
      BY <1>0
    <3> QED
      BY <1>0, <1>7, <3>1 DEF DeliverSucceeds
  <2>3. TypeOK'
    BY <1>7, <2>2, SuccessEffect DEF DeliverSucceeds, Ground, TypeOK, tables, dispatcher
  <2> QED
    BY <2>1, <2>3 DEF Ground
<1>8. ASSUME NEW x \in Pair, DeliverFails(x) PROVE Ground'
  <2>1. WorkflowInv'
    BY <1>8, FailureEffect DEF Ground, WorkflowInv, Others
  <2>2. posts' \in [Pair -> Nat]
    <3>1. [posts EXCEPT ![x] = @ + 1] \in [Pair -> Nat]
      BY <1>0
    <3> QED
      BY <1>0, <1>8, <3>1 DEF DeliverFails
  <2>3. TypeOK'
    BY <1>8, <2>2, FailureEffect DEF DeliverFails, Ground, TypeOK, tables, dispatcher
  <2> QED
    BY <2>1, <2>3 DEF Ground
<1>9. ASSUME NEW x \in Pair, ActivityCompletes(x) PROVE Ground'
  <2>1. WorkflowInv'
    BY <1>9, CompletionEffect, WebhookAssumption DEF Ground, WorkflowInv, Others
  <2>2. TypeOK'
    BY <1>9, CompletionEffect, PerformEffect
       DEF ActivityCompletes, Ground, TypeOK, dispatcher
  <2> QED
    BY <2>1, <2>2 DEF Ground
<1>10. ASSUME NEW x \in Pair, ActivityFails(x) PROVE Ground'
  <2>1. WorkflowInv'
    BY <1>10, RetryEffect DEF Ground, WorkflowInv, Others
  <2>2. /\ endpoint' \in [Endpoint -> {"none", "enabled", "disabled", "deleted"}]
        /\ failCount' \in [Endpoint -> Nat] /\ deliveries' \in [Pair -> Nat]
        /\ inserted' \in SUBSET Endpoint /\ deleting' \in SUBSET Endpoint
    BY <1>10, PerformEffect DEF ActivityFails, Ground, TypeOK, tables
  <2>3. TypeOK'
    BY <1>10, <2>2, RetryEffect DEF ActivityFails, Fail, Ground, TypeOK, dispatcher
  <2> QED
    BY <2>1, <2>3 DEF Ground
<1>11. ASSUME NEW p \in Endpoint, CreateWebhook(p) \/ DeleteDeliveries(p) \/ DeleteFails(p)
       PROVE  Ground'
  <2>1. UNCHANGED wf
    BY <1>11 DEF CreateWebhook, DeleteDeliveries, DeleteFails
  <2>2. TypeOK'
    BY <1>11 DEF CreateWebhook, DeleteDeliveries, DeleteFails, Fail, NoFault, Ground, TypeOK,
                 dispatcher
  <2> QED
    BY <2>1, <2>2 DEF Ground, WorkflowInv
<1>12. ASSUME NEW p \in Endpoint, NEW e \in TestEvent, TestWebhook(p, e) PROVE Ground'
  <2>1. <<p, e>> \in Pair
    BY DEF Pair
  <2> QED
    BY <1>12, <2>1 DEF TestWebhook, Ground, TypeOK, WorkflowInv, tables
<1>13. ASSUME NEW p \in Endpoint, DeleteEndpoint(p) PROVE Ground'
  <2>1. deliveries' \in [Pair -> Nat]
    BY <1>13 DEF DeleteEndpoint, Ground, TypeOK
  <2> QED
    BY <1>13, <2>1 DEF DeleteEndpoint, Ground, TypeOK, WorkflowInv, dispatcher
<1> QED
  BY <1>2, <1>3, <1>4, <1>5, <1>6, <1>7, <1>8, <1>9, <1>10, <1>11, <1>12, <1>13
     DEF Next, SubscriberStep, WorkflowStep, HandlerStep

\* The webhooks service keeps its types.
THEOREM WebhookTypeCorrect == Spec => []TypeOK
<1>1. Init => Ground
  BY InitGround
<1>2. Ground /\ [Next]_vars => Ground'
  BY NextGround
<1>3. Ground => TypeOK
  BY DEF Ground
<1> QED
  BY <1>1, <1>2, <1>3, PTL DEF Spec

-----------------------------------------------------------------------------
(* Steps that deliver nothing.                                               *)

LEMMA DispatchQuiet ==
  ASSUME NEW e \in Event, Receive(e) \/ FanOut(e) \/ FanOutFails(e)
  PROVE  UNCHANGED <<tables, wf, posts>> /\ faults' \in {faults, faults + 1}
  BY DEF Receive, FanOut, FanOutFails, Fail, NoFault

LEMMA StartFailsQuiet ==
  ASSUME NEW x \in Pair, StartFails(x)
  PROVE  UNCHANGED <<tables, wf, posts>> /\ faults' \in {faults, faults + 1}
  BY DEF StartFails, Fail

LEMMA RestartQuiet ==
  ASSUME Restart
  PROVE  UNCHANGED <<tables, wf, posts>> /\ faults' \in {faults, faults + 1}
  BY DEF Restart

LEMMA TestQuiet ==
  ASSUME NEW p \in Endpoint, NEW e \in TestEvent, TestWebhook(p, e)
  PROVE  UNCHANGED <<tables, wf, posts>> /\ faults' \in {faults, faults + 1}
  BY DEF TestWebhook

\* The steps that may change an endpoint, a delivery or a workflow.
Changes ==
  \/ \E x \in Pair : StartDelivery(x) \/ WorkflowStep(x)
  \/ \E p \in Endpoint : CreateWebhook(p) \/ DeleteDeliveries(p) \/ DeleteEndpoint(p) \/ DeleteFails(p)

LEMMA QuietOrChanges ==
  ASSUME [Next]_vars
  PROVE  \/ UNCHANGED <<tables, wf, posts>> /\ faults' \in {faults, faults + 1}
         \/ Changes
<1>1. CASE UNCHANGED vars
  BY <1>1 DEF vars
<1>2. CASE \E e \in Event : Receive(e) \/ FanOut(e) \/ FanOutFails(e)
  BY <1>2, DispatchQuiet
<1>3. CASE \E x \in Pair : StartDelivery(x) \/ StartFails(x)
  BY <1>3, StartFailsQuiet DEF Changes
<1>4. CASE Restart
  BY <1>4, RestartQuiet
<1>5. CASE \E x \in Pair : WorkflowStep(x)
  BY <1>5 DEF Changes
<1>6. CASE \E p \in Endpoint : HandlerStep(p)
  BY <1>6, TestQuiet DEF Changes, HandlerStep
<1> QED
  BY <1>1, <1>2, <1>3, <1>4, <1>5, <1>6 DEF Next, SubscriberStep

-----------------------------------------------------------------------------
(* Posts.                                                                    *)

LEMMA Counts ==
  ASSUME Ground, NEW x \in Pair
  PROVE  posts[x] \in Nat /\ wf[x].failed \in Nat /\ wf[x].ok \in BOOLEAN
  BY DEF Ground, TypeOK, Workflow

\* A step of x leaves the others' accounts as they are.
LEMMA RepostsFrame ==
  ASSUME RepostsNeedRetries, NEW x \in Pair, Others(x),
         \A y \in Pair \ {x} : posts'[y] = posts[y],
         posts'[x] <= wf'[x].failed + (IF wf'[x].ok THEN 1 ELSE 0)
  PROVE  RepostsNeedRetries'
<1> SUFFICES ASSUME NEW y \in Pair
             PROVE  posts'[y] <= wf'[y].failed + (IF wf'[y].ok THEN 1 ELSE 0)
  BY DEF RepostsNeedRetries
<1>1. CASE y = x
  BY <1>1
<1>2. CASE y # x
  <2>1. posts'[y] = posts[y] /\ wf'[y] = wf[y]
    BY <1>2 DEF Others
  <2>2. posts[y] <= wf[y].failed + (IF wf[y].ok THEN 1 ELSE 0)
    BY DEF RepostsNeedRetries
  <2> QED
    BY <2>1, <2>2
<1> QED
  BY <1>1, <1>2

LEMMA NextReposts == Ground /\ RepostsNeedRetries /\ [Next]_vars => RepostsNeedRetries'
<1> SUFFICES ASSUME Ground, RepostsNeedRetries, [Next]_vars PROVE RepostsNeedRetries'
  OBVIOUS
<1>0. posts \in [Pair -> Nat] /\ wf \in [Pair -> Workflow]
  BY DEF Ground, TypeOK
<1>1. CASE UNCHANGED <<wf, posts>>
  BY <1>1 DEF RepostsNeedRetries
<1>2. ASSUME NEW x \in Pair, StartDelivery(x) PROVE RepostsNeedRetries'
  <2>1. UNCHANGED posts
    BY <1>2 DEF StartDelivery
  <2>2. posts[x] <= wf'[x].failed + (IF wf'[x].ok THEN 1 ELSE 0)
    <3>1. posts[x] <= wf[x].failed + (IF wf[x].ok THEN 1 ELSE 0)
      BY DEF RepostsNeedRetries
    <3>2. \/ wf'[x] = wf[x]
          \/ wf[x].ok = FALSE /\ wf[x].failed = 0 /\ wf'[x].failed = 0 /\ wf'[x].ok = FALSE
      BY <1>2, StartEffect
    <3> QED
      BY <3>1, <3>2
  <2>3. Others(x)
    BY <1>2, StartEffect
  <2> QED
    BY <2>1, <2>2, <2>3, RepostsFrame
<1>3. ASSUME NEW x \in Pair, DeliverSucceeds(x) PROVE RepostsNeedRetries'
  <2>1. posts'[x] = posts[x] + 1 /\ \A y \in Pair \ {x} : posts'[y] = posts[y]
    BY <1>0, <1>3 DEF DeliverSucceeds
  <2>2. wf[x].ok = FALSE
    <3>1. ~wf[x].ok
      BY <1>3 DEF DeliverSucceeds, Ground, WorkflowInv
    <3>2. wf[x].ok \in BOOLEAN
      BY Counts
    <3> QED
      BY <3>1, <3>2
  <2>3. posts[x] <= wf[x].failed
    BY <2>2, Counts DEF RepostsNeedRetries
  <2>4. wf'[x].ok = TRUE /\ wf'[x].failed = wf[x].failed
    BY <1>3, SuccessEffect
  <2>5. posts'[x] <= wf'[x].failed + (IF wf'[x].ok THEN 1 ELSE 0)
    BY <2>1, <2>3, <2>4, Counts
  <2>6. Others(x)
    BY <1>3, SuccessEffect
  <2> QED
    BY <2>1, <2>5, <2>6, RepostsFrame
<1>4. ASSUME NEW x \in Pair, DeliverFails(x) PROVE RepostsNeedRetries'
  <2>1. posts'[x] \in {posts[x], posts[x] + 1} /\ \A y \in Pair \ {x} : posts'[y] = posts[y]
    BY <1>0, <1>4 DEF DeliverFails
  <2>2. wf[x].ok = FALSE /\ wf'[x].ok = FALSE /\ wf'[x].failed = wf[x].failed + 1
    BY <1>4, FailureEffect
  <2>3. posts[x] <= wf[x].failed
    BY <2>2, Counts DEF RepostsNeedRetries
  <2>4. posts'[x] <= wf'[x].failed + (IF wf'[x].ok THEN 1 ELSE 0)
    BY <2>1, <2>2, <2>3, Counts
  <2>5. Others(x)
    BY <1>4, FailureEffect
  <2> QED
    BY <2>1, <2>4, <2>5, RepostsFrame
<1>5. ASSUME NEW x \in Pair, ActivityCompletes(x) PROVE RepostsNeedRetries'
  <2>1. UNCHANGED posts
    BY <1>5 DEF ActivityCompletes
  <2> QED
    BY <1>5, <2>1, CompletionEffect DEF RepostsNeedRetries, Others
<1>6. ASSUME NEW x \in Pair, ActivityFails(x) PROVE RepostsNeedRetries'
  <2>1. UNCHANGED posts
    BY <1>6 DEF ActivityFails
  <2> QED
    BY <1>6, <2>1, RetryEffect DEF RepostsNeedRetries, Others
<1>7. ASSUME NEW p \in Endpoint,
             CreateWebhook(p) \/ DeleteDeliveries(p) \/ DeleteEndpoint(p) \/ DeleteFails(p)
      PROVE  UNCHANGED <<wf, posts>>
  BY <1>7 DEF CreateWebhook, DeleteDeliveries, DeleteEndpoint, DeleteFails
<1> QED
  BY <1>1, <1>2, <1>3, <1>4, <1>5, <1>6, <1>7, QuietOrChanges DEF Changes, WorkflowStep

\* However often an event is received, fanned out and started, each POST but one has been
\* paid for with a failed attempt (workflow.go, dispatcher.go).
THEOREM RepostsBounded == Spec => []RepostsNeedRetries
<1>1. Init => Ground /\ RepostsNeedRetries
  BY InitGround DEF Init, RepostsNeedRetries, NoWorkflow
<1>2. Ground /\ RepostsNeedRetries /\ [Next]_vars => Ground' /\ RepostsNeedRetries'
  BY NextGround, NextReposts
<1> QED
  BY <1>1, <1>2, PTL DEF Spec

-----------------------------------------------------------------------------
(* The delivery log.                                                         *)

\* What the log may say of x.  Before its workflow records a delivery there is no row, and
\* while it does there are no more than attempts that failed; afterwards one more at most,
\* and none only if the attempts are used up.  Each of them took a fault.  Nothing is under
\* way to an endpoint that was never registered, and nothing is left of a deleted one.
Logged(x) ==
  /\ wf[x].pc \in {"none", "deliver"} => deliveries[x] = 0
  /\ endpoint[x[1]] = "deleted" => deliveries[x] = 0
  /\ endpoint[x[1]] = "none" => x \notin starting /\ wf[x].pc = "none"
  /\ wf[x].tries <= faults
  /\ (Exists(x[1]) /\ wf[x].pc = "record") => deliveries[x] <= wf[x].tries
  /\ (Exists(x[1]) /\ wf[x].pc \in {"count", "disable", "done"}) =>
       /\ deliveries[x] <= 1 + faults
       /\ deliveries[x] = 0 => faults >= RecordAttempts

LogInv == \A x \in Pair : Logged(x)

LEMMA InitLog == Init => LogInv
  BY PairParts DEF Init, LogInv, Logged, NoWorkflow, Exists

LEMMA LogTypes ==
  ASSUME Ground, NEW x \in Pair
  PROVE  /\ deliveries[x] \in Nat /\ wf[x].tries \in Nat
         /\ faults \in Nat /\ RecordAttempts \in Nat
  BY WebhookAssumption DEF Ground, TypeOK, Workflow

\* What the log may say of a pair that a step leaves alone, it may say after it.
LEMMA LogKept ==
  ASSUME Ground, NEW x \in Pair, Logged(x), wf'[x] = wf[x], deliveries'[x] = deliveries[x],
         faults' \in {faults, faults + 1},
         endpoint'[x[1]] = endpoint[x[1]] \/ (endpoint'[x[1]] # "none" /\ Exists(x[1])),
         endpoint'[x[1]] = "deleted" => endpoint[x[1]] = "deleted",
         x \in starting' => x \in starting \/ endpoint[x[1]] # "none"
  PROVE  Logged(x)'
  BY LogTypes DEF Logged, Exists

\* A step of workflow x before it records keeps LogInv when what x does was due.
LEMMA LogFrame ==
  ASSUME Ground, LogInv, NEW x \in Pair, Others(x), wf[x].pc # "none" \/ x \in starting,
         UNCHANGED <<endpoint, deliveries, faults>>, starting' \subseteq starting,
         \/ wf'[x] = wf[x]
         \/ /\ wf[x].pc \in {"none", "deliver"} /\ wf'[x].pc \in {"deliver", "record"}
            /\ wf'[x].tries \in {0, wf[x].tries}
  PROVE  LogInv'
<1> SUFFICES ASSUME NEW y \in Pair PROVE Logged(y)'
  BY DEF LogInv
<1>1. CASE wf'[y] = wf[y]
  <2>1. /\ Logged(y) /\ deliveries'[y] = deliveries[y] /\ faults' \in {faults, faults + 1}
        /\ endpoint'[y[1]] = endpoint[y[1]] /\ (y \in starting' => y \in starting)
    BY DEF LogInv
  <2>2. endpoint'[y[1]] = "deleted" => endpoint[y[1]] = "deleted"
    BY <2>1
  <2> QED
    BY <1>1, <2>1, <2>2, LogKept, Zenon
<1>2. CASE wf'[y] # wf[y]
  <2>1. /\ y = x /\ wf[x].pc \in {"none", "deliver"} /\ wf'[x].pc \in {"deliver", "record"}
        /\ wf'[x].tries \in {0, wf[x].tries}
    BY <1>2 DEF Others
  <2>2. Logged(x) /\ deliveries[x] = 0
    BY <2>1 DEF LogInv, Logged
  <2> QED
    BY <2>1, <2>2, LogTypes DEF Logged, Exists
<1> QED
  BY <1>1, <1>2

\* A step that touches neither workflows nor rows.
LEMMA LogQuiet ==
  ASSUME Ground, LogInv, UNCHANGED <<wf, deliveries>>, faults' \in {faults, faults + 1},
         \A p \in Endpoint : endpoint'[p] = endpoint[p],
         \A x \in Pair : x \in starting' => x \in starting \/ endpoint[x[1]] # "none"
  PROVE  LogInv'
<1> SUFFICES ASSUME NEW y \in Pair PROVE Logged(y)'
  BY DEF LogInv
<1>1. /\ Logged(y) /\ wf'[y] = wf[y] /\ deliveries'[y] = deliveries[y]
      /\ endpoint'[y[1]] = endpoint[y[1]]
      /\ y \in starting' => y \in starting \/ endpoint[y[1]] # "none"
  BY PairParts DEF LogInv
<1>2. endpoint'[y[1]] = "deleted" => endpoint[y[1]] = "deleted"
  BY <1>1
<1> QED
  BY <1>1, <1>2, LogKept, Zenon

\* An activity of workflow x, whether it completes, fails before or after its effect.
LEMMA ActivityLog ==
  ASSUME Ground, LogInv, NEW x \in Pair, ActivityCompletes(x) \/ ActivityFails(x)
  PROVE  LogInv'
<1>1. /\ Others(x) /\ wf[x].pc \in {"record", "count", "disable"} /\ UNCHANGED starting
      /\ faults' \in {faults, faults + 1}
      /\ \/ Perform(x)
         \/ UNCHANGED tables /\ faults' = faults + 1
  BY CompletionEffect, RetryEffect DEF ActivityCompletes, ActivityFails, Fail, dispatcher
<1>2. /\ \A p \in Endpoint : /\ endpoint'[p] # endpoint[p] => endpoint'[p] = "disabled" /\ Exists(p)
      /\ \A y \in Pair \ {x} : deliveries'[y] = deliveries[y]
      /\ deliveries'[x] \in {deliveries[x], deliveries[x] + 1}
      /\ deliveries'[x] # deliveries[x] => Exists(x[1]) /\ wf[x].pc = "record"
      /\ (faults' = faults /\ Exists(x[1]) /\ wf[x].pc = "record") =>
           deliveries'[x] = deliveries[x] + 1
  <2>1. CASE Perform(x)
    BY <1>1, <2>1, PerformEffect
  <2>2. CASE UNCHANGED tables /\ faults' = faults + 1
    BY <2>2, LogTypes DEF tables
  <2> QED
    BY <1>1, <2>1, <2>2
<1>3. /\ \/ wf'[x].pc = wf[x].pc /\ wf'[x].tries = wf[x].tries + 1 /\ faults' = faults + 1
         \/ /\ wf[x].pc = "record" /\ wf'[x].pc = "count" /\ wf'[x].tries = 0
            /\ faults' = faults + 1 => wf[x].tries + 1 >= RecordAttempts
         \/ wf[x].pc \in {"count", "disable"} /\ wf'[x].pc \in {"disable", "done"} /\ wf'[x].tries = 0
  <2>1. CASE ActivityCompletes(x)
    <3>1. faults' = faults
      BY <2>1 DEF ActivityCompletes
    <3> QED
      BY <2>1, <3>1, CompletionEffect, LogTypes
  <2>2. CASE ActivityFails(x)
    <3>1. faults' = faults + 1
      BY <2>2 DEF ActivityFails, Fail
    <3> QED
      BY <2>2, <3>1, RetryEffect
  <2> QED
    BY <2>1, <2>2
<1>4. x[1] \in Endpoint /\ endpoint[x[1]] # "none" /\ Logged(x)
  BY <1>1, PairParts DEF LogInv, Logged
<1>5. /\ Exists(x[1])' <=> Exists(x[1])
      /\ endpoint'[x[1]] = "deleted" => endpoint[x[1]] = "deleted"
      /\ endpoint'[x[1]] # "none"
  BY <1>2, <1>4 DEF Exists
<1>6. Logged(x)'
  <2>1. wf'[x].pc \notin {"none", "deliver"}
    BY <1>1, <1>3
  <2>2. endpoint[x[1]] = "deleted" => deliveries'[x] = 0
    BY <1>2, <1>4 DEF Logged, Exists
  <2>3. wf'[x].tries <= faults'
    BY <1>1, <1>3, <1>4, LogTypes DEF Logged
  <2>4. (Exists(x[1]) /\ wf'[x].pc = "record") => deliveries'[x] <= wf'[x].tries
    BY <1>1, <1>2, <1>3, <1>4, LogTypes DEF Logged
  <2>5. ASSUME Exists(x[1]), wf'[x].pc \in {"count", "disable", "done"}
        PROVE  /\ deliveries'[x] <= 1 + faults'
               /\ deliveries'[x] = 0 => faults' >= RecordAttempts
    <3>1. CASE wf[x].pc = "record"
      BY <1>1, <1>2, <1>3, <1>4, <2>5, <3>1, LogTypes DEF Logged
    <3>2. CASE wf[x].pc # "record"
      BY <1>1, <1>2, <1>4, <2>5, <3>2, LogTypes DEF Logged
    <3> QED
      BY <3>1, <3>2
  <2> QED
    BY <1>5, <2>1, <2>2, <2>3, <2>4, <2>5 DEF Logged
<1>7. ASSUME NEW y \in Pair \ {x} PROVE Logged(y)'
  <2>1. y[1] \in Endpoint /\ Logged(y) /\ wf'[y] = wf[y] /\ deliveries'[y] = deliveries[y]
    BY <1>1, <1>2, PairParts DEF LogInv, Others
  <2>2. /\ endpoint'[y[1]] = endpoint[y[1]] \/ (endpoint'[y[1]] # "none" /\ Exists(y[1]))
        /\ endpoint'[y[1]] = "deleted" => endpoint[y[1]] = "deleted"
    BY <1>2, <2>1
  <2>3. y \in starting' => y \in starting
    BY <1>1
  <2> QED
    BY <1>1, <2>1, <2>2, <2>3, LogKept, Zenon
<1> QED
  BY <1>6, <1>7 DEF LogInv

LEMMA NextLog == Ground /\ LogInv /\ [Next]_vars => LogInv'
<1> SUFFICES ASSUME Ground, LogInv, [Next]_vars PROVE LogInv'
  OBVIOUS
<1>0. /\ faults \in Nat /\ deliveries \in [Pair -> Nat] /\ wf \in [Pair -> Workflow]
      /\ endpoint \in [Endpoint -> {"none", "enabled", "disabled", "deleted"}]
  BY DEF Ground, TypeOK
<1>1. CASE UNCHANGED vars
  BY <1>1, LogQuiet DEF vars, tables, dispatcher
<1>2. ASSUME NEW e \in Event, Receive(e) \/ FanOutFails(e) PROVE LogInv'
  BY <1>2, LogQuiet DEF Receive, FanOutFails, Fail, NoFault, tables
<1>3. ASSUME NEW e \in Event, FanOut(e) PROVE LogInv'
  <2>1. \A x \in Pair : x \in starting' => x \in starting \/ endpoint[x[1]] # "none"
    BY <1>3 DEF FanOut, Recipients
  <2> QED
    BY <1>3, <2>1, LogQuiet DEF FanOut, tables
<1>4. ASSUME NEW x \in Pair, StartFails(x) PROVE LogInv'
  BY <1>4, LogQuiet DEF StartFails, Fail, tables
<1>5. CASE Restart
  BY <1>5, LogQuiet DEF Restart, tables
<1>6. ASSUME NEW x \in Pair, StartDelivery(x) PROVE LogInv'
  <2>1. /\ x \in starting /\ starting' \subseteq starting
        /\ UNCHANGED <<endpoint, deliveries, faults>>
    BY <1>6 DEF StartDelivery, tables
  <2> QED
    BY <1>6, <2>1, StartEffect, LogFrame
<1>7. ASSUME NEW x \in Pair, DeliverSucceeds(x) PROVE LogInv'
  <2>1. UNCHANGED <<endpoint, deliveries, starting, faults>>
    BY <1>7 DEF DeliverSucceeds, tables, dispatcher
  <2> QED
    BY <1>7, <2>1, SuccessEffect, LogFrame
<1>8. ASSUME NEW x \in Pair, DeliverFails(x) PROVE LogInv'
  <2>1. UNCHANGED <<endpoint, deliveries, starting, faults>>
    BY <1>8 DEF DeliverFails, tables, dispatcher
  <2> QED
    BY <1>8, <2>1, FailureEffect, LogFrame
<1>9. ASSUME NEW x \in Pair, ActivityCompletes(x) \/ ActivityFails(x) PROVE LogInv'
  BY <1>9, ActivityLog
<1>10. ASSUME NEW p \in Endpoint, NEW e \in TestEvent, TestWebhook(p, e) PROVE LogInv'
  <2>1. \A x \in Pair : x \in starting' => x \in starting \/ endpoint[x[1]] # "none"
    BY <1>10 DEF TestWebhook, Exists
  <2> QED
    BY <1>10, <2>1, LogQuiet DEF TestWebhook, tables
<1>11. ASSUME NEW p \in Endpoint, CreateWebhook(p) PROVE LogInv'
  <2>1. /\ endpoint[p] = "none" /\ endpoint'[p] = "enabled"
        /\ \A q \in Endpoint \ {p} : endpoint'[q] = endpoint[q]
        /\ UNCHANGED <<deliveries, starting, wf, faults>>
    BY <1>0, <1>11 DEF CreateWebhook, dispatcher
  <2>2. ASSUME NEW x \in Pair PROVE Logged(x)'
    BY <2>1, PairParts DEF LogInv, Logged, Exists
  <2> QED
    BY <2>2 DEF LogInv
<1>12. ASSUME NEW p \in Endpoint, DeleteDeliveries(p) \/ DeleteFails(p) PROVE LogInv'
  BY <1>12, LogQuiet DEF DeleteDeliveries, DeleteFails, Fail, NoFault, dispatcher
<1>13. ASSUME NEW p \in Endpoint, DeleteEndpoint(p) PROVE LogInv'
  <2>1. /\ endpoint'[p] = "deleted"
        /\ \A q \in Endpoint \ {p} : endpoint'[q] = endpoint[q]
        /\ \A x \in Pair : deliveries'[x] = IF x[1] = p THEN 0 ELSE deliveries[x]
        /\ UNCHANGED <<starting, wf, faults>>
    BY <1>0, <1>13 DEF DeleteEndpoint, dispatcher
  <2>2. ASSUME NEW x \in Pair PROVE Logged(x)'
    BY <2>1, PairParts DEF LogInv, Logged, Exists
  <2> QED
    BY <2>2 DEF LogInv
<1> QED
  BY <1>1, <1>2, <1>3, <1>4, <1>5, <1>6, <1>7, <1>8, <1>9, <1>10, <1>11, <1>12, <1>13
     DEF Next, SubscriberStep, WorkflowStep, HandlerStep

\* The log of an endpoint that is there tells of each delivery that is over, and of none that
\* is not: more often than once, or not at all, only for as many errors as that takes
\* (activities.go, RecordDelivery; handlers/webhooks.go, DeleteWebhook).
THEOREM DeliveriesAreLogged == Spec => []DeliveriesLogged
<1>1. Init => Ground /\ LogInv
  BY InitGround, InitLog
<1>2. Ground /\ LogInv /\ [Next]_vars => Ground' /\ LogInv'
  BY NextGround, NextLog
<1>3. LogInv => DeliveriesLogged
  BY DEF LogInv, Logged, DeliveriesLogged
<1> QED
  BY <1>1, <1>2, <1>3, PTL DEF Spec

\* A deleted endpoint stays deleted, and no workflow still under way leaves a row of it.
THEOREM DeletionIsFinal == Spec => DeletedForGood
<1>1. Init => Ground /\ LogInv
  BY InitGround, InitLog
<1>2. Ground /\ LogInv /\ [Next]_vars => Ground' /\ LogInv'
  BY NextGround, NextLog
<1>3. ASSUME Ground, LogInv, LogInv', [Next]_vars, NEW p \in Endpoint, endpoint[p] = "deleted"
      PROVE  endpoint'[p] = "deleted" /\ \A x \in Pair : x[1] = p => deliveries'[x] = 0
  <2>1. endpoint'[p] = "deleted"
    <3>0. endpoint \in [Endpoint -> {"none", "enabled", "disabled", "deleted"}]
      BY <1>3 DEF Ground, TypeOK
    <3>1. CASE UNCHANGED tables
      BY <1>3, <3>1 DEF tables
    <3>2. ASSUME NEW x \in Pair, StartDelivery(x) \/ DeliverSucceeds(x) \/ DeliverFails(x)
          PROVE  UNCHANGED tables
      BY <3>2 DEF StartDelivery, DeliverSucceeds, DeliverFails
    <3>3. ASSUME NEW x \in Pair, ActivityCompletes(x) \/ ActivityFails(x)
          PROVE  endpoint'[p] = "deleted"
      BY <1>3, <3>1, <3>3, PerformEffect DEF ActivityCompletes, ActivityFails, Exists
    <3>4. ASSUME NEW q \in Endpoint, CreateWebhook(q) \/ DeleteEndpoint(q)
          PROVE  endpoint'[p] = "deleted"
      BY <1>3, <3>0, <3>4 DEF CreateWebhook, DeleteEndpoint
    <3>5. ASSUME NEW q \in Endpoint, DeleteDeliveries(q) \/ DeleteFails(q)
          PROVE  endpoint'[p] = "deleted"
      BY <1>3, <3>5 DEF DeleteDeliveries, DeleteFails
    <3> QED
      BY <1>3, <3>1, <3>2, <3>3, <3>4, <3>5, QuietOrChanges DEF Changes, WorkflowStep
  <2> QED
    BY <1>3, <2>1 DEF LogInv, Logged
<1>4. Ground /\ LogInv /\ LogInv' /\ [Next]_vars =>
        [\A p \in Endpoint : endpoint[p] = "deleted" =>
          endpoint'[p] = "deleted" /\ \A x \in Pair : x[1] = p => deliveries'[x] = 0]_vars
  BY <1>3
<1> QED
  BY <1>1, <1>2, <1>4, PTL DEF Spec, DeletedForGood

-----------------------------------------------------------------------------
(* The failure counter.                                                      *)

\* Deliveries to p that failed and whose failure has been counted, or may have been.
Counted(p) == {x \in Pair : x[1] = p /\ wf[x].pc \in {"disable", "done"} /\ ~wf[x].ok}

\* The counter is paid for by them and by faults, and so is each decision to disable.
CounterInv ==
  /\ \A p \in Endpoint : failCount[p] <= Cardinality(Counted(p)) + faults
  /\ \A p \in Endpoint :
       endpoint[p] = "disabled" => Cardinality(Counted(p)) + faults >= maxConsecutiveFailures
  /\ \A x \in Pair :
       wf[x].pc = "disable" => Cardinality(Counted(x[1])) + faults >= maxConsecutiveFailures

LEMMA PartOfPairs ==
  ASSUME NEW S \in SUBSET Pair, NEW T \in SUBSET S
  PROVE  /\ IsFiniteSet(S) /\ IsFiniteSet(T)
         /\ Cardinality(S) \in Nat /\ Cardinality(T) \in Nat
         /\ Cardinality(T) <= Cardinality(S)
<1>1. IsFiniteSet(Event \cup TestEvent)
  BY FS_Union, WebhookAssumption
<1>2. IsFiniteSet(Pair)
  BY <1>1, FS_Product, WebhookAssumption DEF Pair
<1> QED
  BY <1>2, FS_Subset, FS_CardinalityType

LEMMA InitCounter == Init => CounterInv
<1> SUFFICES ASSUME Init PROVE CounterInv
  OBVIOUS
<1>1. \A p \in Endpoint : Cardinality(Counted(p)) \in Nat
  BY PartOfPairs DEF Counted
<1> QED
  BY <1>1 DEF Init, CounterInv, NoWorkflow

\* A step of workflow x that does not withdraw a counted failure.
LEMMA CountedGrows ==
  ASSUME NEW p \in Endpoint,
         \A x \in Pair : (wf[x].pc \in {"disable", "done"} /\ ~wf[x].ok) =>
                         (wf'[x].pc \in {"disable", "done"} /\ ~wf'[x].ok)
  PROVE  /\ Counted(p) \subseteq Counted(p)' /\ Counted(p)' \in SUBSET Pair
         /\ Cardinality(Counted(p)) \in Nat /\ Cardinality(Counted(p)') \in Nat
         /\ Cardinality(Counted(p)) <= Cardinality(Counted(p)')
<1>1. Counted(p) \subseteq Counted(p)' /\ Counted(p)' \in SUBSET Pair
  BY DEF Counted
<1> QED
  BY <1>1, PartOfPairs

\* A step that counts no failure and disables nothing.
LEMMA CounterFrame ==
  ASSUME Ground, CounterInv, faults' \in {faults, faults + 1},
         \A x \in Pair :
           /\ (wf[x].pc \in {"disable", "done"} /\ ~wf[x].ok) =>
                (wf'[x].pc \in {"disable", "done"} /\ ~wf'[x].ok)
           /\ wf'[x].pc = "disable" => wf[x].pc = "disable",
         \A p \in Endpoint : failCount'[p] \in {0, failCount[p]},
         \A p \in Endpoint : endpoint'[p] = "disabled" => endpoint[p] = "disabled"
  PROVE  CounterInv'
<1>1. \A p \in Endpoint : /\ Cardinality(Counted(p)) \in Nat /\ Cardinality(Counted(p)') \in Nat
                          /\ Cardinality(Counted(p)) <= Cardinality(Counted(p)')
  BY CountedGrows
<1>2. faults \in Nat /\ maxConsecutiveFailures \in Nat /\ failCount \in [Endpoint -> Nat]
  BY WebhookAssumption DEF Ground, TypeOK
<1>3. \A p \in Endpoint : failCount'[p] <= Cardinality(Counted(p)') + faults'
  BY <1>1, <1>2 DEF CounterInv
<1>4. \A p \in Endpoint :
        endpoint'[p] = "disabled" => Cardinality(Counted(p)') + faults' >= maxConsecutiveFailures
  BY <1>1, <1>2 DEF CounterInv
<1>5. ASSUME NEW x \in Pair, wf'[x].pc = "disable"
      PROVE  Cardinality(Counted(x[1])') + faults' >= maxConsecutiveFailures
  <2>1. Cardinality(Counted(x[1])) + faults >= maxConsecutiveFailures
    BY <1>5 DEF CounterInv
  <2> QED
    BY <1>1, <1>2, <2>1, PairParts
<1> QED
  BY <1>3, <1>4, <1>5 DEF CounterInv

\* An activity, with or without its report.
LEMMA ActivityCounter ==
  ASSUME Ground, CounterInv, NEW x \in Pair, ActivityCompletes(x) \/ ActivityFails(x)
  PROVE  CounterInv'
<1> DEFINE q == x[1]
<1>1. /\ Others(x) /\ wf'[x].ok = wf[x].ok /\ wf[x].pc \in {"record", "count", "disable"}
      /\ \/ wf'[x].pc = wf[x].pc
         \/ wf[x].pc = "record" /\ wf'[x].pc = "count"
         \/ wf[x].pc = "count" /\ wf'[x].pc = "disable" /\ Excessive(failCount'[q])
         \/ wf[x].pc \in {"count", "disable"} /\ wf'[x].pc = "done"
  BY CompletionEffect, RetryEffect
<1>2. q \in Endpoint /\ faults \in Nat /\ maxConsecutiveFailures \in Nat
  BY PairParts, WebhookAssumption DEF Ground, TypeOK
<1>3. \A y \in Pair : (wf[y].pc \in {"disable", "done"} /\ ~wf[y].ok) =>
                        (wf'[y].pc \in {"disable", "done"} /\ ~wf'[y].ok)
  BY <1>1 DEF Others
<1>4. \A p \in Endpoint : /\ Cardinality(Counted(p)) \in Nat /\ Cardinality(Counted(p)') \in Nat
                          /\ Cardinality(Counted(p)) <= Cardinality(Counted(p)')
  BY <1>3, CountedGrows
<1>5. /\ failCount \in [Endpoint -> Nat] /\ failCount' \in [Endpoint -> Nat]
      /\ \A p \in Endpoint : failCount'[p] <= failCount[p] \/ (p = q /\ failCount'[p] = failCount[p] + 1)
      /\ \A p \in Endpoint : endpoint'[p] = "disabled" =>
            endpoint[p] = "disabled" \/ (p = q /\ wf[x].pc = "disable")
      /\ \A p \in Endpoint : failCount'[p] > failCount[p] => wf[x].pc = "count" /\ ~wf[x].ok
  <2>0. failCount \in [Endpoint -> Nat]
    BY DEF Ground, TypeOK
  <2>1. CASE UNCHANGED tables
    BY <2>0, <2>1 DEF tables
  <2>2. CASE Perform(x)
    BY <1>1, <2>0, <2>2, PerformEffect
  <2> QED
    BY <2>1, <2>2 DEF ActivityCompletes, ActivityFails
<1>6. faults' = faults + 1 \/ (faults' = faults /\ wf'[x].pc # wf[x].pc)
  BY CompletionEffect DEF ActivityCompletes, ActivityFails, Fail
<1>7. \A p \in Endpoint : failCount'[p] <= Cardinality(Counted(p)') + faults'
  <2> SUFFICES ASSUME NEW p \in Endpoint PROVE failCount'[p] <= Cardinality(Counted(p)') + faults'
    OBVIOUS
  <2>1. failCount[p] <= Cardinality(Counted(p)) + faults /\ failCount[p] \in Nat /\ failCount'[p] \in Nat
    BY <1>5 DEF CounterInv
  <2>2. CASE failCount'[p] <= failCount[p]
    BY <1>2, <1>4, <1>6, <2>1, <2>2
  <2>3. CASE failCount'[p] > failCount[p] /\ faults' = faults + 1
    BY <1>2, <1>4, <1>5, <2>1, <2>3
  <2>4. CASE failCount'[p] > failCount[p] /\ faults' = faults /\ wf'[x].pc # wf[x].pc
    <3>1. p = q /\ failCount'[p] = failCount[p] + 1 /\ wf[x].pc = "count" /\ ~wf[x].ok
      BY <1>5, <2>1, <2>4
    <3>2. x \in Counted(p)' /\ x \notin Counted(p)
      BY <1>1, <2>4, <3>1 DEF Counted
    <3>3. Counted(p) \cup {x} \subseteq Counted(p)' /\ Counted(p) \in SUBSET Pair
          /\ Counted(p)' \in SUBSET Pair
      BY <1>3, <3>2, CountedGrows DEF Counted
    <3>4. Cardinality(Counted(p) \cup {x}) = Cardinality(Counted(p)) + 1
      BY <3>2, <3>3, FS_AddElement, PartOfPairs
    <3>5. Cardinality(Counted(p)) + 1 <= Cardinality(Counted(p)')
      BY <3>3, <3>4, PartOfPairs
    <3> QED
      BY <1>2, <1>4, <2>1, <2>4, <3>1, <3>5
  <2> QED
    BY <1>6, <2>1, <2>2, <2>3, <2>4
<1>8. \A p \in Endpoint :
        endpoint'[p] = "disabled" => Cardinality(Counted(p)') + faults' >= maxConsecutiveFailures
  <2> SUFFICES ASSUME NEW p \in Endpoint, endpoint'[p] = "disabled"
               PROVE  Cardinality(Counted(p)') + faults' >= maxConsecutiveFailures
    OBVIOUS
  <2>1. Cardinality(Counted(p)) + faults >= maxConsecutiveFailures
    BY <1>5 DEF CounterInv
  <2> QED
    BY <1>2, <1>4, <1>6, <2>1
<1>9. ASSUME NEW y \in Pair, wf'[y].pc = "disable"
      PROVE  Cardinality(Counted(y[1])') + faults' >= maxConsecutiveFailures
  <2>1. CASE wf[y].pc = "disable"
    <3>1. Cardinality(Counted(y[1])) + faults >= maxConsecutiveFailures
      BY <2>1 DEF CounterInv
    <3> QED
      BY <1>2, <1>4, <1>6, <3>1, PairParts
  <2>2. CASE wf[y].pc # "disable"
    <3>1. y = x /\ Excessive(failCount'[q])
      BY <1>1, <1>9, <2>2 DEF Others
    <3>2. failCount'[q] >= maxConsecutiveFailures /\ failCount'[q] \in Nat
      BY <1>2, <1>5, <3>1 DEF Excessive
    <3> QED
      BY <1>2, <1>4, <1>6, <1>7, <3>1, <3>2
  <2> QED
    BY <2>1, <2>2
<1> QED
  BY <1>7, <1>8, <1>9 DEF CounterInv

LEMMA NextCounter == Ground /\ CounterInv /\ [Next]_vars => CounterInv'
<1> SUFFICES ASSUME Ground, CounterInv, [Next]_vars PROVE CounterInv'
  OBVIOUS
<1>0. /\ faults \in Nat /\ failCount \in [Endpoint -> Nat]
      /\ endpoint \in [Endpoint -> {"none", "enabled", "disabled", "deleted"}]
  BY DEF Ground, TypeOK
<1>1. CASE UNCHANGED <<tables, wf, posts>> /\ faults' \in {faults, faults + 1}
  BY <1>1, CounterFrame DEF tables
<1>2. ASSUME NEW x \in Pair, StartDelivery(x) PROVE CounterInv'
  BY <1>2, StartEffect, CounterFrame DEF StartDelivery, tables, Others
<1>3. ASSUME NEW x \in Pair, DeliverSucceeds(x) PROVE CounterInv'
  BY <1>3, SuccessEffect, CounterFrame DEF DeliverSucceeds, tables, Others
<1>4. ASSUME NEW x \in Pair, DeliverFails(x) PROVE CounterInv'
  BY <1>4, FailureEffect, CounterFrame DEF DeliverFails, tables, Others
<1>5. ASSUME NEW x \in Pair, ActivityCompletes(x) \/ ActivityFails(x) PROVE CounterInv'
  BY <1>5, ActivityCounter
<1>6. ASSUME NEW p \in Endpoint,
             CreateWebhook(p) \/ DeleteDeliveries(p) \/ DeleteEndpoint(p) \/ DeleteFails(p)
      PROVE  CounterInv'
  <2>1. /\ UNCHANGED <<wf, failCount>> /\ faults' \in {faults, faults + 1}
        /\ \A q \in Endpoint : endpoint'[q] = "disabled" => endpoint[q] = "disabled"
    BY <1>0, <1>6 DEF CreateWebhook, DeleteDeliveries, DeleteEndpoint, DeleteFails, Fail, NoFault
  <2> QED
    BY <2>1, CounterFrame
<1> QED
  BY <1>1, <1>2, <1>3, <1>4, <1>5, <1>6, QuietOrChanges DEF Changes, WorkflowStep

\* An endpoint's counter, and its being disabled, are paid for by deliveries that failed
\* every attempt and by lost reports, however deliveries overlap.
THEOREM DisablingCaused == Spec => []DisabledForCause
<1>1. Init => Ground /\ CounterInv
  BY InitGround, InitCounter
<1>2. Ground /\ CounterInv /\ [Next]_vars => Ground' /\ CounterInv'
  BY NextGround, NextCounter
<1>3. ASSUME Ground, CounterInv PROVE DisabledForCause
  <2>1. \A p \in Endpoint : Counted(p) \subseteq Failed(p) /\ Failed(p) \in SUBSET Pair
    BY DEF Counted, Failed
  <2>2. \A p \in Endpoint : /\ Cardinality(Counted(p)) \in Nat /\ Cardinality(Failed(p)) \in Nat
                            /\ Cardinality(Counted(p)) <= Cardinality(Failed(p))
    BY <2>1, PartOfPairs
  <2>3. faults \in Nat /\ maxConsecutiveFailures \in Nat /\ failCount \in [Endpoint -> Nat]
    BY <1>3, WebhookAssumption DEF Ground, TypeOK
  <2> QED
    BY <1>3, <2>2, <2>3 DEF CounterInv, DisabledForCause
<1>4. Ground /\ CounterInv => DisabledForCause
  BY <1>3
<1> QED
  BY <1>1, <1>2, <1>4, PTL DEF Spec

-----------------------------------------------------------------------------
(* Subscriptions.                                                            *)

\* Only a pair with a matching pattern is ever started.
SubscriptionInv ==
  \A x \in Endpoint \X Event :
    (x \in starting \/ wf[x].pc # "none" \/ posts[x] > 0) => x \in Subscription \cup Surplus

LEMMA InitSubscription == Init => SubscriptionInv
<1> SUFFICES ASSUME Init, NEW x \in Endpoint \X Event
             PROVE  ~(x \in starting \/ wf[x].pc # "none" \/ posts[x] > 0)
  BY DEF SubscriptionInv
<1>1. x \in Pair
  BY DEF Pair
<1> QED
  BY <1>1 DEF Init, NoWorkflow

\* The recipients of an event are subscribed to it, or get it as surplus.
LEMMA RecipientsSubscribed ==
  ASSUME NEW e \in Event, NEW p \in Recipients(e)
  PROVE  p \in Endpoint /\ <<p, e>> \in Subscription \cup Surplus
<1>1. p \in Endpoint /\ matchesAny(Patterns[p], Subject[e])
  BY DEF Recipients
<1>2. PICK pattern \in Patterns[p] : matchPattern(pattern, Subject[e])
  BY <1>1 DEF matchesAny
<1>3. pattern \in Seq(STRING) /\ Subject[e] \in Seq(STRING)
  BY <1>1, <1>2, WebhookAssumption
<1>4. Means(pattern, Subject[e]) \/ Lenient(pattern, Subject[e])
  BY <1>2, <1>3, PatternMeaning
<1>5. Describes(p, e) \/ Tolerates(p, e)
  BY <1>2, <1>4 DEF Describes, Tolerates
<1> QED
  BY <1>1, <1>5 DEF Subscription, Surplus

\* A step of workflow x, or of none, that starts nothing new.
LEMMA SubscriptionFrame ==
  ASSUME SubscriptionInv, starting' \subseteq starting,
         \A y \in Pair : /\ wf'[y].pc # "none" => wf[y].pc # "none" \/ y \in starting
                         /\ posts'[y] > 0 => posts[y] > 0 \/ wf[y].pc # "none"
  PROVE  SubscriptionInv'
<1>1. ASSUME NEW x \in Endpoint \X Event,
             x \in starting' \/ wf'[x].pc # "none" \/ posts'[x] > 0
      PROVE  x \in Subscription \cup Surplus
  <2>1. x \in Pair
    BY DEF Pair
  <2>2. x \in starting \/ wf[x].pc # "none" \/ posts[x] > 0
    BY <1>1, <2>1
  <2> QED
    BY <2>2 DEF SubscriptionInv
<1> QED
  BY <1>1 DEF SubscriptionInv, Subscription, Surplus, Describes, Tolerates

LEMMA NextSubscription == Ground /\ SubscriptionInv /\ [Next]_vars => SubscriptionInv'
<1> SUFFICES ASSUME Ground, SubscriptionInv, [Next]_vars PROVE SubscriptionInv'
  OBVIOUS
<1>0. posts \in [Pair -> Nat]
  BY DEF Ground, TypeOK
<1>1. CASE UNCHANGED vars
  BY <1>1, SubscriptionFrame DEF vars, dispatcher
<1>2. ASSUME NEW e \in Event, Receive(e) \/ FanOutFails(e) PROVE SubscriptionInv'
  BY <1>2, SubscriptionFrame DEF Receive, FanOutFails
<1>3. ASSUME NEW e \in Event, FanOut(e) PROVE SubscriptionInv'
  <2>1. UNCHANGED <<wf, posts>> /\ starting' = starting \cup (Recipients(e) \X {e})
    BY <1>3 DEF FanOut
  <2>2. ASSUME NEW x \in Endpoint \X Event, x \in Recipients(e) \X {e}
        PROVE  x \in Subscription \cup Surplus
    <3>1. x = <<x[1], e>> /\ x[1] \in Recipients(e)
      BY <2>2
    <3> QED
      BY <3>1, RecipientsSubscribed
  <2> QED
    BY <2>1, <2>2 DEF SubscriptionInv, Subscription, Surplus, Describes, Tolerates
<1>4. ASSUME NEW x \in Pair, StartFails(x) PROVE SubscriptionInv'
  BY <1>4, SubscriptionFrame DEF StartFails
<1>5. CASE Restart
  BY <1>5, SubscriptionFrame DEF Restart
<1>6. ASSUME NEW x \in Pair, StartDelivery(x) PROVE SubscriptionInv'
  <2>1. x \in starting /\ starting' \subseteq starting /\ UNCHANGED posts
    BY <1>6 DEF StartDelivery
  <2> QED
    BY <1>6, <2>1, StartEffect, SubscriptionFrame DEF Others
<1>7. ASSUME NEW x \in Pair, DeliverSucceeds(x) PROVE SubscriptionInv'
  <2>1. UNCHANGED starting /\ \A y \in Pair \ {x} : posts'[y] = posts[y]
    BY <1>0, <1>7 DEF DeliverSucceeds, dispatcher
  <2> QED
    BY <1>7, <2>1, SuccessEffect, SubscriptionFrame DEF Others
<1>8. ASSUME NEW x \in Pair, DeliverFails(x) PROVE SubscriptionInv'
  <2>1. UNCHANGED starting /\ \A y \in Pair \ {x} : posts'[y] = posts[y]
    BY <1>0, <1>8 DEF DeliverFails, dispatcher
  <2> QED
    BY <1>8, <2>1, FailureEffect, SubscriptionFrame DEF Others
<1>9. ASSUME NEW x \in Pair, ActivityCompletes(x) \/ ActivityFails(x) PROVE SubscriptionInv'
  <2>1. UNCHANGED <<starting, posts>> /\ wf[x].pc # "none"
    BY <1>9 DEF ActivityCompletes, ActivityFails, dispatcher
  <2>2. Others(x)
    BY <1>9, CompletionEffect, RetryEffect
  <2> QED
    BY <2>1, <2>2, SubscriptionFrame DEF Others
<1>10. ASSUME NEW p \in Endpoint, NEW e \in TestEvent, TestWebhook(p, e) PROVE SubscriptionInv'
  <2>1. UNCHANGED <<wf, posts>> /\ starting' = starting \cup {<<p, e>>}
    BY <1>10 DEF TestWebhook
  <2>2. <<p, e>> \notin Endpoint \X Event
    BY WebhookAssumption
  <2> QED
    BY <2>1, <2>2 DEF SubscriptionInv, Subscription, Surplus, Describes, Tolerates
<1>11. ASSUME NEW p \in Endpoint,
              CreateWebhook(p) \/ DeleteDeliveries(p) \/ DeleteEndpoint(p) \/ DeleteFails(p)
       PROVE  SubscriptionInv'
  BY <1>11, SubscriptionFrame
     DEF CreateWebhook, DeleteDeliveries, DeleteEndpoint, DeleteFails, dispatcher
<1> QED
  BY <1>1, <1>2, <1>3, <1>4, <1>5, <1>6, <1>7, <1>8, <1>9, <1>10, <1>11
     DEF Next, SubscriberStep, WorkflowStep, HandlerStep

\* Nobody is sent an event that no pattern of theirs describes in the documentation's words,
\* or takes by one of the two leniencies of matchPattern.
THEOREM OnlySubscribersServed == Spec => []OnlySubscribed
<1>1. Init => Ground /\ SubscriptionInv
  BY InitGround, InitSubscription
<1>2. Ground /\ SubscriptionInv /\ [Next]_vars => Ground' /\ SubscriptionInv'
  BY NextGround, NextSubscription
<1>3. SubscriptionInv => OnlySubscribed
  BY DEF SubscriptionInv, OnlySubscribed
<1> QED
  BY <1>1, <1>2, <1>3, PTL DEF Spec

-----------------------------------------------------------------------------
(* The promise to an endpoint's server.                                      *)

attempts == [x \in Pair |-> wf[x].failed + IF wf[x].ok THEN 1 ELSE 0]
Outcome(w) == CASE w.ok -> "delivered"
                [] w.pc \in {"none", "deliver"} -> "open"
                [] OTHER -> "given_up"
outcome == [x \in Pair |-> Outcome(wf[x])]

\* A step that leaves attempts, posts and outcome of each delivery alone is invisible.
LEMMA PromiseFrame ==
  ASSUME UNCHANGED posts,
         \A x \in Pair : /\ wf'[x].failed = wf[x].failed /\ wf'[x].ok = wf[x].ok
                         /\ Outcome(wf'[x]) = Outcome(wf[x])
  PROVE  UNCHANGED Promise!promise
<1>1. attempts' = attempts /\ outcome' = outcome
  BY DEF attempts, outcome
<1> QED
  BY <1>1 DEF Promise!promise, attempts, outcome, Outcome

\* A step of one workflow settles no other delivery.
LEMMA OneSettles ==
  ASSUME NEW x \in Pair, Others(x), wf' \in [Pair -> Workflow]
  PROVE  /\ outcome' = [outcome EXCEPT ![x] = Outcome(wf'[x])]
         /\ attempts' = [attempts EXCEPT ![x] = wf'[x].failed + IF wf'[x].ok THEN 1 ELSE 0]
<1>1. outcome' = [y \in Pair |-> Outcome(wf'[y])] /\ \A y \in Pair \ {x} : wf'[y] = wf[y]
  BY DEF outcome, Outcome, Others
<1>2. attempts' = [y \in Pair |-> wf'[y].failed + IF wf'[y].ok THEN 1 ELSE 0]
  BY DEF attempts
<1> QED
  BY <1>1, <1>2 DEF outcome, attempts

\* A delivery that is under way was asked for.
LEMMA UnderWayWanted ==
  ASSUME SubscriptionInv, NEW x \in Pair, wf[x].pc = "deliver"
  PROVE  x \in Asked
<1>1. x \in Endpoint \X Event \/ x \in Endpoint \X TestEvent
  BY DEF Pair
<1> QED
  BY <1>1 DEF SubscriptionInv, Asked

LEMMA InitPromise == Init => Promise!Init
<1> SUFFICES ASSUME Init PROVE Promise!Init
  OBVIOUS
<1>1. \A x \in Pair : wf[x] = NoWorkflow /\ posts = [y \in Pair |-> 0]
  BY DEF Init
<1>2. attempts = [x \in Pair |-> 0] /\ outcome = [x \in Pair |-> "open"]
  BY <1>1 DEF attempts, outcome, Outcome, NoWorkflow
<1>3. posts = [x \in Pair |-> 0]
  BY DEF Init
<1> QED
  BY <1>2, <1>3 DEF Promise!Init, attempts, outcome, Outcome

\* Each attempt of a workflow is an attempt of the promise; all else is invisible.
LEMMA NextPromise ==
  Ground /\ Ground' /\ SubscriptionInv /\ [Next]_vars => [Promise!Next]_Promise!promise
<1> SUFFICES ASSUME Ground, Ground', SubscriptionInv, [Next]_vars
             PROVE  [Promise!Next]_Promise!promise
  OBVIOUS
<1>0. /\ posts \in [Pair -> Nat] /\ DeliverAttempts \in Nat
      /\ \A x \in Pair : wf[x].failed \in Nat /\ wf[x].ok \in BOOLEAN
  BY WebhookAssumption, Counts DEF Ground, TypeOK
<1>1. CASE UNCHANGED <<tables, wf, posts>>
  BY <1>1, PromiseFrame
<1>2. ASSUME NEW x \in Pair, StartDelivery(x) PROVE UNCHANGED Promise!promise
  <2>1. UNCHANGED posts
    BY <1>2 DEF StartDelivery
  <2>2. /\ wf'[x].failed = wf[x].failed /\ wf'[x].ok = wf[x].ok
        /\ Outcome(wf'[x]) = Outcome(wf[x])
    BY <1>2, StartEffect DEF Outcome
  <2> QED
    BY <1>2, <2>1, <2>2, StartEffect, PromiseFrame DEF Others
<1>3. ASSUME NEW x \in Pair, DeliverSucceeds(x) PROVE Promise!Accepted(x)
  <2>1. /\ wf[x].pc = "deliver" /\ wf[x].ok = FALSE /\ wf[x].failed < DeliverAttempts
        /\ wf'[x].pc = "record" /\ wf'[x].ok = TRUE /\ wf'[x].failed = wf[x].failed
        /\ Others(x) /\ wf' \in [Pair -> Workflow]
    BY <1>0, <1>3, SuccessEffect DEF Ground, WorkflowInv
  <2>5. posts' = [posts EXCEPT ![x] = @ + 1]
    BY <1>3 DEF DeliverSucceeds
  <2>2. x \in Asked
    BY <2>1, UnderWayWanted
  <2>3. attempts' = [attempts EXCEPT ![x] = @ + 1] /\ attempts[x] < DeliverAttempts
    <3>1. attempts[x] = wf[x].failed
      BY <1>0, <2>1 DEF attempts
    <3>2. attempts' = [attempts EXCEPT ![x] = wf[x].failed + 1]
      BY <2>1, OneSettles
    <3> QED
      BY <2>1, <3>1, <3>2
  <2>4. outcome[x] = "open" /\ outcome' = [outcome EXCEPT ![x] = "delivered"]
    BY <2>1, OneSettles DEF outcome, Outcome
  <2> QED
    BY <2>2, <2>3, <2>4, <2>5
       DEF Promise!Accepted, Promise!Attempt, attempts, outcome, Outcome
<1>4. ASSUME NEW x \in Pair, DeliverFails(x) PROVE Promise!Refused(x)
  <2>1. /\ wf[x].pc = "deliver" /\ wf[x].ok = FALSE /\ wf[x].failed < DeliverAttempts
        /\ wf'[x].ok = FALSE /\ wf'[x].failed = wf[x].failed + 1
        /\ wf'[x].failed \in 0..DeliverAttempts
        /\ \/ wf'[x].pc = "deliver" /\ wf'[x].failed < DeliverAttempts
           \/ wf'[x].pc = "record"
        /\ Others(x) /\ wf' \in [Pair -> Workflow]
    BY <1>4, FailureEffect DEF Ground, WorkflowInv, DeliverFails, Workflow
  <2>2. x \in Asked
    BY <2>1, UnderWayWanted
  <2>3. /\ attempts' = [attempts EXCEPT ![x] = @ + 1] /\ attempts[x] < DeliverAttempts
        /\ attempts'[x] = wf'[x].failed
    <3>1. attempts[x] = wf[x].failed
      BY <1>0, <2>1 DEF attempts
    <3>2. attempts' = [attempts EXCEPT ![x] = wf'[x].failed]
      BY <1>0, <2>1, OneSettles
    <3>3. attempts' = [attempts EXCEPT ![x] = attempts[x] + 1]
      BY <2>1, <3>1, <3>2
    <3>4. attempts'[x] = wf'[x].failed
      BY <3>2 DEF attempts
    <3> QED
      BY <2>1, <3>1, <3>3, <3>4
  <2>4. outcome[x] = "open"
    BY <2>1 DEF outcome, Outcome
  <2>5. wf'[x].pc = "record" <=> wf'[x].failed = DeliverAttempts
    <3>1. wf' = [wf EXCEPT ![x] =
                   [@ EXCEPT !.failed = wf[x].failed + 1,
                             !.pc = IF wf[x].failed + 1 < DeliverAttempts THEN "deliver" ELSE "record"]]
      BY <1>4 DEF DeliverFails
    <3>2. wf'[x].pc = IF wf[x].failed + 1 < DeliverAttempts THEN "deliver" ELSE "record"
      BY <3>1 DEF Ground, TypeOK, Workflow
    <3> QED
      BY <1>0, <2>1, <3>2
  <2>6. outcome' = IF attempts'[x] = DeliverAttempts
                   THEN [outcome EXCEPT ![x] = "given_up"] ELSE outcome
    <3>1. outcome' = [outcome EXCEPT ![x] = Outcome(wf'[x])]
      BY <2>1, OneSettles
    <3>2. CASE wf'[x].pc = "deliver"
      <4>1. Outcome(wf'[x]) = outcome[x]
        BY <2>1, <2>4, <3>2 DEF Outcome
      <4> QED
        BY <2>3, <2>5, <3>1, <3>2, <4>1 DEF outcome
    <3>3. CASE wf'[x].pc = "record"
      <4>1. Outcome(wf'[x]) = "given_up"
        BY <2>1, <3>3 DEF Outcome
      <4> QED
        BY <2>3, <2>5, <3>1, <3>3, <4>1
    <3> QED
      BY <2>1, <3>2, <3>3
  <2>7. posts' \in {posts, [posts EXCEPT ![x] = @ + 1]}
    BY <1>4 DEF DeliverFails
  <2> QED
    BY <2>2, <2>3, <2>4, <2>6, <2>7
       DEF Promise!Refused, Promise!Attempt, attempts, outcome, Outcome
<1>5. ASSUME NEW x \in Pair, ActivityCompletes(x) \/ ActivityFails(x)
      PROVE  UNCHANGED Promise!promise
  <2>1. UNCHANGED posts
    BY <1>5 DEF ActivityCompletes, ActivityFails
  <2>2. /\ Others(x) /\ wf'[x].failed = wf[x].failed /\ wf'[x].ok = wf[x].ok
        /\ wf[x].pc \notin {"none", "deliver"} /\ wf'[x].pc \notin {"none", "deliver"}
    BY <1>5, CompletionEffect, RetryEffect
  <2> QED
    BY <2>1, <2>2, PromiseFrame DEF Others, Outcome
<1>6. ASSUME NEW p \in Endpoint,
             CreateWebhook(p) \/ DeleteDeliveries(p) \/ DeleteEndpoint(p) \/ DeleteFails(p)
      PROVE  UNCHANGED Promise!promise
  <2>1. UNCHANGED <<wf, posts>>
    BY <1>6 DEF CreateWebhook, DeleteDeliveries, DeleteEndpoint, DeleteFails
  <2> QED
    BY <2>1, PromiseFrame
<1> QED
  BY <1>1, <1>2, <1>3, <1>4, <1>5, <1>6, QuietOrChanges
     DEF Changes, WorkflowStep, Promise!Next

\* The consumer, its goroutines and the durable workflows together implement module
\* DeliveryPromise, for every number of attempts and any patterns: an event that comes
\* twice, is fanned out twice or started twice is one delivery (services/webhooks/
\* dispatcher.go and workflow.go).
THEOREM WebhooksKeepPromise == Spec => ImplementsPromise
<1>1. Init => Ground /\ SubscriptionInv
  BY InitGround, InitSubscription
<1>2. Ground /\ SubscriptionInv /\ [Next]_vars => Ground' /\ SubscriptionInv'
  BY NextGround, NextSubscription
<1> QED
  BY <1>1, <1>2, InitPromise, NextPromise, PTL DEF Spec, ImplementsPromise, Promise!Spec
=============================================================================
