--------------------------- MODULE CaseLifecycle ----------------------------
(***************************************************************************)
(* The life of one case - a permit, a 311 service request or a FOIA        *)
(* request - between the three parties that act on it:                     *)
(*                                                                         *)
(*   - HTTP handlers of its domain service, which read the row, have the   *)
(*     transition validated, and write the row together with its event;    *)
(*   - its durable Temporal workflow, which validates transitions against  *)
(*     the configuration it was started with, sleeps until an expiry or a  *)
(*     deadline, and listens for one withdrawal;                           *)
(*   - the activities the workflow schedules, retried after a failure.     *)
(*                                                                         *)
(* Nothing holds a lock from the read of the row to its write, and the     *)
(* workflow keeps no status of its own: the handler tells it the old one.  *)
(* Temporal itself is outside src/.  The outbox of the domain service is   *)
(* module Outbox; here a committed event is simply appended to announced.  *)
(***************************************************************************)
EXTENDS WorkflowConfig, FiniteSets

CONSTANTS Kind,         (* the resource types under study                         *)
          Config,       (* the workflow configuration of each resource type       *)
          Handler,      (* concurrent status-changing HTTP requests of the case   *)
          Requested,    (* the statuses requests name                                     *)
          Role,         (* the roles requests name                                *)
          MaxAttempts,  (* attempts of an activity (5 in the code)                *)
          MaxCalls,     (* bound: status-changing requests ever made              *)
          MaxFaults     (* bound: failures of any kind                            *)

ASSUME CaseAssumption ==
  /\ Kind \subseteq {"permit", "service_request", "foia_request"}
  /\ Kind \subseteq DOMAIN Config
  /\ MaxAttempts \in Nat \ {0}
  /\ MaxCalls \in Nat
  /\ MaxFaults \in Nat

\* The configuration's statuses, and the two the code writes by name.  "none" is no
\* status: it stands for a row that does not exist.
StatusesOf(k) == {s.name : s \in Entries(Config[k].statuses)}
Status == (UNION {StatusesOf(k) \cup {Config[k].initial} : k \in Kind})
            \cup {"assigned", "expired"}

ASSUME StatusAssumption == "none" \notin Status

VARIABLES
  kind,       (* the case's resource type                                        *)
  status,     (* the status column of its row, "none" before it exists           *)
  stamped,    (* is issued_at (permits) or closed_at (requests) set?             *)
  announced,  (* its created and status events, in the order of their commits    *)
  notices,    (* deadline_exceeded events committed                              *)
  starting,   (* the creating handler has committed and now starts the workflow  *)
  execution,  (* the workflow execution: "none", "running", "closed", "purged"   *)
  listening,  (* does the workflow still wait for its first withdraw signal?     *)
  withdrawn,  (* did the workflow accept a withdrawal?                           *)
  call,       (* each handler's progress and local variables                     *)
  calls,      (* requests made so far, which also numbers them                   *)
  timer,      (* each timer of the workflow and the activity it schedules        *)
  tries,      (* failed attempts of that activity                                *)
  contended,  (* history: did two operations on the case ever overlap?           *)
  faults      (* failures so far                                                 *)

row      == <<status, stamped, announced>>
workflow == <<starting, execution, listening, withdrawn>>
timers   == <<notices, timer, tries>>
vars     == <<kind, row, workflow, timers, call, calls, contended, faults>>

config == Config[kind]

\* The status a case begins with, which the handler asks the workflow worker for.
InitialStatus == config.initial

\* Timer 0 is the FOIA deadline; timer n > 0 is the expiry started by request n.
Deadline == 0
Timer    == 0..MaxCalls
TimerState == {"none", "sleeping", "scheduled", "committed", "exhausted", "done", "dropped"}

NoCall == [pc |-> "idle", op |-> "none", no |-> 0, seen |-> "none", to |-> "none", role |-> "none"]
NoTimer == [state |-> "none", from |-> "none"]

\* An event of the case: what made it, the change it announces, and (history) the
\* role that was given for it and the number of the request or timer behind it.
Event(op, from, to, role, by) ==
  [op |-> op, from |-> from, to |-> to, role |-> role, by |-> by]

\* The statuses that set issued_at (permits) or closed_at (requests).
Stamps(to) ==
  \/ kind = "permit"          /\ to = "approved"
  \/ kind = "service_request" /\ to \in {"resolved", "closed"}
  \/ kind = "foia_request"    /\ to \in {"fulfilled", "denied", "withdrawn"}

Busy == \/ starting
        \/ \E h \in Handler : call[h].pc # "idle"
        \/ \E t \in Timer : timer[t].state \in {"scheduled", "committed", "exhausted"}

Fail == faults < MaxFaults /\ faults' = faults + 1

Init ==
  /\ kind \in Kind
  /\ status = "none" /\ stamped = FALSE /\ announced = <<>>
  /\ notices = 0
  /\ starting = FALSE /\ execution = "none" /\ listening = FALSE /\ withdrawn = FALSE
  /\ call = [h \in Handler |-> NoCall] /\ calls = 0
  /\ timer = [t \in Timer |-> NoTimer] /\ tries = [t \in Timer |-> 0]
  /\ contended = FALSE /\ faults = 0

-----------------------------------------------------------------------------
(* Creation.                                                                 *)

\* The row and its created event commit in one transaction.
Create ==
  /\ status = "none"
  /\ status' = InitialStatus
  /\ announced' = <<Event("create", "none", InitialStatus, "none", 0)>>
  /\ starting' = TRUE
  /\ UNCHANGED <<kind, stamped, execution, listening, withdrawn, timers, call, calls,
                 contended, faults>>

(* Definitions named ..._Mutant stand for a plausible bug in the definition    *)
(* that follows them; no behaviour of the specification uses them.             *)

\* The client waits for the workflow's result instead of its start.
StartWorkflow_Mutant ==
  /\ starting
  /\ starting' = FALSE
  /\ execution' = "completed"
  /\ UNCHANGED <<kind, row, listening, withdrawn, timers, call, calls, contended, faults>>

\* StartWorkflow: a FOIA request may bring a deadline, which its workflow waits for.
StartWorkflow ==
  /\ starting
  /\ starting' = FALSE
  /\ execution' = "running"
  /\ listening' = TRUE
  /\ \/ kind = "foia_request"
        /\ timer' = [timer EXCEPT ![Deadline] = [state |-> "sleeping", from |-> "none"]]
     \/ UNCHANGED timer
  /\ UNCHANGED <<kind, row, withdrawn, notices, tries, call, calls, contended, faults>>

\* A failure to start it is logged and the case is left without a workflow.
StartWorkflowFails ==
  /\ starting
  /\ Fail
  /\ starting' = FALSE
  /\ UNCHANGED <<kind, row, execution, listening, withdrawn, timers, call, calls, contended>>

-----------------------------------------------------------------------------
(* A status change by a handler: read, validate, write.                      *)

\* The handler trusts a status it read when the case was created.
Begins_Mutant(h, to, role, op) ==
  /\ status # "none"
  /\ call[h].pc = "idle"
  /\ calls < MaxCalls
  /\ calls' = calls + 1
  /\ call' = [call EXCEPT ![h] = [pc |-> "read", op |-> op, no |-> calls + 1,
                                  seen |-> InitialStatus, to |-> to, role |-> role]]
  /\ contended' = (contended \/ Busy)
  /\ UNCHANGED <<kind, row, workflow, timers, faults>>

Begins(h, to, role, op) ==
  /\ status # "none"
  /\ call[h].pc = "idle"
  /\ calls < MaxCalls
  /\ calls' = calls + 1
  /\ call' = [call EXCEPT ![h] = [pc |-> "read", op |-> op, no |-> calls + 1,
                                  seen |-> status, to |-> to, role |-> role]]
  /\ contended' = (contended \/ Busy)
  /\ UNCHANGED <<kind, row, workflow, timers, faults>>

\* PATCH .../status reads the row; a request for the status it has is refused at once.
ReadForUpdate(h, to, role) ==
  /\ to # status
  /\ Begins(h, to, role, "update")

\* PATCH .../assign of a service request: the same, to "assigned".
ReadForAssign(h, role) ==
  /\ kind = "service_request"
  /\ Begins(h, "assigned", role, "assign")

Valid(h) == ValidateTransition(config, call[h].seen, call[h].to, call[h].role)

Accepted(h) == call' = [call EXCEPT ![h].pc = "accepted"]
Answered(h) == call' = [call EXCEPT ![h] = NoCall]

\* The update handler of a running workflow, for a transition it allows: a terminal
\* status completes the workflow, an expiring one starts a timer (permits only).
WorkflowAccepts(h) ==
  /\ call[h].pc = "read"
  /\ execution = "running"
  /\ Valid(h)
  /\ IF IsTerminal(config, call[h].to)
       THEN execution' = "closed" /\ UNCHANGED timer
       ELSE /\ UNCHANGED execution
            /\ timer' = IF kind = "permit" /\ AutoExpires(config, call[h].to)
                          THEN [timer EXCEPT ![call[h].no] =
                                  [state |-> "sleeping", from |-> call[h].to]]
                          ELSE timer

\* The update completes and the handler hears of it.
UpdateAccepted(h) ==
  /\ WorkflowAccepts(h)
  /\ Accepted(h)
  /\ UNCHANGED <<kind, row, starting, listening, withdrawn, notices, tries, calls, contended, faults>>

\* The update completes, but the call fails: the handler answers 422.
UpdateReplyLost(h) ==
  /\ WorkflowAccepts(h)
  /\ Fail
  /\ Answered(h)
  /\ UNCHANGED <<kind, row, starting, listening, withdrawn, notices, tries, calls, contended>>

\* The workflow refuses the transition; or it has closed and Temporal answers
\* "workflow execution already completed", which isWorkflowNotFound does not match.
UpdateRefused(h) ==
  /\ call[h].pc = "read"
  /\ \/ execution = "running" /\ ~Valid(h)
     \/ execution = "closed"
  /\ Answered(h)
  /\ UNCHANGED <<kind, row, workflow, timers, calls, contended, faults>>

\* The handler takes any error for "not found" and goes on as without a workflow.
TemporalUnavailable_Mutant(h) ==
  /\ call[h].pc = "read"
  /\ Fail
  /\ IF Valid(h) THEN Accepted(h) ELSE Answered(h)
  /\ UNCHANGED <<kind, row, workflow, timers, calls, contended>>

\* Temporal cannot be reached: an error like any other, the handler answers 422.
TemporalUnavailable(h) ==
  /\ call[h].pc = "read"
  /\ Fail
  /\ Answered(h)
  /\ UNCHANGED <<kind, row, workflow, timers, calls, contended>>

\* No execution under that id: never started, or purged.  One that has closed is found.
isWorkflowNotFound == execution \in {"none", "purged"}

\* The worker is asked over HTTP: it does not answer, and the handler answers 422, ...
validateHTTPFails(h) ==
  /\ call[h].pc = "read"
  /\ isWorkflowNotFound
  /\ Fail
  /\ Answered(h)
  /\ UNCHANGED <<kind, row, workflow, timers, calls, contended>>

\* ... or it decides.
ValidateHTTP(h) ==
  /\ call[h].pc = "read"
  /\ isWorkflowNotFound
  /\ IF Valid(h) THEN Accepted(h) ELSE Answered(h)
  /\ UNCHANGED <<kind, row, workflow, timers, calls, contended, faults>>

\* The statement names no status the row should have: it takes it over.
UpdateRow(to) ==
  /\ status' = to
  /\ stamped' = (stamped \/ Stamps(to))

\* The row and its event commit together, whatever the row's status is by now.
WriteRow(h) ==
  /\ call[h].pc = "accepted"
  /\ UpdateRow(call[h].to)
  /\ announced' = Append(announced, Event(call[h].op, call[h].seen, call[h].to,
                                          call[h].role, call[h].no))
  /\ Answered(h)
  /\ UNCHANGED <<kind, workflow, timers, calls, contended, faults>>

\* PATCH .../status writes the new status and the stamp it sets; PATCH .../assign the
\* status "assigned", which sets none.
WriteStatus(h) == call[h].op = "update" /\ WriteRow(h)
WriteAssign(h) == call[h].op = "assign" /\ WriteRow(h)

\* The event is written outside the transaction that fails.
WriteFails_Mutant(h) ==
  /\ call[h].pc = "accepted"
  /\ Fail
  /\ announced' = Append(announced, Event(call[h].op, call[h].seen, call[h].to,
                                          call[h].role, call[h].no))
  /\ Answered(h)
  /\ UNCHANGED <<kind, status, stamped, workflow, timers, calls, contended>>

\* Any error of the transaction, or the death of the service.
WriteFails(h) ==
  /\ call[h].pc = "accepted"
  /\ Fail
  /\ Answered(h)
  /\ UNCHANGED <<kind, row, workflow, timers, calls, contended>>

-----------------------------------------------------------------------------
(* The workflow's timers and activities.                                     *)

\* The coroutine returns unless the workflow has completed.
TimerFires_Mutant(t) ==
  /\ timer[t].state = "sleeping"
  /\ execution = "running"
  /\ timer' = [timer EXCEPT ![t].state = "done"]
  /\ UNCHANGED <<kind, row, workflow, notices, tries, call, calls, contended, faults>>

\* The timer outlives the workflow that started it.
TimerOutlives_Mutant(t) ==
  /\ timer[t].state = "sleeping"
  /\ timer' = [timer EXCEPT ![t].state = "scheduled"]
  /\ contended' = (contended \/ Busy)
  /\ UNCHANGED <<kind, row, workflow, notices, tries, call, calls, faults>>

\* The sleep ends and the workflow, still running, schedules the activity.
TimerFires(t) ==
  /\ timer[t].state = "sleeping"
  /\ execution = "running"
  /\ timer' = [timer EXCEPT ![t].state = "scheduled"]
  /\ contended' = (contended \/ Busy)
  /\ UNCHANGED <<kind, row, workflow, notices, tries, call, calls, faults>>

\* PermitActivities.UpdatePermitStatus writes "expired" over any status.
ExpiryCommits(t) ==
  /\ t # Deadline
  /\ timer[t].state = "scheduled"
  /\ status' = "expired"
  /\ announced' = Append(announced, Event("expire", timer[t].from, "expired", "system", t))
  /\ timer' = [timer EXCEPT ![t].state = "committed"]
  /\ UNCHANGED <<kind, stamped, workflow, notices, tries, call, calls, contended, faults>>

\* RecordsActivities.NotifyDeadlineExceeded commits its event and no status.
NoticeCommits ==
  /\ timer[Deadline].state = "scheduled"
  /\ notices' = notices + 1
  /\ timer' = [timer EXCEPT ![Deadline].state = "committed"]
  /\ UNCHANGED <<kind, row, workflow, tries, call, calls, contended, faults>>

\* An attempt fails, before its commit or after it (its report is lost); it is
\* repeated while the workflow is open and attempts are left.
AttemptFails(t) ==
  /\ timer[t].state \in {"scheduled", "committed"}
  /\ Fail
  /\ tries' = [tries EXCEPT ![t] = @ + 1]
  /\ timer' = [timer EXCEPT ![t].state =
                 IF execution = "running" /\ tries[t] + 1 < MaxAttempts
                   THEN "scheduled" ELSE "exhausted"]
  /\ UNCHANGED <<kind, row, workflow, notices, call, calls, contended>>

\* An attempt that has not begun when the workflow ends is never begun.
AttemptDropped(t) ==
  /\ timer[t].state = "scheduled"
  /\ execution # "running"
  /\ timer' = [timer EXCEPT ![t].state = "dropped"]
  /\ UNCHANGED <<kind, row, workflow, notices, tries, call, calls, contended, faults>>

\* The coroutine loops and schedules its activity again.
ActivityReturns_Mutant(t) ==
  /\ timer[t].state \in {"committed", "exhausted"}
  /\ timer' = [timer EXCEPT ![t].state = "scheduled"]
  /\ UNCHANGED <<kind, row, workflow, notices, tries, call, calls, contended, faults>>

\* The workflow learns of the end; after an expiry, successful or not, it completes.
ActivityReturns(t) ==
  /\ timer[t].state \in {"committed", "exhausted"}
  /\ timer' = [timer EXCEPT ![t].state = "done"]
  /\ execution' = IF t # Deadline /\ execution = "running" THEN "closed" ELSE execution
  /\ UNCHANGED <<kind, row, starting, listening, withdrawn, notices, tries, call, calls,
                 contended, faults>>

\* The first withdraw signal is consumed, and obeyed when it names the case's resident.
\* (Nothing in src/ sends one; ADR-0022 shows the call.)
WithdrawSignal ==
  /\ execution = "running" /\ listening
  /\ listening' = FALSE
  /\ \/ execution' = "closed" /\ withdrawn' = TRUE
     \/ UNCHANGED <<execution, withdrawn>>
  /\ UNCHANGED <<kind, row, starting, timers, call, calls, contended, faults>>

\* WorkflowExecutionTimeout ends the execution.
ExecutionTimeout ==
  /\ execution = "running"
  /\ Fail
  /\ execution' = "closed"
  /\ UNCHANGED <<kind, row, starting, listening, withdrawn, timers, call, calls, contended>>

\* Temporal forgets a closed execution after the namespace's retention period.
Purge ==
  /\ execution = "closed"
  /\ execution' = "purged"
  /\ UNCHANGED <<kind, row, starting, listening, withdrawn, timers, call, calls, contended, faults>>

-----------------------------------------------------------------------------

Creation == Create \/ StartWorkflow \/ StartWorkflowFails
HandlerStep(h) ==   \* a status no workflow knows is refused like any other that is not allowed
  \/ \E to \in StatusesOf(kind) \cap Requested, role \in Role : ReadForUpdate(h, to, role)
  \/ \E role \in Role : ReadForAssign(h, role)
  \/ UpdateAccepted(h) \/ UpdateReplyLost(h) \/ UpdateRefused(h)
  \/ TemporalUnavailable(h) \/ validateHTTPFails(h) \/ ValidateHTTP(h)
  \/ WriteStatus(h) \/ WriteAssign(h) \/ WriteFails(h)
TimerStep(t) == \/ TimerFires(t) \/ ExpiryCommits(t)
                \/ AttemptFails(t) \/ AttemptDropped(t) \/ ActivityReturns(t)
ExecutionStep == WithdrawSignal \/ ExecutionTimeout \/ Purge

Next ==
  \/ Creation
  \/ \E h \in Handler : HandlerStep(h)
  \/ \E t \in Timer : TimerStep(t)
  \/ NoticeCommits
  \/ ExecutionStep

\* What a timer does when nothing fails.
TimerRuns(t) ==
  TimerFires(t) \/ ExpiryCommits(t) \/ (t = Deadline /\ NoticeCommits) \/ ActivityReturns(t)

\* Temporal's timers are durable and its activities are retried, so a timer that is due
\* fires and a scheduled activity runs.  (At most one disjunct of TimerRuns(t) is ever
\* enabled, so this is fairness of each.)
TimerFairness == \A t \in Timer : WF_vars(TimerRuns(t))

Spec == Init /\ [][Next]_vars /\ TimerFairness

-----------------------------------------------------------------------------

Change == [op : {"create", "update", "assign", "expire"},
           from : Status \cup {"none"}, to : Status,
           role : Role \cup {"none", "system"}, by : Timer]

Call == [pc : {"idle", "read", "accepted"}, op : {"none", "update", "assign"}, no : Timer,
         seen : Status \cup {"none"}, to : Status \cup {"none"}, role : Role \cup {"none"}]

TimerRecord == [state : TimerState, from : Status \cup {"none"}]

TypeOK ==
  /\ kind \in Kind
  /\ status \in Status \cup {"none"}
  /\ stamped \in BOOLEAN
  /\ announced \in Seq(Change)
  /\ notices \in Nat
  /\ starting \in BOOLEAN /\ listening \in BOOLEAN /\ withdrawn \in BOOLEAN
  /\ execution \in {"none", "running", "closed", "purged"}
  /\ call \in [Handler -> Call]
  /\ calls \in Nat
  /\ timer \in [Timer -> TimerRecord]
  /\ tries \in [Timer -> Nat]
  /\ contended \in BOOLEAN
  /\ faults \in Nat

\* What a handler and a timer know of their own work, which the proofs rest on: an
\* accepted change is allowed for what the handler read, and a timer that is not the
\* deadline belongs to a permit's expiring status.
WorkInv ==
  /\ \A h \in Handler :
       /\ call[h].pc # "idle" => /\ call[h].op # "none" /\ call[h].seen # "none"
                                 /\ call[h].to # "none" /\ status # "none"
       /\ call[h].pc = "accepted" => Valid(h)
  /\ \A t \in Timer : (t # Deadline /\ timer[t].state # "none") =>
       kind = "permit" /\ AutoExpires(config, timer[t].from) /\ timer[t].from # "none"

Changes == {i \in DOMAIN announced : announced[i].op # "create"}

\* The event history of a case reproduces its row, whatever interleaves and fails:
\* the last event carries the row's status, and issued_at / closed_at is set exactly
\* when some handler's event announced a status that sets it.
RowMatchesEvents ==
  /\ status = IF announced = <<>> THEN "none" ELSE announced[Len(announced)].to
  /\ stamped <=> \E i \in Changes : announced[i].op # "expire" /\ Stamps(announced[i].to)

\* The permits' configuration lets the system expire what it lets expire.
ExpiryAllowed ==
  "permit" \in Kind =>
     \A s \in Status : AutoExpires(Config["permit"], s) =>
        ValidateTransition(Config["permit"], s, "expired", "system")

\* The configurations in which a case that has come to an end stays there: the initial
\* status is not terminal, no transition leads out of the terminal ones, and a permit that
\* may expire can do nothing but end.
OrderlyEnds ==
  \A k \in Kind :
    LET c == Config[k]
        Expires(s) == k = "permit" /\ AutoExpires(c, s)
    IN  /\ ~IsTerminal(c, c.initial) /\ ~Expires(c.initial)
        /\ k = "permit" => IsTerminal(c, "expired")
        /\ \A s \in Status : Expires(s) => ~IsTerminal(c, s)
        /\ \A i \in DOMAIN c.transitions :
             LET e == c.transitions[i]
             IN  IsTerminal(c, e.from) \/ Expires(e.from) => IsTerminal(c, e.to)

\* Every status change that was ever written is a transition the configuration gives
\* to the role it was made with - though not always from the status the row had.
AnnouncedLegal ==
  \A i \in Changes :
    ValidateTransition(config, announced[i].from, announced[i].to, announced[i].role)

\* Without overlapping operations and without failures the history is a path: each
\* change starts from the status the one before it left.
SerialHistory ==
  (~contended /\ faults = 0) =>
     \A i \in Changes : i > 1 /\ announced[i].from = announced[i - 1].to

\* Whatever overlaps and fails, who looks at row and events sees the ledger of module
\* CaseLedger: every change is a transition allowed for its role from a status the case had
\* at some time, no request changes it twice, and an undisturbed change starts from the
\* status the row has.
Ledger == INSTANCE CaseLedger
  WITH events <- announced, disturbed <- contended \/ faults > 0, Number <- Timer

ImplementsLedger == Ledger!Spec

\* As long as operations have not overlapped, row and workflow agree between them, whatever
\* failed: a workflow that still runs has not missed the end of its case, and has a timer
\* asleep if its permit is in a status that expires.  Only a failure or a withdrawal ends a
\* workflow before its case.
SerialAgreement ==
  (~contended /\ ~Busy /\ status # "none") =>
     /\ execution = "running" =>
          /\ ~IsTerminal(config, status)
          /\ (kind = "permit" /\ AutoExpires(config, status)) =>
               \E t \in Timer : timer[t].state = "sleeping" /\ timer[t].from = status
     /\ (faults = 0 /\ ~withdrawn /\ ~IsTerminal(config, status)) => execution = "running"

\* A request writes at most once; an activity repeats its event only after an attempt
\* of it failed.
RepeatsNeedRetries ==
  /\ notices <= 1 + tries[Deadline]
  /\ \A t \in Timer :
       /\ Cardinality({i \in Changes : announced[i].op = "expire" /\ announced[i].by = t})
            <= 1 + tries[t]
       /\ Cardinality({i \in Changes : announced[i].op # "expire" /\ announced[i].by = t}) <= 1

Performed(t) ==
  IF t = Deadline THEN notices > 0
  ELSE \E i \in Changes : announced[i].op = "expire" /\ announced[i].by = t

\* A timer does its work in the end - the permit expires, the deadline is announced -
\* unless every attempt of its activity failed, or the workflow ended before an attempt
\* was made, or between a failed attempt and the next.
TimersFire ==
  \A t \in Timer :
    timer[t].state = "sleeping" ~>
      \/ Performed(t)
      \/ tries[t] >= MaxAttempts
      \/ execution # "running" /\ (timer[t].state \in {"sleeping", "dropped"} \/ tries[t] > 0)

\* docs/services.md: transitions are validated before any change.  A change of the row
\* is a transition of the configuration.
TransitionsFollowConfig ==
  [][(status # "none" /\ status' # status) =>
       \E role \in Role : ValidateTransition(config, status, status', role)]_vars

\* A case has ended when its status is terminal, its workflow does not run and is not
\* being started, no activity is at work, and every handler that is under way has read a
\* terminal status.
Ended ==
  /\ IsTerminal(config, status)
  /\ ~starting /\ execution # "running"
  /\ \A t \in Timer : timer[t].state \notin {"scheduled", "committed", "exhausted"}
  /\ \A h \in Handler : call[h].pc # "idle" => IsTerminal(config, call[h].seen)

\* What has ended stays so, whatever overlapped and failed on the way there: timers left
\* asleep never fire, and no later request brings the case back.
EndedForGood == [][Ended => Ended']_vars
=============================================================================
